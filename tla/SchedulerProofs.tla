-------------------------- MODULE SchedulerProofs --------------------------
(***************************************************************************)
(* The invariants of Scheduler hold for every number of workers, slots and *)
(* application threads, every nesting and every set of calls.              *)
(*                                                                         *)
(* The first half of the inductive invariant, CoreInv, is about one step   *)
(* at a time.  The second half, what a slot and its handle go through and  *)
(* the order in which the pool is shut down, is proved over the effects a  *)
(* step can have, in which the actions of Scheduler are summed up once.    *)
(* Then the scheduler implements CommandService: every effect of a step is *)
(* a step of the service, or none at all.                                  *)
(***************************************************************************)
EXTENDS SchedulerRefinement, TLAPS

\* Main and the workers are threads; main is not a worker.
LEMMA MainIsThread == Main \in Threads /\ Main \in Registered /\ Main \notin Workers
BY BoundsAssumption DEF Main, Threads, Registered, Workers

LEMMA WorkersAreThreads == \A t \in Workers : t \in Threads /\ t \in Registered
BY BoundsAssumption DEF Threads, Registered, Workers

\* The initial values have the types of their variables.
LEMMA NoCallType == NoCall \in CallType
BY BoundsAssumption DEF NoCall, CallType, WaitingOps

LEMMA NoCallFields == NoCall.op = "none" /\ NoCall.w = 0 /\ NoCall.cmd = NoCommand
BY DEF NoCall

LEMMA OpsDistinct == "run" \notin WaitingOps /\ "none" \notin WaitingOps
BY DEF WaitingOps

LEMMA FreeSlotType == FreeSlot \in SlotType
BY BoundsAssumption DEF FreeSlot, SlotType, Signals

\* Init has the right types.
LEMMA TypeInit == Init => TypeOK
<1> SUFFICES ASSUME Init PROVE TypeOK
    OBVIOUS
<1>1. workload \in [Slots -> SlotType]
    BY FreeSlotType DEF Init
<1>2. stack \in [Threads -> [Levels -> CallType]]
    BY NoCallType DEF Init
<1>3. depth \in [Threads -> 0..MaxDepth] /\ asleep \subseteq Threads
    BY BoundsAssumption DEF Init
<1>4. pc \in [Threads -> Places] /\ pos \in [Threads -> Nat \ {0}] /\ LoopOK
    BY BoundsAssumption DEF Init, Places, LoopOK, Slots
<1>5. pool \in PoolType /\ gens \in 0..MaxGen
    BY BoundsAssumption DEF Init, PoolType
<1>6. \A t \in Threads, l \in Levels :
        /\ l <= depth[t] => stack[t][l].op # "none" /\ stack[t][l].w \in Slots
        /\ l > depth[t] => stack[t][l] = NoCall
    BY BoundsAssumption DEF Init, Levels
<1> QED
    BY <1>1, <1>2, <1>3, <1>4, <1>5, <1>6 DEF TypeOK

---------------------------------------------------------------------------
(* Types *)

\* The call on top of a nonempty stack.
LEMMA TopType ==
    ASSUME TypeOK, NEW t \in Threads, depth[t] > 0
    PROVE  /\ depth[t] \in Levels
           /\ Top(t) \in CallType
           /\ Top(t).w \in Slots
           /\ Top(t).op # "none"
<1>1. depth[t] \in Levels
    BY BoundsAssumption DEF TypeOK, Levels
<1> QED
    BY <1>1 DEF TypeOK, Top

\* The calls in progress are for slots, and lie below the depth of their stack.
LEMMA CallSlot ==
    ASSUME TypeOK, NEW u \in Threads, NEW l \in Levels, stack[u][l].op # "none"
    PROVE  stack[u][l].w \in Slots /\ stack[u][l].w # 0 /\ l <= depth[u]
<1>1. ~(l > depth[u])
    BY NoCallFields DEF TypeOK
<1>2. l <= depth[u]
    BY <1>1, BoundsAssumption DEF TypeOK, Levels
<1>3. stack[u][l].w \in Slots
    BY <1>2 DEF TypeOK
<1> QED
    BY <1>2, <1>3 DEF Slots

\* Putting a call on a stack keeps the shape of the stacks.
LEMMA PushType ==
    ASSUME TypeOK, NEW t \in Threads, NEW call \in CallType, Push(t, call),
           call.op # "none", call.w \in Slots
    PROVE  /\ stack' \in [Threads -> [Levels -> CallType]]
           /\ depth' \in [Threads -> 0..MaxDepth]
           /\ \A u \in Threads, l \in Levels :
                /\ l <= depth'[u] => stack'[u][l].op # "none" /\ stack'[u][l].w \in Slots
                /\ l > depth'[u] => stack'[u][l] = NoCall
<1>1. depth[t] \in 0..MaxDepth /\ depth[t] + 1 \in Levels
    BY BoundsAssumption DEF TypeOK, Push, Levels
<1>2. stack' \in [Threads -> [Levels -> CallType]] /\ depth' \in [Threads -> 0..MaxDepth]
    BY <1>1, BoundsAssumption DEF TypeOK, Push, Levels
<1>3. ASSUME NEW u \in Threads, NEW l \in Levels
      PROVE  /\ l <= depth'[u] => stack'[u][l].op # "none" /\ stack'[u][l].w \in Slots
             /\ l > depth'[u] => stack'[u][l] = NoCall
    <2>1. CASE u = t /\ l = depth[t] + 1
        BY <1>1, <2>1 DEF TypeOK, Push
    <2>2. CASE u # t \/ l # depth[t] + 1
        <3>1. stack'[u][l] = stack[u][l]
            BY <1>1, <2>2 DEF TypeOK, Push
        <3>2. l <= depth'[u] <=> l <= depth[u]
            BY <1>1, <2>2, BoundsAssumption DEF TypeOK, Push, Levels
        <3> QED
            BY <3>1, <3>2, <1>2, BoundsAssumption DEF TypeOK, Levels
    <2> QED
        BY <2>1, <2>2
<1> QED
    BY <1>2, <1>3

\* The command a callback takes is the first of the queue, which loses only that one.
LEMMA TakeCommand ==
    ASSUME TypeOK, NEW w \in Slots, workload[w].queue # <<>>
    PROVE  /\ Head(workload[w].queue) \in Addresses
           /\ Head(workload[w].queue) = workload[w].queue[1]
           /\ Tail(workload[w].queue) \in Seq(Addresses)
           /\ Len(workload[w].queue) \in Nat \ {0}
           /\ Len(Tail(workload[w].queue)) = Len(workload[w].queue) - 1
           /\ \A i \in 1..Len(Tail(workload[w].queue)) :
                /\ i + 1 \in 1..Len(workload[w].queue)
                /\ Tail(workload[w].queue)[i] = workload[w].queue[i + 1]
<1>1. workload[w].queue \in Seq(Addresses)
    BY DEF TypeOK, SlotType
<1> QED
    BY <1>1

\* The call a callback is put on the stack as.
LEMMA RunCallType ==
    ASSUME TypeOK, NEW w \in Slots, NEW cmd \in Addresses \cup {NoCommand}
    PROVE  /\ RunCall(w, Phase(w), cmd) \in CallType
           /\ RunCall(w, Phase(w), cmd).op = "run"
           /\ RunCall(w, Phase(w), cmd).w = w
           /\ RunCall(w, Phase(w), cmd).gen = workload[w].gen
           /\ RunCall(w, Phase(w), cmd).phase = Phase(w)
           /\ RunCall(w, Phase(w), cmd).cmd = cmd
<1>1. workload[w].gen \in 0..MaxGen /\ w \in 0..NumSlots
    BY BoundsAssumption DEF TypeOK, SlotType, Slots
<1>2. Phase(w) \in {"", "INIT", "FREE", "WORK"}
    BY DEF Phase
<1> QED
    BY <1>1, <1>2, NoCallType DEF RunCall, NoCall, CallType

\* What entering a callback does: calls is the stack of t it is put on.
LEMMA EnterEffect ==
    ASSUME TypeOK, NEW t \in Threads, NEW w \in Slots, NEW calls \in [Levels -> CallType],
           EnterCallback(t, w, calls)
    PROVE  \E cmd \in Addresses \cup {NoCommand} :
        /\ Own(t, w) /\ workload[w].signal # "INACTIVE"
        /\ depth[t] + 1 \in Levels
        /\ depth' = [depth EXCEPT ![t] = @ + 1]
        /\ stack' = [stack EXCEPT ![t] =
                        [calls EXCEPT ![depth[t] + 1] = RunCall(w, Phase(w), cmd)]]
        /\ \/ cmd = NoCommand /\ workload' = workload
           \/ /\ workload[w].queue # <<>>
              /\ cmd = Head(workload[w].queue)
              /\ workload' = [workload EXCEPT ![w].queue = Tail(@)]
<1> DEFINE takes == Phase(w) = "WORK" /\ workload[w].queue # <<>>
<1> DEFINE cmd == IF takes THEN Head(workload[w].queue) ELSE NoCommand
<1>1. cmd \in Addresses \cup {NoCommand}
    BY TakeCommand
<1>2. depth[t] + 1 \in Levels
    BY BoundsAssumption DEF EnterCallback, TypeOK, Levels
<1>3. Own(t, w) /\ workload[w].signal # "INACTIVE"
    BY DEF EnterCallback, Skips
<1> QED
    BY <1>1, <1>2, <1>3 DEF EnterCallback

\* The types after a callback was entered.
LEMMA EnterType ==
    ASSUME TypeOK, NEW t \in Threads, NEW w \in Slots, NEW calls \in [Levels -> CallType],
           EnterCallback(t, w, calls),
           \A l \in Levels : /\ l <= depth[t] => calls[l].op # "none" /\ calls[l].w \in Slots
                             /\ l > depth[t] => calls[l] = NoCall
    PROVE  /\ workload' \in [Slots -> SlotType]
           /\ stack' \in [Threads -> [Levels -> CallType]]
           /\ depth' \in [Threads -> 0..MaxDepth]
           /\ \A u \in Threads, l \in Levels :
                /\ l <= depth'[u] => stack'[u][l].op # "none" /\ stack'[u][l].w \in Slots
                /\ l > depth'[u] => stack'[u][l] = NoCall
<1>1. PICK cmd \in Addresses \cup {NoCommand} :
        /\ depth[t] + 1 \in Levels
        /\ depth' = [depth EXCEPT ![t] = @ + 1]
        /\ stack' = [stack EXCEPT ![t] =
                        [calls EXCEPT ![depth[t] + 1] = RunCall(w, Phase(w), cmd)]]
        /\ \/ cmd = NoCommand /\ workload' = workload
           \/ /\ workload[w].queue # <<>>
              /\ workload' = [workload EXCEPT ![w].queue = Tail(@)]
    BY EnterEffect
<1> DEFINE call == RunCall(w, Phase(w), cmd)
<1>2. call \in CallType /\ call.op = "run" /\ call.w = w
    BY RunCallType
<1> HIDE DEF call
<1>3. workload' \in [Slots -> SlotType]
    <2>1. CASE workload' = workload
        BY <2>1 DEF TypeOK
    <2>2. CASE workload[w].queue # <<>> /\ workload' = [workload EXCEPT ![w].queue = Tail(@)]
        <3>1. PICK slot \in SlotType : slot = workload[w]
            BY DEF TypeOK
        <3>2. Tail(slot.queue) \in Seq(Addresses)
            BY <2>2, <3>1, TakeCommand
        <3>3. PICK new : new = [slot EXCEPT !.queue = Tail(@)]
            OBVIOUS
        <3>4. new \in SlotType
            BY <3>2, <3>3 DEF SlotType
        <3>5. workload' = [workload EXCEPT ![w] = new]
            BY <2>2, <3>1, <3>3 DEF TypeOK
        <3> QED
            BY <3>4, <3>5 DEF TypeOK
    <2> QED
        BY <1>1, <2>1, <2>2
<1>4. stack' \in [Threads -> [Levels -> CallType]] /\ depth' \in [Threads -> 0..MaxDepth]
    BY <1>1, <1>2, BoundsAssumption DEF TypeOK, Levels, call
<1>5. ASSUME NEW u \in Threads, NEW l \in Levels
      PROVE  /\ l <= depth'[u] => stack'[u][l].op # "none" /\ stack'[u][l].w \in Slots
             /\ l > depth'[u] => stack'[u][l] = NoCall
    <2>0. depth[t] \in 0..MaxDepth /\ l \in Nat
        BY BoundsAssumption DEF TypeOK, Levels
    <2>1. CASE u # t
        BY <1>1, <2>1 DEF TypeOK
    <2>2. CASE u = t /\ l = depth[t] + 1
        BY <1>1, <1>2, <2>0, <2>2 DEF TypeOK, call
    <2>3. CASE u = t /\ l # depth[t] + 1
        <3>1. stack'[u][l] = calls[l] /\ depth'[u] = depth[t] + 1
            BY <1>1, <2>3 DEF TypeOK
        <3> QED
            BY <3>1, <2>0, <2>3
    <2> QED
        BY <2>1, <2>2, <2>3
<1> QED
    BY <1>3, <1>4, <1>5

\* The types after a call was taken off a stack.
LEMMA PopType ==
    ASSUME TypeOK, NEW t \in Threads, depth[t] > 0, Pop(t)
    PROVE  /\ stack' \in [Threads -> [Levels -> CallType]]
           /\ depth' \in [Threads -> 0..MaxDepth]
           /\ \A u \in Threads, l \in Levels :
                /\ l <= depth'[u] => stack'[u][l].op # "none" /\ stack'[u][l].w \in Slots
                /\ l > depth'[u] => stack'[u][l] = NoCall
<1>1. depth[t] \in Levels /\ depth[t] \in 1..MaxDepth
    BY BoundsAssumption DEF TypeOK, Levels
<1>2. stack' \in [Threads -> [Levels -> CallType]] /\ depth' \in [Threads -> 0..MaxDepth]
    BY <1>1, NoCallType, BoundsAssumption DEF TypeOK, Pop, Levels
<1>3. ASSUME NEW u \in Threads, NEW l \in Levels
      PROVE  /\ l <= depth'[u] => stack'[u][l].op # "none" /\ stack'[u][l].w \in Slots
             /\ l > depth'[u] => stack'[u][l] = NoCall
    BY <1>1, BoundsAssumption DEF TypeOK, Pop, Levels
<1> QED
    BY <1>2, <1>3

---------------------------------------------------------------------------
(* Steps that leave the calls alone *)

\* Nothing of the table or the stacks changes; sleepers may be woken, and who falls asleep
\* has something to wait for.
LEMMA QuietStep ==
    ASSUME CoreInv, UNCHANGED <<workload, stack, depth>>,
           \A u \in asleep' \ asleep : /\ depth[u] > 0
                                      /\ Top(u).op \in WaitingOps
                                      /\ ~Satisfied(Top(u))
                                      /\ workload[Top(u).w].owner # u
    PROVE  CallsInv'
<1>0. workload' = workload /\ stack' = stack /\ depth' = depth
    OBVIOUS
<1>1. CallbackOnOwner' /\ FreeIsLast' /\ SlotPinned' /\ FreeSlotClean' /\ LoopIsForeign'
    BY DEF CoreInv, CallsInv, CallbackOnOwner, FreeIsLast, SlotPinned, FreeSlotClean,
           LoopIsForeign
<1>2. NoDanglingCommand'
    <2>1. \A w, a : Pending(w, a)' <=> Pending(w, a)
        BY <1>0, Zenon DEF Pending
    <2> QED
        BY <1>0, <2>1 DEF CoreInv, CallsInv, NoDanglingCommand
<1>3. CommandOnce'
    BY <1>0 DEF CoreInv, CallsInv, CommandOnce
<1>4. NoLostWakeup'
    BY DEF CoreInv, CallsInv, NoLostWakeup, Top, Satisfied
<1> QED
    BY <1>1, <1>2, <1>3, <1>4 DEF CallsInv

---------------------------------------------------------------------------
(* Steps that put a waiting call on a stack *)

\* Where the stacks differ after a push.
LEMMA PushEffect ==
    ASSUME TypeOK, NEW t \in Threads, NEW call \in CallType, Push(t, call)
    PROVE  /\ depth[t] + 1 \in Levels
           /\ stack[t][depth[t] + 1] = NoCall
           /\ stack'[t][depth[t] + 1] = call
           /\ \A u \in Threads, l \in Levels :
                (u # t \/ l # depth[t] + 1) => stack'[u][l] = stack[u][l]
           /\ depth'[t] = depth[t] + 1
           /\ \A u \in Threads \ {t} : depth'[u] = depth[u]
           /\ \A u \in Threads : depth[u] > 0 => depth[u] \in Levels
<1>1. depth[t] \in 0..MaxDepth /\ depth[t] + 1 \in Levels
    BY BoundsAssumption DEF TypeOK, Push, Levels
<1>2. stack[t][depth[t] + 1] = NoCall
    BY <1>1 DEF TypeOK
<1>3. \A u \in Threads : depth[u] > 0 => depth[u] \in Levels
    BY BoundsAssumption DEF TypeOK, Levels
<1> QED
    BY <1>1, <1>2, <1>3 DEF TypeOK, Push

\* The fields of a waiting call.
LEMMA WaitingCallType ==
    ASSUME NEW op \in WaitingOps, NEW w \in Slots, NEW gen \in 0..MaxGen,
           NEW state \in {"enter", "loop"}
    PROVE  /\ WaitingCall(op, w, gen, state) \in CallType
           /\ WaitingCall(op, w, gen, state).op = op
           /\ WaitingCall(op, w, gen, state).w = w
           /\ WaitingCall(op, w, gen, state).gen = gen
           /\ WaitingCall(op, w, gen, state).state = state
           /\ WaitingCall(op, w, gen, state).cmd = NoCommand
<1>1. w \in 0..NumSlots
    BY BoundsAssumption DEF Slots
<1> QED
    BY <1>1, NoCallType DEF WaitingCall, NoCall, CallType

\* A thread that sleeps does not execute application code.
LEMMA CallerIsAwake ==
    ASSUME CoreInv, NEW t \in Threads, InApplication(t)
    PROVE  t \notin asleep
BY DEF CoreInv, CallsInv, NoLostWakeup, InApplication, WaitingOps

---------------------------------------------------------------------------
(* Steps that enter and leave no callback *)

\* No callback begins: those in progress stay below calls that do not concern a
\* workload being freed, and their slots stay theirs.
LEMMA CallbacksKept ==
    ASSUME CoreInv,
           \A w \in Slots :
             (workload[w].signal # "INACTIVE"
              /\ \E u \in Threads, l \in Levels : stack'[u][l].op = "run" /\ stack'[u][l].w = w) =>
                /\ workload'[w].signal # "INACTIVE"
                /\ workload'[w].owner = workload[w].owner
                /\ workload'[w].gen = workload[w].gen
                /\ workload[w].deactivate => workload'[w].deactivate,
           \A u \in Threads, l \in Levels :
             /\ stack'[u][l].op = "run" => stack'[u][l] = stack[u][l]
             /\ \/ stack'[u][l].w \in {stack[u][l].w, 0}
                \/ ~FreedBy(u, stack'[u][l].w)
    PROVE  CallbackOnOwner' /\ FreeIsLast'
<1>0. TypeOK /\ CallsInv
    BY DEF CoreInv
<1>1. ASSUME NEW u \in Threads, NEW l \in Levels, stack'[u][l].op = "run"
      PROVE  /\ stack'[u][l] = stack[u][l]
             /\ stack[u][l].w \in Slots
             /\ stack[u][l].w # 0
             /\ workload[stack[u][l].w].signal # "INACTIVE"
             /\ workload[stack[u][l].w].owner = u
             /\ workload[stack[u][l].w].gen = stack[u][l].gen
    <2>1. stack'[u][l] = stack[u][l] /\ stack[u][l].op = "run"
        BY <1>1
    <2>2. stack[u][l].w \in Slots /\ stack[u][l].w # 0
        BY <1>0, <2>1, CallSlot
    <2> QED
        BY <1>0, <2>1, <2>2 DEF CallsInv, CallbackOnOwner
<1>2. CallbackOnOwner'
    <2> SUFFICES ASSUME NEW u \in Threads, NEW l \in Levels, stack'[u][l].op = "run"
                 PROVE  /\ workload'[stack'[u][l].w].signal # "INACTIVE"
                        /\ workload'[stack'[u][l].w].owner = u
                        /\ workload'[stack'[u][l].w].gen = stack'[u][l].gen
        BY DEF CallbackOnOwner
    <2> QED
        BY <1>1
<1>3. FreeIsLast'
    <2> SUFFICES ASSUME NEW u \in Threads, NEW l \in Levels,
                        stack'[u][l].op = "run", stack'[u][l].phase = "FREE"
                 PROVE  /\ workload'[stack'[u][l].w].deactivate
                        /\ \A v \in Threads, m \in Levels :
                             (stack'[v][m].op = "run" /\ stack'[v][m].w = stack'[u][l].w)
                                => v = u /\ m = l
                        /\ \A m \in Levels : m > l => stack'[u][m].w # stack'[u][l].w
        BY DEF FreeIsLast
    <2>1. /\ stack'[u][l] = stack[u][l] /\ stack[u][l].w \in Slots /\ stack[u][l].w # 0
          /\ workload[stack[u][l].w].signal # "INACTIVE"
        BY <1>1
    <2>2. /\ workload[stack[u][l].w].deactivate
          /\ \A v \in Threads, m \in Levels :
               (stack[v][m].op = "run" /\ stack[v][m].w = stack[u][l].w) => v = u /\ m = l
          /\ \A m \in Levels : m > l => stack[u][m].w # stack[u][l].w
        BY <1>0, <2>1 DEF CallsInv, FreeIsLast
    <2>3. ASSUME NEW v \in Threads, NEW m \in Levels,
                 stack'[v][m].op = "run", stack'[v][m].w = stack'[u][l].w
          PROVE  v = u /\ m = l
        BY <1>1, <2>1, <2>2, <2>3
    <2>4. ASSUME NEW m \in Levels, m > l
          PROVE  stack'[u][m].w # stack'[u][l].w
        <3>1. FreedBy(u, stack[u][l].w)
            BY <2>1 DEF FreedBy
        <3> QED
            BY <2>1, <2>2, <2>4, <3>1
    <2> QED
        BY <2>1, <2>2, <2>3, <2>4
<1> QED
    BY <1>2, <1>3

\* The slots that calls wait for are neither reused nor given to another thread.
LEMMA WaitersKept ==
    ASSUME CoreInv,
           \A w \in Slots :
             \/ /\ workload'[w].owner = workload[w].owner
                /\ workload'[w].gen = workload[w].gen
                /\ workload[w].signal = "INACTIVE" => workload'[w].signal = "INACTIVE"
             \/ workload'[w].signal = "INACTIVE" /\ workload'[w].owner = NoThread
             \/ ~Waiters(w),
           \A u \in Threads, l \in Levels : stack'[u][l].op \in WaitingOps =>
             /\ stack'[u][l].w \in Slots
             /\ \/ /\ stack[u][l].op \in WaitingOps
                   /\ stack'[u][l].w = stack[u][l].w
                   /\ stack'[u][l].gen = stack[u][l].gen
                \/ stack'[u][l].gen = workload'[stack'[u][l].w].gen
             /\ (stack'[u][l].op # "execute" /\ stack'[u][l].state = "loop") =>
                  \/ stack'[u][l] = stack[u][l]
                  \/ workload'[stack'[u][l].w].owner # u
    PROVE  SlotPinned' /\ LoopIsForeign'
<1>0. TypeOK /\ CallsInv
    BY DEF CoreInv
<1>1. SlotPinned'
    <2> SUFFICES ASSUME NEW u \in Threads, NEW l \in Levels, stack'[u][l].op \in WaitingOps,
                        stack'[u][l].gen # workload'[stack'[u][l].w].gen
                 PROVE  workload'[stack'[u][l].w].signal = "INACTIVE"
        BY DEF SlotPinned
    <2>1. /\ stack[u][l].op \in WaitingOps
          /\ stack'[u][l].w = stack[u][l].w
          /\ stack'[u][l].gen = stack[u][l].gen
          /\ stack[u][l].w \in Slots
        OBVIOUS
    <2>2. Waiters(stack[u][l].w)
        BY <2>1 DEF Waiters
    <2>3. \/ workload[stack[u][l].w].signal = "INACTIVE"
          \/ workload[stack[u][l].w].gen = stack[u][l].gen
        BY <1>0, <2>1 DEF CallsInv, SlotPinned
    <2> QED
        BY <2>1, <2>2, <2>3
<1>2. LoopIsForeign'
    <2> SUFFICES ASSUME NEW u \in Threads, NEW l \in Levels,
                        stack'[u][l].op \in WaitingOps \ {"execute"}, stack'[u][l].state = "loop"
                 PROVE  workload'[stack'[u][l].w].owner # u
        BY DEF LoopIsForeign
    <2>1. CASE stack'[u][l] = stack[u][l]
        <3>1. Waiters(stack[u][l].w) /\ stack[u][l].w \in Slots
            BY <2>1 DEF Waiters
        <3>2. workload[stack[u][l].w].owner # u
            BY <1>0, <2>1 DEF CallsInv, LoopIsForeign
        <3> QED
            BY <2>1, <3>1, <3>2, ThreadsAssumption
    <2>2. CASE workload'[stack'[u][l].w].owner # u
        BY <2>2
    <2> QED
        BY <2>1, <2>2
<1> QED
    BY <1>1, <1>2

\* No command is added, taken or answered.
LEMMA CommandsKept ==
    ASSUME CoreInv,
           \A w \in Slots :
             /\ workload'[w].queue = workload[w].queue
             /\ workload[w].signal # "INACTIVE" => workload'[w].gen = workload[w].gen,
           \A u \in Threads, l \in Levels :
             /\ stack'[u][l].cmd = stack[u][l].cmd
             /\ stack[u][l].cmd # NoCommand => stack'[u][l] = stack[u][l]
             /\ (/\ stack[u][l].op = "execute" /\ stack[u][l].state = "loop"
                 /\ workload[stack[u][l].w].signal # "INACTIVE")
                    => stack'[u][l] = stack[u][l]
    PROVE  NoDanglingCommand' /\ CommandOnce'
<1>0. TypeOK /\ CallsInv
    BY DEF CoreInv
<1>1. ASSUME NEW w \in Slots, workload[w].signal # "INACTIVE", NEW a \in Addresses, Pending(w, a)
      PROVE  Pending(w, a)'
    <2>1. PICK u \in Threads, l \in Levels : a = <<u, l>>
        BY DEF Addresses
    <2>2. /\ stack[u][l].op = "execute" /\ stack[u][l].state = "loop" /\ stack[u][l].w = w
        BY <1>1, <2>1 DEF Pending
    <2>3. stack'[u][l] = stack[u][l]
        BY <1>1, <2>2
    <2> QED
        BY <1>1, <2>1, <2>3 DEF Pending
<1>2. \A w \in Slots : \A i \in 1..Len(workload[w].queue) :
        workload[w].queue[i] \in Addresses /\ workload[w].signal # "INACTIVE"
    BY <1>0 DEF TypeOK, SlotType, CallsInv, FreeSlotClean
<1>3. \A u \in Threads, l \in Levels : stack[u][l].cmd # NoCommand =>
        /\ stack[u][l].cmd \in Addresses
        /\ stack[u][l].op = "run"
        /\ stack[u][l].w \in Slots
        /\ workload[stack[u][l].w].signal # "INACTIVE"
    <2> SUFFICES ASSUME NEW u \in Threads, NEW l \in Levels, stack[u][l].cmd # NoCommand
                 PROVE  /\ stack[u][l].cmd \in Addresses
                        /\ stack[u][l].op = "run"
                        /\ stack[u][l].w \in Slots
                        /\ workload[stack[u][l].w].signal # "INACTIVE"
        OBVIOUS
    <2>1. stack[u][l] \in CallType
        BY <1>0 DEF TypeOK
    <2>2. stack[u][l].op = "run"
        BY <1>0 DEF CallsInv, NoDanglingCommand
    <2>3. stack[u][l].w \in Slots
        BY <1>0, <2>2, CallSlot
    <2> QED
        BY <1>0, <2>1, <2>2, <2>3 DEF CallType, CallsInv, CallbackOnOwner
<1>4. NoDanglingCommand'
    <2>1. ASSUME NEW w \in Slots, NEW i \in 1..Len(workload'[w].queue)
          PROVE  Pending(w, workload[w].queue[i])'
        BY <1>0, <1>1, <1>2 DEF CallsInv, NoDanglingCommand
    <2>2. ASSUME NEW u \in Threads, NEW l \in Levels, stack'[u][l].cmd # NoCommand
          PROVE  stack'[u][l].op = "run" /\ Pending(stack[u][l].w, stack[u][l].cmd)'
        BY <1>0, <1>1, <1>3, <2>2 DEF CallsInv, NoDanglingCommand
    <2> QED
        BY <2>1, <2>2 DEF NoDanglingCommand
<1>5. CommandOnce'
    <2>1. ASSUME NEW w \in Slots, NEW i \in 1..Len(workload'[w].queue),
                 NEW j \in 1..Len(workload'[w].queue),
                 workload'[w].queue[i] = workload'[w].queue[j]
          PROVE  i = j
        BY <1>0, <2>1 DEF CallsInv, CommandOnce
    <2>2. ASSUME NEW u \in Threads, NEW l \in Levels, stack'[u][l].cmd # NoCommand
          PROVE  /\ \A w \in Slots : \A i \in 1..Len(workload'[w].queue) :
                       workload'[w].queue[i] # stack'[u][l].cmd
                 /\ \A v \in Threads, m \in Levels :
                       stack'[v][m].cmd = stack'[u][l].cmd => v = u /\ m = l
        BY <1>0, <2>2 DEF CallsInv, CommandOnce
    <2> QED
        BY <2>1, <2>2 DEF CommandOnce
<1> QED
    BY <1>4, <1>5

---------------------------------------------------------------------------
(* The calls of the application *)

\* nh_core_activateWorkload()
LEMMA ActivateStep ==
    ASSUME CoreInv, NEW t \in Threads, NEW thread \in Registered, Activate(t, thread)
    PROVE  CallsInv'
<1>0. TypeOK /\ CallsInv
    BY DEF CoreInv
<1>1. PICK w \in Slots :
        /\ Available(w)
        /\ workload' = [workload EXCEPT ![w].signal = "INIT", ![w].activating = TRUE,
                                        ![w].owner = AssignedTo(thread), ![w].gen = gens']
        /\ Push(t, WaitingCall("activate", w, gens', "enter"))
    BY DEF Activate
<1> DEFINE call == WaitingCall("activate", w, gens', "enter")
<1> DEFINE n == depth[t] + 1
<1>2. gens' \in 0..MaxGen
    BY <1>0, BoundsAssumption DEF Activate, TypeOK
<1>3. /\ call \in CallType /\ call.op = "activate" /\ call.w = w /\ call.gen = gens'
      /\ call.state = "enter" /\ call.cmd = NoCommand
    BY <1>2, WaitingCallType DEF WaitingOps
<1>4. Push(t, call)
    BY <1>1
<1> HIDE DEF call
<1>5. /\ n \in Levels /\ stack[t][n] = NoCall /\ stack'[t][n] = call
      /\ \A u \in Threads, l \in Levels : (u # t \/ l # n) => stack'[u][l] = stack[u][l]
    BY <1>0, <1>3, <1>4, PushEffect
<1> HIDE DEF n
<1>6. workload[w].signal = "INACTIVE" /\ ~Waiters(w)
    BY <1>1 DEF Available
<1>7. /\ \A v \in Slots : v # w => workload'[v] = workload[v]
      /\ workload'[w].signal = "INIT" /\ workload'[w].gen = gens'
      /\ workload'[w].queue = workload[w].queue
    BY <1>0, <1>1 DEF TypeOK, SlotType
<1>8. CallbackOnOwner' /\ FreeIsLast'
    <2>1. ~FreedBy(t, w)
        BY <1>0, <1>6 DEF FreedBy, CallsInv, CallbackOnOwner
    <2>2. ASSUME NEW u \in Threads, NEW l \in Levels
          PROVE  /\ stack'[u][l].op = "run" => stack'[u][l] = stack[u][l]
                 /\ \/ stack'[u][l].w \in {stack[u][l].w, 0}
                    \/ ~FreedBy(u, stack'[u][l].w)
        BY <1>3, <1>5, <2>1
    <2> QED
        BY <1>6, <1>7, <2>2, CallbacksKept
<1>9. SlotPinned' /\ LoopIsForeign'
    <2>1. ASSUME NEW u \in Threads, NEW l \in Levels, stack'[u][l].op \in WaitingOps
          PROVE  /\ stack'[u][l].w \in Slots
                 /\ \/ /\ stack[u][l].op \in WaitingOps
                       /\ stack'[u][l].w = stack[u][l].w
                       /\ stack'[u][l].gen = stack[u][l].gen
                    \/ stack'[u][l].gen = workload'[stack'[u][l].w].gen
                 /\ (stack'[u][l].op # "execute" /\ stack'[u][l].state = "loop") =>
                      \/ stack'[u][l] = stack[u][l]
                      \/ workload'[stack'[u][l].w].owner # u
        BY <1>0, <1>3, <1>5, <1>7, <2>1, CallSlot, OpsDistinct
    <2> QED
        BY <1>6, <1>7, <2>1, WaitersKept
<1>10. NoDanglingCommand' /\ CommandOnce'
    <2>1. ASSUME NEW u \in Threads, NEW l \in Levels
          PROVE  /\ stack'[u][l].cmd = stack[u][l].cmd
                 /\ stack[u][l].cmd # NoCommand => stack'[u][l] = stack[u][l]
                 /\ (/\ stack[u][l].op = "execute" /\ stack[u][l].state = "loop"
                     /\ workload[stack[u][l].w].signal # "INACTIVE")
                        => stack'[u][l] = stack[u][l]
        BY <1>3, <1>5, NoCallFields
    <2> QED
        BY <1>6, <1>7, <2>1, CommandsKept
<1>11. NoLostWakeup'
    BY DEF NoLostWakeup, Activate, Wake
<1>12. FreeSlotClean'
    <2>1. workload'[w].owner = AssignedTo(thread)
        BY <1>0, <1>1 DEF TypeOK, SlotType
    <2>2. AssignedTo(thread) # NoThread
        BY MainIsThread, ThreadsAssumption DEF AssignedTo, Threads
    <2> QED
        BY <1>0, <1>6, <1>7, <2>1, <2>2 DEF CallsInv, FreeSlotClean
<1> QED
    BY <1>8, <1>9, <1>10, <1>11, <1>12 DEF CallsInv

\* Threads that still sleep sleep for the same reason.
LEMMA SleepersKept ==
    ASSUME CoreInv, asleep' \subseteq asleep,
           \A u \in asleep' : depth'[u] = depth[u] /\ stack'[u] = stack[u],
           \A w \in Slots : /\ workload'[w].signal = workload[w].signal
                            /\ workload'[w].initialized = workload[w].initialized
                            /\ workload'[w].owner = workload[w].owner
    PROVE  NoLostWakeup'
<1> SUFFICES ASSUME NEW u \in asleep'
             PROVE  /\ depth'[u] > 0
                    /\ Top(u)'.op \in WaitingOps
                    /\ ~Satisfied(Top(u))'
                    /\ workload'[Top(u)'.w].owner # u
    BY DEF NoLostWakeup
<1>1. u \in asleep /\ u \in Threads
    BY DEF CoreInv, TypeOK
<1>2. /\ depth[u] > 0 /\ Top(u).op \in WaitingOps /\ ~Satisfied(Top(u))
      /\ workload[Top(u).w].owner # u
    BY <1>1 DEF CoreInv, CallsInv, NoLostWakeup
<1>3. Top(u)' = Top(u)
    BY <1>1 DEF Top
<1>4. Top(u).w \in Slots
    BY <1>1, <1>2, TopType DEF CoreInv
<1> QED
    BY <1>1, <1>2, <1>3, <1>4 DEF Satisfied

\* A thread on whose stack a workload is freed owns it.
LEMMA FreedByOwner ==
    ASSUME CoreInv, NEW t \in Threads, NEW w \in Slots, FreedBy(t, w)
    PROVE  Own(t, w) /\ Running(w) /\ workload[w].deactivate
<1>1. PICK l \in Levels : stack[t][l].op = "run" /\ stack[t][l].phase = "FREE" /\ stack[t][l].w = w
    BY DEF FreedBy
<1>2. workload[w].owner = t /\ workload[w].deactivate
    BY <1>1 DEF CoreInv, CallsInv, CallbackOnOwner, FreeIsLast
<1>3. t \in Registered
    BY <1>2, ThreadsAssumption DEF CoreInv, TypeOK, SlotType
<1> QED
    BY <1>1, <1>2, <1>3 DEF Own, Current, Running

\* Pushing a call for a slot that keeps its activation.
LEMMA PushStep ==
    ASSUME CoreInv, NEW t \in Threads, NEW call \in CallType, Push(t, call),
           call.op \in WaitingOps, call.w \in Slots, call.gen = workload[call.w].gen,
           call.state = "enter" \/ call.op = "execute",
           ~FreedBy(t, call.w),
           \A v \in Slots : /\ workload'[v].signal = workload[v].signal
                            /\ workload'[v].owner = workload[v].owner
                            /\ workload'[v].gen = workload[v].gen
                            /\ workload[v].deactivate => workload'[v].deactivate
    PROVE  CallbackOnOwner' /\ FreeIsLast' /\ SlotPinned' /\ LoopIsForeign'
<1> DEFINE n == depth[t] + 1
<1>0. TypeOK /\ CallsInv
    BY DEF CoreInv
<1>1. /\ n \in Levels /\ stack[t][n] = NoCall /\ stack'[t][n] = call
      /\ \A u \in Threads, l \in Levels : (u # t \/ l # n) => stack'[u][l] = stack[u][l]
    BY <1>0, PushEffect
<1> HIDE DEF n
<1>2. ASSUME NEW u \in Threads, NEW l \in Levels
      PROVE  /\ stack'[u][l].op = "run" => stack'[u][l] = stack[u][l]
             /\ \/ stack'[u][l].w \in {stack[u][l].w, 0}
                \/ ~FreedBy(u, stack'[u][l].w)
    BY <1>1, OpsDistinct
<1>3. CallbackOnOwner' /\ FreeIsLast'
    BY <1>2, CallbacksKept
<1>4. ASSUME NEW u \in Threads, NEW l \in Levels, stack'[u][l].op \in WaitingOps
      PROVE  /\ stack'[u][l].w \in Slots
             /\ \/ /\ stack[u][l].op \in WaitingOps
                   /\ stack'[u][l].w = stack[u][l].w
                   /\ stack'[u][l].gen = stack[u][l].gen
                \/ stack'[u][l].gen = workload'[stack'[u][l].w].gen
             /\ (stack'[u][l].op # "execute" /\ stack'[u][l].state = "loop") =>
                  \/ stack'[u][l] = stack[u][l]
                  \/ workload'[stack'[u][l].w].owner # u
    BY <1>0, <1>1, <1>4, CallSlot, OpsDistinct
<1>5. SlotPinned' /\ LoopIsForeign'
    BY <1>4, WaitersKept
<1> QED
    BY <1>3, <1>5

\* nh_core_deactivateWorkload()
LEMMA DeactivateStep ==
    ASSUME CoreInv, NEW t \in Threads, NEW w \in Slots, DeactivateSlot(t, w)
    PROVE  CallsInv'
<1>0. TypeOK /\ CallsInv
    BY DEF CoreInv
<1>1. \A v \in Slots :
        /\ workload'[v].signal = workload[v].signal
        /\ workload'[v].owner = workload[v].owner
        /\ workload'[v].gen = workload[v].gen
        /\ workload'[v].queue = workload[v].queue
        /\ workload'[v].initialized = workload[v].initialized
        /\ workload[v].deactivate => workload'[v].deactivate
    BY <1>0 DEF DeactivateSlot, TypeOK, SlotType
<1>2. FreeSlotClean'
    BY <1>0, <1>1 DEF CallsInv, FreeSlotClean
<1>3. CASE Own(t, w) /\ Running(w)
    <2>1. stack' = stack /\ depth' = depth /\ asleep' = asleep
        BY <1>3 DEF DeactivateSlot
    <2>2. CallbackOnOwner' /\ FreeIsLast'
        BY <1>1, <2>1, CallbacksKept
    <2>3. \A u \in Threads, l \in Levels : stack[u][l].op \in WaitingOps => stack[u][l].w \in Slots
        BY <1>0, CallSlot, OpsDistinct
    <2>4. SlotPinned' /\ LoopIsForeign'
        BY <1>1, <2>1, <2>3, WaitersKept
    <2>5. NoDanglingCommand' /\ CommandOnce'
        BY <1>1, <2>1, CommandsKept
    <2>6. NoLostWakeup'
        BY <1>1, <2>1, SleepersKept
    <2> QED
        BY <1>2, <2>2, <2>4, <2>5, <2>6 DEF CallsInv
<1>4. CASE ~(Own(t, w) /\ Running(w))
    <2> DEFINE call == WaitingCall("deactivate", w, workload[w].gen, "enter")
    <2>1. Push(t, call) /\ asleep' = {}
        BY <1>4 DEF DeactivateSlot, Wake
    <2>2. /\ call \in CallType /\ call.op = "deactivate" /\ call.w = w
          /\ call.gen = workload[w].gen /\ call.state = "enter" /\ call.cmd = NoCommand
        BY <1>0, WaitingCallType DEF WaitingOps, TypeOK, SlotType
    <2>3. call.op \in WaitingOps /\ ~FreedBy(t, w)
        BY <1>4, <2>2, FreedByOwner DEF WaitingOps
    <2> HIDE DEF call
    <2>4. CallbackOnOwner' /\ FreeIsLast' /\ SlotPinned' /\ LoopIsForeign'
        BY <1>1, <2>1, <2>2, <2>3, PushStep
    <2>5. NoDanglingCommand' /\ CommandOnce'
        BY <1>0, <1>1, <2>1, <2>2, PushEffect, NoCallFields, CommandsKept
    <2>6. NoLostWakeup'
        BY <2>1 DEF NoLostWakeup
    <2> QED
        BY <1>2, <2>4, <2>5, <2>6 DEF CallsInv
<1> QED
    BY <1>3, <1>4

\* nh_core_waitForCompletion() as the application calls it
LEMMA WaitStep ==
    ASSUME CoreInv, NEW t \in Threads, NEW w \in Slots, WaitForCompletion(t, w)
    PROVE  CallsInv'
<1>0. TypeOK /\ CallsInv
    BY DEF CoreInv
<1> DEFINE call == WaitingCall("wait", w, workload[w].gen, "enter")
<1>1. Push(t, call) /\ workload' = workload /\ asleep' = asleep /\ ~FreedBy(t, w)
    BY DEF WaitForCompletion
<1>2. /\ call \in CallType /\ call.op = "wait" /\ call.w = w
      /\ call.gen = workload[w].gen /\ call.state = "enter" /\ call.cmd = NoCommand
    BY <1>0, WaitingCallType DEF WaitingOps, TypeOK, SlotType
<1>3. call.op \in WaitingOps
    BY <1>2 DEF WaitingOps
<1> HIDE DEF call
<1>4. CallbackOnOwner' /\ FreeIsLast' /\ SlotPinned' /\ LoopIsForeign'
    BY <1>1, <1>2, <1>3, PushStep
<1>5. NoDanglingCommand' /\ CommandOnce'
    BY <1>0, <1>1, <1>2, PushEffect, NoCallFields, CommandsKept
<1>6. NoLostWakeup'
    <2>1. t \notin asleep
        BY CallerIsAwake DEF WaitForCompletion, MayCall
    <2>2. \A u \in asleep : u \in Threads /\ depth'[u] = depth[u] /\ stack'[u] = stack[u]
        BY <1>0, <1>1, <2>1 DEF TypeOK, Push
    <2> QED
        BY <1>1, <2>2, SleepersKept
<1>7. FreeSlotClean'
    BY <1>0, <1>1 DEF CallsInv, FreeSlotClean
<1> QED
    BY <1>4, <1>5, <1>6, <1>7 DEF CallsInv

\* Who does not own a slot in use is not its thread.
LEMMA OwnedSlot ==
    ASSUME CoreInv, NEW t \in Threads, NEW w \in Slots, workload[w].signal # "INACTIVE"
    PROVE  Own(t, w) <=> workload[w].owner = t
<1>1. workload[w].owner \in Registered
    BY DEF CoreInv, TypeOK, SlotType, CallsInv, FreeSlotClean
<1>2. Current(t) \in {t, NoThread} /\ (t \in Registered => Current(t) = t)
    BY DEF Current
<1> QED
    BY <1>1, <1>2, ThreadsAssumption DEF Own, Threads

\* execute()
LEMMA ExecuteStep ==
    ASSUME CoreInv, NEW t \in Threads, NEW w \in Slots, NEW handle \in 1..MaxGen,
           Execute(t, w, handle)
    PROVE  CallsInv'
<1>0. TypeOK /\ CallsInv
    BY DEF CoreInv
<1> DEFINE call == WaitingCall("execute", w, handle, "loop")
<1>n. PICK n \in Nat : n = depth[t] + 1
    BY <1>0 DEF TypeOK
<1>a. PICK a : a = <<t, n>>
    OBVIOUS
<1>1. /\ Push(t, call) /\ ~workload[w].deactivate /\ workload[w].gen = handle
      /\ workload[w].signal # "INACTIVE"
      /\ workload' = [workload EXCEPT ![w].queue = Append(@, a)]
      /\ asleep' = IF Own(t, w) THEN {} ELSE {t}
    BY <1>n, <1>a DEF Execute, IsWorkload
<1>2. /\ call \in CallType /\ call.op = "execute" /\ call.w = w
      /\ call.gen = workload[w].gen /\ call.state = "loop" /\ call.cmd = NoCommand
    <2>1. handle \in 0..MaxGen
        BY BoundsAssumption
    <2> QED
        BY <1>1, <2>1, WaitingCallType DEF WaitingOps
<1>3. call.op \in WaitingOps /\ ~FreedBy(t, w)
    BY <1>1, <1>2, FreedByOwner DEF WaitingOps
<1> HIDE DEF call
<1>4. /\ n \in Levels /\ stack[t][n] = NoCall /\ stack'[t][n] = call
      /\ \A u \in Threads, l \in Levels : (u # t \/ l # n) => stack'[u][l] = stack[u][l]
      /\ depth'[t] = n
    BY <1>0, <1>1, <1>2, <1>n, PushEffect
<1>5. /\ \A v \in Slots : v # w => workload'[v] = workload[v]
      /\ workload'[w].queue = Append(workload[w].queue, a)
      /\ \A v \in Slots : /\ workload'[v].signal = workload[v].signal
                          /\ workload'[v].owner = workload[v].owner
                          /\ workload'[v].gen = workload[v].gen
                          /\ workload'[v].deactivate = workload[v].deactivate
    BY <1>0, <1>1 DEF TypeOK, SlotType
<1>6. CallbackOnOwner' /\ FreeIsLast' /\ SlotPinned' /\ LoopIsForeign'
    BY <1>1, <1>2, <1>3, <1>5, PushStep
<1>7. ASSUME NEW v \in Slots, NEW b, Pending(v, b), b \in Addresses
      PROVE  Pending(v, b)' /\ b # a
    <2>1. PICK u \in Threads, l \in Levels : b = <<u, l>>
        BY <1>7 DEF Addresses
    <2>2. stack[u][l].op = "execute"
        BY <1>7, <2>1 DEF Pending
    <2>3. u # t \/ l # n
        BY <1>4, <2>2, NoCallFields
    <2>4. b[1] = u /\ b[2] = l /\ stack'[b[1]][b[2]] = stack[b[1]][b[2]]
        BY <1>4, <2>1, <2>3
    <2>5. Pending(v, b)'
        BY <1>5, <1>7, <2>4 DEF Pending
    <2> QED
        BY <1>a, <2>1, <2>3, <2>5
<1>8. Pending(w, a)' /\ a \in Addresses
    <2>1. a[1] = t /\ a[2] = n /\ a \in Addresses
        BY <1>4, <1>a DEF Addresses
    <2> QED
        BY <1>2, <1>4, <1>5, <2>1 DEF Pending
<1>9. \A u \in Threads, l \in Levels : stack[u][l].cmd # NoCommand =>
        /\ stack[u][l].op = "run" /\ stack[u][l].cmd \in Addresses /\ stack[u][l].w \in Slots
        /\ Pending(stack[u][l].w, stack[u][l].cmd)
    <2> SUFFICES ASSUME NEW u \in Threads, NEW l \in Levels, stack[u][l].cmd # NoCommand
                 PROVE  /\ stack[u][l].op = "run" /\ stack[u][l].cmd \in Addresses
                        /\ stack[u][l].w \in Slots
                        /\ Pending(stack[u][l].w, stack[u][l].cmd)
        OBVIOUS
    <2>1. stack[u][l].op = "run" /\ Pending(stack[u][l].w, stack[u][l].cmd)
        BY <1>0 DEF CallsInv, NoDanglingCommand
    <2>2. stack[u][l] \in CallType
        BY <1>0 DEF TypeOK
    <2>3. stack[u][l].w \in Slots
        BY <1>0, <2>1, CallSlot
    <2> QED
        BY <2>1, <2>2, <2>3 DEF CallType
<1>10. \A u \in Threads, l \in Levels : /\ stack'[u][l].cmd = stack[u][l].cmd
                                        /\ stack[u][l].cmd # NoCommand =>
                                             /\ stack'[u][l].op = stack[u][l].op
                                             /\ stack'[u][l].w = stack[u][l].w
    BY <1>2, <1>4, NoCallFields
<1>11. \A v \in Slots : \A i \in 1..Len(workload'[v].queue) :
        \/ /\ i \in 1..Len(workload[v].queue)
           /\ workload'[v].queue[i] = workload[v].queue[i]
           /\ workload[v].queue[i] \in Addresses
           /\ Pending(v, workload[v].queue[i])
        \/ /\ v = w /\ workload'[v].queue[i] = a /\ i = Len(workload[v].queue) + 1
    <2> SUFFICES ASSUME NEW v \in Slots, NEW i \in 1..Len(workload'[v].queue)
                 PROVE  \/ /\ i \in 1..Len(workload[v].queue)
                           /\ workload'[v].queue[i] = workload[v].queue[i]
                           /\ workload[v].queue[i] \in Addresses
                           /\ Pending(v, workload[v].queue[i])
                        \/ /\ v = w /\ workload'[v].queue[i] = a
                           /\ i = Len(workload[v].queue) + 1
        OBVIOUS
    <2>1. workload[v].queue \in Seq(Addresses)
        BY <1>0 DEF TypeOK, SlotType
    <2>2. \A j \in 1..Len(workload[v].queue) :
            workload[v].queue[j] \in Addresses /\ Pending(v, workload[v].queue[j])
        BY <1>0, <2>1 DEF CallsInv, NoDanglingCommand
    <2>3. \/ i \in 1..Len(workload[v].queue) /\ workload'[v].queue[i] = workload[v].queue[i]
          \/ v = w /\ workload'[v].queue[i] = a /\ i = Len(workload[v].queue) + 1
        <3>1. CASE v # w
            BY <1>5, <3>1
        <3>2. CASE v = w
            <4>1. PICK q \in Seq(Addresses) : q = workload[v].queue
                BY <2>1
            <4>2. i \in 1..Len(Append(q, a)) /\ workload'[v].queue = Append(q, a)
                BY <1>5, <3>2, <4>1
            <4>3. \/ i \in 1..Len(q) /\ Append(q, a)[i] = q[i]
                  \/ Append(q, a)[i] = a /\ i = Len(q) + 1
                <5>1. a \in Addresses
                    BY <1>8
                <5>2. Len(Append(q, a)) = Len(q) + 1 /\ Len(q) \in Nat
                    BY <4>1, <5>1
                <5> QED
                    BY <4>1, <4>2, <5>1, <5>2
            <4> QED
                BY <3>2, <4>1, <4>2, <4>3
        <3> QED
            BY <3>1, <3>2
    <2> QED
        BY <2>2, <2>3
<1>12. NoDanglingCommand'
    <2>1. ASSUME NEW v \in Slots, NEW i \in 1..Len(workload'[v].queue)
          PROVE  Pending(v, workload[v].queue[i])'
        <3>1. PICK b : b = workload'[v].queue[i]
            OBVIOUS
        <3>2. (b = a /\ v = w) \/ (b \in Addresses /\ Pending(v, b))
            BY <1>11, <3>1
        <3>3. Pending(v, b)'
            <4>1. CASE b = a /\ v = w
                BY <1>8, <4>1, Zenon DEF Pending
            <4>2. CASE b \in Addresses /\ Pending(v, b)
                BY <1>7, <4>2
            <4> QED
                BY <3>2, <4>1, <4>2
        <3> QED
            BY <3>1, <3>3, Zenon DEF Pending
    <2>2. ASSUME NEW u \in Threads, NEW l \in Levels, stack'[u][l].cmd # NoCommand
          PROVE  stack'[u][l].op = "run" /\ Pending(stack[u][l].w, stack[u][l].cmd)'
        <3>1. PICK b, v : b = stack[u][l].cmd /\ v = stack[u][l].w
            OBVIOUS
        <3>2. /\ stack'[u][l].cmd = b /\ stack'[u][l].w = v /\ stack'[u][l].op = "run"
              /\ v \in Slots /\ b \in Addresses /\ Pending(v, b)
            BY <1>9, <1>10, <2>2, <3>1
        <3>3. Pending(v, b)'
            BY <1>7, <3>2
        <3> QED
            BY <3>2, <3>3, Zenon DEF Pending
    <2> QED
        BY <2>1, <2>2 DEF NoDanglingCommand
<1>13. CommandOnce'
    <2>1. ASSUME NEW v \in Slots, NEW i \in 1..Len(workload'[v].queue),
                 NEW j \in 1..Len(workload'[v].queue),
                 workload'[v].queue[i] = workload'[v].queue[j]
          PROVE  i = j
        BY SMTT(30), <1>0, <1>7, <1>11, <2>1 DEF CallsInv, CommandOnce
    <2>2. ASSUME NEW u \in Threads, NEW l \in Levels, stack'[u][l].cmd # NoCommand
          PROVE  /\ \A v \in Slots : \A i \in 1..Len(workload'[v].queue) :
                       workload'[v].queue[i] # stack'[u][l].cmd
                 /\ \A v \in Threads, m \in Levels :
                       stack'[v][m].cmd = stack'[u][l].cmd => v = u /\ m = l
        <3>1. stack[u][l].cmd # a /\ stack[u][l].cmd # NoCommand
            BY <1>7, <1>9, <1>10, <2>2
        <3> QED
            BY <1>0, <1>10, <1>11, <3>1 DEF CallsInv, CommandOnce
    <2> QED
        BY <2>1, <2>2 DEF CommandOnce
<1>14. NoLostWakeup'
    <2>1. CASE Own(t, w)
        BY <1>1, <2>1 DEF NoLostWakeup
    <2>2. CASE ~Own(t, w)
        <3>1. workload[w].owner # t
            BY <1>1, <2>2, OwnedSlot
        <3>2. Top(t)' = call /\ depth'[t] > 0
            BY <1>4, BoundsAssumption DEF Top, Levels
        <3> QED
            BY <1>1, <1>2, <1>3, <1>5, <2>2, <3>1, <3>2 DEF NoLostWakeup, Satisfied
    <2> QED
        BY <2>1, <2>2
<1>15. FreeSlotClean'
    BY <1>0, <1>1, <1>5 DEF CallsInv, FreeSlotClean
<1> QED
    BY <1>6, <1>12, <1>13, <1>14, <1>15 DEF CallsInv

\* A callback that holds a command: the command still waits for its workload.
LEMMA CommandFrame ==
    ASSUME CoreInv, NEW u \in Threads, NEW l \in Levels, stack[u][l].cmd # NoCommand
    PROVE  /\ stack[u][l].op = "run"
           /\ stack[u][l].cmd \in Addresses
           /\ stack[u][l].w \in Slots
           /\ workload[stack[u][l].w].signal # "INACTIVE"
           /\ Pending(stack[u][l].w, stack[u][l].cmd)
<1>0. TypeOK /\ CallsInv
    BY DEF CoreInv
<1>1. stack[u][l].op = "run" /\ Pending(stack[u][l].w, stack[u][l].cmd)
    BY <1>0 DEF CallsInv, NoDanglingCommand
<1>2. stack[u][l] \in CallType
    BY <1>0 DEF TypeOK
<1>3. stack[u][l].w \in Slots
    BY <1>0, <1>1, CallSlot
<1> QED
    BY <1>0, <1>1, <1>2, <1>3 DEF CallType, CallsInv, CallbackOnOwner

\* A command in a queue still waits for its workload.
LEMMA QueuedCommand ==
    ASSUME CoreInv, NEW v \in Slots, NEW i \in 1..Len(workload[v].queue)
    PROVE  /\ workload[v].queue[i] \in Addresses
           /\ workload[v].signal # "INACTIVE"
           /\ Pending(v, workload[v].queue[i])
<1>0. TypeOK /\ CallsInv
    BY DEF CoreInv
<1>1. workload[v].queue[i] \in Addresses /\ workload[v].signal # "INACTIVE"
    BY <1>0 DEF TypeOK, SlotType, CallsInv, FreeSlotClean
<1> QED
    BY <1>0, <1>1 DEF CallsInv, NoDanglingCommand

\* A command goes on waiting if its sender does, for the same activation.
LEMMA PendingKept ==
    ASSUME NEW v \in Slots, NEW b \in Addresses, Pending(v, b),
           workload'[v].gen = workload[v].gen,
           \A u \in Threads, l \in Levels :
             (b = <<u, l>> /\ stack[u][l].op = "execute" /\ stack[u][l].state = "loop")
                => stack'[u][l] = stack[u][l]
    PROVE  Pending(v, b)'
<1>1. PICK u \in Threads, l \in Levels : b = <<u, l>>
    BY DEF Addresses
<1>2. b[1] = u /\ b[2] = l
    BY <1>1
<1>3. stack[u][l].op = "execute" /\ stack[u][l].state = "loop"
    BY <1>2 DEF Pending
<1>4. stack'[b[1]][b[2]] = stack[b[1]][b[2]]
    BY <1>1, <1>2, <1>3
<1> QED
    BY <1>4 DEF Pending

---------------------------------------------------------------------------
(* Waiting calls go on *)

\* Where the stacks differ after a pop.
LEMMA PopEffect ==
    ASSUME TypeOK, NEW t \in Threads, depth[t] > 0, Pop(t)
    PROVE  /\ depth[t] \in Levels
           /\ stack'[t][depth[t]] = NoCall
           /\ \A u \in Threads, l \in Levels :
                (u # t \/ l # depth[t]) => stack'[u][l] = stack[u][l]
           /\ \A u \in Threads \ {t} : depth'[u] = depth[u] /\ stack'[u] = stack[u]
<1>1. depth[t] \in Levels
    BY BoundsAssumption DEF TypeOK, Levels
<1> QED
    BY <1>1 DEF TypeOK, Pop

\* A waiting call returns.
LEMMA ReturnStep ==
    ASSUME CoreInv, NEW t \in Threads, IsWaiting(t), Return(t),
           Top(t).op = "execute" => Satisfied(Top(t))
    PROVE  CallsInv'
<1>0. TypeOK /\ CallsInv
    BY DEF CoreInv
<1> DEFINE n == depth[t]
<1>1. depth[t] > 0 /\ stack[t][n].op \in WaitingOps /\ t \notin asleep /\ Pop(t)
    BY DEF IsWaiting, Top, Return
<1>2. /\ n \in Levels /\ stack'[t][n] = NoCall
      /\ \A u \in Threads, l \in Levels : (u # t \/ l # n) => stack'[u][l] = stack[u][l]
      /\ \A u \in Threads \ {t} : depth'[u] = depth[u] /\ stack'[u] = stack[u]
    BY <1>0, <1>1, PopEffect
<1>3. \A v \in Slots : /\ workload'[v].signal = workload[v].signal
                       /\ workload'[v].owner = workload[v].owner
                       /\ workload'[v].gen = workload[v].gen
                       /\ workload'[v].queue = workload[v].queue
                       /\ workload'[v].initialized = workload[v].initialized
                       /\ workload'[v].deactivate = workload[v].deactivate
    BY <1>0 DEF Return, TypeOK, SlotType
<1>4. stack[t][n].op = "execute" =>
        stack[t][n].state = "done" \/ workload[stack[t][n].w].signal = "INACTIVE"
    BY DEF Satisfied, Top
<1>5. asleep' = asleep
    BY DEF Return
<1> HIDE DEF n
<1>6. CallbackOnOwner' /\ FreeIsLast'
    <2>1. ASSUME NEW u \in Threads, NEW l \in Levels
          PROVE  /\ stack'[u][l].op = "run" => stack'[u][l] = stack[u][l]
                 /\ stack'[u][l].w \in {stack[u][l].w, 0}
        BY <1>2, NoCallFields
    <2> QED
        BY <1>3, <2>1, CallbacksKept
<1>7. SlotPinned' /\ LoopIsForeign'
    <2>1. ASSUME NEW u \in Threads, NEW l \in Levels, stack'[u][l].op \in WaitingOps
          PROVE  stack'[u][l] = stack[u][l] /\ stack[u][l].w \in Slots
        BY <1>0, <1>2, <2>1, NoCallFields, OpsDistinct, CallSlot
    <2> QED
        BY <1>3, <2>1, WaitersKept
<1>8. NoDanglingCommand' /\ CommandOnce'
    <2>1. stack[t][n].cmd = NoCommand
        BY <1>1, <1>2, CommandFrame, OpsDistinct
    <2>2. ASSUME NEW u \in Threads, NEW l \in Levels
          PROVE  /\ stack'[u][l].cmd = stack[u][l].cmd
                 /\ stack[u][l].cmd # NoCommand => stack'[u][l] = stack[u][l]
                 /\ (/\ stack[u][l].op = "execute" /\ stack[u][l].state = "loop"
                     /\ workload[stack[u][l].w].signal # "INACTIVE")
                        => stack'[u][l] = stack[u][l]
        BY <1>2, <1>4, <2>1, NoCallFields
    <2> QED
        BY <1>3, <2>2, CommandsKept
<1>9. NoLostWakeup'
    BY <1>0, <1>1, <1>2, <1>3, <1>5, SleepersKept DEF TypeOK
<1>10. FreeSlotClean'
    BY <1>0, <1>3 DEF CallsInv, FreeSlotClean
<1> QED
    BY <1>6, <1>7, <1>8, <1>9, <1>10 DEF CallsInv

\* Only the state of a call changes.
LEMMA MarkedCall ==
    ASSUME NEW c \in CallType, NEW s, NEW d, d = [c EXCEPT !.state = s]
    PROVE  /\ d.op = c.op /\ d.w = c.w /\ d.gen = c.gen /\ d.cmd = c.cmd /\ d.phase = c.phase
           /\ d.state = s
BY DEF CallType

LEMMA MarkedType ==
    ASSUME NEW c \in CallType, NEW s \in {"ran", "loop", "done"}
    PROVE  [c EXCEPT !.state = s] \in CallType
BY DEF CallType

\* A call replaces another.
LEMMA FrameType ==
    ASSUME NEW f \in [Threads -> [Levels -> CallType]], NEW a \in Threads, NEW b \in Levels,
           NEW s \in {"ran", "loop", "done"}
    PROVE  [f EXCEPT ![a][b].state = s] \in [Threads -> [Levels -> CallType]]
<1>1. PICK c \in CallType : c = f[a][b]
    OBVIOUS
<1>2. PICK d : d = [c EXCEPT !.state = s]
    OBVIOUS
<1>3. d \in CallType
    BY <1>2, MarkedType
<1>4. [f EXCEPT ![a][b].state = s] = [f EXCEPT ![a][b] = d]
    BY <1>1, <1>2
<1> QED
    BY <1>3, <1>4

\* A call of waitForCompletion() notes that it ran the workload, or goes to sleep.
LEMMA MarkStep ==
    ASSUME CoreInv, NEW t \in Threads, IsWaiting(t), Top(t).op # "execute",
           NEW s \in {"ran", "loop"},
           stack' = [stack EXCEPT ![t][depth[t]].state = s],
           UNCHANGED <<workload, depth>>,
           \/ s = "ran" /\ asleep' = asleep
           \/ /\ s = "loop" /\ asleep' = asleep \cup {t}
              /\ ~Satisfied(Top(t)) /\ workload[Top(t).w].owner # t
    PROVE  CallsInv'
<1>0. TypeOK /\ CallsInv
    BY DEF CoreInv
<1>n. PICK n \in Levels : n = depth[t]
    BY <1>0, TopType DEF IsWaiting
<1>1. stack[t][n].op \in WaitingOps \ {"execute"} /\ t \notin asleep /\ stack[t][n].w \in Slots
    BY <1>0, <1>n, TopType DEF IsWaiting, Top
<1>2. /\ stack'[t][n] = [stack[t][n] EXCEPT !.state = s]
      /\ \A u \in Threads, l \in Levels : (u # t \/ l # n) => stack'[u][l] = stack[u][l]
      /\ \A u \in Threads \ {t} : stack'[u] = stack[u]
    BY <1>0, <1>n DEF TypeOK
<1>3. /\ stack'[t][n].op = stack[t][n].op /\ stack'[t][n].w = stack[t][n].w
      /\ stack'[t][n].gen = stack[t][n].gen /\ stack'[t][n].cmd = stack[t][n].cmd
      /\ stack'[t][n].state = s
    <2>1. PICK c \in CallType : c = stack[t][n]
        BY <1>0 DEF TypeOK
    <2>2. PICK d : d = [c EXCEPT !.state = s]
        OBVIOUS
    <2>3. /\ d.op = c.op /\ d.w = c.w /\ d.gen = c.gen /\ d.cmd = c.cmd /\ d.phase = c.phase
          /\ d.state = s
        BY <2>2, MarkedCall
    <2>4. stack'[t][n] = d
        BY <1>2, <2>1, <2>2
    <2> QED
        BY <2>1, <2>3, <2>4
<1>4. workload' = workload /\ depth' = depth
    OBVIOUS
<1>5. CallbackOnOwner' /\ FreeIsLast'
    <2>1. ASSUME NEW u \in Threads, NEW l \in Levels
          PROVE  /\ stack'[u][l].op = "run" => stack'[u][l] = stack[u][l]
                 /\ stack'[u][l].w \in {stack[u][l].w, 0}
        BY SMTT(30), <1>1, <1>2, <1>3, OpsDistinct
    <2> QED
        BY <1>4, <2>1, CallbacksKept
<1>6. SlotPinned' /\ LoopIsForeign'
    <2>1. ASSUME NEW u \in Threads, NEW l \in Levels, stack'[u][l].op \in WaitingOps
          PROVE  /\ stack[u][l].op \in WaitingOps
                 /\ stack'[u][l].w = stack[u][l].w
                 /\ stack'[u][l].gen = stack[u][l].gen
                 /\ stack[u][l].w \in Slots
                 /\ stack'[u][l].state = "loop" =>
                      stack'[u][l] = stack[u][l] \/ workload[stack[u][l].w].owner # u
        BY <1>0, <1>n, <1>1, <1>2, <1>3, <2>1, CallSlot, OpsDistinct DEF Top
    <2>2. ASSUME NEW w \in Slots
          PROVE  /\ workload'[w].owner = workload[w].owner
                 /\ workload'[w].gen = workload[w].gen
                 /\ workload[w].signal = "INACTIVE" => workload'[w].signal = "INACTIVE"
        BY <1>4
    <2>3. ASSUME NEW u \in Threads, NEW l \in Levels, stack'[u][l].op \in WaitingOps
          PROVE  /\ stack'[u][l].w \in Slots
                 /\ stack[u][l].op \in WaitingOps
                 /\ stack'[u][l].w = stack[u][l].w
                 /\ stack'[u][l].gen = stack[u][l].gen
                 /\ stack'[u][l].state = "loop" =>
                      \/ stack'[u][l] = stack[u][l]
                      \/ workload'[stack'[u][l].w].owner # u
        BY SMTT(40), <1>4, <2>1, <2>3
    <2>4. \A w \in Slots :
             \/ /\ workload'[w].owner = workload[w].owner
                /\ workload'[w].gen = workload[w].gen
                /\ workload[w].signal = "INACTIVE" => workload'[w].signal = "INACTIVE"
             \/ workload'[w].signal = "INACTIVE" /\ workload'[w].owner = NoThread
             \/ ~Waiters(w)
        BY <2>2
    <2>5. \A u \in Threads, l \in Levels : stack'[u][l].op \in WaitingOps =>
             /\ stack'[u][l].w \in Slots
             /\ \/ /\ stack[u][l].op \in WaitingOps
                   /\ stack'[u][l].w = stack[u][l].w
                   /\ stack'[u][l].gen = stack[u][l].gen
                \/ stack'[u][l].gen = workload'[stack'[u][l].w].gen
             /\ (stack'[u][l].op # "execute" /\ stack'[u][l].state = "loop") =>
                  \/ stack'[u][l] = stack[u][l]
                  \/ workload'[stack'[u][l].w].owner # u
        BY <2>3
    <2> QED
        BY <2>4, <2>5, WaitersKept
<1>7. NoDanglingCommand' /\ CommandOnce'
    <2>1. stack[t][n].cmd = NoCommand
        BY <1>1, CommandFrame, OpsDistinct
    <2>2. ASSUME NEW u \in Threads, NEW l \in Levels
          PROVE  /\ stack'[u][l].cmd = stack[u][l].cmd
                 /\ stack[u][l].cmd # NoCommand => stack'[u][l] = stack[u][l]
                 /\ (/\ stack[u][l].op = "execute" /\ stack[u][l].state = "loop"
                     /\ workload[stack[u][l].w].signal # "INACTIVE")
                        => stack'[u][l] = stack[u][l]
        BY <1>1, <1>2, <1>3, <2>1
    <2> QED
        BY <1>4, <2>2, CommandsKept
<1>8. NoLostWakeup'
    <2> SUFFICES ASSUME NEW u \in asleep'
                 PROVE  /\ depth'[u] > 0
                        /\ Top(u)'.op \in WaitingOps
                        /\ ~Satisfied(Top(u))'
                        /\ workload'[Top(u)'.w].owner # u
        BY DEF NoLostWakeup
    <2>1. CASE u \in asleep
        <3>1. u \in Threads \ {t}
            BY <1>0, <1>1, <2>1 DEF TypeOK
        <3>2. Top(u)' = Top(u)
            BY <1>2, <1>4, <3>1 DEF Top
        <3>3. /\ depth[u] > 0 /\ Top(u).op \in WaitingOps /\ ~Satisfied(Top(u))
              /\ workload[Top(u).w].owner # u
            BY <1>0, <2>1 DEF CallsInv, NoLostWakeup
        <3> QED
            BY <1>4, <3>2, <3>3 DEF Satisfied
    <2>2. CASE u \notin asleep
        <3>1. u = t /\ ~Satisfied(Top(t)) /\ workload[Top(t).w].owner # t
            BY <2>2
        <3>2. /\ Top(t)'.op = Top(t).op /\ Top(t)'.w = Top(t).w
              /\ Top(t).op \in WaitingOps \ {"execute"}
            BY <1>n, <1>1, <1>3, <1>4 DEF Top
        <3> QED
            BY <1>n, <1>4, <3>1, <3>2 DEF Satisfied, IsWaiting
    <2> QED
        BY <2>1, <2>2
<1>9. FreeSlotClean'
    BY <1>0, <1>4 DEF CallsInv, FreeSlotClean
<1> QED
    BY <1>5, <1>6, <1>7, <1>8, <1>9 DEF CallsInv

---------------------------------------------------------------------------
(* Callbacks begin and end *)

\* A thread enters a callback of a workload that it is not freeing.
LEMMA EnterStep ==
    ASSUME CoreInv, NEW t \in Threads, NEW w \in Slots, NEW calls \in [Levels -> CallType],
           EnterCallback(t, w, calls), ~FreedBy(t, w), t \notin asleep, asleep' = asleep,
           \A l \in Levels : \/ calls[l] = stack[t][l]
                             \/ /\ stack[t][l].op \in WaitingOps \ {"execute"}
                                /\ calls[l] = [stack[t][l] EXCEPT !.state = "ran"]
    PROVE  CallsInv'
<1>0. TypeOK /\ CallsInv
    BY DEF CoreInv
<1>n. PICK n \in Nat : n = depth[t] + 1
    BY <1>0 DEF TypeOK
<1>1. PICK cmd \in Addresses \cup {NoCommand} :
        /\ Own(t, w) /\ workload[w].signal # "INACTIVE"
        /\ n \in Levels
        /\ depth' = [depth EXCEPT ![t] = @ + 1]
        /\ stack' = [stack EXCEPT ![t] = [calls EXCEPT ![n] = RunCall(w, Phase(w), cmd)]]
        /\ \/ cmd = NoCommand /\ workload' = workload
           \/ /\ workload[w].queue # <<>>
              /\ cmd = Head(workload[w].queue)
              /\ workload' = [workload EXCEPT ![w].queue = Tail(@)]
    BY SMTT(30), <1>0, <1>n, EnterEffect
<1>c. PICK call \in CallType : call = RunCall(w, Phase(w), cmd)
    BY <1>0, RunCallType
<1>2. /\ call.op = "run" /\ call.w = w /\ call.gen = workload[w].gen /\ call.phase = Phase(w)
      /\ call.cmd = cmd
    BY <1>0, <1>c, RunCallType
<1>3. /\ stack[t][n] = NoCall /\ stack'[t][n] = call
      /\ \A l \in Levels : l # n => stack'[t][l] = calls[l]
      /\ \A u \in Threads \ {t} : stack'[u] = stack[u] /\ depth'[u] = depth[u]
    <2>1. depth[t] \in Nat /\ n > depth[t]
        BY <1>0, <1>n DEF TypeOK
    <2> QED
        BY <1>0, <1>1, <1>c, <2>1 DEF TypeOK
<1>4. \A u \in Threads, l \in Levels : (u # t \/ l # n) =>
        \/ stack'[u][l] = stack[u][l]
        \/ /\ stack[u][l].op \in WaitingOps \ {"execute"}
           /\ stack'[u][l].op = stack[u][l].op /\ stack'[u][l].w = stack[u][l].w
           /\ stack'[u][l].gen = stack[u][l].gen /\ stack'[u][l].cmd = stack[u][l].cmd
           /\ stack'[u][l].state = "ran"
    <2> SUFFICES ASSUME NEW u \in Threads, NEW l \in Levels, u # t \/ l # n,
                        stack'[u][l] # stack[u][l]
                 PROVE  /\ stack[u][l].op \in WaitingOps \ {"execute"}
                        /\ stack'[u][l].op = stack[u][l].op /\ stack'[u][l].w = stack[u][l].w
                        /\ stack'[u][l].gen = stack[u][l].gen
                        /\ stack'[u][l].cmd = stack[u][l].cmd
                        /\ stack'[u][l].state = "ran"
        OBVIOUS
    <2>1. u = t /\ stack'[u][l] = calls[l]
        BY <1>3
    <2>2. stack[u][l] \in CallType
        BY <1>0 DEF TypeOK
    <2>3. /\ stack[u][l].op \in WaitingOps \ {"execute"}
          /\ stack'[u][l] = [stack[u][l] EXCEPT !.state = "ran"]
        BY <2>1
    <2> QED
        BY <2>2, <2>3 DEF CallType
<1>5. \A v \in Slots : /\ workload'[v].signal = workload[v].signal
                       /\ workload'[v].owner = workload[v].owner
                       /\ workload'[v].gen = workload[v].gen
                       /\ workload'[v].initialized = workload[v].initialized
                       /\ workload'[v].deactivate = workload[v].deactivate
                       /\ v # w => workload'[v].queue = workload[v].queue
    BY <1>0, <1>1 DEF TypeOK, SlotType
<1>6. /\ workload[w].owner = t
      /\ \A u \in Threads, l \in Levels : stack[u][l].op = "run" /\ stack[u][l].w = w => u = t
    <2>1. workload[w].owner = t
        BY <1>1, OwnedSlot
    <2> QED
        BY <1>0, <2>1 DEF CallsInv, CallbackOnOwner
<1>7. CallbackOnOwner'
    <2> SUFFICES ASSUME NEW u \in Threads, NEW l \in Levels, stack'[u][l].op = "run"
                 PROVE  /\ workload'[stack'[u][l].w].signal # "INACTIVE"
                        /\ workload'[stack'[u][l].w].owner = u
                        /\ workload'[stack'[u][l].w].gen = stack'[u][l].gen
        BY DEF CallbackOnOwner
    <2>1. CASE u = t /\ l = n
        BY <1>1, <1>2, <1>3, <1>5, <1>6, <2>1
    <2>2. CASE u # t \/ l # n
        <3>1. stack'[u][l] = stack[u][l] /\ stack[u][l].w \in Slots
            BY <1>0, <1>4, <2>2, OpsDistinct, CallSlot
        <3> QED
            BY <1>0, <1>5, <3>1 DEF CallsInv, CallbackOnOwner
    <2> QED
        BY <2>1, <2>2
<1>8. FreeIsLast'
    <2> SUFFICES ASSUME NEW u \in Threads, NEW l \in Levels,
                        stack'[u][l].op = "run", stack'[u][l].phase = "FREE"
                 PROVE  /\ workload'[stack'[u][l].w].deactivate
                        /\ \A v \in Threads, m \in Levels :
                             (stack'[v][m].op = "run" /\ stack'[v][m].w = stack'[u][l].w)
                                => v = u /\ m = l
                        /\ \A m \in Levels : m > l => stack'[u][m].w # stack'[u][l].w
        BY DEF FreeIsLast
    <2>1. CASE u = t /\ l = n
        <3>1. workload[w].deactivate /\ ~Running(w) /\ stack'[u][l].w = w
            BY <1>2, <1>3, <2>1 DEF Phase
        <3>2. ASSUME NEW v \in Threads, NEW m \in Levels,
                     stack'[v][m].op = "run", stack'[v][m].w = w
              PROVE  v = u /\ m = l
            BY <1>4, <2>1, <3>1, <3>2, OpsDistinct DEF Running
        <3>3. ASSUME NEW m \in Levels, m > l
              PROVE  stack'[u][m].w # w
            <4>1. stack[t][m] = NoCall
                BY <1>0, <1>n, <2>1, <3>3, BoundsAssumption DEF TypeOK, Levels
            <4>2. stack'[t][m] = NoCall
                BY <1>4, <2>1, <3>3, <4>1, NoCallFields, OpsDistinct, BoundsAssumption DEF Levels
            <4> QED
                BY <2>1, <4>2, NoCallFields DEF Slots
        <3> QED
            BY <1>5, <3>1, <3>2, <3>3
    <2>2. CASE u # t \/ l # n
        <3>1. /\ stack'[u][l] = stack[u][l] /\ stack[u][l].w \in Slots /\ stack[u][l].w # 0
              /\ stack[u][l].op = "run" /\ stack[u][l].phase = "FREE"
            BY <1>0, <1>4, <2>2, OpsDistinct, CallSlot
        <3>2. stack[u][l].w # w
            BY <1>6, <3>1 DEF FreedBy
        <3>3. /\ workload[stack[u][l].w].deactivate
              /\ \A v \in Threads, m \in Levels :
                   (stack[v][m].op = "run" /\ stack[v][m].w = stack[u][l].w) => v = u /\ m = l
              /\ \A m \in Levels : m > l => stack[u][m].w # stack[u][l].w
            BY <1>0, <3>1 DEF CallsInv, FreeIsLast
        <3>4. ASSUME NEW v \in Threads, NEW m \in Levels,
                     stack'[v][m].op = "run", stack'[v][m].w = stack[u][l].w
              PROVE  v = u /\ m = l
            BY <1>2, <1>3, <1>4, <3>2, <3>3, <3>4, OpsDistinct
        <3>5. ASSUME NEW m \in Levels, m > l
              PROVE  stack'[u][m].w # stack[u][l].w
            BY <1>2, <1>3, <1>4, <3>2, <3>3, <3>5
        <3> QED
            BY <1>5, <3>1, <3>3, <3>4, <3>5
    <2> QED
        BY <2>1, <2>2
<1>9. SlotPinned' /\ LoopIsForeign'
    <2>1. ASSUME NEW u \in Threads, NEW l \in Levels, stack'[u][l].op \in WaitingOps
          PROVE  /\ stack[u][l].op \in WaitingOps
                 /\ stack'[u][l].w = stack[u][l].w
                 /\ stack'[u][l].gen = stack[u][l].gen
                 /\ stack[u][l].w \in Slots
                 /\ stack'[u][l].state = "loop" => stack'[u][l] = stack[u][l]
        BY <1>0, <1>2, <1>3, <1>4, <2>1, CallSlot, OpsDistinct
    <2> QED
        BY <1>5, <2>1, WaitersKept
<1>10. ASSUME NEW v \in Slots, NEW b \in Addresses, Pending(v, b)
       PROVE  Pending(v, b)'
    <2>1. ASSUME NEW u \in Threads, NEW l \in Levels,
                 stack[u][l].op = "execute", stack[u][l].state = "loop"
          PROVE  stack'[u][l] = stack[u][l]
        BY <1>3, <1>4, <2>1, NoCallFields
    <2> QED
        BY <1>5, <1>10, <2>1, PendingKept
<1>d. PICK d \in {0, 1} :
        \/ d = 0 /\ cmd = NoCommand /\ workload' = workload
        \/ /\ d = 1 /\ workload[w].queue # <<>> /\ cmd = Head(workload[w].queue)
           /\ workload' = [workload EXCEPT ![w].queue = Tail(@)]
    BY <1>1
\* Where the commands of the next state were.
<1>11. ASSUME NEW v \in Slots, NEW i \in 1..Len(workload'[v].queue)
       PROVE  \E j \in 1..Len(workload[v].queue) :
                /\ workload'[v].queue[i] = workload[v].queue[j]
                /\ j = IF v = w THEN i + d ELSE i
                /\ i \in Nat \ {0}
    <2>1. i \in Nat \ {0}
        <3>1. workload[v].queue \in Seq(Addresses)
            BY <1>0 DEF TypeOK, SlotType
        <3>2. workload'[v].queue \in Seq(Addresses)
            <4>1. CASE v # w
                BY <1>5, <3>1, <4>1
            <4>2. CASE v = w
                <5>1. \/ workload'[v].queue = workload[v].queue
                      \/ /\ workload[v].queue # <<>>
                         /\ workload'[v].queue = Tail(workload[v].queue)
                    <6>1. CASE workload' = workload
                        BY <6>1
                    <6>2. CASE /\ workload[w].queue # <<>>
                               /\ workload' = [workload EXCEPT ![w].queue = Tail(@)]
                        BY <1>0, <4>2, <6>2 DEF TypeOK, SlotType
                    <6> QED
                        BY <1>d, <6>1, <6>2
                <5>2. workload[v].queue # <<>> => Tail(workload[v].queue) \in Seq(Addresses)
                    BY <1>0, TakeCommand
                <5> QED
                    BY <3>1, <5>1, <5>2
            <4> QED
                BY <4>1, <4>2
        <3> QED
            BY <3>2
    <2>2. CASE workload' = workload /\ d = 0
        BY <2>1, <2>2
    <2>3. CASE /\ workload[w].queue # <<>> /\ d = 1
               /\ workload' = [workload EXCEPT ![w].queue = Tail(@)]
        <3>1. CASE v # w
            BY <1>5, <2>1, <3>1
        <3>2. CASE v = w
            <4>1. workload'[v].queue = Tail(workload[w].queue)
                BY <1>0, <2>3, <3>2 DEF TypeOK, SlotType
            <4> QED
                BY <1>0, <2>1, <2>3, <3>2, <4>1, TakeCommand
        <3> QED
            BY <3>1, <3>2
    <2> QED
        BY <1>d, <2>2, <2>3
<1>12. cmd # NoCommand => /\ d = 1
                          /\ 1 \in 1..Len(workload[w].queue)
                          /\ cmd = workload[w].queue[1]
    BY <1>0, <1>d, TakeCommand
<1>13. \A u \in Threads, l \in Levels : stack'[u][l].cmd # NoCommand =>
        \/ /\ stack[u][l].cmd # NoCommand /\ (u # t \/ l # n)
           /\ stack'[u][l] = stack[u][l]
        \/ /\ u = t /\ l = n /\ stack'[u][l] = call /\ cmd # NoCommand
    BY <1>2, <1>3, <1>4, CommandFrame, OpsDistinct
<1>14. NoDanglingCommand'
    <2>1. ASSUME NEW v \in Slots, NEW i \in 1..Len(workload'[v].queue)
          PROVE  Pending(v, workload[v].queue[i])'
        <3>1. PICK b : b = workload'[v].queue[i]
            OBVIOUS
        <3>2. b \in Addresses /\ Pending(v, b)
            BY SMTT(40), <1>11, <3>1, QueuedCommand
        <3>3. Pending(v, b)'
            BY <1>10, <3>2
        <3> QED
            BY <3>1, <3>3, Zenon DEF Pending
    <2>2. ASSUME NEW u \in Threads, NEW l \in Levels, stack'[u][l].cmd # NoCommand
          PROVE  stack'[u][l].op = "run" /\ Pending(stack[u][l].w, stack[u][l].cmd)'
        <3>1. PICK b, v : b = stack'[u][l].cmd /\ v = stack'[u][l].w
            OBVIOUS
        <3>2. stack'[u][l].op = "run" /\ v \in Slots /\ b \in Addresses /\ Pending(v, b)
            BY <1>2, <1>12, <1>13, <2>2, <3>1, CommandFrame, QueuedCommand
        <3>3. Pending(v, b)'
            BY <1>10, <3>2
        <3> QED
            BY <3>1, <3>2, <3>3, Zenon DEF Pending
    <2> QED
        BY <2>1, <2>2 DEF NoDanglingCommand
<1>15. \* A command is in the queue of one workload.
       ASSUME NEW v \in Slots, NEW i \in 1..Len(workload[v].queue), cmd # NoCommand,
              workload[v].queue[i] = cmd
       PROVE  v = w /\ i = 1
    <2>1. Pending(v, cmd) /\ Pending(w, cmd)
        BY <1>12, <1>15, QueuedCommand
    <2>2. v = w
        BY <2>1 DEF Pending
    <2> QED
        BY <1>0, <1>12, <1>15, <2>2 DEF CallsInv, CommandOnce
<1>16. CommandOnce'
    <2>1. ASSUME NEW v \in Slots, NEW i \in 1..Len(workload'[v].queue),
                 NEW j \in 1..Len(workload'[v].queue),
                 workload'[v].queue[i] = workload'[v].queue[j]
          PROVE  i = j
        <3>1. PICK k \in 1..Len(workload[v].queue) :
                /\ workload'[v].queue[i] = workload[v].queue[k]
                /\ k = (IF v = w THEN i + d ELSE i) /\ i \in Nat \ {0}
            BY <1>11
        <3>2. PICK m \in 1..Len(workload[v].queue) :
                /\ workload'[v].queue[j] = workload[v].queue[m]
                /\ m = (IF v = w THEN j + d ELSE j) /\ j \in Nat \ {0}
            BY <1>11
        <3>3. k = m
            BY <1>0, <2>1, <3>1, <3>2, ZenonT(60) DEF CallsInv, CommandOnce
        <3> QED
            BY <3>1, <3>2, <3>3
    <2>2. ASSUME NEW u \in Threads, NEW l \in Levels, stack'[u][l].cmd # NoCommand
          PROVE  /\ \A v \in Slots : \A i \in 1..Len(workload'[v].queue) :
                       workload'[v].queue[i] # stack'[u][l].cmd
                 /\ \A v \in Threads, m \in Levels :
                       stack'[v][m].cmd = stack'[u][l].cmd => v = u /\ m = l
        <3>1. ASSUME NEW v \in Slots, NEW i \in 1..Len(workload'[v].queue),
                     workload'[v].queue[i] = stack'[u][l].cmd
              PROVE  FALSE
            <4>1. PICK k \in 1..Len(workload[v].queue) :
                    /\ workload'[v].queue[i] = workload[v].queue[k]
                    /\ k = (IF v = w THEN i + d ELSE i) /\ i \in Nat \ {0}
                BY <1>11
            <4>2. CASE stack[u][l].cmd # NoCommand /\ stack'[u][l] = stack[u][l]
                <5>1. workload[v].queue[k] = stack[u][l].cmd
                    BY <3>1, <4>1, <4>2
                <5> QED
                    BY <1>0, <4>2, <5>1 DEF CallsInv, CommandOnce
            <4>3. CASE stack'[u][l] = call /\ cmd # NoCommand
                <5>1. v = w /\ k = 1
                    BY <1>2, <1>15, <3>1, <4>1, <4>3, ZenonT(60)
                <5> QED
                    BY <1>12, <4>1, <4>3, <5>1
            <4>4. \/ stack[u][l].cmd # NoCommand /\ stack'[u][l] = stack[u][l]
                  \/ stack'[u][l] = call /\ cmd # NoCommand
                BY <1>13, <2>2
            <4> QED
                BY <4>2, <4>3, <4>4
        <3>2. ASSUME NEW v \in Threads, NEW m \in Levels, stack'[v][m].cmd = stack'[u][l].cmd
              PROVE  v = u /\ m = l
            <4>1. ASSUME NEW x \in Threads, NEW k \in Levels, stack[x][k].cmd # NoCommand,
                         cmd # NoCommand
                  PROVE  stack[x][k].cmd # cmd
                BY <1>0, <1>12, <4>1 DEF CallsInv, CommandOnce
            <4>2. CASE stack[u][l].cmd # NoCommand /\ stack'[u][l] = stack[u][l]
                BY <1>0, <1>2, <1>13, <2>2, <3>2, <4>1, <4>2 DEF CallsInv, CommandOnce
            <4>3. CASE u = t /\ l = n /\ stack'[u][l] = call /\ cmd # NoCommand
                BY <1>2, <1>13, <2>2, <3>2, <4>1, <4>3
            <4> QED
                BY <1>13, <2>2, <4>2, <4>3
        <3> QED
            BY <3>1, <3>2
    <2> QED
        BY <2>1, <2>2 DEF CommandOnce
<1>17. NoLostWakeup'
    BY <1>0, <1>3, <1>5, SleepersKept DEF TypeOK
<1>18. FreeSlotClean'
    <2>1. ASSUME NEW v \in Slots, workload'[v].signal = "INACTIVE"
          PROVE  workload'[v].queue = <<>>
        BY <1>0, <1>1, <1>5, <2>1 DEF CallsInv, FreeSlotClean
    <2> QED
        BY <1>0, <1>5, <2>1 DEF CallsInv, FreeSlotClean
<1> QED
    BY <1>7, <1>8, <1>9, <1>14, <1>16, <1>17, <1>18 DEF CallsInv

\* The slots but w stay as they are.
SlotsBut(w) == \A v \in Slots : v # w => workload'[v] = workload[v]

\* What the return of a callback does: n is its place on the stack of t.
Ended(t, n, w, r) ==
    /\ n = depth[t] /\ w = stack[t][n].w
    /\ stack[t][n].op = "run"
    /\ stack'[t][n] = NoCall
    /\ depth' = [depth EXCEPT ![t] = @ - 1]
    /\ SlotsBut(w)
    /\ workload'[w] = Outcome(workload[w], stack[t][n].phase, r)
    /\ \A u \in Threads, l \in Levels : (u # t \/ l # n) =>
         IF stack[t][n].cmd = <<u, l>>
         THEN stack'[u][l] = [stack[u][l] EXCEPT !.state = "done"]
         ELSE stack'[u][l] = stack[u][l]
    /\ gens' = gens

\* What the end of a callback changes.
LEMMA EndRunEffect ==
    ASSUME CoreInv, NEW t \in Threads, NEW r \in Results \cup {"OK"}, EndRunOf(t, r)
    PROVE  \E n \in Levels, w \in Slots : Ended(t, n, w, r)
<1>0. TypeOK /\ CallsInv
    BY DEF CoreInv
<1>9. depth[t] > 0 /\ Top(t).op = "run"
    BY Zenon DEF EndRunOf
<1>10. depth[t] \in Levels /\ Top(t) \in CallType /\ Top(t).w \in Slots
    BY <1>0, <1>9, TopType
<1>1. PICK n \in Levels : n = depth[t] /\ stack[t][n] \in CallType
    BY <1>10 DEF Top
<1>2. PICK w \in Slots : w = stack[t][n].w
    BY <1>1, <1>10 DEF Top
<1>3. Top(t) = stack[t][n] /\ stack[t][n].op = "run"
    BY <1>1, <1>9 DEF Top
<1>4. /\ workload' = [workload EXCEPT ![w] = Outcome(@, stack[t][n].phase, r)]
      /\ stack' = IF stack[t][n].cmd = NoCommand
                  THEN [stack EXCEPT ![t][n] = NoCall]
                  ELSE [stack EXCEPT ![t][n] = NoCall,
                             ![stack[t][n].cmd[1]][stack[t][n].cmd[2]].state = "done"]
    BY ZenonT(60), <1>1, <1>2, <1>3 DEF EndRunOf
<1>8. depth' = [depth EXCEPT ![t] = @ - 1]
    BY DEF EndRunOf
<1>11. gens' = gens
    BY DEF EndRunOf
<1>5. /\ SlotsBut(w)
      /\ workload'[w] = Outcome(workload[w], stack[t][n].phase, r)
    BY <1>0, <1>4 DEF TypeOK, SlotsBut
<1>6. CASE stack[t][n].cmd = NoCommand
    <2>1. stack' = [stack EXCEPT ![t][n] = NoCall]
        BY <1>4, <1>6
    <2>2. /\ stack'[t][n] = NoCall
          /\ \A u \in Threads, l \in Levels : (u # t \/ l # n) => stack'[u][l] = stack[u][l]
        BY <1>0, <2>1 DEF TypeOK
    <2>3. \A u \in Threads, l \in Levels : stack[t][n].cmd # <<u, l>>
        BY <1>6 DEF NoCommand
    <2> QED
        BY <1>1, <1>2, <1>3, <1>5, <1>8, <1>11, <2>2, <2>3 DEF Ended
<1>7. CASE stack[t][n].cmd # NoCommand
    <2>1. PICK a \in Threads, b \in Levels : stack[t][n].cmd = <<a, b>>
        BY <1>7, CommandFrame DEF Addresses
    <2>2. Pending(stack[t][n].w, stack[t][n].cmd)
        BY <1>7, CommandFrame
    <2>3. stack[t][n].cmd[1] = a /\ stack[t][n].cmd[2] = b
        BY <2>1
    <2>4. stack[a][b].op = "execute"
        BY <2>2, <2>3 DEF Pending
    <2>5. stack' = [stack EXCEPT ![t][n] = NoCall, ![a][b].state = "done"]
        BY <1>4, <1>7, <2>3
    <2>6. a # t \/ b # n
        BY <1>3, <2>4
    <2>7. /\ stack'[t][n] = NoCall
          /\ stack'[a][b] = [stack[a][b] EXCEPT !.state = "done"]
          /\ \A u \in Threads, l \in Levels :
               ((u # t \/ l # n) /\ (u # a \/ l # b)) => stack'[u][l] = stack[u][l]
        <3>1. PICK f \in [Threads -> [Levels -> CallType]] : f = [stack EXCEPT ![t][n] = NoCall]
            BY <1>0, NoCallType DEF TypeOK
        <3>2. stack' = [f EXCEPT ![a][b].state = "done"]
            BY <2>5, <3>1
        <3>3. /\ f[t][n] = NoCall
              /\ \A u \in Threads, l \in Levels : (u # t \/ l # n) => f[u][l] = stack[u][l]
            BY <1>0, <3>1 DEF TypeOK
        <3> QED
            BY <2>6, <3>2, <3>3
    <2>8. ASSUME NEW u \in Threads, NEW l \in Levels, u # t \/ l # n
          PROVE  IF stack[t][n].cmd = <<u, l>>
                 THEN stack'[u][l] = [stack[u][l] EXCEPT !.state = "done"]
                 ELSE stack'[u][l] = stack[u][l]
        <3>1. CASE u = a /\ l = b
            BY <2>1, <2>7, <3>1
        <3>2. CASE u # a \/ l # b
            BY <2>1, <2>7, <2>8, <3>2
        <3> QED
            BY <3>1, <3>2
    <2> QED
        BY <1>1, <1>2, <1>3, <1>5, <1>8, <1>11, <2>7, <2>8 DEF Ended
<1> QED
    BY <1>6, <1>7

\* The slot after a callback.
LEMMA OutcomeEffect ==
    ASSUME NEW slot \in SlotType, NEW phase, NEW r \in Results \cup {"OK"},
           slot.signal # "INACTIVE"
    PROVE  LET new == Outcome(slot, phase, r) IN
           /\ new \in SlotType
           /\ \/ phase = "FREE" /\ new = FreeSlot
              \/ /\ phase # "FREE"
                 /\ new.signal # "INACTIVE"
                 /\ new.owner = slot.owner
                 /\ new.gen = slot.gen
                 /\ new.queue = slot.queue
                 /\ slot.deactivate => new.deactivate
BY ZenonT(60), FreeSlotType, ResultsAssumption DEF Outcome, SlotType, Signals

\* A callback returns.
LEMMA EndRunStep ==
    ASSUME CoreInv, NEW t \in Threads, NEW r \in Results \cup {"OK"}, EndRunOf(t, r)
    PROVE  CallsInv'
<1>0. TypeOK /\ CallsInv
    BY DEF CoreInv
<1>e. PICK n \in Levels, w \in Slots : Ended(t, n, w, r)
    BY EndRunEffect
<1>1.   /\ n = depth[t] /\ w = stack[t][n].w
        /\ stack[t][n].op = "run"
        /\ stack'[t][n] = NoCall
        /\ depth' = [depth EXCEPT ![t] = @ - 1]
        /\ \A v \in Slots : v # w => workload'[v] = workload[v]
        /\ workload'[w] = Outcome(workload[w], stack[t][n].phase, r)
        /\ \A u \in Threads, l \in Levels : (u # t \/ l # n) =>
             \/ stack'[u][l] = stack[u][l]
             \/ /\ stack[t][n].cmd = <<u, l>>
                /\ stack'[u][l] = [stack[u][l] EXCEPT !.state = "done"]
    BY <1>e DEF Ended, SlotsBut
<1>2. /\ workload[w].signal # "INACTIVE" /\ workload[w].owner = t
      /\ workload[w].owner # NoThread /\ workload[w] \in SlotType
    <2>1. workload[w].signal # "INACTIVE" /\ workload[w].owner = t
        BY <1>0, <1>1 DEF CallsInv, CallbackOnOwner
    <2>2. workload[w] \in SlotType
        BY <1>0 DEF TypeOK
    <2> QED
        BY <2>1, <2>2, ThreadsAssumption
<1>3. \/ stack[t][n].phase = "FREE" /\ workload'[w] = FreeSlot
      \/ /\ stack[t][n].phase # "FREE"
         /\ workload'[w].signal # "INACTIVE"
         /\ workload'[w].owner = workload[w].owner
         /\ workload'[w].gen = workload[w].gen
         /\ workload'[w].queue = workload[w].queue
         /\ workload[w].deactivate => workload'[w].deactivate
    <2>1. workload'[w] = Outcome(workload[w], stack[t][n].phase, r)
        BY <1>1
    <2>2. workload[w] \in SlotType /\ workload[w].signal # "INACTIVE"
        BY <1>2
    <2> QED
        BY <2>1, <2>2, OutcomeEffect
<1>4. /\ FreeSlot.signal = "INACTIVE" /\ FreeSlot.owner = NoThread /\ FreeSlot.queue = <<>>
    BY DEF FreeSlot
\* The frame of the answered command.
<1>5. ASSUME NEW u \in Threads, NEW l \in Levels, stack[t][n].cmd = <<u, l>>
      PROVE  /\ stack[u][l].op = "execute" /\ stack[u][l].state = "loop"
             /\ stack[u][l].w = w /\ stack[u][l].cmd = NoCommand
             /\ stack[t][n].cmd # NoCommand
    <2>1. stack[t][n].cmd # NoCommand
        BY <1>5 DEF NoCommand
    <2>2. Pending(w, stack[t][n].cmd)
        BY <1>1, <2>1, CommandFrame
    <2>3. stack[t][n].cmd[1] = u /\ stack[t][n].cmd[2] = l
        BY <1>5
    <2>4. stack[u][l].op = "execute" /\ stack[u][l].state = "loop" /\ stack[u][l].w = w
        BY <2>2, <2>3 DEF Pending
    <2> QED
        BY <2>1, <2>4, CommandFrame
<1>6. ASSUME NEW u \in Threads, NEW l \in Levels, u # t \/ l # n, stack'[u][l] # stack[u][l]
      PROVE  /\ stack[t][n].cmd = <<u, l>>
             /\ stack'[u][l].op = "execute" /\ stack[u][l].op = "execute"
             /\ stack'[u][l].w = stack[u][l].w
             /\ stack'[u][l].gen = stack[u][l].gen
             /\ stack'[u][l].cmd = NoCommand
    <2>1. PICK c \in CallType : c = stack[u][l]
        BY <1>0 DEF TypeOK
    <2>2. PICK d : d = [c EXCEPT !.state = "done"]
        OBVIOUS
    <2>3. stack[t][n].cmd = <<u, l>> /\ stack'[u][l] = d
        BY <1>1, <1>6, <2>1, <2>2
    <2>4. d.op = c.op /\ d.w = c.w /\ d.gen = c.gen /\ d.cmd = c.cmd
        BY <2>2, MarkedCall
    <2> QED
        BY <1>5, <2>1, <2>3, <2>4
<1>7. CallbackOnOwner' /\ FreeIsLast'
    <2>1. ASSUME NEW u \in Threads, NEW l \in Levels
          PROVE  /\ stack'[u][l].op = "run" => stack'[u][l] = stack[u][l] /\ (u # t \/ l # n)
                 /\ stack'[u][l].w \in {stack[u][l].w, 0}
        BY <1>1, <1>6, NoCallFields
    <2>2. ASSUME NEW v \in Slots, workload[v].signal # "INACTIVE",
                 NEW u \in Threads, NEW l \in Levels, stack'[u][l].op = "run", stack'[u][l].w = v
          PROVE  /\ workload'[v].signal # "INACTIVE"
                 /\ workload'[v].owner = workload[v].owner
                 /\ workload'[v].gen = workload[v].gen
                 /\ workload[v].deactivate => workload'[v].deactivate
        <3>1. CASE v # w
            BY <1>1, <2>2, <3>1
        <3>2. CASE v = w
            <4>1. stack[u][l].op = "run" /\ stack[u][l].w = w /\ (u # t \/ l # n)
                BY <2>1, <2>2, <3>2
            <4>2. stack[t][n].phase # "FREE"
                BY <1>0, <1>1, <4>1 DEF CallsInv, FreeIsLast
            <4> QED
                BY <1>3, <3>2, <4>2
        <3> QED
            BY <3>1, <3>2
    <2> QED
        BY <2>1, <2>2, CallbacksKept
<1>8. SlotPinned' /\ LoopIsForeign'
    <2>1. ASSUME NEW u \in Threads, NEW l \in Levels, stack'[u][l].op \in WaitingOps
          PROVE  /\ stack[u][l].op \in WaitingOps
                 /\ stack'[u][l].w = stack[u][l].w
                 /\ stack'[u][l].gen = stack[u][l].gen
                 /\ stack[u][l].w \in Slots
                 /\ stack'[u][l].op # "execute" => stack'[u][l] = stack[u][l]
        <3>1. u # t \/ l # n
            BY <1>1, <2>1, NoCallFields, OpsDistinct
        <3>2. /\ stack[u][l].op \in WaitingOps
              /\ stack'[u][l].w = stack[u][l].w
              /\ stack'[u][l].gen = stack[u][l].gen
              /\ stack'[u][l].op # "execute" => stack'[u][l] = stack[u][l]
            BY SMTT(30), <1>6, <2>1, <3>1
        <3> QED
            BY <1>0, <3>2, CallSlot, OpsDistinct
    <2>2. \A v \in Slots :
             \/ /\ workload'[v].owner = workload[v].owner
                /\ workload'[v].gen = workload[v].gen
                /\ workload[v].signal = "INACTIVE" => workload'[v].signal = "INACTIVE"
             \/ workload'[v].signal = "INACTIVE" /\ workload'[v].owner = NoThread
        BY <1>1, <1>2, <1>3, <1>4
    <2> QED
        BY <2>1, <2>2, WaitersKept
<1>9. ASSUME NEW v \in Slots, NEW b \in Addresses, Pending(v, b), b # stack[t][n].cmd,
             workload'[v].gen = workload[v].gen
      PROVE  Pending(v, b)'
    <2>1. ASSUME NEW u \in Threads, NEW l \in Levels, b = <<u, l>>, stack[u][l].op = "execute"
          PROVE  stack'[u][l] = stack[u][l]
        BY SMTT(30), <1>1, <1>6, <1>9, <2>1
    <2> QED
        BY <1>9, <2>1, PendingKept
<1>10. ASSUME NEW v \in Slots, workload'[v].queue # <<>>
       PROVE  workload'[v].queue = workload[v].queue /\ workload'[v].gen = workload[v].gen
    BY <1>1, <1>3, <1>4, <1>10
<1>11. ASSUME NEW u \in Threads, NEW l \in Levels, stack'[u][l].cmd # NoCommand
       PROVE  /\ stack'[u][l] = stack[u][l] /\ (u # t \/ l # n)
              /\ workload'[stack[u][l].w].gen = workload[stack[u][l].w].gen
    <2>1. stack'[u][l] = stack[u][l] /\ (u # t \/ l # n)
        BY <1>1, <1>6, <1>11, NoCallFields
    <2>2. stack[u][l].op = "run" /\ stack[u][l].w \in Slots
        BY <1>11, <2>1, CommandFrame
    <2>3. CASE stack[u][l].w # w
        BY <1>1, <2>1, <2>2, <2>3
    <2>4. CASE stack[u][l].w = w
        <3>1. stack[t][n].phase # "FREE"
            BY <1>0, <1>1, <2>1, <2>2, <2>4 DEF CallsInv, FreeIsLast
        <3> QED
            BY <1>3, <2>1, <2>4, <3>1
    <2> QED
        BY <2>3, <2>4
<1>12. NoDanglingCommand'
    <2>1. ASSUME NEW v \in Slots, NEW i \in 1..Len(workload'[v].queue)
          PROVE  Pending(v, workload[v].queue[i])'
        <3>1. workload'[v].queue = workload[v].queue /\ workload'[v].gen = workload[v].gen
            <4>1. workload'[v].queue # <<>>
                BY <2>1
            <4> QED
                BY <1>10, <4>1
        <3>2. PICK b : b = workload[v].queue[i]
            OBVIOUS
        <3>3. b \in Addresses /\ Pending(v, b)
            BY <2>1, <3>1, <3>2, QueuedCommand
        <3>4. b # stack[t][n].cmd
            <4>1. b # NoCommand
                BY SMTT(30), <3>3 DEF Addresses, NoCommand
            <4> QED
                BY <1>0, <2>1, <3>1, <3>2, <4>1 DEF CallsInv, CommandOnce
        <3>5. Pending(v, b)'
            BY <1>9, <3>1, <3>3, <3>4
        <3> QED
            BY <3>1, <3>2, <3>5, Zenon DEF Pending
    <2>2. ASSUME NEW u \in Threads, NEW l \in Levels, stack'[u][l].cmd # NoCommand
          PROVE  stack'[u][l].op = "run" /\ Pending(stack[u][l].w, stack[u][l].cmd)'
        <3>1. PICK b, v : b = stack[u][l].cmd /\ v = stack[u][l].w
            OBVIOUS
        <3>2. /\ stack'[u][l] = stack[u][l] /\ (u # t \/ l # n)
              /\ workload'[v].gen = workload[v].gen
            BY <1>11, <2>2, <3>1
        <3>3. /\ stack[u][l].op = "run" /\ b \in Addresses /\ v \in Slots /\ Pending(v, b)
            BY <2>2, <3>1, <3>2, CommandFrame
        <3>4. b # stack[t][n].cmd
            BY <1>0, <2>2, <3>1, <3>2 DEF CallsInv, CommandOnce
        <3>5. Pending(v, b)'
            BY <1>9, <3>2, <3>3, <3>4
        <3>6. stack'[u][l].cmd = b /\ stack'[u][l].w = v /\ stack'[u][l].op = "run"
            BY <3>1, <3>2, <3>3
        <3> QED
            BY <3>5, <3>6, Zenon DEF Pending
    <2> QED
        BY <2>1, <2>2 DEF NoDanglingCommand
<1>13. CommandOnce'
    <2>1. ASSUME NEW v \in Slots, NEW i \in 1..Len(workload'[v].queue),
                 NEW j \in 1..Len(workload'[v].queue),
                 workload'[v].queue[i] = workload'[v].queue[j]
          PROVE  i = j
        <3>1. workload'[v].queue = workload[v].queue
            BY <1>10, <2>1
        <3> QED
            BY <1>0, <2>1, <3>1 DEF CallsInv, CommandOnce
    <2>2. ASSUME NEW u \in Threads, NEW l \in Levels, stack'[u][l].cmd # NoCommand
          PROVE  /\ \A v \in Slots : \A i \in 1..Len(workload'[v].queue) :
                       workload'[v].queue[i] # stack'[u][l].cmd
                 /\ \A v \in Threads, m \in Levels :
                       stack'[v][m].cmd = stack'[u][l].cmd => v = u /\ m = l
        <3>1. stack'[u][l] = stack[u][l]
            BY <1>11, <2>2
        <3>2. ASSUME NEW v \in Slots, NEW i \in 1..Len(workload'[v].queue)
              PROVE  workload'[v].queue[i] # stack[u][l].cmd
            <4>1. workload'[v].queue = workload[v].queue
                BY <1>10, <3>2
            <4> QED
                BY <1>0, <2>2, <3>1, <3>2, <4>1 DEF CallsInv, CommandOnce
        <3>3. ASSUME NEW v \in Threads, NEW m \in Levels, stack'[v][m].cmd = stack'[u][l].cmd
              PROVE  v = u /\ m = l
            <4>1. stack'[v][m] = stack[v][m]
                BY <1>11, <2>2, <3>3
            <4> QED
                BY <1>0, <2>2, <3>1, <3>3, <4>1 DEF CallsInv, CommandOnce
        <3> QED
            BY <3>1, <3>2, <3>3
    <2> QED
        BY <2>1, <2>2 DEF CommandOnce
<1>14. NoLostWakeup'
    BY DEF EndRunOf, NoLostWakeup, Wake
<1>15. FreeSlotClean'
    <2> SUFFICES ASSUME NEW v \in Slots
                 PROVE  /\ workload'[v].signal = "INACTIVE" => workload'[v].queue = <<>>
                        /\ workload'[v].owner = NoThread => workload'[v].signal = "INACTIVE"
        BY DEF FreeSlotClean
    <2>1. CASE v # w
        BY <1>0, <1>1, <2>1 DEF CallsInv, FreeSlotClean
    <2>2. CASE v = w
        BY <1>2, <1>3, <1>4, <2>2
    <2> QED
        BY <2>1, <2>2
<1> QED
    BY <1>7, <1>8, <1>12, <1>13, <1>14, <1>15 DEF CallsInv

---------------------------------------------------------------------------
(* Every step keeps the types *)

\* What is left to show when the table and the stacks do not change.
LEMMA TypeQuiet ==
    ASSUME TypeOK, UNCHANGED <<workload, stack, depth>>, asleep' \subseteq Threads,
           pc' \in [Threads -> Places], pos' \in [Threads -> Nat \ {0}], LoopOK',
           pool' \in PoolType, gens' \in 0..MaxGen
    PROVE  TypeOK'
BY DEF TypeOK

\* nh_core_run() goes on.
LEMMA RunType ==
    ASSUME TypeOK, NEW t \in Threads, pc[t] = "run", LeaveRun(t) \/ NextSlot(t)
    PROVE  pc' \in [Threads -> Places] /\ pos' \in [Threads -> Nat \ {0}] /\ LoopOK'
<1>1. CASE LeaveRun(t)
    BY <1>1, BoundsAssumption DEF LeaveRun, TypeOK, LoopOK, Places, Slots
<1>2. CASE pos[t] # NumSlots /\ pos' = [pos EXCEPT ![t] = @ + 1] /\ UNCHANGED pc
    BY <1>2, BoundsAssumption DEF TypeOK, LoopOK, Slots
<1> QED
    BY <1>1, <1>2 DEF NextSlot

LEMMA TypeActivate ==
    ASSUME TypeOK, NEW t \in Threads, NEW thread \in Registered, Activate(t, thread)
    PROVE  TypeOK'
<1>1. gens' \in 0..MaxGen /\ AssignedTo(thread) \in Registered
    BY BoundsAssumption, MainIsThread DEF Activate, TypeOK, AssignedTo
<1>2. PICK w \in Slots :
        /\ workload' = [workload EXCEPT ![w].signal = "INIT", ![w].activating = TRUE,
                                        ![w].owner = AssignedTo(thread), ![w].gen = gens']
        /\ Push(t, WaitingCall("activate", w, gens', "enter"))
    BY DEF Activate
<1>3. workload' \in [Slots -> SlotType]
    <2>1. PICK slot \in SlotType : slot = workload[w]
        BY DEF TypeOK
    <2>2. PICK new : new = [slot EXCEPT !.signal = "INIT", !.activating = TRUE,
                                        !.owner = AssignedTo(thread), !.gen = gens']
        OBVIOUS
    <2>3. new \in SlotType
        BY <1>1, <2>2 DEF SlotType, Signals
    <2>4. workload' = [workload EXCEPT ![w] = new]
        BY <1>2, <2>1, <2>2 DEF TypeOK
    <2> QED
        BY <2>3, <2>4 DEF TypeOK
<1>4. /\ WaitingCall("activate", w, gens', "enter") \in CallType
      /\ WaitingCall("activate", w, gens', "enter").op # "none"
      /\ WaitingCall("activate", w, gens', "enter").w \in Slots
    BY <1>1, WaitingCallType DEF WaitingOps
<1>5. UNCHANGED <<pc, pos, pool>> /\ asleep' = {}
    BY DEF Activate, Wake
<1> QED
    BY <1>1, <1>2, <1>3, <1>4, <1>5, PushType DEF TypeOK, LoopOK

LEMMA TypeExecute ==
    ASSUME TypeOK, NEW t \in Threads, NEW w \in Slots, NEW handle \in 1..MaxGen,
           Execute(t, w, handle)
    PROVE  TypeOK'
<1>1. PICK a \in Addresses : workload' = [workload EXCEPT ![w].queue = Append(@, a)]
    <2>1. <<t, depth[t] + 1>> \in Addresses
        BY BoundsAssumption DEF Execute, Push, TypeOK, Addresses, Levels
    <2> QED
        BY <2>1 DEF Execute
<1>2. workload' \in [Slots -> SlotType]
    <2>1. PICK slot \in SlotType : slot = workload[w]
        BY DEF TypeOK
    <2>2. PICK new : new = [slot EXCEPT !.queue = Append(@, a)]
        OBVIOUS
    <2>3. Append(slot.queue, a) \in Seq(Addresses)
        BY DEF SlotType
    <2>4. new \in SlotType
        BY <2>2, <2>3 DEF SlotType
    <2>5. workload' = [workload EXCEPT ![w] = new]
        BY <1>1, <2>1, <2>2 DEF TypeOK
    <2> QED
        BY <2>4, <2>5 DEF TypeOK
<1>3. handle \in 0..MaxGen
    BY BoundsAssumption
<1>4. /\ WaitingCall("execute", w, handle, "loop") \in CallType
      /\ WaitingCall("execute", w, handle, "loop").op # "none"
      /\ WaitingCall("execute", w, handle, "loop").w \in Slots
      /\ Push(t, WaitingCall("execute", w, handle, "loop"))
    BY <1>3, WaitingCallType DEF WaitingOps, Execute
<1>5. UNCHANGED <<pc, pos, pool, gens>> /\ asleep' \subseteq Threads
    BY DEF Execute
<1> QED
    BY <1>2, <1>4, <1>5, PushType DEF TypeOK, LoopOK

LEMMA TypeDeactivate ==
    ASSUME TypeOK, NEW t \in Threads, NEW w \in Slots, DeactivateSlot(t, w),
           pc' = pc, pos' \in [Threads -> Nat \ {0}], LoopOK', UNCHANGED <<pool, gens>>
    PROVE  TypeOK'
<1>1. workload' \in [Slots -> SlotType] /\ workload[w].gen \in 0..MaxGen
    BY ZenonT(60) DEF DeactivateSlot, TypeOK, SlotType
<1>2. CASE UNCHANGED <<stack, depth, asleep>>
    BY <1>1, <1>2 DEF TypeOK
<1>3. CASE Push(t, WaitingCall("deactivate", w, workload[w].gen, "enter")) /\ asleep' = {}
    <2>1. /\ WaitingCall("deactivate", w, workload[w].gen, "enter") \in CallType
          /\ WaitingCall("deactivate", w, workload[w].gen, "enter").op # "none"
          /\ WaitingCall("deactivate", w, workload[w].gen, "enter").w \in Slots
        BY <1>1, WaitingCallType DEF WaitingOps
    <2> QED
        BY <1>1, <1>3, <2>1, PushType DEF TypeOK, LoopOK
<1> QED
    BY <1>2, <1>3 DEF DeactivateSlot, Wake

LEMMA TypeWait ==
    ASSUME TypeOK, NEW t \in Threads, NEW w \in Slots, WaitForCompletion(t, w)
    PROVE  TypeOK'
<1>1. /\ Push(t, WaitingCall("wait", w, workload[w].gen, "enter"))
      /\ UNCHANGED <<workload, asleep, pc, pos, pool, gens>>
    BY DEF WaitForCompletion
<1>2. workload[w].gen \in 0..MaxGen
    BY DEF TypeOK, SlotType
<1>3. /\ WaitingCall("wait", w, workload[w].gen, "enter") \in CallType
      /\ WaitingCall("wait", w, workload[w].gen, "enter").op # "none"
      /\ WaitingCall("wait", w, workload[w].gen, "enter").w \in Slots
    BY <1>2, WaitingCallType DEF WaitingOps
<1> QED
    BY <1>1, <1>3, PushType DEF TypeOK, LoopOK

LEMMA TypeReturn ==
    ASSUME TypeOK, NEW t \in Threads, depth[t] > 0, Return(t)
    PROVE  TypeOK'
<1>1. workload' \in [Slots -> SlotType]
    BY ZenonT(60), TopType DEF Return, TypeOK, SlotType
<1> QED
    BY <1>1, PopType DEF Return, TypeOK, LoopOK

LEMMA TypeMark ==
    ASSUME TypeOK, NEW t \in Threads, depth[t] > 0, NEW s \in {"ran", "loop"},
           stack' = [stack EXCEPT ![t][depth[t]].state = s],
           asleep' \subseteq Threads, UNCHANGED <<workload, depth, pc, pos, pool, gens>>
    PROVE  TypeOK'
<1>1. PICK n \in Levels : n = depth[t]
    BY TopType
<1>2. stack' \in [Threads -> [Levels -> CallType]]
    BY <1>1, FrameType DEF TypeOK
<1>3. ASSUME NEW u \in Threads, NEW l \in Levels
      PROVE  /\ l <= depth'[u] => stack'[u][l].op # "none" /\ stack'[u][l].w \in Slots
             /\ l > depth'[u] => stack'[u][l] = NoCall
    <2>1. CASE u = t /\ l = n
        <3>1. PICK c \in CallType : c = stack[t][n]
            BY DEF TypeOK
        <3>2. PICK d : d = [c EXCEPT !.state = s]
            OBVIOUS
        <3>3. d.op = c.op /\ d.w = c.w
            BY <3>2, MarkedCall
        <3>4. stack'[u][l] = d
            BY <1>1, <2>1, <3>1, <3>2 DEF TypeOK
        <3> QED
            BY <1>1, <2>1, <3>1, <3>3, <3>4, BoundsAssumption DEF TypeOK, Levels
    <2>2. CASE u # t \/ l # n
        BY <1>1, <2>2 DEF TypeOK
    <2> QED
        BY <2>1, <2>2
<1> QED
    BY <1>2, <1>3 DEF TypeOK, LoopOK

LEMMA TypeEnter ==
    ASSUME TypeOK, NEW t \in Threads, NEW w \in Slots, NEW calls \in [Levels -> CallType],
           EnterCallback(t, w, calls),
           \A l \in Levels : /\ l <= depth[t] => calls[l].op # "none" /\ calls[l].w \in Slots
                             /\ l > depth[t] => calls[l] = NoCall,
           UNCHANGED <<asleep, pc, pos, pool, gens>>
    PROVE  TypeOK'
BY EnterType DEF TypeOK, LoopOK

LEMMA TypeEndRun ==
    ASSUME CoreInv, NEW t \in Threads, NEW r \in Results \cup {"OK"}, EndRunOf(t, r)
    PROVE  TypeOK'
<1>0. TypeOK /\ CallsInv
    BY DEF CoreInv
<1>e. PICK n \in Levels, w \in Slots : Ended(t, n, w, r)
    BY EndRunEffect
<1>1.   /\ n = depth[t] /\ w = stack[t][n].w
        /\ stack[t][n].op = "run"
        /\ stack'[t][n] = NoCall
        /\ depth' = [depth EXCEPT ![t] = @ - 1]
        /\ \A v \in Slots : v # w => workload'[v] = workload[v]
        /\ workload'[w] = Outcome(workload[w], stack[t][n].phase, r)
        /\ \A u \in Threads, l \in Levels : (u # t \/ l # n) =>
             \/ stack'[u][l] = stack[u][l]
             \/ /\ stack[t][n].cmd = <<u, l>>
                /\ stack'[u][l] = [stack[u][l] EXCEPT !.state = "done"]
    BY <1>e DEF Ended, SlotsBut
<1>2. workload' \in [Slots -> SlotType]
    <2>1. workload[w].signal # "INACTIVE" /\ workload[w] \in SlotType
        BY <1>0, <1>1 DEF CallsInv, CallbackOnOwner, TypeOK
    <2>2. workload'[w] \in SlotType
        BY SMTT(30), <1>1, <2>1, OutcomeEffect
    <2>3. workload' = [workload EXCEPT ![w] = workload'[w]]
        BY Zenon, <1>0, <1>1 DEF EndRunOf, Top, TypeOK
    <2> QED
        BY <1>0, <2>2, <2>3 DEF TypeOK
<1>3. stack' \in [Threads -> [Levels -> CallType]]
    <2>1. CASE stack[t][n].cmd = NoCommand
        BY <1>0, <1>1, <2>1, NoCallType DEF EndRunOf, Top, TypeOK
    <2>2. CASE stack[t][n].cmd # NoCommand
        <3>1. PICK a \in Threads, b \in Levels : stack[t][n].cmd = <<a, b>>
            BY <2>2, CommandFrame DEF Addresses
        <3>5. n = depth[t]
            BY <1>1
        <3>6. stack' = [stack EXCEPT ![t][n] = NoCall,
                                     ![stack[t][n].cmd[1]][stack[t][n].cmd[2]].state = "done"]
            BY Zenon, <2>2, <3>5 DEF EndRunOf, Top
        <3>2. stack' = [stack EXCEPT ![t][n] = NoCall, ![a][b].state = "done"]
            BY <3>1, <3>6
        <3>3. PICK f \in [Threads -> [Levels -> CallType]] : f = [stack EXCEPT ![t][n] = NoCall]
            BY <1>0, NoCallType DEF TypeOK
        <3>4. stack' = [f EXCEPT ![a][b].state = "done"]
            BY <3>2, <3>3
        <3> QED
            BY <3>4, FrameType
    <2> QED
        BY <2>1, <2>2
<1>4. n \in Nat /\ n > 0 /\ depth' \in [Threads -> 0..MaxDepth]
    BY <1>0, <1>1, BoundsAssumption DEF TypeOK, Levels
<1>5. ASSUME NEW u \in Threads, NEW l \in Levels
      PROVE  /\ l <= depth'[u] => stack'[u][l].op # "none" /\ stack'[u][l].w \in Slots
             /\ l > depth'[u] => stack'[u][l] = NoCall
    <2>0. l \in Nat /\ depth[u] \in Nat
        BY <1>0, BoundsAssumption DEF TypeOK, Levels
    <2>1. CASE u = t /\ l = n
        BY <1>0, <1>1, <1>4, <2>0, <2>1 DEF TypeOK
    <2>2. CASE (u # t \/ l # n) /\ stack'[u][l] = stack[u][l]
        <3>1. l <= depth'[u] <=> l <= depth[u]
            BY <1>0, <1>1, <1>4, <2>0, <2>2 DEF TypeOK
        <3>2. depth'[u] \in Nat
            BY <1>0, <1>1, <1>4, <2>0 DEF TypeOK
        <3> QED
            BY <1>0, <2>0, <2>2, <3>1, <3>2 DEF TypeOK
    <2>3. CASE (u # t \/ l # n) /\ stack'[u][l] # stack[u][l]
        <3>1. stack[t][n].cmd = <<u, l>> /\ stack'[u][l] = [stack[u][l] EXCEPT !.state = "done"]
            BY <1>1, <2>3
        <3>2. Pending(w, stack[t][n].cmd)
            BY SMTT(30), <1>1, <3>1, CommandFrame DEF NoCommand
        <3>3. stack[u][l].op = "execute"
            BY <3>1, <3>2 DEF Pending
        <3>4. PICK c \in CallType : c = stack[u][l]
            BY <1>0 DEF TypeOK
        <3>5. PICK d : d = [c EXCEPT !.state = "done"]
            OBVIOUS
        <3>6. d.op = "execute" /\ d.w = c.w
            BY <3>3, <3>4, <3>5, MarkedCall
        <3>7. stack'[u][l] = d
            BY <3>1, <3>4, <3>5
        <3>8. l <= depth[u] /\ c.w \in Slots
            BY <1>0, <3>3, <3>4, CallSlot
        <3>9. l <= depth'[u] /\ depth'[u] \in Nat
            <4>1. depth'[u] = IF u = t THEN depth[u] - 1 ELSE depth[u]
                BY <1>0, <1>1 DEF TypeOK
            <4>2. u = t => l < depth[u]
                BY <1>1, <2>0, <2>3, <3>8
            <4> QED
                BY <2>0, <3>8, <4>1, <4>2
        <3> QED
            BY <2>0, <3>6, <3>7, <3>8, <3>9
    <2> QED
        BY <1>1, <2>1, <2>2, <2>3
<1>6. pool' \in PoolType
    BY <1>0 DEF EndRunOf, TypeOK, PoolType
<1>7. asleep' \subseteq Threads /\ gens' \in 0..MaxGen
    BY <1>0 DEF EndRunOf, TypeOK, Wake
<1>8. pc' \in [Threads -> Places] /\ pos' \in [Threads -> Nat \ {0}] /\ LoopOK'
    <2>1. CASE UNCHANGED <<pc, pos>>
        BY <1>0, <2>1 DEF TypeOK, LoopOK
    <2>2. CASE pc[t] = "run" /\ (LeaveRun(t) \/ NextSlot(t))
        BY <1>0, <2>2, RunType
    <2> QED
        BY <2>1, <2>2 DEF EndRunOf
<1> QED
    BY <1>2, <1>3, <1>4, <1>5, <1>6, <1>7, <1>8 DEF TypeOK

---------------------------------------------------------------------------
(* Every step keeps the invariant *)

\* The calls of the application.
LEMMA CallKeeps ==
    ASSUME CoreInv, NEW t \in Threads, Call(t)
    PROVE  CoreInv'
<1>0. TypeOK
    BY DEF CoreInv
<1>1. CASE \E thread \in Registered : Activate(t, thread)
    BY <1>0, <1>1, TypeActivate, ActivateStep DEF CoreInv
<1>2. CASE \E w \in Slots : \E handle \in 1..MaxGen : Execute(t, w, handle)
    BY <1>0, <1>2, TypeExecute, ExecuteStep DEF CoreInv
<1>3. CASE \E w \in Slots : Deactivate(t, w)
    <2>1. PICK w \in Slots : DeactivateSlot(t, w) /\ UNCHANGED <<pc, pos, pool, gens>>
        BY <1>3 DEF Deactivate
    <2>2. pos' \in [Threads -> Nat \ {0}] /\ LoopOK'
        BY <1>0, <2>1 DEF TypeOK, LoopOK
    <2> QED
        BY <1>0, <2>1, <2>2, TypeDeactivate, DeactivateStep DEF CoreInv
<1>4. CASE \E w \in Slots : RunOrSleep(t, w)
    <2>1. PICK w \in Slots : RunOrSleep(t, w)
        BY <1>4
    <2>2. /\ EnterCallback(t, w, stack[t]) /\ ~FreedBy(t, w)
          /\ UNCHANGED <<asleep, pc, pos, pool, gens>>
        BY <2>1 DEF RunOrSleep
    <2>3. t \notin asleep
        BY <2>1, CallerIsAwake DEF RunOrSleep, MayCall
    <2>4. stack[t] \in [Levels -> CallType]
        BY <1>0 DEF TypeOK
    <2>5. TypeOK'
        BY <1>0, <2>2, <2>4, TypeEnter DEF TypeOK
    <2>6. CallsInv'
        BY <2>2, <2>3, <2>4, EnterStep
    <2> QED
        BY <2>5, <2>6 DEF CoreInv
<1>5. CASE \E w \in Slots : WaitForCompletion(t, w)
    BY <1>0, <1>5, TypeWait, WaitStep DEF CoreInv
<1> QED
    BY <1>1, <1>2, <1>3, <1>4, <1>5 DEF Call

\* nh_core_run() at a slot.
LEMMA VisitKeeps ==
    ASSUME CoreInv, NEW t \in Threads, Visit(t)
    PROVE  CoreInv'
<1>0. TypeOK /\ CallsInv
    BY DEF CoreInv
<1>1. UNCHANGED <<asleep, pool, gens>> /\ depth[t] = 0
    BY DEF Visit
<1>2. CASE EnterCallback(t, pos[t], stack[t]) /\ UNCHANGED <<pc, pos>>
    <2>1. PICK w \in Slots : w = pos[t]
        BY <1>0 DEF Visit, TypeOK, LoopOK
    <2>2. ~FreedBy(t, w)
        <3>1. \A l \in Levels : stack[t][l] = NoCall
            BY <1>0, <1>1, BoundsAssumption DEF TypeOK, Levels
        <3> QED
            BY <3>1, NoCallFields DEF FreedBy
    <2>3. t \notin asleep
        BY <1>0, <1>1 DEF CallsInv, NoLostWakeup
    <2>4. stack[t] \in [Levels -> CallType] /\ EnterCallback(t, w, stack[t])
        BY <1>0, <1>2, <2>1 DEF TypeOK
    <2>5. TypeOK'
        BY <1>0, <1>1, <1>2, <2>4, TypeEnter DEF TypeOK
    <2>6. CallsInv'
        BY <1>1, <2>2, <2>3, <2>4, EnterStep
    <2> QED
        BY <2>5, <2>6 DEF CoreInv
<1>3. CASE NextSlot(t) /\ UNCHANGED <<workload, stack, depth>>
    <2>1. TypeOK'
        <3>1. pc[t] = "run"
            BY DEF Visit
        <3> QED
            BY <1>0, <1>1, <1>3, <3>1, RunType, TypeQuiet DEF TypeOK
    <2>2. CallsInv'
        BY <1>1, <1>3, QuietStep
    <2> QED
        BY <2>1, <2>2 DEF CoreInv
<1> QED
    BY <1>2, <1>3 DEF Visit

\* A callback of waitForCompletion() or execute() is not one below its own free_f.
LEMMA WaiterFreesNot ==
    ASSUME CoreInv, NEW t \in Threads, IsWaiting(t)
    PROVE  Top(t).w \in Slots /\ ~FreedBy(t, Top(t).w)
<1>0. TypeOK /\ CallsInv
    BY DEF CoreInv
<1>1. PICK n \in Levels : n = depth[t]
    BY <1>0, TopType DEF IsWaiting
<1>2. Top(t) = stack[t][n] /\ stack[t][n].op \in WaitingOps /\ Top(t).w \in Slots
    BY <1>0, <1>1, TopType DEF IsWaiting, Top
<1>3. ASSUME NEW l \in Levels, stack[t][l].op = "run", stack[t][l].phase = "FREE",
             stack[t][l].w = stack[t][n].w
      PROVE  FALSE
    <2>1. l <= n /\ l # n
        BY <1>0, <1>1, <1>2, <1>3, CallSlot, OpsDistinct
    <2>2. n > l
        BY <2>1, BoundsAssumption DEF Levels
    <2> QED
        BY <1>0, <1>3, <2>2 DEF CallsInv, FreeIsLast
<1> QED
    BY <1>2, <1>3 DEF FreedBy

\* A waiting call goes on.
LEMMA WaitKeeps ==
    ASSUME CoreInv, NEW t \in Threads,
           EnterOwn(t) \/ ReturnRan(t) \/ WaitOther(t) \/ ExecuteLoop(t)
    PROVE  CoreInv'
<1>0. TypeOK /\ CallsInv
    BY DEF CoreInv
<1>1. IsWaiting(t) /\ depth[t] > 0 /\ t \notin asleep
    BY DEF EnterOwn, ReturnRan, WaitOther, ExecuteLoop, IsWaiting
<1>2. PICK n \in Levels : n = depth[t]
    BY <1>0, <1>1, TopType
<1>3. PICK w \in Slots : w = Top(t).w /\ ~FreedBy(t, w)
    BY <1>1, WaiterFreesNot
<1>4. Top(t) = stack[t][n] /\ Top(t).op \in WaitingOps
    BY <1>1, <1>2 DEF Top, IsWaiting
<1>5. asleep \cup {t} \subseteq Threads
    BY <1>0 DEF TypeOK
\* A call that returns.
<1>6. ASSUME Return(t), Top(t).op = "execute" => Satisfied(Top(t))
      PROVE  CoreInv'
    BY <1>0, <1>1, <1>6, TypeReturn, ReturnStep DEF CoreInv
\* A call that runs the workload.
<1>7. ASSUME NEW calls \in [Levels -> CallType], EnterCallback(t, w, calls),
             UNCHANGED <<asleep, pc, pos, pool, gens>>,
             \A l \in Levels : l # n => calls[l] = stack[t][l],
             \/ calls[n] = stack[t][n]
             \/ Top(t).op # "execute" /\ calls[n] = [stack[t][n] EXCEPT !.state = "ran"]
      PROVE  CoreInv'
    <2>1. \A l \in Levels : \/ calls[l] = stack[t][l]
                            \/ /\ stack[t][l].op \in WaitingOps \ {"execute"}
                               /\ calls[l] = [stack[t][l] EXCEPT !.state = "ran"]
        BY <1>4, <1>7
    <2>2. CallsInv'
        BY <1>1, <1>3, <1>7, <2>1, EnterStep
    <2>3. ASSUME NEW l \in Levels
          PROVE  /\ l <= depth[t] => calls[l].op # "none" /\ calls[l].w \in Slots
                 /\ l > depth[t] => calls[l] = NoCall
        <3>1. CASE calls[l] = stack[t][l]
            BY <1>0, <3>1 DEF TypeOK
        <3>2. CASE l = n /\ calls[n] = [stack[t][n] EXCEPT !.state = "ran"]
            <4>1. PICK c \in CallType : c = stack[t][n]
                BY <1>0 DEF TypeOK
            <4>2. PICK d : d = [c EXCEPT !.state = "ran"]
                OBVIOUS
            <4>3. d.op = c.op /\ d.w = c.w
                BY <4>2, MarkedCall
            <4>4. calls[l] = d
                BY <3>2, <4>1, <4>2
            <4>5. c.op # "none" /\ c.w \in Slots
                BY <1>0, <1>1, <1>4, <4>1, TopType
            <4> QED
                <5>1. l = depth[t] /\ l \in Nat
                    BY <1>2, <3>2, BoundsAssumption DEF Levels
                <5>2. calls[l].op # "none" /\ calls[l].w \in Slots
                    BY <4>3, <4>4, <4>5
                <5> QED
                    BY <5>1, <5>2
        <3> QED
            BY <1>7, <3>1, <3>2
    <2>4. TypeOK'
        BY <1>0, <1>7, <2>3, TypeEnter
    <2> QED
        BY <2>2, <2>4 DEF CoreInv
<1>8. CASE EnterOwn(t)
    <2>1. Top(t).op # "execute"
        BY <1>8 DEF EnterOwn
    <2>2. UNCHANGED <<asleep, pc, pos, pool, gens>>
        BY <1>8 DEF EnterOwn
    <2>3. CASE /\ stack' = [stack EXCEPT ![t] = [stack[t] EXCEPT ![depth[t]].state = "ran"]]
               /\ UNCHANGED <<workload, depth>>
        <3>1. stack' = [stack EXCEPT ![t][depth[t]].state = "ran"]
            BY <1>0, <2>3 DEF TypeOK
        <3>2. asleep' = asleep /\ asleep' \subseteq Threads /\ UNCHANGED <<workload, depth>>
            BY <1>0, <2>2, <2>3 DEF TypeOK
        <3>3. TypeOK'
            BY <1>0, <1>1, <2>2, <3>1, <3>2, TypeMark
        <3>4. CallsInv'
            BY <1>1, <2>1, <3>1, <3>2, MarkStep
        <3> QED
            BY <3>3, <3>4 DEF CoreInv
    <2>4. CASE EnterCallback(t, w, [stack[t] EXCEPT ![depth[t]].state = "ran"])
        <3>1. PICK calls : calls = [stack[t] EXCEPT ![n].state = "ran"]
            OBVIOUS
        <3>2. stack[t] \in [Levels -> CallType]
            BY <1>0 DEF TypeOK
        <3>3. PICK c \in CallType : c = stack[t][n]
            BY <3>2
        <3>4. [c EXCEPT !.state = "ran"] \in CallType
            BY MarkedType
        <3>5. calls = [stack[t] EXCEPT ![n] = [c EXCEPT !.state = "ran"]]
            BY <3>1, <3>3
        <3>6. /\ calls \in [Levels -> CallType]
              /\ \A l \in Levels : l # n => calls[l] = stack[t][l]
              /\ calls[n] = [stack[t][n] EXCEPT !.state = "ran"]
            BY <3>2, <3>3, <3>4, <3>5
        <3>7. EnterCallback(t, w, calls)
            BY <1>2, <2>4, <3>1
        <3> QED
            BY <1>7, <2>1, <2>2, <3>6, <3>7
    <2> QED
        BY <1>3, <1>8, <2>3, <2>4 DEF EnterOwn
<1>9. CASE ReturnRan(t)
    BY <1>6, <1>9 DEF ReturnRan
<1>10. CASE WaitOther(t)
    <2>1. CASE Return(t)
        BY <1>6, <1>10, <2>1 DEF WaitOther
    <2>2. CASE /\ ~Satisfied(Top(t))
               /\ stack' = [stack EXCEPT ![t][depth[t]].state = "loop"]
               /\ asleep' = asleep \cup {t}
               /\ UNCHANGED <<workload, depth, pc, pos, pool, gens>>
        <3>1. Top(t).op # "execute"
            BY <1>10 DEF WaitOther
        <3>2. workload[w].owner # t
            <4>1. CASE Top(t).state = "loop"
                BY <1>0, <1>3, <1>4, <3>1, <4>1 DEF CallsInv, LoopIsForeign
            <4>2. CASE ~Own(t, w)
                <5>1. t \in Registered => workload[w].owner # t
                    BY <4>2 DEF Own, Current
                <5>2. workload[w].owner \in Registered \cup {NoThread}
                    BY <1>0 DEF TypeOK, SlotType
                <5> QED
                    BY <5>1, <5>2, ThreadsAssumption
            <4> QED
                BY <1>3, <1>10, <4>1, <4>2 DEF WaitOther
        <3>3. TypeOK'
            BY <1>0, <1>1, <1>5, <2>2, TypeMark
        <3>4. CallsInv'
            BY <1>1, <1>3, <2>2, <3>1, <3>2, MarkStep
        <3> QED
            BY <3>3, <3>4 DEF CoreInv
    <2> QED
        BY <1>10, <2>1, <2>2 DEF WaitOther
<1>11. CASE ExecuteLoop(t)
    <2>1. CASE Satisfied(Top(t)) /\ Return(t)
        BY <1>6, <2>1
    <2>2. CASE EnterCallback(t, w, stack[t]) /\ UNCHANGED <<asleep, pc, pos, pool, gens>>
        <3>1. stack[t] \in [Levels -> CallType]
            BY <1>0 DEF TypeOK
        <3> QED
            BY <1>7, <2>2, <3>1
    <2>3. CASE /\ ~Satisfied(Top(t)) /\ ~Own(t, w)
               /\ asleep' = asleep \cup {t}
               /\ UNCHANGED <<workload, stack, depth, pc, pos, pool, gens>>
        <3>1. workload[w].signal # "INACTIVE"
            BY <1>3, <1>11, <2>3 DEF ExecuteLoop, Satisfied
        <3>2. workload[w].owner # t
            BY <2>3, <3>1, OwnedSlot
        <3>3. CallsInv'
            BY <1>1, <1>3, <1>4, <2>3, <3>2, QuietStep
        <3>4. TypeOK'
            BY <1>0, <1>5, <2>3, TypeQuiet DEF TypeOK, LoopOK
        <3> QED
            BY <3>3, <3>4 DEF CoreInv
    <2> QED
        BY <1>3, <1>11, <2>1, <2>2, <2>3 DEF ExecuteLoop
<1> QED
    BY <1>8, <1>9, <1>10, <1>11

\* Steps that change neither the table nor the stacks.
LEMMA QuietKeeps ==
    ASSUME CoreInv,
           (\E t \in Threads : WorkerTurn(t) \/ WorkerStarted(t))
             \/ MainRun \/ Shutdown \/ StartWorker \/ WorkerIsUp \/ PoolIsUp \/ StopWorkers
             \/ Join \/ UNCHANGED vars
    PROVE  CoreInv'
<1>0. TypeOK /\ CallsInv
    BY DEF CoreInv
<1>1. /\ pc \in [Threads -> Places] /\ pos \in [Threads -> Nat \ {0}] /\ LoopOK
      /\ asleep \subseteq Threads /\ pool \in PoolType /\ gens \in 0..MaxGen
    BY <1>0 DEF TypeOK
<1>2. {"free", "loop", "run", "exited", "starting", "user", "join", "closed"} \subseteq Places
    BY DEF Places
<1>3. Main \in Threads /\ Main \notin Workers /\ 1 \in Slots
    BY MainIsThread, BoundsAssumption DEF Slots
<1>4. ASSUME UNCHANGED <<workload, stack, depth>>, asleep' \subseteq asleep,
             pc' \in [Threads -> Places], pos' \in [Threads -> Nat \ {0}], LoopOK',
             pool' \in PoolType, gens' = gens
      PROVE  CoreInv'
    <2>1. TypeOK'
        BY <1>0, <1>1, <1>4, TypeQuiet
    <2>2. CallsInv'
        BY <1>4, QuietStep
    <2> QED
        BY <2>1, <2>2 DEF CoreInv
<1>5. CASE \E t \in Threads : WorkerTurn(t)
    <2>1. PICK t \in Threads : WorkerTurn(t)
        BY <1>5
    <2>2. pc' \in [Threads -> Places] /\ LoopOK'
        BY <1>1, <1>2, <1>3, <2>1 DEF WorkerTurn, LoopOK
    <2> QED
        BY <1>1, <1>4, <2>1, <2>2 DEF WorkerTurn
<1>6. CASE \E t \in Threads : WorkerStarted(t)
    <2>1. PICK t \in Threads, memory \in BOOLEAN :
            /\ t \in Workers
            /\ pc' = [pc EXCEPT ![t] = IF memory THEN "loop" ELSE "exited"]
            /\ pool' = [pool EXCEPT !.failed = @ \/ ~memory]
            /\ asleep' = {}
            /\ UNCHANGED <<workload, stack, depth, pos, gens>>
        BY <1>6 DEF WorkerStarted, Wake
    <2>2. pc' \in [Threads -> Places] /\ LoopOK'
        BY <1>1, <1>2, <1>3, <2>1 DEF LoopOK
    <2>3. pool' \in PoolType
        BY <1>1, <2>1 DEF PoolType
    <2> QED
        BY <1>1, <1>4, <2>1, <2>2, <2>3
<1>7. CASE MainRun
    <2>1. pc' \in [Threads -> Places] /\ pos' \in [Threads -> Nat \ {0}] /\ LoopOK'
        BY <1>1, <1>2, <1>3, <1>7 DEF MainRun, LoopOK
    <2> QED
        BY <1>1, <1>4, <1>7, <2>1 DEF MainRun
\* Main begins to free the pool.
<1>8. ASSUME BeginFree
      PROVE  pos' \in [Threads -> Nat \ {0}] /\ pool' \in PoolType
    <2>1. pool' = [pool EXCEPT !.closing = TRUE] /\ pos' = [pos EXCEPT ![Main] = 1]
        BY <1>8 DEF BeginFree
    <2>2. pos' \in [Threads -> Nat \ {0}]
        <3>1. 1 \in Nat \ {0} /\ pos \in [Threads -> Nat \ {0}]
            BY <1>1
        <3> QED
            BY <2>1, <3>1, Zenon
    <2>3. pool' \in PoolType
        BY <1>1, <2>1 DEF PoolType
    <2> QED
        BY <2>2, <2>3
<1>9. ASSUME BeginFree, pc' = [pc EXCEPT ![Main] = "free"]
      PROVE  pc' \in [Threads -> Places] /\ LoopOK'
    BY <1>1, <1>2, <1>3, <1>9 DEF BeginFree, LoopOK
<1>10. CASE Shutdown
    BY <1>4, <1>8, <1>9, <1>10 DEF Shutdown
<1>11. CASE StartWorker
    <2>1. UNCHANGED <<workload, stack, depth, asleep, gens>>
        BY <1>11 DEF StartWorker
    <2>2. CASE /\ pc' = [pc EXCEPT ![pos[Main]] = "starting"]
               /\ pool' = [pool EXCEPT !.threadCount = pos[Main]]
               /\ UNCHANGED pos
        <3>1. pos[Main] \in Workers /\ pos[Main] \in 0..NumWorkers
            BY <1>1, <1>3, <1>11, BoundsAssumption DEF StartWorker, Workers
        <3>2. pc' \in [Threads -> Places] /\ LoopOK'
            BY <1>1, <1>2, <1>3, <2>2, <3>1, WorkersAreThreads DEF LoopOK
        <3>3. pool' \in PoolType
            BY <1>1, <2>2, <3>1 DEF PoolType
        <3> QED
            BY <1>1, <1>4, <2>1, <2>2, <3>2, <3>3
    <2>3. CASE pc' = [pc EXCEPT ![Main] = "free"] /\ BeginFree
        BY <1>4, <1>8, <1>9, <2>1, <2>3
    <2> QED
        BY <1>11, <2>2, <2>3 DEF StartWorker
<1>12. CASE WorkerIsUp
    <2>1. UNCHANGED <<workload, stack, depth, asleep, gens>> /\ pc[Main] = "boot"
        BY <1>12 DEF WorkerIsUp
    <2>2. CASE pos' = [pos EXCEPT ![Main] = @ + 1] /\ UNCHANGED <<pc, pool>>
        <3>1. pos' \in [Threads -> Nat \ {0}] /\ LoopOK'
            BY <1>1, <1>3, <2>1, <2>2 DEF LoopOK
        <3> QED
            BY <1>1, <1>4, <2>1, <2>2, <3>1
    <2>3. CASE pc' = [pc EXCEPT ![Main] = "free"] /\ BeginFree
        BY <1>4, <1>8, <1>9, <2>1, <2>3
    <2> QED
        BY <1>12, <2>2, <2>3 DEF WorkerIsUp
<1>13. CASE PoolIsUp
    <2>1. pc' \in [Threads -> Places] /\ pos' \in [Threads -> Nat \ {0}] /\ LoopOK'
        BY <1>1, <1>2, <1>3, <1>13 DEF PoolIsUp, LoopOK
    <2> QED
        BY <1>1, <1>4, <1>13, <2>1 DEF PoolIsUp
<1>14. CASE StopWorkers
    <2>1. pc' \in [Threads -> Places] /\ LoopOK'
        BY <1>1, <1>2, <1>3, <1>14 DEF StopWorkers, LoopOK
    <2>2. pool' \in PoolType
        BY <1>1, <1>14 DEF StopWorkers, PoolType
    <2> QED
        BY <1>1, <1>4, <1>14, <2>1, <2>2 DEF StopWorkers, Wake
<1>15. CASE Join
    <2>1. pc' \in [Threads -> Places] /\ LoopOK'
        BY <1>1, <1>2, <1>3, <1>15 DEF Join, LoopOK
    <2>2. pool' \in PoolType
        <3>1. pool' = [pool EXCEPT !.threadCount = 0, !.ready = FALSE] /\ 0 \in 0..NumWorkers
            BY <1>15, BoundsAssumption DEF Join
        <3> QED
            BY <1>1, <3>1 DEF PoolType
    <2> QED
        BY <1>1, <1>4, <1>15, <2>1, <2>2 DEF Join
<1>16. CASE UNCHANGED vars
    <2>1. /\ UNCHANGED <<workload, stack, depth>> /\ asleep' = asleep /\ pc' = pc /\ pos' = pos
          /\ pool' = pool /\ gens' = gens
        BY <1>16 DEF vars
    <2>2. LoopOK'
        BY <1>1, <2>1 DEF LoopOK
    <2> QED
        BY <1>1, <1>4, <2>1, <2>2
<1> QED
    BY <1>5, <1>6, <1>7, <1>10, <1>11, <1>12, <1>13, <1>14, <1>15, <1>16

\* Shutdown goes to the next slot.
LEMMA FreeNextKeeps ==
    ASSUME CoreInv, FreeNext
    PROVE  CoreInv'
<1>0. TypeOK /\ CallsInv
    BY DEF CoreInv
<1>1. PICK w \in Slots : w = pos[Main]
    BY <1>0, MainIsThread, BoundsAssumption DEF FreeNext, TypeOK, Slots
<1>2. /\ pc' = pc /\ pool' = pool /\ gens' = gens
      /\ pos' \in [Threads -> Nat \ {0}] /\ LoopOK'
    BY <1>0, MainIsThread DEF FreeNext, TypeOK, LoopOK
<1>3. CASE DeactivateSlot(Main, w)
    <2>1. CallsInv'
        BY <1>3, DeactivateStep, MainIsThread
    <2>2. TypeOK'
        BY <1>0, <1>2, <1>3, TypeDeactivate, MainIsThread
    <2> QED
        BY <2>1, <2>2 DEF CoreInv
<1>4. CASE UNCHANGED <<workload, stack, depth, asleep>>
    <2>1. CallsInv'
        BY <1>4, QuietStep
    <2>2. TypeOK'
        BY <1>0, <1>2, <1>4, TypeQuiet DEF TypeOK
    <2> QED
        BY <2>1, <2>2 DEF CoreInv
<1> QED
    BY <1>1, <1>3, <1>4 DEF FreeNext

---------------------------------------------------------------------------
(* The theorems *)

LEMMA InvInit == Init => CoreInv
<1> SUFFICES ASSUME Init PROVE CoreInv
    OBVIOUS
<1>1. TypeOK
    BY TypeInit
<1>2. /\ \A t \in Threads, l \in Levels : stack[t][l] = NoCall
      /\ \A w \in Slots : workload[w] = FreeSlot
      /\ asleep = {}
    BY DEF Init
<1>3. FreeSlot.queue = <<>> /\ FreeSlot.signal = "INACTIVE"
    BY DEF FreeSlot
<1>4. CallbackOnOwner /\ FreeIsLast /\ SlotPinned /\ LoopIsForeign
    BY <1>2, NoCallFields, OpsDistinct DEF CallbackOnOwner, FreeIsLast, SlotPinned, LoopIsForeign
<1>5. \A w \in Slots : workload[w].queue = <<>> /\ Len(workload[w].queue) = 0
    BY <1>2, <1>3
<1>6. NoDanglingCommand
    BY <1>2, <1>5, NoCallFields DEF NoDanglingCommand
<1>7. CommandOnce
    BY <1>2, <1>5, NoCallFields DEF CommandOnce
<1>8. NoLostWakeup /\ FreeSlotClean
    BY <1>2, <1>3 DEF NoLostWakeup, FreeSlotClean
<1> QED
    BY <1>1, <1>4, <1>6, <1>7, <1>8 DEF CoreInv, CallsInv

LEMMA InvStep == CoreInv /\ [Next]_vars => CoreInv'
<1> SUFFICES ASSUME CoreInv, [Next]_vars PROVE CoreInv'
    OBVIOUS
<1>1. CASE \E t \in Threads : Call(t)
    BY <1>1, CallKeeps
<1>2. CASE \E t \in Threads : Visit(t)
    BY <1>2, VisitKeeps
<1>3. CASE \E t \in Threads : EnterOwn(t) \/ ReturnRan(t) \/ WaitOther(t) \/ ExecuteLoop(t)
    BY <1>3, WaitKeeps
<1>4. CASE \E t \in Threads : EndRun(t)
    BY <1>4, TypeEndRun, EndRunStep DEF EndRun, CoreInv
<1>5. CASE FreeNext
    BY <1>5, FreeNextKeeps
<1>6. CASE \/ \E t \in Threads : WorkerTurn(t) \/ WorkerStarted(t)
           \/ MainRun \/ Shutdown \/ StartWorker \/ WorkerIsUp \/ PoolIsUp \/ StopWorkers
           \/ Join \/ UNCHANGED vars
    BY <1>6, QuietKeeps
<1>7. Terminated => UNCHANGED vars
    BY DEF Terminated
<1>8. CASE \E t \in Threads : Proceed(t)
    BY <1>2, <1>3, <1>6, <1>8 DEF Proceed
<1>9. CASE PoolStep
    BY <1>5, <1>6, <1>9 DEF PoolStep
<1> QED
    BY <1>1, <1>4, <1>6, <1>7, <1>8, <1>9 DEF Next

\* The inductive invariant: whatever the application calls, from whatever threads, however
\* deeply nested, the table, the queues and the calls in progress stay consistent.
THEOREM CoreInvariant == Spec => []CoreInv
BY InvInit, InvStep, PTL DEF Spec

\* Every variable has its type; in particular the calls in progress are the lowest frames of
\* their stacks, and nh_core_run() never leaves the table.
THEOREM TypeCorrect == Spec => []TypeOK
<1>1. CoreInv => TypeOK
    BY DEF CoreInv
<1> QED
    BY <1>1, CoreInvariant, PTL

\* Callbacks run on the thread that was selected for their workload and for the activation
\* they were entered for.
THEOREM CallbacksOnOwner == Spec => []CallbackOnOwner
<1>1. CoreInv => CallbackOnOwner
    BY DEF CoreInv, CallsInv
<1> QED
    BY <1>1, CoreInvariant, PTL

\* free_f runs alone, and is the last callback of its activation.
THEOREM FreesLast == Spec => []FreeIsLast
<1>1. CoreInv => FreeIsLast
    BY DEF CoreInv, CallsInv
<1> QED
    BY <1>1, CoreInvariant, PTL

\* A slot is not reused while a call still waits for it.
THEOREM SlotsPinned == Spec => []SlotPinned
<1>1. CoreInv => SlotPinned
    BY DEF CoreInv, CallsInv
<1> QED
    BY <1>1, CoreInvariant, PTL

\* The scheduler holds no pointer to a command whose sender has left execute(), and holds each
\* command once.
THEOREM CommandsAlive == Spec => [](NoDanglingCommand /\ CommandOnce)
<1>1. CoreInv => NoDanglingCommand /\ CommandOnce
    BY DEF CoreInv, CallsInv
<1> QED
    BY <1>1, CoreInvariant, PTL

\* Whoever sleeps has something to wait for that another thread will bring about.
THEOREM WakeupsArrive == Spec => []NoLostWakeup
<1>1. CoreInv => NoLostWakeup
    BY DEF CoreInv, CallsInv
<1> QED
    BY <1>1, CoreInvariant, PTL

---------------------------------------------------------------------------
(* The effects of a step *)

FramesBut(t, n) ==
    \A u \in Threads, l \in Levels : (u # t \/ l # n) => stack'[u][l] = stack[u][l]

\* The slot keeps its activation.
Kept(w) ==
    /\ workload'[w].signal = workload[w].signal
    /\ workload'[w].owner = workload[w].owner
    /\ workload'[w].initialized = workload[w].initialized
    /\ workload'[w].gen = workload[w].gen

\* A waiting call is put on the stack of t.
Pushed(t, n, w, op, state) ==
    /\ n = depth[t] + 1
    /\ depth' = [depth EXCEPT ![t] = n]
    /\ stack[t][n] = NoCall
    /\ FramesBut(t, n)
    /\ stack'[t][n].op = op
    /\ stack'[t][n].w = w
    /\ stack'[t][n].gen = workload'[w].gen
    /\ stack'[t][n].state = state
    /\ stack'[t][n].cmd = NoCommand
    /\ SlotsBut(w)

Activated(t, n, w) ==
    /\ Pushed(t, n, w, "activate", "enter")
    /\ InApplication(t)
    /\ ~pool.closing /\ ~pool.failed
    /\ Available(w)
    /\ gens' = gens + 1
    /\ workload'[w].signal = "INIT"
    /\ workload'[w].activating
    /\ workload'[w].gen = gens'
    /\ workload'[w].initialized = workload[w].initialized
    /\ workload'[w].deactivate = workload[w].deactivate
    /\ workload'[w].queue = workload[w].queue
    /\ workload'[w].owner \in Registered
    /\ <<"activate", t, workload'[w].owner>> \in Calls

Asked(t, n, w) ==
    /\ Pushed(t, n, w, "execute", "loop")
    /\ InApplication(t)
    /\ Kept(w)
    /\ workload[w].initialized
    /\ workload[w].signal # "INACTIVE"
    /\ workload'[w].activating = workload[w].activating
    /\ workload'[w].deactivate = workload[w].deactivate
    /\ workload'[w].queue = Append(workload[w].queue, <<t, n>>)
    /\ gens' = gens

\* The mark of nh_core_deactivateWorkload(): init_f has returned, unless it is the shutdown's.
Flags(w) ==
    /\ Kept(w)
    /\ workload[w].signal # "INACTIVE"
    /\ workload'[w].activating = workload[w].activating
    /\ workload'[w].queue = workload[w].queue
    /\ \/ workload'[w].deactivate = workload[w].deactivate
       \/ workload'[w].deactivate /\ (workload[w].initialized \/ pool.closing)
    /\ gens' = gens

Joined(t, n, w, op) ==
    /\ Pushed(t, n, w, op, "enter")
    /\ op = "deactivate" => workload'[w].deactivate
    /\ Flags(w)

Flagged(w) ==
    /\ stack' = stack /\ depth' = depth
    /\ SlotsBut(w)
    /\ Flags(w)

Entered(t, n, w, cmd) ==
    /\ n = depth[t] + 1
    /\ depth' = [depth EXCEPT ![t] = n]
    /\ stack[t][n] = NoCall
    /\ \A u \in Threads, l \in Levels : (u # t \/ l # n) =>
         \/ stack'[u][l] = stack[u][l]
         \/ /\ u = t /\ l = n - 1 /\ stack[u][l].w = w
            /\ stack[u][l].op \in WaitingOps \ {"execute"}
            /\ stack'[u][l] = [stack[u][l] EXCEPT !.state = "ran"]
    /\ stack'[t][n].op = "run"
    /\ stack'[t][n].w = w
    /\ stack'[t][n].gen = workload[w].gen
    /\ stack'[t][n].phase = Phase(w)
    /\ stack'[t][n].cmd = cmd
    /\ ~Skips(t, w)
    /\ SlotsBut(w)
    /\ Kept(w)
    /\ workload'[w].activating = workload[w].activating
    /\ workload'[w].deactivate = workload[w].deactivate
    /\ \/ cmd = NoCommand /\ workload'[w].queue = workload[w].queue
       \/ /\ Phase(w) = "WORK"
          /\ workload[w].queue # <<>>
          /\ cmd = Head(workload[w].queue)
          /\ workload'[w].queue = Tail(workload[w].queue)
    /\ gens' = gens

Marked(t, n, s) ==
    /\ n = depth[t]
    /\ depth' = depth
    /\ workload' = workload
    /\ FramesBut(t, n)
    /\ stack[t][n].op \in WaitingOps \ {"execute"}
    /\ stack'[t][n] = [stack[t][n] EXCEPT !.state = s]
    /\ s = "ran" => Own(t, stack[t][n].w) /\ Skips(t, stack[t][n].w)
    /\ gens' = gens

Returned(t, n) ==
    /\ n = depth[t]
    /\ depth' = [depth EXCEPT ![t] = n - 1]
    /\ FramesBut(t, n)
    /\ stack[t][n].op \in WaitingOps
    /\ stack'[t][n] = NoCall
    /\ \/ stack[t][n].op # "execute" /\ stack[t][n].state = "ran"
       \/ Satisfied(stack[t][n])
    /\ \A v \in Slots :
         /\ Kept(v)
         /\ workload'[v].deactivate = workload[v].deactivate
         /\ workload'[v].queue = workload[v].queue
         /\ workload'[v].activating =
              (workload[v].activating /\ ~(stack[t][n].op = "activate" /\ stack[t][n].w = v))
    /\ gens' = gens

Quiet == UNCHANGED <<workload, stack, depth, gens>>

CallEffect ==
    \E t \in Threads, n \in Levels, w \in Slots :
        \/ Activated(t, n, w)
        \/ Asked(t, n, w)
        \/ \E op \in {"deactivate", "wait"} : Joined(t, n, w, op)
        \/ \E cmd \in Addresses \cup {NoCommand} : Entered(t, n, w, cmd)

ReturnEffect ==
    \E t \in Threads, n \in Levels :
        \/ \E s \in {"ran", "loop"} : Marked(t, n, s)
        \/ Returned(t, n)
        \/ \E w \in Slots, r \in Results \cup {"OK"} : Ended(t, n, w, r)

Effect == CallEffect \/ ReturnEffect \/ (\E w \in Slots : Flagged(w)) \/ Quiet

---------------------------------------------------------------------------
(* Every step has one of the effects *)

\* A push, as Pushed describes it.
LEMMA PushedEffect ==
    ASSUME TypeOK, NEW t \in Threads, NEW w \in Slots, NEW op \in WaitingOps,
           NEW gen \in 0..MaxGen, NEW state \in {"enter", "loop"},
           Push(t, WaitingCall(op, w, gen, state)), SlotsBut(w), gen = workload'[w].gen
    PROVE  depth[t] + 1 \in Levels /\ Pushed(t, depth[t] + 1, w, op, state)
<1> DEFINE call == WaitingCall(op, w, gen, state)
<1>1. /\ call \in CallType /\ call.op = op /\ call.w = w /\ call.gen = gen
      /\ call.state = state /\ call.cmd = NoCommand
    BY WaitingCallType
<1>2. Push(t, call)
    OBVIOUS
<1> HIDE DEF call
<1>3. /\ depth[t] + 1 \in Levels
      /\ stack[t][depth[t] + 1] = NoCall
      /\ stack'[t][depth[t] + 1] = call
      /\ \A u \in Threads, l \in Levels :
           (u # t \/ l # depth[t] + 1) => stack'[u][l] = stack[u][l]
    BY <1>1, <1>2, PushEffect
<1>4. depth' = [depth EXCEPT ![t] = depth[t] + 1]
    BY <1>2 DEF Push
<1> QED
    BY <1>1, <1>3, <1>4 DEF Pushed, FramesBut

LEMMA ActivateEffect ==
    ASSUME CoreInv, NEW t \in Threads, NEW thread \in Registered, Activate(t, thread)
    PROVE  \E n \in Levels, w \in Slots : Activated(t, n, w)
<1>0. TypeOK
    BY DEF CoreInv
<1>1. PICK w \in Slots :
        /\ Available(w)
        /\ workload' = [workload EXCEPT ![w].signal = "INIT", ![w].activating = TRUE,
                                        ![w].owner = AssignedTo(thread), ![w].gen = gens']
        /\ Push(t, WaitingCall("activate", w, gens', "enter"))
    BY DEF Activate
<1>2. gens' \in 0..MaxGen /\ gens' = gens + 1
    BY <1>0, BoundsAssumption DEF Activate, TypeOK
<1>3. AssignedTo(thread) \in Registered
    BY MainIsThread DEF AssignedTo
<1>4. PICK slot \in SlotType : slot = workload[w]
    BY <1>0 DEF TypeOK
<1>5. PICK new : new = [slot EXCEPT !.signal = "INIT", !.activating = TRUE,
                                    !.owner = AssignedTo(thread), !.gen = gens']
    OBVIOUS
<1>6. workload' = [workload EXCEPT ![w] = new]
    BY <1>0, <1>1, <1>4, <1>5 DEF TypeOK
<1>7. workload'[w] = new /\ SlotsBut(w)
    BY <1>0, <1>6 DEF TypeOK, SlotsBut
<1>8. /\ new.signal = "INIT" /\ new.activating /\ new.gen = gens'
      /\ new.owner = AssignedTo(thread) /\ new.initialized = slot.initialized
      /\ new.deactivate = slot.deactivate /\ new.queue = slot.queue
    BY <1>5 DEF SlotType
<1>9. /\ InApplication(t) /\ ~pool.closing /\ ~pool.failed
      /\ <<"activate", t, AssignedTo(thread)>> \in Calls
    BY DEF Activate, Accepts, MayCall
<1>10. depth[t] + 1 \in Levels /\ Pushed(t, depth[t] + 1, w, "activate", "enter")
    BY <1>0, <1>1, <1>2, <1>7, <1>8, PushedEffect DEF WaitingOps
<1>11. Activated(t, depth[t] + 1, w)
    BY <1>1, <1>2, <1>3, <1>4, <1>7, <1>8, <1>9, <1>10 DEF Activated
<1> QED
    BY <1>10, <1>11

LEMMA ExecuteEffect ==
    ASSUME CoreInv, NEW t \in Threads, NEW w \in Slots, NEW handle \in 1..MaxGen,
           Execute(t, w, handle)
    PROVE  \E n \in Levels : Asked(t, n, w)
<1>0. TypeOK
    BY DEF CoreInv
<1>n. PICK n : n = depth[t] + 1
    OBVIOUS
<1>a. PICK a : a = <<t, n>>
    OBVIOUS
<1>1. /\ InApplication(t)
      /\ workload[w].initialized /\ workload[w].signal # "INACTIVE"
      /\ workload[w].gen = handle
      /\ workload' = [workload EXCEPT ![w].queue = Append(@, a)]
      /\ Push(t, WaitingCall("execute", w, handle, "loop"))
      /\ gens' = gens
    BY <1>n, <1>a DEF Execute, IsWorkload, MayCall
<1>2. PICK slot \in SlotType : slot = workload[w]
    BY <1>0 DEF TypeOK
<1>3. PICK new : new = [slot EXCEPT !.queue = Append(@, a)]
    OBVIOUS
<1>4. workload' = [workload EXCEPT ![w] = new]
    BY <1>0, <1>1, <1>2, <1>3 DEF TypeOK
<1>5. workload'[w] = new /\ SlotsBut(w)
    BY <1>0, <1>4 DEF TypeOK, SlotsBut
<1>6. /\ new.signal = slot.signal /\ new.activating = slot.activating /\ new.gen = slot.gen
      /\ new.owner = slot.owner /\ new.initialized = slot.initialized
      /\ new.deactivate = slot.deactivate /\ new.queue = Append(slot.queue, a)
    BY <1>3 DEF SlotType
<1>7. handle \in 0..MaxGen
    BY BoundsAssumption
<1>8. depth[t] + 1 \in Levels /\ Pushed(t, depth[t] + 1, w, "execute", "loop")
    BY <1>0, <1>1, <1>2, <1>5, <1>6, <1>7, PushedEffect DEF WaitingOps
<1>9. Asked(t, n, w)
    BY <1>n, <1>a, <1>1, <1>2, <1>5, <1>6, <1>8 DEF Asked, Kept
<1> QED
    BY <1>n, <1>8, <1>9

\* The deactivation by the application and that by the shutdown.
LEMMA DeactivateEffect ==
    ASSUME CoreInv, NEW t \in Threads, NEW w \in Slots, DeactivateSlot(t, w),
           workload[w].initialized \/ pool.closing, gens' = gens
    PROVE  /\ Flags(w)
           /\ workload'[w].deactivate
           /\ SlotsBut(w)
           /\ \/ /\ Own(t, w) /\ Running(w)
                 /\ stack' = stack /\ depth' = depth
              \/ /\ depth[t] + 1 \in Levels
                 /\ Pushed(t, depth[t] + 1, w, "deactivate", "enter")
<1>0. TypeOK
    BY DEF CoreInv
<1>1. workload[w].signal # "INACTIVE" /\ workload' = [workload EXCEPT ![w].deactivate = TRUE]
    BY DEF DeactivateSlot
<1>2. PICK slot \in SlotType : slot = workload[w]
    BY <1>0 DEF TypeOK
<1>3. PICK new : new = [slot EXCEPT !.deactivate = TRUE]
    OBVIOUS
<1>4. workload' = [workload EXCEPT ![w] = new]
    BY <1>0, <1>1, <1>2, <1>3 DEF TypeOK
<1>5. workload'[w] = new /\ SlotsBut(w)
    BY <1>0, <1>4 DEF TypeOK, SlotsBut
<1>6. /\ new.signal = slot.signal /\ new.activating = slot.activating /\ new.gen = slot.gen
      /\ new.owner = slot.owner /\ new.initialized = slot.initialized
      /\ new.deactivate /\ new.queue = slot.queue /\ slot.gen \in 0..MaxGen
    BY <1>3 DEF SlotType
<1>7. Flags(w) /\ workload'[w].deactivate /\ SlotsBut(w)
    BY <1>1, <1>2, <1>5, <1>6 DEF Flags, Kept
<1>8. CASE Own(t, w) /\ Running(w)
    BY <1>7, <1>8 DEF DeactivateSlot
<1>9. CASE ~(Own(t, w) /\ Running(w))
    <2>1. Push(t, WaitingCall("deactivate", w, workload[w].gen, "enter"))
        BY <1>9 DEF DeactivateSlot
    <2>2. workload[w].gen \in 0..MaxGen /\ workload[w].gen = workload'[w].gen
        BY <1>2, <1>5, <1>6
    <2> QED
        BY <1>0, <1>7, <2>1, <2>2, PushedEffect DEF WaitingOps
<1> QED
    BY <1>8, <1>9

\* The flags and the call of a deactivation make one effect.
LEMMA DeactivateIsEffect ==
    ASSUME CoreInv, NEW t \in Threads, NEW w \in Slots, DeactivateSlot(t, w),
           workload[w].initialized \/ pool.closing, gens' = gens
    PROVE  Effect
<1>1. CASE stack' = stack /\ depth' = depth
    <2>1. Flagged(w)
        BY <1>1, DeactivateEffect DEF Flagged
    <2> QED
        BY <2>1 DEF Effect
<1>2. CASE /\ depth[t] + 1 \in Levels
           /\ Pushed(t, depth[t] + 1, w, "deactivate", "enter")
    <2>1. Joined(t, depth[t] + 1, w, "deactivate")
        BY <1>2, DeactivateEffect DEF Joined
    <2> QED
        BY <1>2, <2>1 DEF Effect, CallEffect
<1> QED
    BY <1>1, <1>2, DeactivateEffect

LEMMA WaitEffect ==
    ASSUME CoreInv, NEW t \in Threads, NEW w \in Slots, WaitForCompletion(t, w)
    PROVE  \E n \in Levels : Joined(t, n, w, "wait")
<1>0. TypeOK
    BY DEF CoreInv
<1>1. /\ workload' = workload /\ gens' = gens
      /\ Push(t, WaitingCall("wait", w, workload[w].gen, "enter"))
      /\ workload[w].signal # "INACTIVE"
    BY DEF WaitForCompletion, IsWorkload
<1>2. workload[w].gen \in 0..MaxGen
    BY <1>0 DEF TypeOK, SlotType
<1>3. SlotsBut(w) /\ Flags(w)
    BY <1>1 DEF SlotsBut, Flags, Kept
<1>4. depth[t] + 1 \in Levels /\ Pushed(t, depth[t] + 1, w, "wait", "enter")
    BY <1>0, <1>1, <1>2, <1>3, PushedEffect DEF WaitingOps
<1>5. Joined(t, depth[t] + 1, w, "wait")
    BY <1>3, <1>4 DEF Joined
<1> QED
    BY <1>4, <1>5

\* calls is the stack of t the callback is put on: the call below may have been marked.
LEMMA EnterIsEffect ==
    ASSUME CoreInv, NEW t \in Threads, NEW w \in Slots, NEW calls \in [Levels -> CallType],
           EnterCallback(t, w, calls), gens' = gens,
           \A l \in Levels :
             \/ calls[l] = stack[t][l]
             \/ /\ l = depth[t] /\ stack[t][l].w = w
                /\ stack[t][l].op \in WaitingOps \ {"execute"}
                /\ calls[l] = [stack[t][l] EXCEPT !.state = "ran"]
    PROVE  CallEffect
<1>0. TypeOK
    BY DEF CoreInv
<1> DEFINE takes == Phase(w) = "WORK" /\ workload[w].queue # <<>>
<1>1. PICK cmd \in Addresses \cup {NoCommand} :
        cmd = IF takes THEN Head(workload[w].queue) ELSE NoCommand
    BY <1>0, TakeCommand
<1>2. PICK n \in Levels : n = depth[t] + 1
    BY <1>0, BoundsAssumption DEF EnterCallback, TypeOK, Levels
<1>3. PICK call \in CallType : call = RunCall(w, Phase(w), cmd)
    BY <1>0, RunCallType
<1>4. /\ call.op = "run" /\ call.w = w /\ call.gen = workload[w].gen
      /\ call.phase = Phase(w) /\ call.cmd = cmd
    BY <1>0, <1>3, RunCallType
<1>5. /\ ~Skips(t, w)
      /\ depth' = [depth EXCEPT ![t] = n]
      /\ stack' = [stack EXCEPT ![t] = [calls EXCEPT ![n] = call]]
      /\ workload' = IF takes THEN [workload EXCEPT ![w].queue = Tail(@)] ELSE workload
    BY <1>1, <1>2, <1>3 DEF EnterCallback
<1>6. /\ stack[t][n] = NoCall /\ stack'[t][n] = call
      /\ \A l \in Levels : l # n => stack'[t][l] = calls[l]
      /\ \A u \in Threads \ {t} : stack'[u] = stack[u]
    BY <1>0, <1>2, <1>5, BoundsAssumption DEF TypeOK, Levels
<1>7. ASSUME NEW u \in Threads, NEW l \in Levels, u # t \/ l # n
      PROVE  \/ stack'[u][l] = stack[u][l]
             \/ /\ u = t /\ l = n - 1 /\ stack[u][l].w = w
                /\ stack[u][l].op \in WaitingOps \ {"execute"}
                /\ stack'[u][l] = [stack[u][l] EXCEPT !.state = "ran"]
    <2>1. CASE u # t
        BY <1>6, <2>1
    <2>2. CASE u = t
        <3>1. stack'[t][l] = calls[l] /\ depth[t] = n - 1
            BY <1>0, <1>2, <1>6, <1>7, <2>2 DEF TypeOK
        <3>2. CASE calls[l] = stack[t][l]
            BY <2>2, <3>1, <3>2
        <3>3. CASE /\ l = depth[t] /\ stack[t][l].w = w
                   /\ stack[t][l].op \in WaitingOps \ {"execute"}
                   /\ calls[l] = [stack[t][l] EXCEPT !.state = "ran"]
            BY <2>2, <3>1, <3>3
        <3> QED
            BY <3>2, <3>3
    <2> QED
        BY <2>1, <2>2
<1>8. /\ SlotsBut(w) /\ Kept(w)
      /\ workload'[w].activating = workload[w].activating
      /\ workload'[w].deactivate = workload[w].deactivate
      /\ workload'[w].queue = IF takes THEN Tail(workload[w].queue) ELSE workload[w].queue
    <2>1. PICK slot \in SlotType : slot = workload[w]
        BY <1>0 DEF TypeOK
    <2>2. CASE takes
        <3>1. PICK new : new = [slot EXCEPT !.queue = Tail(@)]
            OBVIOUS
        <3>2. workload' = [workload EXCEPT ![w] = new]
            BY <1>0, <1>5, <2>1, <2>2, <3>1 DEF TypeOK
        <3>3. /\ new.signal = slot.signal /\ new.activating = slot.activating
              /\ new.gen = slot.gen /\ new.owner = slot.owner
              /\ new.initialized = slot.initialized /\ new.deactivate = slot.deactivate
              /\ new.queue = Tail(slot.queue)
            BY <3>1 DEF SlotType
        <3> QED
            BY <1>0, <2>1, <2>2, <3>2, <3>3 DEF TypeOK, SlotsBut, Kept
    <2>3. CASE ~takes
        BY <1>5, <2>3 DEF SlotsBut, Kept
    <2> QED
        BY <2>2, <2>3
<1>9. \/ cmd = NoCommand /\ workload'[w].queue = workload[w].queue
      \/ /\ Phase(w) = "WORK"
         /\ workload[w].queue # <<>>
         /\ cmd = Head(workload[w].queue)
         /\ workload'[w].queue = Tail(workload[w].queue)
    BY <1>1, <1>8
<1>10. Entered(t, n, w, cmd)
    BY <1>2, <1>4, <1>5, <1>6, <1>7, <1>8, <1>9 DEF Entered
<1> QED
    BY <1>10 DEF CallEffect

LEMMA MarkIsEffect ==
    ASSUME CoreInv, NEW t \in Threads, IsWaiting(t), Top(t).op # "execute",
           NEW s \in {"ran", "loop"}, stack' = [stack EXCEPT ![t][depth[t]].state = s],
           UNCHANGED <<workload, depth, gens>>,
           s = "ran" => Own(t, Top(t).w) /\ Skips(t, Top(t).w)
    PROVE  ReturnEffect
<1>0. TypeOK
    BY DEF CoreInv
<1>1. PICK n \in Levels : n = depth[t]
    BY <1>0, TopType DEF IsWaiting
<1>2. Top(t) = stack[t][n] /\ stack[t][n].op \in WaitingOps \ {"execute"}
    BY <1>1 DEF IsWaiting, Top
<1>3. FramesBut(t, n) /\ stack'[t][n] = [stack[t][n] EXCEPT !.state = s]
    BY <1>0, <1>1 DEF TypeOK, FramesBut
<1>4. Marked(t, n, s)
    BY <1>1, <1>2, <1>3 DEF Marked
<1> QED
    BY <1>4 DEF ReturnEffect

LEMMA ReturnIsEffect ==
    ASSUME CoreInv, NEW t \in Threads, IsWaiting(t), Return(t),
           (Top(t).op # "execute" /\ Top(t).state = "ran") \/ Satisfied(Top(t))
    PROVE  ReturnEffect
<1>0. TypeOK
    BY DEF CoreInv
<1>1. PICK n \in Levels : n = depth[t]
    BY <1>0, TopType DEF IsWaiting
<1>2. /\ Top(t) = stack[t][n] /\ stack[t][n].op \in WaitingOps
      /\ stack[t][n].w \in Slots
    BY <1>0, <1>1, TopType DEF IsWaiting, Top
<1>3. /\ depth' = [depth EXCEPT ![t] = n - 1]
      /\ stack'[t][n] = NoCall /\ FramesBut(t, n) /\ gens' = gens
    BY <1>0, <1>1, PopEffect, ZenonT(60) DEF Return, Pop, IsWaiting, FramesBut
<1>4. ASSUME NEW v \in Slots
      PROVE  /\ Kept(v)
             /\ workload'[v].deactivate = workload[v].deactivate
             /\ workload'[v].queue = workload[v].queue
             /\ workload'[v].activating =
                  (workload[v].activating /\ ~(stack[t][n].op = "activate" /\ stack[t][n].w = v))
    <2>1. PICK slot \in SlotType : slot = workload[v]
        BY <1>0 DEF TypeOK
    <2>2. slot.activating \in BOOLEAN
        BY DEF SlotType
    <2>3. CASE stack[t][n].op = "activate" /\ stack[t][n].w = v
        <3>1. PICK new : new = [slot EXCEPT !.activating = FALSE]
            OBVIOUS
        <3>2. workload'[v] = new
            BY <1>0, <1>2, <2>1, <2>3, <3>1 DEF Return, TypeOK
        <3>3. /\ new.signal = slot.signal /\ new.activating = FALSE
              /\ new.gen = slot.gen /\ new.owner = slot.owner
              /\ new.initialized = slot.initialized /\ new.deactivate = slot.deactivate
              /\ new.queue = slot.queue
            BY <3>1 DEF SlotType
        <3> QED
            BY <2>1, <2>3, <3>2, <3>3 DEF Kept
    <2>4. CASE ~(stack[t][n].op = "activate" /\ stack[t][n].w = v)
        <3>1. workload'[v] = workload[v]
            BY <1>0, <1>2, <2>4 DEF Return, TypeOK
        <3> QED
            BY <2>1, <2>2, <2>4, <3>1 DEF Kept
    <2> QED
        BY <2>3, <2>4
<1>5. Returned(t, n)
    BY <1>1, <1>2, <1>3, <1>4 DEF Returned
<1> QED
    BY <1>5 DEF ReturnEffect

\* The calls of the application.
LEMMA CallHasEffect ==
    ASSUME CoreInv, NEW t \in Threads, Call(t)
    PROVE  Effect
<1>0. TypeOK
    BY DEF CoreInv
<1>1. CASE \E thread \in Registered : Activate(t, thread)
    BY <1>1, ActivateEffect DEF Effect, CallEffect
<1>2. CASE \E w \in Slots : \E handle \in 1..MaxGen : Execute(t, w, handle)
    BY <1>2, ExecuteEffect DEF Effect, CallEffect
<1>3. CASE \E w \in Slots : Deactivate(t, w)
    <2>1. PICK w \in Slots : DeactivateSlot(t, w) /\ workload[w].initialized /\ gens' = gens
        BY <1>3 DEF Deactivate, IsWorkload
    <2> QED
        BY <2>1, DeactivateIsEffect
<1>4. CASE \E w \in Slots : RunOrSleep(t, w)
    <2>1. PICK w \in Slots : EnterCallback(t, w, stack[t]) /\ gens' = gens
        BY <1>4 DEF RunOrSleep
    <2>2. stack[t] \in [Levels -> CallType]
        BY <1>0 DEF TypeOK
    <2>3. CallEffect
        BY <2>1, <2>2, EnterIsEffect
    <2> QED
        BY <2>3 DEF Effect
<1>5. CASE \E w \in Slots : WaitForCompletion(t, w)
    BY <1>5, WaitEffect DEF Effect, CallEffect
<1> QED
    BY <1>1, <1>2, <1>3, <1>4, <1>5 DEF Call

\* What a thread does without being asked.
LEMMA ProceedHasEffect ==
    ASSUME CoreInv, NEW t \in Threads, Proceed(t)
    PROVE  Effect
<1>0. TypeOK
    BY DEF CoreInv
<1>s. stack[t] \in [Levels -> CallType]
    BY <1>0 DEF TypeOK
<1>1. CASE Visit(t)
    <2>1. CASE EnterCallback(t, pos[t], stack[t])
        <3>1. pos[t] \in Slots /\ gens' = gens
            BY <1>0, <1>1 DEF Visit, TypeOK, LoopOK
        <3>2. CallEffect
            BY <1>s, <2>1, <3>1, EnterIsEffect
        <3> QED
            BY <3>2 DEF Effect
    <2>2. CASE UNCHANGED <<workload, stack, depth>>
        BY <1>1, <2>2 DEF Visit, Effect, Quiet
    <2> QED
        BY <1>1, <2>1, <2>2 DEF Visit
<1>2. CASE WorkerTurn(t) \/ WorkerStarted(t)
    BY <1>2 DEF WorkerTurn, WorkerStarted, Effect, Quiet
\* The calls that wait.
<1>3. ASSUME IsWaiting(t)
      PROVE  depth[t] \in Levels /\ Top(t).w \in Slots /\ Top(t) = stack[t][depth[t]]
    BY <1>0, <1>3, TopType DEF IsWaiting, Top
<1>4. CASE EnterOwn(t)
    <2>1. /\ IsWaiting(t) /\ Top(t).op # "execute" /\ Own(t, Top(t).w) /\ gens' = gens
          /\ Top(t).op \in WaitingOps
        BY <1>4 DEF EnterOwn, IsWaiting
    <2>2. CASE /\ Skips(t, Top(t).w)
               /\ stack' = [stack EXCEPT ![t] = [stack[t] EXCEPT ![depth[t]].state = "ran"]]
               /\ UNCHANGED <<workload, depth>>
        <3>1. stack' = [stack EXCEPT ![t][depth[t]].state = "ran"]
            BY <1>0, <2>2 DEF TypeOK
        <3>2. ReturnEffect
            BY <2>1, <2>2, <3>1, MarkIsEffect
        <3> QED
            BY <3>2 DEF Effect
    <2>3. CASE EnterCallback(t, Top(t).w, [stack[t] EXCEPT ![depth[t]].state = "ran"])
        <3>1. PICK n \in Levels : n = depth[t]
            BY <1>3, <2>1
        <3>2. PICK c \in CallType : c = stack[t][n]
            BY <1>s
        <3>3. [c EXCEPT !.state = "ran"] \in CallType
            BY MarkedType
        <3>4. PICK calls : calls = [stack[t] EXCEPT ![n].state = "ran"]
            OBVIOUS
        <3>5. calls = [stack[t] EXCEPT ![n] = [c EXCEPT !.state = "ran"]]
            BY <3>2, <3>4
        <3>6. /\ calls \in [Levels -> CallType]
              /\ \A l \in Levels : l # n => calls[l] = stack[t][l]
              /\ calls[n] = [stack[t][n] EXCEPT !.state = "ran"]
            BY <1>s, <3>2, <3>3, <3>5
        <3>7. EnterCallback(t, Top(t).w, calls)
            BY <2>3, <3>1, <3>4
        <3>8. stack[t][n].w = Top(t).w /\ stack[t][n].op \in WaitingOps \ {"execute"}
            BY <1>3, <2>1, <3>1
        <3>9. CallEffect
            BY <1>3, <2>1, <3>1, <3>6, <3>7, <3>8, EnterIsEffect
        <3> QED
            BY <3>9 DEF Effect
    <2> QED
        BY <1>4, <2>2, <2>3 DEF EnterOwn
<1>5. CASE ReturnRan(t)
    <2>1. ReturnEffect
        BY <1>5, ReturnIsEffect DEF ReturnRan
    <2> QED
        BY <2>1 DEF Effect
<1>6. CASE WaitOther(t)
    <2>1. CASE Satisfied(Top(t)) /\ Return(t)
        <3>1. ReturnEffect
            BY <1>6, <2>1, ReturnIsEffect DEF WaitOther
        <3> QED
            BY <3>1 DEF Effect
    <2>2. CASE /\ stack' = [stack EXCEPT ![t][depth[t]].state = "loop"]
               /\ UNCHANGED <<workload, depth, gens>>
        <3>1. ReturnEffect
            BY <1>6, <2>2, MarkIsEffect DEF WaitOther
        <3> QED
            BY <3>1 DEF Effect
    <2> QED
        BY <1>6, <2>1, <2>2 DEF WaitOther
<1>7. CASE ExecuteLoop(t)
    <2>1. CASE Satisfied(Top(t)) /\ Return(t)
        <3>1. ReturnEffect
            BY <1>7, <2>1, ReturnIsEffect DEF ExecuteLoop
        <3> QED
            BY <3>1 DEF Effect
    <2>2. CASE EnterCallback(t, Top(t).w, stack[t]) /\ gens' = gens
        <3>1. Top(t).w \in Slots
            BY <1>3, <1>7 DEF ExecuteLoop
        <3>2. CallEffect
            BY <1>s, <2>2, <3>1, EnterIsEffect
        <3> QED
            BY <3>2 DEF Effect
    <2>3. CASE UNCHANGED <<workload, stack, depth, gens>>
        BY <2>3 DEF Effect, Quiet
    <2> QED
        BY <1>7, <2>1, <2>2, <2>3 DEF ExecuteLoop
<1> QED
    BY <1>1, <1>2, <1>4, <1>5, <1>6, <1>7 DEF Proceed

\* Every step has one of the effects.  The shutdown deactivates slots only once the pool closes.
LEMMA StepHasEffect ==
    ASSUME CoreInv, Stages, [Next]_vars
    PROVE  Effect
<1>0. TypeOK
    BY DEF CoreInv
<1>1. CASE \E t \in Threads : EndRun(t)
    <2>1. PICK t \in Threads, r \in Results \cup {"OK"} : EndRunOf(t, r)
        BY <1>1 DEF EndRun
    <2>2. \E n \in Levels, w \in Slots : Ended(t, n, w, r)
        BY <2>1, EndRunEffect
    <2> QED
        BY <2>2 DEF Effect, ReturnEffect
<1>2. CASE FreeNext
    <2>1. PICK w \in Slots : w = pos[Main]
        BY <1>0, <1>2, MainIsThread, BoundsAssumption DEF FreeNext, TypeOK, Slots
    <2>2. pool.closing /\ gens' = gens
        BY <1>2 DEF FreeNext, Stages
    <2>3. CASE DeactivateSlot(Main, w)
        BY <2>2, <2>3, MainIsThread, DeactivateIsEffect
    <2>4. CASE UNCHANGED <<workload, stack, depth>>
        BY <2>2, <2>4 DEF Effect, Quiet
    <2> QED
        BY <1>2, <2>1, <2>3, <2>4 DEF FreeNext
<1>3. CASE MainRun \/ Shutdown \/ StartWorker \/ WorkerIsUp \/ PoolIsUp \/ StopWorkers \/ Join
           \/ Terminated \/ UNCHANGED vars
    BY <1>3 DEF MainRun, Shutdown, StartWorker, WorkerIsUp, PoolIsUp, StopWorkers, Join,
                Terminated, vars, Effect, Quiet
<1> QED
    BY <1>1, <1>2, <1>3, CallHasEffect, ProceedHasEffect DEF Next, PoolStep

---------------------------------------------------------------------------
(* The effects on one slot, and on one frame of a stack *)

SlotEffect(v) ==
    \/ /\ Kept(v)
       /\ workload[v].signal = "INACTIVE" => workload'[v].deactivate = workload[v].deactivate
       /\ workload'[v].deactivate =>
            workload[v].deactivate \/ workload[v].initialized \/ pool.closing
       /\ workload[v].deactivate => workload'[v].deactivate
       /\ \/ workload'[v].activating = workload[v].activating
          \/ /\ ~workload'[v].activating
             /\ \E t \in Threads, n \in Levels :
                  Returned(t, n) /\ stack[t][n].op = "activate" /\ stack[t][n].w = v
    \/ \E t \in Threads, n \in Levels : Activated(t, n, v)
    \/ \E t \in Threads, n \in Levels, r \in Results \cup {"OK"} : Ended(t, n, v, r)

\* But for its state, the call is the same.
SameCall(u, l) ==
    /\ stack'[u][l].op = stack[u][l].op
    /\ stack'[u][l].w = stack[u][l].w
    /\ stack'[u][l].gen = stack[u][l].gen
    /\ stack'[u][l].phase = stack[u][l].phase
    /\ stack'[u][l].cmd = stack[u][l].cmd

FrameEffect(u, l) ==
    \/ stack'[u][l].op = "none"
    \/ SameCall(u, l)
    \/ \E w \in Slots : \/ Activated(u, l, w)
                        \/ Asked(u, l, w)
                        \/ \E op \in {"deactivate", "wait"} : Joined(u, l, w, op)
                        \/ \E cmd \in Addresses \cup {NoCommand} : Entered(u, l, w, cmd)

LEMMA SlotsHaveEffects ==
    ASSUME CoreInv, Effect, NEW v \in Slots
    PROVE  SlotEffect(v)
<1>1. ASSUME workload'[v] = workload[v]
      PROVE  SlotEffect(v)
    BY <1>1 DEF SlotEffect, Kept
<1>2. CASE \E t \in Threads, n \in Levels, w \in Slots : Activated(t, n, w)
    <2>1. PICK t \in Threads, n \in Levels, w \in Slots : Activated(t, n, w)
        BY <1>2
    <2>2. v # w => workload'[v] = workload[v]
        BY <2>1 DEF Activated, Pushed, SlotsBut
    <2> QED
        BY <1>1, <2>1, <2>2 DEF SlotEffect
<1>3. CASE \E t \in Threads, n \in Levels, w \in Slots : Asked(t, n, w)
    <2>1. PICK t \in Threads, n \in Levels, w \in Slots : Asked(t, n, w)
        BY <1>3
    <2>2. CASE v = w
        BY <2>1, <2>2 DEF Asked, SlotEffect
    <2>3. CASE v # w
        BY <1>1, <2>1, <2>3 DEF Asked, Pushed, SlotsBut
    <2> QED
        BY <2>2, <2>3
<1>4. ASSUME NEW w \in Slots, Flags(w), SlotsBut(w)
      PROVE  SlotEffect(v)
    <2>1. CASE v = w
        BY <1>4, <2>1 DEF Flags, SlotEffect
    <2>2. CASE v # w
        BY <1>1, <1>4, <2>2 DEF SlotsBut
    <2> QED
        BY <2>1, <2>2
<1>5. CASE \/ \E t \in Threads, n \in Levels, w \in Slots, op \in {"deactivate", "wait"} :
                Joined(t, n, w, op)
           \/ \E w \in Slots : Flagged(w)
    BY <1>4, <1>5 DEF Joined, Flagged, Pushed
<1>6. CASE \E t \in Threads, n \in Levels, w \in Slots, cmd \in Addresses \cup {NoCommand} :
             Entered(t, n, w, cmd)
    <2>1. PICK t \in Threads, n \in Levels, w \in Slots, cmd \in Addresses \cup {NoCommand} :
            Entered(t, n, w, cmd)
        BY <1>6
    <2>2. CASE v = w
        BY <2>1, <2>2 DEF Entered, SlotEffect
    <2>3. CASE v # w
        BY <1>1, <2>1, <2>3 DEF Entered, SlotsBut
    <2> QED
        BY <2>2, <2>3
<1>7. CASE \E t \in Threads, n \in Levels, s \in {"ran", "loop"} : Marked(t, n, s)
    BY <1>1, <1>7 DEF Marked
<1>8. CASE \E t \in Threads, n \in Levels : Returned(t, n)
    <2>1. PICK t \in Threads, n \in Levels : Returned(t, n)
        BY <1>8
    <2>2. /\ Kept(v)
          /\ workload'[v].deactivate = workload[v].deactivate
          /\ workload'[v].activating =
               (workload[v].activating /\ ~(stack[t][n].op = "activate" /\ stack[t][n].w = v))
        BY <2>1 DEF Returned
    <2>3. workload[v].activating \in BOOLEAN
        BY DEF CoreInv, TypeOK, SlotType
    <2>4. CASE stack[t][n].op = "activate" /\ stack[t][n].w = v
        BY <2>1, <2>2, <2>4 DEF SlotEffect
    <2>5. CASE ~(stack[t][n].op = "activate" /\ stack[t][n].w = v)
        <3>1. workload'[v].activating = workload[v].activating
            BY <2>2, <2>3, <2>5
        <3> QED
            BY <2>2, <3>1 DEF SlotEffect
    <2> QED
        BY <2>4, <2>5
<1>9. CASE \E t \in Threads, n \in Levels, w \in Slots, r \in Results \cup {"OK"} :
             Ended(t, n, w, r)
    <2>1. PICK t \in Threads, n \in Levels, w \in Slots, r \in Results \cup {"OK"} :
            Ended(t, n, w, r)
        BY <1>9
    <2>2. v # w => workload'[v] = workload[v]
        BY <2>1 DEF Ended, SlotsBut
    <2> QED
        BY <1>1, <2>1, <2>2 DEF SlotEffect
<1>10. CASE Quiet
    BY <1>1, <1>10 DEF Quiet
<1> QED
    BY <1>2, <1>3, <1>5, <1>6, <1>7, <1>8, <1>9, <1>10 DEF Effect, CallEffect, ReturnEffect

LEMMA FramesHaveEffects ==
    ASSUME CoreInv, Effect, NEW u \in Threads, NEW l \in Levels
    PROVE  FrameEffect(u, l)
<1>0. stack[u][l] \in CallType
    BY DEF CoreInv, TypeOK
<1>1. ASSUME stack'[u][l] = stack[u][l]
      PROVE  FrameEffect(u, l)
    BY <1>1 DEF FrameEffect, SameCall
<1>2. ASSUME NEW s, stack'[u][l] = [stack[u][l] EXCEPT !.state = s]
      PROVE  FrameEffect(u, l)
    <2>1. PICK c \in CallType : c = stack[u][l]
        BY <1>0
    <2>2. PICK d : d = [c EXCEPT !.state = s]
        OBVIOUS
    <2>3. d.op = c.op /\ d.w = c.w /\ d.gen = c.gen /\ d.cmd = c.cmd /\ d.phase = c.phase
        BY <2>2, MarkedCall
    <2> QED
        BY <1>2, <2>1, <2>2, <2>3 DEF FrameEffect, SameCall
<1>3. CASE CallEffect
    <2>1. PICK t \in Threads, n \in Levels, w \in Slots :
            \/ Activated(t, n, w)
            \/ Asked(t, n, w)
            \/ \E op \in {"deactivate", "wait"} : Joined(t, n, w, op)
            \/ \E cmd \in Addresses \cup {NoCommand} : Entered(t, n, w, cmd)
        BY <1>3 DEF CallEffect
    <2>2. CASE u = t /\ l = n
        BY <2>1, <2>2 DEF FrameEffect
    <2>3. CASE u # t \/ l # n
        <3>1. CASE FramesBut(t, n)
            BY <1>1, <2>3, <3>1 DEF FramesBut
        <3>2. CASE \E cmd \in Addresses \cup {NoCommand} : Entered(t, n, w, cmd)
            BY <1>1, <1>2, <2>3, <3>2 DEF Entered
        <3> QED
            BY <2>1, <3>1, <3>2 DEF Activated, Asked, Joined, Pushed
    <2> QED
        BY <2>2, <2>3
<1>4. CASE \E t \in Threads, n \in Levels, s \in {"ran", "loop"} : Marked(t, n, s)
    BY <1>1, <1>2, <1>4 DEF Marked, FramesBut
<1>5. CASE \E t \in Threads, n \in Levels : Returned(t, n)
    BY <1>1, <1>5, NoCallFields DEF Returned, FramesBut, FrameEffect
<1>6. CASE \E t \in Threads, n \in Levels, w \in Slots, r \in Results \cup {"OK"} :
             Ended(t, n, w, r)
    <2>1. PICK t \in Threads, n \in Levels, w \in Slots, r \in Results \cup {"OK"} :
            Ended(t, n, w, r)
        BY <1>6
    <2>2. CASE u = t /\ l = n
        BY <2>1, <2>2, NoCallFields DEF Ended, FrameEffect
    <2>3. CASE u # t \/ l # n
        BY <1>1, <1>2, <2>1, <2>3, ZenonT(60) DEF Ended
    <2> QED
        BY <2>2, <2>3
<1>7. CASE (\E w \in Slots : Flagged(w)) \/ Quiet
    BY <1>1, <1>7 DEF Flagged, Quiet
<1> QED
    BY <1>3, <1>4, <1>5, <1>6, <1>7 DEF Effect, ReturnEffect

\* Only an activation counts.
LEMMA GensEffect ==
    ASSUME CoreInv, Effect
    PROVE  gens \in Nat /\ gens' \in Nat /\ gens <= gens'
<1>1. gens \in Nat
    BY BoundsAssumption DEF CoreInv, TypeOK
<1>2. CASE \E t \in Threads, n \in Levels, w \in Slots : Activated(t, n, w)
    BY <1>1, <1>2 DEF Activated
<1>3. CASE CallEffect /\ ~(\E t \in Threads, n \in Levels, w \in Slots : Activated(t, n, w))
    <2>1. PICK t \in Threads, n \in Levels, w \in Slots :
            \/ Asked(t, n, w)
            \/ \E op \in {"deactivate", "wait"} : Joined(t, n, w, op)
            \/ \E cmd \in Addresses \cup {NoCommand} : Entered(t, n, w, cmd)
        BY <1>3 DEF CallEffect
    <2>2. gens' = gens
        BY <2>1 DEF Asked, Joined, Flags, Entered
    <2> QED
        BY <1>1, <2>2
<1>4. CASE ReturnEffect
    <2>1. PICK t \in Threads, n \in Levels :
            \/ \E s \in {"ran", "loop"} : Marked(t, n, s)
            \/ Returned(t, n)
            \/ \E w \in Slots, r \in Results \cup {"OK"} : Ended(t, n, w, r)
        BY <1>4 DEF ReturnEffect
    <2>2. gens' = gens
        BY Zenon, <2>1 DEF Marked, Returned, Ended
    <2> QED
        BY <1>1, <2>2
<1>5. CASE (\E w \in Slots : Flagged(w)) \/ Quiet
    <2>1. gens' = gens
        BY <1>5 DEF Flagged, Flags, Quiet
    <2> QED
        BY <1>1, <2>1
<1> QED
    BY <1>2, <1>3, <1>4, <1>5 DEF Effect

---------------------------------------------------------------------------
(* Slots and handles *)

LEMMA SlotEquality ==
    ASSUME NEW r \in SlotType, NEW s \in SlotType,
           r.signal = s.signal, r.owner = s.owner, r.initialized = s.initialized,
           r.activating = s.activating, r.deactivate = s.deactivate, r.queue = s.queue,
           r.gen = s.gen
    PROVE  r = s
BY DEF SlotType

\* The fields of a slot after a callback, for each phase.
LEMMA OutcomeFields ==
    ASSUME NEW slot \in SlotType, NEW phase, NEW r \in Results \cup {"OK"}
    PROVE  LET new == Outcome(slot, phase, r) IN
           /\ phase = "FREE" => new = FreeSlot
           /\ phase = "INIT" =>
                /\ new.signal = "DONE" /\ new.initialized /\ new.activating = slot.activating
                /\ new.deactivate = slot.deactivate
           /\ phase \notin {"INIT", "FREE"} =>
                /\ new.signal = r /\ new.initialized = slot.initialized
                /\ new.activating = slot.activating
           /\ phase # "FREE" => new.gen = slot.gen /\ new.owner = slot.owner
<1>1. PICK new : new = Outcome(slot, phase, r)
    OBVIOUS
<1>2. CASE phase = "FREE"
    BY <1>1, <1>2 DEF Outcome
<1>3. CASE phase = "INIT"
    <2>1. new = [slot EXCEPT !.signal = "DONE", !.initialized = TRUE]
        BY <1>1, <1>3 DEF Outcome
    <2>2. /\ new.signal = "DONE" /\ new.initialized /\ new.activating = slot.activating
          /\ new.gen = slot.gen /\ new.owner = slot.owner /\ new.deactivate = slot.deactivate
        BY <2>1 DEF SlotType
    <2> QED
        BY <1>1, <1>3, <2>2
<1>4. CASE phase \notin {"INIT", "FREE"}
    <2>1. new = [slot EXCEPT !.signal = r, !.deactivate = @ \/ r \in {"FINISH", "ERROR"}]
        BY <1>1, <1>4 DEF Outcome
    <2>2. /\ new.signal = r /\ new.initialized = slot.initialized
          /\ new.activating = slot.activating /\ new.gen = slot.gen /\ new.owner = slot.owner
        BY <2>1 DEF SlotType
    <2> QED
        BY <1>1, <1>4, <2>2
<1> QED
    BY <1>2, <1>3, <1>4

LEMMA OutcomeFlags ==
    ASSUME NEW slot \in SlotType, NEW phase, NEW r, phase # "FREE"
    PROVE  /\ Outcome(slot, phase, r).activating = slot.activating
           /\ slot.deactivate => Outcome(slot, phase, r).deactivate
<1>1. PICK new : new = Outcome(slot, phase, r)
    OBVIOUS
<1>2. new.activating = slot.activating /\ (slot.deactivate => new.deactivate)
    <2>1. CASE phase = "INIT"
        BY <1>1, <2>1 DEF Outcome, SlotType
    <2>2. CASE phase # "INIT"
        <3>1. new = [slot EXCEPT !.signal = r, !.deactivate = @ \/ r \in {"FINISH", "ERROR"}]
            BY <1>1, <2>2 DEF Outcome
        <3> QED
            BY <3>1 DEF SlotType
    <2> QED
        BY <2>1, <2>2
<1> QED
    BY <1>1, <1>2

LEMMA FreeSlotFields ==
    /\ FreeSlot.signal = "INACTIVE" /\ FreeSlot.owner = NoThread /\ FreeSlot.gen = 0
    /\ FreeSlot.initialized = FALSE /\ FreeSlot.activating = FALSE
    /\ FreeSlot.deactivate = FALSE /\ FreeSlot.queue = <<>>
BY DEF FreeSlot

\* The callback that ends runs on a slot in use, for its activation, in one of the phases.
LEMMA EndedSlot ==
    ASSUME CoreInv, PhaseFits, NEW t \in Threads, NEW n \in Levels, NEW w \in Slots,
           NEW r \in Results \cup {"OK"}, Ended(t, n, w, r)
    PROVE  LET phase == stack[t][n].phase IN
           /\ workload[w].signal # "INACTIVE" /\ workload[w].owner = t
           /\ workload[w] \in SlotType
           /\ phase \in {"INIT", "WORK", "FREE"}
           /\ phase = "WORK" => workload[w].signal # "INIT" /\ ~workload[w].activating
           /\ phase = "FREE" => ~workload[w].activating \/ pool.closing
           /\ workload'[w] = Outcome(workload[w], phase, r)
<1>1. stack[t][n].op = "run" /\ stack[t][n].w = w
    BY DEF Ended
<1>2. workload[w].signal # "INACTIVE" /\ workload[w].owner = t
    BY <1>1 DEF CoreInv, CallsInv, CallbackOnOwner
<1> QED
    BY <1>1, <1>2 DEF CoreInv, TypeOK, PhaseFits, Ended

LEMMA SlotLifeKept ==
    ASSUME CoreInv, CoreInv', HandlesInv, Effect, pool.closing => pool'.closing
    PROVE  SlotLife'
<1> SUFFICES ASSUME NEW v \in Slots
             PROVE  /\ workload'[v].signal = "INACTIVE" => workload'[v] = FreeSlot
                    /\ workload'[v].signal # "INACTIVE" => workload'[v].gen \in 1..gens'
                    /\ workload'[v].initialized <=>
                         workload'[v].signal \notin {"INACTIVE", "INIT"}
                    /\ (workload'[v].signal = "INIT" /\ workload'[v].deactivate) => pool'.closing
    BY DEF SlotLife
<1>1. /\ workload[v].signal = "INACTIVE" => workload[v] = FreeSlot
      /\ workload[v].signal # "INACTIVE" => workload[v].gen \in 1..gens
      /\ workload[v].initialized <=> workload[v].signal \notin {"INACTIVE", "INIT"}
      /\ (workload[v].signal = "INIT" /\ workload[v].deactivate) => pool.closing
    BY DEF HandlesInv, SlotLife
<1>2. gens \in Nat /\ gens' \in Nat /\ gens <= gens'
    BY GensEffect
<1>3. workload[v] \in SlotType /\ workload'[v] \in SlotType
    BY DEF CoreInv, TypeOK
<1>4. CASE /\ Kept(v)
           /\ workload[v].signal = "INACTIVE" =>
                workload'[v].deactivate = workload[v].deactivate
           /\ workload'[v].deactivate =>
                workload[v].deactivate \/ workload[v].initialized \/ pool.closing
           /\ workload'[v].activating = workload[v].activating \/ ~workload'[v].activating
    <2>1. workload'[v].signal = "INACTIVE" => workload'[v] = FreeSlot
        <3> SUFFICES ASSUME workload'[v].signal = "INACTIVE"
                     PROVE  workload'[v] = FreeSlot
            OBVIOUS
        <3>1. workload[v] = FreeSlot /\ workload[v].signal = "INACTIVE"
            BY <1>1, <1>4 DEF Kept
        <3>2. workload'[v].queue = <<>>
            BY DEF CoreInv, CallsInv, FreeSlotClean
        <3>3. workload'[v].activating = FALSE
            BY <1>3, <1>4, <3>1, FreeSlotFields DEF SlotType
        <3>4. /\ workload'[v].owner = FreeSlot.owner /\ workload'[v].gen = FreeSlot.gen
              /\ workload'[v].initialized = FreeSlot.initialized
              /\ workload'[v].deactivate = FreeSlot.deactivate
              /\ workload'[v].signal = FreeSlot.signal
            BY <1>4, <3>1 DEF Kept
        <3> QED
            BY <1>3, <3>2, <3>3, <3>4, FreeSlotFields, FreeSlotType, SlotEquality
    <2>2. workload'[v].signal # "INACTIVE" => workload'[v].gen \in 1..gens'
        BY <1>1, <1>2, <1>4 DEF Kept
    <2>3. /\ workload'[v].initialized <=> workload'[v].signal \notin {"INACTIVE", "INIT"}
          /\ (workload'[v].signal = "INIT" /\ workload'[v].deactivate) => pool'.closing
        BY <1>1, <1>4 DEF Kept
    <2> QED
        BY <2>1, <2>2, <2>3
<1>5. ASSUME NEW t \in Threads, NEW n \in Levels, Activated(t, n, v)
      PROVE  /\ workload'[v].signal = "INIT"
             /\ workload'[v].gen \in 1..gens'
             /\ ~workload'[v].initialized
             /\ ~workload'[v].deactivate
    <2>1. workload[v] = FreeSlot
        BY <1>1, <1>5 DEF Activated, Available
    <2> QED
        BY <1>2, <1>5, <2>1, FreeSlotFields DEF Activated
<1>6. ASSUME NEW t \in Threads, NEW n \in Levels, NEW r \in Results \cup {"OK"},
             Ended(t, n, v, r)
      PROVE  \/ workload'[v] = FreeSlot
             \/ /\ workload'[v].signal \notin {"INACTIVE", "INIT"}
                /\ workload'[v].gen \in 1..gens'
                /\ workload'[v].initialized
    <2>1. r \notin {"INACTIVE", "INIT"}
        BY ResultsAssumption
    <2>2. PICK phase : phase = stack[t][n].phase
        OBVIOUS
    <2>3. /\ workload[v].signal # "INACTIVE" /\ phase \in {"INIT", "WORK", "FREE"}
          /\ phase = "WORK" => workload[v].signal # "INIT"
          /\ workload'[v] = Outcome(workload[v], phase, r)
        BY <1>6, <2>2, EndedSlot DEF HandlesInv
    <2>4. phase # "FREE" => workload'[v].gen \in 1..gens'
        BY <1>1, <1>2, <1>3, <2>3, OutcomeFields
    <2>5. CASE phase = "INIT"
        BY <1>3, <2>3, <2>4, <2>5, OutcomeFields
    <2>6. CASE phase = "WORK"
        BY <1>1, <1>3, <2>1, <2>3, <2>4, <2>6, OutcomeFields
    <2>7. CASE phase = "FREE"
        BY <1>3, <2>3, <2>7, OutcomeFields
    <2> QED
        BY <2>3, <2>5, <2>6, <2>7
<1> QED
    BY <1>4, <1>5, <1>6, FreeSlotFields, SlotsHaveEffects DEF SlotEffect

\* A slot in use has the handle it had, or a new one.
LEMMA GenEffect ==
    ASSUME CoreInv, HandlesInv, Effect, NEW v \in Slots, workload'[v].signal # "INACTIVE"
    PROVE  \/ workload[v].signal # "INACTIVE" /\ workload'[v].gen = workload[v].gen
           \/ /\ workload'[v].gen = gens + 1 /\ gens' = gens + 1
              /\ \E t \in Threads, n \in Levels : Activated(t, n, v)
<1>1. ASSUME NEW t \in Threads, NEW n \in Levels, NEW r \in Results \cup {"OK"},
             Ended(t, n, v, r)
      PROVE  workload[v].signal # "INACTIVE" /\ workload'[v].gen = workload[v].gen
    <2>1. PICK phase : phase = stack[t][n].phase
        OBVIOUS
    <2>2. /\ workload[v].signal # "INACTIVE" /\ workload[v] \in SlotType
          /\ workload'[v] = Outcome(workload[v], phase, r)
        BY <1>1, <2>1, EndedSlot DEF HandlesInv
    <2>3. phase # "FREE"
        BY <2>2, OutcomeFields, FreeSlotFields
    <2> QED
        BY <2>2, <2>3, OutcomeFields
<1>2. ASSUME NEW t \in Threads, NEW n \in Levels, Activated(t, n, v)
      PROVE  workload'[v].gen = gens + 1 /\ gens' = gens + 1
    BY <1>2 DEF Activated
<1> QED
    BY <1>1, <1>2, SlotsHaveEffects DEF SlotEffect, Kept

\* Handles stay unique: a new one is larger than all before.
LEMMA HandlesUnique ==
    ASSUME CoreInv, CoreInv', HandlesInv, SlotLife', Effect,
           NEW v \in Slots, NEW w \in Slots,
           workload'[v].gen = workload'[w].gen, workload'[v].signal # "INACTIVE"
    PROVE  v = w
<1>1. gens \in Nat
    BY GensEffect
<1>2. workload'[w].signal # "INACTIVE"
    <2>1. workload'[v].gen \in 1..gens' /\ workload'[v].gen # 0
        BY GensEffect DEF SlotLife
    <2> QED
        BY <2>1, FreeSlotFields DEF SlotLife
<1>3. \A x \in Slots : workload[x].signal # "INACTIVE" => workload[x].gen \in 1..gens
    BY DEF HandlesInv, SlotLife
<1>4. ASSUME NEW x \in Slots, NEW y \in Slots, x # y, workload'[y].signal # "INACTIVE",
             \E t \in Threads, n \in Levels : Activated(t, n, x)
      PROVE  workload'[y].gen \in 1..gens
    <2>1. workload'[y] = workload[y]
        BY <1>4 DEF Activated, Pushed, SlotsBut
    <2> QED
        BY <1>3, <1>4, <2>1
<1>5. ASSUME v # w
      PROVE  FALSE
    <2>1. CASE \E t \in Threads, n \in Levels : Activated(t, n, v)
        <3>1. workload'[w].gen \in 1..gens
            BY <1>2, <1>4, <1>5, <2>1
        <3>2. workload'[v].gen = gens + 1
            BY <2>1 DEF Activated
        <3> QED
            BY <1>1, <3>1, <3>2
    <2>2. CASE \E t \in Threads, n \in Levels : Activated(t, n, w)
        <3>1. workload'[v].gen \in 1..gens
            BY <1>4, <1>5, <2>2
        <3>2. workload'[w].gen = gens + 1
            BY <2>2 DEF Activated
        <3> QED
            BY <1>1, <3>1, <3>2
    <2>3. CASE /\ workload[v].signal # "INACTIVE" /\ workload'[v].gen = workload[v].gen
               /\ workload'[w].gen = workload[w].gen
        BY <1>5, <2>3 DEF HandlesInv, HandleNamesSlot
    <2> QED
        BY <1>2, <2>1, <2>2, <2>3, GenEffect
<1> QED
    BY <1>5

LEMMA HandleNamesSlotKept ==
    ASSUME CoreInv, CoreInv', HandlesInv, SlotLife', Effect
    PROVE  HandleNamesSlot'
<1>1. gens \in Nat /\ gens' \in Nat /\ gens <= gens'
    BY GensEffect
<1>2. ASSUME NEW u \in Threads, NEW l \in Levels, stack'[u][l].op \in WaitingOps
      PROVE  /\ stack'[u][l].gen \in 1..gens'
             /\ \A v \in Slots : workload'[v].gen = stack'[u][l].gen => v = stack'[u][l].w
    <2>1. CASE SameCall(u, l)
        <3>1. /\ stack[u][l].gen \in 1..gens
              /\ \A v \in Slots : workload[v].gen = stack[u][l].gen => v = stack[u][l].w
            BY <1>2, <2>1 DEF SameCall, HandlesInv, HandleNamesSlot
        <3>2. ASSUME NEW v \in Slots, workload'[v].gen = stack[u][l].gen
              PROVE  v = stack[u][l].w
            <4>1. workload'[v].signal # "INACTIVE"
                BY <1>1, <3>1, <3>2, FreeSlotFields DEF SlotLife
            <4>2. workload'[v].gen # gens + 1
                BY <1>1, <3>1, <3>2
            <4>3. workload'[v].gen = workload[v].gen
                BY <4>1, <4>2, GenEffect
            <4> QED
                BY <3>1, <3>2, <4>3
        <3> QED
            BY <1>1, <2>1, <3>1, <3>2 DEF SameCall
    <2>2. ASSUME NEW w \in Slots, workload'[w].signal # "INACTIVE",
                 stack'[u][l].w = w, stack'[u][l].gen = workload'[w].gen
          PROVE  /\ stack'[u][l].gen \in 1..gens'
                 /\ \A v \in Slots : workload'[v].gen = stack'[u][l].gen => v = stack'[u][l].w
        BY <2>2, HandlesUnique DEF SlotLife
    <2>3. ASSUME NEW w \in Slots,
                 \/ Activated(u, l, w)
                 \/ Asked(u, l, w)
                 \/ \E op \in {"deactivate", "wait"} : Joined(u, l, w, op)
          PROVE  /\ workload'[w].signal # "INACTIVE"
                 /\ stack'[u][l].w = w /\ stack'[u][l].gen = workload'[w].gen
        BY <2>3 DEF Activated, Asked, Joined, Flags, Kept, Pushed
    <2>4. ASSUME NEW w \in Slots, NEW cmd \in Addresses \cup {NoCommand}, Entered(u, l, w, cmd)
          PROVE  FALSE
        BY <1>2, <2>4, OpsDistinct DEF Entered
    <2>5. stack'[u][l].op # "none"
        BY <1>2, OpsDistinct
    <2>6. FrameEffect(u, l)
        BY FramesHaveEffects
    <2> QED
        BY <2>1, <2>2, <2>3, <2>4, <2>5, <2>6 DEF FrameEffect
<1> QED
    BY <1>2, HandlesUnique DEF HandleNamesSlot

LEMMA PhaseFitsKept ==
    ASSUME CoreInv, CoreInv', HandlesInv, Effect, pool.closing => pool'.closing
    PROVE  PhaseFits'
<1> SUFFICES ASSUME NEW u \in Threads, NEW l \in Levels, stack'[u][l].op = "run"
             PROVE  LET call == stack'[u][l] IN
                    /\ call.phase \in {"INIT", "WORK", "FREE"}
                    /\ call.phase = "WORK" => /\ workload'[call.w].signal # "INIT"
                                              /\ ~workload'[call.w].activating
                    /\ call.phase = "FREE" => ~workload'[call.w].activating \/ pool'.closing
                    /\ call.cmd # NoCommand => call.phase = "WORK"
    BY DEF PhaseFits
<1>1. CASE SameCall(u, l)
    <2>1. PICK w \in Slots : w = stack[u][l].w
        BY <1>1, CallSlot DEF SameCall, CoreInv
    <2>2. /\ stack[u][l].op = "run" /\ stack'[u][l].w = w
          /\ stack'[u][l].phase = stack[u][l].phase /\ stack'[u][l].cmd = stack[u][l].cmd
        BY <1>1, <2>1 DEF SameCall
    <2>3. workload[w].signal # "INACTIVE" /\ workload'[w].signal # "INACTIVE"
        BY <2>1, <2>2 DEF CoreInv, CallsInv, CallbackOnOwner
    <2>4. /\ stack[u][l].phase \in {"INIT", "WORK", "FREE"}
          /\ stack[u][l].phase = "WORK" => workload[w].signal # "INIT" /\ ~workload[w].activating
          /\ stack[u][l].phase = "FREE" => ~workload[w].activating \/ pool.closing
          /\ stack[u][l].cmd # NoCommand => stack[u][l].phase = "WORK"
        BY <2>1, <2>2 DEF HandlesInv, PhaseFits
    <2>5. /\ workload[w].signal # "INIT" => workload'[w].signal # "INIT"
          /\ ~workload[w].activating => ~workload'[w].activating
        <3>1. ASSUME NEW t \in Threads, NEW n \in Levels, NEW r \in Results \cup {"OK"},
                     Ended(t, n, w, r)
              PROVE  /\ workload'[w].signal # "INIT"
                     /\ workload'[w].activating = workload[w].activating
            <4>1. PICK phase : phase = stack[t][n].phase
                OBVIOUS
            <4>2. /\ workload[w] \in SlotType /\ workload'[w] = Outcome(workload[w], phase, r)
                BY <3>1, <4>1, EndedSlot DEF HandlesInv
            <4>3. r # "INIT" /\ phase # "FREE"
                BY <2>3, <4>2, OutcomeFields, FreeSlotFields, ResultsAssumption
            <4> QED
                BY <4>2, <4>3, OutcomeFields
        <3>2. ~(\E t \in Threads, n \in Levels : Activated(t, n, w))
            BY <2>3 DEF Activated, Available
        <3> QED
            BY <3>1, <3>2, SlotsHaveEffects DEF SlotEffect, Kept
    <2> QED
        BY <2>2, <2>4, <2>5
<1>2. ASSUME NEW w \in Slots, NEW cmd \in Addresses \cup {NoCommand}, Entered(u, l, w, cmd)
      PROVE  LET call == stack'[u][l] IN
             /\ call.phase \in {"INIT", "WORK", "FREE"}
             /\ call.phase = "WORK" => /\ workload'[call.w].signal # "INIT"
                                       /\ ~workload'[call.w].activating
             /\ call.phase = "FREE" => ~workload'[call.w].activating \/ pool'.closing
             /\ call.cmd # NoCommand => call.phase = "WORK"
    <2>1. /\ stack'[u][l].w = w /\ stack'[u][l].phase = Phase(w) /\ stack'[u][l].cmd = cmd
          /\ workload'[w].signal = workload[w].signal
          /\ workload'[w].activating = workload[w].activating
          /\ workload[w].activating => workload[w].signal = "INIT"
          /\ cmd # NoCommand => Phase(w) = "WORK"
        BY <1>2 DEF Entered, Kept, Skips
    <2>2. /\ Phase(w) \in {"INIT", "WORK", "FREE"}
          /\ Phase(w) = "WORK" => workload[w].signal # "INIT"
          /\ Phase(w) = "FREE" => workload[w].deactivate
        BY DEF Phase
    <2>3. (workload[w].signal = "INIT" /\ workload[w].deactivate) => pool.closing
        BY DEF HandlesInv, SlotLife
    <2> QED
        BY <2>1, <2>2, <2>3
<1>3. FrameEffect(u, l)
    BY FramesHaveEffects
<1>4. ASSUME NEW w \in Slots, \/ Activated(u, l, w)
                              \/ Asked(u, l, w)
                              \/ \E op \in {"deactivate", "wait"} : Joined(u, l, w, op)
      PROVE  FALSE
    BY <1>4 DEF Activated, Asked, Joined, Pushed
<1> QED
    BY <1>1, <1>2, <1>3, <1>4 DEF FrameEffect

\* A call for an activation that was not there before found the slot without waiting calls.
LEMMA ActivateFrame ==
    ASSUME CoreInv, Effect, NEW u \in Threads, NEW l \in Levels, stack'[u][l].op = "activate"
    PROVE  \/ SameCall(u, l)
           \/ Activated(u, l, stack'[u][l].w) /\ stack'[u][l].w \in Slots
<1>1. FrameEffect(u, l)
    BY FramesHaveEffects
<1>2. ASSUME NEW w \in Slots, \/ Asked(u, l, w)
                              \/ \E op \in {"deactivate", "wait"} : Joined(u, l, w, op)
                              \/ \E cmd \in Addresses \cup {NoCommand} : Entered(u, l, w, cmd)
      PROVE  FALSE
    BY <1>2 DEF Asked, Joined, Pushed, Entered
<1>3. ASSUME NEW w \in Slots, Activated(u, l, w)
      PROVE  stack'[u][l].w = w
    BY <1>3 DEF Activated, Pushed
<1> QED
    BY <1>1, <1>2, <1>3 DEF FrameEffect

LEMMA OneActivationKept ==
    ASSUME CoreInv, HandlesInv, Effect
    PROVE  OneActivation'
<1> SUFFICES ASSUME NEW t \in Threads, NEW u \in Threads, NEW l \in Levels, NEW m \in Levels,
                    stack'[t][l].op = "activate", stack'[u][m].op = "activate",
                    stack'[t][l].w = stack'[u][m].w
             PROVE  t = u /\ l = m
    BY DEF OneActivation
<1>1. ASSUME NEW a \in Threads, NEW b \in Threads, NEW i \in Levels, NEW j \in Levels,
             stack'[b][j].op = "activate", stack'[a][i].w = stack'[b][j].w,
             Activated(a, i, stack'[a][i].w), stack'[a][i].w \in Slots
      PROVE  a = b /\ i = j
    <2> SUFFICES ASSUME ~(a = b /\ i = j) PROVE FALSE
        OBVIOUS
    <2>1. stack'[b][j] = stack[b][j]
        BY <1>1 DEF Activated, Pushed, FramesBut
    <2>2. Waiters(stack'[a][i].w)
        BY <1>1, <2>1 DEF Waiters, WaitingOps
    <2> QED
        BY <1>1, <2>2 DEF Activated, Available
<1>2. CASE SameCall(t, l) /\ SameCall(u, m)
    <2>1. /\ stack[t][l].op = "activate" /\ stack[u][m].op = "activate"
          /\ stack[t][l].w = stack[u][m].w
        BY <1>2 DEF SameCall
    <2> QED
        BY <2>1 DEF HandlesInv, OneActivation
<1> QED
    BY <1>1, <1>2, ActivateFrame

LEMMA ActivationHeldKept ==
    ASSUME CoreInv, HandlesInv, Effect, pool.closing => pool'.closing
    PROVE  ActivationHeld'
<1> SUFFICES ASSUME NEW u \in Threads, NEW l \in Levels, stack'[u][l].op = "activate",
                    ~pool'.closing
             PROVE  LET call == stack'[u][l] IN
                    /\ workload'[call.w].gen = call.gen
                    /\ workload'[call.w].activating
                    /\ workload'[call.w].signal \in {"INIT", "DONE"}
    BY DEF ActivationHeld
<1>1. CASE SameCall(u, l)
    <2>1. stack[u][l].op = "activate"
        BY <1>1 DEF SameCall
    <2>2. PICK w \in Slots : w = stack[u][l].w
        BY <2>1, CallSlot DEF CoreInv
    <2>3. /\ workload[w].gen = stack[u][l].gen /\ workload[w].activating
          /\ workload[w].signal \in {"INIT", "DONE"}
        BY <2>1, <2>2 DEF HandlesInv, ActivationHeld
    <2>4. ~(\E t \in Threads, n \in Levels : Activated(t, n, w))
        BY <2>3 DEF Activated, Available
    <2>5. ASSUME NEW t \in Threads, NEW n \in Levels, Returned(t, n),
                 stack[t][n].op = "activate", stack[t][n].w = w
          PROVE  FALSE
        <3>1. t = u /\ n = l
            BY <2>1, <2>2, <2>5 DEF HandlesInv, OneActivation
        <3> QED
            BY <2>5, <3>1, NoCallFields DEF Returned
    <2>6. ASSUME NEW t \in Threads, NEW n \in Levels, NEW r \in Results \cup {"OK"},
                 Ended(t, n, w, r)
          PROVE  /\ workload'[w].gen = workload[w].gen
                 /\ workload'[w].activating = workload[w].activating
                 /\ workload'[w].signal = "DONE"
        <3>1. PICK phase : phase = stack[t][n].phase
            OBVIOUS
        <3>2. /\ workload[w] \in SlotType /\ workload'[w] = Outcome(workload[w], phase, r)
              /\ phase \in {"INIT", "WORK", "FREE"}
              /\ phase = "WORK" => ~workload[w].activating
              /\ phase = "FREE" => ~workload[w].activating \/ pool.closing
            BY <2>6, <3>1, EndedSlot DEF HandlesInv
        <3>3. phase = "INIT"
            BY <2>3, <3>2
        <3> QED
            BY <3>2, <3>3, OutcomeFields
    <2>7. /\ workload'[w].gen = workload[w].gen
          /\ workload'[w].activating = workload[w].activating
          /\ workload'[w].signal \in {"INIT", "DONE"}
        BY <2>3, <2>4, <2>5, <2>6, SlotsHaveEffects DEF SlotEffect, Kept
    <2> QED
        BY <1>1, <2>2, <2>3, <2>7 DEF SameCall
<1>2. CASE Activated(u, l, stack'[u][l].w)
    BY <1>2 DEF Activated, Pushed
<1> QED
    BY <1>1, <1>2, ActivateFrame

\* What slots and handles go through, whatever the step.
LEMMA HandlesKept ==
    ASSUME CoreInv, CoreInv', HandlesInv, Effect, pool.closing => pool'.closing
    PROVE  HandlesInv'
<1>1. SlotLife'
    BY SlotLifeKept
<1> QED
    BY <1>1, HandleNamesSlotKept, PhaseFitsKept, OneActivationKept, ActivationHeldKept
    DEF HandlesInv

LEMMA HandlesInit == Init => HandlesInv
<1> SUFFICES ASSUME Init PROVE HandlesInv
    OBVIOUS
<1>1. /\ \A t \in Threads, l \in Levels : stack[t][l] = NoCall
      /\ \A w \in Slots : workload[w] = FreeSlot
    BY DEF Init
<1> QED
    BY <1>1, NoCallFields, OpsDistinct, FreeSlotFields
    DEF HandlesInv, SlotLife, HandleNamesSlot, PhaseFits, OneActivation, ActivationHeld

---------------------------------------------------------------------------
(* The shutdown *)

\* The flags of the pool are only ever raised, but for those Join leaves behind.
LEMMA PoolFlags ==
    ASSUME CoreInv, [Next]_vars
    PROVE  /\ pool.closing => pool'.closing
           /\ pool.failed => pool'.failed
           /\ pool.stopping => pool'.stopping
<1>1. pool \in PoolType
    BY DEF CoreInv, TypeOK
<1>2. ASSUME pool' = pool
      PROVE  /\ pool.closing => pool'.closing
             /\ pool.failed => pool'.failed
             /\ pool.stopping => pool'.stopping
    BY <1>2
<1>3. CASE \E t \in Threads : Call(t)
    BY ZenonT(60), <1>2, <1>3 DEF Call, Activate, Execute, Deactivate, RunOrSleep, WaitForCompletion
<1>4. CASE \E t \in Threads : EndRun(t)
    BY <1>1, <1>4 DEF EndRun, EndRunOf, PoolType
<1>5. CASE \E t \in Threads : WorkerStarted(t)
    BY <1>1, <1>5 DEF WorkerStarted, PoolType
<1>6. CASE \E t \in Threads : EnterOwn(t) \/ ReturnRan(t) \/ WaitOther(t) \/ ExecuteLoop(t)
    BY <1>2, <1>6 DEF EnterOwn, ReturnRan, WaitOther, ExecuteLoop, Return
<1>7. CASE (\E t \in Threads : Visit(t) \/ WorkerTurn(t)) \/ MainRun \/ PoolIsUp \/ FreeNext
           \/ Terminated \/ UNCHANGED vars
    BY <1>2, <1>7 DEF Visit, WorkerTurn, MainRun, PoolIsUp, FreeNext, Terminated, vars
<1>8. CASE StartWorker \/ WorkerIsUp \/ Shutdown
    BY <1>1, <1>8 DEF StartWorker, WorkerIsUp, Shutdown, BeginFree, PoolType
<1>9. CASE StopWorkers \/ Join
    BY <1>1, <1>9 DEF StopWorkers, Join, PoolType
<1> QED
    BY <1>3, <1>4, <1>5, <1>6, <1>7, <1>8, <1>9 DEF Next, Proceed, PoolStep

MarkedRan(u, l) ==
    LET w == stack[u][l].w IN
    /\ Own(u, w)
    /\ l = depth[u]
    /\ \/ Skips(u, w)
       \/ \E n \in Levels, cmd \in Addresses \cup {NoCommand} : n = l + 1 /\ Entered(u, n, w, cmd)

\* A call is marked "ran" by the owner of the slot, which runs the workload or has skipped it.
LEMMA RanFrame ==
    ASSUME CoreInv, Effect, NEW u \in Threads, NEW l \in Levels,
           stack'[u][l].op \in WaitingOps, stack'[u][l].state = "ran"
    PROVE  /\ SameCall(u, l)
           /\ \/ stack[u][l].state = "ran"
              \/ MarkedRan(u, l)
<1>0. stack[u][l] \in CallType
    BY DEF CoreInv, TypeOK
<1>1. ASSUME stack'[u][l] = stack[u][l]
      PROVE  SameCall(u, l) /\ stack[u][l].state = "ran"
    BY <1>1 DEF SameCall
<1>2. ASSUME NEW s, stack'[u][l] = [stack[u][l] EXCEPT !.state = s]
      PROVE  SameCall(u, l) /\ s = "ran"
    <2>1. PICK c \in CallType : c = stack[u][l]
        BY <1>0
    <2>2. PICK d : d = [c EXCEPT !.state = s]
        OBVIOUS
    <2>3. /\ d.op = c.op /\ d.w = c.w /\ d.gen = c.gen /\ d.cmd = c.cmd /\ d.phase = c.phase
          /\ d.state = s
        BY <2>2 DEF CallType
    <2> QED
        BY <1>2, <2>1, <2>2, <2>3 DEF SameCall
<1>3. CASE CallEffect
    <2>1. PICK t \in Threads, n \in Levels, w \in Slots :
            \/ Activated(t, n, w)
            \/ Asked(t, n, w)
            \/ \E op \in {"deactivate", "wait"} : Joined(t, n, w, op)
            \/ \E cmd \in Addresses \cup {NoCommand} : Entered(t, n, w, cmd)
        BY <1>3 DEF CallEffect
    <2>2. ASSUME u = t, l = n
          PROVE  FALSE
        <3>1. (\E op, state : Pushed(t, n, w, op, state) /\ state # "ran")
              \/ \E cmd \in Addresses \cup {NoCommand} : Entered(t, n, w, cmd)
            BY <2>1 DEF Activated, Asked, Joined
        <3> QED
            BY <2>2, <3>1, OpsDistinct DEF Pushed, Entered
    <2>3. CASE FramesBut(t, n)
        BY <1>1, <2>2, <2>3 DEF FramesBut
    <2>4. CASE \E cmd \in Addresses \cup {NoCommand} : Entered(t, n, w, cmd)
        <3>1. PICK cmd \in Addresses \cup {NoCommand} : Entered(t, n, w, cmd)
            BY <2>4
        <3>2. \/ stack'[u][l] = stack[u][l]
              \/ /\ u = t /\ l = n - 1 /\ stack[u][l].w = w
                 /\ stack'[u][l] = [stack[u][l] EXCEPT !.state = "ran"]
            BY <2>2, <3>1 DEF Entered
        <3>3. Own(t, w) /\ n = depth[t] + 1 /\ depth[t] \in Nat
            BY <3>1, BoundsAssumption DEF Entered, Skips, CoreInv, TypeOK
        <3>4. CASE /\ u = t /\ l = n - 1 /\ stack[u][l].w = w
                   /\ stack'[u][l] = [stack[u][l] EXCEPT !.state = "ran"]
            <4>1. l = depth[u] /\ n = l + 1
                BY <3>3, <3>4
            <4>2. MarkedRan(u, l)
                BY <3>1, <3>3, <3>4, <4>1 DEF MarkedRan
            <4> QED
                BY <1>2, <3>4, <4>2
        <3> QED
            BY <1>1, <3>2, <3>4
    <2> QED
        BY <2>1, <2>3, <2>4 DEF Activated, Asked, Joined, Pushed
<1>4. CASE \E t \in Threads, n \in Levels, s \in {"ran", "loop"} : Marked(t, n, s)
    <2>1. PICK t \in Threads, n \in Levels, s \in {"ran", "loop"} : Marked(t, n, s)
        BY <1>4
    <2>2. CASE u = t /\ l = n
        BY <1>2, <2>1, <2>2 DEF Marked, MarkedRan
    <2>3. CASE ~(u = t /\ l = n)
        BY <1>1, <2>1, <2>3 DEF Marked, FramesBut
    <2> QED
        BY <2>2, <2>3
<1>5. CASE \E t \in Threads, n \in Levels : Returned(t, n)
    BY <1>1, <1>5, NoCallFields, OpsDistinct DEF Returned, FramesBut
<1>6. CASE \E t \in Threads, n \in Levels, w \in Slots, r \in Results \cup {"OK"} :
             Ended(t, n, w, r)
    <2>1. PICK t \in Threads, n \in Levels, w \in Slots, r \in Results \cup {"OK"} :
            Ended(t, n, w, r)
        BY <1>6
    <2>2. ~(u = t /\ l = n)
        BY <2>1, NoCallFields, OpsDistinct DEF Ended
    <2>3. stack'[u][l] = stack[u][l] \/ stack'[u][l] = [stack[u][l] EXCEPT !.state = "done"]
        BY <2>1, <2>2 DEF Ended
    <2> QED
        BY <1>1, <1>2, <2>3
<1>7. CASE (\E w \in Slots : Flagged(w)) \/ Quiet
    BY <1>1, <1>7 DEF Flagged, Quiet
<1> QED
    BY <1>3, <1>4, <1>5, <1>6, <1>7 DEF Effect, ReturnEffect

LEMMA RanIsOwnKept ==
    ASSUME CoreInv, PhaseFits, RanIsOwn, Effect
    PROVE  RanIsOwn'
<1> SUFFICES ASSUME NEW u \in Threads, NEW l \in Levels,
                    stack'[u][l].op \in WaitingOps, stack'[u][l].state = "ran"
             PROVE  workload'[stack'[u][l].w].owner \in {u, NoThread}
    BY DEF RanIsOwn
<1>1. SameCall(u, l) /\ (stack[u][l].state = "ran" \/ Own(u, stack[u][l].w))
    BY RanFrame DEF MarkedRan
<1>2. stack[u][l].op \in WaitingOps
    BY <1>1 DEF SameCall
<1>3. PICK w \in Slots : w = stack[u][l].w
    BY <1>2, CallSlot, OpsDistinct DEF CoreInv
<1>4. workload[w].owner \in {u, NoThread}
    BY <1>1, <1>2, <1>3 DEF RanIsOwn, Own, Current
<1>5. ~(\E t \in Threads, n \in Levels : Activated(t, n, w))
    BY <1>2, <1>3 DEF Activated, Available, Waiters
<1>6. ASSUME NEW t \in Threads, NEW n \in Levels, NEW r \in Results \cup {"OK"},
             Ended(t, n, w, r)
      PROVE  workload'[w].owner \in {workload[w].owner, NoThread}
    <2>1. PICK phase : phase = stack[t][n].phase
        OBVIOUS
    <2>2. workload[w] \in SlotType /\ workload'[w] = Outcome(workload[w], phase, r)
        BY <1>6, <2>1, EndedSlot
    <2> QED
        BY <2>2, OutcomeFields, FreeSlotFields
<1>7. workload'[w].owner \in {u, NoThread}
    BY <1>4, <1>5, <1>6, SlotsHaveEffects DEF SlotEffect, Kept
<1> QED
    BY <1>1, <1>3, <1>7 DEF SameCall
\* t goes on with the calls it has in progress, or with its pass over the table: only its own
\* place changes, and of the flags only "failed".
LoopControl(t) ==
    /\ \A u \in Threads : u # t => pc'[u] = pc[u] /\ pos'[u] = pos[u]
    /\ \/ pc'[t] = pc[t]
       \/ pc[t] = "run" /\ pc'[t] = IF t = Main THEN "user" ELSE "loop"
    /\ pc[t] # "run" => pos'[t] = pos[t]
    /\ pool'.closing = pool.closing
    /\ pool'.stopping = pool.stopping

LEMMA PassControl ==
    ASSUME CoreInv, NEW t \in Threads, pc[t] = "run",
           LeaveRun(t) \/ NextSlot(t), pool'.closing = pool.closing,
           pool'.stopping = pool.stopping
    PROVE  LoopControl(t)
BY DEF CoreInv, TypeOK, LeaveRun, NextSlot, LoopControl

LEMMA StillControl ==
    ASSUME NEW t \in Threads, UNCHANGED <<pc, pos>>, pool'.closing = pool.closing,
           pool'.stopping = pool.stopping
    PROVE  LoopControl(t)
BY DEF LoopControl

LEMMA ThreadControl ==
    ASSUME CoreInv, NEW t \in Threads,
           Call(t) \/ (Proceed(t) /\ ~WorkerTurn(t) /\ ~WorkerStarted(t)) \/ EndRun(t)
    PROVE  LoopControl(t)
<1>1. CASE Call(t)
    <2>1. UNCHANGED <<pc, pos, pool>>
        BY ZenonT(60), <1>1 DEF Call, Activate, Execute, Deactivate, RunOrSleep, WaitForCompletion
    <2> QED
        BY <2>1, StillControl
<1>2. CASE EnterOwn(t) \/ ReturnRan(t) \/ WaitOther(t) \/ ExecuteLoop(t)
    <2>1. UNCHANGED <<pc, pos, pool>>
        BY <1>2 DEF EnterOwn, ReturnRan, WaitOther, ExecuteLoop, Return
    <2> QED
        BY <2>1, StillControl
<1>3. CASE Visit(t)
    <2>1. UNCHANGED pool /\ pc[t] = "run" /\ (UNCHANGED <<pc, pos>> \/ NextSlot(t))
        BY <1>3 DEF Visit
    <2> QED
        BY <2>1, StillControl, PassControl
<1>4. CASE EndRun(t)
    <2>1. PICK r \in Results \cup {"OK"} : EndRunOf(t, r)
        BY <1>4 DEF EndRun
    <2>2. pool'.closing = pool.closing /\ pool'.stopping = pool.stopping
        BY <2>1 DEF EndRunOf, CoreInv, TypeOK, PoolType
    <2>3. \/ pc[t] = "run" /\ (LeaveRun(t) \/ NextSlot(t))
          \/ UNCHANGED <<pc, pos>>
        BY <2>1 DEF EndRunOf
    <2> QED
        BY <2>2, <2>3, StillControl, PassControl
<1> QED
    BY <1>1, <1>2, <1>3, <1>4 DEF Proceed

\* Once nothing can be activated, a free slot stays free.
LEMMA NoRevival ==
    ASSUME CoreInv, PhaseFits, Effect, NEW w \in Slots, workload[w].signal = "INACTIVE",
           ~(\E t \in Threads, n \in Levels : Activated(t, n, w))
    PROVE  workload'[w].signal = "INACTIVE"
<1>1. ~(\E t \in Threads, n \in Levels, r \in Results \cup {"OK"} : Ended(t, n, w, r))
    BY EndedSlot
<1> QED
    BY <1>1, SlotsHaveEffects DEF SlotEffect, Kept

\* An application calls the scheduler when the pool is up.
LEMMA BootIsCalm ==
    ASSUME CoreInv, Stages, pc[Main] = "boot", NEW t \in Threads, InApplication(t)
    PROVE  FALSE
<1>1. CASE depth[t] > 0
    <2>1. depth[t] \in Levels
        BY <1>1, TopType DEF CoreInv
    <2>2. stack[t][depth[t]].op = "run"
        BY <1>1 DEF InApplication, Top
    <2>3. stack[t][depth[t]].w \in Slots
        BY <2>1, <2>2, CallSlot DEF CoreInv
    <2>4. workload[stack[t][depth[t]].w].signal # "INACTIVE"
        BY <2>1, <2>2 DEF CoreInv, CallsInv, CallbackOnOwner
    <2> QED
        BY <2>3, <2>4 DEF Stages
<1>2. CASE ~(depth[t] > 0)
    BY <1>2 DEF InApplication
<1> QED
    BY <1>1, <1>2

LEMMA StillEmpty ==
    ASSUME CoreInv, PhaseFits, Stages, Effect,
           pc[Main] = "boot" \/ pool.closing \/ pool.failed,
           \A w \in Slots : workload[w].signal = "INACTIVE"
    PROVE  \A w \in Slots : workload'[w].signal = "INACTIVE"
<1>1. ASSUME NEW t \in Threads, NEW n \in Levels, NEW w \in Slots, Activated(t, n, w)
      PROVE  FALSE
    BY <1>1, BootIsCalm DEF Activated
<1> QED
    BY <1>1, NoRevival
\* The flags follow main, whatever main does.
FlagsFollow ==
    /\ pool.closing <=> pc[Main] \in {"free", "join", "closed"}
    /\ pool.stopping <=> pc[Main] \in {"join", "closed"}

LEMMA FlagsFollowKept ==
    ASSUME CoreInv, FlagsFollow, [Next]_vars
    PROVE  FlagsFollow'
<1>0. /\ pool \in PoolType /\ pc \in [Threads -> Places] /\ pos \in [Threads -> Nat \ {0}]
      /\ Main \in Threads
    BY MainIsThread DEF CoreInv, TypeOK
<1>1. ASSUME NEW t \in Threads, LoopControl(t)
      PROVE  FlagsFollow'
    <2>1. pc'[Main] = pc[Main] \/ (pc[Main] = "run" /\ pc'[Main] = "user")
        BY <1>0, <1>1 DEF LoopControl
    <2> QED
        BY <1>1, <2>1 DEF FlagsFollow, LoopControl
<1>2. ASSUME NEW t \in Threads, WorkerTurn(t) \/ WorkerStarted(t)
      PROVE  FlagsFollow'
    <2>1. t # Main
        BY <1>2, MainIsThread DEF WorkerTurn, WorkerStarted
    <2>2. pc'[Main] = pc[Main]
        BY <1>0, <1>2, <2>1 DEF WorkerTurn, WorkerStarted
    <2>3. pool'.closing = pool.closing /\ pool'.stopping = pool.stopping
        BY <1>0, <1>2 DEF WorkerTurn, WorkerStarted, PoolType
    <2> QED
        BY <2>2, <2>3 DEF FlagsFollow
<1>3. CASE MainRun \/ PoolIsUp
    BY <1>0, <1>3 DEF MainRun, PoolIsUp, FlagsFollow
<1>4. ASSUME pc[Main] \in {"boot", "user"}, pc' = [pc EXCEPT ![Main] = "free"], BeginFree
      PROVE  FlagsFollow'
    BY <1>0, <1>4 DEF BeginFree, FlagsFollow, PoolType
<1>5. CASE Shutdown
    BY <1>4, <1>5 DEF Shutdown
<1>6. CASE StartWorker
    <2>1. CASE /\ pc' = [pc EXCEPT ![pos[Main]] = "starting"]
               /\ pool' = [pool EXCEPT !.threadCount = pos[Main]]
        <3>1. pos[Main] # Main /\ pc[Main] = "boot"
            BY <1>0, <1>6 DEF StartWorker, Main
        <3> QED
            BY <1>0, <2>1, <3>1 DEF FlagsFollow, PoolType
    <2> QED
        BY <1>4, <1>6, <2>1 DEF StartWorker
<1>7. CASE WorkerIsUp
    <2>1. CASE pool.failed
        BY <1>4, <1>7, <2>1 DEF WorkerIsUp
    <2>2. CASE ~pool.failed
        BY <1>7, <2>2 DEF WorkerIsUp, FlagsFollow
    <2> QED
        BY <2>1, <2>2
<1>8. CASE FreeNext \/ Terminated \/ UNCHANGED vars
    BY <1>8 DEF FreeNext, Terminated, vars, FlagsFollow
<1>9. CASE StopWorkers
    BY <1>0, <1>9 DEF StopWorkers, FlagsFollow, PoolType
<1>10. CASE Join
    BY <1>0, <1>10 DEF Join, FlagsFollow, PoolType
<1> QED
    BY <1>1, <1>2, <1>3, <1>5, <1>6, <1>7, <1>8, <1>9, <1>10, ThreadControl
    DEF Next, Proceed, PoolStep

\* What a step can change about main while it boots.
LEMMA BootSteps ==
    ASSUME CoreInv, [Next]_vars, pc'[Main] = "boot"
    PROVE  pc[Main] = "boot"
<1>0. pc \in [Threads -> Places] /\ Main \in Threads /\ pos[Main] \in Nat \ {0}
    BY MainIsThread DEF CoreInv, TypeOK
<1>1. ASSUME NEW t \in Threads, LoopControl(t)
      PROVE  pc[Main] = "boot"
    BY <1>0, <1>1 DEF LoopControl
<1>2. ASSUME NEW t \in Threads, WorkerTurn(t) \/ WorkerStarted(t)
      PROVE  pc[Main] = "boot"
    BY <1>0, <1>2, MainIsThread DEF WorkerTurn, WorkerStarted
<1>3. CASE MainRun \/ PoolIsUp \/ Shutdown \/ StopWorkers \/ Join
    BY <1>0, <1>3 DEF MainRun, PoolIsUp, Shutdown, StopWorkers, Join
<1>4. CASE FreeNext \/ Terminated \/ UNCHANGED vars
    BY <1>4 DEF FreeNext, Terminated, vars
<1>5. CASE StartWorker \/ WorkerIsUp
    BY <1>5 DEF StartWorker, WorkerIsUp
<1> QED
    BY <1>1, <1>2, <1>3, <1>4, <1>5, ThreadControl DEF Next, Proceed, PoolStep

\* The worker main waits for is the one that starts.
StartsNext == \A t \in Workers : pc[t] = "starting" => pc[Main] = "boot" /\ t = pos[Main]

LEMMA StartsNextKept ==
    ASSUME CoreInv, StartsNext, [Next]_vars
    PROVE  StartsNext'
<1> SUFFICES ASSUME NEW u \in Workers, pc'[u] = "starting"
             PROVE  pc'[Main] = "boot" /\ u = pos'[Main]
    BY DEF StartsNext
<1>0. /\ pc \in [Threads -> Places] /\ pos \in [Threads -> Nat \ {0}]
      /\ Main \in Threads /\ u \in Threads /\ u # Main
    BY MainIsThread, WorkersAreThreads DEF CoreInv, TypeOK
<1>1. ASSUME pc[u] = "starting", pc'[Main] = pc[Main], pos'[Main] = pos[Main]
      PROVE  pc'[Main] = "boot" /\ u = pos'[Main]
    BY <1>1 DEF StartsNext
<1>2. ASSUME NEW t \in Threads, LoopControl(t)
      PROVE  pc'[Main] = "boot" /\ u = pos'[Main]
    <2>1. pc[u] = "starting"
        BY <1>0, <1>2 DEF LoopControl
    <2>2. pc[Main] = "boot"
        BY <2>1 DEF StartsNext
    <2>3. pc'[Main] = pc[Main] /\ pos'[Main] = pos[Main]
        BY <1>0, <1>2, <2>2 DEF LoopControl
    <2> QED
        BY <1>1, <2>1, <2>3
<1>3. ASSUME NEW t \in Threads, WorkerTurn(t) \/ WorkerStarted(t)
      PROVE  pc'[Main] = "boot" /\ u = pos'[Main]
    <2>1. t # Main
        BY <1>3, MainIsThread DEF WorkerTurn, WorkerStarted
    <2>2. pc[u] = "starting" /\ pc'[Main] = pc[Main] /\ pos'[Main] = pos[Main]
        BY <1>0, <1>3, <2>1 DEF WorkerTurn, WorkerStarted
    <2> QED
        BY <1>1, <2>2
<1>4. CASE MainRun \/ Shutdown \/ StopWorkers \/ Join \/ FreeNext
    <2>1. pc[u] = "starting" /\ pc[Main] # "boot"
        BY <1>0, <1>4 DEF MainRun, Shutdown, StopWorkers, Join, FreeNext
    <2> QED
        BY <2>1 DEF StartsNext
<1>5. CASE Terminated \/ UNCHANGED vars
    BY <1>1, <1>5 DEF Terminated, vars
<1>6. CASE PoolIsUp
    <2>1. pc[u] = "starting" /\ pos[Main] > NumWorkers
        BY <1>0, <1>6 DEF PoolIsUp
    <2>2. u = pos[Main]
        BY <2>1 DEF StartsNext
    <2> QED
        BY <2>1, <2>2, BoundsAssumption DEF Workers
<1>7. CASE WorkerIsUp
    <2>1. pc[u] = "starting"
        BY <1>0, <1>7 DEF WorkerIsUp
    <2> QED
        BY <1>7, <2>1 DEF WorkerIsUp, StartsNext
<1>8. CASE StartWorker
    <2>1. pc[pos[Main]] = "none" /\ pos[Main] # Main /\ pc[Main] = "boot"
        BY <1>0, <1>8 DEF StartWorker, Main
    <2>2. pc[u] # "starting"
        BY <2>1 DEF StartsNext
    <2>3. /\ pc' = [pc EXCEPT ![pos[Main]] = "starting"] /\ pos' = pos
        BY <1>0, <1>8, <2>2 DEF StartWorker
    <2> QED
        BY <1>0, <2>1, <2>2, <2>3
<1> QED
    BY <1>2, <1>3, <1>4, <1>5, <1>6, <1>7, <1>8, ThreadControl DEF Next, Proceed, PoolStep
\* A worker leaves its loop on the word of the shutdown, or never entered it.
LEMMA ExitSteps ==
    ASSUME CoreInv, [Next]_vars, NEW u \in Workers, pc'[u] = "exited"
    PROVE  \/ pc[u] = "exited"
           \/ pool.stopping
           \/ pc[u] = "starting" /\ pool'.failed
<1>0. /\ pc \in [Threads -> Places] /\ pos[Main] \in Nat \ {0} /\ pool \in PoolType
      /\ Main \in Threads /\ u \in Threads /\ u # Main
    BY MainIsThread, WorkersAreThreads DEF CoreInv, TypeOK
<1>1. ASSUME NEW t \in Threads, LoopControl(t)
      PROVE  pc[u] = "exited"
    BY <1>0, <1>1 DEF LoopControl
<1>2. ASSUME NEW t \in Threads, WorkerTurn(t)
      PROVE  pc[u] = "exited" \/ pool.stopping
    BY <1>0, <1>2 DEF WorkerTurn
<1>3. ASSUME NEW t \in Threads, WorkerStarted(t)
      PROVE  pc[u] = "exited" \/ (pc[u] = "starting" /\ pool'.failed)
    BY <1>0, <1>3 DEF WorkerStarted, PoolType
<1>4. CASE MainRun \/ PoolIsUp \/ Shutdown \/ StopWorkers \/ Join
    BY <1>0, <1>4 DEF MainRun, PoolIsUp, Shutdown, StopWorkers, Join
<1>5. CASE FreeNext \/ Terminated \/ UNCHANGED vars
    BY <1>5 DEF FreeNext, Terminated, vars
<1>6. CASE StartWorker \/ WorkerIsUp
    BY <1>0, <1>6 DEF StartWorker, WorkerIsUp
<1> QED
    BY <1>1, <1>2, <1>3, <1>4, <1>5, <1>6, ThreadControl DEF Next, Proceed, PoolStep

LEMMA StagesKept ==
    ASSUME CoreInv, PhaseFits, Stages, Effect, [Next]_vars
    PROVE  Stages'
<1>1. FlagsFollow'
    <2>1. FlagsFollow
        BY DEF Stages, FlagsFollow
    <2> QED
        BY <2>1, FlagsFollowKept
<1>2. StartsNext'
    <2>1. StartsNext
        BY DEF Stages, StartsNext
    <2> QED
        BY <2>1, StartsNextKept
<1>3. pc'[Main] = "boot" => \A w \in Slots : workload'[w].signal = "INACTIVE"
    BY BootSteps, StillEmpty DEF Stages
<1>4. ASSUME NEW u \in Workers, pc'[u] = "exited"
      PROVE  \/ pool'.stopping
             \/ pool'.failed /\ \A w \in Slots : workload'[w].signal = "INACTIVE"
    <2>1. CASE pool.stopping
        BY <2>1, PoolFlags
    <2>2. CASE pool.failed /\ \A w \in Slots : workload[w].signal = "INACTIVE"
        BY <2>2, StillEmpty, PoolFlags
    <2>3. CASE pc[u] = "starting" /\ pool'.failed
        BY <2>3, StillEmpty DEF Stages
    <2> QED
        BY <1>4, <2>1, <2>2, <2>3, ExitSteps DEF Stages
<1> QED
    BY <1>1, <1>2, <1>3, <1>4 DEF Stages, FlagsFollow, StartsNext

\* A call that waits leaves the stack when it returns.
LEMMA GoneFrame ==
    ASSUME CoreInv, Effect, NEW u \in Threads, NEW l \in Levels,
           stack[u][l].op \in WaitingOps, stack'[u][l].op = "none"
    PROVE  Returned(u, l)
<1>0. stack[u][l] \in CallType /\ stack[u][l].op # "none" /\ stack[u][l].op # "run"
    BY OpsDistinct DEF CoreInv, TypeOK
<1>1. ASSUME stack'[u][l] = stack[u][l]
      PROVE  FALSE
    BY <1>0, <1>1
<1>2. ASSUME NEW s, stack'[u][l] = [stack[u][l] EXCEPT !.state = s]
      PROVE  FALSE
    <2>1. PICK c \in CallType : c = stack[u][l]
        BY <1>0
    <2>2. PICK d : d = [c EXCEPT !.state = s]
        OBVIOUS
    <2>3. d.op = c.op
        BY <2>2, MarkedCall
    <2> QED
        BY <1>0, <1>2, <2>1, <2>2, <2>3
<1>3. CASE CallEffect
    <2>1. PICK t \in Threads, n \in Levels, w \in Slots :
            \/ Activated(t, n, w)
            \/ Asked(t, n, w)
            \/ \E op \in {"deactivate", "wait"} : Joined(t, n, w, op)
            \/ \E cmd \in Addresses \cup {NoCommand} : Entered(t, n, w, cmd)
        BY SMTT(40), <1>3 DEF CallEffect
    <2>2. stack[t][n] = NoCall
        BY <2>1 DEF Activated, Asked, Joined, Pushed, Entered
    <2>3. ~(u = t /\ l = n)
        BY <1>0, <2>2, NoCallFields
    <2>4. CASE FramesBut(t, n)
        BY <1>1, <2>3, <2>4 DEF FramesBut
    <2>5. CASE \E cmd \in Addresses \cup {NoCommand} : Entered(t, n, w, cmd)
        BY <1>1, <1>2, <2>3, <2>5, ZenonT(60) DEF Entered
    <2> QED
        BY <2>1, <2>4, <2>5 DEF Activated, Asked, Joined, Pushed
<1>4. CASE \E t \in Threads, n \in Levels, s \in {"ran", "loop"} : Marked(t, n, s)
    BY <1>1, <1>2, <1>4 DEF Marked, FramesBut
<1>5. CASE \E t \in Threads, n \in Levels : Returned(t, n)
    <2>1. PICK t \in Threads, n \in Levels : Returned(t, n)
        BY <1>5
    <2>2. u = t /\ l = n
        <3>1. FramesBut(t, n)
            BY <2>1 DEF Returned
        <3> QED
            BY <1>1, <3>1 DEF FramesBut
    <2> QED
        BY <2>1, <2>2
<1>6. CASE \E t \in Threads, n \in Levels, w \in Slots, r \in Results \cup {"OK"} :
             Ended(t, n, w, r)
    <2>1. PICK t \in Threads, n \in Levels, w \in Slots, r \in Results \cup {"OK"} :
            Ended(t, n, w, r)
        BY <1>6
    <2>2. ~(u = t /\ l = n)
        BY <1>0, <2>1 DEF Ended
    <2> QED
        BY ZenonT(60), <1>1, <1>2, <2>1, <2>2 DEF Ended
<1>7. CASE (\E w \in Slots : Flagged(w)) \/ Quiet
    BY <1>1, <1>7 DEF Flagged, Quiet
<1> QED
    BY <1>3, <1>4, <1>5, <1>6, <1>7 DEF Effect, ReturnEffect

\* What is main's, or free, while the pool closes, stays so.
LEMMA FreedStays ==
    ASSUME CoreInv, PhaseFits, Effect, pool.closing, NEW w \in Slots,
           workload[w].signal = "INACTIVE" \/ workload[w].owner = Main
    PROVE  workload'[w].signal = "INACTIVE" \/ workload'[w].owner = Main
<1>1. ~(\E t \in Threads, n \in Levels : Activated(t, n, w))
    BY DEF Activated
<1>2. CASE workload[w].signal = "INACTIVE"
    BY <1>1, <1>2, NoRevival
<1>3. CASE workload[w].owner = Main
    <2>1. ASSUME NEW t \in Threads, NEW n \in Levels, NEW r \in Results \cup {"OK"},
                 Ended(t, n, w, r)
          PROVE  workload'[w].signal = "INACTIVE" \/ workload'[w].owner = Main
        <3>1. PICK phase : phase = stack[t][n].phase
            OBVIOUS
        <3>2. workload[w] \in SlotType /\ workload'[w] = Outcome(workload[w], phase, r)
            BY <2>1, <3>1, EndedSlot
        <3> QED
            BY <1>3, <3>2, OutcomeFields, FreeSlotFields
    <2> QED
        BY <1>1, <1>3, <2>1, SlotsHaveEffects DEF SlotEffect, Kept
<1> QED
    BY <1>2, <1>3

\* Main waits on, until its call returns.
LEMMA MainFreesStep ==
    ASSUME CoreInv, CoreInv', Effect, NEW w \in Slots, MainFrees(w)
    PROVE  /\ Main \in Threads /\ 1 \in Levels
           /\ stack[Main][1].op = "deactivate" /\ stack[Main][1].w = w
           /\ MainFrees(w)' \/ Returned(Main, 1)
<1>0. /\ Main \in Threads /\ 1 \in Levels
      /\ stack[Main][1].op = "deactivate" /\ stack[Main][1].w = w
    BY MainIsThread, TopType, BoundsAssumption DEF MainFrees, Levels, CoreInv
<1>1. CASE SameCall(Main, 1)
    <2>1. stack'[Main][1].op = "deactivate" /\ stack'[Main][1].w = w
        BY <1>0, <1>1 DEF SameCall
    <2>2. depth'[Main] > 0
        <3>1. depth'[Main] \in 0..MaxDepth
            BY <1>0 DEF CoreInv, TypeOK
        <3>2. ~(1 > depth'[Main])
            BY <1>0, <2>1, NoCallFields DEF CoreInv, TypeOK
        <3> QED
            BY <3>1, <3>2, BoundsAssumption
    <2> QED
        BY <1>0, <2>1, <2>2 DEF MainFrees
<1>2. CASE stack'[Main][1].op = "none"
    BY <1>0, <1>2, GoneFrame DEF WaitingOps
<1>3. ASSUME NEW v \in Slots,
             \/ Activated(Main, 1, v)
             \/ Asked(Main, 1, v)
             \/ \E op \in {"deactivate", "wait"} : Joined(Main, 1, v, op)
             \/ \E cmd \in Addresses \cup {NoCommand} : Entered(Main, 1, v, cmd)
      PROVE  FALSE
    <2>1. stack[Main][1] = NoCall
        BY <1>3 DEF Activated, Asked, Joined, Pushed, Entered
    <2> QED
        BY SMTT(40), <1>0, <2>1, NoCallFields
<1> QED
    BY <1>0, <1>1, <1>2, <1>3, FramesHaveEffects DEF FrameEffect

\* ... and then the slot is free, or main's.
LEMMA MainFreesKept ==
    ASSUME CoreInv, CoreInv', PhaseFits, RanIsOwn, Effect, pool.closing, NEW w \in Slots,
           MainFrees(w)
    PROVE  workload'[w].signal = "INACTIVE" \/ workload'[w].owner = Main \/ MainFrees(w)'
<1>1. /\ Main \in Threads /\ 1 \in Levels
      /\ stack[Main][1].op = "deactivate" /\ stack[Main][1].w = w
      /\ MainFrees(w)' \/ Returned(Main, 1)
    BY MainFreesStep
<1>2. CASE Returned(Main, 1)
    <2>1. CASE stack[Main][1].state = "ran"
        BY <1>1, <2>1, FreedStays
        DEF RanIsOwn, CoreInv, CallsInv, FreeSlotClean, WaitingOps
    <2>2. CASE Satisfied(stack[Main][1])
        BY <1>1, <2>2, FreedStays DEF Satisfied
    <2> QED
        BY <1>2, <2>1, <2>2 DEF Returned
<1> QED
    BY <1>1, <1>2

\* While the pool closes, main goes over the table from its first slot.
LEMMA ClosingSteps ==
    ASSUME CoreInv, Stages, [Next]_vars, pool'.closing
    PROVE  \/ FreeNext
           \/ StopWorkers
           \/ /\ pool'.stopping = pool.stopping
              /\ pool.closing => pos'[Main] = pos[Main]
              /\ ~pool.closing => pos'[Main] = 1
<1>0. /\ pool \in PoolType /\ pos \in [Threads -> Nat \ {0}] /\ Main \in Threads
    BY MainIsThread DEF CoreInv, TypeOK
<1>1. ASSUME NEW t \in Threads, LoopControl(t)
      PROVE  pool'.stopping = pool.stopping /\ pool.closing /\ pos'[Main] = pos[Main]
    BY <1>0, <1>1 DEF LoopControl, Stages
<1>2. ASSUME NEW t \in Threads, WorkerTurn(t) \/ WorkerStarted(t)
      PROVE  pool'.stopping = pool.stopping /\ pool.closing /\ pos'[Main] = pos[Main]
    BY <1>0, <1>2 DEF WorkerTurn, WorkerStarted, PoolType
<1>3. CASE MainRun \/ PoolIsUp
    BY <1>3 DEF MainRun, PoolIsUp, Stages
<1>4. ASSUME BeginFree, pc[Main] \in {"boot", "user"}
      PROVE  pool'.stopping = pool.stopping /\ ~pool.closing /\ pos'[Main] = 1
    BY <1>0, <1>4 DEF BeginFree, PoolType, Stages
<1>5. CASE Shutdown
    BY <1>4, <1>5 DEF Shutdown
<1>6. CASE StartWorker
    <2>1. CASE pool' = [pool EXCEPT !.threadCount = pos[Main]]
        <3>1. pool'.closing = pool.closing
            BY <1>0, <2>1 DEF PoolType
        <3> QED
            BY <1>6, <3>1 DEF StartWorker, Stages
    <2> QED
        BY <1>4, <1>6, <2>1 DEF StartWorker
<1>7. CASE WorkerIsUp
    BY <1>4, <1>7 DEF WorkerIsUp, Stages
<1>8. CASE Terminated \/ UNCHANGED vars
    BY <1>8 DEF Terminated, vars
<1>9. CASE Join
    BY <1>0, <1>9 DEF Join, PoolType
<1> QED
    BY <1>1, <1>2, <1>3, <1>5, <1>6, <1>7, <1>8, <1>9, ThreadControl DEF Next, Proceed, PoolStep

\* The slot main has just been at.
LEMMA FreeNextFrees ==
    ASSUME CoreInv, Stages, FreeNext, NEW w \in Slots, w = pos[Main]
    PROVE  workload'[w].signal = "INACTIVE" \/ workload'[w].owner = Main \/ MainFrees(w)'
<1>0. (Main \in Threads /\ depth[Main] = 0 /\ 1 \in Levels) \/ MaxDepth = 0
    BY MainIsThread, BoundsAssumption DEF FreeNext, Levels
<1>1. CASE workload[w].signal = "INACTIVE" /\ UNCHANGED workload
    BY <1>1
<1>2. CASE DeactivateSlot(Main, w)
    <2>1. pool.closing /\ gens' = gens
        BY DEF FreeNext, Stages
    <2>2. CASE Own(Main, w)
        BY <1>2, <2>1, <2>2, MainIsThread, DeactivateEffect DEF Own, Current, Flags, Kept
    <2>3. CASE ~Own(Main, w)
        <3>1. depth[Main] + 1 \in Levels /\ Pushed(Main, depth[Main] + 1, w, "deactivate", "enter")
            BY <1>2, <2>1, <2>3, MainIsThread, DeactivateEffect
        <3>2. /\ depth' = [depth EXCEPT ![Main] = 1] /\ depth \in [Threads -> 0..MaxDepth]
              /\ stack'[Main][1].op = "deactivate" /\ stack'[Main][1].w = w
            BY <3>1 DEF Pushed, FreeNext, CoreInv, TypeOK
        <3> QED
            BY <3>2, MainIsThread DEF MainFrees
    <2> QED
        BY <2>2, <2>3
<1> QED
    BY <1>1, <1>2 DEF FreeNext

LEMMA FreedInOrderKept ==
    ASSUME CoreInv, CoreInv', PhaseFits, ShutdownInv, Effect, [Next]_vars
    PROVE  FreedInOrder'
<1>0. Stages /\ RanIsOwn /\ FreedInOrder /\ Main \in Threads /\ pos[Main] \in Nat \ {0}
    BY MainIsThread DEF ShutdownInv, CoreInv, TypeOK
<1>1. ASSUME NEW w \in Slots, pool.closing, w < pos[Main]
      PROVE  workload'[w].signal = "INACTIVE" \/ workload'[w].owner = Main \/ MainFrees(w)'
    BY <1>0, <1>1, FreedStays, MainFreesKept DEF FreedInOrder
<1>2. ASSUME NEW w \in Slots, pool.stopping
      PROVE  workload'[w].signal = "INACTIVE" \/ workload'[w].owner = Main
    BY <1>0, <1>2, FreedStays DEF FreedInOrder, Stages
<1>3. CASE FreeNext
    <2>1. /\ pos'[Main] = pos[Main] + 1 /\ pool' = pool /\ pool.closing
        BY <1>0, <1>3 DEF FreeNext, Stages, CoreInv, TypeOK
    <2>2. ASSUME NEW w \in Slots, w < pos'[Main]
          PROVE  workload'[w].signal = "INACTIVE" \/ workload'[w].owner = Main \/ MainFrees(w)'
        <3>1. w < pos[Main] \/ w = pos[Main]
            BY <1>0, <2>1, <2>2, BoundsAssumption DEF Slots
        <3> QED
            BY <1>0, <1>1, <1>3, <2>1, <3>1, FreeNextFrees
    <2> QED
        BY <1>2, <2>1, <2>2 DEF FreedInOrder
<1>4. CASE StopWorkers
    <2>1. /\ pos[Main] > NumSlots /\ pool.closing /\ depth[Main] = 0
          /\ pos' = pos /\ workload' = workload
        BY <1>0, <1>4 DEF StopWorkers, Stages
    <2>2. \A w \in Slots : w < pos[Main] /\ ~MainFrees(w)
        BY <1>0, <2>1, BoundsAssumption DEF Slots, MainFrees
    <2> QED
        BY <1>0, <2>1, <2>2 DEF FreedInOrder
<1>5. CASE /\ pool'.stopping = pool.stopping
           /\ pool.closing => pos'[Main] = pos[Main]
           /\ ~pool.closing => pos'[Main] = 1
    <2>1. \A w \in Slots : ~(w < 1)
        BY BoundsAssumption DEF Slots
    <2> QED
        BY <1>1, <1>2, <1>5, <2>1 DEF FreedInOrder
<1>6. CASE ~pool'.closing
    <2>1. ~pool.stopping /\ pool'.stopping = pool.stopping
        <3>1. ~pool.stopping
            BY <1>0, <1>6, PoolFlags DEF Stages
        <3>2. Stages'
            BY <1>0, StagesKept
        <3> QED
            BY <1>6, <3>1, <3>2 DEF Stages, CoreInv, TypeOK, PoolType
    <2> QED
        BY <1>6, <2>1 DEF FreedInOrder
<1> QED
    BY <1>0, <1>3, <1>4, <1>5, <1>6, ClosingSteps

LEMMA ShutdownKept ==
    ASSUME CoreInv, CoreInv', PhaseFits, ShutdownInv, Effect, [Next]_vars
    PROVE  ShutdownInv'
BY RanIsOwnKept, StagesKept, FreedInOrderKept DEF ShutdownInv

LEMMA ShutdownInit == Init => ShutdownInv
<1> SUFFICES ASSUME Init PROVE ShutdownInv
    OBVIOUS
<1>1. /\ \A t \in Threads, l \in Levels : stack[t][l] = NoCall
      /\ \A w \in Slots : workload[w] = FreeSlot
      /\ pc[Main] = "boot" /\ ~pool.closing /\ ~pool.stopping
      /\ \A t \in Workers : pc[t] = "none"
    BY MainIsThread, WorkersAreThreads DEF Init
<1> QED
    BY <1>1, NoCallFields, OpsDistinct, FreeSlotFields
    DEF ShutdownInv, RanIsOwn, Stages, FreedInOrder

---------------------------------------------------------------------------
(* The theorems *)

LEMMA SchedulerInit == Init => SchedulerInv
BY InvInit, HandlesInit, ShutdownInit DEF SchedulerInv

LEMMA SchedulerStep == SchedulerInv /\ [Next]_vars => SchedulerInv'
<1> SUFFICES ASSUME SchedulerInv, [Next]_vars PROVE SchedulerInv'
    OBVIOUS
<1>1. CoreInv /\ HandlesInv /\ ShutdownInv /\ Stages /\ PhaseFits
    BY DEF SchedulerInv, ShutdownInv, HandlesInv
<1>2. CoreInv'
    BY <1>1, InvStep
<1>3. Effect
    BY <1>1, StepHasEffect
<1>4. HandlesInv'
    BY <1>1, <1>2, <1>3, PoolFlags, HandlesKept
<1>5. ShutdownInv'
    BY <1>1, <1>2, <1>3, ShutdownKept
<1> QED
    BY <1>2, <1>4, <1>5 DEF SchedulerInv

\* The invariant of the scheduler is inductive, for any number of threads, slots and calls: what
\* callbacks, commands and sleeping threads rely on, what a slot and its handle go through, and
\* the order of the shutdown.
THEOREM SchedulerInvariant == Spec => []SchedulerInv
<1>1. SchedulerInv /\ UNCHANGED vars => SchedulerInv'
    BY SchedulerStep
<1> QED
    BY SchedulerInit, SchedulerStep, PTL DEF Spec

\* No workload waits on a worker that has left its loop: the shutdown frees before it stops.
THEOREM NobodyStranded == Spec => []NotStranded
<1>1. SchedulerInv => NotStranded
    <2> SUFFICES ASSUME SchedulerInv, NEW w \in Slots, workload[w].signal # "INACTIVE",
                        workload[w].owner \in Workers, pc[workload[w].owner] = "exited"
                 PROVE  FALSE
        BY DEF NotStranded
    <2>1. pool.stopping
        BY DEF SchedulerInv, ShutdownInv, Stages
    <2>2. workload[w].owner = Main
        BY <2>1 DEF SchedulerInv, ShutdownInv, FreedInOrder
    <2> QED
        BY <2>2, MainIsThread
<1> QED
    BY <1>1, SchedulerInvariant, PTL

\* A workload that is being activated is initialised at most until its caller has the handle.
THEOREM ActivationsHeld == Spec => []ActivationHeld
<1>1. SchedulerInv => ActivationHeld
    BY DEF SchedulerInv, HandlesInv
<1> QED
    BY <1>1, SchedulerInvariant, PTL

---------------------------------------------------------------------------
(* The table after the shutdown.  nh_core_freeThreadPool() frees what        *)
(* runs on main itself only if nobody else is activating it: a workload      *)
(* of main whose activation has not returned is skipped by runWorkload().    *)

OnlyMainActivatesOnMain == \A t \in Threads : <<"activate", t, Main>> \in Calls => t = Main

\* A slot that is being activated has its caller.
ActivatingHasCaller ==
    \A w \in Slots : workload[w].activating =>
        \E t \in Threads, l \in Levels : /\ stack[t][l].op = "activate"
                                         /\ stack[t][l].w = w
                                         /\ <<"activate", t, workload[w].owner>> \in Calls

\* What main waits for is going to be freed.
FreesFlagged ==
    \A w \in Slots : MainFrees(w) => workload[w].signal = "INACTIVE" \/ workload[w].deactivate

\* Main frees its own workload while it waits for it.
FreesItself(w) ==
    /\ 2 \in Levels
    /\ stack[Main][2].op = "run"
    /\ stack[Main][2].phase = "FREE"
    /\ stack[Main][2].w = w

OwnFreed ==
    \A w \in Slots : (pool.closing /\ MainFrees(w) /\ stack[Main][1].state = "ran")
                        => workload[w].signal = "INACTIVE" \/ FreesItself(w)

EmptiedInOrder ==
    /\ pool.closing =>
        \A w \in Slots : w < pos[Main] => workload[w].signal = "INACTIVE" \/ MainFrees(w)
    /\ pool.stopping => \A w \in Slots : workload[w].signal = "INACTIVE"

EmptiedInv ==
    /\ ActivatingHasCaller
    /\ FreesFlagged
    /\ OwnFreed
    /\ EmptiedInOrder

LEMMA ActivatingHasCallerKept ==
    ASSUME CoreInv, CoreInv', HandlesInv, ActivatingHasCaller, Effect
    PROVE  ActivatingHasCaller'
<1> SUFFICES ASSUME NEW w \in Slots, workload'[w].activating
             PROVE  \E t \in Threads, l \in Levels :
                        /\ stack'[t][l].op = "activate"
                        /\ stack'[t][l].w = w
                        /\ <<"activate", t, workload'[w].owner>> \in Calls
    BY DEF ActivatingHasCaller
<1>1. ASSUME NEW t \in Threads, NEW n \in Levels, Activated(t, n, w)
      PROVE  /\ stack'[t][n].op = "activate"
             /\ stack'[t][n].w = w
             /\ <<"activate", t, workload'[w].owner>> \in Calls
    BY <1>1 DEF Activated, Pushed
<1>2. CASE workload[w].activating /\ workload'[w].owner = workload[w].owner
    <2>1. PICK t \in Threads, l \in Levels :
            /\ stack[t][l].op = "activate"
            /\ stack[t][l].w = w
            /\ <<"activate", t, workload[w].owner>> \in Calls
        BY <1>2 DEF ActivatingHasCaller
    <2>2. stack'[t][l].op # "none"
        <3>1. ASSUME stack'[t][l].op = "none"
              PROVE  FALSE
            <4>1. Returned(t, l)
                BY <2>1, <3>1, GoneFrame DEF WaitingOps
            <4> QED
                BY <1>2, <2>1, <4>1 DEF Returned
        <3> QED
            BY <3>1
    <2>3. stack[t][l] # NoCall
        BY <2>1, NoCallFields
    <2>4. SameCall(t, l)
        BY <2>2, <2>3, FramesHaveEffects, ZenonT(60)
        DEF FrameEffect, Activated, Asked, Joined, Pushed, Entered
    <2> QED
        BY <1>2, <2>1, <2>4 DEF SameCall
<1>3. ASSUME NEW t \in Threads, NEW n \in Levels, NEW r \in Results \cup {"OK"},
             Ended(t, n, w, r)
      PROVE  workload[w].activating /\ workload'[w].owner = workload[w].owner
    <2>1. PICK phase : phase = stack[t][n].phase
        OBVIOUS
    <2>2. workload[w] \in SlotType /\ workload'[w] = Outcome(workload[w], phase, r)
        BY <1>3, <2>1, EndedSlot DEF HandlesInv
    <2>3. phase # "FREE"
        BY <2>2, OutcomeFields, FreeSlotFields
    <2> QED
        BY <2>2, <2>3, OutcomeFields, OutcomeFlags
<1> QED
    BY <1>1, <1>2, <1>3, SlotsHaveEffects DEF SlotEffect, Kept

\* A slot main waits for is not given to another activation.
LEMMA FreesKeepsSlot ==
    ASSUME CoreInv, NEW w \in Slots, MainFrees(w)
    PROVE  ~(\E t \in Threads, n \in Levels : Activated(t, n, w))
<1>1. Main \in Threads /\ 1 \in Levels
    BY MainIsThread, TopType, BoundsAssumption DEF MainFrees, Levels, CoreInv
<1>2. Waiters(w)
    BY <1>1 DEF MainFrees, Waiters, WaitingOps
<1> QED
    BY <1>2 DEF Activated, Available

LEMMA FreesFlaggedKept ==
    ASSUME CoreInv, CoreInv', HandlesInv, FreesFlagged, Effect
    PROVE  FreesFlagged'
<1> SUFFICES ASSUME NEW w \in Slots, MainFrees(w)'
             PROVE  workload'[w].signal = "INACTIVE" \/ workload'[w].deactivate
    BY DEF FreesFlagged
<1>0. /\ Main \in Threads /\ 1 \in Levels
      /\ stack'[Main][1].op = "deactivate" /\ stack'[Main][1].w = w
    <2>1. Main \in Threads /\ depth'[Main] > 0 /\ depth'[Main] \in 0..MaxDepth
        BY MainIsThread DEF MainFrees, CoreInv, TypeOK
    <2> QED
        BY <2>1, BoundsAssumption DEF MainFrees, Levels
<1>1. CASE SameCall(Main, 1)
    <2>1. MainFrees(w)
        <3>1. stack[Main][1].op = "deactivate" /\ stack[Main][1].w = w
            BY <1>0, <1>1 DEF SameCall
        <3>2. 1 <= depth[Main] /\ depth[Main] \in 0..MaxDepth
            BY <1>0, <3>1, CallSlot DEF CoreInv, TypeOK
        <3> QED
            BY <3>1, <3>2 DEF MainFrees
    <2>2. ~(\E t \in Threads, n \in Levels : Activated(t, n, w))
        BY <2>1, FreesKeepsSlot
    <2>3. CASE workload[w].signal = "INACTIVE"
        BY <2>2, <2>3, NoRevival DEF HandlesInv
    <2>4. CASE workload[w].deactivate
        <3>1. ASSUME NEW t \in Threads, NEW n \in Levels, NEW r \in Results \cup {"OK"},
                     Ended(t, n, w, r)
              PROVE  workload'[w].signal = "INACTIVE" \/ workload'[w].deactivate
            <4>1. PICK phase : phase = stack[t][n].phase
                OBVIOUS
            <4>2. workload[w] \in SlotType /\ workload'[w] = Outcome(workload[w], phase, r)
                BY <3>1, <4>1, EndedSlot DEF HandlesInv
            <4>3. CASE phase = "FREE"
                BY <4>2, <4>3, OutcomeFields, FreeSlotFields
            <4>4. CASE phase # "FREE"
                BY <2>4, <4>2, <4>4, OutcomeFlags
            <4> QED
                BY <4>3, <4>4
        <3> QED
            BY <2>2, <2>4, <3>1, SlotsHaveEffects DEF SlotEffect
    <2> QED
        BY <2>1, <2>3, <2>4 DEF FreesFlagged
<1>2. ASSUME NEW v \in Slots, NEW op \in {"deactivate", "wait"}, Joined(Main, 1, v, op)
      PROVE  workload'[w].deactivate
    BY <1>0, <1>2 DEF Joined, Pushed
<1>3. ASSUME NEW v \in Slots,
             \/ Activated(Main, 1, v)
             \/ Asked(Main, 1, v)
             \/ \E cmd \in Addresses \cup {NoCommand} : Entered(Main, 1, v, cmd)
      PROVE  FALSE
    BY <1>0, <1>3 DEF Activated, Asked, Pushed, Entered
<1> QED
    BY <1>0, <1>1, <1>2, <1>3, FramesHaveEffects DEF FrameEffect

\* A callback leaves the stack when it ends.
LEMMA GoneCallback ==
    ASSUME CoreInv, Effect, NEW u \in Threads, NEW l \in Levels,
           stack[u][l].op = "run", stack'[u][l].op = "none"
    PROVE  \E r \in Results \cup {"OK"} : Ended(u, l, stack[u][l].w, r)
<1>0. /\ stack[u][l] \in CallType /\ stack[u][l].op # "none"
      /\ stack[u][l].op \notin WaitingOps /\ stack[u][l] # NoCall
    BY NoCallFields, OpsDistinct DEF CoreInv, TypeOK
<1>1. ASSUME stack'[u][l] = stack[u][l]
      PROVE  FALSE
    BY <1>0, <1>1
<1>2. ASSUME NEW s, stack'[u][l] = [stack[u][l] EXCEPT !.state = s]
      PROVE  FALSE
    <2>1. PICK c \in CallType : c = stack[u][l]
        BY <1>0
    <2>2. PICK d : d = [c EXCEPT !.state = s]
        OBVIOUS
    <2>3. d.op = c.op
        BY <2>2, MarkedCall
    <2> QED
        BY <1>0, <1>2, <2>1, <2>2, <2>3
<1>3. CASE CallEffect
    <2>1. PICK t \in Threads, n \in Levels, w \in Slots :
            \/ Activated(t, n, w)
            \/ Asked(t, n, w)
            \/ \E op \in {"deactivate", "wait"} : Joined(t, n, w, op)
            \/ \E cmd \in Addresses \cup {NoCommand} : Entered(t, n, w, cmd)
        BY <1>3 DEF CallEffect
    <2>2. stack[t][n] = NoCall
        BY <2>1 DEF Activated, Asked, Joined, Pushed, Entered
    <2>3. ~(u = t /\ l = n)
        BY <1>0, <2>2
    <2>4. CASE FramesBut(t, n)
        BY <1>1, <2>3, <2>4 DEF FramesBut
    <2>5. CASE \E cmd \in Addresses \cup {NoCommand} : Entered(t, n, w, cmd)
        BY <1>1, <1>2, <2>3, <2>5, ZenonT(60) DEF Entered
    <2> QED
        BY <2>1, <2>4, <2>5 DEF Activated, Asked, Joined, Pushed
<1>4. CASE \E t \in Threads, n \in Levels, s \in {"ran", "loop"} : Marked(t, n, s)
    BY <1>1, <1>2, <1>4 DEF Marked, FramesBut
<1>5. CASE \E t \in Threads, n \in Levels : Returned(t, n)
    <2>1. PICK t \in Threads, n \in Levels : Returned(t, n)
        BY <1>5
    <2>2. FramesBut(t, n) /\ stack[t][n].op \in WaitingOps
        BY <2>1 DEF Returned
    <2> QED
        BY <1>0, <1>1, <2>2 DEF FramesBut
<1>6. CASE \E t \in Threads, n \in Levels, w \in Slots, r \in Results \cup {"OK"} :
             Ended(t, n, w, r)
    <2>1. PICK t \in Threads, n \in Levels, w \in Slots, r \in Results \cup {"OK"} :
            Ended(t, n, w, r)
        BY <1>6
    <2>2. w = stack[t][n].w
        BY <2>1 DEF Ended
    <2>3. CASE u = t /\ l = n
        BY <2>1, <2>2, <2>3
    <2>4. CASE ~(u = t /\ l = n)
        <3>1. stack'[u][l] = stack[u][l] \/ stack'[u][l] = [stack[u][l] EXCEPT !.state = "done"]
            BY <2>1, <2>4 DEF Ended
        <3> QED
            BY <1>1, <1>2, <3>1
    <2> QED
        BY <2>3, <2>4
<1>7. CASE (\E w \in Slots : Flagged(w)) \/ Quiet
    BY <1>1, <1>7 DEF Flagged, Quiet
<1> QED
    BY <1>3, <1>4, <1>5, <1>6, <1>7 DEF Effect, ReturnEffect

\* The shutdown begins when main has no call in progress, or before there is any workload.
LEMMA ClosingStarts ==
    ASSUME CoreInv, [Next]_vars, pool'.closing, ~pool.closing
    PROVE  /\ UNCHANGED <<workload, stack, depth>>
           /\ pc[Main] = "boot" \/ depth[Main] = 0
<1>0. pool \in PoolType
    BY DEF CoreInv, TypeOK
<1>1. ASSUME NEW t \in Threads, LoopControl(t)
      PROVE  FALSE
    BY <1>1 DEF LoopControl
<1>2. ASSUME NEW t \in Threads, WorkerTurn(t) \/ WorkerStarted(t)
      PROVE  FALSE
    BY <1>0, <1>2 DEF WorkerTurn, WorkerStarted, PoolType
<1>3. CASE MainRun \/ PoolIsUp \/ FreeNext \/ Terminated \/ UNCHANGED vars
    BY <1>3 DEF MainRun, PoolIsUp, FreeNext, Terminated, vars
<1>4. CASE StopWorkers \/ Join
    BY <1>0, <1>4 DEF StopWorkers, Join, PoolType
<1>5. CASE StartWorker \/ WorkerIsUp \/ Shutdown
    BY <1>5 DEF StartWorker, WorkerIsUp, Shutdown
<1> QED
    BY <1>1, <1>2, <1>3, <1>4, <1>5, ThreadControl DEF Next, Proceed, PoolStep

\* A call of main that runs the workload it waits for, runs free_f.
LEMMA MarkedFrees ==
    ASSUME OnlyMainActivatesOnMain, CoreInv, HandlesInv, ActivatingHasCaller, FreesFlagged,
           Effect, pool.closing, NEW w \in Slots, MainFrees(w), MarkedRan(Main, 1),
           workload[w].signal # "INACTIVE"
    PROVE  FreesItself(w)'
<1>1. /\ Main \in Threads /\ depth[Main] = 1 /\ workload[w].owner = Main
      /\ stack[Main][1].op = "deactivate" /\ stack[Main][1].w = w
      /\ Own(Main, w) /\ workload[w].deactivate
    BY MainIsThread DEF MarkedRan, MainFrees, Own, Current, FreesFlagged
<1>2. \A l \in Levels : l # 1 => stack[Main][l] = NoCall
    BY <1>1, BoundsAssumption DEF CoreInv, TypeOK, Levels
<1>3. ~workload[w].activating
    <2> SUFFICES ASSUME workload[w].activating PROVE FALSE
        OBVIOUS
    <2>1. PICK t \in Threads, l \in Levels :
            /\ stack[t][l].op = "activate"
            /\ <<"activate", t, Main>> \in Calls
        BY <1>1 DEF ActivatingHasCaller
    <2>2. t = Main
        BY <2>1 DEF OnlyMainActivatesOnMain
    <2> QED
        BY <1>1, <1>2, <2>1, <2>2, NoCallFields
<1>4. ~Skips(Main, w)
    BY <1>1, <1>3 DEF Skips
<1>5. PICK cmd \in Addresses \cup {NoCommand} : 2 \in Levels /\ Entered(Main, 2, w, cmd)
    BY <1>1, <1>4 DEF MarkedRan
<1>6. ~Running(w)
    <2> SUFFICES ASSUME NEW t \in Threads, NEW l \in Levels,
                        stack[t][l].op = "run", stack[t][l].w = w
                 PROVE  FALSE
        BY DEF Running
    <2>1. t = Main
        BY <1>1 DEF CoreInv, CallsInv, CallbackOnOwner
    <2> QED
        BY <1>1, <1>2, <2>1, NoCallFields
<1>7. Phase(w) = "FREE"
    BY <1>1, <1>6 DEF Phase
<1> QED
    BY <1>5, <1>7 DEF Entered, FreesItself

LEMMA OwnFreedKept ==
    ASSUME OnlyMainActivatesOnMain, CoreInv, CoreInv', HandlesInv, Stages, EmptiedInv, Effect,
           [Next]_vars
    PROVE  OwnFreed'
<1> SUFFICES ASSUME NEW w \in Slots, pool'.closing, MainFrees(w)', stack'[Main][1].state = "ran"
             PROVE  workload'[w].signal = "INACTIVE" \/ FreesItself(w)'
    BY DEF OwnFreed
<1>0. /\ Main \in Threads /\ 1 \in Levels
      /\ stack'[Main][1].op = "deactivate" /\ stack'[Main][1].w = w
    <2>1. Main \in Threads /\ depth'[Main] > 0 /\ depth'[Main] \in 0..MaxDepth
        BY MainIsThread DEF MainFrees, CoreInv, TypeOK
    <2> QED
        BY <2>1, BoundsAssumption DEF MainFrees, Levels
<1>1. SameCall(Main, 1) /\ (stack[Main][1].state = "ran" \/ MarkedRan(Main, 1))
    BY <1>0, RanFrame DEF WaitingOps
<1>2. MainFrees(w)
    <2>1. stack[Main][1].op = "deactivate" /\ stack[Main][1].w = w
        BY <1>0, <1>1 DEF SameCall
    <2>2. 1 <= depth[Main] /\ depth[Main] \in 0..MaxDepth
        BY <1>0, <2>1, CallSlot DEF CoreInv, TypeOK
    <2> QED
        BY <2>1, <2>2 DEF MainFrees
<1>3. CASE ~pool.closing
    <2>1. UNCHANGED workload /\ pc[Main] = "boot"
        BY <1>2, <1>3, ClosingStarts DEF MainFrees
    <2> QED
        BY <2>1 DEF Stages
<1>4. CASE workload[w].signal = "INACTIVE"
    BY <1>2, <1>4, FreesKeepsSlot, NoRevival DEF HandlesInv
<1>5. CASE pool.closing /\ MarkedRan(Main, 1) /\ workload[w].signal # "INACTIVE"
    BY <1>2, <1>5, MarkedFrees DEF EmptiedInv
<1>6. CASE pool.closing /\ stack[Main][1].state = "ran" /\ workload[w].signal # "INACTIVE"
    <2>1. FreesItself(w)
        BY <1>2, <1>6 DEF EmptiedInv, OwnFreed
    <2>2. /\ 2 \in Levels /\ stack[Main][2].op = "run" /\ stack[Main][2].w = w
          /\ stack[Main][2].phase = "FREE" /\ stack[Main][2] # NoCall
        BY <2>1, NoCallFields DEF FreesItself
    <2>3. CASE SameCall(Main, 2)
        BY <2>2, <2>3 DEF SameCall, FreesItself
    <2>4. CASE stack'[Main][2].op = "none"
        <3>1. PICK r \in Results \cup {"OK"} : Ended(Main, 2, w, r)
            BY <1>0, <2>2, <2>4, GoneCallback
        <3>2. workload[w] \in SlotType /\ workload'[w] = Outcome(workload[w], "FREE", r)
            BY <2>2, <3>1 DEF Ended, CoreInv, TypeOK
        <3> QED
            BY <3>2, OutcomeFields, FreeSlotFields
    <2> QED
        BY <1>0, <2>2, <2>3, <2>4, FramesHaveEffects
        DEF FrameEffect, Activated, Asked, Joined, Pushed, Entered
<1> QED
    BY <1>1, <1>3, <1>4, <1>5, <1>6

\* The slot main waits for is free when its call returns.
LEMMA MainFreed ==
    ASSUME CoreInv, CoreInv', HandlesInv, EmptiedInv, Effect, pool.closing, NEW w \in Slots,
           MainFrees(w)
    PROVE  workload'[w].signal = "INACTIVE" \/ MainFrees(w)'
<1>1. /\ Main \in Threads /\ 1 \in Levels
      /\ stack[Main][1].op = "deactivate" /\ stack[Main][1].w = w
      /\ MainFrees(w)' \/ Returned(Main, 1)
    BY MainFreesStep
<1>2. CASE Returned(Main, 1)
    <2>1. ~FreesItself(w)
        <3>1. depth[Main] = 1
            BY <1>2 DEF Returned
        <3>2. 2 \in Levels => stack[Main][2] = NoCall
            BY <1>1, <3>1 DEF CoreInv, TypeOK
        <3> QED
            BY <3>2, NoCallFields DEF FreesItself
    <2>2. workload[w].signal = "INACTIVE"
        <3>1. CASE stack[Main][1].state = "ran"
            BY <2>1, <3>1 DEF EmptiedInv, OwnFreed
        <3>2. CASE Satisfied(stack[Main][1])
            BY <1>1, <3>2 DEF Satisfied
        <3> QED
            BY <1>2, <3>1, <3>2 DEF Returned
    <2> QED
        BY <2>2, FreesKeepsSlot, NoRevival DEF HandlesInv
<1> QED
    BY <1>1, <1>2

LEMMA FreeNextWaits ==
    ASSUME CoreInv, Stages, FreeNext, NEW w \in Slots, w = pos[Main]
    PROVE  workload'[w].signal = "INACTIVE" \/ MainFrees(w)'
<1>1. CASE workload[w].signal = "INACTIVE" /\ UNCHANGED workload
    BY <1>1
<1>2. CASE DeactivateSlot(Main, w)
    <2>1. pool.closing /\ gens' = gens /\ depth[Main] = 0 /\ Main \in Threads
        BY MainIsThread DEF FreeNext, Stages
    <2>2. ~(Own(Main, w) /\ Running(w))
        <3> SUFFICES ASSUME workload[w].owner = Main, NEW t \in Threads, NEW l \in Levels,
                            stack[t][l].op = "run", stack[t][l].w = w
                     PROVE  FALSE
            BY MainIsThread DEF Own, Current, Running
        <3>1. t = Main
            BY DEF CoreInv, CallsInv, CallbackOnOwner
        <3>2. l <= depth[Main]
            BY <3>1, CallSlot DEF CoreInv
        <3> QED
            BY <2>1, <3>2, BoundsAssumption DEF Levels
    <2>3. depth[Main] + 1 \in Levels /\ Pushed(Main, depth[Main] + 1, w, "deactivate", "enter")
        BY <1>2, <2>1, <2>2, DeactivateEffect
    <2>4. /\ depth' = [depth EXCEPT ![Main] = 1] /\ depth \in [Threads -> 0..MaxDepth]
          /\ stack'[Main][1].op = "deactivate" /\ stack'[Main][1].w = w
        BY <2>1, <2>3 DEF Pushed, CoreInv, TypeOK
    <2> QED
        BY <2>1, <2>4 DEF MainFrees
<1> QED
    BY <1>1, <1>2 DEF FreeNext

LEMMA EmptiedInOrderKept ==
    ASSUME CoreInv, CoreInv', HandlesInv, Stages, Stages', EmptiedInv, Effect, [Next]_vars
    PROVE  EmptiedInOrder'
<1>0. EmptiedInOrder /\ PhaseFits /\ Main \in Threads /\ pos[Main] \in Nat \ {0}
    BY MainIsThread DEF EmptiedInv, HandlesInv, CoreInv, TypeOK
<1>1. ASSUME NEW w \in Slots, pool.closing, workload[w].signal = "INACTIVE"
      PROVE  workload'[w].signal = "INACTIVE"
    <2>1. ~(\E t \in Threads, n \in Levels : Activated(t, n, w))
        BY <1>1 DEF Activated
    <2> QED
        BY <1>0, <1>1, <2>1, NoRevival
<1>2. ASSUME NEW w \in Slots, pool.closing, w < pos[Main]
      PROVE  workload'[w].signal = "INACTIVE" \/ MainFrees(w)'
    BY <1>0, <1>1, <1>2, MainFreed DEF EmptiedInOrder
<1>3. ASSUME NEW w \in Slots, pool.stopping
      PROVE  workload'[w].signal = "INACTIVE"
    BY <1>0, <1>1, <1>3 DEF EmptiedInOrder, Stages
<1>4. CASE FreeNext
    <2>1. /\ pos'[Main] = pos[Main] + 1 /\ pool' = pool /\ pool.closing
        BY <1>0, <1>4 DEF FreeNext, Stages, CoreInv, TypeOK
    <2>2. ASSUME NEW w \in Slots, w < pos'[Main]
          PROVE  workload'[w].signal = "INACTIVE" \/ MainFrees(w)'
        <3>1. w < pos[Main] \/ w = pos[Main]
            BY <1>0, <2>1, <2>2, BoundsAssumption DEF Slots
        <3> QED
            BY <1>2, <1>4, <2>1, <3>1, FreeNextWaits
    <2> QED
        BY <1>3, <2>1, <2>2 DEF EmptiedInOrder
<1>5. CASE StopWorkers
    <2>1. /\ pos[Main] > NumSlots /\ pool.closing /\ depth[Main] = 0
          /\ pos' = pos /\ workload' = workload
        BY <1>5 DEF StopWorkers, Stages
    <2>2. \A w \in Slots : w < pos[Main] /\ ~MainFrees(w)
        BY <1>0, <2>1, BoundsAssumption DEF Slots, MainFrees
    <2> QED
        BY <1>0, <2>1, <2>2 DEF EmptiedInOrder
<1>6. CASE /\ pool'.stopping = pool.stopping
           /\ pool.closing => pos'[Main] = pos[Main]
           /\ ~pool.closing => pos'[Main] = 1
    <2>1. \A w \in Slots : ~(w < 1)
        BY BoundsAssumption DEF Slots
    <2> QED
        BY <1>2, <1>3, <1>6, <2>1 DEF EmptiedInOrder
<1>7. CASE ~pool'.closing
    BY <1>7 DEF EmptiedInOrder, Stages
<1> QED
    BY <1>4, <1>5, <1>6, <1>7, ClosingSteps

LEMMA EmptiedInit == Init => EmptiedInv
<1> SUFFICES ASSUME Init PROVE EmptiedInv
    OBVIOUS
<1>1. /\ \A w \in Slots : workload[w] = FreeSlot
      /\ depth[Main] = 0 /\ ~pool.closing /\ ~pool.stopping
    BY MainIsThread DEF Init
<1> QED
    BY <1>1, FreeSlotFields
    DEF EmptiedInv, ActivatingHasCaller, FreesFlagged, OwnFreed, EmptiedInOrder, MainFrees

LEMMA EmptiedStep ==
    OnlyMainActivatesOnMain /\ SchedulerInv /\ EmptiedInv /\ [Next]_vars => EmptiedInv'
<1> SUFFICES ASSUME OnlyMainActivatesOnMain, SchedulerInv, EmptiedInv, [Next]_vars
             PROVE  EmptiedInv'
    OBVIOUS
<1>1. CoreInv /\ HandlesInv /\ Stages
    BY DEF SchedulerInv, ShutdownInv
<1>2. CoreInv' /\ Stages'
    BY SchedulerStep DEF SchedulerInv, ShutdownInv
<1>3. Effect
    BY <1>1, StepHasEffect
<1> QED
    BY <1>1, <1>2, <1>3, ActivatingHasCallerKept, FreesFlaggedKept, OwnFreedKept,
       EmptiedInOrderKept DEF EmptiedInv

\* After the shutdown no slot is in use, if only main activates workloads on main.
THEOREM ShutdownEmpties == OnlyMainActivatesOnMain => (Spec => []ClosedEmpty)
<1> SUFFICES ASSUME OnlyMainActivatesOnMain PROVE Spec => []ClosedEmpty
    OBVIOUS
<1>1. SchedulerInv /\ EmptiedInv /\ [Next]_vars => EmptiedInv'
    BY EmptiedStep
<1>2. SchedulerInv /\ EmptiedInv => ClosedEmpty
    BY DEF SchedulerInv, ShutdownInv, Stages, EmptiedInv, EmptiedInOrder, ClosedEmpty
<1>3. Init => EmptiedInv
    BY EmptiedInit
<1> QED
    BY <1>1, <1>2, <1>3, SchedulerInvariant, PTL DEF Spec

\* After the shutdown no workload of a worker is left, whoever activates what.
WorkersEmpty ==
    pc[Main] = "closed" =>
        \A w \in Slots : workload[w].signal = "INACTIVE" \/ workload[w].owner = Main

\* nh_core_freeThreadPool() frees every workload of a worker before it joins the worker.
THEOREM ShutdownEmptiesWorkers == Spec => []WorkersEmpty
<1>1. SchedulerInv => WorkersEmpty
    BY DEF SchedulerInv, ShutdownInv, Stages, FreedInOrder, WorkersEmpty
<1> QED
    BY <1>1, SchedulerInvariant, PTL

---------------------------------------------------------------------------
(* When the service sees nothing *)

LEMMA AddressOf ==
    ASSUME NEW t \in Threads, NEW n \in Levels
    PROVE  /\ <<t, n>> \in Addresses
           /\ <<t, n>>[1] = t /\ <<t, n>>[2] = n
           /\ <<t, n>> # NoCommand
BY DEF Addresses, NoCommand

LEMMA AddressParts ==
    ASSUME NEW a \in Addresses
    PROVE  a[1] \in Threads /\ a[2] \in Levels /\ a = <<a[1], a[2]>> /\ a # NoCommand
BY DEF Addresses, NoCommand

LEMMA HandlesStill ==
    ASSUME gens' = gens,
           \A v \in Slots : /\ workload'[v].initialized = workload[v].initialized
                            /\ workload'[v].gen = workload[v].gen
    PROVE  OpenHandles' = OpenHandles /\ ClosedHandles' = ClosedHandles
BY DEF OpenHandles, ClosedHandles

\* The same callbacks hold command a.
HeldStill(a) ==
    \A u \in Threads, l \in Levels :
        (stack'[u][l].op = "run" /\ stack'[u][l].cmd = a)
            <=> (stack[u][l].op = "run" /\ stack[u][l].cmd = a)

\* The call at place a is no command, or the same one.
CallStill(a) ==
    LET call == stack[a[1]][a[2]] IN
    \/ call.op # "execute" /\ call'.op # "execute"
    \/ call'.op = call.op /\ call'.state = call.state /\ call'.gen = call.gen

LEMMA RequestStill ==
    ASSUME NEW a \in Addresses, HeldStill(a), CallStill(a)
    PROVE  RequestAt(a)' = RequestAt(a)
<1>1. Held(a)' = Held(a)
    BY AddressParts DEF Held, HeldStill
<1> QED
    BY <1>1 DEF RequestAt, CallStill

LEMMA ServiceStill ==
    ASSUME OpenHandles' = OpenHandles, ClosedHandles' = ClosedHandles,
           \A a \in Addresses : HeldStill(a) /\ CallStill(a)
    PROVE  UNCHANGED Service!vars
<1>1. \A a \in Addresses : RequestAt(a)' = RequestAt(a)
    BY RequestStill
<1> QED
    BY <1>1 DEF Service!vars

\* A frame that changes, but is not a command's and holds none, is not seen.
LEMMA FramesStill ==
    ASSUME NEW t \in Threads, NEW n \in Levels, FramesBut(t, n), NEW a \in Addresses,
           stack[t][n].op # "run" \/ stack[t][n].cmd # a,
           stack'[t][n].op # "run" \/ stack'[t][n].cmd # a
    PROVE  /\ HeldStill(a)
           /\ a # <<t, n>> => CallStill(a)
<1>1. HeldStill(a)
    BY DEF HeldStill, FramesBut
<1>2. ASSUME a # <<t, n>>
      PROVE  CallStill(a)
    <2>1. a[1] \in Threads /\ a[2] \in Levels /\ (a[1] # t \/ a[2] # n)
        BY <1>2, AddressParts
    <2>2. stack'[a[1]][a[2]] = stack[a[1]][a[2]]
        BY <2>1 DEF FramesBut
    <2> QED
        BY <2>2 DEF CallStill
<1> QED
    BY <1>1, <1>2

LEMMA FrameStill ==
    ASSUME NEW t \in Threads, NEW n \in Levels, FramesBut(t, n),
           stack[t][n].op # "execute", stack'[t][n].op # "execute", NEW a \in Addresses,
           stack[t][n].op # "run" \/ stack[t][n].cmd # a,
           stack'[t][n].op # "run" \/ stack'[t][n].cmd # a
    PROVE  HeldStill(a) /\ CallStill(a)
<1>1. HeldStill(a) /\ (a # <<t, n>> => CallStill(a))
    BY FramesStill
<1>2. a = <<t, n>> => CallStill(a)
    BY AddressOf DEF CallStill
<1> QED
    BY <1>1, <1>2

LEMMA NoCallUnseen == NoCall.op # "execute" /\ NoCall.op # "run"
BY NoCallFields

---------------------------------------------------------------------------
(* The effects the service does not see *)

\* A new activation has a handle nobody knows, and nothing to call yet.
LEMMA ActivatedUnseen ==
    ASSUME SchedulerInv, NEW t \in Threads, NEW n \in Levels, NEW w \in Slots,
           Activated(t, n, w)
    PROVE  UNCHANGED Service!vars
<1>1. /\ workload[w] = FreeSlot /\ gens \in Nat /\ gens' = gens + 1
      /\ workload[w].gen = 0 /\ ~workload[w].initialized
      /\ workload'[w].gen = gens + 1 /\ ~workload'[w].initialized
      /\ \A v \in Slots : v # w => workload'[v] = workload[v]
    BY BoundsAssumption, FreeSlotFields
    DEF SchedulerInv, CoreInv, TypeOK, HandlesInv, SlotLife, Activated, Available, Pushed, SlotsBut
<1>2. OpenHandles' = OpenHandles
    BY <1>1 DEF OpenHandles
<1>3. ASSUME NEW v \in Slots
      PROVE  workload[v].gen \in 0..gens
    BY <1>1, FreeSlotFields DEF SchedulerInv, HandlesInv, SlotLife
<1>4. ClosedHandles' = ClosedHandles
    <2>1. ASSUME NEW h \in 1..MaxGen
          PROVE  (h <= gens' /\ \A v \in Slots : workload'[v].gen # h)
                    <=> (h <= gens /\ \A v \in Slots : workload[v].gen # h)
        <3>1. h \in Nat /\ h # 0
            OBVIOUS
        <3>2. CASE h = gens + 1
            BY <1>1, <3>1, <3>2
        <3>3. CASE h # gens + 1
            <4>1. h <= gens' <=> h <= gens
                BY <1>1, <3>1, <3>3
            <4>2. \A v \in Slots : workload'[v].gen = h <=> workload[v].gen = h
                BY <1>1, <3>1, <3>3
            <4> QED
                BY <4>1, <4>2
        <3> QED
            BY <3>2, <3>3
    <2> QED
        BY <2>1 DEF ClosedHandles
<1>5. ASSUME NEW a \in Addresses
      PROVE  HeldStill(a) /\ CallStill(a)
    <2>1. /\ FramesBut(t, n) /\ stack[t][n] = NoCall /\ stack'[t][n].op = "activate"
        BY DEF Activated, Pushed
    <2> QED
        BY <2>1, NoCallUnseen, FrameStill
<1> QED
    BY <1>2, <1>4, <1>5, ServiceStill

LEMMA FlagsUnseen ==
    ASSUME NEW w \in Slots, Flags(w), SlotsBut(w)
    PROVE  OpenHandles' = OpenHandles /\ ClosedHandles' = ClosedHandles
BY HandlesStill DEF Flags, Kept, SlotsBut

LEMMA JoinedUnseen ==
    ASSUME NEW t \in Threads, NEW n \in Levels, NEW w \in Slots,
           NEW op \in {"deactivate", "wait"}, Joined(t, n, w, op)
    PROVE  UNCHANGED Service!vars
<1>1. ASSUME NEW a \in Addresses
      PROVE  HeldStill(a) /\ CallStill(a)
    <2>1. /\ FramesBut(t, n) /\ stack[t][n] = NoCall
          /\ stack'[t][n].op # "execute" /\ stack'[t][n].op # "run"
        BY DEF Joined, Pushed
    <2> QED
        BY <2>1, NoCallUnseen, FrameStill
<1>2. OpenHandles' = OpenHandles /\ ClosedHandles' = ClosedHandles
    BY FlagsUnseen DEF Joined, Pushed
<1> QED
    BY <1>1, <1>2, ServiceStill

LEMMA FlaggedUnseen ==
    ASSUME NEW w \in Slots, Flagged(w)
    PROVE  UNCHANGED Service!vars
<1>1. \A a \in Addresses : HeldStill(a) /\ CallStill(a)
    BY DEF Flagged, HeldStill, CallStill
<1>2. OpenHandles' = OpenHandles /\ ClosedHandles' = ClosedHandles
    BY FlagsUnseen DEF Flagged
<1> QED
    BY <1>1, <1>2, ServiceStill

LEMMA QuietUnseen ==
    ASSUME Quiet
    PROVE  UNCHANGED Service!vars
<1>1. \A a \in Addresses : HeldStill(a) /\ CallStill(a)
    BY DEF Quiet, HeldStill, CallStill
<1>2. OpenHandles' = OpenHandles /\ ClosedHandles' = ClosedHandles
    BY HandlesStill DEF Quiet
<1> QED
    BY <1>1, <1>2, ServiceStill

LEMMA MarkedOp ==
    ASSUME TypeOK, NEW u \in Threads, NEW l \in Levels, NEW s,
           stack'[u][l] = [stack[u][l] EXCEPT !.state = s]
    PROVE  stack'[u][l].op = stack[u][l].op /\ stack'[u][l].gen = stack[u][l].gen
           /\ stack'[u][l].cmd = stack[u][l].cmd /\ stack'[u][l].state = s
<1>1. PICK c \in CallType : c = stack[u][l]
    BY DEF TypeOK
<1>2. PICK d : d = [c EXCEPT !.state = s]
    OBVIOUS
<1>3. d.op = c.op /\ d.gen = c.gen /\ d.cmd = c.cmd /\ d.state = s
    BY <1>2 DEF CallType
<1> QED
    BY <1>1, <1>2, <1>3

LEMMA MarkedUnseen ==
    ASSUME SchedulerInv, NEW t \in Threads, NEW n \in Levels, NEW s, Marked(t, n, s)
    PROVE  UNCHANGED Service!vars
<1>0. TypeOK
    BY DEF SchedulerInv, CoreInv
<1>1. stack[t][n].op \in WaitingOps \ {"execute"} /\ stack'[t][n].op = stack[t][n].op
    BY <1>0, MarkedOp DEF Marked
<1>2. ASSUME NEW a \in Addresses
      PROVE  HeldStill(a) /\ CallStill(a)
    BY ZenonT(60), <1>1, OpsDistinct, FrameStill DEF Marked
<1>3. OpenHandles' = OpenHandles /\ ClosedHandles' = ClosedHandles
    BY HandlesStill DEF Marked
<1> QED
    BY <1>2, <1>3, ServiceStill

---------------------------------------------------------------------------
(* The steps of the service *)

\* The request of a becomes what the call of a is now; the others stay.
Requests == [a \in Addresses |-> RequestAt(a)]

LEMMA RequestChanges ==
    ASSUME NEW a \in Addresses, NEW new, RequestAt(a)' = new,
           \A b \in Addresses : b # a => HeldStill(b) /\ CallStill(b)
    PROVE  Requests' = [Requests EXCEPT ![a] = new]
<1>1. \A b \in Addresses : b # a => RequestAt(b)' = RequestAt(b)
    BY RequestStill
<1> QED
    BY <1>1 DEF Requests

LEMMA AskSeen ==
    ASSUME OpenHandles' = OpenHandles, ClosedHandles' = ClosedHandles,
           NEW a \in Addresses, NEW h \in 1..MaxGen, h \in OpenHandles,
           RequestAt(a) = [state |-> "none", handle |-> 0],
           RequestAt(a)' = [state |-> "waiting", handle |-> h],
           \A b \in Addresses : b # a => HeldStill(b) /\ CallStill(b)
    PROVE  Service!Next
<1>1. Requests' = [Requests EXCEPT ![a] = [state |-> "waiting", handle |-> h]]
    BY RequestChanges
<1>2. Service!Ask(a, h)
    BY <1>1 DEF Service!Ask, Service!None, Requests
<1> QED
    BY <1>2 DEF Service!Next

\* A request goes from one state to the next while its workload is open.
LEMMA ServeSeen ==
    ASSUME OpenHandles' = OpenHandles, ClosedHandles' = ClosedHandles,
           NEW a \in Addresses, NEW h \in OpenHandles,
           RequestAt(a) = [state |-> "waiting", handle |-> h],
           RequestAt(a)' = [state |-> "serving", handle |-> h],
           \A b \in Addresses : b # a => HeldStill(b) /\ CallStill(b)
    PROVE  Service!Next
<1>1. Requests' = [Requests EXCEPT ![a] = [state |-> "serving", handle |-> h]]
    BY RequestChanges
<1>2. Requests' = [Requests EXCEPT ![a].state = "serving"]
    <2>1. Requests[a] = [state |-> "waiting", handle |-> h]
        BY DEF Requests
    <2>2. [Requests[a] EXCEPT !.state = "serving"] = [state |-> "serving", handle |-> h]
        BY <2>1
    <2> QED
        BY <1>1, <2>2
<1>3. Service!Serve(a)
    BY <1>2 DEF Service!Serve, Requests
<1> QED
    BY <1>3 DEF Service!Next

LEMMA FinishSeen ==
    ASSUME OpenHandles' = OpenHandles, ClosedHandles' = ClosedHandles,
           NEW a \in Addresses, NEW h \in OpenHandles,
           RequestAt(a) = [state |-> "serving", handle |-> h],
           RequestAt(a)' = [state |-> "served", handle |-> h],
           \A b \in Addresses : b # a => HeldStill(b) /\ CallStill(b)
    PROVE  Service!Next
<1>1. Requests' = [Requests EXCEPT ![a] = [state |-> "served", handle |-> h]]
    BY RequestChanges
<1>2. Requests' = [Requests EXCEPT ![a].state = "served"]
    <2>1. Requests[a] = [state |-> "serving", handle |-> h]
        BY DEF Requests
    <2>2. [Requests[a] EXCEPT !.state = "served"] = [state |-> "served", handle |-> h]
        BY <2>1
    <2> QED
        BY <1>1, <2>2
<1>3. Service!Finish(a)
    BY <1>2 DEF Service!Finish, Requests
<1> QED
    BY <1>3 DEF Service!Next

LEMMA ReturnSeen ==
    ASSUME OpenHandles' = OpenHandles, ClosedHandles' = ClosedHandles,
           NEW a \in Addresses, NEW h,
           \/ RequestAt(a) = [state |-> "served", handle |-> h]
           \/ RequestAt(a) = [state |-> "waiting", handle |-> h] /\ h \in ClosedHandles,
           RequestAt(a)' = [state |-> "none", handle |-> 0],
           \A b \in Addresses : b # a => HeldStill(b) /\ CallStill(b)
    PROVE  Service!Next
<1>1. Requests' = [Requests EXCEPT ![a] = [state |-> "none", handle |-> 0]]
    BY RequestChanges
<1>2. CASE RequestAt(a) = [state |-> "served", handle |-> h]
    <2>1. Service!Succeed(a)
        BY <1>1, <1>2 DEF Service!Succeed, Service!None, Requests
    <2> QED
        BY <2>1 DEF Service!Next
<1>3. CASE RequestAt(a) = [state |-> "waiting", handle |-> h] /\ h \in ClosedHandles
    <2>1. Service!Fail(a)
        BY <1>1, <1>3 DEF Service!Fail, Service!None, Requests
    <2> QED
        BY <2>1 DEF Service!Next
<1> QED
    BY <1>2, <1>3

\* A workload that has been initialised can be called.
LEMMA OpenSlot ==
    ASSUME SchedulerInv, NEW w \in Slots, workload[w].signal \notin {"INACTIVE", "INIT"}
    PROVE  workload[w].gen \in OpenHandles /\ workload[w].gen \in 1..MaxGen
<1>1. workload[w].initialized /\ workload[w].gen \in 1..gens /\ gens \in 0..MaxGen
    BY DEF SchedulerInv, CoreInv, TypeOK, HandlesInv, SlotLife
<1>2. workload[w].gen \in 1..MaxGen
    BY <1>1, BoundsAssumption
<1> QED
    BY <1>1, <1>2 DEF OpenHandles

\* A command that waits, and is held by nobody, is a request that waits.
LEMMA WaitingRequest ==
    ASSUME NEW a \in Addresses, Held(a) = {},
           stack[a[1]][a[2]].op = "execute", stack[a[1]][a[2]].state = "loop"
    PROVE  RequestAt(a) = [state |-> "waiting", handle |-> stack[a[1]][a[2]].gen]
BY DEF RequestAt

LEMMA HeldBy ==
    ASSUME NEW a \in Addresses, NEW t \in Threads, NEW n \in Levels,
           stack[t][n].op = "run", stack[t][n].cmd = a
    PROVE  Held(a) # {}
<1>1. <<t, n>> \in Held(a)
    BY AddressOf DEF Held
<1> QED
    BY <1>1

\* Whoever holds a command holds one that waits for the workload he runs.
LEMMA HeldPending ==
    ASSUME SchedulerInv, NEW a \in Addresses, Held(a) # {}
    PROVE  \E u \in Threads, l \in Levels :
             /\ stack[u][l].op = "run" /\ stack[u][l].cmd = a
             /\ stack[u][l].w \in Slots /\ stack[u][l].phase = "WORK"
             /\ workload[stack[u][l].w].signal # "INACTIVE"
             /\ Pending(stack[u][l].w, a)
<1>1. PICK b \in Addresses : stack[b[1]][b[2]].op = "run" /\ stack[b[1]][b[2]].cmd = a
    BY DEF Held
<1>2. PICK u \in Threads, l \in Levels : u = b[1] /\ l = b[2]
    BY AddressParts
<1>3. /\ stack[u][l].op = "run" /\ stack[u][l].cmd = a /\ a # NoCommand
    BY <1>1, <1>2, AddressParts
<1>4. stack[u][l].w \in Slots
    BY <1>3, CallSlot DEF SchedulerInv, CoreInv
<1>5. Pending(stack[u][l].w, a) /\ workload[stack[u][l].w].signal # "INACTIVE"
    BY <1>3, <1>4 DEF SchedulerInv, CoreInv, CallsInv, NoDanglingCommand, CallbackOnOwner
<1>6. stack[u][l].phase = "WORK"
    BY <1>3 DEF SchedulerInv, HandlesInv, PhaseFits
<1> QED
    BY <1>3, <1>4, <1>5, <1>6

\* execute() asks.
LEMMA AskedSeen ==
    ASSUME SchedulerInv, NEW t \in Threads, NEW n \in Levels, NEW w \in Slots, Asked(t, n, w)
    PROVE  Service!Next
<1>1. PICK a \in Addresses : a = <<t, n>> /\ a[1] = t /\ a[2] = n /\ a # NoCommand
    BY AddressOf
<1>2. /\ FramesBut(t, n) /\ stack[t][n] = NoCall
      /\ stack'[t][n].op = "execute" /\ stack'[t][n].state = "loop"
      /\ stack'[t][n].gen = workload[w].gen
    BY DEF Asked, Pushed, Kept
<1>3. ASSUME NEW b \in Addresses, b # a
      PROVE  HeldStill(b) /\ CallStill(b)
    BY <1>1, <1>2, <1>3, NoCallUnseen, FramesStill
<1>4. Held(a)' = {}
    <2> SUFFICES ASSUME NEW u \in Threads, NEW l \in Levels,
                        stack'[u][l].op = "run", stack'[u][l].cmd = a
                 PROVE  FALSE
        BY AddressParts DEF Held
    <2>1. stack[u][l].cmd = a
        BY <1>2 DEF FramesBut
    <2>2. Pending(stack[u][l].w, a)
        BY <1>1, <2>1 DEF SchedulerInv, CoreInv, CallsInv, NoDanglingCommand
    <2> QED
        BY <1>1, <1>2, <2>2, NoCallUnseen DEF Pending
<1>5. RequestAt(a) = [state |-> "none", handle |-> 0]
    BY <1>1, <1>2, NoCallUnseen DEF RequestAt
<1>6. RequestAt(a)' = [state |-> "waiting", handle |-> workload[w].gen]
    BY <1>1, <1>2, <1>4 DEF RequestAt
<1>7. OpenHandles' = OpenHandles /\ ClosedHandles' = ClosedHandles
    BY HandlesStill DEF Asked, Kept, Pushed, SlotsBut
<1>8. workload[w].gen \in OpenHandles /\ workload[w].gen \in 1..MaxGen
    <2>1. workload[w].signal \notin {"INACTIVE", "INIT"}
        BY DEF Asked, SchedulerInv, HandlesInv, SlotLife
    <2> QED
        BY <2>1, OpenSlot
<1> QED
    BY <1>3, <1>5, <1>6, <1>7, <1>8, AskSeen

\* What is on the stacks when a callback is put on one.
LEMMA EnteredFrames ==
    ASSUME TypeOK, NEW t \in Threads, NEW n \in Levels, NEW w \in Slots, NEW cmd,
           Entered(t, n, w, cmd), NEW u \in Threads, NEW l \in Levels, u # t \/ l # n
    PROVE  /\ stack'[u][l].op = stack[u][l].op
           /\ stack'[u][l].gen = stack[u][l].gen
           /\ stack'[u][l].cmd = stack[u][l].cmd
           /\ stack[u][l].op = "execute" => stack'[u][l].state = stack[u][l].state
<1>1. \/ stack'[u][l] = stack[u][l]
      \/ /\ stack[u][l].op \in WaitingOps \ {"execute"}
         /\ stack'[u][l] = [stack[u][l] EXCEPT !.state = "ran"]
    BY DEF Entered
<1> QED
    BY <1>1, MarkedOp

LEMMA EnteredStill ==
    ASSUME TypeOK, NEW t \in Threads, NEW n \in Levels, NEW w \in Slots, NEW cmd,
           Entered(t, n, w, cmd), NEW a \in Addresses
    PROVE  /\ CallStill(a)
           /\ cmd # a => HeldStill(a)
<1>1. /\ stack[t][n] = NoCall /\ stack'[t][n].op = "run" /\ stack'[t][n].cmd = cmd
    BY DEF Entered
<1>2. CallStill(a)
    <2>1. a[1] \in Threads /\ a[2] \in Levels
        BY AddressParts
    <2>2. CASE a[1] = t /\ a[2] = n
        BY <1>1, <2>2, NoCallUnseen DEF CallStill
    <2>3. CASE ~(a[1] = t /\ a[2] = n)
        BY <2>1, <2>3, EnteredFrames DEF CallStill
    <2> QED
        BY <2>2, <2>3
<1>3. ASSUME cmd # a
      PROVE  HeldStill(a)
    <2> SUFFICES ASSUME NEW u \in Threads, NEW l \in Levels
                 PROVE  (stack'[u][l].op = "run" /\ stack'[u][l].cmd = a)
                            <=> (stack[u][l].op = "run" /\ stack[u][l].cmd = a)
        BY DEF HeldStill
    <2>1. CASE u = t /\ l = n
        BY <1>1, <1>3, <2>1, NoCallUnseen
    <2>2. CASE ~(u = t /\ l = n)
        BY <2>2, EnteredFrames
    <2> QED
        BY <2>1, <2>2
<1> QED
    BY <1>2, <1>3

\* A callback takes a command, or none.
LEMMA EnteredSeen ==
    ASSUME SchedulerInv, NEW t \in Threads, NEW n \in Levels, NEW w \in Slots,
           NEW cmd \in Addresses \cup {NoCommand}, Entered(t, n, w, cmd)
    PROVE  Service!Next \/ UNCHANGED Service!vars
<1>0. TypeOK
    BY DEF SchedulerInv, CoreInv
<1>1. OpenHandles' = OpenHandles /\ ClosedHandles' = ClosedHandles
    BY HandlesStill DEF Entered, Kept, SlotsBut
<1>2. CASE cmd = NoCommand
    <2>1. \A a \in Addresses : HeldStill(a) /\ CallStill(a)
        BY <1>0, <1>2, EnteredStill, AddressParts
    <2> QED
        BY <1>1, <2>1, ServiceStill
<1>3. CASE cmd # NoCommand
    <2>0. PICK a \in Addresses : a = cmd
        BY <1>3
    <2>1. /\ Phase(w) = "WORK" /\ workload[w].queue # <<>> /\ a = Head(workload[w].queue)
        BY <1>3, <2>0 DEF Entered
    <2>2. 1 \in 1..Len(workload[w].queue) /\ a = workload[w].queue[1]
        BY <1>0, <2>1 DEF TypeOK, SlotType
    <2>3. Pending(w, a)
        BY <2>2 DEF SchedulerInv, CoreInv, CallsInv, NoDanglingCommand
    <2>4. Held(a) = {}
        <3> SUFFICES ASSUME NEW u \in Threads, NEW l \in Levels, stack[u][l].cmd = a
                     PROVE  FALSE
            BY AddressParts DEF Held
        <3>1. stack[u][l].cmd # NoCommand
            BY AddressParts
        <3> QED
            BY <2>2, <3>1 DEF SchedulerInv, CoreInv, CallsInv, CommandOnce
    <2>5. RequestAt(a) = [state |-> "waiting", handle |-> workload[w].gen]
        BY <2>3, <2>4, WaitingRequest DEF Pending
    <2>6. RequestAt(a)' = [state |-> "serving", handle |-> workload[w].gen]
        <3>1. <<t, n>> \in Held(a)'
            BY <2>0, AddressOf DEF Entered, Held
        <3>2. stack'[a[1]][a[2]].op = "execute" /\ stack'[a[1]][a[2]].gen = workload[w].gen
            <4>1. CallStill(a)
                BY <1>0, EnteredStill
            <4> QED
                BY <2>3, <4>1 DEF Pending, CallStill
        <3> QED
            BY <3>1, <3>2 DEF RequestAt
    <2>7. workload[w].gen \in OpenHandles
        <3>1. workload[w].signal \notin {"INACTIVE", "INIT"}
            BY <2>1 DEF Entered, Skips, Phase
        <3> QED
            BY <3>1, OpenSlot
    <2>8. \A b \in Addresses : b # a => HeldStill(b) /\ CallStill(b)
        BY <1>0, <2>0, EnteredStill
    <2> QED
        BY <1>1, <2>5, <2>6, <2>7, <2>8, ServeSeen
<1> QED
    BY <1>2, <1>3

\* execute() returns with the answer, or because the workload is gone.
LEMMA ReturnedSeen ==
    ASSUME SchedulerInv, NEW t \in Threads, NEW n \in Levels, Returned(t, n)
    PROVE  Service!Next \/ UNCHANGED Service!vars
<1>1. OpenHandles' = OpenHandles /\ ClosedHandles' = ClosedHandles
    BY HandlesStill DEF Returned, Kept
<1>2. /\ FramesBut(t, n) /\ stack'[t][n] = NoCall
      /\ stack[t][n].op \in WaitingOps /\ stack[t][n].op # "run"
    BY OpsDistinct DEF Returned
<1>3. CASE stack[t][n].op # "execute"
    <2>1. \A a \in Addresses : HeldStill(a) /\ CallStill(a)
        BY <1>2, <1>3, NoCallUnseen, FrameStill
    <2> QED
        BY <1>1, <2>1, ServiceStill
<1>4. CASE stack[t][n].op = "execute"
    <2>1. PICK a \in Addresses : a = <<t, n>> /\ a[1] = t /\ a[2] = n
        BY AddressOf
    <2>2. PICK call : call = stack[t][n]
        OBVIOUS
    <2>3. call.state = "done" \/ workload[call.w].signal = "INACTIVE"
        BY <1>4, <2>2 DEF Returned, Satisfied
    <2>4. call.w \in Slots
        BY <1>4, <2>2, CallSlot DEF SchedulerInv, CoreInv
    <2>5. Held(a) = {}
        <3> SUFFICES ASSUME Held(a) # {} PROVE FALSE
            OBVIOUS
        <3>1. PICK v \in Slots : workload[v].signal # "INACTIVE" /\ Pending(v, a)
            BY HeldPending
        <3> QED
            BY <2>1, <2>2, <2>3, <3>1 DEF Pending
    <2>6. \A b \in Addresses : b # a => HeldStill(b) /\ CallStill(b)
        BY <1>2, <2>1, NoCallUnseen, FramesStill
    <2>7. RequestAt(a)' = [state |-> "none", handle |-> 0]
        BY <1>2, <2>1, NoCallUnseen DEF RequestAt
    <2>8. CASE call.state = "done"
        <3>1. RequestAt(a) = [state |-> "served", handle |-> call.gen]
            BY <1>4, <2>1, <2>2, <2>5, <2>8 DEF RequestAt
        <3> QED
            BY <1>1, <2>6, <2>7, <3>1, ReturnSeen
    <2>9. CASE call.state # "done"
        <3>1. RequestAt(a) = [state |-> "waiting", handle |-> call.gen]
            BY <1>4, <2>1, <2>2, <2>5, <2>9 DEF RequestAt
        <3>2. workload[call.w].gen = 0
            BY <2>3, <2>4, <2>9, FreeSlotFields DEF SchedulerInv, HandlesInv, SlotLife
        <3>3. /\ call.gen \in 1..gens /\ gens \in 0..MaxGen
              /\ \A v \in Slots : workload[v].gen = call.gen => v = call.w
            BY <1>2, <2>2
            DEF SchedulerInv, HandlesInv, HandleNamesSlot, CoreInv, TypeOK
        <3>4. /\ call.gen \in 1..MaxGen /\ call.gen <= gens
              /\ \A v \in Slots : workload[v].gen # call.gen
            BY <3>2, <3>3, BoundsAssumption
        <3>5. call.gen \in ClosedHandles
            BY <3>4 DEF ClosedHandles
        <3> QED
            BY <1>1, <2>6, <2>7, <3>1, <3>5, ReturnSeen
    <2> QED
        BY <2>8, <2>9
<1> QED
    BY <1>3, <1>4

\* free_f closes the workload: none of its callbacks holds a command.
LEMMA FreedSeen ==
    ASSUME SchedulerInv, NEW t \in Threads, NEW n \in Levels, NEW w \in Slots,
           stack[t][n].op = "run", stack[t][n].w = w, stack[t][n].phase = "FREE",
           workload'[w] = FreeSlot, SlotsBut(w), gens' = gens,
           \A a \in Addresses : HeldStill(a) /\ CallStill(a)
    PROVE  Service!Next
<1>1. PICK h : h = workload[w].gen
    OBVIOUS
<1>2. /\ workload[w].signal # "INACTIVE" /\ h \in 1..gens /\ gens \in 0..MaxGen
      /\ \A v \in Slots : workload[v].gen = h => v = w
    BY <1>1 DEF SchedulerInv, HandlesInv, HandleNamesSlot, SlotLife, CoreInv, CallsInv,
                CallbackOnOwner, TypeOK
<1>3. h \in 1..MaxGen /\ h <= gens /\ h # 0
    BY <1>2, BoundsAssumption
<1>4. h \notin ClosedHandles
    BY <1>1 DEF ClosedHandles
<1>5. ~workload'[w].initialized /\ workload'[w].gen = 0
    BY FreeSlotFields
<1>6. OpenHandles' = OpenHandles \ {h}
    <2>1. ASSUME NEW g \in 1..MaxGen
          PROVE  (\E v \in Slots : workload'[v].initialized /\ workload'[v].gen = g)
                    <=> (g # h /\ \E v \in Slots : workload[v].initialized /\ workload[v].gen = g)
        BY <1>1, <1>2, <1>5 DEF SlotsBut
    <2> QED
        BY <2>1 DEF OpenHandles
<1>7. ClosedHandles' = ClosedHandles \cup {h}
    <2>1. ASSUME NEW g \in 1..MaxGen
          PROVE  (\A v \in Slots : workload'[v].gen # g)
                    <=> (g = h \/ \A v \in Slots : workload[v].gen # g)
        <3>1. g # 0
            OBVIOUS
        <3> QED
            BY <1>1, <1>2, <1>5, <3>1 DEF SlotsBut
    <2>2. \A g : g \in ClosedHandles' <=> (g \in ClosedHandles \/ g = h)
        BY <1>3, <2>1 DEF ClosedHandles
    <2> QED
        BY <2>2
<1>8. ASSUME NEW a \in Addresses, RequestAt(a).handle = h
      PROVE  RequestAt(a).state # "serving"
    <2> SUFFICES ASSUME RequestAt(a).state = "serving" PROVE FALSE
        OBVIOUS
    <2>1. Held(a) # {} /\ stack[a[1]][a[2]].gen = h
        BY <1>8 DEF RequestAt
    <2>2. PICK u \in Threads, l \in Levels :
            /\ stack[u][l].op = "run" /\ stack[u][l].w \in Slots
            /\ stack[u][l].phase = "WORK" /\ Pending(stack[u][l].w, a)
        BY <2>1, HeldPending
    <2>3. stack[u][l].w = w
        BY <1>2, <2>1, <2>2 DEF Pending
    <2>4. u = t /\ l = n
        BY <2>2, <2>3 DEF SchedulerInv, CoreInv, CallsInv, FreeIsLast
    <2> QED
        BY <2>2, <2>4
<1>9. \A a \in Addresses : RequestAt(a)' = RequestAt(a)
    BY RequestStill
<1>10. Service!Close(h)
    BY <1>4, <1>6, <1>7, <1>8, <1>9 DEF Service!Close
<1> QED
    BY <1>3, <1>10 DEF Service!Next

\* init_f opens the workload.
LEMMA OpenedSeen ==
    ASSUME SchedulerInv, NEW t \in Threads, NEW n \in Levels, NEW w \in Slots,
           stack[t][n].op = "run", stack[t][n].w = w,
           workload'[w].initialized, workload'[w].gen = workload[w].gen,
           SlotsBut(w), gens' = gens,
           \A a \in Addresses : HeldStill(a) /\ CallStill(a)
    PROVE  Service!Next \/ UNCHANGED Service!vars
<1>1. PICK h : h = workload[w].gen
    OBVIOUS
<1>2. /\ workload[w].signal # "INACTIVE" /\ h \in 1..gens /\ gens \in 0..MaxGen
      /\ \A v \in Slots : workload[v].gen = h => v = w
    BY <1>1 DEF SchedulerInv, HandlesInv, HandleNamesSlot, SlotLife, CoreInv, CallsInv,
                CallbackOnOwner, TypeOK
<1>3. h \in 1..MaxGen
    BY <1>2, BoundsAssumption
<1>4. ClosedHandles' = ClosedHandles
    BY DEF ClosedHandles, SlotsBut
<1>5. \A a \in Addresses : RequestAt(a)' = RequestAt(a)
    BY RequestStill
<1>6. OpenHandles' = OpenHandles \cup {h}
    <2>1. ASSUME NEW g \in 1..MaxGen
          PROVE  (\E v \in Slots : workload'[v].initialized /\ workload'[v].gen = g)
                    <=> (g = h \/ \E v \in Slots : workload[v].initialized /\ workload[v].gen = g)
        BY <1>1, <1>2 DEF SlotsBut
    <2>2. \A g : g \in OpenHandles' <=> (g \in OpenHandles \/ g = h)
        BY <1>3, <2>1 DEF OpenHandles
    <2> QED
        BY <2>2
<1>7. CASE h \in OpenHandles
    <2>1. OpenHandles' = OpenHandles
        BY <1>6, <1>7
    <2> QED
        BY <1>4, <2>1, ServiceStill
<1>8. CASE h \notin OpenHandles
    <2>1. h \notin ClosedHandles
        BY <1>1 DEF ClosedHandles
    <2>2. Service!Open(h)
        BY <1>4, <1>5, <1>6, <1>8, <2>1 DEF Service!Open
    <2> QED
        BY <1>3, <2>2 DEF Service!Next
<1> QED
    BY <1>7, <1>8

\* What is left of the stacks when a callback ends.
LEMMA EndedStill ==
    ASSUME TypeOK, NEW t \in Threads, NEW n \in Levels, NEW w \in Slots, NEW r,
           Ended(t, n, w, r), NEW a \in Addresses, stack[t][n].cmd # a
    PROVE  HeldStill(a) /\ CallStill(a)
<1>1. stack[t][n].op = "run" /\ stack'[t][n] = NoCall
    BY DEF Ended
<1>2. ASSUME NEW u \in Threads, NEW l \in Levels, u # t \/ l # n
      PROVE  /\ stack'[u][l].op = stack[u][l].op
             /\ stack'[u][l].gen = stack[u][l].gen
             /\ stack'[u][l].cmd = stack[u][l].cmd
             /\ stack[t][n].cmd # <<u, l>> => stack'[u][l].state = stack[u][l].state
    <2>1. CASE stack[t][n].cmd = <<u, l>>
        <3>1. stack'[u][l] = [stack[u][l] EXCEPT !.state = "done"]
            BY <1>2, <2>1 DEF Ended
        <3> QED
            BY <2>1, <3>1, MarkedOp
    <2>2. CASE stack[t][n].cmd # <<u, l>>
        <3>1. stack'[u][l] = stack[u][l]
            BY <1>2, <2>2 DEF Ended
        <3> QED
            BY <3>1
    <2> QED
        BY <2>1, <2>2
<1>3. HeldStill(a)
    <2> SUFFICES ASSUME NEW u \in Threads, NEW l \in Levels
                 PROVE  (stack'[u][l].op = "run" /\ stack'[u][l].cmd = a)
                            <=> (stack[u][l].op = "run" /\ stack[u][l].cmd = a)
        BY DEF HeldStill
    <2>1. CASE u = t /\ l = n
        BY <1>1, <2>1, NoCallUnseen
    <2>2. CASE ~(u = t /\ l = n)
        BY <1>2, <2>2
    <2> QED
        BY <2>1, <2>2
<1>4. CallStill(a)
    <2>1. a[1] \in Threads /\ a[2] \in Levels /\ stack[t][n].cmd # <<a[1], a[2]>>
        BY AddressParts
    <2>2. CASE a[1] = t /\ a[2] = n
        BY <1>1, <2>2, NoCallUnseen DEF CallStill
    <2>3. CASE ~(a[1] = t /\ a[2] = n)
        BY <1>2, <2>1, <2>3 DEF CallStill
    <2> QED
        BY <2>2, <2>3
<1> QED
    BY <1>3, <1>4

\* runCommand_f answers.
LEMMA AnsweredSeen ==
    ASSUME SchedulerInv, NEW t \in Threads, NEW n \in Levels, NEW w \in Slots, NEW r,
           Ended(t, n, w, r), NEW a \in Addresses, stack[t][n].cmd = a,
           stack[t][n].phase = "WORK",
           OpenHandles' = OpenHandles, ClosedHandles' = ClosedHandles
    PROVE  Service!Next
<1>0. TypeOK
    BY DEF SchedulerInv, CoreInv
<1>1. /\ stack[t][n].op = "run" /\ stack[t][n].w = w /\ stack'[t][n] = NoCall
    BY DEF Ended
<1>2. Pending(w, a) /\ a # NoCommand
    BY <1>1, AddressParts DEF SchedulerInv, CoreInv, CallsInv, NoDanglingCommand
<1>3. RequestAt(a) = [state |-> "serving", handle |-> workload[w].gen]
    BY <1>1, <1>2, HeldBy DEF RequestAt, Pending
<1>4. /\ stack'[a[1]][a[2]].op = "execute" /\ stack'[a[1]][a[2]].state = "done"
      /\ stack'[a[1]][a[2]].gen = workload[w].gen
    <2>1. PICK u \in Threads, l \in Levels : u = a[1] /\ l = a[2] /\ a = <<u, l>>
        BY AddressParts
    <2>2. stack[u][l].op = "execute" /\ stack[u][l].gen = workload[w].gen
        BY <1>2, <2>1 DEF Pending
    <2>3. ~(u = t /\ l = n)
        BY <1>1, <2>2
    <2>4. stack'[u][l] = [stack[u][l] EXCEPT !.state = "done"]
        BY <2>1, <2>3 DEF Ended
    <2> QED
        BY SMTT(40), <1>0, <2>1, <2>2, <2>4, MarkedOp
<1>5. Held(a)' = {}
    <2> SUFFICES ASSUME NEW u \in Threads, NEW l \in Levels,
                        stack'[u][l].op = "run", stack'[u][l].cmd = a
                 PROVE  FALSE
        BY AddressParts DEF Held
    <2>1. ~(u = t /\ l = n)
        BY <1>1, NoCallUnseen
    <2>2. stack[u][l].cmd = a
        <3>1. CASE stack'[u][l] = stack[u][l]
            BY <3>1
        <3>2. CASE stack'[u][l] = [stack[u][l] EXCEPT !.state = "done"]
            BY <1>0, <3>2, MarkedOp
        <3> QED
            BY <2>1, <3>1, <3>2 DEF Ended
    <2> QED
        BY <1>2, <2>1, <2>2 DEF SchedulerInv, CoreInv, CallsInv, CommandOnce
<1>6. RequestAt(a)' = [state |-> "served", handle |-> workload[w].gen]
    BY <1>4, <1>5 DEF RequestAt
<1>7. workload[w].gen \in OpenHandles
    <2>1. workload[w].signal \notin {"INACTIVE", "INIT"}
        BY <1>1 DEF SchedulerInv, HandlesInv, PhaseFits, CoreInv, CallsInv, CallbackOnOwner
    <2> QED
        BY <2>1, OpenSlot
<1>8. \A b \in Addresses : b # a => HeldStill(b) /\ CallStill(b)
    BY <1>0, EndedStill
<1> QED
    BY <1>3, <1>6, <1>7, <1>8, FinishSeen

LEMMA EndedSeen ==
    ASSUME SchedulerInv, NEW t \in Threads, NEW n \in Levels, NEW w \in Slots,
           NEW r \in Results \cup {"OK"}, Ended(t, n, w, r)
    PROVE  Service!Next \/ UNCHANGED Service!vars
<1>0. TypeOK /\ CoreInv /\ PhaseFits
    BY DEF SchedulerInv, CoreInv, HandlesInv
<1>1. PICK phase : phase = stack[t][n].phase
    OBVIOUS
<1>2. /\ workload[w] \in SlotType /\ phase \in {"INIT", "WORK", "FREE"}
      /\ workload'[w] = Outcome(workload[w], phase, r)
    BY <1>0, <1>1, EndedSlot
<1>3. /\ stack[t][n].op = "run" /\ stack[t][n].w = w /\ SlotsBut(w) /\ gens' = gens
      /\ stack[t][n].cmd \in Addresses \cup {NoCommand}
      /\ stack[t][n].cmd # NoCommand => phase = "WORK"
    <2>1. stack[t][n].op = "run" /\ stack[t][n].w = w /\ SlotsBut(w) /\ gens' = gens
        BY DEF Ended
    <2>2. stack[t][n] \in CallType
        BY <1>0 DEF TypeOK
    <2>3. stack[t][n].cmd \in Addresses \cup {NoCommand}
        BY <2>2 DEF CallType
    <2>4. stack[t][n].cmd # NoCommand => phase = "WORK"
        BY <1>0, <1>1, <2>1 DEF PhaseFits
    <2> QED
        BY <2>1, <2>3, <2>4
<1>4. stack[t][n].cmd = NoCommand => \A a \in Addresses : HeldStill(a) /\ CallStill(a)
    BY <1>0, EndedStill, AddressParts
<1>5. CASE phase = "FREE"
    <2>1. workload'[w] = FreeSlot
        BY <1>2, <1>5, OutcomeFields
    <2> QED
        BY <1>1, <1>3, <1>4, <1>5, <2>1, FreedSeen
<1>6. CASE phase = "INIT"
    <2>1. workload'[w].initialized /\ workload'[w].gen = workload[w].gen
        BY <1>2, <1>6, OutcomeFields
    <2> QED
        BY <1>3, <1>4, <1>6, <2>1, OpenedSeen
<1>7. CASE phase = "WORK"
    <2>1. workload'[w].initialized = workload[w].initialized /\ workload'[w].gen = workload[w].gen
        BY <1>2, <1>7, OutcomeFields
    <2>2. OpenHandles' = OpenHandles /\ ClosedHandles' = ClosedHandles
        BY <1>3, <2>1, HandlesStill DEF SlotsBut
    <2>3. CASE stack[t][n].cmd = NoCommand
        BY <1>4, <2>2, <2>3, ServiceStill
    <2>4. CASE stack[t][n].cmd # NoCommand
        BY <1>1, <1>3, <1>7, <2>2, <2>4, AnsweredSeen
    <2> QED
        BY <2>3, <2>4
<1> QED
    BY <1>2, <1>5, <1>6, <1>7

---------------------------------------------------------------------------
(* The refinement *)

LEMMA ServiceInit == Init => Service!Init
<1> SUFFICES ASSUME Init PROVE Service!Init
    OBVIOUS
<1>1. /\ \A t \in Threads, l \in Levels : stack[t][l] = NoCall
      /\ \A w \in Slots : workload[w] = FreeSlot
      /\ gens = 0
    BY DEF Init
<1>2. OpenHandles = {} /\ ClosedHandles = {}
    BY <1>1, FreeSlotFields DEF OpenHandles, ClosedHandles
<1>3. \A a \in Addresses : RequestAt(a) = [state |-> "none", handle |-> 0]
    BY <1>1, AddressParts, NoCallUnseen DEF RequestAt
<1> QED
    BY <1>2, <1>3 DEF Service!Init, Service!None

LEMMA ServiceStep == SchedulerInv /\ [Next]_vars => [Service!Next]_(Service!vars)
<1> SUFFICES ASSUME SchedulerInv, [Next]_vars
             PROVE  Service!Next \/ UNCHANGED Service!vars
    OBVIOUS
<1>1. Effect
    BY StepHasEffect DEF SchedulerInv, ShutdownInv
<1>2. CASE CallEffect
    BY <1>2, ActivatedUnseen, AskedSeen, JoinedUnseen, EnteredSeen DEF CallEffect
<1>3. CASE ReturnEffect
    BY <1>3, MarkedUnseen, ReturnedSeen, EndedSeen DEF ReturnEffect
<1>4. CASE \E w \in Slots : Flagged(w)
    BY <1>4, FlaggedUnseen
<1>5. CASE Quiet
    BY <1>5, QuietUnseen
<1> QED
    BY <1>1, <1>2, <1>3, <1>4, <1>5 DEF Effect

\* The scheduler implements the command service, for any number of threads, slots, nested calls
\* and activations.
THEOREM SchedulerImplementsService == Spec => ImplementsService
BY ServiceInit, ServiceStep, SchedulerInvariant, PTL DEF Spec, ImplementsService, Service!Spec
==============================================================================
