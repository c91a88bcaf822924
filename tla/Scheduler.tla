----------------------------- MODULE Scheduler -----------------------------
(***************************************************************************)
(* The workload scheduler of nh-core (src/lib/nh-core/System/Thread.c).    *)
(*                                                                         *)
(* A process-wide table of workload slots is served by the main thread and *)
(* by NumWorkers native workers.  One mutex protects the table and the     *)
(* command queues; one condition variable announces every change.  User    *)
(* callbacks (init_f, run_f, runCommand_f, free_f) run outside the lock,   *)
(* and may call the scheduler again, so a thread is a stack of calls.      *)
(*                                                                         *)
(* Each action below is one critical section of the code.                  *)
(***************************************************************************)
EXTENDS Naturals, Sequences

CONSTANTS
    NumWorkers, \* native workers, threads 1..NumWorkers; thread 0 is main
    Apps,       \* threads of the application that are not in the pool
    NoThread,   \* NH_CURRENT_THREAD of such a thread, Thread_p of a free slot
    NumSlots,   \* NH_MAX_WORKLOADS
    MaxDepth,   \* bound: calls nested on one thread
    MaxGen,     \* bound: activations in a behaviour
    Calls,      \* the calls the application makes: <<operation, caller, owner>>
    Results     \* the signals run_f and runCommand_f return

Main == 0
Workers == 1..NumWorkers
Registered == 0..NumWorkers
Threads == Registered \cup Apps
Slots == 1..NumSlots
Levels == 1..MaxDepth
Operations == {"activate", "execute", "deactivate", "poll", "wait"}

ASSUME BoundsAssumption ==
    /\ NumWorkers \in Nat
    /\ NumSlots \in Nat \ {0}
    /\ MaxDepth \in Nat
    /\ MaxGen \in Nat
ASSUME ThreadsAssumption ==
    /\ Apps \cap Registered = {}
    /\ NoThread \notin Threads
ASSUME CallsAssumption == Calls \subseteq Operations \X Threads \X Registered
ASSUME ResultsAssumption == Results \subseteq {"OK", "IDLE", "FINISH", "ERROR"}

VARIABLES
    workload,   \* Workloads_p: the slots
    stack,      \* the calls in progress of each thread
    depth,      \* how many there are
    asleep,     \* the threads inside waitForChange()
    pc,         \* where a thread is when no call of its own is in progress
    pos,        \* the slot or worker its loop has reached
    pool,       \* the flags of nh_core_ThreadPool
    gens        \* activations so far

vars == <<workload, stack, depth, asleep, pc, pos, pool, gens>>

---------------------------------------------------------------------------
(* The workload table *)

\* A command lies on the stack of the thread that waits for it: its address is
\* the place of the execute() call.
Addresses == Threads \X Levels
NoCommand == <<>>

\* memset(workload, 0), signal = NH_SIGNAL_INACTIVE
FreeSlot == [signal |-> "INACTIVE", owner |-> NoThread, initialized |-> FALSE,
             activating |-> FALSE, deactivate |-> FALSE, queue |-> <<>>, gen |-> 0]

\* The calls that wait, and are counted in workload->waiters meanwhile.
WaitingOps == {"activate", "execute", "deactivate", "wait"}

NoCall == [op |-> "none", w |-> 0, gen |-> 0, phase |-> "", cmd |-> NoCommand, state |-> ""]

\* A runWorkload() between its two critical sections: a callback is executing.
RunCall(w, phase, cmd) ==
    [NoCall EXCEPT !.op = "run", !.w = w, !.gen = workload[w].gen, !.phase = phase, !.cmd = cmd]

\* A call that waits for slot w: execute() and the calls of waitForCompletion().
WaitingCall(op, w, gen, state) ==
    [NoCall EXCEPT !.op = op, !.w = w, !.gen = gen, !.state = state]

Top(t) == stack[t][depth[t]]

Push(t, call) ==
    /\ depth[t] < MaxDepth
    /\ depth' = [depth EXCEPT ![t] = @ + 1]
    /\ stack' = [stack EXCEPT ![t][depth[t] + 1] = call]

Pop(t) ==
    /\ depth' = [depth EXCEPT ![t] = @ - 1]
    /\ stack' = [stack EXCEPT ![t][depth[t]] = NoCall]

\* NH_CURRENT_THREAD
Current(t) == IF t \in Registered THEN t ELSE NoThread

Own(t, w) == workload[w].owner = Current(t)

\* workload->running, which ++ and -- bracket the callback of: is it nonzero?
Running(w) == \E t \in Threads, l \in Levels : stack[t][l].op = "run" /\ stack[t][l].w = w

\* workload->waiters, which ++ and -- bracket every waiting call: is it nonzero?
\* Mutant: execute() does not count itself.
WaitersWithoutExecute(w) ==
    \E t \in Threads, l \in Levels :
        stack[t][l].op \in {"activate", "deactivate", "wait"} /\ stack[t][l].w = w
Waiters(w) ==
    \E t \in Threads, l \in Levels :
        stack[t][l].op \in WaitingOps /\ stack[t][l].w = w

\* wake(): the condition variable is broadcast.
\* Mutant: it is signalled, one thread wakes up.
WakeOne == IF asleep = {} THEN asleep' = {} ELSE \E t \in asleep : asleep' = asleep \ {t}
Wake == asleep' = {}

---------------------------------------------------------------------------
(* runWorkload() *)

\* The phase runWorkload() picks: initialise, free, or work (run_f or a command).
\* Mutant: a callback in progress does not defer free_f.
PhaseWhileRunning(w) ==
    IF workload[w].deactivate THEN "FREE"
    ELSE IF workload[w].signal = "INIT" THEN "INIT" ELSE "WORK"
Phase(w) ==
    IF workload[w].deactivate /\ ~Running(w) THEN "FREE"
    ELSE IF workload[w].signal = "INIT" THEN "INIT" ELSE "WORK"

\* The early returns of the first critical section.
\* Mutants: the workload is run by whoever comes by; an activation is not waited for.
SkipsNoOwner(t, w) ==
    \/ workload[w].signal = "INACTIVE"
    \/ workload[w].activating /\ workload[w].signal # "INIT"
SkipsWithoutActivating(t, w) ==
    \/ ~Own(t, w)
    \/ workload[w].signal = "INACTIVE"
Skips(t, w) ==
    \/ ~Own(t, w)
    \/ workload[w].signal = "INACTIVE"
    \/ workload[w].activating /\ workload[w].signal # "INIT"

\* First critical section: pick the phase, take the oldest command, enter the
\* callback.  calls is the stack of t the callback is put on.
EnterCallback(t, w, calls) ==
    LET takes == Phase(w) = "WORK" /\ workload[w].queue # <<>>
        cmd   == IF takes THEN Head(workload[w].queue) ELSE NoCommand
    IN  /\ ~Skips(t, w)
        /\ depth[t] < MaxDepth
        /\ depth' = [depth EXCEPT ![t] = @ + 1]
        /\ stack' = [stack EXCEPT ![t] =
                        [calls EXCEPT ![depth[t] + 1] = RunCall(w, Phase(w), cmd)]]
        /\ workload' = IF takes THEN [workload EXCEPT ![w].queue = Tail(@)] ELSE workload

\* The slot after the callback returned r.
Outcome(slot, phase, r) ==
    IF phase = "INIT" THEN [slot EXCEPT !.signal = "DONE", !.initialized = TRUE]
    ELSE IF phase = "FREE" THEN FreeSlot
    ELSE [slot EXCEPT !.signal = r, !.deactivate = @ \/ r \in {"FINISH", "ERROR"}]

\* nh_core_run() returns to its caller, or goes on with the next slot.
LeaveRun(t) ==
    /\ pc' = [pc EXCEPT ![t] = IF t = Main THEN "user" ELSE "loop"]
    /\ pos' = [pos EXCEPT ![t] = 1]
\* Mutant: a slot of another thread ends the pass.
NextSlotBreaks(t) == LeaveRun(t)
NextSlot(t) ==
    IF pos[t] = NumSlots THEN LeaveRun(t)
    ELSE pos' = [pos EXCEPT ![t] = @ + 1] /\ UNCHANGED pc

\* Second critical section: the callback returns r; its command is done; everyone is
\* woken.  An ERROR ends the pass of nh_core_run() the callback was called from.
EndRunOf(t, r) ==
    LET call == Top(t) IN
    /\ depth[t] > 0
    /\ call.op = "run"
    /\ call.phase # "WORK" => r = "OK"
    /\ workload' = [workload EXCEPT ![call.w] = Outcome(@, call.phase, r)]
    /\ depth' = [depth EXCEPT ![t] = @ - 1]
    /\ stack' = IF call.cmd = NoCommand
                THEN [stack EXCEPT ![t][depth[t]] = NoCall]
                ELSE [stack EXCEPT ![t][depth[t]] = NoCall,
                                   ![call.cmd[1]][call.cmd[2]].state = "done"]
    /\ pool' = [pool EXCEPT !.failed = @ \/ r = "ERROR"]
    /\ Wake
    /\ IF depth[t] = 1 /\ pc[t] = "run"
       THEN IF r = "ERROR" THEN LeaveRun(t) ELSE NextSlot(t)
       ELSE UNCHANGED <<pc, pos>>
    /\ UNCHANGED gens

EndRun(t) == \E r \in Results \cup {"OK"} : EndRunOf(t, r)

---------------------------------------------------------------------------
(* nh_core_run(), runThread() *)

\* nh_core_run() at slot pos[t].  That the slot is assigned to t is stable once
\* read, so the two critical sections (139-144, 61-85) are one step.
Visit(t) ==
    /\ pc[t] = "run"
    /\ depth[t] = 0
    /\ \/ /\ EnterCallback(t, pos[t], stack[t])
          /\ UNCHANGED <<pc, pos>>
       \/ /\ Skips(t, pos[t])
          /\ NextSlot(t)
          /\ UNCHANGED <<workload, stack, depth>>
    /\ UNCHANGED <<asleep, pool, gens>>

\* One turn of the worker loop: stop, or call nh_core_run().
\* Mutant: the worker stops as soon as the pool closes.
WorkerTurnClosing(t) ==
    /\ t \in Workers
    /\ pc[t] = "loop"
    /\ pc' = [pc EXCEPT ![t] = IF pool.closing THEN "exited" ELSE "run"]
    /\ UNCHANGED <<workload, stack, depth, asleep, pos, pool, gens>>
WorkerTurn(t) ==
    /\ t \in Workers
    /\ pc[t] = "loop"
    /\ pc' = [pc EXCEPT ![t] = IF pool.stopping THEN "exited" ELSE "run"]
    /\ UNCHANGED <<workload, stack, depth, asleep, pos, pool, gens>>

\* The application calls nh_core_run() on main.
MainRun ==
    /\ pc[Main] = "user"
    /\ depth[Main] = 0
    /\ pc' = [pc EXCEPT ![Main] = "run"]
    /\ pos' = [pos EXCEPT ![Main] = 1]
    /\ UNCHANGED <<workload, stack, depth, asleep, pool, gens>>

---------------------------------------------------------------------------
(* The calls of the application *)

\* t executes application code: in a callback, or outside of the scheduler.
InApplication(t) ==
    IF depth[t] > 0 THEN Top(t).op = "run"
    ELSE pc[t] = "user" /\ pc[Main] # "boot"

\* ... and calls op for a workload of thread u.  A waiting call may run a
\* callback in turn: both must fit below the bound.
MayCall(op, t, u) ==
    /\ InApplication(t)
    /\ <<op, t, u>> \in Calls
    /\ depth[t] + 2 <= MaxDepth

\* nh_core_assignToThread()
AssignedTo(thread) == IF pool.threadCount = 0 THEN Main ELSE thread

Available(w) == workload[w].signal = "INACTIVE" /\ ~Waiters(w)

\* Is the pool there for a workload on this thread?
\* Mutant: it still is while it is being shut down.
AcceptsWhileClosing(thread) ==
    /\ pool.ready
    /\ ~pool.failed
    /\ pool.threadCount > 0 => thread <= pool.threadCount
Accepts(thread) ==
    /\ pool.ready
    /\ ~pool.closing
    /\ ~pool.failed
    /\ pool.threadCount > 0 => thread <= pool.threadCount

\* nh_core_activateWorkload() up to its wait: the first slot nobody uses.  A
\* refused call (386-372) changes nothing.
Activate(t, thread) ==
    /\ MayCall("activate", t, AssignedTo(thread))
    /\ Accepts(thread)
    /\ gens < MaxGen
    /\ gens' = gens + 1
    /\ \E w \in Slots :
        /\ Available(w)
        /\ \A v \in 1..(w - 1) : ~Available(v)
        /\ workload' = [workload EXCEPT ![w].signal = "INIT", ![w].activating = TRUE,
                                        ![w].owner = AssignedTo(thread), ![w].gen = gens']
        /\ Push(t, WaitingCall("activate", w, gens', "enter"))
    /\ Wake
    /\ UNCHANGED <<pc, pos, pool>>

\* findWorkload(): the initialised slot of a handle.  A handle names one
\* activation; it stays with its caller after the slot was freed.
\* Mutant: the slot need not be initialised.
IsWorkloadEarly(w, handle) ==
    /\ workload[w].signal # "INACTIVE"
    /\ workload[w].gen = handle
IsWorkload(w, handle) ==
    /\ workload[w].signal # "INACTIVE"
    /\ workload[w].initialized
    /\ workload[w].gen = handle

\* execute() up to its first wait: append the command.  On the thread of the
\* workload the caller does not sleep, it runs the workload itself.
Execute(t, w, handle) ==
    /\ MayCall("execute", t, workload[w].owner)
    /\ IsWorkload(w, handle)
    /\ ~workload[w].deactivate
    /\ workload' = [workload EXCEPT ![w].queue = Append(@, <<t, depth[t] + 1>>)]
    /\ Push(t, WaitingCall("execute", w, handle, "loop"))
    /\ asleep' = IF Own(t, w) THEN {} ELSE {t}
    /\ UNCHANGED <<pc, pos, pool, gens>>

\* nh_core_deactivateWorkload() up to its wait.
\* Mutant: no caller waits while a callback is in progress.
DeactivateSlotEarly(t, w) ==
    /\ workload[w].signal # "INACTIVE"
    /\ workload' = [workload EXCEPT ![w].deactivate = TRUE]
    /\ IF Running(w)
       THEN UNCHANGED <<stack, depth, asleep>>
       ELSE /\ Push(t, WaitingCall("deactivate", w, workload[w].gen, "enter"))
            /\ Wake
DeactivateSlot(t, w) ==
    /\ workload[w].signal # "INACTIVE"
    /\ workload' = [workload EXCEPT ![w].deactivate = TRUE]
    /\ IF Own(t, w) /\ Running(w)
       THEN UNCHANGED <<stack, depth, asleep>>
       ELSE /\ Push(t, WaitingCall("deactivate", w, workload[w].gen, "enter"))
            /\ Wake

\* The application deactivates what nh_core_getWorkload() found.
Deactivate(t, w) ==
    /\ MayCall("deactivate", t, workload[w].owner)
    /\ IsWorkload(w, workload[w].gen)
    /\ DeactivateSlot(t, w)
    /\ UNCHANGED <<pc, pos, pool, gens>>

\* A callback below free_f of a workload does not run that workload again.
FreedBy(t, w) == \E l \in Levels : /\ stack[t][l].op = "run"
                                   /\ stack[t][l].phase = "FREE"
                                   /\ stack[t][l].w = w

\* nh_core_runOrSleep() on the workload's own thread; elsewhere it only sleeps.
RunOrSleep(t, w) ==
    /\ MayCall("poll", t, workload[w].owner)
    /\ IsWorkload(w, workload[w].gen)
    /\ ~FreedBy(t, w)
    /\ EnterCallback(t, w, stack[t])
    /\ UNCHANGED <<asleep, pc, pos, pool, gens>>

\* nh_core_waitForCompletion(w, NH_SIGNAL_OK), as the application calls it.
WaitForCompletion(t, w) ==
    /\ MayCall("wait", t, workload[w].owner)
    /\ IsWorkload(w, workload[w].gen)
    /\ ~FreedBy(t, w)
    /\ Push(t, WaitingCall("wait", w, workload[w].gen, "enter"))
    /\ UNCHANGED <<workload, asleep, pc, pos, pool, gens>>

---------------------------------------------------------------------------
(* Waiting: nh_core_waitForCompletion() and the loop of execute() *)

\* What a call waits for when the workload runs on another thread.
\* Mutants: execute() gives up on a workload that is going to be freed; it does not give up.
SatisfiedWhenDeactivated(call) ==
    LET slot == workload[call.w] IN
    \/ call.op = "activate" /\ slot.initialized
    \/ call.op = "deactivate" /\ slot.signal = "INACTIVE"
    \/ call.op = "wait" /\ slot.signal = "OK"
    \/ call.op = "execute" /\ (call.state = "done" \/ slot.deactivate)
SatisfiedByDone(call) ==
    LET slot == workload[call.w] IN
    \/ call.op = "activate" /\ slot.initialized
    \/ call.op = "deactivate" /\ slot.signal = "INACTIVE"
    \/ call.op = "wait" /\ slot.signal = "OK"
    \/ call.op = "execute" /\ call.state = "done"
Satisfied(call) ==
    LET slot == workload[call.w] IN
    \/ call.op = "activate" /\ slot.initialized
    \/ call.op = "deactivate" /\ slot.signal = "INACTIVE"
    \/ call.op = "wait" /\ slot.signal = "OK"
    \/ call.op = "execute" /\ (call.state = "done" \/ slot.signal = "INACTIVE")

IsWaiting(t) ==
    /\ depth[t] > 0
    /\ Top(t).op \in WaitingOps
    /\ t \notin asleep

\* The call returns; an activation lets the owner go on with the workload.
Return(t) ==
    /\ Pop(t)
    /\ workload' = IF Top(t).op = "activate"
                   THEN [workload EXCEPT ![Top(t).w].activating = FALSE]
                   ELSE workload
    /\ UNCHANGED <<asleep, pc, pos, pool, gens>>

\* waitForCompletion() on the workload's own thread: one runWorkload().
EnterOwn(t) ==
    /\ IsWaiting(t)
    /\ Top(t).op # "execute"
    /\ Top(t).state = "enter"
    /\ Own(t, Top(t).w)
    /\ LET ran == [stack[t] EXCEPT ![depth[t]].state = "ran"] IN
       IF Skips(t, Top(t).w)
       THEN stack' = [stack EXCEPT ![t] = ran] /\ UNCHANGED <<workload, depth>>
       ELSE EnterCallback(t, Top(t).w, ran)
    /\ UNCHANGED <<asleep, pc, pos, pool, gens>>

ReturnRan(t) ==
    /\ IsWaiting(t)
    /\ Top(t).op # "execute"
    /\ Top(t).state = "ran"
    /\ Return(t)

\* waitForCompletion() on another thread: test the condition, sleep or return.
WaitOther(t) ==
    /\ IsWaiting(t)
    /\ Top(t).op # "execute"
    /\ \/ Top(t).state = "enter" /\ ~Own(t, Top(t).w)
       \/ Top(t).state = "loop"
    /\ \/ Satisfied(Top(t)) /\ Return(t)
       \/ /\ ~Satisfied(Top(t))
          /\ stack' = [stack EXCEPT ![t][depth[t]].state = "loop"]
          /\ asleep' = asleep \cup {t}
          /\ UNCHANGED <<workload, depth, pc, pos, pool, gens>>

\* The loop of execute(): return, run the own workload, or sleep.
ExecuteLoop(t) ==
    /\ IsWaiting(t)
    /\ Top(t).op = "execute"
    /\ \/ Satisfied(Top(t)) /\ Return(t)
       \/ /\ ~Satisfied(Top(t))
          /\ Own(t, Top(t).w)
          /\ EnterCallback(t, Top(t).w, stack[t])
          /\ UNCHANGED <<asleep, pc, pos, pool, gens>>
       \/ /\ ~Satisfied(Top(t))
          /\ ~Own(t, Top(t).w)
          /\ asleep' = asleep \cup {t}
          /\ UNCHANGED <<workload, stack, depth, pc, pos, pool, gens>>

---------------------------------------------------------------------------
(* nh_core_initThreadPool(), nh_core_freeThreadPool() *)

BeginFree ==
    /\ pool' = [pool EXCEPT !.closing = TRUE]
    /\ pos' = [pos EXCEPT ![Main] = 1]

\* Main creates the next worker; if the system has no thread left it gives up.
StartWorker ==
    LET i == pos[Main] IN
    /\ pc[Main] = "boot"
    /\ i <= NumWorkers
    /\ pc[i] = "none"
    /\ \/ /\ pc' = [pc EXCEPT ![i] = "starting"]
          /\ pool' = [pool EXCEPT !.threadCount = i]
          /\ UNCHANGED pos
       \/ pc' = [pc EXCEPT ![Main] = "free"] /\ BeginFree
    /\ UNCHANGED <<workload, stack, depth, asleep, gens>>

\* runThread() up to its loop; the memory of the thread may not be available.
WorkerStarted(t) ==
    /\ t \in Workers
    /\ pc[t] = "starting"
    /\ \E memory \in BOOLEAN :
        /\ pc' = [pc EXCEPT ![t] = IF memory THEN "loop" ELSE "exited"]
        /\ pool' = [pool EXCEPT !.failed = @ \/ ~memory]
    /\ Wake
    /\ UNCHANGED <<workload, stack, depth, pos, gens>>

\* Main saw Threads_p[i].started.
WorkerIsUp ==
    LET i == pos[Main] IN
    /\ pc[Main] = "boot"
    /\ i <= NumWorkers
    /\ pc[i] \notin {"none", "starting"}
    /\ IF pool.failed
       THEN pc' = [pc EXCEPT ![Main] = "free"] /\ BeginFree
       ELSE pos' = [pos EXCEPT ![Main] = @ + 1] /\ UNCHANGED <<pc, pool>>
    /\ UNCHANGED <<workload, stack, depth, asleep, gens>>

PoolIsUp ==
    /\ pc[Main] = "boot"
    /\ pos[Main] > NumWorkers
    /\ pc' = [pc EXCEPT ![Main] = "user"]
    /\ pos' = [pos EXCEPT ![Main] = 1]
    /\ UNCHANGED <<workload, stack, depth, asleep, pool, gens>>

\* The application terminates the library from the main thread.
Shutdown ==
    /\ pc[Main] = "user"
    /\ depth[Main] = 0
    /\ pc' = [pc EXCEPT ![Main] = "free"]
    /\ BeginFree
    /\ UNCHANGED <<workload, stack, depth, asleep, gens>>

\* Deactivate the slots one after the other.
FreeNext ==
    /\ pc[Main] = "free"
    /\ depth[Main] = 0
    /\ pos[Main] <= NumSlots
    /\ \/ DeactivateSlot(Main, pos[Main])
       \/ /\ workload[pos[Main]].signal = "INACTIVE"
          /\ UNCHANGED <<workload, stack, depth, asleep>>
    /\ pos' = [pos EXCEPT ![Main] = @ + 1]
    /\ UNCHANGED <<pc, pool, gens>>

StopWorkers ==
    /\ pc[Main] = "free"
    /\ depth[Main] = 0
    /\ pos[Main] > NumSlots
    /\ pool' = [pool EXCEPT !.stopping = TRUE]
    /\ pc' = [pc EXCEPT ![Main] = "join"]
    /\ Wake
    /\ UNCHANGED <<workload, stack, depth, pos, gens>>

Join ==
    /\ pc[Main] = "join"
    /\ \A i \in 1..pool.threadCount : pc[i] = "exited"
    /\ pool' = [pool EXCEPT !.threadCount = 0, !.ready = FALSE]
    /\ pc' = [pc EXCEPT ![Main] = "closed"]
    /\ UNCHANGED <<workload, stack, depth, asleep, pos, gens>>

\* Nothing is left to do: not a deadlock.
Terminated ==
    /\ pc[Main] = "closed"
    /\ \A t \in Threads : depth[t] = 0
    /\ UNCHANGED vars

---------------------------------------------------------------------------
(* The specification *)

Init ==
    /\ workload = [w \in Slots |-> FreeSlot]
    /\ stack = [t \in Threads |-> [l \in Levels |-> NoCall]]
    /\ depth = [t \in Threads |-> 0]
    /\ asleep = {}
    /\ pc = [t \in Threads |-> IF t = Main THEN "boot"
                               ELSE IF t \in Workers THEN "none" ELSE "user"]
    /\ pos = [t \in Threads |-> 1]
    /\ pool = [ready |-> TRUE, closing |-> FALSE, failed |-> FALSE, stopping |-> FALSE,
               threadCount |-> 0]
    /\ gens = 0

Call(t) ==
    \/ \E thread \in Registered : Activate(t, thread)
    \/ \E w \in Slots : \/ \E handle \in 1..MaxGen : Execute(t, w, handle)
                        \/ Deactivate(t, w)
                        \/ RunOrSleep(t, w)
                        \/ WaitForCompletion(t, w)

\* What a thread does without being asked.
Proceed(t) ==
    \/ Visit(t)
    \/ WorkerTurn(t)
    \/ WorkerStarted(t)
    \/ EnterOwn(t)
    \/ ReturnRan(t)
    \/ WaitOther(t)
    \/ ExecuteLoop(t)

PoolStep ==
    \/ StartWorker
    \/ WorkerIsUp
    \/ PoolIsUp
    \/ FreeNext
    \/ StopWorkers
    \/ Join

Next ==
    \/ \E t \in Threads : Call(t) \/ Proceed(t) \/ EndRun(t)
    \/ MainRun
    \/ Shutdown
    \/ PoolStep
    \/ Terminated

Spec == Init /\ [][Next]_vars

\* Threads are scheduled; every callback returns, however often it calls the
\* scheduler in between (at the bound of the nesting it makes no call: weak
\* fairness is enough); the application keeps calling nh_core_run() on main until
\* it shuts the library down.
Fairness ==
    /\ \A t \in Threads : WF_vars(Proceed(t))
    /\ \A t \in Registered : WF_vars(EndRun(t))
    /\ \A t \in Registered, l \in 1..(MaxDepth - 2) : SF_vars(depth[t] = l /\ EndRun(t))
    /\ WF_vars(PoolStep)
    /\ SF_vars(MainRun)

FairSpec == Spec /\ Fairness
---------------------------------------------------------------------------
(* Types *)

Signals == {"INACTIVE", "INIT", "DONE", "OK", "IDLE", "FINISH", "ERROR"}
SlotType == [signal : Signals, owner : Registered \cup {NoThread}, initialized : BOOLEAN,
             activating : BOOLEAN, deactivate : BOOLEAN, queue : Seq(Addresses), gen : 0..MaxGen]
CallType == [op : {"none", "run"} \cup WaitingOps, w : 0..NumSlots, gen : 0..MaxGen,
             phase : {"", "INIT", "FREE", "WORK"}, cmd : Addresses \cup {NoCommand},
             state : {"", "enter", "loop", "ran", "done"}]

Places == {"boot", "none", "starting", "user", "loop", "run", "free", "join", "exited", "closed"}
PoolType == [ready : BOOLEAN, closing : BOOLEAN, failed : BOOLEAN, stopping : BOOLEAN,
             threadCount : 0..NumWorkers]

\* nh_core_run() is at a slot of the table.
LoopOK == \A t \in Threads : (t # Main \/ pc[t] = "run") => pos[t] \in Slots

\* Every variable has its type, and a stack holds calls and nothing above them.
TypeOK ==
    /\ workload \in [Slots -> SlotType]
    /\ stack \in [Threads -> [Levels -> CallType]]
    /\ depth \in [Threads -> 0..MaxDepth]
    /\ asleep \subseteq Threads
    /\ pc \in [Threads -> Places]
    /\ pos \in [Threads -> Nat \ {0}]
    /\ LoopOK
    /\ pool \in PoolType
    /\ gens \in 0..MaxGen
    /\ \A t \in Threads, l \in Levels :
        /\ l <= depth[t] => stack[t][l].op # "none" /\ stack[t][l].w \in Slots
        /\ l > depth[t] => stack[t][l] = NoCall

---------------------------------------------------------------------------
(* Safety *)

\* README "Init, run, commands and free execute on the selected thread": a callback in
\* progress is one of the workload that occupies its slot now, on the owner of the slot.
CallbackOnOwner ==
    \A t \in Threads, l \in Levels :
        LET call == stack[t][l] IN
        call.op = "run" => /\ workload[call.w].signal # "INACTIVE"
                           /\ workload[call.w].owner = t
                           /\ workload[call.w].gen = call.gen

\* free_f is the last callback of a workload: while it runs no other callback of the workload
\* is in progress anywhere, and no call it makes touches the workload again.
FreeIsLast ==
    \A t \in Threads, l \in Levels :
        LET call == stack[t][l] IN
        (call.op = "run" /\ call.phase = "FREE") =>
            /\ workload[call.w].deactivate
            /\ \A u \in Threads, m \in Levels :
                (stack[u][m].op = "run" /\ stack[u][m].w = call.w) => u = t /\ m = l
            /\ \A m \in Levels : m > l => stack[t][m].w # call.w

\* waiters keeps a slot for the calls that wait on it: none of them ever wakes up to find
\* the slot given to another activation.
SlotPinned ==
    \A t \in Threads, l \in Levels :
        LET call == stack[t][l] IN
        call.op \in WaitingOps => \/ workload[call.w].signal = "INACTIVE"
                                  \/ workload[call.w].gen = call.gen

\* Command a still waits on its sender's stack, for this activation of w.
Pending(w, a) ==
    LET call == stack[a[1]][a[2]] IN
    /\ call.op = "execute"
    /\ call.state = "loop"
    /\ call.w = w
    /\ call.gen = workload[w].gen

\* Commands live on their sender's stack: a queue, or a callback, never refers to one whose
\* execute() has returned, was answered, or was meant for another workload.
NoDanglingCommand ==
    /\ \A w \in Slots : \A i \in 1..Len(workload[w].queue) : Pending(w, workload[w].queue[i])
    /\ \A t \in Threads, l \in Levels :
        stack[t][l].cmd # NoCommand =>
            stack[t][l].op = "run" /\ Pending(stack[t][l].w, stack[t][l].cmd)

\* No command is executed twice: it is once in a queue, or held by one callback.
CommandOnce ==
    /\ \A w \in Slots : \A i, j \in 1..Len(workload[w].queue) :
        workload[w].queue[i] = workload[w].queue[j] => i = j
    /\ \A t \in Threads, l \in Levels : stack[t][l].cmd # NoCommand =>
        /\ \A w \in Slots : \A i \in 1..Len(workload[w].queue) :
            workload[w].queue[i] # stack[t][l].cmd
        /\ \A u \in Threads, m \in Levels :
            stack[u][m].cmd = stack[t][l].cmd => u = t /\ m = l

\* No wakeup is lost: a thread that sleeps still has something to wait for, and it is not a
\* workload only this thread could run.
NoLostWakeup ==
    \A t \in asleep : /\ depth[t] > 0
                      /\ Top(t).op \in WaitingOps
                      /\ ~Satisfied(Top(t))
                      /\ workload[Top(t).w].owner # t

\* No workload is stranded on a worker that left its loop.
NotStranded ==
    \A w \in Slots : workload[w].signal # "INACTIVE" /\ workload[w].owner \in Workers
                        => pc[workload[w].owner] # "exited"

\* While an activation waits, its workload is initialised at most: it does not run and is not
\* freed before the caller has the handle, unless the pool is being shut down.
ActivationHeld ==
    \A t \in Threads, l \in Levels :
        LET call == stack[t][l] IN
        call.op = "activate" =>
            \/ /\ workload[call.w].gen = call.gen
               /\ workload[call.w].activating
               /\ workload[call.w].signal \in {"INIT", "DONE"}
            \/ pool.closing

---------------------------------------------------------------------------
(* The inductive invariant *)

\* A free slot has no commands; a slot in use has an owner.
FreeSlotClean ==
    \A w \in Slots : /\ workload[w].signal = "INACTIVE" => workload[w].queue = <<>>
                     /\ workload[w].owner = NoThread => workload[w].signal = "INACTIVE"

\* A call that sleeps in waitForCompletion() is not one of the owner.
LoopIsForeign ==
    \A t \in Threads, l \in Levels :
        LET call == stack[t][l] IN
        (call.op \in WaitingOps \ {"execute"} /\ call.state = "loop")
            => workload[call.w].owner # t

CallsInv ==
    /\ CallbackOnOwner
    /\ FreeIsLast
    /\ SlotPinned
    /\ NoDanglingCommand
    /\ CommandOnce
    /\ NoLostWakeup
    /\ FreeSlotClean
    /\ LoopIsForeign

CoreInv == TypeOK /\ CallsInv

\* What a slot has been through: a free one is as initWorkload() left it, any other has been
\* given a handle, and init_f has returned once it is initialised.
SlotLife ==
    \A w \in Slots :
        LET slot == workload[w] IN
        /\ slot.signal = "INACTIVE" => slot = FreeSlot
        /\ slot.signal # "INACTIVE" => slot.gen \in 1..gens
        /\ slot.initialized <=> slot.signal \notin {"INACTIVE", "INIT"}
        /\ (slot.signal = "INIT" /\ slot.deactivate) => pool.closing

\* A handle names one slot, for good.
HandleNamesSlot ==
    /\ \A v, w \in Slots :
        (workload[v].gen = workload[w].gen /\ workload[v].signal # "INACTIVE") => v = w
    /\ \A t \in Threads, l \in Levels :
        LET call == stack[t][l] IN
        call.op \in WaitingOps => /\ call.gen \in 1..gens
                                  /\ \A v \in Slots : workload[v].gen = call.gen => v = call.w

\* A callback that works, or frees, is not one of a workload that is being activated.
PhaseFits ==
    \A t \in Threads, l \in Levels :
        LET call == stack[t][l] IN
        call.op = "run" =>
            /\ call.phase \in {"INIT", "WORK", "FREE"}
            /\ call.phase = "WORK" => /\ workload[call.w].signal # "INIT"
                                      /\ ~workload[call.w].activating
            /\ call.phase = "FREE" => ~workload[call.w].activating \/ pool.closing
            /\ call.cmd # NoCommand => call.phase = "WORK"

\* A slot is activated by one call at a time.
OneActivation ==
    \A t, u \in Threads, l, m \in Levels :
        /\ stack[t][l].op = "activate"
        /\ stack[u][m].op = "activate"
        /\ stack[t][l].w = stack[u][m].w
        => t = u /\ l = m

HandlesInv ==
    /\ SlotLife
    /\ HandleNamesSlot
    /\ PhaseFits
    /\ OneActivation
    /\ ActivationHeld

\* A call that ran its workload itself is one of the owner.
RanIsOwn ==
    \A t \in Threads, l \in Levels :
        LET call == stack[t][l] IN
        (call.op \in WaitingOps /\ call.state = "ran")
            => workload[call.w].owner \in {t, NoThread}

\* The flags of the pool follow main from the start of the workers to their end; a worker is
\* gone only when nothing was activated yet, or everything was freed.
Stages ==
    /\ pool.closing <=> pc[Main] \in {"free", "join", "closed"}
    /\ pool.stopping <=> pc[Main] \in {"join", "closed"}
    /\ pc[Main] = "boot" => \A w \in Slots : workload[w].signal = "INACTIVE"
    /\ \A t \in Workers :
        /\ pc[t] = "starting" => pc[Main] = "boot" /\ t = pos[Main]
        /\ pc[t] = "exited" =>
             pool.stopping \/ (pool.failed /\ \A w \in Slots : workload[w].signal = "INACTIVE")

\* Main waits until the owner of w has freed it: the call at the bottom of its stack.
MainFrees(w) ==
    /\ depth[Main] > 0
    /\ stack[Main][1].op = "deactivate"
    /\ stack[Main][1].w = w

\* The shutdown leaves no workload of a worker behind.
FreedInOrder ==
    /\ pool.closing =>
        \A w \in Slots : w < pos[Main] =>
            workload[w].signal = "INACTIVE" \/ workload[w].owner = Main \/ MainFrees(w)
    /\ pool.stopping =>
        \A w \in Slots : workload[w].signal = "INACTIVE" \/ workload[w].owner = Main

ShutdownInv ==
    /\ RanIsOwn
    /\ Stages
    /\ FreedInOrder

SchedulerInv == CoreInv /\ HandlesInv /\ ShutdownInv

---------------------------------------------------------------------------
(* Liveness, when the application makes no cyclic cross-thread waits *)

\* README "Commands and deactivation are synchronous", "Activation waits for init": each of
\* these calls returns.
CallsReturn ==
    \A t \in Threads, l \in 1..(MaxDepth - 1) :
        (stack[t][l].op \in {"activate", "execute", "deactivate", "wait"})
            ~> (stack[t][l].op = "none")

\* README "shutdown frees workloads, stops and joins workers".
ShutdownEnds == pool.closing ~> (pc[Main] = "closed")

\* Workloads that share a worker take turns: none of them is starved.
NoStarvation ==
    \A w \in Slots :
        (workload[w].signal # "INACTIVE" /\ workload[w].owner \in Workers)
            ~> (Running(w) \/ workload[w].signal = "INACTIVE")

\* After a shutdown no slot is in use.
ClosedEmpty == pc[Main] = "closed" => \A w \in Slots : workload[w].signal = "INACTIVE"
=============================================================================
