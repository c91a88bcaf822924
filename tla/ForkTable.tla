------------------------------ MODULE ForkTable ------------------------------
(***************************************************************************)
(* The table of child processes and their channels                         *)
(* (src/lib/nh-core/System: Process.c, Channel.c).                         *)
(*                                                                         *)
(* A process has its own copy of the table, forked with it, and its own    *)
(* descriptors: close() frees a number, pipe() takes the lowest free ones. *)
(* The kernel's part (fork, waitpid, kill, pipe, close) is modelled by     *)
(* what the code relies on.                                                *)
(***************************************************************************)
EXTENDS Integers, FiniteSets

CONSTANTS
    N,        \* bound: processes, of which 1 is the main one
    MaxForks, \* NH_MAX_FORKS
    MaxFd,    \* bound: descriptors of a process
    MaxInits  \* bound: times the pool is initialised

Procs == 1..N
Slots == 1..MaxForks
Fds == 1..MaxFd
Main == 1
Closed == [of |-> 0, channel |-> "none", end |-> "none"]

ASSUME ForkAssumption == N \in Nat \ {0} /\ MaxForks \in Nat \ {0} /\ {MaxFd, MaxInits} \subseteq Nat

VARIABLES
    life,    \* "none", "running", "exited", "killed": a zombie, "gone"
    parent,  \* 0: adopted by the system, which waits for it
    files,   \* the descriptors of a process: the end of a pipe made for a child, 0: for none
    init,    \* init
    forks,   \* NH_PROCESS_POOL.forks
    table,   \* NH_PROCESS_POOL.Forks_p
    scan,    \* the entry checkForks() is at, 0: not in it
    inits    \* how often the main process initialised its pool

kernel == <<life, parent, files>>
vars == <<kernel, init, forks, table, scan, inits>>

NoChannel == [r |-> 0, w |-> 0]
Empty == [id |-> 0, in |-> NoChannel, out |-> NoChannel]
Free(p) == {f \in Fds : files[p][f] = Closed}
Busy(p) == {s \in Slots : table[p][s].id # 0}
Unborn == {q \in Procs : life[q] = "none"}
Children(p) == {q \in Procs : parent[q] = p}
Zombie(q) == life[q] \in {"exited", "killed"}
Idle(p) == life[p] = "running" /\ init[p] /\ scan[p] = 0

---------------------------------------------------------------------------
\* nh_core_initProcessPool(): refuses a second time; entries of before are forgotten.
InitPool ==
    /\ ~init[Main] /\ inits < MaxInits
    /\ init' = [init EXCEPT ![Main] = TRUE] /\ forks' = [forks EXCEPT ![Main] = 0]
    /\ table' = [table EXCEPT ![Main] = [s \in Slots |-> Empty]]
    /\ inits' = inits + 1
    /\ UNCHANGED <<kernel, scan>>

\* nh_core_freeProcessPool() leaves the table alone.
FreePool ==
    /\ Idle(Main)
    /\ init' = [init EXCEPT ![Main] = FALSE]
    /\ UNCHANGED <<kernel, forks, table, scan, inits>>

---------------------------------------------------------------------------
(* nh_core_fork() *)

\* Two pipes: the lowest free numbers, in this order.
Nth(S, n) == CHOOSE f \in S : Cardinality({g \in S : g < f}) = n - 1
Pipes(p) ==
    [in  |-> [r |-> Nth(Free(p), 1), w |-> Nth(Free(p), 2)],
     out |-> [r |-> Nth(Free(p), 3), w |-> Nth(Free(p), 4)]]
End(q, c, e) == [of |-> q, channel |-> c, end |-> e]
\* The descriptors of the parent and of the child, each without the ends of the other one.
ParentFiles(p, ch, q) == [files[p] EXCEPT ![ch.in.w] = End(q, "in", "w"), ![ch.out.r] = End(q, "out", "r")]
ChildFiles(p, ch, q) == [files[p] EXCEPT ![ch.in.r] = End(q, "in", "r"), ![ch.out.w] = End(q, "out", "w")]
Entry(ch, id) == [id |-> id, in |-> ch.in, out |-> ch.out]

CanFork(p) == Idle(p) /\ forks[p] # MaxForks /\ Cardinality(Free(p)) >= 4

\* nh_core_getAvailableFork(): the first entry that is not in use. The child gets a copy of all.
First(S) == {x \in S : \A y \in S : x <= y}
ForkChild(p) ==
    /\ CanFork(p)
    /\ \E q \in First(Unborn), s \in First(Slots \ Busy(p)) :
       LET ch == Pipes(p)
           new == [table[p] EXCEPT ![s] = Entry(ch, q)] IN
       /\ life' = [life EXCEPT ![q] = "running"] /\ parent' = [parent EXCEPT ![q] = p]
       /\ files' = [files EXCEPT ![p] = ParentFiles(p, ch, q), ![q] = ChildFiles(p, ch, q)]
       /\ table' = [table EXCEPT ![p] = new, ![q] = new]
       /\ forks' = [forks EXCEPT ![p] = @ + 1, ![q] = forks[p] + 1]
       /\ init' = [init EXCEPT ![q] = TRUE]
    /\ UNCHANGED <<scan, inits>>

\* fork() fails: -1 is the id of the child.
ForkFails(p) ==
    /\ CanFork(p)
    /\ \E s \in First(Slots \ Busy(p)) : LET ch == Pipes(p) IN
       /\ files' = [files EXCEPT ![p] = ParentFiles(p, ch, 0)]
       /\ table' = [table EXCEPT ![p][s] = Entry(ch, -1)]
    /\ forks' = [forks EXCEPT ![p] = @ + 1]
    /\ UNCHANGED <<life, parent, init, scan, inits>>

---------------------------------------------------------------------------
(* nh_core_checkForks(), nh_killForks() *)

\* nh_unregisterFork(): closes the two numbers, whatever they are by now. Those of an
\* entry that is not in use are never looked at.
ClosedFiles(p, S) ==
    LET numbers == {table[p][s].in.w : s \in S} \cup {table[p][s].out.r : s \in S}
    IN  [f \in Fds |-> IF f \in numbers THEN Closed ELSE files[p][f]]
\* Mutants: the count is kept; the entry of the wrong end is closed.
KeepCount(p, S) ==
    /\ files' = [files EXCEPT ![p] = ClosedFiles(p, S)]
    /\ table' = [table EXCEPT ![p] = [s \in Slots |-> IF s \in S THEN Empty ELSE @[s]]]
    /\ UNCHANGED forks
CloseOthers(p, S) ==
    /\ files' = [files EXCEPT ![p] = ClosedFiles(p, IF S = {} THEN {} ELSE Slots)]
    /\ table' = [table EXCEPT ![p] = [s \in Slots |-> IF s \in S THEN Empty ELSE @[s]]]
    /\ forks' = [forks EXCEPT ![p] = @ - Cardinality(S)]
Unregister(p, S) ==
    /\ files' = [files EXCEPT ![p] = ClosedFiles(p, S)]
    /\ table' = [table EXCEPT ![p] = [s \in Slots |-> IF s \in S THEN Empty ELSE @[s]]]
    /\ forks' = [forks EXCEPT ![p] = @ - Cardinality(S)]

\* waitpid(id, WNOHANG): a child that ended, or id -1 and any, is reaped; 0 while they run; -1 else.
Waited(p, id) == IF id = -1 THEN Children(p) ELSE Children(p) \cap {id}
Reaped(p, id) == {q \in Waited(p, id) : Zombie(q)}
Running(p, id) == {q \in Waited(p, id) : life[q] = "running"}

StartCheck(p) ==
    /\ Idle(p)
    /\ scan' = [scan EXCEPT ![p] = 1]
    /\ UNCHANGED <<kernel, init, forks, table, inits>>

\* Mutant: only a child that exited is taken out, not one nobody can wait for.
CheckExitedOnly(p) ==
    /\ life[p] = "running" /\ scan[p] # 0
    /\ scan' = [scan EXCEPT ![p] = IF @ = MaxForks THEN 0 ELSE @ + 1]
    /\ LET s == scan[p] id == table[p][s].id IN
       \/ /\ IF id = 0 THEN TRUE ELSE Reaped(p, id) = {}
          /\ UNCHANGED <<life, files, table, forks>>
       \/ \E q \in (IF id = 0 THEN {} ELSE Reaped(p, id)) :
             /\ life' = [life EXCEPT ![q] = "gone"]
             /\ Unregister(p, IF life[q] = "exited" THEN {s} ELSE {})
    /\ UNCHANGED <<parent, init, inits>>
\* Mutant: the loop runs one entry too far.
CheckPastEnd(p) ==
    /\ life[p] = "running" /\ scan[p] # 0
    /\ scan' = [scan EXCEPT ![p] = IF @ > MaxForks THEN 0 ELSE @ + 1]
    /\ UNCHANGED <<life, files, table, forks, parent, init, inits>>
\* One entry of the loop. status is not initialised: with a result of 0 it says whatever was there.
CheckEntry(p) ==
    /\ life[p] = "running" /\ scan[p] # 0
    /\ scan' = [scan EXCEPT ![p] = IF @ = MaxForks THEN 0 ELSE @ + 1]
    /\ LET s == scan[p] id == table[p][s].id IN
       \/ id = 0 /\ UNCHANGED <<life, files, table, forks>>
       \/ \E q \in (IF id = 0 THEN {} ELSE Reaped(p, id)) :
             /\ life' = [life EXCEPT ![q] = "gone"]
             /\ Unregister(p, IF life[q] = "exited" THEN {s} ELSE {})
       \/ /\ id # 0 /\ Reaped(p, id) = {} /\ Running(p, id) # {}
          /\ \E exited \in BOOLEAN : Unregister(p, IF exited THEN {s} ELSE {})
          /\ UNCHANGED life
       \/ /\ id # 0 /\ Reaped(p, id) = {} /\ Running(p, id) = {}
          /\ Unregister(p, {s}) /\ UNCHANGED life
    /\ UNCHANGED <<parent, init, inits>>

\* nh_killForks() in the main process. The signals end children (ChildEnds), of id -1 all there are.
KillForks ==
    /\ Idle(Main)
    /\ Unregister(Main, Busy(Main))
    /\ UNCHANGED <<life, parent, init, scan, inits>>

---------------------------------------------------------------------------
\* A child ends by itself or by a signal, at any moment. Its descriptors are closed, its own
\* children become the system's.
ChildEnds(q, how) ==
    /\ q # Main /\ life[q] = "running"
    /\ life' = [p \in Procs |-> IF p = q THEN (IF parent[q] = 0 THEN "gone" ELSE how)
                               ELSE IF parent[p] = q /\ Zombie(p) THEN "gone" ELSE life[p]]
    /\ parent' = [p \in Procs |-> IF parent[p] = q THEN 0 ELSE parent[p]]
    /\ files' = [files EXCEPT ![q] = [f \in Fds |-> Closed]]
    /\ scan' = [scan EXCEPT ![q] = 0] /\ init' = [init EXCEPT ![q] = FALSE]
    /\ forks' = [forks EXCEPT ![q] = 0] /\ table' = [table EXCEPT ![q] = [s \in Slots |-> Empty]]
    /\ UNCHANGED inits

Init ==
    /\ life = [p \in Procs |-> IF p = Main THEN "running" ELSE "none"]
    /\ parent = [p \in Procs |-> 0]
    /\ files = [p \in Procs |-> [f \in Fds |-> Closed]]
    /\ init = [p \in Procs |-> FALSE] /\ forks = [p \in Procs |-> 0]
    /\ table = [p \in Procs |-> [s \in Slots |-> Empty]]
    /\ scan = [p \in Procs |-> 0] /\ inits = 0

Check(p) == StartCheck(p) \/ CheckEntry(p)
Next ==
    \/ InitPool \/ FreePool
    \/ \E p \in Procs : ForkChild(p) \/ ForkFails(p) \/ Check(p)
    \/ KillForks
    \/ \E q \in Procs, how \in {"exited", "killed"} : ChildEnds(q, how)

Spec == Init /\ [][Next]_vars
\* nh_core_keepRunning() is called again and again, by main.
FairSpec == Spec /\ WF_vars(Check(Main))
---------------------------------------------------------------------------
TypeOK ==
    /\ life \in [Procs -> {"none", "running", "exited", "killed", "gone"}]
    /\ parent \in [Procs -> Procs \cup {0}]
    /\ DOMAIN table = Procs
    /\ \A p \in Procs : DOMAIN table[p] = Slots /\ \A s \in Slots : table[p][s].id \in -1..N
    /\ forks \in [Procs -> 0..MaxForks]
    /\ init \in [Procs -> BOOLEAN] /\ scan \in [Procs -> 0..MaxForks]

\* Whatever comes back from waitpid(), the count that keeps the main loop running
\* (nh_core_keepRunning) is that of the entries in use, in every process.
CountMatches == \A p \in Procs : init[p] => forks[p] = Cardinality(Busy(p))
CountInv == TypeOK /\ CountMatches /\ \A p \in Procs : scan[p] # 0 => init[p]

\* In the main process a handle stays good for its child: while it is in use the two numbers it
\* holds are the ends of that child's pipes, whatever was closed and opened since.
ChannelIntact ==
    \A s \in Slots :
        LET fork == table[Main][s] IN
        (init[Main] /\ fork.id > 0) => /\ files[Main][fork.in.w] = End(fork.id, "in", "w")
                                       /\ files[Main][fork.out.r] = End(fork.id, "out", "r")

\* No two entries of the main process hold the same number, and none holds one that pipe() would
\* give out: closing those of an entry touches no other.
Held(s) == {table[Main][s].in.w, table[Main][s].out.r}
NumbersApart ==
    \A s \in Busy(Main) :
        /\ Held(s) \subseteq Fds \ Free(Main)
        /\ table[Main][s].in.w # table[Main][s].out.r
        /\ \A t \in Busy(Main) \ {s} : Held(s) \cap Held(t) = {}
MainHasFiles == life[Main] = "running" /\ DOMAIN files = Procs /\ DOMAIN files[Main] = Fds

ForkInv == CountInv /\ ChannelIntact /\ NumbersApart /\ MainHasFiles

\* A child that ended, by itself or by a signal, does not keep the main loop running for ever.
Settles ==
    \A q \in Procs :
        (init[Main] /\ life[q] \in {"exited", "killed", "gone"})
            ~> (~init[Main] \/ \A s \in Slots : table[Main][s].id # q)

\* nh_core_getFork(): "Returns the process handle of the executing process if it is a child of the
\* main process and was created using nh_core_fork" (Process.h:102-103).
HandleKept ==
    \A q \in Procs : (life[q] = "running" /\ parent[q] = Main) => \E s \in Slots : table[q][s].id = q
=============================================================================
