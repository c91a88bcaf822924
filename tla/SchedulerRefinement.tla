------------------------ MODULE SchedulerRefinement ------------------------
(***************************************************************************)
(* The scheduler implements CommandService: a caller is the place of an    *)
(* execute() call on its thread's stack, a handle an activation.           *)
(***************************************************************************)
EXTENDS Scheduler

\* A handle can be called once init_f completed and until free_f completed.
OpenHandles ==
    {h \in 1..MaxGen : \E w \in Slots : workload[w].initialized /\ workload[w].gen = h}

\* The activation is over; a shutdown may end it before init_f ran.
ClosedHandles == {h \in 1..MaxGen : h <= gens /\ \A w \in Slots : workload[w].gen # h}

\* The callbacks that hold a command.
Held(a) == {b \in Addresses : stack[b[1]][b[2]].op = "run" /\ stack[b[1]][b[2]].cmd = a}

\* A command is being served while a callback holds it.
RequestAt(a) ==
    LET call == stack[a[1]][a[2]] IN
    IF call.op # "execute" THEN [state |-> "none", handle |-> 0]
    ELSE [state  |-> IF Held(a) # {} THEN "serving"
                     ELSE IF call.state = "done" THEN "served" ELSE "waiting",
          handle |-> call.gen]

Service == INSTANCE CommandService WITH
    Handles <- 1..MaxGen,
    Callers <- Addresses,
    open    <- OpenHandles,
    closed  <- ClosedHandles,
    request <- [a \in Addresses |-> RequestAt(a)]

\* Whatever the interleaving, the application sees a command service: each command is executed
\* at most once and by the workload it was sent to, and execute() reports exactly that
\* (nh_core_executeWorkload, nh_core_executeWorkloadCommand).
ImplementsService == Service!Spec
=============================================================================
