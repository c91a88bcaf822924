---------------------------- MODULE MCScheduler ----------------------------
(* Instances of the scheduler for TLC. *)
EXTENDS SchedulerRefinement

CONSTANT App

MCApps == {App}

\* Every call from main and the workers, cyclic waits included; the application thread only
\* activates and executes.
MixedCalls == (Operations \X Registered \X Registered)
                \cup ({"activate", "execute"} \X MCApps \X Registered)

\* No cyclic cross-thread waits: a worker waits for nobody but itself, main for itself and the
\* workers, and the application thread, which nobody waits for, for everybody.
OrderedCalls ==
    ({"activate"} \X {Main} \X Registered)
        \cup ({"execute"} \X ({Main} \cup MCApps) \X Registered)
        \cup {<<"execute", t, t>> : t \in Workers}
        \cup ({"deactivate"} \X MCApps \X Registered)

\* A worker hands work to main, main deactivates what it finds.
WorkerActivatesOnMain ==
    ({"activate", "deactivate"} \X {Main} \X Workers)
        \cup ({"activate"} \X Workers \X {Main})

\* Callbacks activate workloads for their own thread, main deactivates some.
ActivatesOnOwnThread ==
    ({"activate", "deactivate"} \X {Main} \X Workers) \cup {<<"activate", t, t>> : t \in Workers}

\* A thread outside of the pool activates a workload on main.
AppActivatesOnMain == {"activate"} \X MCApps \X {Main}

\* An activation returns only after init_f completed (Thread.h: "Init completes on the
\* selected thread before returning").
InitBeforeReturn ==
    \A t \in Threads : (depth[t] > 0 /\ Top(t).op = "activate" /\ Top(t).state = "ran")
                            => workload[Top(t).w].initialized
=============================================================================
