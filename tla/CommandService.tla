--------------------------- MODULE CommandService ---------------------------
(***************************************************************************)
(* What the scheduler promises to the application, without threads, locks, *)
(* slots or queues: a workload is opened, serves the requests addressed to *)
(* its handle, and is closed for good.  A request is served at most once,  *)
(* by the workload it was addressed to, while that workload is open; it    *)
(* succeeds if and only if it was served, and fails only when its workload *)
(* is gone.                                                                *)
(***************************************************************************)
CONSTANTS Handles, Callers

VARIABLES
    open,       \* the handles of the workloads that can be called
    closed,     \* the handles that will never be called again
    request     \* the request each caller waits for

vars == <<open, closed, request>>

None == [state |-> "none", handle |-> 0]

Init ==
    /\ open = {}
    /\ closed = {}
    /\ request = [c \in Callers |-> None]

Open(h) ==
    /\ h \notin open \cup closed
    /\ open' = open \cup {h}
    /\ UNCHANGED <<closed, request>>

\* No callback is interrupted by the end of its workload.
Close(h) ==
    /\ h \notin closed
    /\ \A c \in Callers : request[c].handle = h => request[c].state # "serving"
    /\ open' = open \ {h}
    /\ closed' = closed \cup {h}
    /\ UNCHANGED request

Ask(c, h) ==
    /\ request[c] = None
    /\ h \in open
    /\ request' = [request EXCEPT ![c] = [state |-> "waiting", handle |-> h]]
    /\ UNCHANGED <<open, closed>>

Serve(c) ==
    /\ request[c].state = "waiting"
    /\ request[c].handle \in open
    /\ request' = [request EXCEPT ![c].state = "serving"]
    /\ UNCHANGED <<open, closed>>

Finish(c) ==
    /\ request[c].state = "serving"
    /\ request[c].handle \in open
    /\ request' = [request EXCEPT ![c].state = "served"]
    /\ UNCHANGED <<open, closed>>

Succeed(c) ==
    /\ request[c].state = "served"
    /\ request' = [request EXCEPT ![c] = None]
    /\ UNCHANGED <<open, closed>>

Fail(c) ==
    /\ request[c].state = "waiting"
    /\ request[c].handle \in closed
    /\ request' = [request EXCEPT ![c] = None]
    /\ UNCHANGED <<open, closed>>

Next ==
    \/ \E h \in Handles : Open(h) \/ Close(h)
    \/ \E c \in Callers : \/ \E h \in Handles : Ask(c, h)
                          \/ Serve(c)
                          \/ Finish(c)
                          \/ Succeed(c)
                          \/ Fail(c)

Spec == Init /\ [][Next]_vars
=============================================================================
