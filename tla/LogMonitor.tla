------------------------------ MODULE LogMonitor ------------------------------
(***************************************************************************)
(* The log of a process and a monitor in another one                       *)
(* (src/lib/nh-monitor: Logger.c, Client.c, Server.c, Monitor.c).          *)
(*                                                                         *)
(* The logger keeps its messages in nodes, buffers them as records of 256  *)
(* bytes while it is connected, and sends the buffer in one piece when it  *)
(* is full or half a second old; it then waits for an acknowledgement.     *)
(* The monitor takes what recv() gives it until the bytes read are whole   *)
(* records, acknowledges and files them.  A record is Units cells [id, u]: *)
(* the node's name, the first separator and what is behind it, in pieces   *)
(* as recv() may leave them.  Nothing marks where a record begins.         *)
(***************************************************************************)
EXTENDS Integers, Sequences, SequencesExt

CONSTANTS
    Nodes,      \* the names of logger nodes
    Messages,   \* what the processes log, in order: [node, replace]; replace 0: option not given
    Processes,  \* bound: logging processes, one after the other
    Capacity,   \* records in a full Buffer (256000 bytes)
    Units,      \* parts of a record recv() may tear apart
    NameFrom,   \* <<name, u>> -> what a record of node name is read as from part u on, where both
                \* separators are still to come: the name itself, or the end of it
    MaxGaps     \* bound: pauses inside a batch longer than the monitor's SO_RCVTIMEO

Runs == 1..Processes
Ids == 1..Len(Messages)

ASSUME MonitorAssumption ==
    /\ Messages \in Seq([node : Nodes, replace : Nat])
    /\ {Processes, Capacity, Units} \subseteq Nat \ {0} /\ MaxGaps \in Nat
    /\ DOMAIN NameFrom \subseteq Nodes \X (1..Units) /\ \A x \in DOMAIN NameFrom : NameFrom[x] \in Nodes
    /\ \A n \in Nodes : <<n, 1>> \in DOMAIN NameFrom /\ NameFrom[<<n, 1>>] = n

VARIABLES
    run,        \* the logging process, Processes + 1: there is none any more
    first,      \* its first message
    next,       \* the next message
    local,      \* Logger_p->Root: the messages of each node
    state,      \* Logger_p->state
    pause,      \* Logger_p->pause
    block,      \* the setting nh-monitor.block: nothing else runs before it is connected
    buffer,     \* Logger_p->Buffer, message ids
    call,       \* what the main thread is in: "none", "send", "ack"
    pending,    \* the message handleLogMessage() has still to append, 0: none
    link,       \* the state of the connection of each process
    wire,       \* the cells sent and not received
    acks,       \* acknowledgements sent and not received
    peer,       \* Peer.state; 4: the monitor has ended
    listening,  \* Peer.server_fd is open
    client,     \* Peer.client_socket, the process it belongs to
    part,       \* what receiveMessageFromLogger() has read
    view,       \* Peer.Logger.Root
    reset,      \* the setting nh-monitor.reset
    gaps        \* pauses so far

logger == <<run, first, next, local, state, pause, block, buffer, call, pending>>
network == <<link, wire, acks>>
monitor == <<peer, listening, client, part, view>>
vars == <<logger, network, monitor, reset, gaps>>

Cells(id) == [u \in 1..Units |-> [id |-> id, u |-> u]]
\* Records one after the other.
Batch(ids) ==
    [k \in 1..(Len(ids) * Units) |-> Cells(ids[((k - 1) \div Units) + 1])[((k - 1) % Units) + 1]]
EmptyTree == [n \in Nodes |-> <<>>]

\* nh_monitor_splitByTwoPluses(): what begins with cell c has both separators, and what is before
\* the first is taken for the name of the node.
Key(c) == <<Messages[c.id].node, c.u>>
Splits(c) == Key(c) \in DOMAIN NameFrom

\* nh_monitor_updateLogger(), nh_monitor_addLogMessage(): the message whose record is read from
\* cell c on; replace=i takes the place of message i if there is one.
Filed(tree, c) ==
    LET r == Messages[c.id].replace IN
    [tree EXCEPT ![NameFrom[Key(c)]] =
        IF r > 0 /\ Len(@) >= r THEN [@ EXCEPT ![r] = c.id] ELSE Append(@, c.id)]

\* One message after the other.
FiledAll(tree, cells) ==
    LET filed[k \in 0..Len(cells)] == IF k = 0 THEN tree ELSE Filed(filed[k - 1], cells[k])
    IN  filed[Len(cells)]

---------------------------------------------------------------------------
(* The logging process *)

Running == run \in Runs /\ call = "none"
Ready == Running /\ (block => state = 2)

\* nh_monitor_handleLogMessage(): a full buffer is flushed first.
Log ==
    /\ Ready /\ next \in Ids
    /\ next' = next + 1 /\ local' = Filed(local, Cells(next)[1])
    /\ IF state # 2 THEN UNCHANGED <<buffer, call, pending>>
       ELSE IF Len(buffer) < Capacity THEN buffer' = Append(buffer, next) /\ UNCHANGED <<call, pending>>
       ELSE call' = "send" /\ pending' = next /\ UNCHANGED buffer
    /\ UNCHANGED <<run, first, state, pause, block, network, monitor, reset, gaps>>

\* nh_monitor_connectToMonitor(): the kernel completes it while the monitor listens.
Connect ==
    /\ Running /\ state = 0 /\ ~pause /\ listening
    /\ state' = 1 /\ link' = [link EXCEPT ![run] = "open"]
    /\ UNCHANGED <<run, first, next, local, pause, block, buffer, call, pending, wire, acks,
                   monitor, reset, gaps>>

\* nh_monitor_checkIfMonitorConnectionEstablished(): given up for a second when it is not. One the
\* monitor accepted before it ended still counts as established, one in its backlog was reset.
Established ==
    /\ Running /\ state = 1 /\ ~pause
    /\ IF link[run] = "open" \/ client = run
       THEN state' = 2 /\ UNCHANGED <<pause, link>>
       ELSE state' = 0 /\ pause' = TRUE /\ link' = [link EXCEPT ![run] = "none"]
    /\ UNCHANGED <<run, first, next, local, block, buffer, call, pending, wire, acks, monitor, reset,
                   gaps>>
PauseOver ==
    /\ Running /\ pause /\ pause' = FALSE
    /\ UNCHANGED <<run, first, next, local, state, block, buffer, call, pending, network, monitor,
                   reset, gaps>>

\* nh_monitor_runLoggerWorkload(): half a second has passed, or the buffer is full.
Flush ==
    /\ Running /\ state = 2 /\ buffer # <<>>
    /\ call' = "send"
    /\ UNCHANGED <<run, first, next, local, state, pause, block, buffer, pending, network, monitor,
                   reset, gaps>>
\* What is sent into a connection the monitor closed is lost.
\* Mutant: the buffer is sent again with the next one.
SendKeepsBuffer ==
    /\ run \in Runs /\ call = "send"
    /\ wire' = IF link[run] = "open" THEN [wire EXCEPT ![run] = @ \o Batch(buffer)] ELSE wire
    /\ call' = "ack"
    /\ UNCHANGED <<run, first, next, local, state, pause, block, buffer, pending, link, acks, monitor,
                   reset, gaps>>
Send ==
    /\ run \in Runs /\ call = "send"
    /\ wire' = IF link[run] = "open" THEN [wire EXCEPT ![run] = @ \o Batch(buffer)] ELSE wire
    /\ buffer' = <<>> /\ call' = "ack"
    /\ UNCHANGED <<run, first, next, local, state, pause, block, pending, link, acks, monitor, reset, gaps>>
\* nh_monitor_waitForMonitorAck(): repeated until an acknowledgement is there.
Acknowledged ==
    /\ run \in Runs /\ call = "ack" /\ acks[run] > 0
    /\ acks' = [acks EXCEPT ![run] = @ - 1]
    /\ call' = "none" /\ pending' = 0
    /\ buffer' = IF pending = 0 THEN buffer ELSE Append(buffer, pending)
    /\ UNCHANGED <<run, first, next, local, state, pause, block, link, wire, monitor, reset, gaps>>

\* The process ends at any moment, another one may be started.
End ==
    /\ run \in Runs
    /\ link' = [link EXCEPT ![run] = IF @ = "open" THEN "ended" ELSE @]
    /\ run' = run + 1 /\ first' = next /\ local' = EmptyTree /\ state' = 0 /\ pause' = FALSE
    /\ block' \in BOOLEAN
    /\ buffer' = <<>> /\ call' = "none" /\ pending' = 0
    /\ UNCHANGED <<next, wire, acks, monitor, reset, gaps>>

---------------------------------------------------------------------------
(* The monitor: nh_monitor_updatePeerMonitor() *)

CreateSocket ==
    /\ peer = 0
    /\ peer' = 1 /\ listening' = TRUE
    /\ UNCHANGED <<logger, network, client, part, view, reset, gaps>>

Backlog == {p \in Runs : link[p] \in {"open", "ended"} /\ p # client}
Accept ==
    /\ peer = 1 /\ listening
    /\ \E p \in Backlog : client' = p /\ \A q \in Backlog : p <= q
    /\ peer' = 2
    /\ UNCHANGED <<logger, network, listening, part, view, reset, gaps>>

\* Mutants: a message is whole once there is a record; a long one is not.
AnyRecord(cells) == Len(cells) >= Units
OneRecord(cells) == Len(cells) = Units
Whole(cells) == Len(cells) % Units = 0

\* Where the slots of a message begin that are filed: all up to the first that does not split.
Slots(cells) == Len(cells) \div Units
SlotStart(cells, i) == cells[(i - 1) * Units + 1]
Records(cells) ==
    LET good == {n \in 0..Slots(cells) : \A i \in 1..n : Splits(SlotStart(cells, i))}
        n == CHOOSE m \in good : \A k \in good : k <= m
    IN  [i \in 1..n |-> SlotStart(cells, i)]

\* nh_monitor_receiveMessageFromLogger(): read on, as far as buffer_p has room, until what was read
\* is as long as whole records; then one acknowledgement, and the records are filed.
Receive ==
    /\ peer \in {2, 3}
    /\ \E n \in 1..Len(wire[client]) :
          LET read == part \o SubSeq(wire[client], 1, n) IN
          /\ Len(read) <= Capacity * Units
          /\ wire' = [wire EXCEPT ![client] = SubSeq(@, n + 1, Len(@))]
          /\ IF Whole(read)
             THEN /\ part' = <<>> /\ peer' = 3
                  /\ view' = FiledAll(view, Records(read))
                  /\ acks' = [acks EXCEPT ![client] = @ + 1]
             ELSE part' = read /\ UNCHANGED <<peer, view, acks>>
    /\ UNCHANGED <<logger, link, listening, client, reset, gaps>>
\* Nothing comes for as long as SO_RCVTIMEO allows: what was read is forgotten, and what comes
\* next is taken for the beginning of a record wherever it is in one.
Gap ==
    /\ peer \in {2, 3} /\ part # <<>> /\ gaps < MaxGaps
    /\ part' = <<>> /\ gaps' = gaps + 1
    /\ UNCHANGED <<logger, network, peer, listening, client, view, reset>>

\* The logger has gone. With nh-monitor.reset both sockets are closed, the backlog with them, and
\* the monitor starts over from state 1; without, it keeps its client and what it shows.
LoggerGone ==
    /\ peer \in {2, 3} /\ link[client] = "ended" /\ wire[client] = <<>>
    /\ part' = <<>>
    /\ IF reset
       THEN /\ peer' = 1 /\ listening' = FALSE /\ view' = EmptyTree
            /\ link' = [p \in Runs |-> IF link[p] = "open" THEN "closed" ELSE link[p]]
       ELSE peer' = 3 /\ UNCHANGED <<listening, view, link>>
    /\ UNCHANGED <<logger, wire, acks, client, reset, gaps>>

\* The monitor ends at any moment.
MonitorEnds ==
    /\ peer < 4
    /\ peer' = 4 /\ listening' = FALSE /\ part' = <<>>
    /\ link' = [p \in Runs |-> IF link[p] = "open" THEN "closed" ELSE link[p]]
    /\ UNCHANGED <<logger, wire, acks, client, view, reset, gaps>>

---------------------------------------------------------------------------
Init ==
    /\ run = 1 /\ first = 1 /\ next = 1 /\ local = EmptyTree /\ state = 0 /\ pause = FALSE
    /\ block \in BOOLEAN
    /\ buffer = <<>> /\ call = "none" /\ pending = 0
    /\ link = [p \in Runs |-> "none"] /\ wire = [p \in Runs |-> <<>>] /\ acks = [p \in Runs |-> 0]
    /\ peer = 0 /\ listening = FALSE /\ client = 0 /\ part = <<>> /\ view = EmptyTree
    /\ reset \in BOOLEAN /\ gaps = 0

LoggerStep == Connect \/ Established \/ PauseOver \/ Flush \/ Send \/ Acknowledged
MonitorStep == CreateSocket \/ Accept \/ Receive \/ LoggerGone
Next == Log \/ LoggerStep \/ End \/ MonitorStep \/ Gap \/ MonitorEnds

Spec == Init /\ [][Next]_vars

\* The main thread runs the logger's workload, the monitor its update, again and again.
FairSpec == Spec /\ WF_vars(LoggerStep) /\ WF_vars(MonitorStep)

---------------------------------------------------------------------------
(* Properties *)

\* What the logger filed and the monitor has not: on the wire, in the buffer, about to be added.
HeadIds(cells) ==
    LET ids[k \in 0..Len(cells)] ==
            IF k = 0 THEN <<>> ELSE IF cells[k].u = 1 THEN Append(ids[k - 1], cells[k].id) ELSE ids[k - 1]
    IN  ids[Len(cells)]
Starts(ids) == [k \in 1..Len(ids) |-> Cells(ids[k])[1]]
OnTheWire == IF client = run THEN part \o wire[run] ELSE wire[run]
InFlight == HeadIds(OnTheWire) \o buffer \o (IF pending = 0 THEN <<>> ELSE <<pending>>)

\* A process that was connected before it logged, to a monitor that serves it.
Healthy ==
    /\ run \in Runs /\ block /\ gaps = 0 /\ client \in {0, run} /\ peer # 4
    /\ peer = 1 => listening
Connected == Healthy /\ state = 2 /\ link[run] = "open"

\* However a batch is torn apart on its way and wherever one ends, the monitor's nodes become the
\* logger's: nothing is lost, filed twice, out of order or in place of the wrong message, as long
\* as no batch is interrupted for longer than SO_RCVTIMEO (nh_monitor_receiveMessageFromLogger).
Mirror == Connected => FiledAll(view, Starts(InFlight)) = local

\* Even when one is: what the monitor shows was logged, and no message is shown twice, wherever the
\* reading of slots takes up again in the rest. Until then each stands under its node; later it may
\* stand under what was left of that name when a part of it was forgotten (Server.c:117), but under
\* no other, as what is behind the name does not split (nh_monitor_updatePeerMonitor).
Misnamed(id, n) ==
    gaps > 0 /\ \E u \in 2..Units : LET k == <<Messages[id].node, u>> IN k \in DOMAIN NameFrom /\ NameFrom[k] = n
Truthful ==
    \A n \in Nodes : \A i \in 1..Len(view[n]) :
        LET id == view[n][i] IN
        /\ id < next
        /\ Messages[id].node = n \/ Misnamed(id, n)
        /\ \A m \in Nodes : \A j \in 1..Len(view[m]) : view[m][j] = id => m = n /\ j = i

\* All that is logged gets to the monitor: each batch is acknowledged and the next one sent
\* (nh_monitor_runLoggerWorkload).
Delivered == (Connected /\ next > Len(Messages)) ~> (view = local \/ ~Connected)

\* The monitor listens when it says so (Monitor.c:654, "Listening on 127.0.0.1").
ListeningIsTrue == peer = 1 => listening

=============================================================================
