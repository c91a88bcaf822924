-------------------------------- MODULE Ring --------------------------------
(***************************************************************************)
(* The ring buffer of a window's events and a reader with a marker of its  *)
(* own (src/lib/nh-core/Util/RingBuffer.c, used by nh-wsi/Window/Event.c). *)
(***************************************************************************)
EXTENDS Integers

CONSTANTS ItemCount,  \* itemCount: 1024 for a window
          MaxWritten  \* bound: items written

ASSUME RingAssumption == ItemCount \in Nat \ {0} /\ MaxWritten \in Nat

VARIABLES data,     \* data_p: the number of the item a cell holds, 0: none yet
          buffer,   \* index and overflow of the buffer
          marker,   \* index and overflow of the reader's marker
          written,  \* how many items were written: the number of the last
          seen      \* the number of the item the marker read last

ringVars == <<data, buffer, marker, written, seen>>

Cells == 0..ItemCount - 1
Start == [index |-> -1, overflow |-> 0]

RingInit == data = [c \in Cells |-> 0] /\ buffer = Start /\ marker = Start /\ written = 0 /\ seen = 0

---------------------------------------------------------------------------
Advanced(b) == IF b.index + 1 = ItemCount THEN [index |-> 0, overflow |-> b.overflow + 1]
               ELSE [b EXCEPT !.index = @ + 1]

\* A handler of window events takes the next cell and fills it.
Advance ==
    /\ written < MaxWritten
    /\ buffer' = Advanced(buffer) /\ written' = written + 1
    /\ data' = [data EXCEPT ![buffer'.index] = written + 1]
    /\ UNCHANGED <<marker, seen>>

\* Mutant: the marker forgets the round.
OwnRound(m) == IF buffer.overflow # m.overflow /\ m.index + 1 = ItemCount THEN [m EXCEPT !.index = 0] ELSE [m EXCEPT !.index = @ + 1]

\* The marker takes over the overflow of the buffer, however many rounds that is.
Incremented(m) == IF buffer.overflow # m.overflow /\ m.index + 1 = ItemCount
                  THEN [index |-> 0, overflow |-> buffer.overflow]
                  ELSE [m EXCEPT !.index = @ + 1]

\* nh_core_incrementRingBufferMarker(): NULL when the marker is where the buffer is.
Increment ==
    /\ marker # buffer
    /\ marker' = Incremented(marker)
    /\ seen' = data[marker'.index]
    /\ UNCHANGED <<data, buffer, written>>

RingNext == Advance \/ Increment
RingSpec == RingInit /\ [][RingNext]_ringVars

---------------------------------------------------------------------------
Position(m) == m.overflow * ItemCount + m.index + 1

\* A reader that is at most a round behind reads the items one by one: none twice,
\* none left out, and never the one a later round put in the place of what it expects.
KeptUp == written - Position(marker) <= ItemCount
InOrder == [][KeptUp /\ marker' # marker => seen' = Position(marker) + 1 /\ Position(marker') = seen']_ringVars
=============================================================================
