-------------------------------- MODULE Lists --------------------------------
(***************************************************************************)
(* The list of handles every module of the library uses, with the queue    *)
(* and the stack made of it (src/lib/nh-core/Util: List.c, Queue.c,        *)
(* Stack.c). Indexes are those of the code: the first item has index 0.    *)
(***************************************************************************)
EXTENDS Integers, Sequences

CONSTANTS ChunkSize, \* chunkSize
          Handles,   \* the pointers a list holds
          NULL,
          MaxSize    \* bound: items of a list

ASSUME ListAssumption == ChunkSize \in Nat \ {0} /\ MaxSize \in Nat

VARIABLES pp,         \* pp, as long as size says
          chunkCount, \* chunkCount: pp has room for ChunkSize * chunkCount items
          result      \* what the last peek, pop or search found

listVars == <<pp, chunkCount, result>>
List == [pp |-> pp, chunkCount |-> chunkCount]

ListInit == pp = <<>> /\ chunkCount = 0 /\ result = NULL

---------------------------------------------------------------------------
\* Mutant: room for one item less than is taken.
AppendedLate(l, h) == [pp |-> Append(l.pp, h),
                       chunkCount |-> IF Len(l.pp) > ChunkSize * l.chunkCount THEN l.chunkCount + 1 ELSE l.chunkCount]

\* nh_core_appendToList(): one more chunk when there is no room.
ListAppended(l, h) == [pp |-> Append(l.pp, h),
                   chunkCount |-> IF Len(l.pp) >= ChunkSize * l.chunkCount THEN l.chunkCount + 1 ELSE l.chunkCount]

\* nh_core_insertIntoList(): empty items up to the index; with an item there already
\* the list does not grow, and the last item makes room.
Padded[n \in Nat] == IF n = 0 THEN List ELSE ListAppended(Padded[n - 1], NULL)
ListInserted(h, i) ==
    LET l == Padded[IF Len(pp) <= i THEN i + 1 - Len(pp) ELSE 0]
    IN  [l EXCEPT !.pp = [j \in 1..Len(l.pp) |-> IF j <= i THEN l.pp[j] ELSE IF j = i + 1 THEN h ELSE l.pp[j - 1]]]

\* nh_core_removeFromList(): an index past the end is the last one; the last item
\* frees all, and a chunk that became empty is given back.
WithoutItem(s, i) == [j \in 1..Len(s) - 1 |-> IF j <= i THEN s[j] ELSE s[j + 1]]
ListRemoved(i) ==
    LET s == WithoutItem(pp, IF i >= Len(pp) THEN Len(pp) - 1 ELSE i)
    IN  [pp |-> s, chunkCount |-> IF Len(s) = 0 THEN 0
                                  ELSE IF Len(s) = ChunkSize * (chunkCount - 1) THEN chunkCount - 1 ELSE chunkCount]

ListBecomes(l) == pp' = l.pp /\ chunkCount' = l.chunkCount

AppendItem(h) == Len(pp) < MaxSize /\ ListBecomes(ListAppended(List, h)) /\ UNCHANGED result          \* append, enqueue, pushStack
InsertItem(h, i) == i < MaxSize /\ ListBecomes(ListInserted(h, i)) /\ UNCHANGED result
RemoveItem(i) == pp # <<>> /\ ListBecomes(ListRemoved(i)) /\ UNCHANGED result
Dequeue == pp # <<>> /\ result' = pp[1] /\ ListBecomes(ListRemoved(0))
Pop == pp # <<>> /\ result' = pp[Len(pp)] /\ ListBecomes(ListRemoved(Len(pp) - 1))

At(h) == {i \in 0..Len(pp) - 1 : pp[i + 1] = h}
FirstAt(h) == CHOOSE i \in At(h) : \A j \in At(h) : i <= j

\* nh_core_removeFromList2(): the first item with the handle; an error without one.
RemoveHandle(h) == At(h) # {} /\ ListBecomes(ListRemoved(FirstAt(h))) /\ UNCHANGED result

\* nh_core_getNextListItem(): of an item at the end, the one after an earlier equal item.
Follows(h) == {i \in At(h) : i + 1 < Len(pp)}
GetNext(h) ==
    /\ result' = IF Follows(h) = {} THEN NULL ELSE pp[(CHOOSE i \in Follows(h) : \A j \in Follows(h) : i <= j) + 2]
    /\ UNCHANGED <<pp, chunkCount>>

FreeAll == pp' = <<>> /\ chunkCount' = 0 /\ UNCHANGED result

ListNext ==
    \/ \E h \in Handles : AppendItem(h) \/ RemoveHandle(h) \/ GetNext(h)
    \/ \E h \in Handles, i \in 0..MaxSize - 1 : InsertItem(h, i)
    \/ \E i \in 0..MaxSize : RemoveItem(i)
    \/ Dequeue \/ Pop \/ FreeAll
ListSpec == ListInit /\ [][ListNext]_listVars

---------------------------------------------------------------------------
\* The chunks of a list are always those its items need: never one too few, which
\* would put an item past the memory of the list, and none that stays empty; a list
\* without items holds no memory, which is how the code recognises it.
ListFits == IF pp = <<>> THEN chunkCount = 0
            ELSE ChunkSize * (chunkCount - 1) < Len(pp) /\ Len(pp) <= ChunkSize * chunkCount
=============================================================================
