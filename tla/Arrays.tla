------------------------------- MODULE Arrays -------------------------------
(***************************************************************************)
(* The array of elements that strings, tokens and tables are made of, and  *)
(* the list of arrays whose elements stay where they are                   *)
(* (src/lib/nh-core/Util: Array.c, ArrayList.c, String.c). Counts within   *)
(* the array only: length is unsigned, and the check for a negative one    *)
(* in nh_core_removeTailFromArray() does nothing.                          *)
(***************************************************************************)
EXTENDS Integers, SequencesExt

CONSTANTS Chunk,    \* allocatedLengthPerChunk
          Elements, \* what an element can be; 0 is an element of zero bytes
          MaxLength \* bound: elements of an array

ASSUME ArrayAssumption == Chunk \in Nat \ {0, 1} /\ MaxLength \in Nat /\ 0 \notin Elements

VARIABLES array,     \* cells: the allocated memory, length: the elements in use
          arrayList, \* the arrays of an array list
          model,     \* the elements the callers put into the array, in order
          listModel, \* the same of the array list
          ended      \* the last operation was an append

arrayVars == <<array, arrayList, model, listModel, ended>>

Empty == [cells |-> <<>>, length |-> 0]
ArrayInit == array = Empty /\ arrayList = <<>> /\ model = <<>> /\ listModel = <<>> /\ ended = FALSE

---------------------------------------------------------------------------
Zeros(n) == [i \in 1..n |-> 0]

\* Chunks of zeros until there are more cells than n.
Grown(a, n) == IF Len(a.cells) > n THEN a
               ELSE [a EXCEPT !.cells = @ \o Zeros(Chunk * (n \div Chunk + 1) - Len(@))]

\* nh_core_updateArrayLength() and the copy: one cell stays free behind the elements.
Appended(a, s) ==
    IF s = <<>> THEN a
    ELSE LET g == Grown(a, a.length + Len(s))
         IN  [length |-> a.length + Len(s),
              cells |-> [i \in 1..Len(g.cells) |-> IF i \in a.length + 1..a.length + Len(s) THEN s[i - a.length] ELSE g.cells[i]]]

\* nh_core_incrementArray() and the caller's writing through the pointer.
ArrayIncremented(a, e) ==
    LET g == Grown(a, a.length) IN [length |-> a.length + 1, cells |-> [g.cells EXCEPT ![a.length + 1] = e]]

\* nh_core_removeTailFromArray() gives back the chunks that are not needed; what it
\* keeps it does not clear.
TailRemoved(a, c) ==
    LET n == a.length - c
        m == Chunk * (n \div Chunk + (IF n % Chunk = 0 THEN 0 ELSE 1))
    IN  [length |-> n, cells |-> SubSeq(a.cells, 1, IF m < Len(a.cells) THEN m ELSE Len(a.cells))]

Content(a) == SubSeq(a.cells, 1, a.length)
From(a, i) == SubSeq(a.cells, i + 1, a.length)

\* Mutant: only the elements to remove are taken from the tail.
CutShort(a, i, c) ==
    IF i >= a.length THEN a ELSE IF i + c >= a.length THEN TailRemoved(a, c) ELSE Appended(TailRemoved(a, c), From(a, i + c))

\* nh_core_removeFromArray(): by way of a copy of what follows.
CutOut(a, i, c) ==
    IF i >= a.length THEN a
    ELSE IF i + c >= a.length THEN TailRemoved(a, c)
    ELSE Appended(TailRemoved(a, a.length - i), From(a, i + c))

\* nh_core_insertIntoArray(): likewise; an index past the end is the end, where removing
\* nothing still gives back the chunks that are not needed.
Inserted(a, i, s) ==
    LET j == IF i >= a.length THEN a.length ELSE i
    IN  Appended(Appended(TailRemoved(a, a.length - j), s), From(a, j))

Becomes(a, m, appends) ==
    Len(m) <= MaxLength /\ array' = a /\ model' = m /\ ended' = appends /\ UNCHANGED <<arrayList, listModel>>

Pieces == UNION {[1..n -> Elements] : n \in 0..2}
AppendTo(s) == Becomes(Appended(array, s), model \o s, s # <<>>)
AppendRepeatedly(e, n) == AppendTo([i \in 1..n |-> e])
IncrementArray(e) == Becomes(ArrayIncremented(array, e), Append(model, e), FALSE)
RemoveTail(c) == c <= array.length /\ Becomes(TailRemoved(array, c), SubSeq(model, 1, Len(model) - c), FALSE)
RemoveElements(i, c) ==
    /\ i + c <= array.length \/ i >= array.length
    /\ Becomes(CutOut(array, i, c), IF i >= Len(model) THEN model ELSE SubSeq(model, 1, i) \o SubSeq(model, i + c + 1, Len(model)), FALSE)
InsertElements(i, s) == Becomes(Inserted(array, i, s), IF i >= Len(model) THEN model \o s ELSE SubSeq(model, 1, i) \o s \o SubSeq(model, i + 1, Len(model)), FALSE)
FreeArray == Becomes(Empty, <<>>, FALSE)

\* nh_core_incrementArrayList(): the first array with room, a new one without; the
\* last cell of an array is never used, so that no array of the list has to grow.
HasRoom(a) == a.length < Chunk - 1
IncrementList(e) ==
    LET open == {k \in 1..Len(arrayList) : HasRoom(arrayList[k])}
    IN  /\ Len(listModel) < MaxLength
        /\ arrayList' = IF open = {} THEN Append(arrayList, ArrayIncremented(Empty, e))
                        ELSE LET k == CHOOSE x \in open : \A y \in open : x <= y
                             IN  [arrayList EXCEPT ![k] = ArrayIncremented(@, e)]
        /\ listModel' = Append(listModel, e)
        /\ UNCHANGED <<array, model, ended>>
FreeList == arrayList' = <<>> /\ listModel' = <<>> /\ UNCHANGED <<array, model, ended>>

ArrayNext ==
    \/ \E s \in Pieces : AppendTo(s) \/ \E i \in 0..MaxLength : InsertElements(i, s)
    \/ \E e \in Elements : IncrementArray(e) \/ IncrementList(e) \/ AppendRepeatedly(e, 2)
    \/ \E c \in 0..MaxLength : RemoveTail(c) \/ \E i \in 0..MaxLength : RemoveElements(i, c)
    \/ FreeArray \/ FreeList
ArraySpec == ArrayInit /\ [][ArrayNext]_arrayVars

---------------------------------------------------------------------------
\* Whatever is appended, inserted and removed, across the chunks and through the
\* copies, an array holds the elements of its callers in their order, within its
\* memory; so does the list of arrays, none of which ever moved its elements.
SameContent ==
    /\ array.length <= Len(array.cells) /\ Content(array) = model
    /\ FlattenSeq([k \in 1..Len(arrayList) |-> Content(arrayList[k])]) = listModel
    /\ \A k \in 1..Len(arrayList) : Len(arrayList[k].cells) = Chunk

\* Array.c:64: "Ensure that the array is null-terminated" of an append.
Terminated == ended => array.length < Len(array.cells) /\ array.cells[array.length + 1] = 0
=============================================================================
