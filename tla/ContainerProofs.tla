--------------------------- MODULE ContainerProofs ---------------------------
(***************************************************************************)
(* A reader of a ring that keeps up reads every item once and in order; a  *)
(* list has the memory its items need; an array has what was put into it.  *)
(* For rings and chunks of any size.                                       *)
(***************************************************************************)
EXTENDS Ring, Lists, Arrays, FiniteSetTheorems, SequenceTheorems, TLAPS

---------------------------------------------------------------------------
(* The ring *)

\* What a cell holds: the item of this round up to the cell written last, of
\* the round before behind it.
Item(c) == IF c <= buffer.index THEN buffer.overflow * ItemCount + c + 1
           ELSE IF buffer.overflow = 0 THEN 0
           ELSE (buffer.overflow - 1) * ItemCount + c + 1

Markers == {m \in [index : -1..ItemCount - 1, overflow : Nat] : m.index = -1 => m.overflow = 0}

\* The marker never passes the buffer.
NotAhead == \/ marker.overflow < buffer.overflow
            \/ marker.overflow = buffer.overflow /\ marker.index <= buffer.index

RingInv ==
    /\ buffer \in Markers /\ marker \in Markers /\ seen \in Nat
    /\ written = Position(buffer)
    /\ data \in [Cells -> Nat] /\ \A c \in Cells : data[c] = Item(c)
    /\ NotAhead

LEMMA NextRound == ASSUME NEW r \in Nat, NEW n \in Nat PROVE r * n \in Nat /\ (r + 1) * n = r * n + n
BY SMT

LEMMA Rounds == ASSUME NEW r \in Nat, NEW q \in Nat, NEW n \in Nat, r < q PROVE q * n >= r * n + n
<1> DEFINE d == q - r - 1
<1>1. d \in Nat /\ q = r + d + 1
    OBVIOUS
<1>2. d * n \in Nat /\ (r + d + 1) * n = r * n + d * n + n
    BY <1>1, SMT
<1> QED
    BY <1>1, <1>2, NextRound, SMT

LEMMA RingStarts == RingInit => RingInv
BY RingAssumption DEF RingInit, RingInv, Markers, Start, Position, Item, Cells, NotAhead

LEMMA AdvanceKeeps == ASSUME RingInv, Advance PROVE RingInv'
<1> USE RingAssumption
<1> DEFINE b == buffer  i == buffer'.index
<1>0. /\ b \in Markers /\ b.index \in -1..ItemCount - 1 /\ b.overflow \in Nat
      /\ buffer' = Advanced(b) /\ written' = written + 1 /\ marker' = marker /\ seen' = seen
      /\ data' = [data EXCEPT ![i] = written + 1]
    BY DEF RingInv, Advance, Markers
<1>1. CASE b.index + 1 # ItemCount
    <2>1. /\ buffer' = [b EXCEPT !.index = @ + 1] /\ i = b.index + 1 /\ buffer'.overflow = b.overflow
          /\ i \in Cells /\ buffer' \in Markers
        BY <1>0, <1>1 DEF Advanced, Markers, Cells
    <2>2. b.overflow * ItemCount \in Nat
        BY <1>0, NextRound
    <2>3. written' = Position(buffer') /\ written' \in Nat
        BY <1>0, <2>1, <2>2 DEF RingInv, Position
    <2>4. /\ data' \in [Cells -> Nat] /\ data'[i] = written'
          /\ \A c \in Cells : c # i => data'[c] = data[c]
        BY <1>0, <2>1, <2>3 DEF RingInv
    <2>5. \A c \in Cells : data'[c] = Item(c)'
        <3>1. \A c \in Cells : c = i => Item(c)' = written'
            BY <2>1, <2>2, <2>3 DEF Item, Position, Cells
        <3>2. \A c \in Cells : c # i => Item(c)' = Item(c)
            BY <1>0, <2>1 DEF Item, Cells
        <3> QED
            BY <1>0, <2>1, <2>4, <3>1, <3>2 DEF RingInv
    <2>6. NotAhead'
        BY <1>0, <2>1 DEF NotAhead, RingInv, Markers
    <2> QED
        BY <1>0, <2>1, <2>3, <2>4, <2>5, <2>6 DEF RingInv
<1>2. CASE b.index + 1 = ItemCount
    <2>1. /\ buffer' = [index |-> 0, overflow |-> b.overflow + 1] /\ i = 0 /\ buffer'.overflow = b.overflow + 1
          /\ i \in Cells /\ buffer' \in Markers
        BY <1>0, <1>2 DEF Advanced, Markers, Cells
    <2>2. /\ b.overflow * ItemCount \in Nat
          /\ (b.overflow + 1) * ItemCount = b.overflow * ItemCount + ItemCount
        BY <1>0, NextRound
    <2>3. written' = Position(buffer') /\ written' \in Nat
        BY <1>0, <1>2, <2>1, <2>2 DEF RingInv, Position
    <2>4. /\ data' \in [Cells -> Nat] /\ data'[i] = written'
          /\ \A c \in Cells : c # i => data'[c] = data[c]
        BY <1>0, <2>1, <2>3 DEF RingInv
    <2>5. \A c \in Cells : data'[c] = Item(c)'
        <3>1. \A c \in Cells : c = i => Item(c)' = written'
            BY <2>1, <2>2, <2>3 DEF Item, Position, Cells
        <3>2. \A c \in Cells : c # i => Item(c)' = Item(c)
            <4> SUFFICES ASSUME NEW c \in Cells, c # i PROVE Item(c)' = Item(c)
                OBVIOUS
            <4>1. Item(c) = b.overflow * ItemCount + c + 1
                BY <1>0, <1>2 DEF Item, Cells
            <4>2. /\ ~(c <= buffer'.index) /\ buffer'.overflow # 0
                  /\ buffer'.overflow - 1 = b.overflow
                BY <1>0, <2>1 DEF Cells
            <4> QED
                BY <4>1, <4>2 DEF Item
        <3> QED
            BY <1>0, <2>1, <2>4, <3>1, <3>2 DEF RingInv
    <2>6. NotAhead'
        BY <1>0, <2>1 DEF NotAhead, RingInv, Markers
    <2> QED
        BY <1>0, <2>1, <2>3, <2>4, <2>5, <2>6 DEF RingInv
<1> QED
    BY <1>1, <1>2

\* A marker that moves does not pass the buffer, and stays inside the ring.
LEMMA IncrementMoves ==
    ASSUME RingInv, Increment
    PROVE  marker' \in Markers /\ marker'.index \in Cells /\ NotAhead'
<1> USE RingAssumption
<1>1. /\ marker.index \in -1..ItemCount - 1 /\ marker.overflow \in Nat /\ marker \in Markers
      /\ buffer.index \in -1..ItemCount - 1 /\ buffer.overflow \in Nat /\ buffer \in Markers
      /\ buffer' = buffer /\ marker' = Incremented(marker) /\ marker # buffer /\ NotAhead
    BY DEF RingInv, Increment, Markers
<1>2. CASE marker.overflow = buffer.overflow
    <2>1. marker.index < buffer.index
        BY <1>1, <1>2 DEF NotAhead, Markers
    <2>2. marker' = [marker EXCEPT !.index = @ + 1]
        BY <1>1, <1>2 DEF Incremented
    <2> QED
        BY <1>1, <1>2, <2>1, <2>2 DEF NotAhead, Markers, Cells
<1>3. CASE marker.overflow # buffer.overflow
    <2>0. marker.overflow < buffer.overflow /\ buffer.index >= 0
        BY <1>1, <1>3 DEF NotAhead, Markers
    <2>1. CASE marker.index + 1 = ItemCount
        <3>1. marker' = [index |-> 0, overflow |-> buffer.overflow]
            BY <1>1, <1>3, <2>1 DEF Incremented
        <3> QED
            BY <1>1, <2>0, <3>1 DEF NotAhead, Markers, Cells
    <2>2. CASE marker.index + 1 # ItemCount
        <3>1. marker' = [marker EXCEPT !.index = @ + 1]
            BY <1>1, <2>2 DEF Incremented
        <3> QED
            BY <1>1, <2>0, <2>2, <3>1 DEF NotAhead, Markers, Cells
    <2> QED
        BY <2>1, <2>2
<1> QED
    BY <1>2, <1>3

LEMMA IncrementKeeps == ASSUME RingInv, Increment PROVE RingInv'
<1>1. marker' \in Markers /\ marker'.index \in Cells /\ NotAhead'
    BY IncrementMoves
<1>2. data' = data /\ buffer' = buffer /\ written' = written /\ seen' = data[marker'.index]
    BY DEF Increment
<1>3. seen' \in Nat
    BY <1>1, <1>2 DEF RingInv
<1> QED
    BY <1>1, <1>2, <1>3 DEF RingInv, Position, Item

\* The step the property is about.
LEMMA IncrementInOrder ==
    ASSUME RingInv, Increment, KeptUp
    PROVE  seen' = Position(marker) + 1 /\ Position(marker') = seen'
<1> USE RingAssumption
<1> DEFINE mo == marker.overflow  mi == marker.index  bo == buffer.overflow  bi == buffer.index
<1>1. /\ mi \in -1..ItemCount - 1 /\ mo \in Nat /\ marker \in Markers
      /\ bi \in -1..ItemCount - 1 /\ bo \in Nat /\ buffer \in Markers
      /\ marker' = Incremented(marker) /\ marker # buffer /\ NotAhead /\ seen' = data[marker'.index]
      /\ \A c \in Cells : data[c] = Item(c)
      /\ written = bo * ItemCount + bi + 1 /\ Position(marker) = mo * ItemCount + mi + 1
    BY DEF RingInv, Increment, Markers, Position
<1>2. mo * ItemCount \in Nat /\ bo * ItemCount \in Nat
    BY <1>1, NextRound
<1>3. CASE mo = bo
    <2>1. mi < bi
        BY <1>1, <1>3 DEF NotAhead, Markers
    <2>2. marker' = [marker EXCEPT !.index = @ + 1] /\ marker'.index = mi + 1 /\ marker'.overflow = mo /\ mi + 1 \in Cells
        BY <1>1, <1>3, <2>1 DEF Incremented, Markers, Cells
    <2>3. data[mi + 1] = bo * ItemCount + (mi + 1) + 1
        BY <1>1, <2>1, <2>2 DEF Item
    <2> QED
        BY <1>1, <1>2, <1>3, <2>2, <2>3 DEF Position
<1>4. CASE mo # bo
    <2>0. mo < bo /\ bi >= 0
        BY <1>1, <1>4 DEF NotAhead, Markers
    <2>1. bo = mo + 1
        <3> SUFFICES ASSUME mo + 1 < bo PROVE FALSE
            BY <1>1, <2>0
        <3>0. mo + 1 \in Nat /\ bo \in Nat /\ ItemCount \in Nat
            BY <1>1
        <3>1. bo * ItemCount >= (mo + 1) * ItemCount + ItemCount /\ (mo + 1) * ItemCount = mo * ItemCount + ItemCount
            BY <1>1, <3>0, NextRound, Rounds
        <3> QED
            BY <1>1, <1>2, <2>0, <3>1 DEF KeptUp
    <2>2. bo * ItemCount = mo * ItemCount + ItemCount
        BY <1>1, <2>1, NextRound
    <2>3. bi <= mi
        BY <1>1, <1>2, <2>2 DEF KeptUp
    <2>4. CASE mi + 1 = ItemCount
        <3>1. marker' = [index |-> 0, overflow |-> bo] /\ marker'.index = 0 /\ marker'.overflow = bo /\ 0 \in Cells
            BY <1>1, <1>4, <2>4 DEF Incremented, Cells
        <3>2. data[0] = bo * ItemCount + 0 + 1
            BY <1>1, <2>0, <3>1 DEF Item
        <3> QED
            BY <1>1, <1>2, <2>2, <2>4, <3>1, <3>2 DEF Position
    <2>5. CASE mi + 1 # ItemCount
        <3>1. marker' = [marker EXCEPT !.index = @ + 1] /\ marker'.index = mi + 1 /\ marker'.overflow = mo /\ mi + 1 \in Cells
            BY <1>1, <2>5 DEF Incremented, Markers, Cells
        <3>2. data[mi + 1] = (bo - 1) * ItemCount + (mi + 1) + 1
            BY <1>1, <2>0, <2>3, <3>1, SMTT(40) DEF Item
        <3>3. bo - 1 = mo
            BY <1>1, <2>1
        <3> QED
            BY <1>1, <1>2, <3>1, <3>2, <3>3 DEF Position
    <2> QED
        BY <2>4, <2>5
<1> QED
    BY <1>3, <1>4

LEMMA RingSteps == RingInv /\ [RingNext]_ringVars => RingInv'
<1> SUFFICES ASSUME RingInv, [RingNext]_ringVars PROVE RingInv'
    OBVIOUS
<1>1. CASE Advance
    BY <1>1, AdvanceKeeps
<1>2. CASE Increment
    BY <1>2, IncrementKeeps
<1>3. CASE UNCHANGED ringVars
    BY <1>3 DEF ringVars, RingInv, Position, Item, NotAhead
<1> QED
    BY <1>1, <1>2, <1>3 DEF RingNext

\* A reader at most a round behind the writer reads each item once and in
\* order, and its marker counts what it has read (nh_core_incrementRingBufferMarker).
THEOREM RingInOrder == RingSpec => InOrder
<1>1. RingInv /\ [RingNext]_ringVars
        => [KeptUp /\ marker' # marker => seen' = Position(marker) + 1 /\ Position(marker') = seen']_ringVars
    <2> SUFFICES ASSUME RingInv, RingNext, KeptUp, marker' # marker
                 PROVE  seen' = Position(marker) + 1 /\ Position(marker') = seen'
        BY DEF ringVars
    <2>1. Increment
        BY DEF RingNext, Advance
    <2> QED
        BY <2>1, IncrementInOrder
<1> QED
    BY <1>1, RingStarts, RingSteps, PTL DEF RingSpec, InOrder

---------------------------------------------------------------------------
(* Induction *)

\* Induction, for a set of numbers: below a number not in S, adding 1 would map a finite set
\* onto itself, and nothing to 0.
LEMMA SetInduction ==
    ASSUME NEW S, 0 \in S, \A n \in Nat : n \in S => n + 1 \in S
    PROVE  Nat \subseteq S
<1> SUFFICES ASSUME NEW m \in Nat, m \notin S PROVE FALSE
    OBVIOUS
<1> DEFINE A == (0..m) \cap S
           f == [k \in A |-> k + 1]
<1>1. IsFiniteSet(A)
    <2>1. IsFiniteSet(0..m) /\ A \in SUBSET (0..m)
        BY FS_Interval
    <2> QED
        BY <2>1, FS_Subset
<1>2. 0 \in A /\ \A k \in A : k + 1 \in A
    OBVIOUS
<1>3. f \in Injection(A, A)
    BY <1>2 DEF Injection, IsInjective
<1>4. f \in Surjection(A, A)
    BY <1>1, <1>3, FS_Injection
<1>5. PICK k \in A : f[k] = 0
    BY <1>2, <1>4 DEF Surjection
<1> QED
    BY <1>5

\* A function defined by what its value at n makes of the one at n - 1.
LEMMA RecursionExists ==
    ASSUME NEW V, NEW a \in V, NEW d \in [V -> V]
    PROVE  \E f \in [Nat -> V] : f[0] = a /\ \A n \in Nat \ {0} : f[n] = d[f[n - 1]]
<1> DEFINE Upto(n, g) == g \in [0..n -> V] /\ g[0] = a /\ \A k \in 1..n : g[k] = d[g[k - 1]]
           S == {n \in Nat : \E g : Upto(n, g)}
           G(n) == CHOOSE g : Upto(n, g)
           F == [n \in Nat |-> G(n)[n]]
<1>1. 0 \in S
    <2>1. Upto(0, [k \in 0..0 |-> a])
        OBVIOUS
    <2> QED
        BY <2>1
<1>2. \A n \in Nat : n \in S => n + 1 \in S
    <2> SUFFICES ASSUME NEW n \in Nat, NEW g, Upto(n, g) PROVE \E h : Upto(n + 1, h)
        OBVIOUS
    <2> DEFINE h == [k \in 0..(n + 1) |-> IF k = n + 1 THEN d[g[n]] ELSE g[k]]
    <2>1. h \in [0..(n + 1) -> V] /\ h[0] = a
        OBVIOUS
    <2>2. \A k \in 1..(n + 1) : h[k] = d[h[k - 1]]
        OBVIOUS
    <2> QED
        BY <2>1, <2>2
<1>3. \A n \in Nat : Upto(n, G(n))
    <2>1. Nat \subseteq S
        BY <1>1, <1>2, SetInduction
    <2> QED
        BY <2>1
<1>4. \A n, m \in Nat : \A g, h : (n <= m /\ Upto(n, g) /\ Upto(m, h)) => g[n] = h[n]
    <2> SUFFICES ASSUME NEW n \in Nat, NEW m \in Nat, NEW g, NEW h, n <= m, Upto(n, g), Upto(m, h)
                 PROVE  g[n] = h[n]
        BY SMTT(40)
    <2> DEFINE T == {k \in Nat : k <= n => g[k] = h[k]}
    <2>1. 0 \in T
        OBVIOUS
    <2>2. \A k \in Nat : k \in T => k + 1 \in T
        <3> SUFFICES ASSUME NEW k \in Nat, g[k] = h[k], k + 1 <= n PROVE g[k + 1] = h[k + 1]
            OBVIOUS
        <3>1. k + 1 \in 1..n /\ k + 1 \in 1..m /\ (k + 1) - 1 = k
            OBVIOUS
        <3> QED
            BY <3>1
    <2>3. Nat \subseteq T
        BY <2>1, <2>2, SetInduction
    <2> QED
        BY <2>3
<1> HIDE DEF G
<1>5. \A n \in Nat : G(n)[n] \in V /\ G(0)[0] = a
    BY <1>3
<1>6. \A n \in Nat \ {0} : G(n)[n] = d[G(n - 1)[n - 1]]
    <2> TAKE n \in Nat \ {0}
    <2>1. n - 1 \in Nat /\ n \in 1..n /\ n - 1 <= n /\ n \in Nat
        OBVIOUS
    <2>2. Upto(n, G(n)) /\ Upto(n - 1, G(n - 1))
        BY <1>3, <2>1
    <2>3. G(n - 1)[n - 1] = G(n)[n - 1]
        <3> HIDE DEF Upto
        <3> QED
            BY <1>4, <2>1, <2>2
    <2>4. G(n)[n] = d[G(n)[n - 1]]
        BY <2>1, <2>2
    <2> QED
        BY <2>3, <2>4
<1>7. F \in [Nat -> V] /\ F[0] = a
    BY <1>5
<1>8. \A n \in Nat \ {0} : F[n] = d[F[n - 1]]
    <2> TAKE n \in Nat \ {0}
    <2>1. F[n] = G(n)[n] /\ F[n - 1] = G(n - 1)[n - 1]
        OBVIOUS
    <2> QED
        BY <1>6, <2>1
<1> HIDE DEF F
<1> QED
    BY <1>7, <1>8

---------------------------------------------------------------------------
(* The list *)

\* What a list can hold, and the values the code's NH_CORE_List takes.
Items == Handles \cup {NULL}
ListValues == [pp : Seq(Items), chunkCount : Nat]

\* ListFits, for any list.
Fits(l) == IF Len(l.pp) = 0 THEN l.chunkCount = 0
           ELSE ChunkSize * (l.chunkCount - 1) < Len(l.pp) /\ Len(l.pp) <= ChunkSize * l.chunkCount

LEMMA ChunkFacts ==
    ASSUME NEW k \in Nat, NEW c \in Nat
    PROVE  /\ k * c \in Nat /\ k * (c + 1) = k * c + k /\ k * ((c + 1) - 1) = k * c /\ (c = 0 => k * c = 0)
           /\ k * (c - 1) \in Int /\ k * (c - 1) = k * c - k /\ k * ((c - 1) - 1) = k * (c - 1) - k
BY SMT

LEMMA AppendedIsList == ASSUME NEW l \in ListValues, NEW h \in Items PROVE ListAppended(l, h) \in ListValues
<1>1. Append(l.pp, h) \in Seq(Items) /\ l.chunkCount \in Nat
    BY DEF ListValues
<1>2. (IF Len(l.pp) >= ChunkSize * l.chunkCount THEN l.chunkCount + 1 ELSE l.chunkCount) \in Nat
    BY <1>1
<1> QED
    BY <1>1, <1>2 DEF ListAppended, ListValues

\* Appending takes a chunk exactly when the last one is full.
LEMMA AppendedFits == ASSUME NEW l \in ListValues, NEW h \in Items, Fits(l) PROVE Fits(ListAppended(l, h))
<1> USE ListAssumption
<1> DEFINE n == Len(l.pp)  c == l.chunkCount  r == ListAppended(l, h)
<1>1. n \in Nat /\ c \in Nat /\ Len(r.pp) = n + 1
    BY DEF ListValues, ListAppended
<1>2. r.chunkCount = IF n >= ChunkSize * c THEN c + 1 ELSE c
    BY DEF ListAppended
<1>3. /\ ChunkSize * c \in Nat /\ ChunkSize * (c + 1) = ChunkSize * c + ChunkSize
      /\ ChunkSize * ((c + 1) - 1) = ChunkSize * c /\ (c = 0 => ChunkSize * c = 0)
      /\ ChunkSize * (c - 1) \in Int
    BY <1>1, ChunkFacts
<1>4. IF n = 0 THEN c = 0 ELSE ChunkSize * (c - 1) < n /\ n <= ChunkSize * c
    BY DEF Fits
<1> HIDE DEF n, c, r
<1>5. Len(r.pp) # 0 /\ ChunkSize * (r.chunkCount - 1) < Len(r.pp) /\ Len(r.pp) <= ChunkSize * r.chunkCount
    <2>1. CASE n >= ChunkSize * c
        <3>1. r.chunkCount = c + 1 /\ n = ChunkSize * c
            BY <1>1, <1>2, <1>3, <1>4, <2>1
        <3> QED
            BY <1>1, <1>3, <3>1
    <2>2. CASE ~(n >= ChunkSize * c)
        <3>1. r.chunkCount = c /\ n # 0
            BY <1>1, <1>2, <1>3, <1>4, <2>2
        <3> QED
            BY <1>1, <1>3, <1>4, <2>2, <3>1
    <2> QED
        BY <2>1, <2>2
<1> QED
    BY <1>5 DEF Fits, r

LEMMA PaddedFits ==
    ASSUME List \in ListValues, Fits(List), NEW n \in Nat
    PROVE  Padded[n] \in ListValues /\ Fits(Padded[n])
<1> DEFINE d == [l \in ListValues |-> ListAppended(l, NULL)]
<1>1. d \in [ListValues -> ListValues]
    BY AppendedIsList DEF Items
<1>2. PICK f \in [Nat -> ListValues] : f[0] = List /\ \A k \in Nat \ {0} : f[k] = d[f[k - 1]]
    <2>1. List \in ListValues
        OBVIOUS
    <2> HIDE DEF d
    <2> QED
        BY <1>1, <2>1, RecursionExists
<1>3. f = [k \in Nat |-> IF k = 0 THEN List ELSE ListAppended(f[k - 1], NULL)]
    <2>1. \A k \in Nat \ {0} : f[k] = ListAppended(f[k - 1], NULL)
        <3> TAKE k \in Nat \ {0}
        <3>1. f[k - 1] \in ListValues /\ f[k] = d[f[k - 1]]
            BY <1>2
        <3> QED
            BY <3>1
    <2> QED
        BY <1>2, <2>1
<1>4. Padded = [k \in Nat |-> IF k = 0 THEN List ELSE ListAppended(Padded[k - 1], NULL)]
    BY <1>3 DEF Padded
<1> HIDE DEF d
<1> DEFINE S == {k \in Nat : Padded[k] \in ListValues /\ Fits(Padded[k])}
<1>5. 0 \in S
    BY <1>4
<1>6. \A k \in Nat : k \in S => k + 1 \in S
    <2> SUFFICES ASSUME NEW k \in Nat, Padded[k] \in ListValues, Fits(Padded[k])
                 PROVE  Padded[k + 1] \in ListValues /\ Fits(Padded[k + 1])
        OBVIOUS
    <2>1. k + 1 \in Nat /\ k + 1 # 0 /\ (k + 1) - 1 = k
        OBVIOUS
    <2>2. Padded[k + 1] = ListAppended(Padded[k], NULL)
        BY <1>4, <2>1
    <2> QED
        BY <2>2, AppendedIsList, AppendedFits DEF Items
<1>7. Nat \subseteq S
    BY <1>5, <1>6, SetInduction
<1> QED
    BY <1>7

\* An item taken out: a chunk that became empty is given back, the last item gives back all.
LEMMA RemovedFits ==
    ASSUME List \in ListValues, Fits(List), pp # <<>>, NEW i \in Nat
    PROVE  ListRemoved(i) \in ListValues /\ Fits(ListRemoved(i))
<1> USE ListAssumption
<1> DEFINE j == IF i >= Len(pp) THEN Len(pp) - 1 ELSE i
           s == WithoutItem(pp, j)
           n == Len(pp)  c == chunkCount  r == ListRemoved(i)
<1>1. pp \in Seq(Items) /\ n \in Nat \ {0} /\ c \in Nat /\ j \in 0..(n - 1)
    BY DEF List, ListValues
<1>2. s \in Seq(Items) /\ Len(s) = n - 1
    <2>1. \A k \in 1..(n - 1) : (IF k <= j THEN pp[k] ELSE pp[k + 1]) \in Items
        BY <1>1
    <2>2. s = [k \in 1..(n - 1) |-> IF k <= j THEN pp[k] ELSE pp[k + 1]]
        BY DEF WithoutItem
    <2>3. n - 1 \in Nat
        BY <1>1
    <2> HIDE DEF s, n, j
    <2> QED
        BY <2>1, <2>2, <2>3
<1>3. r = [pp |-> s, chunkCount |-> IF Len(s) = 0 THEN 0 ELSE IF Len(s) = ChunkSize * (c - 1) THEN c - 1 ELSE c]
    BY DEF ListRemoved
<1>4. ChunkSize * (c - 1) < n /\ n <= ChunkSize * c
    BY <1>1 DEF Fits, List
<1>5. /\ ChunkSize * c \in Nat /\ ChunkSize * (c - 1) = ChunkSize * c - ChunkSize
      /\ ChunkSize * ((c - 1) - 1) = ChunkSize * (c - 1) - ChunkSize /\ (c = 0 => ChunkSize * c = 0)
    BY <1>1, ChunkFacts
<1> HIDE DEF s, n, c, r, j
<1>6. c # 0
    BY <1>1, <1>4, <1>5
<1>7. r \in ListValues
    BY <1>1, <1>2, <1>3, <1>6 DEF ListValues
<1>8. Fits(r)
    BY <1>1, <1>2, <1>3, <1>4, <1>5 DEF Fits
<1> QED
    BY <1>7, <1>8 DEF r

LEMMA InsertedFits ==
    ASSUME List \in ListValues, Fits(List), NEW h \in Items, NEW i \in Nat
    PROVE  ListInserted(h, i) \in ListValues /\ Fits(ListInserted(h, i))
<1> DEFINE n == IF Len(pp) <= i THEN i + 1 - Len(pp) ELSE 0
           l == Padded[n]
           s == [j \in 1..Len(l.pp) |-> IF j <= i THEN l.pp[j] ELSE IF j = i + 1 THEN h ELSE l.pp[j - 1]]
<1>1. n \in Nat
    BY DEF List, ListValues
<1>2. l \in ListValues /\ Fits(l)
    <2> HIDE DEF n
    <2> QED
        BY <1>1, PaddedFits
<1>3. ListInserted(h, i) = [l EXCEPT !.pp = s]
    BY DEF ListInserted
<1> HIDE DEF l
<1>4. s \in Seq(Items) /\ Len(s) = Len(l.pp)
    <2>1. l.pp \in Seq(Items) /\ Len(l.pp) \in Nat
        BY <1>2 DEF ListValues
    <2>2. \A j \in 1..Len(l.pp) : (IF j <= i THEN l.pp[j] ELSE IF j = i + 1 THEN h ELSE l.pp[j - 1]) \in Items
        BY <2>1
    <2> QED
        BY <2>1, <2>2
<1> HIDE DEF s
<1>5. [l EXCEPT !.pp = s] = [pp |-> s, chunkCount |-> l.chunkCount] /\ l.chunkCount \in Nat
    BY <1>2 DEF ListValues
<1> QED
    BY <1>2, <1>3, <1>4, <1>5 DEF ListValues, Fits

ListInv == List \in ListValues /\ Fits(List)

LEMMA BecomesFits == ASSUME NEW l \in ListValues, Fits(l), ListBecomes(l) PROVE ListInv'
<1>1. List' = [pp |-> l.pp, chunkCount |-> l.chunkCount]
    BY DEF ListBecomes, List
<1>2. List' = l
    BY <1>1 DEF ListValues
<1> QED
    BY <1>2 DEF ListInv, Fits

LEMMA ListSteps == ASSUME ListInv, [ListNext]_listVars PROVE ListInv'
<1> USE ListAssumption
<1>1. CASE UNCHANGED <<pp, chunkCount>>
    BY <1>1 DEF ListInv, List, Fits
<1>2. ASSUME NEW h \in Handles, AppendItem(h) PROVE ListInv'
    <2>1. h \in Items /\ ListBecomes(ListAppended(List, h))
        BY <1>2 DEF AppendItem, Items
    <2> QED
        BY <2>1, AppendedIsList, AppendedFits, BecomesFits DEF ListInv
<1>3. ASSUME pp # <<>>, NEW i \in Nat, ListBecomes(ListRemoved(i)) PROVE ListInv'
    BY <1>3, RemovedFits, BecomesFits DEF ListInv
<1>4. ASSUME NEW h \in Handles, RemoveHandle(h) PROVE ListInv'
    <2>1. Len(pp) \in Nat /\ pp \in Seq(Items)
        BY DEF ListInv, List, ListValues
    <2>2. At(h) # {} /\ At(h) \subseteq Nat /\ ListBecomes(ListRemoved(FirstAt(h)))
        BY <1>4, <2>1 DEF RemoveHandle, At
    <2>3. pp # <<>>
        BY <2>1, <2>2 DEF At
    <2>4. FirstAt(h) \in Nat
        <3>1. \E i \in At(h) : \A j \in At(h) : i <= j
            <4> DEFINE S == {k \in Nat : \A j \in At(h) : k <= j}
            <4>1. 0 \in S
                BY <2>2
            <4>2. CASE \E k \in Nat : k \in S /\ k + 1 \notin S
                BY <2>2, <4>2
            <4>3. CASE \A k \in Nat : k \in S => k + 1 \in S
                <5>1. Nat \subseteq S
                    BY <4>1, <4>3, SetInduction
                <5>2. PICK j \in At(h) : TRUE
                    BY <2>2
                <5>3. j + 1 \in S
                    BY <2>2, <5>1
                <5> QED
                    BY <2>2, <5>2, <5>3
            <4> QED
                BY <4>2, <4>3
        <3> QED
            BY <2>2, <3>1 DEF FirstAt
    <2> QED
        BY <1>3, <2>2, <2>3, <2>4
<1>5. ASSUME NEW h \in Handles, NEW i \in 0..MaxSize - 1, InsertItem(h, i) PROVE ListInv'
    <2>1. h \in Items /\ i \in Nat /\ ListBecomes(ListInserted(h, i))
        BY <1>5 DEF InsertItem, Items
    <2> QED
        BY <2>1, InsertedFits, BecomesFits DEF ListInv
<1>6. ASSUME NEW i \in 0..MaxSize, RemoveItem(i) PROVE ListInv'
    BY <1>3, <1>6 DEF RemoveItem
<1>7. CASE Dequeue \/ Pop
    <2>1. pp # <<>> /\ Len(pp) - 1 \in Nat
        BY <1>7 DEF Dequeue, Pop, ListInv, List, ListValues
    <2> QED
        BY <1>3, <1>7, <2>1 DEF Dequeue, Pop
<1>8. CASE FreeAll
    BY <1>8 DEF FreeAll, ListInv, List, ListValues, Fits
<1>9. ASSUME NEW h \in Handles, GetNext(h) PROVE ListInv'
    BY <1>1, <1>9 DEF GetNext
<1> QED
    BY <1>1, <1>2, <1>4, <1>5, <1>6, <1>7, <1>8, <1>9 DEF ListNext, listVars

\* However items are appended, inserted past the end, searched and removed, a list, queue or
\* stack has the chunks its items need, for any size of a chunk and any number of items: what
\* nh_core_appendToList() writes lies in the memory it has, and none is kept for nothing.
THEOREM ListsFit == ListSpec => []ListFits
<1>1. ListInit => ListInv
    BY DEF ListInit, ListInv, List, ListValues, Fits
<1>2. ListInv /\ [ListNext]_listVars => ListInv'
    BY ListSteps
<1>3. ListInv => ListFits
    BY DEF ListInv, List, ListValues, Fits, ListFits
<1> QED
    BY <1>1, <1>2, <1>3, PTL DEF ListSpec

---------------------------------------------------------------------------
(* The array *)

LEMMA FunctionIsSeq ==
    ASSUME NEW X, NEW n \in Nat, NEW f \in [1..n -> X]
    PROVE  f \in Seq(X) /\ Len(f) = n
OBVIOUS

LEMMA SameSeq ==
    ASSUME NEW X, NEW s \in Seq(X), NEW t \in Seq(X), Len(s) = Len(t), \A i \in 1..Len(s) : s[i] = t[i]
    PROVE  s = t
OBVIOUS

LEMMA ConcatIs ==
    ASSUME NEW X, NEW s \in Seq(X), NEW t \in Seq(X)
    PROVE  /\ s \o t \in Seq(X) /\ Len(s \o t) = Len(s) + Len(t) /\ Len(s) \in Nat /\ Len(t) \in Nat
           /\ \A i \in 1..Len(s) : (s \o t)[i] = s[i]
           /\ \A i \in 1..Len(t) : (s \o t)[Len(s) + i] = t[i]
OBVIOUS

\* What memory holds: elements, and the zeros of a fresh chunk.
Contents == Elements \cup {0}
ArrayValues == {a \in [cells : Seq(Contents), length : Nat] : a.length <= Len(a.cells)}

LEMMA ArrayIs ==
    ASSUME NEW a \in ArrayValues
    PROVE  /\ a.cells \in Seq(Contents) /\ Len(a.cells) \in Nat /\ a.length \in Nat /\ a.length <= Len(a.cells)
           /\ \A i \in 1..a.length : i \in 1..Len(a.cells)
BY DEF ArrayValues

LEMMA ContentIs ==
    ASSUME NEW a \in ArrayValues
    PROVE  /\ Content(a) \in Seq(Contents) /\ Len(Content(a)) = a.length
           /\ \A i \in 1..a.length : Content(a)[i] = a.cells[i]
<1>1. Len(Content(a)) = a.length /\ \A i \in 1..a.length : Content(a)[i] = a.cells[i]
    BY ArrayIs DEF Content
<1>2. \A i \in 1..a.length : a.cells[i] \in Contents
    BY ArrayIs
<1>3. Content(a) \in Seq(Contents)
    BY <1>2, ArrayIs, SubSeqProperties DEF Content
<1> QED
    BY <1>1, <1>3

LEMMA FromIs ==
    ASSUME NEW a \in ArrayValues, NEW i \in Nat, i < a.length
    PROVE  /\ From(a, i) \in Seq(Contents) /\ Len(From(a, i)) = a.length - i
           /\ \A k \in 1..(a.length - i) : From(a, i)[k] = a.cells[i + k]
<1>1. Len(From(a, i)) = a.length - i /\ \A k \in 1..(a.length - i) : From(a, i)[k] = a.cells[i + k]
    BY SMTT(40), ArrayIs DEF From
<1>2. \A k \in 1..a.length : a.cells[k] \in Contents
    BY ArrayIs
<1>3. From(a, i) \in Seq(Contents)
    BY <1>2, ArrayIs, SubSeqProperties DEF From
<1> QED
    BY <1>1, <1>3

LEMMA Rounded ==
    ASSUME NEW c \in Nat \ {0}, NEW n \in Nat
    PROVE  /\ n \div c \in Nat /\ n < c * (n \div c + 1) /\ c * (n \div c + 1) \in Nat
           /\ c * (n \div c + (IF n % c = 0 THEN 0 ELSE 1)) \in Nat
           /\ n <= c * (n \div c + (IF n % c = 0 THEN 0 ELSE 1))
BY SMT

\* Growing makes room for one more than n and keeps what is there.
LEMMA GrownIs ==
    ASSUME NEW a \in ArrayValues, NEW n \in Nat
    PROVE  /\ Grown(a, n).cells \in Seq(Contents) /\ Grown(a, n).length = a.length
           /\ Len(Grown(a, n).cells) > n /\ Len(Grown(a, n).cells) >= Len(a.cells)
           /\ \A i \in 1..Len(a.cells) : Grown(a, n).cells[i] = a.cells[i]
<1> USE ArrayAssumption
<1> DEFINE m == Chunk * (n \div Chunk + 1)
           z == Zeros(m - Len(a.cells))
<1>1. m \in Nat /\ m > n
    BY Rounded
<1> HIDE DEF m
<1>2. CASE Len(a.cells) > n
    <2>1. Grown(a, n) = a
        BY <1>2 DEF Grown
    <2> HIDE DEF m, z
    <2> QED
        BY <1>2, <2>1, ArrayIs
<1>3. CASE ~(Len(a.cells) > n)
    <2>1. z \in Seq(Contents) /\ Len(z) = m - Len(a.cells)
        BY <1>1, <1>3, ArrayIs DEF Zeros, Contents
    <2>2. Grown(a, n) = [a EXCEPT !.cells = a.cells \o z]
        BY <1>3 DEF Grown, m
    <2>3. Grown(a, n).cells = a.cells \o z /\ Grown(a, n).length = a.length
        BY <2>2 DEF ArrayValues
    <2> HIDE DEF z
    <2> QED
        BY <1>1, <1>3, <2>1, <2>3, ArrayIs
<1> QED
    BY <1>2, <1>3

LEMMA AppendedIs ==
    ASSUME NEW a \in ArrayValues, NEW s \in Seq(Contents)
    PROVE  /\ Appended(a, s) \in ArrayValues
           /\ Content(Appended(a, s)) = Content(a) \o s
<1>1. CASE s = <<>>
    BY <1>1, ContentIs DEF Appended
<1>2. CASE s # <<>>
    <2> DEFINE n == a.length + Len(s)
               g == Grown(a, n)
               r == Appended(a, s)
    <2>1. n \in Nat /\ Len(s) \in Nat /\ a.length \in Nat /\ n = a.length + Len(s)
        BY ArrayIs
    <2>2. /\ g.cells \in Seq(Contents) /\ Len(g.cells) > n /\ Len(g.cells) >= Len(a.cells)
          /\ \A i \in 1..Len(a.cells) : g.cells[i] = a.cells[i]
        BY <2>1, GrownIs
    <2>3. /\ r.length = n
          /\ r.cells = [i \in 1..Len(g.cells) |-> IF i \in (a.length + 1)..n THEN s[i - a.length] ELSE g.cells[i]]
          /\ r = [length |-> r.length, cells |-> r.cells]
        BY <1>2 DEF Appended
    <2> HIDE DEF n, g, r
    <2>4. Len(g.cells) \in Nat /\ \A i \in 1..Len(g.cells) : r.cells[i] \in Contents
        BY <2>1, <2>2, <2>3
    <2>5. r.cells \in Seq(Contents) /\ Len(r.cells) = Len(g.cells)
        <3>1. r.cells \in [1..Len(g.cells) -> Contents]
            BY <2>3, <2>4
        <3> QED
            BY <2>4, <3>1, FunctionIsSeq
    <2>6. r \in ArrayValues
        <3>1. r.length \in Nat /\ r.length <= Len(r.cells)
            BY <2>1, <2>2, <2>3, <2>4, <2>5
        <3>2. [length |-> r.length, cells |-> r.cells] \in [cells : Seq(Contents), length : Nat]
            BY <2>5, <3>1
        <3> QED
            BY <2>3, <3>1, <3>2 DEF ArrayValues
    <2>7. Len(Content(a) \o s) = n /\ Content(a) \o s \in Seq(Contents) /\ Content(r) \in Seq(Contents) /\ Len(Content(r)) = n
        BY <2>1, <2>3, <2>6, ContentIs, ConcatIs
    <2>8. ASSUME NEW i \in 1..n PROVE Content(r)[i] = (Content(a) \o s)[i]
        <3>1. Content(r)[i] = r.cells[i] /\ i \in 1..Len(g.cells)
            BY SMTT(40), <2>1, <2>2, <2>3, <2>6, ContentIs
        <3>2. CASE i <= a.length
            <4>1. r.cells[i] = a.cells[i]
                BY <2>1, <2>2, <2>3, <3>1, <3>2, ArrayIs
            <4>2. (Content(a) \o s)[i] = Content(a)[i] /\ Content(a)[i] = a.cells[i]
                BY <2>1, <3>2, ContentIs
            <4> QED
                BY <3>1, <4>1, <4>2
        <3>3. CASE ~(i <= a.length)
            <4>1. r.cells[i] = s[i - a.length]
                BY <2>1, <2>3, <3>1, <3>3
            <4>2. (Content(a) \o s)[i] = s[i - a.length]
                BY <2>1, <3>3, ContentIs, SMTT(40)
            <4> QED
                BY <3>1, <4>1, <4>2
        <3> QED
            BY <3>2, <3>3
    <2>9. Content(r) = Content(a) \o s
        BY <2>7, <2>8, SameSeq
    <2> QED
        BY <2>6, <2>9 DEF r
<1> QED
    BY <1>1, <1>2

LEMMA IncrementedIs ==
    ASSUME NEW a \in ArrayValues, NEW e \in Contents
    PROVE  /\ ArrayIncremented(a, e) \in ArrayValues
           /\ Content(ArrayIncremented(a, e)) = Append(Content(a), e)
<1> DEFINE g == Grown(a, a.length)
           r == ArrayIncremented(a, e)
<1>1. a.length \in Nat
    BY ArrayIs
<1>2. /\ g.cells \in Seq(Contents) /\ Len(g.cells) > a.length /\ Len(g.cells) >= Len(a.cells)
      /\ \A i \in 1..Len(a.cells) : g.cells[i] = a.cells[i]
    BY <1>1, GrownIs
<1>3. /\ r.length = a.length + 1 /\ r.cells = [g.cells EXCEPT ![a.length + 1] = e]
      /\ r = [length |-> r.length, cells |-> r.cells]
    BY DEF ArrayIncremented
<1> HIDE DEF g, r
<1>4. /\ r.cells \in Seq(Contents) /\ Len(r.cells) = Len(g.cells) /\ r.cells[a.length + 1] = e
      /\ \A i \in 1..a.length : r.cells[i] = a.cells[i]
    BY <1>1, <1>2, <1>3, ArrayIs
<1>5. r \in ArrayValues
    BY <1>1, <1>2, <1>3, <1>4, SMTT(40) DEF ArrayValues
<1>6. /\ Content(r) \in Seq(Contents) /\ Len(Content(r)) = a.length + 1
      /\ Append(Content(a), e) \in Seq(Contents) /\ Len(Append(Content(a), e)) = a.length + 1
    BY <1>1, <1>3, <1>5, ContentIs
<1>7. \A i \in 1..(a.length + 1) : Content(r)[i] = r.cells[i]
    BY <1>3, <1>5, ContentIs
<1>8. \A i \in 1..(a.length + 1) : Append(Content(a), e)[i] = r.cells[i]
    BY <1>1, <1>4, ContentIs
<1>9. Content(r) = Append(Content(a), e)
    BY <1>6, <1>7, <1>8
<1> QED
    BY <1>5, <1>9 DEF r

\* Chunks are given back, but none that an element is in.
LEMMA TailRemovedIs ==
    ASSUME NEW a \in ArrayValues, NEW c \in Nat, c <= a.length
    PROVE  /\ TailRemoved(a, c) \in ArrayValues
           /\ Content(TailRemoved(a, c)) = SubSeq(Content(a), 1, a.length - c)
<1> USE ArrayAssumption
<1> DEFINE n == a.length - c
           m == Chunk * (n \div Chunk + (IF n % Chunk = 0 THEN 0 ELSE 1))
           k == IF m < Len(a.cells) THEN m ELSE Len(a.cells)
           r == TailRemoved(a, c)
<1>1. n \in Nat /\ n <= a.length
    BY ArrayIs
<1>2. r.length = n /\ r.cells = SubSeq(a.cells, 1, k) /\ r = [length |-> r.length, cells |-> r.cells]
    BY DEF TailRemoved
<1>3. m \in Nat /\ n <= m
    <2> HIDE DEF n
    <2> QED
        BY <1>1, Rounded
<1> HIDE DEF m, r
<1>4. k \in Nat /\ n <= k /\ k <= Len(a.cells)
    BY <1>1, <1>3, ArrayIs
<1> HIDE DEF n, k
<1>5. r.cells \in Seq(Contents) /\ Len(r.cells) = k /\ \A i \in 1..k : r.cells[i] = a.cells[i]
    <2>1. \A i \in 1..k : a.cells[i] \in Contents
        BY <1>4, ArrayIs
    <2>2. SubSeq(a.cells, 1, k) \in Seq(Contents)
        BY <1>4, <2>1, ArrayIs, SubSeqProperties
    <2> QED
        BY <1>2, <1>4, <2>2, ArrayIs
<1>6. r \in ArrayValues
    BY <1>1, <1>2, <1>4, <1>5 DEF ArrayValues
<1>7. Content(r) \in Seq(Contents) /\ Len(Content(r)) = n /\ \A i \in 1..n : Content(r)[i] = a.cells[i]
    BY <1>1, <1>2, <1>4, <1>5, <1>6, ContentIs, SMTT(40)
<1>8. /\ Len(SubSeq(Content(a), 1, n)) = n
      /\ \A i \in 1..n : SubSeq(Content(a), 1, n)[i] = a.cells[i]
      /\ SubSeq(Content(a), 1, n) \in Seq(Contents)
    <2>1. \A i \in 1..n : Content(a)[i] \in Contents /\ Content(a)[i] = a.cells[i]
        BY <1>1, ContentIs, ArrayIs
    <2>2. SubSeq(Content(a), 1, n) \in Seq(Contents)
        BY <1>1, <2>1, ContentIs, ArrayIs, SubSeqProperties
    <2> QED
        BY <1>1, <2>1, <2>2, ContentIs, ArrayIs
<1>9. Content(r) = SubSeq(Content(a), 1, n)
    BY <1>1, <1>7, <1>8
<1> QED
    BY <1>6, <1>9 DEF n, r

LEMMA FromIsRest ==
    ASSUME NEW a \in ArrayValues, NEW i \in Nat, i < a.length
    PROVE  From(a, i) = SubSeq(Content(a), i + 1, a.length)
<1> DEFINE s == SubSeq(Content(a), i + 1, a.length)
<1>1. /\ Content(a) \in Seq(Contents) /\ Len(Content(a)) = a.length /\ a.length \in Nat
      /\ \A k \in 1..a.length : Content(a)[k] = a.cells[k] /\ Content(a)[k] \in Contents
    BY ContentIs, ArrayIs
<1>2. s \in Seq(Contents)
    BY <1>1, SubSeqProperties
<1>3. Len(s) = a.length - i /\ \A k \in 1..(a.length - i) : s[k] = a.cells[i + k]
    BY <1>1
<1> HIDE DEF s
<1>4. /\ From(a, i) \in Seq(Contents) /\ Len(From(a, i)) = a.length - i
      /\ \A k \in 1..(a.length - i) : From(a, i)[k] = a.cells[i + k]
    BY FromIs
<1>5. Len(From(a, i)) = Len(s) /\ \A k \in 1..Len(From(a, i)) : From(a, i)[k] = s[k]
    BY <1>3, <1>4
<1>6. From(a, i) = s
    BY <1>2, <1>4, <1>5, SameSeq
<1> QED
    BY <1>6 DEF s

LEMMA PartIs ==
    ASSUME NEW X, NEW s \in Seq(X), NEW i \in Nat, i <= Len(s)
    PROVE  /\ SubSeq(s, 1, i) \in Seq(X) /\ SubSeq(s, i + 1, Len(s)) \in Seq(X)
           /\ SubSeq(s, 1, Len(s)) = s /\ SubSeq(s, Len(s) + 1, Len(s)) = <<>>
<1>1. Len(s) \in Nat /\ \A k \in 1..Len(s) : s[k] \in X
    OBVIOUS
<1>2. SubSeq(s, 1, i) \in Seq(X)
    BY <1>1, SubSeqProperties
<1>3. SubSeq(s, i + 1, Len(s)) \in Seq(X)
    BY <1>1, SubSeqProperties
<1>4. SubSeq(s, 1, Len(s)) = s
    BY <1>1
<1>5. SubSeq(s, Len(s) + 1, Len(s)) = <<>>
    BY <1>1
<1> QED
    BY <1>2, <1>3, <1>4, <1>5

LEMMA CutOutIs ==
    ASSUME NEW a \in ArrayValues, NEW i \in Nat, NEW c \in Nat, i + c <= a.length \/ i >= a.length
    PROVE  /\ CutOut(a, i, c) \in ArrayValues
           /\ Content(CutOut(a, i, c)) =
                  IF i >= a.length THEN Content(a)
                  ELSE SubSeq(Content(a), 1, i) \o SubSeq(Content(a), i + c + 1, a.length)
<1> DEFINE P == /\ CutOut(a, i, c) \in ArrayValues
                /\ Content(CutOut(a, i, c)) =
                       IF i >= a.length THEN Content(a)
                       ELSE SubSeq(Content(a), 1, i) \o SubSeq(Content(a), i + c + 1, a.length)
<1>0. /\ a.length \in Nat /\ Content(a) \in Seq(Contents) /\ Len(Content(a)) = a.length
    BY ArrayIs, ContentIs
<1>1. ASSUME i >= a.length PROVE P
    BY <1>1 DEF CutOut
<1>2. ASSUME i < a.length, i + c >= a.length PROVE P
    <2>1. CutOut(a, i, c) = TailRemoved(a, c) /\ c <= a.length /\ a.length - c = i /\ i + c = a.length
        BY <1>0, <1>2 DEF CutOut
    <2>2. CutOut(a, i, c) \in ArrayValues /\ Content(CutOut(a, i, c)) = SubSeq(Content(a), 1, i)
        BY <2>1, TailRemovedIs
    <2>3. SubSeq(Content(a), i + c + 1, a.length) = <<>> /\ SubSeq(Content(a), 1, i) \in Seq(Contents)
        BY <1>0, <1>2, <2>1, PartIs
    <2>4. SubSeq(Content(a), 1, i) \o <<>> = SubSeq(Content(a), 1, i)
        <3> DEFINE s == SubSeq(Content(a), 1, i)
        <3>1. s \in Seq(Contents)
            BY <2>3
        <3> HIDE DEF s
        <3>2. s \o <<>> = s
            BY <3>1
        <3> QED
            BY <3>2 DEF s
    <2> QED
        BY <1>0, <1>2, <2>2, <2>3, <2>4
<1>3. ASSUME i < a.length, i + c < a.length PROVE P
    <2> DEFINE t == TailRemoved(a, a.length - i)
    <2>1. a.length - i \in Nat /\ a.length - i <= a.length /\ a.length - (a.length - i) = i /\ i + c \in Nat
        BY <1>0, <1>3
    <2>2. t \in ArrayValues /\ Content(t) = SubSeq(Content(a), 1, i)
        BY <2>1, TailRemovedIs
    <2>3. From(a, i + c) \in Seq(Contents) /\ From(a, i + c) = SubSeq(Content(a), i + c + 1, a.length)
        BY <1>3, <2>1, FromIs, FromIsRest
    <2>4. CutOut(a, i, c) = Appended(t, From(a, i + c))
        BY <1>0, <1>3, <2>1 DEF CutOut
    <2> HIDE DEF t
    <2>5. CutOut(a, i, c) \in ArrayValues /\ Content(CutOut(a, i, c)) = Content(t) \o From(a, i + c)
        BY <2>2, <2>3, <2>4, AppendedIs
    <2>6. Content(CutOut(a, i, c)) = SubSeq(Content(a), 1, i) \o SubSeq(Content(a), i + c + 1, a.length)
        BY <2>2, <2>3, <2>5, Zenon
    <2>7. ~(i >= a.length)
        BY <1>0, <1>3
    <2> QED
        BY <2>5, <2>6, <2>7, Zenon
<1>4. P
    <2> HIDE DEF P
    <2> QED
        BY <1>0, <1>1, <1>2, <1>3
<1> QED
    BY <1>4

LEMMA InsertedIs ==
    ASSUME NEW a \in ArrayValues, NEW i \in Nat, NEW s \in Seq(Contents)
    PROVE  /\ Inserted(a, i, s) \in ArrayValues
           /\ Content(Inserted(a, i, s)) =
                  IF i >= a.length THEN Content(a) \o s
                  ELSE SubSeq(Content(a), 1, i) \o s \o SubSeq(Content(a), i + 1, a.length)
<1> DEFINE P == /\ Inserted(a, i, s) \in ArrayValues
                /\ Content(Inserted(a, i, s)) =
                       IF i >= a.length THEN Content(a) \o s
                       ELSE SubSeq(Content(a), 1, i) \o s \o SubSeq(Content(a), i + 1, a.length)
<1>0. a.length \in Nat
    BY ArrayIs
<1>1. ASSUME i >= a.length PROVE P
    <2> DEFINE t == TailRemoved(a, 0)
               u == Appended(t, s)
    <2>1. 0 \in Nat /\ 0 <= a.length /\ a.length - 0 = a.length /\ a.length - a.length = 0
        BY <1>0
    <2>2. t \in ArrayValues /\ Content(t) = SubSeq(Content(a), 1, a.length)
        BY <2>1, TailRemovedIs
    <2>3. Content(a) \in Seq(Contents) /\ Len(Content(a)) = a.length
        BY ContentIs
    <2>4. SubSeq(Content(a), 1, a.length) = Content(a)
        BY <2>3
    <2>5. From(a, a.length) = <<>>
        BY <1>0, ArrayIs DEF From
    <2>6. Inserted(a, i, s) = Appended(u, <<>>)
        BY <1>0, <1>1, <2>1, <2>5 DEF Inserted
    <2> HIDE DEF t
    <2>7. u \in ArrayValues /\ Content(u) = Content(a) \o s
        BY <2>2, <2>4, AppendedIs
    <2> HIDE DEF u
    <2>8. Inserted(a, i, s) = u
        BY <2>6 DEF Appended
    <2> QED
        BY <1>1, <2>7, <2>8
<1>2. ASSUME i < a.length PROVE P
    <2> DEFINE t == TailRemoved(a, a.length - i)
               u == Appended(t, s)
    <2>1. a.length - i \in Nat /\ a.length - i <= a.length /\ a.length - (a.length - i) = i
        BY <1>0, <1>2
    <2>2. t \in ArrayValues /\ Content(t) = SubSeq(Content(a), 1, i)
        BY <2>1, TailRemovedIs
    <2> HIDE DEF t
    <2>3. u \in ArrayValues /\ Content(u) = Content(t) \o s
        BY <2>2, AppendedIs
    <2>4. From(a, i) \in Seq(Contents) /\ From(a, i) = SubSeq(Content(a), i + 1, a.length)
        BY <1>2, FromIs, FromIsRest
    <2>5. Inserted(a, i, s) = Appended(u, From(a, i))
        BY <1>0, <1>2, <2>1 DEF Inserted, t
    <2> HIDE DEF u
    <2>6. Inserted(a, i, s) \in ArrayValues /\ Content(Inserted(a, i, s)) = Content(u) \o From(a, i)
        BY <2>3, <2>4, <2>5, AppendedIs
    <2>7. Content(Inserted(a, i, s)) = SubSeq(Content(a), 1, i) \o s \o SubSeq(Content(a), i + 1, a.length)
        BY <2>2, <2>3, <2>4, <2>6, Zenon
    <2>8. ~(i >= a.length)
        BY <1>0, <1>2
    <2> QED
        BY <2>6, <2>7, <2>8, Zenon
<1>3. P
    <2> HIDE DEF P
    <2> QED
        BY <1>0, <1>1, <1>2
<1> QED
    BY <1>3

---------------------------------------------------------------------------
(* Sequences of sequences *)

\* The function FlattenSeq() defines.
Flat(seqs, f) == f = [i \in 1..Len(seqs) |-> IF i = 1 THEN seqs[i] ELSE f[i - 1] \o seqs[i]]

LEMMA FlatUnique ==
    ASSUME NEW X, NEW seqs \in Seq(X), NEW f, NEW g, Flat(seqs, f), Flat(seqs, g)
    PROVE  f = g
<1> DEFINE S == {k \in Nat : k \in 1..Len(seqs) => f[k] = g[k]}
<1>0. Len(seqs) \in Nat
    OBVIOUS
<1>1. \A i \in 1..Len(seqs) : /\ f[i] = IF i = 1 THEN seqs[i] ELSE f[i - 1] \o seqs[i]
                              /\ g[i] = IF i = 1 THEN seqs[i] ELSE g[i - 1] \o seqs[i]
    <2>1. f = [i \in 1..Len(seqs) |-> IF i = 1 THEN seqs[i] ELSE f[i - 1] \o seqs[i]]
        BY DEF Flat
    <2>2. g = [i \in 1..Len(seqs) |-> IF i = 1 THEN seqs[i] ELSE g[i - 1] \o seqs[i]]
        BY DEF Flat
    <2> QED
        BY <2>1, <2>2
<1>2. 0 \in S
    OBVIOUS
<1>3. \A k \in Nat : k \in S => k + 1 \in S
    <2> SUFFICES ASSUME NEW k \in Nat, k \in S, k + 1 \in 1..Len(seqs) PROVE f[k + 1] = g[k + 1]
        OBVIOUS
    <2>1. CASE k = 0
        BY <1>1, <2>1
    <2>2. CASE k # 0
        <3>1. k \in 1..Len(seqs) /\ (k + 1) - 1 = k /\ k + 1 # 1
            BY <1>0, <2>2
        <3>2. f[k] = g[k]
            BY <3>1
        <3>3. f[k + 1] = f[k] \o seqs[k + 1] /\ g[k + 1] = g[k] \o seqs[k + 1]
            BY <1>1, <3>1
        <3> QED
            BY <3>2, <3>3
    <2> QED
        BY <2>1, <2>2
<1> HIDE DEF S
<1>4. Nat \subseteq S
    BY <1>2, <1>3, SetInduction
<1>5. \A k \in 1..Len(seqs) : f[k] = g[k]
    BY <1>0, <1>4 DEF S
<1>6. f = [i \in 1..Len(seqs) |-> f[i]] /\ g = [i \in 1..Len(seqs) |-> g[i]]
    BY DEF Flat
<1> QED
    BY <1>5, <1>6

LEMMA FlattenIs ==
    ASSUME NEW X, NEW seqs \in Seq(X), NEW f, Flat(seqs, f), Len(seqs) # 0
    PROVE  FlattenSeq(seqs) = f[Len(seqs)]
<1> DEFINE g == CHOOSE h : h = [i \in 1..Len(seqs) |-> IF i = 1 THEN seqs[i] ELSE h[i - 1] \o seqs[i]]
<1>1. Flat(seqs, g)
    BY Zenon DEF Flat
<1> HIDE DEF g
<1>2. f = g
    BY <1>1, FlatUnique
<1>3. FlattenSeq(seqs) = g[Len(seqs)]
    BY Zenon DEF FlattenSeq, g
<1> QED
    BY <1>2, <1>3

LEMMA FlatExists ==
    ASSUME NEW X, NEW seqs \in Seq(Seq(X))
    PROVE  \E f : f \in [1..Len(seqs) -> Seq(X)] /\ Flat(seqs, f)
<1> DEFINE n == Len(seqs)
           Upto(m, g) == /\ g \in [1..m -> Seq(X)]
                         /\ \A i \in 1..m : g[i] = IF i = 1 THEN seqs[i] ELSE g[i - 1] \o seqs[i]
           S == {m \in Nat : m <= n => \E g : Upto(m, g)}
<1>0. n \in Nat /\ \A i \in 1..n : seqs[i] \in Seq(X)
    OBVIOUS
<1>1. 0 \in S
    <2>1. Upto(0, [i \in 1..0 |-> <<>>])
        OBVIOUS
    <2> QED
        BY <2>1
<1>2. ASSUME NEW m \in Nat, m \in S, m + 1 <= n PROVE \E h : Upto(m + 1, h)
    <2>1. m <= n /\ m + 1 \in 1..n
        BY <1>0, <1>2
    <2>2. PICK g : Upto(m, g)
        BY <1>2, <2>1
    <2> DEFINE v == IF m = 0 THEN seqs[m + 1] ELSE g[m] \o seqs[m + 1]
               h == [i \in 1..(m + 1) |-> IF i = m + 1 THEN v ELSE g[i]]
    <2>3. v \in Seq(X)
        <3>1. seqs[m + 1] \in Seq(X)
            BY <1>0, <2>1
        <3>2. m # 0 => g[m] \in Seq(X)
            BY <2>2
        <3> QED
            BY <3>1, <3>2, ConcatIs
    <2>4. \A i \in 1..(m + 1) : i # m + 1 => i \in 1..m
        OBVIOUS
    <2>5. h \in [1..(m + 1) -> Seq(X)]
        BY <2>2, <2>3, <2>4
    <2>6. \A i \in 1..(m + 1) : h[i] = IF i = 1 THEN seqs[i] ELSE h[i - 1] \o seqs[i]
        <3> TAKE i \in 1..(m + 1)
        <3>1. CASE i = m + 1
            <4>1. h[i] = v
                BY <3>1
            <4>2. m # 0 => i - 1 = m /\ h[i - 1] = g[m]
                BY <3>1
            <4> HIDE DEF h
            <4> QED
                BY <3>1, <4>1, <4>2
        <3>2. CASE i # m + 1
            <4>1. i \in 1..m /\ h[i] = g[i]
                BY <2>4, <3>2
            <4>2. i # 1 => i - 1 \in 1..m /\ h[i - 1] = g[i - 1]
                BY <4>1
            <4>3. g[i] = IF i = 1 THEN seqs[i] ELSE g[i - 1] \o seqs[i]
                BY <2>2, <4>1
            <4> HIDE DEF h
            <4> QED
                BY <4>1, <4>2, <4>3
        <3> QED
            BY <3>1, <3>2
    <2> HIDE DEF h
    <2> QED
        BY <2>5, <2>6
<1> HIDE DEF Upto
<1>6. \A m \in Nat : m \in S => m + 1 \in S
    <2> SUFFICES ASSUME NEW m \in Nat, m \in S PROVE m + 1 \in S
        OBVIOUS
    <2>1. m + 1 \in Nat
        OBVIOUS
    <2>2. m + 1 <= n => \E h : Upto(m + 1, h)
        BY <1>2, Zenon
    <2> QED
        BY <2>1, <2>2, Zenon DEF S
<1> HIDE DEF S
<1>3. n \in S
    BY <1>0, <1>1, <1>6, SetInduction
<1>4. PICK f : Upto(n, f)
    BY <1>0, <1>3 DEF S
<1>5. f = [i \in 1..n |-> IF i = 1 THEN seqs[i] ELSE f[i - 1] \o seqs[i]]
    BY <1>4 DEF Upto
<1> QED
    BY <1>4, <1>5 DEF Flat, Upto

\* One sequence more is put at the end.
LEMMA FlattenOneMore ==
    ASSUME NEW X, NEW seqs \in Seq(Seq(X)), NEW s \in Seq(X)
    PROVE  FlattenSeq(Append(seqs, s)) = FlattenSeq(seqs) \o s /\ FlattenSeq(seqs) \in Seq(X)
<1> DEFINE n == Len(seqs)
           r == Append(seqs, s)
<1>0. n \in Nat /\ r \in Seq(Seq(X)) /\ Len(r) = n + 1 /\ r[n + 1] = s /\ \A i \in 1..n : r[i] = seqs[i]
    OBVIOUS
<1>1. PICK f : f \in [1..n -> Seq(X)] /\ Flat(seqs, f)
    BY FlatExists
<1>2. PICK g : g \in [1..Len(r) -> Seq(X)] /\ Flat(r, g)
    BY <1>0, FlatExists
<1> HIDE DEF r
<1>3. FlattenSeq(r) = g[n + 1]
    BY <1>0, <1>2, FlattenIs
<1>4. CASE n = 0
    <2>1. g[n + 1] = s
        BY <1>0, <1>2, <1>4 DEF Flat
    <2>2. seqs = <<>> /\ FlattenSeq(seqs) = seqs
        BY <1>4 DEF FlattenSeq
    <2>3. <<>> \o s = s /\ <<>> \in Seq(X)
        OBVIOUS
    <2>4. FlattenSeq(r) = <<>> \o s
        BY <1>3, <2>1, <2>3, Zenon
    <2>5. FlattenSeq(seqs) = <<>>
        BY <2>2, Zenon
    <2> QED
        BY <2>3, <2>4, <2>5, Zenon DEF r
<1>5. CASE n # 0
    <2>1. FlattenSeq(seqs) = f[n] /\ f[n] \in Seq(X)
        <3>1. n \in 1..n
            BY <1>0, <1>5
        <3>2. f[n] \in Seq(X)
            BY <1>1, <3>1
        <3>3. FlattenSeq(seqs) = f[Len(seqs)]
            BY <1>1, <1>5, FlattenIs
        <3> QED
            BY <3>2, <3>3
    <2> DEFINE h == [i \in 1..n |-> g[i]]
    <2>2. Flat(seqs, h)
        <3>1. \A i \in 1..(n + 1) : g[i] = IF i = 1 THEN r[i] ELSE g[i - 1] \o r[i]
            BY <1>0, <1>2 DEF Flat
        <3>2. ASSUME NEW i \in 1..n PROVE h[i] = IF i = 1 THEN seqs[i] ELSE h[i - 1] \o seqs[i]
            <4>1. i \in 1..(n + 1) /\ r[i] = seqs[i] /\ h[i] = g[i] /\ (i # 1 => h[i - 1] = g[i - 1])
                BY <1>0
            <4> HIDE DEF h
            <4> QED
                BY <3>1, <4>1
        <3>3. h = [i \in 1..n |-> IF i = 1 THEN seqs[i] ELSE h[i - 1] \o seqs[i]]
            BY <3>2
        <3> QED
            BY <3>3 DEF Flat
    <2>3. h = f
        BY <1>1, <2>2, FlatUnique
    <2>4. g[n] = f[n]
        BY <1>0, <1>5, <2>3
    <2>5. g[n + 1] = g[n] \o s
        <3>1. \A i \in 1..(n + 1) : g[i] = IF i = 1 THEN r[i] ELSE g[i - 1] \o r[i]
            BY <1>0, <1>2 DEF Flat
        <3>2. n + 1 \in 1..(n + 1) /\ n + 1 # 1 /\ (n + 1) - 1 = n
            BY <1>0, <1>5
        <3> QED
            BY <1>0, <3>1, <3>2
    <2> QED
        BY <1>3, <2>1, <2>4, <2>5 DEF r
<1> QED
    BY <1>4, <1>5

\* A sequence is all but its last, and its last.
LEMMA LastSplit ==
    ASSUME NEW X, NEW s \in Seq(X), s # <<>>
    PROVE  /\ SubSeq(s, 1, Len(s) - 1) \in Seq(X) /\ Len(SubSeq(s, 1, Len(s) - 1)) = Len(s) - 1
           /\ \A i \in 1..(Len(s) - 1) : SubSeq(s, 1, Len(s) - 1)[i] = s[i]
           /\ s[Len(s)] \in X /\ Append(SubSeq(s, 1, Len(s) - 1), s[Len(s)]) = s
<1> DEFINE n == Len(s)
           p == SubSeq(s, 1, n - 1)
<1>1. n \in Nat \ {0} /\ \A i \in 1..n : s[i] \in X
    OBVIOUS
<1>2. p \in Seq(X)
    BY <1>1, SubSeqProperties
<1>3. Len(p) = n - 1 /\ \A i \in 1..(n - 1) : p[i] = s[i]
    <2> DEFINE m == n - 1
    <2>1. m \in Nat /\ m <= n
        BY <1>1
    <2> HIDE DEF m
    <2>2. Len(SubSeq(s, 1, m)) = m /\ \A i \in 1..m : SubSeq(s, 1, m)[i] = s[i]
        BY <2>1, <1>1
    <2> QED
        BY <2>2 DEF m
<1> HIDE DEF p
<1>4. Append(p, s[n]) = s
    <2>1. /\ Append(p, s[n]) \in Seq(X) /\ Len(Append(p, s[n])) = n
          /\ \A i \in 1..n : Append(p, s[n])[i] = s[i]
        BY <1>1, <1>2, <1>3
    <2> QED
        BY <2>1, SameSeq
<1> QED
    BY <1>1, <1>2, <1>3, <1>4 DEF p

\* The last sequence gets one element more.
LEMMA FlattenLonger ==
    ASSUME NEW X, NEW seqs \in Seq(Seq(X)), seqs # <<>>, NEW e \in X, NEW r \in Seq(Seq(X)), Len(r) = Len(seqs),
           \A i \in 1..(Len(seqs) - 1) : r[i] = seqs[i], r[Len(seqs)] = Append(seqs[Len(seqs)], e)
    PROVE  FlattenSeq(r) = Append(FlattenSeq(seqs), e)
<1> DEFINE n == Len(seqs)
           p == SubSeq(seqs, 1, n - 1)
           l == seqs[n]
<1>1. n \in Nat \ {0} /\ r # <<>>
    OBVIOUS
<1>2. p \in Seq(Seq(X)) /\ Len(p) = n - 1 /\ l \in Seq(X) /\ Append(p, l) = seqs /\ \A i \in 1..(n - 1) : p[i] = seqs[i]
    BY LastSplit
<1> HIDE DEF p, l
<1>3. Append(l, e) \in Seq(X)
    BY <1>2
<1>4. Append(p, Append(l, e)) = r
    <2> DEFINE q == Append(p, Append(l, e))
    <2>1. q \in Seq(Seq(X)) /\ Len(q) = n /\ q[n] = Append(l, e) /\ \A i \in 1..(n - 1) : q[i] = p[i]
        BY <1>1, <1>2, <1>3
    <2> HIDE DEF q
    <2>2. \A i \in 1..n : i = n \/ i \in 1..(n - 1)
        BY <1>1
    <2>3. \A i \in 1..n : q[i] = r[i]
        BY <1>2, <2>1, <2>2 DEF l
    <2>4. q = r
        BY <2>1, <2>3, SameSeq
    <2> QED
        BY <2>4 DEF q
<1>5. FlattenSeq(seqs) = FlattenSeq(p) \o l /\ FlattenSeq(p) \in Seq(X)
    BY <1>2, FlattenOneMore
<1>6. FlattenSeq(r) = FlattenSeq(p) \o Append(l, e)
    BY <1>2, <1>3, <1>4, FlattenOneMore
<1>7. FlattenSeq(p) \o Append(l, e) = Append(FlattenSeq(p) \o l, e)
    <2> DEFINE q == FlattenSeq(p)
    <2>1. q \in Seq(X)
        BY <1>5
    <2> HIDE DEF q
    <2>2. /\ q \o Append(l, e) \in Seq(X) /\ Append(q \o l, e) \in Seq(X)
          /\ Len(q \o Append(l, e)) = Len(Append(q \o l, e))
          /\ \A i \in 1..Len(q \o Append(l, e)) : (q \o Append(l, e))[i] = Append(q \o l, e)[i]
        BY <1>2, <2>1, SMTT(40)
    <2>3. q \o Append(l, e) = Append(q \o l, e)
        BY <2>2, SameSeq
    <2> QED
        BY <2>3 DEF q
<1> QED
    BY <1>5, <1>6, <1>7

---------------------------------------------------------------------------
(* The array and the list of arrays *)

ArrayInv == array \in ArrayValues /\ Content(array) = model

\* Only the last array of a list has room, and none has grown.
Fit(a) == Len(a.cells) = Chunk /\ a.length \in 0..(Chunk - 1)
ListContents == [k \in 1..Len(arrayList) |-> Content(arrayList[k])]
ArrayListInv ==
    /\ arrayList \in Seq(ArrayValues) /\ listModel \in Seq(Contents) /\ FlattenSeq(ListContents) = listModel
    /\ \A k \in 1..Len(arrayList) : Fit(arrayList[k]) /\ (k # Len(arrayList) => ~HasRoom(arrayList[k]))

LEMMA EmptyIs == Empty \in ArrayValues /\ Content(Empty) = <<>>
<1>1. <<>> \in Seq(Contents) /\ Len(<<>>) = 0
    OBVIOUS
<1>2. Empty \in ArrayValues
    BY <1>1 DEF Empty, ArrayValues
<1> QED
    BY <1>1, <1>2, ContentIs DEF Empty, Content

LEMMA PieceIs ==
    /\ \A s \in Pieces : s \in Seq(Contents)
    /\ \A e \in Elements : [i \in 1..2 |-> e] \in Seq(Contents)
<1>1. ASSUME NEW n \in 0..2, NEW s \in [1..n -> Elements] PROVE s \in Seq(Contents)
    <2>1. n \in Nat /\ s \in [1..n -> Contents]
        BY DEF Contents
    <2> QED
        BY <2>1, FunctionIsSeq
<1>2. ASSUME NEW e \in Elements PROVE [i \in 1..2 |-> e] \in Seq(Contents)
    <2>1. [i \in 1..2 |-> e] \in [1..2 -> Contents]
        BY DEF Contents
    <2> QED
        BY <2>1, FunctionIsSeq
<1> QED
    BY <1>1, <1>2 DEF Pieces

\* What an operation on the array does to the elements, it does to the callers' sequence.
LEMMA ArrayStep ==
    ASSUME ArrayInv, ArrayNext
    PROVE  ArrayInv'
<1>0. /\ array \in ArrayValues /\ Content(array) = model /\ array.length \in Nat
      /\ Len(model) = array.length /\ model \in Seq(Contents)
    BY ArrayIs, ContentIs DEF ArrayInv
<1>1. ASSUME NEW s \in Seq(Contents), AppendTo(s) PROVE ArrayInv'
    BY <1>0, <1>1, AppendedIs DEF AppendTo, Becomes, ArrayInv
<1>2. ASSUME NEW i \in 0..MaxLength, NEW s \in Seq(Contents), InsertElements(i, s) PROVE ArrayInv'
    <2>1. i \in Nat
        BY ArrayAssumption
    <2> QED
        BY <1>0, <1>2, <2>1, InsertedIs, ZenonT(60) DEF InsertElements, Becomes, ArrayInv
<1>3. ASSUME NEW e \in Elements, IncrementArray(e) PROVE ArrayInv'
    <2>1. e \in Contents
        BY DEF Contents
    <2> QED
        BY <1>0, <1>3, <2>1, IncrementedIs, Zenon DEF IncrementArray, Becomes, ArrayInv
<1>4. ASSUME NEW c \in 0..MaxLength, RemoveTail(c) PROVE ArrayInv'
    <2>1. c \in Nat /\ c <= array.length
        BY <1>4, ArrayAssumption DEF RemoveTail
    <2> QED
        BY <1>0, <1>4, <2>1, TailRemovedIs, Zenon DEF RemoveTail, Becomes, ArrayInv
<1>5. ASSUME NEW i \in 0..MaxLength, NEW c \in 0..MaxLength, RemoveElements(i, c) PROVE ArrayInv'
    <2>1. c \in Nat /\ i \in Nat /\ (i + c <= array.length \/ i >= array.length)
        BY <1>5, ArrayAssumption DEF RemoveElements
    <2> QED
        BY <1>0, <1>5, <2>1, CutOutIs, Zenon DEF RemoveElements, Becomes, ArrayInv
<1>6. CASE FreeArray
    BY <1>6, EmptyIs DEF FreeArray, Becomes, ArrayInv
<1>7. ASSUME NEW e \in Elements, IncrementList(e) PROVE ArrayInv'
    BY <1>0, <1>7 DEF IncrementList, ArrayInv
<1>8. CASE FreeList
    BY <1>0, <1>8 DEF FreeList, ArrayInv
<1> QED
    BY <1>1, <1>2, <1>3, <1>4, <1>5, <1>6, <1>7, <1>8, PieceIs DEF ArrayNext, AppendRepeatedly

\* An element put into an array with room does not make it grow.
LEMMA IncrementedFits ==
    ASSUME NEW a \in ArrayValues, NEW e \in Contents, Fit(a), HasRoom(a)
    PROVE  Fit(ArrayIncremented(a, e))
<1>1. a.length \in Nat /\ Len(a.cells) = Chunk /\ a.length + 1 <= Chunk - 1 /\ Len(a.cells) > a.length
    BY ArrayIs, ArrayAssumption DEF Fit, HasRoom
<1>2. Grown(a, a.length) = a
    BY <1>1 DEF Grown
<1>3. ArrayIncremented(a, e) = [length |-> a.length + 1, cells |-> [a.cells EXCEPT ![a.length + 1] = e]]
    BY <1>2 DEF ArrayIncremented
<1>4. Len([a.cells EXCEPT ![a.length + 1] = e]) = Len(a.cells)
    BY <1>1, ArrayIs
<1> QED
    BY <1>1, <1>3, <1>4, ArrayAssumption DEF Fit

\* Nor does the first element of a new array take more than a chunk.
LEMMA FirstFits ==
    ASSUME NEW e \in Contents
    PROVE  Fit(ArrayIncremented(Empty, e))
<1> USE ArrayAssumption
<1>1. 0 \div Chunk = 0 /\ Chunk * (0 \div Chunk + 1) = Chunk
    BY SMT
<1>2. Empty.cells = <<>> /\ Empty.length = 0 /\ Len(Empty.cells) = 0 /\ ~(Len(Empty.cells) > 0)
    BY DEF Empty
<1>3. Grown(Empty, 0).cells = <<>> \o Zeros(Chunk)
    BY <1>1, <1>2 DEF Grown, Empty
<1>4. Zeros(Chunk) \in Seq(Contents) /\ Len(Zeros(Chunk)) = Chunk
    <2>1. Zeros(Chunk) \in [1..Chunk -> Contents]
        BY DEF Zeros, Contents
    <2> QED
        BY <2>1, FunctionIsSeq
<1>5. Grown(Empty, 0).cells \in Seq(Contents) /\ Len(Grown(Empty, 0).cells) = Chunk
    <2>1. <<>> \o Zeros(Chunk) = Zeros(Chunk)
        BY <1>4
    <2> QED
        BY <1>3, <1>4, <2>1
<1>6. ArrayIncremented(Empty, e) = [length |-> 1, cells |-> [Grown(Empty, 0).cells EXCEPT ![1] = e]]
    BY <1>2 DEF ArrayIncremented
<1>7. Len([Grown(Empty, 0).cells EXCEPT ![1] = e]) = Chunk
    BY <1>5
<1> QED
    BY <1>6, <1>7 DEF Fit

\* The array that has room is the last one, or there is none and a new one is the last.
LEMMA ArrayListStep ==
    ASSUME ArrayListInv, ArrayNext
    PROVE  ArrayListInv'
<1> USE ArrayAssumption
<1>0. CASE UNCHANGED <<arrayList, listModel>>
    BY <1>0, Zenon DEF ArrayListInv, ListContents
<1>1. CASE FreeList
    <2>1. arrayList' = <<>> /\ listModel' = <<>>
        BY <1>1 DEF FreeList
    <2>2. ListContents' = <<>> /\ FlattenSeq(<<>>) = <<>>
        BY <2>1 DEF ListContents, FlattenSeq
    <2>3. FlattenSeq(ListContents') = <<>>
        BY <2>2, Zenon
    <2>4. <<>> \in Seq(ArrayValues) /\ <<>> \in Seq(Contents) /\ 1..Len(<<>>) = {}
        OBVIOUS
    <2>5. FlattenSeq(ListContents)' = listModel'
        BY <2>1, <2>3, Zenon
    <2> QED
        BY <2>1, <2>4, <2>5 DEF ArrayListInv
<1>2. ASSUME NEW e \in Elements, IncrementList(e) PROVE ArrayListInv'
    <2> DEFINE open == {k \in 1..Len(arrayList) : HasRoom(arrayList[k])}
               n == Len(arrayList)
               seqs == ListContents
    <2>0. /\ e \in Contents /\ n \in Nat /\ listModel \in Seq(Contents) /\ FlattenSeq(seqs) = listModel
          /\ listModel' = Append(listModel, e) /\ arrayList \in Seq(ArrayValues)
          /\ \A k \in 1..n : arrayList[k] \in ArrayValues /\ Fit(arrayList[k]) /\ (k # n => ~HasRoom(arrayList[k]))
        BY <1>2 DEF ArrayListInv, IncrementList, Contents
    <2>1. seqs \in Seq(Seq(Contents)) /\ Len(seqs) = n /\ \A k \in 1..n : seqs[k] = Content(arrayList[k])
        <3>1. seqs \in [1..n -> Seq(Contents)]
            BY <2>0, ContentIs DEF ListContents
        <3>2. \A k \in 1..n : seqs[k] = Content(arrayList[k])
            BY DEF ListContents
        <3> HIDE DEF seqs
        <3>3. seqs \in Seq(Seq(Contents)) /\ Len(seqs) = n
            BY <2>0, <3>1, FunctionIsSeq
        <3> QED
            BY <3>2, <3>3
    <2>2. listModel' \in Seq(Contents)
        BY <2>0
    <2>3. ASSUME open = {} PROVE ArrayListInv'
        <3> DEFINE a == ArrayIncremented(Empty, e)
        <3>1. arrayList' = Append(arrayList, a)
            BY <1>2, <2>3 DEF IncrementList
        <3>2. a \in ArrayValues /\ Content(a) = Append(<<>>, e) /\ Fit(a)
            BY <2>0, EmptyIs, IncrementedIs, FirstFits
        <3> HIDE DEF a
        <3>3. /\ arrayList' \in Seq(ArrayValues) /\ Len(arrayList') = n + 1 /\ arrayList'[n + 1] = a
              /\ \A k \in 1..n : arrayList'[k] = arrayList[k]
            BY <2>0, <3>1, <3>2
        <3>4. ListContents' = Append(seqs, <<e>>)
            <4>1. Append(<<>>, e) = <<e>> /\ <<e>> \in Seq(Contents)
                BY <2>0
            <4> DEFINE r == Append(seqs, <<e>>)
                       q == ListContents'
            <4>2. r \in Seq(Seq(Contents)) /\ Len(r) = n + 1 /\ r[n + 1] = <<e>> /\ \A k \in 1..n : r[k] = seqs[k]
                BY <2>0, <2>1, <4>1
            <4>3. q = [k \in 1..(n + 1) |-> Content(arrayList'[k])]
                BY <3>3 DEF ListContents
            <4> HIDE DEF r, q
            <4>4. \A k \in 1..(n + 1) : k = n + 1 \/ k \in 1..n
                BY <2>0
            <4>5. \A k \in 1..(n + 1) : Content(arrayList'[k]) = r[k]
                BY <2>0, <2>1, <3>2, <3>3, <4>1, <4>2, <4>4
            <4>6. q \in [1..(n + 1) -> Seq(Contents)]
                <5>1. \A k \in 1..(n + 1) : r[k] \in Seq(Contents)
                    BY <4>2
                <5> QED
                    BY <4>3, <4>5, <5>1
            <4>7. q \in Seq(Seq(Contents)) /\ Len(q) = n + 1
                BY <2>0, <4>6, FunctionIsSeq, SMTT(40)
            <4>8. q = r
                BY <4>2, <4>3, <4>5, <4>7, SameSeq
            <4> QED
                BY <4>8 DEF q, r
        <3>5. FlattenSeq(ListContents') = listModel'
            <4>1. <<e>> \in Seq(Contents)
                BY <2>0
            <4>2. FlattenSeq(Append(seqs, <<e>>)) = FlattenSeq(seqs) \o <<e>>
                BY <2>1, <4>1, FlattenOneMore
            <4>3. listModel \o <<e>> = Append(listModel, e)
                BY <2>0
            <4> QED
                BY <2>0, <3>4, <4>2, <4>3, Zenon
        <3>6. ASSUME NEW k \in 1..(n + 1) PROVE Fit(arrayList'[k]) /\ (k # n + 1 => ~HasRoom(arrayList'[k]))
            <4>1. k = n + 1 \/ k \in 1..n
                BY <2>0
            <4>2. k \in 1..n => ~HasRoom(arrayList[k])
                BY <2>3
            <4> QED
                BY <2>0, <3>2, <3>3, <4>1, <4>2
        <3> QED
            BY <2>2, <3>3, <3>5, <3>6 DEF ArrayListInv, Fit, HasRoom
    <2>4. ASSUME open # {} PROVE ArrayListInv'
        <3>1. open = {n} /\ n \in 1..n /\ HasRoom(arrayList[n])
            BY <2>0, <2>4
        <3>2. (CHOOSE x \in open : \A y \in open : x <= y) = n
            BY <2>0, <3>1
        <3> DEFINE a == ArrayIncremented(arrayList[n], e)
        <3>3. arrayList' = [arrayList EXCEPT ![n] = a]
            BY <1>2, <2>4, <3>2 DEF IncrementList
        <3>4. a \in ArrayValues /\ Content(a) = Append(seqs[n], e) /\ Fit(a)
            BY <2>0, <2>1, <3>1, IncrementedIs, IncrementedFits
        <3> HIDE DEF a
        <3>5. /\ arrayList' \in Seq(ArrayValues) /\ Len(arrayList') = n /\ arrayList'[n] = a
              /\ \A k \in 1..(n - 1) : arrayList'[k] = arrayList[k]
            BY <2>0, <3>1, <3>3, <3>4
        <3> DEFINE r == ListContents'
        <3>6. r = [k \in 1..n |-> Content(arrayList'[k])]
            BY <3>5 DEF ListContents
        <3>7. r \in [1..n -> Seq(Contents)]
            <4>1. \A k \in 1..n : arrayList'[k] \in ArrayValues
                BY <3>5
            <4> QED
                BY <3>6, <4>1, ContentIs
        <3> HIDE DEF r
        <3>8. r \in Seq(Seq(Contents)) /\ Len(r) = n
            BY <2>0, <3>7, FunctionIsSeq
        <3>9. r[n] = Append(seqs[n], e) /\ \A k \in 1..(n - 1) : r[k] = seqs[k]
            <4>1. \A k \in 1..(n - 1) : k \in 1..n
                BY <2>0
            <4> QED
                BY <2>1, <3>1, <3>4, <3>5, <3>6, <4>1
        <3>10. FlattenSeq(r) = Append(FlattenSeq(seqs), e)
            <4>1. seqs # <<>>
                BY <2>1, <3>1
            <4>2. /\ seqs \in Seq(Seq(Contents)) /\ Len(r) = Len(seqs) /\ r[Len(seqs)] = Append(seqs[Len(seqs)], e)
                  /\ \A k \in 1..(Len(seqs) - 1) : r[k] = seqs[k]
                BY <2>1, <3>8, <3>9
            <4> HIDE DEF seqs
            <4> QED
                BY ZenonT(60), <2>0, <3>8, <4>1, <4>2, FlattenLonger
        <3>11. FlattenSeq(ListContents') = listModel'
            BY <2>0, <3>10, Zenon DEF r
        <3>12. ASSUME NEW k \in 1..n PROVE Fit(arrayList'[k]) /\ (k # n => ~HasRoom(arrayList'[k]))
            <4>1. k = n \/ k \in 1..(n - 1)
                BY <2>0
            <4> QED
                BY <2>0, <3>4, <3>5, <4>1
        <3> QED
            BY <2>2, <3>5, <3>11, <3>12 DEF ArrayListInv, Fit, HasRoom
    <2> HIDE DEF open
    <2> QED
        BY <2>3, <2>4
<1>3. (\E e \in Elements : IncrementList(e)) \/ FreeList \/ UNCHANGED <<arrayList, listModel>>
    BY DEF ArrayNext, AppendTo, AppendRepeatedly, InsertElements, IncrementArray, RemoveTail, RemoveElements,
           FreeArray, Becomes
<1> QED
    BY <1>0, <1>1, <1>2, <1>3

\* SameContent of Arrays: whatever is appended, inserted and removed, an array of
\* Array.c holds the elements of its callers in their order and within its memory, and
\* so does a list of arrays (ArrayList.c), none of which is ever reallocated.
THEOREM ArraysHoldTheirContent == ArraySpec => []SameContent
<1> DEFINE Inv == ArrayInv /\ ArrayListInv
<1>1. ArrayInit => Inv
    <2> SUFFICES ASSUME ArrayInit PROVE Inv
        OBVIOUS
    <2>1. array = Empty /\ model = <<>> /\ arrayList = <<>> /\ listModel = <<>>
        BY DEF ArrayInit
    <2>2. ListContents = <<>> /\ FlattenSeq(<<>>) = <<>>
        BY <2>1 DEF ListContents, FlattenSeq
    <2>3. FlattenSeq(ListContents) = <<>>
        BY <2>2, Zenon
    <2>4. ArrayInv
        BY <2>1, EmptyIs DEF ArrayInv
    <2>5. <<>> \in Seq(ArrayValues) /\ <<>> \in Seq(Contents) /\ 1..Len(<<>>) = {}
        OBVIOUS
    <2>6. ArrayListInv
        BY <2>1, <2>3, <2>5 DEF ArrayListInv
    <2> QED
        BY <2>4, <2>6
<1>2. Inv /\ [ArrayNext]_arrayVars => Inv'
    <2>1. Inv /\ ArrayNext => Inv'
        BY ArrayStep, ArrayListStep
    <2>2. Inv /\ UNCHANGED arrayVars => Inv'
        BY Zenon DEF arrayVars, ArrayInv, ArrayListInv, ListContents
    <2> QED
        BY <2>1, <2>2
<1>3. Inv => SameContent
    BY ArrayIs DEF ArrayInv, ArrayListInv, ListContents, Fit, SameContent
<1> QED
    BY <1>1, <1>2, <1>3, PTL DEF ArraySpec
=============================================================================
