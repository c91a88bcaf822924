---------------------------- MODULE LogMonitorProofs ----------------------------
(***************************************************************************)
(* Whatever is logged, by however many processes, in batches and records   *)
(* of any size, torn apart anywhere: what the monitor shows was logged and *)
(* is shown once, and unless a batch is interrupted it stands under its    *)
(* node and nothing is missing.                                            *)
(***************************************************************************)
EXTENDS LogMonitor, FiniteSetTheorems, TLAPS

Cell == [id : Ids, u : 1..Units]
\* Where a record, or what is left of one, is filed.
Slot == {c \in Cell : Splits(c)}
Under(c) == NameFrom[Key(c)]
Trees == [Nodes -> Seq(Ids)]

---------------------------------------------------------------------------
(* Numbers, sequences and recursion *)

\* Induction, for a set of numbers: below a number not in S, adding 1 would map a finite set
\* onto itself, and nothing to 0.
LEMMA SetInduction ==
    ASSUME NEW S, 0 \in S, \A n \in Nat : n \in S => n + 1 \in S
    PROVE  Nat \subseteq S
<1> SUFFICES ASSUME NEW m \in Nat, m \notin S PROVE FALSE
    OBVIOUS
<1> DEFINE A == (0..m) \cap S
           f == [k \in A |-> k + 1]
<1>1. IsFiniteSet(A)
    <2>1. IsFiniteSet(0..m) /\ A \in SUBSET (0..m)
        BY FS_Interval
    <2> QED
        BY <2>1, FS_Subset
<1>2. 0 \in A /\ \A k \in A : k + 1 \in A
    OBVIOUS
<1>3. f \in Injection(A, A)
    BY <1>2 DEF Injection, IsInjective
<1>4. f \in Surjection(A, A)
    BY <1>1, <1>3, FS_Injection
<1>5. PICK k \in A : f[k] = 0
    BY <1>2, <1>4 DEF Surjection
<1> QED
    BY <1>5

LEMMA SameSeq ==
    ASSUME NEW X, NEW s \in Seq(X), NEW t \in Seq(X), Len(s) = Len(t), \A i \in 1..Len(s) : s[i] = t[i]
    PROVE  s = t
OBVIOUS

LEMMA FunctionIsSeq ==
    ASSUME NEW X, NEW n \in Nat, NEW f \in [1..n -> X]
    PROVE  f \in Seq(X) /\ Len(f) = n
OBVIOUS

LEMMA ConcatIs ==
    ASSUME NEW X, NEW s \in Seq(X), NEW t \in Seq(X)
    PROVE  /\ s \o t \in Seq(X) /\ Len(s \o t) = Len(s) + Len(t) /\ Len(s) \in Nat /\ Len(t) \in Nat
           /\ \A i \in 1..Len(s) : (s \o t)[i] = s[i]
           /\ \A i \in 1..Len(t) : (s \o t)[Len(s) + i] = t[i]
OBVIOUS

LEMMA CutIs ==
    ASSUME NEW X, NEW s \in Seq(X), NEW k \in Nat, k <= Len(s)
    PROVE  /\ SubSeq(s, 1, k) \in Seq(X) /\ Len(SubSeq(s, 1, k)) = k
           /\ \A i \in 1..k : SubSeq(s, 1, k)[i] = s[i]
           /\ SubSeq(s, k + 1, Len(s)) \in Seq(X) /\ Len(SubSeq(s, k + 1, Len(s))) = Len(s) - k
           /\ \A i \in 1..(Len(s) - k) : SubSeq(s, k + 1, Len(s))[i] = s[k + i]
<1>1. Len(s) \in Nat /\ \A i \in 1..Len(s) : s[i] \in X
    OBVIOUS
<1>2. SubSeq(s, 1, k) = [i \in 1..k |-> s[i]]
    OBVIOUS
<1>3. [i \in 1..k |-> s[i]] \in [1..k -> X]
    BY <1>1
<1>4. SubSeq(s, k + 1, Len(s)) = [i \in 1..(Len(s) - k) |-> s[k + i]]
    OBVIOUS
<1>5. [i \in 1..(Len(s) - k) |-> s[k + i]] \in [1..(Len(s) - k) -> X] /\ Len(s) - k \in Nat
    BY <1>1
<1>6. SubSeq(s, 1, k) \in Seq(X) /\ Len(SubSeq(s, 1, k)) = k
    BY <1>2, <1>3, FunctionIsSeq
<1>7. SubSeq(s, k + 1, Len(s)) \in Seq(X) /\ Len(SubSeq(s, k + 1, Len(s))) = Len(s) - k
    BY <1>4, <1>5, FunctionIsSeq
<1> QED
    BY <1>2, <1>4, <1>6, <1>7

\* One element more is cut off.
LEMMA CutNext ==
    ASSUME NEW X, NEW s \in Seq(X), NEW m \in Nat, m + 1 <= Len(s)
    PROVE  SubSeq(s, 1, m + 1) = Append(SubSeq(s, 1, m), s[m + 1])
<1>1. /\ SubSeq(s, 1, m + 1) \in Seq(X) /\ Len(SubSeq(s, 1, m + 1)) = m + 1
      /\ \A i \in 1..(m + 1) : SubSeq(s, 1, m + 1)[i] = s[i]
    <2> DEFINE l == m + 1
    <2>1. l \in Nat /\ l <= Len(s)
        OBVIOUS
    <2> HIDE DEF l
    <2>2. SubSeq(s, 1, l) \in Seq(X) /\ Len(SubSeq(s, 1, l)) = l /\ \A i \in 1..l : SubSeq(s, 1, l)[i] = s[i]
        BY <2>1, CutIs
    <2> QED
        BY <2>2 DEF l
<1>2. /\ SubSeq(s, 1, m) \in Seq(X) /\ Len(SubSeq(s, 1, m)) = m
      /\ \A i \in 1..m : SubSeq(s, 1, m)[i] = s[i]
    <2>1. m <= Len(s)
        OBVIOUS
    <2> QED
        BY <2>1, CutIs
<1>3. s[m + 1] \in X
    OBVIOUS
<1> DEFINE x == SubSeq(s, 1, m + 1)
           y == SubSeq(s, 1, m)
           e == s[m + 1]
           z == Append(y, e)
<1>4. z \in Seq(X) /\ Len(z) = m + 1 /\ z[m + 1] = e /\ \A i \in 1..m : z[i] = s[i]
    <2> HIDE DEF y, e
    <2>1. y \in Seq(X) /\ Len(y) = m /\ e \in X /\ \A i \in 1..m : y[i] = s[i]
        BY <1>2, <1>3 DEF y, e
    <2> QED
        BY <2>1
<1> HIDE DEF x, z
<1>5. x \in Seq(X) /\ Len(x) = Len(z) /\ \A i \in 1..Len(x) : x[i] = z[i]
    <2>1. \A i \in 1..(m + 1) : x[i] = z[i]
        <3> TAKE i \in 1..(m + 1)
        <3>1. i = m + 1 \/ i \in 1..m
            OBVIOUS
        <3> QED
            BY <1>1, <1>4, <3>1 DEF x, e
    <2> QED
        BY <1>1, <1>4, <2>1 DEF x
<1>6. x = z
    BY <1>4, <1>5, SameSeq
<1> QED
    BY <1>6 DEF x, z

\* The end of a sequence, and what is before it.
LEMMA LastSplit ==
    ASSUME NEW X, NEW s \in Seq(X), NEW n \in Nat, Len(s) = n + 1
    PROVE  /\ SubSeq(s, 1, n) \in Seq(X) /\ Len(SubSeq(s, 1, n)) = n /\ s[n + 1] \in X
           /\ s = Append(SubSeq(s, 1, n), s[n + 1])
<1>1. n \in Nat /\ n <= Len(s) /\ s[n + 1] \in X
    OBVIOUS
<1> DEFINE t == SubSeq(s, 1, n)
<1>2. t \in Seq(X) /\ Len(t) = n /\ \A i \in 1..n : t[i] = s[i]
    BY <1>1, CutIs
<1> HIDE DEF t
<1>3. s = Append(t, s[n + 1])
    <2> DEFINE r == Append(t, s[n + 1])
    <2>1. r \in Seq(X) /\ Len(r) = n + 1 /\ r[n + 1] = s[n + 1] /\ \A i \in 1..n : r[i] = t[i]
        BY <1>1, <1>2
    <2> HIDE DEF r
    <2>2. \A i \in 1..Len(s) : s[i] = r[i]
        BY <1>2, <2>1
    <2>3. s = r
        BY <2>1, <2>2, SameSeq
    <2> QED
        BY <2>3 DEF r
<1> QED
    BY <1>1, <1>2, <1>3 DEF t

\* A function defined by what its value at k makes of the one at k - 1.
Recursion(V, a, n, d, f) == f \in [0..n -> V] /\ f[0] = a /\ \A k \in 1..n : f[k] = d[k][f[k - 1]]

LEMMA RecursionExists ==
    ASSUME NEW V, NEW a \in V, NEW n \in Nat, NEW d \in [1..n -> [V -> V]]
    PROVE  \E f : Recursion(V, a, n, d, f)
<1> DEFINE Upto(m, g) == g \in [0..m -> V] /\ g[0] = a /\ \A k \in 1..m : g[k] = d[k][g[k - 1]]
           S == {m \in Nat : m <= n => \E g : Upto(m, g)}
<1>1. 0 \in S
    <2>1. Upto(0, [k \in 0..0 |-> a])
        OBVIOUS
    <2> QED
        BY <2>1
<1>2. ASSUME NEW m \in Nat, m \in S, m + 1 <= n PROVE \E h : Upto(m + 1, h)
    <2>0. PICK g : Upto(m, g)
        BY <1>2
    <2>1. g[m] \in V /\ d[m + 1] \in [V -> V]
        BY <1>2, <2>0
    <2> DEFINE v == d[m + 1][g[m]]
               h == [k \in 0..(m + 1) |-> IF k = m + 1 THEN v ELSE g[k]]
    <2>2. v \in V
        BY <2>1
    <2>3. h[m + 1] = d[m + 1][g[m]] /\ \A k \in 0..m : h[k] = g[k]
        OBVIOUS
    <2>4. h \in [0..(m + 1) -> V]
        <3>1. \A k \in 0..(m + 1) : k # m + 1 => g[k] \in V
            BY <2>0
        <3> HIDE DEF v
        <3> QED
            BY <2>2, <3>1
    <2> HIDE DEF h
    <2>5. \A k \in 1..(m + 1) : h[k] = d[k][h[k - 1]]
        <3> TAKE k \in 1..(m + 1)
        <3>1. CASE k = m + 1
            <4>1. k - 1 = m /\ h[k - 1] = g[m]
                BY <2>3, <3>1
            <4> QED
                BY <2>3, <3>1, <4>1
        <3>2. CASE k # m + 1
            <4>1. k \in 1..m /\ k - 1 \in 0..m /\ k \in 0..m
                BY <3>2
            <4>2. g[k] = d[k][g[k - 1]]
                BY <2>0, <4>1
            <4> QED
                BY <2>3, <4>1, <4>2
        <3> QED
            BY <3>1, <3>2
    <2> QED
        BY <2>0, <2>3, <2>4, <2>5, SMTT(40)
<1> HIDE DEF Upto
<1>3. \A m \in Nat : m \in S => m + 1 \in S
    <2> SUFFICES ASSUME NEW m \in Nat, m \in S PROVE m + 1 \in S
        OBVIOUS
    <2>1. m + 1 \in Nat
        OBVIOUS
    <2>2. m + 1 <= n => \E h : Upto(m + 1, h)
        BY <1>2, Zenon
    <2> QED
        BY <2>1, <2>2, Zenon DEF S
<1>4. n \in S
    <2> HIDE DEF S
    <2> QED
        BY <1>1, <1>3, SetInduction
<1> QED
    BY <1>4 DEF Upto, Recursion

Alike(f, g, n) == f[0] = g[0] /\ \A k \in 1..n : f[k - 1] = g[k - 1] => f[k] = g[k]

LEMMA RecursionUnique ==
    ASSUME NEW n \in Nat, NEW f, NEW g, Alike(f, g, n)
    PROVE  \A k \in 0..n : f[k] = g[k]
<1> DEFINE S == {k \in Nat : k <= n => f[k] = g[k]}
<1>1. 0 \in S
    BY DEF Alike
<1>2. \A k \in Nat : k \in S => k + 1 \in S
    <2> SUFFICES ASSUME NEW k \in Nat, f[k] = g[k], k + 1 <= n PROVE f[k + 1] = g[k + 1]
        OBVIOUS
    <2>1. k + 1 \in 1..n /\ (k + 1) - 1 = k
        OBVIOUS
    <2> QED
        BY <2>1 DEF Alike
<1>3. Nat \subseteq S
    <2> HIDE DEF S
    <2> QED
        BY <1>1, <1>2, SetInduction
<1> QED
    BY <1>3
---------------------------------------------------------------------------
(* Filing messages *)

LEMMA MessageIs ==
    ASSUME NEW id \in Ids
    PROVE  Messages[id].node \in Nodes /\ Messages[id].replace \in Nat
<1> DEFINE R == [node : Nodes, replace : Nat]
<1>1. Messages \in Seq(R) /\ id \in 1..Len(Messages)
    BY MonitorAssumption DEF MonitorAssumption, Ids
<1>2. Messages[id] \in R
    <2> HIDE DEF R
    <2> QED
        BY <1>1
<1> QED
    BY <1>2

\* A message goes to the end of its node, or into the place of an earlier one.
Takes(old, new, id) ==
    \/ new = Append(old, id)
    \/ \E r \in 1..Len(old) : new = [old EXCEPT ![r] = id]

LEMMA SlotOf ==
    ASSUME NEW c \in Slot
    PROVE  c.id \in Ids /\ Under(c) \in Nodes /\ Messages[c.id].replace \in Nat
<1>1. c.id \in Ids
    BY DEF Slot, Cell
<1>2. Key(c) \in DOMAIN NameFrom
    BY DEF Slot, Splits
<1>3. Under(c) \in Nodes
    BY <1>2, MonitorAssumption DEF MonitorAssumption, Under
<1> QED
    BY <1>1, <1>3, MessageIs

LEMMA FiledIs ==
    ASSUME NEW t \in Trees, NEW c \in Slot
    PROVE  /\ Filed(t, c) \in Trees
           /\ \A n \in Nodes : n # Under(c) => Filed(t, c)[n] = t[n]
           /\ Takes(t[Under(c)], Filed(t, c)[Under(c)], c.id)
<1> DEFINE n == Under(c)
           r == Messages[c.id].replace
           id == c.id
           v == IF r > 0 /\ Len(t[n]) >= r THEN [t[n] EXCEPT ![r] = id] ELSE Append(t[n], id)
<1>1. n \in Nodes /\ r \in Nat /\ id \in Ids
    BY SlotOf
<1>2. Filed(t, c) = [t EXCEPT ![n] = v]
    BY DEF Filed, Under
<1> HIDE DEF n, r, id
<1>3. t[n] \in Seq(Ids)
    BY <1>1 DEF Trees
<1>4. v \in Seq(Ids)
    BY <1>1, <1>3
<1>5. Takes(t[n], v, id)
    <2>1. CASE r > 0 /\ Len(t[n]) >= r
        <3>1. r \in 1..Len(t[n]) /\ v = [t[n] EXCEPT ![r] = id]
            BY <1>1, <1>3, <2>1
        <3> QED
            BY <3>1 DEF Takes
    <2>2. CASE ~(r > 0 /\ Len(t[n]) >= r)
        BY <2>2 DEF Takes
    <2> QED
        BY <2>1, <2>2
<1> HIDE DEF v
<1>6. Filed(t, c) \in Trees
    BY <1>1, <1>2, <1>4 DEF Trees
<1>7. Filed(t, c)[n] = v /\ \A k \in Nodes : k # n => Filed(t, c)[k] = t[k]
    BY <1>1, <1>2 DEF Trees
<1> QED
    BY <1>5, <1>6, <1>7 DEF n, id

\* FiledAll(), message by message.
Files(t, cells, f) ==
    /\ f \in [0..Len(cells) -> Trees] /\ f[0] = t
    /\ \A k \in 1..Len(cells) : f[k] = Filed(f[k - 1], cells[k])

LEMMA FilesExist ==
    ASSUME NEW t \in Trees, NEW cells \in Seq(Slot)
    PROVE  \E f : Files(t, cells, f)
<1> DEFINE n == Len(cells)
           d == [k \in 1..n |-> [x \in Trees |-> Filed(x, cells[k])]]
<1>1. n \in Nat /\ \A k \in 1..n : cells[k] \in Slot
    OBVIOUS
<1>2. d \in [1..n -> [Trees -> Trees]]
    <2>1. \A k \in 1..n : \A x \in Trees : Filed(x, cells[k]) \in Trees
        BY <1>1, FiledIs
    <2> QED
        BY <2>1
<1>3. \A k \in 1..n : \A x \in Trees : d[k][x] = Filed(x, cells[k])
    OBVIOUS
<1> HIDE DEF d, n
<1>4. PICK f \in [0..n -> Trees] : f[0] = t /\ \A k \in 1..n : f[k] = d[k][f[k - 1]]
    <2>1. \E f : Recursion(Trees, t, n, d, f)
        BY <1>1, <1>2, RecursionExists
    <2> QED
        BY <2>1 DEF Recursion
<1>5. \A k \in 1..n : f[k - 1] \in Trees
    BY <1>1, <1>4
<1>6. \A k \in 1..n : f[k] = Filed(f[k - 1], cells[k])
    BY <1>3, <1>4, <1>5
<1> QED
    BY <1>4, <1>6 DEF Files, n

LEMMA FilesUnique ==
    ASSUME NEW t \in Trees, NEW cells \in Seq(Slot), NEW f, Files(t, cells, f)
    PROVE  FiledAll(t, cells) = f[Len(cells)] /\ FiledAll(t, cells) \in Trees
<1> DEFINE n == Len(cells)
           F(g) == g = [k \in 0..n |-> IF k = 0 THEN t ELSE Filed(g[k - 1], cells[k])]
           filed == CHOOSE g : F(g)
<1>1. n \in Nat /\ f \in [0..n -> Trees] /\ f[0] = t /\ \A k \in 1..n : f[k] = Filed(f[k - 1], cells[k])
    BY DEF Files
<1>2. FiledAll(t, cells) = filed[n]
    BY DEF FiledAll
<1>3. F(f)
    <2> DEFINE g == [k \in 0..n |-> IF k = 0 THEN t ELSE Filed(f[k - 1], cells[k])]
    <2>1. \A k \in 0..n : f[k] = g[k]
        <3> TAKE k \in 0..n
        <3>1. k # 0 => k \in 1..n
            BY <1>1
        <3> QED
            BY <1>1, <3>1
    <2>2. f = [k \in 0..n |-> f[k]]
        BY <1>1
    <2> QED
        BY <2>1, <2>2
<1>4. F(filed)
    <2> HIDE DEF F
    <2> QED
        BY <1>3
<1> HIDE DEF filed
<1>5. filed[0] = t /\ \A k \in 1..n : filed[k] = Filed(filed[k - 1], cells[k])
    BY <1>1, <1>4
<1>6. Alike(filed, f, n)
    BY <1>1, <1>5 DEF Alike
<1> HIDE DEF F, n
<1>7. \A k \in 0..n : filed[k] = f[k]
    BY <1>1, <1>6, RecursionUnique
<1>8. n \in 0..n
    BY <1>1
<1> QED
    BY <1>1, <1>2, <1>7, <1>8 DEF n

LEMMA NothingFiled ==
    ASSUME NEW t \in Trees
    PROVE  FiledAll(t, <<>>) = t
<1>1. <<>> \in Seq(Slot) /\ Len(<<>>) = 0
    OBVIOUS
<1>2. PICK f : Files(t, <<>>, f)
    BY <1>1, FilesExist
<1>3. FiledAll(t, <<>>) = f[0]
    BY <1>1, <1>2, FilesUnique
<1> QED
    BY <1>2, <1>3 DEF Files

LEMMA OneMoreFiled ==
    ASSUME NEW t \in Trees, NEW cells \in Seq(Slot), NEW c \in Slot
    PROVE  FiledAll(t, Append(cells, c)) = Filed(FiledAll(t, cells), c)
<1> DEFINE n == Len(cells)
           r == Append(cells, c)
<1>0. r \in Seq(Slot) /\ Len(r) = n + 1 /\ r[n + 1] = c /\ n \in Nat /\ \A k \in 1..n : r[k] = cells[k]
    OBVIOUS
<1> HIDE DEF r
<1>1. PICK f : Files(t, r, f)
    BY <1>0, FilesExist
<1>2. FiledAll(t, r) = f[n + 1]
    BY <1>0, <1>1, FilesUnique
<1> DEFINE g == [k \in 0..n |-> f[k]]
<1>3. f \in [0..(n + 1) -> Trees] /\ f[0] = t /\ \A k \in 1..(n + 1) : f[k] = Filed(f[k - 1], r[k])
    BY <1>0, <1>1 DEF Files
<1>4. g \in [0..n -> Trees] /\ g[0] = t /\ \A k \in 0..n : g[k] = f[k]
    BY <1>0, <1>3
<1> HIDE DEF g
<1>5. \A k \in 1..n : g[k] = Filed(g[k - 1], cells[k])
    <2> TAKE k \in 1..n
    <2>1. k \in 1..(n + 1) /\ k \in 0..n /\ k - 1 \in 0..n
        BY <1>0
    <2>2. f[k] = Filed(f[k - 1], r[k]) /\ r[k] = cells[k]
        BY <1>0, <1>3, <2>1
    <2> QED
        BY <1>4, <2>1, <2>2
<1>6. FiledAll(t, cells) = g[n]
    <2>1. Files(t, cells, g)
        BY <1>4, <1>5 DEF Files
    <2> QED
        BY <2>1, FilesUnique
<1>7. f[n + 1] = Filed(f[n], c)
    <2>1. n + 1 \in 1..(n + 1) /\ (n + 1) - 1 = n
        BY <1>0
    <2> QED
        BY <1>0, <1>3, <2>1
<1>8. g[n] = f[n]
    BY <1>0, <1>4
<1> QED
    BY <1>2, <1>6, <1>7, <1>8 DEF r

LEMMA FiledAllIs == ASSUME NEW t \in Trees, NEW cells \in Seq(Slot) PROVE FiledAll(t, cells) \in Trees
<1>1. PICK f : Files(t, cells, f)
    BY FilesExist
<1> QED
    BY <1>1, FilesUnique

\* Some messages and then others.
LEMMA FiledTogether ==
    ASSUME NEW t \in Trees, NEW a \in Seq(Slot), NEW b \in Seq(Slot)
    PROVE  FiledAll(t, a \o b) = FiledAll(FiledAll(t, a), b)
<1> DEFINE u == FiledAll(t, a)
           P(s) == FiledAll(t, a \o s) = FiledAll(u, s)
           S == {n \in Nat : \A s \in Seq(Slot) : Len(s) = n => P(s)}
<1>0. u \in Trees
    BY FiledAllIs
<1>1. 0 \in S
    <2>1. \A s \in Seq(Slot) : Len(s) = 0 => s = <<>>
        OBVIOUS
    <2>2. a \o <<>> = a
        OBVIOUS
    <2>3. FiledAll(u, <<>>) = u
        BY <1>0, NothingFiled
    <2>4. P(<<>>)
        BY <2>2, <2>3
    <2> HIDE DEF P
    <2> QED
        BY <2>1, <2>4
<1>2. \A n \in Nat : n \in S => n + 1 \in S
    <2> HIDE DEF P
    <2> SUFFICES ASSUME NEW n \in Nat, \A s \in Seq(Slot) : Len(s) = n => P(s)
                 PROVE  \A s \in Seq(Slot) : Len(s) = n + 1 => P(s)
        OBVIOUS
    <2> SUFFICES ASSUME NEW s \in Seq(Slot), Len(s) = n + 1 PROVE P(s)
        OBVIOUS
    <2> DEFINE c == SubSeq(s, 1, n)
               e == s[n + 1]
    <2>1. c \in Seq(Slot) /\ Len(c) = n /\ e \in Slot /\ s = Append(c, e)
        BY LastSplit
    <2>2. P(c)
        BY <2>1
    <2> HIDE DEF c, e
    <2>3. a \o s = Append(a \o c, e) /\ a \o c \in Seq(Slot)
        BY <2>1
    <2>4. FiledAll(t, Append(a \o c, e)) = Filed(FiledAll(t, a \o c), e)
        BY <2>1, <2>3, OneMoreFiled
    <2> HIDE DEF u
    <2>5. FiledAll(u, Append(c, e)) = Filed(FiledAll(u, c), e)
        BY <1>0, <2>1, OneMoreFiled
    <2> QED
        BY <2>1, <2>2, <2>3, <2>4, <2>5 DEF P
<1>3. Len(b) \in S
    <2> HIDE DEF S
    <2>1. Len(b) \in Nat
        OBVIOUS
    <2> QED
        BY <1>1, <1>2, <2>1, SetInduction
<1> QED
    BY <1>3
---------------------------------------------------------------------------
(* Records and their parts *)

LEMMA DivisionIs ==
    ASSUME NEW U \in Nat \ {0}, NEW a \in Nat
    PROVE  a \div U \in Nat /\ (a % U) \in 0..(U - 1) /\ a = U * (a \div U) + (a % U)
OBVIOUS

LEMMA Products ==
    ASSUME NEW U \in Nat \ {0}, NEW i \in Nat, NEW j \in Nat
    PROVE  /\ i * U \in Nat /\ (i + 1) * U = i * U + U /\ U * i = i * U
           /\ (i + j) * U = i * U + j * U
           /\ i < j => i * U + U <= j * U
<1>1. i * U \in Nat /\ (i + 1) * U = i * U + U /\ U * i = i * U /\ (i + j) * U = i * U + j * U
    OBVIOUS
<1>2. i < j => i * U + U <= j * U
    <2> SUFFICES ASSUME i < j PROVE i * U + U <= j * U
        OBVIOUS
    <2> DEFINE d == j - i - 1
    <2>1. d \in Nat /\ j = i + 1 + d
        OBVIOUS
    <2> HIDE DEF d
    <2>2. (i + 1 + d) * U = i * U + U + d * U /\ d * U \in Nat
        BY <2>1
    <2> QED
        BY <1>1, <2>1, <2>2
<1> QED
    BY <1>1, <1>2

LEMMA DivisionUnique ==
    ASSUME NEW U \in Nat \ {0}, NEW q \in Nat, NEW r \in 0..(U - 1), NEW a \in Nat, a = q * U + r
    PROVE  a \div U = q /\ a % U = r
<1> DEFINE p == a \div U
           s == a % U
<1>1. p \in Nat /\ s \in 0..(U - 1) /\ a = U * p + s
    BY DivisionIs
<1> HIDE DEF p, s
<1>2. U * p = p * U /\ p * U \in Nat /\ q * U \in Nat
    BY <1>1
<1>3. p < q => p * U + U <= q * U
    BY <1>1, Products
<1>4. q < p => q * U + U <= p * U
    BY <1>1, Products
<1>5. ~(p < q)
    BY <1>1, <1>2, <1>3
<1>6. ~(q < p)
    BY <1>1, <1>2, <1>4
<1>7. p = q
    BY <1>1, <1>5, <1>6
<1>8. s = r
    BY <1>1, <1>2, <1>7
<1> QED
    BY <1>7, <1>8 DEF p, s

LEMMA DivisionNext ==
    ASSUME NEW U \in Nat \ {0}, NEW a \in Nat
    PROVE  IF (a + 1) % U = 0 THEN (a + 1) \div U = (a \div U) + 1 ELSE (a + 1) \div U = a \div U
<1> DEFINE p == a \div U
           s == a % U
<1>1. p \in Nat /\ s \in 0..(U - 1) /\ a = U * p + s /\ U * p = p * U
    BY DivisionIs, Products
<1> HIDE DEF p, s
<1>2. (p + 1) * U = p * U + U /\ p * U \in Nat
    BY <1>1, Products
<1> DEFINE b == a + 1
<1>3. CASE s = U - 1
    <2> DEFINE q == p + 1
               r == 0
    <2>1. b = q * U + r /\ r \in 0..(U - 1) /\ q \in Nat /\ b \in Nat
        BY <1>1, <1>2, <1>3
    <2> HIDE DEF b, q, r
    <2>2. b \div U = q /\ b % U = r
        BY <2>1, DivisionUnique
    <2> QED
        BY <2>2 DEF p, b, q, r
<1>4. CASE s # U - 1
    <2> DEFINE r == s + 1
    <2>1. b = p * U + r /\ r \in 0..(U - 1) /\ b \in Nat /\ r # 0
        BY <1>1, <1>2, <1>4
    <2> HIDE DEF b, r
    <2>2. b \div U = p /\ b % U = r
        BY <1>1, <2>1, DivisionUnique
    <2> QED
        BY <2>1, <2>2 DEF p, b
<1> QED
    BY <1>3, <1>4

LEMMA Sizes == Units \in Nat \ {0} /\ Capacity \in Nat \ {0} /\ Processes \in Nat \ {0} /\ Ids \subseteq Nat \ {0}
BY MonitorAssumption DEF MonitorAssumption, Ids

\* Where cell k of whole records is.
LEMMA Place ==
    ASSUME NEW n \in Nat, NEW k \in 1..(n * Units)
    PROVE  /\ k - 1 \in Nat /\ ((k - 1) \div Units) \in 0..(n - 1) /\ ((k - 1) % Units) \in 0..(Units - 1)
           /\ k - 1 = ((k - 1) \div Units) * Units + ((k - 1) % Units)
<1> DEFINE p == (k - 1) \div Units
           s == (k - 1) % Units
<1>0. Units \in Nat \ {0}
    BY Sizes
<1>1. n * Units \in Nat /\ k \in Nat /\ k >= 1 /\ k <= n * Units /\ k - 1 \in Nat
    BY <1>0, Products
<1>2. p \in Nat /\ s \in 0..(Units - 1) /\ k - 1 = Units * p + s
    BY <1>0, <1>1, DivisionIs
<1> HIDE DEF p, s
<1>3. Units * p = p * Units /\ (n < p => n * Units + Units <= p * Units)
    BY <1>0, <1>2, Products
<1>4. n # p /\ ~(n < p)
    BY <1>0, <1>1, <1>2, <1>3
<1> QED
    BY <1>1, <1>2, <1>3, <1>4 DEF p, s

LEMMA BatchIs ==
    ASSUME NEW ids \in Seq(Ids)
    PROVE  /\ Len(ids) \in Nat /\ Len(ids) * Units \in Nat
           /\ Batch(ids) \in Seq(Cell) /\ Len(Batch(ids)) = Len(ids) * Units
           /\ \A k \in 1..(Len(ids) * Units) :
                 Batch(ids)[k] = [id |-> ids[((k - 1) \div Units) + 1], u |-> ((k - 1) % Units) + 1]
<1> DEFINE n == Len(ids)
           N == n * Units
           C(k) == [id |-> ids[((k - 1) \div Units) + 1], u |-> ((k - 1) % Units) + 1]
<1>1. n \in Nat /\ Units \in Nat \ {0} /\ N \in Nat
    BY Sizes, Products
<1> HIDE DEF n
<1>2. \A k \in 1..N : ((k - 1) \div Units) + 1 \in 1..n /\ ((k - 1) % Units) + 1 \in 1..Units
    BY <1>1, Place
<1>3. \A k \in 1..N : Cells(ids[((k - 1) \div Units) + 1])[((k - 1) % Units) + 1] = C(k)
    BY <1>2 DEF Cells
<1>4. \A k \in 1..N : C(k) \in Cell
    <2> TAKE k \in 1..N
    <2> DEFINE i == ((k - 1) \div Units) + 1
               v == ((k - 1) % Units) + 1
    <2>1. i \in 1..n /\ v \in 1..Units
        BY <1>2
    <2> HIDE DEF i, v
    <2>2. ids[i] \in Ids
        BY <2>1 DEF n
    <2> QED
        BY <2>1, <2>2 DEF Cell, i, v
<1>5. Batch(ids) = [k \in 1..N |-> C(k)]
    BY <1>3 DEF Batch, n
<1> HIDE DEF N, C
<1>6. [k \in 1..N |-> C(k)] \in [1..N -> Cell]
    BY <1>4
<1>7. Batch(ids) \in Seq(Cell) /\ Len(Batch(ids)) = N
    BY <1>1, <1>5, <1>6, FunctionIsSeq
<1>8. \A k \in 1..N : Batch(ids)[k] = C(k)
    BY <1>5
<1> QED
    BY <1>1, <1>7, <1>8 DEF N, C, n

\* Cell v of record i.
LEMMA CellIs ==
    ASSUME NEW ids \in Seq(Ids), NEW i \in 1..Len(ids), NEW v \in 1..Units
    PROVE  /\ (i - 1) * Units + v \in 1..(Len(ids) * Units)
           /\ Batch(ids)[(i - 1) * Units + v] = [id |-> ids[i], u |-> v]
<1> DEFINE n == Len(ids)
           k == (i - 1) * Units + v
           q == i - 1
           r == v - 1
           a == k - 1
<1>0. n \in Nat /\ Units \in Nat \ {0} /\ i \in 1..n /\ v \in 1..Units
    BY Sizes
<1>1. q \in Nat /\ q < n /\ r \in 0..(Units - 1)
    BY <1>0
<1> HIDE DEF q, n
<1>2. q * Units \in Nat /\ n * Units \in Nat /\ q * Units + Units <= n * Units
    BY <1>0, <1>1, Products
<1>3. k \in 1..(n * Units)
    BY <1>0, <1>2 DEF q
<1>4. a \in Nat /\ a = q * Units + r
    BY <1>0, <1>2 DEF q
<1> HIDE DEF a, r, k
<1>5. a \div Units = q /\ a % Units = r
    BY <1>0, <1>1, <1>4, DivisionUnique
<1>6. q + 1 = i /\ r + 1 = v
    BY <1>0 DEF q, r
<1>7. Batch(ids)[k] = [id |-> ids[(a \div Units) + 1], u |-> (a % Units) + 1]
    BY <1>3, BatchIs DEF a, n
<1>8. Batch(ids)[k] = [id |-> ids[i], u |-> v]
    BY <1>5, <1>6, <1>7
<1> QED
    BY <1>3, <1>8 DEF k, q, n

LEMMA EveryPlace ==
    ASSUME NEW n \in Nat, NEW k \in 1..(n * Units)
    PROVE  \E i \in 1..n, v \in 1..Units : k = (i - 1) * Units + v
<1> DEFINE p == (k - 1) \div Units
           s == (k - 1) % Units
<1>1. k - 1 \in Nat /\ p \in 0..(n - 1) /\ s \in 0..(Units - 1) /\ k - 1 = p * Units + s
    BY Place
<1> HIDE DEF p, s
<1>0. Units \in Nat \ {0} /\ p * Units \in Nat
    BY <1>1, Sizes, Products
<1>2. p + 1 \in 1..n /\ s + 1 \in 1..Units /\ k = ((p + 1) - 1) * Units + (s + 1)
    <2>1. (p + 1) - 1 = p /\ k \in Int
        BY <1>1
    <2> QED
        BY <1>0, <1>1, <2>1
<1> QED
    BY <1>2

\* Records and then others.
LEMMA BatchTogether ==
    ASSUME NEW a \in Seq(Ids), NEW b \in Seq(Ids)
    PROVE  Batch(a \o b) = Batch(a) \o Batch(b)
<1> DEFINE m == Len(a)
           n == Len(b)
           c == a \o b
           s == Batch(c)
           t == Batch(a) \o Batch(b)
<1>0. /\ m \in Nat /\ n \in Nat /\ c \in Seq(Ids) /\ Len(c) = m + n
      /\ (\A i \in 1..m : c[i] = a[i]) /\ \A i \in 1..n : c[m + i] = b[i]
    BY ConcatIs
<1>1. Units \in Nat \ {0} /\ m * Units \in Nat /\ n * Units \in Nat /\ (m + n) * Units = m * Units + n * Units
    BY <1>0, Sizes, Products
<1>2. Batch(a) \in Seq(Cell) /\ Len(Batch(a)) = m * Units /\ Batch(b) \in Seq(Cell) /\ Len(Batch(b)) = n * Units
    BY BatchIs
<1>3. /\ t \in Seq(Cell) /\ Len(t) = m * Units + n * Units
      /\ (\A i \in 1..(m * Units) : t[i] = Batch(a)[i]) /\ \A i \in 1..(n * Units) : t[m * Units + i] = Batch(b)[i]
    <2> DEFINE x == Batch(a)
               y == Batch(b)
    <2>1. x \in Seq(Cell) /\ y \in Seq(Cell)
        BY <1>2
    <2> HIDE DEF x, y, m, n
    <2>2. /\ x \o y \in Seq(Cell) /\ Len(x \o y) = Len(x) + Len(y)
          /\ (\A i \in 1..Len(x) : (x \o y)[i] = x[i])
          /\ \A i \in 1..Len(y) : (x \o y)[Len(x) + i] = y[i]
        BY <2>1, ConcatIs
    <2>3. Len(x) = m * Units /\ Len(y) = n * Units
        BY <1>2 DEF x, y
    <2> QED
        BY <2>2, <2>3 DEF x, y
<1> HIDE DEF c
<1>4. s \in Seq(Cell) /\ Len(s) = (m + n) * Units
    BY <1>0, BatchIs
<1> HIDE DEF t
<1>5. \A k \in 1..Len(s) : s[k] = t[k]
    <2> TAKE k \in 1..Len(s)
    <2>1. PICK i \in 1..(m + n), v \in 1..Units : k = (i - 1) * Units + v
        <3>1. k \in 1..((m + n) * Units) /\ m + n \in Nat
            BY <1>0, <1>4
        <3> QED
            BY <3>1, EveryPlace
    <2>2. s[k] = [id |-> c[i], u |-> v]
        BY <1>0, <2>1, CellIs
    <2>3. CASE i <= m
        <3>1. i \in 1..m /\ i \in 1..Len(a)
            BY <1>0, <2>3
        <3>2. k \in 1..(m * Units) /\ Batch(a)[k] = [id |-> a[i], u |-> v]
            BY <2>1, <3>1, CellIs
        <3> QED
            BY <1>0, <1>3, <2>2, <3>1, <3>2
    <2>4. CASE ~(i <= m)
        <3> DEFINE j == i - m
                   l == (j - 1) * Units + v
        <3>1. j \in 1..n /\ j \in 1..Len(b) /\ i = m + j
            BY <1>0, <2>4
        <3>2. l \in 1..(n * Units) /\ Batch(b)[l] = [id |-> b[j], u |-> v]
            <4> HIDE DEF j
            <4> QED
                BY <3>1, CellIs
        <3>3. k = m * Units + l
            <4> DEFINE d == j - 1
            <4>1. d \in Nat /\ i - 1 = m + d
                BY <1>0, <3>1
            <4> HIDE DEF d
            <4>2. (m + d) * Units = m * Units + d * Units /\ d * Units \in Nat
                BY <1>0, <1>1, <4>1, Products
            <4>3. l = d * Units + v
                BY DEF d
            <4> HIDE DEF l, j
            <4> QED
                BY <1>1, <2>1, <4>1, <4>2, <4>3
        <3> HIDE DEF l, j
        <3>4. t[k] = Batch(b)[l] /\ c[i] = b[j]
            BY <1>0, <1>3, <3>1, <3>2, <3>3
        <3> QED
            BY <2>2, <3>2, <3>4
    <2> QED
        BY <2>3, <2>4
<1>6. Len(s) = Len(t)
    BY <1>1, <1>3, <1>4
<1> HIDE DEF s
<1>7. s = t
    BY <1>3, <1>4, <1>5, <1>6, SameSeq
<1> QED
    BY <1>7 DEF s, t, c

\* Records that are cut where one ends.
LEMMA BatchCut ==
    ASSUME NEW ids \in Seq(Ids), NEW m \in 0..(Len(ids) * Units), m % Units = 0
    PROVE  \E a, b \in Seq(Ids) :
               /\ ids = a \o b /\ SubSeq(Batch(ids), 1, m) = Batch(a)
               /\ SubSeq(Batch(ids), m + 1, Len(Batch(ids))) = Batch(b)
<1> DEFINE n == Len(ids)
           q == m \div Units
           a == SubSeq(ids, 1, q)
           b == SubSeq(ids, q + 1, n)
<1>0. n \in Nat /\ Units \in Nat \ {0} /\ n * Units \in Nat /\ m \in Nat /\ m <= n * Units
    BY Sizes, Products
<1>1. q \in Nat /\ m = Units * q + (m % Units)
    BY <1>0, DivisionIs
<1> HIDE DEF q
<1>2. m = q * Units /\ (n < q => n * Units + Units <= q * Units)
    BY <1>0, <1>1, Products
<1>3. q <= n
    BY <1>0, <1>1, <1>2
<1>4. /\ a \in Seq(Ids) /\ Len(a) = q /\ \A i \in 1..q : a[i] = ids[i]
      /\ b \in Seq(Ids) /\ Len(b) = n - q /\ \A i \in 1..(n - q) : b[i] = ids[q + i]
    BY SMTT(40), <1>1, <1>3, CutIs
<1> HIDE DEF a, b
<1>5. ids = a \o b
    <2> DEFINE c == a \o b
    <2>1. /\ c \in Seq(Ids) /\ Len(c) = q + (n - q)
          /\ (\A i \in 1..q : c[i] = a[i]) /\ \A i \in 1..(n - q) : c[q + i] = b[i]
        <3>1. /\ a \o b \in Seq(Ids) /\ Len(a \o b) = Len(a) + Len(b)
              /\ (\A i \in 1..Len(a) : (a \o b)[i] = a[i])
              /\ \A i \in 1..Len(b) : (a \o b)[Len(a) + i] = b[i]
            <4>1. a \in Seq(Ids) /\ b \in Seq(Ids)
                BY <1>4
            <4> QED
                BY <4>1, ConcatIs
        <3>2. Len(a) = q /\ Len(b) = n - q
            BY <1>4
        <3> HIDE DEF n
        <3> QED
            BY <3>1, <3>2
    <2> HIDE DEF c
    <2>2. Len(c) = n
        BY <1>0, <1>1, <2>1
    <2>3. \A i \in 1..n : c[i] = ids[i]
        <3> TAKE i \in 1..n
        <3>1. CASE i <= q
            BY <1>0, <1>1, <1>4, <2>1, <3>1
        <3>2. CASE ~(i <= q)
            <4> DEFINE j == i - q
            <4>1. j \in 1..(n - q) /\ i = q + j
                BY <1>0, <1>1, <3>2
            <4> HIDE DEF j
            <4> QED
                BY <1>4, <2>1, <4>1
        <3> QED
            BY <3>1, <3>2
    <2>4. c = ids
        BY <2>1, <2>2, <2>3, SameSeq
    <2> QED
        BY <2>4 DEF c
<1>6. Batch(ids) = Batch(a) \o Batch(b)
    BY <1>4, <1>5, BatchTogether
<1> DEFINE x == Batch(a)
           y == Batch(b)
<1>7. x \in Seq(Cell) /\ y \in Seq(Cell) /\ Len(x) = m
    BY <1>2, <1>4, BatchIs
<1> HIDE DEF x, y
<1>8. SubSeq(x \o y, 1, m) = x /\ SubSeq(x \o y, m + 1, Len(x \o y)) = y
    <2> DEFINE z == x \o y
    <2>1. /\ z \in Seq(Cell) /\ Len(z) = m + Len(y) /\ Len(y) \in Nat
          /\ (\A i \in 1..m : z[i] = x[i]) /\ \A i \in 1..Len(y) : z[m + i] = y[i]
        <3>1. /\ x \o y \in Seq(Cell) /\ Len(x \o y) = Len(x) + Len(y) /\ Len(y) \in Nat
              /\ (\A i \in 1..Len(x) : (x \o y)[i] = x[i])
              /\ \A i \in 1..Len(y) : (x \o y)[Len(x) + i] = y[i]
            <4>1. x \in Seq(Cell) /\ y \in Seq(Cell)
                BY <1>7
            <4> QED
                BY <4>1, ConcatIs
        <3>2. Len(x) = m
            BY <1>7
        <3> QED
            BY <3>1, <3>2
    <2> HIDE DEF z
    <2>2. m <= Len(z) /\ Len(z) - m = Len(y)
        BY <1>0, <2>1
    <2>3. /\ SubSeq(z, 1, m) \in Seq(Cell) /\ Len(SubSeq(z, 1, m)) = m
          /\ \A i \in 1..m : SubSeq(z, 1, m)[i] = z[i]
          /\ SubSeq(z, m + 1, Len(z)) \in Seq(Cell) /\ Len(SubSeq(z, m + 1, Len(z))) = Len(z) - m
          /\ \A i \in 1..(Len(z) - m) : SubSeq(z, m + 1, Len(z))[i] = z[m + i]
        BY <1>0, <2>1, <2>2, CutIs
    <2> DEFINE s == SubSeq(z, 1, m)
               t == SubSeq(z, m + 1, Len(z))
    <2>4. s \in Seq(Cell) /\ Len(s) = Len(x) /\ \A i \in 1..Len(s) : s[i] = x[i]
        BY <1>7, <2>1, <2>3
    <2>5. t \in Seq(Cell) /\ Len(t) = Len(y) /\ \A i \in 1..Len(t) : t[i] = y[i]
        BY <2>1, <2>2, <2>3
    <2> HIDE DEF s, t
    <2>6. s = x /\ t = y
        BY <1>7, <2>4, <2>5, SameSeq
    <2> QED
        BY <2>6 DEF s, t, z
<1> QED
    BY <1>4, <1>5, <1>6, <1>8 DEF x, y

LEMMA NoRecords == Batch(<<>>) = <<>> /\ <<>> \in Seq(Ids)
<1>1. <<>> \in Seq(Ids) /\ Len(<<>>) = 0
    OBVIOUS
<1>2. 0 * Units = 0
    BY Sizes
<1>3. Batch(<<>>) \in Seq(Cell) /\ Len(Batch(<<>>)) = 0
    BY <1>1, <1>2, BatchIs
<1> QED
    BY <1>1, <1>3

\* The first parts of records name them.
LEMMA BatchHeads ==
    ASSUME NEW ids \in Seq(Ids)
    PROVE  HeadIds(Batch(ids)) = ids
<1> DEFINE cells == Batch(ids)
           n == Len(ids)
           N == Len(cells)
           F(g) == g = [k \in 0..N |-> IF k = 0 THEN <<>> ELSE IF cells[k].u = 1 THEN Append(g[k - 1], cells[k].id) ELSE g[k - 1]]
           heads == CHOOSE g : F(g)
           upto == [k \in 0..N |-> IF k = 0 THEN <<>> ELSE SubSeq(ids, 1, ((k - 1) \div Units) + 1)]
<1>0. /\ n \in Nat /\ N \in Nat /\ N = n * Units /\ Units \in Nat \ {0} /\ ids \in Seq(Ids)
      /\ \A k \in 1..N : cells[k].id = ids[((k - 1) \div Units) + 1] /\ cells[k].u = ((k - 1) % Units) + 1
    <2>1. /\ n \in Nat /\ n * Units \in Nat /\ N = n * Units
          /\ \A k \in 1..(n * Units) : cells[k] = [id |-> ids[((k - 1) \div Units) + 1], u |-> ((k - 1) % Units) + 1]
        BY BatchIs
    <2> HIDE DEF cells, N, n
    <2>2. \A k \in 1..N : cells[k].id = ids[((k - 1) \div Units) + 1] /\ cells[k].u = ((k - 1) % Units) + 1
        <3> TAKE k \in 1..N
        <3> DEFINE x == ids[((k - 1) \div Units) + 1]
                   v == ((k - 1) % Units) + 1
        <3>1. cells[k] = [id |-> x, u |-> v]
            BY <2>1
        <3> HIDE DEF x, v
        <3>2. cells[k].id = x /\ cells[k].u = v
            BY <3>1
        <3> QED
            BY <3>2 DEF x, v
    <2> QED
        BY <2>1, <2>2, Sizes
<1>1. HeadIds(cells) = heads[N]
    BY DEF HeadIds
<1> HIDE DEF cells, N, n
<1>2. upto[0] = <<>> /\ \A k \in 1..N : upto[k] = SubSeq(ids, 1, ((k - 1) \div Units) + 1)
    <2> DEFINE G(k) == SubSeq(ids, 1, ((k - 1) \div Units) + 1)
    <2>1. upto = [k \in 0..N |-> IF k = 0 THEN <<>> ELSE G(k)]
        OBVIOUS
    <2> HIDE DEF G, upto
    <2>2. upto[0] = <<>> /\ \A k \in 1..N : upto[k] = G(k)
        BY <1>0, <2>1
    <2> QED
        BY <2>2 DEF G
<1> HIDE DEF upto
<1>3. ASSUME NEW k \in 1..N
      PROVE  upto[k] = IF cells[k].u = 1 THEN Append(upto[k - 1], cells[k].id) ELSE upto[k - 1]
    <2> DEFINE q == (k - 1) \div Units
               r == (k - 1) % Units
    <2>1. /\ k - 1 \in Nat /\ q \in 0..(n - 1) /\ r \in 0..(Units - 1) /\ k - 1 = q * Units + r
          /\ cells[k].id = ids[q + 1] /\ cells[k].u = r + 1 /\ upto[k] = SubSeq(ids, 1, q + 1)
        <3>1. k \in 1..(n * Units)
            BY <1>0
        <3>2. k - 1 \in Nat /\ q \in 0..(n - 1) /\ r \in 0..(Units - 1) /\ k - 1 = q * Units + r
            BY <1>0, <3>1, Place
        <3> QED
            BY <1>0, <1>2, <3>2
    <2>2. CASE k = 1
        <3>1. q = 0 /\ r = 0
            <4> DEFINE z == 0
            <4>1. k - 1 = z * Units + z /\ z \in Nat /\ z \in 0..(Units - 1) /\ k - 1 \in Nat
                BY <1>0, <2>2
            <4> HIDE DEF z
            <4>2. q = z /\ r = z
                BY <1>0, <4>1, DivisionUnique
            <4> QED
                BY <4>2 DEF z
        <3> HIDE DEF q, r
        <3>2. SubSeq(ids, 1, 1) = Append(<<>>, ids[1])
            <4>1. SubSeq(ids, 1, 0) = <<>> /\ 1 <= Len(ids)
                BY <1>0, <2>1 DEF n
            <4>2. 0 \in Nat /\ 0 + 1 = 1
                OBVIOUS
            <4>3. SubSeq(ids, 1, 0 + 1) = Append(SubSeq(ids, 1, 0), ids[0 + 1])
                BY <4>1, <4>2, CutNext
            <4> QED
                BY <4>1, <4>2, <4>3
        <3>3. upto[k - 1] = <<>>
            BY <1>2, <2>2
        <3> QED
            BY <2>1, <3>1, <3>2, <3>3
    <2>3. CASE k # 1
        <3> DEFINE a == k - 2
                   p == a \div Units
        <3>1. a \in Nat /\ a + 1 = k - 1 /\ k - 1 \in 1..N /\ (k - 1) - 1 = a
            BY <1>0, <2>3
        <3>2. upto[k - 1] = SubSeq(ids, 1, p + 1)
            BY <1>2, <3>1
        <3>3. IF r = 0 THEN q = p + 1 ELSE q = p
            <4> HIDE DEF a
            <4>1. IF (a + 1) % Units = 0 THEN (a + 1) \div Units = (a \div Units) + 1
                                         ELSE (a + 1) \div Units = a \div Units
                BY <1>0, <3>1, DivisionNext
            <4> QED
                BY <3>1, <4>1
        <3>4. p \in Nat
            BY <1>0, <3>1, DivisionIs
        <3> HIDE DEF p, q, r, a
        <3>5. CASE r = 0
            <4>1. q = p + 1 /\ p + 1 <= n /\ p + 2 <= n
                BY <1>0, <2>1, <3>3, <3>4, <3>5
            <4> DEFINE m == p + 1
            <4>2. m \in Nat /\ m + 1 <= Len(ids) /\ q = m
                BY <1>0, <3>4, <4>1 DEF n
            <4> HIDE DEF m
            <4>3. SubSeq(ids, 1, m + 1) = Append(SubSeq(ids, 1, m), ids[m + 1])
                BY <4>2, CutNext
            <4> QED
                BY <2>1, <3>2, <3>5, <4>2, <4>3 DEF m
        <3>6. CASE r # 0
            <4>1. q = p /\ r + 1 # 1
                BY <1>0, <2>1, <3>3, <3>6
            <4> QED
                BY <2>1, <3>2, <4>1
        <3> QED
            BY <3>5, <3>6
    <2> QED
        BY <2>2, <2>3
<1>4. F(upto)
    <2> DEFINE g == [k \in 0..N |-> IF k = 0 THEN <<>> ELSE IF cells[k].u = 1 THEN Append(upto[k - 1], cells[k].id) ELSE upto[k - 1]]
    <2>1. \A k \in 0..N : upto[k] = g[k]
        <3> TAKE k \in 0..N
        <3>1. CASE k = 0
            BY <1>2, <3>1
        <3>2. CASE k # 0
            <4>1. k \in 1..N
                BY <1>0, <3>2
            <4> QED
                BY <1>3, <3>2, <4>1
        <3> QED
            BY <3>1, <3>2
    <2>2. upto = [k \in 0..N |-> upto[k]]
        BY DEF upto
    <2> HIDE DEF g
    <2>3. upto = [k \in 0..N |-> g[k]]
        BY <2>1, <2>2
    <2>4. g = [k \in 0..N |-> g[k]]
        BY DEF g
    <2> QED
        BY <2>3, <2>4 DEF g
<1>5. F(heads)
    <2> HIDE DEF F
    <2> QED
        BY <1>4
<1> HIDE DEF heads
<1>6. Alike(heads, upto, N)
    <2>1. heads[0] = <<>>
        BY <1>0, <1>5
    <2>2. ASSUME NEW k \in 1..N, heads[k - 1] = upto[k - 1] PROVE heads[k] = upto[k]
        <3>1. k \in 0..N /\ k # 0
            BY <1>0
        <3>2. heads[k] = IF cells[k].u = 1 THEN Append(heads[k - 1], cells[k].id) ELSE heads[k - 1]
            BY <1>5, <3>1
        <3> QED
            BY <1>3, <2>2, <3>2
    <2> QED
        BY <1>2, <2>1, <2>2 DEF Alike
<1>7. heads[N] = upto[N]
    <2> HIDE DEF F
    <2>1. \A k \in 0..N : heads[k] = upto[k]
        BY <1>0, <1>6, RecursionUnique
    <2> QED
        BY <1>0, <2>1
<1>8. upto[N] = ids
    <2>1. CASE n = 0
        <3>1. N = 0 /\ ids = <<>>
            BY <1>0, <2>1 DEF n
        <3> QED
            BY <1>2, <3>1
    <2>2. CASE n # 0
        <3> DEFINE a == N - 1
                   q == n - 1
                   r == Units - 1
        <3>1. q \in Nat /\ n = q + 1 /\ r \in 0..(Units - 1) /\ (q + 1) * Units = q * Units + Units /\ q * Units \in Nat
            <4>1. q \in Nat /\ n = q + 1 /\ r \in 0..(Units - 1)
                BY <1>0, <2>2
            <4> HIDE DEF q, r
            <4> QED
                BY <1>0, <4>1, Products
        <3>2. a \in Nat /\ a = q * Units + r /\ N \in 1..N
            <4> HIDE DEF q
            <4> QED
                BY <1>0, <3>1
        <3>3. a \div Units = q
            <4> HIDE DEF a, q, r
            <4> QED
                BY ZenonT(60), <1>0, <3>1, <3>2, DivisionUnique
        <3>4. upto[N] = SubSeq(ids, 1, n)
            BY <1>2, <3>1, <3>2, <3>3
        <3>5. SubSeq(ids, 1, n) = ids
            BY <1>0 DEF n
        <3> QED
            BY <3>4, <3>5
    <2> QED
        BY <2>1, <2>2
<1> QED
    BY <1>1, <1>7, <1>8 DEF cells

\* A record that is read from its first part on is filed under the node of its message.
LEMMA StartIs ==
    ASSUME NEW id \in Ids
    PROVE  Cells(id)[1] = [id |-> id, u |-> 1] /\ Cells(id)[1] \in Slot /\ Under(Cells(id)[1]) = Messages[id].node
<1> DEFINE n == Messages[id].node
           c == [id |-> id, u |-> 1]
<1>1. Cells(id)[1] = c
    BY Sizes DEF Cells
<1>2. c \in Cell /\ c.id = id /\ c.u = 1
    BY Sizes DEF Cell
<1>3. n \in Nodes
    BY MessageIs
<1> HIDE DEF c
<1>4. Key(c) = <<n, 1>>
    BY <1>2 DEF Key
<1> HIDE DEF n
<1>5. <<n, 1>> \in DOMAIN NameFrom /\ NameFrom[<<n, 1>>] = n
    BY <1>3, MonitorAssumption DEF MonitorAssumption
<1>6. c \in Slot /\ Under(c) = n
    BY <1>2, <1>4, <1>5 DEF Slot, Splits, Under
<1> QED
    BY <1>1, <1>6 DEF n, c

LEMMA StartsAre ==
    ASSUME NEW ids \in Seq(Ids)
    PROVE  /\ Starts(ids) \in Seq(Slot) /\ Len(Starts(ids)) = Len(ids) /\ Len(ids) \in Nat
           /\ \A k \in 1..Len(ids) : Starts(ids)[k] = Cells(ids[k])[1]
<1> DEFINE n == Len(ids)
           f == [k \in 1..n |-> Cells(ids[k])[1]]
<1>1. n \in Nat /\ \A k \in 1..n : ids[k] \in Ids
    OBVIOUS
<1>2. \A k \in 1..n : Cells(ids[k])[1] \in Slot
    BY <1>1, StartIs
<1>3. f \in [1..n -> Slot]
    BY <1>2
<1>4. Starts(ids) = f
    BY DEF Starts
<1>5. f \in Seq(Slot) /\ Len(f) = n
    BY <1>1, <1>3, FunctionIsSeq
<1> QED
    BY <1>1, <1>4, <1>5

\* What the logger files of some messages, and the monitor of their records.
Put(t, ids) == FiledAll(t, Starts(ids))

LEMMA NothingPut == ASSUME NEW t \in Trees PROVE Put(t, <<>>) = t
<1>1. Starts(<<>>) = <<>>
    <2>1. <<>> \in Seq(Ids) /\ Len(<<>>) = 0
        OBVIOUS
    <2>2. Starts(<<>>) \in Seq(Slot) /\ Len(Starts(<<>>)) = 0
        BY <2>1, StartsAre
    <2> QED
        BY <2>2
<1> QED
    BY <1>1, NothingFiled DEF Put

LEMMA OneMorePut ==
    ASSUME NEW t \in Trees, NEW ids \in Seq(Ids), NEW id \in Ids
    PROVE  Put(t, Append(ids, id)) = Filed(Put(t, ids), Cells(id)[1])
<1> DEFINE n == Len(ids)
           r == Append(ids, id)
           a == Starts(ids)
           e == Cells(id)[1]
           z == Append(a, e)
           x == Starts(r)
<1>1. r \in Seq(Ids) /\ Len(r) = n + 1 /\ r[n + 1] = id /\ n \in Nat /\ \A k \in 1..n : r[k] = ids[k]
    OBVIOUS
<1>2. a \in Seq(Slot) /\ Len(a) = n /\ \A k \in 1..n : a[k] = Cells(ids[k])[1]
    BY StartsAre
<1>3. e \in Slot
    BY StartIs
<1> HIDE DEF r, a
<1>4. x \in Seq(Slot) /\ Len(x) = n + 1 /\ \A k \in 1..(n + 1) : x[k] = Cells(r[k])[1]
    BY <1>1, StartsAre
<1> HIDE DEF x, e
<1>5. z \in Seq(Slot) /\ Len(z) = n + 1 /\ z[n + 1] = e /\ \A k \in 1..n : z[k] = a[k]
    BY <1>1, <1>2, <1>3
<1> HIDE DEF z
<1>6. \A k \in 1..Len(x) : x[k] = z[k]
    <2> SUFFICES ASSUME NEW k \in 1..(n + 1) PROVE x[k] = z[k]
        BY <1>4
    <2>1. k = n + 1 \/ k \in 1..n
        BY <1>1
    <2> QED
        BY <1>1, <1>2, <1>4, <1>5, <2>1 DEF e
<1>7. x = z
    BY <1>4, <1>5, <1>6, SameSeq
<1>8. FiledAll(t, z) = Filed(FiledAll(t, a), e)
    BY <1>2, <1>3, OneMoreFiled DEF z
<1> QED
    BY <1>7, <1>8 DEF Put, x, a, e, r

LEMMA PutIs == ASSUME NEW t \in Trees, NEW ids \in Seq(Ids) PROVE Put(t, ids) \in Trees
BY StartsAre, FiledAllIs DEF Put

LEMMA PutTogether ==
    ASSUME NEW t \in Trees, NEW a \in Seq(Ids), NEW b \in Seq(Ids)
    PROVE  Put(t, a \o b) = Put(Put(t, a), b)
<1> DEFINE c == a \o b
           x == Starts(c)
           y == Starts(a)
           w == Starts(b)
           z == y \o w
<1>1. /\ c \in Seq(Ids) /\ Len(c) = Len(a) + Len(b) /\ Len(a) \in Nat /\ Len(b) \in Nat
      /\ (\A i \in 1..Len(a) : c[i] = a[i]) /\ \A i \in 1..Len(b) : c[Len(a) + i] = b[i]
    BY ConcatIs
<1>2. y \in Seq(Slot) /\ Len(y) = Len(a) /\ \A k \in 1..Len(a) : y[k] = Cells(a[k])[1]
    BY StartsAre
<1>3. w \in Seq(Slot) /\ Len(w) = Len(b) /\ \A k \in 1..Len(b) : w[k] = Cells(b[k])[1]
    BY StartsAre
<1> HIDE DEF c, y, w
<1>4. x \in Seq(Slot) /\ Len(x) = Len(c) /\ \A k \in 1..Len(c) : x[k] = Cells(c[k])[1]
    BY <1>1, StartsAre
<1> HIDE DEF x
<1>5. /\ z \in Seq(Slot) /\ Len(z) = Len(y) + Len(w)
      /\ (\A i \in 1..Len(y) : z[i] = y[i]) /\ \A i \in 1..Len(w) : z[Len(y) + i] = w[i]
    <2>1. y \in Seq(Slot) /\ w \in Seq(Slot)
        BY <1>2, <1>3
    <2> QED
        BY <2>1, ConcatIs
<1> HIDE DEF z
<1>6. \A k \in 1..Len(x) : x[k] = z[k]
    <2> SUFFICES ASSUME NEW k \in 1..Len(c) PROVE x[k] = z[k]
        BY <1>4
    <2>1. CASE k <= Len(a)
        <3>1. k \in 1..Len(a) /\ k \in 1..Len(y)
            BY <1>1, <1>2, <2>1
        <3>2. z[k] = y[k] /\ y[k] = Cells(a[k])[1] /\ c[k] = a[k]
            BY <1>1, <1>2, <1>5, <3>1
        <3> QED
            BY <1>4, <3>2
    <2>2. CASE ~(k <= Len(a))
        <3> DEFINE j == k - Len(a)
        <3>1. j \in 1..Len(b) /\ k = Len(a) + j
            BY <1>1, <2>2
        <3> HIDE DEF j
        <3>2. z[k] = w[j] /\ w[j] = Cells(b[j])[1] /\ c[k] = b[j]
            BY <1>1, <1>2, <1>3, <1>5, <3>1
        <3> QED
            BY <1>4, <3>2
    <2> QED
        BY <2>1, <2>2
<1>7. x = z
    BY <1>1, <1>2, <1>3, <1>4, <1>5, <1>6, SameSeq
<1>8. FiledAll(t, z) = FiledAll(FiledAll(t, y), w)
    BY <1>2, <1>3, FiledTogether DEF z
<1> QED
    BY <1>7, <1>8 DEF Put, x, y, w, c

\* What the monitor takes from what it read: the slots up to one that does not split.
LEMMA RecordsAre ==
    ASSUME NEW cells \in Seq(Cell)
    PROVE  \E n \in Nat :
               /\ n <= Slots(cells) /\ \A i \in 1..n : Splits(SlotStart(cells, i))
               /\ \A m \in 0..Slots(cells) : (\A i \in 1..m : Splits(SlotStart(cells, i))) => m <= n
               /\ Records(cells) = [i \in 1..n |-> SlotStart(cells, i)]
<1> DEFINE M == Slots(cells)
           good == {n \in 0..M : \A i \in 1..n : Splits(SlotStart(cells, i))}
           n == CHOOSE m \in good : \A k \in good : k <= m
<1>1. M \in Nat
    <2>1. Len(cells) \in Nat /\ Units \in Nat \ {0}
        BY Sizes
    <2> QED
        BY <2>1, DivisionIs DEF Slots
<1> HIDE DEF M
<1>2. \E m \in good : \A k \in good : k <= m
    <2> DEFINE Best(m, l) == m <= l /\ \A k \in good : k <= l => k <= m
               S == {l \in Nat : \E m \in good : Best(m, l)}
    <2>1. 0 \in good
        BY <1>1
    <2>2. good \subseteq Nat /\ \A k \in good : k <= M
        BY <1>1
    <2> HIDE DEF good
    <2>3. 0 \in S
        BY <2>1, <2>2
    <2>4. \A l \in Nat : l \in S => l + 1 \in S
        <3> SUFFICES ASSUME NEW l \in Nat, NEW m \in good, Best(m, l)
                     PROVE  \E p \in good : Best(p, l + 1)
            OBVIOUS
        <3>1. CASE l + 1 \in good
            BY <2>2, <3>1
        <3>2. CASE l + 1 \notin good
            <4>1. m \in good /\ m <= l + 1 /\ \A k \in good : k <= l + 1 => k <= m
                <5>1. \A k \in good : k <= l + 1 => k <= l
                    BY <2>2, <3>2
                <5> QED
                    BY <2>2, <5>1
            <4> QED
                BY <4>1
        <3> QED
            BY <3>1, <3>2
    <2>5. M \in S
        <3> HIDE DEF S
        <3> QED
            BY <1>1, <2>3, <2>4, SetInduction
    <2> QED
        BY <1>1, <2>2, <2>5
<1>3. n \in good /\ \A k \in good : k <= n
    <2> HIDE DEF good
    <2> QED
        BY <1>2
<1>4. Records(cells) = [i \in 1..n |-> SlotStart(cells, i)]
    BY DEF Records, M
<1> HIDE DEF n
<1>5. n \in Nat /\ n <= M /\ (\A i \in 1..n : Splits(SlotStart(cells, i))) /\ \A m \in 0..M : (\A i \in 1..m : Splits(SlotStart(cells, i))) => m <= n
    BY <1>1, <1>3
<1> QED
    BY <1>4, <1>5 DEF M

\* Where a record begins in what was read.
LEMMA SlotIs ==
    ASSUME NEW cells \in Seq(Cell), NEW i \in 1..Slots(cells)
    PROVE  (i - 1) * Units + 1 \in 1..Len(cells) /\ (i - 1) * Units + Units <= Len(cells)
<1> DEFINE N == Len(cells)
           q == N \div Units
           a == i - 1
<1>0. N \in Nat /\ Units \in Nat \ {0} /\ Slots(cells) = q
    BY Sizes DEF Slots
<1>1. q \in Nat /\ (N % Units) \in 0..(Units - 1) /\ N = Units * q + (N % Units)
    BY <1>0, DivisionIs
<1> HIDE DEF q, N
<1>2. a \in Nat /\ a < q
    BY <1>0, <1>1
<1> HIDE DEF a
<1>3. a * Units \in Nat /\ a * Units + Units <= q * Units /\ Units * q = q * Units
    BY <1>0, <1>1, <1>2, Products
<1>4. a * Units + 1 \in 1..N /\ a * Units + Units <= N
    <2> DEFINE x == a * Units
               y == q * Units
               r == N % Units
    <2>1. x \in Nat /\ x + Units <= y /\ N = y + r /\ r \in Nat /\ y \in Int
        BY <1>0, <1>1, <1>3
    <2> HIDE DEF x, y, r
    <2>2. x + 1 \in 1..N /\ x + Units <= N
        BY <1>0, <2>1
    <2> QED
        BY <2>2 DEF x
<1> QED
    BY <1>4 DEF a, N

\* Of whole records, all.
LEMMA BatchRecords ==
    ASSUME NEW ids \in Seq(Ids)
    PROVE  Records(Batch(ids)) = Starts(ids)
<1> DEFINE cells == Batch(ids)
           n == Len(ids)
           one == 1
<1>0. n \in Nat /\ Units \in Nat \ {0} /\ n * Units \in Nat /\ cells \in Seq(Cell) /\ Len(cells) = n * Units
    BY BatchIs, Sizes
<1>1. Slots(cells) = n
    <2> DEFINE z == 0
               N == n * Units
    <2>1. N = n * Units + z /\ z \in 0..(Units - 1) /\ N \in Nat
        BY <1>0
    <2> HIDE DEF z, N, n
    <2>2. N \div Units = n
        BY <1>0, <2>1, DivisionUnique
    <2> QED
        BY <1>0, <2>2 DEF Slots, N
<1>2. \A i \in 1..n : cells[(i - 1) * Units + 1] = [id |-> ids[i], u |-> 1]
    <2> TAKE i \in 1..n
    <2>1. i \in 1..Len(ids) /\ one \in 1..Units
        BY <1>0
    <2> HIDE DEF one, n
    <2>2. Batch(ids)[(i - 1) * Units + one] = [id |-> ids[i], u |-> one]
        BY <2>1, CellIs
    <2> QED
        BY <2>2 DEF one
<1> HIDE DEF cells
<1>3. \A i \in 1..n : Splits(SlotStart(cells, i)) /\ SlotStart(cells, i) = Cells(ids[i])[1]
    <2> TAKE i \in 1..n
    <2> DEFINE x == ids[i]
               c == SlotStart(cells, i)
    <2>1. c = [id |-> x, u |-> 1] /\ x \in Ids
        BY <1>2 DEF SlotStart
    <2> HIDE DEF x, c
    <2>2. c = Cells(x)[1] /\ c \in Slot
        BY <2>1, StartIs
    <2> QED
        BY <2>2 DEF x, c, Slot
<1>4. PICK m \in Nat :
          /\ m <= Slots(cells) /\ \A i \in 1..m : Splits(SlotStart(cells, i))
          /\ \A k \in 0..Slots(cells) : (\A i \in 1..k : Splits(SlotStart(cells, i))) => k <= m
          /\ Records(cells) = [i \in 1..m |-> SlotStart(cells, i)]
    BY <1>0, RecordsAre
<1>5. m = n
    BY <1>0, <1>1, <1>3, <1>4
<1>6. Records(cells) = [i \in 1..n |-> Cells(ids[i])[1]]
    BY <1>3, <1>4, <1>5
<1> QED
    BY <1>6 DEF cells, Starts

---------------------------------------------------------------------------
(* The inductive invariant *)

TypesHold ==
    /\ run \in 1..(Processes + 1) /\ next \in 1..(Len(Messages) + 1) /\ local \in Trees
    /\ state \in 0..2 /\ pause \in BOOLEAN /\ block \in BOOLEAN
    /\ buffer \in Seq(Ids) /\ call \in {"none", "send", "ack"} /\ pending \in {0} \cup Ids
    /\ link \in [Runs -> {"none", "open", "ended", "closed"}]
    /\ wire \in [Runs -> Seq(Cell)] /\ acks \in [Runs -> Nat]
    /\ peer \in 0..4 /\ listening \in BOOLEAN /\ client \in {0} \cup Runs
    /\ part \in Seq(Cell) /\ view \in Trees
    /\ reset \in BOOLEAN /\ gaps \in Nat

\* A logger that is not connected yet has sent nothing and keeps nothing to be sent.
Fresh ==
    /\ buffer = <<>> /\ call = "none" /\ pending = 0
    /\ run \in Runs => wire[run] = <<>>
    /\ client = run => view = EmptyTree /\ part = <<>>
    /\ block => local = EmptyTree

\* Processes come one after the other, and the monitor serves one of them only.
OneByOne ==
    /\ client <= run
    /\ peer \in {2, 3} => client # 0
    /\ (peer = 0 \/ (peer = 1 /\ listening)) => client = 0
    /\ client = 0 => view = EmptyTree /\ part = <<>>
    /\ \A p \in Runs : /\ p > run => wire[p] = <<>> /\ link[p] = "none"
                       /\ link[p] = "ended" => p < run
    /\ call = "none" => pending = 0
    /\ state # 2 => Fresh

\* Messages are sent, received and shown in the order in which they were logged.
Precedes(c, d) == c.id < d.id \/ (c.id = d.id /\ c.u < d.u)
InOrder(cells) == \A i, j \in 1..Len(cells) : i < j => Precedes(cells[i], cells[j])
Rising(ids) == \A i, j \in 1..Len(ids) : i < j => ids[i] < ids[j]
Waiting == ToSet(buffer) \cup ({pending} \ {0})
Coming(p) == ToSet(wire[p]) \cup (IF p = client THEN ToSet(part) ELSE {})
Shown == UNION {ToSet(view[n]) : n \in Nodes}

Sequence ==
    /\ \A p \in Runs : InOrder(wire[p]) /\ \A c \in Coming(p) : c.id < next
    /\ InOrder(part)
    /\ client # 0 => \A c \in ToSet(part), d \in ToSet(wire[client]) : Precedes(c, d)
    /\ client # 0 => \A v \in Shown, c \in Coming(client) : v < c.id
    /\ Rising(buffer) /\ \A b \in ToSet(buffer) : b < next /\ (pending # 0 => b < pending)
    /\ pending < next
    /\ run \in Runs => \A c \in Coming(run), b \in Waiting : c.id < b
    /\ client = run => \A v \in Shown, b \in Waiting : v < b

\* Each message is there once.
Clean(t) ==
    \A m, n \in Nodes : \A i \in 1..Len(t[m]), j \in 1..Len(t[n]) : t[m][i] = t[n][j] => m = n /\ i = j
In(t) == UNION {ToSet(t[n]) : n \in Nodes}

\* Each message that is shown was logged, and is shown once.
Tidy == Clean(view) /\ \A v \in Shown : v < next

\* It is under its node, or under what was left of the node's name.
Named == \A n \in Nodes : \A x \in ToSet(view[n]) : Messages[x].node = n \/ Misnamed(x, n)

\* What was sent and not received is whole records, up to the first time some was forgotten.
Sent(p) == IF p = client THEN part \o wire[p] ELSE wire[p]
Even == gaps = 0 /\ peer # 4 => \A p \in Runs : \E h \in Seq(Ids) : Sent(p) = Batch(h)

Base == TypesHold /\ OneByOne /\ Sequence /\ Tidy /\ Named /\ Even

\* And whole records are on the wire, as long as no batch was interrupted.
Complete ==
    Connected => /\ HeadIds(OnTheWire) \in Seq(Ids)
                 /\ OnTheWire = Batch(HeadIds(OnTheWire))
                 /\ Put(view, InFlight) = local

---------------------------------------------------------------------------
(* What is in a sequence, and its order *)

LEMMA InSet == ASSUME NEW X, NEW s \in Seq(X) PROVE \A x : x \in ToSet(s) <=> \E i \in 1..Len(s) : x = s[i]
BY DEF ToSet

LEMMA SetIs == ASSUME NEW X, NEW s \in Seq(X) PROVE ToSet(s) \subseteq X /\ ToSet(<<>>) = {}
BY DEF ToSet

LEMMA ConcatSet ==
    ASSUME NEW X, NEW a \in Seq(X), NEW b \in Seq(X)
    PROVE  ToSet(a \o b) = ToSet(a) \cup ToSet(b)
<1> DEFINE c == a \o b
<1>1. /\ c \in Seq(X) /\ Len(c) = Len(a) + Len(b) /\ Len(a) \in Nat /\ Len(b) \in Nat
      /\ (\A i \in 1..Len(a) : c[i] = a[i]) /\ \A i \in 1..Len(b) : c[Len(a) + i] = b[i]
    BY ConcatIs
<1> HIDE DEF c
<1>2. ASSUME NEW x, x \in ToSet(c) PROVE x \in ToSet(a) \/ x \in ToSet(b)
    <2>1. PICK i \in 1..Len(c) : x = c[i]
        BY <1>1, <1>2, InSet
    <2>2. CASE i <= Len(a)
        <3>1. i \in 1..Len(a)
            BY <1>1, <2>1, <2>2
        <3> QED
            BY <1>1, <2>1, <3>1, InSet
    <2>3. CASE ~(i <= Len(a))
        <3> DEFINE j == i - Len(a)
        <3>1. j \in 1..Len(b) /\ i = Len(a) + j
            BY <1>1, <2>1, <2>3
        <3> HIDE DEF j
        <3> QED
            BY <1>1, <2>1, <3>1, InSet
    <2> QED
        BY <2>2, <2>3
<1>3. ASSUME NEW x, x \in ToSet(a) PROVE x \in ToSet(c)
    <2>1. PICK i \in 1..Len(a) : x = a[i]
        BY <1>3, InSet
    <2>2. i \in 1..Len(c) /\ c[i] = x
        BY <1>1, <2>1
    <2> QED
        BY <1>1, <2>2, InSet
<1>4. ASSUME NEW x, x \in ToSet(b) PROVE x \in ToSet(c)
    <2>1. PICK i \in 1..Len(b) : x = b[i]
        BY <1>4, InSet
    <2>2. Len(a) + i \in 1..Len(c) /\ c[Len(a) + i] = x
        BY <1>1, <2>1
    <2> QED
        BY <1>1, <2>2, InSet
<1>5. ToSet(c) = ToSet(a) \cup ToSet(b)
    BY <1>2, <1>3, <1>4
<1> QED
    BY <1>5 DEF c

LEMMA AppendSet ==
    ASSUME NEW X, NEW s \in Seq(X), NEW e \in X
    PROVE  ToSet(Append(s, e)) = ToSet(s) \cup {e}
<1>1. <<e>> \in Seq(X) /\ Append(s, e) = s \o <<e>>
    OBVIOUS
<1> DEFINE t == <<e>>
<1>2. ToSet(t) = {e}
    BY DEF ToSet
<1> HIDE DEF t
<1>3. ToSet(s \o t) = ToSet(s) \cup ToSet(t)
    <2>1. t \in Seq(X)
        BY <1>1 DEF t
    <2> QED
        BY <2>1, ConcatSet
<1> QED
    BY <1>1, <1>2, <1>3 DEF t

LEMMA CutSet ==
    ASSUME NEW X, NEW s \in Seq(X), NEW k \in Nat, k <= Len(s)
    PROVE  ToSet(SubSeq(s, 1, k)) \subseteq ToSet(s) /\ ToSet(SubSeq(s, k + 1, Len(s))) \subseteq ToSet(s)
<1> DEFINE a == SubSeq(s, 1, k)
           b == SubSeq(s, k + 1, Len(s))
<1>1. /\ a \in Seq(X) /\ Len(a) = k /\ (\A i \in 1..k : a[i] = s[i]) /\ Len(s) \in Nat
      /\ b \in Seq(X) /\ Len(b) = Len(s) - k /\ \A i \in 1..(Len(s) - k) : b[i] = s[k + i]
    BY CutIs
<1> HIDE DEF a, b
<1>2. ASSUME NEW x, x \in ToSet(a) PROVE x \in ToSet(s)
    <2>1. PICK i \in 1..Len(a) : x = a[i]
        BY <1>1, <1>2, InSet
    <2>2. i \in 1..Len(s) /\ x = s[i]
        BY <1>1, <2>1
    <2> QED
        BY <2>2, InSet
<1>3. ASSUME NEW x, x \in ToSet(b) PROVE x \in ToSet(s)
    <2>1. PICK i \in 1..Len(b) : x = b[i]
        BY <1>1, <1>3, InSet
    <2>2. k + i \in 1..Len(s) /\ x = s[k + i]
        BY <1>1, <2>1
    <2> QED
        BY <2>2, InSet
<1>4. ToSet(a) \subseteq ToSet(s) /\ ToSet(b) \subseteq ToSet(s)
    BY <1>2, <1>3
<1> QED
    BY <1>4 DEF a, b

\* One part behind the other.
Before(a, b) == \A c \in ToSet(a), d \in ToSet(b) : Precedes(c, d)

LEMMA ConcatOrder ==
    ASSUME NEW a \in Seq(Cell), NEW b \in Seq(Cell), InOrder(a), InOrder(b), Before(a, b)
    PROVE  InOrder(a \o b)
<1> DEFINE c == a \o b
           m == Len(a)
<1>1. /\ c \in Seq(Cell) /\ Len(c) = m + Len(b) /\ m \in Nat /\ Len(b) \in Nat
      /\ (\A i \in 1..m : c[i] = a[i]) /\ \A i \in 1..Len(b) : c[m + i] = b[i]
    BY ConcatIs
<1>2. (\A i \in 1..m : a[i] \in ToSet(a)) /\ \A i \in 1..Len(b) : b[i] \in ToSet(b)
    BY InSet
<1> HIDE DEF c, m
<1>3. ASSUME NEW i \in 1..Len(c), NEW j \in 1..Len(c), i < j PROVE Precedes(c[i], c[j])
    <2>1. CASE j <= m
        <3>1. i \in 1..m /\ j \in 1..m
            BY <1>1, <1>3, <2>1
        <3> QED
            BY <1>1, <1>3, <3>1 DEF InOrder, m
    <2>2. CASE i > m
        <3> DEFINE k == i - m
                   l == j - m
        <3>1. k \in 1..Len(b) /\ l \in 1..Len(b) /\ k < l /\ i = m + k /\ j = m + l
            BY <1>1, <1>3, <2>2
        <3> HIDE DEF k, l
        <3>2. c[i] = b[k] /\ c[j] = b[l]
            BY <1>1, <3>1
        <3> QED
            BY <3>1, <3>2 DEF InOrder
    <2>3. CASE i <= m /\ j > m
        <3> DEFINE l == j - m
        <3>1. i \in 1..m /\ l \in 1..Len(b) /\ j = m + l
            BY <1>1, <1>3, <2>3
        <3> HIDE DEF l
        <3>2. c[i] = a[i] /\ c[j] = b[l]
            BY <1>1, <3>1
        <3> QED
            BY <1>2, <3>1, <3>2 DEF Before
    <2> QED
        BY <1>1, <2>1, <2>2, <2>3
<1>4. InOrder(c)
    BY <1>3 DEF InOrder
<1> QED
    BY <1>4 DEF c

LEMMA CutOrder ==
    ASSUME NEW s \in Seq(Cell), NEW k \in Nat, k <= Len(s), InOrder(s)
    PROVE  /\ InOrder(SubSeq(s, 1, k)) /\ InOrder(SubSeq(s, k + 1, Len(s)))
           /\ Before(SubSeq(s, 1, k), SubSeq(s, k + 1, Len(s)))
<1> DEFINE a == SubSeq(s, 1, k)
           b == SubSeq(s, k + 1, Len(s))
<1>1. /\ a \in Seq(Cell) /\ Len(a) = k /\ (\A i \in 1..k : a[i] = s[i]) /\ Len(s) \in Nat
      /\ b \in Seq(Cell) /\ Len(b) = Len(s) - k /\ \A i \in 1..(Len(s) - k) : b[i] = s[k + i]
    BY CutIs
<1> HIDE DEF a, b
<1>2. \A i, j \in 1..Len(s) : i < j => Precedes(s[i], s[j])
    BY DEF InOrder
<1>3. InOrder(a)
    <2> SUFFICES ASSUME NEW i \in 1..Len(a), NEW j \in 1..Len(a), i < j PROVE Precedes(a[i], a[j])
        BY DEF InOrder
    <2>1. i \in 1..Len(s) /\ j \in 1..Len(s) /\ a[i] = s[i] /\ a[j] = s[j]
        BY <1>1
    <2> QED
        BY <1>2, <2>1
<1>4. InOrder(b)
    <2> SUFFICES ASSUME NEW i \in 1..Len(b), NEW j \in 1..Len(b), i < j PROVE Precedes(b[i], b[j])
        BY DEF InOrder
    <2>1. k + i \in 1..Len(s) /\ k + j \in 1..Len(s) /\ k + i < k + j /\ b[i] = s[k + i] /\ b[j] = s[k + j]
        BY <1>1
    <2> QED
        BY <1>2, <2>1
<1>5. Before(a, b)
    <2> SUFFICES ASSUME NEW c \in ToSet(a), NEW d \in ToSet(b) PROVE Precedes(c, d)
        BY DEF Before
    <2>1. PICK i \in 1..Len(a) : c = a[i]
        BY <1>1, InSet
    <2>2. PICK j \in 1..Len(b) : d = b[j]
        BY <1>1, InSet
    <2>3. i \in 1..Len(s) /\ k + j \in 1..Len(s) /\ i < k + j /\ c = s[i] /\ d = s[k + j]
        BY <1>1, <2>1, <2>2
    <2> QED
        BY <1>2, <2>3
<1> QED
    BY <1>3, <1>4, <1>5 DEF a, b

LEMMA AppendRises ==
    ASSUME NEW s \in Seq(Ids), NEW e \in Ids, Rising(s), \A b \in ToSet(s) : b < e
    PROVE  Rising(Append(s, e))
<1> DEFINE t == Append(s, e)
           n == Len(s)
<1>1. n \in Nat /\ Len(t) = n + 1 /\ t[n + 1] = e /\ \A i \in 1..n : t[i] = s[i]
    OBVIOUS
<1>2. \A i \in 1..n : s[i] < e
    BY InSet
<1> HIDE DEF t
<1>3. ASSUME NEW i \in 1..Len(t), NEW j \in 1..Len(t), i < j PROVE t[i] < t[j]
    <2>1. i \in 1..n
        BY <1>1, <1>3
    <2>2. CASE j = n + 1
        BY <1>1, <1>2, <2>1, <2>2
    <2>3. CASE j # n + 1
        <3>1. j \in 1..n
            BY <1>1, <2>3
        <3>2. s[i] < s[j]
            BY <1>3, <2>1, <3>1 DEF Rising
        <3> QED
            BY <1>1, <2>1, <3>1, <3>2
    <2> QED
        BY <2>2, <2>3
<1>4. Rising(t)
    BY <1>3 DEF Rising
<1> QED
    BY <1>4 DEF t

LEMMA BatchOrder ==
    ASSUME NEW ids \in Seq(Ids), Rising(ids)
    PROVE  InOrder(Batch(ids)) /\ \A c \in ToSet(Batch(ids)) : c.id \in ToSet(ids)
<1> DEFINE cells == Batch(ids)
           n == Len(ids)
<1>0. n \in Nat /\ cells \in Seq(Cell) /\ Len(cells) = n * Units /\ Units \in Nat \ {0}
    BY BatchIs, Sizes
<1>1. \A i \in 1..n, v \in 1..Units : cells[(i - 1) * Units + v] = [id |-> ids[i], u |-> v]
    BY CellIs
<1>2. \A k \in 1..Len(cells) : \E i \in 1..n, v \in 1..Units : k = (i - 1) * Units + v
    <2> HIDE DEF cells, n
    <2> SUFFICES ASSUME NEW k \in 1..Len(cells) PROVE \E i \in 1..n, v \in 1..Units : k = (i - 1) * Units + v
        OBVIOUS
    <2>1. k \in 1..(n * Units)
        BY <1>0
    <2> QED
        BY <1>0, <2>1, EveryPlace
<1>3. \A i \in 1..n : ids[i] \in Ids /\ ids[i] \in Int /\ ids[i] \in ToSet(ids)
    <2> TAKE i \in 1..n
    <2>1. ids[i] \in Ids
        OBVIOUS
    <2>2. ids[i] \in ToSet(ids)
        BY DEF ToSet
    <2>3. ids[i] \in Int
        BY <2>1 DEF Ids
    <2> QED
        BY <2>1, <2>2, <2>3
<1>4. \A i, j \in 1..n : i < j => ids[i] < ids[j]
    BY DEF Rising
<1> HIDE DEF cells, n
<1>5. ASSUME NEW k \in 1..Len(cells), NEW l \in 1..Len(cells), k < l PROVE Precedes(cells[k], cells[l])
    <2>1. PICK i \in 1..n, v \in 1..Units : k = (i - 1) * Units + v
        BY <1>2
    <2>2. PICK j \in 1..n, w \in 1..Units : l = (j - 1) * Units + w
        BY <1>2
    <2>3. cells[k] = [id |-> ids[i], u |-> v] /\ cells[l] = [id |-> ids[j], u |-> w]
        BY <1>1, <2>1, <2>2
    <2>4. CASE i < j
        BY <1>4, <2>3, <2>4 DEF Precedes
    <2>5. CASE i = j
        <3> DEFINE x == (i - 1) * Units
        <3>1. k = x + v /\ l = x + w /\ x \in Int
            BY <1>0, <2>1, <2>2, <2>5
        <3> HIDE DEF x
        <3>2. v < w
            BY <1>0, <1>5, <3>1
        <3> QED
            BY <2>3, <2>5, <3>2 DEF Precedes
    <2>6. ~(j < i)
        <3> SUFFICES ASSUME j < i PROVE FALSE
            OBVIOUS
        <3> DEFINE a == j - 1
                   b == i - 1
                   x == a * Units
                   y == b * Units
        <3>1. a \in Nat /\ b \in Nat /\ a < b
            BY <1>0
        <3>2. k = y + v /\ l = x + w
            BY <2>1, <2>2
        <3> HIDE DEF a, b
        <3>3. x + Units <= y /\ x \in Nat /\ y \in Nat
            BY <1>0, <3>1, Products
        <3> HIDE DEF x, y
        <3> QED
            BY <1>0, <1>5, <3>2, <3>3
    <2> QED
        BY <1>0, <2>4, <2>5, <2>6
<1>6. ASSUME NEW c \in ToSet(cells) PROVE c.id \in ToSet(ids)
    <2>1. PICK k \in 1..Len(cells) : c = cells[k]
        BY <1>0, InSet
    <2>2. PICK i \in 1..n, v \in 1..Units : k = (i - 1) * Units + v
        BY <1>2
    <2>3. c = [id |-> ids[i], u |-> v]
        BY <1>1, <2>1, <2>2
    <2> QED
        BY <1>3, <2>3
<1>7. InOrder(cells)
    BY <1>5 DEF InOrder
<1> QED
    BY <1>6, <1>7 DEF cells

---------------------------------------------------------------------------
(* What filing messages does to the nodes *)

LEMMA TakesIs ==
    ASSUME NEW s \in Seq(Ids), NEW t \in Seq(Ids), NEW id \in Ids, Takes(s, t, id), IsInjective(s), id \notin ToSet(s)
    PROVE  IsInjective(t) /\ \A i \in 1..Len(t) : t[i] = id \/ \E j \in 1..Len(s) : t[i] = s[j]
<1>0. /\ Len(s) \in Nat /\ DOMAIN s = 1..Len(s) /\ DOMAIN t = 1..Len(t)
      /\ \A i \in 1..Len(s) : s[i] # id
    BY DEF ToSet
<1>1. \A i, j \in 1..Len(s) : s[i] = s[j] => i = j
    BY <1>0 DEF IsInjective
<1>2. CASE t = Append(s, id)
    <2>1. Len(t) = Len(s) + 1 /\ t[Len(s) + 1] = id /\ \A i \in 1..Len(s) : t[i] = s[i]
        BY <1>2
    <2>2. \A i \in 1..Len(t) : i = Len(s) + 1 \/ i \in 1..Len(s)
        BY <1>0, <2>1
    <2>3. \A i, j \in 1..Len(t) : t[i] = t[j] => i = j
        BY <1>0, <1>1, <2>1, <2>2
    <2>4. \A i \in 1..Len(t) : t[i] = id \/ \E j \in 1..Len(s) : t[i] = s[j]
        BY <2>1, <2>2
    <2> QED
        BY <1>0, <2>3, <2>4 DEF IsInjective
<1>3. ASSUME NEW r \in 1..Len(s), t = [s EXCEPT ![r] = id]
      PROVE  IsInjective(t) /\ \A i \in 1..Len(t) : t[i] = id \/ \E j \in 1..Len(s) : t[i] = s[j]
    <2>1. Len(t) = Len(s) /\ t[r] = id /\ \A i \in 1..Len(s) : i # r => t[i] = s[i]
        BY <1>0, <1>3
    <2>2. \A i, j \in 1..Len(t) : t[i] = t[j] => i = j
        BY <1>0, <1>1, <2>1
    <2>3. \A i \in 1..Len(t) : t[i] = id \/ \E j \in 1..Len(s) : t[i] = s[j]
        BY <2>1
    <2> QED
        BY <1>0, <2>2, <2>3 DEF IsInjective
<1> QED
    BY <1>2, <1>3 DEF Takes

LEMMA FiledClean ==
    ASSUME NEW t \in Trees, NEW c \in Slot, Clean(t), c.id \notin In(t)
    PROVE  /\ Clean(Filed(t, c))
           /\ \A n \in Nodes : \A x \in ToSet(Filed(t, c)[n]) : x \in ToSet(t[n]) \/ (x = c.id /\ n = Under(c))
<1> DEFINE u == Filed(t, c)
           k == Under(c)
           id == c.id
<1>1. u \in Trees /\ k \in Nodes /\ id \in Ids /\ (\A n \in Nodes : n # k => u[n] = t[n]) /\ Takes(t[k], u[k], id)
    BY FiledIs, SlotOf
<1>1a. id \notin In(t)
    OBVIOUS
<1> HIDE DEF u, k, id
<1>2. \A n \in Nodes : t[n] \in Seq(Ids) /\ u[n] \in Seq(Ids)
    BY <1>1 DEF Trees
<1>3. \A n \in Nodes : \A i \in 1..Len(t[n]) : t[n][i] # id
    <2> SUFFICES ASSUME NEW n \in Nodes, NEW i \in 1..Len(t[n]) PROVE t[n][i] # id
        OBVIOUS
    <2>1. t[n][i] \in ToSet(t[n])
        BY <1>2, InSet
    <2> QED
        BY <1>1a, <2>1 DEF In
<1>4. IsInjective(u[k]) /\ \A i \in 1..Len(u[k]) : u[k][i] = id \/ \E j \in 1..Len(t[k]) : u[k][i] = t[k][j]
    <2>1. IsInjective(t[k])
        BY <1>1, <1>2 DEF Clean, IsInjective
    <2>2. id \notin ToSet(t[k])
        BY <1>1, <1>1a DEF In
    <2> QED
        BY <1>1, <1>2, <2>1, <2>2, TakesIs
<1>5. ASSUME NEW n \in Nodes, n # k, NEW i \in 1..Len(u[k]), NEW j \in 1..Len(u[n]) PROVE u[k][i] # u[n][j]
    <2>1. u[n] = t[n]
        BY <1>1, <1>5
    <2>2. CASE u[k][i] = id
        BY <1>3, <1>5, <2>1, <2>2
    <2>3. CASE \E l \in 1..Len(t[k]) : u[k][i] = t[k][l]
        BY <1>1, <1>5, <2>1, <2>3 DEF Clean
    <2> QED
        BY <1>4, <2>2, <2>3
<1>6. Clean(u)
    <2> SUFFICES ASSUME NEW m \in Nodes, NEW n \in Nodes, NEW i \in 1..Len(u[m]), NEW j \in 1..Len(u[n]), u[m][i] = u[n][j]
                 PROVE  m = n /\ i = j
        BY DEF Clean
    <2>1. CASE m = k /\ n = k
        BY <1>1, <1>2, <1>4, <2>1 DEF IsInjective
    <2>2. CASE m = k /\ n # k
        BY <1>5, <2>2
    <2>3. CASE m # k /\ n = k
        BY <1>5, <2>3
    <2>4. CASE m # k /\ n # k
        BY <1>1, <2>4 DEF Clean
    <2> QED
        BY <2>1, <2>2, <2>3, <2>4
<1>7. \A n \in Nodes : \A x \in ToSet(u[n]) : x \in ToSet(t[n]) \/ (x = id /\ n = k)
    <2> SUFFICES ASSUME NEW n \in Nodes, NEW x \in ToSet(u[n]) PROVE x \in ToSet(t[n]) \/ (x = id /\ n = k)
        OBVIOUS
    <2>1. CASE n = k
        <3>1. PICK i \in 1..Len(u[n]) : x = u[n][i]
            BY <1>2, InSet
        <3>2. x = id \/ \E j \in 1..Len(t[n]) : x = t[n][j]
            BY <1>4, <2>1, <3>1
        <3> QED
            BY <1>2, <2>1, <3>2, InSet
    <2>2. CASE n # k
        BY <1>1, <2>2
    <2> QED
        BY <2>1, <2>2
<1> QED
    BY <1>6, <1>7 DEF u, k, id

\* Messages that come in order, all after those that are shown.
LEMMA FiledAllClean ==
    ASSUME NEW t \in Trees, NEW cs \in Seq(Slot), Clean(t),
           \A i, j \in 1..Len(cs) : i < j => cs[i].id < cs[j].id,
           \A v \in In(t), i \in 1..Len(cs) : v < cs[i].id
    PROVE  /\ Clean(FiledAll(t, cs))
           /\ \A m \in Nodes : \A x \in ToSet(FiledAll(t, cs)[m]) :
                 x \in ToSet(t[m]) \/ \E j \in 1..Len(cs) : x = cs[j].id /\ m = Under(cs[j])
<1> DEFINE n == Len(cs)
           Good(k, u) ==
               Clean(u) /\ \A m \in Nodes : \A x \in ToSet(u[m]) :
                               x \in ToSet(t[m]) \/ \E j \in 1..k : x = cs[j].id /\ m = Under(cs[j])
<1>1. PICK f : Files(t, cs, f)
    BY FilesExist
<1>2. n \in Nat /\ f \in [0..n -> Trees] /\ f[0] = t /\ \A k \in 1..n : f[k] = Filed(f[k - 1], cs[k])
    BY <1>1 DEF Files
<1>3. \A i \in 1..n : cs[i] \in Slot /\ cs[i].id \in Int
    <2> TAKE i \in 1..n
    <2>1. cs[i] \in Slot
        OBVIOUS
    <2> QED
        BY <2>1 DEF Slot, Cell, Ids
<1>3a. \A i, j \in 1..n : i < j => cs[i].id < cs[j].id
    OBVIOUS
<1>3b. \A v \in In(t), i \in 1..n : v < cs[i].id
    OBVIOUS
<1> DEFINE S == {k \in Nat : k <= n => Good(k, f[k])}
<1> HIDE DEF n
<1>4. 0 \in S
    <2>1. Good(0, t)
        OBVIOUS
    <2> HIDE DEF Good
    <2> QED
        BY <1>2, <2>1
<1>5. ASSUME NEW k \in Nat, k + 1 <= n, Good(k, f[k]) PROVE Good(k + 1, f[k + 1])
    <2> DEFINE u == f[k]
               e == cs[k + 1]
    <2>0. k + 1 <= n /\ n \in Nat
        BY <1>2, <1>5
    <2>1. k + 1 \in 1..n /\ (k + 1) - 1 = k /\ k \in 0..n
        <3> HIDE DEF Good, S, u, e
        <3> QED
            BY <2>0
    <2>2. u \in Trees /\ e \in Slot /\ f[k + 1] = Filed(u, e)
        BY <1>2, <1>3, <2>1
    <2>3. e.id \notin In(u)
        <3> SUFFICES ASSUME NEW m \in Nodes, e.id \in ToSet(u[m]) PROVE FALSE
            BY DEF In
        <3>1. CASE e.id \in ToSet(t[m])
            <4>1. e.id \in In(t)
                BY <3>1 DEF In
            <4> QED
                BY <1>3, <1>3b, <2>1, <4>1
        <3>2. CASE \E j \in 1..k : e.id = cs[j].id
            <4>1. PICK j \in 1..k : e.id = cs[j].id
                BY <3>2
            <4>2. j \in 1..n /\ j < k + 1
                BY <1>2, <1>5
            <4> QED
                BY <1>3, <1>3a, <2>1, <4>1, <4>2
        <3> QED
            BY <1>5, <3>1, <3>2
    <2>4. Clean(u)
        BY <1>5
    <2>5. \A m \in Nodes : \A x \in ToSet(u[m]) : x \in ToSet(t[m]) \/ \E j \in 1..k : x = cs[j].id /\ m = Under(cs[j])
        BY <1>5
    <2> HIDE DEF u
    <2>6. /\ Clean(Filed(u, e))
          /\ \A m \in Nodes : \A x \in ToSet(Filed(u, e)[m]) : x \in ToSet(u[m]) \/ (x = e.id /\ m = Under(e))
        <3> HIDE DEF e
        <3> QED
            BY <2>2, <2>3, <2>4, FiledClean
    <2>7. \A m \in Nodes : \A x \in ToSet(Filed(u, e)[m]) :
              x \in ToSet(t[m]) \/ \E j \in 1..(k + 1) : x = cs[j].id /\ m = Under(cs[j])
        <3> SUFFICES ASSUME NEW m \in Nodes, NEW x \in ToSet(Filed(u, e)[m])
                     PROVE  x \in ToSet(t[m]) \/ \E j \in 1..(k + 1) : x = cs[j].id /\ m = Under(cs[j])
            OBVIOUS
        <3>1. k + 1 \in 1..(k + 1) /\ \A j \in 1..k : j \in 1..(k + 1)
            OBVIOUS
        <3>2. CASE x \in ToSet(u[m])
            BY <2>5, <3>1, <3>2
        <3>3. CASE x = e.id /\ m = Under(e)
            BY <3>1, <3>3
        <3> QED
            BY <2>6, <3>2, <3>3
    <2> QED
        BY <2>2, <2>6, <2>7
<1>6. Good(n, f[n])
    <2> HIDE DEF Good
    <2>1. \A k \in Nat : k \in S => k + 1 \in S
        <3> SUFFICES ASSUME NEW k \in Nat, k \in S PROVE k + 1 <= n => Good(k + 1, f[k + 1])
            OBVIOUS
        <3> SUFFICES ASSUME k + 1 <= n PROVE Good(k + 1, f[k + 1])
            OBVIOUS
        <3>1. Good(k, f[k])
            BY <1>2
        <3> QED
            BY <1>5, <3>1
    <2>2. n \in S
        <3> HIDE DEF S
        <3> QED
            BY <1>2, <1>4, <2>1, SetInduction
    <2> QED
        BY <1>2, <2>2
<1>7. FiledAll(t, cs) = f[n]
    BY <1>1, FilesUnique DEF n
<1> QED
    BY <1>6, <1>7 DEF n

\* The parts of a record that follow each other are counted on: Units cells on, another begins.
LEMMA Apart ==
    ASSUME NEW s \in Seq(Cell), InOrder(s), NEW i \in 1..Len(s), NEW j \in 1..Len(s), i + Units <= j
    PROVE  s[i].id < s[j].id
<1> DEFINE P(k) == i + k <= Len(s) /\ s[i + k].id = s[i].id => s[i + k].u >= s[i].u + k
           S == {k \in Nat : P(k)}
<1>0. \A k \in 1..Len(s) : s[k].id \in Int /\ s[k].u \in 1..Units
    <2> TAKE k \in 1..Len(s)
    <2>1. s[k] \in Cell
        OBVIOUS
    <2> QED
        BY SMTT(40), <2>1 DEF Cell, Ids
<1>1. Units \in Nat \ {0} /\ Len(s) \in Nat
    BY Sizes
<1>2. \A k, l \in 1..Len(s) : k < l => s[k].id < s[l].id \/ (s[k].id = s[l].id /\ s[k].u < s[l].u)
    BY DEF InOrder, Precedes
<1>3. 0 \in S
    BY <1>0
<1>4. ASSUME NEW k \in Nat, P(k) PROVE P(k + 1)
    <2> SUFFICES ASSUME i + (k + 1) <= Len(s), s[i + (k + 1)].id = s[i].id
                 PROVE  s[i + (k + 1)].u >= s[i].u + (k + 1)
        OBVIOUS
    <2> DEFINE a == i + k
               b == i + (k + 1)
    <2>1. a \in 1..Len(s) /\ b \in 1..Len(s) /\ a < b
        BY <1>1
    <2>1a. a <= Len(s) /\ s[a].id = s[i].id => s[a].u >= s[i].u + k
        BY <1>4
    <2>1b. s[b].id = s[i].id
        OBVIOUS
    <2>1c. a = i \/ i < a
        OBVIOUS
    <2> HIDE DEF a, b, P, S
    <2>2. s[a].id < s[b].id \/ (s[a].id = s[b].id /\ s[a].u < s[b].u)
        BY <1>2, <2>1
    <2>3. s[i].id <= s[a].id
        BY <1>0, <1>2, <2>1, <2>1c
    <2>4. s[a].id = s[i].id /\ s[a].u < s[b].u
        BY <1>0, <2>1, <2>1b, <2>2, <2>3
    <2>5. s[a].u >= s[i].u + k
        BY <1>1, <2>1, <2>1a, <2>4
    <2>6. s[b].u >= s[i].u + (k + 1)
        BY SMTT(40), <1>0, <2>1, <2>4, <2>5
    <2> QED
        BY <2>6 DEF b
<1>4a. \A k \in Nat : k \in S => k + 1 \in S
    <2> HIDE DEF P
    <2> QED
        BY <1>4
<1> DEFINE d == j - i
<1>5. d \in Nat /\ d >= Units /\ i + d = j
    BY <1>1
<1>6. d \in S
    <2> HIDE DEF S, d
    <2> QED
        BY <1>3, <1>4a, <1>5, SetInduction
<1>7. s[j].id = s[i].id => s[j].u >= s[i].u + d
    <2>1. i + d <= Len(s) /\ s[i + d].id = s[i].id => s[i + d].u >= s[i].u + d
        BY <1>6
    <2> HIDE DEF d
    <2> QED
        BY <1>1, <1>5, <2>1
<1> HIDE DEF d, S
<1>8. s[j].id # s[i].id
    BY <1>0, <1>1, <1>5, <1>7
<1>9. i < j
    BY <1>1
<1> QED
    BY <1>2, <1>8, <1>9

\* What the monitor takes from what it read.
LEMMA RecordsIs ==
    ASSUME NEW cells \in Seq(Cell)
    PROVE  /\ Records(cells) \in Seq(Slot) /\ Len(Records(cells)) \in Nat
           /\ \A i \in 1..Len(Records(cells)) :
                 /\ (i - 1) * Units + 1 \in 1..Len(cells) /\ (i - 1) * Units + Units <= Len(cells)
                 /\ Records(cells)[i] = cells[(i - 1) * Units + 1]
<1> DEFINE At(i) == (i - 1) * Units + 1
           r == Records(cells)
<1>1. PICK n \in Nat :
          /\ n <= Slots(cells) /\ \A i \in 1..n : Splits(SlotStart(cells, i))
          /\ \A m \in 0..Slots(cells) : (\A i \in 1..m : Splits(SlotStart(cells, i))) => m <= n
          /\ Records(cells) = [i \in 1..n |-> SlotStart(cells, i)]
    BY RecordsAre
<1>2. Slots(cells) \in Nat /\ Units \in Nat \ {0}
    <2>1. Len(cells) \in Nat /\ Units \in Nat \ {0}
        BY Sizes
    <2> QED
        BY <2>1, DivisionIs DEF Slots
<1>3. \A i \in 1..n : At(i) \in 1..Len(cells) /\ (i - 1) * Units + Units <= Len(cells)
    <2> TAKE i \in 1..n
    <2>1. i \in 1..Slots(cells)
        BY <1>1, <1>2
    <2> QED
        BY <2>1, SlotIs
<1>4. r = [i \in 1..n |-> cells[At(i)]] /\ \A i \in 1..n : Splits(cells[At(i)])
    BY <1>1 DEF SlotStart
<1> HIDE DEF At, r
<1>5. \A i \in 1..n : cells[At(i)] \in Slot
    <2> TAKE i \in 1..n
    <2>1. cells[At(i)] \in Cell
        BY <1>3
    <2> QED
        BY <1>4, <2>1 DEF Slot
<1>6. r \in [1..n -> Slot]
    BY <1>4, <1>5
<1>7. r \in Seq(Slot) /\ Len(r) = n
    BY <1>6, FunctionIsSeq
<1>8. \A i \in 1..n : r[i] = cells[At(i)]
    BY <1>4
<1> QED
    BY <1>3, <1>7, <1>8 DEF r, At

\* It comes in order, and nothing of it is left in what follows.
LEMMA RecordsOrder ==
    ASSUME NEW cells \in Seq(Cell), NEW rest \in Seq(Cell), InOrder(cells \o rest)
    PROVE  /\ \A i, j \in 1..Len(Records(cells)) : i < j => Records(cells)[i].id < Records(cells)[j].id
           /\ \A i \in 1..Len(Records(cells)) :
                 Records(cells)[i] \in ToSet(cells) /\ \A d \in ToSet(rest) : Records(cells)[i].id < d.id
<1> DEFINE r == Records(cells)
           n == Len(r)
           At(i) == (i - 1) * Units + 1
           s == cells \o rest
           N == Len(cells)
<1>1. /\ n \in Nat
      /\ \A i \in 1..n : At(i) \in 1..N /\ (i - 1) * Units + Units <= N /\ r[i] = cells[At(i)]
    BY RecordsIs
<1>2. /\ s \in Seq(Cell) /\ Len(s) = N + Len(rest) /\ N \in Nat /\ Len(rest) \in Nat
      /\ (\A i \in 1..N : s[i] = cells[i]) /\ \A i \in 1..Len(rest) : s[N + i] = rest[i]
    BY ConcatIs
<1>3. InOrder(s) /\ Units \in Nat \ {0}
    BY Sizes
<1>4. \A i \in 1..n : (i - 1) * Units \in Nat /\ At(i) = (i - 1) * Units + 1
    <2> TAKE i \in 1..n
    <2> DEFINE a == i - 1
    <2>1. a \in Nat
        OBVIOUS
    <2> HIDE DEF a
    <2>2. a * Units \in Nat
        BY <1>3, <2>1, Products
    <2> QED
        BY <2>2 DEF a
<1>5. \A i, j \in 1..n : i < j => At(i) + Units <= At(j)
    <2> SUFFICES ASSUME NEW i \in 1..n, NEW j \in 1..n, i < j PROVE At(i) + Units <= At(j)
        OBVIOUS
    <2> DEFINE a == i - 1
               b == j - 1
               x == a * Units
               y == b * Units
    <2>1. a \in Nat /\ b \in Nat /\ a < b
        OBVIOUS
    <2> HIDE DEF a, b
    <2>2. x + Units <= y /\ x \in Nat /\ y \in Nat
        BY <1>3, <2>1, Products
    <2>3. At(i) = x + 1 /\ At(j) = y + 1
        BY DEF a, b
    <2> HIDE DEF x, y, At
    <2> QED
        BY <1>3, <2>2, <2>3
<1> HIDE DEF s, n, r, N
<1>6. ASSUME NEW i \in 1..n, NEW j \in 1..n, i < j PROVE r[i].id < r[j].id
    <2> DEFINE k == At(i)
               l == At(j)
    <2>1. k \in 1..N /\ l \in 1..N /\ k + Units <= l /\ r[i] = cells[k] /\ r[j] = cells[l]
        BY <1>1, <1>5, <1>6
    <2> HIDE DEF k, l, At
    <2>2. k \in 1..Len(s) /\ l \in 1..Len(s) /\ s[k] = r[i] /\ s[l] = r[j]
        BY <1>2, <2>1
    <2>3. s[k].id < s[l].id
        BY <1>2, <1>3, <2>1, <2>2, Apart
    <2> QED
        BY <2>2, <2>3
<1>7. ASSUME NEW i \in 1..n PROVE r[i] \in ToSet(cells) /\ \A d \in ToSet(rest) : r[i].id < d.id
    <2> DEFINE k == At(i)
               x == (i - 1) * Units
    <2>1. k \in 1..N /\ r[i] = cells[k] /\ x \in Nat /\ k = x + 1 /\ x + Units <= N
        BY <1>1, <1>4
    <2> HIDE DEF k, x, At
    <2>2. r[i] \in ToSet(cells)
        BY <2>1, InSet DEF N
    <2>3. ASSUME NEW d \in ToSet(rest) PROVE r[i].id < d.id
        <3>1. PICK j \in 1..Len(rest) : d = rest[j]
            BY InSet
        <3> DEFINE l == N + j
        <3>2. l \in 1..Len(s) /\ k \in 1..Len(s) /\ k + Units <= l /\ s[l] = d /\ s[k] = r[i]
            BY <1>2, <1>3, <2>1, <3>1
        <3> HIDE DEF l
        <3>3. s[k].id < s[l].id
            BY <1>2, <1>3, <3>2, Apart
        <3> QED
            BY <3>2, <3>3
    <2> QED
        BY <2>2, <2>3
<1> QED
    BY <1>6, <1>7 DEF r, n

---------------------------------------------------------------------------
(* Each step keeps the invariant *)

LEMMA EmptyTreeIs == EmptyTree \in Trees /\ In(EmptyTree) = {} /\ Clean(EmptyTree)
<1>1. <<>> \in Seq(Ids) /\ Len(<<>>) = 0 /\ DOMAIN <<>> = {} /\ ToSet(<<>>) = {}
    BY DEF ToSet
<1>2. EmptyTree \in Trees
    BY <1>1 DEF EmptyTree, Trees
<1>3. \A n \in Nodes : EmptyTree[n] = <<>>
    BY DEF EmptyTree
<1>4. In(EmptyTree) = {}
    BY <1>1, <1>3 DEF In
<1>5. Clean(EmptyTree)
    BY <1>1, <1>3 DEF Clean
<1> QED
    BY <1>2, <1>4, <1>5

LEMMA Whom == ASSUME TypesHold, OneByOne, peer \in {2, 3} PROVE client \in Runs /\ client \in Nat /\ client <= run
<1>1. client \in Runs /\ client <= run
    BY DEF TypesHold, OneByOne
<1> QED
    BY <1>1, Sizes DEF Runs

LEMMA NextIs == TypesHold => run \in Nat \ {0} /\ next \in Nat \ {0} /\ client \in Nat /\ Runs \subseteq Nat \ {0} /\ pending \in Nat
<1>1. Len(Messages) \in Nat /\ Processes \in Nat
    BY MonitorAssumption, Sizes DEF MonitorAssumption
<1> QED
    BY <1>1 DEF TypesHold, Runs, Ids

\* What Receive reads.
Read(n) == part \o SubSeq(wire[client], 1, n)
Rest(n) == SubSeq(wire[client], n + 1, Len(wire[client]))

LEMMA ReadIs ==
    ASSUME TypesHold, client \in Runs, NEW n \in 1..Len(wire[client])
    PROVE  /\ Read(n) \in Seq(Cell) /\ Rest(n) \in Seq(Cell)
           /\ SubSeq(wire[client], 1, n) \in Seq(Cell) /\ n \in Nat /\ n <= Len(wire[client])
           /\ ToSet(Read(n)) \subseteq ToSet(part) \cup ToSet(wire[client])
           /\ ToSet(Rest(n)) \subseteq ToSet(wire[client])
<1> DEFINE w == wire[client]
           a == SubSeq(w, 1, n)
           b == SubSeq(w, n + 1, Len(w))
<1>1. w \in Seq(Cell) /\ part \in Seq(Cell)
    BY DEF TypesHold
<1> HIDE DEF w
<1>2. n \in Nat /\ n <= Len(w)
    BY <1>1 DEF w
<1>3. a \in Seq(Cell) /\ b \in Seq(Cell)
    BY <1>1, <1>2, CutIs
<1>4. ToSet(a) \subseteq ToSet(w) /\ ToSet(b) \subseteq ToSet(w)
    BY <1>1, <1>2, CutSet
<1> HIDE DEF a, b
<1>5. part \o a \in Seq(Cell) /\ ToSet(part \o a) = ToSet(part) \cup ToSet(a)
    <2>1. part \o a \in Seq(Cell)
        BY <1>1, <1>3, ConcatIs
    <2> QED
        BY <1>1, <1>3, <2>1, ConcatSet
<1> QED
    BY <1>2, <1>3, <1>4, <1>5 DEF Read, Rest, a, b, w

LEMMA ReadRecords ==
    ASSUME TypesHold, client \in Runs, NEW n \in 1..Len(wire[client])
    PROVE  Records(Read(n)) \in Seq(Slot) /\ FiledAll(view, Records(Read(n))) \in Trees
<1>1. Read(n) \in Seq(Cell)
    BY ReadIs
<1>2. Records(Read(n)) \in Seq(Slot)
    <2> DEFINE r == Read(n)
    <2> HIDE DEF r
    <2>1. Records(r) \in Seq(Slot)
        BY <1>1, RecordsIs DEF r
    <2> QED
        BY <2>1 DEF r
<1>3. view \in Trees
    BY DEF TypesHold
<1> QED
    BY <1>2, <1>3, FiledAllIs

LEMMA BufferIs ==
    ASSUME TypesHold, run \in Runs
    PROVE  wire[run] \o Batch(buffer) \in Seq(Cell)
<1>1. wire[run] \in Seq(Cell) /\ buffer \in Seq(Ids)
    BY DEF TypesHold
<1>2. Batch(buffer) \in Seq(Cell)
    BY <1>1, BatchIs
<1> QED
    BY <1>1, <1>2, ConcatIs

LEMMA TypesStep == ASSUME TypesHold, OneByOne, [Next]_vars PROVE TypesHold'
<1> USE DEF TypesHold
<1>1. CASE Log
    <2>1. local' \in Trees
        <3>1. Cells(next)[1] \in Slot
            BY <1>1, StartIs DEF Log
        <3>2. Filed(local, Cells(next)[1]) \in Trees
            BY <3>1, FiledIs
        <3> QED
            BY <1>1, <3>2 DEF Log
    <2>2. next' \in 1..(Len(Messages) + 1)
        <3>1. Len(Messages) \in Nat
            BY MonitorAssumption DEF MonitorAssumption
        <3> QED
            BY <1>1, <3>1 DEF Log, Ids
    <2>3. buffer' \in Seq(Ids) /\ call' \in {"none", "send", "ack"} /\ pending' \in {0} \cup Ids
        <3>1. next \in Ids /\ Append(buffer, next) \in Seq(Ids)
            BY <1>1 DEF Log
        <3>2. CASE state # 2
            BY <1>1, <3>2 DEF Log
        <3>3. CASE state = 2 /\ Len(buffer) < Capacity
            BY <1>1, <3>1, <3>3 DEF Log
        <3>4. CASE state = 2 /\ ~(Len(buffer) < Capacity)
            BY <1>1, <3>1, <3>4 DEF Log
        <3> QED
            BY <3>2, <3>3, <3>4
    <2> QED
        BY <1>1, <2>1, <2>2, <2>3 DEF Log, network, monitor
<1>2. CASE Connect
    <2>1. run \in Runs /\ link' \in [Runs -> {"none", "open", "ended", "closed"}]
        BY <1>2 DEF Connect, Running
    <2> QED
        BY <1>2, <2>1 DEF Connect, monitor
<1>3. CASE Established
    <2>1. link' \in [Runs -> {"none", "open", "ended", "closed"}] /\ state' \in 0..2 /\ pause' \in BOOLEAN
        <3>1. link[run] = "open" \/ client = run => state' = 2 /\ pause' = pause /\ link' = link
            BY <1>3 DEF Established
        <3>2. ~(link[run] = "open" \/ client = run) => state' = 0 /\ pause' = TRUE /\ link' = [link EXCEPT ![run] = "none"]
            BY <1>3 DEF Established
        <3>3. link' \in [Runs -> {"none", "open", "ended", "closed"}]
            BY <3>1, <3>2
        <3>4. state' \in 0..2
            BY <3>1, <3>2
        <3>5. pause' \in BOOLEAN
            BY <3>1, <3>2
        <3> QED
            BY <3>3, <3>4, <3>5
    <2> QED
        BY <1>3, <2>1 DEF Established, monitor
<1>4. CASE PauseOver
    BY <1>4 DEF PauseOver, network, monitor
<1>5. CASE Flush
    BY <1>5 DEF Flush, network, monitor
<1>6. CASE Send
    <2>1. wire' \in [Runs -> Seq(Cell)]
        <3> DEFINE w == wire[run] \o Batch(buffer)
        <3>1. w \in Seq(Cell)
            BY <1>6, BufferIs DEF Send
        <3>2. wire' = wire \/ wire' = [wire EXCEPT ![run] = w]
            BY <1>6 DEF Send
        <3> HIDE DEF w
        <3> QED
            BY <3>1, <3>2
    <2> QED
        BY <1>6, <2>1 DEF Send, monitor
<1>7. CASE Acknowledged
    <2>1. run \in Runs /\ acks[run] \in Nat /\ acks[run] > 0
        BY <1>7 DEF Acknowledged
    <2>2. acks' \in [Runs -> Nat]
        BY <1>7, <2>1 DEF Acknowledged
    <2>3. buffer' \in Seq(Ids) /\ call' = "none" /\ pending' = 0
        BY <1>7 DEF Acknowledged
    <2> QED
        BY <1>7, <2>2, <2>3 DEF Acknowledged, monitor
<1>8. CASE End
    <2>1. local' \in Trees
        BY <1>8, EmptyTreeIs DEF End
    <2>2. run' \in 1..(Processes + 1)
        BY <1>8, Sizes DEF End, Runs
    <2>3. link' \in [Runs -> {"none", "open", "ended", "closed"}]
        BY <1>8 DEF End
    <2>4. buffer' \in Seq(Ids) /\ call' \in {"none", "send", "ack"} /\ pending' \in {0} \cup Ids
        BY <1>8 DEF End
    <2>5. next' = next /\ state' = 0 /\ pause' = FALSE /\ block' \in BOOLEAN /\ wire' = wire /\ acks' = acks
          /\ peer' = peer /\ listening' = listening /\ client' = client /\ part' = part /\ view' = view
          /\ reset' = reset /\ gaps' = gaps
        BY <1>8 DEF End, monitor
    <2>6. (next \in 1..(Len(Messages) + 1) /\ state \in 0..2)'
        BY <2>5
    <2>7. (pause \in BOOLEAN)'
        BY <2>5
    <2>8. (block \in BOOLEAN)'
        BY <2>5
    <2>9. (wire \in [Runs -> Seq(Cell)] /\ acks \in [Runs -> Nat])'
        BY <2>5
    <2>10. (peer \in 0..4 /\ listening \in BOOLEAN /\ client \in {0} \cup Runs)'
        BY <2>5
    <2>11. (part \in Seq(Cell) /\ view \in Trees /\ reset \in BOOLEAN /\ gaps \in Nat)'
        BY <2>5
    <2> QED
        BY <2>1, <2>2, <2>3, <2>4, <2>6, <2>7, <2>8, <2>9, <2>10, <2>11
<1>9. CASE CreateSocket
    BY <1>9 DEF CreateSocket, logger, network
<1>10. CASE Accept
    <2>1. client' \in Runs
        BY <1>10 DEF Accept, Backlog
    <2> QED
        BY <1>10, <2>1 DEF Accept, logger, network
<1>11. CASE Receive
    <2>1. client \in Runs
        BY <1>11, Whom DEF Receive
    <2>2. PICK n \in 1..Len(wire[client]) :
              /\ wire' = [wire EXCEPT ![client] = Rest(n)]
              /\ IF Whole(Read(n))
                 THEN /\ part' = <<>> /\ peer' = 3
                      /\ view' = FiledAll(view, Records(Read(n)))
                      /\ acks' = [acks EXCEPT ![client] = @ + 1]
                 ELSE part' = Read(n) /\ UNCHANGED <<peer, view, acks>>
        BY <1>11, <2>1 DEF Receive, Read, Rest
    <2>3. Read(n) \in Seq(Cell) /\ Rest(n) \in Seq(Cell)
        BY <2>1, ReadIs
    <2>4. FiledAll(view, Records(Read(n))) \in Trees
        BY <2>1, ReadRecords
    <2>5. wire' \in [Runs -> Seq(Cell)]
        BY <2>1, <2>2, <2>3
    <2>6. part' \in Seq(Cell) /\ peer' \in 0..4 /\ view' \in Trees /\ acks' \in [Runs -> Nat]
        <3>1. CASE Whole(Read(n))
            BY <2>1, <2>2, <2>4, <3>1, SMTT(40)
        <3>2. CASE ~Whole(Read(n))
            BY <2>2, <2>3, <3>2
        <3> QED
            BY <3>1, <3>2
    <2> QED
        BY <1>11, <2>5, <2>6 DEF Receive, logger
<1>12. CASE Gap
    BY <1>12 DEF Gap, logger, network
<1>13. CASE LoggerGone
    <2>1. link' \in [Runs -> {"none", "open", "ended", "closed"}]
        <3>1. \A p \in Runs : (IF link[p] = "open" THEN "closed" ELSE link[p]) \in {"none", "open", "ended", "closed"}
            OBVIOUS
        <3>2. link' = [p \in Runs |-> IF link[p] = "open" THEN "closed" ELSE link[p]] \/ link' = link
            BY <1>13 DEF LoggerGone
        <3> QED
            BY <3>1, <3>2
    <2>2. view' \in Trees /\ peer' \in 0..4 /\ listening' \in BOOLEAN /\ part' \in Seq(Cell)
        <3>1. EmptyTree \in Trees /\ <<>> \in Seq(Cell)
            BY EmptyTreeIs
        <3>2. part' = <<>>
            BY <1>13 DEF LoggerGone
        <3>3. CASE reset
            <4>1. peer' = 1 /\ listening' = FALSE /\ view' = EmptyTree
                BY <1>13, <3>3 DEF LoggerGone
            <4>2. listening' \in BOOLEAN
                BY <4>1
            <4>3. view' \in Trees /\ part' \in Seq(Cell)
                BY <3>1, <3>2, <4>1
            <4>4. peer' \in 0..4
                BY <4>1
            <4> QED
                BY <4>2, <4>3, <4>4
        <3>4. CASE ~reset
            <4>1. peer' = 3 /\ listening' = listening /\ view' = view
                BY <1>13, <3>4 DEF LoggerGone
            <4> QED
                BY <3>1, <3>2, <4>1
        <3> QED
            BY <3>3, <3>4
    <2> QED
        BY <1>13, <2>1, <2>2 DEF LoggerGone, logger
<1>14. CASE MonitorEnds
    <2>1. link' \in [Runs -> {"none", "open", "ended", "closed"}]
        BY <1>14 DEF MonitorEnds
    <2>2. peer' = 4 /\ listening' = FALSE /\ part' = <<>> /\ wire' = wire /\ acks' = acks /\ client' = client
          /\ view' = view /\ reset' = reset /\ gaps' = gaps
        BY <1>14 DEF MonitorEnds
    <2>3. <<run, next, local, state, pause, block, buffer, call, pending>>' = <<run, next, local, state, pause, block, buffer, call, pending>>
        BY <1>14 DEF MonitorEnds, logger
    <2>4. peer' \in 0..4
        BY <2>2
    <2>5. listening' \in BOOLEAN
        BY <2>2
    <2>6. part' \in Seq(Cell)
        BY <2>2
    <2>7. (run \in 1..(Processes + 1) /\ next \in 1..(Len(Messages) + 1) /\ local \in Trees)'
        BY <2>3
    <2>8. (state \in 0..2 /\ pause \in BOOLEAN /\ block \in BOOLEAN)'
        BY <2>3
    <2>9. (buffer \in Seq(Ids) /\ call \in {"none", "send", "ack"} /\ pending \in {0} \cup Ids)'
        BY <2>3
    <2>10. (wire \in [Runs -> Seq(Cell)] /\ acks \in [Runs -> Nat])'
        BY <2>2
    <2>11. (client \in {0} \cup Runs /\ view \in Trees /\ reset \in BOOLEAN /\ gaps \in Nat)'
        BY <2>2
    <2> QED
        BY <2>1, <2>4, <2>5, <2>6, <2>7, <2>8, <2>9, <2>10, <2>11
<1>15. CASE UNCHANGED vars
    BY <1>15 DEF vars, logger, network, monitor
<1> QED
    BY <1>1, <1>2, <1>3, <1>4, <1>5, <1>6, <1>7, <1>8, <1>9, <1>10, <1>11, <1>12, <1>13, <1>14, <1>15
       DEF Next, LoggerStep, MonitorStep

LEMMA OneByOneStep == ASSUME TypesHold, OneByOne, [Next]_vars PROVE OneByOne'
<1>0. run \in Nat \ {0} /\ next \in Nat \ {0} /\ client \in Nat /\ Runs \subseteq Nat \ {0} /\ pending \in Nat
    BY NextIs
<1>0a. /\ link \in [Runs -> {"none", "open", "ended", "closed"}] /\ wire \in [Runs -> Seq(Cell)]
       /\ client \in {0} \cup Runs /\ part \in Seq(Cell)
    BY DEF TypesHold
<1>0b. /\ client <= run /\ (peer \in {2, 3} => client # 0) /\ ((peer = 0 \/ (peer = 1 /\ listening)) => client = 0)
       /\ (client = 0 => view = EmptyTree /\ part = <<>>)
       /\ (\A p \in Runs : (p > run => wire[p] = <<>> /\ link[p] = "none") /\ (link[p] = "ended" => p < run))
       /\ (call = "none" => pending = 0) /\ (state # 2 => Fresh)
    BY DEF OneByOne
<1>1. CASE Log
    <2>1. UNCHANGED <<run, state, block, link, wire, peer, listening, client, part, view>>
        BY <1>1 DEF Log, network, monitor
    <2>2. call' = "none" => pending' = 0
        BY <1>0b, <1>1 DEF Log, Ready, Running
    <2>3. state' # 2 => Fresh'
        <3> SUFFICES ASSUME state # 2 PROVE Fresh'
            BY <2>1
        <3>1. ~block /\ UNCHANGED <<buffer, call, pending>>
            BY <1>1 DEF Log, Ready
        <3> QED
            BY <1>0b, <2>1, <3>1 DEF Fresh
    <2> QED
        BY <1>0b, <2>1, <2>2, <2>3 DEF OneByOne
<1>2. CASE Connect
    <2>1. UNCHANGED <<run, local, block, buffer, call, pending, wire, peer, listening, client, part, view>>
        BY <1>2 DEF Connect, monitor
    <2>2. run \in Runs /\ state = 0 /\ link' = [link EXCEPT ![run] = "open"]
        BY <1>2 DEF Connect, Running
    <2>3. \A p \in Runs : (p > run => link'[p] = "none") /\ (link'[p] = "ended" => p < run)
        BY <1>0, <1>0a, <1>0b, <2>2
    <2>4. Fresh'
        BY <1>0b, <2>1, <2>2 DEF Fresh
    <2> QED
        BY <1>0b, <2>1, <2>3, <2>4 DEF OneByOne
<1>3. CASE Established
    <2>1. UNCHANGED <<run, local, block, buffer, call, pending, wire, peer, listening, client, part, view>>
        BY <1>3 DEF Established, monitor
    <2>2. run \in Runs /\ state = 1 /\ (link' = link \/ link' = [link EXCEPT ![run] = "none"])
        BY <1>3 DEF Established, Running
    <2>3. \A p \in Runs : (p > run => link'[p] = "none") /\ (link'[p] = "ended" => p < run)
        BY <1>0, <1>0a, <1>0b, <2>2
    <2>4. Fresh'
        BY <1>0b, <2>1, <2>2 DEF Fresh
    <2> QED
        BY <1>0b, <2>1, <2>3, <2>4 DEF OneByOne
<1>4. CASE PauseOver
    <2>1. UNCHANGED <<run, local, state, block, buffer, call, pending, link, wire, peer, listening, client, part, view>>
        BY <1>4 DEF PauseOver, network, monitor
    <2> QED
        BY <1>0b, <2>1 DEF OneByOne, Fresh
<1>5. CASE Flush
    <2>1. UNCHANGED <<run, local, state, block, buffer, pending, link, wire, peer, listening, client, part, view>>
        BY <1>5 DEF Flush, network, monitor
    <2>2. state = 2 /\ call' = "send"
        BY <1>5 DEF Flush
    <2> QED
        BY <1>0b, <2>1, <2>2 DEF OneByOne
<1>6. CASE Send
    <2>1. UNCHANGED <<run, local, state, block, pending, link, peer, listening, client, part, view>>
        BY <1>6 DEF Send, monitor
    <2>2. run \in Runs /\ state = 2 /\ call' = "ack" /\ \A p \in Runs : p # run => wire'[p] = wire[p]
        <3>1. call = "send" /\ run \in Runs /\ call' = "ack" /\ (wire' = wire \/ wire' = [wire EXCEPT ![run] = wire[run] \o Batch(buffer)])
            BY <1>6 DEF Send
        <3>2. state = 2
            BY <1>0b, <3>1 DEF Fresh
        <3> QED
            BY <1>0a, <3>1, <3>2
    <2>3. \A p \in Runs : p > run => wire'[p] = <<>>
        BY <1>0, <1>0b, <2>2
    <2> QED
        BY <1>0b, <2>1, <2>2, <2>3 DEF OneByOne
<1>7. CASE Acknowledged
    <2>1. UNCHANGED <<run, local, state, block, link, wire, peer, listening, client, part, view>>
        BY <1>7 DEF Acknowledged, monitor
    <2>2. state = 2 /\ pending' = 0
        <3>1. call = "ack" /\ pending' = 0
            BY <1>7 DEF Acknowledged
        <3> QED
            BY <1>0b, <3>1 DEF Fresh
    <2> QED
        BY <1>0b, <2>1, <2>2 DEF OneByOne
<1>8. CASE End
    <2>1. UNCHANGED <<wire, peer, listening, client, part, view>>
        BY <1>8 DEF End, monitor
    <2>2. /\ run \in Runs /\ run' = run + 1 /\ local' = EmptyTree /\ state' = 0
          /\ buffer' = <<>> /\ call' = "none" /\ pending' = 0
          /\ link' = [link EXCEPT ![run] = IF @ = "open" THEN "ended" ELSE @]
        BY <1>8 DEF End
    <2>3. client' <= run' /\ client' # run'
        BY <1>0, <1>0b, <2>1, <2>2
    <2>4. \A p \in Runs : (p > run' => wire'[p] = <<>> /\ link'[p] = "none") /\ (link'[p] = "ended" => p < run')
        <3> SUFFICES ASSUME NEW p \in Runs PROVE (p > run' => wire'[p] = <<>> /\ link'[p] = "none") /\ (link'[p] = "ended" => p < run')
            OBVIOUS
        <3>1. CASE p = run
            BY <1>0, <2>2, <3>1
        <3>2. CASE p # run
            <4>1. link'[p] = link[p] /\ wire'[p] = wire[p]
                BY <1>0a, <2>1, <2>2, <3>2
            <4> QED
                BY <1>0, <1>0b, <2>2, <4>1
        <3> QED
            BY <3>1, <3>2
    <2>5. Fresh'
        <3>1. run' \in Runs => wire'[run'] = <<>>
            BY <1>0, <1>0b, <2>1, <2>2
        <3> QED
            BY <2>2, <2>3, <3>1 DEF Fresh
    <2> QED
        BY <1>0b, <2>1, <2>2, <2>3, <2>4, <2>5 DEF OneByOne
<1>9. CASE CreateSocket
    <2>1. UNCHANGED <<run, local, state, block, buffer, call, pending, link, wire, client, part, view>>
        BY <1>9 DEF CreateSocket, logger, network
    <2>2. peer = 0 /\ peer' = 1
        BY <1>9 DEF CreateSocket
    <2>3. state # 2 => Fresh'
        BY <1>0b, <2>1 DEF Fresh
    <2> QED
        BY <1>0b, <2>1, <2>2, <2>3 DEF OneByOne
<1>10. CASE Accept
    <2>1. UNCHANGED <<run, local, state, block, buffer, call, pending, link, wire, listening, part, view>>
        BY <1>10 DEF Accept, logger, network
    <2>2. client' \in Runs /\ link[client'] \in {"open", "ended"} /\ peer' = 2 /\ client = 0
        BY <1>0b, <1>10 DEF Accept, Backlog
    <2>3. client' <= run
        <3>1. client' > run => link[client'] = "none"
            BY <1>0b, <2>2
        <3> QED
            BY <1>0, <2>2, <3>1
    <2>4. view' = EmptyTree /\ part' = <<>>
        BY <1>0b, <2>1, <2>2
    <2>5. state # 2 => Fresh'
        BY <1>0b, <2>1, <2>4 DEF Fresh
    <2> QED
        BY <1>0, <1>0b, <2>1, <2>2, <2>3, <2>4, <2>5 DEF OneByOne
<1>11. CASE Receive
    <2>1. UNCHANGED <<run, local, state, block, buffer, call, pending, link, listening, client>>
        BY <1>11 DEF Receive, logger
    <2>2. client \in Runs /\ client # 0 /\ peer' \in {2, 3} /\ \A p \in Runs : p # client => wire'[p] = wire[p]
        <3>1. client \in Runs /\ client # 0
            BY <1>0, <1>0b, <1>11, Whom DEF Receive
        <3>2. peer \in {2, 3} /\ (peer' = 3 \/ peer' = peer)
            BY <1>11 DEF Receive
        <3>3. \E n \in 1..Len(wire[client]) : wire' = [wire EXCEPT ![client] = SubSeq(@, n + 1, Len(@))]
            BY <1>11 DEF Receive
        <3> QED
            BY <1>0a, <3>1, <3>2, <3>3
    <2>3. wire[client] # <<>>
        BY <1>11 DEF Receive
    <2>4. \A p \in Runs : p > run => wire'[p] = <<>>
        BY <1>0, <1>0b, <2>2
    <2>5. state # 2 => Fresh'
        <3> SUFFICES ASSUME state # 2 PROVE Fresh'
            OBVIOUS
        <3>1. client # run
            BY <1>0b, <2>2, <2>3 DEF Fresh
        <3>2. run \in Runs => wire'[run] = <<>>
            BY <1>0b, <2>2, <3>1 DEF Fresh
        <3> QED
            BY <1>0b, <2>1, <3>1, <3>2 DEF Fresh
    <2> QED
        BY <1>0b, <2>1, <2>2, <2>4, <2>5 DEF OneByOne
<1>12. CASE Gap
    <2>1. UNCHANGED <<run, local, state, block, buffer, call, pending, link, wire, peer, listening, client, view>> /\ part' = <<>>
        BY <1>12 DEF Gap, logger, network
    <2>2. state # 2 => Fresh'
        BY <1>0b, <2>1 DEF Fresh
    <2> QED
        BY <1>0b, <2>1, <2>2 DEF OneByOne
<1>13. CASE LoggerGone
    <2>1. UNCHANGED <<run, local, state, block, buffer, call, pending, wire, client>> /\ part' = <<>>
        BY <1>13 DEF LoggerGone, logger
    <2>2. client \in Runs /\ client # 0 /\ link[client] = "ended"
        BY <1>0, <1>0b, <1>13, Whom DEF LoggerGone
    <2>3. client # run
        BY <1>0, <1>0b, <2>2
    <2>4. (peer' = 1 /\ listening' = FALSE) \/ peer' = 3
        BY <1>13 DEF LoggerGone
    <2>5. \A p \in Runs : (p > run => link'[p] = "none") /\ (link'[p] = "ended" => p < run)
        <3>1. link' = link \/ link' = [p \in Runs |-> IF link[p] = "open" THEN "closed" ELSE link[p]]
            BY <1>13 DEF LoggerGone
        <3> QED
            BY <1>0b, <3>1
    <2>6. state # 2 => Fresh'
        BY <1>0b, <2>1, <2>3 DEF Fresh
    <2> QED
        BY <1>0b, <2>1, <2>2, <2>4, <2>5, <2>6 DEF OneByOne
<1>14. CASE MonitorEnds
    <2>1. UNCHANGED <<run, local, state, block, buffer, call, pending, wire, client, view>> /\ part' = <<>> /\ peer' = 4
        BY <1>14 DEF MonitorEnds, logger
    <2>2. \A p \in Runs : (p > run => link'[p] = "none") /\ (link'[p] = "ended" => p < run)
        <3>1. link' = [p \in Runs |-> IF link[p] = "open" THEN "closed" ELSE link[p]]
            BY <1>14 DEF MonitorEnds
        <3> QED
            BY <1>0b, <3>1
    <2>3. state # 2 => Fresh'
        BY <1>0b, <2>1 DEF Fresh
    <2> QED
        BY <1>0b, <2>1, <2>2, <2>3 DEF OneByOne
<1>15. CASE UNCHANGED vars
    BY <1>15 DEF vars, logger, network, monitor, OneByOne, Fresh
<1> QED
    BY <1>1, <1>2, <1>3, <1>4, <1>5, <1>6, <1>7, <1>8, <1>9, <1>10, <1>11, <1>12, <1>13, <1>14, <1>15
       DEF Next, LoggerStep, MonitorStep

LEMMA TruthIs == ASSUME view \in Trees, Tidy, Named PROVE Truthful
<1>1. \A n \in Nodes : view[n] \in Seq(Ids)
    BY DEF Trees
<1> SUFFICES ASSUME NEW n \in Nodes, NEW i \in 1..Len(view[n])
             PROVE  /\ view[n][i] < next
                    /\ Messages[view[n][i]].node = n \/ Misnamed(view[n][i], n)
                    /\ \A m \in Nodes : \A j \in 1..Len(view[m]) : view[m][j] = view[n][i] => m = n /\ j = i
    BY DEF Truthful
<1>2. view[n][i] \in ToSet(view[n])
    BY <1>1, InSet
<1>3. view[n][i] \in Shown
    BY <1>2 DEF Shown
<1> QED
    BY <1>2, <1>3 DEF Tidy, Named, Clean

LEMMA ThingsAre ==
    ASSUME TypesHold
    PROVE  /\ \A p \in Runs : \A c \in Coming(p) : c \in Cell /\ c.id \in Ids /\ c.id \in Int /\ c.u \in Int
           /\ ToSet(part) \subseteq Cell /\ (\A p \in Runs : ToSet(wire[p]) \subseteq Cell)
           /\ ToSet(buffer) \subseteq Ids /\ Shown \subseteq Ids /\ Ids \subseteq Nat \ {0}
           /\ \A x \in Waiting : x \in Ids /\ x \in Int
<1>1. ToSet(part) \subseteq Cell /\ (\A p \in Runs : ToSet(wire[p]) \subseteq Cell)
    <2>1. part \in Seq(Cell) /\ \A p \in Runs : wire[p] \in Seq(Cell)
        BY DEF TypesHold
    <2> QED
        BY <2>1, SetIs
<1>2. ToSet(buffer) \subseteq Ids
    BY SetIs DEF TypesHold
<1>3. Shown \subseteq Ids
    <2>1. \A n \in Nodes : view[n] \in Seq(Ids)
        BY DEF TypesHold, Trees
    <2>2. \A n \in Nodes : ToSet(view[n]) \subseteq Ids
        BY <2>1, SetIs
    <2> QED
        BY <2>2 DEF Shown
<1>4. Ids \subseteq Nat \ {0}
    BY Sizes
<1>4a. \A x \in Ids : x \in Int
    BY DEF Ids
<1>5. \A x \in Waiting : x \in Ids /\ x \in Int
    <2>1. \A x \in Waiting : x \in Ids
        BY <1>2 DEF Waiting, TypesHold
    <2> QED
        BY <1>4a, <2>1
<1>6. \A c \in Cell : c.id \in Ids /\ c.id \in Int /\ c.u \in Int
    <2>1. \A c \in Cell : c.id \in Ids /\ c.u \in 1..Units
        BY DEF Cell
    <2>2. \A x \in 1..Units : x \in Int
        OBVIOUS
    <2> QED
        BY <1>4a, <2>1, <2>2
<1>7. \A p \in Runs : \A c \in Coming(p) : c \in Cell
    BY <1>1 DEF Coming
<1> QED
    BY <1>1, <1>2, <1>3, <1>4, <1>5, <1>6, <1>7

\* A step after which less is read and shown, and all else is as it was.
LEMMA Less ==
    ASSUME TypesHold, Sequence, UNCHANGED <<run, next, buffer, pending, wire, client>>,
           part' = <<>>, Shown' \subseteq Shown
    PROVE  Sequence'
<1>1. /\ (\A p \in Runs : InOrder(wire[p]) /\ \A c \in Coming(p) : c.id < next)
      /\ (client # 0 => \A v \in Shown, c \in Coming(client) : v < c.id)
      /\ Rising(buffer) /\ (\A b \in ToSet(buffer) : b < next /\ (pending # 0 => b < pending))
      /\ pending < next
      /\ (run \in Runs => \A c \in Coming(run), b \in Waiting : c.id < b)
      /\ (client = run => \A v \in Shown, b \in Waiting : v < b)
    BY DEF Sequence
<1>2. ToSet(part') = {} /\ InOrder(part')
    BY DEF ToSet, InOrder
<1>3. Waiting' = Waiting
    BY DEF Waiting
<1>4. \A p : Coming(p)' \subseteq Coming(p)
    BY <1>2 DEF Coming
<1>5. \A p \in Runs : InOrder(wire'[p]) /\ \A c \in Coming(p)' : c.id < next'
    BY <1>1, <1>4
<1>6. client' # 0 => \A v \in Shown', c \in Coming(client)' : v < c.id
    <2>1. Coming(client)' \subseteq Coming(client)
        BY <1>2 DEF Coming
    <2> QED
        BY <1>1, <2>1
<1>7. run' \in Runs => \A c \in Coming(run)', b \in Waiting' : c.id < b
    <2>1. Coming(run)' \subseteq Coming(run)
        BY <1>2 DEF Coming
    <2> QED
        BY <1>1, <1>3, <2>1
<1>8. client' = run' => \A v \in Shown', b \in Waiting' : v < b
    BY <1>1, <1>3
<1>9. client' # 0 => \A c \in ToSet(part'), d \in ToSet(wire'[client']) : Precedes(c, d)
    BY <1>2
<1>10. (Rising(buffer) /\ (\A b \in ToSet(buffer) : b < next /\ (pending # 0 => b < pending)) /\ pending < next)'
    BY <1>1
<1> QED
    BY <1>2, <1>5, <1>6, <1>7, <1>8, <1>9, <1>10 DEF Sequence

SequenceParts ==
    /\ \A p \in Runs : InOrder(wire[p]) /\ \A c \in Coming(p) : c.id < next
    /\ InOrder(part)
    /\ client # 0 => Before(part, wire[client])
    /\ client # 0 => \A v \in Shown, c \in Coming(client) : v < c.id
    /\ Rising(buffer) /\ \A b \in ToSet(buffer) : b < next /\ (pending # 0 => b < pending)
    /\ pending < next
    /\ run \in Runs => \A c \in Coming(run), b \in Waiting : c.id < b
    /\ client = run => \A v \in Shown, b \in Waiting : v < b

LEMMA Parts == Sequence <=> SequenceParts
BY DEF Sequence, SequenceParts, Before

\* A message more is filed, and waits.
LEMMA LogSequence ==
    ASSUME TypesHold, OneByOne, SequenceParts, Tidy, Log PROVE SequenceParts' /\ Tidy'
<1>0. run \in Nat \ {0} /\ next \in Nat \ {0} /\ client \in Nat /\ Runs \subseteq Nat \ {0} /\ pending \in Nat
    BY NextIs
<1>1. UNCHANGED <<run, wire, client, part, view>> /\ next' = next + 1 /\ next \in Ids
    BY DEF Log, network, monitor
<1>2. pending = 0
    BY DEF Log, Ready, Running, OneByOne
<1>3. Shown' = Shown /\ \A p : Coming(p)' = Coming(p)
    BY <1>1 DEF Shown, Coming
<1>4. /\ (\A p \in Runs : InOrder(wire[p]) /\ \A c \in Coming(p) : c.id < next)
      /\ (client # 0 => \A v \in Shown, c \in Coming(client) : v < c.id)
      /\ Rising(buffer) /\ (\A b \in ToSet(buffer) : b < next /\ (pending # 0 => b < pending))
      /\ (run \in Runs => \A c \in Coming(run), b \in Waiting : c.id < b)
      /\ (client = run => \A v \in Shown, b \in Waiting : v < b)
      /\ InOrder(part) /\ (client # 0 => Before(part, wire[client]))
    BY DEF SequenceParts
<1>5. Clean(view) /\ \A v \in Shown : v < next
    BY DEF Tidy
<1>6. /\ \A p \in Runs : \A c \in Coming(p) : c.id \in Int
      /\ buffer \in Seq(Ids) /\ (\A x \in ToSet(buffer) : x \in Int) /\ \A x \in Shown : x \in Int
    <2>1. buffer \in Seq(Ids)
        BY DEF TypesHold
    <2>2. \A x \in Ids : x \in Int
        BY DEF Ids
    <2> QED
        BY <2>1, <2>2, ThingsAre
<1>7. \/ UNCHANGED <<buffer, pending>>
      \/ buffer' = Append(buffer, next) /\ pending' = pending
      \/ buffer' = buffer /\ pending' = next
    BY DEF Log
<1>8. ToSet(Append(buffer, next)) = ToSet(buffer) \cup {next} /\ Rising(Append(buffer, next))
    <2>1. ToSet(Append(buffer, next)) = ToSet(buffer) \cup {next}
        BY <1>1, <1>6, AppendSet
    <2>2. \A b \in ToSet(buffer) : b < next
        BY <1>4
    <2> QED
        BY <1>1, <1>4, <1>6, <2>1, <2>2, AppendRises
<1>9. Waiting' \subseteq Waiting \cup {next}
    BY <1>2, <1>7, <1>8 DEF Waiting
<1>10. (Rising(buffer) /\ (\A b \in ToSet(buffer) : b < next /\ (pending # 0 => b < pending)) /\ pending < next)'
    <2>1. Rising(buffer')
        BY <1>4, <1>7, <1>8
    <2>2. \A b \in ToSet(buffer') : b \in ToSet(buffer) \/ (b = next /\ pending' = 0)
        BY <1>2, <1>7, <1>8
    <2>3. pending' = 0 \/ (pending' = next /\ buffer' = buffer)
        BY <1>2, <1>7
    <2>4. \A b \in ToSet(buffer') : b < next' /\ (pending' # 0 => b < pending')
        <3> TAKE b \in ToSet(buffer')
        <3>1. CASE b \in ToSet(buffer)
            BY <1>0, <1>1, <1>4, <1>6, <2>3, <3>1
        <3>2. CASE b = next /\ pending' = 0
            BY <1>0, <1>1, <3>2
        <3> QED
            BY <2>2, <3>1, <3>2
    <2> QED
        BY <1>0, <1>1, <2>1, <2>3, <2>4
<1>11. \A p \in Runs : InOrder(wire'[p]) /\ \A c \in Coming(p)' : c.id < next'
    BY <1>0, <1>1, <1>3, <1>4, <1>6
<1>12. run' \in Runs => \A c \in Coming(run)', b \in Waiting' : c.id < b
    <2> SUFFICES ASSUME run \in Runs, NEW c \in Coming(run), NEW b \in Waiting \cup {next} PROVE c.id < b
        BY <1>1, <1>3, <1>9 DEF Coming
    <2> QED
        BY <1>4
<1>13. client' = run' => \A v \in Shown', b \in Waiting' : v < b
    <2> SUFFICES ASSUME client = run, NEW v \in Shown, NEW b \in Waiting \cup {next} PROVE v < b
        BY <1>1, <1>3, <1>9
    <2> QED
        BY <1>4, <1>5
<1>14. client' # 0 => \A v \in Shown', c \in Coming(client)' : v < c.id
    <2>1. Coming(client)' = Coming(client)
        BY <1>1 DEF Coming
    <2> QED
        BY <1>1, <1>3, <1>4, <2>1
<1>15. SequenceParts'
    BY <1>1, <1>4, <1>10, <1>11, <1>12, <1>13, <1>14 DEF SequenceParts
<1>16. Tidy'
    <2>1. \A v \in Shown : v < next + 1
        BY <1>0, <1>5, <1>6
    <2> QED
        BY <1>1, <1>3, <1>5, <2>1 DEF Tidy
<1> QED
    BY <1>15, <1>16

\* The buffer goes on the wire.
LEMMA SendSequence ==
    ASSUME TypesHold, OneByOne, SequenceParts, Send PROVE SequenceParts'
<1>0. run \in Nat \ {0} /\ next \in Nat \ {0} /\ client \in Nat /\ Runs \subseteq Nat \ {0} /\ pending \in Nat
    BY NextIs
<1> DEFINE b == Batch(buffer)
           w == wire[run] \o b
<1>1. /\ UNCHANGED <<run, next, pending, client, part, view>> /\ buffer' = <<>> /\ run \in Runs
      /\ (wire' = wire \/ wire' = [wire EXCEPT ![run] = w])
    BY DEF Send, monitor
<1>2. /\ (\A p \in Runs : InOrder(wire[p]) /\ \A c \in Coming(p) : c.id < next)
      /\ (client # 0 => \A v \in Shown, c \in Coming(client) : v < c.id)
      /\ Rising(buffer) /\ (\A x \in ToSet(buffer) : x < next /\ (pending # 0 => x < pending))
      /\ (run \in Runs => \A c \in Coming(run), x \in Waiting : c.id < x)
      /\ (client = run => \A v \in Shown, x \in Waiting : v < x)
      /\ InOrder(part) /\ (client # 0 => Before(part, wire[client])) /\ pending < next
    BY DEF SequenceParts
<1>3. buffer \in Seq(Ids) /\ wire \in [Runs -> Seq(Cell)] /\ wire[run] \in Seq(Cell)
    BY <1>1 DEF TypesHold
<1>4. b \in Seq(Cell) /\ InOrder(b) /\ \A c \in ToSet(b) : c.id \in ToSet(buffer)
    BY <1>2, <1>3, BatchIs, BatchOrder
<1>5. ToSet(wire[run]) \subseteq Coming(run) /\ (client = run => ToSet(part) \subseteq Coming(run)) /\ ToSet(buffer) \subseteq Waiting
    <2>1. 0 \notin ToSet(buffer)
        <3>1. ToSet(buffer) \subseteq Ids
            BY <1>3, SetIs
        <3> QED
            BY <3>1, Sizes
    <2> QED
        BY <2>1 DEF Coming, Waiting
<1>6. ToSet(w) = ToSet(wire[run]) \cup ToSet(b)
    BY <1>3, <1>4, ConcatSet
<1>7. InOrder(w)
    <2> DEFINE a == wire[run]
    <2>1. Before(a, b)
        BY <1>1, <1>2, <1>4, <1>5 DEF Before, Precedes
    <2>2. a \in Seq(Cell) /\ InOrder(a)
        BY <1>1, <1>2, <1>3
    <2> HIDE DEF a, b
    <2>3. InOrder(a \o b)
        BY <1>4, <2>1, <2>2, ConcatOrder
    <2> QED
        BY <2>3 DEF a
<1> HIDE DEF b, w
<1>8. \A p \in Runs : wire'[p] = wire[p] \/ (p = run /\ wire'[p] = w)
    BY <1>1, <1>3
<1>9. \A p \in Runs : InOrder(wire'[p])
    BY <1>2, <1>7, <1>8
<1>10. \A p \in Runs : \A c \in Coming(p)' : c \in Coming(p) \/ (p = run /\ c.id \in ToSet(buffer))
    BY <1>1, <1>4, <1>6, <1>8 DEF Coming
<1>11. \A p \in Runs : \A c \in Coming(p)' : c.id < next
    BY <1>2, <1>10
<1>12. Waiting' = {pending} \ {0}
    BY <1>1 DEF Waiting, ToSet
<1>13. \A c \in Coming(run)', x \in Waiting' : c.id < x
    <2>1. Waiting' \subseteq Waiting
        BY <1>12 DEF Waiting
    <2> SUFFICES ASSUME NEW c \in Coming(run)', NEW x \in Waiting' PROVE c.id < x
        OBVIOUS
    <2>2. c \in Coming(run) \/ c.id \in ToSet(buffer)
        BY <1>1, <1>4, <1>6, <1>8 DEF Coming
    <2> QED
        BY <1>1, <1>2, <1>12, <2>1, <2>2
<1>14. client # 0 => \A v \in Shown, c \in Coming(client)' : v < c.id
    <2> SUFFICES ASSUME client # 0, NEW v \in Shown, NEW c \in Coming(client)' PROVE v < c.id
        OBVIOUS
    <2>0. client \in Runs
        BY DEF TypesHold
    <2>1. c \in Coming(client) \/ (client = run /\ c.id \in ToSet(buffer))
        BY <1>1, <1>4, <1>6, <1>8, <2>0 DEF Coming
    <2> QED
        BY <1>2, <1>5, <2>1
<1>15. client # 0 => Before(part, wire'[client])
    <2> SUFFICES ASSUME client # 0 PROVE Before(part, wire'[client])
        OBVIOUS
    <2>0. client \in Runs
        BY DEF TypesHold
    <2>1. CASE wire'[client] = wire[client]
        BY <1>2, <2>1
    <2>2. CASE client = run /\ wire'[client] = w
        <3>1. \A c \in ToSet(part), d \in ToSet(b) : c.id < d.id
            BY <1>1, <1>2, <1>4, <1>5, <2>2
        <3> QED
            BY <1>2, <1>6, <2>2, <3>1 DEF Before, Precedes
    <2> QED
        BY <1>8, <2>0, <2>1, <2>2
<1>16. Rising(buffer') /\ ToSet(buffer') = {}
    BY <1>1 DEF Rising, ToSet
<1>17. Shown' = Shown /\ \A v \in Shown, x \in Waiting' : client = run => v < x
    BY <1>1, <1>2, <1>12 DEF Shown, Waiting
<1>18. (client # 0 => \A v \in Shown, c \in Coming(client) : v < c.id)'
    BY <1>1, <1>14, <1>17 DEF Coming
<1>19. (run \in Runs => \A c \in Coming(run), x \in Waiting : c.id < x)'
    BY <1>1, <1>13 DEF Coming
<1> QED
    BY <1>1, <1>2, <1>9, <1>11, <1>15, <1>16, <1>17, <1>18, <1>19 DEF SequenceParts

\* The message that waited for the acknowledgement goes into the buffer.
LEMMA AcknowledgedSequence ==
    ASSUME TypesHold, SequenceParts, Acknowledged PROVE SequenceParts'
<1>0. pending \in Nat /\ next \in Nat \ {0} /\ buffer \in Seq(Ids) /\ pending \in {0} \cup Ids /\ 0 \notin Ids
    BY NextIs, Sizes DEF TypesHold
<1>1. UNCHANGED <<run, next, wire, client, part, view>> /\ pending' = 0 /\ buffer' = IF pending = 0 THEN buffer ELSE Append(buffer, pending)
    BY DEF Acknowledged, monitor
<1>2. /\ Rising(buffer) /\ (\A x \in ToSet(buffer) : x < next /\ (pending # 0 => x < pending)) /\ pending < next
      /\ (\A p \in Runs : InOrder(wire[p]) /\ \A c \in Coming(p) : c.id < next)
      /\ (client # 0 => \A v \in Shown, c \in Coming(client) : v < c.id)
      /\ (run \in Runs => \A c \in Coming(run), x \in Waiting : c.id < x)
      /\ (client = run => \A v \in Shown, x \in Waiting : v < x)
      /\ InOrder(part) /\ (client # 0 => Before(part, wire[client]))
    BY DEF SequenceParts
<1>3. CASE pending = 0
    <2>1. UNCHANGED <<run, next, wire, client, part, view, buffer, pending>>
        BY <1>1, <1>3
    <2> QED
        BY <2>1 DEF SequenceParts, Coming, Waiting, Shown
<1>4. CASE pending # 0
    <2>1. pending \in Ids /\ buffer' = Append(buffer, pending)
        BY <1>0, <1>1, <1>4
    <2>2. ToSet(buffer') = ToSet(buffer) \cup {pending}
        BY <1>0, <2>1, AppendSet
    <2>3. Rising(buffer')
        BY <1>0, <1>2, <1>4, <2>1, AppendRises
    <2>4. 0 \notin ToSet(buffer)
        BY <1>0, SetIs
    <2>5. Waiting' = Waiting
        BY <1>1, <1>4, <2>2, <2>4 DEF Waiting
    <2>6. \A x \in ToSet(buffer') : x < next
        BY <1>2, <2>2
    <2>7. Shown' = Shown /\ \A p : Coming(p)' = Coming(p)
        BY <1>1 DEF Shown, Coming
    <2>8. (run \in Runs => \A c \in Coming(run), x \in Waiting : c.id < x)'
        BY <1>1, <1>2, <2>5 DEF Coming
    <2>9. (client = run => \A v \in Shown, x \in Waiting : v < x)'
        BY <1>1, <1>2, <2>5, <2>7
    <2>10. (client # 0 => \A v \in Shown, c \in Coming(client) : v < c.id)'
        BY <1>1, <1>2, <2>7 DEF Coming
    <2>11. (\A p \in Runs : InOrder(wire[p]) /\ \A c \in Coming(p) : c.id < next)'
        BY <1>1, <1>2, <2>7
    <2>12. (InOrder(part) /\ (client # 0 => Before(part, wire[client])))'
        BY <1>1, <1>2
    <2> QED
        BY <1>0, <1>1, <2>3, <2>6, <2>8, <2>9, <2>10, <2>11, <2>12 DEF SequenceParts
<1> QED
    BY <1>3, <1>4

\* A process that ends leaves what it has sent.
LEMMA EndSequence ==
    ASSUME TypesHold, OneByOne, SequenceParts, End PROVE SequenceParts'
<1>0. run \in Nat \ {0} /\ next \in Nat \ {0} /\ client \in Nat
    BY NextIs
<1>1. UNCHANGED <<next, wire, client, part, view>> /\ pending' = 0 /\ buffer' = <<>>
    BY DEF End, monitor
<1>2. Waiting' = {} /\ ToSet(buffer') = {} /\ Rising(buffer')
    BY <1>1 DEF Waiting, ToSet, Rising
<1>3. Shown' = Shown /\ \A p : Coming(p)' = Coming(p)
    BY <1>1 DEF Shown, Coming
<1>4. (client # 0 => \A v \in Shown, c \in Coming(client) : v < c.id)'
    BY <1>1, <1>3 DEF SequenceParts, Coming
<1>5. (\A p \in Runs : InOrder(wire[p]) /\ \A c \in Coming(p) : c.id < next)'
    BY <1>1, <1>3 DEF SequenceParts
<1>6. (InOrder(part) /\ (client # 0 => Before(part, wire[client])))'
    BY <1>1 DEF SequenceParts
<1> QED
    BY <1>0, <1>1, <1>2, <1>4, <1>5, <1>6 DEF SequenceParts

\* The monitor's first and only client.
LEMMA AcceptSequence ==
    ASSUME TypesHold, OneByOne, SequenceParts, Accept PROVE SequenceParts'
<1>0. client = 0 /\ part = <<>> /\ view = EmptyTree /\ client' \in Runs /\ Runs \subseteq Nat \ {0}
    BY NextIs DEF OneByOne, Accept, Backlog
<1>1. UNCHANGED <<run, next, wire, part, view, pending, buffer>>
    BY DEF Accept, logger, network
<1>2. ToSet(part') = {} /\ Shown' = {}
    <2>1. ToSet(part') = {}
        BY <1>0, <1>1 DEF ToSet
    <2>2. In(view) = {}
        BY <1>0, EmptyTreeIs
    <2>3. Shown' = In(view)
        BY <1>1 DEF Shown, In
    <2> QED
        BY <2>1, <2>2, <2>3
<1>3. Waiting' = Waiting
    BY <1>1 DEF Waiting
<1>4. \A p \in Runs : Coming(p)' = Coming(p)
    BY <1>0, <1>1, <1>2 DEF Coming
<1>5. (\A p \in Runs : InOrder(wire[p]) /\ \A c \in Coming(p) : c.id < next)'
    BY <1>1, <1>4 DEF SequenceParts
<1>6. (client # 0 => Before(part, wire[client]))'
    BY <1>2 DEF Before
<1>7. (client # 0 => \A v \in Shown, c \in Coming(client) : v < c.id)'
    BY <1>2
<1>8. (run \in Runs => \A c \in Coming(run), x \in Waiting : c.id < x)'
    <2> SUFFICES ASSUME run \in Runs PROVE \A c \in Coming(run)', x \in Waiting' : c.id < x
        BY <1>1 DEF Coming
    <2>1. Coming(run)' = Coming(run)
        BY <1>1, <1>4 DEF Coming
    <2> QED
        BY <1>3, <2>1 DEF SequenceParts
<1>9. (client = run => \A v \in Shown, x \in Waiting : v < x)'
    BY <1>2
<1>10. (InOrder(part) /\ Rising(buffer) /\ (\A b \in ToSet(buffer) : b < next /\ (pending # 0 => b < pending)) /\ pending < next)'
    BY <1>1 DEF SequenceParts
<1> QED
    BY <1>5, <1>6, <1>7, <1>8, <1>9, <1>10 DEF SequenceParts

LEMMA JoinIs ==
    ASSUME NEW a \in Seq(Ids), NEW b \in Seq(Ids), NEW c \in Seq(Ids)
    PROVE  (a \o b) \o c = a \o (b \o c) /\ a \o b \in Seq(Ids) /\ (a \o <<>> = a) /\ (<<>> \o a = a)
OBVIOUS

LEMMA JoinCells ==
    ASSUME NEW a \in Seq(Cell), NEW b \in Seq(Cell), NEW c \in Seq(Cell)
    PROVE  (a \o b) \o c = a \o (b \o c)
OBVIOUS

\* Whole records that are received up to somewhere.
LEMMA ReadCut ==
    ASSUME TypesHold, client \in Runs, NEW n \in 1..Len(wire[client]), NEW h \in Seq(Ids), part \o wire[client] = Batch(h)
    PROVE  /\ Read(n) \o Rest(n) = Batch(h)
           /\ Whole(Read(n)) => \E a, b \in Seq(Ids) : h = a \o b /\ Read(n) = Batch(a) /\ Rest(n) = Batch(b)
<1>0. part \in Seq(Cell) /\ wire[client] \in Seq(Cell)
    BY DEF TypesHold
<1> DEFINE w == wire[client]
           all == part \o w
           m == Len(part) + n
<1>6. /\ n \in Nat /\ n <= Len(w) /\ Len(w) \in Nat /\ w \in Seq(Cell)
      /\ SubSeq(w, 1, n) \in Seq(Cell) /\ Rest(n) \in Seq(Cell) /\ Read(n) \in Seq(Cell)
    BY <1>0, ReadIs
<1>7. all = Batch(h) /\ all \in Seq(Cell) /\ Len(all) = Len(part) + Len(w) /\ Len(part) \in Nat
    <2>1. all = Batch(h)
        OBVIOUS
    <2> HIDE DEF w
    <2>2. part \in Seq(Cell) /\ w \in Seq(Cell)
        BY <1>0, <1>6
    <2>3. part \o w \in Seq(Cell) /\ Len(part \o w) = Len(part) + Len(w) /\ Len(part) \in Nat
        BY <2>2, ConcatIs
    <2> QED
        BY <2>1, <2>3
<1>8. m \in Nat /\ m <= Len(all)
    BY <1>6, <1>7
<1>9. Read(n) = SubSeq(all, 1, m) /\ Rest(n) = SubSeq(all, m + 1, Len(all))
    <2> DEFINE a == SubSeq(w, 1, n)
               b == SubSeq(w, n + 1, Len(w))
    <2>1. /\ Len(a) = n /\ (\A i \in 1..n : a[i] = w[i])
          /\ b \in Seq(Cell) /\ Len(b) = Len(w) - n /\ \A i \in 1..(Len(w) - n) : b[i] = w[n + i]
        <3> HIDE DEF w
        <3> QED
            BY ZenonT(60), <1>6, CutIs
    <2>2. Read(n) = part \o a /\ Rest(n) = b /\ a \in Seq(Cell)
        BY <1>6 DEF Read, Rest
    <2> HIDE DEF a, b, w
    <2>3. /\ (\A i \in 1..Len(part) : all[i] = part[i]) /\ \A i \in 1..Len(w) : all[Len(part) + i] = w[i]
        BY <1>0, <1>6
    <2> DEFINE r == part \o a
    <2>4. /\ r \in Seq(Cell) /\ Len(r) = Len(part) + Len(a)
          /\ (\A i \in 1..Len(part) : r[i] = part[i]) /\ \A i \in 1..Len(a) : r[Len(part) + i] = a[i]
        BY <1>0, <2>2, ConcatIs
    <2> HIDE DEF all, r
    <2> DEFINE x == SubSeq(all, 1, m)
               y == SubSeq(all, m + 1, Len(all))
    <2>5. /\ x \in Seq(Cell) /\ Len(x) = m /\ (\A i \in 1..m : x[i] = all[i])
          /\ y \in Seq(Cell) /\ Len(y) = Len(all) - m /\ \A i \in 1..(Len(all) - m) : y[i] = all[m + i]
        <3>1. all \in Seq(Cell) /\ m \in Nat /\ m <= Len(all)
            BY <1>7, <1>8
        <3> HIDE DEF m
        <3> QED
            BY <3>1, CutIs, ZenonT(60)
    <2> HIDE DEF x, y
    <2>6. Len(r) = m /\ \A i \in 1..m : r[i] = x[i]
        <3>1. Len(r) = m
            BY <2>1, <2>4
        <3>2. ASSUME NEW i \in 1..m PROVE r[i] = x[i]
            <4>1. CASE i <= Len(part)
                <5>1. i \in 1..Len(part)
                    BY <1>7, <3>2, <4>1
                <5> QED
                    BY <2>3, <2>4, <2>5, <3>2, <5>1
            <4>2. CASE ~(i <= Len(part))
                <5> DEFINE j == i - Len(part)
                <5>1. j \in 1..n /\ j \in 1..Len(w) /\ i = Len(part) + j
                    BY <1>6, <1>7, <3>2, <4>2
                <5> HIDE DEF j
                <5>2. r[i] = w[j]
                    BY <2>1, <2>4, <5>1
                <5> QED
                    BY <2>3, <2>5, <3>2, <5>1, <5>2
            <4> QED
                BY <4>1, <4>2
        <3> QED
            BY <3>1, <3>2
    <2>7. Len(y) = Len(b) /\ \A i \in 1..Len(b) : b[i] = y[i]
        <3>1. Len(all) - m = Len(w) - n
            BY <1>6, <1>7
        <3>2. ASSUME NEW i \in 1..(Len(w) - n) PROVE b[i] = y[i]
            <4>1. n + i \in 1..Len(w) /\ m + i = Len(part) + (n + i)
                BY <1>6, <1>7, <3>2
            <4>2. y[i] = all[m + i] /\ b[i] = w[n + i]
                BY <2>1, <2>5, <3>1, <3>2
            <4> QED
                BY <2>3, <4>1, <4>2
        <3> QED
            BY <2>1, <2>5, <3>1, <3>2
    <2> HIDE DEF m
    <2>8. r = x
        BY <2>4, <2>5, <2>6, SameSeq
    <2>9. b = y
        BY <2>1, <2>5, <2>7, SameSeq
    <2> QED
        BY <2>2, <2>8, <2>9 DEF r, x, y
<1> HIDE DEF all, m
<1>10. Read(n) \o Rest(n) = Batch(h)
    <2> DEFINE a == SubSeq(w, 1, n)
               b == SubSeq(w, n + 1, Len(w))
    <2>1. a \o b = w /\ a \in Seq(Cell) /\ b \in Seq(Cell)
        <3> HIDE DEF w
        <3> QED
            BY <1>6
    <2> HIDE DEF a, b
    <2>2. (part \o a) \o b = part \o (a \o b)
        <3>1. part \in Seq(Cell) /\ a \in Seq(Cell) /\ b \in Seq(Cell)
            BY <1>0, <2>1
        <3> QED
            BY <3>1, JoinCells
    <2>3. Read(n) = part \o a /\ Rest(n) = b
        BY DEF Read, Rest, a, b
    <2> QED
        BY <1>7, <2>1, <2>2, <2>3 DEF all
<1>11. ASSUME Whole(Read(n))
       PROVE  \E a, b \in Seq(Ids) : h = a \o b /\ Read(n) = Batch(a) /\ Rest(n) = Batch(b)
    <2>1. m % Units = 0
        <3>1. Len(Read(n)) = m
            <4>1. SubSeq(all, 1, m) \in Seq(Cell) /\ Len(SubSeq(all, 1, m)) = m
                BY <1>7, <1>8, CutIs
            <4> QED
                BY <1>9, <4>1
        <3> QED
            BY <1>11, <3>1 DEF Whole
    <2>2. m \in 0..(Len(h) * Units)
        <3>1. Len(Batch(h)) = Len(h) * Units /\ Len(h) * Units \in Nat
            BY BatchIs
        <3> QED
            BY <1>7, <1>8, <3>1
    <2>3. PICK a, b \in Seq(Ids) :
              /\ h = a \o b /\ SubSeq(Batch(h), 1, m) = Batch(a)
              /\ SubSeq(Batch(h), m + 1, Len(Batch(h))) = Batch(b)
        BY <2>1, <2>2, BatchCut
    <2>4. Read(n) = Batch(a) /\ Rest(n) = Batch(b)
        BY <1>7, <1>9, <2>3
    <2> QED
        BY <2>3, <2>4
<1> QED
    BY <1>10, <1>11

\* What splits is filed under its node, when it is read from its first part on.
LEMMA SlotNames ==
    ASSUME NEW c \in Slot, gaps \in Nat, gaps = 0 => c.u = 1
    PROVE  Messages[c.id].node = Under(c) \/ Misnamed(c.id, Under(c))
<1> DEFINE n == Messages[c.id].node
           k == <<n, c.u>>
<1>1. c.id \in Ids /\ c.u \in 1..Units /\ Key(c) \in DOMAIN NameFrom
    BY DEF Slot, Cell, Splits
<1>2. n \in Nodes
    BY <1>1, MessageIs
<1>3. k \in DOMAIN NameFrom /\ Under(c) = NameFrom[k]
    BY <1>1 DEF Key, Under
<1> HIDE DEF n
<1>4. CASE c.u = 1
    <2>1. NameFrom[<<n, 1>>] = n
        BY <1>2, MonitorAssumption DEF MonitorAssumption
    <2> QED
        BY <1>3, <1>4, <2>1 DEF n
<1>5. CASE c.u # 1
    <2>1. gaps > 0 /\ c.u \in 2..Units
        BY <1>1, <1>5, Sizes
    <2> QED
        BY <1>3, <2>1 DEF Misnamed, n
<1> QED
    BY <1>4, <1>5

\* What was read is filed when it is whole, and read on otherwise.
LEMMA ReceiveSequence ==
    ASSUME TypesHold, OneByOne, SequenceParts, Tidy, Named, Even, Receive PROVE SequenceParts' /\ Tidy' /\ Named'
<1>0. /\ client \in Runs /\ client # 0 /\ run \in Nat \ {0} /\ next \in Nat \ {0} /\ view \in Trees
      /\ part \in Seq(Cell) /\ wire[client] \in Seq(Cell) /\ wire \in [Runs -> Seq(Cell)]
    BY NextIs, Whom DEF Receive, TypesHold
<1>1. UNCHANGED <<run, next, pending, buffer, client, gaps>> /\ peer \in {2, 3}
    BY DEF Receive, logger
<1>2. PICK n \in 1..Len(wire[client]) :
          /\ wire' = [wire EXCEPT ![client] = Rest(n)]
          /\ IF Whole(Read(n))
             THEN part' = <<>> /\ view' = FiledAll(view, Records(Read(n)))
             ELSE part' = Read(n) /\ view' = view
    BY <1>0 DEF Receive, Read, Rest
<1> DEFINE w == wire[client]
           a == SubSeq(w, 1, n)
           b == Rest(n)
           r == Read(n)
<1>3. /\ (\A p \in Runs : InOrder(wire[p]) /\ \A c \in Coming(p) : c.id < next)
      /\ (\A v \in Shown, c \in Coming(client) : v < c.id)
      /\ Rising(buffer) /\ (\A x \in ToSet(buffer) : x < next /\ (pending # 0 => x < pending)) /\ pending < next
      /\ (run \in Runs => \A c \in Coming(run), x \in Waiting : c.id < x)
      /\ (client = run => \A v \in Shown, x \in Waiting : v < x)
      /\ InOrder(part) /\ Before(part, w)
    BY <1>0 DEF SequenceParts
<1>4. /\ r \in Seq(Cell) /\ b \in Seq(Cell) /\ a \in Seq(Cell) /\ n \in Nat /\ n <= Len(w)
      /\ ToSet(r) \subseteq ToSet(part) \cup ToSet(w) /\ ToSet(b) \subseteq ToSet(w)
    BY <1>0, ReadIs
<1>5. Coming(client) = ToSet(part) \cup ToSet(w)
    BY DEF Coming
<1>6. InOrder(a) /\ InOrder(b) /\ Before(a, b) /\ ToSet(a) \subseteq ToSet(w)
    <2>1. InOrder(w)
        BY <1>0, <1>3
    <2> HIDE DEF w
    <2>2. w \in Seq(Cell)
        BY <1>0 DEF w
    <2>3. /\ InOrder(SubSeq(w, 1, n)) /\ InOrder(SubSeq(w, n + 1, Len(w)))
          /\ Before(SubSeq(w, 1, n), SubSeq(w, n + 1, Len(w)))
        BY <1>4, <2>1, <2>2, CutOrder
    <2>4. ToSet(SubSeq(w, 1, n)) \subseteq ToSet(w)
        BY <1>4, <2>2, CutSet
    <2> QED
        BY <2>3, <2>4 DEF Rest, w
<1>7. r = part \o a /\ ToSet(r) = ToSet(part) \cup ToSet(a)
    <2>1. r = part \o a
        BY DEF Read
    <2> HIDE DEF a, r
    <2>2. ToSet(part \o a) = ToSet(part) \cup ToSet(a)
        BY <1>0, <1>4, ConcatSet
    <2> QED
        BY <2>1, <2>2
<1>8. InOrder(r)
    <2>1. Before(part, a)
        BY <1>3, <1>6 DEF Before
    <2> HIDE DEF a, r
    <2>2. InOrder(part \o a)
        BY <1>0, <1>3, <1>4, <1>6, <2>1, ConcatOrder
    <2> QED
        BY <1>7, <2>2
<1>9. Before(r, b)
    BY <1>3, <1>4, <1>6, <1>7 DEF Before
<1>9a. InOrder(r \o b)
    <2> HIDE DEF r, b
    <2> QED
        BY <1>4, <1>6, <1>8, <1>9, ConcatOrder
<1> HIDE DEF a, b, r, w
<1>10. wire'[client] = b /\ \A p \in Runs : p # client => wire'[p] = wire[p]
    BY <1>0, <1>2 DEF b
<1>11. ToSet(part') \subseteq ToSet(r) /\ InOrder(part')
    <2>1. ToSet(<<>>) = {} /\ InOrder(<<>>)
        BY DEF ToSet, InOrder
    <2> QED
        BY <1>2, <1>8, <2>1 DEF r
<1>12. \A p \in Runs : Coming(p)' \subseteq Coming(p)
    <2> TAKE p \in Runs
    <2>1. CASE p = client
        <3>1. Coming(p)' = ToSet(b) \cup ToSet(part')
            BY <1>1, <1>10, <2>1 DEF Coming
        <3> QED
            BY <1>4, <1>5, <1>11, <2>1, <3>1
    <2>2. CASE p # client
        BY <1>1, <1>10, <2>2 DEF Coming
    <2> QED
        BY <2>1, <2>2
<1>12a. Coming(client)' \subseteq Coming(client) /\ (run \in Runs => Coming(run)' \subseteq Coming(run))
    BY <1>0, <1>1, <1>12 DEF Coming
<1>13. \A p \in Runs : InOrder(wire'[p]) /\ \A c \in Coming(p)' : c.id < next'
    <2>1. \A p \in Runs : InOrder(wire'[p])
        BY <1>3, <1>6, <1>10
    <2> QED
        BY <1>1, <1>3, <1>12, <2>1
<1>14. Before(part', wire'[client])
    BY <1>9, <1>10, <1>11 DEF Before
<1>15. Waiting' = Waiting
    BY <1>1 DEF Waiting
<1>16. run \in Runs => \A c \in Coming(run)', x \in Waiting' : c.id < x
    BY <1>3, <1>12a, <1>15
<1>17. /\ \A v \in Shown' : v \in Shown \/ \E c \in ToSet(r) : Whole(r) /\ c.id = v /\ \A d \in ToSet(b) : v < d.id
       /\ Clean(view') /\ Named'
    <2>0. Clean(view) /\ Shown = In(view) /\ Shown' = In(view')
        BY DEF Tidy, Shown, In
    <2>1. CASE ~Whole(r)
        <3>1. view' = view
            BY <1>2, <2>1 DEF r
        <3> QED
            BY <1>1, <2>0, <3>1 DEF Named, Misnamed
    <2>2. CASE Whole(r)
        <3> DEFINE cs == Records(r)
        <3>1. view' = FiledAll(view, cs)
            BY <1>2, <2>2 DEF r
        <3>2. cs \in Seq(Slot) /\ \A i \in 1..Len(cs) : cs[i] \in Slot
            BY <1>4, RecordsIs
        <3>3. /\ \A i, j \in 1..Len(cs) : i < j => cs[i].id < cs[j].id
              /\ \A i \in 1..Len(cs) : cs[i] \in ToSet(r) /\ \A d \in ToSet(b) : cs[i].id < d.id
            BY <1>4, <1>9a, RecordsOrder
        <3> HIDE DEF cs
        <3>4. \A v \in In(view), i \in 1..Len(cs) : v < cs[i].id
            <4> SUFFICES ASSUME NEW v \in Shown, NEW i \in 1..Len(cs) PROVE v < cs[i].id
                BY <2>0
            <4>1. cs[i] \in Coming(client)
                BY <1>4, <1>5, <3>3
            <4> QED
                BY <1>3, <4>1
        <3>5. /\ Clean(view')
              /\ \A m \in Nodes : \A x \in ToSet(view'[m]) :
                    x \in ToSet(view[m]) \/ \E j \in 1..Len(cs) : x = cs[j].id /\ m = Under(cs[j])
            BY ZenonT(60), <1>0, <2>0, <3>1, <3>2, <3>3, <3>4, FiledAllClean
        <3>6. ASSUME gaps = 0, NEW j \in 1..Len(cs) PROVE cs[j].u = 1
            <4>1. PICK h \in Seq(Ids) : Sent(client) = Batch(h)
                BY <1>0, <1>1, <3>6 DEF Even
            <4>2. part \o wire[client] = Batch(h)
                BY <4>1 DEF Sent
            <4>3. PICK y \in Seq(Ids) : r = Batch(y)
                BY <1>0, <2>2, <4>2, ReadCut DEF r
            <4>4. cs = Starts(y)
                BY <4>3, BatchRecords DEF cs
            <4>5. j \in 1..Len(y) /\ cs[j] = Cells(y[j])[1]
                BY <4>4, StartsAre
            <4>6. y[j] \in Ids
                BY <4>5
            <4>7. Cells(y[j])[1] = [id |-> y[j], u |-> 1]
                BY <4>6, StartIs
            <4>8. [id |-> y[j], u |-> 1].u = 1
                OBVIOUS
            <4> QED
                BY <4>5, <4>7, <4>8
        <3>7. Named'
            <4> SUFFICES ASSUME NEW m \in Nodes, NEW x \in ToSet(view'[m]) PROVE Messages[x].node = m \/ Misnamed(x, m)
                BY <1>1 DEF Named, Misnamed
            <4>1. CASE x \in ToSet(view[m])
                BY <4>1 DEF Named
            <4>2. CASE x \notin ToSet(view[m])
                <5>1. PICK j \in 1..Len(cs) : x = cs[j].id /\ m = Under(cs[j])
                    BY <3>5, <4>2
                <5>2. cs[j] \in Slot /\ gaps \in Nat /\ (gaps = 0 => cs[j].u = 1)
                    BY <3>2, <3>6 DEF TypesHold
                <5> QED
                    BY <5>1, <5>2, SlotNames
            <4> QED
                BY <4>1, <4>2
        <3>8. ASSUME NEW v \in Shown', v \notin Shown
              PROVE  \E c \in ToSet(r) : c.id = v /\ \A d \in ToSet(b) : v < d.id
            <4>1. PICK m \in Nodes : v \in ToSet(view'[m])
                BY DEF Shown
            <4>2. v \notin ToSet(view[m])
                BY <3>8 DEF Shown
            <4>3. PICK j \in 1..Len(cs) : v = cs[j].id
                BY <3>5, <4>1, <4>2
            <4> QED
                BY <3>3, <4>3
        <3> QED
            BY <2>2, <3>5, <3>7, <3>8
    <2> QED
        BY <2>1, <2>2
<1>18. \A c \in ToSet(r) : c \in Coming(client)
    BY <1>4, <1>5
<1>19. \A v \in Shown', c \in Coming(client)' : v < c.id
    <2> SUFFICES ASSUME NEW v \in Shown', NEW c \in Coming(client)' PROVE v < c.id
        OBVIOUS
    <2>1. c \in Coming(client)
        BY <1>12a
    <2>2. CASE v \in Shown
        BY <1>3, <2>1, <2>2
    <2>3. CASE v \notin Shown
        <3>1. PICK d \in ToSet(r) : Whole(r) /\ \A e \in ToSet(b) : v < e.id
            BY <1>17, <2>3
        <3>2. part' = <<>>
            BY <1>2, <3>1 DEF r
        <3>3. c \in ToSet(b)
            BY <1>1, <1>10, <3>2 DEF Coming, ToSet
        <3> QED
            BY <3>1, <3>3
    <2> QED
        BY <2>2, <2>3
<1>20. client = run => \A v \in Shown', x \in Waiting' : v < x
    <2> SUFFICES ASSUME client = run, NEW v \in Shown', NEW x \in Waiting PROVE v < x
        BY <1>15
    <2>1. CASE v \in Shown
        BY <1>3, <2>1
    <2>2. CASE v \notin Shown
        <3>1. PICK d \in ToSet(r) : d.id = v
            BY <1>17, <2>2
        <3>2. d \in Coming(run)
            BY <1>18, <3>1
        <3> QED
            BY <1>0, <1>3, <3>1, <3>2
    <2> QED
        BY <2>1, <2>2
<1>21. \A v \in Shown' : v < next'
    <2>1. \A v \in Shown : v < next
        BY DEF Tidy
    <2> QED
        BY <1>0, <1>1, <1>3, <1>17, <1>18, <2>1
<1>22. SequenceParts'
    <2>1. (client # 0 => \A v \in Shown, c \in Coming(client) : v < c.id)'
        BY <1>1, <1>19 DEF Coming
    <2>2. (run \in Runs => \A c \in Coming(run), x \in Waiting : c.id < x)'
        BY <1>1, <1>16 DEF Coming
    <2> QED
        BY <1>1, <1>3, <1>11, <1>13, <1>14, <1>20, <2>1, <2>2 DEF SequenceParts
<1>23. Tidy'
    BY <1>17, <1>21 DEF Tidy
<1> QED
    BY <1>17, <1>22, <1>23

LEMMA BaseInit == ASSUME Init PROVE Base
<1>1. /\ Len(Messages) \in Nat /\ Units \in Nat \ {0} /\ Processes \in Nat \ {0}
    BY MonitorAssumption, Sizes DEF MonitorAssumption
<1>2. EmptyTree \in Trees /\ In(EmptyTree) = {} /\ Clean(EmptyTree)
    BY EmptyTreeIs
<1>3. /\ ToSet(<<>>) = {} /\ InOrder(<<>>) /\ Rising(<<>>) /\ <<>> \in Seq(Cell) /\ <<>> \in Seq(Ids)
    BY DEF ToSet, InOrder, Rising
<1>4. TypesHold
    <2>1. run \in 1..(Processes + 1) /\ next \in 1..(Len(Messages) + 1) /\ local \in Trees /\ state \in 0..2
        BY <1>1, <1>2 DEF Init
    <2>2. pause \in BOOLEAN
        BY DEF Init
    <2>3. block \in BOOLEAN /\ reset \in BOOLEAN
        BY DEF Init
    <2>4. buffer \in Seq(Ids) /\ call \in {"none", "send", "ack"} /\ pending \in {0} \cup Ids
        BY DEF Init
    <2>5. link \in [Runs -> {"none", "open", "ended", "closed"}] /\ acks \in [Runs -> Nat]
        BY DEF Init
    <2>6. wire \in [Runs -> Seq(Cell)]
        BY <1>3 DEF Init
    <2>7. listening \in BOOLEAN
        BY DEF Init
    <2>8. peer \in 0..4 /\ client \in {0} \cup Runs /\ part \in Seq(Cell) /\ view \in Trees /\ gaps \in Nat
        BY <1>2, <1>3 DEF Init
    <2> QED
        BY <2>1, <2>2, <2>3, <2>4, <2>5, <2>6, <2>7, <2>8 DEF TypesHold
<1>5. Shown = {} /\ Waiting = {} /\ \A p \in Runs : Coming(p) = {} /\ wire[p] = <<>>
    BY <1>2, <1>3 DEF Init, Shown, In, Waiting, Coming
<1>6. OneByOne
    <2>1. Fresh
        BY DEF Init, Fresh
    <2> QED
        BY <2>1 DEF Init, OneByOne
<1>7. Sequence
    BY <1>3, <1>5 DEF Init, Sequence
<1>8. Tidy /\ Named
    <2>1. view = EmptyTree /\ \A n \in Nodes : view[n] = <<>>
        BY DEF Init, EmptyTree
    <2> QED
        BY <1>2, <1>3, <1>5, <2>1 DEF Tidy, Named
<1>9. Even
    <2>1. \A p \in Runs : Sent(p) = <<>>
        <3> TAKE p \in Runs
        <3>1. wire[p] = <<>> /\ part = <<>> /\ <<>> \o <<>> = <<>>
            BY <1>5 DEF Init
        <3> QED
            BY <3>1 DEF Sent
    <2> QED
        BY <1>3, <2>1, NoRecords DEF Even
<1> QED
    BY <1>4, <1>6, <1>7, <1>8, <1>9 DEF Base

\* The steps that leave messages where they are.
LEMMA Aside ==
    ASSUME Sequence, Tidy, UNCHANGED <<run, next, buffer, pending, wire, client, part, view>>
    PROVE  Sequence' /\ Tidy'
BY DEF Sequence, Tidy, Clean, InOrder, Rising, Waiting, Coming, Shown

LEMMA Forgets ==
    ASSUME TypesHold, Sequence, Tidy, UNCHANGED <<run, next, buffer, pending, wire, client>>,
           part' = <<>>, view' = view \/ view' = EmptyTree
    PROVE  Sequence' /\ Tidy'
<1>1. In(EmptyTree) = {} /\ Clean(EmptyTree) /\ EmptyTree \in Trees
    BY EmptyTreeIs
<1>2. Shown' = In(view') /\ Shown = In(view)
    BY DEF Shown, In
<1>3. Shown' \subseteq Shown
    BY <1>1, <1>2
<1>4. Sequence'
    BY <1>3, Less
<1>5. Clean(view')
    BY <1>1 DEF Tidy
<1> QED
    BY <1>3, <1>4, <1>5 DEF Tidy

LEMMA SequenceStep == ASSUME Base, [Next]_vars PROVE Sequence' /\ Tidy'
<1>0. TypesHold /\ OneByOne /\ Sequence /\ SequenceParts /\ Tidy /\ Named /\ Even
    BY Parts DEF Base
<1>a. (SequenceParts => Sequence)'
    BY DEF Sequence, SequenceParts, Before
<1>1. CASE Log
    BY <1>0, <1>a, <1>1, LogSequence
<1>2. CASE Connect \/ Established \/ PauseOver \/ Flush
    <2>1. UNCHANGED <<run, next, buffer, pending, wire, client, part, view>>
        BY <1>2 DEF Connect, Established, PauseOver, Flush, network, monitor
    <2> QED
        BY <1>0, <2>1, Aside
<1>3. CASE Send
    <2>1. Tidy'
        BY <1>0, <1>3 DEF Send, monitor, Tidy, Clean, Shown
    <2> QED
        BY <1>0, <1>a, <1>3, <2>1, SendSequence
<1>4. CASE Acknowledged
    <2>1. Tidy'
        BY <1>0, <1>4 DEF Acknowledged, monitor, Tidy, Clean, Shown
    <2> QED
        BY <1>0, <1>a, <1>4, <2>1, AcknowledgedSequence
<1>5. CASE End
    <2>1. Tidy'
        BY <1>0, <1>5 DEF End, monitor, Tidy, Clean, Shown
    <2> QED
        BY <1>0, <1>a, <1>5, <2>1, EndSequence
<1>6. CASE CreateSocket
    <2>1. UNCHANGED <<run, next, buffer, pending, wire, client, part, view>>
        BY <1>6 DEF CreateSocket, network, logger
    <2> QED
        BY <1>0, <2>1, Aside
<1>7. CASE Accept
    <2>1. Tidy'
        BY <1>0, <1>7 DEF Accept, logger, Tidy, Clean, Shown
    <2> QED
        BY <1>0, <1>a, <1>7, <2>1, AcceptSequence
<1>8. CASE Receive
    BY <1>0, <1>a, <1>8, ReceiveSequence
<1>9. CASE Gap
    <2>1. UNCHANGED <<run, next, buffer, pending, wire, client>> /\ part' = <<>> /\ view' = view
        BY <1>9 DEF Gap, network, logger
    <2> QED
        BY <1>0, <2>1, Forgets
<1>10. CASE LoggerGone
    <2>1. UNCHANGED <<run, next, buffer, pending, wire, client>> /\ part' = <<>> /\ (view' = view \/ view' = EmptyTree)
        BY <1>10 DEF LoggerGone, logger
    <2> QED
        BY <1>0, <2>1, Forgets
<1>11. CASE MonitorEnds
    <2>1. UNCHANGED <<run, next, buffer, pending, wire, client>> /\ part' = <<>> /\ view' = view
        BY <1>11 DEF MonitorEnds, logger
    <2> QED
        BY <1>0, <2>1, Forgets
<1>12. CASE UNCHANGED vars
    <2>1. UNCHANGED <<run, next, buffer, pending, wire, client, part, view>>
        BY <1>12 DEF vars, network, logger, monitor
    <2> QED
        BY <1>0, <2>1, Aside
<1> QED
    BY <1>1, <1>2, <1>3, <1>4, <1>5, <1>6, <1>7, <1>8, <1>9, <1>10, <1>11, <1>12 DEF Next, LoggerStep, MonitorStep

\* Only what is filed can come under another name.
LEMMA NamedStep == ASSUME Base, [Next]_vars PROVE Named'
<1>0. TypesHold /\ OneByOne /\ SequenceParts /\ Tidy /\ Named /\ Even /\ gaps \in Nat
    BY Parts DEF Base, TypesHold
<1>1. CASE Receive
    BY <1>0, <1>1, ReceiveSequence
<1>2. CASE view' = view /\ (gaps' = gaps \/ gaps' = gaps + 1)
    <2>1. gaps > 0 => gaps' > 0
        BY <1>0, <1>2
    <2> SUFFICES ASSUME NEW n \in Nodes, NEW x \in ToSet(view[n]) PROVE Messages[x].node = n \/ Misnamed(x, n)'
        BY <1>2 DEF Named
    <2>2. Messages[x].node = n \/ Misnamed(x, n)
        BY <1>0 DEF Named
    <2> QED
        BY <2>1, <2>2 DEF Misnamed
<1>3. CASE LoggerGone
    <2>1. CASE view' = view
        BY <1>2, <1>3, <2>1 DEF LoggerGone
    <2>2. CASE view' = EmptyTree
        <3>1. \A n \in Nodes : ToSet(view'[n]) = {}
            BY <2>2 DEF EmptyTree, ToSet
        <3> QED
            BY <3>1 DEF Named
    <2> QED
        BY <1>3, <2>1, <2>2 DEF LoggerGone
<1>4. CASE ~Receive /\ ~LoggerGone
    <2>1. view' = view /\ (gaps' = gaps \/ gaps' = gaps + 1)
        BY <1>4 DEF Next, LoggerStep, MonitorStep, Log, Connect, Established, PauseOver, Flush, Send,
              Acknowledged, End, CreateSocket, Accept, Gap, MonitorEnds, vars, monitor
    <2> QED
        BY <1>2, <2>1
<1> QED
    BY <1>1, <1>3, <1>4

\* Records are sent, received and forgotten whole.
LEMMA EvenStep == ASSUME Base, [Next]_vars PROVE Even'
<1>0. /\ TypesHold /\ OneByOne /\ Even /\ gaps \in Nat /\ Runs \subseteq Nat \ {0}
      /\ part \in Seq(Cell) /\ wire \in [Runs -> Seq(Cell)] /\ buffer \in Seq(Ids)
    BY NextIs DEF Base, TypesHold
<1> SUFFICES ASSUME gaps' = 0, peer' # 4, NEW p \in Runs PROVE \E h \in Seq(Ids) : Sent(p)' = Batch(h)
    BY DEF Even
<1>1. gaps = 0 /\ peer # 4 => \E h \in Seq(Ids) : Sent(p) = Batch(h)
    BY <1>0 DEF Even
<1>2. wire[p] \in Seq(Cell)
    BY <1>0
<1>3. CASE UNCHANGED <<part, wire, client, gaps>> /\ (peer' # 4 => peer # 4)
    BY <1>1, <1>3 DEF Sent
<1>4. CASE Send
    <2>1. UNCHANGED <<part, client, gaps, peer>> /\ (wire' = wire \/ wire' = [wire EXCEPT ![run] = @ \o Batch(buffer)])
        BY <1>4 DEF Send, monitor
    <2>2. CASE wire'[p] = wire[p]
        BY <1>1, <2>1, <2>2 DEF Sent
    <2>3. CASE wire'[p] = wire[p] \o Batch(buffer)
        <3>1. PICK h \in Seq(Ids) : Sent(p) = Batch(h)
            BY <1>1, <2>1
        <3> DEFINE b == Batch(buffer)
                   w == wire[p]
        <3>2. b \in Seq(Cell) /\ w \in Seq(Cell) /\ part \in Seq(Cell) /\ wire'[p] = w \o b
            BY <1>0, <1>2, <2>3, BatchIs
        <3> HIDE DEF b, w
        <3>3. part \o (w \o b) = (part \o w) \o b
            BY <3>2, JoinCells
        <3>4. Sent(p)' = Sent(p) \o b
            <4>1. Sent(p) = (IF p = client THEN part \o w ELSE w) /\ Sent(p)' = IF p = client THEN part \o (w \o b) ELSE w \o b
                BY <2>1, <3>2 DEF Sent, w
            <4> QED
                BY <3>3, <4>1
        <3>5. Batch(h \o buffer) = Batch(h) \o b /\ h \o buffer \in Seq(Ids)
            BY <1>0, BatchTogether DEF b
        <3> QED
            BY <3>1, <3>4, <3>5
    <2> QED
        BY <1>0, <2>1, <2>2, <2>3
<1>5. CASE Accept
    <2>1. UNCHANGED <<part, wire, gaps>> /\ client = 0 /\ part = <<>> /\ peer = 1
        BY <1>0, <1>5 DEF Accept, logger, network, OneByOne
    <2>2. <<>> \o wire[p] = wire[p]
        BY <1>2
    <2>3. Sent(p)' = wire[p] /\ Sent(p) = wire[p]
        BY <1>0, <2>1, <2>2 DEF Sent
    <2> QED
        BY <1>1, <2>1, <2>3
<1>6. CASE Receive
    <2>0. client \in Runs /\ UNCHANGED <<gaps, client>> /\ peer \in {2, 3}
        BY <1>0, <1>6, Whom DEF Receive
    <2>1. PICK n \in 1..Len(wire[client]) :
              /\ wire' = [wire EXCEPT ![client] = Rest(n)]
              /\ part' = IF Whole(Read(n)) THEN <<>> ELSE Read(n)
        BY <1>0, <1>6 DEF Receive, Read, Rest
    <2>2. CASE p # client
        <3>1. wire'[p] = wire[p]
            BY <1>0, <2>0, <2>1, <2>2
        <3> QED
            BY <1>1, <2>0, <2>2, <3>1 DEF Sent
    <2>3. CASE p = client
        <3>1. PICK h \in Seq(Ids) : part \o wire[client] = Batch(h)
            BY <1>1, <2>0, <2>3 DEF Sent
        <3>2. /\ Read(n) \o Rest(n) = Batch(h)
              /\ Whole(Read(n)) => \E a, b \in Seq(Ids) : h = a \o b /\ Read(n) = Batch(a) /\ Rest(n) = Batch(b)
            BY <1>0, <2>0, <3>1, ReadCut
        <3>3. wire'[p] = Rest(n) /\ Rest(n) \in Seq(Cell)
            BY <1>0, <2>0, <2>1, <2>3, ReadIs
        <3>4. <<>> \o Rest(n) = Rest(n)
            BY <3>3
        <3> QED
            BY <2>0, <2>1, <2>3, <3>2, <3>3, <3>4 DEF Sent
    <2> QED
        BY <2>2, <2>3
<1>7. CASE Gap
    BY <1>0, <1>7 DEF Gap
<1>8. CASE LoggerGone
    <2>1. UNCHANGED <<wire, client, gaps>> /\ peer \in {2, 3} /\ part' = <<>> /\ wire[client] = <<>>
        BY <1>8 DEF LoggerGone, logger
    <2>2. CASE p = client
        <3>1. Sent(p)' = <<>>
            BY <2>1, <2>2 DEF Sent
        <3> QED
            BY <3>1, NoRecords
    <2>3. CASE p # client
        BY <1>1, <2>1, <2>3 DEF Sent
    <2> QED
        BY <2>2, <2>3
<1>9. CASE MonitorEnds
    BY <1>9 DEF MonitorEnds
<1>10. CASE Log \/ Connect \/ Established \/ PauseOver \/ Flush \/ Acknowledged \/ End \/ CreateSocket \/ UNCHANGED vars
    <2>1. UNCHANGED <<part, wire, client, gaps>> /\ (peer' # 4 => peer # 4)
        BY <1>10 DEF Log, Connect, Established, PauseOver, Flush, Acknowledged, End, CreateSocket, vars,
              logger, network, monitor
    <2> QED
        BY <1>3, <2>1
<1> QED
    BY <1>4, <1>5, <1>6, <1>7, <1>8, <1>9, <1>10 DEF Next, LoggerStep, MonitorStep

LEMMA BaseStep == ASSUME Base, [Next]_vars PROVE Base'
BY TypesStep, OneByOneStep, SequenceStep, NamedStep, EvenStep DEF Base

\* What is logged is sent, received and shown in order, in whole records as long as nothing of them
\* is forgotten: the inductive invariant of the rest.
THEOREM MonitorInvariant == Spec => []Base
<1>1. Init => Base
    BY BaseInit
<1>2. Base /\ [Next]_vars => Base'
    BY BaseStep
<1> QED
    BY <1>1, <1>2, PTL DEF Spec

\* What the monitor shows was logged, and is shown once, however batches are torn and interrupted and
\* whichever end goes away; it stands under its node, or under a rest of that node's name once a part
\* of a record was forgotten (nh_monitor_updatePeerMonitor).
THEOREM TruthfulAlways == Spec => []Truthful
<1>1. Base => Truthful
    BY TruthIs DEF Base, TypesHold
<1> QED
    BY <1>1, MonitorInvariant, PTL

---------------------------------------------------------------------------
(* Nothing is lost *)

Pend == IF pending = 0 THEN <<>> ELSE <<pending>>

\* Whole records h are on the wire, and with them what the logger still keeps makes its nodes of
\* those that are shown.
Matches(h) ==
    /\ h \in Seq(Ids) /\ OnTheWire = Batch(h)
    /\ Put(view, (h \o buffer) \o Pend) = local

LEMMA MatchesIs == Complete <=> (Connected => \E h : Matches(h))
<1>1. ASSUME NEW h, Matches(h) PROVE HeadIds(OnTheWire) = h
    BY <1>1, BatchHeads DEF Matches
<1>2. ASSUME NEW h, Matches(h)
      PROVE  /\ HeadIds(OnTheWire) \in Seq(Ids) /\ OnTheWire = Batch(HeadIds(OnTheWire))
             /\ Put(view, InFlight) = local
    BY <1>1, <1>2 DEF Matches, InFlight, Pend
<1>3. ASSUME HeadIds(OnTheWire) \in Seq(Ids), OnTheWire = Batch(HeadIds(OnTheWire)), Put(view, InFlight) = local
      PROVE  Matches(HeadIds(OnTheWire))
    BY <1>3 DEF Matches, InFlight, Pend
<1> QED
    BY <1>2, <1>3 DEF Complete

\* The same, for the state after a step.
LEMMA MatchesThen == ASSUME NEW h, Matches(h)' PROVE Complete'
<1>1. HeadIds(OnTheWire') = h
    BY BatchHeads DEF Matches
<1> QED
    BY <1>1 DEF Complete, Matches, InFlight, Pend

LEMMA OneIs == ASSUME NEW s \in Seq(Ids), NEW e \in Ids PROVE s \o <<e>> = Append(s, e) /\ <<e>> \in Seq(Ids)
OBVIOUS

LEMMA Kept == ASSUME TypesHold PROVE buffer \in Seq(Ids) /\ Pend \in Seq(Ids) /\ view \in Trees /\ local \in Trees
<1>1. Pend \in Seq(Ids)
    BY DEF Pend, TypesHold
<1> QED
    BY <1>1 DEF TypesHold

LEMMA LogComplete == ASSUME Base, Complete, Log PROVE Complete'
<1> SUFFICES ASSUME Connected' PROVE Complete'
    BY DEF Complete
<1>0. TypesHold /\ OneByOne /\ buffer \in Seq(Ids) /\ Pend \in Seq(Ids) /\ view \in Trees
    BY Kept DEF Base
<1>1. UNCHANGED <<run, state, block, link, wire, peer, listening, client, part, view, gaps>> /\ next \in Ids /\ local' = Filed(local, Cells(next)[1])
    BY DEF Log, network, monitor
<1>2. Connected
    BY <1>1 DEF Connected, Healthy
<1>3. PICK h : Matches(h)
    BY <1>2, MatchesIs
<1>4. pending = 0 /\ Pend = <<>>
    BY <1>0 DEF Log, Ready, Running, OneByOne, Pend
<1>5. \/ buffer' = Append(buffer, next) /\ pending' = pending
      \/ buffer' = buffer /\ pending' = next
    BY <1>2 DEF Log, Connected
<1> DEFINE s == h \o buffer
<1>6. h \in Seq(Ids) /\ s \in Seq(Ids) /\ Put(view, s) = local
    <2>1. h \in Seq(Ids) /\ Put(view, (h \o buffer) \o Pend) = local
        BY <1>3 DEF Matches
    <2> QED
        BY <1>0, <1>4, <2>1, JoinIs
<1>7. Put(view, Append(s, next)) = local'
    <2> HIDE DEF s
    <2> QED
        BY <1>0, <1>1, <1>6, OneMorePut
<1>8. (h \o buffer') \o Pend' = Append(s, next)
    <2>1. CASE buffer' = Append(buffer, next) /\ pending' = pending
        <3>1. Pend' = <<>>
            BY <1>4, <2>1 DEF Pend
        <3>2. h \o Append(buffer, next) = Append(s, next) /\ Append(s, next) \in Seq(Ids)
            BY <1>0, <1>1, <1>6
        <3>3. Append(s, next) \o <<>> = Append(s, next)
            BY <3>2
        <3> QED
            BY <2>1, <3>1, <3>2, <3>3
    <2>2. CASE buffer' = buffer /\ pending' = next
        <3>1. Pend' = <<next>>
            BY <1>1, <2>2, Sizes DEF Pend
        <3>2. s \o <<next>> = Append(s, next)
            BY <1>1, <1>6, OneIs
        <3> QED
            BY <2>2, <3>1, <3>2
    <2> QED
        BY <1>5, <2>1, <2>2
<1>9. OnTheWire' = Batch(h)
    BY <1>1, <1>3 DEF Matches, OnTheWire
<1>10. Matches(h)'
    BY <1>1, <1>6, <1>7, <1>8, <1>9 DEF Matches
<1> QED
    BY <1>10, MatchesThen

\* The connection is there: nothing was logged before.
LEMMA EstablishedComplete == ASSUME Base, Established PROVE Complete'
<1> SUFFICES ASSUME Connected' PROVE Complete'
    BY DEF Complete
<1>0. TypesHold /\ OneByOne /\ buffer \in Seq(Ids) /\ Pend \in Seq(Ids) /\ view \in Trees
    BY Kept DEF Base
<1>1. UNCHANGED <<run, block, local, buffer, pending, wire, client, part, view>> /\ state = 1
    BY DEF Established, monitor
<1>2. Fresh
    BY <1>0, <1>1 DEF OneByOne
<1>3. run \in Runs /\ block /\ client \in {0, run}
    BY <1>1 DEF Connected, Healthy
<1>4. buffer = <<>> /\ Pend = <<>> /\ local = EmptyTree /\ wire[run] = <<>> /\ view = EmptyTree /\ part = <<>>
    BY <1>0, <1>2, <1>3 DEF Fresh, OneByOne, Pend
<1>5. OnTheWire = <<>>
    BY <1>4 DEF OnTheWire
<1>6. Batch(<<>>) = <<>>
    BY NoRecords
<1>7. (<<>> \o buffer) \o Pend = <<>> /\ Put(view, <<>>) = local /\ <<>> \in Seq(Ids)
    BY <1>0, <1>4, NothingPut
<1>8. Matches(<<>>)'
    <2>1. OnTheWire' = OnTheWire /\ Pend' = Pend
        BY <1>1 DEF OnTheWire, Pend
    <2> QED
        BY <1>1, <1>5, <1>6, <1>7, <2>1 DEF Matches
<1> QED
    BY <1>8, MatchesThen

\* The buffer goes on the wire.
LEMMA SendComplete == ASSUME Base, Complete, Send PROVE Complete'
<1> SUFFICES ASSUME Connected' PROVE Complete'
    BY DEF Complete
<1>0. /\ TypesHold /\ OneByOne /\ buffer \in Seq(Ids) /\ Pend \in Seq(Ids) /\ view \in Trees
      /\ run \in Runs /\ wire \in [Runs -> Seq(Cell)] /\ wire[run] \in Seq(Cell) /\ part \in Seq(Cell)
    BY Kept DEF Base, Connected, Healthy, Send, TypesHold
<1>1. UNCHANGED <<run, state, block, link, local, pending, peer, listening, client, part, view, gaps>> /\ buffer' = <<>>
    BY DEF Send, monitor
<1>2. Connected /\ link[run] = "open"
    BY <1>1 DEF Connected, Healthy
<1>3. PICK h : Matches(h)
    BY <1>2, MatchesIs
<1>4. h \in Seq(Ids) /\ OnTheWire = Batch(h) /\ Put(view, (h \o buffer) \o Pend) = local
    BY <1>3 DEF Matches
<1> DEFINE b == Batch(buffer)
           w == wire[run]
<1>5. b \in Seq(Cell) /\ w \in Seq(Cell)
    BY <1>0, BatchIs
<1>6. wire'[run] = w \o b
    BY <1>0, <1>2 DEF Send
<1> HIDE DEF b, w
<1>7. OnTheWire' = OnTheWire \o b
    <2>1. CASE client = run
        <3>1. part \o (w \o b) = (part \o w) \o b
            BY SMTT(40), <1>0, <1>5
        <3> QED
            BY <1>1, <1>6, <2>1, <3>1 DEF OnTheWire, w
    <2>2. CASE client # run
        BY <1>1, <1>6, <2>2 DEF OnTheWire, w
    <2> QED
        BY <2>1, <2>2
<1>8. Batch(h) \o b = Batch(h \o buffer)
    BY <1>0, <1>4, BatchTogether DEF b
<1>9. h \o buffer \in Seq(Ids) /\ (h \o buffer) \o <<>> = h \o buffer
    BY <1>0, <1>4
<1>10. Pend' = Pend
    BY <1>1 DEF Pend
<1>s. PICK s : s = h \o buffer
    OBVIOUS
<1>11. s \in Seq(Ids) /\ OnTheWire' = Batch(s) /\ Put(view', (s \o buffer') \o Pend') = local'
    <2>1. OnTheWire' = Batch(s)
        BY <1>s, <1>4, <1>7, <1>8
    <2>2. s \o buffer' = s
        BY <1>s, <1>1, <1>9
    <2> QED
        BY <1>s, <1>1, <1>4, <1>9, <1>10, <2>1, <2>2
<1>12. Matches(s)'
    BY <1>11 DEF Matches
<1> QED
    BY <1>12, MatchesThen

LEMMA AcknowledgedComplete == ASSUME Base, Complete, Acknowledged PROVE Complete'
<1> SUFFICES ASSUME Connected' PROVE Complete'
    BY DEF Complete
<1>0. TypesHold /\ buffer \in Seq(Ids) /\ Pend \in Seq(Ids) /\ pending \in {0} \cup Ids
    BY Kept DEF Base, TypesHold
<1>1. /\ UNCHANGED <<run, state, block, link, local, wire, peer, listening, client, part, view, gaps>>
      /\ pending' = 0 /\ buffer' = IF pending = 0 THEN buffer ELSE Append(buffer, pending)
    BY DEF Acknowledged, monitor
<1>2. Connected
    BY <1>1 DEF Connected, Healthy
<1>3. PICK h : Matches(h)
    BY <1>2, MatchesIs
<1>4. h \in Seq(Ids) /\ OnTheWire = Batch(h) /\ Put(view, (h \o buffer) \o Pend) = local
    BY <1>3 DEF Matches
<1>5. Pend' = <<>> /\ buffer' = buffer \o Pend
    BY <1>0, <1>1 DEF Pend
<1>6. (h \o buffer') \o Pend' = (h \o buffer) \o Pend
    <2> HIDE DEF Pend
    <2>1. (h \o buffer) \o Pend = h \o (buffer \o Pend) /\ (h \o (buffer \o Pend)) \o <<>> = h \o (buffer \o Pend)
        BY <1>0, <1>4
    <2> QED
        BY <1>5, <2>1
<1>7. OnTheWire' = OnTheWire
    BY <1>1 DEF OnTheWire
<1>8. Matches(h)'
    BY <1>1, <1>4, <1>6, <1>7 DEF Matches
<1> QED
    BY <1>8, MatchesThen

LEMMA AcceptComplete == ASSUME Base, Complete, Accept PROVE Complete'
<1> SUFFICES ASSUME Connected' PROVE Complete'
    BY DEF Complete
<1>0. client = 0 /\ part = <<>> /\ view = EmptyTree
    BY DEF Accept, Base, OneByOne
<1>1. UNCHANGED <<run, state, block, link, local, wire, buffer, pending, listening, part, view, gaps>> /\ peer = 1 /\ listening
    BY DEF Accept, logger, network
<1>2. Connected
    BY <1>0, <1>1 DEF Connected, Healthy
<1>3. PICK h : Matches(h)
    BY <1>2, MatchesIs
<1>4. run # 0 /\ wire[run] \in Seq(Cell)
    <2>1. run \in Runs
        BY <1>2 DEF Connected, Healthy
    <2> QED
        BY <2>1, NextIs DEF Base, TypesHold
<1>5. OnTheWire' = OnTheWire /\ Pend' = Pend
    <2>1. <<>> \o wire[run] = wire[run]
        BY <1>4
    <2> QED
        BY <1>0, <1>1, <1>4, <2>1 DEF OnTheWire, Pend
<1>6. Matches(h)'
    BY <1>1, <1>3, <1>5 DEF Matches
<1> QED
    BY <1>6, MatchesThen

\* Records that are whole are filed; what is not is read on.
LEMMA ReceiveComplete == ASSUME Base, Complete, Receive PROVE Complete'
<1> SUFFICES ASSUME Connected' PROVE Complete'
    BY DEF Complete
<1>0. /\ TypesHold /\ client \in Runs /\ client # 0 /\ buffer \in Seq(Ids) /\ Pend \in Seq(Ids) /\ view \in Trees
      /\ part \in Seq(Cell) /\ wire[client] \in Seq(Cell) /\ wire \in [Runs -> Seq(Cell)]
    BY Kept, NextIs, Whom DEF Receive, Base, TypesHold
<1>1. UNCHANGED <<run, state, block, link, local, buffer, pending, listening, client, gaps>> /\ peer \in {2, 3}
    BY DEF Receive, logger
<1>2. Connected /\ client = run
    <2>1. Connected
        BY <1>1 DEF Connected, Healthy
    <2> QED
        BY <1>0, <2>1 DEF Connected, Healthy
<1>3. PICK h : Matches(h)
    BY <1>2, MatchesIs
<1>4. h \in Seq(Ids) /\ OnTheWire = Batch(h) /\ Put(view, (h \o buffer) \o Pend) = local
    BY <1>3 DEF Matches
<1>5. PICK n \in 1..Len(wire[client]) :
          /\ wire' = [wire EXCEPT ![client] = Rest(n)]
          /\ IF Whole(Read(n))
             THEN part' = <<>> /\ view' = FiledAll(view, Records(Read(n)))
             ELSE part' = Read(n) /\ view' = view
    BY <1>0 DEF Receive, Read, Rest
<1>6. Rest(n) \in Seq(Cell) /\ part \o wire[client] = Batch(h)
    BY <1>0, <1>2, <1>4, ReadIs DEF OnTheWire
<1>7. /\ Read(n) \o Rest(n) = Batch(h)
      /\ Whole(Read(n)) => \E a, b \in Seq(Ids) : h = a \o b /\ Read(n) = Batch(a) /\ Rest(n) = Batch(b)
    BY <1>0, <1>4, <1>6, ReadCut
<1>10. wire'[client] = Rest(n)
    BY <1>0, <1>5
<1>11. CASE ~Whole(Read(n))
    <2>1. part' = Read(n) /\ view' = view
        BY <1>5, <1>11
    <2>2. part' \o wire'[client] = Batch(h)
        BY <1>7, <1>10, <2>1
    <2>3. OnTheWire' = Batch(h) /\ Pend' = Pend
        BY <1>1, <1>2, <2>2 DEF OnTheWire, Pend
    <2>4. Matches(h)'
        BY <1>1, <1>4, <2>1, <2>3 DEF Matches
    <2> QED
        BY <2>4, MatchesThen
<1>12. CASE Whole(Read(n))
    <2>3. PICK a, b \in Seq(Ids) : h = a \o b /\ Read(n) = Batch(a) /\ Rest(n) = Batch(b)
        BY <1>7, <1>12
    <2>5. Records(Read(n)) = Starts(a)
        BY <2>3, BatchRecords
    <2>6. part' = <<>> /\ view' = Put(view, a)
        BY <1>5, <1>12, <2>5 DEF Put
    <2>7. OnTheWire' = Batch(b) /\ Pend' = Pend
        <3>1. <<>> \o Rest(n) = Rest(n)
            BY <1>6
        <3> QED
            BY <1>1, <1>2, <1>10, <2>3, <2>6, <3>1 DEF OnTheWire, Pend
    <2>8. Put(view', (b \o buffer) \o Pend) = local
        <3> DEFINE c == (b \o buffer) \o Pend
        <3>1. c \in Seq(Ids)
            BY <1>0, <2>3
        <3>2. a \o c = (h \o buffer) \o Pend
            <4> DEFINE d == b \o buffer
            <4>1. a \in Seq(Ids) /\ b \in Seq(Ids) /\ buffer \in Seq(Ids) /\ Pend \in Seq(Ids) /\ h = a \o b
                BY <1>0, <2>3
            <4>2. (a \o b) \o buffer = a \o d /\ d \in Seq(Ids)
                BY <4>1, JoinIs, SMTT(40)
            <4> HIDE DEF d
            <4>3. (a \o d) \o Pend = a \o (d \o Pend)
                BY <4>1, <4>2, JoinIs, SMTT(40)
            <4> QED
                BY <4>1, <4>2, <4>3 DEF d
        <3> HIDE DEF c
        <3>3. Put(view, a \o c) = Put(Put(view, a), c)
            BY <1>0, <2>3, <3>1, PutTogether
        <3> QED
            BY <1>4, <2>6, <3>2, <3>3 DEF c
    <2>9. Matches(b)'
        BY <1>1, <2>3, <2>7, <2>8 DEF Matches
    <2> QED
        BY <2>9, MatchesThen
<1> QED
    BY <1>11, <1>12

\* A step that leaves the messages alone, and connects nobody.
LEMMA AsideComplete ==
    ASSUME Complete, UNCHANGED <<run, local, buffer, pending, wire, client, part, view>>, Connected' => Connected
    PROVE  Complete'
<1> SUFFICES ASSUME Connected' PROVE Complete'
    BY DEF Complete
<1>1. PICK h : Matches(h)
    BY MatchesIs
<1>2. OnTheWire' = OnTheWire /\ Pend' = Pend
    BY DEF OnTheWire, Pend
<1>3. Matches(h)'
    BY <1>1, <1>2 DEF Matches
<1> QED
    BY <1>3, MatchesThen

LEMMA CompleteStep == ASSUME Base, Complete, [Next]_vars PROVE Complete'
<1>0. ASSUME ~Connected' PROVE Complete'
    BY <1>0 DEF Complete
<1>1. CASE Log
    BY <1>1, LogComplete
<1>2. CASE Established
    BY <1>2, EstablishedComplete
<1>3. CASE Send
    BY <1>3, SendComplete
<1>4. CASE Acknowledged
    BY <1>4, AcknowledgedComplete
<1>5. CASE Accept
    BY <1>5, AcceptComplete
<1>6. CASE Receive
    BY <1>6, ReceiveComplete
<1>7. CASE Connect
    <2>1. ~Connected'
        BY <1>7 DEF Connect, Connected
    <2> QED
        BY <1>0, <2>1
<1>8. CASE End
    <2>1. ~Connected'
        BY <1>8 DEF End, Connected
    <2> QED
        BY <1>0, <2>1
<1>9. CASE Gap
    <2>1. gaps \in Nat /\ gaps' = gaps + 1
        BY <1>9 DEF Gap, Base, TypesHold
    <2>2. ~Connected'
        BY <2>1 DEF Connected, Healthy
    <2> QED
        BY <1>0, <2>2
<1>10. CASE LoggerGone
    \* The client is a process that has ended, so it is not the one that runs.
    <2>1. client \in Runs /\ client \in Nat /\ run \in Nat /\ client # 0 /\ link[client] = "ended"
        BY <1>10, Whom, NextIs DEF LoggerGone, Base
    <2>2. client < run
        BY <2>1 DEF Base, OneByOne
    <2>3. client' = client /\ run' = run
        BY <1>10 DEF LoggerGone, logger
    <2>4. ~Connected'
        BY <2>1, <2>2, <2>3 DEF Connected, Healthy
    <2> QED
        BY <1>0, <2>4
<1>11. CASE MonitorEnds
    <2>1. ~Connected'
        BY <1>11 DEF MonitorEnds, Connected, Healthy
    <2> QED
        BY <1>0, <2>1
<1>12. CASE CreateSocket
    <2>1. /\ UNCHANGED <<run, state, block, link, local, buffer, pending, wire, client, part, view, gaps>>
          /\ peer = 0
        BY <1>12 DEF CreateSocket, logger, network
    <2>2. Connected' => Connected
        BY <2>1 DEF Connected, Healthy
    <2> QED
        BY <2>1, <2>2, AsideComplete
<1>13. CASE PauseOver \/ Flush \/ UNCHANGED vars
    <2>1. /\ UNCHANGED <<run, state, block, link, local, buffer, pending, wire, client, part, view, gaps>>
          /\ UNCHANGED <<peer, listening>>
        BY <1>13 DEF PauseOver, Flush, vars, logger, network, monitor
    <2>2. Connected' => Connected
        BY <2>1 DEF Connected, Healthy
    <2> QED
        BY <2>1, <2>2, AsideComplete
<1> QED
    BY <1>1, <1>2, <1>3, <1>4, <1>5, <1>6, <1>7, <1>8, <1>9, <1>10, <1>11, <1>12, <1>13 DEF Next, LoggerStep, MonitorStep

\* The monitor's nodes become the logger's, whatever records are torn apart and wherever batches
\* end, as long as none is interrupted (nh_monitor_receiveMessageFromLogger).
THEOREM MirrorAlways == Spec => []Mirror
<1> DEFINE I == Base /\ Complete
<1>1. Init => I
    <2> SUFFICES ASSUME Init PROVE I
        OBVIOUS
    <2>1. ~Connected
        BY DEF Init, Connected
    <2> QED
        BY <2>1, BaseInit DEF Complete
<1>2. I /\ [Next]_vars => I'
    BY BaseStep, CompleteStep
<1>3. I => Mirror
    BY DEF Complete, Mirror, Put
<1> QED
    BY <1>1, <1>2, <1>3, PTL DEF Spec
=============================================================================
