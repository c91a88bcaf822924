-------------------------- MODULE HTTPClientProofs --------------------------
(***************************************************************************)
(* Any request to any server leaves no descriptor and no TLS session open; *)
(* any response that follows HTTP/1.1 is understood, however it is split,  *)
(* and no other one succeeds before the end that its headers announce.     *)
(***************************************************************************)
EXTENDS HTTPServer, FiniteSetTheorems, TLAPS

---------------------------------------------------------------------------
(* Sequences, and sequences of sequences *)

\* Induction, for a set of numbers.
LEMMA SetInduction ==
    ASSUME NEW S, 0 \in S, \A n \in Nat : n \in S => n + 1 \in S
    PROVE  Nat \subseteq S
<1> SUFFICES ASSUME NEW m \in Nat, m \notin S PROVE FALSE
    OBVIOUS
<1> DEFINE A == (0..m) \cap S
           f == [k \in A |-> k + 1]
<1>1. IsFiniteSet(A)
    <2>1. IsFiniteSet(0..m) /\ A \in SUBSET (0..m)
        BY FS_Interval
    <2> QED
        BY <2>1, FS_Subset
<1>2. 0 \in A /\ \A k \in A : k + 1 \in A
    OBVIOUS
<1>3. f \in Injection(A, A)
    BY <1>2 DEF Injection, IsInjective
<1>4. f \in Surjection(A, A)
    BY <1>1, <1>3, FS_Injection
<1>5. PICK k \in A : f[k] = 0
    BY <1>2, <1>4 DEF Surjection
<1> QED
    BY <1>5

LEMMA SameSeq ==
    ASSUME NEW X, NEW s \in Seq(X), NEW t \in Seq(X), Len(s) = Len(t), \A i \in 1..Len(s) : s[i] = t[i]
    PROVE  s = t
OBVIOUS

LEMMA ConcatIs ==
    ASSUME NEW X, NEW s \in Seq(X), NEW t \in Seq(X)
    PROVE  /\ s \o t \in Seq(X) /\ Len(s \o t) = Len(s) + Len(t) /\ Len(s) \in Nat /\ Len(t) \in Nat
           /\ \A i \in 1..Len(s) : (s \o t)[i] = s[i]
           /\ \A i \in 1..Len(t) : (s \o t)[Len(s) + i] = t[i]
OBVIOUS

LEMMA FunctionIsSeq ==
    ASSUME NEW X, NEW n \in Nat, NEW f \in [1..n -> X]
    PROVE  f \in Seq(X) /\ Len(f) = n
OBVIOUS

LEMMA CutIs ==
    ASSUME NEW X, NEW s \in Seq(X), NEW k \in Nat, k <= Len(s)
    PROVE  /\ SubSeq(s, 1, k) \in Seq(X) /\ Len(SubSeq(s, 1, k)) = k
           /\ \A i \in 1..k : SubSeq(s, 1, k)[i] = s[i]
           /\ SubSeq(s, k + 1, Len(s)) \in Seq(X) /\ Len(SubSeq(s, k + 1, Len(s))) = Len(s) - k
           /\ \A i \in 1..(Len(s) - k) : SubSeq(s, k + 1, Len(s))[i] = s[k + i]
<1>1. Len(s) \in Nat /\ \A i \in 1..Len(s) : s[i] \in X
    OBVIOUS
<1>2. SubSeq(s, 1, k) = [i \in 1..k |-> s[i]]
    OBVIOUS
<1>3. [i \in 1..k |-> s[i]] \in [1..k -> X]
    BY <1>1
<1>4. SubSeq(s, k + 1, Len(s)) = [i \in 1..(Len(s) - k) |-> s[k + i]]
    OBVIOUS
<1>5. [i \in 1..(Len(s) - k) |-> s[k + i]] \in [1..(Len(s) - k) -> X] /\ Len(s) - k \in Nat
    BY <1>1
<1>6. SubSeq(s, 1, k) \in Seq(X) /\ Len(SubSeq(s, 1, k)) = k
    BY <1>2, <1>3, FunctionIsSeq
<1>7. SubSeq(s, k + 1, Len(s)) \in Seq(X) /\ Len(SubSeq(s, k + 1, Len(s))) = Len(s) - k
    BY <1>4, <1>5, FunctionIsSeq
<1> QED
    BY <1>2, <1>4, <1>6, <1>7

LEMMA LastSplit ==
    ASSUME NEW X, NEW s \in Seq(X), NEW n \in Nat, Len(s) = n + 1
    PROVE  /\ SubSeq(s, 1, n) \in Seq(X) /\ Len(SubSeq(s, 1, n)) = n /\ s[n + 1] \in X
           /\ s = Append(SubSeq(s, 1, n), s[n + 1])
<1>1. n \in Nat /\ n <= Len(s) /\ s[n + 1] \in X
    OBVIOUS
<1> DEFINE t == SubSeq(s, 1, n)
<1>2. t \in Seq(X) /\ Len(t) = n /\ \A i \in 1..n : t[i] = s[i]
    BY <1>1, CutIs
<1> HIDE DEF t
<1>3. s = Append(t, s[n + 1])
    <2> DEFINE r == Append(t, s[n + 1])
    <2>1. r \in Seq(X) /\ Len(r) = n + 1 /\ r[n + 1] = s[n + 1] /\ \A i \in 1..n : r[i] = t[i]
        BY <1>1, <1>2
    <2> HIDE DEF r
    <2>2. \A i \in 1..Len(s) : s[i] = r[i]
        BY <1>2, <2>1
    <2>3. s = r
        BY <2>1, <2>2, SameSeq
    <2> QED
        BY <2>3 DEF r
<1> QED
    BY <1>1, <1>2, <1>3 DEF t

LEMMA Join ==
    ASSUME NEW X, NEW a \in Seq(X), NEW b \in Seq(X), NEW c \in Seq(X)
    PROVE  (a \o b) \o c = a \o (b \o c) /\ a \o b \in Seq(X) /\ b \o c \in Seq(X) /\ a \o (b \o c) \in Seq(X)
OBVIOUS

LEMMA Nothing == ASSUME NEW X, NEW a \in Seq(X) PROVE a \o <<>> = a /\ <<>> \o a = a /\ <<>> \in Seq(X)
OBVIOUS

LEMMA FirstIs ==
    ASSUME NEW X, NEW c \in X, NEW t \in Seq(X)
    PROVE  /\ <<c>> \in Seq(X) /\ <<c>> \o t \in Seq(X) /\ <<c>> \o t # <<>>
           /\ Head(<<c>> \o t) = c /\ Tail(<<c>> \o t) = t
OBVIOUS

LEMMA FirstAndRest ==
    ASSUME NEW X, NEW s \in Seq(X), s # <<>>
    PROVE  Head(s) \in X /\ Tail(s) \in Seq(X) /\ s = <<Head(s)>> \o Tail(s) /\ Len(Tail(s)) = Len(s) - 1
OBVIOUS

LEMMA FirstOfTwo ==
    ASSUME NEW X, NEW s \in Seq(X), s # <<>>, NEW t \in Seq(X)
    PROVE  s \o t # <<>> /\ Head(s \o t) = Head(s) /\ Tail(s \o t) = Tail(s) \o t
<1> DEFINE c == Head(s)
           u == Tail(s)
<1>1. c \in X /\ u \in Seq(X) /\ s = <<c>> \o u
    BY FirstAndRest
<1> HIDE DEF c, u
<1>2. <<c>> \in Seq(X)
    BY <1>1
<1>3. (<<c>> \o u) \o t = <<c>> \o (u \o t) /\ u \o t \in Seq(X)
    BY <1>1, <1>2, Join
<1>4. <<c>> \o (u \o t) # <<>> /\ Head(<<c>> \o (u \o t)) = c /\ Tail(<<c>> \o (u \o t)) = u \o t
    BY <1>1, <1>3, FirstIs
<1>5. s \o t = <<c>> \o (u \o t)
    BY <1>1, <1>3
<1> QED
    BY <1>4, <1>5 DEF c, u

\* The function FlattenSeq() defines.
Flat(seqs, f) == f = [i \in 1..Len(seqs) |-> IF i = 1 THEN seqs[i] ELSE f[i - 1] \o seqs[i]]

LEMMA FlatUnique ==
    ASSUME NEW X, NEW seqs \in Seq(X), NEW f, NEW g, Flat(seqs, f), Flat(seqs, g)
    PROVE  f = g
<1> DEFINE S == {k \in Nat : k \in 1..Len(seqs) => f[k] = g[k]}
<1>0. Len(seqs) \in Nat
    OBVIOUS
<1>1. \A i \in 1..Len(seqs) : /\ f[i] = IF i = 1 THEN seqs[i] ELSE f[i - 1] \o seqs[i]
                              /\ g[i] = IF i = 1 THEN seqs[i] ELSE g[i - 1] \o seqs[i]
    <2>1. f = [i \in 1..Len(seqs) |-> IF i = 1 THEN seqs[i] ELSE f[i - 1] \o seqs[i]]
        BY DEF Flat
    <2>2. g = [i \in 1..Len(seqs) |-> IF i = 1 THEN seqs[i] ELSE g[i - 1] \o seqs[i]]
        BY DEF Flat
    <2> QED
        BY <2>1, <2>2
<1>2. 0 \in S
    OBVIOUS
<1>3. \A k \in Nat : k \in S => k + 1 \in S
    <2> SUFFICES ASSUME NEW k \in Nat, k \in S, k + 1 \in 1..Len(seqs) PROVE f[k + 1] = g[k + 1]
        OBVIOUS
    <2>1. CASE k = 0
        BY <1>1, <2>1
    <2>2. CASE k # 0
        <3>1. k \in 1..Len(seqs) /\ (k + 1) - 1 = k /\ k + 1 # 1
            BY <1>0, <2>2
        <3>2. f[k] = g[k]
            BY <3>1
        <3>3. f[k + 1] = f[k] \o seqs[k + 1] /\ g[k + 1] = g[k] \o seqs[k + 1]
            BY <1>1, <3>1
        <3> QED
            BY <3>2, <3>3
    <2> QED
        BY <2>1, <2>2
<1> HIDE DEF S
<1>4. Nat \subseteq S
    BY <1>2, <1>3, SetInduction
<1>5. \A k \in 1..Len(seqs) : f[k] = g[k]
    BY <1>0, <1>4 DEF S
<1>6. f = [i \in 1..Len(seqs) |-> f[i]] /\ g = [i \in 1..Len(seqs) |-> g[i]]
    BY DEF Flat
<1> QED
    BY <1>5, <1>6

LEMMA FlattenIs ==
    ASSUME NEW X, NEW seqs \in Seq(X), NEW f, Flat(seqs, f), Len(seqs) # 0
    PROVE  FlattenSeq(seqs) = f[Len(seqs)]
<1> DEFINE g == CHOOSE h : h = [i \in 1..Len(seqs) |-> IF i = 1 THEN seqs[i] ELSE h[i - 1] \o seqs[i]]
<1>1. Flat(seqs, g)
    BY Zenon DEF Flat
<1> HIDE DEF g
<1>2. f = g
    BY <1>1, FlatUnique
<1>3. FlattenSeq(seqs) = g[Len(seqs)]
    BY Zenon DEF FlattenSeq, g
<1> QED
    BY <1>2, <1>3

LEMMA FlatExists ==
    ASSUME NEW X, NEW seqs \in Seq(Seq(X))
    PROVE  \E f : f \in [1..Len(seqs) -> Seq(X)] /\ Flat(seqs, f)
<1> DEFINE n == Len(seqs)
           Upto(m, g) == /\ g \in [1..m -> Seq(X)]
                         /\ \A i \in 1..m : g[i] = IF i = 1 THEN seqs[i] ELSE g[i - 1] \o seqs[i]
           S == {m \in Nat : m <= n => \E g : Upto(m, g)}
<1>0. n \in Nat /\ \A i \in 1..n : seqs[i] \in Seq(X)
    OBVIOUS
<1>1. 0 \in S
    <2>1. Upto(0, [i \in 1..0 |-> <<>>])
        OBVIOUS
    <2> QED
        BY <2>1
<1>2. ASSUME NEW m \in Nat, m \in S, m + 1 <= n PROVE \E h : Upto(m + 1, h)
    <2>1. m <= n /\ m + 1 \in 1..n
        BY <1>0, <1>2
    <2>2. PICK g : Upto(m, g)
        BY <1>2, <2>1
    <2> DEFINE v == IF m = 0 THEN seqs[m + 1] ELSE g[m] \o seqs[m + 1]
               h == [i \in 1..(m + 1) |-> IF i = m + 1 THEN v ELSE g[i]]
    <2>3. v \in Seq(X)
        <3>1. seqs[m + 1] \in Seq(X)
            BY <1>0, <2>1
        <3>2. m # 0 => g[m] \in Seq(X)
            BY <2>2
        <3> QED
            BY <3>1, <3>2, ConcatIs
    <2>4. \A i \in 1..(m + 1) : i # m + 1 => i \in 1..m
        OBVIOUS
    <2>5. h \in [1..(m + 1) -> Seq(X)]
        BY <2>2, <2>3, <2>4
    <2>6. \A i \in 1..(m + 1) : h[i] = IF i = 1 THEN seqs[i] ELSE h[i - 1] \o seqs[i]
        <3> TAKE i \in 1..(m + 1)
        <3>1. CASE i = m + 1
            <4>1. h[i] = v
                BY <3>1
            <4>2. m # 0 => i - 1 = m /\ h[i - 1] = g[m]
                BY <3>1
            <4> HIDE DEF h
            <4> QED
                BY <3>1, <4>1, <4>2
        <3>2. CASE i # m + 1
            <4>1. i \in 1..m /\ h[i] = g[i]
                BY <2>4, <3>2
            <4>2. i # 1 => i - 1 \in 1..m /\ h[i - 1] = g[i - 1]
                BY <4>1
            <4>3. g[i] = IF i = 1 THEN seqs[i] ELSE g[i - 1] \o seqs[i]
                BY <2>2, <4>1
            <4> HIDE DEF h
            <4> QED
                BY <4>1, <4>2, <4>3
        <3> QED
            BY <3>1, <3>2
    <2> HIDE DEF h
    <2> QED
        BY <2>5, <2>6
<1> HIDE DEF Upto
<1>6. \A m \in Nat : m \in S => m + 1 \in S
    <2> SUFFICES ASSUME NEW m \in Nat, m \in S PROVE m + 1 \in S
        OBVIOUS
    <2>1. m + 1 \in Nat
        OBVIOUS
    <2>2. m + 1 <= n => \E h : Upto(m + 1, h)
        BY <1>2, Zenon
    <2> QED
        BY <2>1, <2>2, Zenon DEF S
<1> HIDE DEF S
<1>3. n \in S
    BY <1>0, <1>1, <1>6, SetInduction
<1>4. PICK f : Upto(n, f)
    BY <1>0, <1>3 DEF S
<1>5. f = [i \in 1..n |-> IF i = 1 THEN seqs[i] ELSE f[i - 1] \o seqs[i]]
    BY <1>4 DEF Upto
<1> QED
    BY <1>4, <1>5 DEF Flat, Upto

\* One sequence more is put at the end.
LEMMA FlattenOneMore ==
    ASSUME NEW X, NEW seqs \in Seq(Seq(X)), NEW s \in Seq(X)
    PROVE  FlattenSeq(Append(seqs, s)) = FlattenSeq(seqs) \o s /\ FlattenSeq(seqs) \in Seq(X)
<1> DEFINE n == Len(seqs)
           r == Append(seqs, s)
<1>0. n \in Nat /\ r \in Seq(Seq(X)) /\ Len(r) = n + 1 /\ r[n + 1] = s /\ \A i \in 1..n : r[i] = seqs[i]
    OBVIOUS
<1>1. PICK f : f \in [1..n -> Seq(X)] /\ Flat(seqs, f)
    BY FlatExists
<1>2. PICK g : g \in [1..Len(r) -> Seq(X)] /\ Flat(r, g)
    BY <1>0, FlatExists
<1> HIDE DEF r
<1>3. FlattenSeq(r) = g[n + 1]
    BY <1>0, <1>2, FlattenIs
<1>4. CASE n = 0
    <2>1. g[n + 1] = s
        BY <1>0, <1>2, <1>4 DEF Flat
    <2>2. seqs = <<>> /\ FlattenSeq(seqs) = seqs
        BY <1>4 DEF FlattenSeq
    <2>3. <<>> \o s = s /\ <<>> \in Seq(X)
        OBVIOUS
    <2>4. FlattenSeq(r) = <<>> \o s
        BY <1>3, <2>1, <2>3, Zenon
    <2>5. FlattenSeq(seqs) = <<>>
        BY <2>2, Zenon
    <2> QED
        BY <2>3, <2>4, <2>5, Zenon DEF r
<1>5. CASE n # 0
    <2>1. FlattenSeq(seqs) = f[n] /\ f[n] \in Seq(X)
        <3>1. n \in 1..n
            BY <1>0, <1>5
        <3>2. f[n] \in Seq(X)
            BY <1>1, <3>1
        <3>3. FlattenSeq(seqs) = f[Len(seqs)]
            BY <1>1, <1>5, FlattenIs
        <3> QED
            BY <3>2, <3>3
    <2> DEFINE h == [i \in 1..n |-> g[i]]
    <2>2. Flat(seqs, h)
        <3>1. \A i \in 1..(n + 1) : g[i] = IF i = 1 THEN r[i] ELSE g[i - 1] \o r[i]
            BY <1>0, <1>2 DEF Flat
        <3>2. ASSUME NEW i \in 1..n PROVE h[i] = IF i = 1 THEN seqs[i] ELSE h[i - 1] \o seqs[i]
            <4>1. i \in 1..(n + 1) /\ r[i] = seqs[i] /\ h[i] = g[i] /\ (i # 1 => h[i - 1] = g[i - 1])
                BY <1>0
            <4> HIDE DEF h
            <4> QED
                BY <3>1, <4>1
        <3>3. h = [i \in 1..n |-> IF i = 1 THEN seqs[i] ELSE h[i - 1] \o seqs[i]]
            BY <3>2
        <3> QED
            BY <3>3 DEF Flat
    <2>3. h = f
        BY <1>1, <2>2, FlatUnique
    <2>4. g[n] = f[n]
        BY <1>0, <1>5, <2>3
    <2>5. g[n + 1] = g[n] \o s
        <3>1. \A i \in 1..(n + 1) : g[i] = IF i = 1 THEN r[i] ELSE g[i - 1] \o r[i]
            BY <1>0, <1>2 DEF Flat
        <3>2. n + 1 \in 1..(n + 1) /\ n + 1 # 1 /\ (n + 1) - 1 = n
            BY <1>0, <1>5
        <3> QED
            BY <1>0, <3>1, <3>2
    <2> QED
        BY <1>3, <2>1, <2>4, <2>5 DEF r
<1> QED
    BY <1>4, <1>5

\* The first of the sequences comes first.
LEMMA FlattenFirst ==
    ASSUME NEW X, NEW s \in Seq(X), NEW q \in Seq(Seq(X))
    PROVE  FlattenSeq(<<s>> \o q) = s \o FlattenSeq(q) /\ FlattenSeq(q) \in Seq(X)
<1> DEFINE P(p) == FlattenSeq(<<s>> \o p) = s \o FlattenSeq(p) /\ FlattenSeq(p) \in Seq(X)
           S == {n \in Nat : \A p \in Seq(Seq(X)) : Len(p) = n => P(p)}
<1>e. <<>> \in Seq(Seq(X)) /\ <<s>> = Append(<<>>, s) /\ FlattenSeq(<<>>) = <<>> /\ <<>> \in Seq(X)
    BY DEF FlattenSeq
<1>1. 0 \in S
    <2> SUFFICES ASSUME NEW p \in Seq(Seq(X)), Len(p) = 0 PROVE P(p)
        OBVIOUS
    <2>1. p = <<>> /\ <<s>> \o p = <<s>>
        OBVIOUS
    <2>2. FlattenSeq(<<s>>) = <<>> \o s
        BY <1>e, FlattenOneMore
    <2>3. <<>> \o s = s /\ s \o <<>> = s
        OBVIOUS
    <2> QED
        BY <1>e, <2>1, <2>2, <2>3
<1>2. ASSUME NEW n \in Nat, n \in S, NEW p \in Seq(Seq(X)), Len(p) = n + 1 PROVE P(p)
    <2>1. PICK a \in Seq(Seq(X)), e \in Seq(X) : p = Append(a, e) /\ Len(a) = n
        <3>1. /\ SubSeq(p, 1, n) \in Seq(Seq(X)) /\ Len(SubSeq(p, 1, n)) = n /\ p[n + 1] \in Seq(X)
              /\ p = Append(SubSeq(p, 1, n), p[n + 1])
            BY <1>2, LastSplit
        <3> QED
            BY <3>1
    <2>2. P(a)
        BY <1>2, <2>1
    <2>3. <<s>> \o Append(a, e) = Append(<<s>> \o a, e) /\ <<s>> \o a \in Seq(Seq(X))
        BY SMTT(40)
    <2>4. FlattenSeq(Append(<<s>> \o a, e)) = FlattenSeq(<<s>> \o a) \o e
        BY <2>3, FlattenOneMore
    <2>5. FlattenSeq(Append(a, e)) = FlattenSeq(a) \o e
        BY FlattenOneMore
    <2> DEFINE f == FlattenSeq(a)
    <2>6. f \in Seq(X) /\ FlattenSeq(<<s>> \o a) = s \o f
        BY <2>2
    <2> HIDE DEF f
    <2>f. f \in Seq(X)
        BY <2>6
    <2>7. (s \o f) \o e = s \o (f \o e) /\ f \o e \in Seq(X)
        BY SMTT(40), <2>f
    <2> QED
        BY <2>1, <2>3, <2>4, <2>5, <2>6, <2>7 DEF f
<1> HIDE DEF P
<1>3. \A n \in Nat : n \in S => n + 1 \in S
    BY <1>2
<1> HIDE DEF S
<1>4. Nat \subseteq S
    BY <1>1, <1>3, SetInduction
<1>5. Len(q) \in Nat
    OBVIOUS
<1>6. P(q)
    BY <1>4, <1>5 DEF S
<1> QED
    BY <1>6 DEF P

---------------------------------------------------------------------------
(* Descriptors *)

Working == Reading \cup {"tls", "sendHead", "write", "close"}

\* While an address is tried its descriptor is in no connection yet; after that the connection
\* has it until it is closed, also when no address was left.
DescriptorInv ==
    /\ pc \in Working \cup {"connect", "poll", "done"}
    /\ pc = "connect" => fds = 0 /\ ~fd
    /\ pc = "poll" => fds = 1 /\ ~fd
    /\ pc \in Working => fds = IF fd THEN 1 ELSE 0
    /\ pc = "done" => fds = 0 /\ ~session
    /\ fd \in BOOLEAN

LEMMA ClientStarts == Init => DescriptorInv
BY DEF Init, DescriptorInv, Working, Reading, LineStates

\* Steps that leave the connection as it is and go on, or on to the close.
LEMMA ConnectionKept ==
    ASSUME DescriptorInv, UNCHANGED connection, pc \in Working, pc' \in Working
    PROVE  DescriptorInv'
BY DEF DescriptorInv, connection, Working, Reading, LineStates

LEMMA ConnectKeeps == ASSUME DescriptorInv, Connect PROVE DescriptorInv'
<1> USE DEF DescriptorInv, Working, Reading, LineStates, Fail, connection
<1>1. CASE ResolveFails
    BY <1>1 DEF ResolveFails
<1>2. CASE OpenSocket
    BY <1>2 DEF OpenSocket
<1>3. CASE Connected
    BY <1>3 DEF Connected
<1>4. CASE ConnectFails
    BY <1>4 DEF ConnectFails
<1>5. CASE NoAddressLeft
    BY <1>5 DEF NoAddressLeft
<1>6. CASE StartTLS
    BY <1>6 DEF StartTLS
<1> QED
    BY <1>1, <1>2, <1>3, <1>4, <1>5, <1>6 DEF Connect

LEMMA CloseKeeps == ASSUME DescriptorInv, CloseConnection PROVE DescriptorInv'
<1>1. pc = "close" /\ pc' = "done" /\ session' = FALSE /\ fd' = FALSE
    BY DEF CloseConnection
<1>2. fds' = 0
    <2>1. fds = IF fd THEN 1 ELSE 0
        BY <1>1 DEF DescriptorInv, Working
    <2> QED
        BY <2>1 DEF CloseConnection
<1>3. ~session' /\ ~fd' /\ fd' \in BOOLEAN
    BY <1>1, Zenon
<1>4. pc' \notin Working
    BY <1>1 DEF Working, Reading, LineStates
<1> QED
    BY <1>1, <1>2, <1>3, <1>4 DEF DescriptorInv

LEMMA SendMoves == ASSUME Send PROVE UNCHANGED connection /\ pc \in Working /\ pc' \in Working
<1> USE DEF Working, Reading, LineStates, Fail
<1>1. CASE SendHead
    BY <1>1 DEF SendHead
<1>2. CASE Write
    BY <1>2 DEF Write
<1>3. CASE WriteFails
    BY <1>3 DEF WriteFails
<1>4. CASE SendBody
    BY <1>4 DEF SendBody
<1>5. CASE SourceFails
    BY <1>5 DEF SourceFails
<1>6. CASE RequestSent
    BY <1>6 DEF RequestSent
<1> QED
    BY <1>1, <1>2, <1>3, <1>4, <1>5, <1>6 DEF Send

LEMMA FillMoves == ASSUME FillBuffer PROVE UNCHANGED connection /\ pc \in Working /\ pc' \in Working
<1> USE DEF Working, Reading, LineStates, Fail, NeedsInput
<1>1. CASE Receive
    BY <1>1 DEF Receive
<1>2. CASE ReceiveEnd
    BY <1>2 DEF ReceiveEnd
<1>3. CASE ReceiveFails
    BY <1>3 DEF ReceiveFails
<1> QED
    BY <1>1, <1>2, <1>3 DEF FillBuffer

LEMMA ReadHeadMoves == ASSUME ReadHead PROVE UNCHANGED connection /\ pc \in Working /\ pc' \in Working
<1> USE DEF Working, Reading, LineStates, Fail, EndLine
<1>1. CASE ReadChar
    BY <1>1 DEF ReadChar
<1>2. CASE StatusLine
    BY <1>2 DEF StatusLine
<1>3. CASE HeaderLine
    BY <1>3 DEF HeaderLine
<1>4. CASE InterimEnds
    BY <1>4 DEF InterimEnds
<1>5. CASE HeadersEnd
    BY <1>5 DEF HeadersEnd, BeginBody
<1> QED
    BY <1>1, <1>2, <1>3, <1>4, <1>5 DEF ReadHead

LEMMA ReadChunkMoves == ASSUME ReadChunk PROVE UNCHANGED connection /\ pc \in Working /\ pc' \in Working
<1> USE DEF Working, Reading, LineStates, Fail, EndLine
<1>1. CASE ChunkSizeLine
    BY <1>1 DEF ChunkSizeLine, BeginBody
<1>2. CASE ChunkEndLine
    BY <1>2 DEF ChunkEndLine
<1>3. CASE TrailerLine
    BY <1>3 DEF TrailerLine
<1>4. CASE ReadBody
    BY <1>4 DEF ReadBody
<1>5. CASE SinkRefuses
    BY <1>5 DEF SinkRefuses
<1> QED
    BY <1>1, <1>2, <1>3, <1>4, <1>5 DEF ReadChunk

LEMMA ClientSteps == DescriptorInv /\ [Next]_vars => DescriptorInv'
<1> SUFFICES ASSUME DescriptorInv, [Next]_vars PROVE DescriptorInv'
    OBVIOUS
<1>1. CASE Connect
    BY <1>1, ConnectKeeps
<1>2. CASE Send
    BY <1>2, SendMoves, ConnectionKept
<1>3. CASE FillBuffer
    BY <1>3, FillMoves, ConnectionKept
<1>4. CASE ReadHead
    BY <1>4, ReadHeadMoves, ConnectionKept
<1>5. CASE ReadChunk
    BY <1>5, ReadChunkMoves, ConnectionKept
<1>6. CASE CloseConnection
    BY <1>6, CloseKeeps
<1>7. CASE UNCHANGED vars
    BY <1>7 DEF vars, connection, DescriptorInv, Working, Reading, LineStates
<1> QED
    BY <1>1, <1>2, <1>3, <1>4, <1>5, <1>6, <1>7 DEF Next

\* However a request ends, its descriptor and its session are closed, and
\* it never had two (nh_network_performHTTPRequest).
THEOREM DescriptorsAreClosed == Spec => []DescriptorsClosed
<1>1. DescriptorInv => DescriptorsClosed
    BY DEF DescriptorInv, DescriptorsClosed, Working, Reading, LineStates
<1> QED
    BY <1>1, ClientStarts, ClientSteps, PTL DEF Spec

---------------------------------------------------------------------------
(* What follows in a response *)

Cells == [k : Kinds, n : Int]
Texts == Seq(Cells)

\* The rest of a line, and what comes after it.
Then(l, t) == l \o (EOL \o t)

LEMMA EndOfLine == EOL \in Texts /\ EOL # <<>> /\ EOL = <<Cell("cr", 0)>> \o <<Cell("lf", 0)>> /\ Cell("cr", 0) \in Cells /\ Cell("lf", 0) \in Cells
<1>1. Cell("cr", 0) \in Cells /\ Cell("lf", 0) \in Cells
    BY DEF Cell, Cells, Kinds
<1> DEFINE a == Cell("cr", 0)
           b == Cell("lf", 0)
<1> HIDE DEF a, b
<1>2. <<a, b>> \in Seq(Cells) /\ <<a, b>> # <<>> /\ <<a, b>> = <<a>> \o <<b>>
    BY <1>1 DEF a, b
<1> QED
    BY <1>1, <1>2 DEF EOL, Texts, a, b

LEMMA CellIs == ASSUME NEW kind \in Kinds, NEW n \in Int PROVE Cell(kind, n) \in Cells /\ <<Cell(kind, n)>> \in Texts
BY DEF Cell, Cells, Texts

LEMMA ThenIs ==
    ASSUME NEW l \in Texts, NEW t \in Texts
    PROVE  Then(l, t) \in Texts /\ (l \o EOL) \o t = Then(l, t) /\ Then(<<>>, t) = EOL \o t /\ EOL \o t \in Texts
<1> HIDE DEF EOL
<1>1. EOL \in Seq(Cells) /\ l \in Seq(Cells) /\ t \in Seq(Cells)
    BY EndOfLine DEF Texts
<1>2. (l \o EOL) \o t = l \o (EOL \o t) /\ EOL \o t \in Seq(Cells) /\ l \o (EOL \o t) \in Seq(Cells)
    BY SMTT(40), <1>1, Join
<1>3. <<>> \o (EOL \o t) = EOL \o t
    BY <1>2, Nothing
<1> QED
    BY <1>2, <1>3 DEF Then, Texts

LEMMA LineThen ==
    ASSUME NEW kind \in Kinds, NEW n \in Int, NEW t \in Texts
    PROVE  /\ Line(kind, n) \in Texts /\ Line(kind, n) \o t = Then(<<Cell(kind, n)>>, t)
           /\ Then(<<Cell(kind, n)>>, t) \in Texts
<1>1. <<Cell(kind, n)>> \in Texts
    BY CellIs
<1>2. <<Cell(kind, n)>> \o EOL \in Texts
    <2>1. <<Cell(kind, n)>> \in Seq(Cells) /\ EOL \in Seq(Cells)
        BY <1>1, EndOfLine DEF Texts
    <2> QED
        BY <2>1, ConcatIs DEF Texts
<1> QED
    BY <1>1, <1>2, ThenIs DEF Line

LEMMA RepeatIs ==
    ASSUME NEW s \in Texts, NEW k \in Nat
    PROVE  Repeat(0, s) = <<>> /\ Repeat(k, s) \in Texts /\ Repeat(k + 1, s) = s \o Repeat(k, s)
<1> DEFINE q == [i \in 1..k |-> s]
           r == [i \in 1..(k + 1) |-> s]
           e == [i \in 1..0 |-> s]
<1>1. q \in Seq(Texts) /\ Len(q) = k /\ \A i \in 1..k : q[i] = s
    <2>1. q \in [1..k -> Texts]
        OBVIOUS
    <2> QED
        BY <2>1, FunctionIsSeq
<1>2. r \in Seq(Texts) /\ Len(r) = k + 1 /\ \A i \in 1..(k + 1) : r[i] = s
    <2>1. r \in [1..(k + 1) -> Texts] /\ k + 1 \in Nat
        OBVIOUS
    <2> QED
        BY <2>1, FunctionIsSeq
<1>3. FlattenSeq(e) = <<>>
    <2>1. e = <<>> /\ Len(<<>>) = 0
        OBVIOUS
    <2> QED
        BY <2>1 DEF FlattenSeq
<1> HIDE DEF q, r, e
<1>4. r = <<s>> \o q
    <2> DEFINE w == <<s>> \o q
    <2>1. <<s>> \in Seq(Texts) /\ Len(<<s>>) = 1 /\ <<s>>[1] = s
        OBVIOUS
    <2>2. /\ w \in Seq(Texts) /\ Len(w) = Len(<<s>>) + Len(q)
          /\ \A i \in 1..Len(<<s>>) : w[i] = <<s>>[i]
          /\ \A i \in 1..Len(q) : w[Len(<<s>>) + i] = q[i]
        BY <1>1, <2>1, ConcatIs
    <2> HIDE DEF w
    <2>3. Len(w) = k + 1
        BY <1>1, <2>1, <2>2
    <2>4. \A i \in 1..(k + 1) : w[i] = s
        <3> TAKE i \in 1..(k + 1)
        <3>1. CASE i = 1
            BY <2>1, <2>2, <3>1
        <3>2. CASE i # 1
            <4> DEFINE j == i - 1
            <4>1. j \in 1..k /\ i = 1 + j
                BY <3>2
            <4> HIDE DEF j
            <4> QED
                BY <1>1, <2>1, <2>2, <4>1
        <3> QED
            BY <3>1, <3>2
    <2>5. r = w
        BY <1>2, <2>2, <2>3, <2>4, SameSeq
    <2> QED
        BY <2>5 DEF w
<1>5. FlattenSeq(<<s>> \o q) = s \o FlattenSeq(q) /\ FlattenSeq(q) \in Seq(Cells)
    <2>1. s \in Seq(Cells) /\ q \in Seq(Seq(Cells))
        BY <1>1 DEF Texts
    <2> QED
        BY <2>1, FlattenFirst
<1> QED
    BY <1>3, <1>4, <1>5 DEF Repeat, q, r, e, Texts

LEMMA TrailersIs ==
    ASSUME NEW k \in Nat
    PROVE  /\ Trailers(0) = Then(<<>>, <<>>) /\ Trailers(k) \in Texts
           /\ Trailers(k + 1) = Then(<<Cell("field", 0)>>, Trailers(k))
<1> DEFINE l == Line("field", 0)
           a == Repeat(k, l)
<1>1. <<>> \in Texts /\ EOL \in Texts
    BY EndOfLine DEF Texts
<1>0. "field" \in Kinds /\ 0 \in Int
    BY DEF Kinds
<1>2. l \in Texts
    BY <1>0, <1>1, LineThen
<1> HIDE DEF l
<1>3. Repeat(0, l) = <<>> /\ a \in Texts /\ Repeat(k + 1, l) = l \o a
    BY <1>2, RepeatIs
<1> HIDE DEF a
<1>4. (l \o a) \o EOL = l \o (a \o EOL) /\ a \o EOL \in Texts
    <2>1. l \in Seq(Cells) /\ a \in Seq(Cells) /\ EOL \in Seq(Cells)
        BY <1>1, <1>2, <1>3 DEF Texts
    <2>2. (l \o a) \o EOL = l \o (a \o EOL) /\ a \o EOL \in Seq(Cells)
        BY <2>1, Join
    <2> QED
        BY <2>2 DEF Texts
<1>5. <<>> \o EOL = EOL /\ EOL \o <<>> = EOL
    BY <1>1, Nothing DEF Texts
<1>6. Trailers(0) = Then(<<>>, <<>>)
    BY <1>1, <1>3, <1>5, ThenIs DEF Trailers, l
<1>7. Trailers(k) = a \o EOL /\ Trailers(k + 1) = (l \o a) \o EOL
    BY <1>3 DEF Trailers, l, a
<1>8. l \o (a \o EOL) = Then(<<Cell("field", 0)>>, a \o EOL)
    BY <1>0, <1>4, LineThen DEF l
<1> QED
    BY <1>4, <1>6, <1>7, <1>8

LEMMA DataIs == ASSUME NEW d \in Seq(DataCell) PROVE d \in Texts /\ \A i \in 1..Len(d) : d[i].k = "data"
<1>1. DataCell \subseteq Cells
    BY DEF DataCell, Cells, Kinds
<1>2. d \in Seq(Cells)
    BY <1>1
<1>3. \A i \in 1..Len(d) : d[i] \in DataCell
    OBVIOUS
<1> QED
    BY <1>2, <1>3 DEF Texts, DataCell

LEMMA ChunkIs ==
    ASSUME NEW d \in Seq(DataCell), NEW t \in Texts
    PROVE  Chunk(d) \in Texts /\ Chunk(d) \o t = Then(<<Cell("size", Len(d))>>, d \o Then(<<>>, t)) /\ d \o Then(<<>>, t) \in Texts
<1> DEFINE l == Line("size", Len(d))
<1>1. "size" \in Kinds /\ Len(d) \in Int /\ d \in Seq(Cells) /\ EOL \in Seq(Cells) /\ t \in Seq(Cells) /\ <<>> \in Texts
    BY DataIs, EndOfLine DEF Kinds, Texts
<1>2. d \o EOL \in Seq(Cells) /\ (d \o EOL) \o t = d \o (EOL \o t) /\ d \o (EOL \o t) \in Seq(Cells)
    BY <1>1, Join
<1>3. l \in Seq(Cells)
    BY <1>1, LineThen DEF Texts
<1>4. l \o (d \o (EOL \o t)) = Then(<<Cell("size", Len(d))>>, d \o (EOL \o t))
    BY <1>1, <1>2, LineThen DEF Texts
<1> DEFINE e == d \o EOL
<1> HIDE DEF l, e
<1>5. l \o e \in Seq(Cells) /\ (l \o e) \o t = l \o (e \o t)
    BY <1>1, <1>2, <1>3, SMTT(40) DEF e
<1>6. Then(<<>>, t) = EOL \o t
    BY <1>1, ThenIs
<1> QED
    BY <1>2, <1>4, <1>5, <1>6 DEF Chunk, Texts, l, e

LEMMA ChunksIs ==
    ASSUME NEW b \in Seq(Seq(DataCell)), NEW d \in Seq(DataCell), NEW n \in Nat
    PROVE  /\ Chunks(b, n) \in Texts /\ Chunks(<<>>, n) = Then(<<Cell("size", 0)>>, Trailers(n))
           /\ Chunks(<<d>> \o b, n) = Then(<<Cell("size", Len(d))>>, d \o Then(<<>>, Chunks(b, n)))
<1> DEFINE p == <<d>> \o b
           q == [i \in 1..Len(b) |-> Chunk(b[i])]
           r == [i \in 1..Len(p) |-> Chunk(p[i])]
           c == Chunk(d)
           z == Line("size", 0) \o Trailers(n)
<1>0. <<>> \in Texts /\ Len(b) \in Nat
    BY DEF Texts
<1>c. \A x \in Seq(DataCell) : Chunk(x) \in Texts
    BY <1>0, ChunkIs
<1>1. q \in Seq(Texts) /\ Len(q) = Len(b) /\ \A i \in 1..Len(b) : q[i] = Chunk(b[i])
    <2>1. \A i \in 1..Len(b) : b[i] \in Seq(DataCell)
        OBVIOUS
    <2>2. q \in [1..Len(b) -> Texts]
        BY <1>c, <2>1
    <2> QED
        <3>1. \A f \in [1..Len(b) -> Texts] : f \in Seq(Texts) /\ Len(f) = Len(b)
            BY <1>0, FunctionIsSeq, Zenon
        <3> QED
            BY <2>2, <3>1, Zenon
<1>2. /\ p \in Seq(Seq(DataCell)) /\ Len(p) = Len(b) + 1 /\ p[1] = d
      /\ \A i \in 1..Len(b) : p[1 + i] = b[i]
    OBVIOUS
<1> HIDE DEF p
<1>3. r \in Seq(Texts) /\ Len(r) = Len(b) + 1 /\ \A i \in 1..(Len(b) + 1) : r[i] = Chunk(p[i])
    <2>1. \A i \in 1..Len(p) : p[i] \in Seq(DataCell)
        BY <1>2
    <2>2. r \in [1..Len(p) -> Texts] /\ Len(p) \in Nat
        BY <1>0, <1>2, <1>c, <2>1
    <2>3. r \in Seq(Texts) /\ Len(r) = Len(p)
        <3>1. \A f \in [1..Len(p) -> Texts] : f \in Seq(Texts) /\ Len(f) = Len(p)
            BY <1>0, <2>2, FunctionIsSeq, Zenon
        <3> QED
            BY <2>2, <3>1, Zenon
    <2> QED
        BY <1>2, <2>3
<1> HIDE DEF q, r
<1>4. r = <<c>> \o q
    <2> DEFINE w == <<c>> \o q
    <2>1. <<c>> \in Seq(Texts) /\ Len(<<c>>) = 1 /\ <<c>>[1] = c
        BY <1>c
    <2>2. /\ w \in Seq(Texts) /\ Len(w) = Len(<<c>>) + Len(q)
          /\ \A i \in 1..Len(<<c>>) : w[i] = <<c>>[i]
          /\ \A i \in 1..Len(q) : w[Len(<<c>>) + i] = q[i]
        BY <1>1, <2>1, ConcatIs
    <2> HIDE DEF w
    <2>3. \A i \in 1..(Len(b) + 1) : w[i] = r[i]
        <3> TAKE i \in 1..(Len(b) + 1)
        <3>1. CASE i = 1
            BY <1>2, <1>3, <2>1, <2>2, <3>1
        <3>2. CASE i # 1
            <4> DEFINE j == i - 1
            <4>1. j \in 1..Len(b) /\ i = 1 + j
                BY <1>0, <3>2
            <4> HIDE DEF j
            <4> QED
                BY <1>1, <1>2, <1>3, <2>1, <2>2, <4>1
        <3> QED
            BY <3>1, <3>2
    <2>4. Len(w) = Len(b) + 1
        BY <1>0, <1>1, <2>1, <2>2
    <2>5. r = w
        BY <1>3, <2>2, <2>3, <2>4, SameSeq
    <2> QED
        BY <2>5 DEF w
<1> DEFINE f == FlattenSeq(q)
<1> HIDE DEF c
<1>5. FlattenSeq(<<c>> \o q) = c \o f /\ f \in Seq(Cells) /\ c \in Seq(Cells)
    <2>1. c \in Seq(Cells) /\ q \in Seq(Seq(Cells))
        BY <1>1, <1>c DEF Texts, c
    <2> QED
        BY <2>1, FlattenFirst
<1> HIDE DEF f
<1>6. z \in Texts /\ z = Then(<<Cell("size", 0)>>, Trailers(n))
    <2>1. Trailers(n) \in Texts /\ "size" \in Kinds /\ 0 \in Int
        BY TrailersIs DEF Kinds
    <2> QED
        BY <2>1, LineThen
<1> HIDE DEF z
<1>7. (c \o f) \o z = c \o (f \o z) /\ f \o z \in Texts
    <2>1. z \in Seq(Cells)
        BY <1>6 DEF Texts
    <2>2. (c \o f) \o z = c \o (f \o z) /\ f \o z \in Seq(Cells)
        BY SMTT(40), <1>5, <2>1, Join
    <2> QED
        BY <2>2 DEF Texts
<1>8. Chunks(b, n) = f \o z
    BY DEF Chunks, f, q, z
<1>9. Chunks(p, n) = (c \o f) \o z
    BY <1>4, <1>5 DEF Chunks, r, z
<1>10. c \o (f \o z) = Then(<<Cell("size", Len(d))>>, d \o Then(<<>>, f \o z))
    BY <1>7, ChunkIs DEF c
<1>11. Chunks(<<>>, n) = Then(<<Cell("size", 0)>>, Trailers(n))
    <2> DEFINE e == [i \in 1..Len(<<>>) |-> Chunk(<<>>[i])]
    <2>1. e = <<>>
        OBVIOUS
    <2>2. FlattenSeq(<<>>) = <<>>
        BY DEF FlattenSeq
    <2>3. <<>> \o z = z
        BY <1>6, Nothing DEF Texts
    <2>4. Chunks(<<>>, n) = FlattenSeq(e) \o z
        BY DEF Chunks, z
    <2> HIDE DEF e
    <2> QED
        BY <1>6, <2>1, <2>2, <2>3, <2>4
<1> QED
    BY <1>7, <1>8, <1>9, <1>10, <1>11 DEF p

LEMMA ResponseIs ==
    ASSUME NEW r \in Responses
    PROVE  /\ r.interim \in Nat /\ r.trailers \in Nat /\ r.status \in Nat /\ r.status \notin 100..199
           /\ r.framing \in {"length", "chunked", "close", "empty"} /\ r.parts \in Seq(Seq(DataCell))
           /\ Body(r) \in Seq(DataCell) /\ Len(Body(r)) \in Nat /\ Len(Body(r)) < SizeMax
           /\ \A i \in 1..Len(r.parts) : Len(r.parts[i]) \in 1..(SizeMax - 1)
           /\ r.framing = "empty" => r.status \in {204, 304}
<1>0. r \in [interim : Nat, status : Nat \ (100..199), framing : {"length", "chunked", "close", "empty"},
              parts : Seq(Seq(DataCell)), trailers : Nat]
    BY ResponsesAssumption DEF ResponsesAssumption
<1>a. /\ r.interim \in Nat /\ r.trailers \in Nat /\ r.status \in Nat /\ r.status \notin 100..199
      /\ r.framing \in {"length", "chunked", "close", "empty"} /\ r.parts \in Seq(Seq(DataCell))
    BY <1>0
<1>b. /\ Len(Body(r)) < SizeMax
      /\ \A i \in 1..Len(r.parts) : Len(r.parts[i]) \in 1..(SizeMax - 1)
      /\ r.framing = "empty" => r.status \in {204, 304}
    BY ResponsesAssumption, Zenon DEF ResponsesAssumption
<1>1. /\ r.interim \in Nat /\ r.trailers \in Nat /\ r.status \in Nat /\ r.status \notin 100..199
      /\ r.framing \in {"length", "chunked", "close", "empty"} /\ r.parts \in Seq(Seq(DataCell))
      /\ Len(Body(r)) < SizeMax
      /\ \A i \in 1..Len(r.parts) : Len(r.parts[i]) \in 1..(SizeMax - 1)
      /\ r.framing = "empty" => r.status \in {204, 304}
    BY <1>a, <1>b
<1>2. Body(r) \in Seq(DataCell)
    <2>1. <<>> \in Seq(DataCell)
        OBVIOUS
    <2>2. FlattenSeq(r.parts) \in Seq(DataCell)
        BY ZenonT(60), <1>1, <2>1, FlattenFirst
    <2> QED
        BY <2>2 DEF Body
<1> QED
    BY <1>1, <1>2

\* The header lines of a response, and what follows the empty line.
Payload(r) == IF r.framing \in {"length", "close"} THEN Body(r)
              ELSE IF r.framing = "chunked" THEN Chunks(r.parts, r.trailers) ELSE <<>>
FirstField(r) == CASE r.framing = "length" -> Cell("length", Len(Body(r)))
                   [] r.framing = "chunked" -> Cell("length", 7)
                   [] r.framing = "close" -> Cell("coding", 0)
                   [] r.framing = "empty" -> Cell("length", 2)
LastFields(r) == IF r.framing = "chunked" THEN Then(<<Cell("chunked", 0)>>, Then(<<>>, Payload(r)))
                 ELSE Then(<<>>, Payload(r))
Interims(n, r) == Repeat(n, Interim) \o (Line("status", r.status) \o Framed(r))

LEMMA FramedIs ==
    ASSUME NEW r \in Responses
    PROVE  /\ Framed(r) = Then(<<FirstField(r)>>, LastFields(r)) /\ Framed(r) \in Texts
           /\ FirstField(r) \in Cells /\ FirstField(r).k \in {"length", "coding"}
           /\ Payload(r) \in Texts /\ LastFields(r) \in Texts
<1>0. /\ r.framing \in {"length", "chunked", "close", "empty"}
      /\ Body(r) \in Texts /\ Len(Body(r)) \in Int /\ Chunks(r.parts, r.trailers) \in Texts /\ <<>> \in Texts
      /\ {"length", "chunked", "coding"} \subseteq Kinds /\ {0, 2, 7} \subseteq Int
    <2>1. Body(r) \in Texts /\ Len(Body(r)) \in Int /\ r.framing \in {"length", "chunked", "close", "empty"}
        BY ResponseIs, DataIs
    <2>2. r.parts \in Seq(Seq(DataCell)) /\ r.trailers \in Nat /\ <<>> \in Seq(DataCell)
        BY ResponseIs
    <2>3. Chunks(r.parts, r.trailers) \in Texts
        BY <2>2, ChunksIs
    <2> QED
        BY <2>1, <2>3 DEF Kinds, Texts
<1>1. Payload(r) \in Texts
    BY <1>0 DEF Payload
<1> DEFINE p == Payload(r)
           e == Then(<<>>, p)
<1>2. e \in Texts /\ e = EOL \o p
    BY <1>0, <1>1, ThenIs
<1>3. FirstField(r) \in Cells /\ FirstField(r).k \in {"length", "coding"}
    BY <1>0 DEF FirstField, Cell, Cells
<1> HIDE DEF p, e
<1>4. CASE r.framing = "chunked"
    <2>1. /\ Line("chunked", 0) \o e = Then(<<Cell("chunked", 0)>>, e) /\ Then(<<Cell("chunked", 0)>>, e) \in Texts
        BY <1>0, <1>2, LineThen
    <2>2. LastFields(r) = Then(<<Cell("chunked", 0)>>, e) /\ FirstField(r) = Cell("length", 7)
        BY <1>4 DEF LastFields, FirstField, p, e
    <2>3. /\ Line("length", 7) \o LastFields(r) = Then(<<Cell("length", 7)>>, LastFields(r))
          /\ Then(<<Cell("length", 7)>>, LastFields(r)) \in Texts
        <3>1. "length" \in Kinds /\ 7 \in Int /\ LastFields(r) \in Texts
            BY <1>0, <2>1, <2>2
        <3> QED
            BY <3>1, LineThen
    <2>4. p = Chunks(r.parts, r.trailers)
        BY <1>4 DEF p, Payload
    <2>5. Framed(r) = Line("length", 7) \o (Line("chunked", 0) \o (EOL \o p))
        BY <1>4, <2>4 DEF Framed
    <2> QED
        BY <1>1, <1>2, <1>3, <2>1, <2>2, <2>3, <2>5
<1>5. CASE r.framing # "chunked"
    <2>1. LastFields(r) = e
        BY <1>5 DEF LastFields, p, e
    <2>2. \A kind \in {"length", "coding"}, n \in Int :
              /\ Line(kind, n) \o e = Then(<<Cell(kind, n)>>, e) /\ Then(<<Cell(kind, n)>>, e) \in Texts
        <3> SUFFICES ASSUME NEW kind \in {"length", "coding"}, NEW n \in Int
                     PROVE  /\ Line(kind, n) \o e = Then(<<Cell(kind, n)>>, e) /\ Then(<<Cell(kind, n)>>, e) \in Texts
            OBVIOUS
        <3>1. kind \in Kinds
            BY <1>0
        <3> QED
            BY <1>2, <3>1, LineThen
    <2>3. CASE r.framing = "length"
        <3>1. p = Body(r) /\ FirstField(r) = Cell("length", Len(Body(r)))
            BY <2>3 DEF p, Payload, FirstField
        <3>2. Framed(r) = Line("length", Len(Body(r))) \o e
            BY <1>2, <2>3, <3>1 DEF Framed
        <3> QED
            BY <1>0, <1>1, <1>2, <1>3, <2>1, <2>2, <3>1, <3>2
    <2>4. CASE r.framing = "close"
        <3>1. p = Body(r) /\ FirstField(r) = Cell("coding", 0)
            BY <2>4 DEF p, Payload, FirstField
        <3>2. Framed(r) = Line("coding", 0) \o e
            BY <1>2, <2>4, <3>1 DEF Framed
        <3> QED
            BY <1>0, <1>1, <1>2, <1>3, <2>1, <2>2, <3>1, <3>2
    <2>5. CASE r.framing = "empty"
        <3>1. p = <<>> /\ FirstField(r) = Cell("length", 2)
            BY <2>5 DEF p, Payload, FirstField
        <3>2. EOL \o <<>> = EOL
            BY EndOfLine, Nothing DEF Texts
        <3>3. Framed(r) = Line("length", 2) \o e
            BY <1>2, <2>5, <3>1, <3>2 DEF Framed
        <3> QED
            BY <1>0, <1>1, <1>2, <1>3, <2>1, <2>2, <3>1, <3>3
    <2> QED
        BY <1>0, <1>5, <2>3, <2>4, <2>5
<1> QED
    BY <1>4, <1>5

LEMMA InterimsIs ==
    ASSUME NEW r \in Responses, NEW n \in Nat
    PROVE  /\ Interims(n, r) \in Texts /\ Interims(0, r) = Then(<<Cell("status", r.status)>>, Framed(r))
           /\ Interims(n + 1, r) = Then(<<Cell("status", 100)>>,
                                       Then(<<Cell("field", 0)>>, Then(<<>>, Interims(n, r))))
<1> DEFINE a == Line("status", 100)
           b == Line("field", 0)
           z == Line("status", r.status) \o Framed(r)
           s == Repeat(n, Interim)
<1>0. /\ "status" \in Kinds /\ "field" \in Kinds /\ r.status \in Int /\ 0 \in Int /\ 100 \in Int
      /\ Framed(r) \in Texts /\ EOL \in Seq(Cells) /\ <<>> \in Texts
    <2>1. "status" \in Kinds /\ "field" \in Kinds /\ 0 \in Int /\ 100 \in Int /\ <<>> \in Texts
        BY DEF Kinds, Texts
    <2>2. r.status \in Int
        BY ResponseIs
    <2> QED
        BY <2>1, <2>2, FramedIs, EndOfLine DEF Texts
<1>1. z = Then(<<Cell("status", r.status)>>, Framed(r)) /\ z \in Texts
    <2>1. "status" \in Kinds /\ r.status \in Int /\ Framed(r) \in Texts
        BY <1>0
    <2> QED
        BY <2>1, LineThen
<1>2. a \in Seq(Cells) /\ b \in Seq(Cells)
    <2>1. a \in Texts
        BY <1>0, LineThen
    <2>2. b \in Texts
        BY <1>0, LineThen
    <2> QED
        BY <2>1, <2>2 DEF Texts
<1> HIDE DEF a, b, z
<1>3. Interim = a \o (b \o EOL)
    BY DEF Interim, a, b
<1>4. Interim \in Texts /\ b \o EOL \in Seq(Cells)
    <2>1. b \o EOL \in Seq(Cells)
        BY <1>0, <1>2, ConcatIs
    <2>2. a \o (b \o EOL) \in Seq(Cells)
        BY <1>2, <2>1, ConcatIs
    <2> QED
        BY <1>3, <2>1, <2>2 DEF Texts
<1>5. Repeat(0, Interim) = <<>> /\ s \in Texts /\ Repeat(n + 1, Interim) = Interim \o s
    BY <1>4, RepeatIs
<1> HIDE DEF s
<1> DEFINE t == s \o z
<1>6. t \in Texts /\ (Interim \o s) \o z = Interim \o t
    <2>1. Interim \in Seq(Cells) /\ s \in Seq(Cells) /\ z \in Seq(Cells)
        BY <1>1, <1>4, <1>5 DEF Texts
    <2>2. (Interim \o s) \o z = Interim \o (s \o z) /\ s \o z \in Seq(Cells)
        BY <2>1, Join
    <2> QED
        BY <2>2 DEF Texts
<1> HIDE DEF t
<1>7. Interim \o t = a \o (b \o (EOL \o t))
    <2> DEFINE c == b \o EOL
    <2>0. t \in Seq(Cells) /\ c \in Seq(Cells)
        BY <1>4, <1>6 DEF Texts
    <2>1. (b \o EOL) \o t = b \o (EOL \o t)
        <3>1. b \in Seq(Cells) /\ EOL \in Seq(Cells) /\ t \in Seq(Cells)
            BY <1>0, <1>2, <2>0
        <3> QED
            BY <3>1, Join
    <2> HIDE DEF c
    <2>2. (a \o c) \o t = a \o (c \o t)
        BY SMTT(40), <1>2, <2>0, Join
    <2> QED
        BY <1>3, <2>1, <2>2 DEF c
<1>8. a \o (b \o (EOL \o t)) = Then(<<Cell("status", 100)>>, Then(<<Cell("field", 0)>>, Then(<<>>, t)))
    <2>1. Then(<<>>, t) = EOL \o t /\ EOL \o t \in Texts
        BY <1>0, <1>6, ThenIs
    <2>2. /\ b \o (EOL \o t) = Then(<<Cell("field", 0)>>, EOL \o t) /\ Then(<<Cell("field", 0)>>, EOL \o t) \in Texts
        BY <1>0, <2>1, LineThen DEF b
    <2>3. a \o (b \o (EOL \o t)) = Then(<<Cell("status", 100)>>, b \o (EOL \o t))
        <3> DEFINE u == b \o (EOL \o t)
        <3>1. "status" \in Kinds /\ 100 \in Int /\ u \in Texts
            BY <1>0, <2>2
        <3> HIDE DEF u
        <3> QED
            BY <3>1, LineThen DEF a, u
    <2> QED
        BY <2>1, <2>2, <2>3
<1>9. <<>> \o z = z
    BY <1>1, Nothing DEF Texts
<1>10. Interims(n, r) = t /\ Interims(0, r) = z /\ Interims(n + 1, r) = (Interim \o s) \o z
    BY <1>5, <1>9 DEF Interims, s, t, z
<1> QED
    BY <1>1, <1>6, <1>7, <1>8, <1>10

---------------------------------------------------------------------------
(* What is still to be read *)

WireOK == reply \in Texts /\ received \in 0..Len(reply) /\ buffer \in Texts
Coming == SubSeq(reply, received + 1, Len(reply))
Rest == buffer \o Coming

LEMMA RestIs == ASSUME WireOK PROVE Coming \in Texts /\ Rest \in Texts /\ Len(reply) \in Nat /\ Len(Coming) = Len(reply) - received
<1>1. reply \in Seq(Cells) /\ buffer \in Seq(Cells) /\ received \in Nat /\ received <= Len(reply) /\ Len(reply) \in Nat
    BY DEF WireOK, Texts
<1>2. Coming \in Seq(Cells) /\ Len(Coming) = Len(reply) - received
    BY <1>1, CutIs DEF Coming
<1>3. Rest \in Seq(Cells)
    <2> HIDE DEF Coming
    <2> QED
        BY <1>1, <1>2, ConcatIs DEF Rest
<1> QED
    BY <1>1, <1>2, <1>3 DEF Texts

\* A character is taken out of the buffer.
LEMMA Consumed ==
    ASSUME WireOK, buffer # <<>>, buffer' = Tail(buffer), UNCHANGED wire
    PROVE  WireOK' /\ Rest = <<Head(buffer)>> \o Rest' /\ Head(buffer) \in Cells /\ Rest' \in Texts
<1>1. buffer \in Seq(Cells) /\ Coming \in Seq(Cells) /\ Coming' = Coming
    BY RestIs DEF WireOK, Texts, wire, Coming
<1>2. Head(buffer) \in Cells /\ Tail(buffer) \in Seq(Cells) /\ buffer = <<Head(buffer)>> \o Tail(buffer)
    BY <1>1, FirstAndRest
<1>3. WireOK'
    BY <1>2 DEF WireOK, wire, Texts
<1> DEFINE h == <<Head(buffer)>>
           t == Tail(buffer)
<1>4. h \in Seq(Cells) /\ t \in Seq(Cells) /\ buffer = h \o t
    BY <1>2
<1> HIDE DEF h, t
<1>5. (h \o t) \o Coming = h \o (t \o Coming) /\ t \o Coming \in Seq(Cells)
    <2>1. h \in Seq(Cells) /\ t \in Seq(Cells) /\ Coming \in Seq(Cells)
        BY <1>1, <1>4
    <2> HIDE DEF Coming
    <2> QED
        BY SMTT(40), <2>1, Join
<1>6. Rest' = t \o Coming
    BY <1>1 DEF Rest, t
<1> QED
    BY <1>2, <1>3, <1>4, <1>5, <1>6 DEF Rest, h, Texts

\* Some of what is coming is put into it.
LEMMA Received ==
    ASSUME WireOK, buffer = <<>>, reply' = reply, NEW n \in 1..(Len(reply) - received),
           buffer' = SubSeq(reply, received + 1, received + n), received' = received + n
    PROVE  WireOK' /\ Rest' = Rest
<1> DEFINE s == Coming
           a == SubSeq(s, 1, n)
           b == SubSeq(s, n + 1, Len(s))
<1>0. reply \in Seq(Cells) /\ received \in Nat /\ Len(reply) \in Nat /\ n \in Nat
    BY RestIs DEF WireOK, Texts
<1>1. s \in Seq(Cells) /\ Len(s) = Len(reply) - received /\ n <= Len(s) /\ \A i \in 1..(Len(reply) - received) : s[i] = reply[received + i]
    <2>1. received <= Len(reply)
        BY DEF WireOK
    <2>2. /\ s \in Seq(Cells) /\ Len(s) = Len(reply) - received
          /\ \A i \in 1..(Len(reply) - received) : s[i] = reply[received + i]
        BY <1>0, <2>1, CutIs DEF Coming
    <2> QED
        BY <2>2
<1> HIDE DEF s
<1>2. a \in Seq(Cells) /\ Len(a) = n /\ (\A i \in 1..n : a[i] = s[i])
      /\ b \in Seq(Cells) /\ Len(b) = Len(s) - n /\ \A i \in 1..(Len(s) - n) : b[i] = s[n + i]
    <2>1. s \in Seq(Cells) /\ n \in Nat /\ n <= Len(s)
        BY <1>0, <1>1, Zenon
    <2> QED
        BY <2>1, CutIs
<1> HIDE DEF a, b
<1>3. received' \in 0..Len(reply)
    BY <1>0
<1>4. buffer' = a
    <2>1. buffer' = [i \in 1..n |-> reply[received + i]]
        BY <1>0
    <2>2. \A i \in 1..n : reply[received + i] \in Cells
        BY <1>0
    <2>3. buffer' \in [1..n -> Cells]
        BY <2>1, <2>2
    <2>4. buffer' \in Seq(Cells) /\ Len(buffer') = n
        BY <1>0, <2>3, FunctionIsSeq
    <2>5. \A i \in 1..n : buffer'[i] = a[i]
        <3> TAKE i \in 1..n
        <3>1. i \in 1..(Len(reply) - received)
            BY <1>0
        <3>2. buffer'[i] = reply[received + i]
            BY <2>1
        <3> QED
            BY <1>1, <1>2, <3>1, <3>2
    <2> QED
        BY <1>2, <2>4, <2>5, SameSeq
<1>5. Coming' = b
    <2> DEFINE c == SubSeq(reply, received + n + 1, Len(reply))
    <2>1. received + n \in Nat /\ received + n <= Len(reply)
        BY <1>0
    <2>2. /\ c \in Seq(Cells) /\ Len(c) = Len(reply) - (received + n)
          /\ \A i \in 1..(Len(reply) - (received + n)) : c[i] = reply[(received + n) + i]
        BY <1>0, <2>1, CutIs
    <2>3. Coming' = c
        BY DEF Coming
    <2> HIDE DEF c
    <2>4. Len(c) = Len(b) /\ \A i \in 1..Len(b) : c[i] = b[i]
        BY <1>0, <1>1, <1>2, <2>2
    <2> QED
        BY <1>2, <2>2, <2>3, <2>4, SameSeq
<1>6. WireOK'
    BY <1>0, <1>2, <1>3, <1>4 DEF WireOK, Texts
<1>7. a \o b = s
    <2> DEFINE w == a \o b
    <2>1. /\ w \in Seq(Cells) /\ Len(w) = Len(a) + Len(b)
          /\ (\A i \in 1..Len(a) : w[i] = a[i]) /\ \A i \in 1..Len(b) : w[Len(a) + i] = b[i]
        <3>1. a \in Seq(Cells) /\ b \in Seq(Cells)
            BY <1>2
        <3> QED
            BY <3>1, ConcatIs
    <2> HIDE DEF w
    <2>2. Len(w) = Len(s) /\ Len(s) \in Nat
        BY <1>0, <1>1, <1>2, <2>1
    <2>3. \A i \in 1..Len(s) : w[i] = s[i]
        <3> TAKE i \in 1..Len(s)
        <3>1. CASE i <= n
            BY <1>0, <1>2, <2>1, <3>1
        <3>2. CASE ~(i <= n)
            <4> DEFINE j == i - n
            <4>1. j \in 1..(Len(s) - n) /\ i = n + j
                BY <1>0, <2>2, <3>2
            <4> HIDE DEF j
            <4> QED
                BY <1>2, <2>1, <4>1
        <3> QED
            BY <3>1, <3>2
    <2> QED
        BY <1>1, <2>1, <2>2, <2>3, SameSeq DEF w
<1>8. Rest = s
    BY <1>1, Nothing DEF Rest, s
<1> QED
    BY <1>4, <1>5, <1>6, <1>7, <1>8 DEF Rest

---------------------------------------------------------------------------
(* Lines *)

CR == Cell("cr", 0)
LF == Cell("lf", 0)

\* The line that is read will be l, and t comes after it.
Ahead(l, t) ==
    \/ line = <<>> /\ Rest = Then(l, t)
    \/ line = l /\ Rest = EOL \o t
    \/ line = l /\ Rest = <<LF>> \o t

\* Lines as the server writes them: one part the client looks at, or nothing.
IsLine(l) == l = <<>> \/ \E c \in Cells : l = <<c>> /\ c.k \notin {"cr", "lf"}

LEMMA BreakIs ==
    ASSUME NEW t \in Texts
    PROVE  /\ EOL \o t = <<CR>> \o (<<LF>> \o t) /\ <<LF>> \o t \in Texts /\ EOL \o t \in Texts
           /\ CR \in Cells /\ LF \in Cells /\ CR.k = "cr" /\ LF.k = "lf"
<1>1. CR \in Cells /\ LF \in Cells /\ EOL = <<CR>> \o <<LF>> /\ CR.k = "cr" /\ LF.k = "lf"
    BY EndOfLine DEF CR, LF, Cell
<1>2. <<CR>> \in Seq(Cells) /\ <<LF>> \in Seq(Cells) /\ t \in Seq(Cells)
    BY <1>1 DEF Texts
<1>3. (<<CR>> \o <<LF>>) \o t = <<CR>> \o (<<LF>> \o t) /\ <<LF>> \o t \in Seq(Cells) /\ <<CR>> \o (<<LF>> \o t) \in Seq(Cells)
    BY <1>2, Join
<1> QED
    BY <1>1, <1>3 DEF Texts

LEMMA SameFirst ==
    ASSUME NEW c \in Cells, NEW d \in Cells, NEW s \in Texts, NEW t \in Texts, <<c>> \o s = <<d>> \o t
    PROVE  c = d /\ s = t
<1>1. s \in Seq(Cells) /\ t \in Seq(Cells)
    BY DEF Texts
<1>2. Head(<<c>> \o s) = c /\ Tail(<<c>> \o s) = s
    BY <1>1, FirstIs
<1>3. Head(<<d>> \o t) = d /\ Tail(<<d>> \o t) = t
    BY <1>1, FirstIs
<1> QED
    BY <1>2, <1>3

\* The first character of what is ahead, and what is ahead behind it.
Starts(c, u) == Rest = <<c>> \o u

LEMMA NextIs ==
    ASSUME NEW l, IsLine(l), NEW t \in Texts, Ahead(l, t), NEW c \in Cells, NEW u \in Texts, Starts(c, u)
    PROVE  \/ line = <<>> /\ l = <<c>> /\ c.k \notin {"cr", "lf"} /\ u = EOL \o t
           \/ line = l /\ c.k = "cr" /\ u = <<LF>> \o t
           \/ line = l /\ c.k = "lf" /\ u = t
<1>0. /\ EOL \o t = <<CR>> \o (<<LF>> \o t) /\ <<LF>> \o t \in Texts /\ EOL \o t \in Texts
      /\ CR \in Cells /\ LF \in Cells /\ CR.k = "cr" /\ LF.k = "lf"
    BY BreakIs
<1>v. PICK v : v = <<LF>> \o t
    OBVIOUS
<1>1. ASSUME Rest = EOL \o t PROVE c = CR /\ u = v
    <2>1. <<c>> \o u = <<CR>> \o v /\ v \in Texts /\ CR \in Cells
        BY <1>0, <1>1, <1>v DEF Starts
    <2> QED
        BY <2>1, SameFirst
<1>2. ASSUME Rest = <<LF>> \o t PROVE c = LF /\ u = t
    <2>1. <<c>> \o u = <<LF>> \o t /\ LF \in Cells
        BY <1>0, <1>2 DEF Starts
    <2> QED
        BY <2>1, SameFirst
<1>3. CASE line = <<>> /\ Rest = Then(l, t)
    <2>1. CASE l = <<>>
        <3>1. <<>> \in Texts
            BY DEF Texts
        <3>2. Rest = EOL \o t
            BY <1>3, <2>1, <3>1, ThenIs
        <3> QED
            BY <1>0, <1>1, <1>3, <2>1, <3>2, <1>v
    <2>2. CASE l # <<>>
        <3>1. PICK d \in Cells : l = <<d>> /\ d.k \notin {"cr", "lf"}
            BY <2>2 DEF IsLine
        <3>2. <<c>> \o u = <<d>> \o (EOL \o t)
            BY <1>3, <3>1 DEF Then, Starts
        <3>3. c = d /\ u = EOL \o t
            <4>0. PICK w : w = EOL \o t
                OBVIOUS
            <4>1. w \in Texts /\ <<c>> \o u = <<d>> \o w
                BY <1>0, <3>2, <4>0
            <4>2. c = d /\ u = w
                BY <4>1, SameFirst
            <4> QED
                BY <4>0, <4>2
        <3> QED
            BY <1>3, <3>1, <3>3
    <2> QED
        BY <2>1, <2>2
<1>4. CASE line = l /\ Rest = EOL \o t
    BY <1>0, <1>1, <1>4, <1>v
<1>5. CASE line = l /\ Rest = <<LF>> \o t
    BY <1>0, <1>2, <1>5
<1> QED
    BY <1>3, <1>4, <1>5 DEF Ahead

LEMMA CharStep ==
    ASSUME WireOK, NEW l, IsLine(l), NEW t \in Texts, Ahead(l, t), ReadChar, pc' = pc
    PROVE  Ahead(l, t)' /\ WireOK'
<1> DEFINE c == Head(buffer)
<1>1. buffer # <<>> /\ c.k # "lf" /\ buffer' = Tail(buffer) /\ UNCHANGED wire
    BY DEF ReadChar
<1>2. WireOK' /\ Rest = <<c>> \o Rest' /\ c \in Cells /\ Rest' \in Texts
    BY <1>1, Consumed
<1>3. IF c.k = "cr" THEN line' = line ELSE line' = Append(line, c)
    <2>1. pc # "close"
        BY DEF ReadChar, LineStates
    <2> QED
        BY <2>1 DEF ReadChar, Fail
<1> HIDE DEF c
<1>4. \/ line = <<>> /\ l = <<c>> /\ c.k \notin {"cr", "lf"} /\ Rest' = EOL \o t
      \/ line = l /\ c.k = "cr" /\ Rest' = <<LF>> \o t
    <2>1. c \in Cells /\ Rest' \in Texts /\ Starts(c, Rest')
        BY <1>2 DEF Starts
    <2> QED
        BY <1>1, <2>1, NextIs DEF c
<1>5. CASE line = <<>> /\ l = <<c>> /\ c.k \notin {"cr", "lf"} /\ Rest' = EOL \o t
    <2>1. line' = <<c>>
        BY <1>3, <1>5
    <2> QED
        BY <1>2, <1>5, <2>1 DEF Ahead
<1>6. CASE line = l /\ c.k = "cr" /\ Rest' = <<LF>> \o t
    BY <1>2, <1>3, <1>6 DEF Ahead
<1> QED
    BY <1>4, <1>5, <1>6

\* At the end of the line it is what was ahead.
LEMMA LineStep ==
    ASSUME WireOK, NEW l, IsLine(l), NEW t \in Texts, Ahead(l, t), NEW S, EndLine(S)
    PROVE  line = l /\ line' = <<>> /\ Rest' = t /\ WireOK'
<1>1. buffer # <<>> /\ Head(buffer).k = "lf" /\ buffer' = Tail(buffer) /\ UNCHANGED wire /\ line' = <<>>
    BY DEF EndLine
<1> DEFINE c == Head(buffer)
<1>2. WireOK' /\ Rest = <<c>> \o Rest' /\ c \in Cells /\ Rest' \in Texts
    BY <1>1, Consumed
<1> HIDE DEF c
<1>3. line = l /\ Rest' = t
    <2>1. c \in Cells /\ Rest' \in Texts /\ Starts(c, Rest')
        BY <1>2 DEF Starts
    <2> QED
        BY <1>1, <2>1, NextIs DEF c
<1> QED
    BY <1>1, <1>2, <1>3

LEMMA SomethingAhead ==
    ASSUME WireOK, NEW l, IsLine(l), NEW t \in Texts, Ahead(l, t)
    PROVE  Rest # <<>>
<1>0. /\ EOL \o t = <<CR>> \o (<<LF>> \o t) /\ <<LF>> \o t \in Seq(Cells) /\ EOL \o t \in Seq(Cells)
      /\ CR \in Cells /\ LF \in Cells /\ t \in Seq(Cells)
    BY BreakIs DEF Texts
<1>1. EOL \o t # <<>>
    BY <1>0, FirstIs
<1>2. <<LF>> \o t # <<>>
    BY <1>0, FirstIs
<1>3. Then(l, t) # <<>>
    <2>1. CASE l = <<>>
        BY <1>1, <2>1, ThenIs DEF Texts
    <2>2. CASE l # <<>>
        <3>1. PICK d \in Cells : l = <<d>>
            BY <2>2 DEF IsLine
        <3> QED
            BY <1>0, <3>1, FirstIs DEF Then
    <2> QED
        BY <2>1, <2>2
<1> QED
    BY <1>1, <1>2, <1>3 DEF Ahead

---------------------------------------------------------------------------
(* Where the client is in a response *)

Waiting == {"connect", "poll", "tls", "sendHead", "write"}
Over == {"close", "done"}

Fields(r) == IF r.framing = "chunked" THEN <<<<FirstField(r)>>, <<Cell("chunked", 0)>>>> ELSE <<<<FirstField(r)>>>>
IsParts(b) == b \in Seq(Seq(DataCell)) /\ \A i \in 1..Len(b) : Len(b[i]) \in 1..(SizeMax - 1)

\* Nothing is read yet.
Begin(r) == response.body = <<>> /\ line = <<>> /\ Rest = Encode(r)

\* In the status line of the response, or of an interim one, with others to come.
InStatus(r) ==
    /\ response.body = <<>>
    /\ \/ Ahead(<<Cell("status", r.status)>>, Framed(r))
       \/ \E n \in Nat : Ahead(<<Cell("status", 100)>>, Then(<<Cell("field", 0)>>, Then(<<>>, Interims(n, r))))

\* In a header line, or the empty line after the last one.
InInterim(r) ==
    /\ response.status = 100
    /\ \E n \in Nat : Ahead(<<Cell("field", 0)>>, Then(<<>>, Interims(n, r))) \/ Ahead(<<>>, Interims(n, r))
InFields(r) ==
    /\ response.status = r.status
    /\ \/ headers = <<>> /\ Ahead(<<FirstField(r)>>, LastFields(r))
       \/ /\ headers = <<<<FirstField(r)>>>> /\ r.framing = "chunked"
          /\ Ahead(<<Cell("chunked", 0)>>, Then(<<>>, Payload(r)))
       \/ headers = Fields(r) /\ Ahead(<<>>, Payload(r))
InHeader(r) == response.body = <<>> /\ (InInterim(r) \/ InFields(r))

\* What is still missing of the body.
Missing(r, d) == /\ response.status = r.status /\ HasBody(r)
                 /\ response.body \in Seq(DataCell) /\ d \in Seq(DataCell) /\ response.body \o d = Body(r)

\* In a body that has a length, or ends with the connection.
InBody(r) ==
    \E d \in Seq(DataCell) :
        /\ Missing(r, d) /\ Rest = d
        /\ \/ r.framing = "length" /\ left = Len(d) /\ d # <<>>
           \/ r.framing = "close" /\ left = SizeMax

\* In the line before a chunk, a chunk, the line after it, and the trailers.
InSize(r) ==
    \/ Missing(r, <<>>) /\ Ahead(<<Cell("size", 0)>>, Trailers(r.trailers))
    \/ \E b \in Seq(Seq(DataCell)), d \in Seq(DataCell) :
           /\ IsParts(b) /\ Len(d) \in 1..(SizeMax - 1) /\ Missing(r, d \o FlattenSeq(b))
           /\ Ahead(<<Cell("size", Len(d))>>, d \o Then(<<>>, Chunks(b, r.trailers)))
InChunk(r) ==
    \E b \in Seq(Seq(DataCell)), d \in Seq(DataCell) :
        /\ IsParts(b) /\ Len(d) \in 1..(SizeMax - 1) /\ Missing(r, d \o FlattenSeq(b))
        /\ line = <<>> /\ Rest = d \o Then(<<>>, Chunks(b, r.trailers)) /\ left = Len(d)
InChunkEnd(r) ==
    \E b \in Seq(Seq(DataCell)) :
        IsParts(b) /\ Missing(r, FlattenSeq(b)) /\ Ahead(<<>>, Chunks(b, r.trailers))
InTrailer(r) ==
    /\ Missing(r, <<>>)
    /\ Ahead(<<>>, <<>>) \/ \E n \in Nat : Ahead(<<Cell("field", 0)>>, Trailers(n))
InChunks(r) ==
    /\ r.framing = "chunked"
    /\ pc = "size" => InSize(r)
    /\ pc = "chunk" => InChunk(r)
    /\ pc = "chunkEnd" => InChunkEnd(r)
    /\ pc = "trailer" => InTrailer(r)

\* The end: what there is of the body, and all of it unless the request failed.
AtEnd(r) ==
    /\ HasBody(r) => IsPrefix(response.body, Body(r))
    /\ response.error = "none" =>
           /\ response.status = r.status
           /\ HasBody(r) /\ r.framing # "close" => response.body = Body(r)
           /\ ~HasBody(r) => response.body = <<>>

Stage(r) ==
    /\ pc \in Waiting => Begin(r)
    /\ pc = "status" => InStatus(r)
    /\ pc = "header" => InHeader(r)
    /\ pc = "body" => InBody(r)
    /\ pc \in {"size", "chunk", "chunkEnd", "trailer"} => InChunks(r)
    /\ pc \in Over => AtEnd(r)

\* All of the request is sent before a response is read; errors end it.
IsResponse(x) == x = [status |-> x.status, body |-> x.body, error |-> x.error]
RequestOK ==
    /\ request \in Requests /\ pc \in Waiting \cup Reading \cup Over
    /\ IsResponse(response)
    /\ pc \notin Over => response.error = "none"
    /\ pc \in Waiting \ {"write"} => sent = 0
    /\ pc = "write" => {sending, remaining, sent} \subseteq Nat /\ sent + sending + remaining = Upload
    /\ pc \in Reading \/ (pc \in Over /\ response.error = "none") => sent = Upload

Follows(r) == WireOK /\ RequestOK /\ Stage(r)
Understood == \A r \in Sent : Follows(r)

---------------------------------------------------------------------------
(* The request *)

LEMMA UploadIs ==
    ASSUME request \in Requests
    PROVE  /\ Upload \in Nat /\ request.head \in Nat /\ request.size \in Nat
           /\ Upload = request.head + IF request.source = "none" THEN 0 ELSE request.size
BY SizesAssumption DEF SizesAssumption, Upload

LEMMA FailIs ==
    ASSUME IsResponse(response), NEW e, Fail(e)
    PROVE  /\ pc' = "close" /\ IsResponse(response)' /\ response'.error = e
           /\ response'.body = response.body /\ response'.status = response.status
BY DEF IsResponse, Fail

LEMMA RequestBegins == Init => RequestOK
BY DEF Init, RequestOK, Waiting, Reading, Over, LineStates, IsResponse

\* Steps that fail, or go on in the response.
LEMMA RequestGoes ==
    ASSUME RequestOK, UNCHANGED <<request, sent>>, pc \in Reading,
           \/ pc' \in Reading /\ IsResponse(response)' /\ response'.error = response.error
           \/ pc' = "close" /\ IsResponse(response)'
    PROVE  RequestOK'
BY DEF RequestOK, Waiting, Reading, Over, LineStates, Upload

LEMMA ConnectIsCounted == ASSUME RequestOK, Connect PROVE RequestOK'
<1> USE DEF RequestOK, Waiting, Reading, Over, LineStates, Upload, connection, upload
<1>1. ASSUME NEW e \in {"resolve", "connect", "tls"}, Fail(e), UNCHANGED <<request, upload>>, pc \notin Over PROVE RequestOK'
    BY <1>1, FailIs
<1>2. CASE ResolveFails
    BY <1>1, <1>2 DEF ResolveFails
<1>3. CASE OpenSocket
    BY <1>3 DEF OpenSocket
<1>4. CASE Connected
    BY <1>4 DEF Connected
<1>5. CASE ConnectFails
    BY <1>5 DEF ConnectFails
<1>6. CASE NoAddressLeft
    BY <1>1, <1>6 DEF NoAddressLeft
<1>7. CASE StartTLS
    BY <1>1, <1>7 DEF StartTLS
<1> QED
    BY <1>2, <1>3, <1>4, <1>5, <1>6, <1>7 DEF Connect

LEMMA SendIsCounted == ASSUME RequestOK, Send PROVE RequestOK'
<1> USE DEF RequestOK, Waiting, Reading, Over, LineStates, Upload, connection, upload
<1>0. Upload \in Nat /\ request.head \in Nat /\ request.size \in Nat
    BY UploadIs
<1>1. ASSUME NEW e \in {"send headers", "send body", "source"}, Fail(e), UNCHANGED <<request, upload>>, pc \notin Over PROVE RequestOK'
    BY <1>1, FailIs
<1>2. CASE SendHead
    BY <1>0, <1>2 DEF SendHead
<1>3. CASE Write
    BY <1>0, <1>3 DEF Write
<1>4. CASE WriteFails
    BY <1>1, <1>4 DEF WriteFails
<1>5. CASE SendBody
    <2>1. PICK got \in Nat : sending' = got /\ remaining' = remaining - got /\ got <= remaining
        <3>1. BufferSize \in Nat /\ remaining \in Nat
            BY <1>5, SizesAssumption DEF SizesAssumption, SendBody
        <3> QED
            BY <1>5, <3>1 DEF SendBody
    <2> QED
        BY <1>0, <1>5, <2>1 DEF SendBody
<1>6. CASE SourceFails
    BY <1>1, <1>6 DEF SourceFails
<1>7. CASE RequestSent
    BY <1>0, <1>7 DEF RequestSent
<1> QED
    BY <1>2, <1>3, <1>4, <1>5, <1>6, <1>7 DEF Send

LEMMA FillIsCounted == ASSUME RequestOK, FillBuffer PROVE RequestOK'
<1>0. IsResponse(response)
    BY DEF RequestOK
<1>1. pc \in Reading /\ UNCHANGED <<request, sent>>
    BY DEF FillBuffer, Receive, ReceiveEnd, ReceiveFails, NeedsInput, connection, upload
<1>2. ASSUME Fail(ReadError) PROVE pc' = "close" /\ IsResponse(response)'
    BY <1>0, <1>2, FailIs
<1>3. CASE Receive
    BY <1>0, <1>1, <1>3, RequestGoes DEF Receive, IsResponse
<1>4. CASE ReceiveEnd
    BY <1>0, <1>1, <1>2, <1>4, RequestGoes DEF ReceiveEnd, IsResponse, Reading, LineStates
<1>5. CASE ReceiveFails
    BY <1>0, <1>1, <1>2, <1>5, RequestGoes DEF ReceiveFails
<1> QED
    BY <1>3, <1>4, <1>5 DEF FillBuffer

LEMMA ReadIsCounted == ASSUME RequestOK, ReadHead \/ ReadChunk PROVE RequestOK'
<1>0. IsResponse(response)
    BY DEF RequestOK
<1>1. pc \in Reading /\ UNCHANGED <<request, sent>>
    BY DEF ReadHead, ReadChar, StatusLine, HeaderLine, InterimEnds, HeadersEnd, ReadChunk, ChunkSizeLine,
           ChunkEndLine, TrailerLine, ReadBody, SinkRefuses, EndLine, connection, upload, Reading, LineStates
<1>2. ASSUME NEW e, Fail(e) PROVE RequestOK'
    BY <1>0, <1>1, <1>2, FailIs, RequestGoes
<1>3. ASSUME pc' \in Reading \cup {"close"}, UNCHANGED response PROVE RequestOK'
    BY <1>0, <1>1, <1>3, RequestGoes DEF IsResponse
<1> USE DEF EndLine, Reading, LineStates
<1>4. CASE ReadChar
    BY <1>2, <1>3, <1>4 DEF ReadChar
<1>5. CASE StatusLine
    <2>1. CASE Is(line, "status")
        <3>1. IsResponse(response)' /\ response'.error = response.error
            BY <1>0, <1>5, <2>1 DEF StatusLine, IsResponse
        <3> QED
            BY <1>1, <1>5, <2>1, <3>1, RequestGoes DEF StatusLine
    <2> QED
        BY <1>2, <1>5, <2>1 DEF StatusLine
<1>6. CASE HeaderLine
    BY <1>2, <1>3, <1>6 DEF HeaderLine
<1>7. CASE InterimEnds
    BY <1>3, <1>7 DEF InterimEnds
<1>8. CASE HeadersEnd
    BY <1>2, <1>3, <1>8 DEF HeadersEnd, BeginBody
<1>9. CASE ChunkSizeLine
    BY <1>2, <1>3, <1>9 DEF ChunkSizeLine, BeginBody
<1>10. CASE ChunkEndLine
    BY <1>3, <1>10 DEF ChunkEndLine
<1>11. CASE TrailerLine
    BY <1>3, <1>11 DEF TrailerLine
<1>12. CASE ReadBody
    <2>1. IsResponse(response)' /\ response'.error = response.error
        BY <1>0, <1>12 DEF ReadBody, IsResponse
    <2>2. pc' \in Reading \/ pc' = "close"
        BY <1>12 DEF ReadBody
    <2> QED
        BY <1>1, <2>1, <2>2, RequestGoes
<1>13. CASE SinkRefuses
    BY <1>2, <1>13 DEF SinkRefuses
<1> QED
    BY <1>4, <1>5, <1>6, <1>7, <1>8, <1>9, <1>10, <1>11, <1>12, <1>13 DEF ReadHead, ReadChunk

LEMMA RequestSteps == RequestOK /\ [Next]_vars => RequestOK'
<1> SUFFICES ASSUME RequestOK, [Next]_vars PROVE RequestOK'
    OBVIOUS
<1>1. CASE CloseConnection
    BY <1>1 DEF CloseConnection, RequestOK, Waiting, Reading, Over, LineStates, Upload, upload, IsResponse
<1>2. CASE UNCHANGED vars
    BY <1>2 DEF vars, RequestOK, Waiting, Reading, Over, LineStates, Upload, IsResponse
<1> QED
    BY <1>1, <1>2, ConnectIsCounted, SendIsCounted, FillIsCounted, ReadIsCounted DEF Next

---------------------------------------------------------------------------
(* Errors, and steps that stay where they are *)

LEMMA PrefixIs ==
    ASSUME NEW X, NEW s \in Seq(X), NEW d \in Seq(X)
    PROVE  IsPrefix(s, s \o d)
<1> DEFINE t == s \o d
           n == Len(s)
<1>1. /\ t \in Seq(X) /\ Len(t) = Len(s) + Len(d) /\ Len(s) \in Nat /\ Len(d) \in Nat
      /\ \A i \in 1..Len(s) : t[i] = s[i]
    BY ConcatIs
<1> HIDE DEF t
<1>2. n \in Nat /\ n <= Len(s) /\ n <= Len(t)
    BY <1>1
<1>3. SubSeq(s, 1, n) \in Seq(X) /\ Len(SubSeq(s, 1, n)) = n /\ \A i \in 1..n : SubSeq(s, 1, n)[i] = s[i]
    BY <1>2, CutIs
<1>4. SubSeq(t, 1, n) \in Seq(X) /\ Len(SubSeq(t, 1, n)) = n /\ \A i \in 1..n : SubSeq(t, 1, n)[i] = t[i]
    BY <1>1, <1>2, CutIs
<1>5. PICK a, b : a = SubSeq(s, 1, n) /\ b = SubSeq(t, 1, n)
    OBVIOUS
<1>6. \A i \in 1..Len(a) : a[i] = b[i]
    BY <1>1, <1>3, <1>4, <1>5
<1>7. a = b
    <2>1. a \in Seq(X) /\ b \in Seq(X) /\ Len(a) = Len(b)
        BY <1>3, <1>4, <1>5
    <2> QED
        BY <1>6, <2>1, SameSeq
<1> QED
    BY <1>2, <1>5, <1>7 DEF IsPrefix, t

LEMMA EmptyIsPrefix == ASSUME NEW X, NEW d \in Seq(X) PROVE IsPrefix(<<>>, d)
<1>1. <<>> \o d = d /\ <<>> \in Seq(X)
    BY Nothing
<1>2. IsPrefix(<<>>, <<>> \o d)
    BY <1>1, PrefixIs
<1> QED
    BY <1>1, <1>2

LEMMA MissingIs ==
    ASSUME NEW r \in Responses, NEW d, Missing(r, d)
    PROVE  /\ IsPrefix(response.body, Body(r)) /\ Len(d) \in Nat /\ Len(d) <= Len(Body(r)) /\ Len(d) < SizeMax
           /\ d = <<>> => response.body = Body(r)
<1>1. PICK s : s = response.body
    OBVIOUS
<1>2. s \in Seq(DataCell) /\ d \in Seq(DataCell) /\ s \o d = Body(r)
    BY <1>1 DEF Missing
<1>3. IsPrefix(s, s \o d) /\ Len(s \o d) = Len(s) + Len(d) /\ Len(s) \in Nat /\ Len(d) \in Nat
    BY <1>2, PrefixIs, ConcatIs
<1>4. Len(Body(r)) < SizeMax /\ Len(Body(r)) \in Nat /\ SizeMax \in Nat
    BY ResponseIs, SizesAssumption DEF SizesAssumption
<1>5. s \o <<>> = s
    BY <1>2, Nothing
<1> QED
    BY SMTT(40), <1>1, <1>2, <1>3, <1>4, <1>5

\* In every state, what there is of the body is a beginning of it.
LEMMA BodyIsPrefix ==
    ASSUME NEW r \in Responses, RequestOK, Stage(r), HasBody(r)
    PROVE  IsPrefix(response.body, Body(r))
<1>1. Body(r) \in Seq(DataCell)
    BY ResponseIs
<1>2. response.body = <<>> => IsPrefix(response.body, Body(r))
    BY <1>1, EmptyIsPrefix
<1>3. ASSUME NEW d, Missing(r, d) PROVE IsPrefix(response.body, Body(r))
    BY <1>3, MissingIs
<1>4. CASE pc \in Waiting \cup {"status", "header"}
    BY <1>2, <1>4 DEF Stage, Begin, InStatus, InHeader
<1>5. CASE pc = "body"
    BY <1>3, <1>5 DEF Stage, InBody
<1>6. CASE pc = "size"
    BY <1>3, <1>6 DEF Stage, InChunks, InSize
<1>7. CASE pc = "chunk"
    BY <1>3, <1>7 DEF Stage, InChunks, InChunk
<1>8. CASE pc = "chunkEnd"
    BY <1>3, <1>8 DEF Stage, InChunks, InChunkEnd
<1>9. CASE pc = "trailer"
    BY <1>3, <1>9 DEF Stage, InChunks, InTrailer
<1>10. CASE pc \in Over
    BY <1>10 DEF Stage, AtEnd
<1> QED
    BY <1>4, <1>5, <1>6, <1>7, <1>8, <1>9, <1>10 DEF RequestOK, Reading, LineStates

LEMMA OverIs ==
    ASSUME NEW r \in Responses, pc' \in Over, AtEnd(r)'
    PROVE  Stage(r)'
BY DEF Stage, Over, Waiting

LEMMA FailsAtEnd ==
    ASSUME NEW r \in Responses, RequestOK, Stage(r), NEW e, e # "none", Fail(e), UNCHANGED request
    PROVE  Stage(r)'
<1>1. pc' = "close" /\ response'.error = e /\ response'.body = response.body
    BY FailIs DEF RequestOK
<1>2. HasBody(r)' <=> HasBody(r)
    BY DEF HasBody
<1>3. AtEnd(r)'
    BY <1>1, <1>2, BodyIsPrefix DEF AtEnd
<1> QED
    BY <1>1, <1>3, OverIs DEF Over

\* Lines the server writes, and what comes after them.
LEMMA LineIs ==
    ASSUME NEW kind \in {"status", "length", "size", "chunked", "coding", "field"}, NEW n \in Int
    PROVE  IsLine(<<Cell(kind, n)>>) /\ IsLine(<<>>) /\ <<Cell(kind, n)>> # <<>>
<1>1. PICK c : c = Cell(kind, n)
    OBVIOUS
<1>2. c \in Cells /\ c.k \notin {"cr", "lf"}
    BY <1>1 DEF Cell, Cells, Kinds
<1>3. IsLine(<<c>>) /\ IsLine(<<>>)
    BY <1>2 DEF IsLine
<1>4. <<c>> # <<>>
    OBVIOUS
<1> QED
    BY <1>1, <1>3, <1>4

LEMMA FieldAndBreak ==
    ASSUME NEW t \in Texts
    PROVE  Then(<<>>, t) \in Texts /\ Then(<<Cell("field", 0)>>, Then(<<>>, t)) \in Texts /\ <<>> \in Texts
<1>1. <<>> \in Texts /\ "field" \in Kinds /\ 0 \in Int
    BY DEF Texts, Kinds
<1>2. Then(<<>>, t) \in Texts
    BY <1>1, ThenIs
<1> QED
    BY <1>1, <1>2, LineThen

LEMMA PartThen ==
    ASSUME NEW d \in Seq(DataCell), NEW t \in Texts
    PROVE  d \o Then(<<>>, t) \in Texts /\ d \in Texts /\ Then(<<>>, t) \in Texts
BY ChunkIs, DataIs, FieldAndBreak

\* The lines and the rests that the stages speak of.
LEMMA LinesOf ==
    ASSUME NEW r \in Responses
    PROVE  /\ IsLine(<<>>) /\ <<>> \in Texts
           /\ IsLine(<<Cell("status", r.status)>>) /\ Framed(r) \in Texts
           /\ IsLine(<<Cell("status", 100)>>) /\ IsLine(<<Cell("field", 0)>>)
           /\ \A n \in Nat : /\ Interims(n, r) \in Texts /\ Then(<<>>, Interims(n, r)) \in Texts
                             /\ Then(<<Cell("field", 0)>>, Then(<<>>, Interims(n, r))) \in Texts
           /\ IsLine(<<FirstField(r)>>) /\ LastFields(r) \in Texts
           /\ IsLine(<<Cell("chunked", 0)>>) /\ Payload(r) \in Texts /\ Then(<<>>, Payload(r)) \in Texts
           /\ IsLine(<<Cell("size", 0)>>) /\ \A n \in Nat : Trailers(n) \in Texts
           /\ \A d \in Seq(DataCell) : IsLine(<<Cell("size", Len(d))>>)
           /\ \A b \in Seq(Seq(DataCell)) : Chunks(b, r.trailers) \in Texts
           /\ \A b \in Seq(Seq(DataCell)), d \in Seq(DataCell) : d \o Then(<<>>, Chunks(b, r.trailers)) \in Texts
<1>0. r.status \in Int /\ r.trailers \in Nat /\ 0 \in Int /\ 100 \in Int /\ \A d \in Seq(DataCell) : Len(d) \in Int
    BY ResponseIs
<1>1. /\ IsLine(<<>>) /\ IsLine(<<Cell("status", r.status)>>) /\ IsLine(<<Cell("status", 100)>>)
      /\ IsLine(<<Cell("field", 0)>>) /\ IsLine(<<Cell("chunked", 0)>>) /\ IsLine(<<Cell("size", 0)>>)
      /\ \A d \in Seq(DataCell) : IsLine(<<Cell("size", Len(d))>>)
    BY <1>0, LineIs
<1>2. IsLine(<<FirstField(r)>>) /\ LastFields(r) \in Texts /\ Payload(r) \in Texts /\ Framed(r) \in Texts
    BY FramedIs DEF IsLine
<1>3. \A n \in Nat : Interims(n, r) \in Texts
    BY InterimsIs
<1>4. \A n \in Nat : /\ Then(<<>>, Interims(n, r)) \in Texts
                     /\ Then(<<Cell("field", 0)>>, Then(<<>>, Interims(n, r))) \in Texts
    BY <1>3, FieldAndBreak
<1>5. \A n \in Nat : Trailers(n) \in Texts
    BY TrailersIs
<1>6. \A b \in Seq(Seq(DataCell)) : Chunks(b, r.trailers) \in Texts
    <2>1. <<>> \in Seq(DataCell)
        OBVIOUS
    <2> QED
        BY <1>0, <2>1, ChunksIs
<1>7. \A b \in Seq(Seq(DataCell)), d \in Seq(DataCell) : d \o Then(<<>>, Chunks(b, r.trailers)) \in Texts
    BY <1>6, PartThen
<1>8. Then(<<>>, Payload(r)) \in Texts /\ <<>> \in Texts
    BY <1>2, FieldAndBreak
<1> QED
    BY <1>1, <1>2, <1>3, <1>4, <1>5, <1>6, <1>7, <1>8

\* Whatever keeps what is ahead keeps the stage: input arrives, or a character of a line is taken.
LEMMA StageStays ==
    ASSUME NEW r \in Responses, RequestOK, Stage(r), UNCHANGED <<pc, left, headers, response, request>>,
           pc \in LineStates => \A l, t : IsLine(l) /\ t \in Texts /\ Ahead(l, t) => Ahead(l, t)',
           pc \notin LineStates => UNCHANGED line /\ Rest' = Rest
    PROVE  Stage(r)'
<1>1. \A d : Missing(r, d) => Missing(r, d)'
    BY DEF Missing, HasBody
<1>2. CASE pc \in Waiting
    <2>1. pc \notin LineStates /\ Begin(r)
        BY <1>2 DEF Waiting, LineStates, Stage
    <2>2. Begin(r)'
        BY <2>1 DEF Begin
    <2> QED
        BY <1>2, <2>2 DEF Stage, Waiting, Over
<1>3. CASE pc = "status"
    <2>1. \A l, t : IsLine(l) /\ t \in Texts /\ Ahead(l, t) => Ahead(l, t)'
        BY <1>3 DEF LineStates
    <2>2. InStatus(r)
        BY <1>3 DEF Stage
    <2>3. Ahead(<<Cell("status", r.status)>>, Framed(r)) => InStatus(r)'
        BY <2>1, <2>2, LinesOf DEF InStatus
    <2>4. ASSUME NEW n \in Nat, Ahead(<<Cell("status", 100)>>, Then(<<Cell("field", 0)>>, Then(<<>>, Interims(n, r))))
          PROVE  InStatus(r)'
        <3>1. Ahead(<<Cell("status", 100)>>, Then(<<Cell("field", 0)>>, Then(<<>>, Interims(n, r))))'
            BY <2>1, <2>4, LinesOf
        <3> QED
            BY <2>2, <3>1 DEF InStatus
    <2>5. InStatus(r)'
        BY <2>2, <2>3, <2>4 DEF InStatus
    <2> QED
        BY <1>3, <2>5 DEF Stage, Waiting, Over
<1>4. CASE pc = "header"
    <2>1. \A l, t : IsLine(l) /\ t \in Texts /\ Ahead(l, t) => Ahead(l, t)'
        BY <1>4 DEF LineStates
    <2>2. InHeader(r)
        BY <1>4 DEF Stage
    <2>3. ASSUME NEW n \in Nat, response.status = 100,
                 Ahead(<<Cell("field", 0)>>, Then(<<>>, Interims(n, r))) \/ Ahead(<<>>, Interims(n, r))
          PROVE  InInterim(r)'
        <3>1. (Ahead(<<Cell("field", 0)>>, Then(<<>>, Interims(n, r))) \/ Ahead(<<>>, Interims(n, r)))'
            BY <2>1, <2>3, LinesOf
        <3> QED
            BY <2>3, <3>1 DEF InInterim
    <2>4. InInterim(r) => InInterim(r)'
        BY <2>3 DEF InInterim
    <2>5. InFields(r) => InFields(r)'
        <3>1. /\ Ahead(<<FirstField(r)>>, LastFields(r)) => Ahead(<<FirstField(r)>>, LastFields(r))'
              /\ Ahead(<<Cell("chunked", 0)>>, Then(<<>>, Payload(r))) => Ahead(<<Cell("chunked", 0)>>, Then(<<>>, Payload(r)))'
              /\ Ahead(<<>>, Payload(r)) => Ahead(<<>>, Payload(r))'
            BY <2>1, LinesOf
        <3> QED
            BY <3>1 DEF InFields
    <2>6. InHeader(r)'
        BY <2>2, <2>4, <2>5 DEF InHeader
    <2> QED
        BY <1>4, <2>6 DEF Stage, Waiting, Over
<1>5. CASE pc = "body"
    <2>1. InBody(r) /\ pc \notin LineStates
        BY <1>5 DEF Stage, LineStates
    <2>2. InBody(r)'
        BY <1>1, <2>1 DEF InBody
    <2> QED
        BY <1>5, <2>2 DEF Stage, Waiting, Over
<1>6. CASE pc = "size"
    <2>1. \A l, t : IsLine(l) /\ t \in Texts /\ Ahead(l, t) => Ahead(l, t)'
        BY <1>6 DEF LineStates
    <2>2. InSize(r) /\ r.framing = "chunked"
        BY <1>6 DEF Stage, InChunks
    <2>3. Missing(r, <<>>) /\ Ahead(<<Cell("size", 0)>>, Trailers(r.trailers)) => InSize(r)'
        <3>1. r.trailers \in Nat
            BY ResponseIs
        <3>2. IsLine(<<Cell("size", 0)>>) /\ Trailers(r.trailers) \in Texts
            BY <3>1, LinesOf
        <3> QED
            BY <1>1, <2>1, <3>2 DEF InSize
    <2>4. ASSUME NEW b \in Seq(Seq(DataCell)), NEW d \in Seq(DataCell),
                 IsParts(b), Len(d) \in 1..(SizeMax - 1), Missing(r, d \o FlattenSeq(b)),
                 Ahead(<<Cell("size", Len(d))>>, d \o Then(<<>>, Chunks(b, r.trailers)))
          PROVE  InSize(r)'
        <3>1. Ahead(<<Cell("size", Len(d))>>, d \o Then(<<>>, Chunks(b, r.trailers)))'
            BY <2>1, <2>4, LinesOf
        <3>2. Missing(r, d \o FlattenSeq(b))'
            BY <1>1, <2>4
        <3> QED
            BY <2>4, <3>1, <3>2 DEF InSize
    <2>5. InSize(r)'
        BY <2>2, <2>3, <2>4 DEF InSize
    <2> QED
        BY <1>6, <2>2, <2>5 DEF Stage, InChunks, Waiting, Over
<1>7. CASE pc = "chunk"
    <2>1. InChunk(r) /\ r.framing = "chunked" /\ pc \notin LineStates
        BY <1>7 DEF Stage, InChunks, LineStates
    <2>2. PICK b \in Seq(Seq(DataCell)), d \in Seq(DataCell) :
              /\ IsParts(b) /\ Len(d) \in 1..(SizeMax - 1) /\ Missing(r, d \o FlattenSeq(b))
              /\ line = <<>> /\ Rest = d \o Then(<<>>, Chunks(b, r.trailers)) /\ left = Len(d)
        BY <2>1 DEF InChunk
    <2>3. Missing(r, d \o FlattenSeq(b))'
        BY <1>1, <2>2
    <2>4. InChunk(r)'
        BY <2>1, <2>2, <2>3 DEF InChunk
    <2> QED
        BY <1>7, <2>1, <2>4 DEF Stage, InChunks, Waiting, Over
<1>8. CASE pc = "chunkEnd"
    <2>1. \A l, t : IsLine(l) /\ t \in Texts /\ Ahead(l, t) => Ahead(l, t)'
        BY <1>8 DEF LineStates
    <2>2. InChunkEnd(r) /\ r.framing = "chunked"
        BY <1>8 DEF Stage, InChunks
    <2>3. PICK b \in Seq(Seq(DataCell)) :
              IsParts(b) /\ Missing(r, FlattenSeq(b)) /\ Ahead(<<>>, Chunks(b, r.trailers))
        BY <2>2 DEF InChunkEnd
    <2>4. Missing(r, FlattenSeq(b))' /\ Ahead(<<>>, Chunks(b, r.trailers))'
        BY <1>1, <2>1, <2>3, LinesOf
    <2>5. InChunkEnd(r)'
        BY <2>3, <2>4 DEF InChunkEnd
    <2> QED
        BY <1>8, <2>2, <2>5 DEF Stage, InChunks, Waiting, Over
<1>9. CASE pc = "trailer"
    <2>1. \A l, t : IsLine(l) /\ t \in Texts /\ Ahead(l, t) => Ahead(l, t)'
        BY <1>9 DEF LineStates
    <2>2. InTrailer(r) /\ r.framing = "chunked"
        BY <1>9 DEF Stage, InChunks
    <2>3. Missing(r, <<>>)'
        BY <1>1, <2>2 DEF InTrailer
    <2>4. Ahead(<<>>, <<>>) => InTrailer(r)'
        BY <2>1, <2>3, LinesOf DEF InTrailer
    <2>5. ASSUME NEW n \in Nat, Ahead(<<Cell("field", 0)>>, Trailers(n)) PROVE InTrailer(r)'
        <3>1. Ahead(<<Cell("field", 0)>>, Trailers(n))'
            BY <2>1, <2>5, LinesOf
        <3> QED
            BY <2>3, <3>1 DEF InTrailer
    <2>6. InTrailer(r)'
        BY <2>2, <2>4, <2>5 DEF InTrailer
    <2> QED
        BY <1>9, <2>2, <2>6 DEF Stage, InChunks, Waiting, Over
<1>10. CASE pc \in Over
    <2>1. AtEnd(r)'
        BY <1>10 DEF Stage, AtEnd, HasBody
    <2> QED
        BY <1>10, <2>1, OverIs
<1> QED
    BY <1>2, <1>3, <1>4, <1>5, <1>6, <1>7, <1>8, <1>9, <1>10 DEF RequestOK, Reading, LineStates

---------------------------------------------------------------------------
(* The request, and the input *)

LEMMA WaitingIs ==
    ASSUME NEW r \in Responses, Stage(r), pc \in Waiting, pc' \in Waiting, UNCHANGED <<response, line, wire, buffer>>
    PROVE  Stage(r)'
<1>1. Begin(r)'
    BY DEF Stage, Begin, wire, Rest, Coming
<1> QED
    BY <1>1 DEF Stage, Waiting, Over

\* A response begins, with as many interim ones before it as are left.
LEMMA FreshIs ==
    ASSUME NEW r \in Responses, NEW n \in Nat, pc' = "status", line' = <<>>, response'.body = <<>>, Rest' = Interims(n, r)
    PROVE  Stage(r)'
<1>1. CASE n = 0
    <2>1. Interims(0, r) = Then(<<Cell("status", r.status)>>, Framed(r))
        BY <1>1, InterimsIs
    <2>2. Ahead(<<Cell("status", r.status)>>, Framed(r))'
        BY <1>1, <2>1 DEF Ahead
    <2>3. InStatus(r)'
        BY <2>2 DEF InStatus
    <2> QED
        BY <2>3 DEF Stage, Waiting, Over
<1>2. CASE n # 0
    <2>1. PICK m \in Nat : n = m + 1
        BY <1>2
    <2>2. Interims(m + 1, r) = Then(<<Cell("status", 100)>>, Then(<<Cell("field", 0)>>, Then(<<>>, Interims(m, r))))
        BY InterimsIs
    <2>3. Ahead(<<Cell("status", 100)>>, Then(<<Cell("field", 0)>>, Then(<<>>, Interims(m, r))))'
        BY <2>1, <2>2 DEF Ahead
    <2>4. InStatus(r)'
        BY <2>3 DEF InStatus
    <2> QED
        BY <2>4 DEF Stage, Waiting, Over
<1> QED
    BY <1>1, <1>2

LEMMA ConnectSteps ==
    ASSUME NEW r \in Responses, Follows(r), Connect
    PROVE  WireOK' /\ Stage(r)'
<1>0. WireOK /\ RequestOK /\ Stage(r)
    BY DEF Follows
<1>1. WireOK'
    BY <1>0 DEF Connect, ResolveFails, OpenSocket, Connected, ConnectFails, NoAddressLeft, StartTLS, input, wire, WireOK
<1>2. \/ pc \in Waiting /\ pc' \in Waiting /\ UNCHANGED <<response, line, wire, buffer>>
      \/ (\E e \in {"resolve", "connect", "tls"} : Fail(e)) /\ UNCHANGED request
    BY DEF Connect, ResolveFails, OpenSocket, Connected, ConnectFails, NoAddressLeft, StartTLS, input, connection, Waiting
<1>3. ASSUME NEW e \in {"resolve", "connect", "tls"}, Fail(e), UNCHANGED request PROVE Stage(r)'
    BY <1>0, <1>3, FailsAtEnd
<1> QED
    BY <1>0, <1>1, <1>2, <1>3, WaitingIs

LEMMA SendSteps ==
    ASSUME NEW r \in Sent, Follows(r), Send
    PROVE  WireOK' /\ Stage(r)'
<1>0. WireOK /\ RequestOK /\ Stage(r) /\ r \in Responses
    BY DEF Follows, Sent
<1>1. WireOK'
    BY <1>0 DEF Send, SendHead, Write, WriteFails, SendBody, SourceFails, RequestSent, input, wire, WireOK
<1>2. \/ pc \in Waiting /\ pc' \in Waiting /\ UNCHANGED <<response, line, wire, buffer>>
      \/ (\E e \in {"send headers", "send body", "source"} : Fail(e)) /\ UNCHANGED request
      \/ RequestSent
    BY DEF Send, SendHead, Write, WriteFails, SendBody, SourceFails, input, connection, Waiting
<1>3. ASSUME NEW e \in {"send headers", "send body", "source"}, Fail(e), UNCHANGED request PROVE Stage(r)'
    BY <1>0, <1>3, FailsAtEnd
<1>4. CASE RequestSent
    <2>1. pc = "write" /\ pc' = "status" /\ UNCHANGED <<response, line, reply, received, buffer>>
        BY <1>4 DEF RequestSent, input, wire
    <2>2. Begin(r)
        BY <1>0, <2>1 DEF Stage, Waiting
    <2>3. Rest' = Interims(r.interim, r) /\ r.interim \in Nat
        BY <1>0, <2>1, <2>2, ResponseIs DEF Begin, Rest, Coming, Encode, Interims
    <2>4. Stage(r)'
        BY <1>0, <2>1, <2>2, <2>3, FreshIs DEF Begin
    <2> QED
        BY <1>1, <2>4
<1> QED
    BY <1>0, <1>1, <1>2, <1>3, <1>4, WaitingIs

LEMMA FillSteps ==
    ASSUME NEW r \in Responses, Follows(r), FillBuffer
    PROVE  WireOK' /\ Stage(r)'
<1>0. WireOK /\ RequestOK /\ Stage(r)
    BY DEF Follows
<1>1. pc \in Reading /\ buffer = <<>> /\ UNCHANGED <<request, reply, line, headers, left>>
    BY DEF FillBuffer, Receive, ReceiveEnd, ReceiveFails, NeedsInput, connection, input, wire, block
<1>2. ASSUME Fail(ReadError), UNCHANGED <<buffer, received>> PROVE WireOK' /\ Stage(r)'
    <2>1. ReadError # "none"
        BY DEF ReadError
    <2> QED
        BY <1>0, <1>1, <1>2, <2>1, FailsAtEnd DEF WireOK
<1>3. CASE Receive
    <2>1. UNCHANGED <<pc, response>>
        BY <1>3 DEF Receive
    <2>2. PICK n \in 1..(Len(reply) - received) :
              buffer' = SubSeq(reply, received + 1, received + n) /\ received' = received + n
        BY <1>3 DEF Receive
    <2>3. WireOK' /\ Rest' = Rest
        BY <1>0, <1>1, <2>2, Received
    <2>4. \A l, t : Ahead(l, t) => Ahead(l, t)'
        BY <1>1, <2>3 DEF Ahead
    <2> QED
        BY <1>0, <1>1, <2>1, <2>3, <2>4, StageStays
<1>4. CASE ReceiveEnd
    <2>0. UNCHANGED <<buffer, received>>
        BY <1>4 DEF ReceiveEnd, input, wire
    <2>1. CASE pc = "body" /\ left = SizeMax
        <3>1. pc' = "close" /\ UNCHANGED response
            BY <1>4, <2>1 DEF ReceiveEnd
        <3>2. PICK d : Missing(r, d) /\ (r.framing = "length" => left = Len(d)) /\ r.framing \in {"length", "close"}
            BY <1>0, <2>1 DEF Stage, InBody
        <3>3. IsPrefix(response.body, Body(r)) /\ r.framing = "close" /\ SizeMax \in Nat
            BY <2>1, <3>2, MissingIs, SizesAssumption DEF SizesAssumption
        <3>4. HasBody(r) /\ response.status = r.status /\ (HasBody(r)' <=> HasBody(r))
            BY <1>1, <3>2 DEF Missing, HasBody
        <3>5. AtEnd(r)'
            BY <3>1, <3>3, <3>4 DEF AtEnd
        <3>6. pc' \in Over
            BY <3>1 DEF Over
        <3> QED
            BY <1>0, <1>1, <2>0, <3>5, <3>6, OverIs DEF WireOK
    <2>2. CASE pc = "chunk" /\ left = SizeMax
        <3>1. PICK d : Len(d) \in 1..(SizeMax - 1) /\ left = Len(d)
            BY <1>0, <2>2 DEF Stage, InChunks, InChunk
        <3> QED
            BY <2>2, <3>1, SizesAssumption DEF SizesAssumption
    <2> QED
        BY <1>2, <1>4, <2>0, <2>1, <2>2 DEF ReceiveEnd
<1>5. CASE ReceiveFails
    BY <1>2, <1>5 DEF ReceiveFails, input, wire
<1> QED
    BY <1>3, <1>4, <1>5 DEF FillBuffer

---------------------------------------------------------------------------
(* The header *)

LEMMA CharSteps ==
    ASSUME NEW r \in Responses, Follows(r), ReadChar
    PROVE  WireOK' /\ Stage(r)'
<1>0. WireOK /\ RequestOK /\ Stage(r)
    BY DEF Follows
<1>1. /\ pc \in LineStates /\ buffer # <<>> /\ buffer' = Tail(buffer) /\ UNCHANGED <<request, reply, received, headers, left>>
      /\ UNCHANGED wire
    BY DEF ReadChar, connection, wire, block
<1>2. WireOK'
    BY <1>0, <1>1, Consumed
<1>3. ReadError # "none"
    BY DEF ReadError
<1>4. CASE Fail(ReadError)
    BY <1>0, <1>1, <1>2, <1>3, <1>4, FailsAtEnd
<1>5. CASE ~Fail(ReadError)
    <2>1. UNCHANGED <<pc, response>>
        BY <1>5 DEF ReadChar
    <2>2. ASSUME NEW l, NEW t, IsLine(l), t \in Texts, Ahead(l, t) PROVE Ahead(l, t)'
        BY <1>0, <2>1, <2>2, CharStep
    <2> QED
        BY <1>0, <1>1, <1>2, <2>1, <2>2, StageStays
<1> QED
    BY <1>4, <1>5

\* What happens at the end of a line.
LEMMA LineRead ==
    ASSUME NEW S, EndLine(S), WireOK
    PROVE  /\ WireOK' /\ line' = <<>> /\ pc \in S /\ UNCHANGED <<request, reply, received, sent>>
           /\ \A l, t : IsLine(l) /\ t \in Texts /\ Ahead(l, t) => line = l /\ Rest' = t
<1>1. line' = <<>> /\ pc \in S /\ UNCHANGED <<request, reply, received, sent>>
    BY DEF EndLine, connection, upload, wire
<1>2. WireOK'
    BY Consumed DEF EndLine
<1>3. ASSUME NEW l, NEW t, IsLine(l), t \in Texts, Ahead(l, t) PROVE line = l /\ Rest' = t
    BY <1>3, LineStep
<1> QED
    BY <1>1, <1>2, <1>3

LEMMA StatusSteps ==
    ASSUME NEW r \in Responses, Follows(r), StatusLine
    PROVE  WireOK' /\ Stage(r)'
<1>0. WireOK /\ RequestOK /\ Stage(r)
    BY DEF Follows
<1>1. /\ WireOK' /\ line' = <<>> /\ pc = "status"
      /\ \A l, t : IsLine(l) /\ t \in Texts /\ Ahead(l, t) => line = l /\ Rest' = t
    <2>1. EndLine({"status"})
        BY DEF StatusLine
    <2> QED
        BY <1>0, <2>1, LineRead
<1>2. InStatus(r) /\ response.body = <<>>
    BY <1>0, <1>1 DEF Stage, InStatus
<1>3. ASSUME NEW n \in Int, line = <<Cell("status", n)>>
      PROVE  pc' = "header" /\ headers' = <<>> /\ response'.status = n /\ response'.body = <<>>
    <2>1. Is(line, "status") /\ line[1].n = n
        BY <1>3 DEF Is, Cell
    <2> QED
        BY <1>0, <1>2, <2>1 DEF StatusLine, RequestOK, IsResponse
<1>4. CASE Ahead(<<Cell("status", r.status)>>, Framed(r))
    <2>1. line = <<Cell("status", r.status)>> /\ Rest' = Framed(r)
        BY <1>1, <1>4, LinesOf
    <2>2. r.status \in Int
        BY ResponseIs
    <2>3. Ahead(<<FirstField(r)>>, LastFields(r))'
        BY <1>1, <2>1, FramedIs DEF Ahead
    <2>4. InFields(r)' /\ pc' = "header" /\ response'.body = <<>>
        BY <1>3, <2>1, <2>2, <2>3 DEF InFields
    <2> QED
        BY <1>1, <2>4 DEF InHeader, Stage, Waiting, Over
<1>5. ASSUME NEW n \in Nat, Ahead(<<Cell("status", 100)>>, Then(<<Cell("field", 0)>>, Then(<<>>, Interims(n, r))))
      PROVE  Stage(r)'
    <2>1. line = <<Cell("status", 100)>> /\ Rest' = Then(<<Cell("field", 0)>>, Then(<<>>, Interims(n, r)))
        BY <1>1, <1>5, LinesOf
    <2>2. Ahead(<<Cell("field", 0)>>, Then(<<>>, Interims(n, r)))'
        BY <1>1, <2>1 DEF Ahead
    <2>3. InInterim(r)' /\ pc' = "header" /\ response'.body = <<>>
        BY <1>3, <2>1, <2>2 DEF InInterim
    <2> QED
        BY <2>3 DEF InHeader, Stage, Waiting, Over
<1> QED
    BY <1>1, <1>2, <1>4, <1>5 DEF InStatus

LEMMA AppendIsPair == ASSUME NEW a, NEW b PROVE Append(<<a>>, b) = <<a, b>>
<1> DEFINE s == Append(<<a>>, b)
           t == <<a, b>>
<1>1. a \in {a, b} /\ b \in {a, b}
    OBVIOUS
<1>2. PICK X : X = {a, b}
    OBVIOUS
<1>3. <<a>> \in Seq(X) /\ b \in X /\ Len(<<a>>) = 1 /\ <<a>>[1] = a
    BY <1>1, <1>2
<1>4. s \in Seq(X) /\ Len(s) = 2 /\ s[1] = a /\ s[2] = b
    BY <1>3
<1>5. t \in Seq(X) /\ Len(t) = 2 /\ t[1] = a /\ t[2] = b
    BY <1>1, <1>2
<1> HIDE DEF s, t
<1>6. s = t
    BY <1>4, <1>5, SameSeq
<1> QED
    BY <1>6 DEF s, t

LEMMA HeaderSteps ==
    ASSUME NEW r \in Responses, Follows(r), HeaderLine
    PROVE  WireOK' /\ Stage(r)'
<1>0. WireOK /\ RequestOK /\ Stage(r)
    BY DEF Follows
<1>1. /\ WireOK' /\ line' = <<>> /\ pc = "header" /\ UNCHANGED request
      /\ \A l, t : IsLine(l) /\ t \in Texts /\ Ahead(l, t) => line = l /\ Rest' = t
    <2>1. EndLine({"header"})
        BY DEF HeaderLine
    <2> QED
        BY <1>0, <2>1, LineRead
<1>2. InHeader(r) /\ line # <<>>
    BY <1>0, <1>1 DEF Stage, HeaderLine
<1>3. CASE Fail("headers too large")
    BY <1>0, <1>1, <1>3, FailsAtEnd
<1>4. CASE ~Fail("headers too large")
    <2>1. headers' = Append(headers, line) /\ UNCHANGED <<pc, response>>
        BY <1>4 DEF HeaderLine
    <2>2. ASSUME InInterim(r) PROVE InInterim(r)'
        <3>1. PICK n \in Nat : Ahead(<<Cell("field", 0)>>, Then(<<>>, Interims(n, r))) \/ Ahead(<<>>, Interims(n, r))
            BY <2>2 DEF InInterim
        <3>2. ~Ahead(<<>>, Interims(n, r))
            BY <1>1, <1>2, LinesOf
        <3>3. Rest' = Then(<<>>, Interims(n, r))
            BY <1>1, <3>1, <3>2, LinesOf
        <3>4. Ahead(<<>>, Interims(n, r))'
            BY <1>1, <3>3 DEF Ahead
        <3> QED
            BY <2>1, <2>2, <3>4 DEF InInterim
    <2>3. ASSUME InFields(r) PROVE InFields(r)'
        <3>1. ~Ahead(<<>>, Payload(r))
            BY <1>1, <1>2, LinesOf
        <3>2. CASE headers = <<>> /\ Ahead(<<FirstField(r)>>, LastFields(r))
            <4>1. line = <<FirstField(r)>> /\ Rest' = LastFields(r)
                BY <1>1, <3>2, LinesOf
            <4>2. headers' = <<<<FirstField(r)>>>>
                BY <2>1, <3>2, <4>1
            <4>3. CASE r.framing = "chunked"
                <5>1. Ahead(<<Cell("chunked", 0)>>, Then(<<>>, Payload(r)))'
                    BY <1>1, <4>1, <4>3 DEF Ahead, LastFields
                <5> QED
                    BY <2>1, <2>3, <4>2, <4>3, <5>1 DEF InFields
            <4>4. CASE r.framing # "chunked"
                <5>1. Ahead(<<>>, Payload(r))' /\ headers' = Fields(r)
                    BY <1>1, <4>1, <4>2, <4>4 DEF Ahead, LastFields, Fields
                <5> QED
                    BY <2>1, <2>3, <5>1 DEF InFields
            <4> QED
                BY <4>3, <4>4
        <3>3. CASE /\ headers = <<<<FirstField(r)>>>> /\ r.framing = "chunked"
                   /\ Ahead(<<Cell("chunked", 0)>>, Then(<<>>, Payload(r)))
            <4>1. line = <<Cell("chunked", 0)>> /\ Rest' = Then(<<>>, Payload(r))
                BY <1>1, <3>3, LinesOf
            <4>2. headers' = Fields(r)
                <5>1. PICK a, b : a = <<FirstField(r)>> /\ b = line
                    OBVIOUS
                <5>2. Append(<<a>>, b) = <<a, b>>
                    BY AppendIsPair
                <5> QED
                    BY <2>1, <3>3, <4>1, <5>1, <5>2 DEF Fields
            <4>3. Ahead(<<>>, Payload(r))'
                BY <1>1, <4>1 DEF Ahead
            <4> QED
                BY <2>1, <2>3, <4>2, <4>3 DEF InFields
        <3> QED
            BY <2>3, <3>1, <3>2, <3>3 DEF InFields
    <2>4. InHeader(r)'
        BY <1>2, <2>1, <2>2, <2>3 DEF InHeader
    <2> QED
        BY <1>1, <2>1, <2>4 DEF Stage, Waiting, Over
<1> QED
    BY <1>3, <1>4

LEMMA InterimSteps ==
    ASSUME NEW r \in Responses, Follows(r), InterimEnds
    PROVE  WireOK' /\ Stage(r)'
<1>0. WireOK /\ RequestOK /\ Stage(r)
    BY DEF Follows
<1>1. /\ WireOK' /\ line' = <<>> /\ pc = "header"
      /\ \A l, t : IsLine(l) /\ t \in Texts /\ Ahead(l, t) => line = l /\ Rest' = t
    <2>1. EndLine({"header"})
        BY DEF InterimEnds
    <2> QED
        BY <1>0, <2>1, LineRead
<1>2. InHeader(r) /\ line = <<>> /\ pc' = "status" /\ UNCHANGED response /\ response.status \in 100..199
    BY <1>0, <1>1 DEF Stage, InterimEnds
<1>3. InInterim(r) /\ response.body = <<>>
    <2>1. r.status \notin 100..199
        BY ResponseIs
    <2> QED
        BY <1>2, <2>1 DEF InHeader, InFields
<1>4. PICK n \in Nat : Ahead(<<Cell("field", 0)>>, Then(<<>>, Interims(n, r))) \/ Ahead(<<>>, Interims(n, r))
    BY <1>3 DEF InInterim
<1>5. ~Ahead(<<Cell("field", 0)>>, Then(<<>>, Interims(n, r)))
    <2>1. <<Cell("field", 0)>> # <<>>
        OBVIOUS
    <2> QED
        BY <1>1, <1>2, <2>1, LinesOf
<1>6. Rest' = Interims(n, r)
    BY <1>1, <1>4, <1>5, LinesOf
<1> QED
    BY <1>1, <1>2, <1>3, <1>6, FreshIs

---------------------------------------------------------------------------
(* The end of the headers *)

LEMMA HeaderIs ==
    ASSUME NEW kinds, NEW n \in Nat, Len(headers) = n, NEW i \in 1..n, \E kind \in kinds : Is(headers[i], kind),
           \A j \in 1..n : (\E kind \in kinds : Is(headers[j], kind)) => i <= j
    PROVE  Header(kinds) = headers[i][1]
<1> DEFINE found == {j \in 1..Len(headers) : \E kind \in kinds : Is(headers[j], kind)}
<1>1. i \in found /\ (\A j \in found : i <= j) /\ found \subseteq Nat
    OBVIOUS
<1>2. Header(kinds) = headers[CHOOSE h \in found : \A j \in found : h <= j][1]
    BY <1>1 DEF Header
<1> HIDE DEF found
<1>3. i = CHOOSE h \in found : \A j \in found : h <= j
    <2>1. \A h \in found : (\A j \in found : h <= j) => h = i
        BY <1>1
    <2> QED
        BY <1>1, <2>1
<1> QED
    BY <1>2, <1>3

LEMMA NoHeaderIs ==
    ASSUME NEW kinds, \A j \in 1..Len(headers) : ~(\E kind \in kinds : Is(headers[j], kind))
    PROVE  Header(kinds).k = "none"
BY DEF Header

\* What the client finds in the headers of a response tells how it is framed.
LEMMA FramingIs ==
    ASSUME NEW r \in Responses, headers = Fields(r)
    PROVE  LET coding == Header({"chunked", "coding"})
               length == Header({"length"})
           IN  /\ (coding.k = "chunked") <=> (r.framing = "chunked")
               /\ r.framing = "length" => length = Cell("length", Len(Body(r)))
               /\ r.framing = "close" => length.k = "none"
<1>0. r.framing \in {"length", "chunked", "close", "empty"}
    BY ResponseIs
<1>1. CASE r.framing = "chunked"
    <2>1. PICK a, b : a = <<Cell("length", 7)>> /\ b = <<Cell("chunked", 0)>>
        OBVIOUS
    <2>2. headers = <<a, b>>
        BY <1>1, <2>1 DEF Fields, FirstField
    <2>3. Len(headers) = 2 /\ headers[1] = a /\ headers[2] = b
        BY <2>2
    <2>4. ~Is(a, "chunked") /\ ~Is(a, "coding") /\ Is(b, "chunked") /\ b[1] = Cell("chunked", 0)
        BY <2>1 DEF Is, Cell
    <2>5. \A j \in 1..2 : (\E kind \in {"chunked", "coding"} : Is(headers[j], kind)) => 2 <= j
        BY <2>3, <2>4
    <2>6. Header({"chunked", "coding"}) = headers[2][1]
        <3>1. 2 \in Nat /\ 2 \in 1..2 /\ \E kind \in {"chunked", "coding"} : Is(headers[2], kind)
            BY <2>3, <2>4
        <3> QED
            BY <2>3, <2>5, <3>1, HeaderIs
    <2> QED
        BY <1>1, <2>3, <2>4, <2>6 DEF Cell
<1>2. CASE r.framing # "chunked"
    <2>1. PICK c : c = FirstField(r)
        OBVIOUS
    <2>2. headers = <<<<c>>>>
        BY <1>2, <2>1 DEF Fields
    <2>3. Len(headers) = 1 /\ headers[1] = <<c>> /\ headers[1][1] = c
        BY <2>2
    <2>4. \A kind : Is(headers[1], kind) <=> c.k = kind
        BY <2>3 DEF Is
    <2>5. ASSUME NEW kinds, c.k \in kinds PROVE Header(kinds) = c
        <3>1. /\ 1 \in Nat /\ 1 \in 1..1 /\ \E kind \in kinds : Is(headers[1], kind)
              /\ \A j \in 1..1 : (\E kind \in kinds : Is(headers[j], kind)) => 1 <= j
            BY <2>4, <2>5
        <3>2. Header(kinds) = headers[1][1]
            BY <2>3, <3>1, HeaderIs
        <3> QED
            BY <2>3, <3>2
    <2>6. ASSUME NEW kinds, c.k \notin kinds PROVE Header(kinds).k = "none"
        <3>1. \A j \in 1..Len(headers) : ~(\E kind \in kinds : Is(headers[j], kind))
            BY <2>3, <2>4, <2>6
        <3> QED
            BY <3>1, NoHeaderIs
    <2>7. CASE r.framing = "close"
        <3>1. c.k = "coding"
            BY <2>1, <2>7 DEF FirstField, Cell
        <3>2. Header({"chunked", "coding"}) = c /\ Header({"length"}).k = "none"
            BY <2>5, <2>6, <3>1
        <3> QED
            BY <2>7, <3>1, <3>2
    <2>8. CASE r.framing # "close"
        <3>1. c.k = "length" /\ (r.framing = "length" => c = Cell("length", Len(Body(r))))
            BY <1>0, <1>2, <2>1, <2>8 DEF FirstField, Cell
        <3>2. Header({"chunked", "coding"}).k = "none" /\ Header({"length"}) = c
            BY <2>5, <2>6, <3>1
        <3> QED
            BY <1>2, <2>8, <3>1, <3>2
    <2> QED
        BY <2>7, <2>8
<1> QED
    BY <1>1, <1>2

\* The line before a chunk, or before the trailers.
LEMMA ChunksAhead ==
    ASSUME NEW r \in Responses, r.framing = "chunked", NEW b, IsParts(b), Missing(r, FlattenSeq(b))',
           line' = <<>>, Rest' = Chunks(b, r.trailers), pc' = "size"
    PROVE  Stage(r)'
<1>0. b \in Seq(Seq(DataCell)) /\ r.trailers \in Nat /\ <<>> \in Seq(DataCell)
    BY ResponseIs DEF IsParts
<1>1. CASE b = <<>>
    <2>1. FlattenSeq(b) = <<>>
        BY <1>1 DEF FlattenSeq
    <2>2. Rest' = Then(<<Cell("size", 0)>>, Trailers(r.trailers))
        BY <1>0, <1>1, ChunksIs
    <2>3. Ahead(<<Cell("size", 0)>>, Trailers(r.trailers))' /\ Missing(r, <<>>)'
        BY <2>1, <2>2 DEF Ahead
    <2>4. InSize(r)'
        BY <2>3 DEF InSize
    <2> QED
        BY <2>4 DEF InChunks, Stage, Waiting, Over
<1>2. CASE b # <<>>
    <2>1. PICK d, q : d = Head(b) /\ q = Tail(b)
        OBVIOUS
    <2>2. d \in Seq(DataCell) /\ q \in Seq(Seq(DataCell)) /\ b = <<d>> \o q /\ Len(q) = Len(b) - 1
        BY <1>0, <1>2, <2>1, FirstAndRest
    <2>3. Len(d) \in 1..(SizeMax - 1) /\ IsParts(q)
        <3>1. Len(b) \in Nat \ {0} /\ d = b[1] /\ \A i \in 1..Len(q) : q[i] = b[i + 1]
            BY <1>0, <1>2, <2>1
        <3>2. \A i \in 1..Len(b) : Len(b[i]) \in 1..(SizeMax - 1)
            BY DEF IsParts
        <3>3. \A i \in 1..Len(q) : i + 1 \in 1..Len(b)
            BY <2>2, <3>1
        <3> QED
            BY <2>2, <3>1, <3>2, <3>3 DEF IsParts
    <2>4. FlattenSeq(b) = d \o FlattenSeq(q)
        BY <2>2, FlattenFirst
    <2>5. Rest' = Then(<<Cell("size", Len(d))>>, d \o Then(<<>>, Chunks(q, r.trailers)))
        BY <1>0, <2>2, ChunksIs
    <2>6. Ahead(<<Cell("size", Len(d))>>, d \o Then(<<>>, Chunks(q, r.trailers)))'
        BY <2>5 DEF Ahead
    <2>7. Missing(r, d \o FlattenSeq(q))'
        BY <2>4
    <2>8. InSize(r)'
        BY <2>2, <2>3, <2>6, <2>7 DEF InSize
    <2> QED
        BY <2>8 DEF InChunks, Stage, Waiting, Over
<1> QED
    BY <1>1, <1>2

LEMMA PartsAre == ASSUME NEW r \in Responses PROVE IsParts(r.parts)
<1>1. r.parts \in Seq(Seq(DataCell))
    BY ResponseIs
<1>2. /\ Len(Body(r)) < SizeMax
      /\ \A i \in 1..Len(r.parts) : Len(r.parts[i]) \in 1..(SizeMax - 1)
      /\ r.framing = "empty" => r.status \in {204, 304}
    BY ResponsesAssumption, Zenon DEF ResponsesAssumption
<1> QED
    BY <1>1, <1>2, Zenon DEF IsParts

LEMMA HeadersEndSteps ==
    ASSUME NEW r \in Responses, Follows(r), HeadersEnd
    PROVE  WireOK' /\ Stage(r)'
<1>0. WireOK /\ RequestOK /\ Stage(r)
    BY DEF Follows
<1>1. /\ WireOK' /\ line' = <<>> /\ pc = "header" /\ UNCHANGED request
      /\ \A l, t : IsLine(l) /\ t \in Texts /\ Ahead(l, t) => line = l /\ Rest' = t
    <2>1. EndLine({"header"})
        BY DEF HeadersEnd
    <2> QED
        BY <1>0, <2>1, LineRead
<1>2. InHeader(r) /\ line = <<>> /\ response.status \notin 100..199 /\ response.body = <<>>
    BY <1>0, <1>1 DEF Stage, HeadersEnd, InHeader
<1>3. InFields(r)
    <2>1. 100 \in 100..199
        OBVIOUS
    <2>2. response.status # 100
        BY <1>2, <2>1
    <2>3. ~InInterim(r)
        BY <2>2 DEF InInterim
    <2> QED
        BY <1>2, <2>3 DEF InHeader
<1>4. headers = Fields(r) /\ Ahead(<<>>, Payload(r)) /\ response.status = r.status
    <2>1. <<FirstField(r)>> # <<>> /\ <<Cell("chunked", 0)>> # <<>>
        OBVIOUS
    <2> QED
        BY <1>1, <1>2, <1>3, <2>1, LinesOf DEF InFields
<1>5. Rest' = Payload(r)
    BY <1>1, <1>4, LinesOf
<1>6. (NoBody <=> ~HasBody(r)) /\ (HasBody(r)' <=> HasBody(r))
    BY <1>1, <1>4 DEF NoBody, HasBody
<1>7. /\ r.framing \in {"length", "chunked", "close", "empty"} /\ r.parts \in Seq(Seq(DataCell))
      /\ Body(r) \in Seq(DataCell) /\ Len(Body(r)) \in Nat /\ Len(Body(r)) < SizeMax
      /\ (r.framing = "empty" => r.status \in {204, 304}) /\ IsParts(r.parts)
    BY ResponseIs, PartsAre
<1>8. ASSUME response' = response, HasBody(r) PROVE Missing(r, Body(r))'
    <2>1. <<>> \o Body(r) = Body(r) /\ <<>> \in Seq(DataCell)
        BY <1>7, Nothing
    <2> QED
        BY ZenonT(60), <1>2, <1>4, <1>6, <1>7, <1>8, <2>1 DEF Missing
<1>9. CASE ~HasBody(r)
    <2>1. pc' = "close" /\ response' = response
        BY <1>6, <1>9 DEF HeadersEnd
    <2>2. AtEnd(r)'
        BY <1>2, <1>4, <1>6, <1>9, <2>1 DEF AtEnd
    <2> QED
        BY <1>1, <2>1, <2>2, OverIs DEF Over
<1>10. CASE HasBody(r)
    <2> DEFINE coding == Header({"chunked", "coding"})
               length == Header({"length"})
    <2>1. IF coding.k = "chunked" THEN pc' = "size" /\ UNCHANGED <<left, response>>
           ELSE IF length.k = "length" THEN
               IF length.n = NoNumber THEN Fail("body") /\ UNCHANGED left
               ELSE BeginBody(length.n, "body", "close") /\ UNCHANGED response
           ELSE BeginBody(SizeMax, "body", "close") /\ UNCHANGED response
        BY <1>6, <1>10 DEF HeadersEnd
    <2>2. /\ (coding.k = "chunked") <=> (r.framing = "chunked")
          /\ r.framing = "length" => length = Cell("length", Len(Body(r)))
          /\ r.framing = "close" => length.k = "none"
        BY <1>4, FramingIs
    <2> HIDE DEF coding, length
    <2>3. r.framing # "empty"
        BY <1>7, <1>10 DEF HasBody
    <2>4. CASE r.framing = "chunked"
        <3>1. pc' = "size" /\ response' = response
            BY <2>1, <2>2, <2>4
        <3>2. Missing(r, FlattenSeq(r.parts))'
            BY <1>8, <1>10, <3>1 DEF Body
        <3>3. Rest' = Chunks(r.parts, r.trailers)
            BY <1>5, <2>4 DEF Payload
        <3> QED
            BY <1>1, <1>7, <2>4, <3>1, <3>2, <3>3, ChunksAhead
    <2>5. CASE r.framing = "length"
        <3>1. length.k = "length" /\ length.n = Len(Body(r)) /\ length.n # NoNumber /\ coding.k # "chunked"
            BY <1>7, <2>2, <2>5 DEF Cell, NoNumber
        <3>2. /\ left' = Len(Body(r)) /\ pc' = (IF Len(Body(r)) = 0 THEN "close" ELSE "body")
              /\ response' = response
            BY <2>1, <3>1 DEF BeginBody
        <3>3. Missing(r, Body(r))' /\ Rest' = Body(r)
            BY <1>5, <1>8, <1>10, <2>5, <3>2 DEF Payload
        <3>4. CASE Len(Body(r)) = 0
            <4>1. Body(r) = <<>> /\ pc' = "close"
                BY <1>7, <3>2, <3>4
            <4>2. IsPrefix(<<>>, <<>>)
                <5>1. <<>> \in Seq(DataCell)
                    OBVIOUS
                <5> QED
                    BY <5>1, EmptyIsPrefix
            <4>3. AtEnd(r)'
                BY <1>2, <1>4, <1>6, <1>10, <3>2, <4>1, <4>2 DEF AtEnd
            <4> QED
                BY <1>1, <4>1, <4>3, OverIs DEF Over
        <3>5. CASE Len(Body(r)) # 0
            <4>1. pc' = "body" /\ Body(r) # <<>>
                BY <3>2, <3>5
            <4>2. InBody(r)'
                BY <1>7, <2>5, <3>2, <3>3, <4>1 DEF InBody
            <4> QED
                BY <1>1, <4>1, <4>2 DEF Stage, Waiting, Over
        <3> QED
            BY <3>4, <3>5
    <2>6. CASE r.framing = "close"
        <3>1. coding.k # "chunked" /\ length.k # "length" /\ SizeMax # 0
            BY <2>2, <2>6, SizesAssumption DEF SizesAssumption
        <3>2. left' = SizeMax /\ pc' = "body" /\ response' = response
            BY <2>1, <3>1 DEF BeginBody
        <3>3. Missing(r, Body(r))' /\ Rest' = Body(r)
            BY <1>5, <1>8, <1>10, <2>6, <3>2 DEF Payload
        <3>4. InBody(r)'
            BY <1>7, <2>6, <3>2, <3>3 DEF InBody
        <3> QED
            BY <1>1, <3>2, <3>4 DEF Stage, Waiting, Over
    <2> QED
        BY <1>7, <2>3, <2>4, <2>5, <2>6
<1> QED
    BY <1>9, <1>10

---------------------------------------------------------------------------
(* The lines between the chunks, and after them *)

LEMMA TrailersAhead ==
    ASSUME NEW r \in Responses, r.framing = "chunked", NEW n \in Nat, Missing(r, <<>>)',
           line' = <<>>, Rest' = Trailers(n), pc' = "trailer"
    PROVE  Stage(r)'
<1>1. CASE n = 0
    <2>1. Rest' = Then(<<>>, <<>>)
        BY <1>1, TrailersIs
    <2>2. Ahead(<<>>, <<>>)'
        BY <2>1 DEF Ahead
    <2>3. InTrailer(r)'
        BY <2>2 DEF InTrailer
    <2> QED
        BY <2>3 DEF InChunks, Stage, Waiting, Over
<1>2. CASE n # 0
    <2>1. PICK m \in Nat : n = m + 1
        BY <1>2
    <2>2. Rest' = Then(<<Cell("field", 0)>>, Trailers(m))
        BY <2>1, TrailersIs
    <2>3. Ahead(<<Cell("field", 0)>>, Trailers(m))'
        BY <2>2 DEF Ahead
    <2>4. InTrailer(r)'
        BY <2>3 DEF InTrailer
    <2> QED
        BY <2>4 DEF InChunks, Stage, Waiting, Over
<1> QED
    BY <1>1, <1>2

LEMMA SizeSteps ==
    ASSUME NEW r \in Responses, Follows(r), ChunkSizeLine
    PROVE  WireOK' /\ Stage(r)'
<1>0. WireOK /\ RequestOK /\ Stage(r) /\ r.trailers \in Nat
    BY ResponseIs DEF Follows
<1>1. /\ WireOK' /\ line' = <<>> /\ pc = "size" /\ UNCHANGED request
      /\ \A l, t : IsLine(l) /\ t \in Texts /\ Ahead(l, t) => line = l /\ Rest' = t
    <2>1. EndLine({"size"})
        BY DEF ChunkSizeLine
    <2> QED
        BY <1>0, <2>1, LineRead
<1>2. InSize(r) /\ r.framing = "chunked"
    BY <1>0, <1>1 DEF Stage, InChunks
<1>3. ASSUME NEW n \in Nat, line = <<Cell("size", n)>>
      PROVE  /\ response' = response
             /\ IF n = 0 THEN pc' = "trailer" ELSE left' = n /\ pc' = "chunk"
    <2>1. Is(line, "size") /\ line[1].n = n
        BY <1>3 DEF Is, Cell
    <2> QED
        BY <2>1 DEF ChunkSizeLine, BeginBody
<1>4. \A d : response' = response /\ Missing(r, d) => Missing(r, d)'
    BY <1>1 DEF Missing, HasBody
<1>5. CASE Missing(r, <<>>) /\ Ahead(<<Cell("size", 0)>>, Trailers(r.trailers))
    <2>1. line = <<Cell("size", 0)>> /\ Rest' = Trailers(r.trailers)
        BY <1>0, <1>1, <1>5, LinesOf
    <2>2. pc' = "trailer" /\ Missing(r, <<>>)'
        BY <1>3, <1>4, <1>5, <2>1
    <2> QED
        BY <1>0, <1>1, <1>2, <2>1, <2>2, TrailersAhead
<1>6. ASSUME NEW b \in Seq(Seq(DataCell)), NEW d \in Seq(DataCell),
             IsParts(b), Len(d) \in 1..(SizeMax - 1), Missing(r, d \o FlattenSeq(b)),
             Ahead(<<Cell("size", Len(d))>>, d \o Then(<<>>, Chunks(b, r.trailers)))
      PROVE  Stage(r)'
    <2>1. line = <<Cell("size", Len(d))>> /\ Rest' = d \o Then(<<>>, Chunks(b, r.trailers))
        BY <1>1, <1>6, LinesOf
    <2>2. Len(d) \in Nat /\ Len(d) # 0
        BY <1>6
    <2>3. pc' = "chunk" /\ left' = Len(d) /\ Missing(r, d \o FlattenSeq(b))'
        BY <1>3, <1>4, <1>6, <2>1, <2>2
    <2>4. InChunk(r)'
        BY <1>1, <1>6, <2>1, <2>3 DEF InChunk
    <2> QED
        BY <1>2, <2>3, <2>4 DEF InChunks, Stage, Waiting, Over
<1> QED
    BY <1>1, <1>2, <1>5, <1>6 DEF InSize

LEMMA ChunkEndSteps ==
    ASSUME NEW r \in Responses, Follows(r), ChunkEndLine
    PROVE  WireOK' /\ Stage(r)'
<1>0. WireOK /\ RequestOK /\ Stage(r)
    BY DEF Follows
<1>1. /\ WireOK' /\ line' = <<>> /\ pc = "chunkEnd" /\ UNCHANGED request
      /\ \A l, t : IsLine(l) /\ t \in Texts /\ Ahead(l, t) => line = l /\ Rest' = t
    <2>1. EndLine({"chunkEnd"})
        BY DEF ChunkEndLine
    <2> QED
        BY <1>0, <2>1, LineRead
<1>2. r.framing = "chunked" /\ pc' = "size" /\ response' = response
    BY <1>0, <1>1 DEF Stage, InChunks, ChunkEndLine
<1>3. PICK b \in Seq(Seq(DataCell)) :
          IsParts(b) /\ Missing(r, FlattenSeq(b)) /\ Ahead(<<>>, Chunks(b, r.trailers))
    BY <1>0, <1>1 DEF Stage, InChunks, InChunkEnd
<1>4. Rest' = Chunks(b, r.trailers)
    BY <1>1, <1>3, LinesOf
<1>5. Missing(r, FlattenSeq(b))'
    BY <1>1, <1>2, <1>3 DEF Missing, HasBody
<1> QED
    BY <1>1, <1>2, <1>3, <1>4, <1>5, ChunksAhead

LEMMA AllIsRead ==
    ASSUME NEW r \in Responses, pc' = "close", Missing(r, <<>>)'
    PROVE  Stage(r)'
<1>1. IsPrefix(response.body, Body(r))' /\ response'.body = Body(r)
    <2>1. PICK s : s = response'.body
        OBVIOUS
    <2>2. s \in Seq(DataCell) /\ s \o <<>> = Body(r) /\ <<>> \in Seq(DataCell)
        BY <2>1 DEF Missing
    <2>3. s \o <<>> = s /\ IsPrefix(s, s \o <<>>)
        BY <2>2, PrefixIs, Nothing
    <2> QED
        BY <2>1, <2>2, <2>3
<1>2. AtEnd(r)'
    BY <1>1 DEF AtEnd, Missing
<1> QED
    BY <1>2, OverIs DEF Over

LEMMA TrailerSteps ==
    ASSUME NEW r \in Responses, Follows(r), TrailerLine
    PROVE  WireOK' /\ Stage(r)'
<1>0. WireOK /\ RequestOK /\ Stage(r)
    BY DEF Follows
<1>1. /\ WireOK' /\ line' = <<>> /\ pc = "trailer" /\ UNCHANGED request
      /\ \A l, t : IsLine(l) /\ t \in Texts /\ Ahead(l, t) => line = l /\ Rest' = t
    <2>1. EndLine({"trailer"})
        BY DEF TrailerLine
    <2> QED
        BY <1>0, <2>1, LineRead
<1>2. r.framing = "chunked" /\ InTrailer(r) /\ response' = response /\ pc' = (IF line = <<>> THEN "close" ELSE "trailer")
    BY <1>0, <1>1 DEF Stage, InChunks, TrailerLine
<1>3. Missing(r, <<>>)'
    BY <1>1, <1>2 DEF InTrailer, Missing, HasBody
<1>4. CASE line = <<>>
    BY <1>1, <1>2, <1>3, <1>4, AllIsRead
<1>5. ASSUME NEW n \in Nat, Ahead(<<Cell("field", 0)>>, Trailers(n)) PROVE Stage(r)'
    <2>1. line = <<Cell("field", 0)>> /\ Rest' = Trailers(n)
        BY <1>1, <1>5, LinesOf
    <2>2. <<Cell("field", 0)>> # <<>>
        OBVIOUS
    <2> QED
        BY <1>1, <1>2, <1>3, <2>1, <2>2, TrailersAhead
<1>6. Ahead(<<>>, <<>>) => line = <<>>
    BY <1>1, LinesOf
<1> QED
    BY <1>1, <1>2, <1>4, <1>5, <1>6 DEF InTrailer

---------------------------------------------------------------------------
(* The body *)

CutAt(X, s, k) ==
    /\ SubSeq(s, 1, k) \in Seq(X) /\ Len(SubSeq(s, 1, k)) = k
    /\ SubSeq(s, k + 1, Len(s)) \in Seq(X) /\ Len(SubSeq(s, k + 1, Len(s))) = Len(s) - k
    /\ s = SubSeq(s, 1, k) \o SubSeq(s, k + 1, Len(s))

LEMMA CutJoin == ASSUME NEW X, NEW s \in Seq(X), NEW k \in Nat, k <= Len(s) PROVE CutAt(X, s, k)
<1> DEFINE a == SubSeq(s, 1, k)
           b == SubSeq(s, k + 1, Len(s))
           w == a \o b
<1>1. a \in Seq(X) /\ Len(a) = k /\ (\A i \in 1..k : a[i] = s[i])
      /\ b \in Seq(X) /\ Len(b) = Len(s) - k /\ \A i \in 1..(Len(s) - k) : b[i] = s[k + i]
    BY CutIs
<1> HIDE DEF a, b
<1>2. /\ w \in Seq(X) /\ Len(w) = Len(a) + Len(b)
      /\ (\A i \in 1..Len(a) : w[i] = a[i]) /\ \A i \in 1..Len(b) : w[Len(a) + i] = b[i]
    <2>1. a \in Seq(X) /\ b \in Seq(X)
        BY <1>1
    <2> QED
        BY <2>1, ConcatIs
<1> HIDE DEF w
<1>3. Len(s) \in Nat /\ Len(w) = Len(s)
    BY <1>1, <1>2
<1>4. \A i \in 1..Len(s) : s[i] = w[i]
    <2> TAKE i \in 1..Len(s)
    <2>1. CASE i <= k
        BY <1>1, <1>2, <1>3, <2>1
    <2>2. CASE ~(i <= k)
        <3> DEFINE j == i - k
        <3>1. j \in 1..(Len(s) - k) /\ i = k + j
            BY <1>3, <2>2
        <3> HIDE DEF j
        <3> QED
            BY <1>1, <1>2, <3>1
    <2> QED
        BY <2>1, <2>2
<1>5. s = w
    BY <1>2, <1>3, <1>4, SameSeq
<1> QED
    BY <1>1, <1>5 DEF a, b, w, CutAt

LEMMA SameLengthSplit ==
    ASSUME NEW X, NEW a \in Seq(X), NEW b \in Seq(X), NEW c \in Seq(X), NEW d \in Seq(X)
    PROVE  Len(a) = Len(c) /\ a \o b = c \o d => a = c /\ b = d
<1>1. /\ a \o b \in Seq(X) /\ Len(a \o b) = Len(a) + Len(b) /\ Len(a) \in Nat /\ Len(b) \in Nat
      /\ (\A i \in 1..Len(a) : (a \o b)[i] = a[i]) /\ \A i \in 1..Len(b) : (a \o b)[Len(a) + i] = b[i]
    BY ConcatIs
<1>2. /\ c \o d \in Seq(X) /\ Len(c \o d) = Len(c) + Len(d) /\ Len(c) \in Nat /\ Len(d) \in Nat
      /\ (\A i \in 1..Len(c) : (c \o d)[i] = c[i]) /\ \A i \in 1..Len(d) : (c \o d)[Len(c) + i] = d[i]
    BY ConcatIs
<1> SUFFICES ASSUME Len(a) = Len(c), a \o b = c \o d PROVE a = c /\ b = d
    OBVIOUS
<1>3. PICK s : s = a \o b
    OBVIOUS
<1>4. /\ Len(s) = Len(a) + Len(b) /\ Len(s) = Len(c) + Len(d) /\ {Len(a), Len(b), Len(c), Len(d)} \subseteq Nat
      /\ (\A i \in 1..Len(a) : s[i] = a[i]) /\ (\A i \in 1..Len(b) : s[Len(a) + i] = b[i])
      /\ (\A i \in 1..Len(c) : s[i] = c[i]) /\ (\A i \in 1..Len(d) : s[Len(c) + i] = d[i])
    BY <1>1, <1>2, <1>3
<1>5. \A i \in 1..Len(a) : a[i] = c[i]
    BY <1>4
<1>6. Len(b) = Len(d) /\ \A i \in 1..Len(b) : b[i] = d[i]
    BY <1>4
<1>7. a = c
    BY <1>5, SameSeq
<1>8. b = d
    BY SMTT(40), <1>6, SameSeq
<1> QED
    BY <1>7, <1>8

\* As much is taken out of the buffer as is there and belongs to what is read.
Taken(X, s, u, d, v, k) ==
    k <= Len(s) /\ k <= Len(d) /\ s \o u = d \o v =>
        /\ SubSeq(s, 1, k) = SubSeq(d, 1, k)
        /\ SubSeq(s, k + 1, Len(s)) \o u = SubSeq(d, k + 1, Len(d)) \o v
        /\ SubSeq(s, k + 1, Len(s)) \in Seq(X)

LEMMA TakenIs ==
    ASSUME NEW X, NEW s \in Seq(X), NEW u \in Seq(X), NEW d \in Seq(X), NEW v \in Seq(X), NEW k \in Nat
    PROVE  Taken(X, s, u, d, v, k)
<1>1. PICK a, b, c, e : a = SubSeq(s, 1, k) /\ b = SubSeq(s, k + 1, Len(s)) /\ c = SubSeq(d, 1, k) /\ e = SubSeq(d, k + 1, Len(d))
    OBVIOUS
<1>2. ASSUME a \in Seq(X), b \in Seq(X) PROVE (a \o b) \o u = a \o (b \o u) /\ b \o u \in Seq(X)
    BY <1>2, SMTT(40)
<1>3. ASSUME c \in Seq(X), e \in Seq(X) PROVE (c \o e) \o v = c \o (e \o v) /\ e \o v \in Seq(X)
    BY <1>3, SMTT(40)
<1>4. PICK p, q : p = b \o u /\ q = e \o v
    OBVIOUS
<1>5. ASSUME a \in Seq(X), c \in Seq(X), p \in Seq(X), q \in Seq(X)
      PROVE  Len(a) = Len(c) /\ a \o p = c \o q => a = c /\ p = q
    BY <1>5, SameLengthSplit
<1> SUFFICES ASSUME k <= Len(s), k <= Len(d), s \o u = d \o v
             PROVE  /\ SubSeq(s, 1, k) = SubSeq(d, 1, k)
                    /\ SubSeq(s, k + 1, Len(s)) \o u = SubSeq(d, k + 1, Len(d)) \o v
                    /\ SubSeq(s, k + 1, Len(s)) \in Seq(X)
    BY DEF Taken
<1>6. /\ SubSeq(s, 1, k) \in Seq(X) /\ Len(SubSeq(s, 1, k)) = k /\ SubSeq(s, k + 1, Len(s)) \in Seq(X)
      /\ s = SubSeq(s, 1, k) \o SubSeq(s, k + 1, Len(s))
    <2>1. CutAt(X, s, k)
        BY CutJoin, Zenon
    <2> QED
        BY <2>1, Zenon DEF CutAt
<1>7. /\ SubSeq(d, 1, k) \in Seq(X) /\ Len(SubSeq(d, 1, k)) = k /\ SubSeq(d, k + 1, Len(d)) \in Seq(X)
      /\ d = SubSeq(d, 1, k) \o SubSeq(d, k + 1, Len(d))
    <2>1. CutAt(X, d, k)
        BY CutJoin, Zenon
    <2> QED
        BY <2>1, Zenon DEF CutAt
<1>8. s = a \o b /\ d = c \o e /\ Len(a) = Len(c) /\ a \in Seq(X) /\ b \in Seq(X) /\ c \in Seq(X) /\ e \in Seq(X)
    BY <1>1, <1>6, <1>7
<1>9. a \o p = c \o q /\ p \in Seq(X) /\ q \in Seq(X)
    BY <1>2, <1>3, <1>4, <1>8
<1> QED
    BY <1>1, <1>4, <1>5, <1>8, <1>9

\* What is read now is d, and v comes after it.
Reads(d, v) == Rest = d \o v

\* What is taken goes to the body, the rest of it is still missing.
BodyTaken(r, d, f, v, k) ==
    Take = k /\ k <= Len(buffer) /\ k <= Len(d) =>
        \E e \in Seq(DataCell) : WireOK' /\ Len(e) = Len(d) - k /\ Missing(r, e \o f)' /\ Rest' = e \o v

LEMMA BodyRead ==
    ASSUME NEW r \in Responses, WireOK, RequestOK, ReadBody, NEW d \in Seq(DataCell), NEW f \in Seq(DataCell), NEW v \in Texts,
           Missing(r, d \o f), Reads(d, v), NEW k \in Nat
    PROVE  BodyTaken(r, d, f, v, k)
<1>1. PICK s, u, b, w : s = buffer /\ u = Coming /\ b = response.body /\ w = response'.body
    OBVIOUS
<1>2. /\ s \in Seq(Cells) /\ u \in Seq(Cells) /\ b \in Seq(DataCell) /\ d \in Seq(Cells) /\ v \in Seq(Cells)
    BY <1>1, RestIs, DataIs DEF WireOK, Texts, Missing
<1>3. Taken(Cells, s, u, d, v, k)
    <2>1. s \in Seq(Cells) /\ u \in Seq(Cells) /\ d \in Seq(Cells) /\ v \in Seq(Cells) /\ k \in Nat
        BY <1>2
    <2> QED
        BY <2>1, TakenIs
<1>4. PICK a, e : a = SubSeq(d, 1, k) /\ e = SubSeq(d, k + 1, Len(d))
    OBVIOUS
<1>b. b \in Seq(DataCell)
    BY <1>2
<1>5. ASSUME a \in Seq(DataCell), e \in Seq(DataCell) PROVE (a \o e) \o f = a \o (e \o f) /\ e \o f \in Seq(DataCell)
    BY <1>5, SMT
<1>6. PICK g : g = e \o f
    OBVIOUS
<1>7. ASSUME a \in Seq(DataCell), g \in Seq(DataCell) PROVE (b \o a) \o g = b \o (a \o g) /\ b \o a \in Seq(DataCell)
    BY <1>b, <1>7, SMT
<1> SUFFICES ASSUME Take = k, k <= Len(buffer), k <= Len(d)
             PROVE  \E x \in Seq(DataCell) :
                        WireOK' /\ Len(x) = Len(d) - k /\ Missing(r, x \o f)' /\ Rest' = x \o v
    BY DEF BodyTaken
<1>8. /\ buffer' = SubSeq(s, k + 1, Len(s)) /\ w = b \o SubSeq(s, 1, k) /\ UNCHANGED <<reply, received, request>>
      /\ response'.status = response.status
    BY <1>1 DEF ReadBody, wire, connection, RequestOK, IsResponse
<1>9. s \o u = d \o v
    BY <1>1 DEF Rest, Reads
<1>10. a \in Seq(DataCell) /\ e \in Seq(DataCell) /\ Len(e) = Len(d) - k /\ d = a \o e
    <2>1. /\ SubSeq(d, 1, k) \in Seq(DataCell) /\ SubSeq(d, k + 1, Len(d)) \in Seq(DataCell)
          /\ Len(SubSeq(d, k + 1, Len(d))) = Len(d) - k
          /\ d = SubSeq(d, 1, k) \o SubSeq(d, k + 1, Len(d))
        <3>1. CutAt(DataCell, d, k)
            BY CutJoin, Zenon
        <3> QED
            BY <3>1, Zenon DEF CutAt
    <2> QED
        BY <1>4, <2>1
<1>11. /\ SubSeq(s, 1, k) = a /\ SubSeq(s, k + 1, Len(s)) \o u = e \o v
       /\ SubSeq(s, k + 1, Len(s)) \in Seq(Cells)
    BY <1>1, <1>3, <1>4, <1>9 DEF Taken
<1>12. WireOK' /\ Rest' = e \o v
    <2>1. buffer' \in Texts /\ Coming' = u
        BY <1>1, <1>8, <1>11 DEF Texts, Coming
    <2>2. WireOK'
        BY <1>8, <2>1 DEF WireOK
    <2>3. Rest' = SubSeq(s, k + 1, Len(s)) \o u
        BY <1>8, <2>1 DEF Rest
    <2> QED
        BY <1>11, <2>2, <2>3
<1>13. b \o (d \o f) = w \o g /\ w \in Seq(DataCell) /\ g \in Seq(DataCell)
    <2>1. d \o f = a \o g /\ g \in Seq(DataCell)
        BY <1>5, <1>6, <1>10
    <2>2. w = b \o a
        BY <1>8, <1>11
    <2> QED
        BY <1>7, <1>10, <2>1, <2>2
<1>14. Missing(r, e \o f)'
    <2>1. HasBody(r) /\ response.status = r.status /\ b \o (d \o f) = Body(r)
        BY <1>1 DEF Missing
    <2>2. HasBody(r)'
        BY <1>8, <2>1 DEF HasBody
    <2> QED
        BY <1>1, <1>6, <1>8, <1>13, <2>1, <2>2 DEF Missing
<1> QED
    BY <1>10, <1>12, <1>14

\* How much that is, when what is read ends within the response.
LEMMA TakeIs ==
    ASSUME WireOK, NEW n \in Nat, left = n, n < SizeMax
    PROVE  Take \in Nat /\ Take <= n /\ Take <= Len(buffer) /\ left # SizeMax
<1>1. Len(buffer) \in Nat
    BY DEF WireOK, Texts
<1> QED
    BY <1>1, SizesAssumption DEF SizesAssumption, Take

LEMMA BodySteps ==
    ASSUME NEW r \in Responses, Follows(r), ReadBody, pc = "body"
    PROVE  WireOK' /\ Stage(r)'
<1>0. WireOK /\ RequestOK /\ Stage(r)
    BY DEF Follows
<1>1. PICK d \in Seq(DataCell) :
          /\ Missing(r, d) /\ Rest = d
          /\ \/ r.framing = "length" /\ left = Len(d) /\ d # <<>>
             \/ r.framing = "close" /\ left = SizeMax
    BY <1>0 DEF Stage, InBody
<1>2. <<>> \in Seq(DataCell) /\ <<>> \in Texts /\ d \o <<>> = d /\ d \in Seq(Cells)
    BY Nothing, DataIs DEF Texts
<1>3. Len(d) \in Nat /\ Len(d) < SizeMax /\ SizeMax \in Nat
    BY <1>1, MissingIs, SizesAssumption DEF SizesAssumption
<1>4. ASSUME NEW k \in Nat, Take = k, k <= Len(buffer), k <= Len(d)
      PROVE  \E e \in Seq(DataCell) : WireOK' /\ Len(e) = Len(d) - k /\ Missing(r, e)' /\ Rest' = e
    <2>1. Missing(r, d \o <<>>) /\ Reads(d, <<>>)
        BY <1>1, <1>2 DEF Reads
    <2>2. PICK e \in Seq(DataCell) :
              WireOK' /\ Len(e) = Len(d) - k /\ Missing(r, e \o <<>>)' /\ Rest' = e \o <<>>
        <3>1. BodyTaken(r, d, <<>>, <<>>, k)
            BY <1>0, <1>2, <2>1, BodyRead
        <3> QED
            BY <1>4, <3>1 DEF BodyTaken
    <2>3. e \o <<>> = e
        BY Nothing
    <2> QED
        BY <2>2, <2>3
<1>5. CASE r.framing = "length"
    <2>1. left = Len(d)
        BY <1>1, <1>5
    <2>2. PICK k \in Nat : Take = k /\ k <= Len(d) /\ k <= Len(buffer) /\ left # SizeMax
        BY <1>0, <1>3, <2>1, TakeIs
    <2>3. PICK e \in Seq(DataCell) : WireOK' /\ Len(e) = Len(d) - k /\ Missing(r, e)' /\ Rest' = e
        BY <1>4, <2>2
    <2>4. left' = Len(e) /\ pc' = (IF Len(e) > 0 THEN "body" ELSE "close")
        BY <2>1, <2>2, <2>3 DEF ReadBody
    <2>5. CASE Len(e) > 0
        <3>1. InBody(r)' /\ pc' = "body"
            <4>1. e # <<>>
                BY <2>5
            <4> QED
                BY <1>5, <2>3, <2>4, <2>5, <4>1 DEF InBody
        <3> QED
            BY <2>3, <3>1 DEF Stage, Waiting, Over
    <2>6. CASE ~(Len(e) > 0)
        <3>1. e = <<>> /\ pc' = "close"
            BY <2>4, <2>6
        <3> QED
            BY <2>3, <3>1, AllIsRead
    <2> QED
        BY <2>5, <2>6
<1>6. CASE r.framing = "close"
    <2>1. left = SizeMax /\ Take = Len(buffer)
        BY <1>1, <1>6 DEF Take
    <2>2. Len(buffer) \in Nat /\ Len(buffer) <= Len(d)
        <3>1. buffer \in Seq(Cells) /\ Coming \in Seq(Cells) /\ Rest = buffer \o Coming
            BY <1>0, RestIs DEF WireOK, Texts, Rest
        <3>2. PICK s, u : s = buffer /\ u = Coming
            OBVIOUS
        <3>3. s \in Seq(Cells) /\ u \in Seq(Cells)
            BY <3>1, <3>2
        <3>4. Len(s \o u) = Len(s) + Len(u) /\ Len(s) \in Nat /\ Len(u) \in Nat
            BY <3>3, ConcatIs
        <3> QED
            BY <1>1, <3>1, <3>2, <3>4
    <2>3. PICK e \in Seq(DataCell) : WireOK' /\ Missing(r, e)' /\ Rest' = e
        BY <1>4, <2>1, <2>2
    <2>4. left' = SizeMax /\ pc' = "body"
        BY <1>3, <2>1, SizesAssumption DEF ReadBody, SizesAssumption
    <2>5. InBody(r)'
        BY <1>6, <2>3, <2>4 DEF InBody
    <2> QED
        BY <2>3, <2>4, <2>5 DEF Stage, Waiting, Over
<1> QED
    BY <1>1, <1>5, <1>6

LEMMA ChunkSteps ==
    ASSUME NEW r \in Responses, Follows(r), ReadBody, pc = "chunk"
    PROVE  WireOK' /\ Stage(r)'
<1>0. WireOK /\ RequestOK /\ Stage(r) /\ line' = line
    BY DEF Follows, ReadBody
<1>1. r.framing = "chunked" /\ InChunk(r)
    BY <1>0 DEF Stage, InChunks
<1>2. PICK b \in Seq(Seq(DataCell)), d \in Seq(DataCell) :
          /\ IsParts(b) /\ Len(d) \in 1..(SizeMax - 1) /\ Missing(r, d \o FlattenSeq(b))
          /\ line = <<>> /\ Rest = d \o Then(<<>>, Chunks(b, r.trailers)) /\ left = Len(d)
    BY <1>1 DEF InChunk
<1>3. PICK f, v : f = FlattenSeq(b) /\ v = Then(<<>>, Chunks(b, r.trailers))
    OBVIOUS
<1>4. f \in Seq(DataCell) /\ v \in Texts /\ Len(d) \in Nat /\ Len(d) < SizeMax /\ Chunks(b, r.trailers) \in Texts
    <2>1. f \in Seq(DataCell)
        <3>1. <<>> \in Seq(DataCell)
            OBVIOUS
        <3> QED
            BY <1>3, <3>1, FlattenFirst
    <2>2. Chunks(b, r.trailers) \in Texts
        BY LinesOf
    <2>3. v \in Texts
        BY <1>3, <2>2, FieldAndBreak
    <2> QED
        BY <1>2, <2>1, <2>2, <2>3, SizesAssumption DEF SizesAssumption
<1>5. PICK k \in Nat : Take = k /\ k <= Len(d) /\ k <= Len(buffer) /\ left # SizeMax
    BY <1>0, <1>2, <1>4, TakeIs
<1>6. PICK e \in Seq(DataCell) : WireOK' /\ Len(e) = Len(d) - k /\ Missing(r, e \o f)' /\ Rest' = e \o v
    <2>1. Missing(r, d \o f) /\ Reads(d, v)
        BY <1>2, <1>3 DEF Reads
    <2>2. BodyTaken(r, d, f, v, k)
        BY <1>0, <1>4, <2>1, BodyRead
    <2> QED
        BY <1>5, <2>2 DEF BodyTaken
<1>7. left' = Len(e) /\ pc' = (IF Len(e) > 0 THEN "chunk" ELSE "chunkEnd")
    BY <1>2, <1>5, <1>6 DEF ReadBody
<1>8. CASE Len(e) > 0
    <2>1. Len(e) \in 1..(SizeMax - 1)
        <3> DEFINE m == Len(d)
                   n == Len(e)
        <3>1. m \in 1..(SizeMax - 1) /\ k \in Nat /\ n = m - k /\ n > 0 /\ SizeMax \in Nat
            BY <1>2, <1>5, <1>6, <1>8, SizesAssumption DEF SizesAssumption
        <3> HIDE DEF m, n
        <3>2. n \in 1..(SizeMax - 1)
            BY <3>1
        <3> QED
            BY <3>2 DEF n
    <2>2. InChunk(r)'
        BY <1>0, <1>2, <1>3, <1>6, <1>7, <2>1 DEF InChunk
    <2> QED
        BY <1>1, <1>6, <1>7, <1>8, <2>2 DEF InChunks, Stage, Waiting, Over
<1>9. CASE ~(Len(e) > 0)
    <2>1. e = <<>> /\ <<>> \o f = f /\ <<>> \o v = v
        BY <1>4, <1>9, Nothing DEF Texts
    <2>2. Missing(r, f)' /\ Rest' = v /\ line' = <<>>
        BY <1>0, <1>2, <1>6, <2>1
    <2>3. Ahead(<<>>, Chunks(b, r.trailers))'
        BY <1>3, <2>2 DEF Ahead
    <2>4. InChunkEnd(r)'
        BY <1>2, <1>3, <2>2, <2>3 DEF InChunkEnd
    <2> QED
        BY <1>1, <1>6, <1>7, <1>9, <2>4 DEF InChunks, Stage, Waiting, Over
<1> QED
    BY <1>8, <1>9

---------------------------------------------------------------------------
(* The response *)

LEMMA UnderstoodAtFirst == Init => Understood
<1> SUFFICES ASSUME Init, NEW r \in Sent PROVE Follows(r)
    BY DEF Understood
<1>1. r \in Responses /\ reply = Encode(r) /\ received = 0 /\ buffer = <<>> /\ pc = "connect" /\ line = <<>> /\ response.body = <<>>
    BY DEF Init, Sent
<1>2. reply \in Seq(Cells)
    <2>1. r.interim \in Nat
        BY <1>1, ResponseIs
    <2>2. Interims(r.interim, r) \in Texts
        BY <1>1, <2>1, InterimsIs
    <2> QED
        BY <1>1, <2>2 DEF Encode, Interims, Texts
<1>3. WireOK
    BY <1>1, <1>2 DEF WireOK, Texts
<1>4. Rest = reply
    <2>1. PICK s, t, u : s = reply /\ t = SubSeq(reply, 1, 0) /\ u = SubSeq(reply, 0 + 1, Len(reply))
        OBVIOUS
    <2>2. Len(s) \in Nat /\ 0 \in Nat /\ s \in Seq(Cells)
        BY <1>2, <2>1
    <2>3. /\ SubSeq(s, 1, 0) \in Seq(Cells) /\ Len(SubSeq(s, 1, 0)) = 0
          /\ SubSeq(s, 0 + 1, Len(s)) \in Seq(Cells)
          /\ s = SubSeq(s, 1, 0) \o SubSeq(s, 0 + 1, Len(s))
        <3>1. 0 <= Len(s)
            BY <2>2
        <3>2. CutAt(Cells, s, 0)
            BY <2>2, <3>1, CutJoin, Zenon
        <3> QED
            BY <3>2, Zenon DEF CutAt
    <2>4. t = <<>> /\ s = t \o u
        BY <2>1, <2>3
    <2>5. Rest = t \o u
        BY <1>1, <2>1, <2>4 DEF Rest, Coming
    <2> QED
        BY <2>1, <2>4, <2>5
<1>5. Stage(r)
    BY <1>1, <1>4 DEF Stage, Begin, Waiting, Over
<1> QED
    BY <1>3, <1>5, RequestBegins DEF Follows

LEMMA SinkSteps ==
    ASSUME NEW r \in Responses, Follows(r), SinkRefuses
    PROVE  WireOK' /\ Stage(r)'
<1>1. WireOK' /\ Fail("body") /\ UNCHANGED request
    BY DEF Follows, SinkRefuses, input, wire, WireOK, connection
<1> QED
    BY <1>1, FailsAtEnd DEF Follows

LEMMA CloseSteps ==
    ASSUME NEW r \in Responses, Follows(r), CloseConnection
    PROVE  WireOK' /\ Stage(r)'
<1>1. WireOK' /\ pc = "close" /\ pc' = "done" /\ UNCHANGED <<request, response>>
    BY DEF Follows, CloseConnection, input, wire, WireOK
<1>2. AtEnd(r)
    BY <1>1 DEF Follows, Stage, Over
<1>3. AtEnd(r)'
    BY <1>1, <1>2 DEF AtEnd, HasBody
<1> QED
    BY <1>1, <1>3, OverIs DEF Over

LEMMA IdleSteps ==
    ASSUME NEW r \in Responses, Follows(r), UNCHANGED vars
    PROVE  WireOK' /\ Stage(r)'
<1>1. UNCHANGED <<pc, left, headers, response, request, line, reply, received, buffer>>
    BY DEF vars
<1>2. WireOK' /\ Rest' = Rest
    BY <1>1 DEF Follows, WireOK, Rest, Coming
<1>3. \A l, t : Ahead(l, t) => Ahead(l, t)'
    BY <1>1, <1>2 DEF Ahead
<1> QED
    BY <1>1, <1>2, <1>3, StageStays DEF Follows

LEMMA ReplyStays == ASSUME [Next]_vars PROVE reply' = reply
<1> USE DEF input, wire
<1>1. CASE Connect
    BY <1>1 DEF Connect, ResolveFails, OpenSocket, Connected, ConnectFails, NoAddressLeft, StartTLS
<1>2. CASE Send
    BY <1>2 DEF Send, SendHead, Write, WriteFails, SendBody, SourceFails, RequestSent
<1>3. CASE FillBuffer
    BY <1>3 DEF FillBuffer, Receive, ReceiveEnd, ReceiveFails
<1>4. CASE ReadHead
    BY <1>4 DEF ReadHead, ReadChar, StatusLine, HeaderLine, InterimEnds, HeadersEnd, EndLine
<1>5. CASE ReadChunk
    BY <1>5 DEF ReadChunk, ChunkSizeLine, ChunkEndLine, TrailerLine, ReadBody, SinkRefuses, EndLine
<1>6. CASE CloseConnection
    BY <1>6 DEF CloseConnection
<1>7. CASE UNCHANGED vars
    BY <1>7 DEF vars
<1> QED
    BY <1>1, <1>2, <1>3, <1>4, <1>5, <1>6, <1>7 DEF Next

LEMMA UnderstoodSteps == Understood /\ [Next]_vars => Understood'
<1> SUFFICES ASSUME Understood, [Next]_vars, NEW r \in Sent PROVE Follows(r)'
    BY ReplyStays DEF Understood, Sent
<1>1. r \in Responses /\ Follows(r)
    BY DEF Understood, Sent
<1>2. RequestOK'
    BY <1>1, RequestSteps DEF Follows
<1>3. WireOK' /\ Stage(r)'
    <2>1. CASE Connect
        BY <1>1, <2>1, ConnectSteps
    <2>2. CASE Send
        BY <1>1, <2>2, SendSteps
    <2>3. CASE FillBuffer
        BY <1>1, <2>3, FillSteps
    <2>4. CASE ReadHead
        BY <1>1, <2>4, CharSteps, StatusSteps, HeaderSteps, InterimSteps, HeadersEndSteps DEF ReadHead
    <2>5. CASE ReadBody
        <3>1. pc \in {"body", "chunk"}
            BY <2>5 DEF ReadBody
        <3> QED
            BY <1>1, <2>5, <3>1, BodySteps, ChunkSteps
    <2>6. CASE ReadChunk /\ ~ReadBody
        BY <1>1, <2>6, SizeSteps, ChunkEndSteps, TrailerSteps, SinkSteps DEF ReadChunk
    <2>7. CASE CloseConnection
        BY <1>1, <2>7, CloseSteps
    <2>8. CASE UNCHANGED vars
        BY <1>1, <2>8, IdleSteps
    <2> QED
        BY <2>1, <2>2, <2>3, <2>4, <2>5, <2>6, <2>7, <2>8 DEF Next
<1> QED
    BY <1>2, <1>3 DEF Follows

\* Wherever the network splits a response that follows HTTP/1.1, what is still to be read of it is
\* what the client expects in the state it is in (nh_network_receiveResponse).
THEOREM UnderstoodAlways == Spec => []Understood
BY UnderstoodAtFirst, UnderstoodSteps, PTL DEF Spec

\* What write_f or body_p has got of a response that follows HTTP/1.1 is at any time a beginning
\* of its body, and when the request succeeds it is the response (nh_network_readBody,
\* nh_network_readChunkedBody).
THEOREM ResponsesExact == Spec => []ResponseExact
<1>1. ASSUME Understood, NEW r \in Sent
      PROVE  /\ HasBody(r) => IsPrefix(response.body, Body(r))
             /\ Succeeded =>
                    /\ response.status = r.status
                    /\ HasBody(r) /\ r.framing # "close" => response.body = Body(r)
                    /\ ~HasBody(r) => response.body = <<>>
                    /\ sent = Upload
    <2>1. r \in Responses /\ RequestOK /\ Stage(r)
        BY <1>1 DEF Understood, Follows, Sent
    <2>2. HasBody(r) => IsPrefix(response.body, Body(r))
        BY <2>1, BodyIsPrefix
    <2>3. ASSUME Succeeded PROVE AtEnd(r) /\ sent = Upload /\ pc \in Over /\ response.error = "none"
        <3>1. pc \in Over /\ response.error = "none"
            BY <2>3 DEF Succeeded, Over
        <3> QED
            BY <2>1, <3>1 DEF Stage, RequestOK
    <2> QED
        BY <2>2, <2>3 DEF AtEnd
<1>2. Understood => ResponseExact
    BY <1>1 DEF ResponseExact
<1> QED
    BY <1>2, UnderstoodAlways, PTL

\* When all of a response that says where it ends has come, nothing more is waited for
\* (nh_network_receiveResponse).
THEOREM EndsNoticed == Spec => []EndNoticed
<1>1. ASSUME Understood, NEW r \in Sent, received = Len(reply), HasBody(r) => r.framing # "close", NeedsInput PROVE FALSE
    <2>1. r \in Responses /\ WireOK /\ RequestOK /\ Stage(r) /\ pc \in Reading /\ buffer = <<>>
        BY <1>1 DEF Understood, Follows, Sent, NeedsInput
    <2>2. Rest = <<>>
        <3>1. Coming \in Texts /\ Len(reply) \in Nat /\ Len(Coming) = Len(reply) - received
            BY <2>1, RestIs
        <3>2. PICK u : u = Coming
            OBVIOUS
        <3>3. u = <<>>
            BY <1>1, <3>1, <3>2 DEF Texts
        <3>4. Rest = <<>> \o u
            BY <2>1, <3>2 DEF Rest
        <3> QED
            BY <3>3, <3>4
    <2>3. ASSUME NEW l, NEW t, IsLine(l), t \in Texts, Ahead(l, t) PROVE FALSE
        BY <2>1, <2>2, <2>3, SomethingAhead
    <2>4. r.trailers \in Nat
        BY <2>1, ResponseIs
    <2>5. CASE pc = "status"
        BY <2>1, <2>3, <2>5, LinesOf DEF Stage, InStatus
    <2>6. CASE pc = "header"
        BY ZenonT(60), <2>1, <2>3, <2>6, LinesOf DEF Stage, InHeader, InInterim, InFields
    <2>7. CASE pc = "body"
        BY <1>1, <2>1, <2>2, <2>7 DEF Stage, InBody, Missing
    <2>8. CASE pc = "size"
        BY <2>1, <2>3, <2>4, <2>8, LinesOf DEF Stage, InChunks, InSize
    <2>9. CASE pc = "chunk"
        <3>1. PICK b \in Seq(Seq(DataCell)), d \in Seq(DataCell) :
                  Len(d) \in 1..(SizeMax - 1) /\ Rest = d \o Then(<<>>, Chunks(b, r.trailers))
            BY <2>1, <2>9 DEF Stage, InChunks, InChunk
        <3>2. PICK v : v = Then(<<>>, Chunks(b, r.trailers))
            OBVIOUS
        <3>3. v \in Seq(Cells) /\ d \in Seq(Cells) /\ d # <<>>
            <4>1. Chunks(b, r.trailers) \in Texts
                BY <2>1, LinesOf
            <4>2. v \in Texts /\ d \in Texts
                BY <3>2, <4>1, FieldAndBreak, DataIs
            <4>3. d # <<>>
                BY <3>1
            <4> QED
                BY <4>2, <4>3 DEF Texts
        <3>4. d \o v # <<>>
            BY <3>3, FirstOfTwo
        <3> QED
            BY <2>2, <3>1, <3>2, <3>4
    <2>10. CASE pc = "chunkEnd"
        BY <2>1, <2>3, <2>10, LinesOf DEF Stage, InChunks, InChunkEnd
    <2>11. CASE pc = "trailer"
        BY <2>1, <2>3, <2>11, LinesOf DEF Stage, InChunks, InTrailer
    <2> QED
        BY <2>1, <2>5, <2>6, <2>7, <2>8, <2>9, <2>10, <2>11 DEF Reading, LineStates
<1>2. Understood => EndNoticed
    BY <1>1 DEF EndNoticed
<1> QED
    BY <1>2, UnderstoodAlways, PTL

---------------------------------------------------------------------------
(* The end of a body, whatever the server sends *)

\* The cells of s are among the first n of t.
Among(c, t, n) == \E j \in 1..n : t[j] = c
AllAmong(s, t, n) == s \in Texts /\ \A j \in 1..Len(s) : Among(s[j], t, n)

\* The cells the client has are cells that came.
Arrived ==
    /\ WireOK /\ reply \in Streams
    /\ AllAmong(buffer, reply, received) /\ AllAmong(line, reply, received)
    /\ headers \in Seq(Texts) /\ \A i \in 1..Len(headers) : AllAmong(headers[i], reply, received)
    /\ left \in 0..SizeMax

LEMMA NothingIsAmong == ASSUME NEW t, NEW n PROVE AllAmong(<<>>, t, n)
BY DEF AllAmong, Texts

LEMMA ArrivedAtFirst == Init => Arrived
<1> SUFFICES ASSUME Init PROVE Arrived
    OBVIOUS
<1>1. reply \in Streams /\ received = 0 /\ buffer = <<>> /\ line = <<>> /\ headers = <<>> /\ left = 0
    BY DEF Init
<1>2. reply \in Texts /\ Len(reply) \in Nat
    <2>1. Streams \subseteq Texts
        BY SizesAssumption, Zenon DEF SizesAssumption, Texts, Cells
    <2>2. reply \in Seq(Cells)
        BY <1>1, <2>1 DEF Texts
    <2> QED
        BY <2>2 DEF Texts
<1>3. <<>> \in Texts /\ <<>> \in Seq(Texts) /\ Len(<<>>) = 0
    BY DEF Texts
<1>4. 0 \in 0..SizeMax
    BY SizesAssumption DEF SizesAssumption
<1> QED
    BY <1>1, <1>2, <1>3, <1>4, NothingIsAmong DEF Arrived, WireOK

LEMMA AmongIs ==
    ASSUME Arrived, NEW c, Among(c, reply, received)
    PROVE  /\ c \in Cells
           /\ c.k = "size" => c.n \in 0..SizeMax
           /\ c.k = "length" => c.n \in {NoNumber} \cup 0..SizeMax
<1>1. PICK j \in 1..received : reply[j] = c
    BY DEF Among
<1>2. reply \in Streams /\ reply \in Seq(Cells) /\ received \in 0..Len(reply) /\ Len(reply) \in Nat
    BY DEF Arrived, WireOK, Texts
<1>3. j \in 1..Len(reply)
    BY <1>2
<1>4. reply[j] \in Cells
    BY <1>2, <1>3
<1> QED
    BY <1>1, <1>2, <1>3, <1>4, NumbersAssumption DEF NumbersAssumption

\* What came stays.
LEMMA AmongMore ==
    ASSUME NEW t, NEW n \in Nat, NEW m \in Nat, n <= m, NEW s, AllAmong(s, t, n)
    PROVE  AllAmong(s, t, m)
BY DEF AllAmong, Among

\* A step that receives nothing.
LEMMA ArrivedStays ==
    ASSUME Arrived, UNCHANGED wire, WireOK', AllAmong(buffer', reply, received), AllAmong(line', reply, received),
           left' \in 0..SizeMax, headers' \in Seq(Texts), \A i \in 1..Len(headers') : AllAmong(headers'[i], reply, received)
    PROVE  Arrived'
BY DEF Arrived, wire

LEMMA ArrivedIdles == ASSUME Arrived, UNCHANGED <<wire, buffer, line, headers, left>> PROVE Arrived'
BY DEF Arrived, wire, WireOK

LEMMA RestIsAmong ==
    ASSUME NEW t, NEW n, NEW s, AllAmong(s, t, n), NEW k \in Nat, k <= Len(s)
    PROVE  AllAmong(SubSeq(s, k + 1, Len(s)), t, n) /\ (s # <<>> => AllAmong(Tail(s), t, n) /\ Among(Head(s), t, n))
<1>1. s \in Seq(Cells) /\ Len(s) \in Nat /\ \A j \in 1..Len(s) : Among(s[j], t, n)
    BY DEF AllAmong, Texts
<1>2. AllAmong(SubSeq(s, k + 1, Len(s)), t, n)
    <2> DEFINE u == SubSeq(s, k + 1, Len(s))
    <2>1. u \in Seq(Cells) /\ Len(u) = Len(s) - k /\ \A i \in 1..(Len(s) - k) : u[i] = s[k + i]
        BY <1>1, CutIs
    <2> HIDE DEF u
    <2>2. \A i \in 1..Len(u) : u[i] = s[k + i] /\ k + i \in 1..Len(s)
        BY <1>1, <2>1
    <2>3. AllAmong(u, t, n)
        BY <1>1, <2>1, <2>2 DEF AllAmong, Texts
    <2> QED
        BY <2>3 DEF u
<1>3. ASSUME s # <<>> PROVE AllAmong(Tail(s), t, n) /\ Among(Head(s), t, n)
    <2> DEFINE u == Tail(s)
    <2>1. u \in Seq(Cells) /\ Len(u) = Len(s) - 1 /\ Head(s) = s[1] /\ 1 \in 1..Len(s) /\ \A i \in 1..Len(u) : u[i] = s[i + 1]
        BY <1>1, <1>3
    <2> HIDE DEF u
    <2>2. \A i \in 1..Len(u) : i + 1 \in 1..Len(s)
        BY <1>1, <2>1
    <2>3. AllAmong(u, t, n)
        BY <1>1, <2>1, <2>2 DEF AllAmong, Texts
    <2> QED
        BY <1>1, <2>1, <2>3 DEF u
<1> QED
    BY <1>2, <1>3

LEMMA MoreIsAmong ==
    ASSUME NEW t, NEW n, NEW s, AllAmong(s, t, n), NEW c \in Cells, Among(c, t, n)
    PROVE  AllAmong(Append(s, c), t, n)
<1>1. s \in Seq(Cells)
    BY DEF AllAmong, Texts
<1> DEFINE u == Append(s, c)
<1>2. u \in Seq(Cells) /\ Len(u) = Len(s) + 1 /\ \A j \in 1..Len(u) : u[j] = IF j = Len(u) THEN c ELSE s[j]
    BY <1>1
<1> HIDE DEF u
<1>3. \A j \in 1..Len(u) : j # Len(u) => j \in 1..Len(s)
    BY <1>1, <1>2
<1>4. AllAmong(u, t, n)
    BY <1>2, <1>3 DEF AllAmong, Texts
<1> QED
    BY <1>4 DEF u

LEMMA HeadersAmong ==
    ASSUME Arrived, NEW l, AllAmong(l, reply, received)
    PROVE  /\ Append(headers, l) \in Seq(Texts) /\ <<>> \in Seq(Texts)
           /\ \A i \in 1..Len(Append(headers, l)) : AllAmong(Append(headers, l)[i], reply, received)
<1>1. headers \in Seq(Texts) /\ l \in Texts /\ \A i \in 1..Len(headers) : AllAmong(headers[i], reply, received)
    BY DEF Arrived, AllAmong
<1> DEFINE u == Append(headers, l)
<1>2. u \in Seq(Texts) /\ Len(u) = Len(headers) + 1 /\ \A j \in 1..Len(u) : u[j] = IF j = Len(u) THEN l ELSE headers[j]
    BY <1>1
<1> HIDE DEF u
<1>3. \A j \in 1..Len(u) : j # Len(u) => j \in 1..Len(headers)
    BY <1>1, <1>2
<1>4. \A i \in 1..Len(u) : AllAmong(u[i], reply, received)
    BY <1>1, <1>2, <1>3
<1> QED
    BY <1>2, <1>4 DEF u

\* A set of numbers has a least one.
LEMMA LeastIs == ASSUME NEW I \in SUBSET Nat, I # {} PROVE \E n \in I : \A k \in I : n <= k
<1> DEFINE S == {n \in Nat : \A k \in I : n <= k}
<1>1. CASE \E n \in Nat : n \in S /\ n + 1 \notin S
    BY <1>1
<1>2. CASE \A n \in Nat : n \in S => n + 1 \in S
    <2>1. 0 \in S
        OBVIOUS
    <2>2. Nat \subseteq S
        BY <1>2, <2>1, SetInduction
    <2>3. PICK k \in I : TRUE
        OBVIOUS
    <2>4. k \in Nat /\ k + 1 \in Nat
        OBVIOUS
    <2>5. k + 1 <= k
        BY <2>2, <2>4
    <2> QED
        BY <2>4, <2>5
<1> QED
    BY <1>1, <1>2

LEMMA LengthIs ==
    ASSUME Arrived, Header({"length"}).k = "length"
    PROVE  Header({"length"}).n \in {NoNumber} \cup 0..SizeMax
<1> DEFINE found == {i \in 1..Len(headers) : \E kind \in {"length"} : Is(headers[i], kind)}
           i == CHOOSE h \in found : \A j \in found : h <= j
<1>1. found # {}
    BY DEF Header
<1>2. Header({"length"}) = headers[i][1]
    BY <1>1 DEF Header
<1>3. i \in found
    <2>1. found \subseteq Nat /\ found # {}
        BY <1>1
    <2> HIDE DEF found
    <2>2. \E h \in found : \A j \in found : h <= j
        BY <2>1, LeastIs
    <2> QED
        BY <2>2
<1>4. i \in 1..Len(headers) /\ headers[i] # <<>>
    BY <1>3 DEF Is
<1> HIDE DEF i
<1>5. headers[i] \in Seq(Cells) /\ AllAmong(headers[i], reply, received)
    BY <1>4 DEF Arrived, AllAmong, Texts
<1>6. 1 \in 1..Len(headers[i])
    BY <1>4, <1>5
<1>7. Among(headers[i][1], reply, received)
    BY <1>5, <1>6 DEF AllAmong
<1> QED
    BY <1>2, <1>7, AmongIs

LEMMA FillArrives == ASSUME Arrived, FillBuffer PROVE Arrived'
<1>1. CASE Receive
    <2>0. WireOK /\ buffer = <<>> /\ UNCHANGED <<reply, line, headers, left>>
        BY <1>1 DEF Receive, NeedsInput, Arrived, block
    <2>1. PICK n \in 1..(Len(reply) - received) :
              buffer' = SubSeq(reply, received + 1, received + n) /\ received' = received + n
        BY <1>1 DEF Receive
    <2>2. WireOK'
        BY <2>0, <2>1, Received
    <2>3. reply \in Seq(Cells) /\ received \in Nat /\ n \in Nat /\ received + n \in Nat /\ received + n <= Len(reply)
        BY <2>0 DEF WireOK, Texts
    <2>4. AllAmong(buffer', reply, received')
        <3>1. buffer' = [i \in 1..n |-> reply[received + i]]
            BY <2>1, <2>3
        <3>2. \A i \in 1..n : buffer'[i] = reply[received + i] /\ received + i \in 1..received'
            BY <2>1, <2>3, <3>1
        <3>3. Len(buffer') = n
            BY <2>3, <3>1
        <3>4. buffer' \in Texts
            BY <2>2 DEF WireOK
        <3> QED
            BY <3>2, <3>3, <3>4 DEF AllAmong, Among
    <2>5. ASSUME NEW s, AllAmong(s, reply, received) PROVE AllAmong(s, reply, received')
        BY <2>1, <2>3, <2>5, AmongMore
    <2> QED
        BY <2>0, <2>2, <2>4, <2>5 DEF Arrived
<1>2. CASE ReceiveEnd
    BY <1>2, ArrivedIdles DEF ReceiveEnd, input, block
<1>3. CASE ReceiveFails
    BY <1>3, ArrivedIdles DEF ReceiveFails, input, block
<1> QED
    BY <1>1, <1>2, <1>3 DEF FillBuffer

\* A step that takes one cell out of the buffer.
LEMMA CellArrives ==
    ASSUME Arrived, buffer # <<>>, buffer' = Tail(buffer), UNCHANGED wire
    PROVE  WireOK' /\ AllAmong(buffer', reply, received) /\ Among(Head(buffer), reply, received) /\ Head(buffer) \in Cells
<1>1. WireOK' /\ Head(buffer) \in Cells
    BY Consumed DEF Arrived
<1>2. AllAmong(buffer, reply, received) /\ 0 \in Nat /\ 0 <= Len(buffer)
    BY DEF Arrived, AllAmong, Texts
<1> QED
    BY <1>1, <1>2, RestIsAmong

LEMMA EndLineArrives ==
    ASSUME Arrived, NEW S, EndLine(S), left' \in 0..SizeMax,
           UNCHANGED headers \/ headers' = <<>> \/ headers' = Append(headers, line)
    PROVE  Arrived'
<1>1. buffer # <<>> /\ buffer' = Tail(buffer) /\ line' = <<>> /\ UNCHANGED wire
    BY DEF EndLine
<1>2. WireOK' /\ AllAmong(buffer', reply, received)
    BY <1>1, CellArrives
<1>3. AllAmong(line', reply, received)
    BY <1>1, NothingIsAmong
<1>4. headers' \in Seq(Texts) /\ \A i \in 1..Len(headers') : AllAmong(headers'[i], reply, received)
    <2>1. AllAmong(line, reply, received) /\ headers \in Seq(Texts) /\ \A i \in 1..Len(headers) : AllAmong(headers[i], reply, received)
        BY DEF Arrived
    <2>2. CASE headers' = <<>>
        BY <2>2
    <2>3. CASE headers' = Append(headers, line)
        BY <2>1, <2>3, HeadersAmong
    <2> QED
        BY <2>1, <2>2, <2>3
<1> QED
    BY <1>1, <1>2, <1>3, <1>4, ArrivedStays

LEMMA HeadArrives == ASSUME Arrived, ReadHead PROVE Arrived'
<1>0. left \in 0..SizeMax /\ SizeMax \in Nat
    BY SizesAssumption DEF Arrived, SizesAssumption
<1>1. CASE ReadChar
    <2>1. buffer # <<>> /\ buffer' = Tail(buffer) /\ UNCHANGED <<wire, headers, left>> /\ (line' = line \/ line' = Append(line, Head(buffer)))
        BY <1>1 DEF ReadChar, block
    <2>2. WireOK' /\ AllAmong(buffer', reply, received) /\ Among(Head(buffer), reply, received) /\ Head(buffer) \in Cells
        BY <2>1, CellArrives
    <2>3. AllAmong(line', reply, received)
        BY <2>1, <2>2, MoreIsAmong DEF Arrived
    <2> QED
        BY <1>0, <2>1, <2>2, <2>3, ArrivedStays DEF Arrived
<1>2. CASE StatusLine
    BY <1>0, <1>2, EndLineArrives DEF StatusLine
<1>3. CASE HeaderLine
    BY <1>0, <1>3, EndLineArrives DEF HeaderLine, block
<1>4. CASE InterimEnds
    BY <1>0, <1>4, EndLineArrives DEF InterimEnds
<1>5. CASE HeadersEnd
    <2>1. left' \in 0..SizeMax
        <3>1. ASSUME Header({"length"}).k = "length", Header({"length"}).n # NoNumber, left' = Header({"length"}).n PROVE left' \in 0..SizeMax
            BY <3>1, LengthIs
        <3>2. \/ UNCHANGED left \/ left' = SizeMax
              \/ Header({"length"}).k = "length" /\ Header({"length"}).n # NoNumber /\ left' = Header({"length"}).n
            BY <1>5, Zenon DEF HeadersEnd, BeginBody
        <3> QED
            BY <1>0, <3>1, <3>2
    <2> QED
        BY <1>5, <2>1, EndLineArrives DEF HeadersEnd, block
<1> QED
    BY <1>1, <1>2, <1>3, <1>4, <1>5 DEF ReadHead

LEMMA TakeIsSome ==
    ASSUME Arrived
    PROVE  Take \in Nat /\ Take <= Len(buffer) /\ (left # SizeMax => left - Take \in 0..(SizeMax - 1))
<1>1. Len(buffer) \in Nat /\ left \in 0..SizeMax /\ SizeMax \in Nat
    BY SizesAssumption DEF Arrived, WireOK, Texts, SizesAssumption
<1> QED
    BY <1>1 DEF Take

LEMMA ChunkArrives == ASSUME Arrived, ReadChunk PROVE Arrived'
<1>0. left \in 0..SizeMax /\ SizeMax \in Nat /\ WireOK
    BY SizesAssumption DEF Arrived, SizesAssumption
<1>1. CASE ChunkSizeLine
    <2>1. left' \in 0..SizeMax
        <3>1. ASSUME Is(line, "size") PROVE line[1].n \in 0..SizeMax
            <4>1. line \in Seq(Cells) /\ line # <<>> /\ line[1].k = "size"
                BY <3>1 DEF Is, Arrived, AllAmong, Texts
            <4>2. 1 \in 1..Len(line)
                BY <4>1
            <4>3. Among(line[1], reply, received)
                BY <4>2 DEF Arrived, AllAmong
            <4> QED
                BY <4>1, <4>3, AmongIs
        <3> QED
            BY <1>0, <1>1, <3>1 DEF ChunkSizeLine, BeginBody
    <2> QED
        BY <1>1, <2>1, EndLineArrives DEF ChunkSizeLine, block
<1>2. CASE ChunkEndLine
    BY <1>0, <1>2, EndLineArrives DEF ChunkEndLine, block
<1>3. CASE TrailerLine
    BY <1>0, <1>3, EndLineArrives DEF TrailerLine, block
<1>4. CASE ReadBody
    <2>1. Take \in Nat /\ Take <= Len(buffer) /\ left' \in 0..SizeMax
        BY <1>0, <1>4, TakeIsSome DEF ReadBody
    <2>2. buffer' = SubSeq(buffer, Take + 1, Len(buffer)) /\ UNCHANGED <<wire, line, headers>>
        BY <1>4 DEF ReadBody, block
    <2>3. AllAmong(buffer', reply, received)
        BY <2>1, <2>2, RestIsAmong DEF Arrived
    <2>4. WireOK'
        BY <1>0, <2>2, <2>3 DEF WireOK, AllAmong, wire
    <2> QED
        BY <2>1, <2>2, <2>3, <2>4, ArrivedStays DEF Arrived
<1>5. CASE SinkRefuses
    BY <1>5, ArrivedIdles DEF SinkRefuses, input, block
<1> QED
    BY <1>1, <1>2, <1>3, <1>4, <1>5 DEF ReadChunk

LEMMA ArrivedSteps == Arrived /\ [Next]_vars => Arrived'
<1> SUFFICES ASSUME Arrived, [Next]_vars PROVE Arrived'
    OBVIOUS
<1>1. CASE Connect
    BY <1>1, ArrivedIdles DEF Connect, ResolveFails, OpenSocket, Connected, ConnectFails, NoAddressLeft, StartTLS, input, block
<1>2. CASE Send
    BY <1>2, ArrivedIdles DEF Send, SendHead, Write, WriteFails, SendBody, SourceFails, RequestSent, input, block
<1>3. CASE CloseConnection
    BY <1>3, ArrivedIdles DEF CloseConnection, input, block
<1>4. CASE UNCHANGED vars
    BY <1>4, ArrivedIdles DEF vars, wire
<1> QED
    BY <1>1, <1>2, <1>3, <1>4, FillArrives, HeadArrives, ChunkArrives DEF Next

---------------------------------------------------------------------------
(* What the headers announce, and what was delivered *)

Chunked == Header({"chunked", "coding"}).k = "chunked"
Counted == ~NoBody /\ ~Chunked /\ Header({"length"}).k = "length" /\ Header({"length"}).n # SizeMax
LastChunk == \E i \in 1..received : reply[i].k = "size" /\ reply[i].n = 0
BodyStates == {"body", "chunk", "size", "chunkEnd", "trailer"}

\* What is still to be read of a body whose length is known is what is missing of it.
Counting == response.body \in Texts /\ Len(response.body) + left = Header({"length"}).n /\ left # SizeMax

\* Nothing is delivered before the headers end; then the state tells how the body ends.
FramingInv ==
    /\ IsResponse(response) /\ pc \in Waiting \cup Reading \cup Over
    /\ pc \notin BodyStates \cup Over => response.body = <<>>
    /\ pc \in BodyStates => ~NoBody
    /\ pc \in BodyStates \ {"body"} => Chunked
    /\ pc = "body" => ~Chunked /\ (Counted => Counting)
    /\ pc = "trailer" => LastChunk
    /\ pc \in Over => FramingHonoured

LEMMA HonouredIs ==
    FramingHonoured <=>
        /\ Counted => response.body = <<>> \/ Len(response.body) <= Header({"length"}).n
        /\ Counted /\ Succeeded => Len(response.body) = Header({"length"}).n
        /\ ~NoBody /\ Chunked /\ Succeeded => LastChunk
BY Zenon DEF FramingHonoured, Counted, Chunked, LastChunk

LEMMA HonouredNext ==
    FramingHonoured' <=>
        /\ Counted' => response'.body = <<>> \/ Len(response'.body) <= Header({"length"})'.n
        /\ Counted' /\ Succeeded' => Len(response'.body) = Header({"length"})'.n
        /\ ~NoBody' /\ Chunked' /\ Succeeded' => LastChunk'
BY Zenon DEF FramingHonoured, Counted, Chunked, LastChunk

LEMMA FramingIsHonoured ==
    ASSUME FramingInv, Arrived
    PROVE  FramingHonoured
<1>2. ASSUME pc \notin Over PROVE ~Succeeded
    BY <1>2 DEF Succeeded, Over
<1>3. CASE pc \in Over
    BY <1>3 DEF FramingInv
<1>4. CASE pc \notin BodyStates \cup Over
    BY HonouredIs, <1>2, <1>4 DEF FramingInv
<1>5. CASE pc \in BodyStates \ {"body"}
    BY HonouredIs, <1>2, <1>5 DEF FramingInv, Counted, BodyStates, Over
<1>6. CASE pc = "body"
    <2>1. ASSUME Counted PROVE Len(response.body) <= Header({"length"}).n
        <3>1. Len(response.body) \in Nat /\ left \in Nat /\ Len(response.body) + left = Header({"length"}).n
            BY <1>6, <2>1, SizesAssumption DEF FramingInv, Counting, Texts, Arrived, SizesAssumption
        <3> QED
            BY <3>1
    <2> QED
        BY HonouredIs, <1>2, <1>6, <2>1 DEF Over
<1> QED
    BY <1>3, <1>4, <1>5, <1>6

LEMMA FramingAtFirst == Init => FramingInv
BY DEF Init, FramingInv, IsResponse, Waiting, Reading, LineStates, BodyStates, Over

\* Steps that leave the headers and what is known of the response.
LEMMA FramesStay ==
    ASSUME UNCHANGED <<headers, request>>, response'.status = response.status
    PROVE  /\ NoBody' <=> NoBody
           /\ Chunked' <=> Chunked
           /\ Counted' <=> Counted
           /\ Header({"length"})' = Header({"length"})
<1>1. Header({"length"})' = Header({"length"}) /\ Header({"chunked", "coding"})' = Header({"chunked", "coding"})
    BY DEF Header
<1>2. (NoBody' <=> NoBody) /\ (Chunked' <=> Chunked)
    BY <1>1 DEF NoBody, Chunked
<1> QED
    BY <1>1, <1>2 DEF Counted

LEMMA FailFrames ==
    ASSUME FramingInv, Arrived, NEW e, e # "none", Fail(e), UNCHANGED <<headers, request>> \/ response.body = <<>>
    PROVE  FramingInv'
<1>1. pc' = "close" /\ IsResponse(response)' /\ response'.error = e /\ response'.body = response.body /\ response'.status = response.status
    BY FailIs DEF FramingInv
<1>2. ~Succeeded'
    BY <1>1 DEF Succeeded
<1>3. Counted' => response'.body = <<>> \/ Len(response'.body) <= Header({"length"})'.n
    <2>1. CASE response.body = <<>>
        BY <1>1, <2>1
    <2>2. CASE UNCHANGED <<headers, request>>
        <3>1. (Counted' <=> Counted) /\ Header({"length"})' = Header({"length"})
            BY <1>1, <2>2, FramesStay
        <3>2. Counted => response.body = <<>> \/ Len(response.body) <= Header({"length"}).n
            BY FramingIsHonoured, HonouredIs
        <3> QED
            BY <1>1, <3>1, <3>2
    <2> QED
        BY <2>1, <2>2
<1>4. FramingHonoured'
    BY <1>2, <1>3, HonouredNext
<1> QED
    BY <1>1, <1>4 DEF FramingInv, BodyStates, Over

\* Before the headers end.
LEMMA EarlyFrames ==
    ASSUME FramingInv, pc' \in Waiting \cup {"status", "header"}, response.body = <<>>,
           response' = response \/ \E s : response' = [response EXCEPT !.status = s]
    PROVE  FramingInv'
<1>1. IsResponse(response)' /\ response'.body = <<>>
    BY DEF FramingInv, IsResponse
<1>2. pc' \in Waiting \cup Reading \cup Over /\ pc' \notin BodyStates \cup Over
    BY DEF Waiting, Reading, LineStates, Over, BodyStates
<1> QED
    BY <1>1, <1>2 DEF FramingInv, BodyStates, Over

\* Steps that change neither the state nor the response.
LEMMA FramesIdle ==
    ASSUME FramingInv, Arrived, Arrived', UNCHANGED <<pc, request, headers, left, response, reply>>, received <= received'
    PROVE  FramingInv'
<1>1. (NoBody' <=> NoBody) /\ (Chunked' <=> Chunked) /\ (Counted' <=> Counted) /\ Header({"length"})' = Header({"length"})
    BY FramesStay
<1>2. LastChunk => LastChunk'
    <2>1. received \in Nat /\ received' \in Nat
        BY DEF Arrived, WireOK
    <2> QED
        BY <2>1 DEF LastChunk
<1>3. Succeeded' <=> Succeeded
    BY DEF Succeeded
<1>4. FramingHonoured => FramingHonoured'
    BY <1>1, <1>2, <1>3, HonouredIs, HonouredNext
<1>5. Counting' <=> Counting
    BY <1>1 DEF Counting
<1> QED
    BY <1>1, <1>2, <1>4, <1>5 DEF FramingInv, IsResponse

LEMMA BeforeFrames == ASSUME FramingInv, Arrived, Connect \/ Send PROVE FramingInv'
<1>0. pc \in Waiting /\ UNCHANGED <<headers, request>> /\ (UNCHANGED response \/ \E e : e # "none" /\ Fail(e))
    BY DEF Connect, ResolveFails, OpenSocket, Connected, ConnectFails, NoAddressLeft, StartTLS, Send, SendHead, Write,
           WriteFails, SendBody, SourceFails, RequestSent, Waiting, input, block, connection
<1>1. response.body = <<>>
    BY <1>0 DEF FramingInv, Waiting, BodyStates, Over
<1>2. CASE \E e : e # "none" /\ Fail(e)
    BY <1>1, <1>2, FailFrames
<1>3. CASE ~(\E e : e # "none" /\ Fail(e))
    <2>1. pc' \in Waiting \cup {"status"}
        BY <1>0, <1>3 DEF Connect, ResolveFails, OpenSocket, Connected, ConnectFails, NoAddressLeft, StartTLS, Send, SendHead, Write,
           WriteFails, SendBody, SourceFails, RequestSent, Waiting
    <2> QED
        BY <1>0, <1>1, <1>3, <2>1, EarlyFrames
<1> QED
    BY <1>2, <1>3

LEMMA CloseFrames == ASSUME FramingInv, Arrived, CloseConnection PROVE FramingInv'
<1>1. pc = "close" /\ pc' = "done" /\ UNCHANGED <<request, headers, response, reply, received>>
    BY DEF CloseConnection, input, block, wire
<1>2. (NoBody' <=> NoBody) /\ (Chunked' <=> Chunked) /\ (Counted' <=> Counted) /\ Header({"length"})' = Header({"length"})
    BY <1>1, FramesStay
<1>3. (LastChunk' <=> LastChunk) /\ (Succeeded' <=> Succeeded)
    BY <1>1 DEF LastChunk, Succeeded
<1>4. FramingHonoured'
    BY <1>1, <1>2, <1>3, FramingIsHonoured, HonouredIs, HonouredNext
<1> QED
    BY <1>1, <1>4 DEF FramingInv, IsResponse, BodyStates, Over

LEMMA FillFrames == ASSUME FramingInv, Arrived, Arrived', FillBuffer PROVE FramingInv'
<1>0. UNCHANGED <<request, headers, left, reply>>
    BY DEF FillBuffer, Receive, ReceiveEnd, ReceiveFails, connection, input, block, wire
<1>1. ASSUME Fail(ReadError) PROVE FramingInv'
    <2>1. ReadError # "none"
        BY DEF ReadError
    <2> QED
        BY <1>0, <1>1, <2>1, FailFrames
<1>2. CASE Receive
    <2>1. received <= received' /\ UNCHANGED <<pc, response>>
        BY <1>2 DEF Receive, Arrived, WireOK
    <2> QED
        BY <1>0, <2>1, FramesIdle
<1>3. CASE ReceiveEnd
    <2>0. UNCHANGED received
        BY <1>3 DEF ReceiveEnd, input, wire
    <2>1. CASE pc = "body" /\ left = SizeMax
        <3>1. pc' = "close" /\ UNCHANGED response
            BY <1>3, <2>1 DEF ReceiveEnd
        <3>2. ~Chunked /\ ~Counted
            BY <2>1 DEF FramingInv, Counting
        <3>3. ~Chunked' /\ ~Counted'
            BY <1>0, <3>1, <3>2, FramesStay
        <3>4. FramingHonoured'
            BY <3>3, HonouredNext
        <3> QED
            BY <3>1, <3>4 DEF FramingInv, IsResponse, BodyStates, Over
    <2>2. CASE pc = "chunk" /\ left = SizeMax
        <3>1. pc' = "chunkEnd" /\ UNCHANGED response
            BY <1>3, <2>2 DEF ReceiveEnd
        <3>2. Chunked' /\ ~NoBody'
            <4>1. Chunked /\ ~NoBody
                BY <2>2 DEF FramingInv, BodyStates
            <4> QED
                BY <1>0, <3>1, <4>1, FramesStay
        <3> QED
            BY <3>1, <3>2 DEF FramingInv, IsResponse, BodyStates, Over, Reading, LineStates
    <2> QED
        BY <1>1, <1>3, <2>1, <2>2 DEF ReceiveEnd
<1>4. CASE ReceiveFails
    BY <1>1, <1>4 DEF ReceiveFails
<1> QED
    BY <1>2, <1>3, <1>4 DEF FillBuffer

LEMMA HeadersFrames == ASSUME FramingInv, Arrived, HeadersEnd PROVE FramingInv'
<1>0. /\ pc = "header" /\ response.body = <<>> /\ UNCHANGED <<headers, request>> /\ IsResponse(response) /\ SizeMax \in Nat \ {0}
    BY SizesAssumption DEF FramingInv, HeadersEnd, EndLine, BodyStates, Over, block, connection, SizesAssumption
<1>1. PICK length : length = Header({"length"})
    OBVIOUS
<1>2. \/ NoBody /\ pc' = "close" /\ UNCHANGED response
      \/ ~NoBody /\ Chunked /\ pc' = "size" /\ UNCHANGED response
      \/ Fail("body")
      \/ /\ ~NoBody /\ ~Chunked /\ length.k = "length" /\ length.n # NoNumber
         /\ BeginBody(length.n, "body", "close") /\ UNCHANGED response
      \/ ~NoBody /\ ~Chunked /\ length.k # "length" /\ BeginBody(SizeMax, "body", "close") /\ UNCHANGED response
    BY <1>1, Zenon DEF HeadersEnd, Chunked
<1>3. CASE Fail("body")
    BY <1>0, <1>3, FailFrames
<1>4. ASSUME UNCHANGED response
      PROVE  /\ (NoBody' <=> NoBody) /\ (Chunked' <=> Chunked) /\ (Counted' <=> Counted) /\ Header({"length"})' = length
             /\ IsResponse(response)' /\ response'.body = <<>> /\ <<>> \in Texts /\ Len(<<>>) = 0
    BY <1>0, <1>1, <1>4, FramesStay DEF IsResponse, Texts
<1> USE DEF FramingInv, BodyStates, Over, Reading, LineStates
<1>5. CASE NoBody /\ pc' = "close" /\ UNCHANGED response
    <2>1. ~Counted
        BY <1>5 DEF Counted
    <2>2. FramingHonoured'
        BY <1>4, <1>5, <2>1, HonouredNext
    <2> QED
        BY <1>4, <1>5, <2>2
<1>6. CASE ~NoBody /\ Chunked /\ pc' = "size" /\ UNCHANGED response
    BY <1>4, <1>6
<1>7. CASE /\ ~NoBody /\ ~Chunked /\ length.k = "length" /\ length.n # NoNumber
           /\ BeginBody(length.n, "body", "close") /\ UNCHANGED response
    <2>1. length.n \in 0..SizeMax
        BY <1>1, <1>7, LengthIs
    <2>2. CASE length.n = 0
        <3>1. pc' = "close"
            BY <1>7, <2>2 DEF BeginBody
        <3>2. FramingHonoured'
            BY <1>4, <1>7, <2>2, HonouredNext
        <3> QED
            BY <1>4, <1>7, <3>1, <3>2
    <2>3. CASE length.n # 0
        <3>1. pc' = "body" /\ left' = length.n
            BY <1>7, <2>3 DEF BeginBody
        <3>2. Counted => length.n # SizeMax
            BY <1>1 DEF Counted
        <3>3. Counted' => Counting'
            BY <1>4, <1>7, <2>1, <3>1, <3>2 DEF Counting
        <3> QED
            BY <1>4, <1>7, <3>1, <3>3
    <2> QED
        BY <2>2, <2>3
<1>8. CASE ~NoBody /\ ~Chunked /\ length.k # "length" /\ BeginBody(SizeMax, "body", "close") /\ UNCHANGED response
    <2>1. pc' = "body"
        BY <1>0, <1>8 DEF BeginBody
    <2>2. ~Counted
        BY <1>1, <1>8 DEF Counted
    <2> QED
        BY <1>4, <1>8, <2>1, <2>2
<1> QED
    BY <1>2, <1>3, <1>5, <1>6, <1>7, <1>8

LEMMA HeadFrames == ASSUME FramingInv, Arrived, Arrived', ReadHead PROVE FramingInv'
<1>1. CASE ReadChar
    <2>1. UNCHANGED <<request, headers, left, reply, received>> /\ ReadError # "none"
        BY <1>1 DEF ReadChar, connection, block, wire, ReadError
    <2>2. CASE Fail(ReadError)
        BY <2>1, <2>2, FailFrames
    <2>3. CASE UNCHANGED <<pc, response>>
        <3>1. received <= received'
            BY <2>1 DEF Arrived, WireOK
        <3> QED
            BY <2>1, <2>3, <3>1, FramesIdle
    <2> QED
        BY <1>1, <2>2, <2>3 DEF ReadChar
<1>2. CASE StatusLine
    <2>1. response.body = <<>>
        BY <1>2 DEF FramingInv, StatusLine, EndLine, BodyStates, Over
    <2>2. CASE Fail("status line")
        BY <2>1, <2>2, FailFrames
    <2>3. CASE pc' = "header" /\ response' = [response EXCEPT !.status = line[1].n]
        BY <2>1, <2>3, EarlyFrames
    <2> QED
        BY <1>2, <2>2, <2>3 DEF StatusLine
<1>3. CASE HeaderLine
    <2>1. response.body = <<>> /\ pc = "header"
        BY <1>3 DEF FramingInv, HeaderLine, EndLine, BodyStates, Over
    <2>2. CASE Fail("headers too large")
        BY <2>1, <2>2, FailFrames
    <2>3. CASE UNCHANGED <<pc, response>>
        BY <2>1, <2>3, EarlyFrames
    <2> QED
        BY <1>3, <2>2, <2>3 DEF HeaderLine
<1>4. CASE InterimEnds
    <2>1. response.body = <<>>
        BY <1>4 DEF FramingInv, InterimEnds, EndLine, BodyStates, Over
    <2> QED
        BY <1>4, <2>1, EarlyFrames DEF InterimEnds
<1>5. CASE HeadersEnd
    BY <1>5, HeadersFrames
<1> QED
    BY <1>1, <1>2, <1>3, <1>4, <1>5 DEF ReadHead

LEMMA BodyFrames == ASSUME FramingInv, Arrived, Arrived', ReadBody PROVE FramingInv'
<1>0. /\ pc \in {"body", "chunk"} /\ UNCHANGED <<headers, request>> /\ ~NoBody
      /\ response' = [response EXCEPT !.body = @ \o SubSeq(buffer, 1, Take)]
      /\ left' = (IF left = SizeMax THEN left ELSE left - Take)
      /\ pc' = IF left' > 0 THEN pc ELSE IF pc = "body" THEN "close" ELSE "chunkEnd"
    BY DEF ReadBody, block, connection, FramingInv, BodyStates
<1>1. /\ IsResponse(response)' /\ response'.status = response.status /\ response'.error = response.error
      /\ response'.body = response.body \o SubSeq(buffer, 1, Take)
    BY <1>0 DEF FramingInv, IsResponse
<1>2. (NoBody' <=> NoBody) /\ (Chunked' <=> Chunked) /\ (Counted' <=> Counted) /\ Header({"length"})' = Header({"length"})
    BY <1>0, <1>1, FramesStay
<1> USE DEF BodyStates, Over, Reading, LineStates
<1>3. CASE pc = "chunk"
    <2>1. Chunked' /\ ~NoBody'
        BY <1>0, <1>2, <1>3 DEF FramingInv
    <2>2. pc' \in {"chunk", "chunkEnd"}
        BY <1>0, <1>3
    <2> QED
        BY <1>1, <2>1, <2>2 DEF FramingInv
<1>4. CASE pc = "body"
    <2>1. ~Chunked' /\ ~NoBody' /\ pc' \in {"body", "close"} /\ (pc' = "close" => ~(left' > 0))
        BY <1>0, <1>2, <1>4 DEF FramingInv
    <2>2. ASSUME Counted PROVE Counting' /\ left' \in Nat
        <3>1. Counting
            BY <1>4, <2>2 DEF FramingInv
        <3>2. Take \in Nat /\ Take <= Len(buffer) /\ left - Take \in 0..(SizeMax - 1) /\ left' = left - Take
            BY <1>0, <3>1, TakeIsSome DEF Counting
        <3>3. PICK s : s = SubSeq(buffer, 1, Take)
            OBVIOUS
        <3>4. s \in Seq(Cells) /\ Len(s) = Take
            BY <3>2, <3>3, CutIs DEF Arrived, WireOK, Texts
        <3>5. PICK b : b = response.body
            OBVIOUS
        <3>6. b \in Seq(Cells) /\ Len(b) + left = Header({"length"}).n
            BY <3>1, <3>5 DEF Counting, Texts
        <3>7. b \o s \in Seq(Cells) /\ Len(b \o s) = Len(b) + Take /\ Len(b) \in Nat
            BY <3>4, <3>6, ConcatIs
        <3>8. response'.body \in Texts /\ Len(response'.body) = Len(b) + Take
            BY <1>1, <3>3, <3>5, <3>7 DEF Texts
        <3>9. left \in Nat /\ SizeMax \in Nat
            BY SizesAssumption DEF Arrived, SizesAssumption
        <3>10. Len(response'.body) + left' = Header({"length"})'.n
            BY <1>2, <3>2, <3>6, <3>7, <3>8, <3>9
        <3>11. left' # SizeMax /\ left' \in Nat
            BY <3>2, <3>9
        <3> QED
            BY <3>8, <3>10, <3>11 DEF Counting
    <2>3. CASE pc' = "body"
        BY <1>1, <1>2, <2>1, <2>2, <2>3 DEF FramingInv
    <2>4. CASE pc' = "close"
        <3>1. ASSUME Counted PROVE Len(response'.body) = Header({"length"})'.n /\ Len(response'.body) \in Nat
            <4>1. left' = 0
                BY <2>1, <2>2, <2>4, <3>1
            <4> QED
                BY <2>2, <3>1, <4>1 DEF Counting, Texts
        <3>2. FramingHonoured'
            BY <1>2, <2>1, <3>1, HonouredNext
        <3> QED
            BY <1>1, <2>4, <3>2 DEF FramingInv
    <2> QED
        BY <2>1, <2>3, <2>4
<1> QED
    BY <1>0, <1>3, <1>4

LEMMA ChunkFrames == ASSUME FramingInv, Arrived, Arrived', ReadChunk PROVE FramingInv'
<1>0. UNCHANGED <<headers, request, reply, received>>
    BY DEF ReadChunk, ChunkSizeLine, ChunkEndLine, TrailerLine, ReadBody, SinkRefuses, EndLine, block, connection, input, wire
<1>1. ASSUME Fail("body") PROVE FramingInv'
    BY <1>0, <1>1, FailFrames
<1>2. ASSUME UNCHANGED response, pc \in BodyStates \ {"body"}
      PROVE  IsResponse(response)' /\ ~NoBody' /\ Chunked' /\ ~Counted' /\ (LastChunk' <=> LastChunk)
    <2>1. ~NoBody /\ Chunked /\ ~Counted
        BY <1>2 DEF FramingInv, Counted, BodyStates
    <2>2. ~NoBody' /\ Chunked' /\ ~Counted'
        BY <1>0, <1>2, <2>1, FramesStay
    <2> QED
        BY <1>0, <1>2, <2>2 DEF FramingInv, IsResponse, LastChunk
<1> USE DEF BodyStates, Over, Reading, LineStates
<1>3. CASE ChunkSizeLine
    <2>1. pc = "size"
        BY <1>3 DEF ChunkSizeLine, EndLine
    <2>2. CASE ~Is(line, "size")
        BY <1>1, <1>3, <2>2 DEF ChunkSizeLine
    <2>3. CASE Is(line, "size") /\ line[1].n = 0
        <3>1. pc' = "trailer" /\ UNCHANGED response
            BY <1>3, <2>3 DEF ChunkSizeLine
        <3>2. LastChunk
            <4>1. line \in Seq(Cells) /\ line # <<>> /\ line[1].k = "size"
                BY <2>3 DEF Is, Arrived, AllAmong, Texts
            <4>2. 1 \in 1..Len(line)
                BY <4>1
            <4>3. Among(line[1], reply, received)
                BY <4>2 DEF Arrived, AllAmong
            <4> QED
                BY <2>3, <4>1, <4>3 DEF Among, LastChunk
        <3> QED
            BY <1>2, <2>1, <3>1, <3>2 DEF FramingInv
    <2>4. CASE Is(line, "size") /\ line[1].n # 0
        <3>1. pc' = "chunk" /\ UNCHANGED response
            BY <1>3, <2>4 DEF ChunkSizeLine, BeginBody
        <3> QED
            BY <1>2, <2>1, <3>1 DEF FramingInv
    <2> QED
        BY <2>2, <2>3, <2>4
<1>4. CASE ChunkEndLine
    BY <1>2, <1>4 DEF ChunkEndLine, EndLine, FramingInv
<1>5. CASE TrailerLine
    <2>1. pc = "trailer" /\ UNCHANGED response /\ LastChunk /\ pc' \in {"trailer", "close"}
        BY <1>5 DEF TrailerLine, EndLine, FramingInv
    <2>2. FramingHonoured'
        BY <1>2, <2>1, HonouredNext
    <2> QED
        BY <1>2, <2>1, <2>2 DEF FramingInv
<1>6. CASE ReadBody
    BY <1>6, BodyFrames
<1>7. CASE SinkRefuses
    BY <1>1, <1>7 DEF SinkRefuses
<1> QED
    BY <1>3, <1>4, <1>5, <1>6, <1>7 DEF ReadChunk

LEMMA FramingSteps == FramingInv /\ Arrived /\ [Next]_vars => FramingInv'
<1> SUFFICES ASSUME FramingInv, Arrived, [Next]_vars PROVE FramingInv'
    OBVIOUS
<1>1. Arrived'
    BY ArrivedSteps
<1>2. CASE UNCHANGED vars
    <2>1. UNCHANGED <<pc, request, headers, left, response, reply, received>>
        BY <1>2 DEF vars
    <2>2. received <= received'
        BY <2>1 DEF Arrived, WireOK
    <2> QED
        BY <1>1, <2>1, <2>2, FramesIdle
<1> QED
    BY <1>1, <1>2, BeforeFrames, FillFrames, HeadFrames, ChunkFrames, CloseFrames DEF Next

\* Whatever a server sends, the client delivers no more of a body than its first Content-Length
\* says, and succeeds only when it has reached the end that the headers announce
\* (nh_network_receiveResponse, nh_network_readBody, nh_network_readChunkedBody).
THEOREM FramingAlwaysHonoured == Spec => []FramingHonoured
<1>1. FramingInv /\ Arrived => FramingHonoured
    BY FramingIsHonoured
<1> QED
    BY <1>1, ArrivedAtFirst, ArrivedSteps, FramingAtFirst, FramingSteps, PTL DEF Spec
=============================================================================
