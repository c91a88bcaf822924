--------------------------- MODULE HTMLParserProofs ---------------------------
(***************************************************************************)
(* Whatever tags come, in whatever order and number, the tree builder      *)
(* keeps <html> and <body> at the bottom of its stack, and its mode and    *)
(* the tokenizer's state go together. Whatever code points come, each      *)
(* handler of the tokenizer finds a token of the kind it works on.         *)
(***************************************************************************)
EXTENDS TreeConstruction, HTMLTokenizer, FiniteSetTheorems, SequenceTheorems, TLAPS

Modes ==
    {"INITIAL", "BEFORE_HTML", "BEFORE_HEAD", "IN_HEAD", "AFTER_HEAD", "IN_BODY", "TEXT", "AFTER_BODY", "AFTER_AFTER_BODY",
     "IN_TEMPLATE", "IN_SELECT", "IN_FRAMESET"}
Names == Tags \cup {"none", "marker", "html", "head", "body", "p", "br", "frameset"}
Nodes == [id : Nat, tag : Names]
Parsers ==
    [mode : Modes, orig : Modes, open : Seq(Nodes), active : Seq(Nodes), head : Nodes, form : Nodes,
     framesetOk : BOOLEAN, stop : BOOLEAN, text : {"data", "rcdata", "rawtext", "plaintext"},
     state : {"ok", "underflow", "undefined", "exit", "stuck", "failed"}]

---------------------------------------------------------------------------
(* Numbers and sequences *)

\* Induction, for a set of numbers: below a number not in S, adding 1 would map a finite set
\* onto itself, and nothing to 0.
LEMMA SetInduction ==
    ASSUME NEW S, 0 \in S, \A n \in Nat : n \in S => n + 1 \in S
    PROVE  Nat \subseteq S
<1> SUFFICES ASSUME NEW m \in Nat, m \notin S PROVE FALSE
    OBVIOUS
<1> DEFINE A == (0..m) \cap S
           f == [k \in A |-> k + 1]
<1>1. IsFiniteSet(A)
    <2>1. IsFiniteSet(0..m) /\ A \in SUBSET (0..m)
        BY FS_Interval
    <2> QED
        BY <2>1, FS_Subset
<1>2. 0 \in A /\ \A k \in A : k + 1 \in A
    OBVIOUS
<1>3. f \in Injection(A, A)
    BY <1>2 DEF Injection, IsInjective
<1>4. f \in Surjection(A, A)
    BY <1>1, <1>3, FS_Injection
<1>5. PICK k \in A : f[k] = 0
    BY <1>2, <1>4 DEF Surjection
<1> QED
    BY <1>5

LEMMA MaxIs ==
    ASSUME NEW n \in Nat, NEW S \in SUBSET (1..n), S # {}
    PROVE  Max(S) \in S /\ \A i \in S : i <= Max(S)
<1> DEFINE T == {k \in Nat : \A R \in SUBSET (1..k) : R # {} => \E x \in R : \A y \in R : x >= y}
<1>1. 0 \in T
    <2>1. 1..0 = {}
        OBVIOUS
    <2>2. \A R \in SUBSET (1..0) : R = {}
        BY <2>1
    <2> QED
        BY <2>2
<1>2. \A k \in Nat : k \in T => k + 1 \in T
    <2> SUFFICES ASSUME NEW k \in Nat, k \in T, NEW R \in SUBSET (1..(k + 1)), R # {}
                 PROVE  \E x \in R : \A y \in R : x >= y
        OBVIOUS
    <2>1. CASE k + 1 \in R
        BY <2>1
    <2>2. CASE k + 1 \notin R
        <3>1. R \in SUBSET (1..k)
            BY <2>2
        <3> QED
            BY <3>1
    <2> QED
        BY <2>1, <2>2
<1>3. n \in T
    <2> HIDE DEF T
    <2> QED
        BY <1>1, <1>2, SetInduction
<1>4. \E x \in S : \A y \in S : x >= y
    BY <1>3
<1>5. Max(S) \in S /\ \A y \in S : Max(S) >= y
    BY <1>4 DEF Max
<1> QED
    BY <1>5

LEMMA MinIs ==
    ASSUME NEW n \in Nat, NEW S \in SUBSET (1..n), S # {}
    PROVE  Min(S) \in S /\ \A i \in S : Min(S) <= i
<1> DEFINE R == {n + 1 - i : i \in S}
<1>1. R \in SUBSET (1..n) /\ R # {}
    <2>1. \A i \in S : i \in 1..n /\ n + 1 - i \in 1..n
        OBVIOUS
    <2> QED
        BY <2>1
<1>2. Max(R) \in R /\ \A y \in R : y <= Max(R)
    <2> HIDE DEF R
    <2> QED
        BY <1>1, MaxIs
<1>3. PICK x \in S : Max(R) = n + 1 - x
    BY <1>2
<1>4. \A y \in S : x <= y
    <2> TAKE y \in S
    <2>1. n + 1 - y \in R
        OBVIOUS
    <2> QED
        BY <1>2, <1>3, <2>1
<1>5. Min(S) \in S /\ \A y \in S : Min(S) <= y
    BY <1>4 DEF Min
<1> QED
    BY <1>5

LEMMA CutIs ==
    ASSUME NEW X, NEW s \in Seq(X), NEW k \in Nat, k <= Len(s)
    PROVE  /\ SubSeq(s, 1, k) \in Seq(X) /\ Len(SubSeq(s, 1, k)) = k
           /\ \A i \in 1..k : SubSeq(s, 1, k)[i] = s[i]
<1>1. Len(s) \in Nat /\ \A i \in 1..Len(s) : s[i] \in X
    OBVIOUS
<1>2. SubSeq(s, 1, k) \in Seq(X)
    BY <1>1, SubSeqProperties
<1> QED
    BY <1>1, <1>2

LEMMA FrontIs ==
    ASSUME NEW X, NEW s \in Seq(X), s # <<>>
    PROVE  /\ Len(s) \in Nat \ {0} /\ Last(s) = s[Len(s)] /\ Last(s) \in X
           /\ Front(s) \in Seq(X) /\ Len(Front(s)) = Len(s) - 1
           /\ \A i \in 1..(Len(s) - 1) : Front(s)[i] = s[i]
<1> DEFINE k == Len(s) - 1
<1>1. Len(s) \in Nat \ {0} /\ k \in Nat /\ k <= Len(s) /\ s[Len(s)] \in X
    OBVIOUS
<1> HIDE DEF k
<1>2. SubSeq(s, 1, k) \in Seq(X) /\ Len(SubSeq(s, 1, k)) = k /\ \A i \in 1..k : SubSeq(s, 1, k)[i] = s[i]
    BY <1>1, CutIs
<1> QED
    BY <1>1, <1>2 DEF k, Front, Last

LEMMA AppendIs ==
    ASSUME NEW X, NEW s \in Seq(X), NEW e \in X
    PROVE  /\ Append(s, e) \in Seq(X) /\ Len(Append(s, e)) = Len(s) + 1 /\ Append(s, e) # <<>>
           /\ Append(s, e)[Len(s) + 1] = e /\ \A i \in 1..Len(s) : Append(s, e)[i] = s[i]
           /\ Last(Append(s, e)) = e
BY DEF Last

\* The same as one fact, which is found without looking at sequences.
Extended(X, s, e) ==
    /\ Append(s, e) \in Seq(X) /\ Len(Append(s, e)) = Len(s) + 1
    /\ Append(s, e)[Len(s) + 1] = e /\ \A i \in 1..Len(s) : Append(s, e)[i] = s[i]

LEMMA ExtendedIs == ASSUME NEW X, NEW s \in Seq(X), NEW e \in X PROVE Extended(X, s, e)
BY AppendIs DEF Extended

LEMMA SameSeq ==
    ASSUME NEW X, NEW s \in Seq(X), NEW t \in Seq(X), Len(s) = Len(t), \A i \in 1..Len(s) : s[i] = t[i]
    PROVE  s = t
OBVIOUS

LEMMA FrontOfAppend ==
    ASSUME NEW X, NEW s \in Seq(X), NEW e \in X
    PROVE  Front(Append(s, e)) = s
<1> DEFINE t == Append(s, e)
<1>1. t \in Seq(X) /\ Len(t) = Len(s) + 1 /\ t # <<>> /\ \A i \in 1..Len(s) : t[i] = s[i]
    BY AppendIs
<1> HIDE DEF t
<1>2. Front(t) \in Seq(X) /\ Len(Front(t)) = Len(t) - 1 /\ \A i \in 1..(Len(t) - 1) : Front(t)[i] = t[i]
    BY <1>1, FrontIs
<1>3. Len(Front(t)) = Len(s) /\ \A i \in 1..Len(s) : Front(t)[i] = s[i]
    BY SMTT(40), <1>1, <1>2
<1>4. Front(t) = s
    BY <1>2, <1>3, SameSeq
<1> QED
    BY <1>4 DEF t

LEMMA ConcatIs ==
    ASSUME NEW X, NEW s \in Seq(X), NEW t \in Seq(X)
    PROVE  /\ s \o t \in Seq(X) /\ Len(s \o t) = Len(s) + Len(t) /\ Len(s) \in Nat /\ Len(t) \in Nat
           /\ \A i \in 1..Len(s) : (s \o t)[i] = s[i]
           /\ \A i \in 1..Len(t) : (s \o t)[Len(s) + i] = t[i]
OBVIOUS

LEMMA RemovedAtIs ==
    ASSUME NEW X, NEW s \in Seq(X), NEW i \in 1..Len(s)
    PROVE  /\ RemoveAt(s, i) \in Seq(X) /\ Len(RemoveAt(s, i)) = Len(s) - 1
           /\ \A j \in 1..(i - 1) : RemoveAt(s, i)[j] = s[j]
           /\ \A j \in i..(Len(s) - 1) : RemoveAt(s, i)[j] = s[j + 1]
<1> DEFINE k == i - 1
           a == SubSeq(s, 1, k)
           b == SubSeq(s, i + 1, Len(s))
           m == Len(s) - i
<1>1. Len(s) \in Nat /\ k \in Nat /\ k <= Len(s) /\ m \in Nat /\ \A j \in 1..Len(s) : s[j] \in X
    OBVIOUS
<1>2. RemoveAt(s, i) = a \o b
    BY DEF RemoveAt
<1>3. b \in Seq(X)
    BY <1>1, SubSeqProperties
<1>4. Len(b) = m /\ \A j \in 1..m : b[j] = s[i + j]
    BY <1>1
<1> HIDE DEF k, b, m
<1>5. a \in Seq(X) /\ Len(a) = k /\ \A j \in 1..k : a[j] = s[j]
    BY <1>1, CutIs
<1> HIDE DEF a
<1>6. /\ a \o b \in Seq(X) /\ Len(a \o b) = k + m
      /\ \A j \in 1..k : (a \o b)[j] = a[j]
      /\ \A j \in 1..m : (a \o b)[k + j] = b[j]
    <2>0. a \in Seq(X) /\ b \in Seq(X)
        BY <1>3, <1>5
    <2>1. /\ a \o b \in Seq(X) /\ Len(a \o b) = Len(a) + Len(b)
          /\ \A j \in 1..Len(a) : (a \o b)[j] = a[j]
          /\ \A j \in 1..Len(b) : (a \o b)[Len(a) + j] = b[j]
        BY <2>0
    <2> QED
        BY <1>4, <1>5, <2>1
<1>7. \A j \in 1..k : (a \o b)[j] = s[j]
    BY <1>1, <1>5, <1>6
<1>8. \A j \in (k + 1)..(k + m) : (a \o b)[j] = s[j + 1]
    <2> TAKE j \in (k + 1)..(k + m)
    <2> DEFINE l == j - k
    <2>1. l \in 1..m /\ k + l = j /\ i + l = j + 1
        BY <1>1 DEF k
    <2> HIDE DEF l
    <2>2. (a \o b)[k + l] = b[l] /\ b[l] = s[i + l]
        BY <1>4, <1>6, <2>1
    <2> QED
        BY <2>1, <2>2
<1>9. k + m = Len(s) - 1 /\ k + 1 = i /\ k = i - 1
    BY <1>1 DEF k, m
<1> QED
    BY <1>2, <1>6, <1>7, <1>8, <1>9

LEMMA RemovedFirstIs ==
    ASSUME NEW X, NEW s \in Seq(X), NEW i \in 1..Len(s), NEW e, s[i] = e, \A j \in 1..(i - 1) : s[j] # e
    PROVE  RemoveFirst(s, e) = RemoveAt(s, i)
<1> DEFINE I == {j \in 1..Len(s) : s[j] = e}
<1>1. I \in SUBSET (1..Len(s)) /\ I # {} /\ Len(s) \in Nat
    OBVIOUS
<1>2. Min(I) \in I /\ \A j \in I : Min(I) <= j
    <2> HIDE DEF I
    <2> QED
        BY <1>1, MinIs
<1>3. Min(I) = i
    BY <1>2
<1>4. SelectInSeq(s, LAMBDA v : v = e) = Min(I)
    BY <1>1 DEF SelectInSeq
<1> QED
    BY <1>3, <1>4 DEF RemoveFirst

---------------------------------------------------------------------------
(* The stack of open elements *)

\* Nothing but the stack changes.
OnlyOpen(p, q) ==
    /\ q \in Parsers /\ q.mode = p.mode /\ q.orig = p.orig /\ q.active = p.active /\ q.head = p.head
    /\ q.form = p.form /\ q.stop = p.stop /\ q.text = p.text /\ q.state = p.state

LEMMA OpenIs ==
    ASSUME NEW p \in Parsers, NEW s \in Seq(Nodes)
    PROVE  [p EXCEPT !.open = s].open = s /\ OnlyOpen(p, [p EXCEPT !.open = s])
BY DEF Parsers, OnlyOpen

LEMMA NodesAre == None \in Nodes /\ Marker \in Nodes /\ None.id = 0 /\ None.tag = "none"
BY DEF None, Marker, Nodes, Names

LEMMA ImageIs ==
    ASSUME NEW S, IsFiniteSet(S), NEW f
    PROVE  IsFiniteSet({f[x] : x \in S})
<1> DEFINE T == {f[x] : x \in S}
           g == [x \in S |-> f[x]]
<1>1. g \in Surjection(S, T)
    BY DEF Surjection
<1> QED
    BY <1>1, FS_Surjection

\* A new element gets a number that no other one has.
LEMMA FreshIs ==
    ASSUME NEW p \in Parsers
    PROVE  Fresh(p) \in Nat \ {0} /\ Fresh(p) \notin Used(p)
<1> DEFINE U == Used(p)
           n == Cardinality(U)
           Free(i) == i \in 1..(n + 1) /\ i \notin U /\ \A j \in 1..(i - 1) : j \in U
<1>1. IsFiniteSet(U)
    <2> DEFINE N == ToSet(p.open) \cup ToSet(p.active) \cup {p.head, p.form}
    <2>1. ASSUME NEW s \in Seq(Nodes) PROVE IsFiniteSet(ToSet(s))
        <3>1. IsFiniteSet(1..Len(s)) /\ DOMAIN s = 1..Len(s)
            BY FS_Interval
        <3>2. IsFiniteSet({s[i] : i \in 1..Len(s)})
            BY <3>1, ImageIs
        <3> QED
            BY <3>1, <3>2 DEF ToSet
    <2>2. IsFiniteSet(ToSet(p.open)) /\ IsFiniteSet(ToSet(p.active))
        BY <2>1 DEF Parsers
    <2>3. IsFiniteSet({p.head, p.form})
        <3>1. IsFiniteSet({p.head}) /\ IsFiniteSet({p.form})
            BY FS_Singleton
        <3>2. IsFiniteSet({p.head} \cup {p.form})
            BY <3>1, FS_Union
        <3>3. {p.head, p.form} = {p.head} \cup {p.form}
            OBVIOUS
        <3> QED
            BY <3>2, <3>3
    <2>4. IsFiniteSet(N)
        <3>1. IsFiniteSet(ToSet(p.open) \cup ToSet(p.active))
            BY <2>2, FS_Union
        <3> QED
            BY <2>3, <3>1, FS_Union
    <2> HIDE DEF N
    <2>5. IsFiniteSet({e.id : e \in N})
        <3> DEFINE f == [e \in N |-> e.id]
        <3>1. IsFiniteSet({f[e] : e \in N})
            <4> HIDE DEF f
            <4> QED
                BY <2>4, ImageIs
        <3>2. {f[e] : e \in N} = {e.id : e \in N}
            OBVIOUS
        <3> QED
            BY <3>1, <3>2
    <2> QED
        BY <2>5 DEF N, Used
<1>2. n \in Nat
    BY <1>1, FS_CardinalityType
<1>3. \E i \in 1..(n + 1) : i \notin U
    <2> SUFFICES ASSUME 1..(n + 1) \subseteq U PROVE FALSE
        OBVIOUS
    <2>1. IsFiniteSet(1..(n + 1)) /\ Cardinality(1..(n + 1)) = n + 1
        <3>1. 1 \in Int /\ n + 1 \in Int /\ ~(1 > n + 1) /\ (n + 1) - 1 + 1 = n + 1
            BY <1>2
        <3> QED
            BY <3>1, FS_Interval
    <2>2. Cardinality(1..(n + 1)) <= n
        BY <1>1, FS_Subset
    <2> QED
        BY <1>2, <2>1, <2>2
<1>4. \E i : Free(i)
    <2> DEFINE S == {i \in 1..(n + 1) : i \notin U}
    <2>1. Min(S) \in S /\ \A i \in S : Min(S) <= i
        <3>1. S \in SUBSET (1..(n + 1)) /\ S # {} /\ n + 1 \in Nat
            BY <1>2, <1>3
        <3> HIDE DEF S
        <3> QED
            BY <3>1, MinIs
    <2>2. \A j \in 1..(Min(S) - 1) : j \in 1..(n + 1) /\ j < Min(S)
        BY <1>2, <2>1
    <2>3. \A j \in 1..(Min(S) - 1) : j \in U
        BY <1>2, <2>1, <2>2
    <2> HIDE DEF U, n
    <2> QED
        BY <2>1, <2>3
<1>5. Fresh(p) = CHOOSE i : Free(i)
    <2>1. Fresh(p) = CHOOSE i \in 1..(n + 1) : i \notin U /\ \A j \in 1..(i - 1) : j \in U
        BY Zenon DEF Fresh
    <2> QED
        BY <2>1
<1>6. Free(Fresh(p))
    BY <1>4, <1>5, Zenon
<1> QED
    BY <1>2, <1>6

LEMMA InsertIs ==
    ASSUME NEW p \in Parsers, NEW tag \in Names
    PROVE  /\ OnlyOpen(p, InsertElement(p, tag))
           /\ InsertElement(p, tag).open = Append(p.open, [id |-> Fresh(p), tag |-> tag])
           /\ [id |-> Fresh(p), tag |-> tag] \in Nodes
           /\ Current(InsertElement(p, tag)) = [id |-> Fresh(p), tag |-> tag]
           /\ Len(InsertElement(p, tag).open) = Len(p.open) + 1
           /\ \A i \in 1..Len(p.open) : InsertElement(p, tag).open[i] = p.open[i]
<1> DEFINE e == [id |-> Fresh(p), tag |-> tag]
           s == Append(p.open, e)
           q == InsertElement(p, tag)
<1>1. e \in Nodes /\ p.open \in Seq(Nodes)
    BY FreshIs DEF Nodes, Parsers
<1>2. q = [p EXCEPT !.open = s]
    BY DEF InsertElement, PushOpenElement
<1> HIDE DEF e, q
<1>3. /\ s \in Seq(Nodes) /\ Len(s) = Len(p.open) + 1 /\ s # <<>>
      /\ \A i \in 1..Len(p.open) : s[i] = p.open[i]
      /\ Last(s) = e
    BY <1>1, AppendIs
<1> HIDE DEF s
<1>4. q.open = s /\ OnlyOpen(p, q)
    BY <1>2, <1>3, OpenIs
<1>5. Current(q) = e
    BY <1>3, <1>4 DEF Current
<1> QED
    BY <1>1, <1>3, <1>4, <1>5 DEF e, q, s

LEMMA CurrentIs ==
    ASSUME NEW p \in Parsers
    PROVE  /\ Current(p) \in Nodes
           /\ p.open # <<>> => Len(p.open) \in Nat \ {0} /\ Current(p) = p.open[Len(p.open)]
BY NodesAre, FrontIs DEF Current, Parsers, Last

LEMMA PopIs ==
    ASSUME NEW p \in Parsers, p.open # <<>>
    PROVE  /\ OnlyOpen(p, PopCurrent(p)) /\ PopCurrent(p).open = Front(p.open)
           /\ Len(PopCurrent(p).open) = Len(p.open) - 1
           /\ \A i \in 1..(Len(p.open) - 1) : PopCurrent(p).open[i] = p.open[i]
<1>1. /\ Front(p.open) \in Seq(Nodes) /\ Len(Front(p.open)) = Len(p.open) - 1
      /\ \A i \in 1..(Len(p.open) - 1) : Front(p.open)[i] = p.open[i]
    BY FrontIs, SMTT(40) DEF Parsers
<1>2. PopCurrent(p) = [p EXCEPT !.open = Front(p.open)]
    BY DEF PopCurrent
<1> QED
    BY <1>1, <1>2, OpenIs

LEMMA PushedPopped ==
    ASSUME NEW p \in Parsers, NEW tag \in Names
    PROVE  OnlyOpen(p, PopCurrent(InsertElement(p, tag))) /\ PopCurrent(InsertElement(p, tag)).open = p.open
<1> DEFINE q == InsertElement(p, tag)
           e == [id |-> Fresh(p), tag |-> tag]
<1>1. OnlyOpen(p, q) /\ q.open = Append(p.open, e) /\ e \in Nodes /\ p.open \in Seq(Nodes)
    BY InsertIs DEF Parsers
<1> HIDE DEF q, e
<1>2. q.open # <<>> /\ q \in Parsers
    BY <1>1, AppendIs DEF OnlyOpen
<1>3. OnlyOpen(q, PopCurrent(q)) /\ PopCurrent(q).open = p.open
    <2>1. Front(Append(p.open, e)) = p.open
        BY <1>1, FrontOfAppend
    <2>2. OnlyOpen(q, PopCurrent(q)) /\ PopCurrent(q).open = Front(q.open)
        BY <1>2, PopIs
    <2> QED
        BY <1>1, <2>1, <2>2
<1>4. OnlyOpen(p, PopCurrent(q))
    BY <1>1, <1>3 DEF OnlyOpen
<1> QED
    BY <1>3, <1>4 DEF q

\* Popping the stack down to k elements
CutTo(p, q, k) ==
    /\ k \in 0..Len(p.open) /\ q.open = SubSeq(p.open, 1, k) /\ OnlyOpen(p, q) /\ Len(q.open) = k
    /\ \A i \in 1..k : q.open[i] = p.open[i]

LEMMA CutToIs ==
    ASSUME NEW p \in Parsers, NEW k \in 0..Len(p.open)
    PROVE  CutTo(p, [p EXCEPT !.open = SubSeq(p.open, 1, k)], k)
<1>1. p.open \in Seq(Nodes) /\ k \in Nat /\ k <= Len(p.open) /\ Len(p.open) \in Nat
    BY DEF Parsers
<1> DEFINE s == SubSeq(p.open, 1, k)
<1>2. s \in Seq(Nodes) /\ Len(s) = k /\ \A i \in 1..k : s[i] = p.open[i]
    BY <1>1, CutIs
<1>3. s = SubSeq(p.open, 1, k)
    OBVIOUS
<1> HIDE DEF s
<1>4. [p EXCEPT !.open = s].open = s /\ OnlyOpen(p, [p EXCEPT !.open = s])
    BY <1>2, OpenIs
<1>5. CutTo(p, [p EXCEPT !.open = s], k)
    BY <1>2, <1>3, <1>4 DEF CutTo
<1> QED
    BY <1>5 DEF s

\* nh_html_generateImpliedEndTags() stops at the first element it must not pop.
LEMMA GenerateIs ==
    ASSUME NEW p \in Parsers, NEW exclude
    PROVE  \E k \in 0..Len(p.open) :
               /\ CutTo(p, GenerateImpliedEndTags(p, exclude), k)
               /\ \A i \in 1..Len(p.open) : p.open[i].tag \notin Implied \ exclude => i <= k
<1> DEFINE S == {i \in 1..Len(p.open) : p.open[i].tag \notin Implied \ exclude}
           k == IF S = {} THEN 0 ELSE Max(S)
<1>1. p.open \in Seq(Nodes) /\ Len(p.open) \in Nat /\ DOMAIN p.open = 1..Len(p.open) /\ S \in SUBSET (1..Len(p.open))
    BY DEF Parsers
<1>2. GenerateImpliedEndTags(p, exclude) = [p EXCEPT !.open = SubSeq(p.open, 1, k)]
    BY <1>1 DEF GenerateImpliedEndTags, Below
<1>3. \A i \in 1..Len(p.open) : p.open[i].tag \notin Implied \ exclude => i \in S
    OBVIOUS
<1>4. k \in 0..Len(p.open) /\ \A i \in S : i <= k
    <2> HIDE DEF S
    <2>1. CASE S = {}
        BY <1>1, <2>1
    <2>2. CASE S # {}
        <3>1. Max(S) \in S /\ \A i \in S : i <= Max(S)
            BY <1>1, <2>2, MaxIs
        <3>2. k = Max(S)
            BY <2>2
        <3>3. Max(S) \in 1..Len(p.open)
            BY <1>1, <3>1
        <3> HIDE DEF k
        <3> QED
            BY <1>1, <3>1, <3>2, <3>3
    <2> QED
        BY <2>1, <2>2
<1> HIDE DEF S, k
<1> QED
    BY <1>2, <1>3, <1>4, CutToIs

LEMMA PopUntilIs ==
    ASSUME NEW p \in Parsers, NEW tag, NEW i \in 1..Len(p.open), p.open[i].tag = tag
    PROVE  \E k \in 1..Len(p.open) : p.open[k].tag = tag /\ CutTo(p, PopUntil(p, tag), k - 1)
<1> DEFINE S == {j \in 1..Len(p.open) : p.open[j].tag = tag}
           k == Max(S)
<1>1. p.open \in Seq(Nodes) /\ Len(p.open) \in Nat /\ DOMAIN p.open = 1..Len(p.open) /\ S \in SUBSET (1..Len(p.open))
      /\ i \in S
    BY DEF Parsers
<1>2. k \in S
    <2> HIDE DEF S
    <2> QED
        BY <1>1, MaxIs
<1>3. k \in 1..Len(p.open) /\ p.open[k].tag = tag /\ k # 0
    BY <1>2
<1>4. PopUntil(p, tag) = [p EXCEPT !.open = SubSeq(p.open, 1, k - 1)]
    BY <1>1, <1>3 DEF PopUntil, Below
<1> HIDE DEF S, k
<1>5. k - 1 \in 0..Len(p.open)
    BY <1>1, <1>3
<1> QED
    BY <1>3, <1>4, <1>5, CutToIs

---------------------------------------------------------------------------
(* What tokens do once the body is begun *)

HasBody(p) ==
    /\ p \in Parsers /\ p.state # "underflow"
    /\ Len(p.open) >= 2 /\ p.open[1].tag = "html" /\ p.open[2].tag = "body"

SameMode(p, q) == q.mode = p.mode /\ q.orig = p.orig /\ q.text = p.text /\ q.stop = p.stop
Still(p, q) == HasBody(q) /\ SameMode(p, q)

LEMMA StillOn == ASSUME NEW p, NEW q, NEW r, Still(p, q), Still(q, r) PROVE Still(p, r)
BY DEF Still, SameMode

LEMMA StillSelf == ASSUME NEW p, HasBody(p) PROVE Still(p, p)
BY DEF Still, SameMode

LEMMA InsertStill ==
    ASSUME NEW p, HasBody(p), NEW tag \in Names
    PROVE  Still(p, InsertElement(p, tag))
<1> DEFINE q == InsertElement(p, tag)
<1>1. p \in Parsers /\ Len(p.open) \in Nat /\ 1 \in 1..Len(p.open) /\ 2 \in 1..Len(p.open)
    BY DEF HasBody, Parsers
<1>2. OnlyOpen(p, q) /\ Len(q.open) = Len(p.open) + 1 /\ \A i \in 1..Len(p.open) : q.open[i] = p.open[i]
    BY <1>1, InsertIs
<1> HIDE DEF q
<1>3. HasBody(q)
    BY <1>1, <1>2 DEF HasBody, OnlyOpen
<1>4. SameMode(p, q)
    BY <1>2 DEF SameMode, OnlyOpen
<1> QED
    BY <1>3, <1>4 DEF Still, q

LEMMA CutStill ==
    ASSUME NEW p, HasBody(p), NEW q, NEW k \in Nat, k >= 2, CutTo(p, q, k)
    PROVE  Still(p, q)
<1>1. 1 \in 1..k /\ 2 \in 1..k
    OBVIOUS
<1> QED
    BY <1>1 DEF HasBody, Still, SameMode, OnlyOpen, CutTo

LEMMA PopStill ==
    ASSUME NEW p, HasBody(p), Current(p).tag \notin {"html", "body"}
    PROVE  Still(p, PopCurrent(p))
<1> DEFINE n == Len(p.open)
           q == PopCurrent(p)
<1>1. p \in Parsers /\ n \in Nat /\ p.open # <<>>
    BY DEF HasBody, Parsers
<1>2. Current(p) = p.open[n]
    BY <1>1, CurrentIs
<1>3. n >= 3
    BY <1>1, <1>2 DEF HasBody
<1>4. OnlyOpen(p, q) /\ Len(q.open) = n - 1 /\ \A i \in 1..(n - 1) : q.open[i] = p.open[i]
    BY <1>1, PopIs
<1>5. n - 1 >= 2 /\ 1 \in 1..(n - 1) /\ 2 \in 1..(n - 1)
    BY <1>1, <1>3
<1> HIDE DEF n, q
<1>6. HasBody(q)
    BY <1>4, <1>5 DEF HasBody, OnlyOpen
<1>7. SameMode(p, q)
    BY <1>4 DEF SameMode, OnlyOpen
<1> QED
    BY <1>6, <1>7 DEF Still, q

LEMMA PushedPoppedStill ==
    ASSUME NEW p, HasBody(p), NEW tag \in Names
    PROVE  Still(p, PopCurrent(InsertElement(p, tag)))
BY PushedPopped DEF HasBody, Still, SameMode, OnlyOpen

\* No implied end tag pops the body, and one that pops up to an element there is stops above it.
LEMMA GenerateStill ==
    ASSUME NEW p, HasBody(p), NEW exclude
    PROVE  Still(p, GenerateImpliedEndTags(p, exclude))
<1> DEFINE q == GenerateImpliedEndTags(p, exclude)
<1>1. p \in Parsers /\ Len(p.open) \in Nat /\ 2 \in 1..Len(p.open) /\ p.open[2].tag \notin Implied
    BY DEF HasBody, Parsers, Implied
<1>2. PICK k \in 0..Len(p.open) :
          CutTo(p, q, k) /\ \A i \in 1..Len(p.open) : p.open[i].tag \notin Implied \ exclude => i <= k
    BY <1>1, GenerateIs
<1>3. k \in Nat /\ k >= 2
    BY <1>1, <1>2
<1> HIDE DEF q
<1> QED
    BY <1>2, <1>3, CutStill DEF q

LEMMA CloseStill ==
    ASSUME NEW p, HasBody(p), NEW exclude, NEW tag, tag \notin {"html", "body"}, tag \notin Implied \ exclude,
           NEW i \in 1..Len(p.open), p.open[i].tag = tag
    PROVE  Still(p, PopUntil(GenerateImpliedEndTags(p, exclude), tag))
<1> DEFINE q == GenerateImpliedEndTags(p, exclude)
           r == PopUntil(q, tag)
<1>1. p \in Parsers /\ Len(p.open) \in Nat
    BY DEF HasBody, Parsers
<1>2. Still(p, q)
    BY GenerateStill
<1>3. PICK k \in 0..Len(p.open) :
          CutTo(p, q, k) /\ \A j \in 1..Len(p.open) : p.open[j].tag \notin Implied \ exclude => j <= k
    BY <1>1, GenerateIs
<1>4. i \in 1..Len(q.open) /\ q.open[i].tag = tag /\ q \in Parsers /\ Len(q.open) \in Nat
    BY <1>1, <1>3 DEF CutTo, OnlyOpen
<1> HIDE DEF q
<1>5. PICK j \in 1..Len(q.open) : q.open[j].tag = tag /\ CutTo(q, r, j - 1)
    BY <1>4, PopUntilIs
<1>6. j # 1 /\ j # 2 /\ j - 1 \in Nat /\ j - 1 >= 2
    BY <1>2, <1>4, <1>5 DEF Still, HasBody
<1> HIDE DEF r
<1>7. Still(q, r)
    BY <1>2, <1>5, <1>6, CutStill DEF Still
<1> QED
    BY <1>2, <1>7, StillOn DEF q, r

LEMMA ScopeGives ==
    ASSUME NEW p, HasBody(p), NEW tag, NEW stops, InSpecificScope(p, tag, stops)
    PROVE  \E i \in 1..Len(p.open) : p.open[i].tag = tag
BY DEF InSpecificScope, HasBody, Parsers

LEMMA ClosePStill == ASSUME NEW p, HasBody(p) PROVE Still(p, ClosePInScope(p))
<1>1. CASE HasElementInButtonScope(p, "p")
    <2>1. PICK i \in 1..Len(p.open) : p.open[i].tag = "p"
        BY <1>1, ScopeGives DEF HasElementInButtonScope
    <2> QED
        BY <1>1, <2>1, CloseStill DEF ClosePInScope, CloseElement
<1>2. CASE ~HasElementInButtonScope(p, "p")
    BY <1>2, StillSelf DEF ClosePInScope
<1> QED
    BY <1>1, <1>2

\* Changes beside the stack
LEMMA BesideStill ==
    ASSUME NEW p, HasBody(p)
    PROVE  /\ Still(p, NotFramesetOk(p)) /\ Still(p, PushActive(p)) /\ Still(p, InsertMarker(p))
           /\ Still(p, [p EXCEPT !.state = "undefined"]) /\ Still(p, [p EXCEPT !.state = "exit"])
           /\ Still(p, [p EXCEPT !.state = "stuck"])
           /\ \A n \in Nodes : Still(p, [p EXCEPT !.form = n])
           /\ \A s \in Seq(Nodes) : Still(p, [p EXCEPT !.active = s])
<1>1. p \in Parsers /\ Current(p) \in Nodes /\ Marker \in Nodes
    BY CurrentIs, NodesAre DEF HasBody
<1>2. /\ Append(p.active, Current(p)) \in Seq(Nodes) /\ Append(p.active, Marker) \in Seq(Nodes)
    BY <1>1, AppendIs DEF Parsers
<1>3. ASSUME NEW s \in Seq(Nodes) PROVE Still(p, [p EXCEPT !.active = s])
    BY <1>1 DEF Still, HasBody, SameMode, Parsers
<1>4. ASSUME NEW n \in Nodes PROVE Still(p, [p EXCEPT !.form = n])
    BY <1>1 DEF Still, HasBody, SameMode, Parsers
<1>5. Still(p, NotFramesetOk(p))
    BY <1>1 DEF Still, HasBody, SameMode, Parsers, NotFramesetOk
<1>6. ASSUME NEW v \in {"undefined", "exit", "stuck"} PROVE Still(p, [p EXCEPT !.state = v])
    BY <1>1 DEF Still, HasBody, SameMode, Parsers
<1>7. Still(p, PushActive(p)) /\ Still(p, InsertMarker(p))
    BY <1>2, <1>3 DEF PushActive, InsertMarker
<1> QED
    BY <1>3, <1>4, <1>5, <1>6, <1>7

---------------------------------------------------------------------------
(* Active formatting elements *)

LEMMA RecreatedStill ==
    ASSUME NEW p, HasBody(p), NEW i \in 1..Len(p.active)
    PROVE  Still(p, Recreated(p, i)) /\ Len(Recreated(p, i).active) = Len(p.active)
<1> DEFINE tag == p.active[i].tag
           q == InsertElement(p, tag)
           s == [q.active EXCEPT ![i] = Current(q)]
<1>1. p \in Parsers /\ p.active \in Seq(Nodes) /\ p.active[i] \in Nodes
    BY DEF HasBody, Parsers
<1>2. tag \in Names
    BY <1>1 DEF Nodes
<1> HIDE DEF tag
<1>3. OnlyOpen(p, q) /\ Still(p, q)
    BY <1>1, <1>2, InsertIs, InsertStill
<1>4. Recreated(p, i) = [q EXCEPT !.active = s]
    BY DEF Recreated, tag
<1> HIDE DEF q
<1>5. Current(q) \in Nodes /\ q.active = p.active
    BY <1>3, CurrentIs DEF OnlyOpen
<1>6. s \in Seq(Nodes) /\ Len(s) = Len(p.active)
    BY <1>1, <1>5
<1> HIDE DEF s
<1>7. Still(q, [q EXCEPT !.active = s]) /\ [q EXCEPT !.active = s].active = s
    <2>1. HasBody(q)
        BY <1>3 DEF Still
    <2>2. [q EXCEPT !.active = s].active = s
        BY <2>1 DEF HasBody, Parsers
    <2> QED
        BY <1>6, <2>1, <2>2, BesideStill
<1> QED
    BY <1>3, <1>4, <1>6, <1>7, StillOn

\* The function in the loop of reconstructActiveFormattingElements()
OpenedUpto(p, first, m, g) == g = [k \in 0..m |-> IF k = 0 THEN p ELSE Recreated(g[k - 1], first - 1 - k)]

LEMMA OpenedExists ==
    ASSUME NEW p, NEW first, NEW m \in Nat
    PROVE  \E g : OpenedUpto(p, first, m, g)
<1> DEFINE S == {k \in Nat : \E g : OpenedUpto(p, first, k, g)}
<1>1. 0 \in S
    <2>1. OpenedUpto(p, first, 0, [k \in 0..0 |-> p])
        BY DEF OpenedUpto
    <2> QED
        BY <2>1
<1>2. ASSUME NEW k \in Nat, NEW g, OpenedUpto(p, first, k, g)
      PROVE  \E h : OpenedUpto(p, first, k + 1, h)
    <2> DEFINE v == Recreated(g[k], first - 1 - (k + 1))
               h == [j \in 0..(k + 1) |-> IF j = k + 1 THEN v ELSE g[j]]
    <2>1. \A j \in 0..(k + 1) : h[j] = IF j = 0 THEN p ELSE Recreated(h[j - 1], first - 1 - j)
        <3> TAKE j \in 0..(k + 1)
        <3>1. CASE j = k + 1
            <4>1. h[j] = v /\ j - 1 = k /\ h[k] = g[k] /\ j # 0
                BY <3>1
            <4> HIDE DEF h
            <4> QED
                BY <3>1, <4>1
        <3>2. CASE j # k + 1
            <4>1. j \in 0..k /\ h[j] = g[j] /\ (j # 0 => h[j - 1] = g[j - 1])
                BY <3>2
            <4>2. g[j] = IF j = 0 THEN p ELSE Recreated(g[j - 1], first - 1 - j)
                BY <1>2, <4>1 DEF OpenedUpto
            <4> HIDE DEF h
            <4> QED
                BY <4>1, <4>2
        <3> QED
            BY <3>1, <3>2
    <2>2. h = [j \in 0..(k + 1) |-> IF j = 0 THEN p ELSE Recreated(h[j - 1], first - 1 - j)]
        BY <2>1
    <2> HIDE DEF h
    <2>3. OpenedUpto(p, first, k + 1, h)
        BY <2>2 DEF OpenedUpto
    <2> QED
        BY <2>3
<1>3. \A k \in Nat : k \in S => k + 1 \in S
    BY <1>2
<1>4. m \in S
    <2> HIDE DEF S
    <2> QED
        BY <1>1, <1>3, SetInduction
<1> QED
    BY <1>4

LEMMA OpenedStill ==
    ASSUME NEW p, HasBody(p), NEW first \in 1..Len(p.active), NEW m \in Nat, m <= first - 2, NEW g, OpenedUpto(p, first, m, g)
    PROVE  Still(p, g[m])
<1> DEFINE S == {k \in Nat : k <= m => Still(p, g[k]) /\ Len(g[k].active) = Len(p.active)}
<1>0. Len(p.active) \in Nat
    BY DEF HasBody, Parsers
<1>1. \A k \in 0..m : g[k] = IF k = 0 THEN p ELSE Recreated(g[k - 1], first - 1 - k)
    BY DEF OpenedUpto
<1>2. 0 \in S
    <2>1. g[0] = p
        BY <1>1
    <2> QED
        BY <2>1, StillSelf
<1>3. ASSUME NEW k \in Nat, Still(p, g[k]), Len(g[k].active) = Len(p.active), k + 1 <= m
      PROVE  Still(p, g[k + 1]) /\ Len(g[k + 1].active) = Len(p.active)
    <2>1. k + 1 \in 0..m /\ k + 1 # 0 /\ (k + 1) - 1 = k
        BY <1>3
    <2>2. g[k + 1] = Recreated(g[k], first - 1 - (k + 1))
        BY <1>1, <2>1
    <2>3. first - 1 - (k + 1) \in 1..Len(g[k].active)
        BY <1>0, <1>3
    <2>4. Still(g[k], g[k + 1]) /\ Len(g[k + 1].active) = Len(g[k].active)
        BY <1>3, <2>2, <2>3, RecreatedStill DEF Still
    <2> QED
        BY <1>3, <2>4, StillOn
<1>4. \A k \in Nat : k \in S => k + 1 \in S
    <2> SUFFICES ASSUME NEW k \in Nat, k \in S, k + 1 <= m
                 PROVE  Still(p, g[k + 1]) /\ Len(g[k + 1].active) = Len(p.active)
        OBVIOUS
    <2>1. k <= m
        OBVIOUS
    <2> QED
        BY <1>3, <2>1
<1>5. m \in S
    <2> HIDE DEF S
    <2> QED
        BY <1>2, <1>4, SetInduction
<1> QED
    BY <1>5

LEMMA ReconstructStill == ASSUME NEW p, HasBody(p) PROVE Still(p, Reconstruct(p))
<1> DEFINE n == Len(p.active)
           closed == {k \in 1..n : \A j \in k..n : Closed(p, j)}
           first == Min(closed)
           m == first - 2
           opened == CHOOSE g : OpenedUpto(p, first, m, g)
<1>0. n \in Nat
    BY DEF HasBody, Parsers
<1>1. CASE closed = {}
    BY <1>1, StillSelf DEF Reconstruct
<1>2. CASE closed # {} /\ first = 1
    <2>1. Reconstruct(p) = Recreated(p, 1)
        BY <1>2 DEF Reconstruct
    <2>2. 1 \in 1..n
        BY <1>0, <1>2
    <2> QED
        BY <2>1, <2>2, RecreatedStill
<1>3. CASE closed # {} /\ first # 1 /\ (first = 2 \/ \E i \in 1..(first - 2) : p.active[i] = Marker)
    BY <1>3, BesideStill DEF Reconstruct
<1>4. CASE closed # {} /\ first # 1 /\ ~(first = 2 \/ \E i \in 1..(first - 2) : p.active[i] = Marker)
    <2>1. first \in 1..n
        <3>1. closed \in SUBSET (1..n)
            OBVIOUS
        <3> HIDE DEF closed
        <3> QED
            BY <1>0, <1>4, <3>1, MinIs
    <2>2. m \in Nat
        <3> HIDE DEF closed
        <3> QED
            BY <1>4, <2>1
    <2>3. Reconstruct(p) = opened[m]
        <3>1. opened = CHOOSE opened_1 : opened_1 = [k \in 0..(first - 2) |-> IF k = 0 THEN p ELSE Recreated(opened_1[k - 1], first - 1 - k)]
            BY Zenon DEF OpenedUpto
        <3> QED
            BY <1>4, <3>1 DEF Reconstruct
    <2> HIDE DEF closed
    <2>4. OpenedUpto(p, first, m, opened)
        BY <2>2, OpenedExists
    <2> HIDE DEF opened, m
    <2> QED
        BY <2>1, <2>2, <2>3, <2>4, OpenedStill DEF m
<1> HIDE DEF closed
<1> QED
    BY <1>1, <1>2, <1>3, <1>4

\* A formatting element is taken out with all above it, or forgotten.
LEMMA AdoptionStill ==
    ASSUME NEW p, HasBody(p), NEW tag, tag \notin {"html", "body"}
    PROVE  Still(p, Adoption(p, tag))
<1> DEFINE markers == {i \in DOMAIN p.active : p.active[i] = Marker}
           found == {i \in DOMAIN p.active : p.active[i].tag = tag /\ \A m \in markers : m < i}
           f == p.active[Max(found)]
           S == {i \in DOMAIN p.open : p.open[i] = f}
           at == IF S = {} THEN 0 ELSE Max(S)
           without == RemoveAt(p.active, Max(found))
           q == [p EXCEPT !.open = SubSeq(p.open, 1, at - 1)]
<1>0. /\ p \in Parsers /\ Len(p.active) \in Nat /\ DOMAIN p.active = 1..Len(p.active)
      /\ Len(p.open) \in Nat /\ DOMAIN p.open = 1..Len(p.open) /\ p.active \in Seq(Nodes)
    BY DEF HasBody, Parsers
<1>1. CASE Current(p).tag = tag /\ Current(p) \notin ToSet(p.active)
    BY <1>1, PopStill DEF Adoption
<1>2. CASE ~(Current(p).tag = tag /\ Current(p) \notin ToSet(p.active)) /\ found = {}
    BY <1>2, StillSelf DEF Adoption
<1>3. ASSUME found # {} PROVE Max(found) \in 1..Len(p.active) /\ f.tag = tag
    <2>1. Max(found) \in found
        <3>1. found \in SUBSET (1..Len(p.active))
            BY <1>0
        <3> HIDE DEF found
        <3> QED
            BY <1>0, <1>3, <3>1, MaxIs
    <2> QED
        BY <1>0, <2>1
<1>4. found # {} => without \in Seq(Nodes)
    <2> HIDE DEF found
    <2> QED
        BY <1>0, <1>3, RemovedAtIs
<1>5. found # {} /\ at # 0 => at \in 1..Len(p.open) /\ p.open[at] = f /\ at >= 3
    <2> SUFFICES ASSUME found # {}, at # 0 PROVE at \in 1..Len(p.open) /\ p.open[at] = f /\ at >= 3
        OBVIOUS
    <2>1. S # {} /\ at = Max(S)
        OBVIOUS
    <2>2. Max(S) \in S
        <3>1. S \in SUBSET (1..Len(p.open))
            BY <1>0
        <3> HIDE DEF S
        <3> QED
            BY <1>0, <2>1, <3>1, MaxIs
    <2>3. at \in 1..Len(p.open) /\ p.open[at] = f
        BY <1>0, <2>1, <2>2
    <2>4. f.tag = tag
        BY <1>3
    <2> HIDE DEF at, f
    <2> QED
        BY SMTT(40), <1>0, <2>3, <2>4 DEF HasBody
<1>6. CASE ~(Current(p).tag = tag /\ Current(p) \notin ToSet(p.active)) /\ found # {} /\ at = 0
    <2>1. Adoption(p, tag) = [p EXCEPT !.active = without]
        BY <1>6 DEF Adoption, Below
    <2>2. without \in Seq(Nodes)
        BY <1>4, <1>6, Zenon
    <2> HIDE DEF without
    <2>3. \A s \in Seq(Nodes) : Still(p, [p EXCEPT !.active = s])
        BY BesideStill
    <2> QED
        BY <2>1, <2>2, <2>3
<1>7. CASE ~(Current(p).tag = tag /\ Current(p) \notin ToSet(p.active)) /\ found # {} /\ at # 0
    <2>1. CASE ~HasElementInScope(p, tag)
        <3>1. Adoption(p, tag) = p
            BY <1>7, <2>1 DEF Adoption, Below
        <3> QED
            BY <3>1, StillSelf
    <2>2. CASE HasElementInScope(p, tag) /\ \E i \in (at + 1)..Len(p.open) : p.open[i].tag \in Special
        <3>1. Adoption(p, tag) = [p EXCEPT !.state = "exit"]
            BY <1>7, <2>2 DEF Adoption, Below
        <3> QED
            BY <3>1, BesideStill
    <2>3. CASE HasElementInScope(p, tag) /\ ~\E i \in (at + 1)..Len(p.open) : p.open[i].tag \in Special
        <3>1. Adoption(p, tag) = [q EXCEPT !.active = RemoveAt(q.active, Max(found))]
            BY <1>7, <2>3 DEF Adoption, Below
        <3>2. at - 1 \in 0..Len(p.open) /\ at - 1 \in Nat /\ at - 1 >= 2
            <4> HIDE DEF at
            <4> QED
                BY <1>0, <1>5, <1>7
        <3> HIDE DEF at
        <3> DEFINE k == at - 1
        <3>a. k \in 0..Len(p.open) /\ k \in Nat /\ k >= 2 /\ q = [p EXCEPT !.open = SubSeq(p.open, 1, k)]
            BY <3>2
        <3> HIDE DEF k, q
        <3>b. CutTo(p, q, k)
            BY <1>0, <3>a, CutToIs
        <3>3. Still(p, q) /\ q.active = p.active
            BY <3>a, <3>b, CutStill, ZenonT(60) DEF CutTo, OnlyOpen
        <3>4. Adoption(p, tag) = [q EXCEPT !.active = without]
            BY <3>1, <3>3
        <3> HIDE DEF without, found
        <3>5. Still(q, [q EXCEPT !.active = without])
            BY <1>4, <1>7, <3>3, BesideStill DEF Still
        <3> QED
            BY <3>3, <3>4, <3>5, StillOn
    <2> HIDE DEF at
    <2> QED
        BY <2>1, <2>2, <2>3
<1> HIDE DEF found, at
<1> QED
    BY <1>1, <1>2, <1>6, <1>7

---------------------------------------------------------------------------
(* Start tags and end tags in the body *)

LEMMA HeadingStill ==
    ASSUME NEW p, HasBody(p), NEW tag \in Names
    PROVE  Still(p, Heading(p, tag))
<1> DEFINE q == ClosePInScope(p)
           r == IF Current(q).tag \in Headings THEN PopCurrent(q) ELSE q
<1>1. Still(p, q)
    BY ClosePStill
<1>2. Still(q, r)
    <2> HIDE DEF q
    <2>1. Current(q).tag \in Headings => Current(q).tag \notin {"html", "body"}
        BY DEF Headings
    <2> QED
        BY <1>1, <2>1, PopStill, StillSelf DEF Still
<1>3. Heading(p, tag) = InsertElement(r, tag)
    BY DEF Heading
<1> HIDE DEF q, r
<1>4. Still(r, InsertElement(r, tag))
    BY <1>2, InsertStill DEF Still
<1> QED
    BY <1>1, <1>2, <1>3, <1>4, StillOn

LEMMA FormStill == ASSUME NEW p, HasBody(p), "form" \in Names PROVE Still(p, Form(p))
<1> DEFINE q == ClosePInScope(p)
           r == InsertElement(q, "form")
<1>1. CASE p.form # None /\ ~HasOpenElement(p, "template")
    BY <1>1, StillSelf DEF Form
<1>2. CASE ~(p.form # None /\ ~HasOpenElement(p, "template"))
    <2>1. Form(p) = IF HasOpenElement(r, "template") THEN r ELSE [r EXCEPT !.form = Current(r)]
        BY <1>2, Zenon DEF Form
    <2>2. Still(p, q)
        BY ClosePStill
    <2> HIDE DEF q
    <2>3. Still(q, r)
        BY <2>2, InsertStill DEF Still
    <2> HIDE DEF r
    <2>4. Still(r, [r EXCEPT !.form = Current(r)]) /\ Still(r, r)
        BY <2>3, CurrentIs, BesideStill, StillSelf, ZenonT(60) DEF Still, HasBody
    <2> QED
        BY <2>1, <2>2, <2>3, <2>4, StillOn
<1> QED
    BY <1>1, <1>2

LEMMA ItemStill ==
    ASSUME NEW p, HasBody(p), NEW tag \in Names
    PROVE  Still(p, Item(p, tag))
<1> DEFINE items == IF tag = "li" THEN {"li"} ELSE {"dd", "dt"}
           Stops(e) == e.tag \in items \cup (Special \ {"address", "div", "p"})
           node == IF Stops(Current(p)) THEN Current(p) ELSE p.open[Len(p.open) - 1]
           q == IF node.tag \in items THEN CloseElement(p, node.tag) ELSE p
           r == ClosePInScope(q)
           u == InsertElement(r, tag)
<1>1. Item(p, tag) = IF Stops(node) THEN NotFramesetOk(u) ELSE [p EXCEPT !.state = "stuck"]
    BY DEF Item
<1>2. PICK i \in 1..Len(p.open) : node = p.open[i]
    <2>1. p \in Parsers /\ Len(p.open) \in Nat /\ Len(p.open) >= 2 /\ p.open # <<>>
        BY DEF HasBody, Parsers
    <2>2. Current(p) = p.open[Len(p.open)]
        BY <2>1, CurrentIs
    <2>3. Len(p.open) \in 1..Len(p.open) /\ Len(p.open) - 1 \in 1..Len(p.open)
        BY <2>1
    <2> HIDE DEF Stops
    <2> QED
        BY <2>2, <2>3
<1> HIDE DEF node
<1>3. Still(p, q)
    <2>1. CASE node.tag \in items
        <3>1. node.tag \notin {"html", "body"} /\ node.tag \notin Implied \ {node.tag} /\ p.open[i].tag = node.tag
            BY <1>2, <2>1
        <3>2. q = PopUntil(GenerateImpliedEndTags(p, {node.tag}), node.tag)
            BY <2>1 DEF CloseElement
        <3> HIDE DEF q
        <3> QED
            BY <3>1, <3>2, CloseStill
    <2>2. CASE node.tag \notin items
        BY <2>2, StillSelf
    <2> QED
        BY <2>1, <2>2
<1> HIDE DEF q
<1>4. Still(q, r)
    BY <1>3, ClosePStill DEF Still
<1> HIDE DEF r
<1>5. Still(r, u)
    BY <1>4, InsertStill DEF Still
<1> HIDE DEF u
<1>6. Still(u, NotFramesetOk(u))
    BY <1>5, BesideStill DEF Still
<1>7. Still(p, NotFramesetOk(u))
    BY <1>3, <1>4, <1>5, <1>6, StillOn
<1>8. Still(p, [p EXCEPT !.state = "stuck"])
    BY BesideStill
<1> HIDE DEF Stops
<1> QED
    BY <1>1, <1>7, <1>8

LEMMA ButtonStill == ASSUME NEW p, HasBody(p), "button" \in Names PROVE Still(p, Button(p))
<1> DEFINE q == IF HasElementInScope(p, "button") THEN PopUntil(GenerateImpliedEndTags(p, {}), "button") ELSE p
           r == Reconstruct(q)
           u == InsertElement(r, "button")
<1>1. Still(p, q)
    <2>1. CASE HasElementInScope(p, "button")
        <3>1. PICK i \in 1..Len(p.open) : p.open[i].tag = "button"
            BY <2>1, ScopeGives DEF HasElementInScope
        <3>2. "button" \notin Implied \ {}
            BY DEF Implied
        <3>3. Still(p, PopUntil(GenerateImpliedEndTags(p, {}), "button"))
            BY <3>1, <3>2, CloseStill
        <3> QED
            BY <2>1, <3>3
    <2>2. CASE ~HasElementInScope(p, "button")
        BY <2>2, StillSelf
    <2> QED
        BY <2>1, <2>2
<1>2. Button(p) = NotFramesetOk(u)
    BY DEF Button
<1> HIDE DEF q
<1>3. Still(q, r)
    BY <1>1, ReconstructStill DEF Still
<1> HIDE DEF r
<1>4. Still(r, u)
    BY <1>3, InsertStill DEF Still
<1> HIDE DEF u
<1>5. Still(u, NotFramesetOk(u))
    BY <1>4, BesideStill DEF Still
<1> QED
    BY <1>1, <1>2, <1>3, <1>4, <1>5, StillOn

LEMMA VoidStill == ASSUME NEW p, HasBody(p), NEW tag \in Names PROVE Still(p, Void(p, tag))
<1> DEFINE q == Reconstruct(p)
           r == PopCurrent(InsertElement(q, tag))
<1>1. Still(p, q) /\ Void(p, tag) = NotFramesetOk(r)
    BY ReconstructStill DEF Void
<1> HIDE DEF q
<1>2. Still(q, r)
    BY <1>1, PushedPoppedStill DEF Still
<1> HIDE DEF r
<1>3. Still(r, NotFramesetOk(r))
    BY <1>2, BesideStill DEF Still
<1> QED
    BY <1>1, <1>2, <1>3, StillOn

LEMMA OptionStill == ASSUME NEW p, HasBody(p), NEW tag \in Names PROVE Still(p, Option(p, tag))
<1> DEFINE q == IF Current(p).tag = "option" THEN PopCurrent(p) ELSE p
           r == Reconstruct(q)
<1>1. Still(p, q)
    BY PopStill, StillSelf
<1>2. Option(p, tag) = InsertElement(r, tag)
    BY DEF Option
<1> HIDE DEF q
<1>3. Still(q, r)
    BY <1>1, ReconstructStill DEF Still
<1> HIDE DEF r
<1>4. Still(r, InsertElement(r, tag))
    BY <1>3, InsertStill DEF Still
<1> QED
    BY <1>1, <1>2, <1>3, <1>4, StillOn

LEMMA RubyStill == ASSUME NEW p, HasBody(p), NEW tag \in Names PROVE Still(p, Ruby(p, tag))
<1> DEFINE q == IF HasElementInScope(p, "ruby") THEN GenerateImpliedEndTags(p, {}) ELSE p
<1>1. Still(p, q) /\ Ruby(p, tag) = InsertElement(q, tag)
    BY GenerateStill, StillSelf DEF Ruby
<1> HIDE DEF q
<1>2. Still(q, InsertElement(q, tag))
    BY <1>1, InsertStill DEF Still
<1> QED
    BY <1>1, <1>2, StillOn

LEMMA EndBlockStill ==
    ASSUME NEW p, HasBody(p), NEW tag, tag \notin {"html", "body"} \cup Implied
    PROVE  Still(p, EndBlock(p, tag))
<1>1. CASE HasElementInScope(p, tag)
    <2>1. PICK i \in 1..Len(p.open) : p.open[i].tag = tag
        BY <1>1, ScopeGives DEF HasElementInScope
    <2>2. Still(p, PopUntil(GenerateImpliedEndTags(p, {}), tag))
        BY <2>1, CloseStill
    <2> QED
        BY <1>1, <2>2 DEF EndBlock
<1>2. CASE ~HasElementInScope(p, tag)
    BY <1>2, StillSelf DEF EndBlock
<1> QED
    BY <1>1, <1>2

LEMMA CloseScopedStill ==
    ASSUME NEW p, HasBody(p), NEW tag, tag \notin {"html", "body"}, NEW stops, InSpecificScope(p, tag, stops)
    PROVE  Still(p, CloseElement(p, tag))
<1>1. PICK i \in 1..Len(p.open) : p.open[i].tag = tag
    BY ScopeGives
<1>2. Still(p, PopUntil(GenerateImpliedEndTags(p, {tag}), tag))
    BY <1>1, CloseStill
<1> QED
    BY <1>2 DEF CloseElement

LEMMA EndPStill == ASSUME NEW p, HasBody(p) PROVE Still(p, EndP(p))
<1>0. "p" \in Names
    BY DEF Names
<1>1. CASE HasElementInButtonScope(p, "p")
    BY <1>1, CloseScopedStill DEF EndP, HasElementInButtonScope
<1>2. CASE ~HasElementInButtonScope(p, "p")
    <2> DEFINE q == InsertElement(p, "p")
    <2>1. Still(p, q) /\ Len(q.open) = Len(p.open) + 1 /\ q.open[Len(q.open)].tag = "p"
        <3>1. p \in Parsers
            BY DEF HasBody
        <3>2. /\ Still(p, q) /\ Len(q.open) = Len(p.open) + 1 /\ Current(q) = [id |-> Fresh(p), tag |-> "p"]
              /\ Len(p.open) \in Nat
            <4>1. Len(q.open) = Len(p.open) + 1 /\ Current(q) = [id |-> Fresh(p), tag |-> "p"]
                BY <1>0, <3>1, InsertIs
            <4>2. Still(p, q) /\ Len(p.open) \in Nat
                BY <1>0, <3>1, InsertStill DEF Parsers
            <4> QED
                BY <4>1, <4>2
        <3> HIDE DEF q
        <3>3. q \in Parsers /\ q.open # <<>>
            BY <3>2 DEF Still, HasBody
        <3>4. Current(q) = q.open[Len(q.open)]
            BY <3>3, CurrentIs
        <3> QED
            BY <3>2, <3>4
    <2>2. EndP(p) = PopUntil(GenerateImpliedEndTags(q, {"p"}), "p")
        BY <1>2 DEF EndP, CloseElement
    <2> HIDE DEF q
    <2>3. Len(q.open) \in 1..Len(q.open) /\ HasBody(q)
        BY <2>1 DEF Still, HasBody, Parsers
    <2>4. Still(q, PopUntil(GenerateImpliedEndTags(q, {"p"}), "p"))
        BY <2>1, <2>3, CloseStill
    <2> QED
        BY <2>1, <2>2, <2>4, StillOn
<1> QED
    BY <1>1, <1>2

---------------------------------------------------------------------------
(* The modes and the texts *)

OwnTexts == {"rcdata", "rawtext"}
BodyModes == {"IN_BODY", "AFTER_BODY", "AFTER_AFTER_BODY"}
TextModes == {"IN_HEAD", "AFTER_HEAD", "IN_BODY"}

\* What a token leaves behind that comes while the body is begun
BodyGood(q) ==
    /\ HasBody(q) /\ q.mode \in BodyModes \cup {"IN_TEMPLATE", "IN_SELECT", "TEXT"}
    /\ q.mode = "TEXT" => q.orig = "IN_BODY" /\ Current(q).tag \in TextTags
    /\ q.mode = "TEXT" <=> q.text \in OwnTexts

LEMMA StillGood ==
    ASSUME NEW p, NEW q, Still(p, q), p.mode \in BodyModes, p.text \notin OwnTexts
    PROVE  BodyGood(q)
BY DEF Still, SameMode, BodyGood, BodyModes

LEMMA ToGood ==
    ASSUME NEW p, NEW q, Still(p, q), p.mode \in BodyModes, p.text \notin OwnTexts,
           NEW m \in BodyModes \cup {"IN_TEMPLATE", "IN_SELECT"}
    PROVE  BodyGood(To(q, m))
BY DEF Still, SameMode, BodyGood, BodyModes, To, HasBody, Parsers, Modes

LEMMA NotFramesetGood == ASSUME NEW q, BodyGood(q) PROVE BodyGood(NotFramesetOk(q))
BY DEF BodyGood, NotFramesetOk, HasBody, Parsers, Current

LEMMA ParseTextGood ==
    ASSUME NEW p, NEW r, Still(p, r), p.mode = "IN_BODY", NEW tag \in Names, tag \in TextTags, NEW text \in OwnTexts
    PROVE  BodyGood(ParseText(r, tag, text))
<1> DEFINE q == InsertElement(r, tag)
           u == [q EXCEPT !.text = text, !.orig = r.mode, !.mode = "TEXT"]
<1>1. HasBody(r) /\ r \in Parsers /\ r.mode = "IN_BODY"
    BY DEF Still, SameMode, HasBody
<1>2. Still(r, q) /\ Current(q).tag = tag /\ ParseText(r, tag, text) = u
    <2>1. Still(r, q)
        BY <1>1, InsertStill
    <2>2. Current(q) = [id |-> Fresh(r), tag |-> tag]
        BY <1>1, InsertIs
    <2> QED
        BY <2>1, <2>2 DEF ParseText
<1> HIDE DEF q
<1>3. q \in Parsers /\ u = [q EXCEPT !.text = text, !.orig = "IN_BODY", !.mode = "TEXT"]
    BY <1>1, <1>2 DEF Still, HasBody
<1>4. u \in Parsers /\ u.mode = "TEXT" /\ u.orig = "IN_BODY" /\ u.text = text /\ u.open = q.open /\ u.state = q.state
    BY <1>3, ZenonT(60) DEF Parsers, Modes, OwnTexts
<1> HIDE DEF u
<1>5. Current(u) = Current(q)
    BY <1>4 DEF Current
<1>6. HasBody(u)
    BY <1>2, <1>4 DEF HasBody, Still
<1> QED
    BY <1>2, <1>4, <1>5, <1>6 DEF BodyGood

LEMMA TemplateGood ==
    ASSUME NEW p, HasBody(p), p.mode = "IN_BODY", p.text \notin OwnTexts, NEW tag \in Names
    PROVE  BodyGood(To(NotFramesetOk(InsertMarker(InsertElement(p, tag))), "IN_TEMPLATE"))
<1> DEFINE q == InsertElement(p, tag)
           r == InsertMarker(q)
           u == NotFramesetOk(r)
<1>1. Still(p, q)
    BY InsertStill
<1> HIDE DEF q
<1>2. Still(q, r)
    BY <1>1, BesideStill DEF Still
<1> HIDE DEF r
<1>3. Still(r, u)
    BY <1>2, BesideStill DEF Still
<1> HIDE DEF u
<1>4. Still(p, u)
    BY <1>1, <1>2, <1>3, StillOn
<1>5. BodyGood(To(u, "IN_TEMPLATE"))
    BY <1>4, ToGood DEF BodyModes
<1> QED
    BY <1>5 DEF u, r, q

LEMMA InHeadStartGood ==
    ASSUME NEW p, HasBody(p), p.mode = "IN_BODY", p.text \notin OwnTexts, NEW tag \in Names
    PROVE  BodyGood(InHeadStart(p, tag))
<1>0. Still(p, p) /\ BodyGood(p)
    BY StillSelf, StillGood DEF BodyModes
<1>1. CASE tag = "title"
    <2>1. InHeadStart(p, tag) = ParseText(p, tag, "rcdata")
        BY <1>1 DEF InHeadStart
    <2> QED
        BY <1>0, <1>1, <2>1, ParseTextGood DEF TextTags, OwnTexts
<1>2. CASE tag \in {"noframes", "style", "noscript"}
    <2>1. InHeadStart(p, tag) = ParseText(p, tag, "rawtext")
        BY <1>2 DEF InHeadStart
    <2> QED
        BY <1>0, <1>2, <2>1, ParseTextGood DEF TextTags, OwnTexts
<1>3. CASE tag \in {"base", "basefont", "bgsound", "link", "meta"}
    <2>1. InHeadStart(p, tag) = PopCurrent(InsertElement(p, tag))
        BY <1>3 DEF InHeadStart
    <2> QED
        BY <2>1, PushedPoppedStill, StillGood DEF BodyModes
<1>4. CASE tag = "template"
    <2>1. InHeadStart(p, tag) = To(NotFramesetOk(InsertMarker(InsertElement(p, tag))), "IN_TEMPLATE")
        BY <1>4 DEF InHeadStart
    <2> QED
        BY <2>1, TemplateGood
<1>5. CASE tag \notin {"title", "noframes", "style", "noscript", "base", "basefont", "bgsound", "link", "meta", "template"}
    <2>1. InHeadStart(p, tag) = p
        BY <1>5 DEF InHeadStart
    <2> QED
        BY <1>0, <2>1
<1> QED
    BY <1>1, <1>2, <1>3, <1>4, <1>5

LEMMA StartBlockGood ==
    ASSUME NEW p, HasBody(p), p.mode = "IN_BODY", p.text \notin OwnTexts, NEW tag \in Names,
           tag \in PlainBlocks \cup Headings \cup
                   {"body", "p", "pre", "listing", "form", "li", "dd", "dt", "plaintext", "button"}
    PROVE  BodyGood(StartBlock(p, tag))
<1> DEFINE q == ClosePInScope(p)
           r == InsertElement(q, tag)
           B == StartBlock(p, tag)
<1>1. Still(p, q)
    BY ClosePStill
<1>2. Still(q, r)
    <2> HIDE DEF q
    <2> QED
        BY <1>1, InsertStill DEF Still
<1>3. Still(p, r)
    BY <1>1, <1>2, StillOn
<1>4. p.mode \in BodyModes
    BY DEF BodyModes
<1> HIDE DEF q
<1>5. CASE tag = "body"
    <2>1. B = NotFramesetOk(p) \/ B = p
        BY <1>5 DEF StartBlock, PlainBlocks, Headings
    <2>2. Still(p, B)
        BY <2>1, BesideStill, StillSelf
    <2> QED
        BY <1>4, <2>2, StillGood
<1>6. CASE tag \in PlainBlocks \cup {"p"}
    <2>1. B = r
        BY <1>6 DEF StartBlock, PlainBlocks, Headings, q
    <2> QED
        BY <1>3, <1>4, <2>1, StillGood
<1>7. CASE tag \in Headings
    <2>1. B = Heading(p, tag)
        BY <1>7 DEF StartBlock, PlainBlocks, Headings
    <2> QED
        BY <1>4, <2>1, HeadingStill, StillGood
<1>8. CASE tag \in {"pre", "listing"}
    <2>1. B = NotFramesetOk(r)
        BY <1>8 DEF StartBlock, PlainBlocks, Headings, q
    <2>2. BodyGood(r)
        BY <1>3, <1>4, StillGood
    <2> QED
        BY <2>1, <2>2, NotFramesetGood
<1>9. CASE tag = "form"
    <2>1. B = Form(p)
        BY <1>9 DEF StartBlock, PlainBlocks, Headings
    <2> QED
        BY <1>4, <1>9, <2>1, FormStill, StillGood
<1>10. CASE tag \in {"li", "dd", "dt"}
    <2>1. B = Item(p, tag)
        BY <1>10 DEF StartBlock, PlainBlocks, Headings
    <2> QED
        BY <1>4, <2>1, ItemStill, StillGood
<1>11. CASE tag = "plaintext"
    <2>1. B = [r EXCEPT !.text = "plaintext"]
        BY <1>11 DEF StartBlock, PlainBlocks, Headings, q
    <2> HIDE DEF r
    <2>2. r.mode = "IN_BODY" /\ r \in Parsers /\ HasBody(r)
        BY <1>3 DEF Still, SameMode, HasBody
    <2> QED
        BY <2>1, <2>2 DEF BodyGood, HasBody, Parsers, OwnTexts, BodyModes
<1>12. CASE tag = "button"
    <2>1. B = Button(p)
        BY <1>12 DEF StartBlock, PlainBlocks, Headings
    <2> QED
        BY <1>4, <1>12, <2>1, ButtonStill, StillGood
<1> QED
    BY <1>5, <1>6, <1>7, <1>8, <1>9, <1>10, <1>11, <1>12

LEMMA StartInlineGood ==
    ASSUME NEW p, HasBody(p), p.mode = "IN_BODY", p.text \notin OwnTexts, NEW tag \in Names
    PROVE  BodyGood(StartInline(p, tag))
<1> DEFINE q == Reconstruct(p)
           r == InsertElement(q, tag)
           c == ClosePInScope(p)
           I == StartInline(p, tag)
<1>1. p.mode \in BodyModes /\ Still(p, p)
    BY StillSelf DEF BodyModes
<1>2. Still(p, q) /\ Still(p, c)
    BY ReconstructStill, ClosePStill
<1>3. Still(p, r)
    <2> HIDE DEF q
    <2>1. Still(q, r)
        BY <1>2, InsertStill DEF Still
    <2> QED
        BY <1>2, <2>1, StillOn
<1> HIDE DEF q, c
<1>4. CASE tag \in Formatting
    <2>1. I = PushActive(r)
        BY <1>4 DEF StartInline, Formatting, Objects, Voids, q
    <2> HIDE DEF r
    <2>2. Still(r, PushActive(r))
        BY <1>3, BesideStill DEF Still
    <2>3. Still(p, PushActive(r))
        BY <1>3, <2>2, StillOn
    <2> QED
        BY <1>1, <2>1, <2>3, StillGood
<1>5. CASE tag \in Objects
    <2>1. I = NotFramesetOk(InsertMarker(r))
        BY <1>5 DEF StartInline, Formatting, Objects, Voids, q
    <2> HIDE DEF r
    <2>2. Still(r, InsertMarker(r))
        BY <1>3, BesideStill DEF Still
    <2>3. Still(p, InsertMarker(r))
        BY <1>3, <2>2, StillOn
    <2>4. BodyGood(InsertMarker(r))
        BY <1>1, <2>3, StillGood
    <2> QED
        BY <2>1, <2>4, NotFramesetGood
<1>6. CASE tag \in Voids
    <2>1. I = Void(p, tag)
        BY <1>6 DEF StartInline, Formatting, Objects, Voids
    <2> QED
        BY <1>1, <2>1, VoidStill, StillGood
<1>7. CASE tag \in {"param", "source", "track"}
    <2>1. I = PopCurrent(InsertElement(p, tag))
        BY <1>7 DEF StartInline, Formatting, Objects, Voids
    <2> QED
        BY <1>1, <2>1, PushedPoppedStill, StillGood
<1>8. CASE tag = "hr"
    <2> DEFINE u == PopCurrent(InsertElement(c, tag))
    <2>1. I = NotFramesetOk(u)
        BY <1>8 DEF StartInline, Formatting, Objects, Voids, c
    <2>2. Still(c, u)
        BY <1>2, PushedPoppedStill DEF Still
    <2> HIDE DEF u
    <2>3. Still(p, u)
        BY <1>2, <2>2, StillOn
    <2>4. BodyGood(u)
        BY <1>1, <2>3, StillGood
    <2> QED
        BY <2>1, <2>4, NotFramesetGood
<1>9. CASE tag = "textarea"
    <2>1. I = NotFramesetOk(ParseText(p, tag, "rcdata"))
        BY <1>9 DEF StartInline, Formatting, Objects, Voids
    <2>2. BodyGood(ParseText(p, tag, "rcdata"))
        BY <1>1, <1>9, ParseTextGood DEF TextTags, OwnTexts
    <2> QED
        BY <2>1, <2>2, NotFramesetGood
<1>10. CASE tag = "xmp"
    <2> DEFINE u == Reconstruct(c)
    <2>1. I = NotFramesetOk(ParseText(u, tag, "rawtext"))
        BY <1>10 DEF StartInline, Formatting, Objects, Voids, c
    <2>2. Still(c, u)
        BY <1>2, ReconstructStill DEF Still
    <2> HIDE DEF u
    <2>3. Still(p, u)
        BY <1>2, <2>2, StillOn
    <2>4. BodyGood(ParseText(u, tag, "rawtext"))
        BY <2>3, <1>10, ParseTextGood DEF TextTags, OwnTexts
    <2> QED
        BY <2>1, <2>4, NotFramesetGood
<1>11. CASE tag = "iframe"
    <2>1. I = NotFramesetOk(ParseText(p, tag, "rawtext"))
        BY <1>11 DEF StartInline, Formatting, Objects, Voids
    <2>2. BodyGood(ParseText(p, tag, "rawtext"))
        BY <1>1, <1>11, ParseTextGood DEF TextTags, OwnTexts
    <2> QED
        BY <2>1, <2>2, NotFramesetGood
<1>12. CASE tag = "select"
    <2>1. I = To(NotFramesetOk(r), "IN_SELECT")
        BY <1>12 DEF StartInline, Formatting, Objects, Voids, q
    <2> HIDE DEF r
    <2>2. Still(r, NotFramesetOk(r))
        BY <1>3, BesideStill DEF Still
    <2>3. Still(p, NotFramesetOk(r))
        BY <1>3, <2>2, StillOn
    <2> QED
        BY <1>1, <2>1, <2>3, ToGood
<1>13. CASE tag \in {"optgroup", "option"}
    <2>1. I = Option(p, tag)
        BY <1>13 DEF StartInline, Formatting, Objects, Voids
    <2> QED
        BY <1>1, <2>1, OptionStill, StillGood
<1>14. CASE tag \in {"rb", "rtc"}
    <2>1. I = Ruby(p, tag)
        BY <1>14 DEF StartInline, Formatting, Objects, Voids
    <2> QED
        BY <1>1, <2>1, RubyStill, StillGood
<1>15. CASE tag \notin Formatting \cup Objects \cup Voids \cup
                 {"param", "source", "track", "hr", "textarea", "xmp", "iframe", "select", "optgroup", "option", "rb", "rtc"}
    <2>1. I = r
        BY <1>15 DEF StartInline, q
    <2> QED
        BY <1>1, <1>3, <2>1, StillGood
<1> QED
    BY <1>4, <1>5, <1>6, <1>7, <1>8, <1>9, <1>10, <1>11, <1>12, <1>13, <1>14, <1>15

LEMMA InBodyStartGood ==
    ASSUME NEW p, HasBody(p), p.mode = "IN_BODY", p.text \notin OwnTexts, NEW tag \in Names
    PROVE  BodyGood(InBodyStart(p, tag))
<1> DEFINE Blocks ==
               PlainBlocks \cup Headings \cup {"body", "p", "pre", "listing", "form", "li", "dd", "dt", "plaintext", "button"}
<1>1. InBodyStart(p, tag) = p \/ InBodyStart(p, tag) = InHeadStart(p, tag) \/ InBodyStart(p, tag) = StartInline(p, tag)
      \/ (InBodyStart(p, tag) = StartBlock(p, tag) /\ tag \in Blocks)
    <2>1. CASE tag \in Ignored
        BY <2>1 DEF InBodyStart, Ignored, HeadTags, TableParts, PlainBlocks, Headings
    <2>2. CASE tag \notin Ignored
        BY <2>2 DEF InBodyStart
    <2> QED
        BY <2>1, <2>2
<1>2. BodyGood(p)
    BY StillSelf, StillGood DEF BodyModes
<1>3. tag \in Blocks => BodyGood(StartBlock(p, tag))
    BY StartBlockGood
<1> HIDE DEF Blocks
<1> QED
    BY <1>1, <1>2, <1>3, InHeadStartGood, StartInlineGood

LEMMA InBodyEndGood ==
    ASSUME NEW p, HasBody(p), p.mode = "IN_BODY", p.text \notin OwnTexts, NEW tag \in Names
    PROVE  BodyGood(InBodyEnd(p, tag))
<1> DEFINE E == InBodyEnd(p, tag)
<1>1. p.mode \in BodyModes /\ Still(p, p) /\ BodyGood(p)
    BY StillSelf, StillGood DEF BodyModes
<1>2. CASE tag = "body"
    <2>1. E = To(p, "AFTER_BODY") \/ E = p
        BY <1>2 DEF InBodyEnd, PlainBlocks, Headings, Formatting
    <2> QED
        BY <1>1, <2>1, ToGood DEF BodyModes
<1>3. CASE tag = "html"
    <2>1. E = To(p, "AFTER_AFTER_BODY") \/ E = p
        BY <1>3 DEF InBodyEnd, PlainBlocks, Headings, Formatting
    <2> QED
        BY <1>1, <2>1, ToGood DEF BodyModes
<1>4. CASE tag \in PlainBlocks \cup Headings \cup {"button", "listing", "pre"}
    <2>1. E = EndBlock(p, tag)
        BY <1>4 DEF InBodyEnd, PlainBlocks, Headings, Formatting
    <2>2. tag \notin {"html", "body"} \cup Implied
        BY <1>4 DEF PlainBlocks, Headings, Implied
    <2> QED
        BY <1>1, <2>1, <2>2, EndBlockStill, StillGood
<1>5. CASE tag = "p"
    <2>1. E = EndP(p)
        BY <1>5 DEF InBodyEnd, PlainBlocks, Headings, Formatting
    <2> QED
        BY <1>1, <2>1, EndPStill, StillGood
<1>6. CASE tag \in {"li", "dd", "dt"}
    <2>1. \/ E = p
          \/ E = CloseElement(p, tag) /\ (HasElementInListItemScope(p, tag) \/ HasElementInScope(p, tag))
        BY <1>6 DEF InBodyEnd, PlainBlocks, Headings, Formatting
    <2>2. HasElementInListItemScope(p, tag) \/ HasElementInScope(p, tag) => Still(p, CloseElement(p, tag))
        BY <1>6, CloseScopedStill DEF HasElementInListItemScope, HasElementInScope
    <2> QED
        BY <1>1, <2>1, <2>2, StillGood
<1>7. CASE tag \in Formatting
    <2>1. E = Adoption(p, tag) /\ tag \notin {"html", "body"}
        BY <1>7 DEF InBodyEnd, PlainBlocks, Headings, Formatting
    <2> QED
        BY <1>1, <2>1, AdoptionStill, StillGood
<1>8. CASE tag = "br"
    <2>1. E = Void(p, tag)
        BY <1>8 DEF InBodyEnd, PlainBlocks, Headings, Formatting
    <2> QED
        BY <1>1, <2>1, VoidStill, StillGood
<1>9. CASE tag \notin PlainBlocks \cup Headings \cup Formatting \cup
                {"body", "html", "button", "listing", "pre", "p", "li", "dd", "dt", "br"}
    <2>1. E = p
        BY <1>9 DEF InBodyEnd
    <2> QED
        BY <1>1, <2>1
<1> QED
    BY <1>2, <1>3, <1>4, <1>5, <1>6, <1>7, <1>8, <1>9

---------------------------------------------------------------------------
(* The inductive invariant *)

\* The stack of a parser in mode m, which has n elements when its text is read
Base(q, m, n) ==
    /\ m \in {"INITIAL", "BEFORE_HTML"} => n = 0
    /\ m = "BEFORE_HEAD" => n = 1
    /\ m = "IN_HEAD" => n = 2 /\ q.head # q.open[1]
    /\ m = "AFTER_HEAD" => n = 1 /\ q.head # q.open[1]
    /\ m \in {"BEFORE_HEAD", "IN_HEAD", "AFTER_HEAD"} \cup BodyModes => q.open[1].tag = "html"
    /\ m \in BodyModes => n >= 2 /\ q.open[2].tag = "body"

TreeInvariant(q) ==
    /\ q \in Parsers /\ q.state # "underflow"
    /\ q.mode # "TEXT" => Base(q, q.mode, Len(q.open))
    /\ q.mode = "TEXT" =>
         q.open # <<>> /\ Current(q).tag \in TextTags /\ q.orig \in TextModes /\ Base(q, q.orig, Len(q.open) - 1)
    /\ q.state = "ok" /\ ~q.stop => (q.mode = "TEXT" <=> q.text \in OwnTexts)

Token(t) ==
    /\ t.type \in {"char", "comment", "doctype", "start", "end", "eof"}
    /\ t.type \in {"start", "end"} => t.name \in Names

\* What a handler is given, and how it leaves the parser
Ready(p, m, t) ==
    /\ p \in Parsers /\ p.state # "underflow" /\ p.mode = m /\ Base(p, m, Len(p.open))
    /\ p.text \in OwnTexts => t.type = "eof"
Done(q, t) == TreeInvariant(q) /\ (t.type = "eof" => q.stop)

LEMMA GoodDone == ASSUME NEW q, BodyGood(q) PROVE TreeInvariant(q)
<1>1. q \in Parsers /\ Len(q.open) \in Nat /\ Len(q.open) >= 2 /\ q.open[1].tag = "html" /\ q.open[2].tag = "body"
      /\ q.state # "underflow" /\ q.open # <<>>
    BY DEF BodyGood, HasBody, Parsers
<1>2. CASE q.mode # "TEXT"
    BY <1>1, <1>2 DEF BodyGood, TreeInvariant, Base, BodyModes
<1>3. CASE q.mode = "TEXT"
    <2>1. Current(q) = q.open[Len(q.open)] /\ Current(q).tag \in TextTags /\ q.orig = "IN_BODY"
        BY <1>1, <1>3, CurrentIs DEF BodyGood
    <2>2. Len(q.open) # 2
        BY <1>1, <2>1 DEF TextTags
    <2>3. Base(q, "IN_BODY", Len(q.open) - 1)
        <3> DEFINE n == Len(q.open) - 1
        <3>1. n \in Nat /\ n >= 2
            <4> DEFINE l == Len(q.open)
            <4>1. l \in Nat /\ l >= 2 /\ l # 2
                BY <1>1, <2>2
            <4> HIDE DEF l
            <4>2. l - 1 \in Nat /\ l - 1 >= 2
                BY <4>1
            <4> QED
                BY <4>2 DEF l
        <3> HIDE DEF n
        <3>2. Base(q, "IN_BODY", n)
            BY <1>1, <3>1 DEF Base, BodyModes
        <3> QED
            BY <3>2 DEF n
    <2> QED
        BY <1>1, <1>3, <2>1, <2>3 DEF BodyGood, TreeInvariant, TextModes
<1> QED
    BY <1>2, <1>3

\* A handler that does nothing
LEMMA IdleDone ==
    ASSUME NEW p, NEW m \in Modes \ {"TEXT"}, NEW t, Ready(p, m, t), t.type # "eof"
    PROVE  Done(p, t)
BY DEF Ready, Done, TreeInvariant

LEMMA StopDone ==
    ASSUME NEW p, NEW m \in Modes \ {"TEXT"}, NEW t, Ready(p, m, t)
    PROVE  Done([p EXCEPT !.stop = TRUE], t)
<1> DEFINE q == [p EXCEPT !.stop = TRUE]
<1>1. q \in Parsers /\ q.state = p.state /\ q.mode = p.mode /\ q.open = p.open /\ q.stop /\ q.head = p.head
    BY DEF Ready, Parsers
<1> HIDE DEF q
<1>2. Base(q, m, Len(q.open))
    BY <1>1 DEF Ready, Base
<1> QED
    BY <1>1, <1>2 DEF Ready, Done, TreeInvariant, q

LEMMA ReadyBody ==
    ASSUME NEW p, NEW m \in BodyModes, NEW t, Ready(p, m, t)
    PROVE  HasBody(p) /\ m \in Modes \ {"TEXT"} /\ p.mode = m /\ (t.type # "eof" => p.text \notin OwnTexts)
BY DEF Ready, Base, HasBody, BodyModes, Modes

LEMMA WhiteDone ==
    ASSUME NEW p, NEW m \in BodyModes, NEW t, Ready(p, m, t), t.type # "eof"
    PROVE  Done(Reconstruct(p), t) /\ Done(NotFramesetOk(Reconstruct(p)), t)
<1>1. HasBody(p) /\ p.mode \in BodyModes /\ p.text \notin OwnTexts
    BY ReadyBody
<1>2. BodyGood(Reconstruct(p))
    BY <1>1, ReconstructStill, StillGood
<1>3. BodyGood(NotFramesetOk(Reconstruct(p)))
    BY <1>2, NotFramesetGood
<1> QED
    BY <1>2, <1>3, GoodDone DEF Done

LEMMA InBodyDone ==
    ASSUME NEW p, NEW t, Token(t), NEW m \in BodyModes, Ready(p, m, t), m = "IN_BODY" \/ White(t)
    PROVE  Done(InBody(p, t), t)
<1>0. HasBody(p) /\ m \in Modes \ {"TEXT"} /\ p.mode = m /\ (t.type # "eof" => p.text \notin OwnTexts)
    BY ReadyBody
<1>1. CASE t.type = "char"
    <2>1. InBody(p, t) \in {p, Reconstruct(p), NotFramesetOk(Reconstruct(p))} /\ t.type # "eof"
        BY <1>1 DEF InBody
    <2> QED
        BY <1>0, <2>1, IdleDone, WhiteDone
<1>2. CASE t.type = "start"
    <2>1. InBody(p, t) = InBodyStart(p, t.name) /\ t.name \in Names /\ m = "IN_BODY" /\ t.type # "eof"
        BY <1>2 DEF InBody, Token, White
    <2>2. BodyGood(InBody(p, t))
        BY <1>0, <2>1, InBodyStartGood
    <2> QED
        BY <2>1, <2>2, GoodDone DEF Done
<1>3. CASE t.type = "end"
    <2>1. InBody(p, t) = InBodyEnd(p, t.name) /\ t.name \in Names /\ m = "IN_BODY" /\ t.type # "eof"
        BY <1>3 DEF InBody, Token, White
    <2>2. BodyGood(InBody(p, t))
        BY <1>0, <2>1, InBodyEndGood
    <2> QED
        BY <2>1, <2>2, GoodDone DEF Done
<1>4. CASE t.type = "eof"
    <2>1. InBody(p, t) = [p EXCEPT !.stop = TRUE]
        BY <1>4 DEF InBody
    <2> QED
        BY <1>0, <2>1, StopDone
<1>5. CASE t.type \in {"comment", "doctype"}
    <2>1. InBody(p, t) = p /\ t.type # "eof"
        BY <1>5 DEF InBody
    <2> QED
        BY <1>0, <2>1, IdleDone
<1> QED
    BY <1>1, <1>2, <1>3, <1>4, <1>5 DEF Token

\* The handlers of the modes behind the body
LEMMA ToIs ==
    ASSUME NEW p \in Parsers, NEW m \in Modes
    PROVE  /\ To(p, m) \in Parsers /\ To(p, m).mode = m /\ To(p, m).open = p.open /\ To(p, m).head = p.head
           /\ To(p, m).state = p.state /\ To(p, m).text = p.text /\ To(p, m).stop = p.stop /\ To(p, m).orig = p.orig
BY DEF To, Parsers

LEMMA ToReady ==
    ASSUME NEW p, NEW m, NEW t, Ready(p, m, t), NEW n \in Modes, Base(p, n, Len(p.open))
    PROVE  Ready(To(p, n), n, t)
<1> DEFINE q == To(p, n)
<1>1. q \in Parsers /\ q.mode = n /\ q.open = p.open /\ q.head = p.head /\ q.state = p.state /\ q.text = p.text
    BY ToIs DEF Ready
<1> HIDE DEF q
<1>2. Ready(q, n, t)
    BY <1>1 DEF Ready, Base
<1> QED
    BY <1>2 DEF q

LEMMA BehindBodyDone ==
    ASSUME NEW p, NEW t, Token(t), NEW m \in {"AFTER_BODY", "AFTER_AFTER_BODY"}, Ready(p, m, t)
    PROVE  Done(AfterBody(p, t), t) /\ Done(AfterAfterBody(p, t), t)
<1> DEFINE q == To(p, "IN_BODY")
           r == To(p, "AFTER_AFTER_BODY")
           a == AfterBody(p, t)
           b == AfterAfterBody(p, t)
<1>1. m \in BodyModes /\ m \in Modes \ {"TEXT"} /\ "IN_BODY" \in BodyModes /\ "AFTER_AFTER_BODY" \in Modes \ {"TEXT"}
      /\ "IN_BODY" \in Modes
    BY DEF BodyModes, Modes
<1>2. Base(p, "IN_BODY", Len(p.open)) /\ Base(p, "AFTER_AFTER_BODY", Len(p.open))
    BY <1>1 DEF Ready, Base, BodyModes
<1>3. Ready(q, "IN_BODY", t) /\ Ready(r, "AFTER_AFTER_BODY", t)
    BY <1>1, <1>2, ToReady
<1> HIDE DEF q, r
<1>4. White(t) => Done(InBody(p, t), t)
    BY <1>1, InBodyDone
<1>5. Done(InBody(q, t), t)
    BY <1>1, <1>3, InBodyDone
<1>6. Done([p EXCEPT !.stop = TRUE], t)
    BY <1>1, StopDone
<1>7. t.type # "eof" => Done(p, t) /\ Done(r, t)
    BY <1>1, <1>3, IdleDone
<1>8. /\ (White(t) /\ a = InBody(p, t)) \/ (t.type # "eof" /\ a \in {p, r}) \/ a = [p EXCEPT !.stop = TRUE] \/ a = InBody(q, t)
      /\ (White(t) /\ b = InBody(p, t)) \/ (t.type # "eof" /\ b = p) \/ b = [p EXCEPT !.stop = TRUE] \/ b = InBody(q, t)
    <2>1. CASE White(t)
        BY <2>1 DEF AfterBody, AfterAfterBody, White, Start, End
    <2>2. CASE ~White(t)
        BY <2>2 DEF AfterBody, AfterAfterBody, Start, End, q, r
    <2> QED
        BY <2>1, <2>2
<1> HIDE DEF a, b
<1>9. Done(a, t)
    BY <1>4, <1>5, <1>6, <1>7, <1>8
<1>10. Done(b, t)
    BY <1>4, <1>5, <1>6, <1>7, <1>8
<1> QED
    BY <1>9, <1>10 DEF a, b

---------------------------------------------------------------------------
(* The handlers of the modes before the body *)

\* processInHead() adds nothing to the stack, or an element with text, or a template.
HeadStarted(p, q) ==
    /\ q \in Parsers /\ q.state = p.state /\ q.head = p.head /\ q.stop = p.stop
    /\ \/ q.mode = p.mode /\ q.text = p.text /\ q.open = p.open
       \/ \E e \in Nodes :
            /\ q.open = Append(p.open, e)
            /\ \/ q.mode = "TEXT" /\ q.text \in OwnTexts /\ q.orig = p.mode /\ e.tag \in TextTags
               \/ q.mode = "IN_TEMPLATE" /\ q.text = p.text

LEMMA HeadStartIs ==
    ASSUME NEW p \in Parsers, NEW tag \in Names
    PROVE  HeadStarted(p, InHeadStart(p, tag))
<1> DEFINE q == InHeadStart(p, tag)
           r == InsertElement(p, tag)
           e == [id |-> Fresh(p), tag |-> tag]
<1>1. OnlyOpen(p, r) /\ r.open = Append(p.open, e) /\ e \in Nodes /\ e.tag = tag
    BY InsertIs
<1>2. r \in Parsers /\ p.mode \in Modes
    BY <1>1 DEF OnlyOpen, Parsers
<1> HIDE DEF e
<1>3. ASSUME NEW text \in OwnTexts, tag \in TextTags, q = ParseText(p, tag, text)
      PROVE  HeadStarted(p, q)
    <2>1. q = [r EXCEPT !.text = text, !.orig = p.mode, !.mode = "TEXT"]
        BY <1>3 DEF ParseText
    <2> HIDE DEF q, r
    <2>2. /\ q \in Parsers /\ q.state = r.state /\ q.head = r.head /\ q.stop = r.stop /\ q.open = r.open
          /\ q.mode = "TEXT" /\ q.text \in OwnTexts /\ q.orig = p.mode
        <3> DEFINE m == p.mode
        <3>1. m \in Modes /\ q = [r EXCEPT !.text = text, !.orig = m, !.mode = "TEXT"]
            BY <1>2, <2>1
        <3> HIDE DEF m
        <3>a. "TEXT" \in Modes
            BY DEF Modes
        <3>2. /\ q \in Parsers /\ q.state = r.state /\ q.head = r.head /\ q.stop = r.stop /\ q.open = r.open
              /\ q.mode = "TEXT" /\ q.text \in OwnTexts /\ q.orig = m
            BY <1>2, <3>1, <3>a DEF Parsers, OwnTexts
        <3> QED
            BY <3>2 DEF m
    <2> QED
        BY <1>1, <1>3, <2>2 DEF OnlyOpen, HeadStarted
<1>4. CASE tag = "title"
    <2>1. q = ParseText(p, tag, "rcdata")
        BY <1>4 DEF InHeadStart
    <2> HIDE DEF q
    <2>2. HeadStarted(p, q)
        BY <1>3, <1>4, <2>1 DEF TextTags, OwnTexts
    <2> QED
        BY <2>2 DEF q
<1>5. CASE tag \in {"noframes", "style", "noscript"}
    <2>1. q = ParseText(p, tag, "rawtext")
        BY <1>5 DEF InHeadStart
    <2> HIDE DEF q
    <2>2. HeadStarted(p, q)
        BY <1>3, <1>5, <2>1 DEF TextTags, OwnTexts
    <2> QED
        BY <2>2 DEF q
<1>6. CASE tag \in {"base", "basefont", "bgsound", "link", "meta"}
    <2>1. q = PopCurrent(InsertElement(p, tag))
        BY <1>6 DEF InHeadStart
    <2>2. OnlyOpen(p, q) /\ q.open = p.open
        BY <2>1, PushedPopped
    <2> HIDE DEF q
    <2>3. HeadStarted(p, q)
        BY <2>2 DEF OnlyOpen, HeadStarted
    <2> QED
        BY <2>3 DEF q
<1>7. CASE tag = "template"
    <2> DEFINE u == InsertMarker(r)
               v == NotFramesetOk(u)
    <2>1. q = To(v, "IN_TEMPLATE")
        BY <1>7 DEF InHeadStart
    <2> HIDE DEF q, r
    <2>2. Append(r.active, Marker) \in Seq(Nodes)
        BY <1>2, NodesAre, AppendIs DEF Parsers
    <2>3. u \in Parsers /\ u.text = r.text /\ u.state = r.state /\ u.head = r.head /\ u.stop = r.stop /\ u.open = r.open
        BY <1>2, <2>2 DEF InsertMarker, Parsers
    <2> HIDE DEF u
    <2>4. v \in Parsers /\ v.text = r.text /\ v.state = r.state /\ v.head = r.head /\ v.stop = r.stop /\ v.open = r.open
        BY <2>3 DEF NotFramesetOk, Parsers
    <2> HIDE DEF v
    <2>5. "IN_TEMPLATE" \in Modes
        BY DEF Modes
    <2>6. /\ q \in Parsers /\ q.mode = "IN_TEMPLATE" /\ q.text = v.text /\ q.state = v.state /\ q.head = v.head
          /\ q.stop = v.stop /\ q.open = v.open
        BY <2>1, <2>4, <2>5, ToIs
    <2>7. HeadStarted(p, q)
        BY <1>1, <2>4, <2>6 DEF OnlyOpen, HeadStarted
    <2> QED
        BY <2>7 DEF q
<1>8. CASE tag \notin {"title", "noframes", "style", "noscript", "base", "basefont", "bgsound", "link", "meta", "template"}
    <2>1. q = p
        BY <1>8 DEF InHeadStart
    <2> HIDE DEF q
    <2>2. HeadStarted(p, q)
        BY <2>1 DEF HeadStarted
    <2> QED
        BY <2>2 DEF q
<1> QED
    BY <1>4, <1>5, <1>6, <1>7, <1>8

LEMMA RemovedHead ==
    ASSUME NEW s \in Seq(Nodes), NEW e, Len(s) >= 2, s[2] = e, s[1] # e
    PROVE  /\ RemoveFirst(s, e) \in Seq(Nodes) /\ Len(RemoveFirst(s, e)) = Len(s) - 1 /\ RemoveFirst(s, e)[1] = s[1]
           /\ Len(s) = 3 => RemoveFirst(s, e)[2] = s[3]
<1>1. 2 \in 1..Len(s) /\ Len(s) \in Nat /\ \A j \in 1..(2 - 1) : s[j] # e
    OBVIOUS
<1>2. RemoveFirst(s, e) = RemoveAt(s, 2)
    BY <1>1, RemovedFirstIs
<1> DEFINE r == RemoveAt(s, 2)
<1>3. /\ r \in Seq(Nodes) /\ Len(r) = Len(s) - 1
      /\ \A j \in 1..(2 - 1) : r[j] = s[j]
      /\ \A j \in 2..(Len(s) - 1) : r[j] = s[j + 1]
    BY <1>1, RemovedAtIs
<1> HIDE DEF r
<1>4. r[1] = s[1] /\ (Len(s) = 3 => r[2] = s[3])
    BY <1>1, <1>3
<1> QED
    BY <1>2, <1>3, <1>4 DEF r

\* A tag of the head that comes after it
LEMMA HeadAgainDone ==
    ASSUME NEW p, NEW t, Token(t), Ready(p, "AFTER_HEAD", t), t.type = "start"
    PROVE  LET q == InHeadStart(PushOpenElement(p, p.head), t.name) IN Done([q EXCEPT !.open = RemoveFirst(@, p.head)], t)
<1> DEFINE e == p.head
           o == PushOpenElement(p, e)
           q == InHeadStart(o, t.name)
           s == RemoveFirst(q.open, e)
           r == [q EXCEPT !.open = s]
<1>1. /\ p \in Parsers /\ p.open \in Seq(Nodes) /\ Len(p.open) = 1 /\ e \in Nodes /\ e # p.open[1] /\ p.open[1].tag = "html"
      /\ p.state # "underflow" /\ p.mode = "AFTER_HEAD" /\ p.text \notin OwnTexts /\ t.name \in Names
    BY DEF Ready, Base, Parsers, Token
<1>2. /\ o \in Parsers /\ o.open \in Seq(Nodes) /\ Len(o.open) = 2 /\ o.open[1] = p.open[1] /\ o.open[2] = e
      /\ o.state = p.state /\ o.mode = p.mode /\ o.text = p.text /\ o.head = e /\ o.stop = p.stop
    <2> DEFINE a == Append(p.open, e)
    <2>1. a \in Seq(Nodes) /\ Len(a) = 2 /\ a[2] = e /\ a[1] = p.open[1] /\ o = [p EXCEPT !.open = a]
        <3>1. o = [p EXCEPT !.open = a]
            BY DEF PushOpenElement
        <3>2. p.open \in Seq(Nodes) /\ Len(p.open) = 1 /\ e \in Nodes
            BY <1>1
        <3>3. /\ a \in Seq(Nodes) /\ Len(a) = Len(p.open) + 1 /\ a[Len(p.open) + 1] = e
              /\ \A i \in 1..Len(p.open) : a[i] = p.open[i]
            <4>1. Extended(Nodes, p.open, e)
                BY <3>2, ExtendedIs, Zenon
            <4> QED
                BY <4>1, Zenon DEF Extended
        <3> HIDE DEF a, o
        <3> QED
            BY <3>1, <3>2, <3>3
    <2> HIDE DEF a, o
    <2>2. o.open = a /\ OnlyOpen(p, o)
        BY <1>1, <2>1, OpenIs
    <2> QED
        BY <2>1, <2>2 DEF OnlyOpen
<1> HIDE DEF o
<1>3. HeadStarted(o, q)
    BY <1>1, <1>2, HeadStartIs
<1> HIDE DEF q
<1>4. q \in Parsers /\ q.state = p.state /\ q.head = e
    BY <1>2, <1>3 DEF HeadStarted
<1>5. ASSUME s \in Seq(Nodes)
      PROVE  /\ r \in Parsers /\ r.open = s /\ r.state = p.state /\ r.head = e /\ r.mode = q.mode /\ r.text = q.text
             /\ r.orig = q.orig
    BY <1>4, <1>5, OpenIs DEF OnlyOpen
<1> HIDE DEF r, e
<1>6. ASSUME q.mode = o.mode, q.text = o.text, q.open = o.open PROVE TreeInvariant(r)
    <2>1. s \in Seq(Nodes) /\ Len(s) = 1 /\ s[1] = p.open[1]
        BY SMTT(40), <1>1, <1>2, <1>6, RemovedHead
    <2> HIDE DEF s
    <2>2. Base(r, "AFTER_HEAD", Len(r.open))
        BY <1>1, <1>5, <2>1 DEF Base, BodyModes
    <2> QED
        BY <1>1, <1>2, <1>5, <1>6, <2>1, <2>2 DEF TreeInvariant
<1>7. ASSUME NEW n \in Nodes, q.open = Append(o.open, n),
             \/ q.mode = "TEXT" /\ q.text \in OwnTexts /\ q.orig = o.mode /\ n.tag \in TextTags
             \/ q.mode = "IN_TEMPLATE" /\ q.text = o.text
      PROVE  TreeInvariant(r)
    <2> DEFINE a == q.open
    <2>1. a \in Seq(Nodes) /\ Len(a) = 3 /\ a[1] = p.open[1] /\ a[2] = e /\ a[3] = n
        BY SMTT(40), <1>2, <1>7, AppendIs
    <2>2. s = RemoveFirst(a, e)
        OBVIOUS
    <2> HIDE DEF a, s
    <2>3. s \in Seq(Nodes) /\ Len(s) = 2 /\ s[1] = p.open[1] /\ s[2] = n
        <3>1. a \in Seq(Nodes) /\ Len(a) >= 2 /\ a[2] = e /\ a[1] # e
            BY <1>1, <2>1
        <3>2. /\ RemoveFirst(a, e) \in Seq(Nodes) /\ Len(RemoveFirst(a, e)) = Len(a) - 1 /\ RemoveFirst(a, e)[1] = a[1]
              /\ Len(a) = 3 => RemoveFirst(a, e)[2] = a[3]
            BY <3>1, RemovedHead
        <3> QED
            BY <2>1, <2>2, <3>2
    <2>4. r.open # <<>> /\ Current(r) = n /\ r \in Parsers
        <3>1. r \in Parsers /\ r.open # <<>> /\ r.open = s
            <4>1. s # <<>>
                BY <2>3
            <4> QED
                BY <1>5, <2>3, <4>1
        <3>2. Current(r) = r.open[Len(r.open)]
            BY <3>1, CurrentIs
        <3> QED
            BY <2>3, <3>1, <3>2
    <2>5. Base(r, "AFTER_HEAD", Len(r.open) - 1) /\ "AFTER_HEAD" \in TextModes
        BY <1>1, <1>5, <2>3 DEF Base, BodyModes, TextModes
    <2>6. Base(r, "IN_TEMPLATE", Len(r.open))
        BY DEF Base, BodyModes
    <2> QED
        BY <1>1, <1>2, <1>5, <1>7, <2>3, <2>4, <2>5, <2>6 DEF TreeInvariant
<1>8. TreeInvariant(r)
    BY <1>3, <1>6, <1>7 DEF HeadStarted
<1>9. Done(r, t)
    BY <1>8 DEF Done
<1> QED
    BY <1>9 DEF r, s, q, o, e

\* Beginning the body
LEMMA BodyBegun ==
    ASSUME NEW p, NEW t, Ready(p, "AFTER_HEAD", t)
    PROVE  /\ Ready(To(InsertElement(p, "body"), "IN_BODY"), "IN_BODY", t)
           /\ Ready(To(NotFramesetOk(InsertElement(p, "body")), "IN_BODY"), "IN_BODY", t)
<1> DEFINE q == InsertElement(p, "body")
           r == NotFramesetOk(q)
<1>1. p \in Parsers /\ Len(p.open) = 1 /\ p.open[1].tag = "html" /\ "body" \in Names /\ "IN_BODY" \in Modes
    BY DEF Ready, Base, Names, Modes
<1>2. OnlyOpen(p, q) /\ Len(q.open) = 2 /\ q.open[1] = p.open[1] /\ q.open[2].tag = "body"
    <2>1. OnlyOpen(p, q) /\ Current(q) = [id |-> Fresh(p), tag |-> "body"] /\ Len(q.open) = 2 /\ q.open[1] = p.open[1]
        <3>1. /\ OnlyOpen(p, q) /\ Current(q) = [id |-> Fresh(p), tag |-> "body"] /\ Len(q.open) = Len(p.open) + 1
              /\ \A i \in 1..Len(p.open) : q.open[i] = p.open[i]
            BY <1>1, InsertIs
        <3> HIDE DEF q
        <3> QED
            BY <1>1, <3>1
    <2> HIDE DEF q
    <2>2. q \in Parsers /\ q.open # <<>>
        BY <2>1 DEF OnlyOpen
    <2>3. Current(q) = q.open[2]
        BY <2>1, <2>2, CurrentIs
    <2> QED
        BY <2>1, <2>3
<1> HIDE DEF q
<1>3. /\ q \in Parsers /\ q.state = p.state /\ q.text = p.text
      /\ r \in Parsers /\ r.state = p.state /\ r.text = p.text /\ r.open = q.open
    BY <1>2 DEF OnlyOpen, NotFramesetOk, Parsers
<1> HIDE DEF r
<1>4. ASSUME NEW u \in Parsers, u.open = q.open, u.state = p.state, u.text = p.text
      PROVE  Ready(To(u, "IN_BODY"), "IN_BODY", t)
    <2> DEFINE v == To(u, "IN_BODY")
    <2>1. v \in Parsers /\ v.mode = "IN_BODY" /\ v.open = q.open /\ v.state = p.state /\ v.text = p.text
        BY <1>1, <1>4, ToIs
    <2> HIDE DEF v
    <2>2. Base(v, "IN_BODY", Len(v.open))
        BY <1>1, <1>2, <2>1 DEF Base, BodyModes
    <2>3. Ready(v, "IN_BODY", t)
        BY <2>1, <2>2 DEF Ready
    <2> QED
        BY <2>3 DEF v
<1>5. Ready(To(q, "IN_BODY"), "IN_BODY", t) /\ Ready(To(r, "IN_BODY"), "IN_BODY", t)
    BY <1>3, <1>4
<1> QED
    BY <1>5 DEF q, r

LEMMA AfterHeadDone ==
    ASSUME NEW p, NEW t, Token(t), Ready(p, "AFTER_HEAD", t)
    PROVE  Done(AfterHead(p, t), t)
<1> DEFINE a == AfterHead(p, t)
           o == InHeadStart(PushOpenElement(p, p.head), t.name)
           b == To(InsertElement(p, "body"), "IN_BODY")
           c == To(NotFramesetOk(InsertElement(p, "body")), "IN_BODY")
           f == To(InsertElement(p, "frameset"), "IN_FRAMESET")
           g == [o EXCEPT !.open = RemoveFirst(o.open, p.head)]
<1>1. \/ a = p /\ t.type # "eof"
      \/ a = c /\ t.type # "eof"
      \/ a = f /\ t.type # "eof"
      \/ a = g /\ t.type = "start"
      \/ a = InBody(b, t)
    <2>1. CASE White(t) \/ t.type \in {"comment", "doctype"} \/ Start(t, {"html", "head"})
        BY <2>1 DEF AfterHead, White, Start, HeadTags
    <2>2. CASE Start(t, {"body"})
        BY <2>2 DEF AfterHead, White, Start, HeadTags
    <2>3. CASE Start(t, {"frameset"})
        BY <2>3 DEF AfterHead, White, Start, HeadTags
    <2>4. CASE Start(t, HeadTags)
        BY <2>4 DEF AfterHead, White, Start, HeadTags
    <2>5. CASE t.type = "end" /\ t.name \notin BodyEnds
        BY <2>5 DEF AfterHead, White, Start
    <2>6. CASE ~(White(t) \/ t.type \in {"comment", "doctype"} \/ Start(t, {"html", "head"}) \/ Start(t, {"body"})
                 \/ Start(t, {"frameset"}) \/ Start(t, HeadTags) \/ (t.type = "end" /\ t.name \notin BodyEnds))
        BY <2>6 DEF AfterHead
    <2> QED
        BY <2>1, <2>2, <2>3, <2>4, <2>5, <2>6
<1>2. Ready(b, "IN_BODY", t) /\ Ready(c, "IN_BODY", t) /\ "IN_BODY" \in Modes \ {"TEXT"} /\ "AFTER_HEAD" \in Modes \ {"TEXT"}
      /\ "IN_BODY" \in BodyModes
    BY BodyBegun DEF Modes, BodyModes
<1>3. t.type # "eof" => Done(f, t)
    <2> DEFINE q == InsertElement(p, "frameset")
    <2>1. p \in Parsers /\ "frameset" \in Names /\ "IN_FRAMESET" \in Modes
        BY DEF Ready, Names, Modes
    <2>2. OnlyOpen(p, q)
        BY <2>1, InsertIs
    <2> HIDE DEF q
    <2>3. q \in Parsers /\ q.state # "underflow" /\ (t.type # "eof" => q.text \notin OwnTexts)
        BY <2>2 DEF OnlyOpen, Ready
    <2>4. f \in Parsers /\ f.mode = "IN_FRAMESET" /\ f.state = q.state /\ f.text = q.text
        BY <2>1, <2>3, ToIs DEF q
    <2> HIDE DEF f
    <2> QED
        BY <2>3, <2>4 DEF Done, TreeInvariant, Base, BodyModes
<1>4. t.type = "start" => Done(g, t)
    BY HeadAgainDone
<1> HIDE DEF a, b, c, f, g
<1>5. Done(InBody(b, t), t)
    BY <1>2, InBodyDone
<1>6. t.type # "eof" => Done(p, t) /\ Done(c, t)
    BY <1>2, IdleDone
<1>7. Done(a, t)
    BY <1>1, <1>3, <1>4, <1>5, <1>6
<1> QED
    BY <1>7 DEF a

LEMMA InHeadDone ==
    ASSUME NEW p, NEW t, Token(t), Ready(p, "IN_HEAD", t)
    PROVE  Done(InHead(p, t), t)
<1> DEFINE a == InHead(p, t)
           h == InHeadStart(p, t.name)
           c == PopCurrent(p)
           b == To(c, "AFTER_HEAD")
<1>1. \/ a = p /\ t.type # "eof"
      \/ a = b /\ t.type # "eof"
      \/ a = h /\ t.type = "start"
      \/ a = AfterHead(b, t)
    <2>1. CASE White(t) \/ t.type \in {"comment", "doctype"} \/ Start(t, {"html", "head"})
        BY <2>1 DEF InHead, White, Start, End, HeadTags
    <2>2. CASE Start(t, HeadTags \cup {"noscript"})
        BY <2>2 DEF InHead, White, Start, End, HeadTags
    <2>3. CASE End(t, {"head"})
        BY <2>3 DEF InHead, White, Start, End
    <2>4. CASE t.type = "end" /\ t.name \notin BodyEnds \cup {"head"}
        BY <2>4 DEF InHead, White, Start, End
    <2>5. CASE ~(White(t) \/ t.type \in {"comment", "doctype"} \/ Start(t, {"html", "head"}) \/ Start(t, HeadTags \cup {"noscript"})
                 \/ End(t, {"head"}) \/ (t.type = "end" /\ t.name \notin BodyEnds \cup {"head"}))
        BY <2>5 DEF InHead
    <2> QED
        BY <2>1, <2>2, <2>3, <2>4, <2>5
<1>2. /\ p \in Parsers /\ p.open \in Seq(Nodes) /\ Len(p.open) = 2 /\ p.open[1].tag = "html" /\ p.head # p.open[1]
      /\ p.mode = "IN_HEAD" /\ p.state # "underflow" /\ "IN_HEAD" \in Modes \ {"TEXT"} /\ "AFTER_HEAD" \in Modes \ {"TEXT"}
    BY DEF Ready, Base, Parsers, Modes
<1>3. Ready(b, "AFTER_HEAD", t)
    <2>1. OnlyOpen(p, c) /\ Len(c.open) = 1 /\ c.open[1] = p.open[1]
        <3>1. p.open # <<>>
            BY <1>2
        <3>2. OnlyOpen(p, c) /\ Len(c.open) = Len(p.open) - 1 /\ \A i \in 1..(Len(p.open) - 1) : c.open[i] = p.open[i]
            BY <1>2, <3>1, PopIs
        <3> HIDE DEF c
        <3> QED
            BY <1>2, <3>2
    <2> HIDE DEF c
    <2>2. c \in Parsers
        BY <2>1 DEF OnlyOpen
    <2>3. b \in Parsers /\ b.mode = "AFTER_HEAD" /\ b.open = c.open /\ b.head = c.head /\ b.state = c.state /\ b.text = c.text
        BY <1>2, <2>2, ToIs
    <2> HIDE DEF b
    <2> QED
        BY <1>2, <2>1, <2>3 DEF OnlyOpen, Ready, Base, BodyModes
<1>4. ASSUME t.type = "start" PROVE Done(h, t)
    <2>1. HeadStarted(p, h)
        BY <1>2, <1>4, HeadStartIs DEF Token
    <2> HIDE DEF h
    <2>2. p.text \notin OwnTexts /\ h \in Parsers /\ h.state # "underflow" /\ h.head = p.head
        BY <1>2, <1>4, <2>1 DEF Ready, HeadStarted
    <2>3. ASSUME h.mode = p.mode, h.text = p.text, h.open = p.open PROVE TreeInvariant(h)
        BY <1>2, <2>2, <2>3 DEF TreeInvariant, Base, BodyModes
    <2>4. ASSUME NEW n \in Nodes, h.open = Append(p.open, n),
                 \/ h.mode = "TEXT" /\ h.text \in OwnTexts /\ h.orig = p.mode /\ n.tag \in TextTags
                 \/ h.mode = "IN_TEMPLATE" /\ h.text = p.text
          PROVE  TreeInvariant(h)
        <3>1. Len(h.open) = 3 /\ h.open[1] = p.open[1] /\ h.open # <<>> /\ h.open[3] = n
            BY <1>2, <2>4, AppendIs
        <3>2. Current(h) = n
            BY <2>2, <3>1, CurrentIs
        <3>3. Base(h, "IN_HEAD", Len(h.open) - 1) /\ "IN_HEAD" \in TextModes /\ Base(h, "IN_TEMPLATE", Len(h.open))
            BY <1>2, <2>2, <3>1 DEF Base, BodyModes, TextModes
        <3> QED
            BY <1>2, <2>2, <2>4, <3>1, <3>2, <3>3 DEF TreeInvariant
    <2>5. TreeInvariant(h)
        BY <2>1, <2>3, <2>4 DEF HeadStarted
    <2> QED
        BY <1>4, <2>5 DEF Done
<1> HIDE DEF a, b, h
<1>5. Done(AfterHead(b, t), t)
    BY <1>3, AfterHeadDone
<1>6. t.type # "eof" => Done(p, t) /\ Done(b, t)
    BY <1>2, <1>3, IdleDone
<1>7. Done(a, t)
    BY <1>1, <1>4, <1>5, <1>6
<1> QED
    BY <1>7 DEF a

LEMMA BeforeHeadDone ==
    ASSUME NEW p, NEW t, Token(t), Ready(p, "BEFORE_HEAD", t)
    PROVE  Done(BeforeHead(p, t), t)
<1> DEFINE a == BeforeHead(p, t)
           Opened(tag) == To(InsertElement(p, tag), "IN_HEAD")
           Headed(tag) == [Opened(tag) EXCEPT !.head = Current(Opened(tag))]
<1>1. \/ a = p /\ t.type # "eof"
      \/ a = Headed("html") /\ t.type # "eof"
      \/ a = InHead(Headed("head"), t)
    <2>1. CASE White(t) \/ t.type \in {"comment", "doctype"}
        BY <2>1 DEF BeforeHead, White, Start
    <2>2. CASE Start(t, {"html"})
        BY <2>2 DEF BeforeHead, White, Start
    <2>3. CASE t.type = "end" /\ t.name \notin BodyEnds \cup {"head"}
        BY <2>3 DEF BeforeHead, White, Start
    <2>4. CASE ~(White(t) \/ t.type \in {"comment", "doctype"} \/ Start(t, {"html"})
                 \/ (t.type = "end" /\ t.name \notin BodyEnds \cup {"head"}))
        BY <2>4 DEF BeforeHead
    <2> QED
        BY <2>1, <2>2, <2>3, <2>4
<1>2. /\ p \in Parsers /\ p.open \in Seq(Nodes) /\ Len(p.open) = 1 /\ p.open[1].tag = "html" /\ p.state # "underflow"
      /\ "BEFORE_HEAD" \in Modes \ {"TEXT"} /\ "IN_HEAD" \in Modes \ {"TEXT"} /\ "html" \in Names /\ "head" \in Names
      /\ (p.text \in OwnTexts => t.type = "eof")
    BY DEF Ready, Base, Parsers, Modes, Names
<1>3. ASSUME NEW tag \in Names PROVE Ready(Headed(tag), "IN_HEAD", t)
    <2> DEFINE r == InsertElement(p, tag)
               e == [id |-> Fresh(p), tag |-> tag]
               q == Opened(tag)
               u == Headed(tag)
    <2>1. /\ OnlyOpen(p, r) /\ e \in Nodes /\ Current(r) = e /\ Len(r.open) = 2 /\ r.open[1] = p.open[1]
        <3>1. /\ OnlyOpen(p, r) /\ e \in Nodes /\ Current(r) = e /\ Len(r.open) = Len(p.open) + 1
              /\ \A i \in 1..Len(p.open) : r.open[i] = p.open[i]
            BY <1>2, InsertIs
        <3> HIDE DEF r, e
        <3> QED
            BY <1>2, <3>1
    <2>2. e # p.open[1]
        <3>1. p.open[1] \in ToSet(p.open)
            BY <1>2 DEF ToSet
        <3>2. p.open[1].id \in Used(p)
            BY <3>1 DEF Used
        <3> QED
            BY <1>2, <3>2, FreshIs
    <2> HIDE DEF r, e
    <2>3. q \in Parsers /\ q.mode = "IN_HEAD" /\ q.open = r.open /\ q.state = p.state /\ q.text = p.text
        <3>1. r \in Parsers /\ r.state = p.state /\ r.text = p.text
            BY <2>1 DEF OnlyOpen
        <3> QED
            BY <1>2, <3>1, ToIs DEF r
    <2>4. Current(q) = e /\ u = [q EXCEPT !.head = Current(q)]
        BY <2>1, <2>3 DEF Current
    <2> HIDE DEF q, u
    <2>5. u \in Parsers /\ u.mode = "IN_HEAD" /\ u.open = r.open /\ u.state = p.state /\ u.text = p.text /\ u.head = e
        BY <2>1, <2>3, <2>4 DEF Parsers
    <2>6. Ready(u, "IN_HEAD", t)
        BY <1>2, <2>1, <2>2, <2>5 DEF Ready, Base, BodyModes
    <2> QED
        BY <2>6 DEF u
<1>4. Ready(Headed("html"), "IN_HEAD", t) /\ Ready(Headed("head"), "IN_HEAD", t)
    BY <1>2, <1>3
<1> HIDE DEF a, Headed
<1>5. Done(InHead(Headed("head"), t), t)
    BY <1>4, InHeadDone
<1>6. t.type # "eof" => Done(p, t) /\ Done(Headed("html"), t)
    BY <1>2, <1>4, IdleDone
<1>7. Done(a, t)
    BY <1>1, <1>5, <1>6
<1> QED
    BY <1>7 DEF a

LEMMA BeforeHTMLDone ==
    ASSUME NEW p, NEW t, Token(t), Ready(p, "BEFORE_HTML", t)
    PROVE  Done(BeforeHTML(p, t), t)
<1> DEFINE a == BeforeHTML(p, t)
           r == InsertElement(p, "html")
           o == To(r, "BEFORE_HEAD")
<1>1. \/ a \in {p, o} /\ t.type # "eof"
      \/ a = BeforeHead(o, t)
    <2>1. CASE White(t) \/ t.type \in {"comment", "doctype"}
        BY <2>1 DEF BeforeHTML, White, Start
    <2>2. CASE Start(t, {"html"})
        BY <2>2 DEF BeforeHTML, White, Start
    <2>3. CASE t.type = "end" /\ t.name \notin BodyEnds \cup {"head"}
        BY <2>3 DEF BeforeHTML, White, Start
    <2>4. CASE ~(White(t) \/ t.type \in {"comment", "doctype"} \/ Start(t, {"html"})
                 \/ (t.type = "end" /\ t.name \notin BodyEnds \cup {"head"}))
        BY <2>4 DEF BeforeHTML
    <2> QED
        BY <2>1, <2>2, <2>3, <2>4
<1>2. /\ p \in Parsers /\ Len(p.open) = 0 /\ p.state # "underflow" /\ (p.text \in OwnTexts => t.type = "eof")
      /\ "BEFORE_HTML" \in Modes \ {"TEXT"} /\ "BEFORE_HEAD" \in Modes \ {"TEXT"} /\ "html" \in Names
    BY DEF Ready, Base, Modes, Names
<1>3. Ready(o, "BEFORE_HEAD", t)
    <2> DEFINE e == [id |-> Fresh(p), tag |-> "html"]
    <2>1. OnlyOpen(p, r) /\ Current(r) = e /\ Len(r.open) = 1 /\ e.tag = "html"
        <3>1. OnlyOpen(p, r) /\ Current(r) = e /\ Len(r.open) = Len(p.open) + 1
            BY <1>2, InsertIs
        <3> HIDE DEF r
        <3> QED
            BY <1>2, <3>1
    <2> HIDE DEF e, r
    <2>2. r \in Parsers /\ r.open[1] = e
        <3>1. r \in Parsers /\ r.open # <<>>
            <4>1. r \in Parsers
                BY <2>1 DEF OnlyOpen
            <4>2. r.open # <<>>
                BY <2>1
            <4> QED
                BY <4>1, <4>2
        <3> QED
            BY <2>1, <3>1, CurrentIs
    <2>3. o \in Parsers /\ o.mode = "BEFORE_HEAD" /\ o.open = r.open /\ o.state = r.state /\ o.text = r.text
        BY <1>2, <2>2, ToIs
    <2> HIDE DEF o
    <2>4. Ready(o, "BEFORE_HEAD", t)
        BY <1>2, <2>1, <2>2, <2>3 DEF Ready, Base, BodyModes, OnlyOpen
    <2> QED
        BY <2>4
<1> HIDE DEF a, o
<1>4. Done(BeforeHead(o, t), t)
    BY <1>3, BeforeHeadDone
<1>5. t.type # "eof" => Done(p, t) /\ Done(o, t)
    BY <1>2, <1>3, IdleDone
<1>6. Done(a, t)
    BY <1>1, <1>4, <1>5
<1> QED
    BY <1>6 DEF a

LEMMA InitialDone ==
    ASSUME NEW p, NEW t, Token(t), Ready(p, "INITIAL", t)
    PROVE  Done(Initial(p, t), t)
<1> DEFINE a == Initial(p, t)
           o == To(p, "BEFORE_HTML")
<1>1. \/ a \in {p, o} /\ t.type # "eof"
      \/ a = BeforeHTML(o, t)
    BY DEF Initial, White
<1>2. "INITIAL" \in Modes \ {"TEXT"} /\ "BEFORE_HTML" \in Modes \ {"TEXT"} /\ Base(p, "BEFORE_HTML", Len(p.open))
    BY DEF Modes, Ready, Base, BodyModes
<1>3. Ready(o, "BEFORE_HTML", t)
    BY <1>2, ToReady
<1> HIDE DEF a, o
<1>4. Done(BeforeHTML(o, t), t)
    BY <1>3, BeforeHTMLDone
<1>5. t.type # "eof" => Done(p, t) /\ Done(o, t)
    BY <1>2, <1>3, IdleDone
<1>6. Done(a, t)
    BY <1>1, <1>4, <1>5
<1> QED
    BY <1>6 DEF a

\* The end of a text, or of the document in it
TextReady(p, t) ==
    /\ p \in Parsers /\ p.state # "underflow" /\ p.mode = "TEXT"
    /\ p.open # <<>> /\ Current(p).tag \in TextTags /\ p.orig \in TextModes /\ Base(p, p.orig, Len(p.open) - 1)
    /\ t.type = "end" <=> p.text \notin OwnTexts

LEMMA TextDone ==
    ASSUME NEW p, NEW t, Token(t), TextReady(p, t)
    PROVE  Done(Text(p, t), t)
<1> DEFINE c == PopCurrent(p)
           q == To(c, p.orig)
           a == Text(p, t)
<1>1. /\ p \in Parsers /\ p.open \in Seq(Nodes) /\ p.open # <<>> /\ p.orig \in TextModes /\ p.orig \in Modes \ {"TEXT"}
      /\ Base(p, p.orig, Len(p.open) - 1) /\ Len(p.open) \in Nat /\ p.state # "underflow"
    BY DEF TextReady, Parsers, TextModes, Modes
<1>2. /\ OnlyOpen(p, c) /\ Len(c.open) = Len(p.open) - 1
      /\ \A i \in 1..(Len(p.open) - 1) : c.open[i] = p.open[i]
    BY <1>1, PopIs
<1> HIDE DEF c
<1>3. q \in Parsers /\ q.mode = p.orig /\ q.open = c.open /\ q.head = p.head /\ q.state = p.state /\ q.text = p.text
    <2>1. c \in Parsers /\ c.head = p.head /\ c.state = p.state /\ c.text = p.text
        BY <1>2 DEF OnlyOpen
    <2> QED
        BY <1>1, <2>1, ToIs
<1> HIDE DEF q
<1>4. Base(q, p.orig, Len(q.open))
    <2> DEFINE n == Len(p.open) - 1
    <2>1. n = Len(q.open) /\ Base(p, p.orig, n) /\ \A i \in 1..n : q.open[i] = p.open[i]
        BY <1>1, <1>2, <1>3
    <2>2. n \in Nat
        BY <1>1
    <2> HIDE DEF n
    <2>3. Base(q, p.orig, n)
        <3>1. CASE p.orig = "IN_HEAD" \/ p.orig = "AFTER_HEAD"
            <4>1. 1 \in 1..n
                <5>1. n = 2 \/ n = 1
                    BY <2>1, <3>1, Zenon DEF Base
                <5> QED
                    BY <5>1
            <4> QED
                BY <1>3, <2>1, <3>1, <4>1 DEF Base, BodyModes
        <3>2. CASE p.orig = "IN_BODY"
            <4>1. 1 \in 1..n /\ 2 \in 1..n
                BY <2>1, <2>2, <3>2 DEF Base, BodyModes
            <4> QED
                BY <1>3, <2>1, <3>2, <4>1 DEF Base, BodyModes
        <3> QED
            BY <1>1, <3>1, <3>2 DEF TextModes
    <2> QED
        BY <2>1, <2>3
<1>5. CASE t.type = "eof"
    <2>1. Ready(q, p.orig, t)
        BY <1>1, <1>3, <1>4, <1>5 DEF Ready
    <2>2. \/ a = InHead(q, t) /\ p.orig = "IN_HEAD"
          \/ a = AfterHead(q, t) /\ p.orig = "AFTER_HEAD"
          \/ a = InBody(q, t) /\ p.orig = "IN_BODY"
        <3>1. ~End(t, {"script"})
            BY <1>5 DEF End
        <3>2. a = CASE q.mode = "IN_HEAD" -> InHead(q, t) [] q.mode = "AFTER_HEAD" -> AfterHead(q, t) [] OTHER -> InBody(q, t)
            BY <1>5, <3>1 DEF Text, q, c
        <3> HIDE DEF a
        <3> QED
            BY <1>1, <1>3, <3>2 DEF TextModes
    <2>3. "IN_BODY" \in BodyModes
        BY DEF BodyModes
    <2> HIDE DEF a
    <2>4. Done(a, t)
        BY <2>1, <2>2, <2>3, InHeadDone, AfterHeadDone, InBodyDone
    <2> QED
        BY <2>4 DEF a
<1>6. CASE End(t, {"script"})
    <2>1. a = [p EXCEPT !.state = "exit"] /\ t.type # "eof"
        <3>1. t.type = "end"
            BY <1>6 DEF End
        <3> QED
            BY <1>6, <3>1 DEF Text
    <2> HIDE DEF a
    <2>2. a \in Parsers /\ a.state = "exit" /\ a.mode = "TEXT" /\ a.orig = p.orig /\ a.open = p.open /\ a.head = p.head
        BY <1>1, <2>1 DEF Parsers, TextReady
    <2>3. Current(a) = Current(p) /\ Base(a, p.orig, Len(a.open) - 1)
        BY <1>1, <2>2 DEF Current, Base
    <2>4. Done(a, t)
        BY <1>1, <2>1, <2>2, <2>3 DEF Done, TreeInvariant, TextReady
    <2> QED
        BY <2>4 DEF a
<1>7. CASE t.type = "end" /\ ~End(t, {"script"})
    <2>1. a = q /\ t.type # "eof"
        BY <1>7 DEF Text, q, c
    <2>2. TreeInvariant(q)
        BY <1>1, <1>3, <1>4, <1>7 DEF TreeInvariant, TextReady
    <2> HIDE DEF a
    <2>3. Done(a, t)
        BY <2>1, <2>2 DEF Done
    <2> QED
        BY <2>3 DEF a
<1>8. CASE t.type \notin {"eof", "end"}
    <2>1. a = p
        BY <1>8 DEF Text, End
    <2> HIDE DEF a
    <2>2. Done(a, t)
        BY <1>8, <2>1 DEF Done, TreeInvariant, TextReady
    <2> QED
        BY <2>2 DEF a
<1> QED
    BY <1>5, <1>6, <1>7, <1>8 DEF End

---------------------------------------------------------------------------
(* Every token, and the theorems *)

LEMMA TokenDone ==
    ASSUME NEW p, NEW t, Token(t), TreeInvariant(p), p.state = "ok", ~p.stop,
           NEW q, q = [p EXCEPT !.text = IF t.type = "end" THEN "data" ELSE @]
    PROVE  LET r == ProcessToken(q, t) IN TreeInvariant(r) /\ (t.type = "eof" => r.stop \/ r.state # "ok")
<1> DEFINE r == ProcessToken(q, t)
<1>1. /\ p \in Parsers /\ p.mode \in Modes
      /\ q \in Parsers /\ q.mode = p.mode /\ q.orig = p.orig /\ q.open = p.open /\ q.head = p.head /\ q.state = "ok"
      /\ q.stop = FALSE /\ q.text = IF t.type = "end" THEN "data" ELSE p.text
    BY DEF TreeInvariant, Parsers
<1>2. Current(q) = Current(p)
    BY <1>1 DEF Current
<1>3. CASE p.mode # "TEXT"
    <2>1. Ready(q, p.mode, t)
        BY <1>1, <1>3 DEF TreeInvariant, Ready, Base, OwnTexts
    <2>2. ASSUME p.mode \in {"IN_TEMPLATE", "IN_SELECT", "IN_FRAMESET"} PROVE TreeInvariant(r) /\ r.state # "ok"
        <3>1. r = [q EXCEPT !.state = "failed"]
            BY <1>1, <2>2 DEF ProcessToken
        <3> HIDE DEF r
        <3>2. r \in Parsers /\ r.state = "failed" /\ r.mode = p.mode
            BY <1>1, <3>1 DEF Parsers
        <3> QED
            BY <2>2, <3>2 DEF TreeInvariant, Base, BodyModes
    <2>3. ASSUME p.mode \notin {"IN_TEMPLATE", "IN_SELECT", "IN_FRAMESET"} PROVE Done(r, t)
        <3>1. "IN_BODY" \in BodyModes
            BY DEF BodyModes
        <3>2. \/ p.mode = "INITIAL" /\ r = Initial(q, t)
              \/ p.mode = "BEFORE_HTML" /\ r = BeforeHTML(q, t)
              \/ p.mode = "BEFORE_HEAD" /\ r = BeforeHead(q, t)
              \/ p.mode = "IN_HEAD" /\ r = InHead(q, t)
              \/ p.mode = "AFTER_HEAD" /\ r = AfterHead(q, t)
              \/ p.mode = "IN_BODY" /\ r = InBody(q, t)
              \/ p.mode = "AFTER_BODY" /\ r = AfterBody(q, t)
              \/ p.mode = "AFTER_AFTER_BODY" /\ r = AfterAfterBody(q, t)
            BY <1>1, <1>3, <2>3 DEF ProcessToken, Modes
        <3> HIDE DEF r
        <3> QED
            BY <2>1, <3>1, <3>2, InitialDone, BeforeHTMLDone, BeforeHeadDone, InHeadDone, AfterHeadDone, InBodyDone,
               BehindBodyDone
    <2> QED
        BY <2>2, <2>3 DEF Done
<1>4. CASE p.mode = "TEXT"
    <2>1. TextReady(q, t)
        BY <1>1, <1>2, <1>4 DEF TreeInvariant, TextReady, Base, OwnTexts
    <2>2. r = Text(q, t)
        BY <1>1, <1>4 DEF ProcessToken
    <2>3. Done(r, t)
        BY <2>1, <2>2, TextDone
    <2> QED
        BY <2>3 DEF Done
<1> QED
    BY <1>3, <1>4

\* A step of the parser handles some token
LEMMA NextHandles ==
    ASSUME TreeNext, TreeInvariant(parser)
    PROVE  \E t : Token(t) /\ Dispatch(t) /\ (EndOfFile => t.type = "eof")
<1>1. ASSUME NEW k \in {"char", "comment", "doctype", "eof"}, NEW n PROVE Token([type |-> k, name |-> n])
    BY DEF Token
<1>2. ASSUME NEW k \in {"start", "end"}, NEW n \in Names PROVE Token([type |-> k, name |-> n])
    BY DEF Token
<1>3. CASE EndOfFile
    <2>1. Token([type |-> "eof", name |-> "none"]) /\ Dispatch([type |-> "eof", name |-> "none"])
        BY <1>1, <1>3 DEF EndOfFile
    <2>2. [type |-> "eof", name |-> "none"].type = "eof"
        OBVIOUS
    <2> QED
        BY <2>1, <2>2
<1>4. CASE ~EndOfFile /\ Character
    BY <1>1, <1>4 DEF Character
<1>5. CASE ~EndOfFile /\ (CommentToken \/ Doctype)
    BY <1>1, <1>5 DEF CommentToken, Doctype
<1>6. CASE ~EndOfFile /\ (StartTag \/ EndTag)
    BY <1>2, <1>6 DEF StartTag, EndTag, Names
<1>7. CASE ~EndOfFile /\ EndOfText
    <2>1. Current(parser).tag \in Names
        BY CurrentIs DEF TreeInvariant, Nodes
    <2>2. Token([type |-> "end", name |-> Current(parser).tag])
        BY <1>2, <2>1
    <2> QED
        BY <1>7, <2>2 DEF EndOfText
<1> QED
    BY <1>3, <1>4, <1>5, <1>6, <1>7 DEF TreeNext

LEMMA TreeStep ==
    ASSUME TreeInvariant(parser), TreeNext
    PROVE  TreeInvariant(parser)' /\ (EndOfFile => parser'.stop \/ parser'.state # "ok")
<1>1. PICK t : Token(t) /\ Dispatch(t) /\ (EndOfFile => t.type = "eof")
    BY NextHandles
<1> DEFINE q == [parser EXCEPT !.text = IF t.type = "end" THEN "data" ELSE @]
<1>2. parser.state = "ok" /\ ~parser.stop /\ parser' = ProcessToken(q, t)
    BY <1>1 DEF Dispatch
<1>3. q = [parser EXCEPT !.text = IF t.type = "end" THEN "data" ELSE @]
    OBVIOUS
<1> HIDE DEF q
<1>4. TreeInvariant(ProcessToken(q, t)) /\ (t.type = "eof" => ProcessToken(q, t).stop \/ ProcessToken(q, t).state # "ok")
    BY <1>1, <1>2, <1>3, TokenDone
<1>5. TreeInvariant(parser')
    BY <1>2, <1>4
<1> QED
    BY <1>1, <1>2, <1>4, <1>5

\* The invariant all three rest on: the stack fits the mode, and the mode the text.
THEOREM TreeInvariantHolds == TreeSpec => []TreeInvariant(parser)
<1>1. TreeInit => TreeInvariant(parser)
    BY NodesAre DEF TreeInit, TreeInvariant, Parsers, Modes, Base, BodyModes, OwnTexts
<1>2. TreeInvariant(parser) /\ [TreeNext]_parser => TreeInvariant(parser)'
    BY TreeStep
<1> QED
    BY <1>1, <1>2, PTL DEF TreeSpec

\* Whatever tags come, <html> and <body> stay at the bottom of the stack once the body is begun, and no loop that pops
\* up to an element empties the stack.
THEOREM BodyNeverPopped == TreeSpec => []BodyStays
<1>1. TreeInvariant(parser) => BodyStays
    <2> SUFFICES ASSUME TreeInvariant(parser) PROVE BodyStays
        OBVIOUS
    <2>0. Len(parser.open) \in Nat /\ parser.state # "underflow"
        BY DEF TreeInvariant, Parsers
    <2>1. CASE parser.mode # "TEXT"
        BY <2>0, <2>1 DEF TreeInvariant, Base, BodyStays, Mode, BodyModes
    <2>2. CASE parser.mode = "TEXT"
        <3> SUFFICES ASSUME parser.orig \in BodyModes
                     PROVE  Len(parser.open) >= 2 /\ parser.open[1].tag = "html" /\ parser.open[2].tag = "body"
            BY <2>0, <2>2 DEF BodyStays, Mode, BodyModes
        <3>1. Base(parser, parser.orig, Len(parser.open) - 1)
            BY <2>2 DEF TreeInvariant
        <3>2. Len(parser.open) - 1 >= 2 /\ parser.open[1].tag = "html" /\ parser.open[2].tag = "body"
            BY <3>1 DEF Base
        <3> QED
            BY <2>0, <3>2
    <2> QED
        BY <2>1, <2>2
<1> QED
    BY <1>1, TreeInvariantHolds, PTL

\* The parser is in a text exactly while the tokenizer is.
THEOREM TextsGoTogether == TreeSpec => []TextTogether
<1>1. TreeInvariant(parser) => TextTogether
    BY DEF TreeInvariant, TextTogether, OwnTexts, TextModes
<1> QED
    BY <1>1, TreeInvariantHolds, PTL

\* The end of the file finishes the document, or it has failed: no token is asked for behind it.
THEOREM EndIsTheEnd == TreeSpec => EndStops
<1>1. TreeInvariant(parser) /\ [TreeNext]_parser => [EndOfFile => parser'.stop \/ parser'.state # "ok"]_parser
    BY TreeStep
<1> QED
    BY <1>1, TreeInvariantHolds, PTL DEF TreeSpec, EndStops

---------------------------------------------------------------------------
(* The tokenizer *)

TokenKinds == [type : {"none", "CHARACTER", "START_TAG", "END_TAG", "COMMENT", "DOCTYPE"},
               has : SUBSET {"attribute", "name", "public", "system"}]

\* What TokenFits asks of token t where a handler of state s uses it.
Suits(t, s) ==
    /\ s \in InTag \cup InAttribute => t.type \in {"START_TAG", "END_TAG"}
    /\ s \in InAttribute => "attribute" \in t.has
    /\ s \in InComment => t.type = "COMMENT"
    /\ s \in EndsDoctype => t.type = "DOCTYPE"
    /\ s = "DOCTYPE_NAME" => "name" \in t.has
InReference == {"CHARACTER_REFERENCE", "NAMED_CHARACTER_REFERENCE"}
User(s, back) == IF s \in InReference THEN back ELSE s

\* Behind the name of an attribute there is one, unless the handler of that state was called for
\* what ends the tag; a "=" there goes on to a value.
AttributeBehind ==
    state = "AFTER_ATTRIBUTE_NAME" /\ "attribute" \notin token.has =>
        \/ calling /\ codepoint \in {"slash", "gt"}
        \/ where = "end" /\ (calling \/ stop)

TokenizerInvariant ==
    /\ token \in TokenKinds /\ returnState \in StartsReference
    /\ health = "ok" => AttributeBehind /\ Suits(token, User(state, returnState))

\* One case for each handler: the token it leaves behind is of the kind that the state it goes to works on.
LEMMA TextsSuit == ASSUME TokenizerInvariant, Texts PROVE TokenizerInvariant'
<1> USE DEF TokenizerInvariant, AttributeBehind, Suits, User, Consuming, Is, Else, Goto, Stay, Reconsume, Keep, Create, New,
        EmitCharacter, TokenKinds
<1> USE DEF InTag, InAttribute, InComment, EndsDoctype, EndsComment, ValueStates, StartsReference, InReference, HandledAs, HandsOn, Quoted, Quotes
<1> USE DEF Emit
<1>1. CASE StartReference
    BY <1>1 DEF StartReference, StartsReference
<1>2. CASE Data
    BY <1>2 DEF Data, Content
<1>3. CASE RCDATA
    BY <1>3 DEF RCDATA, Content
<1>4. CASE RAWTEXT
    BY <1>4 DEF RAWTEXT, Content
<1>5. CASE PLAINTEXT
    BY <1>5 DEF PLAINTEXT
<1>6. CASE RCDATALessThanSign
    BY <1>6 DEF RCDATALessThanSign, LessThanSign
<1>7. CASE RCDATAEndTagOpen
    BY <1>7 DEF RCDATAEndTagOpen, EndTagOpenIn
<1>8. CASE RCDATAEndTagName
    BY <1>8 DEF RCDATAEndTagName, EndTagNameIn
<1>9. CASE RAWTEXTLessThanSign
    BY <1>9 DEF RAWTEXTLessThanSign, LessThanSign
<1>10. CASE RAWTEXTEndTagOpen
    BY <1>10 DEF RAWTEXTEndTagOpen, EndTagOpenIn
<1>11. CASE RAWTEXTEndTagName
    BY SMTT(40), <1>11 DEF RAWTEXTEndTagName, EndTagNameIn
<1> QED
    BY <1>1, <1>2, <1>3, <1>4, <1>5, <1>6, <1>7, <1>8, <1>9, <1>10, <1>11 DEF Texts

LEMMA TagStatesSuit == ASSUME TokenizerInvariant, TagStates PROVE TokenizerInvariant'
<1> USE DEF TokenizerInvariant, AttributeBehind, Suits, User, Consuming, Is, Else, Goto, Stay, Reconsume, Keep, Create, New,
        EmitCharacter, TokenKinds
<1> USE DEF InTag, InAttribute, InComment, EndsDoctype, EndsComment, ValueStates, StartsReference, InReference, HandledAs, HandsOn, Quoted, Quotes
<1> USE DEF Emit, LoseTag, NewAttribute, Allocate
<1>1. CASE TagOpen
    BY <1>1 DEF TagOpen
<1>2. CASE EndTagOpen
    BY <1>2 DEF EndTagOpen
<1>3. CASE TagName
    BY <1>3 DEF TagName
<1>4. CASE BeforeAttributeName
    BY <1>4 DEF BeforeAttributeName
<1>5. CASE AttributeName
    BY <1>5 DEF AttributeName
<1>6. CASE AfterAttributeName
    BY <1>6 DEF AfterAttributeName, LoseTag
<1>7. CASE BeforeAttributeValue
    BY <1>7 DEF BeforeAttributeValue, LoseTag
<1>8. CASE AttributeValueDoubleQuoted
    BY <1>8 DEF AttributeValueDoubleQuoted, QuotedValue
<1>9. CASE AttributeValueSingleQuoted
    BY <1>9 DEF AttributeValueSingleQuoted, QuotedValue
<1>10. CASE AttributeValueUnquoted
    BY <1>10 DEF AttributeValueUnquoted, LoseTag
<1>11. CASE AfterAttributeValueQuoted
    BY <1>11 DEF AfterAttributeValueQuoted
<1>12. CASE SelfClosingStartTag
    BY <1>12 DEF SelfClosingStartTag
<1> QED
    BY <1>1, <1>2, <1>3, <1>4, <1>5, <1>6, <1>7, <1>8, <1>9, <1>10, <1>11, <1>12 DEF TagStates

LEMMA CommentsSuit == ASSUME TokenizerInvariant, Comments PROVE TokenizerInvariant'
<1> USE DEF TokenizerInvariant, AttributeBehind, Suits, User, Consuming, Is, Else, Goto, Stay, Reconsume, Keep, Create, New,
        EmitCharacter, TokenKinds
<1> USE DEF InTag, InAttribute, InComment, EndsDoctype, EndsComment, ValueStates, StartsReference, InReference, HandledAs, HandsOn, Quoted, Quotes
<1> USE DEF Emit, Waits, WaitsOrEnds
<1>1. CASE MarkupDeclarationOpen
    BY <1>1 DEF MarkupDeclarationOpen
<1>2. CASE BogusComment
    BY <1>2 DEF BogusComment
<1>3. CASE CommentStart
    BY <1>3 DEF CommentStart
<1>4. CASE CommentStartDash
    BY <1>4 DEF CommentStartDash
<1>5. CASE Comment
    BY <1>5 DEF Comment
<1>6. CASE CommentLessThanSign
    BY <1>6 DEF CommentLessThanSign
<1>7. CASE CommentLessThanSignBang
    BY <1>7 DEF CommentLessThanSignBang
<1>8. CASE CommentLessThanSignBangDash
    BY <1>8 DEF CommentLessThanSignBangDash
<1>9. CASE CommentLessThanSignBangDashDash
    BY <1>9 DEF CommentLessThanSignBangDashDash
<1>10. CASE CommentEndDash
    BY <1>10 DEF CommentEndDash
<1>11. CASE CommentEnd
    BY <1>11 DEF CommentEnd
<1>12. CASE CommentEndBang
    BY SMTT(40), <1>12 DEF CommentEndBang
<1> QED
    BY <1>1, <1>2, <1>3, <1>4, <1>5, <1>6, <1>7, <1>8, <1>9, <1>10, <1>11, <1>12 DEF Comments

LEMMA DoctypesSuit == ASSUME TokenizerInvariant, Doctypes PROVE TokenizerInvariant'
<1> USE DEF TokenizerInvariant, AttributeBehind, Suits, User, Consuming, Is, Else, Goto, Stay, Reconsume, Keep, Create, New,
        EmitCharacter, TokenKinds
<1> USE DEF InTag, InAttribute, InComment, EndsDoctype, EndsComment, ValueStates, StartsReference, InReference, HandledAs, HandsOn, Quoted, Quotes
<1> USE DEF Emit, EmitNew, SpaceOrEnd, OrBogus, Opens, SpaceTo, Allocate, Identifier
<1>1. CASE DOCTYPE
    BY <1>1 DEF DOCTYPE
<1>2. CASE BeforeDOCTYPEName
    BY <1>2 DEF BeforeDOCTYPEName
<1>3. CASE DOCTYPEName
    BY <1>3 DEF DOCTYPEName
<1>4. CASE AfterDOCTYPEName
    BY <1>4 DEF AfterDOCTYPEName
<1>5. CASE AfterDOCTYPEPublicKeyword
    BY <1>5 DEF AfterDOCTYPEPublicKeyword
<1>6. CASE BeforeDOCTYPEPublicIdentifier
    BY <1>6 DEF BeforeDOCTYPEPublicIdentifier
<1>7. CASE AfterDOCTYPEPublicIdentifier
    BY <1>7 DEF AfterDOCTYPEPublicIdentifier
<1>8. CASE BetweenDOCTYPEPublicAndSystemIdentifiers
    BY <1>8 DEF BetweenDOCTYPEPublicAndSystemIdentifiers
<1>9. CASE AfterDOCTYPESystemKeyword
    BY <1>9 DEF AfterDOCTYPESystemKeyword
<1>10. CASE BeforeDOCTYPESystemIdentifier
    BY <1>10 DEF BeforeDOCTYPESystemIdentifier
<1>11. CASE AfterDOCTYPESystemIdentifier
    BY <1>11 DEF AfterDOCTYPESystemIdentifier
<1>12. CASE BogusDOCTYPE
    BY <1>12 DEF BogusDOCTYPE
<1>13. CASE DOCTYPEPublicIdentifierDoubleQuoted
    BY <1>13 DEF DOCTYPEPublicIdentifierDoubleQuoted
<1>14. CASE DOCTYPEPublicIdentifierSingleQuoted
    BY <1>14 DEF DOCTYPEPublicIdentifierSingleQuoted
<1>15. CASE DOCTYPESystemIdentifierDoubleQuoted
    BY <1>15 DEF DOCTYPESystemIdentifierDoubleQuoted
<1>16. CASE DOCTYPESystemIdentifierSingleQuoted
    BY <1>16 DEF DOCTYPESystemIdentifierSingleQuoted
<1> QED
    BY <1>1, <1>2, <1>3, <1>4, <1>5, <1>6, <1>7, <1>8, <1>9, <1>10, <1>11, <1>12,
       <1>13, <1>14, <1>15, <1>16 DEF Doctypes

LEMMA ReferencesSuit == ASSUME TokenizerInvariant, References PROVE TokenizerInvariant'
<1> USE DEF TokenizerInvariant, AttributeBehind, Suits, User, Consuming, Is, Else, Goto, Stay, Reconsume, Keep, Create, New,
        EmitCharacter, TokenKinds
<1> USE DEF InTag, InAttribute, InComment, EndsDoctype, EndsComment, ValueStates, StartsReference, InReference, HandledAs, HandsOn, Quoted, Quotes
<1> USE DEF Flush, Unwritten
<1>1. CASE CharacterReference
    BY <1>1 DEF CharacterReference
<1>2. CASE NamedCharacterReference
    BY <1>2 DEF NamedCharacterReference
<1>3. CASE Exit
    BY <1>3 DEF Exit
<1> QED
    BY <1>1, <1>2, <1>3 DEF References

LEMMA HandleEOFSuit == ASSUME TokenizerInvariant, HandleEOF PROVE TokenizerInvariant'
<1> USE DEF TokenizerInvariant, AttributeBehind, Suits, User, Consuming, Is, Else, Goto, Stay, Reconsume, Keep, Create, New,
        EmitCharacter, TokenKinds
<1> USE DEF InTag, InAttribute, InComment, EndsDoctype, EndsComment, ValueStates, StartsReference, InReference, HandledAs, HandsOn, Quoted, Quotes
<1> USE DEF Flush, Unwritten, EmitEOF, Handled, EndsText, EndsTag, BeforeDoctype, BackToText, Lost
<1>1. CASE EndOfInput
    BY <1>1 DEF EndOfInput
<1>2. CASE EndInDoctype
    BY <1>2 DEF EndInDoctype
<1>3. CASE EndInText
    BY <1>3 DEF EndInText
<1>4. CASE EndAgain
    BY <1>4 DEF EndAgain
<1>5. CASE EndInReference
    BY <1>5 DEF EndInReference
<1>6. CASE EndInDeclaration
    BY <1>6 DEF EndInDeclaration
<1>7. CASE EndUnhandled
    BY <1>7 DEF EndUnhandled
<1> QED
    BY <1>1, <1>2, <1>3, <1>4, <1>5, <1>6, <1>7 DEF HandleEOF

LEMMA TokenizerStarts == TokenizerInit => TokenizerInvariant
BY DEF TokenizerInit, TokenizerInvariant, AttributeBehind, Suits, User, New, TokenKinds, InTag, InAttribute, InComment,
    EndsDoctype, EndsComment, ValueStates, StartsReference, InReference, HandledAs, HandsOn, Quoted, Quotes

LEMMA TokenizerSteps == TokenizerInvariant /\ [TokenizerNext]_vars => TokenizerInvariant'
<1> SUFFICES ASSUME TokenizerInvariant, [TokenizerNext]_vars PROVE TokenizerInvariant'
    OBVIOUS
<1>1. CASE ConsumeNext
    BY <1>1 DEF ConsumeNext, TokenizerInvariant, AttributeBehind
<1>2. CASE UNCHANGED vars
    BY <1>2 DEF vars, TokenizerInvariant, AttributeBehind
<1> QED
    BY <1>1, <1>2, TextsSuit, TagStatesSuit, CommentsSuit, DoctypesSuit, ReferencesSuit, HandleEOFSuit DEF TokenizerNext

\* Whatever code points come, in whatever order, and wherever the input ends: no handler appends to a
\* token of a kind that has no such part (Tokenizer.c).
THEOREM TokensFit == TokenizerSpec => []TokenFits
<1>1. TokenizerInvariant => TokenFits
    BY DEF TokenizerInvariant, TokenFits, Suits, User, InReference
<1> QED
    BY <1>1, TokenizerStarts, TokenizerSteps, PTL DEF TokenizerSpec
=============================================================================
