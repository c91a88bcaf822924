--------------------------- MODULE SettingsProofs ---------------------------
(***************************************************************************)
(* What is found for a setting does not depend on the order of the list, a *)
(* user's choice stands, and a window toggles its own state: for any       *)
(* settings, files and windows.                                            *)
(***************************************************************************)
EXTENDS Settings, FiniteSetTheorems, SequenceTheorems, TLAPS

\* Induction, for a set of numbers: below a number not in S, adding 1 would map a finite set
\* onto itself, and nothing to 0.
LEMMA SetInduction ==
    ASSUME NEW S, 0 \in S, \A n \in Nat : n \in S => n + 1 \in S
    PROVE  Nat \subseteq S
<1> SUFFICES ASSUME NEW m \in Nat, m \notin S PROVE FALSE
    OBVIOUS
<1> DEFINE A == (0..m) \cap S
           f == [k \in A |-> k + 1]
<1>1. IsFiniteSet(A)
    <2>1. IsFiniteSet(0..m) /\ A \in SUBSET (0..m)
        BY FS_Interval
    <2> QED
        BY <2>1, FS_Subset
<1>2. 0 \in A /\ \A k \in A : k + 1 \in A
    OBVIOUS
<1>3. f \in Injection(A, A)
    BY <1>2 DEF Injection, IsInjective
<1>4. f \in Surjection(A, A)
    BY <1>1, <1>3, FS_Injection
<1>5. PICK k \in A : f[k] = 0
    BY <1>2, <1>4 DEF Surjection
<1> QED
    BY <1>5

LEMMA LeastExists == ASSUME NEW I \in SUBSET Nat, I # {} PROVE Min(I) \in I /\ \A k \in I : Min(I) <= k
<1> DEFINE S == {n \in Nat : \A k \in I : n <= k}
<1>1. \E n \in I : \A k \in I : n <= k
    <2>1. CASE \E n \in Nat : n \in S /\ n + 1 \notin S
        BY <2>1
    <2>2. CASE \A n \in Nat : n \in S => n + 1 \in S
        <3>0. 0 \in S
            OBVIOUS
        <3>1. Nat \subseteq S
            BY <2>2, <3>0, SetInduction
        <3>2. PICK k \in I : TRUE
            OBVIOUS
        <3>3. k \in Nat /\ k + 1 \in Nat
            OBVIOUS
        <3>4. k + 1 <= k
            BY <3>1, <3>3
        <3> QED
            BY <3>3, <3>4
    <2> QED
        BY <2>1, <2>2
<1> QED
    BY <1>1 DEF Min

---------------------------------------------------------------------------
(* Lists of settings *)

SettingValues == [ns : Texts, name : Texts, values : Seq(Texts), priority : {0, 1}, default : BOOLEAN]
Lists == Seq(SettingValues)

\* What DefaultOf() and OwnOf() look for.
IsDefault(l, i, n) == i \in 1..Len(l) /\ l[i].default /\ l[i].name = n
IsOwn(l, i, ns, n) == i \in 1..Len(l) /\ l[i].ns # NoNamespace /\ l[i].ns = ns /\ l[i].name = n

LEMMA DefaultFound ==
    ASSUME NEW l \in Lists, NEW n
    PROVE  IF DefaultOf(l, n) = 0 THEN \A i : ~IsDefault(l, i, n) ELSE IsDefault(l, DefaultOf(l, n), n)
<1> DEFINE I == {i \in 1..Len(l) : l[i].default /\ l[i].name = n}
<1>1. DefaultOf(l, n) = IF I # {} THEN Min(I) ELSE 0
    BY DEF DefaultOf, SelectInSeq
<1>2. I \in SUBSET Nat /\ 0 \notin I
    BY DEF Lists
<1> QED
    BY <1>1, <1>2, LeastExists DEF IsDefault

LEMMA OwnFound ==
    ASSUME NEW l \in Lists, NEW ns, NEW n
    PROVE  IF OwnOf(l, ns, n) = 0 THEN \A i : ~IsOwn(l, i, ns, n) ELSE IsOwn(l, OwnOf(l, ns, n), ns, n)
<1> DEFINE I == {i \in 1..Len(l) : l[i].ns # NoNamespace /\ l[i].ns = ns /\ l[i].name = n}
<1>1. OwnOf(l, ns, n) = IF I # {} THEN Min(I) ELSE 0
    BY DEF OwnOf, SelectInSeq
<1>2. I \in SUBSET Nat /\ 0 \notin I
    BY DEF Lists
<1> QED
    BY ZenonT(60), <1>1, <1>2, LeastExists DEF IsOwn

\* Unambiguous, for any list.
Clear(l) ==
    /\ \A i, j \in 1..Len(l) : (l[i].name = l[j].name /\ l[i].ns = l[j].ns) => i = j
    /\ \A i \in 1..Len(l) : l[i].default <=> l[i].ns = NoNamespace
    /\ \A n \in NamesOf(l) : DefaultOf(l, n) > 0

LEMMA DefaultIs ==
    ASSUME NEW l \in Lists, Clear(l), NEW n, NEW i, IsDefault(l, i, n)
    PROVE  DefaultOf(l, n) = i
<1>1. DefaultOf(l, n) # 0 /\ IsDefault(l, DefaultOf(l, n), n)
    BY DefaultFound
<1> QED
    BY <1>1 DEF Clear, IsDefault

LEMMA OwnIs ==
    ASSUME NEW l \in Lists, Clear(l), NEW ns, NEW n, NEW i, IsOwn(l, i, ns, n)
    PROVE  OwnOf(l, ns, n) = i
<1>1. OwnOf(l, ns, n) # 0 /\ IsOwn(l, OwnOf(l, ns, n), ns, n)
    BY OwnFound
<1> QED
    BY <1>1 DEF Clear, IsOwn

\* A name in the list has a default; a list is clear when that is all that is known.
LEMMA NameHasDefault ==
    ASSUME NEW l \in Lists, Clear(l), NEW n \in NamesOf(l)
    PROVE  IsDefault(l, DefaultOf(l, n), n)
<1>1. DefaultOf(l, n) > 0 /\ DefaultOf(l, n) # 0
    BY DEF Clear
<1> QED
    BY <1>1, DefaultFound

LEMMA ClearIf ==
    ASSUME NEW l \in Lists,
           \A i, j \in 1..Len(l) : (l[i].name = l[j].name /\ l[i].ns = l[j].ns) => i = j,
           \A i \in 1..Len(l) : l[i].default <=> l[i].ns = NoNamespace,
           \A i \in 1..Len(l) : \E j : IsDefault(l, j, l[i].name)
    PROVE  Clear(l)
<1>1. ASSUME NEW n \in NamesOf(l) PROVE DefaultOf(l, n) > 0
    <2>1. PICK j : IsDefault(l, j, n)
        BY <1>1 DEF NamesOf
    <2>2. IsDefault(l, DefaultOf(l, n), n)
        BY <2>1, DefaultFound
    <2> QED
        BY <2>2 DEF IsDefault, Lists
<1> QED
    BY <1>1 DEF Clear

---------------------------------------------------------------------------
(* Reading *)

LEMMA FirstFound ==
    ASSUME NEW t \in Texts, NEW c
    PROVE  /\ FirstOf(t, c) \in 0..Len(t)
           /\ FirstOf(t, c) = 0 => \A i \in 1..Len(t) : t[i] # c
           /\ FirstOf(t, c) > 0 => t[FirstOf(t, c)] = c /\ \A i \in 1..(FirstOf(t, c) - 1) : t[i] # c
<1> DEFINE I == {i \in 1..Len(t) : t[i] = c}
<1>1. FirstOf(t, c) = IF I # {} THEN Min(I) ELSE 0
    BY DEF FirstOf, SelectInSeq
<1>2. I \in SUBSET Nat /\ 0 \notin I /\ Len(t) \in Nat
    BY DEF Texts
<1>3. CASE I = {}
    BY <1>1, <1>2, <1>3
<1>4. CASE I # {}
    <2>1. FirstOf(t, c) \in I /\ \A k \in I : FirstOf(t, c) <= k
        BY <1>1, <1>2, <1>4, LeastExists
    <2>2. ASSUME NEW i \in 1..(FirstOf(t, c) - 1), t[i] = c PROVE FALSE
        <3>1. i \in I
            BY <1>2, <2>1, <2>2
        <3> QED
            BY <1>2, <2>1, <2>2, <3>1
    <2> QED
        BY <1>2, <2>1, <2>2
<1> QED
    BY <1>3, <1>4

LEMMA NamesAreTexts == ASSUME NEW t \in Texts PROVE NamespaceOf(t) \in Texts /\ NameOf(t) \in Texts
<1>1. FirstOf(t, Underscore) \in 0..Len(t) /\ t \in Seq(Words) /\ Len(t) \in Nat /\ <<>> \in Seq(Words)
    BY FirstFound DEF Texts
<1>2. \A i \in 1..Len(t) : t[i] \in Words
    BY <1>1
<1>3. HasNamespace(t) => /\ SubSeq(t, 1, FirstOf(t, Underscore) - 1) \in Seq(Words)
                         /\ SubSeq(t, FirstOf(t, Underscore) + 1, Len(t)) \in Seq(Words)
    <2> SUFFICES ASSUME FirstOf(t, Underscore) > 0
                 PROVE  /\ SubSeq(t, 1, FirstOf(t, Underscore) - 1) \in Seq(Words)
                        /\ SubSeq(t, FirstOf(t, Underscore) + 1, Len(t)) \in Seq(Words)
        BY Zenon DEF HasNamespace
    <2> DEFINE k == FirstOf(t, Underscore)
    <2>1. k \in 1..Len(t)
        BY <1>1
    <2> HIDE DEF k
    <2>2. SubSeq(t, 1, k - 1) \in Seq(Words)
        BY <1>1, <1>2, <2>1, SubSeqProperties
    <2>3. SubSeq(t, k + 1, Len(t)) \in Seq(Words)
        BY <1>1, <1>2, <2>1, SubSeqProperties
    <2> QED
        BY <2>2, <2>3 DEF k
<1> QED
    BY <1>1, <1>3 DEF NamespaceOf, NameOf, NoNamespace, Texts

\* What a change is: a setting as nh_core_parseConfigSetting() makes it.
Changes == {s \in SettingValues : s.default /\ s.priority = 0}

\* What the parser is given: what a file holds, or a setting that is written down again.
Lines == [text : Texts, values : Seq(Texts)]

LEMMA EntriesAreLines == Entries \subseteq Lines /\ \A f \in Seq(Entries) : f \in Seq(Lines)
<1>1. Entries \subseteq Lines
    BY DEF Entries, Lines
<1> QED
    BY <1>1

LEMMA SettingIsChange == ASSUME NEW e \in Lines PROVE Setting(e) \in Changes /\ Setting(e).values = e.values
<1>1. NamespaceOf(e.text) \in Texts /\ NameOf(e.text) \in Texts /\ e.values \in Seq(Texts)
    BY NamesAreTexts DEF Lines
<1> QED
    BY <1>1 DEF Setting, Changes, SettingValues

LEMMA ParsedAreChanges ==
    ASSUME NEW file \in Seq(Lines)
    PROVE  /\ Parsed(file) \in Seq(Changes) /\ Parsed(file) \in Lists /\ Len(Parsed(file)) <= Len(file)
           /\ \A i \in 1..Len(Parsed(file)) : Parsed(file)[i].values = file[i].values
<1> DEFINE I == {i \in 1..Len(file) : ~Contains(NameOf(file[i].text), Point)}
           bad == IF I # {} THEN Min(I) ELSE 0
           n == IF bad = 0 THEN Len(file) ELSE bad - 1
<1>1. Parsed(file) = [i \in 1..n |-> Setting(file[i])]
    BY DEF Parsed, SelectInSeq
<1>2. n \in Nat /\ n <= Len(file)
    <2>1. I \in SUBSET Nat /\ Len(file) \in Nat
        OBVIOUS
    <2>2. I # {} => Min(I) \in I
        BY <2>1, LeastExists
    <2> HIDE DEF n
    <2>3. CASE I = {}
        BY <2>1, <2>3 DEF n
    <2>4. CASE I # {}
        BY <2>1, <2>2, <2>4 DEF n
    <2> QED
        BY <2>3, <2>4
<1> HIDE DEF n
<1>3. \A i \in 1..n : file[i] \in Lines
    BY <1>2
<1>4. \A i \in 1..n : Setting(file[i]) \in Changes /\ Setting(file[i]).values = file[i].values
    BY <1>3, SettingIsChange
<1>5. Parsed(file) \in Seq(Changes) /\ Len(Parsed(file)) = n
    BY <1>1, <1>2, <1>4
<1>6. Parsed(file) \in Lists
    BY <1>1, <1>2, <1>4 DEF Lists, Changes
<1>7. \A i \in 1..Len(Parsed(file)) : Parsed(file)[i].values = file[i].values
    BY <1>1, <1>4, <1>5
<1> QED
    BY <1>2, <1>5, <1>6, <1>7

---------------------------------------------------------------------------
(* One change *)

\* Settings that take over other values: nothing is found elsewhere.
LEMMA SamePlaces ==
    ASSUME NEW l \in Lists, Clear(l), NEW r \in Lists, Len(r) = Len(l),
           \A i \in 1..Len(l) : r[i].name = l[i].name /\ r[i].ns = l[i].ns /\ r[i].default = l[i].default
    PROVE  /\ Clear(r) /\ NamesOf(r) = NamesOf(l)
           /\ \A n \in NamesOf(l) : DefaultOf(r, n) = DefaultOf(l, n)
           /\ \A ns, n : OwnOf(r, ns, n) = OwnOf(l, ns, n)
<1>1. \A i, n : IsDefault(r, i, n) <=> IsDefault(l, i, n)
    BY DEF IsDefault
<1>2. \A i, ns, n : IsOwn(r, i, ns, n) <=> IsOwn(l, i, ns, n)
    BY DEF IsOwn
<1>3. NamesOf(r) = NamesOf(l)
    BY DEF NamesOf
<1>4. Clear(r)
    <2>1. \A i, j \in 1..Len(r) : (r[i].name = r[j].name /\ r[i].ns = r[j].ns) => i = j
        BY DEF Clear
    <2>2. \A i \in 1..Len(r) : r[i].default <=> r[i].ns = NoNamespace
        BY DEF Clear
    <2>3. ASSUME NEW i \in 1..Len(r) PROVE \E j : IsDefault(r, j, r[i].name)
        <3>1. l[i].name \in NamesOf(l)
            BY DEF NamesOf
        <3> QED
            BY <1>1, <3>1, NameHasDefault
    <2> QED
        BY <2>1, <2>2, <2>3, ClearIf
<1>5. ASSUME NEW n \in NamesOf(l) PROVE DefaultOf(r, n) = DefaultOf(l, n)
    BY <1>1, <1>4, NameHasDefault, DefaultIs
<1>6. ASSUME NEW ns, NEW n PROVE OwnOf(r, ns, n) = OwnOf(l, ns, n)
    <2>1. CASE OwnOf(l, ns, n) = 0
        BY <1>2, <2>1, OwnFound
    <2>2. CASE OwnOf(l, ns, n) # 0
        BY <1>2, <1>4, <2>2, OwnFound, OwnIs
    <2> QED
        BY <2>1, <2>2
<1> QED
    BY <1>3, <1>4, <1>5, <1>6

\* A setting put at the end, whose name and namespace are new together.
LEMMA OneMore ==
    ASSUME NEW l \in Lists, Clear(l), NEW e \in SettingValues, e.default <=> e.ns = NoNamespace,
           \A i \in 1..Len(l) : l[i].name # e.name \/ l[i].ns # e.ns, e.default \/ e.name \in NamesOf(l)
    PROVE  LET r == Append(l, e) IN
           /\ r \in Lists /\ Clear(r) /\ NamesOf(r) = NamesOf(l) \cup {e.name}
           /\ Len(r) = Len(l) + 1 /\ r[Len(l) + 1] = e /\ \A i \in 1..Len(l) : r[i] = l[i]
           /\ \A n \in NamesOf(l) : DefaultOf(r, n) = DefaultOf(l, n)
<1> DEFINE r == Append(l, e)
<1>1. r \in Lists /\ Len(r) = Len(l) + 1 /\ Len(l) \in Nat /\ r[Len(l) + 1] = e /\ \A i \in 1..Len(l) : r[i] = l[i]
    BY DEF Lists
<1> HIDE DEF r
<1>2. NamesOf(r) = NamesOf(l) \cup {e.name}
    <2>1. \A i \in 1..Len(r) : i = Len(l) + 1 \/ i \in 1..Len(l)
        BY <1>1
    <2>2. 1..Len(l) \subseteq 1..Len(r) /\ Len(l) + 1 \in 1..Len(r)
        BY <1>1
    <2> QED
        BY <1>1, <2>1, <2>2 DEF NamesOf
<1>3. \A i, n : IsDefault(l, i, n) => IsDefault(r, i, n)
    BY <1>1 DEF IsDefault
<1>4. Clear(r)
    <2>0. \A i \in 1..Len(r) : i \in 1..Len(l) \/ (i = Len(l) + 1 /\ r[i] = e)
        BY <1>1
    <2>1. ASSUME NEW i \in 1..Len(r), NEW j \in 1..Len(r), r[i].name = r[j].name, r[i].ns = r[j].ns PROVE i = j
        <3>1. CASE i \in 1..Len(l) /\ j \in 1..Len(l)
            BY <1>1, <2>1, <3>1 DEF Clear
        <3>2. CASE i \notin 1..Len(l) \/ j \notin 1..Len(l)
            BY <1>1, <2>0, <2>1, <3>2
        <3> QED
            BY <3>1, <3>2
    <2>2. \A i \in 1..Len(r) : r[i].default <=> r[i].ns = NoNamespace
        BY <1>1, <2>0 DEF Clear
    <2>3. ASSUME NEW i \in 1..Len(r) PROVE \E j : IsDefault(r, j, r[i].name)
        <3>1. CASE r[i].name \in NamesOf(l)
            BY <1>3, <3>1, NameHasDefault
        <3>2. CASE r[i].name \notin NamesOf(l)
            <4>1. i = Len(l) + 1 /\ r[i] = e /\ e.default
                BY <1>1, <2>0, <3>2 DEF NamesOf
            <4> QED
                BY <1>1, <4>1 DEF IsDefault
        <3> QED
            BY <3>1, <3>2
    <2> QED
        BY <1>1, <2>1, <2>2, <2>3, ClearIf
<1>5. ASSUME NEW n \in NamesOf(l) PROVE DefaultOf(r, n) = DefaultOf(l, n)
    <2>1. IsDefault(r, DefaultOf(l, n), n)
        BY <1>3, NameHasDefault
    <2> QED
        BY <1>1, <1>4, <2>1, DefaultIs
<1> QED
    BY <1>1, <1>2, <1>4, <1>5 DEF r

\* A name whose default was set with priority 1; what everybody without a namespace gets.
Prior(l, n) == n \in NamesOf(l) /\ l[DefaultOf(l, n)].priority = 1
Shown(l, n) == l[DefaultOf(l, n)].values

\* What changes of priority p may do to a list.
Follows(l, r, p) ==
    /\ r \in Lists /\ Clear(r) /\ NamesOf(l) \subseteq NamesOf(r)
    /\ \A n : Prior(l, n) => Prior(r, n) /\ (p = 0 => Shown(r, n) = Shown(l, n))
    /\ p = 1 => \A n \in NamesOf(r) : Prior(r, n) \/ (n \in NamesOf(l) /\ Shown(r, n) = Shown(l, n))

LEMMA NewDefaultFollows ==
    ASSUME NEW l \in Lists, Clear(l), NEW s \in Changes, NEW p \in {0, 1}, DefaultOf(l, s.name) = 0
    PROVE  Follows(l, NewDefault(l, s, p), p)
<1> DEFINE e == [s EXCEPT !.ns = NoNamespace, !.priority = p]
           r == Append(l, e)
<1>1. e \in SettingValues /\ e.default /\ e.ns = NoNamespace /\ e.name = s.name /\ e.priority = p
    <2>1. NoNamespace \in Texts
        BY DEF NoNamespace, Texts
    <2> QED
        BY <2>1 DEF Changes, SettingValues
<1>2. s.name \notin NamesOf(l)
    BY DEF Clear
<1> HIDE DEF e
<1>3. /\ r \in Lists /\ Clear(r) /\ NamesOf(r) = NamesOf(l) \cup {e.name}
      /\ Len(r) = Len(l) + 1 /\ r[Len(l) + 1] = e /\ \A i \in 1..Len(l) : r[i] = l[i]
      /\ \A n \in NamesOf(l) : DefaultOf(r, n) = DefaultOf(l, n)
    <2>1. \A i \in 1..Len(l) : l[i].name # e.name
        BY <1>1, <1>2 DEF NamesOf
    <2> QED
        BY <1>1, <2>1, OneMore
<1> HIDE DEF r
<1>4. DefaultOf(r, s.name) = Len(l) + 1
    <2>1. IsDefault(r, Len(l) + 1, s.name)
        BY <1>1, <1>3 DEF IsDefault, Lists
    <2> QED
        BY <1>3, <2>1, DefaultIs
<1>5. \A n \in NamesOf(l) : r[DefaultOf(r, n)] = l[DefaultOf(l, n)]
    BY <1>3, NameHasDefault DEF IsDefault
<1>6. \A n : Prior(l, n) => Prior(r, n) /\ Shown(r, n) = Shown(l, n)
    BY <1>3, <1>5 DEF Prior, Shown
<1>7. p = 1 => Prior(r, s.name)
    BY <1>1, <1>3, <1>4 DEF Prior
<1>8. \A n \in NamesOf(l) : Shown(r, n) = Shown(l, n)
    BY <1>5 DEF Shown
<1>9. Follows(l, r, p)
    BY <1>1, <1>3, <1>6, <1>7, <1>8 DEF Follows
<1> QED
    BY <1>9 DEF NewDefault, r, e

LEMMA ChangeDefaultFollows ==
    ASSUME NEW l \in Lists, Clear(l), NEW s \in Changes, NEW p \in {0, 1}, DefaultOf(l, s.name) # 0
    PROVE  Follows(l, ChangeDefault(l, s, p), p)
<1> DEFINE d == DefaultOf(l, s.name)
           r == [l EXCEPT ![d].values = s.values, ![d].priority = p]
<1>1. d \in 1..Len(l) /\ l[d].name = s.name /\ IsDefault(l, d, s.name)
    BY DefaultFound DEF IsDefault
<1>2. Follows(l, l, p)
    BY DEF Follows
<1>3. /\ r \in Lists /\ Len(r) = Len(l) /\ r[d].priority = p
      /\ \A i \in 1..Len(l) : r[i].name = l[i].name /\ r[i].ns = l[i].ns /\ r[i].default = l[i].default
      /\ \A i \in 1..Len(l) \ {d} : r[i] = l[i]
    <2> DEFINE e == [l[d] EXCEPT !.values = s.values, !.priority = p]
    <2>1. e \in SettingValues /\ e.name = l[d].name /\ e.ns = l[d].ns /\ e.default = l[d].default /\ e.priority = p
        <3>1. s.values \in Seq(Texts)
            BY DEF Changes, SettingValues
        <3>2. l[d] \in SettingValues
            <4> HIDE DEF d
            <4> QED
                BY <1>1 DEF Lists
        <3> HIDE DEF d
        <3> QED
            BY <3>1, <3>2 DEF SettingValues
    <2>2. r = [l EXCEPT ![d] = e]
        BY <1>1 DEF Lists
    <2> HIDE DEF e, d, r
    <2> QED
        BY <1>1, <2>1, <2>2 DEF Lists
<1> HIDE DEF d, r
<1>4. Clear(r) /\ NamesOf(r) = NamesOf(l) /\ \A n \in NamesOf(l) : DefaultOf(r, n) = DefaultOf(l, n)
    BY <1>3, SamePlaces
<1>5. \A n \in NamesOf(l) : n # s.name => r[DefaultOf(r, n)] = l[DefaultOf(l, n)]
    <2> TAKE n \in NamesOf(l)
    <2>1. IsDefault(l, DefaultOf(l, n), n)
        BY NameHasDefault
    <2> QED
        BY <1>1, <1>3, <1>4, <2>1 DEF IsDefault
<1>6. s.name \in NamesOf(l) /\ DefaultOf(r, s.name) = d /\ DefaultOf(l, s.name) = d
    BY <1>1, <1>4 DEF NamesOf, d
<1>7. ASSUME ~(l[d].priority > p) PROVE Follows(l, r, p)
    <2>1. \A n : Prior(l, n) => Prior(r, n) /\ (p = 0 => Shown(r, n) = Shown(l, n))
        <3> SUFFICES ASSUME NEW n, Prior(l, n) PROVE Prior(r, n) /\ (p = 0 => Shown(r, n) = Shown(l, n))
            OBVIOUS
        <3>1. CASE n # s.name
            BY <1>4, <1>5, <3>1 DEF Prior, Shown
        <3>2. CASE n = s.name
            BY <1>3, <1>4, <1>6, <1>7, <3>2 DEF Prior
        <3> QED
            BY <3>1, <3>2
    <2>2. ASSUME p = 1, NEW n \in NamesOf(r) PROVE Prior(r, n) \/ (n \in NamesOf(l) /\ Shown(r, n) = Shown(l, n))
        <3>1. CASE n # s.name
            BY <1>4, <1>5, <3>1 DEF Shown
        <3>2. CASE n = s.name
            BY <1>3, <1>4, <1>6, <2>2, <3>2 DEF Prior
        <3> QED
            BY <3>1, <3>2
    <2> QED
        BY <1>3, <1>4, <2>1, <2>2 DEF Follows
<1> QED
    BY <1>2, <1>7 DEF ChangeDefault, d, r

LEMMA ChangeOwnIs ==
    ASSUME NEW l \in Lists, Clear(l), NEW s \in Changes, NEW p \in {0, 1}, DefaultOf(l, s.name) # 0, s.ns # NoNamespace
    PROVE  LET r == ChangeOwn(l, s, p) IN
           /\ r \in Lists /\ Clear(r) /\ NamesOf(r) = NamesOf(l)
           /\ \A n \in NamesOf(l) : r[DefaultOf(r, n)] = l[DefaultOf(l, n)]
           /\ OwnOf(r, s.ns, s.name) > 0 /\ r[OwnOf(r, s.ns, s.name)].values = s.values
           /\ \A ns, n : <<ns, n>> # <<s.ns, s.name>> =>
                 /\ (OwnOf(r, ns, n) > 0) <=> (OwnOf(l, ns, n) > 0)
                 /\ (OwnOf(l, ns, n) > 0 => r[OwnOf(r, ns, n)].values = l[OwnOf(l, ns, n)].values)
<1> DEFINE own == OwnOf(l, s.ns, s.name)
           r == ChangeOwn(l, s, p)
           Facts == /\ r \in Lists /\ Clear(r) /\ NamesOf(r) = NamesOf(l)
                    /\ \A n \in NamesOf(l) : r[DefaultOf(r, n)] = l[DefaultOf(l, n)]
                    /\ OwnOf(r, s.ns, s.name) > 0 /\ r[OwnOf(r, s.ns, s.name)].values = s.values
                    /\ \A ns, n : <<ns, n>> # <<s.ns, s.name>> =>
                          /\ (OwnOf(r, ns, n) > 0) <=> (OwnOf(l, ns, n) > 0)
                          /\ (OwnOf(l, ns, n) > 0 => r[OwnOf(r, ns, n)].values = l[OwnOf(l, ns, n)].values)
<1>1. s.values \in Seq(Texts) /\ s.name \in NamesOf(l)
    <2>1. IsDefault(l, DefaultOf(l, s.name), s.name)
        BY DefaultFound
    <2> QED
        BY <2>1 DEF Changes, SettingValues, IsDefault, NamesOf
<1>2. CASE own # 0
    <2>1. own \in 1..Len(l) /\ IsOwn(l, own, s.ns, s.name) /\ own > 0
        <3>1. IsOwn(l, own, s.ns, s.name)
            BY <1>2, OwnFound
        <3> HIDE DEF own
        <3> QED
            BY <3>1 DEF IsOwn, Lists
    <2>2. r = [l EXCEPT ![own].values = s.values]
        BY <2>1 DEF ChangeOwn
    <2>3. /\ r \in Lists /\ Len(r) = Len(l) /\ r[own].values = s.values
          /\ \A i \in 1..Len(l) : r[i].name = l[i].name /\ r[i].ns = l[i].ns /\ r[i].default = l[i].default
          /\ \A i \in 1..Len(l) \ {own} : r[i] = l[i]
        <3> DEFINE e == [l[own] EXCEPT !.values = s.values]
        <3> HIDE DEF own, r
        <3>1. l[own] \in SettingValues
            BY <2>1 DEF Lists
        <3>2. e \in SettingValues /\ e.name = l[own].name /\ e.ns = l[own].ns /\ e.default = l[own].default /\ e.values = s.values
            BY <1>1, <3>1 DEF SettingValues
        <3>3. r = [l EXCEPT ![own] = e]
            BY <2>1, <2>2 DEF Lists
        <3> HIDE DEF e
        <3> QED
            BY <2>1, <3>2, <3>3 DEF Lists
    <2> HIDE DEF r
    <2>4. /\ Clear(r) /\ NamesOf(r) = NamesOf(l) /\ \A n \in NamesOf(l) : DefaultOf(r, n) = DefaultOf(l, n)
          /\ \A ns, n : OwnOf(r, ns, n) = OwnOf(l, ns, n)
        BY <2>3, SamePlaces
    <2>5. \A n \in NamesOf(l) : r[DefaultOf(r, n)] = l[DefaultOf(l, n)]
        <3> TAKE n \in NamesOf(l)
        <3>1. IsDefault(l, DefaultOf(l, n), n)
            BY NameHasDefault
        <3>2. DefaultOf(l, n) \in 1..Len(l) /\ l[DefaultOf(l, n)].ns = NoNamespace
            BY <3>1 DEF IsDefault, Clear
        <3>3. DefaultOf(l, n) # own
            BY <2>1, <3>2 DEF IsOwn
        <3> QED
            BY <2>3, <2>4, <3>2, <3>3
    <2>6. \A ns, n : <<ns, n>> # <<s.ns, s.name>> =>
              (OwnOf(l, ns, n) > 0 => r[OwnOf(r, ns, n)].values = l[OwnOf(l, ns, n)].values)
        <3> SUFFICES ASSUME NEW ns, NEW n, <<ns, n>> # <<s.ns, s.name>>, OwnOf(l, ns, n) > 0
                     PROVE  r[OwnOf(r, ns, n)].values = l[OwnOf(l, ns, n)].values
            OBVIOUS
        <3>1. OwnOf(l, ns, n) # 0
            OBVIOUS
        <3>2. IsOwn(l, OwnOf(l, ns, n), ns, n)
            BY <3>1, OwnFound
        <3>3. OwnOf(l, ns, n) \in 1..Len(l) \ {own}
            BY <2>1, <3>2 DEF IsOwn
        <3> QED
            BY <2>3, <2>4, <3>3
    <2>7. OwnOf(r, s.ns, s.name) = own
        BY <2>4
    <2> HIDE DEF own
    <2>8. Facts
        BY <2>1, <2>3, <2>4, <2>5, <2>6, <2>7
    <2> QED
        BY <2>8 DEF r
<1>3. CASE own = 0
    <2> DEFINE e == [s EXCEPT !.default = FALSE, !.priority = p]
    <2>1. r = Append(l, e)
        BY <1>3 DEF ChangeOwn
    <2>2. e \in SettingValues /\ ~e.default /\ e.ns = s.ns /\ e.name = s.name /\ e.values = s.values
        BY DEF Changes, SettingValues
    <2> HIDE DEF e, r
    <2>3. \A i \in 1..Len(l) : l[i].name # e.name \/ l[i].ns # e.ns
        BY <1>3, <2>2, OwnFound DEF IsOwn
    <2>4. (e.default <=> e.ns = NoNamespace) /\ e.name \in NamesOf(l)
        BY <1>1, <2>2
    <2>5. /\ r \in Lists /\ Clear(r) /\ NamesOf(r) = NamesOf(l) \cup {e.name}
          /\ Len(r) = Len(l) + 1 /\ r[Len(l) + 1] = e /\ \A i \in 1..Len(l) : r[i] = l[i]
          /\ \A n \in NamesOf(l) : DefaultOf(r, n) = DefaultOf(l, n)
        BY <2>1, <2>2, <2>3, <2>4, OneMore
    <2>6. NamesOf(r) = NamesOf(l) /\ Len(l) \in Nat
        BY <2>4, <2>5 DEF Lists
    <2>7. \A n \in NamesOf(l) : r[DefaultOf(r, n)] = l[DefaultOf(l, n)]
        BY <2>5, NameHasDefault DEF IsDefault
    <2>8. OwnOf(r, s.ns, s.name) = Len(l) + 1
        <3>1. IsOwn(r, Len(l) + 1, s.ns, s.name)
            BY <2>2, <2>5, <2>6 DEF IsOwn
        <3> QED
            BY <2>5, <3>1, OwnIs
    <2>9. ASSUME NEW ns, NEW n, <<ns, n>> # <<s.ns, s.name>>
          PROVE  /\ (OwnOf(r, ns, n) > 0) <=> (OwnOf(l, ns, n) > 0)
                 /\ (OwnOf(l, ns, n) > 0 => r[OwnOf(r, ns, n)].values = l[OwnOf(l, ns, n)].values)
        <3>1. CASE OwnOf(l, ns, n) = 0
            <4>1. \A i : ~IsOwn(r, i, ns, n)
                <5> SUFFICES ASSUME NEW i, IsOwn(r, i, ns, n) PROVE FALSE
                    OBVIOUS
                <5>1. i \in 1..Len(l) \/ i = Len(l) + 1
                    BY <2>5, <2>6 DEF IsOwn
                <5>2. i \in 1..Len(l) => IsOwn(l, i, ns, n)
                    BY <2>5 DEF IsOwn
                <5>3. i # Len(l) + 1
                    BY <2>2, <2>5, <2>9 DEF IsOwn
                <5> QED
                    BY <3>1, <5>1, <5>2, <5>3, OwnFound
            <4>2. OwnOf(r, ns, n) = 0
                BY <2>5, <4>1, OwnFound
            <4> QED
                BY <3>1, <4>2
        <3>2. CASE OwnOf(l, ns, n) # 0
            <4>1. IsOwn(l, OwnOf(l, ns, n), ns, n)
                BY <3>2, OwnFound
            <4>2. IsOwn(r, OwnOf(l, ns, n), ns, n) /\ r[OwnOf(l, ns, n)] = l[OwnOf(l, ns, n)] /\ OwnOf(l, ns, n) > 0
                BY <2>5, <2>6, <4>1 DEF IsOwn
            <4>3. OwnOf(r, ns, n) = OwnOf(l, ns, n)
                BY <2>5, <4>2, OwnIs
            <4> QED
                BY <4>2, <4>3
        <3> QED
            BY <3>1, <3>2
    <2>10. OwnOf(r, s.ns, s.name) > 0 /\ r[OwnOf(r, s.ns, s.name)].values = s.values
        BY <2>2, <2>5, <2>6, <2>8
    <2>11. Facts
        BY <2>5, <2>6, <2>7, <2>9, <2>10
    <2> QED
        BY <2>11 DEF r
<1> QED
    BY <1>2, <1>3

LEMMA ChangedFollows ==
    ASSUME NEW l \in Lists, Clear(l), NEW s \in Changes, NEW p \in {0, 1}
    PROVE  Follows(l, Changed(l, s, p), p)
<1>1. CASE DefaultOf(l, s.name) = 0
    BY <1>1, NewDefaultFollows DEF Changed
<1>2. CASE DefaultOf(l, s.name) # 0 /\ s.ns = NoNamespace
    BY <1>2, ChangeDefaultFollows DEF Changed
<1>3. CASE DefaultOf(l, s.name) # 0 /\ s.ns # NoNamespace
    <2> DEFINE r == ChangeOwn(l, s, p)
    <2>1. /\ r \in Lists /\ Clear(r) /\ NamesOf(r) = NamesOf(l)
          /\ \A n \in NamesOf(l) : r[DefaultOf(r, n)] = l[DefaultOf(l, n)]
        BY <1>3, ChangeOwnIs
    <2> HIDE DEF r
    <2>2. Follows(l, r, p)
        BY <2>1 DEF Follows, Prior, Shown
    <2> QED
        BY <1>3, <2>2 DEF Changed, r
<1> QED
    BY <1>1, <1>2, <1>3

---------------------------------------------------------------------------
(* Many changes *)

ClearLists == {l \in Lists : Clear(l)}

LEMMA FollowsSelf == ASSUME NEW l \in ClearLists, NEW p PROVE Follows(l, l, p)
BY DEF ClearLists, Follows

LEMMA FollowsOn ==
    ASSUME NEW l, NEW m, NEW r, NEW p \in {0, 1}, Follows(l, m, p), Follows(m, r, p)
    PROVE  Follows(l, r, p)
<1>1. \A n : Prior(l, n) => Prior(r, n) /\ (p = 0 => Shown(r, n) = Shown(l, n))
    BY DEF Follows
<1>2. ASSUME p = 1, NEW n \in NamesOf(r) PROVE Prior(r, n) \/ (n \in NamesOf(l) /\ Shown(r, n) = Shown(l, n))
    <2>1. Prior(r, n) \/ (n \in NamesOf(m) /\ Shown(r, n) = Shown(m, n))
        BY <1>2 DEF Follows
    <2>2. n \in NamesOf(m) => Prior(m, n) \/ (n \in NamesOf(l) /\ Shown(m, n) = Shown(l, n))
        BY <1>2 DEF Follows
    <2>3. Prior(m, n) => Prior(r, n)
        BY DEF Follows
    <2> QED
        BY <2>1, <2>2, <2>3
<1> QED
    BY <1>1, <1>2 DEF Follows

\* One change after the other, each on what the one before it left.
LEMMA StepsFollow ==
    ASSUME NEW l \in ClearLists, NEW n \in Nat, NEW p \in {0, 1}, NEW d \in [(1..n) \X ClearLists -> ClearLists],
           \A i \in 1..n : \A m \in ClearLists : Follows(m, d[<<i, m>>], p),
           NEW f, f[0] = l, \A i \in 1..n : f[i - 1] \in ClearLists => f[i] = d[<<i, f[i - 1]>>]
    PROVE  f[n] \in ClearLists /\ Follows(l, f[n], p)
<1> DEFINE S == {m \in Nat : m <= n => f[m] \in ClearLists /\ Follows(l, f[m], p)}
<1>1. 0 \in S
    BY FollowsSelf
<1>2. ASSUME NEW m \in Nat, m \in S, m + 1 <= n PROVE f[m + 1] \in ClearLists /\ Follows(l, f[m + 1], p)
    <2>1. m + 1 \in 1..n /\ (m + 1) - 1 = m /\ m \in 0..n /\ m <= n
        BY <1>2
    <2>2. f[m] \in ClearLists /\ Follows(l, f[m], p)
        BY <1>2, <2>1
    <2>3. f[m + 1] = d[<<m + 1, f[m]>>]
        BY <2>1, <2>2
    <2>4. f[m + 1] \in ClearLists /\ Follows(f[m], f[m + 1], p)
        BY <2>1, <2>2, <2>3
    <2> QED
        BY <2>2, <2>4, FollowsOn
<1>3. \A m \in Nat : m \in S => m + 1 \in S
    BY <1>2
<1> HIDE DEF S
<1>4. n \in S
    BY <1>1, <1>3, SetInduction
<1> QED
    BY <1>4 DEF S

LEMMA ChangedIsClear ==
    ASSUME NEW l \in ClearLists, NEW s \in Changes, NEW p \in {0, 1}
    PROVE  Changed(l, s, p) \in ClearLists /\ Follows(l, Changed(l, s, p), p)
<1>1. l \in Lists /\ Clear(l)
    BY DEF ClearLists
<1>2. Follows(l, Changed(l, s, p), p)
    BY <1>1, ChangedFollows
<1> QED
    BY <1>2 DEF Follows, ClearLists

\* A function on 0..n defined by what step i makes of the value before.
LEMMA StepsExist ==
    ASSUME NEW n \in Nat, NEW a \in ClearLists, NEW d \in [(1..n) \X ClearLists -> ClearLists]
    PROVE  \E f \in [0..n -> ClearLists] : f[0] = a /\ \A i \in 1..n : f[i] = d[<<i, f[i - 1]>>]
<1> DEFINE Upto(m, g) == g \in [0..m -> ClearLists] /\ g[0] = a /\ \A i \in 1..m : g[i] = d[<<i, g[i - 1]>>]
           S == {m \in Nat : m <= n => \E g : Upto(m, g)}
<1>1. 0 \in S
    <2>1. Upto(0, [k \in 0..0 |-> a])
        OBVIOUS
    <2> QED
        BY <2>1
<1>2. \A m \in Nat : m \in S => m + 1 \in S
    <2> SUFFICES ASSUME NEW m \in Nat, m \in S, m + 1 <= n PROVE \E h : Upto(m + 1, h)
        OBVIOUS
    <2>0. PICK g : Upto(m, g)
        OBVIOUS
    <2> DEFINE h == [k \in 0..(m + 1) |-> IF k = m + 1 THEN d[<<m + 1, g[m]>>] ELSE g[k]]
    <2>1. m + 1 \in 1..n /\ g[m] \in ClearLists
        BY <2>0
    <2>2. d[<<m + 1, g[m]>>] \in ClearLists
        BY <2>1
    <2>3. h \in [0..(m + 1) -> ClearLists] /\ h[0] = a
        BY <2>0, <2>2
    <2>4. \A i \in 1..(m + 1) : h[i] = d[<<i, h[i - 1]>>]
        <3> TAKE i \in 1..(m + 1)
        <3>1. i - 1 \in 0..m /\ h[i - 1] = g[i - 1]
            BY <2>0
        <3>2. CASE i = m + 1
            <4>1. i - 1 = m
                BY <3>2
            <4>2. h[m + 1] = d[<<m + 1, g[m]>>]
                OBVIOUS
            <4> HIDE DEF h
            <4> QED
                BY <3>1, <3>2, <4>1, <4>2
        <3>3. CASE i # m + 1
            <4>1. i \in 1..m /\ i \in 0..(m + 1)
                BY <3>3
            <4>2. h[i] = g[i] /\ g[i] = d[<<i, g[i - 1]>>]
                BY <2>0, <3>3, <4>1
            <4> QED
                BY <3>1, <4>2
        <3> QED
            BY <3>2, <3>3
    <2> QED
        BY <2>3, <2>4
<1>3. Nat \subseteq S
    BY <1>1, <1>2, SetInduction
<1> QED
    BY <1>3

LEMMA UpdateFollows ==
    ASSUME NEW l \in ClearLists, NEW file \in Seq(Lines), NEW p \in {0, 1}
    PROVE  Update(l, file, p) \in ClearLists /\ Follows(l, Update(l, file, p), p)
<1> DEFINE new == Parsed(file)
           n == Len(new)
           d == [x \in (1..n) \X ClearLists |-> Changed(x[2], new[x[1]], p)]
           after == CHOOSE f : f = [i \in 0..n |-> IF i = 0 THEN l ELSE Changed(f[i - 1], new[i], p)]
<1>0. l \in ClearLists
    OBVIOUS
<1>1. n \in Nat /\ \A i \in 1..n : new[i] \in Changes
    BY ParsedAreChanges
<1> HIDE DEF new
<1>2. \A i \in 1..n, m \in ClearLists : Changed(m, new[i], p) \in ClearLists /\ Follows(m, Changed(m, new[i], p), p)
    BY <1>1, ChangedIsClear
<1>3. d \in [(1..n) \X ClearLists -> ClearLists]
    BY <1>2
<1>4. \A i \in 1..n, m \in ClearLists : d[<<i, m>>] = Changed(m, new[i], p)
    OBVIOUS
<1> HIDE DEF d, n
<1>5. PICK f \in [0..n -> ClearLists] : f[0] = l /\ \A i \in 1..n : f[i] = d[<<i, f[i - 1]>>]
    BY ZenonT(60), <1>0, <1>1, <1>3, StepsExist
<1>6. f = [i \in 0..n |-> IF i = 0 THEN l ELSE Changed(f[i - 1], new[i], p)]
    <2>1. ASSUME NEW i \in 0..n PROVE f[i] = IF i = 0 THEN l ELSE Changed(f[i - 1], new[i], p)
        <3>1. CASE i = 0
            BY <1>5, <3>1
        <3>2. CASE i # 0
            <4>1. i \in 1..n /\ i - 1 \in 0..n
                BY <1>1, <3>2
            <4> QED
                BY <1>4, <1>5, <3>2, <4>1
        <3> QED
            BY <3>1, <3>2
    <2> QED
        BY <1>5, <2>1
<1>7. after = [i \in 0..n |-> IF i = 0 THEN l ELSE Changed(after[i - 1], new[i], p)]
    BY <1>6
<1> HIDE DEF after
<1>8. Update(l, file, p) = after[n]
    BY Zenon DEF Update, after, n, new
<1>9. after[0] = l /\ \A i \in 1..n : after[i] = Changed(after[i - 1], new[i], p)
    BY <1>1, <1>7
<1>10. \A i \in 1..n : after[i - 1] \in ClearLists => after[i] = d[<<i, after[i - 1]>>]
    BY <1>4, <1>9
<1>11. \A i \in 1..n : \A m \in ClearLists : Follows(m, d[<<i, m>>], p)
    BY <1>2, <1>4
<1>12. after[n] \in ClearLists /\ Follows(l, after[n], p)
    BY <1>0, <1>1, <1>3, <1>9, <1>10, <1>11, StepsFollow
<1> QED
    BY <1>8, <1>12

\* The line a setting is written down in, and what it is parsed to.
LEMMA LineIsFile ==
    ASSUME NEW ns \in Texts, NEW name \in Texts, NEW value \in Texts
    PROVE  Line(ns, name, value) \in Seq(Lines)
<1> DEFINE text == IF ns = NoNamespace THEN name ELSE ns \o <<Underscore>> \o name
           values == [i \in 1..Len(value) |-> <<value[i]>>]
<1>1. text \in Texts
    BY FilesAssumption DEF Texts
<1>2. values \in Seq(Texts)
    BY DEF Texts
<1> HIDE DEF text, values
<1>3. [text |-> text, values |-> values] \in Lines
    BY <1>1, <1>2 DEF Lines
<1> QED
    BY <1>3 DEF Line, text, values

LEMMA OverwriteFollows ==
    ASSUME NEW l \in ClearLists, NEW ns \in Texts, NEW name \in Texts, NEW value \in Texts
    PROVE  Overwrite(l, ns, name, value) \in ClearLists /\ Follows(l, Overwrite(l, ns, name, value), 1)
<1>1. Line(ns, name, value) \in Seq(Lines)
    BY LineIsFile
<1> QED
    BY <1>1, UpdateFollows DEF Overwrite

---------------------------------------------------------------------------
(* The invariant *)

LEMMA LoadFollows ==
    ASSUME settings \in ClearLists, NEW file \in Seq(Entries), Load(file)
    PROVE  settings' \in ClearLists /\ Follows(settings, settings', 1)
<1> DEFINE new == Parsed(file)
           n == Len(new)
           One(l, i) == Overwrite(l, NoNamespace, new[i].name, new[i].values[1])
           d == [x \in (1..n) \X ClearLists |-> One(x[2], x[1])]
           after == CHOOSE f : f = [i \in 0..n |-> IF i = 0 THEN settings ELSE One(f[i - 1], i)]
<1>0. settings \in ClearLists
    OBVIOUS
<1>1. n \in Nat /\ \A i \in 1..n : new[i].name \in Texts /\ new[i].values[1] \in Texts
    <2>1. file \in Seq(Lines)
        BY EntriesAreLines
    <2>2. /\ new \in Seq(Changes) /\ n \in Nat /\ n <= Len(file)
          /\ \A i \in 1..n : new[i].values = file[i].values
        BY <2>1, ParsedAreChanges
    <2> HIDE DEF new
    <2>3. \A i \in 1..n : new[i] \in Changes /\ file[i] \in Entries
        BY <2>2
    <2>4. \A i \in 1..n : new[i].name \in Texts
        BY <2>3 DEF Changes, SettingValues
    <2>5. \A i \in 1..n : file[i].values \in Seq(Texts) /\ file[i].values # <<>>
        BY <2>3 DEF Entries
    <2>6. \A i \in 1..n : new[i].values[1] \in Texts
        BY <2>2, <2>5
    <2> QED
        BY <2>2, <2>4, <2>6
<1> HIDE DEF new
<1>2. \A i \in 1..n, l \in ClearLists : One(l, i) \in ClearLists /\ Follows(l, One(l, i), 1)
    <2>1. NoNamespace \in Texts
        BY DEF NoNamespace, Texts
    <2> QED
        BY <1>1, <2>1, OverwriteFollows
<1> HIDE DEF One
<1>3. d \in [(1..n) \X ClearLists -> ClearLists]
    BY <1>2
<1>4. \A i \in 1..n, l \in ClearLists : d[<<i, l>>] = One(l, i)
    OBVIOUS
<1> HIDE DEF d, n
<1>5. PICK f \in [0..n -> ClearLists] : f[0] = settings /\ \A i \in 1..n : f[i] = d[<<i, f[i - 1]>>]
    BY <1>0, <1>1, <1>3, StepsExist
<1>6. f = [i \in 0..n |-> IF i = 0 THEN settings ELSE One(f[i - 1], i)]
    <2>1. ASSUME NEW i \in 0..n PROVE f[i] = IF i = 0 THEN settings ELSE One(f[i - 1], i)
        <3>1. CASE i = 0
            BY <1>5, <3>1
        <3>2. CASE i # 0
            <4>1. i \in 1..n /\ i - 1 \in 0..n
                BY <1>1, <3>2
            <4> QED
                BY <1>4, <1>5, <3>2, <4>1
        <3> QED
            BY <3>1, <3>2
    <2> QED
        BY <1>5, <2>1
<1>7. after = [i \in 0..n |-> IF i = 0 THEN settings ELSE One(after[i - 1], i)]
    BY <1>6
<1> HIDE DEF after
<1>8. settings' = after[n]
    BY Zenon DEF Load, after, n, new, One
<1>9. after[0] = settings /\ \A i \in 1..n : after[i] = One(after[i - 1], i)
    BY <1>1, <1>7
<1>10. \A i \in 1..n : after[i - 1] \in ClearLists => after[i] = d[<<i, after[i - 1]>>]
    BY <1>4, <1>9
<1>11. \A i \in 1..n : \A l \in ClearLists : Follows(l, d[<<i, l>>], 1)
    BY <1>2, <1>4
<1>12. after[n] \in ClearLists /\ Follows(settings, after[n], 1)
    BY <1>0, <1>1, <1>3, <1>9, <1>10, <1>11, StepsFollow
<1> QED
    BY <1>8, <1>12

LEMMA DefaultsAreClear == Parsed(Defaults) \in ClearLists /\ WindowState \in NamesOf(Parsed(Defaults))
<1> DEFINE l == Parsed(Defaults)
<1>1. Defaults \in Seq(Lines)
    BY FilesAssumption, EntriesAreLines
<1>2. l \in Lists /\ l \in Seq(Changes)
    BY <1>1, ParsedAreChanges
<1>3. /\ \A i, j \in 1..Len(l) : l[i].name = l[j].name => i = j
      /\ \A i \in 1..Len(l) : l[i].ns = NoNamespace
      /\ \E i \in 1..Len(l) : l[i].name = WindowState
    BY FilesAssumption
<1> HIDE DEF l
<1>4. \A i \in 1..Len(l) : l[i].default
    BY <1>2 DEF Changes
<1>5. \A i \in 1..Len(l) : IsDefault(l, i, l[i].name)
    BY <1>4 DEF IsDefault
<1>6. Clear(l)
    BY <1>2, <1>3, <1>4, <1>5, ClearIf
<1> QED
    BY <1>2, <1>3, <1>6 DEF ClearLists, NamesOf, l

\* What a name a user chose was set to has the priority of users.
SettingsInv ==
    /\ settings \in ClearLists
    /\ WindowState \in NamesOf(settings)
    /\ \A n \in chosen : Prior(settings, n)

LEMMA ShownIsValue == ASSUME NEW l, NEW n PROVE Values(l, NoNamespace, n) = Shown(l, n)
BY DEF Values, Shown

LEMMA InitHolds == ASSUME Init PROVE SettingsInv
<1>1. PICK file \in UserFiles \cup {<<>>} :
          /\ settings = Update(Parsed(Defaults), file, 1)
          /\ chosen = {n \in NamesOf(settings) : \/ n \notin NamesOf(Parsed(Defaults))
                         \/ Values(Parsed(Defaults), NoNamespace, n) # Values(settings, NoNamespace, n)}
    BY DEF Init
<1>2. file \in Seq(Lines)
    <2>1. UserFiles \subseteq Seq(Entries) /\ <<>> \in Seq(Entries)
        BY FilesAssumption
    <2> QED
        BY <2>1, EntriesAreLines
<1>3. settings \in ClearLists /\ Follows(Parsed(Defaults), settings, 1)
    BY <1>1, <1>2, DefaultsAreClear, UpdateFollows
<1>4. WindowState \in NamesOf(settings)
    BY <1>3, DefaultsAreClear DEF Follows
<1>5. \A n \in chosen : Prior(settings, n)
    BY <1>1, <1>3, ShownIsValue DEF Follows
<1> QED
    BY <1>3, <1>4, <1>5 DEF SettingsInv

LEMMA RegisterFollows ==
    ASSUME SettingsInv, NEW file \in Files, Register(file)
    PROVE  settings' \in ClearLists /\ Follows(settings, settings', 0) /\ chosen' = chosen
<1>1. file \in Seq(Lines) /\ settings \in ClearLists
    BY FilesAssumption, EntriesAreLines DEF SettingsInv
<1> QED
    BY <1>1, UpdateFollows DEF Register

LEMMA StepHolds == ASSUME SettingsInv, [Next]_vars PROVE SettingsInv'
<1>0. settings \in ClearLists /\ WindowState \in NamesOf(settings) /\ \A n \in chosen : Prior(settings, n)
    BY DEF SettingsInv
<1>1. ASSUME NEW file \in Files, Register(file) PROVE SettingsInv'
    BY <1>0, <1>1, RegisterFollows DEF SettingsInv, Follows
<1>2. ASSUME NEW file \in UserFiles, Load(file) PROVE SettingsInv'
    <2>1. settings' \in ClearLists /\ Follows(settings, settings', 1)
        BY <1>0, <1>2, FilesAssumption, LoadFollows
    <2>2. \A n \in NewlyChosen : Prior(settings', n)
        BY <2>1, ShownIsValue DEF NewlyChosen, Follows
    <2>3. chosen' = chosen \cup NewlyChosen
        BY <1>2 DEF Load
    <2> QED
        BY <1>0, <2>1, <2>2, <2>3 DEF SettingsInv, Follows
<1>3. ASSUME NEW w \in Windows, Toggle(w) PROVE SettingsInv'
    <2>1. w \in Texts /\ WindowState \in Texts
        BY WindowsAssumption
    <2>2. <<"none">> \in Texts /\ <<"maximized">> \in Texts
        BY FilesAssumption DEF Texts
    <2>3. \A v \in {<<"none">>, <<"maximized">>} :
             Overwrite(settings, w, WindowState, v) \in ClearLists /\ Follows(settings, Overwrite(settings, w, WindowState, v), 1)
        BY <1>0, <2>1, <2>2, OverwriteFollows
    <2>4. settings' \in ClearLists /\ Follows(settings, settings', 1) /\ chosen' = chosen
        BY <1>3, <2>3 DEF Toggle
    <2> QED
        BY <1>0, <2>4 DEF SettingsInv, Follows
<1>4. CASE UNCHANGED vars
    BY <1>0, <1>4 DEF SettingsInv, vars
<1> QED
    BY <1>1, <1>2, <1>3, <1>4 DEF Next

LEMMA SettingsInvariant == Spec => []SettingsInv
<1>1. Init => SettingsInv
    BY InitHolds
<1>2. SettingsInv /\ [Next]_vars => SettingsInv'
    BY StepHolds
<1> QED
    BY <1>1, <1>2, PTL DEF Spec

---------------------------------------------------------------------------
(* The theorems *)

\* Whatever files come in, in any order: every name has one default and every namespace at most
\* one setting of a name, so that what nh_core_getGlobalConfigSetting() finds first is the only
\* one there is (Config.c).
THEOREM SettingsUnambiguous == Spec => []Unambiguous
<1>1. SettingsInv => Unambiguous
    <2> SUFFICES ASSUME settings \in Lists, Clear(settings) PROVE Unambiguous
        BY DEF SettingsInv, ClearLists
    <2>1. \A i \in 1..Len(settings) : settings[i].priority \in {0, 1}
        <3>1. ASSUME NEW i \in 1..Len(settings) PROVE settings[i] \in SettingValues
            BY DEF Lists
        <3> QED
            BY <3>1 DEF SettingValues
    <2> QED
        BY <2>1 DEF Unambiguous, Clear
<1> QED
    BY <1>1, SettingsInvariant, PTL

\* What a user chose is what everybody gets, whatever file is registered later.
THEOREM ChoicesStand == Spec => ChoiceStands
<1>1. SettingsInv /\ [Next]_vars =>
        [\A f \in Files : Register(f) =>
            \A n \in chosen : Values(settings', NoNamespace, n) = Values(settings, NoNamespace, n)]_vars
    BY RegisterFollows, ShownIsValue DEF SettingsInv, Follows
<1> QED
    BY <1>1, SettingsInvariant, PTL DEF Spec, ChoiceStands

---------------------------------------------------------------------------
(* A window's own setting *)

\* The namespace of a window and the name of its state are read back as they were written.
LEMMA WindowLine ==
    ASSUME NEW w \in Windows
    PROVE  LET t == w \o <<Underscore>> \o WindowState IN
           t \in Texts /\ NamespaceOf(t) = w /\ NameOf(t) = WindowState
<1> DEFINE t == w \o <<Underscore>> \o WindowState
           k == Len(w) + 1
<1>1. /\ w \in Seq(Words) /\ WindowState \in Seq(Words) /\ Underscore \in Words /\ Point \in Words
      /\ ~Contains(w, Underscore) /\ ~Contains(w, Point)
    BY FilesAssumption, WindowsAssumption DEF Texts
<1>2. \A i \in 1..Len(w) : w[i] # Underscore /\ w[i] # Point
    BY <1>1 DEF Contains
<1>3. /\ t \in Seq(Words) /\ Len(t) = Len(w) + 1 + Len(WindowState) /\ Len(w) \in Nat /\ Len(WindowState) \in Nat
      /\ \A i \in 1..Len(w) : t[i] = w[i]
      /\ t[k] = Underscore
      /\ \A i \in 1..Len(WindowState) : t[k + i] = WindowState[i]
    BY <1>1
<1>4. t \in Texts
    BY <1>3 DEF Texts
<1> HIDE DEF t
<1>5. FirstOf(t, Underscore) = k
    <2>1. FirstOf(t, Underscore) \in 0..Len(t)
        BY <1>4, FirstFound
    <2>2. FirstOf(t, Underscore) # 0
        BY <1>3, <1>4, FirstFound
    <2>3. FirstOf(t, Underscore) \in Nat /\ FirstOf(t, Underscore) > 0
        BY <1>3, <2>1, <2>2
    <2>4. t[FirstOf(t, Underscore)] = Underscore /\ \A i \in 1..(FirstOf(t, Underscore) - 1) : t[i] # Underscore
        BY <1>4, <2>3, FirstFound
    <2> DEFINE m == FirstOf(t, Underscore)
    <2> HIDE DEF m
    <2>5. m \in 1..Len(t) /\ t[m] = Underscore /\ \A i \in 1..(m - 1) : t[i] # Underscore
        BY <1>3, <2>1, <2>3, <2>4 DEF m
    <2>6. ~(m > k)
        BY <1>3, <2>5
    <2>7. ~(m < k)
        BY <1>2, <1>3, <2>5
    <2>8. m = k
        BY <1>3, <2>5, <2>6, <2>7
    <2> QED
        BY <2>8 DEF m
<1>6. Underscore # Point
    BY Zenon DEF Underscore, Point
<1>7. HasNamespace(t)
    <2>1. ~Contains(SubSeq(t, 1, k), Point)
        <3>1. Len(SubSeq(t, 1, k)) = k /\ \A i \in 1..k : SubSeq(t, 1, k)[i] = t[i]
            BY <1>3
        <3>2. \A i \in 1..k : t[i] # Point
            BY <1>2, <1>3, <1>6
        <3> QED
            BY <3>1, <3>2 DEF Contains
    <2> QED
        BY <1>3, <1>5, <2>1 DEF HasNamespace
<1>8. SubSeq(t, 1, k - 1) = w
    <2>1. Len(SubSeq(t, 1, k - 1)) = Len(w) /\ \A i \in 1..Len(w) : SubSeq(t, 1, k - 1)[i] = t[i]
        BY <1>3
    <2>2. SubSeq(t, 1, k - 1) \in Seq(Words)
        BY <1>3, SubSeqProperties
    <2> QED
        BY <1>1, <1>3, <2>1, <2>2
<1>9. SubSeq(t, k + 1, Len(t)) = WindowState
    <2>1. /\ Len(SubSeq(t, k + 1, Len(t))) = Len(WindowState)
          /\ \A i \in 1..Len(WindowState) : SubSeq(t, k + 1, Len(t))[i] = t[k + i]
        BY <1>3
    <2>2. SubSeq(t, k + 1, Len(t)) \in Seq(Words)
        BY <1>3, SubSeqProperties
    <2> QED
        BY <1>1, <1>3, <2>1, <2>2, SMTT(40)
<1>10. NamespaceOf(t) = w /\ NameOf(t) = WindowState
    BY <1>5, <1>7, <1>8, <1>9 DEF NamespaceOf, NameOf
<1> QED
    BY <1>4, <1>10 DEF t

\* One change of one setting.
LEMMA OneSetting ==
    ASSUME NEW l \in ClearLists, NEW w \in Windows, NEW value \in Texts
    PROVE  Overwrite(l, w, WindowState, value) =
               Changed(l, [ns |-> w, name |-> WindowState, values |-> [i \in 1..Len(value) |-> <<value[i]>>],
                           priority |-> 0, default |-> TRUE], 1)
<1> DEFINE t == w \o <<Underscore>> \o WindowState
           values == [i \in 1..Len(value) |-> <<value[i]>>]
           file == Line(w, WindowState, value)
           s == [ns |-> w, name |-> WindowState, values |-> values, priority |-> 0, default |-> TRUE]
<1>1. t \in Texts /\ NamespaceOf(t) = w /\ NameOf(t) = WindowState
    BY WindowLine
<1>2. w # NoNamespace /\ Contains(WindowState, Point)
    BY WindowsAssumption
<1>3. file = <<[text |-> t, values |-> values]>>
    BY <1>2 DEF Line
<1> HIDE DEF t, values
<1>4. Len(file) = 1 /\ file[1].text = t /\ file[1].values = values
    BY <1>3
<1>5. Setting(file[1]) = s
    BY <1>1, <1>4 DEF Setting
<1>6. Parsed(file) = [i \in 1..1 |-> s]
    <2> DEFINE I == {i \in 1..Len(file) : ~Contains(NameOf(file[i].text), Point)}
    <2>1. I = {}
        BY <1>1, <1>2, <1>4
    <2>2. Parsed(file) = [i \in 1..(IF (IF I # {} THEN Min(I) ELSE 0) = 0
                                    THEN Len(file) ELSE (IF I # {} THEN Min(I) ELSE 0) - 1) |-> Setting(file[i])]
        BY DEF Parsed, SelectInSeq
    <2>3. Parsed(file) = [i \in 1..1 |-> Setting(file[i])]
        BY <1>4, <2>1, <2>2
    <2> QED
        BY <1>5, <2>3
<1>7. Len(Parsed(file)) = 1 /\ Parsed(file)[1] = s
    BY <1>6
<1> HIDE DEF s, file
<1> DEFINE n == Len(Parsed(file))
           after == CHOOSE f : f = [i \in 0..n |-> IF i = 0 THEN l ELSE Changed(f[i - 1], Parsed(file)[i], 1)]
<1>8. after = [i \in 0..n |-> IF i = 0 THEN l ELSE Changed(after[i - 1], Parsed(file)[i], 1)]
    <2> DEFINE f == [i \in 0..1 |-> IF i = 0 THEN l ELSE Changed(l, s, 1)]
    <2>1. f = [i \in 0..n |-> IF i = 0 THEN l ELSE Changed(f[i - 1], Parsed(file)[i], 1)]
        BY <1>7
    <2> HIDE DEF f, n
    <2> QED
        BY <2>1
<1> HIDE DEF after
<1>9. after[1] = Changed(l, s, 1)
    BY <1>7, <1>8
<1>10. Overwrite(l, w, WindowState, value) = after[n]
    BY Zenon DEF Overwrite, Update, after, n, file
<1> QED
    BY <1>7, <1>9, <1>10 DEF s, values

LEMMA ToggleIs ==
    ASSUME SettingsInv, NEW w \in Windows, NEW value \in Texts,
           settings' = Overwrite(settings, w, WindowState, value)
    PROVE  /\ Values(settings', w, WindowState) = [i \in 1..Len(value) |-> <<value[i]>>]
           /\ \A v \in Windows, n \in NamesOf(settings) :
                 <<v, n>> # <<w, WindowState>> => Values(settings', v, n) = Values(settings, v, n)
<1> DEFINE s == [ns |-> w, name |-> WindowState, values |-> [i \in 1..Len(value) |-> <<value[i]>>],
                 priority |-> 0, default |-> TRUE]
           r == ChangeOwn(settings, s, 1)
<1>1. settings \in ClearLists /\ settings \in Lists /\ Clear(settings) /\ WindowState \in NamesOf(settings)
    BY DEF SettingsInv, ClearLists
<1>2. w # NoNamespace /\ w \in Texts /\ WindowState \in Texts
    BY WindowsAssumption
<1>3. s \in Changes
    <2>1. [i \in 1..Len(value) |-> <<value[i]>>] \in Seq(Texts)
        BY DEF Texts
    <2> QED
        BY <1>2, <2>1 DEF Changes, SettingValues
<1>4. s.ns = w /\ s.name = WindowState /\ s.values = [i \in 1..Len(value) |-> <<value[i]>>]
    OBVIOUS
<1>5. settings' = Changed(settings, s, 1)
    BY <1>1, OneSetting
<1> HIDE DEF s
<1>6. DefaultOf(settings, s.name) # 0
    BY <1>1, <1>4, NameHasDefault DEF IsDefault
<1>7. settings' = r
    BY <1>2, <1>4, <1>5, <1>6 DEF Changed
<1>8. /\ \A n \in NamesOf(settings) : r[DefaultOf(r, n)] = settings[DefaultOf(settings, n)]
      /\ OwnOf(r, s.ns, s.name) > 0 /\ r[OwnOf(r, s.ns, s.name)].values = s.values
      /\ \A ns, n : <<ns, n>> # <<s.ns, s.name>> =>
            /\ (OwnOf(r, ns, n) > 0) <=> (OwnOf(settings, ns, n) > 0)
            /\ (OwnOf(settings, ns, n) > 0 => r[OwnOf(r, ns, n)].values = settings[OwnOf(settings, ns, n)].values)
    BY <1>1, <1>2, <1>3, <1>4, <1>6, ChangeOwnIs
<1> HIDE DEF r
<1>9. Values(settings', w, WindowState) = [i \in 1..Len(value) |-> <<value[i]>>]
    BY <1>2, <1>4, <1>7, <1>8 DEF Values
<1>10. ASSUME NEW v \in Windows, NEW n \in NamesOf(settings), <<v, n>> # <<w, WindowState>>
       PROVE  Values(settings', v, n) = Values(settings, v, n)
    BY <1>4, <1>7, <1>8, <1>10 DEF Values
<1> QED
    BY <1>9, <1>10

LEMMA OneWord ==
    ASSUME NEW a, NEW b
    PROVE  Contains([i \in 1..Len(<<a>>) |-> <<<<a>>[i]>>], <<b>>) <=> a = b
<1> DEFINE s == [i \in 1..Len(<<a>>) |-> <<<<a>>[i]>>]
<1>1. Len(s) = 1 /\ s[1] = <<a>>
    OBVIOUS
<1> HIDE DEF s
<1>2. Contains(s, <<b>>) <=> <<a>> = <<b>>
    BY <1>1 DEF Contains
<1> QED
    BY <1>2 DEF s

\* A window that is toggled goes from maximized to not, or back, and no other window, nor any other
\* setting of a window, has other values than before (nh_wsi_toggleWindowSize()).
THEOREM WindowsKeepTheirState == Spec => OwnState
<1> DEFINE Own(w) == /\ Maximized(w)' # Maximized(w)
                     /\ \A v \in Windows, n \in NamesOf(settings) :
                           <<v, n>> # <<w, WindowState>> => Values(settings', v, n) = Values(settings, v, n)
           Given(value) == [i \in 1..Len(value) |-> <<value[i]>>]
<1>1. ASSUME SettingsInv, NEW w \in Windows, Toggle(w) PROVE Own(w)
    <2>1. <<"none">> \in Texts /\ <<"maximized">> \in Texts
        BY FilesAssumption DEF Texts
    <2>2. Contains(Given(<<"maximized">>), <<"maximized">>)
        BY OneWord
    <2>3. ~Contains(Given(<<"none">>), <<"maximized">>)
        <3>1. "none" # "maximized"
            BY Zenon
        <3> QED
            BY <3>1, OneWord
    <2>4. CASE Maximized(w)
        <3>1. settings' = Overwrite(settings, w, WindowState, <<"none">>)
            BY <1>1, <2>4 DEF Toggle
        <3>2. Values(settings', w, WindowState) = Given(<<"none">>) /\ Own(w)!2
            BY <1>1, <2>1, <3>1, ToggleIs
        <3>3. ~Maximized(w)'
            BY <2>3, <3>2 DEF Maximized
        <3> QED
            BY <2>4, <3>2, <3>3
    <2>5. CASE ~Maximized(w)
        <3>1. settings' = Overwrite(settings, w, WindowState, <<"maximized">>)
            BY <1>1, <2>5 DEF Toggle
        <3>2. Values(settings', w, WindowState) = Given(<<"maximized">>) /\ Own(w)!2
            BY <1>1, <2>1, <3>1, ToggleIs
        <3>3. Maximized(w)'
            BY <2>2, <3>2 DEF Maximized
        <3> QED
            BY <2>5, <3>2, <3>3
    <2> QED
        BY <2>4, <2>5
<1>2. SettingsInv /\ [Next]_vars => [\A w \in Windows : Toggle(w) => Own(w)]_vars
    BY <1>1
<1> QED
    BY <1>2, SettingsInvariant, PTL DEF Spec, OwnState
=============================================================================
