--------------------------- MODULE ForkTableProofs ---------------------------
(***************************************************************************)
(* The count of the fork table is that of its entries, in every process,   *)
(* for any number of processes and entries.                                *)
(***************************************************************************)
EXTENDS ForkTable, FiniteSetTheorems, TLAPS

\* The entries of a table that are in use: Busy(p) is Used(table[p]).
Used(t) == {s \in Slots : t[s].id # 0}

LEMMA UsedFacts ==
    ASSUME NEW t
    PROVE  IsFiniteSet(Used(t)) /\ Cardinality(Used(t)) \in 0..MaxForks
<1>1. IsFiniteSet(Slots) /\ Cardinality(Slots) = MaxForks
    <2>1. 1 \in Int /\ MaxForks \in Int /\ MaxForks >= 1
        BY ForkAssumption
    <2>2. IsFiniteSet(1..MaxForks) /\ Cardinality(1..MaxForks) = IF 1 > MaxForks THEN 0 ELSE MaxForks - 1 + 1
        BY <2>1, FS_Interval
    <2> QED
        BY <2>1, <2>2 DEF Slots
<1>2. Used(t) \in SUBSET Slots
    BY DEF Used
<1>3. IsFiniteSet(Used(t)) /\ Cardinality(Used(t)) <= MaxForks
    BY <1>1, <1>2, FS_Subset
<1>4. Cardinality(Used(t)) \in Nat
    BY <1>3, FS_CardinalityType
<1> QED
    BY <1>3, <1>4, ForkAssumption

LEMMA Taken ==
    ASSUME NEW t, NEW s \in Slots \ Used(t), NEW u, u[s].id # 0, \A r \in Slots : r # s => u[r] = t[r]
    PROVE  Cardinality(Used(u)) = Cardinality(Used(t)) + 1
<1>1. Used(u) = Used(t) \cup {s} /\ s \notin Used(t)
    BY DEF Used
<1> QED
    BY <1>1, UsedFacts, FS_AddElement

LEMMA GivenBack ==
    ASSUME NEW t, NEW S \in SUBSET Used(t), NEW u, u = [s \in Slots |-> IF s \in S THEN Empty ELSE t[s]]
    PROVE  Cardinality(Used(u)) = Cardinality(Used(t)) - Cardinality(S)
<1>1. Used(u) = Used(t) \ S
    BY DEF Used, Empty
<1>2. Used(t) \cap S = S
    OBVIOUS
<1> QED
    BY <1>1, <1>2, UsedFacts, FS_Difference, ZenonT(60)

LEMMA CountOf ==
    ASSUME CountMatches, NEW p \in Procs, init[p]
    PROVE  forks[p] = Cardinality(Used(table[p]))
<1>1. Busy(p) = Used(table[p])
    BY DEF Busy, Used
<1> QED
    BY <1>1 DEF CountMatches

LEMMA CountsAgree ==
    ASSUME \A p \in Procs : init'[p] => forks'[p] = Cardinality(Used(table'[p]))
    PROVE  CountMatches'
<1> SUFFICES ASSUME NEW p \in Procs, init'[p] PROVE forks'[p] = Cardinality(Busy(p))'
    BY DEF CountMatches
<1>1. Busy(p)' = Used(table'[p])
    BY DEF Busy, Used
<1> QED
    BY <1>1

LEMMA ForkStarts == Init => CountInv
BY ForkAssumption DEF Init, CountInv, TypeOK, CountMatches, Procs, Slots, Main, Empty

LEMMA PoolKeeps == ASSUME CountInv, InitPool \/ FreePool PROVE CountInv'
<1>1. CASE InitPool
    <2>1. DOMAIN table' = Procs /\ \A p \in Procs : table'[p] = IF p = Main THEN [s \in Slots |-> Empty] ELSE table[p]
        BY <1>1 DEF InitPool, CountInv, TypeOK
    <2>2. /\ Main \in Procs /\ 0 \in 0..MaxForks /\ forks' = [forks EXCEPT ![Main] = 0]
          /\ init' = [init EXCEPT ![Main] = TRUE] /\ UNCHANGED <<life, parent, scan>>
        BY <1>1, ForkAssumption DEF InitPool, kernel, Procs, Main
    <2>3. TypeOK'
        BY <2>1, <2>2, ForkAssumption DEF CountInv, TypeOK, Empty
    <2>4. Used([s \in Slots |-> Empty]) = {} /\ Cardinality({}) = 0
        BY FS_EmptySet DEF Used, Empty
    <2>5. CountMatches'
        <3> SUFFICES ASSUME NEW p \in Procs, init'[p] PROVE forks'[p] = Cardinality(Used(table'[p]))
            BY CountsAgree
        <3>1. CASE p = Main
            BY <2>1, <2>2, <2>4, <3>1 DEF CountInv, TypeOK
        <3>2. CASE p # Main
            BY <2>1, <2>2, <3>2, CountOf DEF CountInv, TypeOK
        <3> QED
            BY <3>1, <3>2
    <2> QED
        BY <2>2, <2>3, <2>5 DEF CountInv, TypeOK
<1>2. CASE FreePool
    <2>1. init' = [init EXCEPT ![Main] = FALSE] /\ scan[Main] = 0 /\ UNCHANGED <<life, parent, forks, table, scan>>
        BY <1>2 DEF FreePool, Idle, kernel
    <2>2. TypeOK'
        BY <2>1 DEF CountInv, TypeOK
    <2> QED
        BY <2>1, <2>2 DEF CountInv, TypeOK, CountMatches, Busy
<1> QED
    BY <1>1, <1>2

\* What any fork does to the table and the count of the process p.
LEMMA TakesOne ==
    ASSUME CountInv, NEW p \in Procs, CanFork(p), NEW s \in First(Slots \ Busy(p)), NEW e, e.id \in -1..N, e.id # 0
    PROVE  LET new == [table[p] EXCEPT ![s] = e] IN
           /\ DOMAIN new = Slots /\ \A r \in Slots : new[r].id \in -1..N
           /\ Cardinality(Used(new)) = forks[p] + 1
           /\ forks[p] + 1 \in 0..MaxForks
<1> DEFINE new == [table[p] EXCEPT ![s] = e]
<1>1. /\ s \in Slots \ Used(table[p]) /\ init[p] /\ forks[p] # MaxForks /\ forks[p] \in 0..MaxForks
      /\ forks[p] = Cardinality(Used(table[p]))
      /\ DOMAIN table[p] = Slots /\ \A r \in Slots : table[p][r].id \in -1..N
    BY DEF First, CanFork, Idle, CountInv, TypeOK, CountMatches, Busy, Used
<1>2. DOMAIN new = Slots /\ new[s] = e /\ \A r \in Slots : r # s => new[r] = table[p][r]
    BY <1>1
<1>3. Cardinality(Used(new)) = Cardinality(Used(table[p])) + 1
    BY <1>1, <1>2, Taken
<1> QED
    BY <1>1, <1>2, <1>3, ForkAssumption

LEMMA ForkChildKeeps == ASSUME CountInv, NEW p \in Procs, ForkChild(p) PROVE CountInv'
<1>1. PICK q \in First(Unborn), s \in First(Slots \ Busy(p)) :
        /\ life' = [life EXCEPT ![q] = "running"] /\ parent' = [parent EXCEPT ![q] = p]
        /\ table' = [table EXCEPT ![p] = [table[p] EXCEPT ![s] = Entry(Pipes(p), q)],
                                  ![q] = [table[p] EXCEPT ![s] = Entry(Pipes(p), q)]]
        /\ forks' = [forks EXCEPT ![p] = @ + 1, ![q] = forks[p] + 1]
        /\ init' = [init EXCEPT ![q] = TRUE]
        /\ UNCHANGED scan
    BY Zenon DEF ForkChild
<1> DEFINE new == [table[p] EXCEPT ![s] = Entry(Pipes(p), q)]
<1>2. q \in Procs /\ q # p /\ CanFork(p) /\ life[p] = "running"
    BY <1>1 DEF First, Unborn, ForkChild, CanFork, Idle
<1>3. Entry(Pipes(p), q).id \in -1..N /\ Entry(Pipes(p), q).id # 0
    BY <1>2 DEF Entry, Procs
<1>4. /\ DOMAIN new = Slots /\ \A r \in Slots : new[r].id \in -1..N
      /\ Cardinality(Used(new)) = forks[p] + 1 /\ forks[p] + 1 \in 0..MaxForks
    BY <1>2, <1>3, TakesOne
<1>5. DOMAIN table' = Procs /\ \A r \in Procs : table'[r] = IF r \in {p, q} THEN new ELSE table[r]
    BY <1>1, <1>2 DEF CountInv, TypeOK
<1>6. forks' \in [Procs -> 0..MaxForks] /\ \A r \in Procs : forks'[r] = IF r \in {p, q} THEN forks[p] + 1 ELSE forks[r]
    BY <1>1, <1>2, <1>4 DEF CountInv, TypeOK
<1>7. TypeOK'
    <2>1. life' \in [Procs -> {"none", "running", "exited", "killed", "gone"}] /\ parent' \in [Procs -> Procs \cup {0}]
        BY <1>1, <1>2 DEF CountInv, TypeOK
    <2>2. init' \in [Procs -> BOOLEAN] /\ scan' \in [Procs -> 0..MaxForks]
        BY <1>1, <1>2 DEF CountInv, TypeOK
    <2>3. \A r \in Procs : DOMAIN table'[r] = Slots /\ \A n \in Slots : table'[r][n].id \in -1..N
        BY <1>4, <1>5 DEF CountInv, TypeOK
    <2> QED
        BY <1>5, <1>6, <2>1, <2>2, <2>3 DEF TypeOK
<1>8. CountMatches'
    <2> SUFFICES ASSUME NEW r \in Procs, init'[r] PROVE forks'[r] = Cardinality(Used(table'[r]))
        BY CountsAgree
    <2>1. CASE r \in {p, q}
        BY <1>4, <1>5, <1>6, <2>1
    <2>2. CASE r \notin {p, q}
        <3>1. init[r]
            BY <1>1, <2>2 DEF CountInv, TypeOK
        <3> QED
            BY <1>5, <1>6, <2>2, <3>1, CountOf DEF CountInv
    <2> QED
        BY <2>1, <2>2
<1>9. \A r \in Procs : scan'[r] # 0 => init'[r]
    BY <1>1, <1>2 DEF CountInv, TypeOK
<1> QED
    BY <1>7, <1>8, <1>9 DEF CountInv

LEMMA ForkFailsKeeps == ASSUME CountInv, NEW p \in Procs, ForkFails(p) PROVE CountInv'
<1>1. PICK s \in First(Slots \ Busy(p)) : table' = [table EXCEPT ![p] = [table[p] EXCEPT ![s] = Entry(Pipes(p), -1)]]
    BY DEF ForkFails
<1> DEFINE new == [table[p] EXCEPT ![s] = Entry(Pipes(p), -1)]
<1>2. forks' = [forks EXCEPT ![p] = @ + 1] /\ CanFork(p) /\ UNCHANGED <<life, parent, init, scan>>
    BY DEF ForkFails
<1>3. Entry(Pipes(p), -1).id \in -1..N /\ Entry(Pipes(p), -1).id # 0
    BY ForkAssumption DEF Entry
<1>4. /\ DOMAIN new = Slots /\ \A r \in Slots : new[r].id \in -1..N
      /\ Cardinality(Used(new)) = forks[p] + 1 /\ forks[p] + 1 \in 0..MaxForks
    BY <1>2, <1>3, TakesOne
<1>5. DOMAIN table' = Procs /\ \A r \in Procs : table'[r] = IF r = p THEN new ELSE table[r]
    BY <1>1 DEF CountInv, TypeOK
<1>6. forks' \in [Procs -> 0..MaxForks] /\ \A r \in Procs : forks'[r] = IF r = p THEN forks[p] + 1 ELSE forks[r]
    BY <1>2, <1>4 DEF CountInv, TypeOK
<1>7. \A r \in Procs : DOMAIN table'[r] = Slots /\ \A n \in Slots : table'[r][n].id \in -1..N
    BY <1>4, <1>5 DEF CountInv, TypeOK
<1>8. TypeOK'
    BY <1>2, <1>5, <1>6, <1>7 DEF CountInv, TypeOK
<1>9. CountMatches'
    <2> SUFFICES ASSUME NEW r \in Procs, init'[r] PROVE forks'[r] = Cardinality(Used(table'[r]))
        BY CountsAgree
    <2>1. CASE r = p
        BY <1>4, <1>5, <1>6, <2>1
    <2>2. CASE r # p
        BY <1>2, <1>5, <1>6, <2>2, CountOf DEF CountInv
    <2> QED
        BY <2>1, <2>2
<1> QED
    BY <1>2, <1>8, <1>9 DEF CountInv

\* What nh_unregisterFork() does, for any set of entries that are in use.
LEMMA UnregisterKeeps ==
    ASSUME CountInv, NEW p \in Procs, NEW S \in SUBSET Busy(p), init[p], Unregister(p, S), UNCHANGED init
    PROVE  /\ CountMatches' /\ forks' \in [Procs -> 0..MaxForks] /\ DOMAIN table' = Procs
           /\ \A r \in Procs : DOMAIN table'[r] = Slots /\ \A n \in Slots : table'[r][n].id \in -1..N
<1> DEFINE new == [s \in Slots |-> IF s \in S THEN Empty ELSE table[p][s]]
<1>1. /\ table' = [table EXCEPT ![p] = new] /\ forks' = [forks EXCEPT ![p] = @ - Cardinality(S)]
      /\ S \in SUBSET Used(table[p]) /\ forks[p] = Cardinality(Used(table[p]))
    <2>1. table' = [table EXCEPT ![p] = new] /\ forks' = [forks EXCEPT ![p] = @ - Cardinality(S)]
        BY DEF Unregister
    <2>2. S \in SUBSET Used(table[p])
        BY DEF Busy, Used
    <2>3. forks[p] = Cardinality(Used(table[p]))
        BY CountOf DEF CountInv
    <2> QED
        BY <2>1, <2>2, <2>3
<1>2. Cardinality(Used(new)) = Cardinality(Used(table[p])) - Cardinality(S)
    BY <1>1, GivenBack
<1>3. Cardinality(Used(new)) \in 0..MaxForks
    BY UsedFacts
<1>4. DOMAIN table' = Procs /\ \A r \in Procs : table'[r] = IF r = p THEN new ELSE table[r]
    BY <1>1 DEF CountInv, TypeOK
<1>5. forks' \in [Procs -> 0..MaxForks] /\ \A r \in Procs : forks'[r] = IF r = p THEN Cardinality(Used(new)) ELSE forks[r]
    <2> HIDE DEF new
    <2> QED
        BY <1>1, <1>2, <1>3 DEF CountInv, TypeOK
<1>6. DOMAIN new = Slots /\ \A n \in Slots : new[n].id \in -1..N
    BY ForkAssumption DEF CountInv, TypeOK, Empty
<1>7. \A r \in Procs : DOMAIN table'[r] = Slots /\ \A n \in Slots : table'[r][n].id \in -1..N
    <2> HIDE DEF new
    <2> QED
        BY <1>4, <1>6 DEF CountInv, TypeOK
<1>8. CountMatches'
    <2> SUFFICES ASSUME NEW r \in Procs, init'[r] PROVE forks'[r] = Cardinality(Used(table'[r]))
        BY CountsAgree
    <2>1. CASE r = p
        BY <1>4, <1>5, <2>1
    <2>2. CASE r # p
        BY <1>4, <1>5, <2>2, CountOf DEF CountInv
    <2> QED
        BY <2>1, <2>2
<1> QED
    BY <1>4, <1>5, <1>7, <1>8

LEMMA StartCheckKeeps == ASSUME CountInv, NEW p \in Procs, StartCheck(p) PROVE CountInv'
<1>1. init[p] /\ scan' = [scan EXCEPT ![p] = 1] /\ UNCHANGED <<life, parent, init, forks, table>>
    BY DEF StartCheck, Idle, kernel
<1>2. TypeOK'
    BY <1>1, ForkAssumption DEF CountInv, TypeOK
<1>3. CountMatches'
    BY <1>1 DEF CountInv, CountMatches, Busy
<1> QED
    BY <1>1, <1>2, <1>3 DEF CountInv, TypeOK

LEMMA CheckEntryKeeps == ASSUME CountInv, NEW p \in Procs, CheckEntry(p) PROVE CountInv'
<1>1. /\ init[p] /\ scan[p] \in Slots /\ UNCHANGED <<parent, init>>
      /\ scan' = [scan EXCEPT ![p] = IF @ = MaxForks THEN 0 ELSE @ + 1]
    BY ForkAssumption DEF CheckEntry, CountInv, TypeOK, Slots
<1>2. scan' \in [Procs -> 0..MaxForks] /\ \A r \in Procs : scan'[r] # 0 => init'[r]
    BY <1>1, ForkAssumption DEF CountInv, TypeOK, Slots
<1>3. life' \in [Procs -> {"none", "running", "exited", "killed", "gone"}]
    BY DEF CheckEntry, CountInv, TypeOK
<1>4. \/ UNCHANGED <<table, forks>>
      \/ table[p][scan[p]].id # 0 /\ \E S \in {{}, {scan[p]}} : Unregister(p, S)
    BY Zenon DEF CheckEntry
<1>5. CASE UNCHANGED <<table, forks>>
    <2>1. CountMatches'
        BY <1>1, <1>5 DEF CountInv, CountMatches, Busy
    <2>2. TypeOK'
        BY <1>1, <1>2, <1>3, <1>5 DEF CountInv, TypeOK
    <2> QED
        BY <1>2, <2>1, <2>2 DEF CountInv
<1>6. CASE table[p][scan[p]].id # 0 /\ \E S \in {{}, {scan[p]}} : Unregister(p, S)
    <2>1. PICK S \in {{}, {scan[p]}} : Unregister(p, S)
        BY <1>6
    <2>2. S \in SUBSET Busy(p)
        BY <1>1, <1>6 DEF Busy
    <2>3. /\ CountMatches' /\ forks' \in [Procs -> 0..MaxForks] /\ DOMAIN table' = Procs
          /\ \A r \in Procs : DOMAIN table'[r] = Slots /\ \A n \in Slots : table'[r][n].id \in -1..N
        BY <1>1, <2>1, <2>2, UnregisterKeeps
    <2>4. TypeOK'
        BY <1>1, <1>2, <1>3, <2>3 DEF CountInv, TypeOK
    <2> QED
        BY <1>2, <2>3, <2>4 DEF CountInv
<1> QED
    BY <1>4, <1>5, <1>6

LEMMA KillForksKeeps == ASSUME CountInv, KillForks PROVE CountInv'
<1>1. /\ Main \in Procs /\ init[Main] /\ Unregister(Main, Busy(Main)) /\ UNCHANGED <<life, parent, init, scan>>
    BY ForkAssumption DEF KillForks, Idle, Procs, Main
<1>2. /\ CountMatches' /\ forks' \in [Procs -> 0..MaxForks] /\ DOMAIN table' = Procs
      /\ \A r \in Procs : DOMAIN table'[r] = Slots /\ \A n \in Slots : table'[r][n].id \in -1..N
    BY <1>1, UnregisterKeeps
<1> QED
    BY <1>1, <1>2 DEF CountInv, TypeOK

LEMMA ChildEndsKeeps ==
    ASSUME CountInv, NEW q \in Procs, NEW how \in {"exited", "killed"}, ChildEnds(q, how)
    PROVE  CountInv'
<1>1. /\ scan' = [scan EXCEPT ![q] = 0] /\ init' = [init EXCEPT ![q] = FALSE]
      /\ forks' = [forks EXCEPT ![q] = 0] /\ table' = [table EXCEPT ![q] = [s \in Slots |-> Empty]]
    BY DEF ChildEnds
<1>2. /\ life' \in [Procs -> {"none", "running", "exited", "killed", "gone"}]
      /\ parent' \in [Procs -> Procs \cup {0}]
    BY DEF ChildEnds, CountInv, TypeOK
<1>3. 0 \in 0..MaxForks /\ Empty.id \in -1..N
    BY ForkAssumption DEF Empty
<1>4. TypeOK'
    BY <1>1, <1>2, <1>3 DEF CountInv, TypeOK
<1>5. CountMatches'
    <2> SUFFICES ASSUME NEW r \in Procs, init'[r] PROVE forks'[r] = Cardinality(Used(table'[r]))
        BY CountsAgree
    <2>1. r # q
        BY <1>1 DEF CountInv, TypeOK
    <2> QED
        BY <1>1, <2>1, CountOf DEF CountInv, TypeOK
<1> QED
    BY <1>1, <1>4, <1>5 DEF CountInv, TypeOK

LEMMA ForkSteps == ASSUME CountInv, [Next]_vars PROVE CountInv'
<1>1. CASE UNCHANGED vars
    BY <1>1 DEF vars, kernel, CountInv, TypeOK, CountMatches, Busy
<1>2. CASE Next
    BY <1>2, PoolKeeps, ForkChildKeeps, ForkFailsKeeps, StartCheckKeeps, CheckEntryKeeps, KillForksKeeps,
       ChildEndsKeeps DEF Next, Check
<1> QED
    BY <1>1, <1>2

---------------------------------------------------------------------------
\* The lowest numbers of a set: the n-th of them exists, and different n give different ones.
LEMMA RankIsUnique ==
    ASSUME NEW S \in SUBSET Fds, NEW f \in S, NEW g \in S, f < g
    PROVE  Cardinality({h \in S : h < f}) < Cardinality({h \in S : h < g})
<1> DEFINE A == {h \in S : h < f}  B == {h \in S : h < g}
<1>1. IsFiniteSet(B)
    <2>1. IsFiniteSet(1..MaxFd)
        BY ForkAssumption, FS_Interval
    <2>2. B \in SUBSET (1..MaxFd)
        BY DEF Fds
    <2> QED
        BY <2>1, <2>2, FS_Subset
<1>2. A \in SUBSET B /\ f \in B /\ f \notin A
    <2>1. \A h \in S : h \in Int
        BY ForkAssumption DEF Fds
    <2> QED
        BY <2>1
<1>3. Cardinality(A) <= Cardinality(B) /\ (Cardinality(B) = Cardinality(A) => B = A) /\ IsFiniteSet(A)
    BY <1>1, <1>2, FS_Subset
<1>4. Cardinality(A) \in Nat /\ Cardinality(B) \in Nat
    BY <1>1, <1>3, FS_CardinalityType
<1> QED
    BY <1>2, <1>3, <1>4

LEMMA RankExists ==
    ASSUME NEW S \in SUBSET Fds, NEW n \in 1..Cardinality(S)
    PROVE  \E f \in S : Cardinality({h \in S : h < f}) = n - 1
<1> DEFINE c == Cardinality(S)
           rank == [f \in S |-> Cardinality({h \in S : h < f})]
<1>1. IsFiniteSet(S) /\ c \in Nat
    <2>1. IsFiniteSet(1..MaxFd) /\ S \in SUBSET (1..MaxFd)
        BY ForkAssumption, FS_Interval DEF Fds
    <2> QED
        BY <2>1, FS_Subset, FS_CardinalityType
<1>2. \A f \in S : rank[f] \in 0..(c - 1)
    <2> SUFFICES ASSUME NEW f \in S PROVE Cardinality({h \in S : h < f}) \in 0..(c - 1)
        OBVIOUS
    <2> DEFINE A == {h \in S : h < f}
    <2>1. A \in SUBSET S /\ f \notin A
        BY ForkAssumption DEF Fds
    <2>2. IsFiniteSet(A) /\ Cardinality(A) <= c /\ (c = Cardinality(A) => S = A)
        BY <1>1, <2>1, FS_Subset
    <2>3. Cardinality(A) \in Nat
        BY <2>2, FS_CardinalityType
    <2> QED
        BY <1>1, <2>1, <2>2, <2>3
<1>3. rank \in Injection(S, 0..(c - 1))
    <2>1. \A f, g \in S : f # g => rank[f] # rank[g]
        <3> SUFFICES ASSUME NEW f \in S, NEW g \in S, f < g PROVE rank[f] # rank[g]
            BY ForkAssumption DEF Fds
        <3>1. rank[f] < rank[g] /\ rank[f] \in Int /\ rank[g] \in Int
            BY <1>2, RankIsUnique
        <3> QED
            BY <3>1
    <2>2. rank \in [S -> 0..(c - 1)]
        BY <1>2
    <2> QED
        BY <2>1, <2>2 DEF Injection, IsInjective
<1>4. IsFiniteSet(0..(c - 1)) /\ Cardinality(0..(c - 1)) = c
    <2>1. 0 \in Int /\ c - 1 \in Int
        BY <1>1
    <2>2. IsFiniteSet(0..(c - 1)) /\ Cardinality(0..(c - 1)) = IF 0 > c - 1 THEN 0 ELSE (c - 1) - 0 + 1
        BY <2>1, FS_Interval
    <2> HIDE DEF c
    <2> QED
        BY <1>1, <2>2
<1>5. rank \in Surjection(S, 0..(c - 1))
    BY <1>3, <1>4, FS_Injection
<1>6. n - 1 \in 0..(c - 1)
    BY <1>1
<1>7. \E f \in S : rank[f] = n - 1
    BY <1>5, <1>6 DEF Surjection
<1> QED
    BY <1>7

LEMMA NthFacts ==
    ASSUME NEW S \in SUBSET Fds, NEW n \in 1..Cardinality(S)
    PROVE  Nth(S, n) \in S /\ Cardinality({h \in S : h < Nth(S, n)}) = n - 1
<1>1. \E f \in S : Cardinality({h \in S : h < f}) = n - 1
    BY RankExists
<1> QED
    BY <1>1 DEF Nth

\* pipe() gives numbers that were free, and never one twice.
LEMMA PipesApart ==
    ASSUME NEW p \in Procs, CanFork(p)
    PROVE  /\ Pipes(p).in.w \in Free(p) /\ Pipes(p).out.r \in Free(p)
           /\ Pipes(p).in.w # Pipes(p).out.r
<1>1. Free(p) \in SUBSET Fds /\ 2 \in 1..Cardinality(Free(p)) /\ 3 \in 1..Cardinality(Free(p))
    <2>1. Free(p) \in SUBSET (1..MaxFd) /\ Cardinality(Free(p)) >= 4
        BY DEF CanFork, Free, Fds
    <2>2. Cardinality(Free(p)) \in Nat
        <3>1. IsFiniteSet(1..MaxFd)
            BY ForkAssumption, FS_Interval
        <3>2. IsFiniteSet(Free(p))
            BY <2>1, <3>1, FS_Subset
        <3> QED
            BY <3>2, FS_CardinalityType
    <2> QED
        BY <2>1, <2>2 DEF Fds
<1>2. /\ Nth(Free(p), 2) \in Free(p) /\ Cardinality({h \in Free(p) : h < Nth(Free(p), 2)}) = 2 - 1
      /\ Nth(Free(p), 3) \in Free(p) /\ Cardinality({h \in Free(p) : h < Nth(Free(p), 3)}) = 3 - 1
    BY <1>1, NthFacts
<1>3. Nth(Free(p), 2) # Nth(Free(p), 3)
    BY <1>2
<1> QED
    BY <1>2, <1>3 DEF Pipes

---------------------------------------------------------------------------
\* The entries of the main process, whose child may go or whose pool may be given up at any time.
EndsInv == ChannelIntact /\ NumbersApart /\ MainHasFiles

\* What keeps the main process' entries as they are keeps what is known of them.
LEMMA MainUntouched ==
    ASSUME EndsInv, MainHasFiles', files'[Main] = files[Main], table'[Main] = table[Main], init'[Main] => init[Main]
    PROVE  EndsInv'
<1>1. Busy(Main)' = Busy(Main) /\ Free(Main)' = Free(Main)
    BY DEF Busy, Free
<1>2. \A s : Held(s)' = Held(s)
    BY DEF Held
<1>3. NumbersApart'
    BY <1>1, <1>2 DEF EndsInv, NumbersApart
<1>4. ChannelIntact'
    BY DEF EndsInv, ChannelIntact
<1> QED
    BY <1>3, <1>4 DEF EndsInv

\* A new entry of the main process, whose child is q or, when fork() failed, nobody (0).
LEMMA EntryOpened ==
    ASSUME CountInv, EndsInv, CanFork(Main), NEW s \in First(Slots \ Busy(Main)),
           NEW q \in Procs \cup {0}, NEW id \in Int, id # 0, id > 0 => q = id,
           table'[Main] = [table[Main] EXCEPT ![s] = Entry(Pipes(Main), id)],
           files'[Main] = ParentFiles(Main, Pipes(Main), q), MainHasFiles', init'[Main] => init[Main]
    PROVE  EndsInv'
<1> DEFINE ch == Pipes(Main)
<1>1. /\ ch.in.w \in Free(Main) /\ ch.out.r \in Free(Main) /\ ch.in.w # ch.out.r
      /\ ch.in.w \in Fds /\ ch.out.r \in Fds
    BY PipesApart, ForkAssumption DEF Free, Procs, Main
<1>2. /\ s \in Slots \ Busy(Main) /\ DOMAIN table[Main] = Slots /\ DOMAIN files[Main] = Fds
    BY ForkAssumption DEF First, CountInv, TypeOK, EndsInv, MainHasFiles, Procs, Main
<1>3. /\ table'[Main][s].id = id /\ table'[Main][s].in.w = ch.in.w /\ table'[Main][s].out.r = ch.out.r
      /\ \A t \in Slots \ {s} : table'[Main][t] = table[Main][t]
    BY <1>2 DEF Entry
<1>4. /\ files'[Main][ch.in.w] = End(q, "in", "w") /\ files'[Main][ch.out.r] = End(q, "out", "r")
      /\ \A f \in Fds \ {ch.in.w, ch.out.r} : files'[Main][f] = files[Main][f]
    BY <1>1, <1>2 DEF ParentFiles
<1> HIDE DEF ch
<1>5. Busy(Main)' = Busy(Main) \cup {s} /\ Held(s)' = {ch.in.w, ch.out.r}
    BY <1>2, <1>3 DEF Busy, Held
<1>6. \A t \in Busy(Main) : t # s /\ Held(t)' = Held(t) /\ Held(t) \cap {ch.in.w, ch.out.r} = {}
    <2> TAKE t \in Busy(Main)
    <2>1. t \in Slots \ {s} /\ Held(t) \subseteq Fds \ Free(Main)
        BY <1>2 DEF Busy, EndsInv, NumbersApart
    <2>2. Held(t)' = Held(t)
        BY <1>3, <2>1 DEF Held
    <2> QED
        BY <1>1, <2>1, <2>2
<1>7. \A f \in Fds : f \notin Free(Main) => f \notin Free(Main)'
    BY <1>1, <1>4 DEF Free
<1>8. ch.in.w \notin Free(Main)' /\ ch.out.r \notin Free(Main)'
    BY <1>4 DEF Free, End, Closed
<1>9. NumbersApart'
    <2> SUFFICES ASSUME NEW t \in Busy(Main)'
                 PROVE  /\ Held(t)' \subseteq Fds \ Free(Main)'
                        /\ table'[Main][t].in.w # table'[Main][t].out.r
                        /\ \A u \in Busy(Main)' \ {t} : Held(t)' \cap Held(u)' = {}
        BY DEF NumbersApart
    <2>1. CASE t = s
        BY <1>1, <1>3, <1>5, <1>6, <1>8, <2>1
    <2>2. CASE t # s
        <3>1. t \in Busy(Main) /\ t \in Slots \ {s}
            BY <1>5, <2>2 DEF Busy
        <3>2. /\ Held(t) \subseteq Fds \ Free(Main) /\ table[Main][t].in.w # table[Main][t].out.r
              /\ \A u \in Busy(Main) \ {t} : Held(t) \cap Held(u) = {}
            BY <3>1 DEF EndsInv, NumbersApart
        <3> QED
            BY <1>3, <1>5, <1>6, <1>7, <3>1, <3>2
    <2> QED
        BY <2>1, <2>2
<1>10. ChannelIntact'
    <2> SUFFICES ASSUME NEW t \in Slots, init'[Main], table'[Main][t].id > 0
                 PROVE  /\ files'[Main][table'[Main][t].in.w] = End(table'[Main][t].id, "in", "w")
                        /\ files'[Main][table'[Main][t].out.r] = End(table'[Main][t].id, "out", "r")
        BY Zenon DEF ChannelIntact
    <2>1. CASE t = s
        BY <1>3, <1>4, <2>1
    <2>2. CASE t # s
        <3>1. table'[Main][t] = table[Main][t] /\ t \in Busy(Main)
            BY <1>3, <2>2 DEF Busy
        <3>2. /\ files[Main][table[Main][t].in.w] = End(table[Main][t].id, "in", "w")
              /\ files[Main][table[Main][t].out.r] = End(table[Main][t].id, "out", "r")
            BY <3>1 DEF EndsInv, ChannelIntact
        <3>3. /\ Held(t) \subseteq Fds /\ table[Main][t].in.w \notin {ch.in.w, ch.out.r}
              /\ table[Main][t].out.r \notin {ch.in.w, ch.out.r}
            <4>1. Held(t) \subseteq Fds /\ Held(t) \cap {ch.in.w, ch.out.r} = {}
                BY <1>6, <3>1 DEF EndsInv, NumbersApart
            <4>2. table[Main][t].in.w \in Held(t) /\ table[Main][t].out.r \in Held(t)
                BY DEF Held
            <4> QED
                BY <4>1, <4>2
        <3> QED
            BY <1>4, <3>1, <3>2, <3>3 DEF Held
    <2> QED
        BY <2>1, <2>2
<1> QED
    BY <1>9, <1>10 DEF EndsInv

\* Entries of the main process are given back: the numbers closed are theirs alone.
LEMMA EntriesClosed ==
    ASSUME CountInv, EndsInv, NEW S \in SUBSET Busy(Main), Unregister(Main, S), UNCHANGED <<init>>, life'[Main] = "running"
    PROVE  EndsInv'
<1>1. /\ Main \in Procs /\ DOMAIN table = Procs /\ DOMAIN files = Procs /\ DOMAIN files[Main] = Fds
    BY ForkAssumption DEF CountInv, TypeOK, EndsInv, MainHasFiles, Procs, Main
<1>2. /\ files' = [files EXCEPT ![Main] = ClosedFiles(Main, S)]
      /\ table' = [table EXCEPT ![Main] = [s \in Slots |-> IF s \in S THEN Empty ELSE @[s]]]
    BY DEF Unregister
<1>3. /\ DOMAIN files' = Procs /\ files'[Main] = ClosedFiles(Main, S)
      /\ \A s \in Slots : table'[Main][s] = IF s \in S THEN Empty ELSE table[Main][s]
    BY <1>1, <1>2
<1>4. /\ DOMAIN files'[Main] = Fds
      /\ \A f \in Fds : files'[Main][f] = files[Main][f] \/ \E s \in S : f \in Held(s)
    BY <1>3 DEF ClosedFiles, Held
<1>5. Busy(Main)' = Busy(Main) \ S
    BY <1>3 DEF Busy, Empty
<1>6. \A t \in Busy(Main) \ S : /\ t \in Slots /\ table'[Main][t] = table[Main][t] /\ Held(t)' = Held(t)
                               /\ Held(t) \subseteq Fds \ Free(Main)
                               /\ \A f \in Held(t) : files'[Main][f] = files[Main][f]
    <2> TAKE t \in Busy(Main) \ S
    <2>1. t \in Slots /\ table'[Main][t] = table[Main][t] /\ Held(t)' = Held(t)
        BY <1>3 DEF Busy, Held
    <2>2. Held(t) \subseteq Fds \ Free(Main) /\ \A s \in S : Held(t) \cap Held(s) = {}
        BY DEF EndsInv, NumbersApart
    <2> QED
        BY <1>4, <2>1, <2>2
<1>7. NumbersApart'
    <2> SUFFICES ASSUME NEW t \in Busy(Main) \ S
                 PROVE  /\ Held(t)' \subseteq Fds \ Free(Main)'
                        /\ table'[Main][t].in.w # table'[Main][t].out.r
                        /\ \A u \in (Busy(Main) \ S) \ {t} : Held(t)' \cap Held(u)' = {}
        BY <1>5 DEF NumbersApart
    <2>1. \A f \in Held(t) : f \notin Free(Main)'
        BY <1>6 DEF Free
    <2>2. table[Main][t].in.w # table[Main][t].out.r /\ \A u \in Busy(Main) \ {t} : Held(t) \cap Held(u) = {}
        BY SMTT(40) DEF EndsInv, NumbersApart
    <2> QED
        BY <1>6, <2>1, <2>2
<1>8. ChannelIntact'
    <2> SUFFICES ASSUME NEW t \in Slots, init'[Main], table'[Main][t].id > 0
                 PROVE  /\ files'[Main][table'[Main][t].in.w] = End(table'[Main][t].id, "in", "w")
                        /\ files'[Main][table'[Main][t].out.r] = End(table'[Main][t].id, "out", "r")
        BY Zenon DEF ChannelIntact
    <2>1. t \in Busy(Main) \ S
        BY <1>3 DEF Busy, Empty
    <2>2. /\ files[Main][table[Main][t].in.w] = End(table[Main][t].id, "in", "w")
          /\ files[Main][table[Main][t].out.r] = End(table[Main][t].id, "out", "r")
        BY <1>6, <2>1 DEF EndsInv, ChannelIntact
    <2> QED
        BY <1>6, <2>1, <2>2 DEF Held
<1> QED
    BY <1>3, <1>4, <1>7, <1>8 DEF EndsInv, MainHasFiles

LEMMA MainIsFirst == Main \in Procs
BY ForkAssumption DEF Procs, Main

LEMMA EndsStart == Init => EndsInv
<1> SUFFICES ASSUME Init PROVE EndsInv
    OBVIOUS
<1>1. Busy(Main) = {}
    BY MainIsFirst DEF Init, Busy, Empty
<1>2. ~init[Main] /\ MainHasFiles
    BY MainIsFirst DEF Init, MainHasFiles
<1> QED
    BY <1>1, <1>2 DEF EndsInv, ChannelIntact, NumbersApart

LEMMA PoolKeepsEnds == ASSUME CountInv, EndsInv, InitPool \/ FreePool PROVE EndsInv'
<1>1. CASE InitPool
    <2>1. \A s \in Slots : table'[Main][s] = Empty
        BY <1>1, MainIsFirst DEF InitPool, CountInv, TypeOK
    <2>2. MainHasFiles'
        BY <1>1 DEF InitPool, kernel, EndsInv, MainHasFiles
    <2>3. Busy(Main)' = {}
        BY <2>1 DEF Busy, Empty
    <2>4. ChannelIntact'
        BY <2>1 DEF ChannelIntact, Empty
    <2> QED
        BY <2>2, <2>3, <2>4 DEF EndsInv, NumbersApart
<1>2. CASE FreePool
    <2>1. UNCHANGED <<life, files, table>> /\ init[Main]
        BY <1>2 DEF FreePool, Idle, kernel
    <2>2. MainHasFiles'
        BY <2>1 DEF EndsInv, MainHasFiles
    <2> QED
        BY <2>1, <2>2, MainUntouched
<1> QED
    BY <1>1, <1>2

LEMMA ForkChildKeepsEnds == ASSUME CountInv, EndsInv, NEW p \in Procs, ForkChild(p) PROVE EndsInv'
<1>1. PICK q \in First(Unborn), s \in First(Slots \ Busy(p)) :
        /\ life' = [life EXCEPT ![q] = "running"]
        /\ files' = [files EXCEPT ![p] = ParentFiles(p, Pipes(p), q), ![q] = ChildFiles(p, Pipes(p), q)]
        /\ table' = [table EXCEPT ![p] = [table[p] EXCEPT ![s] = Entry(Pipes(p), q)],
                                  ![q] = [table[p] EXCEPT ![s] = Entry(Pipes(p), q)]]
        /\ init' = [init EXCEPT ![q] = TRUE]
    BY Zenon DEF ForkChild
<1>2. q \in Procs /\ q # Main /\ q # p /\ CanFork(p)
    BY <1>1 DEF First, Unborn, ForkChild, CanFork, Idle, EndsInv, MainHasFiles
<1>3. /\ DOMAIN files = Procs /\ DOMAIN files[Main] = Fds /\ DOMAIN table = Procs
      /\ life \in [Procs -> {"none", "running", "exited", "killed", "gone"}] /\ init \in [Procs -> BOOLEAN]
    BY DEF CountInv, TypeOK, EndsInv, MainHasFiles
<1>4. DOMAIN files' = Procs /\ life'[Main] = "running" /\ init'[Main] = init[Main]
    BY <1>1, <1>2, <1>3, MainIsFirst DEF EndsInv, MainHasFiles
<1>5. CASE p = Main
    <2>1. /\ table'[Main] = [table[Main] EXCEPT ![s] = Entry(Pipes(Main), q)]
          /\ files'[Main] = ParentFiles(Main, Pipes(Main), q)
        BY <1>1, <1>2, <1>3, <1>5
    <2>2. DOMAIN files'[Main] = Fds
        BY <1>3, <2>1 DEF ParentFiles
    <2>3. MainHasFiles' /\ q \in Int /\ q # 0 /\ s \in First(Slots \ Busy(Main)) /\ CanFork(Main)
        BY <1>1, <1>2, <1>4, <1>5, <2>2 DEF MainHasFiles, Procs
    <2>4. init'[Main] => init[Main]
        BY <1>4
    <2> QED
        BY <1>2, <2>1, <2>3, <2>4, EntryOpened
<1>6. CASE p # Main
    <2>1. table'[Main] = table[Main] /\ files'[Main] = files[Main]
        BY <1>1, <1>2, <1>3, <1>6, MainIsFirst
    <2>2. MainHasFiles'
        BY <1>3, <1>4, <2>1 DEF MainHasFiles
    <2> QED
        BY <1>4, <2>1, <2>2, MainUntouched
<1> QED
    BY <1>5, <1>6

LEMMA ForkFailsKeepsEnds == ASSUME CountInv, EndsInv, NEW p \in Procs, ForkFails(p) PROVE EndsInv'
<1>1. PICK s \in First(Slots \ Busy(p)) :
        /\ files' = [files EXCEPT ![p] = ParentFiles(p, Pipes(p), 0)]
        /\ table' = [table EXCEPT ![p] = [table[p] EXCEPT ![s] = Entry(Pipes(p), -1)]]
    BY DEF ForkFails
<1>2. CanFork(p) /\ UNCHANGED <<life, init>>
    BY DEF ForkFails
<1>3. DOMAIN files = Procs /\ DOMAIN files[Main] = Fds /\ DOMAIN table = Procs /\ life[Main] = "running"
    BY DEF CountInv, TypeOK, EndsInv, MainHasFiles
<1>4. DOMAIN files' = Procs /\ life'[Main] = "running"
    BY <1>1, <1>2, <1>3
<1>5. CASE p = Main
    <2>1. /\ table'[Main] = [table[Main] EXCEPT ![s] = Entry(Pipes(Main), -1)]
          /\ files'[Main] = ParentFiles(Main, Pipes(Main), 0)
        BY <1>1, <1>3, <1>5
    <2>2. DOMAIN files'[Main] = Fds
        BY <1>3, <2>1 DEF ParentFiles
    <2>3. MainHasFiles' /\ s \in First(Slots \ Busy(Main)) /\ CanFork(Main)
        BY <1>1, <1>2, <1>4, <1>5, <2>2 DEF MainHasFiles
    <2>4. -1 \in Int /\ -1 # 0 /\ ~(-1 > 0) /\ 0 \in Procs \cup {0}
        OBVIOUS
    <2>5. init'[Main] => init[Main]
        BY <1>2
    <2> HIDE DEF EndsInv
    <2> QED
        BY <2>1, <2>3, <2>4, <2>5, EntryOpened
<1>6. CASE p # Main
    <2>1. table'[Main] = table[Main] /\ files'[Main] = files[Main]
        BY <1>1, <1>3, <1>6, MainIsFirst
    <2>2. MainHasFiles'
        BY <1>3, <1>4, <2>1 DEF MainHasFiles
    <2> QED
        BY <1>2, <2>1, <2>2, MainUntouched
<1> QED
    BY <1>5, <1>6

\* nh_unregisterFork() in any process but main.
LEMMA OthersClosed ==
    ASSUME CountInv, EndsInv, NEW p \in Procs, p # Main, NEW S, Unregister(p, S), UNCHANGED init, life'[Main] = "running"
    PROVE  EndsInv'
<1>1. DOMAIN files = Procs /\ DOMAIN files[Main] = Fds /\ DOMAIN table = Procs
    BY DEF CountInv, TypeOK, EndsInv, MainHasFiles
<1>2. /\ files' = [files EXCEPT ![p] = ClosedFiles(p, S)]
      /\ table' = [table EXCEPT ![p] = [s \in Slots |-> IF s \in S THEN Empty ELSE @[s]]]
    BY DEF Unregister
<1>3. DOMAIN files' = Procs /\ table'[Main] = table[Main] /\ files'[Main] = files[Main]
    BY <1>1, <1>2, MainIsFirst
<1>4. MainHasFiles'
    BY <1>1, <1>3 DEF MainHasFiles
<1> QED
    BY <1>3, <1>4, MainUntouched

LEMMA CheckEntryKeepsEnds == ASSUME CountInv, EndsInv, NEW p \in Procs, CheckEntry(p) PROVE EndsInv'
<1>1. scan[p] \in Slots /\ UNCHANGED init
    BY ForkAssumption DEF CheckEntry, CountInv, TypeOK, Slots
<1>2. life'[Main] = "running"
    <2>1. UNCHANGED life \/ \E q \in Procs : Zombie(q) /\ life' = [life EXCEPT ![q] = "gone"]
        BY DEF CheckEntry, Reaped, Waited, Children
    <2> QED
        BY <2>1, MainIsFirst DEF Zombie, EndsInv, MainHasFiles, CountInv, TypeOK
<1>3. \/ UNCHANGED <<table, files>>
      \/ table[p][scan[p]].id # 0 /\ \E S \in {{}, {scan[p]}} : Unregister(p, S)
    BY Zenon DEF CheckEntry
<1>4. CASE UNCHANGED <<table, files>>
    <2>1. MainHasFiles'
        BY <1>2, <1>4 DEF EndsInv, MainHasFiles
    <2> QED
        BY <1>1, <1>4, <2>1, MainUntouched
<1>5. CASE table[p][scan[p]].id # 0 /\ \E S \in {{}, {scan[p]}} : Unregister(p, S)
    <2>1. PICK S \in {{}, {scan[p]}} : Unregister(p, S)
        BY <1>5
    <2>2. S \in SUBSET Busy(p)
        BY <1>1, <1>5 DEF Busy
    <2>3. CASE p = Main
        BY <1>1, <1>2, <2>1, <2>2, <2>3, EntriesClosed
    <2>4. CASE p # Main
        BY <1>1, <1>2, <2>1, <2>4, OthersClosed
    <2> QED
        BY <2>3, <2>4
<1> QED
    BY <1>3, <1>4, <1>5

LEMMA KillForksKeepsEnds == ASSUME CountInv, EndsInv, KillForks PROVE EndsInv'
<1>1. Unregister(Main, Busy(Main)) /\ UNCHANGED <<life, init>>
    BY DEF KillForks
<1>2. life'[Main] = "running"
    BY <1>1 DEF EndsInv, MainHasFiles
<1>3. Busy(Main) \in SUBSET Busy(Main)
    OBVIOUS
<1> QED
    BY <1>1, <1>2, <1>3, EntriesClosed

LEMMA ChildEndsKeepsEnds ==
    ASSUME CountInv, EndsInv, NEW q \in Procs, NEW how \in {"exited", "killed"}, ChildEnds(q, how)
    PROVE  EndsInv'
<1>1. /\ q # Main /\ files' = [files EXCEPT ![q] = [f \in Fds |-> Closed]]
      /\ init' = [init EXCEPT ![q] = FALSE] /\ table' = [table EXCEPT ![q] = [s \in Slots |-> Empty]]
    BY DEF ChildEnds
<1>2. life'[Main] = "running"
    BY MainIsFirst DEF ChildEnds, Zombie, EndsInv, MainHasFiles
<1>3. files'[Main] = files[Main] /\ table'[Main] = table[Main] /\ init'[Main] = init[Main] /\ DOMAIN files' = Procs
    BY <1>1, MainIsFirst DEF EndsInv, MainHasFiles, CountInv, TypeOK
<1>4. MainHasFiles'
    BY <1>2, <1>3 DEF EndsInv, MainHasFiles
<1> QED
    BY <1>3, <1>4, MainUntouched

LEMMA EndsSteps == ASSUME CountInv, EndsInv, [Next]_vars PROVE EndsInv'
<1>1. CASE UNCHANGED vars \/ \E p \in Procs : StartCheck(p)
    <2>1. UNCHANGED <<life, files, table, init>>
        BY <1>1 DEF vars, kernel, StartCheck
    <2>2. MainHasFiles'
        BY <2>1 DEF EndsInv, MainHasFiles
    <2> QED
        BY <2>1, <2>2, MainUntouched
<1>2. CASE Next /\ ~\E p \in Procs : StartCheck(p)
    BY <1>2, PoolKeepsEnds, ForkChildKeepsEnds, ForkFailsKeepsEnds, CheckEntryKeepsEnds, KillForksKeepsEnds,
       ChildEndsKeepsEnds DEF Next, Check
<1> QED
    BY <1>1, <1>2

\* Both invariants, for any number of processes, entries and descriptors.
THEOREM ForkInvariant == Spec => []ForkInv
<1>1. ForkInv <=> CountInv /\ EndsInv
    BY DEF ForkInv, EndsInv
<1>2. Init => CountInv /\ EndsInv
    BY ForkStarts, EndsStart
<1>3. CountInv /\ EndsInv /\ [Next]_vars => CountInv' /\ EndsInv'
    BY ForkSteps, EndsSteps
<1> QED
    BY <1>1, <1>2, <1>3, PTL DEF Spec

\* Whatever ends, fails or is reaped, and in every process that copied the table: the count that
\* nh_core_keepRunning() and the limit of nh_core_fork() go by is that of the entries in use.
THEOREM ForksCounted == Spec => []CountMatches
<1>1. ForkInv => CountMatches
    BY DEF ForkInv, CountInv
<1> QED
    BY <1>1, ForkInvariant, PTL

\* nh_unregisterFork() closes numbers, not channels: by the time it does, the main process may have
\* been given them anew. For an entry in use this never happens, whatever was closed and opened
\* between: its two numbers are still the ends of its own child's pipes.
THEOREM ChannelsStayIntact == Spec => []ChannelIntact
<1>1. ForkInv => ChannelIntact
    BY DEF ForkInv
<1> QED
    BY <1>1, ForkInvariant, PTL
=============================================================================
