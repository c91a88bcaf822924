---------------------------- MODULE LoaderProofs ----------------------------
(***************************************************************************)
(* The loader keeps dependencies loaded and runs each initializer once,    *)
(* for every table of dependencies without circles.                        *)
(***************************************************************************)
EXTENDS Loader, TLAPS

\* What the actions of freeLoader() need: a module of the scan is one.
LEMMA OrderFacts ==
    /\ Len(Order) \in Nat
    /\ \A i \in 1..Len(Order) : Order[i] \in Modules \ {Core}
BY TablesAssumption

LEMMA DependencyFacts ==
    ASSUME NEW m \in Modules
    PROVE  /\ Len(Dependencies[m]) \in Nat
           /\ \A i \in 1..Len(Dependencies[m]) : /\ Dependencies[m][i] \in Modules
                                                 /\ Dependencies[m][i] \in Needs(m)
                                                 /\ Rank[Dependencies[m][i]] < Rank[m]
           /\ Needs(m) \subseteq Modules
<1>1. Dependencies[m] \in Seq(Modules)
    BY TablesAssumption
<1>2. \A i \in 1..Len(Dependencies[m]) :
            Dependencies[m][i] \in Modules /\ Dependencies[m][i] \in Needs(m)
    BY <1>1 DEF Needs
<1>3. \A i \in 1..Len(Dependencies[m]) : Rank[Dependencies[m][i]] < Rank[m]
    BY <1>2, RankAssumption
<1> QED
    BY <1>1, <1>2, <1>3 DEF Needs

LEMMA LoaderInit == Init => LoaderInv
<1> SUFFICES ASSUME Init PROVE LoaderInv
    OBVIOUS
<1>1. TypeOK
    BY TablesAssumption DEF Init, TypeOK, Frames, NoFrame, Levels
<1>2. DependenciesLoaded
    <2>1. Needs(Core) = {}
        BY TablesAssumption DEF Needs
    <2> QED
        BY <2>1 DEF Init, DependenciesLoaded
<1> QED
    BY <1>1, <1>2 DEF Init, LoaderInv, InitializedOnce, FramesOK, RankDecreases, ScanOK

\* Pushing a module that is not loaded, and has a lower rank than the one on top.
LEMMA PushKeeps ==
    ASSUME LoaderInv, NEW m \in Modules, m \notin loaded, Push(m),
           depth > 0 => Rank[m] < Rank[Top.module],
           free.state = "off", UNCHANGED <<loaded, free>>
    PROVE  LoaderInv'
<1>0. /\ depth \in 0..MaxDepth /\ depth < MaxDepth /\ depth' = depth + 1
      /\ frame \in [Levels -> Frames] /\ MaxDepth \in Nat /\ depth + 1 \in Levels
    BY TablesAssumption DEF LoaderInv, TypeOK, Push, Levels
<1>1. /\ frame'[depth + 1] = [module |-> m, stage |-> "deps", next |-> 1]
      /\ \A i \in Levels : i # depth + 1 => frame'[i] = frame[i]
      /\ frame' \in [Levels -> Frames]
    BY <1>0 DEF Push, Frames
<1>2. TypeOK'
    BY <1>0, <1>1 DEF LoaderInv, TypeOK, Levels
<1>3. \A i \in 1..depth : /\ i \in Levels /\ frame'[i] = frame[i]
                          /\ frame[i].module \in Modules
                          /\ Rank[m] < Rank[frame[i].module]
    <2> SUFFICES ASSUME NEW i \in 1..depth
                 PROVE  /\ i \in Levels /\ frame'[i] = frame[i]
                        /\ frame[i].module \in Modules
                        /\ Rank[m] < Rank[frame[i].module]
        OBVIOUS
    <2>1. i \in Levels /\ frame'[i] = frame[i] /\ depth \in Levels
        BY <1>0, <1>1 DEF Levels
    <2>2. frame[i].module \in Modules /\ Top.module \in Modules
        BY <1>0, <2>1 DEF Frames, Top
    <2>3. Rank[frame[i].module] \in Nat /\ Rank[m] \in Nat /\ Rank[Top.module] \in Nat
        BY <2>2, RankAssumption
    <2>4. i = depth \/ Rank[Top.module] < Rank[frame[i].module]
        BY <1>0 DEF LoaderInv, RankDecreases, Top
    <2> QED
        BY <1>0, <2>1, <2>2, <2>3, <2>4 DEF Top
<1>4. InitializedOnce'
    BY <1>0, <1>1, <1>3, RankAssumption DEF LoaderInv, InitializedOnce
<1>5. FramesOK'
    BY <1>0, <1>1, <1>3, DependencyFacts DEF LoaderInv, FramesOK
<1>6. RankDecreases'
    BY <1>0, <1>1, <1>3, RankAssumption DEF LoaderInv, RankDecreases
<1>7. DependenciesLoaded' /\ ScanOK'
    BY DEF LoaderInv, DependenciesLoaded, ScanOK
<1> QED
    BY <1>2, <1>4, <1>5, <1>6, <1>7 DEF LoaderInv

\* Frames taken from the top.
LEMMA PopKeeps ==
    ASSUME LoaderInv, NEW k \in 0..depth, depth' = k,
           frame' = [i \in Levels |-> IF i > k THEN NoFrame ELSE frame[i]],
           UNCHANGED <<loaded, free>>
    PROVE  LoaderInv'
<1>0. /\ depth \in 0..MaxDepth /\ MaxDepth \in Nat /\ frame \in [Levels -> Frames]
      /\ NoFrame \in Frames
    BY TablesAssumption DEF LoaderInv, TypeOK, Frames, NoFrame
<1>1. \A i \in 1..k : i \in Levels /\ i \in 1..depth /\ frame'[i] = frame[i]
    BY <1>0 DEF Levels
<1>2. TypeOK'
    <2>1. frame' \in [Levels -> Frames] /\ depth' \in 0..MaxDepth
        BY <1>0
    <2>2. \A i \in Levels : IF i > depth' THEN frame'[i] = NoFrame ELSE frame'[i].stage # "none"
        BY <1>0 DEF LoaderInv, TypeOK, Levels
    <2> QED
        BY <1>0, <2>1, <2>2 DEF LoaderInv, TypeOK
<1>3. InitializedOnce' /\ FramesOK' /\ RankDecreases'
    BY <1>0, <1>1 DEF LoaderInv, InitializedOnce, FramesOK, RankDecreases
<1>4. DependenciesLoaded' /\ ScanOK'
    BY DEF LoaderInv, DependenciesLoaded, ScanOK
<1> QED
    BY <1>2, <1>3, <1>4 DEF LoaderInv

\* Only the scan of freeLoader() moves; the part behind it, and what is loaded, are given.
LEMMA ScanKeeps ==
    ASSUME LoaderInv, free.state = "on", UNCHANGED <<frame, depth>>,
           loaded' \subseteq loaded, Core \in loaded',
           free' \in [state : {"on", "done", "failed"}, pos : Nat \ {0}, needed : BOOLEAN],
           ScanOK'
    PROVE  LoaderInv'
<1>1. depth = 0
    BY DEF LoaderInv, TypeOK
<1> QED
    BY <1>1 DEF LoaderInv, TypeOK, InitializedOnce, FramesOK, RankDecreases, DependenciesLoaded

LEMMA FreeType ==
    ASSUME LoaderInv, free.state = "on"
    PROVE  /\ free \in [state : {"off", "on", "done", "failed"}, pos : Nat \ {0}, needed : BOOLEAN]
           /\ [free EXCEPT !.pos = @ + 1]
                \in [state : {"on", "done", "failed"}, pos : Nat \ {0}, needed : BOOLEAN]
           /\ Core \in loaded
BY DEF LoaderInv, TypeOK

LEMMA LoaderNext == LoaderInv /\ [Next]_vars => LoaderInv'
<1> SUFFICES ASSUME LoaderInv, [Next]_vars PROVE LoaderInv'
    OBVIOUS
<1>0. /\ depth \in 0..MaxDepth /\ MaxDepth \in Nat /\ frame \in [Levels -> Frames]
      /\ depth > 0 => /\ depth \in Levels /\ Top \in Frames /\ Top.module \in Modules
                      /\ free.state = "off"
    BY TablesAssumption, SMTT(40) DEF LoaderInv, TypeOK, Levels, Frames, Top
<1>1. ASSUME NEW m \in Modules, Load(m) PROVE LoaderInv'
    <2>1. depth > 0 => m \in InitLoads[Top.module] \ {Top.module}
        BY <1>0, <1>1 DEF Load, LoaderInv, FramesOK, Top
    <2>2. depth > 0 => Rank[m] < Rank[Top.module]
        BY <1>0, <2>1, RankAssumption
    <2> QED
        BY <1>1, <2>2, PushKeeps DEF Load
<1>2. CASE LoadDependency
    <2> DEFINE d == Dependencies[Top.module][Top.next]
    <2>1. /\ depth > 0 /\ Top.stage = "deps" /\ free.state = "off"
          /\ Top.next \in 1..Len(Dependencies[Top.module])
          /\ UNCHANGED <<loaded, free>>
        BY <1>0, <1>2, DependencyFacts
        DEF LoadDependency, Loading, DependenciesDone, Frames
    <2>2. d \in Modules /\ Rank[d] < Rank[Top.module]
        BY <1>0, <2>1, DependencyFacts
    <2>3. CASE d \notin loaded
        BY <1>2, <2>1, <2>2, <2>3, PushKeeps DEF LoadDependency
    <2>4. CASE d \in loaded
        <3>1. frame' = [frame EXCEPT ![depth].next = @ + 1] /\ depth' = depth
            BY <1>2, <2>4 DEF LoadDependency
        <3>2. /\ frame'[depth].module = Top.module
              /\ frame'[depth].stage = "deps"
              /\ frame'[depth].next = Top.next + 1
              /\ frame'[depth] \in Frames
              /\ \A i \in Levels : i # depth => frame'[i] = frame[i]
              /\ frame' \in [Levels -> Frames]
            BY <1>0, <2>1, <3>1 DEF Frames, Top
        <3>3. \A i \in Levels : /\ frame'[i].module = frame[i].module
                                /\ frame'[i].stage = frame[i].stage
            BY <2>1, <3>2 DEF Top
        <3>4. TypeOK'
            BY <1>0, <2>1, <3>1, <3>2, <3>3 DEF LoaderInv, TypeOK, Levels
        <3>5. InitializedOnce' /\ RankDecreases'
            BY <1>0, <2>1, <3>1, <3>3 DEF LoaderInv, InitializedOnce, RankDecreases, Levels
        <3>6. FramesOK'
            <4> SUFFICES ASSUME NEW i \in 1..depth,
                                frame[i].stage # "init",
                                NEW j \in 1..Len(Dependencies[frame[i].module]),
                                j < frame'[i].next
                         PROVE  Dependencies[frame[i].module][j] \in loaded
                BY <1>0, <2>1, <3>1, <3>3 DEF LoaderInv, FramesOK, Levels
            <4>1. CASE i # depth
                BY <1>0, <3>2, <4>1 DEF LoaderInv, FramesOK, Levels
            <4>2. CASE i = depth
                <5>1. j < Top.next \/ j = Top.next
                    BY <1>0, <2>1, <3>2, <4>2, DependencyFacts DEF Frames
                <5> QED
                    BY <1>0, <2>1, <2>4, <4>2, <5>1 DEF LoaderInv, FramesOK, Top
            <4> QED
                BY <4>1, <4>2
        <3> QED
            BY <2>1, <3>4, <3>5, <3>6 DEF LoaderInv, DependenciesLoaded, ScanOK
    <2> QED
        BY <2>3, <2>4
<1>3. CASE Open
    <2>1. /\ depth > 0 /\ depth' = depth /\ free' = free /\ free.state = "off"
          /\ frame' = [frame EXCEPT ![depth].stage = "init"]
          /\ loaded' = loaded \cup {Top.module}
          /\ Top.stage = "deps"
        BY <1>0, <1>3 DEF Open, Loading
    <2>2. Needs(Top.module) \subseteq loaded
        <3>1. \A j \in 1..Len(Dependencies[Top.module]) : j < Top.next
            BY <1>0, <1>3, DependencyFacts DEF Open, Loading, DependenciesDone, Frames
        <3> QED
            BY <1>0, <2>1, <3>1 DEF LoaderInv, FramesOK, Needs, Top
    <2>3. /\ frame'[depth].module = Top.module
          /\ frame'[depth].stage = "init"
          /\ frame'[depth] \in Frames
          /\ \A i \in Levels : i # depth => frame'[i] = frame[i]
          /\ frame' \in [Levels -> Frames]
        BY <1>0, <2>1 DEF Frames, Top
    <2>4. \A i \in Levels : frame'[i].module = frame[i].module
        BY <2>3 DEF Top
    <2>5. TypeOK'
        BY <1>0, <2>1, <2>3 DEF LoaderInv, TypeOK, Levels
    <2>6. DependenciesLoaded'
        BY <1>0, <2>1, <2>2 DEF LoaderInv, DependenciesLoaded
    <2>7. InitializedOnce'
        BY <1>0, <2>1, <2>3, <2>4 DEF LoaderInv, InitializedOnce, Levels, Top
    <2>8. FramesOK'
        BY <1>0, <2>1, <2>3 DEF LoaderInv, FramesOK, Levels
    <2>9. RankDecreases'
        BY <1>0, <2>1, <2>4 DEF LoaderInv, RankDecreases, Levels
    <2> QED
        BY <2>1, <2>5, <2>6, <2>7, <2>8, <2>9 DEF LoaderInv, ScanOK
<1>4. CASE OpenFails
    <2>1. PICK k \in 0..depth : /\ depth' = k
                                /\ frame' = [i \in Levels |-> IF i > k THEN NoFrame ELSE frame[i]]
        BY <1>4 DEF OpenFails, Unwind
    <2> QED
        BY <1>4, <2>1, PopKeeps DEF OpenFails
<1>5. CASE Initialized
    <2>1. depth > 0 /\ depth - 1 \in 0..depth
        BY <1>0, <1>5 DEF Initialized
    <2>2. frame' = [i \in Levels |-> IF i > depth - 1 THEN NoFrame ELSE frame[i]]
        <3>1. \A i \in Levels : i > depth => frame[i] = NoFrame
            BY DEF LoaderInv, TypeOK
        <3>2. frame' = [frame EXCEPT ![depth] = NoFrame]
            BY <1>5 DEF Initialized
        <3>3. \A i \in Levels : frame'[i] = IF i > depth - 1 THEN NoFrame ELSE frame[i]
            BY <1>0, <3>1, <3>2 DEF Levels
        <3>4. frame' = [i \in Levels |-> frame'[i]]
            BY <1>0, <3>2
        <3> QED
            BY <3>3, <3>4
    <2> QED
        BY <1>5, <2>1, <2>2, PopKeeps DEF Initialized
<1>6. CASE BeginFree
    <2>1. depth = 0 /\ UNCHANGED <<loaded, frame, depth>>
          /\ free' = [state |-> "on", pos |-> 1, needed |-> FALSE]
        BY <1>6 DEF BeginFree, NewScan
    <2>2. ScanOK'
        BY <2>1, OrderFacts DEF ScanOK
    <2> QED
        BY <2>1, <2>2
        DEF LoaderInv, TypeOK, DependenciesLoaded, InitializedOnce, FramesOK, RankDecreases
<1>7. CASE Skip
    <2>1. /\ free.state = "on" /\ UNCHANGED <<loaded, frame, depth>>
          /\ free' = [free EXCEPT !.pos = @ + 1, !.needed = @ \/ Scanned \in loaded]
        BY <1>7 DEF Skip, Scanning
    <2>2. /\ free.pos \in Nat \ {0} /\ free.needed \in BOOLEAN
          /\ free'.state = "on" /\ free'.pos = free.pos + 1
          /\ free'.needed = (free.needed \/ Scanned \in loaded)
          /\ free' \in [state : {"on", "done", "failed"}, pos : Nat \ {0}, needed : BOOLEAN]
        BY <2>1, FreeType
    <2>3. ASSUME ~free'.needed, NEW i \in 1..Len(Order), i < free'.pos
          PROVE  Order[i] \notin loaded
        <3>1. ~free.needed /\ Order[free.pos] \notin loaded
            BY <2>2, <2>3 DEF Scanned
        <3>2. i < free.pos \/ i = free.pos
            BY <2>2, <2>3
        <3> QED
            BY <2>1, <3>1, <3>2 DEF LoaderInv, ScanOK
    <2>4. ScanOK'
        BY <2>1, <2>2, <2>3 DEF ScanOK
    <2> QED
        BY <2>1, <2>2, <2>4, ScanKeeps, FreeType
<1>8. CASE UnloadModule
    <2>1. /\ free.state = "on" /\ UNCHANGED <<frame, depth>> /\ free.pos <= Len(Order)
          /\ loaded' = loaded \ {Scanned}
          /\ free' = [free EXCEPT !.pos = @ + 1]
        BY <1>8 DEF UnloadModule, Scanning
    <2>2. /\ free.pos \in Nat \ {0}
          /\ free'.state = "on" /\ free'.pos = free.pos + 1 /\ free'.needed = free.needed
          /\ free' \in [state : {"on", "done", "failed"}, pos : Nat \ {0}, needed : BOOLEAN]
        BY <2>1, FreeType
    <2>3. ScanOK'
        BY <2>1, <2>2, OrderFacts DEF LoaderInv, ScanOK, Scanned
    <2>4. Core \in loaded'
        BY <2>1, <2>2, OrderFacts, FreeType DEF Scanned
    <2> QED
        BY <2>1, <2>2, <2>3, <2>4, ScanKeeps
<1>9. CASE CloseFails
    <2>1. /\ free.state = "on" /\ UNCHANGED <<loaded, frame, depth>>
          /\ free' = [free EXCEPT !.state = "failed"]
        BY <1>9 DEF CloseFails, Scanning
    <2>2. /\ free'.state = "failed"
          /\ free' \in [state : {"on", "done", "failed"}, pos : Nat \ {0}, needed : BOOLEAN]
        BY <2>1, FreeType
    <2> QED
        BY <2>1, <2>2, ScanKeeps, FreeType DEF ScanOK
<1>10. CASE EndScan
    <2>1. /\ free.state = "on" /\ UNCHANGED <<loaded, frame, depth>> /\ free.pos > Len(Order)
          /\ free' = IF free.needed THEN NewScan ELSE [free EXCEPT !.state = "done"]
        BY <1>10 DEF EndScan
    <2>2. free' \in [state : {"on", "done", "failed"}, pos : Nat \ {0}, needed : BOOLEAN]
        <3>1. free \in [state : {"off", "on", "done", "failed"}, pos : Nat \ {0}, needed : BOOLEAN]
            BY <2>1, FreeType
        <3>2. CASE free.needed
            BY <2>1, <3>2 DEF NewScan
        <3>3. CASE ~free.needed
            BY <2>1, <3>1, <3>3
        <3> QED
            BY <3>2, <3>3
    <2>3. ScanOK'
        <3>1. CASE free.needed
            <4>1. free'.state = "on" /\ free'.pos = 1
                BY <2>1, <3>1 DEF NewScan
            <4> QED
                BY <2>1, <4>1, OrderFacts DEF ScanOK
        <3>2. CASE ~free.needed
            <4>1. free'.state = "done" /\ free'.pos = free.pos /\ free'.needed = free.needed
                BY <2>1, <3>2, FreeType
            <4> QED
                BY <2>1, <3>2, <4>1 DEF LoaderInv, ScanOK
        <3> QED
            BY <3>1, <3>2
    <2> QED
        BY <2>1, <2>2, <2>3, ScanKeeps, FreeType
<1>11. CASE UNCHANGED vars
    BY <1>11 DEF vars, LoaderInv, TypeOK, DependenciesLoaded, InitializedOnce, FramesOK,
                 RankDecreases, ScanOK, Needs
<1> QED
    BY <1>1, <1>2, <1>3, <1>4, <1>5, <1>6, <1>7, <1>8, <1>9, <1>10, <1>11
    DEF Next, Freeing, Freed

\* The inductive invariant of the loader holds for every table of modules.
THEOREM LoaderInvariant == Spec => []LoaderInv
<1> QED
    BY LoaderInit, LoaderNext, PTL DEF Spec

\* nh_core_load(): a module is loaded only together with everything it depends on.
THEOREM LoadedWithDependencies == Spec => []DependenciesLoaded
<1>1. LoaderInv => DependenciesLoaded
    BY DEF LoaderInv
<1> QED
    BY <1>1, LoaderInvariant, PTL

\* nh_core_load(): no initializer runs twice, however the initializers use the loader.
THEOREM InitializersOnce == Spec => []InitializedOnce
<1>1. LoaderInv => InitializedOnce
    BY DEF LoaderInv
<1> QED
    BY <1>1, LoaderInvariant, PTL

\* nh_core_freeLoader(): if it succeeds, every module but nh-core was unloaded.
THEOREM FreeingIsComplete == Spec => []FreedAll
<1>1. LoaderInv => FreedAll
    <2> SUFFICES ASSUME LoaderInv, free.state = "done" PROVE loaded = {Core}
        BY DEF FreedAll
    <2>1. \A i \in 1..Len(Order) : Order[i] \notin loaded
        <3>1. /\ free.pos \in Nat /\ free.pos > Len(Order) /\ ~free.needed
            BY DEF LoaderInv, TypeOK, ScanOK
        <3> QED
            BY <3>1, OrderFacts DEF LoaderInv, ScanOK
    <2>2. loaded \subseteq Modules /\ Core \in loaded
        BY DEF LoaderInv, TypeOK
    <2> QED
        BY <2>1, <2>2, TablesAssumption
<1> QED
    BY <1>1, LoaderInvariant, PTL

---------------------------------------------------------------------------
(* Unloading *)

\* A module that nothing keeps is gone when the scan has passed it.
PassedGone ==
    free.state # "off" =>
        \A i \in 1..Len(Order) : i < free.pos /\ Blockers[Order[i]] = {} => Order[i] \notin loaded

UnloadInv == DependenciesHeld /\ PassedGone

LEMMA UnloadInit == Init => UnloadInv
<1>1. Needs(Core) = {}
    BY TablesAssumption DEF Needs
<1> QED
    BY <1>1 DEF Init, UnloadInv, DependenciesHeld, PassedGone

LEMMA UnloadNext == LoaderInv /\ LoaderInv' /\ UnloadInv /\ [Next]_vars => UnloadInv'
<1> SUFFICES ASSUME LoaderInv, LoaderInv', UnloadInv, [Next]_vars PROVE UnloadInv'
    OBVIOUS
<1>0. /\ free \in [state : {"off", "on", "done", "failed"}, pos : Nat \ {0}, needed : BOOLEAN]
      /\ free.state # "off" => depth = 0
      /\ loaded \subseteq Modules
    BY DEF LoaderInv, TypeOK
<1>1. CASE free'.state = "off"
    BY <1>1 DEF LoaderInv, DependenciesLoaded, UnloadInv, DependenciesHeld, PassedGone
<1>2. CASE BeginFree
    <2>1. free'.pos = 1 /\ UNCHANGED loaded
        BY <1>2 DEF BeginFree, NewScan
    <2>2. \A i \in 1..Len(Order) : ~(i < free'.pos)
        BY <2>1, OrderFacts
    <2> QED
        BY <2>1, <2>2 DEF UnloadInv, DependenciesHeld, PassedGone
<1>3. CASE Skip
    <2>1. /\ free.state = "on" /\ UNCHANGED loaded /\ free'.pos = free.pos + 1 /\ free.pos \in Nat
          /\ ~UnloadAllowed(Order[free.pos]) \/ Order[free.pos] \notin loaded
        BY <1>0, <1>3 DEF Skip, Scanning, Scanned
    <2>2. ASSUME NEW i \in 1..Len(Order), i < free'.pos, Blockers[Order[i]] = {}
          PROVE  Order[i] \notin loaded
        <3>1. CASE i = free.pos
            BY <2>1, <2>2, <3>1 DEF UnloadAllowed
        <3>2. CASE i < free.pos
            BY <2>1, <2>2, <3>2 DEF UnloadInv, PassedGone
        <3> QED
            BY <2>1, <2>2, <3>1, <3>2
    <2> QED
        BY <2>1, <2>2 DEF UnloadInv, DependenciesHeld, PassedGone
<1>4. CASE UnloadModule
    <2>1. /\ free.state = "on" /\ free'.pos = free.pos + 1 /\ free.pos \in 1..Len(Order)
          /\ Blockers[Order[free.pos]] \cap loaded = {} /\ loaded' = loaded \ {Order[free.pos]}
        BY <1>0, <1>4, OrderFacts DEF UnloadModule, Scanning, Scanned, UnloadAllowed
    <2>2. PassedGone'
        <3>1. ASSUME NEW i \in 1..Len(Order), i < free'.pos, Blockers[Order[i]] = {}
              PROVE  Order[i] \notin loaded'
            <4>1. i = free.pos \/ i < free.pos
                BY <2>1, <3>1
            <4> QED
                BY <2>1, <3>1, <4>1 DEF UnloadInv, PassedGone
        <3> QED
            BY <3>1 DEF PassedGone
    <2>3. ASSUME NEW m \in loaded', NEW d \in Needs(m), <<m, d>> \notin Unordered PROVE d \in loaded'
        <3>1. m \in loaded /\ d \in loaded /\ m \in Modules
            BY <1>0, <2>1, <2>3 DEF UnloadInv, DependenciesHeld
        <3>2. CASE d = Core
            BY <2>1, <3>1, <3>2, OrderFacts
        <3>3. CASE m \in Blockers[d]
            BY <2>1, <3>1, <3>3
        <3>4. CASE Blockers[m] = {} /\ \A j \in 1..Len(Order) : Order[j] = d => \E i \in 1..(j - 1) : Order[i] = m
            <4>1. ASSUME Order[free.pos] = d PROVE FALSE
                <5>1. PICK i \in 1..(free.pos - 1) : Order[i] = m
                    BY <2>1, <3>4, <4>1
                <5>2. i \in 1..Len(Order) /\ i < free.pos
                    BY <2>1, OrderFacts
                <5> QED
                    BY <2>1, <3>1, <3>4, <5>1, <5>2 DEF UnloadInv, PassedGone
            <4> QED
                BY <2>1, <3>1, <4>1
        <3> QED
            BY <2>3, <3>1, <3>2, <3>3, <3>4, UnloadAssumption
    <2> QED
        BY <2>2, <2>3 DEF UnloadInv, DependenciesHeld
<1>5. CASE CloseFails
    <2>1. UNCHANGED loaded /\ free'.pos = free.pos /\ free.state = "on"
        BY <1>0, <1>5 DEF CloseFails, Scanning
    <2> QED
        BY <2>1 DEF UnloadInv, DependenciesHeld, PassedGone
<1>6. CASE EndScan
    <2>1. /\ UNCHANGED loaded /\ free.state = "on"
          /\ free' = IF free.needed THEN NewScan ELSE [free EXCEPT !.state = "done"]
        BY <1>6 DEF EndScan
    <2>2. free'.pos = 1 \/ free'.pos = free.pos
        BY <1>0, <2>1 DEF NewScan
    <2>3. \A i \in 1..Len(Order) : ~(i < 1)
        BY OrderFacts
    <2> QED
        BY <2>1, <2>2, <2>3 DEF UnloadInv, DependenciesHeld, PassedGone
<1>7. CASE UNCHANGED vars
    BY <1>7 DEF vars, UnloadInv, DependenciesHeld, PassedGone
<1>8. CASE UNCHANGED free /\ free.state = "off"
    BY <1>1, <1>8
<1>9. CASE \/ \E m \in Modules : Load(m)
           \/ LoadDependency \/ Open \/ OpenFails \/ Initialized
    <2>1. UNCHANGED free /\ (free.state = "off" \/ depth > 0)
        BY <1>9 DEF Load, LoadDependency, Open, OpenFails, Initialized, Loading
    <2>2. free.state = "off"
        BY <1>0, <2>1
    <2> QED
        BY <1>8, <2>1, <2>2
<1> QED
    BY <1>2, <1>3, <1>4, <1>5, <1>6, <1>7, <1>9 DEF Next, Freeing, Freed

\* nh_core_freeLoader(): a terminator finds every module that its module depends on, but for the
\* dependencies neither isUnloadAllowed() nor the order of the scan respects.
THEOREM TerminatorsFindDependencies == Spec => []DependenciesHeld
<1>1. UnloadInv => DependenciesHeld
    BY DEF UnloadInv
<1> QED
    BY <1>1, UnloadInit, UnloadNext, LoaderInvariant, PTL DEF Spec
=============================================================================
