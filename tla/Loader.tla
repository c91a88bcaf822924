------------------------------- MODULE Loader -------------------------------
(***************************************************************************)
(* The module loader of nh-core (src/lib/nh-core/Loader/Loader.c).         *)
(*                                                                         *)
(* nh_core_load() loads the dependencies of a module, opens its library,   *)
(* marks it loaded and runs its initializer, which may use the loader      *)
(* again: loads are nested calls on the main thread, a stack of frames.    *)
(* nh_core_freeLoader() scans the modules until none is left.              *)
(***************************************************************************)
EXTENDS Naturals, Sequences

CONSTANTS
    Modules,      \* NH_MODULE_E
    Core,         \* NH_MODULE_CORE, loaded from the start and never unloaded here
    Order,        \* the other modules, in the order freeLoader() scans them
    Dependencies, \* what loadDependencies() loads for a module, in its order
    Blockers,     \* the modules that keep a module from being unloaded
    InitLoads,    \* the modules an initializer may ask the loader for
    Rank,         \* a module's place in the order of the dependencies
    Unordered,    \* the dependencies that unloading does not respect, as <<module, dependency>>
    Unload,       \* the setting nh-core.loader.unload: are libraries closed?
    MaxDepth      \* bound: loads in progress

Needs(m) == {Dependencies[m][i] : i \in 1..Len(Dependencies[m])}

ASSUME TablesAssumption ==
    /\ Core \in Modules
    /\ Order \in Seq(Modules \ {Core})
    /\ \A m \in Modules \ {Core} : \E i \in 1..Len(Order) : Order[i] = m
    /\ Dependencies \in [Modules -> Seq(Modules)]
    /\ Blockers \in [Modules -> SUBSET Modules]
    /\ InitLoads \in [Modules -> SUBSET Modules]
    /\ Dependencies[Core] = <<>>
    /\ Unload \in BOOLEAN
    /\ MaxDepth \in Nat \ {0}
\* Modules do not depend on each other in a circle, and an initializer asks for its own
\* module or for one that does not depend on it.
ASSUME RankAssumption ==
    /\ Rank \in [Modules -> Nat]
    /\ \A m \in Modules : /\ \A d \in Needs(m) : Rank[d] < Rank[m]
                          /\ \A d \in InitLoads[m] \ {m} : Rank[d] < Rank[m]

\* Every other dependency is nh-core, knows of the module in isUnloadAllowed(), or comes after it in
\* the scan, when nothing can keep the module itself from being unloaded.
ASSUME UnloadAssumption ==
    \A m \in Modules : \A d \in Needs(m) :
        \/ <<m, d>> \in Unordered
        \/ d = Core
        \/ m \in Blockers[d]
        \/ Blockers[m] = {} /\ \A j \in 1..Len(Order) : Order[j] = d => \E i \in 1..(j - 1) : Order[i] = m

VARIABLES
    loaded,     \* Modules_p[m].loaded
    frame,      \* the nh_core_load() calls in progress
    depth,      \* how many there are
    free        \* nh_core_freeLoader(): its state, position in Order, unloadNeeded

vars == <<loaded, frame, depth, free>>

Levels == 1..MaxDepth
NoFrame == [module |-> Core, stage |-> "none", next |-> 1]

Top == frame[depth]

---------------------------------------------------------------------------
(* nh_core_load() *)

\* A module that is not loaded is: begin with its dependencies.
Push(m) ==
    /\ depth < MaxDepth
    /\ depth' = depth + 1
    /\ frame' = [frame EXCEPT ![depth + 1] = [module |-> m, stage |-> "deps", next |-> 1]]

\* The application, or the initializer that runs, asks for a module (load_f, loadSymbol_f).
Load(m) ==
    /\ free.state = "off"
    /\ m \notin loaded
    /\ depth > 0 => Top.stage = "init" /\ m \in InitLoads[Top.module]
    /\ Push(m)
    /\ UNCHANGED <<loaded, free>>

Loading == depth > 0 /\ Top.stage = "deps"
DependenciesDone == Top.next > Len(Dependencies[Top.module])

\* Load the next dependency, or go on if it is loaded.
LoadDependency ==
    /\ Loading
    /\ ~DependenciesDone
    /\ LET d == Dependencies[Top.module][Top.next] IN
       IF d \in loaded
       THEN frame' = [frame EXCEPT ![depth].next = @ + 1] /\ UNCHANGED depth
       ELSE Push(d)
    /\ UNCHANGED <<loaded, free>>

\* The library is open; the module counts as loaded before its initializer runs.
\* Mutant: it does not yet.
OpenUnmarked ==
    /\ Loading
    /\ DependenciesDone
    /\ frame' = [frame EXCEPT ![depth].stage = "init"]
    /\ UNCHANGED <<loaded, depth, free>>
Open ==
    /\ Loading
    /\ DependenciesDone
    /\ loaded' = loaded \cup {Top.module}
    /\ frame' = [frame EXCEPT ![depth].stage = "init"]
    /\ UNCHANGED <<depth, free>>

\* An error goes through every load that waits for it as a dependency, up to the
\* initializer or the application that asked.
\* Mutant: the load that waits goes on without its dependency.
UnwindIgnored ==
    /\ depth' = depth - 1
    /\ frame' = [i \in Levels |->
                    IF i = depth THEN NoFrame
                    ELSE IF i = depth - 1 /\ frame[i].stage = "deps"
                    THEN [frame[i] EXCEPT !.next = @ + 1] ELSE frame[i]]
Unwind ==
    \E k \in 0..depth :
        /\ k > 0 => frame[k].stage = "init"
        /\ \A i \in (k + 1)..depth : frame[i].stage = "deps"
        /\ depth' = k
        /\ frame' = [i \in Levels |-> IF i > k THEN NoFrame ELSE frame[i]]

\* The library cannot be opened.
OpenFails ==
    /\ Loading
    /\ DependenciesDone
    /\ Unwind
    /\ UNCHANGED <<loaded, free>>

\* The initializer returned; what it returned is not looked at.
Initialized ==
    /\ depth > 0
    /\ Top.stage = "init"
    /\ depth' = depth - 1
    /\ frame' = [frame EXCEPT ![depth] = NoFrame]
    /\ UNCHANGED <<loaded, free>>

---------------------------------------------------------------------------
(* nh_core_freeLoader() *)

\* isUnloadAllowed()
\* Mutant: nothing holds a module back.
UnloadAllowedAlways(m) == TRUE
UnloadAllowed(m) == Blockers[m] \cap loaded = {}

NewScan == [state |-> "on", pos |-> 1, needed |-> FALSE]

BeginFree ==
    /\ free.state = "off"
    /\ depth = 0
    /\ free' = NewScan
    /\ UNCHANGED <<loaded, frame, depth>>

Scanning == free.state = "on" /\ free.pos <= Len(Order)
Scanned == Order[free.pos]

\* The scan passes a module that is not loaded, or has to wait.
\* Mutant: one that has to wait is forgotten.
SkipForgets ==
    /\ Scanning
    /\ ~UnloadAllowed(Scanned) \/ Scanned \notin loaded
    /\ free' = [free EXCEPT !.pos = @ + 1]
    /\ UNCHANGED <<loaded, frame, depth>>
Skip ==
    /\ Scanning
    /\ ~UnloadAllowed(Scanned) \/ Scanned \notin loaded
    /\ free' = [free EXCEPT !.pos = @ + 1, !.needed = @ \/ Scanned \in loaded]
    /\ UNCHANGED <<loaded, frame, depth>>

\* unloadModule(): run the terminator, close the library, forget the module.
UnloadModule ==
    /\ Scanning
    /\ UnloadAllowed(Scanned)
    /\ Scanned \in loaded
    /\ loaded' = loaded \ {Scanned}
    /\ free' = [free EXCEPT !.pos = @ + 1]
    /\ UNCHANGED <<frame, depth>>

\* The library cannot be closed: the error ends freeLoader().
CloseFails ==
    /\ Scanning
    /\ UnloadAllowed(Scanned)
    /\ Scanned \in loaded
    /\ Unload
    /\ free' = [free EXCEPT !.state = "failed"]
    /\ UNCHANGED <<loaded, frame, depth>>

\* The end of the scan: another one, or nothing is loaded any more.
\* Mutant: unloadNeeded is not reset for the next scan.
EndScanKeepsNeeded ==
    /\ free.state = "on"
    /\ free.pos > Len(Order)
    /\ free' = IF free.needed THEN [free EXCEPT !.pos = 1] ELSE [free EXCEPT !.state = "done"]
    /\ UNCHANGED <<loaded, frame, depth>>
EndScan ==
    /\ free.state = "on"
    /\ free.pos > Len(Order)
    /\ free' = IF free.needed THEN NewScan ELSE [free EXCEPT !.state = "done"]
    /\ UNCHANGED <<loaded, frame, depth>>

\* freeLoader() returned: not a deadlock.
Freed ==
    /\ free.state \in {"done", "failed"}
    /\ UNCHANGED vars

---------------------------------------------------------------------------
(* The specification *)

Init ==
    /\ loaded = {Core}
    /\ frame = [i \in Levels |-> NoFrame]
    /\ depth = 0
    /\ free = [state |-> "off", pos |-> 1, needed |-> FALSE]

Freeing == Skip \/ UnloadModule \/ CloseFails \/ EndScan

Next ==
    \/ \E m \in Modules : Load(m)
    \/ LoadDependency
    \/ Open
    \/ OpenFails
    \/ Initialized
    \/ BeginFree
    \/ Freeing
    \/ Freed

Spec == Init /\ [][Next]_vars

\* freeLoader() is one loop on the main thread: it goes on until it returns.
FairSpec == Spec /\ WF_vars(Freeing)

---------------------------------------------------------------------------
(* Properties *)

Frames == [module : Modules, stage : {"none", "deps", "init"}, next : Nat \ {0}]

\* Every variable has its type, a frame above the top is empty and none below it is, and
\* the loader is freed only when no load is in progress.
TypeOK ==
    /\ loaded \subseteq Modules
    /\ Core \in loaded
    /\ frame \in [Levels -> Frames]
    /\ depth \in 0..MaxDepth
    /\ free \in [state : {"off", "on", "done", "failed"}, pos : Nat \ {0}, needed : BOOLEAN]
    /\ \A i \in Levels : IF i > depth THEN frame[i] = NoFrame ELSE frame[i].stage # "none"
    /\ free.state # "off" => depth = 0

\* A module is loaded only while everything it depends on is (nh_core_load() gives up when a
\* dependency cannot be loaded), until the loader is freed.
DependenciesLoaded ==
    free.state = "off" => \A m \in loaded : Needs(m) \subseteq loaded

\* No initializer runs twice, whatever the initializers ask the loader for: a module is not
\* being loaded when it is loaded already, nor by two calls at once.
InitializedOnce ==
    \A i \in 1..depth :
        /\ frame[i].stage = "deps" => frame[i].module \notin loaded
        /\ \A j \in 1..depth : frame[j].module = frame[i].module => i = j

\* The inductive invariant: a module that waits for its library has the dependencies it passed,
\* and one whose initializer runs is loaded;
FramesOK ==
    \A i \in 1..depth :
        IF frame[i].stage = "init" THEN frame[i].module \in loaded
        ELSE \A j \in 1..Len(Dependencies[frame[i].module]) :
                j < frame[i].next => Dependencies[frame[i].module][j] \in loaded

\* a load is always for a module of a lower rank than the load that asked for it;
RankDecreases ==
    \A i, j \in 1..depth : i < j => Rank[frame[j].module] < Rank[frame[i].module]

\* unloadNeeded tells the truth about the part of the scan that is behind.
ScanOK ==
    /\ free.state \in {"on", "done"} /\ ~free.needed =>
            \A i \in 1..Len(Order) : i < free.pos => Order[i] \notin loaded
    /\ free.state = "done" => ~free.needed /\ free.pos > Len(Order)

LoaderInv ==
    /\ TypeOK
    /\ DependenciesLoaded
    /\ InitializedOnce
    /\ FramesOK
    /\ RankDecreases
    /\ ScanOK

\* Apart from the unordered ones, a module is unloaded before the modules it depends on: its
\* terminator finds them as its initializer did (nh_core_isUnloadAllowed, nh_core_freeLoader).
DependenciesHeld ==
    \A m \in loaded : \A d \in Needs(m) : d \in loaded \/ <<m, d>> \in Unordered

\* When nh_core_freeLoader() succeeds only nh-core is left.
FreedAll == free.state = "done" => loaded = {Core}

\* nh_core_freeLoader() returns: no modules block each other for ever.
FreeEnds == (free.state = "on") ~> (free.state \in {"done", "failed"})
=============================================================================
