---------------------------- MODULE MCContainers ----------------------------
(***************************************************************************)
(* A ring buffer, a list and an array, each used by itself: kind says      *)
(* which of the three a behaviour is about.                                *)
(***************************************************************************)
EXTENDS Ring, Lists, Arrays

VARIABLE kind

MCInit == RingInit /\ ListInit /\ ArrayInit /\ kind \in {"ring", "list", "array"}

UseRing == kind = "ring" /\ RingNext /\ UNCHANGED <<listVars, arrayVars, kind>>
UseList == kind = "list" /\ ListNext /\ UNCHANGED <<ringVars, arrayVars, kind>>
UseArray == kind = "array" /\ ArrayNext /\ UNCHANGED <<ringVars, listVars, kind>>

MCSpec == MCInit /\ [][UseRing \/ UseList \/ UseArray]_<<ringVars, listVars, arrayVars, kind>>
=============================================================================
