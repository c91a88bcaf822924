---------------------------- MODULE MCLogMonitor ----------------------------
(* A log with two nodes, one of whose messages replaces another, for TLC. *)
EXTENDS LogMonitor

Message(n, r) == [node |-> n, replace |-> r]
MCMessages == <<Message("ab", 0), Message("ab", 0), Message("b", 1), Message("ab", 1), Message("b", 0)>>

\* A record is the first byte of the name, the rest of it with the separators, and the text.
MCNameFrom == <<"ab", 1>> :> "ab" @@ <<"ab", 2>> :> "b" @@ <<"b", 1>> :> "b" @@ <<"b", 2>> :> "" @@ <<"", 1>> :> ""
=============================================================================
