-------------------------- MODULE MC_ActorRuntime ---------------------------
(* An instance of ActorRuntime for TLC.                                     *)
EXTENDS ActorRuntime, TLC

CONSTANTS n1, n2, i1, s1, s2

\* s2 is due when it is scheduled, s1 later.
MCDeadline == (s1 :> 1) @@ (s2 :> 0)
=============================================================================
