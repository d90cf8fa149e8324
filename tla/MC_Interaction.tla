--------------------------- MODULE MC_Interaction ---------------------------
(* An instance of Interaction for TLC.                                      *)
EXTENDS Interaction, TLC

CONSTANTS front, back

\* The front awaits the back inside its handlers, never the other way round.
MCLayer == (front :> 1) @@ (back :> 0)
=============================================================================
