--------------------------- MODULE MC_Supervision ---------------------------
(* Instances of Supervision for TLC: a root, an actor and a task in any      *)
(* shape, with children in two groups or in one.                            *)
EXTENDS Supervision, TLC

CONSTANTS root, kid, job, g1, g2

MCActors == {root, kid}
MCTasks == {job}
MCIds == MCActors \cup MCTasks
MCGroups == {g1, g2}
OneGroup == {g1}

\* g2 is not in the sequence, so it comes last.
MCSequence == <<g1>>
=============================================================================
