-------------------------------- MODULE Family --------------------------------
(***************************************************************************)
(* What the supervision tree promises, without the queues, the trackers,   *)
(* the handlers and the two steps of a spawn, which module Supervision     *)
(* has.  A parent keeps a child, in one of its groups, until it learns     *)
(* that the child has ended.  Once it is terminating it tells its children *)
(* to end, group by group in the order of the termination sequence, never  *)
(* without somebody to wait for, and it stops by itself exactly when it    *)
(* has nobody left.  Nothing but that, stop(), a failed start or a panic   *)
(* ends an actor.                                                          *)
(***************************************************************************)
EXTENDS Naturals, Sequences

CONSTANTS Ids, Actors, Tasks, Groups, NoGroup, Prioritized, Root, Panicky, Nobody

VARIABLES
  life,     \* of an actor or task: unborn, running, leaving, ended or panicked
  parent,   \* who has spawned it
  kin,      \* the group of each child a running actor still keeps
  told,     \* the groups whose children it has told to end
  closing,  \* its termination has begun
  ending,   \* will it end: "no", by a "graceful" shutdown, the "hard" way
  asked     \* somebody has asked the actor or task to end

vars == <<life, parent, kin, told, closing, ending, asked>>

NoKin == [c \in Ids |-> NoGroup]

Init ==
  /\ life = [x \in Ids |-> IF x = Root THEN "running" ELSE "unborn"]
  /\ parent = [x \in Ids |-> Nobody]
  /\ kin = [a \in Actors |-> NoKin]
  /\ told = [a \in Actors |-> {}]
  /\ closing = [a \in Actors |-> FALSE]
  /\ ending = [a \in Actors |-> "no"]
  /\ asked = [x \in Ids |-> FALSE]

Ask(S) == asked' = [x \in Ids |-> asked[x] \/ x \in S]

\* h comes before g in the termination sequence; every prioritized group comes
\* before one that is not in the sequence.
Precedes(h, g) ==
  \E i \in DOMAIN Prioritized :
    /\ Prioritized[i] = h
    /\ \A j \in DOMAIN Prioritized : Prioritized[j] = g => i < j
-----------------------------------------------------------------------------
Spawn(a, c, g) ==
  /\ life[a] = "running" /\ life[c] = "unborn"
  /\ life' = [life EXCEPT ![c] = "running"]
  /\ parent' = [parent EXCEPT ![c] = a]
  /\ kin' = [kin EXCEPT ![a] = [@ EXCEPT ![c] = g]]
  /\ UNCHANGED <<told, closing, ending, asked>>

\* An actor is asked by anybody, a task by its parent.
AskToEnd ==
  /\ UNCHANGED <<life, parent, kin, told, closing, ending>>
  /\ \E S \in SUBSET {x \in Ids : life[x] # "unborn"} : Ask(S)

\* The termination of `a`, left with the children of k, goes on: further groups
\* are told, none of them while a group before it has a child.  With no child
\* left the actor stops, else it waits for a child of a group that was told.
Advance(a, k) ==
  \E G \in SUBSET Groups :
    /\ told[a] \subseteq G
    /\ \A g \in G \ told[a], h \in Groups : Precedes(h, g) => \A c \in Ids : k[c] # h
    /\ closing' = [closing EXCEPT ![a] = TRUE]
    /\ told' = [told EXCEPT ![a] = G]
    /\ Ask({c \in Ids : k[c] \in G \ told[a]})
    /\ \/ /\ k = NoKin
          /\ ending' = [ending EXCEPT ![a] = IF @ = "no" THEN "graceful" ELSE @]
       \/ /\ \E c \in Ids : k[c] \in G
          /\ UNCHANGED ending

Terminate(a) ==
  /\ life[a] = "running"
  /\ Advance(a, kin[a])
  /\ UNCHANGED <<life, parent, kin>>

\* A notice of the end of a child: it comes once, after the end, and reaches
\* only an actor that goes on.
Learn(a, c) ==
  /\ life[a] = "running" /\ ending[a] = "no"
  /\ kin[a][c] # NoGroup /\ parent[c] = a /\ life[c] = "ended"
  /\ LET k == [kin[a] EXCEPT ![c] = NoGroup] IN
     /\ kin' = [kin EXCEPT ![a] = k]
     /\ \/ closing[a] /\ Advance(a, k)
        \/ ~closing[a] /\ UNCHANGED <<told, closing, ending, asked>>
  /\ UNCHANGED <<life, parent>>

StopHard(a) ==
  /\ life[a] = "running"
  /\ ending' = [ending EXCEPT ![a] = "hard"]
  /\ UNCHANGED <<life, parent, kin, told, closing, asked>>
-----------------------------------------------------------------------------
\* What `a` kept is let go with its loop.
Forget(a) ==
  /\ kin' = [kin EXCEPT ![a] = NoKin]
  /\ told' = [told EXCEPT ![a] = {}]
  /\ closing' = [closing EXCEPT ![a] = FALSE]

Leave(a) ==
  /\ life[a] = "running" /\ ending[a] # "no"
  /\ life' = [life EXCEPT ![a] = "leaving"]
  /\ Forget(a)
  /\ UNCHANGED <<parent, ending, asked>>

\* The start of the actor fails, or its code panics.
Break(a) ==
  /\ life[a] = "running"
  /\ \/ life' = [life EXCEPT ![a] = "leaving"]
     \/ a \in Panicky /\ life' = [life EXCEPT ![a] = "panicked"]
  /\ Forget(a)
  /\ ending' = [ending EXCEPT ![a] = "hard"]
  /\ UNCHANGED <<parent, asked>>

TaskEnds(t) ==
  /\ life[t] = "running"
  /\ \/ life' = [life EXCEPT ![t] = "leaving"]
     \/ t \in Panicky /\ life' = [life EXCEPT ![t] = "panicked"]
  /\ UNCHANGED <<parent, kin, told, closing, ending, asked>>

End(x) ==
  /\ life[x] = "leaving"
  /\ life' = [life EXCEPT ![x] = "ended"]
  /\ UNCHANGED <<parent, kin, told, closing, ending, asked>>

Next ==
  \/ AskToEnd
  \/ \E a \in Actors :
       \/ \E c \in Ids : Learn(a, c) \/ \E g \in Groups : Spawn(a, c, g)
       \/ Terminate(a) \/ StopHard(a) \/ Leave(a) \/ Break(a)
  \/ \E t \in Tasks : TaskEnds(t)
  \/ \E x \in Ids : End(x)

Spec == Init /\ [][Next]_vars
=============================================================================
