--------------------------- MODULE LifetimeTracker ---------------------------
(***************************************************************************)
(* The data structure every actor uses to remember what it has spawned and *)
(* in which order it has to be terminated (meio/src/lifecycle.rs, struct   *)
(* LifetimeTracker).  A tracker is a record                                *)
(*                                                                         *)
(*   terminating   the termination of the owner has started                *)
(*   stages        for every group: does the stage exist in the HashMap,   *)
(*                 is it terminating, which ids belong to it               *)
(*   records       for every id: its group, or NoGroup if it has no Record *)
(*                                                                         *)
(* The operators below are the methods of the tracker, as functions from a *)
(* tracker to a tracker.  What a method sends (record.interrupt()) is      *)
(* returned by a companion operator, a set of ids.                         *)
(***************************************************************************)
EXTENDS Naturals, Sequences, FiniteSets

CONSTANTS
  Ids,          \* ids of the actors and tasks that can be spawned
  Groups,       \* values of the associated type Actor::GroupBy
  NoGroup,      \* "no Record for this id"
  Prioritized   \* GroupBy::termination_sequence(), a sequence of groups

ASSUME TrackerAssumption ==
  /\ NoGroup \notin Groups
  /\ Prioritized \in Seq(Groups)
  /\ IsFiniteSet(Groups)
-----------------------------------------------------------------------------
\* A stage of the HashMap `stages`; an absent one looks like Stage::default().
Stage == [present : BOOLEAN, terminating : BOOLEAN, ids : SUBSET Ids]

NoStage == [present |-> FALSE, terminating |-> FALSE, ids |-> {}]

Tracker ==
  [terminating : BOOLEAN,
   stages      : [Groups -> Stage],
   records     : [Ids -> Groups \cup {NoGroup}]]

new ==
  [terminating |-> FALSE,
   stages      |-> [g \in Groups |-> NoStage],
   records     |-> [i \in Ids |-> NoGroup]]

tracked(t) == {i \in Ids : t.records[i] # NoGroup}

\* Mutant: an empty stage counts as finished although it is not terminating.
EmptyIsFinished(stage) == stage.ids = {}

stage_is_finished(stage) == stage.terminating /\ stage.ids = {}

\* Vacuously true for a tracker without stages.
is_finished(t) ==
  \A g \in Groups : t.stages[g].present => stage_is_finished(t.stages[g])
-----------------------------------------------------------------------------
\* Mutant: the id is added to the stage, and no Record is kept.
InsertWithoutRecord(t, id, group) ==
  [t EXCEPT !.stages[group] = [present     |-> TRUE,
                               terminating |-> @.terminating,
                               ids         |-> @.ids \cup {id}]]

\* insert and insert_task differ in the notifier only.
insert(t, id, group) ==
  [terminating |-> t.terminating,
   stages      |-> [t.stages EXCEPT ![group] = [present     |-> TRUE,
                                                terminating |-> @.terminating,
                                                ids         |-> @.ids \cup {id}]],
   records     |-> [t.records EXCEPT ![id] = group]]

\* Mutant: a late child is not interrupted.
NoLateInterrupt(t, id, group) == {}

\* A child added to a stage that is terminating is interrupted at once.
insert_interrupts(t, id, group) ==
  IF t.stages[group].terminating THEN {id} ELSE {}

\* terminate_group interrupts the ids of a stage and marks nothing.
terminate_group_interrupts(t, group) ==
  t.stages[group].ids \cap tracked(t)
-----------------------------------------------------------------------------
Orderings(S) ==
  {f \in [1 .. Cardinality(S) -> S] : \A x \in S : \E i \in DOMAIN f : f[i] = x}

InSequence(g) == \E i \in DOMAIN Prioritized : Prioritized[i] = g

\* The groups that have a stage and no place in the termination sequence are
\* appended in the iteration order of a HashSet, a new one at every call: any
\* order, and not the same one each time.
remained(t) == {g \in Groups : t.stages[g].present /\ ~InSequence(g)}

stage_sequence(t) == {Prioritized \o rest : rest \in Orderings(remained(t))}

\* Mutant: the loop has no `break`.
ReachedWithoutBreak(t, sequence) == {g \in Groups : t.stages[g].present}

\* Mutant: the loop stops at the first stage, finished or not.
ReachedFirstOnly(t, sequence) ==
  {g \in Groups :
     /\ t.stages[g].present
     /\ \E i \in DOMAIN sequence :
          sequence[i] = g /\ \A j \in 1 .. (i - 1) : ~t.stages[sequence[j]].present}

\* The stages the `for` loop of try_terminate_next visits: the loop leaves at
\* the first stage which, once marked, is not finished, i.e. still has ids.
reached(t, sequence) ==
  {g \in Groups :
     /\ t.stages[g].present
     /\ \E i \in DOMAIN sequence :
          /\ sequence[i] = g
          /\ \A j \in 1 .. (i - 1) :
               t.stages[sequence[j]].present => t.stages[sequence[j]].ids = {}}

try_terminate_next(t, sequence) ==
  [terminating |-> TRUE,
   stages      |-> [g \in Groups |-> IF g \in reached(t, sequence)
                                     THEN [t.stages[g] EXCEPT !.terminating = TRUE]
                                     ELSE t.stages[g]],
   records     |-> t.records]

\* Mutant: the stages are marked, and nobody is interrupted.
MarkOnly(t, sequence) == {}

terminate_next_interrupts(t, sequence) ==
  {id \in tracked(t) : \E g \in reached(t, sequence) :
                          ~t.stages[g].terminating /\ id \in t.stages[g].ids}

without(stage, id) == [stage EXCEPT !.ids = @ \ {id}]

\* Mutant: the Record goes, the id stays in its stage.
RemoveRecordOnly(t, id) == [t EXCEPT !.records[id] = NoGroup]

\* The first half of remove(): take the Record and clear the id of its stage.
\* remove() goes on with try_terminate_next if the tracker is terminating.
remove_record(t, id) ==
  IF t.records[id] = NoGroup
  THEN t
  ELSE [terminating |-> t.terminating,
        stages      |-> [t.stages EXCEPT ![t.records[id]] = without(@, id)],
        records     |-> [t.records EXCEPT ![id] = NoGroup]]
-----------------------------------------------------------------------------
\* The two HashMaps agree, an id belongs to the stage its record names and to
\* no other one; only a stage that is there has ids or is terminating, and
\* none is before the termination has started.
Consistent(t) ==
  \A g \in Groups :
    /\ \A i \in Ids : i \in t.stages[g].ids <=> t.records[i] = g
    /\ ~t.stages[g].present => t.stages[g].ids = {} /\ ~t.stages[g].terminating
    /\ ~t.terminating => ~t.stages[g].terminating
=============================================================================
