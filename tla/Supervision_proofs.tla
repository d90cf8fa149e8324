------------------------- MODULE Supervision_proofs -------------------------
(***************************************************************************)
(* Theorems about Supervision, for every set of actors, tasks and groups   *)
(* and every termination sequence.  First the trackers: their stages and   *)
(* records agree, and stages terminate in order.  Then parents and         *)
(* children: no child escapes its parent, a graceful shutdown leaves       *)
(* nobody behind, an actor stops only when it was told to, and a           *)
(* termination does not stall.  Last, the refinement: the whole tree keeps *)
(* the promise of module Family.                                           *)
(***************************************************************************)
EXTENDS Supervision, FiniteSetTheorems, WellFoundedInduction, TLAPS

USE SupervisionAssumption, TrackerAssumption
-----------------------------------------------------------------------------
(* What the methods of a tracker return.                                    *)

\* A new tracker has no records, and no stage is there or terminating.
LEMMA NewFacts ==
  /\ new \in Tracker
  /\ ~new.terminating
  /\ \A g \in Groups : new.stages[g] = NoStage
  /\ \A i \in Ids : new.records[i] = NoGroup
  BY DEF new, Tracker, Stage, NoStage

\* insert() adds the id to one stage, which is there then, and to the records.
LEMMA InsertFacts ==
  ASSUME NEW t \in Tracker, NEW id \in Ids, NEW g \in Groups
  PROVE  LET u == insert(t, id, g) IN
         /\ u \in Tracker
         /\ u.terminating = t.terminating
         /\ u.records = [t.records EXCEPT ![id] = g]
         /\ \A h \in Groups : u.stages[h].terminating = t.stages[h].terminating
         /\ \A h \in Groups : h # g => u.stages[h] = t.stages[h]
         /\ u.stages[g].present
         /\ u.stages[g].ids = t.stages[g].ids \cup {id}
<1> DEFINE s == [present |-> TRUE, terminating |-> t.stages[g].terminating,
                 ids |-> t.stages[g].ids \cup {id}]
<1>1. s \in Stage
  BY DEF Tracker, Stage
<1>2. insert(t, id, g) = [terminating |-> t.terminating,
                          stages      |-> [t.stages EXCEPT ![g] = s],
                          records     |-> [t.records EXCEPT ![id] = g]]
  BY DEF insert, Tracker
<1>3. [t.stages EXCEPT ![g] = s] \in [Groups -> Stage]
  BY <1>1 DEF Tracker
<1>4. [t.records EXCEPT ![id] = g] \in [Ids -> Groups \cup {NoGroup}]
  BY DEF Tracker
<1>5. insert(t, id, g) \in Tracker
  BY <1>2, <1>3, <1>4 DEF Tracker
<1>6. t.stages \in [Groups -> Stage]
  BY DEF Tracker
<1> QED BY <1>2, <1>3, <1>5, <1>6

\* try_terminate_next() marks the stages it reaches, and nothing else changes.
LEMMA TerminateNextFacts ==
  ASSUME NEW t \in Tracker, NEW sequence
  PROVE  LET u == try_terminate_next(t, sequence) IN
         /\ u \in Tracker
         /\ u.terminating
         /\ u.records = t.records
         /\ \A g \in Groups :
              /\ u.stages[g].present = t.stages[g].present
              /\ u.stages[g].ids = t.stages[g].ids
              /\ u.stages[g].terminating
                   = (t.stages[g].terminating \/ g \in reached(t, sequence))
<1> DEFINE mark(s) == [s EXCEPT !.terminating = TRUE]
           st == [g \in Groups |-> IF g \in reached(t, sequence)
                                   THEN mark(t.stages[g]) ELSE t.stages[g]]
<1>1. \A s \in Stage : /\ mark(s) \in Stage
                       /\ mark(s).terminating = TRUE
                       /\ mark(s).present = s.present
                       /\ mark(s).ids = s.ids
  BY DEF Stage
<1>2. \A g \in Groups : t.stages[g] \in Stage /\ t.stages[g].terminating \in BOOLEAN
  BY DEF Tracker, Stage
<1>3. try_terminate_next(t, sequence) = [terminating |-> TRUE,
                                         stages      |-> st,
                                         records     |-> t.records]
  BY DEF try_terminate_next, Tracker
<1> HIDE DEF mark
<1>4. st \in [Groups -> Stage]
  BY <1>1, <1>2
<1>5. try_terminate_next(t, sequence) \in Tracker
  BY <1>3, <1>4 DEF Tracker
<1>6. ASSUME NEW g \in Groups
      PROVE  /\ st[g].present = t.stages[g].present
             /\ st[g].ids = t.stages[g].ids
             /\ st[g].terminating = (t.stages[g].terminating \/ g \in reached(t, sequence))
  <2>1. CASE g \in reached(t, sequence)
    BY <2>1, <1>1, <1>2
  <2>2. CASE g \notin reached(t, sequence)
    BY <2>2, <1>1, <1>2
  <2> QED BY <2>1, <2>2
<1> HIDE DEF st
<1> QED BY <1>3, <1>5, <1>6

\* remove() clears the record of the id and takes it out of its stage.
LEMMA RemoveFacts ==
  ASSUME NEW t \in Tracker, NEW id \in Ids
  PROVE  LET u == remove_record(t, id) IN
         /\ u \in Tracker
         /\ u.terminating = t.terminating
         /\ u.records = [t.records EXCEPT ![id] = NoGroup]
         /\ \A g \in Groups :
              /\ u.stages[g].present = t.stages[g].present
              /\ u.stages[g].terminating = t.stages[g].terminating
              /\ u.stages[g].ids = IF t.records[id] = g THEN t.stages[g].ids \ {id}
                                                        ELSE t.stages[g].ids
<1> DEFINE k == t.records[id]
           st == [t.stages EXCEPT ![k] = without(t.stages[k], id)]
<1>1. \A s \in Stage : /\ without(s, id) \in Stage
                       /\ without(s, id).terminating = s.terminating
                       /\ without(s, id).present = s.present
                       /\ without(s, id).ids = s.ids \ {id}
  BY DEF Stage, without
<1>2. t.stages \in [Groups -> Stage]
  BY DEF Tracker
<1>3. CASE k = NoGroup
  <2>1. [t.records EXCEPT ![id] = NoGroup] = t.records
    BY <1>3 DEF Tracker
  <2> QED BY <1>3, <2>1 DEF remove_record
<1>4. CASE k # NoGroup
  <2>1. k \in Groups
    BY <1>4 DEF Tracker
  <2>2. remove_record(t, id) = [terminating |-> t.terminating,
                                stages      |-> st,
                                records     |-> [t.records EXCEPT ![id] = NoGroup]]
    BY <1>4 DEF remove_record
  <2>3. st \in [Groups -> Stage]
    BY <2>1, <1>1, <1>2
  <2>4. remove_record(t, id) \in Tracker
    BY <2>2, <2>3 DEF Tracker
  <2>5. ASSUME NEW g \in Groups
        PROVE  /\ st[g].present = t.stages[g].present
               /\ st[g].terminating = t.stages[g].terminating
               /\ st[g].ids = IF k = g THEN t.stages[g].ids \ {id} ELSE t.stages[g].ids
    <3>1. st[g] = IF k = g THEN without(t.stages[g], id) ELSE t.stages[g]
      BY <1>2
    <3> QED BY <3>1, <1>1, <1>2
  <2> HIDE DEF st
  <2>6. /\ remove_record(t, id).terminating = t.terminating
        /\ remove_record(t, id).records = [t.records EXCEPT ![id] = NoGroup]
        /\ remove_record(t, id).stages = st
    BY <2>2
  <2> QED BY <2>4, <2>5, <2>6
<1> QED BY <1>3, <1>4

\* Interrupting a set of ids keeps the queues and the flags well typed.
LEMMA InterruptsType ==
  ASSUME NEW queues \in [Actors -> Seq(Parcel)], asked \in [Ids -> BOOLEAN],
         NEW S, Interrupts(queues, S)
  PROVE  hp' \in [Actors -> Seq(Parcel)] /\ asked' \in [Ids -> BOOLEAN]
<1>1. \A b \in Actors : Interrupt(b) \in Parcel
  BY DEF Interrupt, Parcel
<1> QED BY <1>1 DEF Interrupts, Delivered, AskedOf

\* What insert() leaves is a tracker.
LEMMA InsertType ==
  ASSUME NEW t \in Tracker, NEW id \in Ids, NEW g \in Groups
  PROVE  insert(t, id, g) \in Tracker
  BY InsertFacts, ZenonT(90)

\* What remove() leaves is a tracker.
LEMMA RemoveType ==
  ASSUME NEW t \in Tracker, NEW id \in Ids
  PROVE  remove_record(t, id) \in Tracker
  BY RemoveFacts, ZenonT(90)

\* stop() keeps the type of its flag.
LEMMA StopType ==
  ASSUME alive \in [Actors -> BOOLEAN], NEW a \in Actors, stop(a) \/ alive' = alive
  PROVE  alive' \in [Actors -> BOOLEAN]
  BY DEF stop

\* The common part of shutdown() and of a Done parcel keeps the types.
LEMMA TerminateNextStepType ==
  ASSUME NEW a \in Actors, NEW t \in Tracker, NEW queues \in [Actors -> Seq(Parcel)],
         TypeOK, TerminateNext(a, t, queues)
  PROVE  /\ tracker' \in [Actors -> Tracker]
         /\ hp' \in [Actors -> Seq(Parcel)] /\ asked' \in [Ids -> BOOLEAN]
         /\ alive' \in [Actors -> BOOLEAN]
<1>1. PICK sequence \in stage_sequence(t) :
        /\ tracker' = [tracker EXCEPT ![a] = try_terminate_next(t, sequence)]
        /\ Interrupts(queues, terminate_next_interrupts(t, sequence))
        /\ IF is_finished(try_terminate_next(t, sequence)) THEN stop(a) ELSE UNCHANGED alive
  BY DEF TerminateNext
<1>2. tracker' \in [Actors -> Tracker]
  BY <1>1, TerminateNextFacts DEF TypeOK
<1>3. hp' \in [Actors -> Seq(Parcel)] /\ asked' \in [Ids -> BOOLEAN]
  BY <1>1, InterruptsType DEF TypeOK
<1>4. alive' \in [Actors -> BOOLEAN]
  <2>1. alive \in [Actors -> BOOLEAN]
    BY DEF TypeOK
  <2>2. stop(a) \/ alive' = alive
    BY <1>1
  <2> QED BY <2>1, <2>2, StopType
<1> QED BY <1>2, <1>3, <1>4
-----------------------------------------------------------------------------
(* Type correctness.                                                        *)

\* The types hold initially.
LEMMA TypeInit == Init => TypeOK
<1> SUFFICES ASSUME Init PROVE TypeOK
  OBVIOUS
<1>1. \A a \in Actors : new \in Tracker
  BY NewFacts
<1> QED BY <1>1 DEF Init, TypeOK, Phases

\* Every step keeps the types.
LEMMA TypeStep ==
  ASSUME TypeOK, [Next]_vars
  PROVE  TypeOK'
<1> USE DEF TypeOK
<1>1. ASSUME NEW a \in Actors, NEW c \in Ids, NEW g \in Groups, Spawn(a, c, g)
      PROVE  TypeOK'
  BY <1>1 DEF Spawn, Phases, InHandler
<1>2. ASSUME NEW a \in Actors, Insert(a)
      PROVE  TypeOK'
  <2> DEFINE c == pending[a][1]
             g == pending[a][2]
  <2>1. c \in Ids /\ g \in Groups
    BY <1>2 DEF Insert
  <2>2. tracker' \in [Actors -> Tracker]
    <3>1. insert(tracker[a], c, g) \in Tracker
      BY <2>1, InsertType
    <3> QED BY <1>2, <3>1 DEF Insert
  <2>3. hp' \in [Actors -> Seq(Parcel)] /\ asked' \in [Ids -> BOOLEAN]
    BY <1>2, InterruptsType DEF Insert
  <2> QED BY <1>2, <2>2, <2>3 DEF Insert
<1>3. ASSUME NEW a \in Actors, Stop(a)
      PROVE  TypeOK'
  BY <1>3 DEF Stop, stop
<1>4. ASSUME NEW a \in Actors, shutdown(a)
      PROVE  TypeOK'
  <2>1. TerminateNext(a, tracker[a], hp)
    BY <1>4 DEF shutdown
  <2> QED BY <1>4, <2>1, TerminateNextStepType DEF shutdown
<1>5. ASSUME NEW a \in Actors, NEW g \in Groups, terminate_group(a, g)
      PROVE  TypeOK'
  <2>1. hp' \in [Actors -> Seq(Parcel)] /\ asked' \in [Ids -> BOOLEAN]
    BY <1>5, InterruptsType DEF terminate_group
  <2> QED BY <1>5, <2>1 DEF terminate_group
<1>6. ASSUME NEW a \in Actors, interrupt(a)
      PROVE  TypeOK'
  <2>1. hp' \in [Actors -> Seq(Parcel)] /\ asked' \in [Ids -> BOOLEAN]
    BY <1>6, InterruptsType DEF interrupt
  <2> QED BY <1>6, <2>1 DEF interrupt
<1>7. ASSUME NEW a \in Actors, RecvDone(a)
      PROVE  TypeOK'
  <2> DEFINE t == remove_record(tracker[a], Head(hp[a]).id)
             queues == [hp EXCEPT ![a] = Tail(@)]
  <2>1. Head(hp[a]).id \in Ids
    <3>1. Head(hp[a]) \in Parcel
      BY <1>7 DEF RecvDone
    <3> QED BY <3>1 DEF Parcel
  <2>2. t \in Tracker
    BY <2>1, RemoveType
  <2>3. queues \in [Actors -> Seq(Parcel)]
    BY <1>7 DEF RecvDone
  <2>4. /\ tracker' \in [Actors -> Tracker]
        /\ hp' \in [Actors -> Seq(Parcel)] /\ asked' \in [Ids -> BOOLEAN]
        /\ alive' \in [Actors -> BOOLEAN]
    <3>1. CASE TerminateNext(a, t, queues)
      BY <3>1, <2>2, <2>3, TerminateNextStepType
    <3>2. CASE /\ tracker' = [tracker EXCEPT ![a] = t]
               /\ Interrupts(queues, {})
               /\ IF is_finished(t) THEN stop(a) ELSE UNCHANGED alive
      <4>1. hp' \in [Actors -> Seq(Parcel)] /\ asked' \in [Ids -> BOOLEAN]
        BY <3>2, <2>3, InterruptsType
      <4>2. alive' \in [Actors -> BOOLEAN]
        <5>1. stop(a) \/ alive' = alive
          BY <3>2
        <5> QED BY <5>1, StopType
      <4>3. tracker' \in [Actors -> Tracker]
        BY <3>2, <2>2
      <4> QED BY <4>1, <4>2, <4>3
    <3> QED BY <1>7, <3>1, <3>2 DEF RecvDone
  <2> QED BY <1>7, <2>4 DEF RecvDone
<1>8. ASSUME NEW a \in Actors,
             \/ RecvInterrupt(a) \/ RecvMessage(a) \/ HandlerReturns(a)
             \/ AwakeFails(a) \/ LeaveLoop(a)
      PROVE  TypeOK'
  <2>1. CASE RecvInterrupt(a)
    BY <2>1 DEF RecvInterrupt
  <2>2. CASE RecvMessage(a) \/ HandlerReturns(a)
    BY <2>2 DEF RecvMessage, HandlerReturns
  <2>3. CASE AwakeFails(a)
    BY <2>3 DEF AwakeFails, Phases
  <2>4. CASE LeaveLoop(a)
    BY <2>4 DEF LeaveLoop, Phases
  <2> QED BY <1>8, <2>1, <2>2, <2>3, <2>4
<1>9. ASSUME NEW a \in Actors, Release(a) \/ Panic(a)
      PROVE  TypeOK'
  <2>0. Drop(a)
    BY <1>9 DEF Release, Panic
  <2>1. tracker' \in [Actors -> Tracker] /\ hp' \in [Actors -> Seq(Parcel)]
    <3>1. new \in Tracker
      BY NewFacts
    <3>2. tracker' \in [Actors -> Tracker]
      BY <2>0, <3>1 DEF Drop
    <3>3. hp' \in [Actors -> Seq(Parcel)]
      BY <2>0 DEF Drop
    <3> QED BY <3>2, <3>3
  <2>2. phase' \in [Ids -> Phases]
    BY <1>9 DEF Release, Panic, Phases
  <2> QED BY <1>9, <2>1, <2>2 DEF Release, Panic
<1>10. ASSUME NEW x \in Ids, NotifyDone(x)
       PROVE  TypeOK'
  <2>1. Done(x) \in Parcel
    BY DEF Done, Parcel
  <2> QED BY <1>10, <2>1 DEF NotifyDone, Phases
<1>11. ASSUME NEW t \in Tasks, TaskReturns(t) \/ TaskPanics(t)
       PROVE  TypeOK'
  BY <1>11 DEF TaskReturns, TaskPanics, Phases
<1>12. CASE UNCHANGED vars
  BY <1>12 DEF vars
<1> QED
  BY <1>1, <1>2, <1>3, <1>4, <1>5, <1>6, <1>7, <1>8, <1>9, <1>10, <1>11, <1>12
     DEF Next, HandlerStep, RuntimeStep, AllOver

\* Every reachable state is well typed: in particular whatever is in a
\* high-priority queue is a Done or an Interrupt parcel about a real id, and
\* the trackers only hold what was spawned.
THEOREM TypeCorrect == Spec => []TypeOK
<1>1. Init => TypeOK
  BY TypeInit
<1>2. TypeOK /\ [Next]_vars => TypeOK'
  BY TypeStep
<1> QED BY <1>1, <1>2, PTL DEF Spec
-----------------------------------------------------------------------------
(* What a step can do to one tracker and to one phase.                      *)

\* The tracker of an actor changes in five ways only.
LEMMA TrackerStep ==
  ASSUME TypeOK, [Next]_vars, NEW a \in Actors
  PROVE  \/ tracker'[a] = tracker[a]
         \/ Insert(a)
         \/ shutdown(a)
         \/ RecvDone(a)
         \/ (Release(a) \/ Panic(a)) /\ tracker'[a] = new
<1>1. ASSUME NEW b \in Actors, HandlerStep(b) \/ RuntimeStep(b) \/ interrupt(b), b # a
      PROVE  tracker'[a] = tracker[a]
  BY <1>1 DEF TypeOK, HandlerStep, RuntimeStep, interrupt, Spawn, Stop, shutdown,
     terminate_group, HandlerReturns, AwakeFails, Panic, Insert, RecvDone, RecvInterrupt,
     RecvMessage, LeaveLoop, Release, Drop, TerminateNext
<1>2. ASSUME \/ \E c \in Ids, g \in Groups : Spawn(a, c, g)
             \/ Stop(a) \/ (\E g \in Groups : terminate_group(a, g))
             \/ HandlerReturns(a) \/ AwakeFails(a) \/ RecvInterrupt(a) \/ RecvMessage(a)
             \/ LeaveLoop(a) \/ interrupt(a)
             \/ (\E x \in Ids : NotifyDone(x))
             \/ (\E t \in Tasks : TaskReturns(t) \/ TaskPanics(t))
             \/ UNCHANGED vars
      PROVE  tracker'[a] = tracker[a]
  BY <1>2 DEF Spawn, Stop, terminate_group, HandlerReturns, AwakeFails, RecvInterrupt,
     RecvMessage, LeaveLoop, interrupt, NotifyDone, TaskReturns, TaskPanics, vars
<1>3. ASSUME Release(a) \/ Panic(a)
      PROVE  tracker'[a] = new
  BY <1>3 DEF TypeOK, Release, Panic, Drop
<1>4. CASE \E b \in Actors : (HandlerStep(b) \/ RuntimeStep(b) \/ interrupt(b)) /\ b # a
  BY <1>1, <1>4
<1>5. CASE HandlerStep(a) \/ RuntimeStep(a)
  BY <1>2, <1>3, <1>5 DEF HandlerStep, RuntimeStep
<1> QED BY <1>2, <1>4, <1>5 DEF Next, AllOver

\* What has ended stays ended, what has been spawned stays spawned.
LEMMA PhaseStep ==
  ASSUME TypeOK, [Next]_vars, NEW x \in Ids
  PROVE  /\ Ended(x) => Ended(x)'
         /\ phase[x] # "unborn" => phase'[x] # "unborn"
<1>1. ASSUME NEW b \in Actors, HandlerStep(b) \/ RuntimeStep(b) \/ interrupt(b)
      PROVE  /\ Ended(x) => Ended(x)'
             /\ phase[x] # "unborn" => phase'[x] # "unborn"
  BY <1>1 DEF TypeOK, Ended, HandlerStep, RuntimeStep, interrupt, Spawn, Stop, shutdown,
     terminate_group, HandlerReturns, AwakeFails, Panic, Insert, RecvDone, RecvInterrupt,
     RecvMessage, LeaveLoop, Release, InHandler, AtLoop
<1>2. ASSUME \/ \E y \in Ids : NotifyDone(y)
             \/ \E t \in Tasks : TaskReturns(t) \/ TaskPanics(t)
             \/ UNCHANGED vars
      PROVE  /\ Ended(x) => Ended(x)'
             /\ phase[x] # "unborn" => phase'[x] # "unborn"
  BY <1>2 DEF TypeOK, Ended, NotifyDone, TaskReturns, TaskPanics, vars
<1> QED BY <1>1, <1>2 DEF Next, AllOver
-----------------------------------------------------------------------------
(* The trackers are consistent.                                             *)

\* A new tracker is consistent.
LEMMA NewConsistent == Consistent(new)
  BY NewFacts DEF Consistent, NoStage

\* Inserting an id without a record keeps a tracker consistent.
LEMMA InsertConsistent ==
  ASSUME NEW t \in Tracker, NEW id \in Ids, NEW g \in Groups,
         Consistent(t), t.records[id] = NoGroup
  PROVE  Consistent(insert(t, id, g))
<1> DEFINE u == insert(t, id, g)
<1>1. /\ u.terminating = t.terminating
      /\ u.records = [t.records EXCEPT ![id] = g]
      /\ \A h \in Groups : u.stages[h].terminating = t.stages[h].terminating
      /\ \A h \in Groups : h # g => u.stages[h] = t.stages[h]
      /\ u.stages[g].present
      /\ u.stages[g].ids = t.stages[g].ids \cup {id}
  BY InsertFacts
<1>2. t.records \in [Ids -> Groups \cup {NoGroup}]
  BY DEF Tracker
<1> HIDE DEF u
<1>3. ASSUME NEW h \in Groups
      PROVE  /\ \A i \in Ids : i \in u.stages[h].ids <=> u.records[i] = h
             /\ ~u.stages[h].present => u.stages[h].ids = {} /\ ~u.stages[h].terminating
             /\ ~u.terminating => ~u.stages[h].terminating
  <2>1. CASE h = g
    BY <1>1, <1>2, <2>1 DEF Consistent
  <2>2. CASE h # g
    BY <1>1, <1>2, <2>2 DEF Consistent
  <2> QED BY <2>1, <2>2
<1> QED BY <1>3 DEF Consistent, u

\* So does marking stages that are there.
LEMMA TerminateNextConsistent ==
  ASSUME NEW t \in Tracker, NEW sequence, Consistent(t)
  PROVE  Consistent(try_terminate_next(t, sequence))
<1> DEFINE u == try_terminate_next(t, sequence)
<1>1. /\ u.terminating /\ u.records = t.records
      /\ \A g \in Groups :
           /\ u.stages[g].present = t.stages[g].present
           /\ u.stages[g].ids = t.stages[g].ids
           /\ u.stages[g].terminating = (t.stages[g].terminating \/ g \in reached(t, sequence))
  BY TerminateNextFacts
<1>2. \A g \in reached(t, sequence) : t.stages[g].present
  BY DEF reached
<1> HIDE DEF u
<1>3. ASSUME NEW g \in Groups
      PROVE  /\ \A i \in Ids : i \in u.stages[g].ids <=> u.records[i] = g
             /\ ~u.stages[g].present => u.stages[g].ids = {} /\ ~u.stages[g].terminating
             /\ ~u.terminating => ~u.stages[g].terminating
  <2>1. \A i \in Ids : i \in u.stages[g].ids <=> u.records[i] = g
    BY <1>1 DEF Consistent
  <2>2. ASSUME ~u.stages[g].present
        PROVE  u.stages[g].ids = {} /\ ~u.stages[g].terminating
    <3>1. ~t.stages[g].present
      BY <1>1, <2>2
    <3>2. t.stages[g].ids = {} /\ ~t.stages[g].terminating
      BY <3>1 DEF Consistent
    <3>3. g \notin reached(t, sequence)
      BY <3>1, <1>2
    <3> QED BY <1>1, <3>2, <3>3
  <2> QED BY <2>1, <2>2, <1>1
<1> QED BY <1>3 DEF Consistent, u

\* And removing an id.
LEMMA RemoveConsistent ==
  ASSUME NEW t \in Tracker, NEW id \in Ids, Consistent(t)
  PROVE  Consistent(remove_record(t, id))
<1> DEFINE u == remove_record(t, id)
<1>1. /\ u.terminating = t.terminating
      /\ u.records = [t.records EXCEPT ![id] = NoGroup]
      /\ \A g \in Groups :
           /\ u.stages[g].present = t.stages[g].present
           /\ u.stages[g].terminating = t.stages[g].terminating
           /\ u.stages[g].ids = IF t.records[id] = g THEN t.stages[g].ids \ {id}
                                                     ELSE t.stages[g].ids
  BY RemoveFacts, ZenonT(90)
<1>2. t.records \in [Ids -> Groups \cup {NoGroup}]
  BY DEF Tracker
<1> HIDE DEF u
<1>3. ASSUME NEW g \in Groups
      PROVE  /\ \A i \in Ids : i \in u.stages[g].ids <=> u.records[i] = g
             /\ ~u.stages[g].present => u.stages[g].ids = {} /\ ~u.stages[g].terminating
             /\ ~u.terminating => ~u.stages[g].terminating
  <2>1. \A i \in Ids : i \in t.stages[g].ids <=> t.records[i] = g
    BY DEF Consistent
  <2>2. \A i \in Ids : i \in u.stages[g].ids <=> u.records[i] = g
    <3> TAKE i \in Ids
    <3>1. u.records[i] = IF i = id THEN NoGroup ELSE t.records[i]
      BY <1>1, <1>2
    <3>2. u.stages[g].ids = IF t.records[id] = g THEN t.stages[g].ids \ {id} ELSE t.stages[g].ids
      BY <1>1
    <3>3. NoGroup # g
      OBVIOUS
    <3>4. CASE t.records[id] = g
      BY <2>1, <3>1, <3>2, <3>3, <3>4
    <3>5. CASE t.records[id] # g
      BY <2>1, <3>1, <3>2, <3>3, <3>5
    <3> QED BY <3>4, <3>5
  <2>3. ~u.stages[g].present => u.stages[g].ids = {} /\ ~u.stages[g].terminating
    BY <1>1 DEF Consistent
  <2>4. ~u.terminating => ~u.stages[g].terminating
    BY <1>1 DEF Consistent
  <2> QED BY <2>2, <2>3, <2>4
<1> QED BY <1>3 DEF Consistent, u

\* A RecvDone step leaves one of two trackers.
LEMMA RecvDoneTracker ==
  ASSUME TypeOK, NEW a \in Actors, RecvDone(a)
  PROVE  /\ Head(hp[a]).id \in Ids
         /\ LET t == remove_record(tracker[a], Head(hp[a]).id) IN
              \/ tracker'[a] = t
              \/ \E sequence \in stage_sequence(t) : tracker'[a] = try_terminate_next(t, sequence)
<1>1. Head(hp[a]).id \in Ids
  <2>1. Head(hp[a]) \in Parcel
    BY DEF RecvDone, TypeOK
  <2> QED BY <2>1 DEF Parcel
<1> QED BY <1>1 DEF RecvDone, TerminateNext, TypeOK

\* Every step keeps the trackers consistent.
LEMMA ConsistentStep ==
  ASSUME TypeOK, TrackersConsistent, [Next]_vars
  PROVE  TrackersConsistent'
<1> SUFFICES ASSUME NEW a \in Actors
             PROVE  /\ Consistent(tracker'[a])
                    /\ \A c \in Ids : tracker'[a].records[c] # NoGroup => phase'[c] # "unborn"
                    /\ pending'[a] # <<>> =>
                         /\ phase'[a] = "running" /\ handler'[a] # "none"
                         /\ phase'[pending'[a][1]] # "unborn"
                         /\ tracker'[a].records[pending'[a][1]] = NoGroup
  BY DEF TrackersConsistent, Consistent
<1> DEFINE t == tracker[a]
<1>1. t \in Tracker /\ Consistent(t)
  BY DEF TypeOK, TrackersConsistent
<1>2. \A c \in Ids : phase[c] # "unborn" => phase'[c] # "unborn"
  BY PhaseStep
<1>3. \A c \in Ids : t.records[c] # NoGroup => phase'[c] # "unborn"
  BY <1>2 DEF TrackersConsistent
<1>4. pending[a] # <<>> => pending[a] \in Ids \X Groups
  BY DEF TypeOK
<1>5. CASE Insert(a)
  <2> DEFINE c == pending[a][1]
             g == pending[a][2]
  <2>1. c \in Ids /\ g \in Groups /\ t.records[c] = NoGroup /\ phase[c] # "unborn"
    BY <1>4, <1>5 DEF Insert, TrackersConsistent
  <2>2. tracker'[a] = insert(t, c, g)
    BY <1>5 DEF Insert, TypeOK
  <2>3. pending'[a] = <<>>
    BY <1>5 DEF Insert, TypeOK
  <2>4. tracker'[a].records = [t.records EXCEPT ![c] = g]
    BY <2>1, <2>2, <1>1, InsertFacts
  <2>5. Consistent(tracker'[a])
    BY <2>1, <2>2, <1>1, InsertConsistent
  <2>6. t.records \in [Ids -> Groups \cup {NoGroup}]
    BY <1>1 DEF Tracker
  <2>7. \A i \in Ids : tracker'[a].records[i] # NoGroup => phase'[i] # "unborn"
    BY <2>1, <2>4, <2>6, <1>2, <1>3
  <2> QED BY <2>3, <2>5, <2>7
<1>6. CASE shutdown(a)
  <2>1. PICK sequence \in stage_sequence(t) : tracker'[a] = try_terminate_next(t, sequence)
    BY <1>6 DEF shutdown, TerminateNext, TypeOK
  <2>2. tracker'[a].records = t.records /\ Consistent(tracker'[a])
    BY <2>1, <1>1, TerminateNextFacts, TerminateNextConsistent
  <2>3. pending'[a] = <<>>
    BY <1>6 DEF shutdown, InHandler
  <2> QED BY <2>2, <2>3, <1>3
<1>7. CASE RecvDone(a)
  <2> DEFINE id == Head(hp[a]).id
             r == remove_record(t, id)
  <2>1. id \in Ids /\ (\/ tracker'[a] = r
                       \/ \E sequence \in stage_sequence(r) : tracker'[a] = try_terminate_next(r, sequence))
    BY <1>7, RecvDoneTracker
  <2>2. r \in Tracker /\ r.records = [t.records EXCEPT ![id] = NoGroup] /\ Consistent(r)
    BY <2>1, <1>1, RemoveFacts, RemoveConsistent
  <2> HIDE DEF r
  <2>3. tracker'[a].records = r.records /\ Consistent(tracker'[a])
    BY <2>1, <2>2, TerminateNextFacts, TerminateNextConsistent
  <2>4. pending'[a] = <<>>
    BY <1>7 DEF RecvDone, AtLoop, TrackersConsistent
  <2>5. t.records \in [Ids -> Groups \cup {NoGroup}]
    BY <1>1 DEF Tracker
  <2>6. \A c \in Ids : tracker'[a].records[c] # NoGroup => phase'[c] # "unborn"
    BY <2>1, <2>2, <2>3, <2>5, <1>3
  <2> QED BY <2>3, <2>4, <2>6
<1>8. CASE (Release(a) \/ Panic(a)) /\ tracker'[a] = new
  <2>1. pending'[a] = <<>>
    BY <1>8 DEF Release, Panic, InHandler, TrackersConsistent
  <2> QED BY <1>8, <2>1, NewFacts, NewConsistent
<1>9. CASE tracker'[a] = t
  <2>1. Consistent(tracker'[a]) /\ \A c \in Ids : tracker'[a].records[c] # NoGroup => phase'[c] # "unborn"
    BY <1>1, <1>3, <1>9
  <2>2. ASSUME pending'[a] # <<>>
        PROVE  /\ phase'[a] = "running" /\ handler'[a] # "none"
               /\ phase'[pending'[a][1]] # "unborn"
               /\ t.records[pending'[a][1]] = NoGroup
    <3>1. ASSUME NEW c \in Ids, NEW g \in Groups, Spawn(a, c, g)
          PROVE  /\ phase'[a] = "running" /\ handler'[a] # "none"
                 /\ phase'[pending'[a][1]] # "unborn"
                 /\ t.records[pending'[a][1]] = NoGroup
      <4>1. pending'[a] = <<c, g>> /\ phase[c] = "unborn" /\ phase' = [phase EXCEPT ![c] = "running"]
        BY <3>1 DEF Spawn, TypeOK
      <4>2. phase[a] = "running" /\ handler[a] # "none" /\ a # c
        BY <3>1, <4>1 DEF Spawn, InHandler
      <4>3. phase'[a] = "running" /\ phase'[c] = "running"
        BY <4>1, <4>2 DEF TypeOK
      <4>4. handler'[a] = handler[a]
        BY <3>1, <4>2 DEF Spawn, TypeOK
      <4>5. t.records[c] = NoGroup
        BY <4>1 DEF TrackersConsistent
      <4> QED BY <4>1, <4>2, <4>3, <4>4, <4>5
    <3>2. CASE pending'[a] = pending[a] /\ phase'[a] = phase[a] /\ handler'[a] = handler[a]
      <4>1. pending[a] # <<>> /\ pending[a][1] \in Ids
        BY <2>2, <3>2, <1>4
      <4> QED BY <3>2, <4>1, <1>2 DEF TrackersConsistent
    <3>3. \/ \E c \in Ids, g \in Groups : Spawn(a, c, g)
          \/ pending'[a] = <<>>
          \/ pending'[a] = pending[a] /\ phase'[a] = phase[a] /\ handler'[a] = handler[a]
      <4>1. pending[a] # <<>> => phase[a] = "running" /\ handler[a] # "none"
        BY DEF TrackersConsistent
      <4>2. ASSUME NEW b \in Actors, HandlerStep(b) \/ RuntimeStep(b) \/ interrupt(b), b # a
            PROVE  \/ pending'[a] = <<>>
                   \/ pending'[a] = pending[a] /\ phase'[a] = phase[a] /\ handler'[a] = handler[a]
        BY <4>1, <4>2 DEF TypeOK, HandlerStep, RuntimeStep, interrupt, Spawn, Stop, shutdown,
           terminate_group, HandlerReturns, AwakeFails, Panic, Insert, RecvDone, RecvInterrupt,
           RecvMessage, LeaveLoop, Release
      <4>3. ASSUME HandlerStep(a) \/ RuntimeStep(a) \/ interrupt(a),
                   ~\E c \in Ids, g \in Groups : Spawn(a, c, g)
            PROVE  \/ pending'[a] = <<>>
                   \/ pending'[a] = pending[a] /\ phase'[a] = phase[a] /\ handler'[a] = handler[a]
        BY <4>1, <4>3 DEF TypeOK, HandlerStep, RuntimeStep, interrupt, InHandler, AtLoop, Stop,
           shutdown, terminate_group, HandlerReturns, AwakeFails, Panic, Insert, RecvDone,
           RecvInterrupt, RecvMessage, LeaveLoop, Release
      <4>4. ASSUME \/ \E y \in Ids : NotifyDone(y)
                   \/ \E x \in Tasks : TaskReturns(x) \/ TaskPanics(x)
                   \/ UNCHANGED vars
            PROVE  \/ pending'[a] = <<>>
                   \/ pending'[a] = pending[a] /\ phase'[a] = phase[a] /\ handler'[a] = handler[a]
        BY <4>1, <4>4 DEF TypeOK, NotifyDone, TaskReturns, TaskPanics, vars
      <4> QED BY <4>2, <4>3, <4>4 DEF Next, AllOver
    <3> QED BY <2>2, <3>1, <3>2, <3>3
  <2> QED BY <1>9, <2>1, <2>2
<1> QED BY <1>5, <1>6, <1>7, <1>8, <1>9, TrackerStep

\* The stages and the records of every tracker agree in every reachable
\* state: insert() never finds a record of the id it inserts, so remove()
\* takes the id out of the only stage that holds it.
THEOREM ConsistentTrackers == Spec => []TrackersConsistent
<1>1. Init => TrackersConsistent
  BY NewFacts, NewConsistent DEF Init, TrackersConsistent
<1>2. TypeOK /\ TrackersConsistent /\ [Next]_vars => TrackersConsistent'
  BY ConsistentStep
<1> QED BY <1>1, <1>2, TypeCorrect, PTL DEF Spec
-----------------------------------------------------------------------------
(* Who is in a terminating stage has been interrupted.                      *)

\* insert() and remove() mark no stage, and the ids of a stage change by the
\* one id at most.
LEMMA InsertStage ==
  ASSUME NEW t \in Tracker, NEW id \in Ids, NEW k \in Groups, NEW g \in Groups
  PROVE  /\ insert(t, id, k).stages[g].terminating <=> t.stages[g].terminating
         /\ \A c : c \in insert(t, id, k).stages[g].ids
                    => c \in t.stages[g].ids \/ (c = id /\ g = k)
<1> DEFINE u == insert(t, id, k)
<1>1. /\ u.terminating = t.terminating
      /\ u.records = [t.records EXCEPT ![id] = k]
      /\ \A h \in Groups : u.stages[h].terminating = t.stages[h].terminating
      /\ \A h \in Groups : h # k => u.stages[h] = t.stages[h]
      /\ u.stages[k].present
      /\ u.stages[k].ids = t.stages[k].ids \cup {id}
  BY InsertFacts
<1> HIDE DEF u
<1> QED BY <1>1 DEF u

\* remove() leaves the marks of the stages and adds nobody to a stage.
LEMMA RemoveStage ==
  ASSUME NEW t \in Tracker, NEW id \in Ids, NEW g \in Groups
  PROVE  /\ remove_record(t, id) \in Tracker
         /\ remove_record(t, id).stages[g].terminating <=> t.stages[g].terminating
         /\ remove_record(t, id).stages[g].ids \subseteq t.stages[g].ids
<1> DEFINE u == remove_record(t, id)
<1>1. /\ u \in Tracker
      /\ \A h \in Groups :
           /\ u.stages[h].present = t.stages[h].present
           /\ u.stages[h].terminating = t.stages[h].terminating
           /\ u.stages[h].ids = IF t.records[id] = h THEN t.stages[h].ids \ {id}
                                                     ELSE t.stages[h].ids
  BY RemoveFacts, ZenonT(90)
<1> HIDE DEF u
<1> QED BY <1>1 DEF u

\* A step that calls Interrupts() asks the whole set, and forgets nobody.
LEMMA InterruptsAsk ==
  ASSUME TypeOK, NEW queues, NEW S, Interrupts(queues, S), NEW x \in Ids
  PROVE  asked'[x] = (asked[x] \/ x \in S)
  BY DEF Interrupts, AskedOf

\* asked is never taken back.
LEMMA AskedStep ==
  ASSUME TypeOK, [Next]_vars, NEW x \in Ids, asked[x]
  PROVE  asked'[x]
<1>1. ASSUME NEW queues, NEW S, Interrupts(queues, S)
      PROVE  asked'[x]
  BY <1>1, InterruptsAsk
<1>2. ASSUME NEW b \in Actors, HandlerStep(b) \/ RuntimeStep(b) \/ interrupt(b)
      PROVE  asked'[x]
  BY <1>1, <1>2 DEF HandlerStep, RuntimeStep, interrupt, Spawn, Stop, shutdown, terminate_group,
     HandlerReturns, AwakeFails, Panic, Insert, RecvDone, RecvInterrupt, RecvMessage, LeaveLoop,
     Release, TerminateNext
<1>3. ASSUME \/ \E y \in Ids : NotifyDone(y)
             \/ \E t \in Tasks : TaskReturns(t) \/ TaskPanics(t)
             \/ UNCHANGED vars
      PROVE  asked'[x]
  BY <1>3 DEF NotifyDone, TaskReturns, TaskPanics, vars
<1> QED BY <1>2, <1>3 DEF Next, AllOver

\* The stages try_terminate_next() marks are interrupted as a whole.
LEMMA TerminateNextAsks ==
  ASSUME TypeOK, NEW a \in Actors, NEW t \in Tracker, Consistent(t), NEW queues,
         TerminateNext(a, t, queues), NEW g \in Groups, NEW c \in Ids,
         c \in tracker'[a].stages[g].ids, tracker'[a].stages[g].terminating,
         t.stages[g].terminating => asked[c]
  PROVE  asked'[c]
<1>1. PICK sequence \in stage_sequence(t) :
        /\ tracker'[a] = try_terminate_next(t, sequence)
        /\ Interrupts(queues, terminate_next_interrupts(t, sequence))
  BY DEF TerminateNext, TypeOK
<1>2. /\ c \in t.stages[g].ids
      /\ t.stages[g].terminating \/ g \in reached(t, sequence)
  <2> DEFINE u == try_terminate_next(t, sequence)
  <2>1. /\ u.stages[g].ids = t.stages[g].ids
        /\ u.stages[g].terminating = (t.stages[g].terminating \/ g \in reached(t, sequence))
    BY TerminateNextFacts
  <2> HIDE DEF u
  <2>2. tracker'[a] = u
    BY <1>1 DEF u
  <2> QED BY <2>1, <2>2
<1>3. asked'[c] = (asked[c] \/ c \in terminate_next_interrupts(t, sequence))
  BY <1>1, InterruptsAsk
<1>4. CASE t.stages[g].terminating
  BY <1>3, <1>4
<1>5. CASE ~t.stages[g].terminating
  <2>1. c \in tracked(t)
    BY <1>2 DEF tracked, Consistent
  <2>2. c \in terminate_next_interrupts(t, sequence)
    BY <1>2, <1>5, <2>1 DEF terminate_next_interrupts
  <2> QED BY <1>3, <2>2
<1> QED BY <1>4, <1>5

\* Every step keeps TerminatingStagesInterrupted.
LEMMA InterruptedStep ==
  ASSUME TypeOK, TrackersConsistent, TerminatingStagesInterrupted, [Next]_vars
  PROVE  TerminatingStagesInterrupted'
<1> SUFFICES ASSUME NEW a \in Actors, NEW g \in Groups, NEW c \in Ids,
                    tracker'[a].stages[g].terminating, c \in tracker'[a].stages[g].ids
             PROVE  asked'[c]
  BY DEF TerminatingStagesInterrupted
<1> DEFINE t == tracker[a]
<1>1. t \in Tracker /\ Consistent(t)
  BY DEF TypeOK, TrackersConsistent
<1>2. (t.stages[g].terminating /\ c \in t.stages[g].ids) => asked[c]
  BY DEF TerminatingStagesInterrupted
<1>3. asked[c] => asked'[c]
  BY AskedStep
<1>4. CASE tracker'[a] = t
  BY <1>2, <1>3, <1>4
<1>5. CASE Insert(a)
  <2> DEFINE i == pending[a][1]
             k == pending[a][2]
  <2>1. i \in Ids /\ k \in Groups
    BY <1>5 DEF Insert, TypeOK
  <2>2. tracker'[a] = insert(t, i, k) /\ Interrupts(hp, insert_interrupts(t, i, k))
    BY <1>5 DEF Insert, TypeOK
  <2> HIDE DEF i, k
  <2>3. asked'[c] = (asked[c] \/ c \in insert_interrupts(t, i, k))
    BY <2>2, InterruptsAsk
  <2>7. /\ insert(t, i, k).stages[g].terminating <=> t.stages[g].terminating
        /\ c \in insert(t, i, k).stages[g].ids => c \in t.stages[g].ids \/ (c = i /\ g = k)
    BY <2>1, <1>1, InsertStage
  <2>4. t.stages[g].terminating
    BY <2>7, <2>2
  <2>5. CASE c \in t.stages[g].ids
    BY <2>4, <2>5, <1>2, <1>3
  <2>6. CASE c \notin t.stages[g].ids
    <3>1. g = k /\ c = i
      BY <2>6, <2>7, <2>2
    <3>2. c \in insert_interrupts(t, i, k)
      BY <3>1, <2>4 DEF insert_interrupts
    <3> QED BY <3>2, <2>3
  <2> QED BY <2>5, <2>6
<1>6. CASE shutdown(a)
  <2>1. TerminateNext(a, t, hp)
    BY <1>6 DEF shutdown
  <2>2. c \in t.stages[g].ids
    BY <2>1, <1>1, TerminateNextFacts DEF TerminateNext, TypeOK
  <2> QED BY <2>1, <2>2, <1>1, <1>2, TerminateNextAsks
<1>7. CASE RecvDone(a)
  <2> DEFINE id == Head(hp[a]).id
             r == remove_record(t, id)
             queues == [hp EXCEPT ![a] = Tail(@)]
  <2>1. id \in Ids
    BY <1>7, RecvDoneTracker
  <2>2. /\ r \in Tracker /\ Consistent(r)
        /\ r.stages[g].terminating <=> t.stages[g].terminating
        /\ r.stages[g].ids \subseteq t.stages[g].ids
    <3>1. Consistent(r)
      BY <2>1, <1>1, RemoveConsistent
    <3> QED BY <2>1, <1>1, <3>1, RemoveStage
  <2>3. TerminateNext(a, r, queues) \/ tracker'[a] = r
    BY <1>7 DEF RecvDone, TypeOK
  <2> HIDE DEF r, queues
  <2>4. CASE TerminateNext(a, r, queues)
    <3>1. c \in r.stages[g].ids
      BY <2>4, <2>2, TerminateNextFacts DEF TerminateNext, TypeOK
    <3>2. r.stages[g].terminating => asked[c]
      BY <3>1, <2>2, <1>2
    <3> QED BY <2>2, <2>4, <3>2, TerminateNextAsks
  <2>5. CASE tracker'[a] = r
    BY <2>2, <2>5, <1>2, <1>3
  <2> QED BY <2>3, <2>4, <2>5
<1>8. CASE (Release(a) \/ Panic(a)) /\ tracker'[a] = new
  BY <1>8, NewFacts DEF NoStage
<1> QED BY <1>4, <1>5, <1>6, <1>7, <1>8, TrackerStep

\* In every reachable state everybody in a terminating stage has been told to
\* stop, however the spawning, the ending and the visits of stages interleave.
THEOREM TerminatingStagesAreInterrupted == Spec => []TerminatingStagesInterrupted
<1>1. Init => TerminatingStagesInterrupted
  BY NewFacts DEF Init, TerminatingStagesInterrupted, NoStage
<1>2. TypeOK /\ TrackersConsistent /\ TerminatingStagesInterrupted /\ [Next]_vars
        => TerminatingStagesInterrupted'
  BY InterruptedStep
<1> QED BY <1>1, <1>2, TypeCorrect, ConsistentTrackers, PTL DEF Spec
-----------------------------------------------------------------------------
(* The termination sequence is respected.                                   *)

\* The sequence a loop of try_terminate_next() runs through begins with the
\* prioritized groups.
LEMMA SequenceStartsPrioritized ==
  ASSUME NEW t, NEW sequence \in stage_sequence(t)
  PROVE  /\ DOMAIN sequence \subseteq Nat
         /\ \A i \in DOMAIN Prioritized : sequence[i] = Prioritized[i]
         /\ \A i \in DOMAIN Prioritized, k \in DOMAIN sequence :
              k \notin DOMAIN Prioritized => i < k
<1>1. PICK rest \in Orderings(remained(t)) : sequence = Prioritized \o rest
  BY DEF stage_sequence
<1>2. IsFiniteSet(remained(t)) /\ remained(t) \subseteq Groups
  BY FS_Subset DEF remained
<1>3. Cardinality(remained(t)) \in Nat
  BY <1>2, FS_CardinalityType
<1>4. rest \in Seq(Groups)
  BY <1>2, <1>3 DEF Orderings
<1>5. Prioritized \in Seq(Groups)
  OBVIOUS
<1> QED BY <1>1, <1>4, <1>5

\* A stage is reached only if the stages before it are empty.
LEMMA ReachedInOrder ==
  ASSUME NEW t \in Tracker, Consistent(t), NEW sequence \in stage_sequence(t),
         NEW g \in reached(t, sequence), NEW h \in Groups, Abstract!Precedes(h, g)
  PROVE  t.stages[h].ids = {}
<1>1. PICK k \in DOMAIN sequence :
        /\ sequence[k] = g
        /\ \A j \in 1 .. (k - 1) :
             t.stages[sequence[j]].present => t.stages[sequence[j]].ids = {}
  BY DEF reached
<1>2. PICK i \in DOMAIN Prioritized :
        /\ Prioritized[i] = h
        /\ \A j \in DOMAIN Prioritized : Prioritized[j] = g => i < j
  BY DEF Abstract!Precedes
<1>3. i < k
  BY <1>1, <1>2, SequenceStartsPrioritized
<1>4. i \in 1 .. (k - 1)
  <2>1. i \in Nat /\ i >= 1
    BY <1>2
  <2>2. k \in Nat
    BY SequenceStartsPrioritized
  <2> QED BY <2>1, <2>2, <1>3
<1>5. sequence[i] = h
  BY <1>2, SequenceStartsPrioritized
<1>6. t.stages[h].present => t.stages[h].ids = {}
  BY <1>1, <1>4, <1>5
<1> QED BY <1>6 DEF Consistent

\* The common part of shutdown() and of a Done parcel.
LEMMA TerminateNextOrdered ==
  ASSUME TypeOK, NEW a \in Actors, NEW t \in Tracker, Consistent(t), NEW queues,
         TerminateNext(a, t, queues), NEW g \in Groups, NEW h \in Groups, Abstract!Precedes(h, g),
         ~t.stages[g].terminating, tracker'[a].stages[g].terminating
  PROVE  tracker'[a].stages[h].ids = {}
<1>1. PICK sequence \in stage_sequence(t) : tracker'[a] = try_terminate_next(t, sequence)
  BY DEF TerminateNext, TypeOK
<1> DEFINE u == try_terminate_next(t, sequence)
<1>2. /\ u.stages[h].ids = t.stages[h].ids
      /\ u.stages[g].terminating = (t.stages[g].terminating \/ g \in reached(t, sequence))
  BY TerminateNextFacts
<1>3. tracker'[a] = u
  BY <1>1
<1> HIDE DEF u
<1>4. g \in reached(t, sequence)
  BY <1>2, <1>3
<1>5. t.stages[h].ids = {}
  BY <1>4, ReachedInOrder
<1> QED BY <1>2, <1>3, <1>5

\* The order of GroupBy::termination_sequence() is kept in every execution: a
\* stage is told to terminate only when the stages before it are empty.
THEOREM TerminationIsOrdered == Spec => OrderedTermination
<1> DEFINE Ordered == \A a \in Actors : \A g, h \in Groups :
                        (/\ ~tracker[a].stages[g].terminating
                         /\ tracker'[a].stages[g].terminating
                         /\ Abstract!Precedes(h, g))
                        => tracker'[a].stages[h].ids = {}
<1>1. ASSUME TypeOK, TrackersConsistent, [Next]_vars
      PROVE  Ordered
  <2> SUFFICES ASSUME NEW a \in Actors, NEW g \in Groups, NEW h \in Groups,
                      ~tracker[a].stages[g].terminating, tracker'[a].stages[g].terminating,
                      Abstract!Precedes(h, g)
               PROVE  tracker'[a].stages[h].ids = {}
    OBVIOUS
  <2> DEFINE t == tracker[a]
  <2>1. t \in Tracker /\ Consistent(t)
    BY <1>1 DEF TypeOK, TrackersConsistent
  <2>2. CASE tracker'[a] = t
    BY <2>2
  <2>3. CASE Insert(a)
    <3>1. pending[a][1] \in Ids /\ pending[a][2] \in Groups
      BY <1>1, <2>3 DEF Insert, TypeOK
    <3>2. tracker'[a] = insert(t, pending[a][1], pending[a][2])
      BY <1>1, <2>3 DEF Insert, TypeOK
    <3> QED BY <3>1, <3>2, <2>1, InsertStage
  <2>4. CASE shutdown(a)
    <3>1. TerminateNext(a, t, hp)
      BY <2>4 DEF shutdown
    <3> QED BY <1>1, <2>1, <3>1, TerminateNextOrdered
  <2>5. CASE RecvDone(a)
    <3> DEFINE r == remove_record(t, Head(hp[a]).id)
               queues == [hp EXCEPT ![a] = Tail(@)]
    <3>1. Head(hp[a]).id \in Ids
      BY <1>1, <2>5, RecvDoneTracker
    <3>2. r \in Tracker /\ Consistent(r) /\ (r.stages[g].terminating <=> t.stages[g].terminating)
      <4>1. r \in Tracker /\ (r.stages[g].terminating <=> t.stages[g].terminating)
        BY <3>1, <2>1, RemoveStage
      <4>2. Consistent(r)
        BY <3>1, <2>1, RemoveConsistent
      <4> QED BY <4>1, <4>2
    <3>3. TerminateNext(a, r, queues) \/ tracker'[a] = r
      BY <1>1, <2>5 DEF RecvDone, TypeOK
    <3> HIDE DEF r, queues
    <3>4. CASE TerminateNext(a, r, queues)
      BY <1>1, <3>2, <3>4, TerminateNextOrdered
    <3>5. CASE tracker'[a] = r
      BY <3>2, <3>5
    <3> QED BY <3>3, <3>4, <3>5
  <2>6. CASE (Release(a) \/ Panic(a)) /\ tracker'[a] = new
    BY <2>6, NewFacts DEF NoStage
  <2> QED BY <1>1, <2>2, <2>3, <2>4, <2>5, <2>6, TrackerStep
<1>2. TypeOK /\ TrackersConsistent /\ [Next]_vars => [Ordered]_vars
  BY <1>1
<1> HIDE DEF Ordered
<1>3. Spec => [][Ordered]_vars
  BY <1>2, TypeCorrect, ConsistentTrackers, PTL DEF Spec
<1> QED BY <1>3 DEF Ordered, OrderedTermination
-----------------------------------------------------------------------------
(* Queues.                                                                  *)

Has(queue, parcel) == \E i \in DOMAIN queue : queue[i] = parcel

Once(queue, parcel) ==
  \A i, j \in DOMAIN queue : queue[i] = parcel /\ queue[j] = parcel => i = j

\* A queue holds what it held and what has been put into it.
LEMMA HasAppend ==
  ASSUME NEW S, NEW queue \in Seq(S), NEW e \in S, NEW p
  PROVE  /\ Has(Append(queue, e), p) <=> Has(queue, p) \/ e = p
         /\ Once(queue, p) /\ (e = p => ~Has(queue, p)) => Once(Append(queue, e), p)
<1>1. /\ Append(queue, e) \in Seq(S)
      /\ Len(Append(queue, e)) = Len(queue) + 1
      /\ \A i \in 1 .. Len(queue) : Append(queue, e)[i] = queue[i]
      /\ Append(queue, e)[Len(queue) + 1] = e
  OBVIOUS
<1>2. /\ DOMAIN queue = 1 .. Len(queue) /\ Len(queue) \in Nat
      /\ DOMAIN Append(queue, e) = 1 .. Len(queue) + 1
  OBVIOUS
<1> DEFINE q == Append(queue, e)
<1> HIDE DEF q
<1>3. \A i \in 1 .. Len(queue) + 1 : i = Len(queue) + 1 \/ i \in 1 .. Len(queue)
  BY <1>2
<1> QED BY <1>1, <1>2, <1>3 DEF Has, Once, q

\* Taking the head of a queue takes nothing else.
LEMMA HasTail ==
  ASSUME NEW S, NEW queue \in Seq(S), queue # <<>>, NEW p
  PROVE  /\ Tail(queue) \in Seq(S) /\ Head(queue) \in S
         /\ Has(queue, p) <=> Has(Tail(queue), p) \/ Head(queue) = p
         /\ Once(queue, p) => Once(Tail(queue), p)
         /\ Once(queue, p) /\ Head(queue) = p => ~Has(Tail(queue), p)
<1>1. /\ Tail(queue) \in Seq(S) /\ Head(queue) \in S
      /\ Head(queue) = queue[1]
      /\ Len(queue) \in Nat /\ Len(queue) >= 1
      /\ DOMAIN queue = 1 .. Len(queue)
      /\ DOMAIN Tail(queue) = 1 .. Len(queue) - 1
      /\ \A i \in 1 .. Len(queue) - 1 : Tail(queue)[i] = queue[i + 1]
  OBVIOUS
<1> DEFINE q == Tail(queue)
           n == Len(queue)
<1> HIDE DEF q, n
<1>2. /\ n \in Nat /\ n >= 1 /\ DOMAIN queue = 1 .. n /\ DOMAIN q = 1 .. n - 1
      /\ \A i \in 1 .. n - 1 : q[i] = queue[i + 1]
      /\ Head(queue) = queue[1]
  BY <1>1 DEF q, n
<1>3. \A i \in 1 .. n : i = 1 \/ (i - 1 \in 1 .. n - 1 /\ q[i - 1] = queue[i])
  BY <1>2
<1>4. \A i \in 1 .. n - 1 : i + 1 \in 1 .. n /\ i + 1 # 1
  BY <1>2
<1>5. Has(queue, p) <=> Has(q, p) \/ Head(queue) = p
  <2>1. ASSUME NEW i \in 1 .. n, queue[i] = p
        PROVE  Has(q, p) \/ Head(queue) = p
    <3>1. CASE i = 1
      BY <2>1, <3>1, <1>2
    <3>2. CASE i # 1
      <4>1. i - 1 \in DOMAIN q /\ q[i - 1] = p
        BY <2>1, <3>2, <1>2, <1>3
      <4> QED BY <4>1 DEF Has
    <3> QED BY <3>1, <3>2
  <2>2. ASSUME NEW i \in 1 .. n - 1, q[i] = p
        PROVE  Has(queue, p)
    <3>1. i + 1 \in DOMAIN queue /\ queue[i + 1] = p
      BY <2>2, <1>2, <1>4
    <3> QED BY <3>1 DEF Has
  <2>3. Head(queue) = p => Has(queue, p)
    <3>1. 1 \in DOMAIN queue /\ queue[1] = Head(queue)
      BY <1>2
    <3> QED BY <3>1 DEF Has
  <2>4. DOMAIN queue = 1 .. n /\ DOMAIN q = 1 .. n - 1
    BY <1>2
  <2> QED BY <2>1, <2>2, <2>3, <2>4 DEF Has
<1>6. Once(queue, p) => Once(q, p)
  <2> SUFFICES ASSUME Once(queue, p), NEW i \in 1 .. n - 1, NEW j \in 1 .. n - 1,
                      q[i] = p, q[j] = p
               PROVE  i = j
    BY <1>2 DEF Once
  <2>1. /\ i + 1 \in DOMAIN queue /\ queue[i + 1] = p
        /\ j + 1 \in DOMAIN queue /\ queue[j + 1] = p
    BY <1>2, <1>4
  <2>2. i + 1 = j + 1
    BY <2>1 DEF Once
  <2> QED BY <2>2, <1>2
<1>7. Once(queue, p) /\ Head(queue) = p => ~Has(q, p)
  <2> SUFFICES ASSUME Once(queue, p), Head(queue) = p, NEW i \in 1 .. n - 1, q[i] = p
               PROVE  FALSE
    BY <1>2 DEF Has
  <2>1. /\ i + 1 \in DOMAIN queue /\ queue[i + 1] = p
        /\ 1 \in DOMAIN queue /\ queue[1] = p
    BY <1>2, <1>4
  <2>2. i + 1 = 1
    BY <2>1 DEF Once
  <2> QED BY <2>2, <1>4
<1> QED BY <1>1, <1>5, <1>6, <1>7 DEF q

\* InQueue, said of the queue alone.
LEMMA InQueueHas ==
  ASSUME NEW a, NEW p
  PROVE  InQueue(a, p) <=> Has(hp[a], p)
  BY DEF InQueue, Has

\* The two kinds of parcels are not mistaken for each other.
LEMMA Parcels ==
  ASSUME NEW c \in Ids, NEW d \in Ids
  PROVE  /\ Done(c) \in Parcel /\ Interrupt(c) \in Parcel
         /\ Done(c).op = "Done" /\ Interrupt(c).op = "Interrupt"
         /\ Done(c).id = c
         /\ Done(c) = Done(d) <=> c = d
         /\ Interrupt(d) # Done(c)
<1>1. Done(c) \in Parcel /\ Interrupt(c) \in Parcel
  BY DEF Done, Interrupt, Parcel
<1>2. Done(c).op = "Done" /\ Done(c).id = c /\ Done(d).id = d /\ Interrupt(d).op = "Interrupt"
      /\ Interrupt(c).op = "Interrupt"
  BY DEF Done, Interrupt
<1> QED BY <1>1, <1>2

\* A parcel whose operation is Done is the notice of its id.
LEMMA DoneParcel ==
  ASSUME NEW p \in Parcel, p.op = "Done"
  PROVE  p.id \in Ids /\ p = Done(p.id)
  BY DEF Parcel, Done
-----------------------------------------------------------------------------
(* What a step can do to one child and to one actor.                        *)

\* A child gets its parent when it is spawned.
LEMMA ParentStep ==
  ASSUME TypeOK, [Next]_vars, NEW c \in Ids
  PROVE  \/ parent'[c] = parent[c] /\ late'[c] = late[c]
         \/ \E b \in Actors, g \in Groups : Spawn(b, c, g)
<1>1. ASSUME NEW b \in Actors, NEW d \in Ids, NEW g \in Groups, Spawn(b, d, g), d # c
      PROVE  parent'[c] = parent[c] /\ late'[c] = late[c]
  BY <1>1 DEF Spawn, TypeOK
<1>2. ASSUME NEW b \in Actors,
             \/ Stop(b) \/ shutdown(b) \/ (\E g \in Groups : terminate_group(b, g))
             \/ HandlerReturns(b) \/ AwakeFails(b) \/ Panic(b) \/ RuntimeStep(b) \/ interrupt(b)
      PROVE  parent' = parent /\ late' = late
  BY <1>2 DEF Stop, shutdown, terminate_group, HandlerReturns, AwakeFails, Panic, RuntimeStep,
     Insert, RecvDone, RecvInterrupt, RecvMessage, LeaveLoop, Release, interrupt
<1>3. ASSUME \/ \E y \in Ids : NotifyDone(y)
             \/ \E t \in Tasks : TaskReturns(t) \/ TaskPanics(t)
             \/ UNCHANGED vars
      PROVE  parent' = parent /\ late' = late
  BY <1>3 DEF NotifyDone, TaskReturns, TaskPanics, vars
<1> QED BY <1>1, <1>2, <1>3 DEF Next, HandlerStep, AllOver

\* The steps of an entrypoint.
LEMMA PhaseCases ==
  ASSUME TypeOK, [Next]_vars, NEW x \in Ids
  PROVE  \/ phase'[x] = phase[x]
         \/ /\ phase[x] = "unborn" /\ phase'[x] = "running"
            /\ \E b \in Actors, g \in Groups : Spawn(b, x, g)
         \/ /\ phase[x] = "running" /\ phase'[x] = "finishing"
            /\ x \in Tasks \/ (x \in Actors /\ (hard'[x] \/ ~alive[x]))
         \/ phase[x] = "finishing" /\ NotifyDone(x) /\ phase'[x] \in {"notified", "dropped"}
         \/ phase[x] = "notified" /\ phase'[x] = "dropped"
         \/ phase[x] = "running" /\ phase'[x] = "panicked"
<1>1. ASSUME NEW b \in Actors, NEW d \in Ids, NEW g \in Groups, Spawn(b, d, g)
      PROVE  \/ phase'[x] = phase[x]
             \/ phase[x] = "unborn" /\ phase'[x] = "running" /\ x = d
  BY <1>1 DEF Spawn, TypeOK
<1>2. ASSUME NEW b \in Actors, AwakeFails(b) \/ LeaveLoop(b)
      PROVE  \/ phase'[x] = phase[x]
             \/ /\ phase[x] = "running" /\ phase'[x] = "finishing"
                /\ x \in Actors /\ (hard'[x] \/ ~alive[x])
  BY <1>2 DEF AwakeFails, LeaveLoop, InHandler, AtLoop, TypeOK
<1>3. ASSUME NEW b \in Actors, Release(b) \/ Panic(b)
      PROVE  \/ phase'[x] = phase[x]
             \/ phase[x] = "notified" /\ phase'[x] = "dropped"
             \/ phase[x] = "running" /\ phase'[x] = "panicked"
  BY <1>3 DEF Release, Panic, InHandler, TypeOK
<1>4. ASSUME NEW b \in Actors,
             \/ Stop(b) \/ shutdown(b) \/ (\E g \in Groups : terminate_group(b, g))
             \/ HandlerReturns(b) \/ Insert(b) \/ RecvDone(b) \/ RecvInterrupt(b)
             \/ RecvMessage(b) \/ interrupt(b)
      PROVE  phase'[x] = phase[x]
  BY <1>4 DEF Stop, shutdown, terminate_group, HandlerReturns, Insert, RecvDone, RecvInterrupt,
     RecvMessage, interrupt
<1>5. ASSUME NEW y \in Ids, NotifyDone(y)
      PROVE  \/ phase'[x] = phase[x]
             \/ phase[x] = "finishing" /\ NotifyDone(x) /\ phase'[x] \in {"notified", "dropped"}
  <2>1. /\ phase[y] = "finishing" /\ DOMAIN phase = Ids
        /\ phase' = [phase EXCEPT ![y] = IF y \in Actors THEN "notified" ELSE "dropped"]
    BY <1>5 DEF NotifyDone, TypeOK
  <2>2. CASE x = y
    BY <1>5, <2>1, <2>2
  <2>3. CASE x # y
    BY <2>1, <2>3
  <2> QED BY <2>2, <2>3
<1>6. ASSUME NEW t \in Tasks, TaskReturns(t) \/ TaskPanics(t)
      PROVE  \/ phase'[x] = phase[x]
             \/ phase[x] = "running" /\ phase'[x] = "finishing" /\ x \in Tasks
             \/ phase[x] = "running" /\ phase'[x] = "panicked"
  BY <1>6 DEF TaskReturns, TaskPanics, TypeOK
<1>7. CASE UNCHANGED vars
  BY <1>7 DEF vars
<1> QED BY <1>1, <1>2, <1>3, <1>4, <1>5, <1>6, <1>7 DEF Next, HandlerStep, RuntimeStep, AllOver

\* hard is never taken back, and an actor is stopped by stop() or when its
\* tracker is finished.
LEMMA AliveStep ==
  ASSUME TypeOK, [Next]_vars, NEW a \in Actors
  PROVE  /\ hard[a] => hard'[a]
         /\ \/ alive'[a] = alive[a]
            \/ hard'[a]
            \/ ~alive'[a] /\ (shutdown(a) \/ RecvDone(a)) /\ is_finished(tracker'[a])
<1>1. ASSUME NEW b \in Actors,
             \/ \E d \in Ids, g \in Groups : Spawn(b, d, g)
             \/ (\E g \in Groups : terminate_group(b, g)) \/ HandlerReturns(b) \/ Insert(b)
             \/ RecvInterrupt(b) \/ RecvMessage(b) \/ LeaveLoop(b) \/ Release(b) \/ interrupt(b)
      PROVE  hard' = hard /\ alive' = alive
  BY <1>1 DEF Spawn, terminate_group, HandlerReturns, Insert, RecvInterrupt, RecvMessage,
     LeaveLoop, Release, interrupt
<1>2. ASSUME NEW b \in Actors, Stop(b) \/ AwakeFails(b) \/ Panic(b)
      PROVE  /\ hard[a] => hard'[a]
             /\ alive'[a] = alive[a] \/ hard'[a]
  BY <1>2 DEF Stop, stop, AwakeFails, Panic, TypeOK
<1>3. ASSUME NEW b \in Actors, NEW t, NEW queues, TerminateNext(b, t, queues), b # a
      PROVE  alive'[a] = alive[a]
  BY <1>3 DEF TerminateNext, stop, TypeOK
<1>4. ASSUME NEW t, NEW queues, TerminateNext(a, t, queues)
      PROVE  alive'[a] = alive[a] \/ (~alive'[a] /\ is_finished(tracker'[a]))
  BY <1>4 DEF TerminateNext, stop, TypeOK
<1>5. ASSUME NEW b \in Actors, shutdown(b)
      PROVE  /\ hard' = hard
             /\ \/ alive'[a] = alive[a]
                \/ ~alive'[a] /\ shutdown(a) /\ is_finished(tracker'[a])
  <2>1. TerminateNext(b, tracker[b], hp) /\ hard' = hard
    BY <1>5 DEF shutdown
  <2> QED BY <1>3, <1>4, <1>5, <2>1
<1>6. ASSUME NEW b \in Actors, RecvDone(b)
      PROVE  /\ hard' = hard
             /\ \/ alive'[a] = alive[a]
                \/ ~alive'[a] /\ RecvDone(a) /\ is_finished(tracker'[a])
  <2> DEFINE t == remove_record(tracker[b], Head(hp[b]).id)
             queues == [hp EXCEPT ![b] = Tail(@)]
  <2>1. /\ hard' = hard
        /\ \/ TerminateNext(b, t, queues)
           \/ /\ tracker' = [tracker EXCEPT ![b] = t]
              /\ IF is_finished(t) THEN stop(b) ELSE UNCHANGED alive
    BY <1>6 DEF RecvDone
  <2> HIDE DEF t, queues
  <2>2. CASE TerminateNext(b, t, queues)
    BY <1>3, <1>4, <1>6, <2>1, <2>2
  <2>3. CASE /\ tracker' = [tracker EXCEPT ![b] = t]
             /\ IF is_finished(t) THEN stop(b) ELSE UNCHANGED alive
    BY <1>6, <2>1, <2>3 DEF stop, TypeOK
  <2> QED BY <2>1, <2>2, <2>3
<1>7. ASSUME \/ \E y \in Ids : NotifyDone(y)
             \/ \E t \in Tasks : TaskReturns(t) \/ TaskPanics(t)
             \/ UNCHANGED vars
      PROVE  hard' = hard /\ alive' = alive
  BY <1>7 DEF NotifyDone, TaskReturns, TaskPanics, vars
<1> QED BY <1>1, <1>2, <1>5, <1>6, <1>7 DEF Next, HandlerStep, RuntimeStep, AllOver

\* What Interrupts() does to one queue.
LEMMA InterruptsQueue ==
  ASSUME NEW queues, NEW S, Interrupts(queues, S), NEW a \in Actors
  PROVE  hp'[a] = queues[a] \/ hp'[a] = Append(queues[a], Interrupt(a))
  BY DEF Interrupts, Delivered

\* The high-priority queue of an actor.
LEMMA QueueStep ==
  ASSUME TypeOK, [Next]_vars, NEW a \in Actors
  PROVE  \/ hp'[a] = hp[a]
         \/ hp'[a] = Append(hp[a], Interrupt(a))
         \/ \E d \in Ids : NotifyDone(d) /\ parent[d] = a /\ hp'[a] = Append(hp[a], Done(d))
         \/ /\ RecvDone(a)
            /\ \/ hp'[a] = Tail(hp[a])
               \/ hp'[a] = Append(Tail(hp[a]), Interrupt(a))
         \/ RecvInterrupt(a) /\ hp'[a] = Tail(hp[a])
         \/ hp'[a] = <<>> /\ phase'[a] # "running"
<1>1. ASSUME NEW b \in Actors,
             \/ \E d \in Ids, g \in Groups : Spawn(b, d, g)
             \/ Stop(b) \/ HandlerReturns(b) \/ AwakeFails(b) \/ RecvMessage(b) \/ LeaveLoop(b)
      PROVE  hp'[a] = hp[a]
  BY <1>1 DEF Spawn, Stop, HandlerReturns, AwakeFails, RecvMessage, LeaveLoop
<1>2. ASSUME NEW b \in Actors,
             \/ shutdown(b) \/ (\E g \in Groups : terminate_group(b, g)) \/ Insert(b) \/ interrupt(b)
      PROVE  hp'[a] = hp[a] \/ hp'[a] = Append(hp[a], Interrupt(a))
  BY <1>2, InterruptsQueue DEF shutdown, TerminateNext, terminate_group, Insert, interrupt
<1>3. ASSUME NEW b \in Actors, RecvDone(b)
      PROVE  \/ hp'[a] = hp[a] \/ hp'[a] = Append(hp[a], Interrupt(a))
             \/ /\ RecvDone(a)
                /\ hp'[a] = Tail(hp[a]) \/ hp'[a] = Append(Tail(hp[a]), Interrupt(a))
  <2> DEFINE queues == [hp EXCEPT ![b] = Tail(@)]
  <2>1. hp'[a] = queues[a] \/ hp'[a] = Append(queues[a], Interrupt(a))
    BY <1>3, InterruptsQueue DEF RecvDone, TerminateNext
  <2>2. queues[a] = IF a = b THEN Tail(hp[a]) ELSE hp[a]
    BY DEF TypeOK
  <2> HIDE DEF queues
  <2> QED BY <1>3, <2>1, <2>2
<1>4. ASSUME NEW b \in Actors, RecvInterrupt(b)
      PROVE  hp'[a] = hp[a] \/ (RecvInterrupt(a) /\ hp'[a] = Tail(hp[a]))
  BY <1>4 DEF RecvInterrupt, TypeOK
<1>5. ASSUME NEW b \in Actors, Release(b) \/ Panic(b)
      PROVE  hp'[a] = hp[a] \/ (hp'[a] = <<>> /\ phase'[a] # "running")
  BY <1>5 DEF Release, Panic, Drop, TypeOK
<1>6. ASSUME NEW d \in Ids, NotifyDone(d)
      PROVE  \/ hp'[a] = hp[a]
             \/ parent[d] = a /\ hp'[a] = Append(hp[a], Done(d))
  BY <1>6 DEF NotifyDone, TypeOK
<1>7. ASSUME (\E t \in Tasks : TaskReturns(t) \/ TaskPanics(t)) \/ UNCHANGED vars
      PROVE  hp'[a] = hp[a]
  BY <1>7 DEF TaskReturns, TaskPanics, vars
<1> QED BY <1>1, <1>2, <1>3, <1>4, <1>5, <1>6, <1>7 DEF Next, HandlerStep, RuntimeStep, AllOver

\* The child an actor is about to insert.
LEMMA PendingStep ==
  ASSUME TypeOK, [Next]_vars, NEW a \in Actors
  PROVE  \/ pending'[a] = pending[a]
         \/ Insert(a)
         \/ \E c \in Ids, g \in Groups : Spawn(a, c, g)
<1>1. ASSUME NEW b \in Actors, (\E c \in Ids, g \in Groups : Spawn(b, c, g)) \/ Insert(b), b # a
      PROVE  pending'[a] = pending[a]
  BY <1>1 DEF Spawn, Insert, TypeOK
<1>2. ASSUME NEW b \in Actors,
             \/ Stop(b) \/ shutdown(b) \/ (\E g \in Groups : terminate_group(b, g))
             \/ HandlerReturns(b) \/ AwakeFails(b) \/ Panic(b) \/ RecvDone(b) \/ RecvInterrupt(b)
             \/ RecvMessage(b) \/ LeaveLoop(b) \/ Release(b) \/ interrupt(b)
      PROVE  pending'[a] = pending[a]
  BY <1>2 DEF Stop, shutdown, terminate_group, HandlerReturns, AwakeFails, Panic, RecvDone,
     RecvInterrupt, RecvMessage, LeaveLoop, Release, interrupt
<1>3. ASSUME \/ \E y \in Ids : NotifyDone(y)
             \/ \E t \in Tasks : TaskReturns(t) \/ TaskPanics(t)
             \/ UNCHANGED vars
      PROVE  pending'[a] = pending[a]
  BY <1>3 DEF NotifyDone, TaskReturns, TaskPanics, vars
<1> QED BY <1>1, <1>2, <1>3 DEF Next, HandlerStep, RuntimeStep, AllOver

\* The records decide which children a tracker knows.
LEMMA TrackedRecords ==
  ASSUME NEW t \in Tracker, NEW u \in Tracker
  PROVE  /\ u.records = t.records => tracked(u) = tracked(t)
         /\ \A id \in Ids, g \in Groups :
              u.records = [t.records EXCEPT ![id] = g] => tracked(u) = tracked(t) \cup {id}
         /\ \A id \in Ids :
              u.records = [t.records EXCEPT ![id] = NoGroup] => tracked(u) = tracked(t) \ {id}
<1>1. t.records \in [Ids -> Groups \cup {NoGroup}]
  BY DEF Tracker
<1>2. u.records = t.records => tracked(u) = tracked(t)
  BY DEF tracked
<1>3. ASSUME NEW id \in Ids, NEW g \in Groups, u.records = [t.records EXCEPT ![id] = g]
      PROVE  tracked(u) = tracked(t) \cup {id}
  BY <1>1, <1>3 DEF tracked
<1>4. ASSUME NEW id \in Ids, u.records = [t.records EXCEPT ![id] = NoGroup]
      PROVE  tracked(u) = tracked(t) \ {id}
  BY <1>1, <1>4 DEF tracked
<1> QED BY <1>2, <1>3, <1>4

\* A finished tracker tracks nobody.
LEMMA FinishedEmpty ==
  ASSUME NEW t \in Tracker, Consistent(t), is_finished(t)
  PROVE  tracked(t) = {}
<1> SUFFICES ASSUME NEW i \in Ids, t.records[i] # NoGroup
             PROVE  FALSE
  BY DEF tracked
<1> DEFINE g == t.records[i]
<1>1. g \in Groups
  BY DEF Tracker
<1>2. i \in t.stages[g].ids
  BY <1>1 DEF Consistent
<1>3. t.stages[g].present
  BY <1>1, <1>2 DEF Consistent
<1> QED BY <1>1, <1>2, <1>3 DEF is_finished, stage_is_finished

\* What a running actor knows of its children changes by the child it spawns
\* and by the child whose notice it takes.
LEMMA KnownStep ==
  ASSUME TypeOK, TrackersConsistent, [Next]_vars, NEW a \in Actors,
         phase[a] = "running", phase'[a] = "running"
  PROVE  /\ RecvDone(a) => Known(a)' = Known(a) \ {Head(hp[a]).id}
         /\ ~RecvDone(a) =>
              \/ Known(a)' = Known(a)
              \/ \E c \in Ids, g \in Groups : Spawn(a, c, g) /\ Known(a)' = Known(a) \cup {c}
<1> DEFINE t == tracker[a]
<1>1. t \in Tracker /\ tracker'[a] \in Tracker
  BY TypeStep DEF TypeOK
<1>2. CASE Insert(a) /\ ~RecvDone(a)
  <2> DEFINE c == pending[a][1]
             g == pending[a][2]
  <2>1. c \in Ids /\ g \in Groups /\ pending[a] # <<>> /\ pending'[a] = <<>>
    BY <1>2 DEF Insert, TypeOK
  <2>2. tracker'[a] = insert(t, c, g)
    BY <1>2 DEF Insert, TypeOK
  <2>3. tracker'[a].records = [t.records EXCEPT ![c] = g]
    BY <2>1, <2>2, <1>1, InsertFacts
  <2>4. tracked(tracker'[a]) = tracked(t) \cup {c}
    BY <2>1, <2>3, <1>1, TrackedRecords, SMTT(30)
  <2>5. Known(a)' = Known(a)
    BY <2>1, <2>4 DEF Known
  <2> QED BY <1>2, <2>5
<1>3. CASE shutdown(a) /\ ~RecvDone(a)
  <2>1. PICK sequence \in stage_sequence(t) : tracker'[a] = try_terminate_next(t, sequence)
    BY <1>3 DEF shutdown, TerminateNext, TypeOK
  <2>2. tracker'[a].records = t.records
    BY <2>1, <1>1, TerminateNextFacts
  <2>3. pending' = pending
    BY <1>3 DEF shutdown
  <2>4. tracked(tracker'[a]) = tracked(t)
    BY <2>2, <1>1, TrackedRecords
  <2>5. Known(a)' = Known(a)
    BY <2>3, <2>4 DEF Known
  <2> QED BY <1>3, <2>5
<1>4. CASE RecvDone(a)
  <2> DEFINE id == Head(hp[a]).id
             r == remove_record(t, id)
  <2>1. id \in Ids /\ (\/ tracker'[a] = r
                       \/ \E sequence \in stage_sequence(r) : tracker'[a] = try_terminate_next(r, sequence))
    BY <1>4, RecvDoneTracker
  <2>2. r \in Tracker /\ r.records = [t.records EXCEPT ![id] = NoGroup]
    BY <2>1, <1>1, RemoveFacts
  <2> HIDE DEF r
  <2>3. tracker'[a].records = [t.records EXCEPT ![id] = NoGroup]
    BY <2>1, <2>2, TerminateNextFacts
  <2>4. tracked(tracker'[a]) = tracked(t) \ {id}
    BY <2>1, <2>3, <1>1, TrackedRecords, SMTT(30)
  <2>5. pending[a] = <<>> /\ pending' = pending
    BY <1>4 DEF RecvDone, AtLoop, TrackersConsistent
  <2>6. Known(a)' = Known(a) \ {id}
    BY <2>4, <2>5 DEF Known
  <2> QED BY <1>4, <2>6
<1>5. CASE tracker'[a] = t /\ ~Insert(a) /\ ~RecvDone(a)
  <2>1. pending'[a] = pending[a] => Known(a)' = Known(a)
    BY <1>5 DEF Known
  <2>2. ASSUME NEW c \in Ids, NEW g \in Groups, Spawn(a, c, g)
        PROVE  Known(a)' = Known(a) \cup {c}
    <3>1. pending[a] = <<>> /\ pending'[a] = <<c, g>>
      BY <2>2 DEF Spawn, InHandler, TypeOK
    <3> QED BY <1>5, <3>1 DEF Known
  <2> QED BY <1>5, <2>1, <2>2, PendingStep
<1>6. ~(Release(a) \/ Panic(a))
  BY DEF Release, Panic, TypeOK
<1> QED BY <1>2, <1>3, <1>4, <1>5, <1>6, TrackerStep
-----------------------------------------------------------------------------
(* No child escapes.                                                        *)

\* What the step of a queue does to the Done parcels in it.
LEMMA NoticeStep ==
  ASSUME TypeOK, [Next]_vars, NEW a \in Actors, NEW c \in Ids
  PROVE  /\ Has(hp'[a], Done(c)) =>
              Has(hp[a], Done(c)) \/ (NotifyDone(c) /\ parent[c] = a)
         /\ Has(hp[a], Done(c)) =>
              \/ Has(hp'[a], Done(c))
              \/ RecvDone(a) /\ Head(hp[a]) = Done(c)
              \/ phase'[a] # "running"
         /\ Once(hp[a], Done(c)) /\ (NotifyDone(c) => ~Has(hp[a], Done(c)))
              => /\ Once(hp'[a], Done(c))
                 /\ RecvDone(a) /\ Head(hp[a]) = Done(c) => ~Has(hp'[a], Done(c))
<1> DEFINE p == Done(c)
<1>1. hp[a] \in Seq(Parcel)
  BY DEF TypeOK
<1>2. Interrupt(a) \in Parcel /\ p \in Parcel /\ Interrupt(a) # p /\ p.op = "Done"
  BY Parcels
<1>3. \A d \in Ids : Done(d) \in Parcel /\ (Done(d) = p <=> d = c)
  BY Parcels
<1> HIDE DEF p
<1>4. ASSUME NEW q \in Seq(Parcel)
      PROVE  /\ Has(Append(q, Interrupt(a)), p) <=> Has(q, p)
             /\ Once(q, p) => Once(Append(q, Interrupt(a)), p)
  BY <1>2, <1>4, HasAppend
<1>5. ASSUME RecvDone(a) \/ RecvInterrupt(a)
      PROVE  /\ Tail(hp[a]) \in Seq(Parcel)
             /\ Has(hp[a], p) <=> Has(Tail(hp[a]), p) \/ Head(hp[a]) = p
             /\ Once(hp[a], p) => Once(Tail(hp[a]), p)
             /\ Once(hp[a], p) /\ Head(hp[a]) = p => ~Has(Tail(hp[a]), p)
  <2>1. hp[a] # <<>>
    BY <1>5 DEF RecvDone, RecvInterrupt
  <2> QED BY <1>1, <2>1, HasTail
<1>6. RecvDone(a) =>
        hp'[a] = Tail(hp[a]) \/ hp'[a] = Append(Tail(hp[a]), Interrupt(a))
  <2> DEFINE queues == [hp EXCEPT ![a] = Tail(@)]
  <2>1. RecvDone(a) => hp'[a] = queues[a] \/ hp'[a] = Append(queues[a], Interrupt(a))
    BY InterruptsQueue DEF RecvDone, TerminateNext
  <2>2. queues[a] = Tail(hp[a])
    BY DEF TypeOK
  <2> HIDE DEF queues
  <2> QED BY <2>1, <2>2
<1>7. RecvInterrupt(a) => Head(hp[a]) # p
  BY <1>2 DEF RecvInterrupt
<1>8. CASE RecvDone(a)
  <2> DEFINE q == Tail(hp[a])
  <2>1. q \in Seq(Parcel) /\ (hp'[a] = q \/ hp'[a] = Append(q, Interrupt(a)))
    BY <1>5, <1>6, <1>8
  <2> HIDE DEF q
  <2>2. (Has(hp'[a], p) <=> Has(q, p)) /\ (Once(q, p) => Once(hp'[a], p))
    <3>1. CASE hp'[a] = q
      BY <3>1
    <3>2. CASE hp'[a] = Append(q, Interrupt(a))
      <4>1. /\ Has(Append(q, Interrupt(a)), p) <=> Has(q, p)
            /\ Once(q, p) => Once(Append(q, Interrupt(a)), p)
        BY <1>2, <2>1, HasAppend
      <4> QED BY <3>2, <4>1
    <3> QED BY <2>1, <3>1, <3>2
  <2> QED BY <1>5, <1>8, <2>2 DEF p, q
<1>9. CASE ~RecvDone(a) /\ hp'[a] = hp[a]
  BY <1>9 DEF p
<1>10. CASE ~RecvDone(a) /\ hp'[a] = Append(hp[a], Interrupt(a))
  BY <1>1, <1>4, <1>10 DEF p
<1>11. ASSUME ~RecvDone(a), NEW d \in Ids, NotifyDone(d), parent[d] = a,
              hp'[a] = Append(hp[a], Done(d))
       PROVE  /\ Has(hp'[a], p) => Has(hp[a], p) \/ (NotifyDone(c) /\ parent[c] = a)
              /\ Has(hp[a], p) => Has(hp'[a], p)
              /\ Once(hp[a], p) /\ (NotifyDone(c) => ~Has(hp[a], p)) => Once(hp'[a], p)
  BY <1>1, <1>3, <1>11, HasAppend
<1>12. CASE RecvInterrupt(a) /\ hp'[a] = Tail(hp[a]) /\ ~RecvDone(a)
  BY <1>5, <1>7, <1>12 DEF p
<1>13. CASE hp'[a] = <<>> /\ phase'[a] # "running" /\ ~RecvDone(a)
  <2>1. ~Has(<<>>, p) /\ Once(<<>>, p)
    BY DEF Has, Once
  <2> QED BY <1>13, <2>1 DEF p
<1> QED BY <1>8, <1>9, <1>10, <1>11, <1>12, <1>13, QueueStep DEF p

\* The strengthening holds at the start.
LEMMA FamilyInit == Init => FamilyInv
<1> SUFFICES ASSUME Init PROVE FamilyInv
  OBVIOUS
<1>1. \A a \in Actors : tracker[a] = new /\ hp[a] = <<>> /\ pending[a] = <<>> /\ alive[a]
  BY DEF Init
<1>2. \A c \in Ids : parent[c] = Nobody
  BY DEF Init
<1>3. \A a \in Actors : parent[a] # a /\ \A c \in Ids : parent[c] # a
  BY <1>2
<1>4. tracked(new) = {}
  BY NewFacts DEF tracked
<1>5. \A a \in Actors : Known(a) = {}
  BY <1>1, <1>4 DEF Known
<1>6. \A a \in Actors : \A p : ~InQueue(a, p)
  BY <1>1 DEF InQueue
<1>7. UnbornClean
  BY <1>1, <1>3 DEF UnbornClean
<1>8. DoneParcelsTrue /\ NoticesDue
  BY <1>1, <1>6 DEF DoneParcelsTrue, NoticesDue
<1>9. ChildrenAccountedFor /\ StoppedClean
  BY <1>3, <1>5 DEF ChildrenAccountedFor, StoppedClean
<1> QED BY <1>7, <1>8, <1>9 DEF FamilyInv

\* An actor that has not been spawned has no children.
LEMMA UnbornStep ==
  ASSUME TypeOK, TrackersConsistent, UnbornClean, [Next]_vars
  PROVE  UnbornClean'
<1> SUFFICES ASSUME NEW a \in Actors, phase'[a] = "unborn"
             PROVE  tracker'[a] = new /\ \A c \in Ids : parent'[c] # a
  BY DEF UnbornClean
<1>1. phase[a] = "unborn"
  BY PhaseStep
<1>2. tracker[a] = new /\ \A c \in Ids : parent[c] # a
  BY <1>1 DEF UnbornClean
<1>3. tracker'[a] = new
  <2>1. pending[a] = <<>>
    BY <1>1 DEF TrackersConsistent
  <2>2. ~(Insert(a) \/ shutdown(a) \/ RecvDone(a))
    BY <1>1, <2>1 DEF Insert, shutdown, InHandler, RecvDone, AtLoop
  <2> QED BY <1>2, <2>2, TrackerStep
<1>4. ASSUME NEW c \in Ids
      PROVE  parent'[c] # a
  <2>1. ASSUME NEW b \in Actors, NEW g \in Groups, Spawn(b, c, g)
        PROVE  parent'[c] # a
    BY <1>1, <2>1 DEF Spawn, InHandler, TypeOK
  <2> QED BY <1>2, <2>1, ParentStep
<1> QED BY <1>3, <1>4

\* Only a child that has ended, and not by a panic, has a Done parcel in the
\* queue of its parent.
LEMMA DoneParcelsStep ==
  ASSUME TypeOK, DoneParcelsTrue, [Next]_vars
  PROVE  DoneParcelsTrue'
<1> SUFFICES ASSUME NEW a \in Actors, NEW c \in Ids, Has(hp'[a], Done(c))
             PROVE  Ended(c)' /\ phase'[c] # "panicked" /\ parent'[c] = a
  BY DEF DoneParcelsTrue, InQueue, Has
<1>1. CASE Has(hp[a], Done(c))
  <2>1. Ended(c) /\ phase[c] # "panicked" /\ parent[c] = a
    BY <1>1 DEF DoneParcelsTrue, InQueue, Has
  <2>2. ~\E b \in Actors, g \in Groups : Spawn(b, c, g)
    BY <2>1 DEF Spawn, Ended
  <2>3. phase'[c] # "panicked"
    BY <2>1, PhaseCases DEF Ended
  <2> QED BY <2>1, <2>2, <2>3, PhaseStep, ParentStep
<1>2. CASE NotifyDone(c) /\ parent[c] = a
  BY <1>2 DEF NotifyDone, Ended, TypeOK
<1> QED BY <1>1, <1>2, NoticeStep

\* A child the actor knows of is there.
LEMMA KnownSpawned ==
  ASSUME TypeOK, TrackersConsistent, NEW a \in Actors, NEW c \in Known(a)
  PROVE  c \in Ids /\ phase[c] # "unborn"
<1>1. CASE c \in tracked(tracker[a])
  BY <1>1 DEF tracked, TrackersConsistent
<1>2. CASE pending[a] # <<>> /\ c = pending[a][1]
  BY <1>2 DEF TrackersConsistent, TypeOK
<1> QED BY <1>1, <1>2 DEF Known

\* A step that makes an actor run is its spawn, and finds it without children.
LEMMA BornClean ==
  ASSUME TypeOK, TrackersConsistent, UnbornClean, DoneParcelsTrue, [Next]_vars, NEW a \in Actors,
         phase[a] # "running", phase'[a] = "running"
  PROVE  /\ Known(a)' = {}
         /\ \A c \in Ids : parent'[c] # a /\ ~Has(hp'[a], Done(c))
<1>1. phase[a] = "unborn" /\ \E b \in Actors, g \in Groups : Spawn(b, a, g)
  BY PhaseCases
<1>2. PICK b \in Actors, g \in Groups : Spawn(b, a, g)
  BY <1>1
<1>3. b # a
  BY <1>1, <1>2 DEF Spawn, InHandler
<1>4. tracker[a] = new /\ \A c \in Ids : parent[c] # a
  BY <1>1 DEF UnbornClean
<1>5. pending[a] = <<>>
  BY <1>1 DEF TrackersConsistent
<1>6. tracker' = tracker /\ hp' = hp /\ pending'[a] = <<>>
  BY <1>2, <1>3, <1>5 DEF Spawn, TypeOK
<1>7. tracked(new) = {}
  BY NewFacts DEF tracked
<1>8. Known(a)' = {}
  BY <1>4, <1>6, <1>7 DEF Known
<1>9. ASSUME NEW c \in Ids
      PROVE  parent'[c] # a /\ ~Has(hp'[a], Done(c))
  <2>1. parent'[c] # a
    BY <1>2, <1>3, <1>4 DEF Spawn, TypeOK
  <2>2. ~Has(hp[a], Done(c))
    BY <1>4 DEF DoneParcelsTrue, InQueue, Has
  <2> QED BY <1>6, <2>1, <2>2
<1> QED BY <1>8, <1>9

\* The Done parcels in a queue are those of children that are known, one each.
LEMMA NoticesStep ==
  ASSUME TypeOK, TrackersConsistent, FamilyInv, [Next]_vars
  PROVE  NoticesDue'
<1> USE DEF FamilyInv
<1> SUFFICES ASSUME NEW a \in Actors, NEW c \in Ids
             PROVE  /\ Once(hp'[a], Done(c))
                    /\ phase'[a] = "running" /\ Has(hp'[a], Done(c)) => c \in Known(a)'
  BY DEF NoticesDue, Once, InQueue, Has
<1>1. Once(hp[a], Done(c))
  BY DEF NoticesDue, Once
<1>2. Has(hp[a], Done(c)) => Ended(c) /\ parent[c] = a
  BY DEF DoneParcelsTrue, InQueue, Has
<1>3. NotifyDone(c) => ~Ended(c) /\ phase[c] # "unborn"
  BY DEF NotifyDone, Ended
<1>4. /\ Once(hp'[a], Done(c))
      /\ RecvDone(a) /\ Head(hp[a]) = Done(c) => ~Has(hp'[a], Done(c))
  BY <1>1, <1>2, <1>3, NoticeStep
<1>5. ASSUME phase'[a] = "running", Has(hp'[a], Done(c))
      PROVE  c \in Known(a)'
  <2>1. CASE phase[a] # "running"
    BY <1>5, <2>1, BornClean
  <2>2. CASE phase[a] = "running"
    <3>1. c \in Known(a)
      <4>1. CASE Has(hp[a], Done(c))
        BY <2>2, <4>1 DEF NoticesDue, InQueue, Has
      <4>2. CASE NotifyDone(c) /\ parent[c] = a
        BY <1>3, <2>2, <4>2 DEF ChildrenAccountedFor
      <4> QED BY <1>5, <4>1, <4>2, NoticeStep
    <3>2. RecvDone(a) => Head(hp[a]).id # c
      <4> SUFFICES ASSUME RecvDone(a) PROVE Head(hp[a]).id # c
        OBVIOUS
      <4>1. Head(hp[a]) \in Parcel /\ Head(hp[a]).op = "Done"
        BY DEF RecvDone, TypeOK
      <4> QED BY <1>4, <1>5, <4>1, DoneParcel
    <3> QED BY <1>5, <2>2, <3>1, <3>2, KnownStep
  <2> QED BY <2>1, <2>2
<1> QED BY <1>4, <1>5

\* A RecvDone step takes the notice of a child of the actor that has ended, and
\* not by a panic.
LEMMA RecvDoneEnded ==
  ASSUME TypeOK, DoneParcelsTrue, NEW a \in Actors, RecvDone(a)
  PROVE  /\ Head(hp[a]).id \in Ids
         /\ Ended(Head(hp[a]).id) /\ phase[Head(hp[a]).id] # "panicked"
         /\ parent[Head(hp[a]).id] = a
         /\ Head(hp[a]) = Done(Head(hp[a]).id)
         /\ Has(hp[a], Head(hp[a]))
<1>1. hp[a] # <<>> /\ hp[a] \in Seq(Parcel) /\ Head(hp[a]) \in Parcel /\ Head(hp[a]).op = "Done"
  BY DEF RecvDone, TypeOK
<1>2. Head(hp[a]).id \in Ids /\ Head(hp[a]) = Done(Head(hp[a]).id)
  BY <1>1, DoneParcel
<1>3. Has(hp[a], Head(hp[a]))
  BY <1>1, HasTail
<1>4. InQueue(a, Done(Head(hp[a]).id))
  BY <1>2, <1>3 DEF InQueue, Has
<1> QED BY <1>2, <1>3, <1>4 DEF DoneParcelsTrue

\* Every child stays accounted for.
LEMMA AccountedStep ==
  ASSUME TypeOK, TrackersConsistent, FamilyInv, [Next]_vars
  PROVE  ChildrenAccountedFor'
<1> USE DEF FamilyInv
<1> SUFFICES ASSUME NEW a \in Actors, phase'[a] = "running", NEW c \in Ids
             PROVE  /\ (parent'[c] = a /\ ~Ended(c)') => c \in Known(a)'
                    /\ c \in Known(a)' =>
                         /\ parent'[c] = a
                         /\ Ended(c)' => Has(hp'[a], Done(c)) \/ phase'[c] = "panicked"
  BY DEF ChildrenAccountedFor, InQueue, Has
<1>1. CASE phase[a] # "running"
  BY <1>1, BornClean
<1>2. CASE phase[a] = "running"
  <2>1. ASSUME parent'[c] = a, ~Ended(c)'
        PROVE  c \in Known(a)'
    <3>1. ~Ended(c)
      BY <2>1, PhaseStep
    <3>2. ASSUME NEW b \in Actors, NEW g \in Groups, Spawn(b, c, g)
          PROVE  c \in Known(a)'
      <4>1. parent'[c] = b /\ pending'[b] = <<c, g>>
        BY <3>2 DEF Spawn, TypeOK
      <4> QED BY <2>1, <4>1 DEF Known
    <3>3. CASE parent'[c] = parent[c]
      <4>1. c \in Known(a)
        BY <1>2, <2>1, <3>1, <3>3 DEF ChildrenAccountedFor
      <4>2. RecvDone(a) => Head(hp[a]).id # c
        BY <3>1, RecvDoneEnded
      <4> QED BY <1>2, <4>1, <4>2, KnownStep
    <3> QED BY <3>2, <3>3, ParentStep
  <2>2. ASSUME c \in Known(a)'
        PROVE  /\ parent'[c] = a
               /\ Ended(c)' => Has(hp'[a], Done(c)) \/ phase'[c] = "panicked"
    <3>1. ASSUME NEW d \in Ids, NEW g \in Groups, Spawn(a, d, g), c = d
          PROVE  parent'[c] = a /\ ~Ended(c)'
      BY <3>1 DEF Spawn, Ended, TypeOK
    <3>2. CASE c \in Known(a) /\ (RecvDone(a) => Head(hp[a]).id # c)
      <4>1. parent[c] = a /\ (Ended(c) => Has(hp[a], Done(c)) \/ phase[c] = "panicked")
        BY <1>2, <3>2 DEF ChildrenAccountedFor, InQueue, Has
      <4>2. phase[c] # "unborn"
        BY <3>2, KnownSpawned
      <4>3. parent'[c] = a
        BY <4>1, <4>2, ParentStep DEF Spawn
      <4>4. RecvDone(a) => Head(hp[a]) # Done(c)
        <5>1. Done(c).id = c
          BY Parcels
        <5> QED BY <3>2, <5>1
      <4>5. ASSUME Ended(c)', Ended(c)
            PROVE  Has(hp'[a], Done(c)) \/ phase'[c] = "panicked"
        <5>1. CASE phase[c] = "panicked"
          BY <5>1, PhaseCases
        <5>2. CASE Has(hp[a], Done(c))
          BY <4>4, <5>2, NoticeStep
        <5> QED BY <4>1, <4>5, <5>1, <5>2
      <4>6. ASSUME Ended(c)', ~Ended(c)
            PROVE  Has(hp'[a], Done(c)) \/ phase'[c] = "panicked"
        <5>1. NotifyDone(c) \/ phase'[c] = "panicked"
          BY <4>2, <4>6, PhaseCases DEF Ended
        <5>2. ASSUME NotifyDone(c)
              PROVE  Has(hp'[a], Done(c))
          <6>1. Receiving(a)
            BY <1>2 DEF Receiving
          <6>2. hp'[a] = Append(hp[a], Done(c))
            BY <4>1, <5>2, <6>1 DEF NotifyDone, TypeOK
          <6>3. hp[a] \in Seq(Parcel) /\ Done(c) \in Parcel
            BY Parcels DEF TypeOK
          <6> QED BY <6>2, <6>3, HasAppend
        <5> QED BY <5>1, <5>2
      <4> QED BY <4>3, <4>5, <4>6
    <3> QED BY <1>2, <2>2, <3>1, <3>2, KnownStep
  <2> QED BY <2>1, <2>2
<1> QED BY <1>1, <1>2

\* An actor that was stopped by shutdown() has no child left.
LEMMA StoppedStep ==
  ASSUME TypeOK, TrackersConsistent, FamilyInv, [Next]_vars
  PROVE  StoppedClean'
<1> USE DEF FamilyInv
<1> DEFINE F == {"finishing", "notified", "dropped"}
<1> SUFFICES ASSUME NEW a \in Actors, ~hard'[a], ~alive'[a] \/ phase'[a] \in F,
                    NEW c \in Ids, parent'[c] = a, ~late'[c]
             PROVE  Ended(c)'
  BY DEF StoppedClean
<1>1. ~hard[a]
  BY AliveStep
<1>2. ASSUME NEW b \in Actors, NEW g \in Groups, Spawn(b, c, g)
      PROVE  FALSE
  <2>1. b = a /\ alive[a] /\ alive' = alive /\ phase[a] = "running" /\ phase[c] = "unborn"
    BY <1>2 DEF Spawn, InHandler, TypeOK
  <2>2. phase'[a] = "running"
    BY <1>2, <2>1 DEF Spawn, TypeOK
  <2> QED BY <2>1, <2>2
<1>3. parent[c] = a /\ ~late[c]
  BY <1>2, ParentStep
<1>4. Ended(c) => Ended(c)'
  BY PhaseStep
<1>5. CASE ~alive[a] \/ phase[a] \in F
  BY <1>1, <1>3, <1>4, <1>5 DEF StoppedClean
<1>6. CASE alive[a] /\ phase[a] \notin F /\ ~alive'[a]
  <2>1. (shutdown(a) \/ RecvDone(a)) /\ is_finished(tracker'[a])
    BY <1>6, AliveStep
  <2>2. phase[a] = "running" /\ phase' = phase /\ pending' = pending /\ pending[a] = <<>>
    BY <2>1 DEF shutdown, InHandler, RecvDone, AtLoop, TrackersConsistent
  <2>3. tracker'[a] \in Tracker /\ Consistent(tracker'[a])
    <3>1. TypeOK' /\ TrackersConsistent'
      BY TypeStep, ConsistentStep
    <3>2. tracker'[a] \in Tracker
      BY <3>1 DEF TypeOK
    <3>3. Consistent(tracker[a])'
      BY <3>1 DEF TrackersConsistent
    <3> QED BY <3>2, <3>3 DEF Consistent
  <2>4. tracked(tracker'[a]) = {}
    BY <2>1, <2>3, FinishedEmpty
  <2>5. Known(a)' = {}
    BY <2>2, <2>4 DEF Known
  <2>6. ~Ended(c) => c \in Known(a)
    BY <1>3, <2>2 DEF ChildrenAccountedFor
  <2>7. ~Ended(c) => RecvDone(a) /\ Head(hp[a]).id = c
    BY <2>2, <2>5, <2>6, KnownStep
  <2> QED BY <1>4, <2>7, RecvDoneEnded
<1>7. CASE alive[a] /\ phase[a] \notin F /\ phase'[a] \in F
  BY <1>7, PhaseCases
<1> QED BY <1>5, <1>6, <1>7

\* No step breaks the family.
LEMMA FamilyStep ==
  ASSUME TypeOK, TrackersConsistent, FamilyInv, [Next]_vars
  PROVE  FamilyInv'
  BY UnbornStep, DoneParcelsStep, NoticesStep, AccountedStep, StoppedStep DEF FamilyInv

\* In every execution every child is accounted for: its parent knows of it until
\* it has taken the one Done parcel of the child, which is sent when the child
\* has ended.
THEOREM NoChildEscapes == Spec => []FamilyInv
<1>1. Init => FamilyInv
  BY FamilyInit
<1>2. TypeOK /\ TrackersConsistent /\ FamilyInv /\ [Next]_vars => FamilyInv'
  BY FamilyStep
<1> QED BY <1>1, <1>2, TypeCorrect, ConsistentTrackers, PTL DEF Spec

\* shutdown() is graceful in every tree of actors and tasks: whoever leaves its
\* loop through it has no child that still runs.
THEOREM ShutdownIsGraceful == Spec => []GracefulShutdown
<1>1. FamilyInv => GracefulShutdown
  BY DEF FamilyInv, StoppedClean, GracefulShutdown
<1> QED BY <1>1, NoChildEscapes, PTL
-----------------------------------------------------------------------------
(* Who is stopped, and by what.                                             *)

\* insert() and remove() neither start a termination nor end one, insert()
\* takes no id out of a stage, and remove() drops no stage.
LEMMA TerminatingKept ==
  ASSUME NEW t \in Tracker, NEW id \in Ids, NEW k \in Groups, NEW g \in Groups
  PROVE  /\ insert(t, id, k).terminating <=> t.terminating
         /\ t.stages[g].ids \subseteq insert(t, id, k).stages[g].ids
         /\ remove_record(t, id).terminating <=> t.terminating
         /\ remove_record(t, id).stages[g].present <=> t.stages[g].present
<1> DEFINE u == insert(t, id, k)
           v == remove_record(t, id)
<1>1. /\ u.terminating = t.terminating
      /\ u.records = [t.records EXCEPT ![id] = k]
      /\ \A h \in Groups : u.stages[h].terminating = t.stages[h].terminating
      /\ \A h \in Groups : h # k => u.stages[h] = t.stages[h]
      /\ u.stages[k].present
      /\ u.stages[k].ids = t.stages[k].ids \cup {id}
  BY InsertFacts
<1>2. /\ v.terminating = t.terminating
      /\ \A h \in Groups :
           /\ v.stages[h].present = t.stages[h].present
           /\ v.stages[h].terminating = t.stages[h].terminating
           /\ v.stages[h].ids = IF t.records[id] = h THEN t.stages[h].ids \ {id}
                                                     ELSE t.stages[h].ids
  BY RemoveFacts, ZenonT(90)
<1> HIDE DEF u, v
<1>3. t.stages[g].ids \subseteq u.stages[g].ids
  BY <1>1
<1> QED BY <1>1, <1>2, <1>3 DEF u, v

\* try_terminate_next() starts the termination.
LEMMA TerminateNextStarts ==
  ASSUME NEW t \in Tracker, NEW sequence
  PROVE  try_terminate_next(t, sequence).terminating
  BY TerminateNextFacts

\* Once the termination of an actor has started it is not taken back, and
\* shutdown() starts it.
LEMMA TerminatingStep ==
  ASSUME TypeOK, [Next]_vars, NEW a \in Actors
  PROVE  /\ tracker[a].terminating =>
              tracker'[a].terminating \/ phase'[a] = "dropped" \/ hard'[a]
         /\ shutdown(a) => tracker'[a].terminating
<1> DEFINE t == tracker[a]
<1>1. t \in Tracker
  BY DEF TypeOK
<1>2. CASE Insert(a)
  <2>1. pending[a][1] \in Ids /\ pending[a][2] \in Groups
    BY <1>2 DEF Insert, TypeOK
  <2>2. tracker'[a] = insert(t, pending[a][1], pending[a][2])
    BY <1>2 DEF Insert, TypeOK
  <2>3. tracker'[a].terminating <=> t.terminating
    BY <1>1, <2>1, <2>2, TerminatingKept
  <2>4. ~shutdown(a)
    BY <1>2 DEF Insert, shutdown, InHandler
  <2> QED BY <2>3, <2>4
<1>3. ASSUME shutdown(a)
      PROVE  tracker'[a].terminating
  <2>1. PICK sequence \in stage_sequence(t) : tracker'[a] = try_terminate_next(t, sequence)
    BY <1>3 DEF shutdown, TerminateNext, TypeOK
  <2> QED BY <1>1, <2>1, TerminateNextStarts
<1>4. CASE RecvDone(a)
  <2> DEFINE r == remove_record(t, Head(hp[a]).id)
  <2>1. Head(hp[a]).id \in Ids /\
          (\/ tracker'[a] = r
           \/ \E sequence \in stage_sequence(r) : tracker'[a] = try_terminate_next(r, sequence))
    BY <1>4, RecvDoneTracker
  <2>2. r \in Tracker /\ r.terminating = t.terminating
    BY <1>1, <2>1, RemoveFacts, ZenonT(90)
  <2> HIDE DEF r
  <2>3. t.terminating => tracker'[a].terminating
    <3>1. CASE tracker'[a] = r
      BY <2>2, <3>1
    <3>2. ASSUME NEW sequence, tracker'[a] = try_terminate_next(r, sequence)
          PROVE  tracker'[a].terminating
      BY <2>2, <3>2, TerminateNextStarts
    <3> QED BY <2>1, <3>1, <3>2
  <2> QED BY <1>3, <2>3
<1>5. CASE Release(a)
  <2>1. phase'[a] = "dropped"
    BY <1>5 DEF Release, TypeOK
  <2> QED BY <1>3, <2>1
<1>6. CASE Panic(a)
  <2>1. hard'[a]
    BY <1>6 DEF Panic, TypeOK
  <2> QED BY <1>3, <2>1
<1> QED BY <1>2, <1>3, <1>4, <1>5, <1>6, TrackerStep

\* A Done parcel finishes a tracker only if its termination has started: the
\* parcel names a tracked child, so its stage is there, and it is marked.
LEMMA FinishedIsTerminating ==
  ASSUME TypeOK, TrackersConsistent, FamilyInv, NEW a \in Actors,
         RecvDone(a), is_finished(tracker'[a])
  PROVE  tracker[a].terminating
<1> DEFINE t == tracker[a]
           id == Head(hp[a]).id
           g == t.records[id]
           r == remove_record(t, id)
<1> SUFFICES ASSUME ~t.terminating PROVE FALSE
  OBVIOUS
<1>1. t \in Tracker /\ Consistent(t) /\ id \in Ids
  BY RecvDoneTracker DEF TypeOK, TrackersConsistent
<1>2. phase[a] = "running" /\ pending[a] = <<>> /\ hp[a] # <<>> /\ Head(hp[a]).op = "Done"
  BY DEF RecvDone, AtLoop, TrackersConsistent
<1>3. InQueue(a, Done(id))
  <2>1. hp[a] \in Seq(Parcel)
    BY DEF TypeOK
  <2>2. Head(hp[a]) = hp[a][1] /\ 1 \in DOMAIN hp[a] /\ Head(hp[a]) \in Parcel
    BY <1>2, <2>1
  <2>3. Head(hp[a]) = Done(id)
    BY <1>2, <2>2 DEF Parcel, Done
  <2> QED BY <2>2, <2>3 DEF InQueue
<1>4. id \in tracked(t)
  BY <1>1, <1>2, <1>3 DEF FamilyInv, NoticesDue, Known
<1>5. g \in Groups
  BY <1>1, <1>4 DEF tracked, Tracker
<1>6. t.stages[g].present /\ ~t.stages[g].terminating
  <2>1. id \in t.stages[g].ids
    BY <1>1, <1>5 DEF Consistent
  <2>2. t.stages[g].present /\ (~t.terminating => ~t.stages[g].terminating)
    <3> HIDE DEF g
    <3> QED BY <1>1, <1>5, <2>1 DEF Consistent
  <2> QED BY <2>2
<1>7. /\ ~r.terminating /\ r.stages[g].present
      /\ r.stages[g].terminating <=> t.stages[g].terminating
  <2>1. /\ r.terminating <=> t.terminating
        /\ r.stages[g].present <=> t.stages[g].present
    BY <1>1, <1>5, TerminatingKept
  <2>2. r.stages[g].terminating <=> t.stages[g].terminating
    BY <1>1, <1>5, RemoveStage
  <2> HIDE DEF r, g
  <2> QED BY <1>6, <2>1, <2>2
<1>8. tracker'[a] = r
  <2>1. ~r.terminating
    BY <1>7
  <2> QED BY <2>1 DEF RecvDone, TypeOK
<1> HIDE DEF r, g
<1> QED BY <1>5, <1>6, <1>7, <1>8 DEF is_finished, stage_is_finished

\* The end of a child never stops an actor that nobody told to terminate:
\* is_finished(), tested at every Done parcel, is not fooled by empty stages.
StopsOnlyWhenTold ==
  \A a \in Actors : ~alive[a] => hard[a] \/ tracker[a].terminating \/ phase[a] = "dropped"

\* Every step keeps StopsOnlyWhenTold.
LEMMA ToldStep ==
  ASSUME TypeOK, TrackersConsistent, FamilyInv, StopsOnlyWhenTold, [Next]_vars
  PROVE  StopsOnlyWhenTold'
<1> SUFFICES ASSUME NEW a \in Actors, ~alive'[a], ~hard'[a], phase'[a] # "dropped"
             PROVE  tracker'[a].terminating
  BY DEF StopsOnlyWhenTold
<1>1. ~hard[a]
  BY AliveStep
<1>2. phase[a] # "dropped"
  BY PhaseCases
<1>3. CASE ~alive[a]
  BY <1>1, <1>2, <1>3, TerminatingStep DEF StopsOnlyWhenTold
<1>4. CASE alive[a]
  <2>1. (shutdown(a) \/ RecvDone(a)) /\ is_finished(tracker'[a])
    BY <1>4, AliveStep
  <2> QED BY <2>1, FinishedIsTerminating, TerminatingStep
<1> QED BY <1>3, <1>4

\* In every execution an actor is stopped by its own stop(), by an Err or a
\* panic, or in the course of a termination that shutdown() has started: the
\* end of a child alone never stops its parent.
THEOREM StoppedOnlyWhenTold == Spec => []StopsOnlyWhenTold
<1>1. Init => StopsOnlyWhenTold
  BY DEF Init, StopsOnlyWhenTold
<1>2. TypeOK /\ TrackersConsistent /\ FamilyInv /\ StopsOnlyWhenTold /\ [Next]_vars
        => StopsOnlyWhenTold'
  BY ToldStep
<1> QED BY <1>1, <1>2, TypeCorrect, ConsistentTrackers, NoChildEscapes, PTL DEF Spec
-----------------------------------------------------------------------------
(* A termination never stalls.                                              *)

\* A set of numbers that is not empty has a least element.
LEMMA LeastNumber ==
  ASSUME NEW S, S \subseteq Nat, S # {}
  PROVE  \E i \in S : \A j \in S : i <= j
<1> DEFINE R == {ss \in Nat \X Nat : ss[1] < ss[2]}
<1>1. IsWellFoundedOn(R, Nat)
  BY NatLessThanWellFounded DEF OpToRel
<1> HIDE DEF R
<1>2. PICK i \in S : \A j \in S : ~(<<j, i>> \in R)
  BY <1>1, WFMin
<1>3. ASSUME NEW j \in S
      PROVE  i <= j
  <2>1. <<j, i>> \in R <=> j < i
    BY DEF R
  <2> QED BY <1>2, <2>1
<1> QED BY <1>3

\* The sequence a loop of try_terminate_next() runs through has every stage
\* that is there.
LEMMA SequenceCovers ==
  ASSUME NEW t, NEW sequence \in stage_sequence(t)
  PROVE  /\ sequence \in Seq(Groups)
         /\ \A g \in Groups : t.stages[g].present => \E i \in DOMAIN sequence : sequence[i] = g
<1>1. PICK rest \in Orderings(remained(t)) : sequence = Prioritized \o rest
  BY DEF stage_sequence
<1>2. IsFiniteSet(remained(t)) /\ remained(t) \subseteq Groups
  BY FS_Subset DEF remained
<1>3. Cardinality(remained(t)) \in Nat
  BY <1>2, FS_CardinalityType
<1>4. rest \in Seq(Groups) /\ Prioritized \in Seq(Groups)
  BY <1>2, <1>3 DEF Orderings
<1> SUFFICES ASSUME NEW g \in Groups, t.stages[g].present
             PROVE  \E i \in DOMAIN sequence : sequence[i] = g
  BY <1>1, <1>4
<1>5. CASE InSequence(g)
  <2>1. PICK i \in DOMAIN Prioritized : Prioritized[i] = g
    BY <1>5 DEF InSequence
  <2>2. i \in DOMAIN sequence /\ sequence[i] = g
    BY <1>1, <1>4, <2>1
  <2> QED BY <2>2
<1>6. CASE ~InSequence(g)
  <2>1. g \in remained(t)
    BY <1>6 DEF remained
  <2>2. PICK i \in DOMAIN rest : rest[i] = g
    BY <2>1 DEF Orderings
  <2> DEFINE k == Len(Prioritized) + i
  <2>3. k \in DOMAIN sequence /\ sequence[k] = g
    BY <1>1, <1>4, <2>2
  <2> QED BY <2>3
<1> QED BY <1>5, <1>6

\* try_terminate_next() either finishes the tracker or leaves a stage that is
\* terminating and has ids, the first one of the sequence that has any.
LEMMA TerminateNextPends ==
  ASSUME NEW t \in Tracker, Consistent(t), NEW sequence \in stage_sequence(t),
         ~is_finished(try_terminate_next(t, sequence))
  PROVE  \E g \in Groups :
           /\ try_terminate_next(t, sequence).stages[g].terminating
           /\ try_terminate_next(t, sequence).stages[g].ids # {}
<1> DEFINE u == try_terminate_next(t, sequence)
           Holds(i) == t.stages[sequence[i]].present /\ t.stages[sequence[i]].ids # {}
           S == {i \in DOMAIN sequence : Holds(i)}
<1>1. \A g \in Groups :
        /\ u.stages[g].present = t.stages[g].present
        /\ u.stages[g].ids = t.stages[g].ids
        /\ u.stages[g].terminating = (t.stages[g].terminating \/ g \in reached(t, sequence))
  BY TerminateNextFacts
<1>2. sequence \in Seq(Groups)
  BY SequenceCovers
<1> HIDE DEF u
<1>3. CASE S # {}
  <2>0. S \subseteq Nat
    BY <1>2
  <2>1. PICK i \in S : \A j \in S : i <= j
    <3> HIDE DEF S
    <3> QED BY <1>3, <2>0, LeastNumber
  <2> DEFINE g == sequence[i]
  <2>2. g \in Groups /\ t.stages[g].present /\ t.stages[g].ids # {}
    BY <1>2, <2>1
  <2>3. g \in reached(t, sequence)
    <3>1. ASSUME NEW j \in 1 .. (i - 1)
          PROVE  j \notin S /\ j \in DOMAIN sequence
      BY <1>2, <2>1
    <3> QED BY <2>1, <2>2, <3>1 DEF reached
  <2> QED BY <1>1, <2>2, <2>3 DEF u
<1>4. CASE S = {}
  <2>1. ASSUME NEW g \in Groups, u.stages[g].present
        PROVE  stage_is_finished(u.stages[g])
    <3>1. t.stages[g].present
      BY <1>1, <2>1
    <3>2. PICK i \in DOMAIN sequence : sequence[i] = g
      BY <3>1, SequenceCovers
    <3>3. t.stages[g].ids = {}
      BY <1>4, <3>1, <3>2
    <3>4. g \in reached(t, sequence)
      <4>1. ASSUME NEW j \in 1 .. (i - 1)
            PROVE  j \notin S /\ j \in DOMAIN sequence
        BY <1>2, <1>4, <3>2
      <4> QED BY <3>1, <3>2, <4>1 DEF reached
    <3> QED BY <1>1, <3>3, <3>4 DEF stage_is_finished
  <2> QED BY <2>1 DEF is_finished, u
<1> QED BY <1>3, <1>4

\* alive is never set again.
LEMMA NeverRevived ==
  ASSUME TypeOK, [Next]_vars, NEW a \in Actors, alive'[a]
  PROVE  alive[a]
<1>1. ASSUME NEW b \in Actors,
             \/ \E d \in Ids, g \in Groups : Spawn(b, d, g)
             \/ (\E g \in Groups : terminate_group(b, g)) \/ HandlerReturns(b) \/ Insert(b)
             \/ RecvInterrupt(b) \/ RecvMessage(b) \/ LeaveLoop(b) \/ Release(b) \/ interrupt(b)
             \/ AwakeFails(b) \/ Panic(b)
      PROVE  alive' = alive
  BY <1>1 DEF Spawn, terminate_group, HandlerReturns, Insert, RecvInterrupt, RecvMessage,
     LeaveLoop, Release, interrupt, AwakeFails, Panic
<1>2. ASSUME NEW b \in Actors, Stop(b) \/ shutdown(b) \/ RecvDone(b)
      PROVE  alive' = alive \/ stop(b)
  BY <1>2 DEF Stop, shutdown, RecvDone, TerminateNext
<1>3. ASSUME NEW b \in Actors, stop(b)
      PROVE  alive[a]
  BY <1>3 DEF stop, TypeOK
<1>4. ASSUME \/ \E x \in Ids : NotifyDone(x)
             \/ \E t \in Tasks : TaskReturns(t) \/ TaskPanics(t)
             \/ UNCHANGED vars
      PROVE  alive' = alive
  BY <1>4 DEF NotifyDone, TaskReturns, TaskPanics, vars
<1>5. ASSUME NEW b \in Actors, HandlerStep(b) \/ RuntimeStep(b) \/ interrupt(b)
      PROVE  alive[a]
  BY <1>1, <1>2, <1>3, <1>5 DEF HandlerStep, RuntimeStep
<1> QED BY <1>4, <1>5 DEF Next, AllOver

\* An actor that is still alive after a step that visited the stages waits for
\* a child it has interrupted.
LEMMA VisitPends ==
  ASSUME TypeOK, NEW a \in Actors, NEW t \in Tracker, Consistent(t), NEW queues,
         TerminateNext(a, t, queues), alive'[a]
  PROVE  \E g \in Groups : tracker'[a].stages[g].terminating /\ tracker'[a].stages[g].ids # {}
<1>1. PICK sequence \in stage_sequence(t) :
        /\ tracker' = [tracker EXCEPT ![a] = try_terminate_next(t, sequence)]
        /\ IF is_finished(try_terminate_next(t, sequence)) THEN stop(a) ELSE UNCHANGED alive
  BY DEF TerminateNext
<1>2. tracker'[a] = try_terminate_next(t, sequence)
  BY <1>1 DEF TypeOK
<1>3. ~is_finished(try_terminate_next(t, sequence))
  BY <1>1 DEF stop, TypeOK
<1> QED BY <1>2, <1>3, TerminateNextPends

\* Every step keeps TerminationPending.
LEMMA PendsStep ==
  ASSUME TypeOK, TrackersConsistent, FamilyInv, TerminationPending, [Next]_vars
  PROVE  TerminationPending'
<1> SUFFICES ASSUME NEW a \in Actors, phase'[a] = "running", alive'[a], tracker'[a].terminating
             PROVE  \E g \in Groups :
                      tracker'[a].stages[g].terminating /\ tracker'[a].stages[g].ids # {}
  BY DEF TerminationPending
<1> DEFINE t == tracker[a]
<1>1. t \in Tracker /\ Consistent(t)
  BY DEF TypeOK, TrackersConsistent
<1>2. alive[a]
  BY NeverRevived
<1>3. phase[a] = "running" /\ t.terminating =>
        \E g \in Groups : t.stages[g].terminating /\ t.stages[g].ids # {}
  BY <1>2 DEF TerminationPending
<1>4. CASE tracker'[a] = t
  <2>1. phase[a] # "unborn"
    BY <1>4, NewFacts DEF FamilyInv, UnbornClean
  <2>2. phase[a] = "running"
    BY <2>1, PhaseCases
  <2> QED BY <1>3, <1>4, <2>2
<1>5. CASE Insert(a)
  <2> DEFINE c == pending[a][1]
             k == pending[a][2]
  <2>1. c \in Ids /\ k \in Groups /\ phase[a] = "running"
    BY <1>5 DEF Insert, TypeOK, TrackersConsistent
  <2>2. tracker'[a] = insert(t, c, k)
    BY <1>5 DEF Insert, TypeOK
  <2> HIDE DEF c, k
  <2>3. t.terminating
    BY <1>1, <2>1, <2>2, TerminatingKept
  <2>4. PICK g \in Groups : t.stages[g].terminating /\ t.stages[g].ids # {}
    BY <1>3, <2>1, <2>3
  <2>5. tracker'[a].stages[g].terminating /\ t.stages[g].ids \subseteq tracker'[a].stages[g].ids
    BY <1>1, <2>1, <2>2, <2>4, TerminatingKept, InsertStage
  <2> QED BY <2>4, <2>5
<1>6. CASE shutdown(a)
  <2>1. TerminateNext(a, t, hp)
    BY <1>6 DEF shutdown
  <2> QED BY <1>1, <2>1, VisitPends
<1>7. CASE RecvDone(a)
  <2> DEFINE r == remove_record(t, Head(hp[a]).id)
             queues == [hp EXCEPT ![a] = Tail(@)]
  <2>1. Head(hp[a]).id \in Ids
    BY <1>7, RecvDoneTracker
  <2>2. r \in Tracker /\ Consistent(r)
    BY <1>1, <2>1, RemoveFacts, RemoveConsistent
  <2>3. TerminateNext(a, r, queues) \/ (tracker'[a] = r /\ ~r.terminating)
    BY <1>7 DEF RecvDone, TypeOK
  <2> HIDE DEF r, queues
  <2> QED BY <2>2, <2>3, VisitPends
<1>8. CASE tracker'[a] = new
  BY <1>8, NewFacts
<1> QED BY <1>4, <1>5, <1>6, <1>7, <1>8, TrackerStep

\* No termination stalls: in every execution a terminating actor that is still
\* alive has interrupted a child whose end it waits for, whatever is spawned,
\* inserted late or removed in between.
THEOREM TerminationNeverStalls == Spec => []TerminationPending
<1>1. Init => TerminationPending
  BY NewFacts DEF Init, TerminationPending
<1>2. TypeOK /\ TrackersConsistent /\ FamilyInv /\ TerminationPending /\ [Next]_vars
        => TerminationPending'
  BY PendsStep
<1> QED BY <1>1, <1>2, TypeCorrect, ConsistentTrackers, NoChildEscapes, PTL DEF Spec
-----------------------------------------------------------------------------
(* The tree keeps the promise of the abstract family.                       *)

\* Whoever is to end the hard way has been spawned, and is stopped as long as
\* its loop runs.
HardStops ==
  \A a \in Actors : hard[a] => phase[a] # "unborn" /\ (phase[a] = "running" => ~alive[a])

\* Only stop(), a failed start and a panic end an actor the hard way.
LEMMA HardStep ==
  ASSUME TypeOK, [Next]_vars, NEW a \in Actors
  PROVE  hard'[a] = hard[a] \/ Stop(a) \/ AwakeFails(a) \/ Panic(a)
<1>1. ASSUME NEW b \in Actors,
             \/ \E d \in Ids, g \in Groups : Spawn(b, d, g)
             \/ (\E g \in Groups : terminate_group(b, g)) \/ HandlerReturns(b) \/ Insert(b)
             \/ RecvInterrupt(b) \/ RecvMessage(b) \/ LeaveLoop(b) \/ Release(b) \/ interrupt(b)
             \/ shutdown(b) \/ RecvDone(b)
      PROVE  hard' = hard
  BY <1>1 DEF Spawn, terminate_group, HandlerReturns, Insert, RecvInterrupt, RecvMessage,
     LeaveLoop, Release, interrupt, shutdown, RecvDone
<1>2. ASSUME NEW b \in Actors, Stop(b) \/ AwakeFails(b) \/ Panic(b), b # a
      PROVE  hard'[a] = hard[a]
  <2>1. hard' = [hard EXCEPT ![b] = TRUE]
    BY <1>2 DEF Stop, AwakeFails, Panic
  <2> QED BY <1>2, <2>1 DEF TypeOK
<1>3. ASSUME \/ \E x \in Ids : NotifyDone(x)
             \/ \E t \in Tasks : TaskReturns(t) \/ TaskPanics(t)
             \/ UNCHANGED vars
      PROVE  hard' = hard
  BY <1>3 DEF NotifyDone, TaskReturns, TaskPanics, vars
<1>4. ASSUME NEW b \in Actors, HandlerStep(b) \/ RuntimeStep(b) \/ interrupt(b)
      PROVE  hard' = hard \/ Stop(b) \/ AwakeFails(b) \/ Panic(b)
  BY <1>1, <1>4 DEF HandlerStep, RuntimeStep
<1>5. \/ hard' = hard
      \/ \E b \in Actors : Stop(b) \/ AwakeFails(b) \/ Panic(b)
  BY <1>3, <1>4 DEF Next, AllOver
<1> QED BY <1>2, <1>5

\* In every execution.
LEMMA HardAlwaysStops == Spec => []HardStops
<1>1. Init => HardStops
  BY DEF Init, HardStops
<1>2. ASSUME TypeOK, HardStops, [Next]_vars
      PROVE  HardStops'
  <2> SUFFICES ASSUME NEW a \in Actors, hard'[a]
               PROVE  phase'[a] # "unborn" /\ (phase'[a] = "running" => ~alive'[a])
    BY DEF HardStops
  <2>1. CASE hard[a]
    <3>1. phase[a] # "unborn" /\ (phase[a] = "running" => ~alive[a])
      BY <2>1, <1>2 DEF HardStops
    <3> QED BY <1>2, <3>1, PhaseCases, NeverRevived
  <2>2. CASE Stop(a)
    BY <1>2, <2>2 DEF Stop, stop, InHandler, TypeOK
  <2>3. CASE AwakeFails(a) \/ Panic(a)
    <3>1. phase'[a] = "finishing" \/ phase'[a] = "panicked"
      BY <1>2, <2>3 DEF AwakeFails, Panic, TypeOK
    <3> QED BY <3>1
  <2> QED BY <1>2, <2>1, <2>2, <2>3, HardStep
<1> QED BY <1>1, <1>2, TypeCorrect, PTL DEF Spec
-----------------------------------------------------------------------------
\* The mapped state, field by field.
LEMMA Mapped ==
  /\ \A x \in Ids : Lives[x] = IF phase[x] = "finishing" THEN "leaving"
                               ELSE IF phase[x] \in {"notified", "dropped"} THEN "ended"
                               ELSE phase[x]
  /\ \A a \in Actors : Kins[a] = IF InLoop(a) THEN Kin(a) ELSE Abstract!NoKin
  /\ \A a \in Actors, g \in Groups : g \in Tolds[a] <=> InLoop(a) /\ tracker[a].stages[g].terminating
  /\ \A a \in Actors : Closings[a] = (InLoop(a) /\ tracker[a].terminating)
  /\ \A a \in Actors : Endings[a] = IF hard[a] THEN "hard" ELSE IF alive[a] THEN "no" ELSE "graceful"
  BY DEF Lives, Kins, Tolds, Closings, Endings, Abstract!NoKin

\* A phase that does not change, or one that does, as the others see it.
LEMMA LivesStep ==
  ASSUME TypeOK
  PROVE  /\ phase' = phase => Lives' = Lives
         /\ \A x \in Ids, p \in Phases : phase' = [phase EXCEPT ![x] = p] =>
              Lives' = [Lives EXCEPT ![x] = IF p = "finishing" THEN "leaving"
                                            ELSE IF p \in {"notified", "dropped"} THEN "ended"
                                            ELSE p]
<1>1. phase' = phase => Lives' = Lives
  BY DEF Lives
<1>2. ASSUME NEW x \in Ids, NEW p \in Phases, phase' = [phase EXCEPT ![x] = p]
      PROVE  Lives' = [Lives EXCEPT ![x] = IF p = "finishing" THEN "leaving"
                                           ELSE IF p \in {"notified", "dropped"} THEN "ended"
                                           ELSE p]
  <2>1. \A y \in Ids : phase'[y] = IF y = x THEN p ELSE phase[y]
    BY <1>2 DEF TypeOK
  <2> QED BY <2>1, ZenonT(60) DEF Lives
<1> QED BY <1>1, <1>2

\* The mapped variables are functions on the actors.
LEMMA RowsAreFunctions ==
  /\ Kins = [a \in Actors |-> Kins[a]] /\ Kins' = [a \in Actors |-> Kins'[a]]
  /\ Tolds = [a \in Actors |-> Tolds[a]] /\ Tolds' = [a \in Actors |-> Tolds'[a]]
  /\ Closings = [a \in Actors |-> Closings[a]] /\ Closings' = [a \in Actors |-> Closings'[a]]
<1>1. Kins = [a \in Actors |-> Kins[a]] /\ Kins' = [a \in Actors |-> Kins'[a]]
  BY DEF Kins
<1>2. Tolds = [a \in Actors |-> Tolds[a]] /\ Tolds' = [a \in Actors |-> Tolds'[a]]
  BY DEF Tolds
<1>3. Closings = [a \in Actors |-> Closings[a]] /\ Closings' = [a \in Actors |-> Closings'[a]]
  BY DEF Closings
<1> QED BY <1>1, <1>2, <1>3

\* What an actor keeps in its loop depends on its tracker and on the child it
\* is about to insert: nothing else disturbs it.
LEMMA RowKept ==
  ASSUME NEW a \in Actors, InLoop(a)' <=> InLoop(a),
         InLoop(a) => tracker'[a] = tracker[a] /\ pending'[a] = pending[a]
  PROVE  Kins'[a] = Kins[a] /\ Tolds'[a] = Tolds[a] /\ Closings'[a] = Closings[a]
<1>1. InLoop(a) => Kin(a)' = Kin(a)
  BY DEF Kin
<1> QED BY <1>1 DEF Kins, Tolds, Closings

\* The same of all actors.
LEMMA RowsKept ==
  ASSUME \A a \in Actors : /\ InLoop(a)' <=> InLoop(a)
                           /\ InLoop(a) => tracker'[a] = tracker[a] /\ pending'[a] = pending[a]
  PROVE  UNCHANGED <<Kins, Tolds, Closings>>
<1>1. \A a \in Actors : Kins'[a] = Kins[a] /\ Tolds'[a] = Tolds[a] /\ Closings'[a] = Closings[a]
  BY RowKept
<1> QED BY <1>1, RowsAreFunctions

\* The same of all actors but one.
LEMMA OtherRowsKept ==
  ASSUME NEW a \in Actors,
         \A b \in Actors \ {a} : /\ InLoop(b)' <=> InLoop(b)
                                 /\ InLoop(b) => tracker'[b] = tracker[b] /\ pending'[b] = pending[b]
  PROVE  /\ Kins' = [Kins EXCEPT ![a] = Kins'[a]]
         /\ Tolds' = [Tolds EXCEPT ![a] = Tolds'[a]]
         /\ Closings' = [Closings EXCEPT ![a] = Closings'[a]]
<1>1. \A b \in Actors \ {a} :
        Kins'[b] = Kins[b] /\ Tolds'[b] = Tolds[b] /\ Closings'[b] = Closings[b]
  BY RowKept
<1> QED BY <1>1, RowsAreFunctions

\* An actor that leaves its loop lets go what it kept.
LEMMA Forgotten ==
  ASSUME TypeOK, NEW a \in Actors, InLoop(a), NEW p \in Phases \ {"running"},
         phase' = [phase EXCEPT ![a] = p], pending' = pending,
         \A b \in Actors \ {a} : tracker'[b] = tracker[b]
  PROVE  Abstract!Forget(a)
<1>1. ~InLoop(a)' /\ \A b \in Actors \ {a} : InLoop(b)' <=> InLoop(b)
  BY DEF InLoop, TypeOK
<1>2. Kins'[a] = Abstract!NoKin
  BY <1>1 DEF Kins, Abstract!NoKin
<1>3. Tolds'[a] = {} /\ Closings'[a] = FALSE
  BY <1>1 DEF Tolds, Closings
<1>4. /\ Kins' = [Kins EXCEPT ![a] = Kins'[a]]
      /\ Tolds' = [Tolds EXCEPT ![a] = Tolds'[a]]
      /\ Closings' = [Closings EXCEPT ![a] = Closings'[a]]
  BY <1>1, OtherRowsKept
<1> QED BY <1>2, <1>3, <1>4 DEF Abstract!Forget
-----------------------------------------------------------------------------
(* One step of the tree after the other.                                    *)

\* Steps inside a handler or between two of them, and the end of the joiners.
LEMMA FamilyStutters ==
  ASSUME TypeOK, NEW a \in Actors,
         HandlerReturns(a) \/ RecvInterrupt(a) \/ RecvMessage(a) \/ Release(a)
  PROVE  UNCHANGED Abstract!vars
<1>1. CASE HandlerReturns(a) \/ RecvInterrupt(a) \/ RecvMessage(a)
  <2>1. UNCHANGED <<phase, tracker, pending, parent, asked, hard, alive>>
    BY <1>1 DEF HandlerReturns, RecvInterrupt, RecvMessage
  <2>2. UNCHANGED <<Kins, Tolds, Closings>>
    BY <2>1, RowsKept DEF InLoop
  <2>3. UNCHANGED <<Lives, Endings>>
    BY <2>1, LivesStep DEF Endings
  <2> QED BY <2>1, <2>2, <2>3 DEF Abstract!vars
<1>2. CASE Release(a)
  <2>1. /\ phase[a] = "notified" /\ phase' = [phase EXCEPT ![a] = "dropped"]
        /\ tracker' = [tracker EXCEPT ![a] = new]
        /\ UNCHANGED <<pending, parent, asked, hard, alive>>
    BY <1>2 DEF Release, Drop
  <2>2. \A b \in Actors : /\ InLoop(b)' <=> InLoop(b)
                          /\ InLoop(b) => tracker'[b] = tracker[b] /\ pending'[b] = pending[b]
    BY <2>1 DEF InLoop, TypeOK
  <2>3. UNCHANGED <<Kins, Tolds, Closings>>
    BY <2>2, RowsKept
  <2>4. Lives[a] = "ended" /\ Lives \in [Ids -> {Lives[x] : x \in Ids}]
    BY <2>1 DEF Lives
  <2>5. Lives' = [Lives EXCEPT ![a] = "ended"]
    BY <2>1, LivesStep DEF Phases
  <2>6. Lives' = Lives
    BY <2>4, <2>5
  <2>7. Endings' = Endings
    BY <2>1 DEF Endings
  <2> QED BY <2>1, <2>3, <2>6, <2>7 DEF Abstract!vars
<1> QED BY <1>1, <1>2

\* The first step of a spawn: the child counts from now on.
LEMMA SpawnSpawns ==
  ASSUME TypeOK, TrackersConsistent, FamilyInv,
         NEW a \in Actors, NEW c \in Ids, NEW g \in Groups, Spawn(a, c, g)
  PROVE  Abstract!Spawn(a, c, g)
<1>1. /\ phase[a] = "running" /\ phase[c] = "unborn" /\ pending[a] = <<>>
      /\ phase' = [phase EXCEPT ![c] = "running"]
      /\ parent' = [parent EXCEPT ![c] = a]
      /\ pending' = [pending EXCEPT ![a] = <<c, g>>]
      /\ UNCHANGED <<alive, tracker, asked, hard>>
  BY DEF Spawn, InHandler
<1>2. Lives[a] = "running" /\ Lives[c] = "unborn"
  BY <1>1, Mapped
<1>3. Lives' = [Lives EXCEPT ![c] = "running"]
  BY <1>1, LivesStep DEF Phases
<1>4. ASSUME NEW b \in Actors \ {a, c}
      PROVE  Kins'[b] = Kins[b] /\ Tolds'[b] = Tolds[b] /\ Closings'[b] = Closings[b]
  BY <1>1, RowKept DEF InLoop, TypeOK
<1>5. Tolds'[a] = Tolds[a] /\ Closings'[a] = Closings[a]
  <2>1. InLoop(a) /\ InLoop(a)'
    BY <1>1 DEF InLoop, TypeOK
  <2> QED BY <1>1, <2>1 DEF Tolds, Closings
<1>6. Kins'[a] = [Kins[a] EXCEPT ![c] = g]
  <2>1. InLoop(a) /\ InLoop(a)'
    BY <1>1 DEF InLoop, TypeOK
  <2>2. pending'[a] # <<>> /\ pending'[a][1] = c /\ pending'[a][2] = g
    <3>1. pending'[a] = <<c, g>>
      BY <1>1 DEF TypeOK
    <3> QED BY <3>1
  <2>3. Kin(a) = [d \in Ids |-> tracker[a].records[d]]
    BY <1>1 DEF Kin
  <2>4. Kin(a)' = [d \in Ids |-> IF d = c THEN g ELSE tracker[a].records[d]]
    BY <1>1, <2>2 DEF Kin
  <2>5. Kins[a] = Kin(a) /\ Kins'[a] = Kin(a)'
    BY <2>1 DEF Kins
  <2>6. Kin(a)' = [Kin(a) EXCEPT ![c] = g]
    BY <2>3, <2>4, ZenonT(60)
  <2> QED BY <2>5, <2>6
<1>7. ASSUME c \in Actors
      PROVE  Kins'[c] = Kins[c] /\ Tolds'[c] = Tolds[c] /\ Closings'[c] = Closings[c]
  <2>1. tracker[c] = new /\ pending[c] = <<>> /\ c # a
    BY <1>1, <1>7 DEF FamilyInv, UnbornClean, TrackersConsistent
  <2>2. tracker'[c] = new /\ pending'[c] = <<>>
    BY <1>1, <2>1 DEF TypeOK
  <2>3. ~InLoop(c) /\ InLoop(c)'
    BY <1>1 DEF InLoop, TypeOK
  <2>4. Kin(c)' = Abstract!NoKin
    BY <2>2, NewFacts DEF Kin, Abstract!NoKin
  <2>5. Kins[c] = Abstract!NoKin /\ Kins'[c] = Kin(c)'
    BY <1>7, <2>3 DEF Kins, Abstract!NoKin
  <2>6. \A h \in Groups : ~new.stages[h].terminating
    BY NewFacts DEF NoStage
  <2>7. Tolds[c] = {} /\ Tolds'[c] = {}
    BY <1>7, <2>2, <2>3, <2>6 DEF Tolds
  <2>8. Closings[c] = FALSE /\ Closings'[c] = FALSE
    BY <1>7, <2>2, <2>3, NewFacts DEF Closings
  <2> QED BY <2>4, <2>5, <2>7, <2>8
<1>8. \A b \in Actors \ {a} : Kins'[b] = Kins[b]
  BY <1>4, <1>7
<1>9. \A b \in Actors : Tolds'[b] = Tolds[b] /\ Closings'[b] = Closings[b]
  BY <1>4, <1>5, <1>7
<1>10. Kins' = [Kins EXCEPT ![a] = [@ EXCEPT ![c] = g]]
  BY <1>6, <1>8, RowsAreFunctions
<1>11. Tolds' = Tolds /\ Closings' = Closings
  BY <1>9, RowsAreFunctions
<1>12. Endings' = Endings
  BY <1>1 DEF Endings
<1> QED BY <1>1, <1>2, <1>3, <1>10, <1>11, <1>12 DEF Abstract!Spawn

\* The second one: the child is asked at once if its group was told to end.
LEMMA InsertAsks ==
  ASSUME TypeOK, TrackersConsistent, NEW a \in Actors, Insert(a)
  PROVE  Abstract!AskToEnd
<1> DEFINE c == pending[a][1]
           g == pending[a][2]
           t == tracker[a]
           S == insert_interrupts(t, c, g)
<1>1. /\ pending[a] # <<>> /\ phase[a] = "running" /\ phase[c] # "unborn"
      /\ c \in Ids /\ g \in Groups /\ t \in Tracker
  BY DEF Insert, TrackersConsistent, TypeOK
<1>2. /\ tracker' = [tracker EXCEPT ![a] = insert(t, c, g)]
      /\ asked' = AskedOf(S)
      /\ pending' = [pending EXCEPT ![a] = <<>>]
      /\ UNCHANGED <<phase, alive, parent, hard>>
  BY DEF Insert, Interrupts
<1>3. InLoop(a) /\ InLoop(a)' /\ \A b \in Actors : InLoop(b)' <=> InLoop(b)
  BY <1>1, <1>2 DEF InLoop
<1>4. tracker'[a] = insert(t, c, g) /\ pending'[a] = <<>>
  BY <1>2 DEF TypeOK
<1>5. /\ tracker'[a].terminating = t.terminating
      /\ tracker'[a].records = [t.records EXCEPT ![c] = g]
      /\ \A h \in Groups : tracker'[a].stages[h].terminating = t.stages[h].terminating
  <2> HIDE DEF c, g, t
  <2> QED BY <1>1, <1>4, InsertFacts
<1>6. S \in SUBSET Ids /\ \A x \in S : x = c
  BY <1>1 DEF insert_interrupts
<1> HIDE DEF S
<1>7. Kins'[a] = Kins[a]
  <2>1. Kin(a)' = [d \in Ids |-> tracker'[a].records[d]]
    BY <1>4 DEF Kin
  <2>2. Kin(a) = [d \in Ids |-> IF d = c THEN g ELSE t.records[d]]
    BY <1>1 DEF Kin
  <2>3. t.records \in [Ids -> Groups \cup {NoGroup}]
    BY <1>1 DEF Tracker
  <2>4. Kin(a)' = Kin(a)
    <3> HIDE DEF c, g, t
    <3> QED BY <1>1, <1>5, <2>1, <2>2, <2>3
  <2> QED BY <1>3, <2>4 DEF Kins
<1>8. Tolds'[a] = Tolds[a] /\ Closings'[a] = Closings[a]
  BY <1>3, <1>5 DEF Tolds, Closings
<1>9. /\ Kins' = [Kins EXCEPT ![a] = Kins'[a]]
      /\ Tolds' = [Tolds EXCEPT ![a] = Tolds'[a]]
      /\ Closings' = [Closings EXCEPT ![a] = Closings'[a]]
  <2>1. \A b \in Actors \ {a} : tracker'[b] = tracker[b] /\ pending'[b] = pending[b]
    BY <1>2 DEF TypeOK
  <2> QED BY <1>3, <2>1, OtherRowsKept
<1>10. UNCHANGED <<Kins, Tolds, Closings>>
  BY <1>7, <1>8, <1>9, RowsAreFunctions
<1>11. UNCHANGED <<Lives, Endings>>
  BY <1>2, LivesStep DEF Endings
<1>12. S \in SUBSET {x \in Ids : Lives[x] # "unborn"}
  BY <1>1, <1>6, Mapped
<1>13. Abstract!Ask(S)
  BY <1>2 DEF AskedOf, Abstract!Ask
<1> QED BY <1>2, <1>10, <1>11, <1>12, <1>13 DEF Abstract!AskToEnd

\* terminate_group() and whoever interrupts an actor ask, and do no more.
LEMMA AskersAsk ==
  ASSUME TypeOK, TrackersConsistent, NEW a \in Actors,
         interrupt(a) \/ \E g \in Groups : terminate_group(a, g)
  PROVE  Abstract!AskToEnd
<1>1. PICK S \in SUBSET Ids : Interrupts(hp, S) /\ \A x \in S : phase[x] # "unborn"
  <2>1. CASE interrupt(a)
    <3>1. Interrupts(hp, {a}) /\ phase[a] # "unborn"
      BY <2>1 DEF interrupt, Receiving
    <3> QED BY <3>1
  <2>2. ASSUME NEW g \in Groups, terminate_group(a, g)
        PROVE  \E S \in SUBSET Ids : Interrupts(hp, S) /\ \A x \in S : phase[x] # "unborn"
    <3> DEFINE S == terminate_group_interrupts(tracker[a], g)
    <3>1. Interrupts(hp, S)
      BY <2>2 DEF terminate_group
    <3>2. S \subseteq tracked(tracker[a])
      BY DEF terminate_group_interrupts
    <3>3. S \in SUBSET Ids /\ \A x \in S : phase[x] # "unborn"
      BY <3>2 DEF tracked, TrackersConsistent
    <3> QED BY <3>1, <3>3
  <2> QED BY <2>1, <2>2
<1>2. UNCHANGED <<phase, tracker, pending, parent, hard, alive>>
  BY DEF interrupt, terminate_group
<1>3. UNCHANGED <<Kins, Tolds, Closings>>
  BY <1>2, RowsKept DEF InLoop
<1>4. UNCHANGED <<Lives, Endings>>
  BY <1>2, LivesStep DEF Endings
<1>5. S \in SUBSET {x \in Ids : Lives[x] # "unborn"}
  BY <1>1, Mapped
<1>6. Abstract!Ask(S)
  BY <1>1 DEF Interrupts, AskedOf, Abstract!Ask
<1> QED BY <1>2, <1>3, <1>4, <1>5, <1>6 DEF Abstract!AskToEnd

\* stop() in a handler, the end of the loop, a failed start and a panic.
LEMMA ActorEnds ==
  ASSUME TypeOK, NEW a \in Actors, Stop(a) \/ LeaveLoop(a) \/ AwakeFails(a) \/ Panic(a)
  PROVE  Abstract!StopHard(a) \/ Abstract!Leave(a) \/ Abstract!Break(a)
<1>1. InLoop(a) /\ Lives[a] = "running"
  BY DEF Stop, LeaveLoop, AwakeFails, Panic, InHandler, AtLoop, InLoop, Lives
<1>2. CASE Stop(a)
  <2>1. /\ UNCHANGED <<phase, tracker, pending, parent, asked>>
        /\ hard' = [hard EXCEPT ![a] = TRUE] /\ alive' = [alive EXCEPT ![a] = FALSE]
    BY <1>2 DEF Stop, stop
  <2>2. UNCHANGED <<Kins, Tolds, Closings>>
    BY <2>1, RowsKept DEF InLoop
  <2>3. Endings' = [Endings EXCEPT ![a] = "hard"]
    BY <2>1 DEF Endings, TypeOK
  <2> QED BY <1>1, <2>1, <2>2, <2>3, LivesStep DEF Abstract!StopHard
<1>3. CASE LeaveLoop(a)
  <2>1. /\ UNCHANGED <<alive, tracker, pending, parent, asked, hard>>
        /\ ~alive[a] /\ phase' = [phase EXCEPT ![a] = "finishing"]
    BY <1>3 DEF LeaveLoop
  <2>2. Abstract!Forget(a)
    BY <1>1, <2>1, Forgotten DEF Phases
  <2>3. Endings' = Endings /\ Endings[a] # "no"
    BY <2>1 DEF Endings
  <2>4. Lives' = [Lives EXCEPT ![a] = "leaving"]
    BY <2>1, LivesStep DEF Phases
  <2> QED BY <1>1, <2>1, <2>2, <2>3, <2>4 DEF Abstract!Leave
<1>4. CASE AwakeFails(a)
  <2>1. /\ UNCHANGED <<alive, tracker, pending, parent, asked>>
        /\ hard' = [hard EXCEPT ![a] = TRUE] /\ phase' = [phase EXCEPT ![a] = "finishing"]
    BY <1>4 DEF AwakeFails
  <2>2. Abstract!Forget(a)
    BY <1>1, <2>1, Forgotten DEF Phases
  <2>3. Endings' = [Endings EXCEPT ![a] = "hard"]
    BY <2>1 DEF Endings, TypeOK
  <2>4. Lives' = [Lives EXCEPT ![a] = "leaving"]
    BY <2>1, LivesStep DEF Phases
  <2> QED BY <1>1, <2>1, <2>2, <2>3, <2>4 DEF Abstract!Break
<1>5. CASE Panic(a)
  <2>1. /\ UNCHANGED <<alive, pending, parent, asked>> /\ a \in Panicky
        /\ \A b \in Actors \ {a} : tracker'[b] = tracker[b]
        /\ hard' = [hard EXCEPT ![a] = TRUE] /\ phase' = [phase EXCEPT ![a] = "panicked"]
    BY <1>5 DEF Panic, Drop, TypeOK
  <2>2. Abstract!Forget(a)
    BY <1>1, <2>1, Forgotten DEF Phases
  <2>3. Endings' = [Endings EXCEPT ![a] = "hard"]
    BY <2>1 DEF Endings, TypeOK
  <2>4. Lives' = [Lives EXCEPT ![a] = "panicked"]
    BY <2>1, LivesStep DEF Phases
  <2> QED BY <1>1, <2>1, <2>2, <2>3, <2>4 DEF Abstract!Break
<1> QED BY <1>2, <1>3, <1>4, <1>5

\* Whatever happens outside the loop of an actor leaves alone what it keeps.
LEMMA OutsideLoops ==
  ASSUME TypeOK, NEW x \in Ids, NEW p \in Phases,
         x \in Actors => ~InLoop(x) /\ p # "running",
         phase' = [phase EXCEPT ![x] = p],
         UNCHANGED <<alive, tracker, parent, pending, asked, hard>>
  PROVE  UNCHANGED <<parent, Kins, Tolds, Closings, Endings, asked>>
<1>1. \A b \in Actors : InLoop(b)' <=> InLoop(b)
  BY DEF InLoop, TypeOK
<1>2. UNCHANGED <<Kins, Tolds, Closings>>
  BY <1>1, RowsKept
<1>3. Endings' = Endings
  BY DEF Endings
<1> QED BY <1>2, <1>3

\* The end of a task.
LEMMA TaskEnded ==
  ASSUME TypeOK, NEW t \in Tasks, TaskReturns(t) \/ TaskPanics(t)
  PROVE  Abstract!TaskEnds(t)
<1>1. t \in Ids \ Actors /\ phase[t] = "running" /\ Lives[t] = "running"
  BY DEF TaskReturns, TaskPanics, Lives
<1>2. CASE TaskReturns(t)
  <2>1. /\ phase' = [phase EXCEPT ![t] = "finishing"]
        /\ UNCHANGED <<alive, tracker, parent, pending, asked, hard>>
    BY <1>2 DEF TaskReturns
  <2>2. Lives' = [Lives EXCEPT ![t] = "leaving"]
    BY <1>1, <2>1, LivesStep DEF Phases
  <2> QED BY <1>1, <2>1, <2>2, OutsideLoops DEF Abstract!TaskEnds, Phases
<1>3. CASE TaskPanics(t)
  <2>1. /\ phase' = [phase EXCEPT ![t] = "panicked"] /\ t \in Panicky
        /\ UNCHANGED <<alive, tracker, parent, pending, asked, hard>>
    BY <1>3 DEF TaskPanics
  <2>2. Lives' = [Lives EXCEPT ![t] = "panicked"]
    BY <1>1, <2>1, LivesStep DEF Phases
  <2> QED BY <1>1, <2>1, <2>2, OutsideLoops DEF Abstract!TaskEnds, Phases
<1> QED BY <1>2, <1>3

\* The notice of the end of an actor or a task.
LEMMA NoticeEnds ==
  ASSUME TypeOK, NEW x \in Ids, NotifyDone(x)
  PROVE  Abstract!End(x)
<1>1. /\ phase[x] = "finishing"
      /\ phase' = [phase EXCEPT ![x] = IF x \in Actors THEN "notified" ELSE "dropped"]
      /\ UNCHANGED <<alive, tracker, parent, pending, asked, hard>>
  BY DEF NotifyDone
<1>2. PICK p \in {"notified", "dropped"} : phase' = [phase EXCEPT ![x] = p]
  BY <1>1
<1>3. Lives[x] = "leaving" /\ ~InLoop(x)
  BY <1>1 DEF Lives, InLoop
<1>4. Lives' = [Lives EXCEPT ![x] = "ended"]
  BY <1>2, LivesStep DEF Phases
<1>5. UNCHANGED <<parent, Kins, Tolds, Closings, Endings, asked>>
  BY <1>1, <1>2, <1>3, OutsideLoops DEF Phases
<1> QED BY <1>3, <1>4, <1>5 DEF Abstract!End
-----------------------------------------------------------------------------
\* try_terminate_next() on a tracker that has lost nothing but a record: the
\* termination of the abstract parent advances.
LEMMA TerminateNextAdvances ==
  ASSUME TypeOK, NEW a \in Actors, InLoop(a), pending[a] = <<>>,
         UNCHANGED <<phase, pending, hard>>,
         NEW t \in Tracker, Consistent(t),
         \A g \in Groups : t.stages[g].terminating <=> tracker[a].stages[g].terminating,
         NEW queues, TerminateNext(a, t, queues)
  PROVE  /\ Abstract!Advance(a, t.records)
         /\ Kins' = [Kins EXCEPT ![a] = t.records]
<1>1. PICK sequence \in stage_sequence(t) :
        /\ tracker' = [tracker EXCEPT ![a] = try_terminate_next(t, sequence)]
        /\ asked' = AskedOf(terminate_next_interrupts(t, sequence))
        /\ IF is_finished(try_terminate_next(t, sequence)) THEN stop(a) ELSE UNCHANGED alive
  BY DEF TerminateNext, Interrupts
<1> DEFINE u == try_terminate_next(t, sequence)
           k == t.records
           G == {g \in Groups : u.stages[g].terminating}
<1>2. /\ u \in Tracker /\ u.terminating /\ u.records = k
      /\ \A g \in Groups :
           /\ u.stages[g].ids = t.stages[g].ids
           /\ u.stages[g].terminating = (t.stages[g].terminating \/ g \in reached(t, sequence))
  BY TerminateNextFacts
<1>3. Consistent(u)
  BY TerminateNextConsistent
<1>4. tracker'[a] = u /\ \A b \in Actors \ {a} : tracker'[b] = tracker[b]
  BY <1>1 DEF TypeOK
<1>5. is_finished(u) => tracked(u) = {}
  BY <1>2, <1>3, FinishedEmpty
<1>6. ~is_finished(u) => \E g \in Groups : u.stages[g].terminating /\ u.stages[g].ids # {}
  BY TerminateNextPends
<1>7. k \in [Ids -> Groups \cup {NoGroup}]
  BY DEF Tracker
<1>8. IF is_finished(u) THEN stop(a) ELSE UNCHANGED alive
  BY <1>1
<1> HIDE DEF u
<1>9. InLoop(a)' /\ pending'[a] = <<>> /\ \A b \in Actors : InLoop(b)' <=> InLoop(b)
  BY DEF InLoop
<1>10. /\ Kins' = [Kins EXCEPT ![a] = Kins'[a]]
       /\ Tolds' = [Tolds EXCEPT ![a] = Tolds'[a]]
       /\ Closings' = [Closings EXCEPT ![a] = Closings'[a]]
  BY <1>4, <1>9, OtherRowsKept
<1>11. Kins'[a] = k
  <2>1. Kin(a)' = [c \in Ids |-> tracker'[a].records[c]]
    BY <1>9 DEF Kin
  <2>2. Kin(a)' = k
    <3> HIDE DEF k
    <3> QED BY <1>2, <1>4, <1>7, <2>1
  <2> QED BY <1>9, <2>2 DEF Kins
<1>12. Tolds'[a] = G /\ Closings'[a] = TRUE
  BY <1>2, <1>4, <1>9 DEF Tolds, Closings
<1>13. Tolds[a] = {g \in Groups : t.stages[g].terminating}
  BY DEF Tolds
<1>14. Tolds[a] \subseteq G
  BY <1>2, <1>13
<1>15. G \ Tolds[a] = {g \in reached(t, sequence) : ~t.stages[g].terminating}
  BY <1>2, <1>13 DEF reached
<1>16. ASSUME NEW g \in G \ Tolds[a], NEW h \in Groups, Abstract!Precedes(h, g), NEW c \in Ids
       PROVE  k[c] # h
  <2>1. t.stages[h].ids = {}
    BY <1>15, <1>16, ReachedInOrder
  <2> QED BY <2>1 DEF Consistent
<1>17. Abstract!Ask({c \in Ids : k[c] \in G \ Tolds[a]})
  <2>1. ASSUME NEW c \in Ids
        PROVE  k[c] \in G \ Tolds[a] <=> c \in terminate_next_interrupts(t, sequence)
    <3>1. \A g \in Groups : c \in t.stages[g].ids <=> k[c] = g
      BY DEF Consistent
    <3>2. c \in terminate_next_interrupts(t, sequence) <=>
            k[c] # NoGroup /\ \E g \in reached(t, sequence) :
                                ~t.stages[g].terminating /\ c \in t.stages[g].ids
      BY DEF terminate_next_interrupts, tracked
    <3>3. reached(t, sequence) \subseteq Groups
      BY DEF reached
    <3>4. NoGroup \notin Groups
      OBVIOUS
    <3> HIDE DEF k, G
    <3> QED BY <1>15, <3>1, <3>2, <3>3, <3>4
  <2> HIDE DEF k, G
  <2> QED BY <1>1, <2>1 DEF AskedOf, Abstract!Ask
<1>18. \/ /\ k = Abstract!NoKin
          /\ Endings' = [Endings EXCEPT ![a] = IF @ = "no" THEN "graceful" ELSE @]
       \/ /\ \E c \in Ids : k[c] \in G
          /\ UNCHANGED Endings
  <2>1. CASE is_finished(u)
    <3>1. \A c \in Ids : u.records[c] = NoGroup
      BY <1>5, <2>1 DEF tracked
    <3>2. k = Abstract!NoKin
      <4> HIDE DEF k
      <4> QED BY <1>2, <1>7, <3>1 DEF Abstract!NoKin
    <3>3. Endings' = [Endings EXCEPT ![a] = IF @ = "no" THEN "graceful" ELSE @]
      <4>1. \A b \in Actors : alive'[b] = IF b = a THEN FALSE ELSE alive[b]
        <5>1. alive' = [alive EXCEPT ![a] = FALSE]
          BY <1>8, <2>1 DEF stop
        <5>2. alive \in [Actors -> BOOLEAN]
          BY DEF TypeOK
        <5> QED BY <5>1, <5>2
      <4>2. \A b \in Actors \ {a} : Endings'[b] = Endings[b]
        BY <4>1 DEF Endings
      <4>3. Endings'[a] = IF Endings[a] = "no" THEN "graceful" ELSE Endings[a]
        BY <4>1 DEF Endings
      <4>4. /\ Endings = [b \in Actors |-> Endings[b]]
            /\ Endings' = [b \in Actors |-> Endings'[b]]
        BY DEF Endings
      <4> QED BY <4>2, <4>3, <4>4
    <3> QED BY <3>2, <3>3
  <2>2. CASE ~is_finished(u)
    <3>1. PICK g \in Groups : u.stages[g].terminating /\ u.stages[g].ids # {}
      BY <1>6, <2>2
    <3>2. t.stages[g].ids # {} /\ t.stages[g].ids \subseteq Ids
      BY <1>2, <3>1 DEF Tracker, Stage
    <3>3. PICK c \in Ids : c \in t.stages[g].ids
      BY <3>2
    <3>4. k[c] = g
      BY <3>3 DEF Consistent
    <3>5. UNCHANGED Endings
      BY <1>8, <2>2 DEF Endings
    <3> QED BY <3>1, <3>4, <3>5
  <2> QED BY <2>1, <2>2
<1>19. G \in SUBSET Groups
  OBVIOUS
<1> HIDE DEF k, G
<1>20. Abstract!Advance(a, k)
  BY <1>10, <1>12, <1>14, <1>16, <1>17, <1>18, <1>19 DEF Abstract!Advance
<1> QED BY <1>10, <1>11, <1>20 DEF k

\* An actor that inserts no child keeps what its tracker has.
LEMMA KinOfTracker ==
  ASSUME TypeOK, NEW a \in Actors, InLoop(a), pending[a] = <<>>
  PROVE  Kins[a] = tracker[a].records
<1>1. tracker[a].records \in [Ids -> Groups \cup {NoGroup}]
  BY DEF TypeOK, Tracker
<1>2. Kin(a) = [c \in Ids |-> tracker[a].records[c]]
  BY DEF Kin
<1> QED BY <1>1, <1>2 DEF Kins

\* shutdown() begins a termination, or tries to go on with it.
LEMMA ShutdownTerminates ==
  ASSUME TypeOK, TrackersConsistent, NEW a \in Actors, shutdown(a)
  PROVE  Abstract!Terminate(a)
<1> DEFINE t == tracker[a]
<1>1. /\ InLoop(a) /\ pending[a] = <<>> /\ TerminateNext(a, t, hp)
      /\ UNCHANGED <<phase, pending, parent, hard>>
  BY DEF shutdown, InHandler, InLoop
<1>2. t \in Tracker /\ Consistent(t)
  BY DEF TypeOK, TrackersConsistent
<1>3. Abstract!Advance(a, t.records) /\ Kins' = [Kins EXCEPT ![a] = t.records]
  BY <1>1, <1>2, TerminateNextAdvances
<1>4. Kins[a] = t.records
  BY <1>1, KinOfTracker
<1> HIDE DEF t
<1>5. Kins' = Kins
  BY <1>3, <1>4, RowsAreFunctions
<1>6. Lives[a] = "running" /\ Lives' = Lives
  BY <1>1, LivesStep DEF InLoop, Lives
<1> QED BY <1>1, <1>3, <1>4, <1>5, <1>6 DEF Abstract!Terminate

\* remove() takes a record, and leaves the marks of a termination.
LEMMA RemoveKeeps ==
  ASSUME NEW t \in Tracker, NEW id \in Ids
  PROVE  /\ remove_record(t, id) \in Tracker
         /\ remove_record(t, id).terminating <=> t.terminating
         /\ remove_record(t, id).records = [t.records EXCEPT ![id] = NoGroup]
         /\ \A g \in Groups :
              remove_record(t, id).stages[g].terminating <=> t.stages[g].terminating
<1> DEFINE u == remove_record(t, id)
<1>1. /\ u \in Tracker /\ u.terminating = t.terminating
      /\ u.records = [t.records EXCEPT ![id] = NoGroup]
  BY RemoveFacts, ZenonT(90)
<1>2. \A g \in Groups : u.stages[g].terminating <=> t.stages[g].terminating
  BY RemoveStage
<1> HIDE DEF u
<1>3. u.terminating <=> t.terminating
  BY <1>1
<1> QED BY <1>1, <1>2, <1>3 DEF u

\* A Done parcel: the actor learns of the end of a child it keeps.
LEMMA RecvDoneLearns ==
  ASSUME TypeOK, TrackersConsistent, FamilyInv, HardStops, NEW a \in Actors, RecvDone(a)
  PROVE  \E c \in Ids : Abstract!Learn(a, c)
<1> DEFINE t == tracker[a]
           id == Head(hp[a]).id
           r == remove_record(t, id)
           queues == [hp EXCEPT ![a] = Tail(@)]
<1>1. /\ InLoop(a) /\ alive[a] /\ pending[a] = <<>>
      /\ UNCHANGED <<phase, pending, parent, hard>>
  BY DEF RecvDone, AtLoop, InLoop, TrackersConsistent
<1>2. t \in Tracker /\ Consistent(t)
  BY DEF TypeOK, TrackersConsistent
<1>3. /\ id \in Ids /\ Ended(id) /\ phase[id] # "panicked" /\ parent[id] = a
      /\ Head(hp[a]) = Done(id) /\ Has(hp[a], Head(hp[a]))
  BY RecvDoneEnded DEF FamilyInv
<1>4. id \in Known(a)
  BY <1>1, <1>3 DEF FamilyInv, NoticesDue, InQueue, Has, InLoop
<1>5. Kins[a] = t.records /\ Kins[a][id] # NoGroup
  <2>1. Kins[a] = t.records
    BY <1>1, KinOfTracker
  <2>2. id \in tracked(t)
    BY <1>1, <1>4 DEF Known
  <2> QED BY <2>1, <2>2 DEF tracked
<1>6. Lives[a] = "running" /\ Lives[id] = "ended" /\ Lives' = Lives
  <2>1. phase[id] \in {"notified", "dropped"} /\ phase[a] = "running"
    BY <1>1, <1>3 DEF Ended, InLoop
  <2> HIDE DEF id
  <2> QED BY <1>1, <1>3, <2>1, LivesStep DEF Lives
<1>7. Endings[a] = "no"
  BY <1>1 DEF Endings, HardStops, InLoop
<1>8. /\ r \in Tracker /\ (r.terminating <=> t.terminating)
      /\ r.records = [t.records EXCEPT ![id] = NoGroup]
      /\ \A g \in Groups : r.stages[g].terminating <=> t.stages[g].terminating
  BY <1>2, <1>3, RemoveKeeps
<1>9. Consistent(r)
  BY <1>2, <1>3, RemoveConsistent
<1>10. Closings[a] = t.terminating
  BY <1>1, <1>2 DEF Closings, Tracker
<1>11. \/ r.terminating /\ TerminateNext(a, r, queues)
       \/ /\ ~r.terminating /\ tracker' = [tracker EXCEPT ![a] = r]
          /\ Interrupts(queues, {})
          /\ IF is_finished(r) THEN stop(a) ELSE UNCHANGED alive
  BY DEF RecvDone
<1>12. ~r.terminating /\ tracker' = [tracker EXCEPT ![a] = r] => ~is_finished(r)
  <2> HIDE DEF r
  <2>1. tracker' = [tracker EXCEPT ![a] = r] => tracker'[a] = r
    BY DEF TypeOK
  <2> QED BY <1>8, <2>1, FinishedIsTerminating
<1> HIDE DEF t, id, r, queues
<1> DEFINE k == [Kins[a] EXCEPT ![id] = NoGroup]
<1>13. k = r.records
  BY <1>5, <1>8
<1>14. /\ Kins' = [Kins EXCEPT ![a] = k]
       /\ \/ Closings[a] /\ Abstract!Advance(a, k)
          \/ ~Closings[a] /\ UNCHANGED <<Tolds, Closings, Endings, asked>>
  <2>1. CASE r.terminating /\ TerminateNext(a, r, queues)
    <3>1. \A g \in Groups : r.stages[g].terminating <=> tracker[a].stages[g].terminating
      BY <1>8 DEF t
    <3>2. Abstract!Advance(a, r.records) /\ Kins' = [Kins EXCEPT ![a] = r.records]
      BY <1>1, <1>8, <1>9, <2>1, <3>1, TerminateNextAdvances
    <3> HIDE DEF k
    <3> QED BY <1>8, <1>10, <1>13, <2>1, <3>2
  <2>2. CASE /\ ~r.terminating /\ tracker' = [tracker EXCEPT ![a] = r]
             /\ Interrupts(queues, {})
             /\ IF is_finished(r) THEN stop(a) ELSE UNCHANGED alive
    <3>1. UNCHANGED alive /\ asked' = asked
      BY <1>12, <2>2 DEF Interrupts, AskedOf, TypeOK
    <3>2. Endings' = Endings
      BY <1>1, <3>1 DEF Endings
    <3>3. tracker'[a] = r /\ \A b \in Actors \ {a} : tracker'[b] = tracker[b]
      BY <2>2 DEF TypeOK
    <3>4. InLoop(a)' /\ pending'[a] = <<>> /\ \A b \in Actors : InLoop(b)' <=> InLoop(b)
      BY <1>1 DEF InLoop
    <3>5. /\ Kins' = [Kins EXCEPT ![a] = Kins'[a]]
          /\ Tolds' = [Tolds EXCEPT ![a] = Tolds'[a]]
          /\ Closings' = [Closings EXCEPT ![a] = Closings'[a]]
      BY <1>1, <3>3, <3>4, OtherRowsKept
    <3>6. Tolds'[a] = Tolds[a] /\ Closings'[a] = Closings[a]
      BY <1>1, <1>8, <3>3, <3>4 DEF Tolds, Closings, t
    <3>7. Kins'[a] = k
      <4>1. Kin(a)' = [c \in Ids |-> r.records[c]]
        BY <3>3, <3>4 DEF Kin
      <4>2. r.records \in [Ids -> Groups \cup {NoGroup}]
        BY <1>8 DEF Tracker
      <4>3. Kins'[a] = r.records
        BY <3>4, <4>1, <4>2 DEF Kins
      <4> QED BY <1>13, <4>3
    <3>8. Tolds' = Tolds /\ Closings' = Closings
      BY <3>5, <3>6, RowsAreFunctions
    <3> HIDE DEF k
    <3> QED BY <1>8, <1>10, <2>2, <3>1, <3>2, <3>5, <3>7, <3>8
  <2> QED BY <1>11, <2>1, <2>2
<1> QED BY <1>1, <1>3, <1>5, <1>6, <1>7, <1>14 DEF Abstract!Learn

\* Every step of the tree is a step of the abstract family, or none.
LEMMA TreeStep ==
  ASSUME TypeOK, TrackersConsistent, FamilyInv, HardStops, [Next]_vars
  PROVE  [Abstract!Next]_Abstract!vars
<1>1. ASSUME NEW a \in Actors, HandlerStep(a) \/ RuntimeStep(a) \/ interrupt(a)
      PROVE  [Abstract!Next]_Abstract!vars
  <2>1. ASSUME NEW c \in Ids, NEW g \in Groups, Spawn(a, c, g)
        PROVE  Abstract!Next
    BY <2>1, SpawnSpawns DEF Abstract!Next
  <2>2. CASE Stop(a) \/ AwakeFails(a) \/ Panic(a) \/ LeaveLoop(a)
    BY <2>2, ActorEnds DEF Abstract!Next
  <2>3. CASE shutdown(a)
    BY <2>3, ShutdownTerminates DEF Abstract!Next
  <2>4. CASE interrupt(a) \/ \E g \in Groups : terminate_group(a, g)
    BY <2>4, AskersAsk DEF Abstract!Next
  <2>5. CASE Insert(a)
    BY <2>5, InsertAsks DEF Abstract!Next
  <2>6. CASE RecvDone(a)
    BY <2>6, RecvDoneLearns DEF Abstract!Next
  <2>7. CASE HandlerReturns(a) \/ RecvInterrupt(a) \/ RecvMessage(a) \/ Release(a)
    BY <2>7, FamilyStutters
  <2> QED BY <1>1, <2>1, <2>2, <2>3, <2>4, <2>5, <2>6, <2>7 DEF HandlerStep, RuntimeStep
<1>2. ASSUME NEW x \in Ids, NotifyDone(x)
      PROVE  Abstract!Next
  BY <1>2, NoticeEnds DEF Abstract!Next
<1>3. ASSUME NEW t \in Tasks, TaskReturns(t) \/ TaskPanics(t)
      PROVE  Abstract!Next
  BY <1>3, TaskEnded DEF Abstract!Next
<1>4. CASE UNCHANGED vars
  <2>1. UNCHANGED <<phase, tracker, pending, parent, asked, hard, alive>>
    BY <1>4 DEF vars
  <2>2. UNCHANGED <<Kins, Tolds, Closings>>
    BY <2>1, RowsKept DEF InLoop
  <2>3. UNCHANGED <<Lives, Endings>>
    BY <2>1, LivesStep DEF Endings
  <2> QED BY <2>1, <2>2, <2>3 DEF Abstract!vars
<1> QED BY <1>1, <1>2, <1>3, <1>4 DEF Next, AllOver

\* The supervision tree implements the abstract family, for all actors, tasks,
\* groups and termination sequences: whatever is spawned, inserted late, stopped,
\* interrupted or broken by a panic meanwhile, each step of the trackers, queues
\* and handlers is one of the steps the family allows, or none.
THEOREM TreeKeepsFamily == Spec => KeepsFamily
<1>1. Init => Abstract!Init
  <2> SUFFICES ASSUME Init PROVE Abstract!Init
    OBVIOUS
  <2>1. Lives = [x \in Ids |-> IF x = Root THEN "running" ELSE "unborn"]
    BY DEF Init, Lives
  <2>2. \A a \in Actors : tracker[a] = new /\ pending[a] = <<>>
    BY DEF Init
  <2>3. \A a \in Actors : Kin(a) = Abstract!NoKin
    BY <2>2, NewFacts DEF Kin, Abstract!NoKin
  <2>4. Kins = [a \in Actors |-> Abstract!NoKin]
    BY <2>3 DEF Kins, Abstract!NoKin
  <2>5. \A a \in Actors : Tolds[a] = {} /\ Closings[a] = FALSE
    <3>1. ~new.terminating /\ \A g \in Groups : ~new.stages[g].terminating
      BY NewFacts DEF NoStage
    <3> QED BY <2>2, <3>1 DEF Tolds, Closings
  <2>6. Tolds = [a \in Actors |-> {}] /\ Closings = [a \in Actors |-> FALSE]
    BY <2>5, RowsAreFunctions
  <2>7. Endings = [a \in Actors |-> "no"]
    BY DEF Init, Endings
  <2> QED BY <2>1, <2>4, <2>6, <2>7 DEF Init, Abstract!Init
<1> QED
  BY <1>1, TreeStep, TypeCorrect, ConsistentTrackers, NoChildEscapes, HardAlwaysStops, PTL
     DEF Spec, KeepsFamily, Abstract!Spec
=============================================================================
