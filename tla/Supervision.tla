----------------------------- MODULE Supervision -----------------------------
(***************************************************************************)
(* The tree of actors and tasks (meio/src/actor_runtime.rs, lifecycle.rs,  *)
(* lite_runtime.rs): how children are spawned and tracked, how a graceful  *)
(* termination walks through the groups of children, how the Done notice   *)
(* of a child drives it on, and how an actor ends.                         *)
(*                                                                         *)
(* Every actor is a process.  It is either inside a handler (the user's    *)
(* code, which may call the methods of its Context) or at the top of the   *)
(* loop of ActorRuntime::routine.  Steps of different actors and tasks     *)
(* interleave; the methods of a Context are synchronous code of one        *)
(* thread, except that a spawned child runs at once on another one, so     *)
(* spawning and tracking a child are two steps.                            *)
(***************************************************************************)
EXTENDS LifetimeTracker

CONSTANTS
  Actors,       \* ids of actors
  Tasks,        \* ids of LiteTasks
  Root,         \* the actor spawned by System::spawn, without a supervisor
  Obedient,     \* actors whose InterruptedBy handler calls ctx.shutdown()
  Panicky,      \* actors and tasks whose user code may panic
  Nobody,       \* no parent
  MaxInterrupts \* bound on the queue length for user-sent interrupts

ASSUME SupervisionAssumption ==
  /\ Ids = Actors \cup Tasks
  /\ Actors \cap Tasks = {}
  /\ Root \in Actors
  /\ Obedient \subseteq Actors
  /\ Panicky \subseteq Ids
  /\ Nobody \notin Ids
  /\ MaxInterrupts \in Nat

VARIABLES
  phase,     \* how far the entrypoint of each actor or task has come
  handler,   \* which handler each actor is executing
  alive,     \* Context::alive
  tracker,   \* Context::lifetime_tracker
  hp,        \* the high-priority queue of each actor
  parent,    \* the supervisor the done_notifier of a child points to
  pending,   \* <<child, group>> spawned but not inserted yet, or <<>>
  asked,     \* interrupt() has been called for this actor or task
  hard,      \* history: the actor ended, or will, by stop(), Err or panic
  late       \* history: the child was spawned by an actor already stopped

vars == <<phase, handler, alive, tracker, hp, parent, pending, asked, hard, late>>
-----------------------------------------------------------------------------
\* Mutant: the notice of a child carries another operation.
Finished(id) == [op |-> "Finished", id |-> id]

Done(id) == [op |-> "Done", id |-> id]

\* Operation::Forward with an Interrupt envelope.
Interrupt(a) == [op |-> "Interrupt", id |-> a]

Parcel == [op : {"Done", "Interrupt"}, id : Ids]

Phases == {"unborn", "running", "finishing", "notified", "dropped", "panicked"}

\* The loop or the routine is over; only the Done notice may be on its way.
Ended(x) == phase[x] \in {"notified", "dropped", "panicked"}

\* The receiving half of the queues exists: a send succeeds.
Receiving(a) == phase[a] \in {"running", "finishing", "notified"}

Init ==
  /\ phase = [x \in Ids |-> IF x = Root THEN "running" ELSE "unborn"]
  /\ handler = [a \in Actors |-> IF a = Root THEN "awake" ELSE "none"]
  /\ alive = [a \in Actors |-> TRUE]
  /\ tracker = [a \in Actors |-> new]
  /\ hp = [a \in Actors |-> <<>>]
  /\ parent = [x \in Ids |-> Nobody]
  /\ pending = [a \in Actors |-> <<>>]
  /\ asked = [x \in Ids |-> FALSE]
  /\ hard = [a \in Actors |-> FALSE]
  /\ late = [x \in Ids |-> FALSE]

\* User code of `a` is running and may use its Context.
InHandler(a) == phase[a] = "running" /\ handler[a] # "none" /\ pending[a] = <<>>

\* `a` is at the top of the while loop of routine().
AtLoop(a) == phase[a] = "running" /\ handler[a] = "none"

\* record.interrupt() is called for every member of S: an actor gets a parcel,
\* if its queue still exists, and the stop signal of a task is set.
Delivered(queues, S) ==
  [b \in Actors |-> IF b \in S /\ Receiving(b)
                    THEN Append(queues[b], Interrupt(b))
                    ELSE queues[b]]

AskedOf(S) == [x \in Ids |-> asked[x] \/ x \in S]

Interrupts(queues, S) == hp' = Delivered(queues, S) /\ asked' = AskedOf(S)
-----------------------------------------------------------------------------
(* Methods of Context, called by a handler of `a`.                          *)

\* spawn_actor, spawn_task, attach, track_interaction: start the runtime ...
Spawn(a, c, g) ==
  /\ InHandler(a)
  /\ phase[c] = "unborn"
  /\ phase' = [phase EXCEPT ![c] = "running"]
  /\ handler' = IF c \in Actors THEN [handler EXCEPT ![c] = "awake"] ELSE handler
  /\ parent' = [parent EXCEPT ![c] = a]
  /\ pending' = [pending EXCEPT ![a] = <<c, g>>]
  /\ late' = [late EXCEPT ![c] = ~alive[a]]
  /\ UNCHANGED <<alive, tracker, hp, asked, hard>>

\* ... and then insert its address into the tracker, whatever it did meanwhile.
Insert(a) ==
  /\ pending[a] # <<>>
  /\ LET c == pending[a][1]
         g == pending[a][2]
     IN  /\ tracker' = [tracker EXCEPT ![a] = insert(@, c, g)]
         /\ Interrupts(hp, insert_interrupts(tracker[a], c, g))
  /\ pending' = [pending EXCEPT ![a] = <<>>]
  /\ UNCHANGED <<phase, handler, alive, parent, hard, late>>

stop(a) == alive' = [alive EXCEPT ![a] = FALSE]

Stop(a) ==
  /\ InHandler(a)
  /\ stop(a)
  /\ hard' = [hard EXCEPT ![a] = TRUE]
  /\ UNCHANGED <<phase, handler, tracker, hp, parent, pending, asked, late>>

\* What shutdown() and a Done parcel have in common once the tracker is
\* terminating: visit the next stages, and stop if nothing is left.
TerminateNext(a, t, queues) ==
  \E sequence \in stage_sequence(t) :
    /\ tracker' = [tracker EXCEPT ![a] = try_terminate_next(t, sequence)]
    /\ Interrupts(queues, terminate_next_interrupts(t, sequence))
    /\ IF is_finished(try_terminate_next(t, sequence)) THEN stop(a) ELSE UNCHANGED alive

\* Mutant: shutdown() does not wait for the children it interrupts.
ShutdownAtOnce(a) ==
  /\ InHandler(a)
  /\ \E sequence \in stage_sequence(tracker[a]) :
       /\ tracker' = [tracker EXCEPT ![a] = try_terminate_next(@, sequence)]
       /\ Interrupts(hp, terminate_next_interrupts(tracker[a], sequence))
  /\ stop(a)
  /\ UNCHANGED <<phase, handler, parent, pending, hard, late>>

shutdown(a) ==
  /\ InHandler(a)
  /\ TerminateNext(a, tracker[a], hp)
  /\ UNCHANGED <<phase, handler, parent, pending, hard, late>>

terminate_group(a, g) ==
  LET S == terminate_group_interrupts(tracker[a], g) IN
  /\ InHandler(a)
  /\ \A c \in S \cap Actors : Len(hp[c]) < MaxInterrupts
  /\ Interrupts(hp, S)
  /\ UNCHANGED <<phase, handler, alive, tracker, parent, pending, hard, late>>

\* Context::interrupt, Address::interrupt_by, System::interrupt: any holder of
\* an address of `a` interrupts it.
interrupt(a) ==
  /\ Receiving(a)
  /\ Len(hp[a]) < MaxInterrupts
  /\ Interrupts(hp, {a})
  /\ UNCHANGED <<phase, handler, alive, tracker, parent, pending, hard, late>>
-----------------------------------------------------------------------------
(* The loop of ActorRuntime::routine.                                       *)

\* A Done parcel: remove() the child, stop() if that was the last one of a
\* termination, then run the Eliminated (TaskEliminated) handler.
RecvDone(a) ==
  /\ AtLoop(a) /\ alive[a]
  /\ hp[a] # <<>> /\ Head(hp[a]).op = "Done"
  /\ LET t == remove_record(tracker[a], Head(hp[a]).id)
         queues == [hp EXCEPT ![a] = Tail(@)]
     IN  \/ t.terminating /\ TerminateNext(a, t, queues)
         \/ /\ ~t.terminating
            /\ tracker' = [tracker EXCEPT ![a] = t]
            /\ Interrupts(queues, {})
            /\ IF is_finished(t) THEN stop(a) ELSE UNCHANGED alive
  /\ handler' = [handler EXCEPT ![a] = "other"]
  /\ UNCHANGED <<phase, parent, pending, hard, late>>

RecvInterrupt(a) ==
  /\ AtLoop(a) /\ alive[a]
  /\ hp[a] # <<>> /\ Head(hp[a]).op = "Interrupt"
  /\ hp' = [hp EXCEPT ![a] = Tail(@)]
  /\ handler' = [handler EXCEPT ![a] = "interrupt"]
  /\ UNCHANGED <<phase, alive, tracker, parent, pending, asked, hard, late>>

\* Any other envelope, of any priority (the mailbox is module ActorRuntime's).
RecvMessage(a) ==
  /\ AtLoop(a) /\ alive[a]
  /\ handler' = [handler EXCEPT ![a] = "other"]
  /\ UNCHANGED <<phase, alive, tracker, hp, parent, pending, asked, hard, late>>

\* A handler returns; an Err is logged and has no other effect.  An obedient
\* actor has called shutdown() before its InterruptedBy handler returns.
HandlerReturns(a) ==
  /\ InHandler(a)
  /\ (handler[a] = "interrupt" /\ a \in Obedient) => tracker[a].terminating
  /\ handler' = [handler EXCEPT ![a] = "none"]
  /\ UNCHANGED <<phase, alive, tracker, hp, parent, pending, asked, hard, late>>

\* The StartedBy handler returns Err: routine() is never called.
AwakeFails(a) ==
  /\ InHandler(a) /\ handler[a] = "awake"
  /\ phase' = [phase EXCEPT ![a] = "finishing"]
  /\ handler' = [handler EXCEPT ![a] = "none"]
  /\ hard' = [hard EXCEPT ![a] = TRUE]
  /\ UNCHANGED <<alive, tracker, hp, parent, pending, asked, late>>

LeaveLoop(a) ==
  /\ AtLoop(a) /\ ~alive[a]
  /\ phase' = [phase EXCEPT ![a] = "finishing"]
  /\ UNCHANGED <<handler, alive, tracker, hp, parent, pending, asked, hard, late>>

\* done_notifier.notify(): the supervisor may be gone, then the send fails.
NotifyDone(x) ==
  /\ phase[x] = "finishing"
  /\ phase' = [phase EXCEPT ![x] = IF x \in Actors THEN "notified" ELSE "dropped"]
  /\ hp' = IF parent[x] \in Actors /\ Receiving(parent[x])
           THEN [hp EXCEPT ![parent[x]] = Append(@, Done(x))]
           ELSE hp
  /\ UNCHANGED <<handler, alive, tracker, parent, pending, asked, hard, late>>

\* The joiners are released and the runtime, its queues and tracker dropped.
Drop(a) ==
  /\ hp' = [hp EXCEPT ![a] = <<>>]
  /\ tracker' = [tracker EXCEPT ![a] = new]

Release(a) ==
  /\ phase[a] = "notified"
  /\ phase' = [phase EXCEPT ![a] = "dropped"]
  /\ Drop(a)
  /\ UNCHANGED <<handler, alive, parent, pending, asked, hard, late>>

\* A panic unwinds the entrypoint: no Done notice is sent.
Panic(a) ==
  /\ a \in Panicky
  /\ InHandler(a)
  /\ phase' = [phase EXCEPT ![a] = "panicked"]
  /\ handler' = [handler EXCEPT ![a] = "none"]
  /\ hard' = [hard EXCEPT ![a] = TRUE]
  /\ Drop(a)
  /\ UNCHANGED <<alive, parent, pending, asked, late>>
-----------------------------------------------------------------------------
(* Tasks: module LiteTask looks inside routine().                           *)

TaskReturns(t) ==
  /\ phase[t] = "running"
  /\ phase' = [phase EXCEPT ![t] = "finishing"]
  /\ UNCHANGED <<handler, alive, tracker, hp, parent, pending, asked, hard, late>>

TaskPanics(t) ==
  /\ t \in Panicky
  /\ phase[t] = "running"
  /\ phase' = [phase EXCEPT ![t] = "panicked"]
  /\ UNCHANGED <<handler, alive, tracker, hp, parent, pending, asked, hard, late>>

\* Everything that was started is over.
AllOver ==
  /\ \A x \in Ids : phase[x] \in {"unborn", "dropped", "panicked"}
  /\ UNCHANGED vars
-----------------------------------------------------------------------------
HandlerStep(a) ==
  \/ \E c \in Ids, g \in Groups : Spawn(a, c, g)
  \/ Stop(a)
  \/ shutdown(a)
  \/ \E g \in Groups : terminate_group(a, g)
  \/ HandlerReturns(a)
  \/ AwakeFails(a)
  \/ Panic(a)

RuntimeStep(a) ==
  \/ Insert(a)
  \/ RecvDone(a)
  \/ RecvInterrupt(a)
  \/ RecvMessage(a)
  \/ LeaveLoop(a)
  \/ Release(a)

Next ==
  \/ \E a \in Actors : HandlerStep(a) \/ RuntimeStep(a) \/ interrupt(a)
  \/ \E x \in Ids : NotifyDone(x)
  \/ \E t \in Tasks : TaskReturns(t) \/ TaskPanics(t)
  \/ AllOver

Spec == Init /\ [][Next]_vars

\* The executor polls every ready future again.  The high-priority queue is a
\* FIFO polled first by the biased select, so only the finitely many parcels
\* ahead delay one: strong fairness, as RecvMessage stands for those parcels.
\* Handlers return, an obedient one after it has called shutdown(), and a task
\* ends after stop().  Nobody has to spawn, to stop or to fail.
Fairness ==
  /\ \A a \in Actors :
       /\ WF_vars(Insert(a))
       /\ SF_vars(RecvDone(a) \/ RecvInterrupt(a))
       /\ WF_vars(HandlerReturns(a))
       /\ WF_vars(LeaveLoop(a))
       /\ WF_vars(Release(a))
  /\ \A a \in Obedient :
       WF_vars(handler[a] = "interrupt" /\ ~tracker[a].terminating /\ shutdown(a))
  /\ \A x \in Ids : WF_vars(NotifyDone(x))
  /\ \A t \in Tasks : WF_vars(asked[t] /\ TaskReturns(t))

FairSpec == Spec /\ Fairness
-----------------------------------------------------------------------------
(* Properties.                                                              *)

\* The type invariant of the supervision tree.
TypeOK ==
  /\ phase \in [Ids -> Phases]
  /\ handler \in [Actors -> {"none", "awake", "interrupt", "other"}]
  /\ alive \in [Actors -> BOOLEAN]
  /\ tracker \in [Actors -> Tracker]
  /\ hp \in [Actors -> Seq(Parcel)]
  /\ parent \in [Ids -> Actors \cup {Nobody}]
  /\ pending \in [Actors -> (Ids \X Groups) \cup {<<>>}]
  /\ asked \in [Ids -> BOOLEAN]
  /\ hard \in [Actors -> BOOLEAN]
  /\ late \in [Ids -> BOOLEAN]

InQueue(a, parcel) == \E i \in DOMAIN hp[a] : hp[a][i] = parcel

\* The children an actor knows of: the tracked ones and the one it is about to
\* insert.
Known(a) ==
  tracked(tracker[a]) \cup (IF pending[a] = <<>> THEN {} ELSE {pending[a][1]})

\* No child escapes: a running actor knows of every child it has spawned until
\* it has taken the child's Done parcel, and a child it knows of is running,
\* has its Done parcel on the way, or has panicked.  Holds although a child
\* may end before spawn_actor() has inserted it.
ChildrenAccountedFor ==
  \A a \in Actors : phase[a] = "running" =>
    \A c \in Ids :
      /\ (parent[c] = a /\ ~Ended(c)) => c \in Known(a)
      /\ c \in Known(a) =>
           /\ parent[c] = a
           /\ Ended(c) => InQueue(a, Done(c)) \/ phase[c] = "panicked"

\* The bookkeeping of every tracker stays consistent, because an id is spawned
\* and inserted once, and not inserted again after its removal.
TrackersConsistent ==
  \A a \in Actors :
    /\ Consistent(tracker[a])
    /\ \A c \in Ids : tracker[a].records[c] # NoGroup => phase[c] # "unborn"
    /\ pending[a] # <<>> =>
         /\ phase[a] = "running" /\ handler[a] # "none"
         /\ phase[pending[a][1]] # "unborn"
         /\ tracker[a].records[pending[a][1]] = NoGroup

\* Whatever is in a terminating stage has been told to stop: also the child
\* inserted after the stage was visited.
TerminatingStagesInterrupted ==
  \A a \in Actors : \A g \in Groups : \A c \in Ids :
    (tracker[a].stages[g].terminating /\ c \in tracker[a].stages[g].ids) => asked[c]

\* A termination never stalls: as long as a terminating actor is alive, some
\* child has been interrupted whose Done parcel will drive it on.  A child
\* spawned into a fresh stage after shutdown() waits for such a parcel.
TerminationPending ==
  \A a \in Actors : (phase[a] = "running" /\ alive[a] /\ tracker[a].terminating) =>
    \E g \in Groups : tracker[a].stages[g].terminating /\ tracker[a].stages[g].ids # {}

\* shutdown() is graceful: an actor whose loop has been left through it has no
\* child that is still running, except one spawned after the loop was told to
\* stop, by a handler that went on spawning.
GracefulShutdown ==
  \A a \in Actors : (phase[a] \in {"finishing", "notified", "dropped"} /\ ~hard[a]) =>
    \A c \in Ids : (parent[c] = a /\ ~late[c]) => Ended(c)

\* The inductive strengthening of the two properties above.
UnbornClean ==
  \A a \in Actors : phase[a] = "unborn" => tracker[a] = new /\ \A c \in Ids : parent[c] # a

DoneParcelsTrue ==
  \A a \in Actors : \A c \in Ids :
    InQueue(a, Done(c)) => Ended(c) /\ phase[c] # "panicked" /\ parent[c] = a

NoticesDue ==
  \A a \in Actors : \A c \in Ids :
    /\ \A i, j \in DOMAIN hp[a] : hp[a][i] = Done(c) /\ hp[a][j] = Done(c) => i = j
    /\ phase[a] = "running" /\ InQueue(a, Done(c)) => c \in Known(a)

StoppedClean ==
  \A a \in Actors :
    (~hard[a] /\ (~alive[a] \/ phase[a] \in {"finishing", "notified", "dropped"})) =>
      \A c \in Ids : (parent[c] = a /\ ~late[c]) => Ended(c)

\* Why a graceful shutdown leaves nobody behind: an actor that has not been
\* spawned has no children, only a child that has ended, and not by a panic, has
\* a Done parcel in the queue of its parent, one, and while the parent knows of
\* it, every child is accounted for, and from the moment an actor is stopped by
\* shutdown() all its children have ended.
FamilyInv ==
  UnbornClean /\ DoneParcelsTrue /\ NoticesDue /\ ChildrenAccountedFor /\ StoppedClean

(* What the others can tell of an actor or a task, and what an actor in its *)
(* loop still keeps: the state of module Family.                            *)

Lives ==
  [x \in Ids |-> IF phase[x] = "finishing" THEN "leaving"
                 ELSE IF phase[x] \in {"notified", "dropped"} THEN "ended"
                 ELSE phase[x]]

\* The child it is about to insert counts.
Kin(a) ==
  [c \in Ids |-> IF pending[a] # <<>> /\ c = pending[a][1] THEN pending[a][2]
                 ELSE tracker[a].records[c]]

InLoop(a) == phase[a] = "running"

Kins == [a \in Actors |-> IF InLoop(a) THEN Kin(a) ELSE [c \in Ids |-> NoGroup]]

Tolds == [a \in Actors |-> {g \in Groups : InLoop(a) /\ tracker[a].stages[g].terminating}]

Closings == [a \in Actors |-> InLoop(a) /\ tracker[a].terminating]

Endings == [a \in Actors |-> IF hard[a] THEN "hard" ELSE IF alive[a] THEN "no" ELSE "graceful"]

Abstract == INSTANCE Family WITH
  life <- Lives, kin <- Kins, told <- Tolds, closing <- Closings, ending <- Endings

\* The runtime keeps the promise of the abstract family: a parent drops a child
\* only after its end, which it learns of once; termination goes through the
\* groups in their order, telling each child and never waiting for nobody; and
\* an actor is stopped by its last child only if it was told to terminate.
KeepsFamily == Abstract!Spec

\* The termination sequence is respected: the step that marks a stage as
\* terminating finds no child left in any stage that precedes it (all
\* prioritized ones, if the group is not in the sequence).
OrderedTermination ==
  [][\A a \in Actors : \A g, h \in Groups :
       (/\ ~tracker[a].stages[g].terminating
        /\ tracker'[a].stages[g].terminating
        /\ Abstract!Precedes(h, g))
       => tracker'[a].stages[h].ids = {}]_vars

\* An interrupted actor ends, through whatever its subtree holds and spawns
\* meanwhile, if interrupted actors call shutdown() and nobody panics.
InterruptedEnds ==
  \A a \in Actors : (asked[a] /\ phase[a] = "running") ~> (phase[a] = "dropped")
=============================================================================
