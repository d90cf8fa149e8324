---------------------------- MODULE ActorRuntime ----------------------------
(***************************************************************************)
(* The mailbox of one actor (meio/src/actor_runtime.rs, ActorRuntime, and  *)
(* meio/src/linkage/address.rs): the two channels and the delay queue, the *)
(* biased select that polls them, the handler calls, and the end of the    *)
(* actor with its Done notice, its joiners and the messages left behind.   *)
(*                                                                         *)
(* Senders, joiners and the clock interleave with every poll: a select     *)
(* that has found a channel empty does not see what arrives in it until it *)
(* polls again.                                                            *)
(***************************************************************************)
EXTENDS Naturals, Sequences

CONSTANTS
  Normals,    \* messages of act(), interact(), terminate_by()
  Instants,   \* messages of instant(), interrupt_by(), attach(), Done notices
  Scheduleds, \* messages of schedule()
  deadline,   \* the deadline given to schedule(), for each of them
  Horizon,    \* bound on the clock
  NoMessage

Messages == Normals \cup Instants \cup Scheduleds

ASSUME MailboxAssumption ==
  /\ Normals \cap Instants = {}
  /\ Normals \cap Scheduleds = {}
  /\ Instants \cap Scheduleds = {}
  /\ NoMessage \notin Messages
  /\ deadline \in [Scheduleds -> Nat]
  /\ Horizon \in Nat
  /\ \A m \in Scheduleds : deadline[m] <= Horizon

VARIABLES
  pc,          \* where entrypoint() is
  alive,       \* Context::alive
  hp,          \* joint.hp_msg_rx
  lp,          \* joint.msg_rx
  delayed,     \* content of scheduled_queue
  closed,      \* the fused scheduled_queue has returned None
  maybe_queue, \* TRUE if this turn selects on scheduled_queue, FALSE on pending()
  now,         \* the clock
  current,     \* the message a handler is working on
  fate,        \* history: what became of each message
  overtaken,   \* history: less urgent messages handled while it was ready
  notified,    \* done_notifier.notify() has been called
  join_status, \* the watch channel of the joiners
  joiner       \* one caller of Address::join()

vars == <<pc, alive, hp, lp, delayed, closed, maybe_queue, now, current, fate,
          overtaken, notified, join_status, joiner>>

queues == <<hp, lp, delayed>>
ending == <<notified, join_status>>
-----------------------------------------------------------------------------
Init ==
  /\ pc = "awake"
  /\ alive = TRUE
  /\ hp = <<>> /\ lp = <<>> /\ delayed = {}
  /\ closed = FALSE
  /\ maybe_queue = FALSE
  /\ now = 0
  /\ current = NoMessage
  /\ fate = [m \in Messages |-> "unsent"]
  /\ overtaken = [m \in Messages |-> 0]
  /\ notified = FALSE
  /\ join_status = "Alive"
  /\ joiner = "none"

\* The runtime, and with it the receiving halves of the channels, exists.
Exists == pc \notin {"dropped", "panicked"}

Expired == {m \in delayed : deadline[m] <= now}

\* In the high-priority channel, or due in the delay queue.
Urgent == {m \in Instants \cup Scheduleds : \E i \in DOMAIN hp : hp[i] = m} \cup Expired
-----------------------------------------------------------------------------
(* Other threads.                                                           *)

\* act, interact, terminate_by, send_event with Priority::Normal.
normal_priority_send(m) ==
  /\ fate[m] = "unsent"
  /\ IF Exists
     THEN lp' = Append(lp, m) /\ fate' = [fate EXCEPT ![m] = "queued"]
     ELSE lp' = lp /\ fate' = [fate EXCEPT ![m] = "rejected"]
  /\ UNCHANGED <<pc, alive, hp, delayed, closed, maybe_queue, now, current, overtaken, ending, joiner>>

\* instant, schedule, unpack_parcel, interrupt_by, send_event with
\* Priority::Instant.
high_priority_send(m) ==
  /\ fate[m] = "unsent"
  /\ IF Exists
     THEN hp' = Append(hp, m) /\ fate' = [fate EXCEPT ![m] = "queued"]
     ELSE hp' = hp /\ fate' = [fate EXCEPT ![m] = "rejected"]
  /\ UNCHANGED <<pc, alive, lp, delayed, closed, maybe_queue, now, current, overtaken, ending, joiner>>

\* join(): take a receiver of the status, then wait for Stop or the drop of
\* the sender.
Join ==
  /\ joiner = "none"
  /\ joiner' = "waiting"
  /\ UNCHANGED <<pc, alive, queues, closed, maybe_queue, now, current, fate, overtaken, ending>>

JoinReturns ==
  /\ joiner = "waiting"
  /\ join_status = "Stop" \/ ~Exists
  /\ joiner' = "returned"
  /\ UNCHANGED <<pc, alive, queues, closed, maybe_queue, now, current, fate, overtaken, ending>>

Tick ==
  /\ now < Horizon
  /\ now' = now + 1
  /\ UNCHANGED <<pc, alive, queues, closed, maybe_queue, current, fate, overtaken, ending, joiner>>
-----------------------------------------------------------------------------
(* The loop of routine().                                                   *)

Lose(S) == fate' = [m \in Messages |-> IF m \in S /\ fate[m] = "queued" THEN "lost" ELSE fate[m]]

\* Mutant: the delay queue is never polled.
NeverPolled == FALSE

\* The scheduled queue is selected on only if it has items: polled when empty
\* it would return None and the fused stream would be closed for good.
choose_queue == delayed # {}

\* Mutant: the select is not biased, the ordinary channel may be polled first.
LoopTopUnbiased ==
  /\ pc = "top"
  /\ IF alive
     THEN pc' \in {"poll_hp", "poll_lp"} /\ maybe_queue' = choose_queue /\ UNCHANGED <<delayed, fate>>
     ELSE pc' = "finishing" /\ UNCHANGED maybe_queue /\ delayed' = {} /\ Lose(delayed)
  /\ UNCHANGED <<alive, hp, lp, closed, now, current, overtaken, ending, joiner>>

\* Mutant: the loop does not look at `alive`.
LoopTopForever ==
  /\ pc = "top"
  /\ pc' = "poll_hp" /\ maybe_queue' = choose_queue
  /\ UNCHANGED <<alive, queues, closed, now, current, fate, overtaken, ending, joiner>>

\* The delay queue is a local variable of routine() and is dropped with it.
LoopTop ==
  /\ pc = "top"
  /\ IF alive
     THEN pc' = "poll_hp" /\ maybe_queue' = choose_queue /\ UNCHANGED <<delayed, fate>>
     ELSE pc' = "finishing" /\ UNCHANGED maybe_queue /\ delayed' = {} /\ Lose(delayed)
  /\ UNCHANGED <<alive, hp, lp, closed, now, current, overtaken, ending, joiner>>

\* A handler is called with `m`.
Handle(m) ==
  /\ pc' = "handler"
  /\ current' = m
  /\ fate' = [fate EXCEPT ![m] = "handled"]

\* Every more urgent message that is ready is overtaken once more.
Overtake(S) == overtaken' = [m \in Messages |-> overtaken[m] + (IF m \in S THEN 1 ELSE 0)]

\* Mutant: a Schedule operation is taken and not put into the delay queue.
PollHpDroppingSchedule ==
  /\ pc = "poll_hp"
  /\ \/ hp = <<>> /\ pc' = "poll_delayed" /\ UNCHANGED <<hp, current, fate>>
     \/ /\ hp # <<>> /\ hp' = Tail(hp)
        /\ \/ Head(hp) \in Scheduleds /\ pc' = "top" /\ UNCHANGED <<current, fate>>
           \/ Head(hp) \in Instants /\ Handle(Head(hp))
  /\ UNCHANGED <<alive, lp, delayed, closed, maybe_queue, now, overtaken, ending, joiner>>

PollHp ==
  /\ pc = "poll_hp"
  /\ \/ hp = <<>> /\ pc' = "poll_delayed" /\ UNCHANGED <<hp, delayed, current, fate>>
     \/ /\ hp # <<>>
        /\ hp' = Tail(hp)
        /\ \/ /\ Head(hp) \in Scheduleds     \* Operation::Schedule
              /\ delayed' = delayed \cup {Head(hp)}
              /\ pc' = "top"
              /\ UNCHANGED <<current, fate>>
           \/ /\ Head(hp) \in Instants       \* Operation::Forward, Done
              /\ Handle(Head(hp))
              /\ UNCHANGED delayed
  /\ UNCHANGED <<alive, lp, closed, maybe_queue, now, overtaken, ending, joiner>>

\* DelayQueue yields any of the items that are due.
PollDelayed ==
  /\ pc = "poll_delayed"
  /\ \/ /\ maybe_queue /\ ~closed
        /\ \E m \in Expired :
             /\ delayed' = delayed \ {m}
             /\ Handle(m)
             /\ Overtake(Urgent \ Expired)
        /\ UNCHANGED closed
     \/ /\ maybe_queue /\ ~closed /\ Expired = {}
        /\ closed' = (delayed = {})
        /\ pc' = IF delayed = {} THEN "handler" ELSE "poll_lp"   \* instant_queue_drained
        /\ UNCHANGED <<delayed, current, fate, overtaken>>
     \/ /\ ~maybe_queue \/ closed
        /\ pc' = "poll_lp"
        /\ UNCHANGED <<delayed, closed, current, fate, overtaken>>
  /\ UNCHANGED <<alive, hp, lp, maybe_queue, now, ending, joiner>>

\* With nothing ready the future is parked; every channel has its waker.
PollLp ==
  /\ pc = "poll_lp"
  /\ \/ lp = <<>> /\ pc' = "parked" /\ UNCHANGED <<lp, current, fate, overtaken>>
     \/ /\ lp # <<>>
        /\ lp' = Tail(lp)
        /\ Handle(Head(lp))
        /\ Overtake(Urgent)
  /\ UNCHANGED <<alive, hp, delayed, closed, maybe_queue, now, ending, joiner>>

Wake ==
  /\ pc = "parked"
  /\ hp # <<>> \/ lp # <<>> \/ (maybe_queue /\ Expired # {})
  /\ pc' = "poll_hp"
  /\ UNCHANGED <<alive, queues, closed, maybe_queue, now, current, fate, overtaken, ending, joiner>>
-----------------------------------------------------------------------------
(* The handler, user code: it returns, may stop the actor, or panics.       *)

HandlerStops ==
  /\ pc \in {"awake", "handler"}
  /\ alive
  /\ alive' = FALSE
  /\ UNCHANGED <<pc, queues, closed, maybe_queue, now, current, fate, overtaken, ending, joiner>>

HandlerReturns ==
  /\ pc \in {"awake", "handler"}
  /\ pc' = "top"
  /\ current' = NoMessage
  /\ UNCHANGED <<alive, queues, closed, maybe_queue, now, fate, overtaken, ending, joiner>>

AwakeFails ==
  /\ pc = "awake"
  /\ pc' = "finishing"
  /\ UNCHANGED <<alive, queues, closed, maybe_queue, now, current, fate, overtaken, ending, joiner>>

\* The channels are dropped with what they hold: a responder inside a dropped
\* Interact message resolves to Canceled.
Drop ==
  /\ hp' = <<>> /\ lp' = <<>> /\ delayed' = {}
  /\ current' = NoMessage
  /\ Lose(Messages)

Panic ==
  /\ pc \in {"awake", "handler"}
  /\ pc' = "panicked"
  /\ Drop
  /\ UNCHANGED <<alive, closed, maybe_queue, now, overtaken, ending, joiner>>
-----------------------------------------------------------------------------
(* The end of entrypoint().                                                 *)

\* Mutant: the joiners are released first.
ReleaseFirst ==
  /\ pc = "finishing"
  /\ pc' = "releasing"
  /\ join_status' = "Stop"
  /\ UNCHANGED <<alive, queues, closed, maybe_queue, now, current, fate, overtaken, notified, joiner>>

NotifyDone ==
  /\ pc = "finishing"
  /\ pc' = "releasing"
  /\ notified' = TRUE
  /\ UNCHANGED <<alive, queues, closed, maybe_queue, now, current, fate, overtaken, join_status, joiner>>

ReleaseJoiners ==
  /\ pc = "releasing"
  /\ pc' = "released"
  /\ join_status' = "Stop"
  /\ UNCHANGED <<alive, queues, closed, maybe_queue, now, current, fate, overtaken, notified, joiner>>

DropRuntime ==
  /\ pc = "released"
  /\ pc' = "dropped"
  /\ Drop
  /\ UNCHANGED <<alive, closed, maybe_queue, now, overtaken, ending, joiner>>
-----------------------------------------------------------------------------
RuntimeStep ==
  \/ LoopTop \/ PollHp \/ PollDelayed \/ PollLp \/ Wake
  \/ NotifyDone \/ ReleaseJoiners \/ DropRuntime

HandlerStep == HandlerStops \/ HandlerReturns \/ AwakeFails \/ Panic

Next ==
  \/ \E m \in Normals : normal_priority_send(m)
  \/ \E m \in Instants \cup Scheduleds : high_priority_send(m)
  \/ Join \/ JoinReturns \/ Tick
  \/ RuntimeStep \/ HandlerStep

Spec == Init /\ [][Next]_vars

\* The executor polls a woken future, handlers return, time passes and a
\* woken joiner runs.  Nobody has to send, to join, to stop or to fail.
FairSpec ==
  /\ Spec
  /\ WF_vars(RuntimeStep) /\ WF_vars(HandlerReturns)
  /\ WF_vars(Tick) /\ WF_vars(JoinReturns)
-----------------------------------------------------------------------------
(* Properties.                                                              *)

\* The type invariant of the mailbox.
TypeOK ==
  /\ pc \in {"awake", "top", "poll_hp", "poll_delayed", "poll_lp", "parked", "handler",
             "finishing", "releasing", "released", "dropped", "panicked"}
  /\ alive \in BOOLEAN
  /\ hp \in Seq(Instants \cup Scheduleds)
  /\ lp \in Seq(Normals)
  /\ delayed \in SUBSET Scheduleds
  /\ closed \in BOOLEAN /\ maybe_queue \in BOOLEAN
  /\ now \in 0 .. Horizon
  /\ current \in Messages \cup {NoMessage}
  /\ fate \in [Messages -> {"unsent", "queued", "rejected", "handled", "lost"}]
  /\ overtaken \in [Messages -> Nat]
  /\ notified \in BOOLEAN
  /\ join_status \in {"Alive", "Stop"}
  /\ joiner \in {"none", "waiting", "returned"}

\* Urgent messages are not starved by ordinary ones: while a parcel is in the
\* high-priority channel, and while a scheduled message is due, at most one
\* message of a lower priority is handled, the one the select had already
\* passed on to.  A scheduled message is exposed to that twice.
OvertakenAtMostOnce ==
  /\ \A m \in Instants : overtaken[m] <= 1
  /\ \A m \in Scheduleds : overtaken[m] <= 2

Abstract == INSTANCE Mailbox WITH
  open <- Exists,
  serving <- pc \notin {"finishing", "releasing", "released", "dropped", "panicked"},
  ordinary <- lp, urgent <- hp, putoff <- delayed

\* The runtime keeps the promise of the abstract mailbox: what was accepted is
\* in one place, is handled at most once, in its turn and not before its time,
\* and is lost only with the actor; nothing is handled after the loop is left.
KeepsMailbox == Abstract!Spec

\* join() returns only when no handler runs any more and, unless the actor
\* panicked, its supervisor has been notified.
JoinMeansOver ==
  joiner = "returned" =>
    \/ pc \in {"released", "dropped"} /\ notified
    \/ pc = "panicked"

\* Nobody waits for ever for the answer to a message: it is handled, or
\* dropped with the mailbox.  A scheduled one is handled when its time comes.
EverySentMessageSettles == \A m \in Messages : (fate[m] = "queued") ~> (fate[m] # "queued")

\* A stopped actor lets its joiners go, whatever is left in its queues.
StoppedReleasesJoiners ==
  (joiner = "waiting" /\ ~alive) ~> (joiner = "returned")
=============================================================================
