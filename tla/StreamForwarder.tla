--------------------------- MODULE StreamForwarder ---------------------------
(***************************************************************************)
(* A stream attached to an actor (meio/src/forwarders.rs, Consumer in      *)
(* meio/src/handlers.rs, Address::attach): a task pulls the items and      *)
(* sends them, and at last StreamItem::Done, into the ordinary queue of    *)
(* the actor; its TaskDone notice takes the high-priority queue and may    *)
(* overtake them.                                                          *)
(***************************************************************************)
EXTENDS Naturals, Sequences

CONSTANT MaxItems     \* bound on the length of the stream

ASSUME StreamAssumption == MaxItems \in Nat

VARIABLES
  length,   \* how many items the stream has
  pulled,   \* how many of them the task has taken
  task,     \* where the task is
  result,   \* what interruptable_routine() returned
  stopped,  \* the stop signal of the task
  lp,       \* StreamItems in the ordinary queue: 1 .. length, Done is 0
  notice,   \* the TaskDone parcel: none, queued, handled
  actor,    \* the actor exists
  calls     \* history: methods of Consumer called so far

vars == <<length, pulled, task, result, stopped, lp, notice, actor, calls>>

StreamDone == 0

Call(method, item) == [method |-> method, item |-> item]

Init ==
  /\ length \in 0 .. MaxItems
  /\ pulled = 0
  /\ task = "requested"
  /\ result = "none"
  /\ stopped = FALSE
  /\ lp = <<>>
  /\ notice = "none"
  /\ actor = TRUE
  /\ calls = <<>>
-----------------------------------------------------------------------------
\* AttachStream is handled: ctx.attach() spawns and tracks the task.
attach ==
  /\ task = "requested" /\ actor
  /\ task' = "parked"
  /\ UNCHANGED <<length, pulled, result, stopped, lp, notice, actor, calls>>

\* Mutant: StreamItem::Done is sent when the task is interrupted too.
PollSendingDone ==
  /\ task = "parked"
  /\ \/ stopped /\ task' = "returned" /\ result' = "Interrupted" /\ lp' = Append(lp, StreamDone)
     \/ ~stopped /\ task' = "next" /\ UNCHANGED <<result, lp>>
  /\ UNCHANGED <<length, pulled, stopped, notice, actor, calls>>

\* The task is polled: the stop signal first, then stream.next().
Poll ==
  /\ task = "parked"
  /\ \/ stopped /\ task' = "returned" /\ result' = "Interrupted"
     \/ ~stopped /\ task' = "next" /\ UNCHANGED result
  /\ UNCHANGED <<length, pulled, stopped, lp, notice, actor, calls>>

Pending ==
  /\ task = "next"
  /\ task' = "parked"
  /\ UNCHANGED <<length, pulled, result, stopped, lp, notice, actor, calls>>

\* address.act(Item)?, which fails when the actor is gone.
ForwardItem ==
  /\ task = "next" /\ pulled < length
  /\ pulled' = pulled + 1
  /\ IF actor
     THEN lp' = Append(lp, pulled') /\ UNCHANGED <<task, result>>
     ELSE task' = "returned" /\ result' = "Other" /\ UNCHANGED lp
  /\ UNCHANGED <<length, stopped, notice, actor, calls>>

\* Mutant: the end of the stream is not forwarded.
ReturnWithoutDone ==
  /\ task = "next" /\ pulled = length
  /\ task' = "returned" /\ result' = "Ok"
  /\ UNCHANGED <<length, pulled, stopped, lp, notice, actor, calls>>

\* The stream is over: act(Done)?, then Ok.
ForwardDone ==
  /\ task = "next" /\ pulled = length
  /\ task' = "returned"
  /\ IF actor
     THEN lp' = Append(lp, StreamDone) /\ result' = "Ok"
     ELSE result' = "Other" /\ UNCHANGED lp
  /\ UNCHANGED <<length, pulled, stopped, notice, actor, calls>>

Notify ==
  /\ task = "returned"
  /\ task' = "over"
  /\ notice' = IF actor THEN "queued" ELSE "none"
  /\ UNCHANGED <<length, pulled, result, stopped, lp, actor, calls>>

Stop ==
  /\ ~stopped /\ task \in {"parked", "next"}
  /\ stopped' = TRUE
  /\ UNCHANGED <<length, pulled, task, result, lp, notice, actor, calls>>
-----------------------------------------------------------------------------
(* The actor.  A message the select has already passed on to may be handled *)
(* before the notice.                                                       *)

HandleItem ==
  /\ actor /\ lp # <<>>
  /\ lp' = Tail(lp)
  /\ calls' = Append(calls, Call(IF Head(lp) = StreamDone THEN "finished" ELSE "handle", Head(lp)))
  /\ UNCHANGED <<length, pulled, task, result, stopped, notice, actor>>

\* Mutant: an interrupted task counts as finished.
HandleTaskDoneAlways ==
  /\ actor /\ notice = "queued"
  /\ notice' = "handled"
  /\ calls' = Append(calls, Call("task_finished", 0))
  /\ UNCHANGED <<length, pulled, task, result, stopped, lp, actor>>

HandleTaskDone ==
  /\ actor /\ notice = "queued"
  /\ notice' = "handled"
  /\ calls' = Append(calls, Call(IF result = "Ok" THEN "task_finished" ELSE "task_failed", 0))
  /\ UNCHANGED <<length, pulled, task, result, stopped, lp, actor>>

\* The queues are dropped, the tracker too: the task counts as stopped.
ActorEnds ==
  /\ actor
  /\ actor' = FALSE
  /\ lp' = <<>>
  /\ notice' = IF notice = "queued" THEN "none" ELSE notice
  /\ stopped' = (stopped \/ task \in {"parked", "next"})
  /\ UNCHANGED <<length, pulled, task, result, calls>>

TaskStep == attach \/ Poll \/ Notify
RoutineStep == ForwardItem \/ ForwardDone

Next ==
  \/ TaskStep \/ RoutineStep \/ Pending \/ Stop
  \/ HandleItem \/ HandleTaskDone \/ ActorEnds

Spec == Init /\ [][Next]_vars

\* The executor polls the task, the stream goes on if it is polled again and
\* again, the actor handles what is in its queues.
FairSpec ==
  /\ Spec
  /\ WF_vars(TaskStep) /\ SF_vars(RoutineStep)
  /\ WF_vars(HandleItem) /\ WF_vars(HandleTaskDone)
-----------------------------------------------------------------------------
Called(method) == {i \in DOMAIN calls : calls[i].method = method}

\* The items that were handled before the i-th call.
HandledBefore(i) == {calls[k].item : k \in {j \in Called("handle") : j < i}}

\* The consumer sees the items of the stream in their order, none twice and
\* none left out, whenever the notice of the task comes in between, and
\* finished() after the last of them and only then: neither a stop of the task
\* nor its early end is mistaken for the end of the stream.
ItemsInOrder ==
  /\ \A i \in Called("handle") :
       calls[i].item \in 1 .. length /\ HandledBefore(i) = 1 .. calls[i].item - 1
  /\ \A i \in Called("finished") :
       /\ HandledBefore(i) = 1 .. length
       /\ \A k \in Called("handle") : k < i
       /\ Called("task_failed") = {}

\* task_finished() means that nothing of the stream is missing: what has not
\* been handled yet is in the queue, in its order and before StreamItem::Done.
TaskFinishedMeansForwarded ==
  (actor /\ Called("task_finished") # {}) =>
    \E h \in 0 .. length :
      /\ {calls[i].item : i \in Called("handle")} = 1 .. h
      /\ Len(lp) >= length - h
      /\ \A k \in DOMAIN lp : lp[k] = IF k <= length - h THEN h + k ELSE StreamDone

\* An attached stream comes to its end and the actor hears of it: finished()
\* and task_finished() are called, or the task was stopped and task_failed() is.
StreamEnds ==
  (task = "parked") ~>
    \/ ~actor
    \/ Called("finished") # {} /\ Called("task_finished") # {}
    \/ stopped /\ Called("task_failed") # {}
=============================================================================
