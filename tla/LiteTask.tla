------------------------------ MODULE LiteTask ------------------------------
(***************************************************************************)
(* LiteTasks (meio/src/lite_runtime.rs) and the set that stops them        *)
(* together (meio/src/linkage/task_distributor.rs): the default chain of   *)
(* routines with its retries, the stop signal a task is raced against, and *)
(* the TaskDone notice to its supervisor.  The stop signal is a watch      *)
(* channel; a task also counts as stopped once nobody holds a sender of it *)
(* any more, and a TaskDistributor is one of the holders.                  *)
(***************************************************************************)
EXTENDS Naturals, Sequences

CONSTANT Tasks    \* the tasks of one supervisor

VARIABLES
  pc,         \* where entrypoint() is, down to the two futures of the select
  routine,    \* the await point interruptable_routine() has reached
  result,     \* what routine() returned, as TaskError::from sees it
  status,     \* value of the watch channel
  holders,    \* who holds a TaskAddress: the tracker, the user, the distributor
  supervisor, \* is the supervisor still there?
  received,   \* results of the TaskDone notices the supervisor got
  todo        \* what the running stop_all() has not visited, in no fixed order

vars == <<pc, routine, result, status, holders, supervisor, received, todo>>
-----------------------------------------------------------------------------
Init ==
  /\ pc = [t \in Tasks |-> "poll_stop"]
  /\ routine = [t \in Tasks |-> "pre"]
  /\ result = [t \in Tasks |-> "none"]
  /\ status = [t \in Tasks |-> "Alive"]
  /\ holders = [t \in Tasks |-> {"tracker", "user"}]
  /\ supervisor = TRUE
  /\ received = [t \in Tasks |-> <<>>]
  /\ todo = {}

\* Mutant: dropping the address returned by spawn_task() stops the task.
DoneWithoutUser(t) == status[t] = "Stop" \/ "user" \notin holders[t]

\* just_done(): a changed status that is Stop, or a closed channel.
just_done(t) == status[t] = "Stop" \/ holders[t] = {}

\* The routine holds the receiver of the watch channel: stop() succeeds.
Receiving(t) == pc[t] \in {"poll_stop", "poll_routine", "parked"}
-----------------------------------------------------------------------------
(* Holders of addresses, on other threads.                                  *)

\* TaskAddress::stop, StopSender::stop.
stop(t) ==
  /\ holders[t] # {}
  /\ Receiving(t)
  /\ status' = [status EXCEPT ![t] = "Stop"]
  /\ UNCHANGED <<pc, routine, result, holders, supervisor, received, todo>>

UserDropsAddress(t) ==
  /\ holders' = [holders EXCEPT ![t] = @ \ {"user"}]
  /\ UNCHANGED <<pc, routine, result, status, supervisor, received, todo>>

\* The supervisor ends without waiting for its tasks (stop(), Err, panic): its
\* tracker, and the Records in it, are dropped.
SupervisorEnds ==
  /\ supervisor
  /\ supervisor' = FALSE
  /\ holders' = [t \in Tasks |-> holders[t] \ {"tracker"}]
  /\ UNCHANGED <<pc, routine, result, status, received, todo>>

\* TaskDistributor::insert: the user's address, or a clone of it, is moved into
\* the set.
insert(t) ==
  /\ "user" \in holders[t] /\ todo = {}
  /\ \/ holders' = [holders EXCEPT ![t] = @ \cup {"set"}]
     \/ holders' = [holders EXCEPT ![t] = (@ \ {"user"}) \cup {"set"}]
  /\ UNCHANGED <<pc, routine, result, status, supervisor, received, todo>>

\* TaskDistributor::remove; the address it returns is dropped.
remove(t) ==
  /\ todo = {}
  /\ holders' = [holders EXCEPT ![t] = @ \ {"set"}]
  /\ UNCHANGED <<pc, routine, result, status, supervisor, received, todo>>

\* TaskDistributor::stop_all begins to visit the values of its map.
stop_all ==
  /\ todo = {}
  /\ todo' = {t \in Tasks : "set" \in holders[t]}
  /\ UNCHANGED <<pc, routine, result, status, holders, supervisor, received>>

\* Mutant: the loop ends at the first error.
StopNextOrReturn(t) ==
  /\ t \in todo
  /\ todo' = IF Receiving(t) THEN todo \ {t} ELSE {}
  /\ status' = IF Receiving(t) THEN [status EXCEPT ![t] = "Stop"] ELSE status
  /\ UNCHANGED <<pc, routine, result, holders, supervisor, received>>

\* A task that is over makes stop() fail; the loop logs that and goes on.
StopNext(t) ==
  /\ t \in todo
  /\ todo' = todo \ {t}
  /\ status' = IF Receiving(t) THEN [status EXCEPT ![t] = "Stop"] ELSE status
  /\ UNCHANGED <<pc, routine, result, holders, supervisor, received>>
-----------------------------------------------------------------------------
(* select(stop, interruptable_routine()) of StopReceiver::or.               *)

Finish(t, res) ==
  /\ pc' = [pc EXCEPT ![t] = "finished"]
  /\ result' = [result EXCEPT ![t] = res]

\* Mutant: the routine is polled whatever the stop signal says.
PollRoutineAnyway(t) ==
  /\ pc[t] = "poll_stop"
  /\ pc' = [pc EXCEPT ![t] = "poll_routine"]
  /\ UNCHANGED <<routine, result, status, holders, supervisor, received, todo>>

\* The left future is polled first; if it is ready the right one is dropped.
PollStop(t) ==
  /\ pc[t] = "poll_stop"
  /\ \/ just_done(t) /\ Finish(t, "Interrupted")
     \/ ~just_done(t) /\ pc' = [pc EXCEPT ![t] = "poll_routine"] /\ UNCHANGED result
  /\ UNCHANGED <<routine, status, holders, supervisor, received, todo>>

\* pre_repeatable_routine().await?
Pre(t) ==
  /\ pc[t] = "poll_routine" /\ routine[t] = "pre"
  /\ \/ routine' = [routine EXCEPT ![t] = "attempt"] /\ UNCHANGED <<pc, result>>
     \/ Finish(t, "Other") /\ UNCHANGED routine
  /\ UNCHANGED <<status, holders, supervisor, received, todo>>

AttemptSucceeds(t) ==
  /\ pc[t] = "poll_routine" /\ routine[t] = "attempt"
  /\ Finish(t, "Output")
  /\ UNCHANGED <<routine, status, holders, supervisor, received, todo>>

\* Ok(None) and Err both lead to routine_wait(), whose delay is pending when it
\* is polled for the first time.
AttemptWaits(t) ==
  /\ pc[t] = "poll_routine" /\ routine[t] = "attempt"
  /\ routine' = [routine EXCEPT ![t] = "wait"]
  /\ pc' = [pc EXCEPT ![t] = "parked"]
  /\ UNCHANGED <<result, status, holders, supervisor, received, todo>>

WaitElapses(t) ==
  /\ pc[t] = "poll_routine" /\ routine[t] = "wait"
  /\ routine' = [routine EXCEPT ![t] = "attempt"]
  /\ UNCHANGED <<pc, result, status, holders, supervisor, received, todo>>

\* The routine waits for something else.
Pending(t) ==
  /\ pc[t] = "poll_routine"
  /\ pc' = [pc EXCEPT ![t] = "parked"]
  /\ UNCHANGED <<routine, result, status, holders, supervisor, received, todo>>

\* One of the two futures is woken.
Wake(t) ==
  /\ pc[t] = "parked"
  /\ pc' = [pc EXCEPT ![t] = "poll_stop"]
  /\ UNCHANGED <<routine, result, status, holders, supervisor, received, todo>>

\* done_notifier.notify(TaskDone); remove() in the supervisor then drops the
\* Record.
Notify(t) ==
  /\ pc[t] = "finished"
  /\ pc' = [pc EXCEPT ![t] = "notified"]
  /\ received' = IF supervisor THEN [received EXCEPT ![t] = Append(@, result[t])] ELSE received
  /\ UNCHANGED <<routine, result, status, holders, supervisor, todo>>

RecordRemoved(t) ==
  /\ pc[t] = "notified" /\ supervisor
  /\ holders' = [holders EXCEPT ![t] = @ \ {"tracker"}]
  /\ UNCHANGED <<pc, routine, result, status, supervisor, received, todo>>
-----------------------------------------------------------------------------
HolderStep(t) ==
  \/ stop(t) \/ UserDropsAddress(t) \/ RecordRemoved(t)
  \/ insert(t) \/ remove(t) \/ StopNext(t)

RuntimeStep(t) == PollStop(t) \/ Notify(t)

RoutineStep(t) ==
  Pre(t) \/ AttemptSucceeds(t) \/ AttemptWaits(t) \/ WaitElapses(t) \/ Pending(t)

Next ==
  \/ \E t \in Tasks : HolderStep(t) \/ RuntimeStep(t) \/ RoutineStep(t) \/ Wake(t)
  \/ SupervisorEnds
  \/ stop_all

Spec == Init /\ [][Next]_vars

\* The executor polls the tasks, the loop of stop_all() runs on, a poll of a
\* routine comes to an await that is pending or to its end (user code does not
\* block the thread; WaitElapses alone ends no poll), and the stop future is
\* woken by stop() and by the drop of the last sender.  A routine itself never
\* has to get ready.
FairSpec ==
  /\ Spec
  /\ \A t \in Tasks :
       /\ WF_vars(RuntimeStep(t))
       /\ WF_vars(StopNext(t))
       /\ WF_vars(Pre(t) \/ AttemptSucceeds(t) \/ AttemptWaits(t) \/ Pending(t))
       /\ WF_vars(just_done(t) /\ Wake(t))
-----------------------------------------------------------------------------
(* Properties.                                                              *)

\* A task is reported as interrupted only if somebody stopped it or everybody
\* let go of it; in particular dropping the address returned by spawn_task
\* does not stop a task that its supervisor still tracks or that a
\* TaskDistributor holds.
InterruptedOnlyIfStopped ==
  \A t \in Tasks : result[t] = "Interrupted" =>
    status[t] = "Stop" \/ (holders[t] = {} /\ ~supervisor)

\* A stopped task ends, wherever its routine is waiting, and a supervisor that
\* is still there gets one TaskDone of it, with the result of the routine.
StoppedEnds ==
  \A t \in Tasks :
    just_done(t) ~> (pc[t] = "notified" /\ (supervisor => received[t] = <<result[t]>>))

\* stop_all() ends every task of the set, also those it visits after one that
\* is over, whatever the tasks do while the loop runs.
StopAllEndsAll == \A t \in Tasks : (t \in todo) ~> (pc[t] = "notified")
=============================================================================
