------------------------------ MODULE HeartBeat ------------------------------
(***************************************************************************)
(* meio/src/tasks/heartbeat.rs: a LiteTask that sends a Tick to an actor,  *)
(* then waits for a duration its handle may change meanwhile, again and    *)
(* again until it is stopped; and the actor, with an ordinary queue for    *)
(* the ticks and a high-priority one for the notice that the task is over. *)
(* The clock is read as the time since the wait began.                     *)
(***************************************************************************)
EXTENDS Naturals

CONSTANTS
  MaxDuration,  \* durations are 1 .. MaxDuration
  MaxUpdates,   \* bound on the calls of HeartBeatHandle::update
  MaxTicks      \* bound on the ticks waiting in the queue of the actor

ASSUME HeartBeatAssumption ==
  /\ MaxDuration \in Nat \ {0}
  /\ MaxUpdates \in Nat
  /\ MaxTicks \in Nat \ {0}

VARIABLES
  task,      \* where the task is: in a poll, parked at an await, or over
  duration,  \* value of the watch channel
  seen,      \* the receiver has seen the last change of it
  handle,    \* the HeartBeatHandle, the only sender, exists
  updates,   \* calls of update() so far
  instant,   \* the instant the task waits for, from the beginning of the wait
  elapsed,   \* time since the beginning of the wait
  polled,    \* history: the duration that was set when changed() was last polled
  stopped,   \* the stop signal of the task
  ticks,     \* ticks in the ordinary queue of the actor
  notice,    \* TaskDone: "none", "queued" in the high-priority queue, "handled"
  actor      \* the actor exists

vars == <<task, duration, seen, handle, updates, instant, elapsed, polled, stopped, ticks, notice,
          actor>>

watch == <<duration, seen, handle, updates>>
mailbox == <<ticks, notice, actor>>

Durations == 1 .. MaxDuration

Init ==
  /\ task = "unborn"
  /\ duration \in Durations
  /\ seen = TRUE /\ handle = TRUE /\ updates = 0
  /\ instant = 0 /\ elapsed = 0 /\ polled = 0
  /\ stopped = FALSE
  /\ ticks = 0 /\ notice = "none" /\ actor = TRUE
-----------------------------------------------------------------------------
(* The handle.                                                              *)

\* Without a receiver send() fails and the value stays.
update(d) ==
  /\ handle /\ updates < MaxUpdates
  /\ updates' = updates + 1
  /\ IF task \in {"unborn", "over"}
     THEN UNCHANGED <<duration, seen>>
     ELSE duration' = d /\ seen' = FALSE
  /\ UNCHANGED <<task, handle, instant, elapsed, polled, stopped, mailbox>>

\* At once after HeartBeat::new, whenever its owner likes after
\* new_with_handle.
DropHandle ==
  /\ handle /\ task # "unborn"
  /\ handle' = FALSE
  /\ UNCHANGED <<task, duration, seen, updates, instant, elapsed, polled, stopped, mailbox>>
-----------------------------------------------------------------------------
(* The task.                                                                *)

\* new_with_handle, and spawn_task by a handler of the actor; the receiver has
\* seen the value it subscribes to.
new_with_handle ==
  /\ task = "unborn" /\ handle /\ actor
  /\ task' = "start"
  /\ UNCHANGED <<watch, instant, elapsed, polled, stopped, mailbox>>

\* repeatable_routine: an error of act() is logged by the caller, and the task
\* goes on to routine_wait.
repeatable_routine ==
  /\ task = "beat" /\ ticks < MaxTicks
  /\ ticks' = IF actor THEN ticks + 1 ELSE ticks
  /\ task' = "choose" /\ elapsed' = 0
  /\ UNCHANGED <<watch, instant, polled, stopped, notice, actor>>

\* The head of the loop: read the duration, without marking it as seen.
Choose ==
  /\ task = "choose"
  /\ instant' = duration
  /\ task' = "wait"
  /\ UNCHANGED <<watch, elapsed, polled, stopped, mailbox>>

\* Mutant: the change is noticed, the duration is not read again.
ChangedIgnored ==
  /\ task = "wait" /\ ~seen
  /\ seen' = TRUE
  /\ UNCHANGED <<task, duration, handle, updates, instant, elapsed, polled, stopped, mailbox>>

\* timeout_at polls changed() first.  Ok: look at the duration again.
Changed ==
  /\ task = "wait" /\ ~seen
  /\ seen' = TRUE
  /\ task' = "choose"
  /\ UNCHANGED <<duration, handle, updates, instant, elapsed, polled, stopped, mailbox>>

\* Mutant: without a sender the loop begins again, and never waits.
NoSenderContinues ==
  /\ task = "wait" /\ seen /\ ~handle
  /\ task' = "choose"
  /\ UNCHANGED <<watch, instant, elapsed, polled, stopped, mailbox>>

\* changed() fails: there is no sender any more.
NoSender ==
  /\ task = "wait" /\ seen /\ ~handle
  /\ task' = "sleep" /\ polled' = duration
  /\ UNCHANGED <<watch, instant, elapsed, stopped, mailbox>>

\* changed() is pending, and timeout_at goes on to its timer.  An update that
\* comes before the timer is polled is not seen by this poll of the task.
Pending ==
  /\ task = "wait" /\ seen /\ handle
  /\ task' = "timer" /\ polled' = duration
  /\ UNCHANGED <<watch, instant, elapsed, stopped, mailbox>>

\* The timer, of timeout_at or of sleep_until.
Elapsed ==
  /\ task \in {"timer", "sleep"} /\ elapsed >= instant
  /\ task' = "beat"
  /\ UNCHANGED <<watch, instant, elapsed, polled, stopped, mailbox>>

Park ==
  /\ task \in {"timer", "sleep"} /\ elapsed < instant
  /\ task' = IF task = "timer" THEN "parked" ELSE "asleep"
  /\ UNCHANGED <<watch, instant, elapsed, polled, stopped, mailbox>>

\* The task is polled again: the stop signal first, then the routine.
Wake ==
  /\ ~stopped
  /\ \/ task = "start" /\ task' = "beat"
     \/ task = "parked" /\ (~seen \/ ~handle \/ elapsed >= instant) /\ task' = "wait"
     \/ task = "asleep" /\ elapsed >= instant /\ task' = "sleep"
  /\ UNCHANGED <<watch, instant, elapsed, polled, stopped, mailbox>>

\* Mutant: an interrupted task does not notify its supervisor.
InterruptedSilently ==
  /\ stopped /\ task \in {"start", "parked", "asleep"}
  /\ task' = "over"
  /\ UNCHANGED <<watch, instant, elapsed, polled, stopped, mailbox>>

Interrupted ==
  /\ stopped /\ task \in {"start", "parked", "asleep"}
  /\ task' = "over"
  /\ notice' = IF actor THEN "queued" ELSE notice
  /\ UNCHANGED <<watch, instant, elapsed, polled, stopped, ticks, actor>>

Waiting == task \in {"choose", "wait", "timer", "sleep", "parked", "asleep"}

\* A poll takes no time that counts against a duration.
Tick ==
  /\ task \in {"parked", "asleep"} /\ elapsed < MaxDuration
  /\ elapsed' = elapsed + 1
  /\ UNCHANGED <<task, watch, instant, polled, stopped, mailbox>>

Stop ==
  /\ ~stopped /\ task \notin {"unborn", "over"}
  /\ stopped' = TRUE
  /\ UNCHANGED <<task, watch, instant, elapsed, polled, mailbox>>
-----------------------------------------------------------------------------
(* The actor.                                                               *)

\* A tick may be handled after the notice that the task is over, and, if the
\* select had passed on to it, before a notice that is waiting.
HandleTick ==
  /\ actor /\ ticks > 0
  /\ ticks' = ticks - 1
  /\ UNCHANGED <<task, watch, instant, elapsed, polled, stopped, notice, actor>>

HandleDone ==
  /\ actor /\ notice = "queued"
  /\ notice' = "handled"
  /\ UNCHANGED <<task, watch, instant, elapsed, polled, stopped, ticks, actor>>

\* The actor ends and takes its tracker with it: the task is stopped too,
\* unless somebody else holds its TaskAddress.  Then it goes on in vain.
ActorEnds ==
  /\ actor
  /\ actor' = FALSE
  /\ stopped' \in IF task = "unborn" THEN {FALSE} ELSE {stopped, TRUE}
  /\ ticks' = 0
  /\ notice' = IF notice = "queued" THEN "none" ELSE notice
  /\ UNCHANGED <<task, watch, instant, elapsed, polled>>

TaskStep ==
  \/ repeatable_routine \/ Choose \/ Changed \/ NoSender \/ Pending \/ Elapsed \/ Park
  \/ Wake \/ Interrupted

Next ==
  \/ \E d \in Durations : update(d)
  \/ DropHandle \/ new_with_handle \/ TaskStep \/ Tick \/ Stop
  \/ HandleTick \/ HandleDone \/ ActorEnds

Spec == Init /\ [][Next]_vars

\* The executor polls the task, time passes, the actor handles its messages.
FairSpec ==
  /\ Spec
  /\ WF_vars(TaskStep) /\ WF_vars(Tick) /\ WF_vars(HandleTick) /\ WF_vars(HandleDone)
-----------------------------------------------------------------------------
\* A change of the duration holds for the wait that is going on: when the wait
\* ends, the duration that was set when the task last polled changed() has passed
\* since the beat before, whether the handle is still there or was dropped right
\* after the change.  A wait may still end before a longer duration is over, but
\* only if that was set in the very poll that ends it, after changed() was asked.
WaitsAsLastPolled ==
  [][(Waiting /\ task' = "beat") => elapsed >= polled]_vars

\* The heart goes on beating, whatever is done to the handle, until the task
\* is stopped.
KeepsBeating == Waiting ~> (task \in {"beat", "over"})

\* A stopped heartbeat ends, and its actor, if there still is one, is told.
StopEndsHeartBeat == (stopped /\ task # "over") ~> (task = "over" /\ (notice = "handled" \/ ~actor))
=============================================================================
