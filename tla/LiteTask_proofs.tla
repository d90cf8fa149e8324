--------------------------- MODULE LiteTask_proofs ---------------------------
(***************************************************************************)
(* Theorems about the lite tasks of one supervisor, for every set of them, *)
(* and about the lite task that meio itself brings, the HeartBeat, for     *)
(* every bound on its durations and every number of updates.               *)
(***************************************************************************)
EXTENDS LiteTask, TLAPS

\* The types of the variables.
TypeOK ==
  /\ pc \in [Tasks -> {"poll_stop", "poll_routine", "parked", "finished", "notified"}]
  /\ result \in [Tasks -> {"none", "Interrupted", "Output", "Other"}]
  /\ status \in [Tasks -> {"Alive", "Stop"}]
  /\ holders \in [Tasks -> SUBSET {"tracker", "user", "set"}]
  /\ supervisor \in BOOLEAN
  /\ received \in [Tasks -> Seq({"none", "Interrupted", "Output", "Other"})]

\* A supervisor that is there keeps the Record of a task, and with it a sender of
\* the stop signal, until it has been told that the task is over.
RecordKept == \A t \in Tasks : supervisor /\ pc[t] # "notified" => "tracker" \in holders[t]

\* A result is there as soon as the task has ended.
EndedHasResult == \A t \in Tasks : pc[t] \in {"finished", "notified"} <=> result[t] # "none"

\* One TaskDone is sent, and it carries the result.
OneNotice ==
  \A t \in Tasks :
    /\ pc[t] # "notified" => received[t] = <<>>
    /\ pc[t] = "notified" => received[t] = <<result[t]>> \/ (received[t] = <<>> /\ ~supervisor)

TaskInv == TypeOK /\ RecordKept /\ EndedHasResult /\ OneNotice /\ InterruptedOnlyIfStopped
-----------------------------------------------------------------------------
\* The invariant holds when the tasks are spawned.
LEMMA TaskInit == Init => TaskInv
  BY DEF Init, TaskInv, TypeOK, RecordKept, EndedHasResult, OneNotice, InterruptedOnlyIfStopped

\* Whoever holds, drops or uses an address keeps it.
LEMMA HolderKeeps ==
  ASSUME TaskInv, NEW t \in Tasks, HolderStep(t)
  PROVE  TaskInv'
<1> USE DEF TaskInv, TypeOK, RecordKept, EndedHasResult, OneNotice, InterruptedOnlyIfStopped
<1>1. CASE stop(t)
  BY <1>1 DEF stop
<1>2. CASE UserDropsAddress(t)
  BY <1>2 DEF UserDropsAddress
<1>3. CASE RecordRemoved(t)
  <2>1. \A u \in Tasks : holders'[u] = IF u = t THEN holders[t] \ {"tracker"} ELSE holders[u]
    BY <1>3 DEF RecordRemoved
  <2>2. TypeOK' /\ RecordKept'
    BY <1>3, <2>1 DEF RecordRemoved
  <2>3. InterruptedOnlyIfStopped'
    BY <1>3, <2>1 DEF RecordRemoved
  <2> QED BY <1>3, <2>2, <2>3 DEF RecordRemoved
<1>4. CASE insert(t)
  <2>1. /\ holders' \in [Tasks -> SUBSET {"tracker", "user", "set"}]
        /\ \A u \in Tasks : "tracker" \in holders[u] => "tracker" \in holders'[u]
        /\ \A u \in Tasks : holders[u] = {} => holders'[u] = {}
    <3>1. "user" \in holders[t]
      BY <1>4 DEF insert
    <3>2. PICK H \in SUBSET {"tracker", "user", "set"} :
            /\ holders' = [holders EXCEPT ![t] = H]
            /\ "tracker" \in holders[t] => "tracker" \in H
      <4> DEFINE added == holders[t] \cup {"set"}
                 moved == (holders[t] \ {"user"}) \cup {"set"}
      <4>1. \A H \in {added, moved} :
              /\ H \in SUBSET {"tracker", "user", "set"}
              /\ "tracker" \in holders[t] => "tracker" \in H
        OBVIOUS
      <4>2. \/ holders' = [holders EXCEPT ![t] = added]
            \/ holders' = [holders EXCEPT ![t] = moved]
        BY <1>4 DEF insert
      <4> HIDE DEF added, moved
      <4> QED BY <4>1, <4>2
    <3> QED BY <3>1, <3>2
  <2> QED BY <1>4, <2>1 DEF insert
<1>5. CASE remove(t)
  BY <1>5 DEF remove
<1>6. CASE StopNext(t)
  BY <1>6 DEF StopNext
<1> QED BY <1>1, <1>2, <1>3, <1>4, <1>5, <1>6 DEF HolderStep

\* So do the polls of the task and its end.
LEMMA RoutineKeeps ==
  ASSUME TaskInv, NEW t \in Tasks, RuntimeStep(t) \/ RoutineStep(t) \/ Wake(t)
  PROVE  TaskInv'
<1> USE DEF TaskInv, TypeOK, RecordKept, EndedHasResult, OneNotice, InterruptedOnlyIfStopped
<1>0. ASSUME NEW res \in {"Interrupted", "Output", "Other"}, Finish(t, res),
             pc[t] \in {"poll_stop", "poll_routine"},
             UNCHANGED <<status, holders, supervisor, received>>,
             res = "Interrupted" => status[t] = "Stop" \/ (holders[t] = {} /\ ~supervisor)
      PROVE  TaskInv'
  <2>1. /\ pc' = [pc EXCEPT ![t] = "finished"]
        /\ result' = [result EXCEPT ![t] = res]
    BY <1>0 DEF Finish
  <2>2. TypeOK' /\ RecordKept'
    BY <1>0, <2>1
  <2>3. \A u \in Tasks : /\ pc'[u] = IF u = t THEN "finished" ELSE pc[u]
                         /\ result'[u] = IF u = t THEN res ELSE result[u]
    BY <2>1
  <2>4. EndedHasResult'
    BY <1>0, <2>3
  <2>5. OneNotice'
    BY <1>0, <2>3
  <2>6. InterruptedOnlyIfStopped'
    BY <1>0, <2>3
  <2> QED BY <2>2, <2>4, <2>5, <2>6
<1>1. CASE PollStop(t)
  <2>1. CASE just_done(t) /\ Finish(t, "Interrupted")
    <3>1. status[t] = "Stop" \/ (holders[t] = {} /\ ~supervisor)
      BY <1>1, <2>1 DEF PollStop, just_done
    <3> QED BY <1>0, <1>1, <2>1, <3>1 DEF PollStop
  <2>2. CASE pc' = [pc EXCEPT ![t] = "poll_routine"] /\ UNCHANGED result
    BY <1>1, <2>2 DEF PollStop
  <2> QED BY <1>1, <2>1, <2>2 DEF PollStop
<1>2. CASE Notify(t)
  <2>1. \A u \in Tasks :
          /\ pc'[u] = IF u = t THEN "notified" ELSE pc[u]
          /\ received'[u] = IF u = t /\ supervisor THEN Append(received[t], result[t])
                                                   ELSE received[u]
    BY <1>2 DEF Notify
  <2>2. received[t] = <<>> /\ Append(received[t], result[t]) = <<result[t]>>
    <3>1. received[t] = <<>>
      BY <1>2 DEF Notify
    <3>2. Append(<<>>, result[t]) = <<result[t]>>
      OBVIOUS
    <3> QED BY <3>1, <3>2
  <2>3. OneNotice'
    BY <1>2, <2>1, <2>2 DEF Notify
  <2>4. TypeOK'
    BY <1>2 DEF Notify
  <2>5. RecordKept' /\ EndedHasResult' /\ InterruptedOnlyIfStopped'
    BY <1>2, <2>1 DEF Notify
  <2> QED BY <2>3, <2>4, <2>5
<1>3. CASE Pre(t) \/ AttemptSucceeds(t)
  <2>1. CASE \E res \in {"Output", "Other"} : Finish(t, res)
    BY <1>0, <1>3, <2>1 DEF Pre, AttemptSucceeds
  <2>2. CASE Pre(t) /\ UNCHANGED <<pc, result>>
    BY <2>2 DEF Pre
  <2> QED BY <1>3, <2>1, <2>2 DEF Pre, AttemptSucceeds
<1>4. CASE AttemptWaits(t) \/ WaitElapses(t) \/ Pending(t) \/ Wake(t)
  <2>1. /\ pc' \in {pc, [pc EXCEPT ![t] = "parked"], [pc EXCEPT ![t] = "poll_stop"]}
        /\ pc[t] \in {"poll_routine", "parked"}
        /\ UNCHANGED <<result, status, holders, supervisor, received>>
    BY <1>4 DEF AttemptWaits, WaitElapses, Pending, Wake
  <2>2. \A u \in Tasks : pc'[u] = pc[u] \/ (u = t /\ pc'[u] \in {"parked", "poll_stop"})
    BY <2>1
  <2>3. TypeOK'
    BY <2>1
  <2>4. RecordKept' /\ EndedHasResult'
    BY <2>1, <2>2
  <2>5. OneNotice' /\ InterruptedOnlyIfStopped'
    BY <2>1, <2>2
  <2> QED BY <2>3, <2>4, <2>5
<1> QED BY <1>1, <1>2, <1>3, <1>4 DEF RuntimeStep, RoutineStep

\* Every step keeps the invariant.
LEMMA TaskStep ==
  ASSUME TaskInv, [Next]_vars
  PROVE  TaskInv'
<1> USE DEF TaskInv, TypeOK, RecordKept, EndedHasResult, OneNotice, InterruptedOnlyIfStopped
<1>1. CASE SupervisorEnds
  BY <1>1 DEF SupervisorEnds
<1>2. CASE stop_all
  BY <1>2 DEF stop_all
<1>3. CASE UNCHANGED vars
  BY <1>3 DEF vars
<1> QED BY <1>1, <1>2, <1>3, HolderKeeps, RoutineKeeps DEF Next

\* A task that reports an interruption was stopped, or has lost its supervisor
\* and everybody else who could stop it: a task never ends by itself because an
\* address of it was dropped.
THEOREM InterruptionHasACause == Spec => []InterruptedOnlyIfStopped
<1>1. TaskInv /\ [Next]_vars => TaskInv'
  BY TaskStep
<1> QED BY <1>1, TaskInit, PTL DEF Spec, TaskInv

\* A supervisor hears of the end of each of its tasks once, with the result of
\* the routine: no notice is lost while it is there, none comes twice.
THEOREM NoticeOnce == Spec => []OneNotice
<1>1. TaskInv /\ [Next]_vars => TaskInv'
  BY TaskStep
<1> QED BY <1>1, TaskInit, PTL DEF Spec, TaskInv
-----------------------------------------------------------------------------
(* The HeartBeat: an instance of its module over variables of its own.      *)

CONSTANTS MaxDuration, MaxUpdates, MaxTicks
VARIABLES
  task, duration, seen, handle, updates, instant, elapsed, polled, stopped, ticks, notice,
  actor

Beat == INSTANCE HeartBeat

\* The task waits for the duration it would read now, unless a change of it is
\* still to be seen; it goes on to the timer only with the duration that was set
\* when it polled the channel; and it sleeps without looking at the channel only
\* when there is no sender left, and then no change can be missed.
BeatInv ==
  /\ task \in {"wait", "timer", "parked"} /\ seen => instant = duration
  /\ task \in {"timer", "sleep", "asleep"} => instant = polled
  /\ task \in {"sleep", "asleep"} => ~handle

\* The invariant holds before the heartbeat is spawned, and every step of the
\* task, its handle, the clock and the actor keeps it.
LEMMA BeatInvariant == Beat!Spec => []BeatInv
<1>1. Beat!Init => BeatInv
  BY DEF Beat!Init, BeatInv
<1>2. ASSUME BeatInv, [Beat!Next]_Beat!vars PROVE BeatInv'
  <2> USE <1>2 DEF BeatInv, Beat!watch, Beat!mailbox
  <2>1. ASSUME NEW d \in Beat!Durations, Beat!update(d) PROVE BeatInv'
    BY <2>1 DEF Beat!update
  <2>2. CASE Beat!DropHandle
    BY <2>2 DEF Beat!DropHandle
  <2>3. CASE Beat!new_with_handle
    BY <2>3 DEF Beat!new_with_handle
  <2>4. CASE Beat!repeatable_routine
    BY <2>4 DEF Beat!repeatable_routine
  <2>5. CASE Beat!Choose
    BY <2>5 DEF Beat!Choose
  <2>6. CASE Beat!Changed
    BY <2>6 DEF Beat!Changed
  <2>7. CASE Beat!NoSender \/ Beat!Pending
    BY <2>7 DEF Beat!NoSender, Beat!Pending
  <2>8. CASE Beat!Elapsed
    BY <2>8 DEF Beat!Elapsed
  <2>9. CASE Beat!Park
    BY <2>9 DEF Beat!Park
  <2>10. CASE Beat!Wake
    BY <2>10 DEF Beat!Wake
  <2>11. CASE Beat!Interrupted
    BY <2>11 DEF Beat!Interrupted
  <2>12. CASE Beat!Tick \/ Beat!Stop
    BY <2>12 DEF Beat!Tick, Beat!Stop
  <2>13. CASE Beat!HandleTick \/ Beat!HandleDone \/ Beat!ActorEnds
    <3>1. UNCHANGED <<task, duration, seen, handle, instant, polled>>
      BY <2>13 DEF Beat!HandleTick, Beat!HandleDone, Beat!ActorEnds
    <3> QED BY <3>1
  <2>14. CASE UNCHANGED Beat!vars
    BY <2>14 DEF Beat!vars
  <2> QED
    BY <1>2, <2>1, <2>2, <2>3, <2>4, <2>5, <2>6, <2>7, <2>8, <2>9, <2>10, <2>11,
       <2>12, <2>13, <2>14 DEF Beat!Next, Beat!TaskStep
<1> QED BY <1>1, <1>2, PTL DEF Beat!Spec

\* WaitsAsLastPolled of the heartbeat, for all durations and every number of
\* updates at every moment of a wait, also between the two polls of timeout_at,
\* the handle being dropped after them or not: routine_wait does not return before
\* the duration that was set at its last poll of changed() has passed.
THEOREM BeatsWaitAsLastPolled == Beat!Spec => Beat!WaitsAsLastPolled
<1>1. ASSUME BeatInv, [Beat!Next]_Beat!vars
      PROVE  [(Beat!Waiting /\ task' = "beat") => elapsed >= polled]_Beat!vars
  <2> SUFFICES ASSUME Beat!Waiting, task' = "beat", Beat!Next
               PROVE  elapsed >= polled
    BY <1>1
  <2>1. Beat!Elapsed
    BY DEF Beat!Waiting, Beat!Next, Beat!TaskStep, Beat!update, Beat!DropHandle,
       Beat!new_with_handle, Beat!repeatable_routine, Beat!Choose, Beat!Changed, Beat!NoSender,
       Beat!Pending, Beat!Park, Beat!Wake, Beat!Interrupted, Beat!Tick, Beat!Stop,
       Beat!HandleTick, Beat!HandleDone, Beat!ActorEnds
  <2> QED BY <1>1, <2>1 DEF Beat!Elapsed, BeatInv
<1> QED BY <1>1, BeatInvariant, PTL DEF Beat!Spec, Beat!WaitsAsLastPolled
=============================================================================
