--------------------------- MODULE WsClient_proofs ---------------------------
(***************************************************************************)
(* Theorems about the WebSocket client, for any interval and any number of *)
(* messages, frames and statuses on their way.                             *)
(***************************************************************************)
EXTENDS WsClient, TLAPS

\* The routine is at the head of its loop only when the interval has passed, and
\* a channel that was found drained stays so: the Talker has closed it, or nobody
\* has a sender of the session any more.
ClientInv ==
  /\ elapsed \in Nat /\ rx \in Nat
  /\ task = "top" => elapsed >= Interval
  /\ rx_drained => rx = 0

\* The first attempt is made at once.
LEMMA ClientInit == Init => ClientInv
  BY WsClientAssumption DEF Init, ClientInv

\* Steps of the session, the server and the actor leave the clock, and the
\* routine does not come to the head of its loop in them.
LEMMA ClientAside ==
  ASSUME ClientInv, elapsed' = elapsed \/ elapsed' = elapsed + 1, task' # "top" \/ UNCHANGED <<task, elapsed>>,
         rx' \in Nat, rx_drained' => rx' = 0
  PROVE  ClientInv'
  BY DEF ClientInv

\* Every step keeps the invariant.
LEMMA ClientKeeps ==
  ASSUME ClientInv, [Next]_vars
  PROVE  ClientInv'
<1>1. CASE Top \/ ConnectSucceeds \/ ConnectFails
  BY <1>1 DEF ClientInv, Top, ConnectSucceeds, ConnectFails, Fails, options, session, talker, channel
<1>2. CASE Failing \/ Sleeping
  BY <1>2, WsClientAssumption DEF ClientInv, Failing, Sleeping, options, session, talker, channel
<1>3. CASE Tick
  BY <1>3, ClientAside DEF ClientInv, Tick, session, talker, channel
<1>4. ASSUME ReturnsOk \/ ReturnsErr \/ (GoesOn /\ task = "talking")
      PROVE  task' # "top"
  BY <1>4 DEF ReturnsOk, ReturnsErr, Fails, GoesOn
<1>5. CASE TalkDone \/ TalkIncoming
  <2>1. task' # "top"
    BY <1>4, <1>5 DEF TalkDone, TalkIncoming, TalkClose, TalkData, TalkEnd
  <2>2. UNCHANGED <<elapsed, rx, rx_drained>>
    BY <1>5 DEF TalkDone, TalkIncoming, TalkClose, TalkData, TalkEnd, options, talker, channel
  <2> QED BY <2>1, <2>2, ClientAside DEF ClientInv
<1>6. CASE TalkSend
  <2>1. task' # "top"
    BY <1>4, <1>6 DEF TalkSend
  <2>2. UNCHANGED <<elapsed, rx_drained>> /\ rx > 0 /\ rx' = rx - 1
    BY <1>6 DEF TalkSend, options, talker
  <2> QED BY <2>1, <2>2, ClientAside DEF ClientInv
<1>7. CASE TalkDrained
  <2>1. task' # "top"
    BY <1>4, <1>7 DEF TalkDrained
  <2>2. UNCHANGED <<elapsed, rx>> /\ rx = 0
    BY <1>7 DEF TalkDrained, options, channel
  <2> QED BY <2>1, <2>2, ClientAside DEF ClientInv
<1>8. CASE PeerStep
  BY <1>8, ClientAside DEF PeerStep, PeerSends, PeerCloses, PeerHangsUp, PeerBreaks, options, talker,
     channel, ClientInv
<1>9. CASE send
  <2>1. UNCHANGED <<task, elapsed, rx_drained>> /\ ~rx_drained /\ rx' = rx + 1
    BY <1>9 DEF send, options, talker
  <2> QED BY <2>1 DEF ClientInv
<1>10. CASE HandleStatus \/ DropSender \/ Stop \/ ActorEnds
  BY <1>10, ClientAside DEF HandleStatus, DropSender, Stop, ActorEnds, options, session, talker, channel,
     ClientInv
<1>11. CASE UNCHANGED vars
  BY <1>11 DEF vars, session, talker, channel, ClientInv
<1> QED BY <1>1, <1>2, <1>3, <1>5, <1>6, <1>7, <1>8, <1>9, <1>10, <1>11
  DEF Next, ClientStep, TalkOutgoing, ActorStep

\* A session that is stopped, or that the server closes, has sent every message
\* its channel had accepted.
THEOREM NothingLeftBehind == Spec => OrderlyEndSendsAll
<1>1. ClientInv /\ [Next]_vars => ClientInv'
  BY ClientKeeps
<1>2. ClientInv /\ [Next]_vars =>
        [(task = "talking" /\ (task' = "over" \/ (task' = "failing" /\ fail_reason' = "ClosedByServer")))
           => rx' = 0]_vars
  <2> SUFFICES ASSUME ClientInv, Next, task = "talking", task' # "talking",
                      task' = "failing" => fail_reason' = "ClosedByServer"
               PROVE  rx' = 0
    BY DEF vars
  <2>1. ~ReturnsErr /\ ~GoesOn
    BY DEF ReturnsErr, Fails, GoesOn
  <2>2. ~ClientStep /\ ~Tick /\ ~PeerStep /\ ~ActorStep
    BY DEF ClientStep, Top, ConnectSucceeds, ConnectFails, Failing, Sleeping, Tick, PeerStep, PeerSends,
       PeerCloses, PeerHangsUp, PeerBreaks, ActorStep, HandleStatus, send, DropSender, Stop, ActorEnds
  <2>3. TalkEnd \/ TalkDrained
    BY <2>1, <2>2 DEF Next, TalkDone, TalkIncoming, TalkOutgoing, TalkClose, TalkData, TalkSend
  <2>4. CASE TalkEnd
    BY <2>1, <2>4 DEF TalkEnd, channel, ClientInv
  <2>5. CASE TalkDrained
    BY <2>5 DEF TalkDrained, channel
  <2> QED BY <2>3, <2>4, <2>5
<1> QED BY <1>1, <1>2, ClientInit, PTL DEF Spec, OrderlyEndSendsAll

\* A server that refuses, or closes at once, is not tried again before the
\* interval has passed.
THEOREM ReconnectsArePaced == Spec => AttemptsArePaced
<1>1. ClientInv /\ [Next]_vars => ClientInv'
  BY ClientKeeps
<1>2. ClientInv /\ [Next]_vars => [(task = "top" /\ task' = "connecting") => elapsed >= Interval]_vars
  BY DEF ClientInv
<1> QED BY <1>1, <1>2, ClientInit, PTL DEF Spec, AttemptsArePaced
=============================================================================
