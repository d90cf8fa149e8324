------------------------------ MODULE WsClient ------------------------------
(***************************************************************************)
(* The WebSocket client (meio-connect/src/client.rs) and the Talker that   *)
(* runs one session of it (meio-connect/src/talker.rs), with the actor     *)
(* that gets the statuses and sends, and the server at the other end.      *)
(*                                                                         *)
(* Every session has an outgoing channel of its own.  The actor gets its   *)
(* sender in the status Connected, and may keep it when the session is     *)
(* over; what it sends then is refused.                                    *)
(***************************************************************************)
EXTENDS Naturals, Sequences

CONSTANTS
  Interval,    \* repeat_interval, in ticks
  MaxQueue,    \* bound on the outgoing channel
  MaxFrames,   \* bound on the data frames on their way from the server
  MaxStatuses  \* bound on the statuses waiting in the queue of the actor

ASSUME WsClientAssumption ==
  /\ Interval \in Nat /\ MaxQueue \in Nat \ {0}
  /\ MaxFrames \in Nat \ {0} /\ MaxStatuses \in Nat \ {0}

VARIABLES
  repeat,             \* repeat_interval is Some
  task,               \* where connection_routine() is
  stop,               \* the stop signal: Alive, Stop, or all senders Dropped
  elapsed,            \* last_success.elapsed(), up to Interval
  fail_reason,        \* why the last attempt or session failed
  interrupted, rx_drained, connection_drained,     \* fields of the Talker
  rx,                 \* messages in the outgoing channel
  rx_closed,          \* rx.close() has been called
  inbound,            \* frames on their way from the server
  peer,               \* the server: open, has sent Close, has hung up
  close_sent,         \* connection.close() has been called
  actor,              \* the actor exists
  hp,                 \* statuses in its queue; Outdated is the Connected of an old session
  sender              \* the sender it holds: of the current session, of an old one, or none

options == <<repeat, stop, elapsed>>
talker == <<interrupted, rx_drained, connection_drained>>
channel == <<rx, rx_closed>>
link == <<inbound, peer, close_sent>>
session == <<talker, channel, link>>
mailbox == <<actor, hp, sender>>
vars == <<repeat, task, stop, elapsed, fail_reason, session, mailbox>>

Init ==
  /\ repeat \in BOOLEAN
  /\ task = "top" /\ stop = "Alive" /\ elapsed = Interval /\ fail_reason = "none"
  /\ interrupted = FALSE /\ rx_drained = FALSE /\ connection_drained = FALSE
  /\ rx = 0 /\ rx_closed = FALSE
  /\ inbound = <<>> /\ peer = "open" /\ close_sent = FALSE
  /\ actor = TRUE /\ hp = <<>> /\ sender = "none"

\* address.instant(status)?
instant(status) ==
  /\ actor
  /\ hp' = Append(hp, status)
  /\ UNCHANGED <<actor, sender>>
-----------------------------------------------------------------------------
(* connection_routine.                                                      *)

\* while stop.is_alive(): a look at the value, which a dropped sender leaves
\* as it is.
Top ==
  /\ task = "top"
  /\ task' = IF stop = "Stop" THEN "over" ELSE "connecting"
  /\ UNCHANGED <<options, fail_reason, session, mailbox>>

ConnectSucceeds ==
  /\ task = "connecting" /\ Len(hp) < MaxStatuses
  /\ elapsed' = 0
  /\ \/ instant("Connected") /\ task' = "talking"
     \/ ~actor /\ task' = "over" /\ UNCHANGED mailbox
  /\ interrupted' = FALSE /\ rx_drained' = FALSE /\ connection_drained' = FALSE
  /\ rx' = 0 /\ rx_closed' = FALSE
  /\ inbound' = <<>> /\ peer' = "open" /\ close_sent' = FALSE
  /\ UNCHANGED <<repeat, stop, fail_reason>>

Fails(reason) == task' = "failing" /\ fail_reason' = reason

ConnectFails ==
  /\ task = "connecting"
  /\ elapsed' = 0
  /\ Fails("ServerNotAvailable")
  /\ UNCHANGED <<repeat, stop, session, mailbox>>

\* Mutant: the time since the last connection is not waited for.
FailingAtOnce ==
  /\ task = "failing" /\ Len(hp) < MaxStatuses
  /\ \/ instant("Failed") /\ task' = IF repeat THEN "top" ELSE "over"
     \/ ~actor /\ task' = "over" /\ UNCHANGED mailbox
  /\ UNCHANGED <<options, fail_reason, session>>

\* Without an interval the error is returned.
Failing ==
  /\ task = "failing" /\ Len(hp) < MaxStatuses
  /\ \/ /\ instant("Failed")
        /\ task' = IF ~repeat THEN "over" ELSE IF elapsed < Interval THEN "sleeping" ELSE "top"
     \/ ~actor /\ task' = "over" /\ UNCHANGED mailbox
  /\ UNCHANGED <<options, fail_reason, session>>

\* stop.or(sleep(remained)).await?
Sleeping ==
  /\ task = "sleeping"
  /\ \/ stop # "Alive" /\ task' = "over"
     \/ stop = "Alive" /\ elapsed >= Interval /\ task' = "top"
  /\ UNCHANGED <<options, fail_reason, session, mailbox>>

Tick ==
  /\ task \in {"connecting", "talking", "sleeping"} /\ elapsed < Interval
  /\ elapsed' = elapsed + 1
  /\ UNCHANGED <<repeat, task, stop, fail_reason, session, mailbox>>
-----------------------------------------------------------------------------
(* Talker::routine, the branches of its select.  The Talker drops the       *)
(* receiver when it returns: senders of the session become outdated.        *)

Outdated ==
  /\ hp' = [i \in DOMAIN hp |-> IF hp[i] = "Connected" THEN "Outdated" ELSE hp[i]]
  /\ sender' = IF sender = "current" THEN "old" ELSE sender
  /\ UNCHANGED actor

\* TermReason::Interrupted ends the client, TermReason::Closed is a failure.
ReturnsOk ==
  /\ \/ interrupted /\ task' = "over" /\ UNCHANGED fail_reason
     \/ ~interrupted /\ Fails("ClosedByServer")
  /\ Outdated

ReturnsErr == Fails("ConnectionFailed") /\ Outdated

GoesOn == UNCHANGED <<task, fail_reason, mailbox>>

\* Mutant: the Talker returns at the stop signal.
TalkDoneAtOnce ==
  /\ task = "talking" /\ stop # "Alive"
  /\ interrupted' = TRUE /\ task' = "over" /\ Outdated
  /\ UNCHANGED <<options, fail_reason, rx_drained, connection_drained, channel, link>>

\* Mutant: the channel stays open.
TalkDoneKeepsChannel ==
  /\ task = "talking" /\ stop # "Alive" /\ ~interrupted
  /\ interrupted' = TRUE
  /\ GoesOn
  /\ UNCHANGED <<options, rx_drained, connection_drained, channel, link>>

\* The stop signal closes the channel, which is drained then.
TalkDone ==
  /\ task = "talking" /\ stop # "Alive" /\ ~interrupted
  /\ interrupted' = TRUE /\ rx_closed' = TRUE
  /\ GoesOn
  /\ UNCHANGED <<options, rx_drained, connection_drained, rx, link>>

\* Mutant: the Close of the server does not close the channel.
TalkCloseIgnored ==
  /\ task = "talking" /\ inbound # <<>> /\ Head(inbound) = "close"
  /\ inbound' = Tail(inbound) /\ GoesOn
  /\ UNCHANGED <<options, talker, channel, peer, close_sent>>

TalkClose ==
  /\ task = "talking" /\ inbound # <<>> /\ Head(inbound) = "close"
  /\ inbound' = Tail(inbound) /\ rx_closed' = TRUE /\ GoesOn
  /\ UNCHANGED <<options, talker, rx, peer, close_sent>>

\* decode()? and act()? of a data frame; or the connection reports an error.
\* Other frames (ping, pong) change nothing and are left out.
TalkData ==
  /\ task = "talking" /\ inbound # <<>> /\ Head(inbound) \in {"data", "error"}
  /\ inbound' = Tail(inbound)
  /\ \/ Head(inbound) = "data" /\ actor /\ GoesOn
     \/ ReturnsErr
  /\ UNCHANGED <<options, talker, channel, peer, close_sent>>

\* The connection is over: done, if the channel is drained.
TalkEnd ==
  /\ task = "talking" /\ inbound # <<>> /\ Head(inbound) = "end"
  /\ inbound' = Tail(inbound) /\ connection_drained' = TRUE
  /\ IF rx_drained THEN ReturnsOk ELSE GoesOn
  /\ UNCHANGED <<options, interrupted, rx_drained, channel, peer, close_sent>>

\* encode()? and send().await? of a message of the channel.
TalkSend ==
  /\ task = "talking" /\ rx > 0
  /\ rx' = rx - 1
  /\ GoesOn \/ ReturnsErr
  /\ UNCHANGED <<options, talker, rx_closed, link>>

\* A sender of the session exists, in the actor or in its queue.
Senders == sender = "current" \/ \E i \in DOMAIN hp : hp[i] = "Connected"

\* The channel is drained and closed, or its senders are gone: close().await?
TalkDrained ==
  /\ task = "talking" /\ ~rx_drained /\ rx = 0 /\ (rx_closed \/ ~Senders)
  /\ \/ /\ close_sent' = TRUE /\ rx_drained' = TRUE
        /\ IF connection_drained THEN ReturnsOk ELSE GoesOn
     \/ peer # "open" /\ ReturnsErr /\ UNCHANGED <<close_sent, rx_drained>>
  /\ UNCHANGED <<options, interrupted, connection_drained, channel, inbound, peer>>
-----------------------------------------------------------------------------
(* The server and the connection, as tungstenite shows them.                *)

PeerSends ==
  /\ task = "talking" /\ peer = "open" /\ Len(inbound) < MaxFrames
  /\ inbound' = Append(inbound, "data")
  /\ UNCHANGED <<options, task, fail_reason, talker, channel, peer, close_sent, mailbox>>

PeerCloses ==
  /\ task = "talking" /\ peer = "open"
  /\ inbound' = Append(inbound, "close") /\ peer' = "closing"
  /\ UNCHANGED <<options, task, fail_reason, talker, channel, close_sent, mailbox>>

\* The closing handshake is complete: either side has sent a Close and the
\* other one has seen it.
PeerHangsUp ==
  /\ task = "talking"
  /\ \/ peer = "open" /\ close_sent
     \/ peer = "closing" /\ \A i \in DOMAIN inbound : inbound[i] # "close"
  /\ inbound' = Append(inbound, "end") /\ peer' = "gone"
  /\ UNCHANGED <<options, task, fail_reason, talker, channel, close_sent, mailbox>>

\* The connection is lost without a handshake.
PeerBreaks ==
  /\ task = "talking" /\ peer # "gone"
  /\ inbound' = Append(inbound, "error") /\ peer' = "gone"
  /\ UNCHANGED <<options, task, fail_reason, talker, channel, close_sent, mailbox>>
-----------------------------------------------------------------------------
(* The actor and the holder of the TaskAddress.                             *)

HandleStatus ==
  /\ actor /\ hp # <<>>
  /\ hp' = Tail(hp)
  /\ sender' \in CASE Head(hp) = "Connected" -> {"current"}
                   [] Head(hp) = "Outdated"  -> {"old"}
                   [] Head(hp) = "Failed"    -> {sender, "none"}
  /\ UNCHANGED <<options, task, fail_reason, session, actor>>

\* WsSender::send: refused by a closed channel and by that of an old session.
send ==
  /\ actor /\ sender = "current" /\ ~rx_closed /\ ~rx_drained /\ rx < MaxQueue
  /\ rx' = rx + 1
  /\ UNCHANGED <<options, task, fail_reason, talker, rx_closed, link, mailbox>>

DropSender ==
  /\ actor /\ sender # "none"
  /\ sender' = "none"
  /\ UNCHANGED <<options, task, fail_reason, session, actor, hp>>

Stop ==
  /\ task # "over" /\ stop = "Alive"
  /\ stop' = "Stop"
  /\ UNCHANGED <<repeat, task, elapsed, fail_reason, session, mailbox>>

\* Its tracker is dropped: the stop channel closes, if nobody else has a sender.
ActorEnds ==
  /\ actor
  /\ actor' = FALSE /\ hp' = <<>> /\ sender' = "none"
  /\ stop' \in IF stop = "Alive" THEN {"Alive", "Dropped"} ELSE {stop}
  /\ UNCHANGED <<repeat, task, elapsed, fail_reason, session>>
-----------------------------------------------------------------------------
ClientStep == Top \/ ConnectSucceeds \/ ConnectFails \/ Failing \/ Sleeping
TalkIncoming == TalkClose \/ TalkData \/ TalkEnd
TalkOutgoing == TalkSend \/ TalkDrained
PeerStep == PeerSends \/ PeerCloses \/ PeerHangsUp \/ PeerBreaks
ActorStep == HandleStatus \/ send \/ DropSender \/ Stop \/ ActorEnds

Next == ClientStep \/ Tick \/ TalkDone \/ TalkIncoming \/ TalkOutgoing \/ PeerStep \/ ActorStep

Spec == Init /\ [][Next]_vars

\* The executor polls the task, and select! chooses at random among the
\* branches that are ready, so none is passed over for ever.  A connection
\* attempt comes to a result, time passes, the actor handles its messages and
\* the server completes a closing handshake and reads what is sent, so that
\* send().await and close().await do not block for ever.
FairSpec ==
  /\ Spec
  /\ WF_vars(ClientStep) /\ WF_vars(Tick)
  /\ WF_vars(TalkDone) /\ WF_vars(TalkIncoming) /\ WF_vars(TalkOutgoing)
  /\ WF_vars(HandleStatus) /\ WF_vars(PeerHangsUp)
-----------------------------------------------------------------------------
\* A session that is stopped or closed in an orderly way has sent every message
\* its channel had accepted; only an error leaves some behind.
OrderlyEndSendsAll ==
  [][(task = "talking" /\ (task' = "over" \/ (task' = "failing" /\ fail_reason' = "ClosedByServer")))
       => rx' = 0]_vars

\* Attempts to connect are paced: a server that refuses, or closes at once, is
\* not tried again before the interval has passed.
AttemptsArePaced ==
  [][(task = "top" /\ task' = "connecting") => elapsed >= Interval]_vars

\* A session the server closes or breaks ends, although the actor keeps its
\* sender and goes on sending.
ClosedSessionEnds == (task = "talking" /\ peer # "open") ~> (task # "talking")

\* A stopped client ends: in a session, between two and in the middle of the
\* closing handshake, and also when its actor is gone.
StoppedClientEnds == (stop # "Alive") ~> (task = "over")
=============================================================================
