------------------------------- MODULE Mailbox -------------------------------
(***************************************************************************)
(* What the mailbox of an actor promises to its senders, without the       *)
(* select, its polls and the end of the entrypoint, which module           *)
(* ActorRuntime has: two queues, both in the order of sending, and a set   *)
(* of messages put off until their deadlines.  A message is accepted while *)
(* the mailbox exists, handled at most once, in its turn and not before    *)
(* its deadline, and lost only when the actor ends.                        *)
(***************************************************************************)
EXTENDS Naturals, Sequences

CONSTANTS Normals, Instants, Scheduleds, deadline

Messages == Normals \cup Instants \cup Scheduleds

VARIABLES
  open,      \* the mailbox exists
  serving,   \* handlers are still called
  ordinary,  \* queue of messages of normal priority
  urgent,    \* queue of instant messages and of requests to schedule
  putoff,    \* scheduled messages waiting for their time
  now,
  fate       \* unsent, queued, rejected, handled or lost

vars == <<open, serving, ordinary, urgent, putoff, now, fate>>

Init ==
  /\ open = TRUE /\ serving = TRUE
  /\ ordinary = <<>> /\ urgent = <<>> /\ putoff = {}
  /\ now = 0
  /\ fate = [m \in Messages |-> "unsent"]

Becomes(m, what) == fate' = [fate EXCEPT ![m] = what]

Send(m) ==
  /\ fate[m] = "unsent"
  /\ \/ /\ open /\ Becomes(m, "queued")
        /\ IF m \in Normals THEN ordinary' = Append(ordinary, m) /\ UNCHANGED urgent
           ELSE urgent' = Append(urgent, m) /\ UNCHANGED ordinary
     \/ ~open /\ Becomes(m, "rejected") /\ UNCHANGED <<ordinary, urgent>>
  /\ UNCHANGED <<open, serving, putoff, now>>

HandleOrdinary ==
  /\ serving /\ ordinary # <<>>
  /\ ordinary' = Tail(ordinary) /\ Becomes(Head(ordinary), "handled")
  /\ UNCHANGED <<open, serving, urgent, putoff, now>>

HandleUrgent ==
  /\ serving /\ urgent # <<>> /\ Head(urgent) \in Instants
  /\ urgent' = Tail(urgent) /\ Becomes(Head(urgent), "handled")
  /\ UNCHANGED <<open, serving, ordinary, putoff, now>>

PutOff ==
  /\ serving /\ urgent # <<>> /\ Head(urgent) \in Scheduleds
  /\ urgent' = Tail(urgent) /\ putoff' = putoff \cup {Head(urgent)}
  /\ UNCHANGED <<open, serving, ordinary, now, fate>>

HandleScheduled(m) ==
  /\ serving /\ m \in putoff /\ deadline[m] <= now
  /\ putoff' = putoff \ {m} /\ Becomes(m, "handled")
  /\ UNCHANGED <<open, serving, ordinary, urgent, now>>

Lose(S) == fate' = [m \in Messages |-> IF m \in S /\ fate[m] = "queued" THEN "lost" ELSE fate[m]]

\* The actor is over: no handler is called any more, and what was put off is
\* lost.  The queues are still there, and take messages.
Retire ==
  /\ serving
  /\ serving' = FALSE /\ putoff' = {} /\ Lose(putoff)
  /\ UNCHANGED <<open, ordinary, urgent, now>>

\* The queues are dropped with their content.
Close ==
  /\ open
  /\ open' = FALSE /\ serving' = FALSE
  /\ ordinary' = <<>> /\ urgent' = <<>> /\ putoff' = {}
  /\ Lose(Messages)
  /\ UNCHANGED now

Tick == now' = now + 1 /\ UNCHANGED <<open, serving, ordinary, urgent, putoff, fate>>

Next ==
  \/ \E m \in Messages : Send(m) \/ HandleScheduled(m)
  \/ HandleOrdinary \/ HandleUrgent \/ PutOff \/ Retire \/ Close \/ Tick

Spec == Init /\ [][Next]_vars
=============================================================================
