----------------------------- MODULE Interaction -----------------------------
(***************************************************************************)
(* Requests between actors (meio/src/handlers.rs, Interact,                *)
(* InteractionTask and InteractionDone; track_interaction and the          *)
(* recipients of meio/src/linkage), and the broadcast of a Distributor.    *)
(*                                                                         *)
(* A request carries the sender of a oneshot, its responder, and recv()    *)
(* waits at the other end until the responder is used or dropped.  The     *)
(* responder is a value that moves: from the mailbox of the callee into a  *)
(* handler, from there into the state of the actor, or into the tag of a   *)
(* task that passes the question on to another actor.  A request is made   *)
(* by a user, awaited inside a handler, which keeps the actor from taking  *)
(* anything else, or made by a tracked InteractionTask, whose result comes *)
(* back as a notice of high priority.                                      *)
(***************************************************************************)
EXTENDS Naturals, Sequences

CONSTANTS
  Actors,
  Layer,        \* see below
  MaxRequests,  \* bound on the requests that are made
  None

\* A handler awaits only actors of lower layers, and passes the responder on
\* to none of a higher one.  Otherwise actors wait for each other in a circle,
\* also when every other call of the circle is a tracked task.
ASSUME InteractionAssumption ==
  /\ Layer \in [Actors -> Nat]
  /\ MaxRequests \in Nat
  /\ None \notin Actors \cup Nat

Requests == 1 .. MaxRequests

VARIABLES
  phase,     \* of an actor: running, terminating or over
  lp, hp,    \* its queues: requests; finished tasks
  busy,      \* the request its handler is working on
  awaits,    \* the request its handler awaits
  rx,        \* of a request: what recv() has got
  responder, \* where its responder is
  callee, owner, via,
  tag,       \* of a task: the request whose responder it carries
  recipients, todo, outcome, got  \* the Distributor and its loop

calls == <<callee, owner, via, tag>>
broadcast == <<recipients, todo, outcome, got>>
vars == <<phase, lp, hp, busy, awaits, rx, responder, calls, broadcast>>

Init ==
  /\ phase = [a \in Actors |-> "running"]
  /\ lp = [a \in Actors |-> <<>>] /\ hp = [a \in Actors |-> <<>>]
  /\ busy = [a \in Actors |-> None] /\ awaits = [a \in Actors |-> None]
  /\ rx = [q \in Requests |-> "unsent"] /\ responder = [q \in Requests |-> "none"]
  /\ callee = [q \in Requests |-> None] /\ owner = [q \in Requests |-> None]
  /\ via = [q \in Requests |-> "none"] /\ tag = [q \in Requests |-> None]
  /\ recipients = {} /\ todo = {} /\ outcome = "none" /\ got = {}

Free(a) == phase[a] # "over" /\ busy[a] = None
InHandler(a) == phase[a] # "over" /\ busy[a] # None /\ awaits[a] = None

\* What responder.send() of `s`, and the drop of the responders `S`, give to
\* recv().  A recv() that has been given up gets nothing.
Resolve(s, result, S) ==
  /\ rx' = [q \in Requests |->
       IF rx[q] # "waiting" THEN rx[q]
       ELSE IF q = s THEN result ELSE IF q \in S THEN "Canceled" ELSE "waiting"]
  /\ responder' = [q \in Requests |-> IF q = s \/ q \in S THEN "spent" ELSE responder[q]]
-----------------------------------------------------------------------------
(* recv().                                                                  *)

\* recipient.act(input)?
Send(q, b) ==
  \/ /\ phase[b] # "over"
     /\ lp' = [lp EXCEPT ![b] = Append(@, q)]
     /\ rx' = [rx EXCEPT ![q] = "waiting"] /\ responder' = [responder EXCEPT ![q] = "queued"]
  \/ /\ phase[b] = "over"
     /\ rx' = [rx EXCEPT ![q] = "Refused"] /\ responder' = [responder EXCEPT ![q] = "spent"]
     /\ UNCHANGED lp

\* Requests are numbered in the order in which they are made.
Ask(q, a, b, how, carried) ==
  /\ rx[q] = "unsent" /\ \A p \in 1 .. q - 1 : rx[p] # "unsent"
  /\ callee' = [callee EXCEPT ![q] = b] /\ owner' = [owner EXCEPT ![q] = a]
  /\ via' = [via EXCEPT ![q] = how] /\ tag' = [tag EXCEPT ![q] = carried]

UserAsks(q, b) ==
  /\ Ask(q, None, b, "user", None) /\ Send(q, b)
  /\ UNCHANGED <<phase, hp, busy, awaits, broadcast>>

\* interact().recv().await in a handler.
AwaitInline(a, q, b) ==
  /\ InHandler(a) /\ Layer[b] < Layer[a]
  /\ Ask(q, a, b, "await", None) /\ Send(q, b)
  /\ awaits' = [awaits EXCEPT ![a] = q]
  /\ UNCHANGED <<phase, hp, busy, broadcast>>

\* Mutant: a dropped responder does not wake recv().
AwaitReturnsIfAnswered(a) ==
  /\ phase[a] # "over" /\ awaits[a] # None /\ rx[awaits[a]] \in {"Ok", "Err", "Refused"}
  /\ awaits' = [awaits EXCEPT ![a] = None]
  /\ UNCHANGED <<phase, lp, hp, busy, rx, responder, calls, broadcast>>

AwaitReturns(a) ==
  /\ phase[a] # "over" /\ awaits[a] # None /\ rx[awaits[a]] # "waiting"
  /\ awaits' = [awaits EXCEPT ![a] = None]
  /\ UNCHANGED <<phase, lp, hp, busy, rx, responder, calls, broadcast>>
-----------------------------------------------------------------------------
(* The handlers of an actor.                                                *)

Take(a) ==
  /\ Free(a) /\ lp[a] # <<>>
  /\ lp' = [lp EXCEPT ![a] = Tail(@)]
  /\ busy' = [busy EXCEPT ![a] = Head(lp[a])]
  /\ responder' = [responder EXCEPT ![Head(lp[a])] = "handler"]
  /\ UNCHANGED <<phase, hp, awaits, rx, calls, broadcast>>

\* InteractionHandler: the result of handle() is sent.  An ActionHandler of
\* Interact may also let go of the responder.
Answer(a) ==
  /\ InHandler(a)
  /\ \E result \in {"Ok", "Err", "Canceled"} : Resolve(busy[a], result, {})
  /\ busy' = [busy EXCEPT ![a] = None]
  /\ UNCHANGED <<phase, lp, hp, awaits, calls, broadcast>>

\* An ActionHandler of Interact keeps the responder.
Keep(a) ==
  /\ InHandler(a)
  /\ responder' = [responder EXCEPT ![busy[a]] = "kept"]
  /\ busy' = [busy EXCEPT ![a] = None]
  /\ UNCHANGED <<phase, lp, hp, awaits, rx, calls, broadcast>>

\* ... and uses it in another handler.
AnswerKept(a, q) ==
  /\ Free(a) /\ callee[q] = a /\ responder[q] = "kept"
  /\ \E result \in {"Ok", "Err"} : Resolve(q, result, {})
  /\ UNCHANGED <<phase, lp, hp, busy, awaits, calls, broadcast>>

\* track_interaction() with the responder as the tag.
Forward(a, q, b) ==
  /\ InHandler(a) /\ Layer[b] <= Layer[a]
  /\ Ask(q, a, b, "task", busy[a])
  /\ rx' = [rx EXCEPT ![q] = "starting"]
  /\ responder' = [responder EXCEPT ![busy[a]] = "tag"]
  /\ busy' = [busy EXCEPT ![a] = None]
  /\ UNCHANGED <<phase, lp, hp, awaits, broadcast>>
-----------------------------------------------------------------------------
(* The end of an actor.                                                     *)

Tasks(a) == {q \in Requests : via[q] = "task" /\ owner[q] = a}

\* Mutant: the responders an actor has kept outlive it.
QueuedResponders(a) ==
  {q \in Requests : callee[q] = a /\ responder[q] \in {"queued", "handler"}}
    \cup {tag[hp[a][i]] : i \in DOMAIN hp[a]}

\* The responders that are dropped with the runtime of an actor.
HeldResponders(a) ==
  {q \in Requests : callee[q] = a /\ responder[q] \in {"queued", "handler", "kept"}}
    \cup {tag[hp[a][i]] : i \in DOMAIN hp[a]}

\* The rest of the runtime; a recv() inside the handler is dropped too, its
\* responder finds out when it is used.
Ends(a) ==
  /\ phase' = [phase EXCEPT ![a] = "over"]
  /\ lp' = [lp EXCEPT ![a] = <<>>] /\ hp' = [hp EXCEPT ![a] = <<>>]
  /\ busy' = [busy EXCEPT ![a] = None] /\ awaits' = [awaits EXCEPT ![a] = None]

\* stop(), or a panic in a handler.
Stop(a) ==
  /\ phase[a] # "over" /\ awaits[a] = None
  /\ Ends(a) /\ Resolve(None, "none", HeldResponders(a))
  /\ UNCHANGED <<calls, broadcast>>

\* shutdown(): at once without children, or when the notice of the last one has
\* been taken.
Shutdown(a) ==
  /\ phase[a] = "running" /\ Free(a)
  /\ \/ /\ Tasks(a) = {} /\ hp[a] = <<>>
        /\ Ends(a) /\ Resolve(None, "none", HeldResponders(a))
     \/ /\ Tasks(a) # {} \/ hp[a] # <<>>
        /\ phase' = [phase EXCEPT ![a] = "terminating"]
        /\ UNCHANGED <<lp, hp, busy, awaits, rx, responder>>
  /\ UNCHANGED <<calls, broadcast>>
-----------------------------------------------------------------------------
(* InteractionTask as a lite task of its owner.                             *)

TaskSends(q) ==
  /\ via[q] = "task" /\ rx[q] = "starting"
  /\ Send(q, callee[q])
  /\ UNCHANGED <<phase, hp, busy, awaits, calls, broadcast>>

\* Its owner terminates, or is over and has dropped its tracker.
TaskStopped(q) ==
  /\ via[q] = "task" /\ rx[q] \in {"starting", "waiting"} /\ phase[owner[q]] # "running"
  /\ rx' = [rx EXCEPT ![q] = "Interrupted"]
  /\ UNCHANGED <<phase, lp, hp, busy, awaits, responder, calls, broadcast>>

Finished(q) == via[q] = "task" /\ rx[q] \notin {"starting", "waiting"}

\* The notice, with the tag in it; nobody takes it if the owner is over.
TaskReports(q) ==
  /\ Finished(q)
  /\ via' = [via EXCEPT ![q] = "reported"]
  /\ \/ phase[owner[q]] # "over" /\ hp' = [hp EXCEPT ![owner[q]] = Append(@, q)]
        /\ UNCHANGED <<rx, responder>>
     \/ phase[owner[q]] = "over" /\ Resolve(None, "none", {tag[q]}) /\ UNCHANGED hp
  /\ UNCHANGED <<phase, lp, busy, awaits, callee, owner, tag, broadcast>>

\* Mutant: the result of the task is not looked at.
DoneResultsUnchecked(q) == {"Ok"}

\* InteractionDone::handle passes the answer on; failed() drops the tag, or
\* sends the error.
DoneResults(q) == IF rx[q] = "Ok" THEN {"Ok"} ELSE {"Err", "Canceled"}

\* The tracked tasks without the ones whose notices have been taken.
LastChild(a, q) ==
  /\ Tasks(a) = {}
  /\ \A i \in DOMAIN hp[a] : hp[a][i] = q

\* Operation::Done and the handler.
HandleDone(a) ==
  /\ Free(a) /\ hp[a] # <<>>
  /\ LET q == Head(hp[a]) IN
       \/ /\ phase[a] = "terminating" /\ LastChild(a, q)
          /\ Ends(a)
          /\ \E result \in DoneResults(q) : Resolve(tag[q], result, HeldResponders(a))
       \/ /\ ~(phase[a] = "terminating" /\ LastChild(a, q))
          /\ hp' = [hp EXCEPT ![a] = Tail(@)]
          /\ \E result \in DoneResults(q) : Resolve(tag[q], result, {})
          /\ UNCHANGED <<phase, lp, busy, awaits>>
  /\ UNCHANGED <<calls, broadcast>>
-----------------------------------------------------------------------------
(* Distributor.                                                             *)

insert(a) ==
  /\ outcome = "none" /\ a \notin recipients
  /\ recipients' = recipients \cup {a}
  /\ UNCHANGED <<phase, lp, hp, busy, awaits, rx, responder, calls, todo, outcome, got>>

remove(a) ==
  /\ outcome = "none" /\ a \in recipients
  /\ recipients' = recipients \ {a}
  /\ UNCHANGED <<phase, lp, hp, busy, awaits, rx, responder, calls, todo, outcome, got>>

act_all ==
  /\ outcome = "none"
  /\ outcome' = "running" /\ todo' = recipients
  /\ UNCHANGED <<phase, lp, hp, busy, awaits, rx, responder, calls, recipients, got>>

\* Mutant: an error does not end the loop, and is forgotten.
ActNextIgnoringErrors(a) ==
  /\ outcome = "running" /\ a \in todo
  /\ todo' = todo \ {a}
  /\ got' = IF phase[a] = "over" THEN got ELSE got \cup {a}
  /\ UNCHANGED <<phase, lp, hp, busy, awaits, rx, responder, calls, recipients, outcome>>

\* One turn of values_mut().map(act).find(is_err), in no fixed order: the
\* iterator is lazy, the first error ends it.
ActNext(a) ==
  /\ outcome = "running" /\ a \in todo
  /\ \/ phase[a] = "over" /\ todo' = {} /\ outcome' = "err" /\ UNCHANGED got
     \/ phase[a] # "over" /\ todo' = todo \ {a} /\ got' = got \cup {a} /\ UNCHANGED outcome
  /\ UNCHANGED <<phase, lp, hp, busy, awaits, rx, responder, calls, recipients>>

ActEnds ==
  /\ outcome = "running" /\ todo = {}
  /\ outcome' = "ok"
  /\ UNCHANGED <<phase, lp, hp, busy, awaits, rx, responder, calls, recipients, todo, got>>
-----------------------------------------------------------------------------
CallStep == \E q \in Requests, b \in Actors :
  UserAsks(q, b) \/ \E a \in Actors : AwaitInline(a, q, b) \/ Forward(a, q, b)
RuntimeStep(a) == Take(a) \/ Answer(a) \/ AwaitReturns(a) \/ HandleDone(a)
KeptStep(q) == \E a \in Actors : AnswerKept(a, q)
TaskStep(q) == TaskSends(q) \/ TaskStopped(q) \/ TaskReports(q)
DistributorStep == act_all \/ ActEnds \/ \E a \in Actors : insert(a) \/ remove(a) \/ ActNext(a)

Next ==
  \/ CallStep \/ DistributorStep
  \/ \E a \in Actors : RuntimeStep(a) \/ Keep(a) \/ Stop(a) \/ Shutdown(a)
  \/ \E q \in Requests : KeptStep(q) \/ TaskStep(q)

Spec == Init /\ [][Next]_vars

\* Actors take what is in their queues and their handlers return, a kept
\* responder is used at last, and the executor polls the tasks.  Nobody has
\* to ask, to broadcast or to end.
FairSpec ==
  /\ Spec
  /\ \A a \in Actors : WF_vars(RuntimeStep(a))
  /\ \A q \in Requests : WF_vars(KeptStep(q)) /\ WF_vars(TaskStep(q))
-----------------------------------------------------------------------------
\* Where the responder of a request is, if anything has it: in a mailbox, with
\* a handler or in the state of an actor that is not over, in a task that has not
\* reported, or in a notice its owner will take.
HasResponder(q) ==
  \/ /\ callee[q] # None /\ phase[callee[q]] # "over"
     /\ \/ responder[q] = "queued" /\ \E i \in DOMAIN lp[callee[q]] : lp[callee[q]][i] = q
        \/ responder[q] = "handler" /\ busy[callee[q]] = q
        \/ responder[q] = "kept"
  \/ /\ responder[q] = "tag"
     /\ \E t \in Requests :
          /\ tag[t] = q
          /\ via[t] = "task" \/ \E i \in DOMAIN hp[owner[t]] : hp[owner[t]][i] = t

\* Nobody waits for an answer that cannot come: as long as recv() waits, the
\* responder exists somewhere, through every stop, panic and forward.
WaitingHasResponder == \A q \in Requests : rx[q] = "waiting" => HasResponder(q)

\* A forwarded request is answered with success only if the actor it was passed
\* on to has answered with success.
ForwardedFaithfully ==
  \A q \in Requests : (tag[q] # None /\ rx[tag[q]] = "Ok") => rx[q] = "Ok"

\* act_all() returns Ok only if every recipient has accepted the action, and an
\* error only if one of them is over, whoever ends while the loop runs.
BroadcastComplete ==
  /\ outcome = "ok" => got = recipients
  /\ outcome = "err" => \E a \in recipients : phase[a] = "over"

\* Every recv() returns: with an answer, or with an error when the callee, an
\* actor the request was passed on to, or the owner of the task is over.
EveryCallReturns ==
  \A q \in Requests : (rx[q] \in {"starting", "waiting"}) ~> (rx[q] \notin {"starting", "waiting"})
=============================================================================
