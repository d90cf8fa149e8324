------------------------- MODULE Interaction_proofs --------------------------
(***************************************************************************)
(* Theorems about requests and broadcasts, for any number of actors in any *)
(* layers and any number of requests.                                      *)
(***************************************************************************)
EXTENDS Interaction, TLAPS

(* The broadcast of a Distributor.                                          *)

\* While the loop runs, the recipients are those that have accepted the action
\* and those it has not come to.
BroadcastInv ==
  /\ phase \in [Actors -> {"running", "terminating", "over"}]
  /\ recipients \subseteq Actors
  /\ outcome = "none" => got = {}
  /\ outcome = "running" => got \cup todo = recipients
  /\ BroadcastComplete

\* An actor that is over stays so.
LEMMA OverForGood ==
  ASSUME BroadcastInv, Next
  PROVE  /\ phase' \in [Actors -> {"running", "terminating", "over"}]
         /\ \A a \in Actors : phase[a] = "over" => phase'[a] = "over"
<1> DEFINE Phases == {"running", "terminating", "over"}
<1>1. ASSUME UNCHANGED phase
      PROVE  phase' \in [Actors -> Phases] /\ \A a \in Actors : phase[a] = "over" => phase'[a] = "over"
  BY <1>1 DEF BroadcastInv
<1>2. ASSUME NEW a \in Actors, Ends(a)
      PROVE  phase' \in [Actors -> Phases] /\ \A b \in Actors : phase[b] = "over" => phase'[b] = "over"
  BY <1>2 DEF BroadcastInv, Ends
<1>3. CASE CallStep
  BY <1>1, <1>3 DEF CallStep, UserAsks, AwaitInline, Forward
<1>4. CASE DistributorStep
  BY <1>1, <1>4 DEF DistributorStep, act_all, ActEnds, insert, remove, ActNext
<1>5. ASSUME NEW a \in Actors, Take(a) \/ Answer(a) \/ AwaitReturns(a) \/ Keep(a)
      PROVE  UNCHANGED phase
  BY <1>5 DEF Take, Answer, AwaitReturns, Keep
<1>6. ASSUME NEW a \in Actors, HandleDone(a)
      PROVE  Ends(a) \/ UNCHANGED phase
  BY <1>6 DEF HandleDone
<1>7. ASSUME NEW a \in Actors, Stop(a)
      PROVE  Ends(a)
  BY <1>7 DEF Stop
<1>8. ASSUME NEW a \in Actors, Shutdown(a)
      PROVE  phase' \in [Actors -> Phases] /\ \A b \in Actors : phase[b] = "over" => phase'[b] = "over"
  <2>1. CASE Ends(a)
    BY <1>2, <2>1
  <2>2. CASE phase[a] = "running" /\ phase' = [phase EXCEPT ![a] = "terminating"]
    BY <2>2 DEF BroadcastInv
  <2> QED BY <1>8, <2>1, <2>2 DEF Shutdown
<1>9. ASSUME NEW q \in Requests, KeptStep(q) \/ TaskStep(q)
      PROVE  UNCHANGED phase
  BY <1>9 DEF KeptStep, AnswerKept, TaskStep, TaskSends, TaskStopped, TaskReports
<1> QED BY <1>1, <1>2, <1>3, <1>4, <1>5, <1>6, <1>7, <1>8, <1>9 DEF Next, RuntimeStep

\* Only the Distributor touches its loop.
LEMMA BroadcastAside ==
  ASSUME [Next]_vars, ~DistributorStep
  PROVE  UNCHANGED broadcast
<1>1. CASE CallStep
  BY <1>1 DEF CallStep, UserAsks, AwaitInline, Forward
<1>2. ASSUME NEW a \in Actors, RuntimeStep(a) \/ Keep(a) \/ Stop(a) \/ Shutdown(a)
      PROVE  UNCHANGED broadcast
  BY <1>2 DEF RuntimeStep, Take, Answer, AwaitReturns, HandleDone, Keep, Stop, Shutdown
<1>3. ASSUME NEW q \in Requests, KeptStep(q) \/ TaskStep(q)
      PROVE  UNCHANGED broadcast
  BY <1>3 DEF KeptStep, AnswerKept, TaskStep, TaskSends, TaskStopped, TaskReports
<1> QED BY <1>1, <1>2, <1>3 DEF Next, vars

\* Every step keeps the invariant of the loop.
LEMMA BroadcastStep ==
  ASSUME BroadcastInv, [Next]_vars
  PROVE  BroadcastInv'
<1>1. CASE UNCHANGED vars
  BY <1>1 DEF vars, broadcast, BroadcastInv, BroadcastComplete
<1>2. CASE Next /\ ~DistributorStep
  <2>1. UNCHANGED <<recipients, todo, outcome, got>>
    BY <1>2, BroadcastAside DEF broadcast
  <2>2. outcome = "err" => \E a \in recipients : phase'[a] = "over"
    <3> SUFFICES ASSUME outcome = "err"
                 PROVE  \E a \in recipients : phase'[a] = "over"
      OBVIOUS
    <3>1. PICK a \in recipients : phase[a] = "over"
      BY DEF BroadcastInv, BroadcastComplete
    <3>2. a \in Actors
      BY DEF BroadcastInv
    <3> QED BY <1>2, <3>1, <3>2, OverForGood
  <2> QED BY <1>2, <2>1, <2>2, OverForGood DEF BroadcastInv, BroadcastComplete
<1>3. CASE DistributorStep
  <2>1. UNCHANGED phase
    BY <1>3 DEF DistributorStep, act_all, ActEnds, insert, remove, ActNext
  <2>2. CASE act_all \/ ActEnds
    BY <2>1, <2>2 DEF act_all, ActEnds, BroadcastInv, BroadcastComplete
  <2>3. ASSUME NEW a \in Actors, insert(a) \/ remove(a)
        PROVE  BroadcastInv'
    BY <2>1, <2>3 DEF insert, remove, BroadcastInv, BroadcastComplete
  <2>4. ASSUME NEW a \in Actors, ActNext(a)
        PROVE  BroadcastInv'
    BY <2>1, <2>4 DEF ActNext, BroadcastInv, BroadcastComplete
  <2> QED BY <1>3, <2>2, <2>3, <2>4 DEF DistributorStep
<1> QED BY <1>1, <1>2, <1>3

\* act_all() never returns Ok without every recipient, nor an error without one
\* that is over, whoever ends while the loop runs.
THEOREM BroadcastReachesAll == Spec => []BroadcastComplete
<1>1. Init => BroadcastInv
  BY DEF Init, BroadcastInv, BroadcastComplete
<1>2. BroadcastInv /\ [Next]_vars => BroadcastInv'
  BY BroadcastStep
<1>3. BroadcastInv => BroadcastComplete
  BY DEF BroadcastInv
<1> QED BY <1>1, <1>2, <1>3, PTL DEF Spec
-----------------------------------------------------------------------------
(* Where the responder of a request is.                                     *)

RxStates == {"unsent", "starting", "waiting", "Ok", "Err", "Canceled", "Refused", "Interrupted"}
Places == {"none", "queued", "handler", "kept", "tag", "spent"}

InteractionTypeOK ==
  /\ phase \in [Actors -> {"running", "terminating", "over"}]
  /\ lp \in [Actors -> Seq(Requests)] /\ hp \in [Actors -> Seq(Requests)]
  /\ busy \in [Actors -> Requests \cup {None}]
  /\ rx \in [Requests -> RxStates] /\ responder \in [Requests -> Places]
  /\ callee \in [Requests -> Actors \cup {None}] /\ owner \in [Requests -> Actors \cup {None}]
  /\ via \in [Requests -> {"none", "user", "await", "task", "reported"}]
  /\ tag \in [Requests -> Requests \cup {None}]
  /\ \A q \in Requests : via[q] = "task" => callee[q] \in Actors /\ owner[q] \in Actors

\* Before a request is sent nothing has its responder, and before it is made
\* nothing refers to it.
Fresh ==
  \A q \in Requests :
    /\ rx[q] = "unsent" => tag[q] = None /\ callee[q] = None
    /\ rx[q] \in {"unsent", "starting"} => responder[q] = "none"

\* A mailbox has the requests to its actor whose responders are in it, once each.
InMailbox ==
  \A a \in Actors :
    /\ \A i \in DOMAIN lp[a] : callee[lp[a][i]] = a /\ responder[lp[a][i]] = "queued"
    /\ \A i, j \in DOMAIN lp[a] : lp[a][i] = lp[a][j] => i = j

InHands == \A a \in Actors : busy[a] # None => callee[busy[a]] = a /\ responder[busy[a]] = "handler"

\* A responder is where it is said to be.
Found ==
  \A q \in Requests :
    /\ responder[q] \in {"queued", "handler", "kept"} => callee[q] \in Actors /\ phase[callee[q]] # "over"
    /\ responder[q] = "queued" => \E i \in DOMAIN lp[callee[q]] : lp[callee[q]][i] = q
    /\ responder[q] = "handler" => busy[callee[q]] = q

Carries(t, q) ==
  /\ tag[t] = q /\ owner[t] \in Actors
  /\ via[t] = "task" \/ \E i \in DOMAIN hp[owner[t]] : hp[owner[t]][i] = t

Carried == \A q \in Requests : responder[q] = "tag" => \E t \in Requests : Carries(t, q)

\* A responder is the tag of one task, and comes back from it spent.
OneCarrier ==
  \A t \in Requests :
    tag[t] # None =>
      /\ responder[tag[t]] \in {"tag", "spent"}
      /\ \A u \in Requests : tag[u] = tag[t] => u = t

\* Who waits has a responder somewhere, and who has got an answer has used it up.
Settled ==
  \A q \in Requests :
    /\ rx[q] = "waiting" => responder[q] \in {"queued", "handler", "kept", "tag"}
    /\ rx[q] = "Ok" => responder[q] = "spent"

ResponderInv ==
  /\ InteractionTypeOK /\ Fresh /\ InMailbox /\ InHands /\ Found /\ Carried /\ OneCarrier
  /\ Settled /\ ForwardedFaithfully

\* Requests are numbers, and None is neither a request nor an actor.
LEMMA NoneApart == None \notin Requests /\ None \notin Actors
  BY InteractionAssumption DEF Requests

Results == {"Ok", "Err", "Canceled"}

\* What a responder that is used and others that are dropped leave as it was: the
\* places of the others, and the forwarded requests if the answer is one that the
\* task which carried the responder has got.
LEMMA ResolveKeeps ==
  ASSUME ResponderInv, NEW s, NEW result, NEW S, Resolve(s, result, S),
         s \in Requests => result \in Results,
         \A q \in Requests : q = s \/ q \in S => responder[q] # "none",
         \A t \in Requests : s \in Requests /\ tag[t] = s /\ result = "Ok" => rx[t] = "Ok",
         UNCHANGED <<callee, tag>>
  PROVE  /\ rx' \in [Requests -> RxStates] /\ responder' \in [Requests -> Places]
         /\ \A q \in Requests :
              /\ (q = s \/ q \in S) => responder'[q] = "spent"
              /\ ~(q = s \/ q \in S) => responder'[q] = responder[q]
         /\ Fresh' /\ OneCarrier' /\ Settled' /\ ForwardedFaithfully'
<1>1. \A q \in Requests :
        /\ rx'[q] = IF rx[q] # "waiting" THEN rx[q]
                    ELSE IF q = s THEN result ELSE IF q \in S THEN "Canceled" ELSE "waiting"
        /\ responder'[q] = IF q = s \/ q \in S THEN "spent" ELSE responder[q]
  BY DEF Resolve
<1>2. rx' \in [Requests -> RxStates]
  BY DEF Resolve, ResponderInv, InteractionTypeOK, RxStates, Results
<1>3. responder' \in [Requests -> Places]
  BY DEF Resolve, ResponderInv, InteractionTypeOK, Places
<1>4. Fresh'
  BY <1>1 DEF ResponderInv, Fresh, Results
<1>5. OneCarrier'
  <2> SUFFICES ASSUME NEW t \in Requests, tag[t] # None
               PROVE  /\ responder'[tag[t]] \in {"tag", "spent"}
                      /\ \A u \in Requests : tag[u] = tag[t] => u = t
    BY DEF OneCarrier
  <2>1. tag[t] \in Requests
    BY DEF ResponderInv, InteractionTypeOK
  <2> QED BY <1>1, <2>1 DEF ResponderInv, OneCarrier
<1>6. Settled'
  BY <1>1 DEF ResponderInv, Settled, Results
<1>7. ForwardedFaithfully'
  <2> SUFFICES ASSUME NEW q \in Requests, tag[q] # None, rx'[tag[q]] = "Ok"
               PROVE  rx'[q] = "Ok"
    BY DEF ForwardedFaithfully
  <2>1. tag[q] \in Requests
    BY DEF ResponderInv, InteractionTypeOK
  <2>2. CASE rx[tag[q]] = "Ok"
    BY <1>1, <2>2 DEF ResponderInv, ForwardedFaithfully
  <2>3. CASE rx[tag[q]] # "Ok"
    BY <1>1, <2>1, <2>3
  <2> QED BY <2>2, <2>3
<1> QED BY <1>1, <1>2, <1>3, <1>4, <1>5, <1>6, <1>7

\* Steps after which everything is where it was.
LEMMA ResponderAside ==
  ASSUME ResponderInv, UNCHANGED <<phase, lp, hp, busy, rx, responder, calls>>
  PROVE  ResponderInv'
<1>1. UNCHANGED <<phase, lp, hp, busy, rx, responder, callee, owner, via, tag>>
  BY DEF calls
<1>2. InteractionTypeOK' /\ Fresh' /\ InMailbox' /\ InHands'
  BY <1>1 DEF ResponderInv, InteractionTypeOK, Fresh, InMailbox, InHands
<1>3. Found' /\ Carried' /\ OneCarrier'
  BY <1>1 DEF ResponderInv, Found, Carried, Carries, OneCarrier
<1>4. Settled' /\ ForwardedFaithfully'
  BY <1>1 DEF ResponderInv, Settled, ForwardedFaithfully
<1> QED BY <1>2, <1>3, <1>4 DEF ResponderInv

\* The end of an actor drops all that was in its hands.
LEMMA EndsKeeps ==
  ASSUME ResponderInv, NEW a \in Actors, Ends(a), UNCHANGED calls, NEW s, NEW result,
         Resolve(s, result, HeldResponders(a)),
         s \in Requests => result \in Results /\ responder[s] \in {"tag", "spent"},
         \A t \in Requests : s \in Requests /\ tag[t] = s /\ result = "Ok" => rx[t] = "Ok"
  PROVE  ResponderInv'
<1> DEFINE H == HeldResponders(a)
<1>1. UNCHANGED <<callee, owner, via, tag>>
  BY DEF calls
<1>2. \A c \in Actors :
        /\ phase'[c] = IF c = a THEN "over" ELSE phase[c]
        /\ lp'[c] = IF c = a THEN <<>> ELSE lp[c]
        /\ hp'[c] = IF c = a THEN <<>> ELSE hp[c]
        /\ busy'[c] = IF c = a THEN None ELSE busy[c]
  BY DEF Ends, ResponderInv, InteractionTypeOK
<1>3. \A q \in Requests : callee[q] = a /\ responder[q] \in {"queued", "handler", "kept"} => q \in H
  BY DEF HeldResponders
<1>4. \A i \in DOMAIN hp[a] : tag[hp[a][i]] \in H
  BY DEF HeldResponders
<1>5. \A q \in Requests : q \in H =>
        \/ callee[q] = a /\ responder[q] \in {"queued", "handler", "kept"}
        \/ responder[q] \in {"tag", "spent"}
  <2> SUFFICES ASSUME NEW q \in Requests, NEW i \in DOMAIN hp[a], q = tag[hp[a][i]]
               PROVE  responder[q] \in {"tag", "spent"}
    BY DEF HeldResponders
  <2>1. hp[a][i] \in Requests
    BY DEF ResponderInv, InteractionTypeOK
  <2> QED BY <2>1, NoneApart DEF ResponderInv, OneCarrier
<1> HIDE DEF H
<1>6. \A q \in Requests : q = s \/ q \in H => responder[q] # "none"
  BY <1>5
<1>7. /\ rx' \in [Requests -> RxStates] /\ responder' \in [Requests -> Places]
      /\ \A q \in Requests :
           /\ (q = s \/ q \in H) => responder'[q] = "spent"
           /\ ~(q = s \/ q \in H) => responder'[q] = responder[q]
      /\ Fresh' /\ OneCarrier' /\ Settled' /\ ForwardedFaithfully'
  <2>1. Resolve(s, result, H)
    BY DEF H
  <2> QED BY <1>1, <1>6, <2>1, ResolveKeeps
<1>8. InteractionTypeOK'
  <2>1. phase' \in [Actors -> {"running", "terminating", "over"}] /\ busy' \in [Actors -> Requests \cup {None}]
    BY DEF Ends, ResponderInv, InteractionTypeOK
  <2>2. <<>> \in Seq(Requests)
    OBVIOUS
  <2>3. lp' \in [Actors -> Seq(Requests)] /\ hp' \in [Actors -> Seq(Requests)]
    BY <2>2 DEF Ends, ResponderInv, InteractionTypeOK
  <2> QED BY <1>1, <1>7, <2>1, <2>3 DEF ResponderInv, InteractionTypeOK
<1>9. InMailbox'
  <2>1. \A c \in Actors : c # a => \A i \in DOMAIN lp[c] :
          lp[c][i] \in Requests /\ callee[lp[c][i]] = c /\ responder[lp[c][i]] = "queued"
    BY DEF ResponderInv, InteractionTypeOK, InMailbox
  <2>2. \A c \in Actors : c # a => \A i \in DOMAIN lp[c] : responder'[lp[c][i]] = "queued"
    BY <1>5, <1>7, <2>1
  <2>3. DOMAIN <<>> = {}
    OBVIOUS
  <2> QED BY <1>1, <1>2, <2>2, <2>3 DEF ResponderInv, InMailbox
<1>10. InHands'
  <2> SUFFICES ASSUME NEW c \in Actors, c # a, busy[c] # None
               PROVE  callee[busy[c]] = c /\ responder'[busy[c]] = "handler"
    BY <1>1, <1>2 DEF InHands
  <2>1. busy[c] \in Requests /\ callee[busy[c]] = c /\ responder[busy[c]] = "handler"
    BY DEF ResponderInv, InteractionTypeOK, InHands
  <2> QED BY <1>5, <1>7, <2>1
<1>11. Found'
  <2> SUFFICES ASSUME NEW q \in Requests, responder'[q] \in {"queued", "handler", "kept"}
               PROVE  /\ callee[q] \in Actors /\ phase'[callee[q]] # "over"
                      /\ responder'[q] = "queued" => \E i \in DOMAIN lp'[callee[q]] : lp'[callee[q]][i] = q
                      /\ responder'[q] = "handler" => busy'[callee[q]] = q
    BY <1>1 DEF Found
  <2>1. responder'[q] = responder[q] /\ callee[q] # a
    BY <1>3, <1>7
  <2> QED BY <1>2, <2>1 DEF ResponderInv, Found
<1>12. Carried'
  <2> SUFFICES ASSUME NEW q \in Requests, responder'[q] = "tag"
               PROVE  \E t \in Requests : Carries(t, q)'
    BY DEF Carried
  <2>1. responder[q] = "tag" /\ q \notin H
    BY <1>7
  <2>2. PICK t \in Requests : Carries(t, q)
    BY <2>1 DEF ResponderInv, Carried
  <2>3. CASE via[t] = "task"
    BY <1>1, <2>2, <2>3 DEF Carries
  <2>4. ASSUME NEW i \in DOMAIN hp[owner[t]], hp[owner[t]][i] = t
        PROVE  Carries(t, q)'
    <3>1. owner[t] # a
      BY <1>4, <2>1, <2>2, <2>4 DEF Carries
    <3> QED BY <1>1, <1>2, <2>2, <2>4, <3>1 DEF Carries
  <2> QED BY <2>2, <2>3, <2>4 DEF Carries
<1> QED BY <1>7, <1>8, <1>9, <1>10, <1>11, <1>12 DEF ResponderInv

\* A request is sent: it comes to the end of the mailbox of its callee, or is
\* refused.
LEMMA SendKeeps ==
  ASSUME ResponderInv, NEW q \in Requests, NEW b \in Actors, Send(q, b),
         rx[q] \in {"unsent", "starting"}, rx[q] = "starting" => callee[q] = b,
         callee' = [callee EXCEPT ![q] = b], UNCHANGED <<phase, hp, busy, tag>>,
         owner' \in [Requests -> Actors \cup {None}],
         via' \in [Requests -> {"none", "user", "await", "task", "reported"}],
         \A t \in Requests : via'[t] = "task" => callee'[t] \in Actors /\ owner'[t] \in Actors,
         \A t \in Requests : tag[t] # None => owner'[t] = owner[t] /\ via'[t] = via[t]
  PROVE  ResponderInv'
<1>1. responder[q] = "none"
  BY DEF ResponderInv, Fresh
<1>2. \A p \in Requests : p # q => rx'[p] = rx[p] /\ responder'[p] = responder[p] /\ callee'[p] = callee[p]
  BY DEF Send, ResponderInv, InteractionTypeOK
<1>3. /\ callee'[q] = b /\ tag'[q] = tag[q]
      /\ \/ rx'[q] = "waiting" /\ responder'[q] = "queued" /\ phase[b] # "over"
            /\ lp' = [lp EXCEPT ![b] = Append(@, q)]
         \/ rx'[q] = "Refused" /\ responder'[q] = "spent" /\ UNCHANGED lp
  BY DEF Send, ResponderInv, InteractionTypeOK
<1>4. rx' \in [Requests -> RxStates] /\ responder' \in [Requests -> Places]
  <2>1. rx \in [Requests -> RxStates] /\ responder \in [Requests -> Places]
    BY DEF ResponderInv, InteractionTypeOK
  <2> QED BY <2>1 DEF Send, RxStates, Places
<1>5. \A c \in Actors : \A i \in DOMAIN lp[c] :
        lp[c][i] \in Requests \ {q} /\ callee[lp[c][i]] = c /\ responder[lp[c][i]] = "queued"
  BY <1>1 DEF ResponderInv, InteractionTypeOK, InMailbox
<1>6. \A c \in Actors : \/ lp'[c] = lp[c]
                        \/ c = b /\ lp'[c] = Append(lp[c], q) /\ responder'[q] = "queued"
  BY <1>3 DEF ResponderInv, InteractionTypeOK
<1>7. lp' \in [Actors -> Seq(Requests)]
  <2>1. lp \in [Actors -> Seq(Requests)] /\ Append(lp[b], q) \in Seq(Requests)
    BY DEF ResponderInv, InteractionTypeOK
  <2> QED BY <1>3, <2>1
<1>8. callee' \in [Requests -> Actors \cup {None}]
  BY DEF ResponderInv, InteractionTypeOK
<1>9. InteractionTypeOK'
  BY <1>4, <1>7, <1>8 DEF ResponderInv, InteractionTypeOK
<1>10. Fresh'
  BY <1>2, <1>3 DEF ResponderInv, Fresh
<1>11. InMailbox'
  <2> SUFFICES ASSUME NEW c \in Actors
               PROVE  /\ \A i \in DOMAIN lp'[c] : callee'[lp'[c][i]] = c /\ responder'[lp'[c][i]] = "queued"
                      /\ \A i, j \in DOMAIN lp'[c] : lp'[c][i] = lp'[c][j] => i = j
    BY DEF InMailbox
  <2>1. \A i, j \in DOMAIN lp[c] : lp[c][i] = lp[c][j] => i = j
    BY DEF ResponderInv, InMailbox
  <2>2. CASE lp'[c] = lp[c]
    BY <1>2, <1>5, <2>1, <2>2
  <2>3. CASE c = b /\ lp'[c] = Append(lp[c], q) /\ responder'[q] = "queued"
    <3>1. /\ lp[c] \in Seq(Requests) /\ Len(lp[c]) \in Nat /\ DOMAIN lp[c] = 1 .. Len(lp[c])
          /\ DOMAIN lp'[c] = 1 .. Len(lp[c]) + 1 /\ lp'[c][Len(lp[c]) + 1] = q
          /\ \A i \in DOMAIN lp[c] : lp'[c][i] = lp[c][i]
      BY <2>3 DEF ResponderInv, InteractionTypeOK
    <3>2. \A i \in DOMAIN lp'[c] : i \in DOMAIN lp[c] \/ i = Len(lp[c]) + 1
      BY <3>1
    <3>3. \A i \in DOMAIN lp'[c] : callee'[lp'[c][i]] = c /\ responder'[lp'[c][i]] = "queued"
      BY <1>2, <1>3, <1>5, <2>3, <3>1, <3>2
    <3>4. \A i, j \in DOMAIN lp'[c] : lp'[c][i] = lp'[c][j] => i = j
      BY <1>5, <2>1, <3>1, <3>2
    <3> QED BY <3>3, <3>4
  <2> QED BY <1>6, <2>2, <2>3
<1>12. InHands'
  <2> SUFFICES ASSUME NEW c \in Actors, busy[c] # None
               PROVE  callee'[busy[c]] = c /\ responder'[busy[c]] = "handler"
    BY DEF InHands
  <2>1. busy[c] \in Requests /\ callee[busy[c]] = c /\ responder[busy[c]] = "handler"
    BY DEF ResponderInv, InteractionTypeOK, InHands
  <2> QED BY <1>1, <1>2, <2>1
<1>13. Found'
  <2> SUFFICES ASSUME NEW p \in Requests, responder'[p] \in {"queued", "handler", "kept"}
               PROVE  /\ callee'[p] \in Actors /\ phase[callee'[p]] # "over"
                      /\ responder'[p] = "queued" => \E i \in DOMAIN lp'[callee'[p]] : lp'[callee'[p]][i] = p
                      /\ responder'[p] = "handler" => busy[callee'[p]] = p
    BY DEF Found
  <2>1. CASE p = q
    <3>1. lp'[b] = Append(lp[b], q) /\ lp[b] \in Seq(Requests)
      BY <1>3, <2>1 DEF ResponderInv, InteractionTypeOK
    <3>2. Len(lp[b]) + 1 \in DOMAIN lp'[b] /\ lp'[b][Len(lp[b]) + 1] = q
      BY <3>1
    <3> QED BY <1>3, <2>1, <3>2
  <2>2. CASE p # q
    <3>1. /\ responder'[p] = responder[p] /\ callee'[p] = callee[p] /\ callee[p] \in Actors
          /\ phase[callee[p]] # "over"
          /\ responder[p] = "queued" => \E i \in DOMAIN lp[callee[p]] : lp[callee[p]][i] = p
          /\ responder[p] = "handler" => busy[callee[p]] = p
      BY <1>2, <2>2 DEF ResponderInv, Found
    <3>2. \A i \in DOMAIN lp[callee[p]] : i \in DOMAIN lp'[callee[p]] /\ lp'[callee[p]][i] = lp[callee[p]][i]
      <4>1. lp[callee[p]] \in Seq(Requests)
        BY <3>1 DEF ResponderInv, InteractionTypeOK
      <4>2. \A i \in DOMAIN lp[callee[p]] :
              i \in DOMAIN Append(lp[callee[p]], q) /\ Append(lp[callee[p]], q)[i] = lp[callee[p]][i]
        BY <4>1
      <4> QED BY <1>6, <3>1, <4>2
    <3> QED BY <3>1, <3>2
  <2> QED BY <2>1, <2>2
<1>14. Carried'
  <2> SUFFICES ASSUME NEW p \in Requests, responder'[p] = "tag"
               PROVE  \E t \in Requests : Carries(t, p)'
    BY DEF Carried
  <2>1. PICK t \in Requests : Carries(t, p)
    BY <1>2, <1>3 DEF ResponderInv, Carried
  <2>2. owner'[t] = owner[t] /\ via'[t] = via[t]
    BY <2>1, NoneApart DEF Carries
  <2> QED BY <2>1, <2>2 DEF Carries
<1>15. OneCarrier'
  <2> SUFFICES ASSUME NEW t \in Requests, tag[t] # None
               PROVE  responder'[tag[t]] \in {"tag", "spent"}
    BY DEF ResponderInv, OneCarrier
  <2>1. tag[t] \in Requests /\ responder[tag[t]] \in {"tag", "spent"}
    BY DEF ResponderInv, InteractionTypeOK, OneCarrier
  <2> QED BY <1>1, <1>2, <2>1
<1>16. Settled'
  BY <1>2, <1>3 DEF ResponderInv, Settled
<1>17. ForwardedFaithfully'
  <2> SUFFICES ASSUME NEW t \in Requests, tag[t] # None, rx'[tag[t]] = "Ok"
               PROVE  rx'[t] = "Ok"
    BY DEF ForwardedFaithfully
  <2>1. tag[t] \in Requests
    BY DEF ResponderInv, InteractionTypeOK
  <2>2. rx[tag[t]] = "Ok" /\ rx[t] = "Ok"
    BY <1>2, <1>3, <2>1 DEF ResponderInv, ForwardedFaithfully
  <2> QED BY <1>2, <2>2
<1> QED BY <1>9, <1>10, <1>11, <1>12, <1>13, <1>14, <1>15, <1>16, <1>17 DEF ResponderInv

\* A request that is made by a user or awaited in a handler.
LEMMA AskKeeps ==
  ASSUME ResponderInv, NEW q \in Requests, NEW a \in Actors \cup {None}, NEW b \in Actors,
         NEW how \in {"user", "await"}, Ask(q, a, b, how, None), Send(q, b),
         UNCHANGED <<phase, hp, busy>>
  PROVE  ResponderInv'
<1>1. rx[q] = "unsent" /\ tag[q] = None
  BY DEF Ask, ResponderInv, Fresh
<1>2. tag' = tag /\ callee' = [callee EXCEPT ![q] = b]
  BY <1>1 DEF Ask, ResponderInv, InteractionTypeOK
<1>3. /\ owner' \in [Requests -> Actors \cup {None}]
      /\ via' \in [Requests -> {"none", "user", "await", "task", "reported"}]
  BY DEF Ask, ResponderInv, InteractionTypeOK
<1>4. \A t \in Requests : t # q => owner'[t] = owner[t] /\ via'[t] = via[t] /\ callee'[t] = callee[t]
  BY DEF Ask, ResponderInv, InteractionTypeOK
<1>5. via'[q] # "task"
  BY DEF Ask, ResponderInv, InteractionTypeOK
<1>6. \A t \in Requests : via'[t] = "task" => callee'[t] \in Actors /\ owner'[t] \in Actors
  BY <1>4, <1>5 DEF ResponderInv, InteractionTypeOK
<1>7. \A t \in Requests : tag[t] # None => owner'[t] = owner[t] /\ via'[t] = via[t]
  BY <1>1, <1>4
<1> QED BY <1>1, <1>2, <1>3, <1>6, <1>7, SendKeeps

\* The task of a tracked interaction sends its request.
LEMMA TaskSendsKeeps ==
  ASSUME ResponderInv, NEW q \in Requests, TaskSends(q)
  PROVE  ResponderInv'
<1>1. callee[q] \in Actors /\ rx[q] = "starting" /\ Send(q, callee[q])
  BY DEF TaskSends, ResponderInv, InteractionTypeOK
<1>2. UNCHANGED <<phase, hp, busy, callee, owner, via, tag>>
  BY DEF TaskSends, calls
<1>3. callee' = [callee EXCEPT ![q] = callee[q]]
  BY <1>2 DEF ResponderInv, InteractionTypeOK
<1>4. /\ owner' \in [Requests -> Actors \cup {None}]
      /\ via' \in [Requests -> {"none", "user", "await", "task", "reported"}]
      /\ \A t \in Requests : via'[t] = "task" => callee'[t] \in Actors /\ owner'[t] \in Actors
  BY <1>2 DEF ResponderInv, InteractionTypeOK
<1> QED BY <1>1, <1>2, <1>3, <1>4, SendKeeps

\* The tags of tasks stay where they are.
LEMMA CarriedKept ==
  ASSUME ResponderInv, UNCHANGED <<hp, owner, via, tag>>,
         \A p \in Requests : responder'[p] = "tag" => responder[p] = "tag"
  PROVE  Carried'
  BY DEF ResponderInv, Carried, Carries

\* A request goes from the mailbox into a handler.
LEMMA TakeKeeps ==
  ASSUME ResponderInv, NEW a \in Actors, Take(a)
  PROVE  ResponderInv'
<1> DEFINE q == Head(lp[a])
           rest == Tail(lp[a])
<1>1. /\ lp[a] \in Seq(Requests) /\ lp[a] # <<>> /\ Len(lp[a]) \in Nat \ {0}
      /\ DOMAIN lp[a] = 1 .. Len(lp[a]) /\ q = lp[a][1] /\ q \in Requests
      /\ DOMAIN rest = 1 .. Len(lp[a]) - 1 /\ rest \in Seq(Requests)
      /\ \A i \in DOMAIN rest : rest[i] = lp[a][i + 1]
  BY DEF Take, ResponderInv, InteractionTypeOK
<1>2. /\ UNCHANGED <<phase, hp, rx, callee, owner, via, tag>> /\ phase[a] # "over" /\ busy[a] = None
      /\ lp' = [lp EXCEPT ![a] = rest] /\ busy' = [busy EXCEPT ![a] = q]
      /\ responder' = [responder EXCEPT ![q] = "handler"]
  BY DEF Take, Free, calls
<1> HIDE DEF q, rest
<1>3. \A c \in Actors : /\ lp'[c] = IF c = a THEN rest ELSE lp[c]
                        /\ busy'[c] = IF c = a THEN q ELSE busy[c]
  BY <1>2 DEF ResponderInv, InteractionTypeOK
<1>4. \A p \in Requests : responder'[p] = IF p = q THEN "handler" ELSE responder[p]
  BY <1>2 DEF ResponderInv, InteractionTypeOK
<1>5. callee[q] = a /\ responder[q] = "queued"
  BY <1>1 DEF ResponderInv, InMailbox
<1>6. \A c \in Actors : \A i \in DOMAIN lp[c] :
        lp[c][i] \in Requests /\ callee[lp[c][i]] = c /\ responder[lp[c][i]] = "queued"
  BY DEF ResponderInv, InteractionTypeOK, InMailbox
<1>7. InteractionTypeOK'
  <2>1. lp' \in [Actors -> Seq(Requests)]
    BY <1>1, <1>2 DEF ResponderInv, InteractionTypeOK
  <2>2. busy' \in [Actors -> Requests \cup {None}] /\ responder' \in [Requests -> Places]
    BY <1>1, <1>2 DEF ResponderInv, InteractionTypeOK, Places
  <2> QED BY <1>2, <2>1, <2>2 DEF ResponderInv, InteractionTypeOK
<1>8. Fresh' /\ Settled'
  BY <1>2, <1>4, <1>5 DEF ResponderInv, Fresh, Settled
<1>9. InMailbox'
  <2>1. \A c \in Actors : c # a => \A i \in DOMAIN lp[c] : responder'[lp[c][i]] = "queued"
    BY <1>4, <1>5, <1>6
  <2>2. \A i, j \in DOMAIN lp[a] : lp[a][i] = lp[a][j] => i = j
    BY DEF ResponderInv, InMailbox
  <2>3. \A i \in DOMAIN rest :
          i + 1 \in DOMAIN lp[a] /\ rest[i] = lp[a][i + 1] /\ lp[a][i + 1] # q
    <3>1. \A i \in DOMAIN rest : i + 1 \in DOMAIN lp[a] /\ 1 \in DOMAIN lp[a] /\ i + 1 # 1
      BY <1>1
    <3> QED BY <1>1, <2>2, <3>1
  <2>4. \A i \in DOMAIN rest : callee[rest[i]] = a /\ responder'[rest[i]] = "queued"
    BY <1>4, <1>6, <2>3
  <2>5. \A i, j \in DOMAIN rest : rest[i] = rest[j] => i = j
    BY <1>1, <2>2, <2>3
  <2>6. \A c \in Actors : c # a => \A i, j \in DOMAIN lp[c] : lp[c][i] = lp[c][j] => i = j
    BY DEF ResponderInv, InMailbox
  <2>7. ASSUME NEW c \in Actors
        PROVE  /\ \A i \in DOMAIN lp'[c] : callee'[lp'[c][i]] = c /\ responder'[lp'[c][i]] = "queued"
               /\ \A i, j \in DOMAIN lp'[c] : lp'[c][i] = lp'[c][j] => i = j
    <3>1. CASE c = a
      BY <1>2, <1>3, <2>4, <2>5, <3>1
    <3>2. CASE c # a
      BY <1>2, <1>3, <1>6, <2>1, <2>6, <3>2
    <3> QED BY <3>1, <3>2
  <2> QED BY <2>7 DEF InMailbox
<1>10. InHands'
  <2>1. \A c \in Actors : c # a /\ busy[c] # None =>
          busy[c] \in Requests /\ callee[busy[c]] = c /\ responder[busy[c]] = "handler"
    BY DEF ResponderInv, InteractionTypeOK, InHands
  <2> QED BY <1>1, <1>2, <1>3, <1>4, <1>5, <2>1 DEF InHands
<1>11. Found'
  <2> SUFFICES ASSUME NEW p \in Requests, responder'[p] \in {"queued", "handler", "kept"}
               PROVE  /\ callee[p] \in Actors /\ phase[callee[p]] # "over"
                      /\ responder'[p] = "queued" => \E i \in DOMAIN lp'[callee[p]] : lp'[callee[p]][i] = p
                      /\ responder'[p] = "handler" => busy'[callee[p]] = p
    BY <1>2 DEF Found
  <2>1. CASE p = q
    BY <1>2, <1>3, <1>4, <1>5, <2>1
  <2>2. CASE p # q
    <3>1. /\ responder'[p] = responder[p] /\ callee[p] \in Actors /\ phase[callee[p]] # "over"
          /\ responder[p] = "queued" => \E i \in DOMAIN lp[callee[p]] : lp[callee[p]][i] = p
          /\ responder[p] = "handler" => busy[callee[p]] = p
      BY <1>4, <2>2 DEF ResponderInv, Found
    <3>2. responder[p] = "handler" => callee[p] # a
      BY <1>1, <1>2, <3>1, NoneApart
    <3>3. CASE callee[p] # a
      BY <1>3, <3>1, <3>3
    <3>4. CASE callee[p] = a /\ responder[p] = "queued"
      <4>1. PICK i \in DOMAIN lp[a] : lp[a][i] = p
        BY <3>1, <3>4
      <4>2. i - 1 \in DOMAIN rest /\ rest[i - 1] = p
        BY <1>1, <2>2, <4>1
      <4> QED BY <1>3, <3>1, <3>4, <4>2
    <3>5. CASE responder[p] = "kept"
      BY <3>1, <3>5
    <3> QED BY <3>1, <3>2, <3>3, <3>4, <3>5
  <2> QED BY <2>1, <2>2
<1>12. Carried'
  BY <1>2, <1>4, CarriedKept
<1>13. OneCarrier'
  <2> SUFFICES ASSUME NEW t \in Requests, tag[t] # None
               PROVE  responder'[tag[t]] \in {"tag", "spent"}
    BY <1>2 DEF ResponderInv, OneCarrier
  <2>1. tag[t] \in Requests /\ responder[tag[t]] \in {"tag", "spent"}
    BY DEF ResponderInv, InteractionTypeOK, OneCarrier
  <2> QED BY <1>4, <1>5, <2>1
<1>14. ForwardedFaithfully'
  BY <1>2 DEF ResponderInv, ForwardedFaithfully
<1> QED BY <1>7, <1>8, <1>9, <1>10, <1>11, <1>12, <1>13, <1>14 DEF ResponderInv

\* A handler is left without its responder, which was in its hands.
LEMMA HandOver ==
  ASSUME ResponderInv, NEW a \in Actors, InHandler(a), NEW place \in Places \ {"queued", "handler"},
         UNCHANGED <<phase, lp>>, busy' = [busy EXCEPT ![a] = None],
         \A p \in Requests : responder'[p] = IF p = busy[a] THEN place ELSE responder[p],
         \A p \in Requests : callee[p] # None => callee'[p] = callee[p]
  PROVE  /\ busy' \in [Actors -> Requests \cup {None}]
         /\ busy[a] \in Requests /\ callee[busy[a]] = a /\ responder[busy[a]] = "handler"
         /\ InMailbox' /\ InHands' /\ Found'
<1>1. busy[a] \in Requests /\ callee[busy[a]] = a /\ responder[busy[a]] = "handler" /\ phase[a] # "over"
  BY DEF ResponderInv, InteractionTypeOK, InHands, InHandler
<1>2. busy' \in [Actors -> Requests \cup {None}]
  BY DEF ResponderInv, InteractionTypeOK
<1>3. \A c \in Actors : busy'[c] = IF c = a THEN None ELSE busy[c]
  BY DEF ResponderInv, InteractionTypeOK
<1>4. InMailbox'
  <2>1. \A c \in Actors : \A i \in DOMAIN lp[c] :
          lp[c][i] \in Requests /\ callee[lp[c][i]] = c /\ responder[lp[c][i]] = "queued"
    BY DEF ResponderInv, InteractionTypeOK, InMailbox
  <2>2. \A c \in Actors : \A i \in DOMAIN lp[c] :
          callee'[lp[c][i]] = c /\ responder'[lp[c][i]] = "queued"
    BY <1>1, <2>1, NoneApart
  <2> QED BY <2>2 DEF ResponderInv, InMailbox
<1>5. InHands'
  <2> SUFFICES ASSUME NEW c \in Actors, c # a, busy[c] # None
               PROVE  callee'[busy[c]] = c /\ responder'[busy[c]] = "handler"
    BY <1>3 DEF InHands
  <2>1. busy[c] \in Requests /\ callee[busy[c]] = c /\ responder[busy[c]] = "handler"
    BY DEF ResponderInv, InteractionTypeOK, InHands
  <2> QED BY <1>1, <2>1, NoneApart
<1>6. Found'
  <2> SUFFICES ASSUME NEW p \in Requests, responder'[p] \in {"queued", "handler", "kept"}
               PROVE  /\ callee'[p] \in Actors /\ phase[callee'[p]] # "over"
                      /\ responder'[p] = "queued" => \E i \in DOMAIN lp[callee'[p]] : lp[callee'[p]][i] = p
                      /\ responder'[p] = "handler" => busy'[callee'[p]] = p
    BY DEF Found
  <2>1. CASE p = busy[a]
    BY <1>1, <2>1, NoneApart
  <2>2. CASE p # busy[a]
    <3>1. /\ responder'[p] = responder[p] /\ callee[p] \in Actors /\ phase[callee[p]] # "over"
          /\ responder[p] = "queued" => \E i \in DOMAIN lp[callee[p]] : lp[callee[p]][i] = p
          /\ responder[p] = "handler" => busy[callee[p]] = p
      BY <2>2 DEF ResponderInv, Found
    <3>2. callee'[p] = callee[p]
      BY <3>1, NoneApart
    <3>3. responder[p] = "handler" => callee[p] # a
      BY <2>2, <3>1
    <3> QED BY <1>3, <3>1, <3>2, <3>3
  <2> QED BY <2>1, <2>2
<1> QED BY <1>1, <1>2, <1>4, <1>5, <1>6

\* The handler answers.
LEMMA AnswerKeeps ==
  ASSUME ResponderInv, NEW a \in Actors, Answer(a)
  PROVE  ResponderInv'
<1>1. /\ InHandler(a) /\ busy' = [busy EXCEPT ![a] = None]
      /\ UNCHANGED <<phase, lp, hp, callee, owner, via, tag>>
  BY DEF Answer, calls
<1>2. PICK result \in Results : Resolve(busy[a], result, {})
  BY DEF Answer, Results
<1>3. busy[a] \in Requests /\ responder[busy[a]] = "handler"
  BY <1>1 DEF ResponderInv, InteractionTypeOK, InHands, InHandler
<1>4. \A t \in Requests : tag[t] # busy[a]
  BY <1>3, NoneApart DEF ResponderInv, OneCarrier
<1>5. /\ rx' \in [Requests -> RxStates] /\ responder' \in [Requests -> Places]
      /\ \A q \in Requests :
           /\ (q = busy[a] \/ q \in {}) => responder'[q] = "spent"
           /\ ~(q = busy[a] \/ q \in {}) => responder'[q] = responder[q]
      /\ Fresh' /\ OneCarrier' /\ Settled' /\ ForwardedFaithfully'
  BY <1>1, <1>2, <1>3, <1>4, ResolveKeeps
<1>6. "spent" \in Places \ {"queued", "handler"}
  BY DEF Places
<1>7. busy' \in [Actors -> Requests \cup {None}] /\ InMailbox' /\ InHands' /\ Found'
  BY <1>1, <1>5, <1>6, HandOver
<1>8. Carried'
  BY <1>1, <1>5, CarriedKept
<1>9. InteractionTypeOK'
  BY <1>1, <1>5, <1>7 DEF ResponderInv, InteractionTypeOK
<1> QED BY <1>5, <1>7, <1>8, <1>9 DEF ResponderInv

\* The handler keeps the responder.
LEMMA KeepKeeps ==
  ASSUME ResponderInv, NEW a \in Actors, Keep(a)
  PROVE  ResponderInv'
<1>1. /\ InHandler(a) /\ busy' = [busy EXCEPT ![a] = None]
      /\ responder' = [responder EXCEPT ![busy[a]] = "kept"]
      /\ UNCHANGED <<phase, lp, hp, rx, callee, owner, via, tag>>
  BY DEF Keep, calls
<1>2. "kept" \in Places \ {"queued", "handler"}
  BY DEF Places
<1>3. \A p \in Requests : responder'[p] = IF p = busy[a] THEN "kept" ELSE responder[p]
  BY <1>1 DEF ResponderInv, InteractionTypeOK
<1>4. /\ busy' \in [Actors -> Requests \cup {None}]
      /\ busy[a] \in Requests /\ responder[busy[a]] = "handler"
      /\ InMailbox' /\ InHands' /\ Found'
  BY <1>1, <1>2, <1>3, HandOver
<1>5. responder' \in [Requests -> Places]
  BY <1>1, <1>2 DEF ResponderInv, InteractionTypeOK
<1>6. InteractionTypeOK'
  BY <1>1, <1>4, <1>5 DEF ResponderInv, InteractionTypeOK
<1>7. Carried'
  BY <1>1, <1>3, CarriedKept
<1>8. Fresh' /\ Settled'
  BY <1>1, <1>3, <1>4 DEF ResponderInv, Fresh, Settled
<1>9. OneCarrier'
  <2> SUFFICES ASSUME NEW t \in Requests, tag[t] # None
               PROVE  responder'[tag[t]] \in {"tag", "spent"}
    BY <1>1 DEF ResponderInv, OneCarrier
  <2>1. tag[t] \in Requests /\ responder[tag[t]] \in {"tag", "spent"}
    BY DEF ResponderInv, InteractionTypeOK, OneCarrier
  <2> QED BY <1>3, <1>4, <2>1
<1>10. ForwardedFaithfully'
  BY <1>1 DEF ResponderInv, ForwardedFaithfully
<1> QED BY <1>4, <1>6, <1>7, <1>8, <1>9, <1>10 DEF ResponderInv

\* A responder that no mailbox and no handler has is used or dropped.
LEMMA SpendKeeps ==
  ASSUME ResponderInv, NEW s, NEW result, NEW S, Resolve(s, result, S),
         s \in Requests => result \in Results,
         \A q \in Requests : q = s \/ q \in S => responder[q] \in {"kept", "tag", "spent"},
         \A t \in Requests : s \in Requests /\ tag[t] = s /\ result = "Ok" => rx[t] = "Ok",
         UNCHANGED <<phase, lp, busy, callee, tag>>
  PROVE  /\ rx' \in [Requests -> RxStates] /\ responder' \in [Requests -> Places]
         /\ \A q \in Requests :
              /\ (q = s \/ q \in S) => responder'[q] = "spent"
              /\ ~(q = s \/ q \in S) => responder'[q] = responder[q]
         /\ Fresh' /\ InMailbox' /\ InHands' /\ Found' /\ OneCarrier' /\ Settled'
         /\ ForwardedFaithfully'
<1>1. /\ rx' \in [Requests -> RxStates] /\ responder' \in [Requests -> Places]
      /\ \A q \in Requests :
           /\ (q = s \/ q \in S) => responder'[q] = "spent"
           /\ ~(q = s \/ q \in S) => responder'[q] = responder[q]
      /\ Fresh' /\ OneCarrier' /\ Settled' /\ ForwardedFaithfully'
  <2>1. \A q \in Requests : q = s \/ q \in S => responder[q] # "none"
    OBVIOUS
  <2> QED BY <2>1, ResolveKeeps
<1>2. \A q \in Requests : responder[q] \in {"queued", "handler"} => responder'[q] = responder[q]
  BY <1>1
<1>3. \A q \in Requests : responder'[q] # "spent" => responder'[q] = responder[q]
  BY <1>1
<1>4. InMailbox'
  <2>1. \A c \in Actors : \A i \in DOMAIN lp[c] : lp[c][i] \in Requests /\ responder[lp[c][i]] = "queued"
    BY DEF ResponderInv, InteractionTypeOK, InMailbox
  <2>2. \A c \in Actors : \A i \in DOMAIN lp[c] : responder'[lp[c][i]] = "queued"
    BY <1>2, <2>1
  <2> QED BY <2>2 DEF ResponderInv, InMailbox
<1>5. InHands'
  <2>1. \A c \in Actors : busy[c] # None => busy[c] \in Requests /\ responder[busy[c]] = "handler"
    BY DEF ResponderInv, InteractionTypeOK, InHands
  <2> QED BY <1>2, <2>1 DEF ResponderInv, InHands
<1>6. Found'
  BY <1>3 DEF ResponderInv, Found
<1> QED BY <1>1, <1>4, <1>5, <1>6

\* A kept responder is used.
LEMMA AnswerKeptKeeps ==
  ASSUME ResponderInv, NEW a \in Actors, NEW q \in Requests, AnswerKept(a, q)
  PROVE  ResponderInv'
<1>1. responder[q] = "kept" /\ UNCHANGED <<phase, lp, hp, busy, callee, owner, via, tag>>
  BY DEF AnswerKept, calls
<1>2. PICK result \in Results : Resolve(q, result, {})
  BY DEF AnswerKept, Results
<1>3. \A t \in Requests : tag[t] # q
  BY <1>1, NoneApart DEF ResponderInv, OneCarrier
<1>4. /\ rx' \in [Requests -> RxStates] /\ responder' \in [Requests -> Places]
      /\ \A p \in Requests :
           /\ (p = q \/ p \in {}) => responder'[p] = "spent"
           /\ ~(p = q \/ p \in {}) => responder'[p] = responder[p]
      /\ Fresh' /\ InMailbox' /\ InHands' /\ Found' /\ OneCarrier' /\ Settled'
      /\ ForwardedFaithfully'
  <2>1. \A p \in Requests : p = q \/ p \in {} => responder[p] \in {"kept", "tag", "spent"}
    BY <1>1
  <2> QED BY <1>1, <1>2, <1>3, <2>1, SpendKeeps
<1>5. Carried'
  BY <1>1, <1>4, CarriedKept
<1>6. InteractionTypeOK'
  BY <1>1, <1>4 DEF ResponderInv, InteractionTypeOK
<1> QED BY <1>4, <1>5, <1>6 DEF ResponderInv

\* The handler passes the question on, with the responder as the tag.
LEMMA ForwardKeeps ==
  ASSUME ResponderInv, NEW a \in Actors, NEW q \in Requests, NEW b \in Actors, Forward(a, q, b)
  PROVE  ResponderInv'
<1> DEFINE x == busy[a]
<1>1. /\ InHandler(a) /\ rx[q] = "unsent" /\ UNCHANGED <<phase, lp, hp>>
      /\ callee' = [callee EXCEPT ![q] = b] /\ owner' = [owner EXCEPT ![q] = a]
      /\ via' = [via EXCEPT ![q] = "task"] /\ tag' = [tag EXCEPT ![q] = x]
      /\ rx' = [rx EXCEPT ![q] = "starting"] /\ responder' = [responder EXCEPT ![x] = "tag"]
      /\ busy' = [busy EXCEPT ![a] = None]
  BY DEF Forward, Ask
<1>2. tag[q] = None /\ callee[q] = None /\ responder[q] = "none"
  BY <1>1 DEF ResponderInv, Fresh
<1>3. /\ x \in Requests /\ responder[x] = "handler"
      /\ \A p \in Requests : responder'[p] = IF p = x THEN "tag" ELSE responder[p]
  BY <1>1 DEF ResponderInv, InteractionTypeOK, InHandler, InHands
<1>4. \A p \in Requests : p # q => /\ callee'[p] = callee[p] /\ owner'[p] = owner[p]
                                   /\ via'[p] = via[p] /\ tag'[p] = tag[p] /\ rx'[p] = rx[p]
  BY <1>1 DEF ResponderInv, InteractionTypeOK
<1>5. callee'[q] = b /\ owner'[q] = a /\ via'[q] = "task" /\ tag'[q] = x /\ rx'[q] = "starting"
  BY <1>1 DEF ResponderInv, InteractionTypeOK
<1>6. busy' \in [Actors -> Requests \cup {None}] /\ InMailbox' /\ InHands' /\ Found'
  <2>1. "tag" \in Places \ {"queued", "handler"}
    BY DEF Places
  <2>2. \A p \in Requests : callee[p] # None => callee'[p] = callee[p]
    BY <1>2, <1>4
  <2> QED BY <1>1, <1>3, <2>1, <2>2, HandOver
<1>7. rx[x] # "Ok"
  BY <1>3 DEF ResponderInv, Settled
<1>8. \A t \in Requests : tag[t] # x
  BY <1>3, NoneApart DEF ResponderInv, OneCarrier
<1>9. InteractionTypeOK'
  <2>1. /\ rx' \in [Requests -> RxStates] /\ responder' \in [Requests -> Places]
        /\ tag' \in [Requests -> Requests \cup {None}]
    BY <1>1, <1>3 DEF ResponderInv, InteractionTypeOK, RxStates, Places
  <2>2. /\ callee' \in [Requests -> Actors \cup {None}] /\ owner' \in [Requests -> Actors \cup {None}]
        /\ via' \in [Requests -> {"none", "user", "await", "task", "reported"}]
    BY <1>1 DEF ResponderInv, InteractionTypeOK
  <2>3. \A t \in Requests : via'[t] = "task" => callee'[t] \in Actors /\ owner'[t] \in Actors
    BY <1>4, <1>5 DEF ResponderInv, InteractionTypeOK
  <2> QED BY <1>1, <1>6, <2>1, <2>2, <2>3 DEF ResponderInv, InteractionTypeOK
<1> HIDE DEF x
<1>10. Fresh'
  BY <1>2, <1>3, <1>4, <1>5 DEF ResponderInv, Fresh
<1>11. Carried'
  <2> SUFFICES ASSUME NEW p \in Requests, responder'[p] = "tag"
               PROVE  \E t \in Requests : Carries(t, p)'
    BY DEF Carried
  <2>1. CASE p = x
    BY <1>5, <2>1 DEF Carries
  <2>2. CASE p # x
    <3>1. PICK t \in Requests : Carries(t, p)
      BY <1>3, <2>2 DEF ResponderInv, Carried
    <3>2. t # q
      BY <1>2, <3>1, NoneApart DEF Carries
    <3>3. owner'[t] = owner[t] /\ via'[t] = via[t] /\ tag'[t] = tag[t] /\ hp' = hp
      BY <1>1, <1>4, <3>2
    <3>4. Carries(t, p)'
      BY <3>1, <3>3 DEF Carries
    <3> QED BY <3>4
  <2> QED BY <2>1, <2>2
<1>12. OneCarrier'
  <2> SUFFICES ASSUME NEW t \in Requests, tag'[t] # None
               PROVE  /\ responder'[tag'[t]] \in {"tag", "spent"}
                      /\ \A u \in Requests : tag'[u] = tag'[t] => u = t
    BY DEF OneCarrier
  <2>1. CASE t = q
    BY <1>3, <1>4, <1>5, <1>8, <2>1
  <2>2. CASE t # q
    <3>1. /\ tag'[t] = tag[t] /\ tag[t] \in Requests /\ responder[tag[t]] \in {"tag", "spent"}
          /\ \A u \in Requests : tag[u] = tag[t] => u = t
      BY <1>4, <2>2 DEF ResponderInv, InteractionTypeOK, OneCarrier
    <3> QED BY <1>3, <1>4, <1>5, <1>8, <3>1
  <2> QED BY <2>1, <2>2
<1>13. Settled'
  BY <1>2, <1>3, <1>4, <1>5 DEF ResponderInv, Settled
<1>14. ForwardedFaithfully'
  <2> SUFFICES ASSUME NEW t \in Requests, tag'[t] # None, rx'[tag'[t]] = "Ok"
               PROVE  rx'[t] = "Ok"
    BY DEF ForwardedFaithfully
  <2>1. x # q
    BY <1>2, <1>3
  <2>2. t # q
    BY <1>3, <1>4, <1>5, <1>7, <2>1
  <2>3. tag'[t] = tag[t] /\ tag[t] \in Requests
    BY <1>4, <2>2 DEF ResponderInv, InteractionTypeOK
  <2>4. rx[tag[t]] = "Ok"
    BY <1>4, <1>5, <2>3
  <2> QED BY <1>4, <2>2, <2>3, <2>4 DEF ResponderInv, ForwardedFaithfully
<1> QED BY <1>6, <1>9, <1>10, <1>11, <1>12, <1>13, <1>14 DEF ResponderInv

\* The task is interrupted; the tag is still in it.
LEMMA TaskStoppedKeeps ==
  ASSUME ResponderInv, NEW q \in Requests, TaskStopped(q)
  PROVE  ResponderInv'
<1>1. /\ rx[q] \in {"starting", "waiting"} /\ rx' = [rx EXCEPT ![q] = "Interrupted"]
      /\ UNCHANGED <<phase, lp, hp, busy, responder, callee, owner, via, tag>>
  BY DEF TaskStopped, calls
<1>2. rx'[q] = "Interrupted" /\ \A p \in Requests : p # q => rx'[p] = rx[p]
  BY <1>1 DEF ResponderInv, InteractionTypeOK
<1>3. rx' \in [Requests -> RxStates]
  BY <1>1 DEF ResponderInv, InteractionTypeOK, RxStates
<1>4. InteractionTypeOK'
  BY <1>1, <1>3 DEF ResponderInv, InteractionTypeOK
<1>5. Fresh' /\ Settled'
  BY <1>1, <1>2 DEF ResponderInv, Fresh, Settled
<1>6. InMailbox' /\ InHands' /\ Found'
  BY <1>1 DEF ResponderInv, InMailbox, InHands, Found
<1>7. Carried' /\ OneCarrier'
  BY <1>1 DEF ResponderInv, Carried, Carries, OneCarrier
<1>8. ForwardedFaithfully'
  <2> SUFFICES ASSUME NEW t \in Requests, tag[t] # None, rx'[tag[t]] = "Ok"
               PROVE  rx'[t] = "Ok"
    BY <1>1 DEF ForwardedFaithfully
  <2>1. tag[t] \in Requests
    BY DEF ResponderInv, InteractionTypeOK
  <2>2. rx[tag[t]] = "Ok" /\ rx[t] = "Ok"
    BY <1>2, <2>1 DEF ResponderInv, ForwardedFaithfully
  <2> QED BY <1>1, <1>2, <2>2
<1> QED BY <1>4, <1>5, <1>6, <1>7, <1>8 DEF ResponderInv

\* The task reports: its notice takes the tag to the owner, or is dropped with it.
LEMMA TaskReportsKeeps ==
  ASSUME ResponderInv, NEW q \in Requests, TaskReports(q)
  PROVE  ResponderInv'
<1>1. /\ via[q] = "task" /\ via' = [via EXCEPT ![q] = "reported"]
      /\ UNCHANGED <<phase, lp, busy, callee, owner, tag>>
  BY DEF TaskReports, Finished
<1>2. owner[q] \in Actors
  BY <1>1 DEF ResponderInv, InteractionTypeOK
<1>3. \A p \in Requests : p # q => via'[p] = via[p]
  BY <1>1 DEF ResponderInv, InteractionTypeOK
<1>4. /\ via' \in [Requests -> {"none", "user", "await", "task", "reported"}]
      /\ \A t \in Requests : via'[t] = "task" => callee[t] \in Actors /\ owner[t] \in Actors
  <2>1. via' \in [Requests -> {"none", "user", "await", "task", "reported"}] /\ via'[q] # "task"
    BY <1>1 DEF ResponderInv, InteractionTypeOK
  <2> QED BY <1>3, <2>1 DEF ResponderInv, InteractionTypeOK
<1>5. CASE hp' = [hp EXCEPT ![owner[q]] = Append(@, q)] /\ UNCHANGED <<rx, responder>>
  <2> DEFINE c == owner[q]
  <2>1. /\ hp \in [Actors -> Seq(Requests)] /\ Append(hp[c], q) \in Seq(Requests)
        /\ Len(hp[c]) + 1 \in DOMAIN Append(hp[c], q) /\ Append(hp[c], q)[Len(hp[c]) + 1] = q
        /\ \A i \in DOMAIN hp[c] : i \in DOMAIN Append(hp[c], q) /\ Append(hp[c], q)[i] = hp[c][i]
    BY <1>2 DEF ResponderInv, InteractionTypeOK
  <2>2. \A d \in Actors : hp'[d] = IF d = c THEN Append(hp[c], q) ELSE hp[d]
    BY <1>2, <1>5, <2>1
  <2>3. hp' \in [Actors -> Seq(Requests)]
    BY <1>2, <1>5, <2>1
  <2>4. InteractionTypeOK'
    BY <1>1, <1>4, <1>5, <2>3 DEF ResponderInv, InteractionTypeOK
  <2>5. Carried'
    <3> SUFFICES ASSUME NEW p \in Requests, responder[p] = "tag"
                 PROVE  \E t \in Requests : Carries(t, p)'
      BY <1>5 DEF Carried
    <3>1. PICK t \in Requests : Carries(t, p)
      BY DEF ResponderInv, Carried
    <3>2. CASE t = q
      <4>1. \E i \in DOMAIN hp'[owner[t]] : hp'[owner[t]][i] = t
        BY <1>2, <2>1, <2>2, <3>2
      <4> QED BY <1>1, <3>1, <4>1 DEF Carries
    <3>3. CASE t # q
      <4>1. \A i \in DOMAIN hp[owner[t]] : i \in DOMAIN hp'[owner[t]] /\ hp'[owner[t]][i] = hp[owner[t]][i]
        BY <2>1, <2>2, <3>1 DEF Carries
      <4> QED BY <1>1, <1>3, <3>1, <3>3, <4>1 DEF Carries
    <3> QED BY <3>2, <3>3
  <2>6. Fresh' /\ InMailbox' /\ InHands' /\ Found'
    BY <1>1, <1>5 DEF ResponderInv, Fresh, InMailbox, InHands, Found
  <2>7. OneCarrier' /\ Settled' /\ ForwardedFaithfully'
    BY <1>1, <1>5 DEF ResponderInv, OneCarrier, Settled, ForwardedFaithfully
  <2> QED BY <2>4, <2>5, <2>6, <2>7 DEF ResponderInv
<1>6. CASE Resolve(None, "none", {tag[q]}) /\ UNCHANGED hp
  <2>1. \A p \in Requests : p = None \/ p \in {tag[q]} => responder[p] \in {"kept", "tag", "spent"}
    BY NoneApart DEF ResponderInv, OneCarrier
  <2>2. /\ rx' \in [Requests -> RxStates] /\ responder' \in [Requests -> Places]
        /\ \A p \in Requests :
             /\ (p = None \/ p \in {tag[q]}) => responder'[p] = "spent"
             /\ ~(p = None \/ p \in {tag[q]}) => responder'[p] = responder[p]
        /\ Fresh' /\ InMailbox' /\ InHands' /\ Found' /\ OneCarrier' /\ Settled'
        /\ ForwardedFaithfully'
    BY <1>1, <1>6, <2>1, NoneApart, SpendKeeps
  <2>3. InteractionTypeOK'
    BY <1>1, <1>4, <1>6, <2>2 DEF ResponderInv, InteractionTypeOK
  <2>4. Carried'
    <3> SUFFICES ASSUME NEW p \in Requests, responder'[p] = "tag"
                 PROVE  \E t \in Requests : Carries(t, p)'
      BY DEF Carried
    <3>1. p # tag[q] /\ responder[p] = "tag"
      BY <2>2
    <3>2. PICK t \in Requests : Carries(t, p)
      BY <3>1 DEF ResponderInv, Carried
    <3>3. t # q
      BY <3>1, <3>2 DEF Carries
    <3> QED BY <1>1, <1>3, <1>6, <3>2, <3>3 DEF Carries
  <2> QED BY <2>2, <2>3, <2>4 DEF ResponderInv
<1> QED BY <1>5, <1>6 DEF TaskReports

\* The owner takes the notice, and passes the answer on.
LEMMA HandleDoneKeeps ==
  ASSUME ResponderInv, NEW a \in Actors, HandleDone(a)
  PROVE  ResponderInv'
<1> DEFINE q == Head(hp[a])
           rest == Tail(hp[a])
<1>1. /\ hp[a] # <<>> /\ hp[a] \in Seq(Requests) /\ hp \in [Actors -> Seq(Requests)]
      /\ UNCHANGED <<callee, owner, via, tag>> /\ UNCHANGED calls
  BY DEF HandleDone, ResponderInv, InteractionTypeOK, calls
<1>2. /\ q \in Requests /\ rest \in Seq(Requests)
      /\ \A i \in DOMAIN hp[a] : hp[a][i] # q => i - 1 \in DOMAIN rest /\ rest[i - 1] = hp[a][i]
  BY <1>1
<1>3. \E result \in DoneResults(q) :
        \/ Ends(a) /\ Resolve(tag[q], result, HeldResponders(a))
        \/ /\ hp' = [hp EXCEPT ![a] = rest] /\ Resolve(tag[q], result, {})
           /\ UNCHANGED <<phase, lp, busy>>
  BY DEF HandleDone
<1> HIDE DEF q, rest
<1>4. PICK result \in DoneResults(q) :
        \/ Ends(a) /\ Resolve(tag[q], result, HeldResponders(a))
        \/ /\ hp' = [hp EXCEPT ![a] = rest] /\ Resolve(tag[q], result, {})
           /\ UNCHANGED <<phase, lp, busy>>
  BY <1>3
<1>5. result \in Results /\ (result = "Ok" => rx[q] = "Ok")
  BY DEF DoneResults, Results
<1>6. tag[q] \in Requests => responder[tag[q]] \in {"tag", "spent"}
  BY <1>2, NoneApart DEF ResponderInv, OneCarrier
<1>7. \A t \in Requests : tag[q] \in Requests /\ tag[t] = tag[q] /\ result = "Ok" => rx[t] = "Ok"
  BY <1>2, <1>5, NoneApart DEF ResponderInv, OneCarrier
<1>8. CASE Ends(a) /\ Resolve(tag[q], result, HeldResponders(a))
  BY <1>1, <1>5, <1>6, <1>7, <1>8, EndsKeeps
<1>9. CASE /\ hp' = [hp EXCEPT ![a] = rest] /\ Resolve(tag[q], result, {})
           /\ UNCHANGED <<phase, lp, busy>>
  <2>1. \A p \in Requests : p = tag[q] \/ p \in {} => responder[p] \in {"kept", "tag", "spent"}
    BY <1>6
  <2>2. /\ rx' \in [Requests -> RxStates] /\ responder' \in [Requests -> Places]
        /\ \A p \in Requests :
             /\ (p = tag[q] \/ p \in {}) => responder'[p] = "spent"
             /\ ~(p = tag[q] \/ p \in {}) => responder'[p] = responder[p]
        /\ Fresh' /\ InMailbox' /\ InHands' /\ Found' /\ OneCarrier' /\ Settled'
        /\ ForwardedFaithfully'
    BY <1>1, <1>5, <1>7, <1>9, <2>1, SpendKeeps
  <2>3. hp' \in [Actors -> Seq(Requests)] /\ \A c \in Actors : hp'[c] = IF c = a THEN rest ELSE hp[c]
    BY <1>1, <1>2, <1>9
  <2>4. InteractionTypeOK'
    BY <1>1, <1>9, <2>2, <2>3 DEF ResponderInv, InteractionTypeOK
  <2>5. Carried'
    <3> SUFFICES ASSUME NEW p \in Requests, responder'[p] = "tag"
                 PROVE  \E t \in Requests : Carries(t, p)'
      BY DEF Carried
    <3>1. p # tag[q] /\ responder[p] = "tag"
      BY <2>2
    <3>2. PICK t \in Requests : Carries(t, p)
      BY <3>1 DEF ResponderInv, Carried
    <3>3. t # q
      BY <3>1, <3>2 DEF Carries
    <3>4. \A i \in DOMAIN hp[owner[t]] : hp[owner[t]][i] = t =>
            \E j \in DOMAIN hp'[owner[t]] : hp'[owner[t]][j] = t
      BY <1>2, <2>3, <3>2, <3>3 DEF Carries
    <3> QED BY <1>1, <3>2, <3>4 DEF Carries
  <2> QED BY <2>2, <2>4, <2>5 DEF ResponderInv
<1> QED BY <1>4, <1>8, <1>9

\* stop(), a panic, and a shutdown.
LEMMA LeavingKeeps ==
  ASSUME ResponderInv, NEW a \in Actors, Stop(a) \/ Shutdown(a)
  PROVE  ResponderInv'
<1>1. CASE Ends(a) /\ Resolve(None, "none", HeldResponders(a)) /\ UNCHANGED calls
  BY <1>1, NoneApart, EndsKeeps
<1>2. CASE /\ phase[a] = "running" /\ phase' = [phase EXCEPT ![a] = "terminating"]
           /\ UNCHANGED <<lp, hp, busy, rx, responder, calls>>
  <2>1. UNCHANGED <<lp, hp, busy, rx, responder, callee, owner, via, tag>>
    BY <1>2 DEF calls
  <2>2. \A c \in Actors : phase'[c] = IF c = a THEN "terminating" ELSE phase[c]
    BY <1>2 DEF ResponderInv, InteractionTypeOK
  <2>3. InteractionTypeOK'
    BY <1>2, <2>1 DEF ResponderInv, InteractionTypeOK
  <2>4. Found'
    BY <2>1, <2>2 DEF ResponderInv, Found
  <2>5. Fresh' /\ InMailbox' /\ InHands' /\ Carried'
    BY <2>1 DEF ResponderInv, Fresh, InMailbox, InHands, Carried, Carries
  <2>6. OneCarrier' /\ Settled' /\ ForwardedFaithfully'
    BY <2>1 DEF ResponderInv, OneCarrier, Settled, ForwardedFaithfully
  <2> QED BY <2>3, <2>4, <2>5, <2>6 DEF ResponderInv
<1> QED BY <1>1, <1>2 DEF Stop, Shutdown

\* Every step keeps the invariant.
LEMMA ResponderStep ==
  ASSUME ResponderInv, [Next]_vars
  PROVE  ResponderInv'
<1>1. ASSUME NEW q \in Requests, NEW b \in Actors, UserAsks(q, b)
      PROVE  ResponderInv'
  BY <1>1, AskKeeps DEF UserAsks
<1>2. ASSUME NEW a \in Actors, NEW q \in Requests, NEW b \in Actors, AwaitInline(a, q, b)
      PROVE  ResponderInv'
  BY <1>2, AskKeeps DEF AwaitInline
<1>3. ASSUME NEW a \in Actors, AwaitReturns(a)
      PROVE  ResponderInv'
  BY <1>3, ResponderAside DEF AwaitReturns
<1>4. CASE DistributorStep
  BY <1>4, ResponderAside DEF DistributorStep, act_all, ActEnds, insert, remove, ActNext
<1>5. CASE UNCHANGED vars
  BY <1>5, ResponderAside DEF vars
<1> QED BY <1>1, <1>2, <1>3, <1>4, <1>5, TakeKeeps, AnswerKeeps, KeepKeeps, AnswerKeptKeeps,
           ForwardKeeps, TaskSendsKeeps, TaskStoppedKeeps, TaskReportsKeeps, HandleDoneKeeps,
           LeavingKeeps
      DEF Next, CallStep, RuntimeStep, KeptStep, TaskStep

\* Nothing has been asked yet.
LEMMA ResponderInit == Init => ResponderInv
<1> SUFFICES ASSUME Init PROVE ResponderInv
  OBVIOUS
<1>1. InteractionTypeOK
  BY DEF Init, InteractionTypeOK, RxStates, Places
<1>2. Fresh /\ Carried /\ OneCarrier /\ Settled /\ ForwardedFaithfully
  BY DEF Init, Fresh, Carried, OneCarrier, Settled, ForwardedFaithfully
<1>3. InMailbox /\ InHands /\ Found
  BY DEF Init, InMailbox, InHands, Found
<1> QED BY <1>1, <1>2, <1>3 DEF ResponderInv

\* Nobody waits for an answer that cannot come: as long as recv() waits, the
\* responder is in a mailbox, a handler, an actor, a task or a notice, through
\* every stop, panic, shutdown and forward of any chain of actors.
THEOREM WhoeverWaitsCanBeAnswered == Spec => []WaitingHasResponder
<1>1. ResponderInv /\ [Next]_vars => ResponderInv'
  BY ResponderStep
<1>2. ResponderInv => WaitingHasResponder
  <2> SUFFICES ASSUME ResponderInv, NEW q \in Requests, rx[q] = "waiting"
               PROVE  HasResponder(q)
    BY DEF WaitingHasResponder
  <2>1. responder[q] \in {"queued", "handler", "kept", "tag"}
    BY DEF ResponderInv, Settled
  <2>2. CASE responder[q] = "tag"
    BY <2>2 DEF ResponderInv, Carried, Carries, HasResponder
  <2>3. CASE responder[q] # "tag"
    BY <2>1, <2>3, NoneApart DEF ResponderInv, Found, HasResponder
  <2> QED BY <2>2, <2>3
<1> QED BY <1>1, <1>2, ResponderInit, PTL DEF Spec

\* A forwarded request is answered with success only after the actor it was
\* passed on to has answered with success, through any number of forwards.
THEOREM NoMadeUpAnswers == Spec => []ForwardedFaithfully
<1>1. ResponderInv /\ [Next]_vars => ResponderInv'
  BY ResponderStep
<1>2. ResponderInv => ForwardedFaithfully
  BY DEF ResponderInv
<1> QED BY <1>1, <1>2, ResponderInit, PTL DEF Spec

=============================================================================
