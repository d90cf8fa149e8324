-------------------------- MODULE HttpServer_proofs --------------------------
(***************************************************************************)
(* Theorems about the HTTP server, for any number of routes, callers,      *)
(* requests and failures.                                                  *)
(***************************************************************************)
EXTENDS HttpServer, FiniteSetTheorems, WellFoundedInduction, TLAPS

States == {"none", "starting", "bound", "serving", "draining", "Ok", "Err"}
-----------------------------------------------------------------------------
(* One listener, or one restart to come.                                    *)

ListenerTypeOK ==
  /\ phase \in {"running", "terminating", "over"}
  /\ restart \in Nat
  /\ listener \in [Slots -> States]

\* NoStrayListener, without counting.
OneListener ==
  /\ listener[1] = "none" \/ listener[2] = "none"
  /\ restart # 0 => restart = 1 /\ \A s \in Slots : listener[s] = "none"
  /\ phase = "over" => restart = 0 /\ \A s \in Slots : listener[s] = "none"

ListenerInv == ListenerTypeOK /\ OneListener

\* The server starts with one listener.
LEMMA ListenerInit == Init => ListenerInv
  BY DEF Init, ListenerInv, ListenerTypeOK, OneListener, Slots, States

\* The steps of one listener leave it a child of the actor.
LEMMA ListenerMoves ==
  ASSUME ListenerInv, NEW s \in Slots, listener[s] # "none",
         NEW state \in States \ {"none"}, listener' = [listener EXCEPT ![s] = state],
         UNCHANGED <<phase, restart>>
  PROVE  ListenerInv'
  BY DEF ListenerInv, ListenerTypeOK, OneListener, Slots

\* The end of the actor.
LEMMA EndsClean ==
  ASSUME ListenerInv, Ends, \A s \in Slots : listener'[s] = "none", listener' \in [Slots -> States]
  PROVE  ListenerInv'
  BY DEF ListenerInv, ListenerTypeOK, OneListener, Ends, Slots

\* Every step keeps the invariant.
LEMMA ListenerStepKeeps ==
  ASSUME ListenerInv, [Next]_vars
  PROVE  ListenerInv'
<1>1. ASSUME UNCHANGED <<phase, restart, listener>>
      PROVE  ListenerInv'
  BY <1>1 DEF ListenerInv, ListenerTypeOK, OneListener
<1>2. ASSUME NEW route \in Routes, add_route(route)
      PROVE  ListenerInv'
  BY <1>1, <1>2 DEF add_route, server, tasks
<1>3. ASSUME NEW w \in Waiters, wait_for_address(w)
      PROVE  ListenerInv'
  BY <1>1, <1>3 DEF wait_for_address, server, tasks
<1>4. CASE HandlerStep
  BY <1>1, <1>4 DEF HandlerStep, AddRoute, WaitForAddress, AddrReady, tasks
<1>5. CASE Interrupted
  <2>1. UNCHANGED listener
    BY <1>5 DEF Interrupted, tasks
  <2>2. CASE Children = {} /\ Ends
    <3>1. \A s \in Slots : listener'[s] = "none"
      BY <2>1, <2>2 DEF Children
    <3>2. listener' \in [Slots -> States]
      BY <2>1 DEF ListenerInv, ListenerTypeOK
    <3> QED BY <2>2, <3>1, <3>2, EndsClean
  <2>3. CASE phase' = "terminating" /\ UNCHANGED server
    BY <1>5, <2>1, <2>3 DEF Interrupted, server, ListenerInv, ListenerTypeOK, OneListener
  <2> QED BY <1>5, <2>2, <2>3 DEF Interrupted
<1>6. CASE RestartListener
  <2>1. PICK s \in Slots : listener' = [listener EXCEPT ![s] = "starting"]
    BY <1>6 DEF RestartListener, start_http_listener
  <2>2. restart > 0 /\ restart' = restart - 1 /\ phase' = phase /\ phase # "over"
    BY <1>6 DEF RestartListener
  <2> QED BY <2>1, <2>2 DEF ListenerInv, ListenerTypeOK, OneListener, Slots, States
<1>7. CASE OtherTakesPort \/ OtherReleasesPort \/ AppEnds
  BY <1>1, <1>7 DEF OtherTakesPort, OtherReleasesPort, AppEnds, server, tasks
<1>8. ASSUME NEW s \in Slots, Eliminated(s)
      PROVE  ListenerInv'
  <2>1. listener' = [listener EXCEPT ![s] = "none"] /\ phase # "over"
    BY <1>8 DEF Eliminated
  <2>2. listener[s] # "none"
    BY <1>8 DEF Eliminated
  <2>3. \A t \in Slots : listener'[t] = "none"
    BY <2>1, <2>2 DEF ListenerInv, ListenerTypeOK, OneListener, Slots
  <2>4. listener' \in [Slots -> States]
    BY <2>1 DEF ListenerInv, ListenerTypeOK, States
  <2>5. restart = 0
    BY <2>2 DEF ListenerInv, OneListener
  <2>6. CASE Ends
    BY <2>3, <2>4, <2>6, EndsClean
  <2>7. CASE restart' \in {restart, restart + 1} /\ UNCHANGED phase
    BY <2>1, <2>3, <2>4, <2>5, <2>7 DEF ListenerInv, ListenerTypeOK, OneListener, Slots
  <2> QED BY <1>8, <2>6, <2>7 DEF Eliminated
<1>9. ASSUME NEW s \in Slots, ListenerStep(s) \/ ServeFails(s)
      PROVE  ListenerInv'
  <2>1. UNCHANGED <<phase, restart>> /\ listener[s] # "none"
    BY <1>9 DEF ListenerStep, ServeFails, Bind, Announce, StartsToDrain, Drained, TimedOut,
       Returns, server
  <2>2. PICK state \in States \ {"none"} : listener' = [listener EXCEPT ![s] = state]
    BY <1>9 DEF ListenerStep, ServeFails, Bind, Announce, StartsToDrain, Drained, TimedOut,
       Returns, States
  <2> QED BY <2>1, <2>2, ListenerMoves
<1>10. ASSUME NEW q \in Requests, ClientStep(q) \/ SocketStep(q)
       PROVE  UNCHANGED <<phase, restart, listener>>
  BY <1>10 DEF ClientStep, SocketStep, Answers, ClientLeaves, Call, Upgraded, Worker,
     Connect, SessionStopped, SessionEnds, Becomes, server, tasks
<1>11. CASE UNCHANGED vars
  BY <1>1, <1>11 DEF vars, server, tasks
<1> QED BY <1>1, <1>2, <1>3, <1>4, <1>5, <1>6, <1>7, <1>8, <1>9, <1>10, <1>11 DEF Next

\* Counting adds nothing.
LEMMA OneListenerCounts == ListenerInv => NoStrayListener
<1> SUFFICES ASSUME ListenerInv PROVE NoStrayListener
  OBVIOUS
<1> USE DEF ListenerInv, ListenerTypeOK, OneListener, Slots
<1>1. CASE Children = {}
  <2>1. Cardinality(Children) = 0
    BY <1>1, FS_EmptySet
  <2>2. restart \in {0, 1} /\ (phase = "over" => restart = 0)
    OBVIOUS
  <2> QED BY <2>1, <2>2 DEF NoStrayListener
<1>2. CASE Children # {}
  <2>1. PICK s \in Slots : s \in Children /\ listener[s] # "none"
    BY <1>2 DEF Children
  <2>2. Children = {s}
    BY <2>1 DEF Children
  <2>3. Cardinality(Children) = 1
    BY <2>2, FS_Singleton
  <2>4. restart = 0 /\ phase # "over"
    BY <2>1
  <2> QED BY <2>3, <2>4 DEF NoStrayListener
<1> QED BY <1>1, <1>2

\* However failures, restarts and the shutdown fall together, the server never
\* has two listeners, nor a restart beside a listener, and nothing of it is left
\* when it is over.
THEOREM ServerHasOneListener == Spec => []NoStrayListener
<1>1. ListenerInv /\ [Next]_vars => ListenerInv'
  BY ListenerStepKeeps
<1> QED BY <1>1, ListenerInit, OneListenerCounts, PTL DEF Spec
-----------------------------------------------------------------------------
(* Requests for a path go to one route.                                     *)

\* A set of numbers that is not empty has a least element.
LEMMA LeastNumber ==
  ASSUME NEW S, S \subseteq Nat, S # {}
  PROVE  \E i \in S : \A j \in S : i <= j
<1> DEFINE R == {ss \in Nat \X Nat : ss[1] < ss[2]}
<1>1. IsWellFoundedOn(R, Nat)
  BY NatLessThanWellFounded DEF OpToRel
<1> HIDE DEF R
<1>2. PICK i \in S : \A j \in S : ~(<<j, i>> \in R)
  BY <1>1, WFMin
<1>3. ASSUME NEW j \in S
      PROVE  i <= j
  <2>1. <<j, i>> \in R <=> j < i
    BY DEF R
  <2> QED BY <1>2, <2>1
<1> QED BY <1>3

\* The first match is a route of the table, at the least index of those that match.
LEMMA FirstMatchFacts ==
  ASSUME NEW table \in Seq(Routes), NEW path, Matching(table, path) # {}
  PROVE  \E i \in Matching(table, path) :
           /\ FirstMatch(table, path) = table[i] /\ table[i] \in Routes
           /\ \A j \in Matching(table, path) : i <= j
<1> DEFINE M == Matching(table, path)
           i == CHOOSE k \in M : \A j \in M : k <= j
<1>1. M \subseteq DOMAIN table /\ DOMAIN table \subseteq Nat
  BY DEF Matching
<1>2. \E k \in M : \A j \in M : k <= j
  <2> HIDE DEF M
  <2> QED BY <1>1, LeastNumber DEF M
<1>3. i \in M /\ \A j \in M : i <= j
  BY <1>2
<1>4. FirstMatch(table, path) = table[i]
  BY DEF FirstMatch
<1>5. table[i] \in Routes
  BY <1>1, <1>3
<1> QED BY <1>3, <1>4, <1>5

\* A route that is added at the end is found only if none was before.
LEMMA FirstMatchStays ==
  ASSUME NEW table \in Seq(Routes), NEW route \in Routes, NEW path, Matching(table, path) # {}
  PROVE  /\ Matching(insert_route(table, route), path) # {}
         /\ FirstMatch(insert_route(table, route), path) = FirstMatch(table, path)
<1> DEFINE longer == insert_route(table, route)
<1>1. /\ longer \in Seq(Routes) /\ Len(table) \in Nat
      /\ DOMAIN table = 1 .. Len(table) /\ DOMAIN longer = 1 .. Len(table) + 1
      /\ \A k \in DOMAIN table : longer[k] = table[k]
  BY DEF insert_route
<1> HIDE DEF longer
<1>2. PICK i \in Matching(table, path) :
        /\ FirstMatch(table, path) = table[i]
        /\ \A j \in Matching(table, path) : i <= j
  BY FirstMatchFacts
<1>3. i \in DOMAIN table /\ i \in Matching(longer, path)
  BY <1>1, <1>2 DEF Matching
<1>4. PICK k \in Matching(longer, path) :
        /\ FirstMatch(longer, path) = longer[k]
        /\ \A j \in Matching(longer, path) : k <= j
  BY <1>1, <1>3, FirstMatchFacts
<1>5. k \in DOMAIN longer /\ k <= i
  BY <1>3, <1>4 DEF Matching
<1>6. k \in DOMAIN table /\ k \in Matching(table, path)
  BY <1>1, <1>3, <1>4, <1>5 DEF Matching
<1>7. k = i
  BY <1>1, <1>2, <1>3, <1>5, <1>6
<1> QED BY <1>1, <1>2, <1>3, <1>4, <1>7 DEF longer

-----------------------------------------------------------------------------
(* The types of the rest of the server.                                     *)

MessageType ==
  [kind : {"AddRoute"}, value : Routes]
    \cup [kind : {"WaitForAddress"}, value : Waiters]
    \cup [kind : {"AddrReady"}, value : Nat]

ServerTypeOK ==
  /\ mailbox \in Seq(MessageType)
  /\ routes \in Seq(Routes)
  /\ chosen \in [Paths -> SUBSET Routes]
  /\ bound \in [Slots -> Nat]
  /\ binds \in Nat /\ announced \in Nat /\ addr \in Nat
  /\ listeners \in SUBSET Waiters
  /\ wait \in [Waiters -> {"none", "waiting", "Ok", "Err"}]
  /\ got \in [Waiters -> Nat] /\ since \in [Waiters -> Nat]

\* What is in a message that is taken.
LEMMA TakenType ==
  ASSUME ServerTypeOK, NEW kind, Take(kind)
  PROVE  /\ mailbox \in Seq(MessageType) /\ mailbox # <<>>
         /\ mailbox' = Tail(mailbox) /\ mailbox' \in Seq(MessageType)
         /\ kind = "AddRoute" => Head(mailbox).value \in Routes
         /\ kind = "WaitForAddress" => Head(mailbox).value \in Waiters
         /\ kind = "AddrReady" => Head(mailbox).value \in Nat
<1>1. mailbox \in Seq(MessageType) /\ mailbox # <<>> /\ mailbox' = Tail(mailbox)
  BY DEF ServerTypeOK, Take
<1>2. Head(mailbox) \in MessageType /\ mailbox' \in Seq(MessageType)
  BY <1>1
<1>3. Head(mailbox).kind = kind
  BY DEF Take
<1> QED BY <1>1, <1>2, <1>3 DEF MessageType

\* What is sent is a message.
LEMMA SentType ==
  ASSUME ServerTypeOK, NEW m \in MessageType, mailbox' = Append(mailbox, m)
  PROVE  mailbox' \in Seq(MessageType)
  BY DEF ServerTypeOK

\* An answer to callers keeps the types ...
LEMMA ReplyType ==
  ASSUME ServerTypeOK, NEW W, NEW a \in Nat, Reply(W, a)
  PROVE  wait' \in [Waiters -> {"none", "waiting", "Ok", "Err"}] /\ got' \in [Waiters -> Nat]
  BY DEF ServerTypeOK, Reply

\* ... and so does the end of the actor.
LEMMA EndsType ==
  ASSUME ServerTypeOK, Ends, UNCHANGED <<bound, binds, announced, chosen>>
  PROVE  ServerTypeOK'
<1>1. mailbox' = <<>> /\ <<>> \in Seq(MessageType)
  BY DEF Ends
<1>2. wait' \in [Waiters -> {"none", "waiting", "Ok", "Err"}]
  BY DEF ServerTypeOK, Ends
<1> QED BY <1>1, <1>2 DEF ServerTypeOK, Ends

\* The types hold initially.
LEMMA ServerTypeInit == Init => ServerTypeOK
  BY DEF Init, ServerTypeOK, Slots

\* Every step keeps the types.
LEMMA ServerTypeStep ==
  ASSUME ServerTypeOK, [Next]_vars
  PROVE  ServerTypeOK'
<1>0. ASSUME UNCHANGED <<mailbox, routes, chosen, bound, binds, announced, addr, listeners,
                         wait, got, since>>
      PROVE  ServerTypeOK'
  BY <1>0 DEF ServerTypeOK
<1>1. ASSUME NEW route \in Routes, add_route(route)
      PROVE  ServerTypeOK'
  <2>1. Message("AddRoute", route) \in MessageType
    BY DEF Message, MessageType
  <2>2. mailbox' \in Seq(MessageType)
    BY <1>1, <2>1, SentType DEF add_route
  <2> QED BY <1>1, <2>2 DEF add_route, ServerTypeOK, server, tasks, waits, clients
<1>2. ASSUME NEW w \in Waiters, wait_for_address(w)
      PROVE  ServerTypeOK'
  <2>1. Message("WaitForAddress", w) \in MessageType
    BY DEF Message, MessageType
  <2>2. mailbox' \in Seq(MessageType)
    BY <1>2, <2>1, SentType DEF wait_for_address, ServerTypeOK
  <2>3. /\ wait' \in [Waiters -> {"none", "waiting", "Ok", "Err"}]
        /\ since' \in [Waiters -> Nat]
    BY <1>2 DEF wait_for_address, ServerTypeOK
  <2> QED BY <1>2, <2>2, <2>3 DEF wait_for_address, ServerTypeOK, server, tasks, clients
<1>3. CASE AddRoute
  <2>1. mailbox' \in Seq(MessageType) /\ Head(mailbox).value \in Routes
    BY <1>3, TakenType DEF AddRoute
  <2>2. routes' \in Seq(Routes)
    BY <1>3, <2>1 DEF AddRoute, insert_route, ServerTypeOK
  <2> QED BY <1>3, <2>1, <2>2 DEF AddRoute, ServerTypeOK, tasks, waits, clients
<1>4. CASE WaitForAddress
  <2> DEFINE w == Head(mailbox).value
  <2>1. mailbox' \in Seq(MessageType) /\ w \in Waiters
    BY <1>4, TakenType DEF WaitForAddress
  <2>2. \/ listeners' = listeners \cup {w} /\ UNCHANGED <<wait, got>>
        \/ Reply({w}, addr) /\ UNCHANGED listeners
    BY <1>4 DEF WaitForAddress
  <2> HIDE DEF w
  <2>3. /\ wait' \in [Waiters -> {"none", "waiting", "Ok", "Err"}]
        /\ got' \in [Waiters -> Nat] /\ listeners' \in SUBSET Waiters
    <3>1. CASE listeners' = listeners \cup {w} /\ UNCHANGED <<wait, got>>
      BY <2>1, <3>1 DEF ServerTypeOK
    <3>2. CASE Reply({w}, addr) /\ UNCHANGED listeners
      <4>1. addr \in Nat
        BY DEF ServerTypeOK
      <4> QED BY <3>2, <4>1, ReplyType DEF ServerTypeOK
    <3> QED BY <2>2, <3>1, <3>2
  <2> QED BY <1>4, <2>1, <2>3 DEF WaitForAddress, ServerTypeOK, tasks, clients
<1>5. CASE AddrReady
  <2>1. mailbox' \in Seq(MessageType) /\ Head(mailbox).value \in Nat
    BY <1>5, TakenType DEF AddrReady
  <2>2. /\ wait' \in [Waiters -> {"none", "waiting", "Ok", "Err"}]
        /\ got' \in [Waiters -> Nat]
    BY <1>5, <2>1, ReplyType DEF AddrReady
  <2> QED BY <1>5, <2>1, <2>2 DEF AddrReady, ServerTypeOK, tasks, clients
<1>6. CASE Interrupted
  <2>1. CASE Ends
    BY <1>6, <2>1, EndsType DEF Interrupted, tasks, clients
  <2>2. CASE UNCHANGED <<mailbox, server, waits>>
    BY <1>0, <1>6, <2>2 DEF Interrupted, server, tasks, waits, clients
  <2> QED BY <1>6, <2>1, <2>2 DEF Interrupted
<1>7. ASSUME NEW s \in Slots, Eliminated(s)
      PROVE  ServerTypeOK'
  <2>1. CASE Ends
    BY <1>7, <2>1, EndsType DEF Eliminated, clients
  <2>2. CASE UNCHANGED <<mailbox, addr, listeners, routes, waits>>
    BY <1>0, <1>7, <2>2 DEF Eliminated, waits, clients
  <2> QED BY <1>7, <2>1, <2>2 DEF Eliminated
<1>8. CASE RestartListener \/ OtherTakesPort \/ OtherReleasesPort \/ AppEnds
  BY <1>0, <1>8 DEF RestartListener, OtherTakesPort, OtherReleasesPort, AppEnds, server, tasks, waits,
     clients
<1>9. ASSUME NEW s \in Slots, Bind(s)
      PROVE  ServerTypeOK'
  <2>1. binds' \in Nat /\ bound' \in [Slots -> Nat]
    BY <1>9 DEF Bind, ServerTypeOK
  <2> QED BY <1>9, <2>1 DEF Bind, ServerTypeOK, server, waits, clients
<1>10. ASSUME NEW s \in Slots, Announce(s)
       PROVE  ServerTypeOK'
  <2>1. Message("AddrReady", bound[s]) \in MessageType /\ bound[s] \in Nat
    BY DEF Message, MessageType, ServerTypeOK
  <2>2. mailbox' \in Seq(MessageType)
    BY <1>10, <2>1, SentType DEF Announce
  <2> QED BY <1>10, <2>1, <2>2 DEF Announce, ServerTypeOK, server, waits, clients
<1>11. ASSUME NEW s \in Slots, StartsToDrain(s) \/ Drained(s) \/ TimedOut(s) \/ ServeFails(s)
       PROVE  ServerTypeOK'
  BY <1>0, <1>11 DEF StartsToDrain, Drained, TimedOut, Returns, ServeFails, server, waits, clients
<1>12. ASSUME NEW q \in Requests, NEW path \in Paths, NEW parses, Call(q, path, parses)
       PROVE  ServerTypeOK'
  <2>1. chosen' \in [Paths -> SUBSET Routes]
    <3>1. CASE UNCHANGED chosen
      BY <3>1 DEF ServerTypeOK
    <3>2. CASE /\ Matching(routes, path) # {}
               /\ chosen' = [chosen EXCEPT ![path] = @ \cup {FirstMatch(routes, path)}]
      <4>1. FirstMatch(routes, path) \in Routes
        BY <3>2, FirstMatchFacts DEF ServerTypeOK
      <4> QED BY <3>2, <4>1 DEF ServerTypeOK
    <3> QED BY <1>12, <3>1, <3>2 DEF Call
  <2> QED BY <1>12, <2>1 DEF Call, Becomes, ServerTypeOK, server, tasks, waits
<1>13. ASSUME NEW q \in Requests, Connect(q) \/ Answers(q) \/ ClientLeaves(q) \/ SocketStep(q)
       PROVE  ServerTypeOK'
  BY <1>0, <1>13 DEF Answers, ClientLeaves, SocketStep, Upgraded, Worker, Connect,
     SessionStopped, SessionEnds, Becomes, server, tasks, waits
<1>14. CASE UNCHANGED vars
  BY <1>0, <1>14 DEF vars, server, tasks, waits, clients
<1> QED BY <1>1, <1>2, <1>3, <1>4, <1>5, <1>6, <1>7, <1>8, <1>9, <1>10, <1>11, <1>12, <1>13, <1>14
  DEF Next, HandlerStep, ListenerStep, ClientStep
-----------------------------------------------------------------------------
(* The table only grows at its end.                                         *)

\* Whatever requests for a path were given to is what the next one will be
\* given to.
FirstStays ==
  \A path \in Paths :
    chosen[path] # {} =>
      Matching(routes, path) # {} /\ chosen[path] = {FirstMatch(routes, path)}

\* Every step keeps that.
LEMMA FirstStaysStep ==
  ASSUME ServerTypeOK, FirstStays, [Next]_vars
  PROVE  FirstStays'
<1>0. ASSUME UNCHANGED <<routes, chosen>>
      PROVE  FirstStays'
  BY <1>0 DEF FirstStays
<1>1. CASE AddRoute
  <2>1. Head(mailbox).value \in Routes
    BY <1>1, TakenType DEF AddRoute
  <2>2. routes' = insert_route(routes, Head(mailbox).value) /\ chosen' = chosen
    BY <1>1 DEF AddRoute, clients
  <2> SUFFICES ASSUME NEW path \in Paths, chosen[path] # {}
               PROVE  /\ Matching(routes', path) # {}
                      /\ chosen[path] = {FirstMatch(routes', path)}
    BY <2>2 DEF FirstStays
  <2>3. Matching(routes, path) # {} /\ chosen[path] = {FirstMatch(routes, path)}
    BY DEF FirstStays
  <2> QED BY <2>1, <2>2, <2>3, FirstMatchStays DEF ServerTypeOK
<1>2. ASSUME NEW q \in Requests, NEW path \in Paths, NEW parses, Call(q, path, parses)
      PROVE  FirstStays'
  <2>1. routes' = routes
    BY <1>2 DEF Call, Becomes, server
  <2>2. CASE UNCHANGED chosen
    BY <1>0, <2>1, <2>2
  <2>3. CASE /\ Matching(routes, path) # {}
             /\ chosen' = [chosen EXCEPT ![path] = @ \cup {FirstMatch(routes, path)}]
    <3> SUFFICES ASSUME NEW p \in Paths, chosen'[p] # {}
                 PROVE  /\ Matching(routes, p) # {}
                        /\ chosen'[p] = {FirstMatch(routes, p)}
      BY <2>1 DEF FirstStays
    <3>1. CASE p = path
      <4>1. chosen'[p] = chosen[p] \cup {FirstMatch(routes, p)}
        BY <2>3, <3>1 DEF ServerTypeOK
      <4> QED BY <2>3, <3>1, <4>1 DEF FirstStays
    <3>2. CASE p # path
      <4>1. chosen'[p] = chosen[p]
        BY <2>3, <3>2 DEF ServerTypeOK
      <4> QED BY <4>1 DEF FirstStays
    <3> QED BY <3>1, <3>2
  <2> QED BY <1>2, <2>2, <2>3 DEF Call
<1>3. ASSUME \/ \E route \in Routes : add_route(route)
             \/ \E w \in Waiters : wait_for_address(w)
             \/ WaitForAddress \/ AddrReady \/ Interrupted \/ RestartListener
             \/ OtherTakesPort \/ OtherReleasesPort \/ AppEnds
             \/ \E s \in Slots : Eliminated(s) \/ ListenerStep(s) \/ ServeFails(s)
      PROVE  UNCHANGED <<routes, chosen>>
  BY <1>3 DEF add_route, wait_for_address, WaitForAddress, AddrReady, Interrupted, Ends,
     RestartListener, OtherTakesPort, OtherReleasesPort, AppEnds, Eliminated, ListenerStep,
     ServeFails, Bind, Announce, StartsToDrain, Drained, TimedOut, Returns, server, clients
<1>4. ASSUME NEW q \in Requests, Connect(q) \/ Answers(q) \/ ClientLeaves(q) \/ SocketStep(q)
      PROVE  UNCHANGED <<routes, chosen>>
  BY <1>4 DEF Answers, ClientLeaves, SocketStep, Upgraded, Worker, Connect,
     SessionStopped, SessionEnds, Becomes, server
<1>5. CASE UNCHANGED vars
  BY <1>0, <1>5 DEF vars, server, clients
<1> QED BY <1>0, <1>1, <1>2, <1>3, <1>4, <1>5 DEF Next, HandlerStep, ClientStep

\* However many routes overlap and whenever they are added, all requests for a
\* path are given to the same one.
THEOREM PathsKeepTheirRoute == Spec => []SamePathSameRoute
<1>1. Init => FirstStays
  BY DEF Init, FirstStays
<1>2. ServerTypeOK /\ [Next]_vars => ServerTypeOK'
  BY ServerTypeStep
<1>3. ServerTypeOK /\ FirstStays /\ [Next]_vars => FirstStays'
  BY FirstStaysStep
<1>4. FirstStays => SamePathSameRoute
  <2> SUFFICES ASSUME FirstStays, NEW path \in Paths
               PROVE  Cardinality(chosen[path]) <= 1
    BY DEF SamePathSameRoute
  <2>1. CASE chosen[path] = {}
    BY <2>1, FS_EmptySet
  <2>2. CASE chosen[path] # {}
    <3>1. chosen[path] = {FirstMatch(routes, path)}
      BY <2>2 DEF FirstStays
    <3>2. Cardinality({FirstMatch(routes, path)}) = 1
      BY FS_Singleton
    <3> QED BY <3>1, <3>2
  <2> QED BY <2>1, <2>2
<1> QED BY <1>1, <1>2, <1>3, <1>4, ServerTypeInit, PTL DEF Spec
-----------------------------------------------------------------------------
(* No caller gets an address that had been replaced when it asked.          *)

Announces(i) == mailbox[i].kind = "AddrReady"
AsksFor(i, w) == mailbox[i] = Message("WaitForAddress", w)

\* Addresses are announced in the order of the binds, and come in that order.
AddressOrder ==
  /\ addr <= announced /\ announced <= binds
  /\ \A i \in DOMAIN mailbox :
       Announces(i) => mailbox[i].value \in 1 .. announced /\ addr <= mailbox[i].value
  /\ \A i, j \in DOMAIN mailbox :
       Announces(i) /\ Announces(j) /\ i <= j => mailbox[i].value <= mailbox[j].value
  /\ \A s \in Slots : listener[s] = "bound" => bound[s] \in 1 .. binds /\ announced <= bound[s]

\* The actor has the last address that was announced, or will take it.
LastIsComing ==
  phase # "over" =>
    addr = announced \/ \E i \in DOMAIN mailbox : mailbox[i] = Message("AddrReady", announced)

\* A question does not overtake the addresses that were announced before it.
QuestionsInOrder ==
  /\ \A i \in DOMAIN mailbox : \A w \in Waiters :
       AsksFor(i, w) =>
         /\ wait[w] # "none"
         /\ \/ since[w] <= addr
            \/ \E j \in DOMAIN mailbox : j < i /\ Announces(j) /\ since[w] <= mailbox[j].value
  /\ \A w \in listeners : wait[w] # "none" /\ since[w] <= addr

AddressInv == AddressOrder /\ LastIsComing /\ QuestionsInOrder /\ AddressNotStale

\* Where a message comes to be that is sent ...
LEMMA SentAt ==
  ASSUME ServerTypeOK, NEW m \in MessageType, mailbox' = Append(mailbox, m)
  PROVE  /\ Len(mailbox) \in Nat /\ DOMAIN mailbox = 1 .. Len(mailbox)
         /\ DOMAIN mailbox' = 1 .. Len(mailbox) + 1
         /\ \A i \in DOMAIN mailbox : mailbox'[i] = mailbox[i]
         /\ mailbox'[Len(mailbox) + 1] = m
  BY DEF ServerTypeOK

\* ... and where the others are when one was taken.
LEMMA TakenAt ==
  ASSUME ServerTypeOK, mailbox # <<>>, mailbox' = Tail(mailbox)
  PROVE  /\ Len(mailbox) \in Nat \ {0} /\ DOMAIN mailbox = 1 .. Len(mailbox)
         /\ DOMAIN mailbox' = 1 .. Len(mailbox) - 1
         /\ \A i \in DOMAIN mailbox' : i + 1 \in DOMAIN mailbox /\ mailbox'[i] = mailbox[i + 1]
         /\ mailbox[1] = Head(mailbox)
  BY DEF ServerTypeOK

\* Steps that do not touch the mailbox, the addresses or the callers.
LEMMA AddressAside ==
  ASSUME AddressInv,
         UNCHANGED <<phase, mailbox, addr, announced, binds, bound, listeners, wait, got, since>>,
         \A s \in Slots : listener'[s] = "bound" => listener[s] = "bound"
  PROVE  AddressInv'
<1>1. AddressOrder'
  BY DEF AddressInv, AddressOrder, Announces
<1>2. LastIsComing'
  BY DEF AddressInv, LastIsComing
<1>3. QuestionsInOrder' /\ AddressNotStale'
  BY DEF AddressInv, QuestionsInOrder, AddressNotStale, Announces, AsksFor
<1> QED BY <1>1, <1>2, <1>3 DEF AddressInv

\* The end of the actor.
LEMMA AddressEnds ==
  ASSUME ServerTypeOK, AddressInv, Ends, UNCHANGED <<bound, binds, announced>>,
         \A s \in Slots : listener'[s] = "bound" => listener[s] = "bound"
  PROVE  AddressInv'
<1>1. mailbox' = <<>> /\ DOMAIN mailbox' = {}
  BY DEF Ends
<1>2. AddressOrder' /\ LastIsComing' /\ QuestionsInOrder'
  BY <1>1 DEF AddressInv, AddressOrder, LastIsComing, QuestionsInOrder, Ends
<1>3. AddressNotStale'
  BY DEF AddressInv, AddressNotStale, Ends, ServerTypeOK
<1> QED BY <1>2, <1>3 DEF AddressInv

\* A message that announces nothing is sent.
LEMMA OrderWhenSent ==
  ASSUME ServerTypeOK, AddressInv, NEW m \in MessageType, mailbox' = Append(mailbox, m),
         m.kind # "AddrReady", UNCHANGED <<phase, addr, announced, binds, bound, listener>>
  PROVE  AddressOrder' /\ LastIsComing'
<1>1. /\ Len(mailbox) \in Nat /\ DOMAIN mailbox = 1 .. Len(mailbox)
      /\ DOMAIN mailbox' = 1 .. Len(mailbox) + 1
      /\ \A i \in DOMAIN mailbox : mailbox'[i] = mailbox[i]
      /\ mailbox'[Len(mailbox) + 1] = m
  BY SentAt
<1>2. \A i \in DOMAIN mailbox' : Announces(i)' => i \in DOMAIN mailbox /\ Announces(i)
  BY <1>1 DEF Announces
<1>3. AddressOrder'
  BY <1>1, <1>2 DEF AddressInv, AddressOrder
<1>4. LastIsComing'
  BY <1>1 DEF AddressInv, LastIsComing
<1> QED BY <1>3, <1>4

\* A message that announces nothing is taken.
LEMMA OrderWhenTaken ==
  ASSUME ServerTypeOK, AddressInv, NEW kind, Take(kind), kind # "AddrReady",
         UNCHANGED <<phase, addr, announced, binds, bound, listener>>
  PROVE  AddressOrder' /\ LastIsComing'
<1>0. mailbox # <<>> /\ mailbox' = Tail(mailbox) /\ Head(mailbox).kind = kind
  BY DEF Take
<1>1. /\ Len(mailbox) \in Nat \ {0} /\ DOMAIN mailbox = 1 .. Len(mailbox)
      /\ DOMAIN mailbox' = 1 .. Len(mailbox) - 1
      /\ \A i \in DOMAIN mailbox' : i + 1 \in DOMAIN mailbox /\ mailbox'[i] = mailbox[i + 1]
      /\ mailbox[1] = Head(mailbox)
  BY <1>0, TakenAt
<1>2. \A i \in DOMAIN mailbox' : Announces(i)' => Announces(i + 1)
  BY <1>1 DEF Announces
<1>3. AddressOrder'
  <2>1. \A i \in DOMAIN mailbox' :
          Announces(i)' => mailbox'[i].value \in 1 .. announced /\ addr <= mailbox'[i].value
    BY <1>1, <1>2 DEF AddressInv, AddressOrder
  <2>2. \A i, j \in DOMAIN mailbox' :
          Announces(i)' /\ Announces(j)' /\ i <= j => mailbox'[i].value <= mailbox'[j].value
    <3>1. \A i, j \in DOMAIN mailbox' : i <= j => i + 1 <= j + 1
      BY <1>1
    <3> QED BY <1>1, <1>2, <3>1 DEF AddressInv, AddressOrder
  <2> QED BY <2>1, <2>2 DEF AddressInv, AddressOrder
<1>4. LastIsComing'
  <2> SUFFICES ASSUME phase # "over", addr # announced
               PROVE  \E i \in DOMAIN mailbox' : mailbox'[i] = Message("AddrReady", announced)
    BY DEF LastIsComing
  <2>1. PICK i \in DOMAIN mailbox : mailbox[i] = Message("AddrReady", announced)
    BY DEF AddressInv, LastIsComing
  <2>2. i # 1
    BY <1>0, <1>1, <2>1 DEF Message
  <2>3. i - 1 \in DOMAIN mailbox' /\ mailbox'[i - 1] = mailbox[i]
    BY <1>1, <2>2
  <2> QED BY <2>1, <2>3
<1> QED BY <1>3, <1>4

\* A question or an announcement that is taken leaves the others where they were:
\* what was before a question is before it, or was taken and is the address now.
LEMMA QuestionsWhenTaken ==
  ASSUME ServerTypeOK, AddressInv, mailbox # <<>>, mailbox' = Tail(mailbox),
         UNCHANGED since, addr' \in Nat, addr <= addr',
         Announces(1) => mailbox[1].value <= addr',
         \A w \in Waiters : wait[w] # "none" => wait'[w] # "none"
  PROVE  \A i \in DOMAIN mailbox' : \A w \in Waiters :
           AsksFor(i, w)' =>
             /\ wait'[w] # "none"
             /\ \/ since'[w] <= addr'
                \/ \E j \in DOMAIN mailbox' : j < i /\ Announces(j)' /\ since'[w] <= mailbox'[j].value
<1>1. /\ Len(mailbox) \in Nat \ {0} /\ DOMAIN mailbox = 1 .. Len(mailbox)
      /\ DOMAIN mailbox' = 1 .. Len(mailbox) - 1
      /\ \A i \in DOMAIN mailbox' : i + 1 \in DOMAIN mailbox /\ mailbox'[i] = mailbox[i + 1]
  BY TakenAt
<1> SUFFICES ASSUME NEW i \in DOMAIN mailbox', NEW w \in Waiters, AsksFor(i, w)'
             PROVE  /\ wait'[w] # "none"
                    /\ \/ since[w] <= addr'
                       \/ \E j \in DOMAIN mailbox' :
                            j < i /\ Announces(j)' /\ since[w] <= mailbox'[j].value
  OBVIOUS
<1>2. i + 1 \in DOMAIN mailbox /\ AsksFor(i + 1, w)
  BY <1>1 DEF AsksFor
<1>3. /\ wait[w] # "none"
      /\ \/ since[w] <= addr
         \/ \E j \in DOMAIN mailbox : j < i + 1 /\ Announces(j) /\ since[w] <= mailbox[j].value
  BY <1>2 DEF AddressInv, QuestionsInOrder
<1>4. CASE since[w] <= addr
  BY <1>3, <1>4 DEF ServerTypeOK
<1>5. ASSUME NEW j \in DOMAIN mailbox, j < i + 1, Announces(j), since[w] <= mailbox[j].value
      PROVE  \/ since[w] <= addr'
             \/ \E k \in DOMAIN mailbox' : k < i /\ Announces(k)' /\ since[w] <= mailbox'[k].value
  <2>1. CASE j = 1
    <3>1. mailbox[j].value \in Nat
      BY <1>5 DEF AddressInv, AddressOrder, ServerTypeOK
    <3> QED BY <1>5, <2>1, <3>1 DEF ServerTypeOK
  <2>2. CASE j # 1
    <3>1. j - 1 \in DOMAIN mailbox' /\ j - 1 < i /\ mailbox'[j - 1] = mailbox[j]
      BY <1>1, <1>5, <2>2
    <3> QED BY <1>5, <3>1 DEF Announces
  <2> QED BY <2>1, <2>2
<1> QED BY <1>3, <1>4, <1>5

\* wait_for_address() asks after all that has been announced.
LEMMA AddressAsked ==
  ASSUME ServerTypeOK, AddressInv, NEW w \in Waiters, wait_for_address(w)
  PROVE  AddressInv'
<1>1. /\ wait[w] = "none" /\ UNCHANGED <<phase, addr, listeners, announced, binds, bound, listener, got>>
      /\ since' = [since EXCEPT ![w] = announced]
  BY DEF wait_for_address, server, tasks
<1>2. \A v \in Waiters : v # w => since'[v] = since[v] /\ wait'[v] = wait[v]
  BY <1>1 DEF wait_for_address, ServerTypeOK
<1>3. since'[w] = announced /\ wait'[w] \in {"waiting", "Err"}
  BY <1>1 DEF wait_for_address, ServerTypeOK
<1>4. \A v \in listeners : wait'[v] # "none" /\ since'[v] <= addr
  BY <1>1, <1>2 DEF AddressInv, QuestionsInOrder, ServerTypeOK
<1>5. AddressNotStale'
  BY <1>1, <1>2, <1>3 DEF AddressInv, AddressNotStale
<1>6. CASE phase # "over" /\ mailbox' = Append(mailbox, Message("WaitForAddress", w))
  <2> DEFINE m == Message("WaitForAddress", w)
  <2>1. m \in MessageType /\ m.kind # "AddrReady"
    BY DEF Message, MessageType
  <2>2. AddressOrder' /\ LastIsComing'
    BY <1>1, <1>6, <2>1, OrderWhenSent
  <2>3. /\ Len(mailbox) \in Nat /\ DOMAIN mailbox = 1 .. Len(mailbox)
        /\ DOMAIN mailbox' = 1 .. Len(mailbox) + 1
        /\ \A i \in DOMAIN mailbox : mailbox'[i] = mailbox[i]
        /\ mailbox'[Len(mailbox) + 1] = m
    BY <1>6, <2>1, SentAt
  <2>4. ASSUME NEW i \in DOMAIN mailbox', NEW v \in Waiters, AsksFor(i, v)'
        PROVE  /\ wait'[v] # "none"
               /\ \/ since'[v] <= addr'
                  \/ \E j \in DOMAIN mailbox' :
                       j < i /\ Announces(j)' /\ since'[v] <= mailbox'[j].value
    <3>1. CASE i = Len(mailbox) + 1
      <4>1. v = w
        BY <2>3, <2>4, <3>1 DEF AsksFor, Message
      <4>2. CASE addr = announced
        BY <1>1, <1>3, <4>1, <4>2 DEF ServerTypeOK
      <4>3. CASE addr # announced
        <5>1. PICK j \in DOMAIN mailbox : mailbox[j] = Message("AddrReady", announced)
          BY <1>6, <4>3 DEF AddressInv, LastIsComing
        <5>2. j \in DOMAIN mailbox' /\ j < i /\ mailbox'[j] = Message("AddrReady", announced)
          BY <2>3, <3>1, <5>1
        <5>3. Announces(j)' /\ mailbox'[j].value = announced
          BY <5>2 DEF Announces, Message
        <5> QED BY <1>3, <4>1, <5>2, <5>3 DEF ServerTypeOK
      <4> QED BY <4>2, <4>3
    <3>2. CASE i # Len(mailbox) + 1
      <4>1. i \in DOMAIN mailbox /\ AsksFor(i, v)
        BY <2>3, <2>4, <3>2 DEF AsksFor
      <4>2. wait[v] # "none" /\ v # w
        BY <1>1, <4>1 DEF AddressInv, QuestionsInOrder
      <4>3. \/ since[v] <= addr
            \/ \E j \in DOMAIN mailbox : j < i /\ Announces(j) /\ since[v] <= mailbox[j].value
        BY <4>1 DEF AddressInv, QuestionsInOrder
      <4> QED BY <1>1, <1>2, <2>3, <4>2, <4>3 DEF Announces
    <3> QED BY <3>1, <3>2
  <2>5. QuestionsInOrder'
    BY <1>1, <1>4, <2>4 DEF QuestionsInOrder
  <2> QED BY <1>5, <2>2, <2>5 DEF AddressInv
<1>7. CASE phase = "over" /\ UNCHANGED mailbox
  <2>1. AddressOrder' /\ LastIsComing'
    BY <1>1, <1>7 DEF AddressInv, AddressOrder, LastIsComing, Announces
  <2>2. ASSUME NEW i \in DOMAIN mailbox, NEW v \in Waiters, AsksFor(i, v)
        PROVE  /\ wait'[v] # "none"
               /\ \/ since'[v] <= addr
                  \/ \E j \in DOMAIN mailbox : j < i /\ Announces(j) /\ since'[v] <= mailbox[j].value
    <3>1. v # w
      BY <1>1, <2>2 DEF AddressInv, QuestionsInOrder
    <3> QED BY <1>2, <2>2, <3>1 DEF AddressInv, QuestionsInOrder
  <2>3. QuestionsInOrder'
    BY <1>1, <1>4, <1>7, <2>2 DEF QuestionsInOrder, AsksFor, Announces
  <2> QED BY <1>5, <2>1, <2>3 DEF AddressInv
<1> QED BY <1>6, <1>7 DEF wait_for_address

\* The handler of WaitForAddress.
LEMMA AddressAnswered ==
  ASSUME ServerTypeOK, AddressInv, WaitForAddress
  PROVE  AddressInv'
<1> DEFINE w == Head(mailbox).value
<1>1. /\ mailbox # <<>> /\ mailbox' = Tail(mailbox) /\ Take("WaitForAddress") /\ w \in Waiters
      /\ UNCHANGED <<phase, addr, announced, binds, bound, listener, since>>
  BY TakenType DEF WaitForAddress, Take, tasks
<1>2. AddressOrder' /\ LastIsComing'
  BY <1>1, OrderWhenTaken
<1>3. 1 \in DOMAIN mailbox /\ mailbox[1] = Head(mailbox)
  BY <1>1, TakenAt
<1>4. AsksFor(1, w)
  <2>1. Head(mailbox) \in MessageType /\ Head(mailbox).kind = "WaitForAddress"
    BY <1>1 DEF Take, ServerTypeOK
  <2> QED BY <1>3, <2>1 DEF AsksFor, MessageType, Message
<1>5. /\ \/ addr = 0 /\ listeners' = listeners \cup {w} /\ UNCHANGED <<wait, got>>
         \/ addr # 0 /\ Reply({w}, addr) /\ UNCHANGED listeners
  BY DEF WaitForAddress
<1> HIDE DEF w
<1>6. wait[w] # "none" /\ since[w] <= addr
  <2>1. DOMAIN mailbox \subseteq Nat \ {0}
    BY DEF ServerTypeOK
  <2> QED BY <1>1, <1>3, <1>4, <2>1 DEF AddressInv, QuestionsInOrder
<1>7. \A v \in Waiters : wait[v] # "none" => wait'[v] # "none"
  BY <1>5 DEF Reply
<1>8. \A v \in listeners' : wait'[v] # "none" /\ since'[v] <= addr'
  BY <1>1, <1>5, <1>6, <1>7 DEF AddressInv, QuestionsInOrder, ServerTypeOK
<1>9. QuestionsInOrder'
  <2>1. ~Announces(1)
    BY <1>4 DEF AsksFor, Announces, Message
  <2>2. addr' \in Nat /\ addr <= addr'
    BY <1>1 DEF ServerTypeOK
  <2> QED BY <1>1, <1>7, <1>8, <2>1, <2>2, QuestionsWhenTaken DEF QuestionsInOrder
<1>10. AddressNotStale'
  <2>1. CASE UNCHANGED <<wait, got>>
    BY <1>1, <2>1 DEF AddressInv, AddressNotStale
  <2>2. CASE addr # 0 /\ Reply({w}, addr)
    <3>1. addr \in 1 .. binds /\ addr >= since[w]
      BY <1>1, <1>6, <2>2 DEF AddressInv, AddressOrder, ServerTypeOK
    <3>2. \A v \in Waiters : /\ wait'[v] = IF v \in {w} THEN "Ok" ELSE wait[v]
                             /\ got'[v] = IF v \in {w} THEN addr ELSE got[v]
      BY <2>2 DEF Reply
    <3> QED BY <1>1, <3>1, <3>2 DEF AddressInv, AddressNotStale
  <2> QED BY <1>5, <2>1, <2>2
<1> QED BY <1>2, <1>9, <1>10 DEF AddressInv

\* The handler of AddrReady: the address is at least the one before, and the last
\* one that was announced if no other announcement is behind it.
LEMMA AddressTaken ==
  ASSUME ServerTypeOK, AddressInv, AddrReady
  PROVE  AddressInv'
<1> DEFINE a == Head(mailbox).value
<1>1. /\ mailbox # <<>> /\ mailbox' = Tail(mailbox) /\ Head(mailbox).kind = "AddrReady"
      /\ addr' = a /\ Reply(listeners, a) /\ listeners' = {}
      /\ UNCHANGED <<phase, announced, binds, bound, listener, since>>
  BY DEF AddrReady, Take, tasks
<1>2. /\ Len(mailbox) \in Nat \ {0} /\ DOMAIN mailbox = 1 .. Len(mailbox)
      /\ DOMAIN mailbox' = 1 .. Len(mailbox) - 1
      /\ \A i \in DOMAIN mailbox' : i + 1 \in DOMAIN mailbox /\ mailbox'[i] = mailbox[i + 1]
      /\ mailbox[1] = Head(mailbox)
  BY <1>1, TakenAt
<1>3. 1 \in DOMAIN mailbox /\ Announces(1) /\ mailbox[1].value = a
  BY <1>1, <1>2 DEF Announces
<1> HIDE DEF a
<1>4. a \in 1 .. announced /\ addr <= a /\ announced <= binds
  BY <1>3 DEF AddressInv, AddressOrder
<1>5. \A i \in DOMAIN mailbox' : Announces(i)' => Announces(i + 1) /\ i + 1 \in DOMAIN mailbox
  BY <1>2 DEF Announces
<1>6. AddressOrder'
  <2>1. \A i \in DOMAIN mailbox' :
          Announces(i)' => mailbox'[i].value \in 1 .. announced /\ a <= mailbox'[i].value
    BY <1>2, <1>3, <1>5 DEF AddressInv, AddressOrder
  <2>2. \A i, j \in DOMAIN mailbox' :
          Announces(i)' /\ Announces(j)' /\ i <= j => mailbox'[i].value <= mailbox'[j].value
    BY <1>2, <1>5 DEF AddressInv, AddressOrder
  <2>3. a <= announced
    BY <1>4 DEF ServerTypeOK
  <2> QED BY <1>1, <2>1, <2>2, <2>3 DEF AddressInv, AddressOrder
<1>7. LastIsComing'
  <2> SUFFICES ASSUME phase # "over", a # announced
               PROVE  \E i \in DOMAIN mailbox' : mailbox'[i] = Message("AddrReady", announced)
    BY <1>1 DEF LastIsComing
  <2>1. addr # announced
    BY <1>4 DEF ServerTypeOK
  <2>2. PICK i \in DOMAIN mailbox : mailbox[i] = Message("AddrReady", announced)
    BY <2>1 DEF AddressInv, LastIsComing
  <2>3. i # 1
    BY <1>3, <2>2 DEF Message
  <2>4. i - 1 \in DOMAIN mailbox' /\ mailbox'[i - 1] = mailbox[i]
    BY <1>2, <2>3
  <2> QED BY <2>2, <2>4
<1>8. QuestionsInOrder'
  <2>1. \A v \in Waiters : wait[v] # "none" => wait'[v] # "none"
    BY <1>1 DEF Reply
  <2>2. addr' \in Nat /\ addr <= addr' /\ mailbox[1].value <= addr'
    BY <1>1, <1>3, <1>4
  <2> QED BY <1>1, <2>1, <2>2, QuestionsWhenTaken DEF QuestionsInOrder
<1>9. AddressNotStale'
  <2>1. \A v \in Waiters : /\ wait'[v] = IF v \in listeners THEN "Ok" ELSE wait[v]
                           /\ got'[v] = IF v \in listeners THEN a ELSE got[v]
    BY <1>1 DEF Reply
  <2>2. \A v \in listeners : a >= since[v] /\ v \in Waiters
    BY <1>4 DEF AddressInv, QuestionsInOrder, ServerTypeOK
  <2>3. a \in 1 .. binds
    BY <1>4 DEF ServerTypeOK
  <2> QED BY <1>1, <2>1, <2>2, <2>3 DEF AddressInv, AddressNotStale
<1> QED BY <1>6, <1>7, <1>8, <1>9 DEF AddressInv

\* A bind gives an address above all others, and no other listener has one.
LEMMA AddressBound ==
  ASSUME ServerTypeOK, ListenerInv, AddressInv, NEW s \in Slots, Bind(s)
  PROVE  AddressInv'
<1>1. /\ listener[s] = "starting"
      /\ UNCHANGED <<phase, mailbox, addr, announced, listeners, wait, got, since>>
  BY DEF Bind, server, waits
<1>2. \A t \in Slots : t # s => listener[t] = "none"
  BY <1>1 DEF ListenerInv, OneListener, Slots
<1>3. CASE /\ binds' = binds + 1 /\ bound' = [bound EXCEPT ![s] = binds + 1]
           /\ listener' = [listener EXCEPT ![s] = "bound"]
  <2>1. \A t \in Slots : listener'[t] = "bound" => t = s
    BY <1>2, <1>3 DEF ListenerInv, ListenerTypeOK
  <2>2. bound'[s] = binds + 1
    BY <1>3 DEF ServerTypeOK
  <2>3. AddressOrder'
    BY <1>1, <1>3, <2>1, <2>2 DEF AddressInv, AddressOrder, Announces, ServerTypeOK
  <2>4. LastIsComing' /\ QuestionsInOrder'
    BY <1>1 DEF AddressInv, LastIsComing, QuestionsInOrder, Announces, AsksFor
  <2>5. AddressNotStale'
    BY <1>1, <1>3 DEF AddressInv, AddressNotStale, ServerTypeOK
  <2> QED BY <2>3, <2>4, <2>5 DEF AddressInv
<1>4. CASE listener' = [listener EXCEPT ![s] = "Err"] /\ UNCHANGED <<binds, bound>>
  BY <1>1, <1>4, AddressAside DEF ListenerInv, ListenerTypeOK
<1> QED BY <1>3, <1>4 DEF Bind

\* The listener announces its address, which is the last.
LEMMA AddressAnnounced ==
  ASSUME ServerTypeOK, ListenerInv, AddressInv, NEW s \in Slots, Announce(s)
  PROVE  AddressInv'
<1> DEFINE m == Message("AddrReady", bound[s])
<1>1. /\ listener[s] = "bound" /\ mailbox' = Append(mailbox, m) /\ announced' = bound[s]
      /\ listener' = [listener EXCEPT ![s] = "serving"]
      /\ UNCHANGED <<phase, addr, binds, bound, listeners, wait, got, since>>
  BY DEF Announce, server, waits
<1>2. m \in MessageType /\ m.kind = "AddrReady" /\ m.value = bound[s]
  BY DEF Message, MessageType, ServerTypeOK
<1>3. /\ Len(mailbox) \in Nat /\ DOMAIN mailbox = 1 .. Len(mailbox)
      /\ DOMAIN mailbox' = 1 .. Len(mailbox) + 1
      /\ \A i \in DOMAIN mailbox : mailbox'[i] = mailbox[i]
      /\ mailbox'[Len(mailbox) + 1] = m
  BY <1>1, <1>2, SentAt
<1>4. bound[s] \in 1 .. binds /\ announced <= bound[s] /\ addr <= announced
  BY <1>1 DEF AddressInv, AddressOrder
<1>5. \A t \in Slots : listener'[t] # "bound"
  BY <1>1 DEF ListenerInv, ListenerTypeOK, OneListener, Slots
<1>6. LastIsComing'
  BY <1>1, <1>3 DEF LastIsComing
<1> HIDE DEF m
<1>7. AddressOrder'
  <2>1. \A i \in DOMAIN mailbox' :
          Announces(i)' => mailbox'[i].value \in 1 .. bound[s] /\ addr <= mailbox'[i].value
    BY <1>2, <1>3, <1>4 DEF AddressInv, AddressOrder, Announces, ServerTypeOK
  <2>2. \A i, j \in DOMAIN mailbox' :
          Announces(i)' /\ Announces(j)' /\ i <= j => mailbox'[i].value <= mailbox'[j].value
    <3>1. SUFFICES ASSUME NEW i \in DOMAIN mailbox', NEW j \in DOMAIN mailbox',
                          Announces(i)', Announces(j)', i <= j
                   PROVE  mailbox'[i].value <= mailbox'[j].value
      OBVIOUS
    <3>2. CASE j \in DOMAIN mailbox
      <4>1. i \in DOMAIN mailbox
        BY <1>3, <3>1, <3>2
      <4> QED BY <1>3, <3>1, <3>2, <4>1 DEF AddressInv, AddressOrder, Announces
    <3>3. CASE j = Len(mailbox) + 1
      <4>1. mailbox'[j].value = bound[s]
        BY <1>2, <1>3, <3>3
      <4>2. mailbox'[i].value \in 1 .. bound[s]
        BY <2>1, <3>1
      <4> QED BY <1>4, <4>1, <4>2
    <3> QED BY <1>3, <3>2, <3>3
  <2>3. addr <= bound[s] /\ bound[s] <= binds
    BY <1>4 DEF ServerTypeOK
  <2> QED BY <1>1, <1>5, <2>1, <2>2, <2>3 DEF AddressOrder
<1>8. QuestionsInOrder'
  <2>1. \A i \in DOMAIN mailbox' : \A w \in Waiters : AsksFor(i, w)' => i \in DOMAIN mailbox /\ AsksFor(i, w)
    BY <1>2, <1>3 DEF AsksFor, Message
  <2>2. \A i \in DOMAIN mailbox : Announces(i)' = Announces(i) /\ i \in DOMAIN mailbox'
    BY <1>3 DEF Announces
  <2> QED BY <1>1, <1>3, <2>1, <2>2 DEF AddressInv, QuestionsInOrder
<1>9. AddressNotStale'
  BY <1>1 DEF AddressInv, AddressNotStale
<1> QED BY <1>6, <1>7, <1>8, <1>9 DEF AddressInv

\* Every step keeps the invariant.
LEMMA AddressStep ==
  ASSUME ServerTypeOK, ListenerInv, AddressInv, [Next]_vars
  PROVE  AddressInv'
<1>1. ASSUME NEW route \in Routes, add_route(route)
      PROVE  AddressInv'
  <2> DEFINE m == Message("AddRoute", route)
  <2>1. m \in MessageType /\ m.kind = "AddRoute" /\ mailbox' = Append(mailbox, m)
    BY <1>1 DEF Message, MessageType, add_route
  <2>2. UNCHANGED <<phase, addr, announced, binds, bound, listener, listeners, wait, got, since>>
    BY <1>1 DEF add_route, server, tasks, waits
  <2> HIDE DEF m
  <2>3. AddressOrder' /\ LastIsComing'
    BY <2>1, <2>2, OrderWhenSent
  <2>4. /\ Len(mailbox) \in Nat /\ DOMAIN mailbox = 1 .. Len(mailbox)
        /\ DOMAIN mailbox' = 1 .. Len(mailbox) + 1
        /\ \A i \in DOMAIN mailbox : mailbox'[i] = mailbox[i]
        /\ mailbox'[Len(mailbox) + 1] = m
    BY <2>1, SentAt
  <2>5. \A i \in DOMAIN mailbox' : \A w \in Waiters : AsksFor(i, w)' => i \in DOMAIN mailbox /\ AsksFor(i, w)
    BY <2>1, <2>4 DEF AsksFor, Message
  <2>6. \A i \in DOMAIN mailbox : Announces(i)' = Announces(i) /\ i \in DOMAIN mailbox'
    BY <2>4 DEF Announces
  <2>7. QuestionsInOrder'
    BY <2>2, <2>4, <2>5, <2>6 DEF AddressInv, QuestionsInOrder
  <2>8. AddressNotStale'
    BY <2>2 DEF AddressInv, AddressNotStale
  <2> QED BY <2>3, <2>7, <2>8 DEF AddressInv
<1>2. CASE AddRoute
  <2>1. /\ Take("AddRoute")
        /\ UNCHANGED <<phase, addr, announced, binds, bound, listener, listeners, wait, got, since>>
    BY <1>2 DEF AddRoute, tasks, waits
  <2>2. mailbox # <<>> /\ mailbox' = Tail(mailbox) /\ Head(mailbox).kind = "AddRoute"
    BY <2>1 DEF Take
  <2>3. AddressOrder' /\ LastIsComing'
    BY <2>1, OrderWhenTaken
  <2>4. ~Announces(1)
    BY <2>2, TakenAt DEF Announces
  <2>5. addr' \in Nat /\ addr <= addr'
    BY <2>1 DEF ServerTypeOK
  <2>6. \A w \in listeners : wait'[w] # "none" /\ since'[w] <= addr'
    BY <2>1 DEF AddressInv, QuestionsInOrder
  <2>7. QuestionsInOrder'
    BY <2>1, <2>2, <2>4, <2>5, <2>6, QuestionsWhenTaken DEF QuestionsInOrder
  <2>8. AddressNotStale'
    BY <2>1 DEF AddressInv, AddressNotStale
  <2> QED BY <2>3, <2>7, <2>8 DEF AddressInv
<1>3. CASE Interrupted
  <2>1. CASE Ends
    BY <1>3, <2>1, AddressEnds DEF Interrupted, tasks
  <2>2. CASE phase' = "terminating" /\ phase = "running" /\ UNCHANGED <<mailbox, server, waits>>
    <3>1. UNCHANGED <<mailbox, addr, announced, binds, bound, listener, listeners, wait, got, since>>
      BY <1>3, <2>2 DEF Interrupted, server, tasks, waits
    <3>2. LastIsComing'
      BY <2>2, <3>1 DEF AddressInv, LastIsComing
    <3>3. AddressOrder' /\ QuestionsInOrder' /\ AddressNotStale'
      BY <3>1 DEF AddressInv, AddressOrder, QuestionsInOrder, AddressNotStale, Announces, AsksFor
    <3> QED BY <3>2, <3>3 DEF AddressInv
  <2> QED BY <1>3, <2>1, <2>2 DEF Interrupted
<1>4. ASSUME NEW s \in Slots, Eliminated(s)
      PROVE  AddressInv'
  <2>1. /\ UNCHANGED <<bound, binds, announced>>
        /\ \A t \in Slots : listener'[t] = "bound" => listener[t] = "bound"
    BY <1>4 DEF Eliminated, ListenerInv, ListenerTypeOK
  <2>2. CASE Ends
    BY <2>1, <2>2, AddressEnds
  <2>3. CASE UNCHANGED <<phase, mailbox, addr, listeners, waits>>
    BY <2>1, <2>3, AddressAside DEF waits
  <2> QED BY <1>4, <2>2, <2>3 DEF Eliminated
<1>5. CASE RestartListener
  <2>1. PICK s \in Slots : listener' = [listener EXCEPT ![s] = "starting"]
    BY <1>5 DEF RestartListener, start_http_listener
  <2>2. \A t \in Slots : listener'[t] = "bound" => listener[t] = "bound"
    BY <2>1 DEF ListenerInv, ListenerTypeOK
  <2> QED BY <1>5, <2>2, AddressAside DEF RestartListener, waits
<1>6. ASSUME NEW s \in Slots, StartsToDrain(s) \/ Drained(s) \/ TimedOut(s) \/ ServeFails(s)
      PROVE  AddressInv'
  <2>1. PICK state \in States \ {"bound"} : listener' = [listener EXCEPT ![s] = state]
    BY <1>6 DEF StartsToDrain, Drained, TimedOut, Returns, ServeFails, States
  <2>2. \A t \in Slots : listener'[t] = "bound" => listener[t] = "bound"
    BY <2>1 DEF ListenerInv, ListenerTypeOK
  <2> QED BY <1>6, <2>2, AddressAside
      DEF StartsToDrain, Drained, TimedOut, Returns, ServeFails, server, waits
<1>7. CASE OtherTakesPort \/ OtherReleasesPort \/ AppEnds
  BY <1>7, AddressAside DEF OtherTakesPort, OtherReleasesPort, AppEnds, server, tasks, waits
<1>8. ASSUME NEW q \in Requests, ClientStep(q) \/ SocketStep(q)
      PROVE  AddressInv'
  BY <1>8, AddressAside DEF ClientStep, SocketStep, Answers, ClientLeaves, Call, Upgraded, Worker,
     Connect, SessionStopped, SessionEnds, Becomes, server, tasks, waits
<1>9. CASE UNCHANGED vars
  BY <1>9, AddressAside DEF vars, server, tasks, waits
<1> QED BY <1>1, <1>2, <1>3, <1>4, <1>5, <1>6, <1>7, <1>8, <1>9, AddressAsked, AddressAnswered,
           AddressTaken, AddressBound, AddressAnnounced DEF Next, HandlerStep, ListenerStep

\* wait_for_address() never returns an address that had been replaced when it was
\* called, however the listener fails and comes back, nor one that was never bound.
THEOREM AnswersAreFresh == Spec => []AddressNotStale
<1>1. Init => AddressInv
  BY DEF Init, AddressInv, AddressOrder, LastIsComing, QuestionsInOrder, AddressNotStale, Slots
<1>2. ServerTypeOK /\ [Next]_vars => ServerTypeOK'
  BY ServerTypeStep
<1>3. ListenerInv /\ [Next]_vars => ListenerInv'
  BY ListenerStepKeeps
<1>4. ServerTypeOK /\ ListenerInv /\ AddressInv /\ [Next]_vars => AddressInv'
  BY AddressStep
<1>5. AddressInv => AddressNotStale
  BY DEF AddressInv
<1> QED BY <1>1, <1>2, <1>3, <1>4, <1>5, ServerTypeInit, ListenerInit, PTL DEF Spec

=============================================================================
