----------------------------- MODULE HttpServer ------------------------------
(***************************************************************************)
(* The HTTP server of meio-connect (meio-connect/src/server): the actor,   *)
(* the HyperRoutine task that listens for it, the requests hyper hands to  *)
(* Svc::call, and the actor the routes point to (the app).                 *)
(*                                                                         *)
(* The listener is a lite task.  It binds, announces the address to the    *)
(* actor through the mailbox, and serves.  If it fails the actor schedules *)
(* a restart.  When the actor shuts down the listener drains, for no       *)
(* longer than a timeout, and the actor ends after it.  Connections are    *)
(* tasks of hyper, which outlive both.                                     *)
(*                                                                         *)
(* A listener has one of two slots, so that a second one beside the first  *)
(* could be seen.  Its address is the number of the bind: with port 0 the  *)
(* system gives a new one each time.                                       *)
(***************************************************************************)
EXTENDS RoutingTable, FiniteSets

CONSTANTS
  Paths,
  Waiters,      \* callers of wait_for_address().recv()
  MaxRequests,  \* bound on the requests of clients
  Silent,       \* requests of clients that need not answer the close of a session
  MaxFailures   \* bound on the failures of a server that was bound

ASSUME HttpServerAssumption ==
  /\ MaxFailures \in Nat /\ MaxRequests \in Nat /\ Silent \subseteq 1 .. MaxRequests
  /\ \A route \in Routes : paths[route] \subseteq Paths

Slots == {1, 2}
Requests == 1 .. MaxRequests

VARIABLES
  phase,        \* of the actor: running, terminating or over
  retry,        \* retry_interval is Some
  mailbox,      \* AddRoute, AddrReady and WaitForAddress messages
  restart,      \* number of RestartListener in the delay queue
  addr,         \* AddrState: the address assigned, or 0
  listeners,    \* ... and the responders that wait for one
  routes,
  listener,     \* of a slot: where HyperRoutine is
  bound,        \* of a slot: its address
  port,         \* free, of another process, or ours
  binds, announced, failures,  \* how many there have been
  wait,         \* of a waiter: what recv() has got
  got, since,   \* its address; history: what was announced before it asked
  app,          \* the actor of the routes exists
  request,      \* where it is; settled: answered, or its connection is closed
  served_by,    \* the address whose listener it keeps from draining, or 0
  chosen        \* history: the routes that requests for a path were given to

server == <<retry, addr, listeners, routes, restart>>
tasks == <<listener, bound, port, binds, announced, failures>>
waits == <<wait, got, since>>
clients == <<app, request, served_by, chosen>>
vars == <<phase, mailbox, server, tasks, waits, clients>>

Init ==
  /\ phase = "running" /\ retry \in BOOLEAN /\ mailbox = <<>> /\ restart = 0
  /\ addr = 0 /\ listeners = {} /\ routes = <<>>
  /\ listener = [s \in Slots |-> IF s = 1 THEN "starting" ELSE "none"]
  /\ bound = [s \in Slots |-> 0] /\ port \in {"free", "other"}
  /\ binds = 0 /\ announced = 0 /\ failures = 0
  /\ wait = [w \in Waiters |-> "none"] /\ got = [w \in Waiters |-> 0]
  /\ since = [w \in Waiters |-> 0]
  /\ app = TRUE /\ request = [q \in Requests |-> "none"]
  /\ served_by = [q \in Requests |-> 0]
  /\ chosen = [path \in Paths |-> {}]
-----------------------------------------------------------------------------
(* HttpServerLink.  act() fails when the actor is over.                     *)

Message(kind, value) == [kind |-> kind, value |-> value]
Queued(kind, value) == \E i \in DOMAIN mailbox : mailbox[i] = Message(kind, value)

\* Every route is added once.
add_route(route) ==
  /\ phase # "over" /\ ~Queued("AddRoute", route)
  /\ \A i \in DOMAIN routes : routes[i] # route
  /\ mailbox' = Append(mailbox, Message("AddRoute", route))
  /\ UNCHANGED <<phase, server, tasks, waits, clients>>

wait_for_address(w) ==
  /\ wait[w] = "none"
  /\ since' = [since EXCEPT ![w] = announced]
  /\ \/ /\ phase # "over"
        /\ mailbox' = Append(mailbox, Message("WaitForAddress", w))
        /\ wait' = [wait EXCEPT ![w] = "waiting"]
     \/ phase = "over" /\ wait' = [wait EXCEPT ![w] = "Err"] /\ UNCHANGED mailbox
  /\ UNCHANGED <<phase, server, tasks, got, clients>>
-----------------------------------------------------------------------------
(* The handlers of the actor.                                               *)

Take(kind) == mailbox # <<>> /\ Head(mailbox).kind = kind /\ mailbox' = Tail(mailbox)

AddRoute ==
  /\ phase # "over" /\ Take("AddRoute")
  /\ routes' = insert_route(routes, Head(mailbox).value)
  /\ UNCHANGED <<phase, retry, addr, listeners, restart, tasks, waits, clients>>

Reply(W, a) ==
  /\ wait' = [w \in Waiters |-> IF w \in W THEN "Ok" ELSE wait[w]]
  /\ got' = [w \in Waiters |-> IF w \in W THEN a ELSE got[w]]

WaitForAddress ==
  /\ phase # "over" /\ Take("WaitForAddress")
  /\ LET w == Head(mailbox).value IN
       \/ addr = 0 /\ listeners' = listeners \cup {w} /\ UNCHANGED <<wait, got>>
       \/ addr # 0 /\ Reply({w}, addr) /\ UNCHANGED listeners
  /\ UNCHANGED <<phase, retry, addr, routes, restart, tasks, since, clients>>

\* Mutant: only the first address is kept.
AddrReadyOnce ==
  /\ phase # "over" /\ Take("AddrReady")
  /\ addr' = IF addr = 0 THEN Head(mailbox).value ELSE addr
  /\ Reply(listeners, Head(mailbox).value) /\ listeners' = {}
  /\ UNCHANGED <<phase, retry, routes, restart, tasks, since, clients>>

\* Mutant: the listeners are lost in the swap.
AddrReadyForgets ==
  /\ phase # "over" /\ Take("AddrReady")
  /\ addr' = Head(mailbox).value /\ listeners' = {}
  /\ UNCHANGED <<phase, retry, routes, restart, tasks, waits, clients>>

AddrReady ==
  /\ phase # "over" /\ Take("AddrReady")
  /\ addr' = Head(mailbox).value
  /\ Reply(listeners, Head(mailbox).value) /\ listeners' = {}
  /\ UNCHANGED <<phase, retry, routes, restart, tasks, since, clients>>

start_http_listener ==
  \E s \in Slots :
    /\ listener[s] = "none" /\ \A t \in 1 .. s - 1 : listener[t] # "none"
    /\ listener' = [listener EXCEPT ![s] = "starting"]

\* A task that has ended is a child until its notice has been handled.
Children == {s \in Slots : listener[s] # "none"}

\* The end of the actor drops the mailbox, the delay queue and the responders.
Ends ==
  /\ phase' = "over" /\ mailbox' = <<>> /\ restart' = 0 /\ listeners' = {}
  /\ wait' = [w \in Waiters |-> IF wait[w] = "waiting" THEN "Err" ELSE wait[w]]
  /\ UNCHANGED <<retry, addr, routes, got, since>>

\* Mutant: the actor does not wait for its listener.
InterruptedAtOnce == phase = "running" /\ Ends /\ UNCHANGED <<tasks, clients>>

\* InterruptedBy: ctx.shutdown().
Interrupted ==
  /\ phase = "running"
  /\ \/ Children = {} /\ Ends
     \/ Children # {} /\ phase' = "terminating" /\ UNCHANGED <<mailbox, server, waits>>
  /\ UNCHANGED <<tasks, clients>>

\* TaskEliminated.
Eliminated(s) ==
  /\ phase # "over" /\ listener[s] \in {"Ok", "Err"}
  /\ listener' = [listener EXCEPT ![s] = "none"]
  /\ \/ phase = "terminating" /\ Children = {s} /\ Ends
     \/ /\ ~(phase = "terminating" /\ Children = {s})
        /\ restart' = IF phase = "running" /\ listener[s] = "Err" /\ retry THEN restart + 1 ELSE restart
        /\ UNCHANGED <<phase, mailbox, retry, addr, listeners, routes, waits>>
  /\ UNCHANGED <<bound, port, binds, announced, failures, clients>>

RestartListener ==
  /\ phase # "over" /\ restart > 0
  /\ restart' = restart - 1 /\ start_http_listener
  /\ UNCHANGED <<phase, mailbox, retry, addr, listeners, routes, bound, port, binds, announced,
                 failures, waits, clients>>
-----------------------------------------------------------------------------
(* HyperRoutine.                                                            *)

Bind(s) ==
  /\ listener[s] = "starting"
  /\ \/ /\ port = "free" /\ port' = "ours" /\ binds' = binds + 1
        /\ bound' = [bound EXCEPT ![s] = binds + 1]
        /\ listener' = [listener EXCEPT ![s] = "bound"]
     \/ /\ port # "free" /\ listener' = [listener EXCEPT ![s] = "Err"]
        /\ UNCHANGED <<port, binds, bound>>
  /\ UNCHANGED <<phase, mailbox, server, announced, failures, waits, clients>>

\* self.owner.act(ready)?, which finds the actor: it waits for the listener.
Announce(s) ==
  /\ listener[s] = "bound" /\ phase # "over"
  /\ mailbox' = Append(mailbox, Message("AddrReady", bound[s])) /\ announced' = bound[s]
  /\ listener' = [listener EXCEPT ![s] = "serving"]
  /\ UNCHANGED <<phase, server, bound, port, binds, failures, waits, clients>>

ServeFails(s) ==
  /\ listener[s] = "serving" /\ failures < MaxFailures
  /\ failures' = failures + 1 /\ port' = "free"
  /\ listener' = [listener EXCEPT ![s] = "Err"]
  /\ UNCHANGED <<phase, mailbox, server, bound, binds, announced, waits, clients>>

\* The stop signal closes the listening socket.
StartsToDrain(s) ==
  /\ listener[s] = "serving" /\ phase # "running"
  /\ listener' = [listener EXCEPT ![s] = "draining"] /\ port' = "free"
  /\ UNCHANGED <<phase, mailbox, server, bound, binds, announced, failures, waits, clients>>

Answered(s) == \A q \in Requests : served_by[q] # bound[s]

Returns(s) ==
  /\ listener[s] = "draining"
  /\ listener' = [listener EXCEPT ![s] = "Ok"]
  /\ UNCHANGED <<phase, mailbox, server, bound, port, binds, announced, failures, waits, clients>>

\* select(delayed_stop, server_fut): the last answer is out ...
Drained(s) == Answered(s) /\ Returns(s)

\* Mutant: the timeout does not count while answers are due.
TimedOutIfAnswered(s) == Answered(s) /\ Returns(s)

\* ... or SHUTDOWN_TIMEOUT_SEC are over.
TimedOut(s) == ~Answered(s) /\ Returns(s)

\* Another process has the port now and then.  After the end of the running phase
\* at most one bind comes, and finds what was there before.
OtherTakesPort ==
  /\ phase = "running" /\ port = "free" /\ port' = "other"
  /\ UNCHANGED <<phase, mailbox, server, listener, bound, binds, announced, failures, waits, clients>>

OtherReleasesPort ==
  /\ phase = "running" /\ port = "other" /\ port' = "free"
  /\ UNCHANGED <<phase, mailbox, server, listener, bound, binds, announced, failures, waits, clients>>
-----------------------------------------------------------------------------
(* Svc::call, the future of the route, and the app.                         *)

\* A client connects and will send one request: clients are numbered in the
\* order in which they come.
Connect(q) ==
  /\ request[q] = "none" /\ \A p \in 1 .. q - 1 : request[p] # "none"
  /\ \E s \in Slots :
       /\ listener[s] = "serving"
       /\ served_by' = [served_by EXCEPT ![q] = bound[s]]
  /\ request' = [request EXCEPT ![q] = "connected"]
  /\ UNCHANGED <<phase, mailbox, server, tasks, waits, app, chosen>>

\* The next state of q is one of R.  A request that has come keeps the listener
\* from draining as long as its answer is due.
Becomes(q, R) ==
  /\ \E r \in R :
       /\ request' = [request EXCEPT ![q] = r]
       /\ served_by' = [served_by EXCEPT ![q] = IF r = "asked" THEN @ ELSE 0]
  /\ UNCHANGED <<phase, mailbox, server, tasks, waits, app>>

\* What try_route() of the route and the start of its future give.
Routed(route, path, parses) ==
  IF from_request(route, path, parses) = "Err" THEN "settled"
  ELSE IF route \in WsRoutes THEN "upgrading"
  ELSE IF app THEN "asked" ELSE "settled"

\* The request comes, also when its listener is over already.  Without a route
\* that matches, the answer is 404.
Call(q, path, parses) ==
  /\ request[q] = "connected"
  /\ \/ Matching(routes, path) = {} /\ Becomes(q, {"settled"}) /\ UNCHANGED chosen
     \/ /\ Matching(routes, path) # {}
        /\ LET route == FirstMatch(routes, path) IN
             /\ chosen' = [chosen EXCEPT ![path] = @ \cup {route}]
             /\ Becomes(q, {Routed(route, path, parses)})

\* The app answers, with a response or an error.
Answers(q) == app /\ request[q] = "asked" /\ Becomes(q, {"settled"}) /\ UNCHANGED chosen

ClientLeaves(q) ==
  request[q] \in {"connected", "asked", "session"} /\ Becomes(q, {"settled"}) /\ UNCHANGED chosen

\* Mutant: the socket waits for an app to come back.
UpgradedForApp(q) ==
  request[q] = "upgrading" /\ app /\ Becomes(q, {"offered", "settled"}) /\ UNCHANGED chosen

\* The spawned task: the upgrade fails, or act(WsReq) does, which drops the
\* socket, or the app has got it.
Upgraded(q) ==
  /\ request[q] = "upgrading"
  /\ Becomes(q, IF app THEN {"offered", "settled"} ELSE {"settled"}) /\ UNCHANGED chosen

\* The handler of WsReq spawns the worker(), or drops the WsHandler.
Worker(q) ==
  app /\ request[q] = "offered" /\ Becomes(q, {"session", "settled"}) /\ UNCHANGED chosen

\* The app ends: responders and sockets in its mailbox are dropped with it.
AppEnds ==
  /\ app /\ app' = FALSE
  /\ request' = [q \in Requests |->
       IF request[q] \in {"asked", "offered"} THEN "settled" ELSE request[q]]
  /\ served_by' = [q \in Requests |-> IF request[q] = "asked" THEN 0 ELSE served_by[q]]
  /\ UNCHANGED <<phase, mailbox, server, tasks, waits, chosen>>

\* WsProcessor gets the stop signal, from the app or with its end: the Talker
\* closes its channel, sends what is left in it and then Close, and waits.
SessionStopped(q) == request[q] = "session" /\ Becomes(q, {"closing"}) /\ UNCHANGED chosen

\* It waits, without a timeout, for the client: to take what is sent and to end
\* the stream, or else to break it.
SessionEnds(q) == request[q] = "closing" /\ Becomes(q, {"settled"}) /\ UNCHANGED chosen
-----------------------------------------------------------------------------
HandlerStep == AddRoute \/ WaitForAddress \/ AddrReady
ListenerStep(s) ==
  Bind(s) \/ Announce(s) \/ StartsToDrain(s) \/ Drained(s) \/ TimedOut(s)
ClientStep(q) ==
  \/ Connect(q) \/ Answers(q) \/ ClientLeaves(q)
  \/ \E p \in Paths, b \in BOOLEAN : Call(q, p, b)
SocketStep(q) == Upgraded(q) \/ Worker(q) \/ SessionStopped(q) \/ SessionEnds(q)

Next ==
  \/ \E route \in Routes : add_route(route)
  \/ \E w \in Waiters : wait_for_address(w)
  \/ HandlerStep \/ Interrupted \/ RestartListener \/ OtherTakesPort \/ OtherReleasesPort
  \/ AppEnds
  \/ \E s \in Slots : Eliminated(s) \/ ListenerStep(s) \/ ServeFails(s)
  \/ \E q \in Requests : ClientStep(q) \/ SocketStep(q)

Spec == Init /\ [][Next]_vars

\* What happens to a socket by itself: a session is stopped when the app has
\* ended, and a client that is not silent takes part in the closing handshake.
SocketMoves(q) ==
  \/ Upgraded(q) \/ Worker(q)
  \/ ~app /\ SessionStopped(q)
  \/ q \notin Silent /\ SessionEnds(q)

\* The runtime of the server takes messages, notices and timers, the executor
\* polls the tasks, and the timeout comes.  The app takes what is in its mailbox
\* but need not answer; nobody has to ask, to free the port or to shut down.
FairSpec ==
  /\ Spec
  /\ WF_vars(HandlerStep) /\ WF_vars(RestartListener)
  /\ \A s \in Slots : WF_vars(Eliminated(s) \/ ListenerStep(s))
  /\ \A q \in Requests : WF_vars(SocketMoves(q))
-----------------------------------------------------------------------------
\* There is one listener or one restart to come, however failures, restarts and
\* the shutdown fall together, and none is left when the actor is over: nothing
\* of it is bound to the port or will be.
NoStrayListener ==
  Cardinality(Children) + restart <= IF phase = "over" THEN 0 ELSE 1

\* wait_for_address() returns the address of a bind, and none that was replaced
\* by another one, announced before the question was asked.
AddressNotStale ==
  \A w \in Waiters : wait[w] = "Ok" => got[w] \in 1 .. binds /\ got[w] >= since[w]

\* Requests for the same path go to the same route, however many others that
\* match it are added between them, and after a restart of the listener.
SamePathSameRoute == \A path \in Paths : Cardinality(chosen[path]) <= 1

\* A caller that waits for the address gets it, if the server retries and unless
\* another process has the port, however often that one has taken it before; and
\* it gets an error at least when the server shuts down.
WaitersReturn ==
  \A w \in Waiters :
    (wait[w] = "waiting" /\ (phase # "running" \/ retry))
      ~> (wait[w] # "waiting" \/ (phase = "running" /\ port = "other"))

\* The shutdown of the server ends, also when the app never answers a request
\* and when the listener is just being started.
ShutdownEnds == (phase = "terminating") ~> (phase = "over")

\* Once the app has ended no client waits for it: requests that were passed to it
\* are answered with an error, the sockets that were promised with 101 or are in
\* its mailbox are closed, and its sessions too, but for the one whose client does
\* not finish the closing handshake: that one is left in it for ever.
ClientsSettle ==
  ~app ~> \A q \in Requests :
            /\ request[q] \notin {"asked", "upgrading", "offered", "session"}
            /\ request[q] = "closing" => q \in Silent
=============================================================================
