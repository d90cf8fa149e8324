---------------------------- MODULE RoutingTable -----------------------------
(***************************************************************************)
(* The routes of an HttpServer (meio-connect/src/server/route.rs, and the  *)
(* WsRoute of websocket.rs), as pure operators.                            *)
(*                                                                         *)
(* The table is a slab that only grows, read in the order of its keys: a   *)
(* sequence.  It is behind an Arc, so that the actor, every listener and   *)
(* every connection see the same one.  A request is a path and whether its *)
(* query can be parsed into what the route expects.                        *)
(***************************************************************************)
EXTENDS Naturals, Sequences

CONSTANTS
  Routes,
  paths,       \* DirectPath::paths() of a route
  WsRoutes     \* the routes that are WsRoutes; the others are WebRoutes

ASSUME RoutingTableAssumption ==
  /\ DOMAIN paths = Routes
  /\ WsRoutes \subseteq Routes

\* FromRequest and WsFromRequest of a DirectPath: None, Some(Ok) or Some(Err).
from_request(route, path, parses) ==
  IF path \notin paths[route] THEN "None" ELSE IF parses THEN "Ok" ELSE "Err"

insert_route(routes, route) == Append(routes, route)

Matching(routes, path) == {i \in DOMAIN routes : path \in paths[routes[i]]}

\* Mutant: the route that was added last is found first.
LastMatch(routes, path) ==
  routes[CHOOSE i \in Matching(routes, path) : \A j \in Matching(routes, path) : j <= i]

\* The loop of Svc::call over the table: the first route that takes the
\* request, whether it can parse the query or not.
FirstMatch(routes, path) ==
  routes[CHOOSE i \in Matching(routes, path) : \A j \in Matching(routes, path) : i <= j]
=============================================================================
