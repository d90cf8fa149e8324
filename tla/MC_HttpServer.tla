---------------------------- MODULE MC_HttpServer ----------------------------
(* An instance of HttpServer for TLC.                                       *)
EXTENDS HttpServer, TLC

CONSTANTS page, socket, root, live

\* Both routes take the same path, and one of them another.
MCpaths == (page :> {root}) @@ (socket :> {root, live})
=============================================================================
