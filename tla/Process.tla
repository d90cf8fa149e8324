------------------------------ MODULE Process -------------------------------
(***************************************************************************)
(* A process with both entry points of meio: each actor that               *)
(* wait_or_interrupt waits for (module System) has a background runtime in *)
(* a thread of its own (module ScopedRuntime), whose handle is a field of  *)
(* the actor.                                                              *)
(*                                                                         *)
(* The handle is dropped in a handler of the actor or with the actor, at   *)
(* the end of entrypoint().  In both cases drop() blocks there: in a       *)
(* handler before anything else of the actor happens, at the end after the *)
(* joiners are released and before the channels are dropped.               *)
(***************************************************************************)
EXTENDS System

VARIABLES owner, thread, blocker, notified, scope_actor

Scope == INSTANCE ScopedRuntime WITH Scopes <- Waits, actor <- scope_actor

scopeVars == <<owner, thread, blocker, notified, scope_actor>>
processVars == <<vars, scopeVars>>

ProcessInit == Init /\ Scope!Init
-----------------------------------------------------------------------------
CallStep(w) == (OnSignal(w) \/ OnDone(w)) /\ UNCHANGED scopeVars

\* The actor leaves its loop; not while a handler is blocked in drop().
Releases(w) == owner[w] # "locking" /\ ActorReleases(w) /\ UNCHANGED scopeVars

\* Mutant: the handle is leaked with the actor.
LeakHandle(w) == actor[w] = "running" /\ Scope!DropSends(w) /\ UNCHANGED vars

DropsHandle(w) == actor[w] # "dropped" /\ Scope!DropSends(w) /\ UNCHANGED vars

\* The fields of ActorRuntime are dropped in their order: the actor, with the
\* handle, before the channels.
Drops(w) == owner[w] = "dropped" /\ ActorDrops(w) /\ UNCHANGED scopeVars

ScopeStep(w) ==
  (Scope!ThreadStep(w) \/ Scope!ActorEnds(w) \/ Scope!DropLocks(w)) /\ UNCHANGED vars

ProcessNext ==
  \/ Signal /\ UNCHANGED scopeVars
  \/ \E w \in Waits : CallStep(w) \/ Releases(w) \/ DropsHandle(w) \/ Drops(w) \/ ScopeStep(w)

\* Threads and woken calls run, and an interrupted actor ends, here and in the
\* background.  Nobody has to drop a handle before the end of its actor.
FairProcess ==
  /\ ProcessInit /\ [][ProcessNext]_processVars
  /\ \A w \in Waits :
       /\ WF_processVars(CallStep(w))
       /\ WF_processVars(interrupted[w] /\ Releases(w))
       /\ WF_processVars(actor[w] = "released" /\ DropsHandle(w))
       /\ WF_processVars(Drops(w))
       /\ WF_processVars(Scope!ThreadStep(w) /\ UNCHANGED vars)
       /\ WF_processVars(Scope!DropLocks(w) /\ UNCHANGED vars)
       /\ WF_processVars(thread[w] = "joining" /\ Scope!ActorEnds(w) /\ UNCHANGED vars)
-----------------------------------------------------------------------------
\* drop() does not hang on a scope whose actor obeys, in whatever state of its
\* start it finds the thread, and so the actor that owns the handle goes on.
DropReturns == Scope!DropReturns

\* One SIGINT ends the process in an orderly way: every waiting call returns,
\* its actor is dropped, and the background thread that belonged to the actor
\* comes to its end, however early the signal came.
SignalEndsProcess ==
  \A w \in Waits :
    (sigints > 0) ~> (pc[w] # "select" /\ actor[w] = "dropped" /\ thread[w] = "ended")
=============================================================================
