---------------------------- MODULE ScopedRuntime ----------------------------
(***************************************************************************)
(* meio/src/thread.rs: an actor in a runtime of its own thread, with a     *)
(* handle whose Drop sends a termination signal and then takes the mutex   *)
(* `blocker` that the thread holds until the actor is over.  Several       *)
(* scopes are alive side by side.                                          *)
(***************************************************************************)
CONSTANT Scopes

VARIABLES
  owner,    \* the thread with the handle: holds it, in drop(), or after it
  thread,   \* where the spawned thread is
  blocker,  \* who holds the mutex
  notified, \* the oneshot has been sent
  actor     \* the actor of the scope

vars == <<owner, thread, blocker, notified, actor>>

Init ==
  /\ owner = [s \in Scopes |-> "holds"]
  /\ thread = [s \in Scopes |-> "starting"]
  /\ blocker = [s \in Scopes |-> "free"]
  /\ notified = [s \in Scopes |-> FALSE]
  /\ actor = [s \in Scopes |-> "none"]
-----------------------------------------------------------------------------
(* The spawned thread.                                                      *)

\* Builder::build()? fails: term_rx is dropped with the closure.
BuildFails(s) ==
  /\ thread[s] = "starting"
  /\ thread' = [thread EXCEPT ![s] = "ended"]
  /\ UNCHANGED <<owner, blocker, notified, actor>>

\* The first thing entrypoint() does, on the new thread.
TakeBlocker(s) ==
  /\ thread[s] = "starting" /\ blocker[s] = "free"
  /\ blocker' = [blocker EXCEPT ![s] = "thread"]
  /\ thread' = [thread EXCEPT ![s] = "locked"]
  /\ UNCHANGED <<owner, notified, actor>>

SpawnActor(s) ==
  /\ thread[s] = "locked"
  /\ actor' = [actor EXCEPT ![s] = "running"]
  /\ thread' = [thread EXCEPT ![s] = "waiting"]
  /\ UNCHANGED <<owner, blocker, notified>>

\* notifier_rx.await?; interrupt()? fails if the actor has ended by itself, and
\* then the guard is dropped at once.
Interrupt(s) ==
  /\ thread[s] = "waiting" /\ notified[s]
  /\ IF actor[s] = "over"
     THEN thread' = [thread EXCEPT ![s] = "ended"] /\ blocker' = [blocker EXCEPT ![s] = "free"]
     ELSE thread' = [thread EXCEPT ![s] = "joining"] /\ UNCHANGED blocker
  /\ UNCHANGED <<owner, notified, actor>>

\* Mutant: the mutex is held until the handle is gone.
JoinHoldsBlocker(s) ==
  /\ thread[s] = "joining" /\ actor[s] = "over" /\ owner[s] = "dropped"
  /\ blocker' = [blocker EXCEPT ![s] = "free"]
  /\ thread' = [thread EXCEPT ![s] = "ended"]
  /\ UNCHANGED <<owner, notified, actor>>

\* join().await; drop(blocker)
JoinReturns(s) ==
  /\ thread[s] = "joining" /\ actor[s] = "over"
  /\ blocker' = [blocker EXCEPT ![s] = "free"]
  /\ thread' = [thread EXCEPT ![s] = "ended"]
  /\ UNCHANGED <<owner, notified, actor>>

ActorEnds(s) ==
  /\ actor[s] = "running"
  /\ actor' = [actor EXCEPT ![s] = "over"]
  /\ UNCHANGED <<owner, thread, blocker, notified>>
-----------------------------------------------------------------------------
(* Drop of the handle.                                                      *)

DropSends(s) ==
  /\ owner[s] = "holds"
  /\ IF thread[s] = "ended"                   \* the receiver is gone
     THEN owner' = [owner EXCEPT ![s] = "dropped"] /\ UNCHANGED notified
     ELSE owner' = [owner EXCEPT ![s] = "locking"] /\ notified' = [notified EXCEPT ![s] = TRUE]
  /\ UNCHANGED <<thread, blocker, actor>>

\* lock() blocks until the mutex is free; the guard is a temporary.
DropLocks(s) ==
  /\ owner[s] = "locking" /\ blocker[s] = "free"
  /\ owner' = [owner EXCEPT ![s] = "dropped"]
  /\ UNCHANGED <<thread, blocker, notified, actor>>

ThreadStep(s) == BuildFails(s) \/ TakeBlocker(s) \/ SpawnActor(s) \/ Interrupt(s) \/ JoinReturns(s)
DropStep(s) == DropSends(s) \/ DropLocks(s)

Next == \E s \in Scopes : ThreadStep(s) \/ ActorEnds(s) \/ DropStep(s)

Spec == Init /\ [][Next]_vars
-----------------------------------------------------------------------------
\* drop() does not hang on a scope whose actor obeys, in whatever state of its
\* start it finds the thread.
DropReturns == \A s \in Scopes : (owner[s] = "locking") ~> (owner[s] = "dropped")

\* The documentation of spawn(), "returns a handle to terminate it on `Drop`",
\* and of the lock in drop(), "wait for termination of the scope": when drop()
\* is over the actor does not run.
DropTerminates == \A s \in Scopes : owner[s] = "dropped" => actor[s] # "running"
=============================================================================
