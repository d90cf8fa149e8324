------------------------------- MODULE System -------------------------------
(***************************************************************************)
(* System::wait_or_interrupt (meio/src/system.rs) and the stream of Ctrl-C *)
(* signals (meio/src/signal.rs): several calls wait in one process, each   *)
(* for its own actor; SIGINT reaches all of them.  The first signal        *)
(* interrupts the actor, and the call returns when the actor is over.      *)
(***************************************************************************)
EXTENDS Naturals

CONSTANTS
  Waits,       \* calls of wait_or_interrupt, each with its actor
  MaxSignals   \* bound on the number of SIGINTs

ASSUME SystemAssumption == MaxSignals \in Nat

VARIABLES
  pc,            \* "select" or how the call returned
  first_attempt,
  signals,       \* the fused CtrlC stream: armed, an item is ready, or ended
  actor,         \* running, its joiners are released, or its queue is dropped
  interrupted,   \* an Interrupt has been sent to the actor
  sigints,       \* number of SIGINTs so far
  second         \* history: a SIGINT came after the first one was handled

vars == <<pc, first_attempt, signals, actor, interrupted, sigints, second>>

Init ==
  /\ pc = [w \in Waits |-> "select"]
  /\ first_attempt = [w \in Waits |-> TRUE]
  /\ signals = [w \in Waits |-> "armed"]
  /\ actor = [w \in Waits |-> "running"]
  /\ interrupted = [w \in Waits |-> FALSE]
  /\ sigints = 0
  /\ second = [w \in Waits |-> FALSE]
-----------------------------------------------------------------------------
\* tokio wakes every pending ctrl_c() future.
Signal ==
  /\ sigints < MaxSignals
  /\ sigints' = sigints + 1
  /\ signals' = [w \in Waits |-> IF signals[w] = "armed" THEN "ready" ELSE signals[w]]
  /\ second' = [w \in Waits |-> second[w] \/ (pc[w] = "select" /\ ~first_attempt[w])]
  /\ UNCHANGED <<pc, first_attempt, actor, interrupted>>

\* CtrlC::stream() is ctrl_c().into_stream(), the stream of one future: it ends
\* with its first item, and select! skips an ended fused stream.
stream_after_item == "ended"

\* Mutant: the first signal already makes the call return.
ReturnOnSignal(w) ==
  /\ pc[w] = "select" /\ signals[w] = "ready"
  /\ signals' = [signals EXCEPT ![w] = stream_after_item]
  /\ pc' = [pc EXCEPT ![w] = "ok"]
  /\ UNCHANGED <<first_attempt, actor, interrupted, sigints, second>>

OnSignal(w) ==
  /\ pc[w] = "select" /\ signals[w] = "ready"
  /\ signals' = [signals EXCEPT ![w] = stream_after_item]
  /\ IF first_attempt[w]
     THEN /\ first_attempt' = [first_attempt EXCEPT ![w] = FALSE]
          /\ IF actor[w] = "dropped"        \* interrupt_by()? fails
             THEN pc' = [pc EXCEPT ![w] = "err"] /\ UNCHANGED interrupted
             ELSE interrupted' = [interrupted EXCEPT ![w] = TRUE] /\ UNCHANGED pc
     ELSE pc' = [pc EXCEPT ![w] = "ok"] /\ UNCHANGED <<first_attempt, interrupted>>
  /\ UNCHANGED <<actor, sigints, second>>

OnDone(w) ==
  /\ pc[w] = "select" /\ actor[w] # "running"
  /\ pc' = [pc EXCEPT ![w] = "ok"]
  /\ UNCHANGED <<first_attempt, signals, actor, interrupted, sigints, second>>

\* The actor ends, interrupted or not; module ActorRuntime has the details.
ActorReleases(w) ==
  /\ actor[w] = "running"
  /\ actor' = [actor EXCEPT ![w] = "released"]
  /\ UNCHANGED <<pc, first_attempt, signals, interrupted, sigints, second>>

ActorDrops(w) ==
  /\ actor[w] = "released"
  /\ actor' = [actor EXCEPT ![w] = "dropped"]
  /\ UNCHANGED <<pc, first_attempt, signals, interrupted, sigints, second>>

Next ==
  \/ Signal
  \/ \E w \in Waits : OnSignal(w) \/ OnDone(w) \/ ActorReleases(w) \/ ActorDrops(w)

Spec == Init /\ [][Next]_vars

\* The executor polls the call when the signal or the joiner is ready.  Nothing
\* forces an actor to end.
FairSpec == Spec /\ \A w \in Waits : WF_vars(OnSignal(w) \/ OnDone(w))
-----------------------------------------------------------------------------
\* A call never gives up on an actor that has not heard of the signal: it
\* returns when the actor is over, or after having interrupted it.
NeverAbandonsUnasked ==
  \A w \in Waits : pc[w] # "select" => actor[w] # "running" \/ interrupted[w]

\* The documentation of wait_or_interrupt: "for the second signal the function
\* just returned to let the app terminate without waiting for any active task".
SecondSignalReturns == \A w \in Waits : second[w] ~> (pc[w] # "select")
=============================================================================
