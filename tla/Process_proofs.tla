--------------------------- MODULE Process_proofs ---------------------------
(***************************************************************************)
(* Theorems about a process with any number of waiting calls: it keeps the *)
(* specifications of its two parts, and no call abandons its actor.        *)
(***************************************************************************)
EXTENDS Process, TLAPS

ProcessSpec == ProcessInit /\ [][ProcessNext]_processVars

\* The composition adds guards and no behaviour to System: each of its steps is
\* a step of the calls, the signals and the actors, or leaves them alone.
LEMMA SystemStep ==
  ASSUME [ProcessNext]_processVars
  PROVE  [Next]_vars
<1>1. CASE Signal
  BY <1>1 DEF Next
<1>2. ASSUME NEW w \in Waits, CallStep(w) \/ Releases(w) \/ Drops(w)
      PROVE  Next
  BY <1>2 DEF CallStep, Releases, Drops, Next
<1>3. ASSUME NEW w \in Waits, DropsHandle(w) \/ ScopeStep(w)
      PROVE  UNCHANGED vars
  BY <1>3 DEF DropsHandle, ScopeStep
<1>4. CASE UNCHANGED processVars
  BY <1>4 DEF processVars
<1> QED BY <1>1, <1>2, <1>3, <1>4 DEF ProcessNext

\* The same for the threads and their handles.
LEMMA ScopeKept ==
  ASSUME [ProcessNext]_processVars
  PROVE  [Scope!Next]_(Scope!vars)
<1>1. ASSUME UNCHANGED scopeVars
      PROVE  UNCHANGED Scope!vars
  BY <1>1 DEF scopeVars, Scope!vars
<1>2. CASE Signal /\ UNCHANGED scopeVars
  BY <1>1, <1>2
<1>3. ASSUME NEW w \in Waits, CallStep(w) \/ Releases(w) \/ Drops(w)
      PROVE  UNCHANGED Scope!vars
  BY <1>1, <1>3 DEF CallStep, Releases, Drops
<1>4. ASSUME NEW w \in Waits, DropsHandle(w) \/ ScopeStep(w)
      PROVE  Scope!Next
  BY <1>4 DEF DropsHandle, ScopeStep, Scope!Next, Scope!DropStep
<1>5. CASE UNCHANGED processVars
  BY <1>1, <1>5 DEF processVars
<1> QED BY <1>2, <1>3, <1>4, <1>5 DEF ProcessNext

\* Both entry points keep their own specifications when they live in one
\* process, and share the actor that owns a handle: what is true of
\* wait_or_interrupt alone and of a scoped runtime alone is true of both here.
THEOREM PartsKept == ProcessSpec => Spec /\ Scope!Spec
<1>1. ProcessInit => Init /\ Scope!Init
  BY DEF ProcessInit
<1>2. [ProcessNext]_processVars => [Next]_vars /\ [Scope!Next]_(Scope!vars)
  BY SystemStep, ScopeKept
<1> QED BY <1>1, <1>2, PTL DEF ProcessSpec, Spec, Scope!Spec
-----------------------------------------------------------------------------
(* No call gives up on an actor that has not heard of the signal.           *)

SystemTypeOK ==
  /\ pc \in [Waits -> {"select", "ok", "err"}]
  /\ first_attempt \in [Waits -> BOOLEAN]
  /\ actor \in [Waits -> {"running", "released", "dropped"}]
  /\ interrupted \in [Waits -> BOOLEAN]

\* The first attempt is over only when the interrupt has been sent, or when the
\* actor was gone already.
AttemptMeansAsked ==
  \A w \in Waits : ~first_attempt[w] => interrupted[w] \/ actor[w] = "dropped"

AskedInv == SystemTypeOK /\ AttemptMeansAsked /\ NeverAbandonsUnasked

\* The invariant holds when the calls begin to wait.
LEMMA AskedInit == Init => AskedInv
  BY DEF Init, AskedInv, SystemTypeOK, AttemptMeansAsked, NeverAbandonsUnasked

\* Every step keeps it.
LEMMA AskedStep ==
  ASSUME AskedInv, [Next]_vars
  PROVE  AskedInv'
<1> USE DEF AskedInv, SystemTypeOK, AttemptMeansAsked, NeverAbandonsUnasked
<1>1. CASE Signal
  BY <1>1 DEF Signal
<1>2. ASSUME NEW w \in Waits, OnSignal(w)
      PROVE  AskedInv'
  <2>1. CASE first_attempt[w] /\ actor[w] = "dropped"
    BY <1>2, <2>1 DEF OnSignal
  <2>2. CASE first_attempt[w] /\ actor[w] # "dropped"
    BY <1>2, <2>2 DEF OnSignal
  <2>3. CASE ~first_attempt[w]
    BY <1>2, <2>3 DEF OnSignal
  <2> QED BY <2>1, <2>2, <2>3
<1>3. ASSUME NEW w \in Waits, OnDone(w)
      PROVE  AskedInv'
  BY <1>3 DEF OnDone
<1>4. ASSUME NEW w \in Waits, ActorReleases(w) \/ ActorDrops(w)
      PROVE  AskedInv'
  BY <1>4 DEF ActorReleases, ActorDrops
<1>5. CASE UNCHANGED vars
  BY <1>5 DEF vars
<1> QED BY <1>1, <1>2, <1>3, <1>4, <1>5 DEF Next

\* wait_or_interrupt never returns without having interrupted an actor that
\* still runs, however many calls wait and whenever the signals come.
THEOREM SystemNeverAbandons == Spec => []NeverAbandonsUnasked
<1>1. Init => AskedInv
  BY AskedInit
<1>2. AskedInv /\ [Next]_vars => AskedInv'
  BY AskedStep
<1> QED BY <1>1, <1>2, PTL DEF Spec, AskedInv

\* And neither does it in a process with background runtimes.
THEOREM ProcessNeverAbandons == ProcessSpec => []NeverAbandonsUnasked
  BY PartsKept, SystemNeverAbandons, PTL
=============================================================================
