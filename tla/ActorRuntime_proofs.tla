------------------------- MODULE ActorRuntime_proofs -------------------------
(***************************************************************************)
(* Theorems about the mailbox of an actor, for all messages and deadlines: *)
(* it is type correct, and it implements module Mailbox.                   *)
(***************************************************************************)
EXTENDS ActorRuntime, TLAPS

\* The handlers have not been called yet when the start of the actor fails, so
\* nothing has been put off.
NothingPutOff == pc = "awake" => delayed = {}

MailboxInv == TypeOK /\ NothingPutOff

Fates == {"unsent", "queued", "rejected", "handled", "lost"}

\* What Lose() makes of the fates.
LEMMA LoseType ==
  ASSUME TypeOK, NEW S, Lose(S)
  PROVE  fate' \in [Messages -> {"unsent", "queued", "rejected", "handled", "lost"}]
BY DEF TypeOK, Lose

\* With nothing to lose it changes nothing.
LEMMA LoseNothing ==
  ASSUME TypeOK, fate' = fate
  PROVE  fate' = [m \in Messages |-> IF m \in {} /\ fate[m] = "queued" THEN "lost" ELSE fate[m]]
BY DEF TypeOK

\* Sending and taking keep the queues and the fates typed.
LEMMA FateType ==
  ASSUME TypeOK, NEW m \in Messages, NEW what \in Fates, fate' = [fate EXCEPT ![m] = what]
  PROVE  fate' \in [Messages -> Fates]
BY DEF TypeOK, Fates

\* Being overtaken is counted in numbers.
LEMMA OvertakeType ==
  ASSUME TypeOK, NEW S, Overtake(S)
  PROVE  overtaken' \in [Messages -> Nat]
BY DEF TypeOK, Overtake

\* Taking from a queue leaves a queue of the same messages.
LEMMA TailType ==
  ASSUME NEW S, NEW q \in Seq(S), q # <<>>
  PROVE  Tail(q) \in Seq(S) /\ Head(q) \in S
OBVIOUS

\* What the runtime takes from the high-priority channel belongs there.
LEMMA HpTail ==
  ASSUME TypeOK, hp # <<>>
  PROVE  Tail(hp) \in Seq(Instants \cup Scheduleds) /\ Head(hp) \in Instants \cup Scheduleds
<1>1. hp \in Seq(Instants \cup Scheduleds)
  BY DEF TypeOK
<1> QED
  BY <1>1, TailType

\* What the runtime takes from the ordinary channel belongs there.
LEMMA LpTail ==
  ASSUME TypeOK, lp # <<>>
  PROVE  Tail(lp) \in Seq(Normals) /\ Head(lp) \in Normals
<1>1. lp \in Seq(Normals)
  BY DEF TypeOK
<1> QED
  BY <1>1, TailType

\* Sending into a queue leaves a queue of the same messages.
LEMMA AppendType ==
  ASSUME NEW S, NEW q \in Seq(S), NEW m \in S
  PROVE  Append(q, m) \in Seq(S)
OBVIOUS

\* The empty queue is a queue of any messages.
LEMMA EmptyType ==
  ASSUME NEW S
  PROVE  <<>> \in Seq(S)
OBVIOUS

\* A new actor has an empty mailbox.
LEMMA InitMailbox == Init => MailboxInv
<1> SUFFICES ASSUME Init PROVE MailboxInv
  OBVIOUS
<1>1. now \in 0 .. Horizon
  BY MailboxAssumption DEF Init
<1>2. hp \in Seq(Instants \cup Scheduleds) /\ lp \in Seq(Normals)
  BY DEF Init
<1>3. fate \in [Messages -> {"unsent", "queued", "rejected", "handled", "lost"}]
  BY DEF Init
<1>4. overtaken \in [Messages -> Nat]
  BY DEF Init
<1> QED
  BY <1>1, <1>2, <1>3, <1>4 DEF Init, MailboxInv, TypeOK, NothingPutOff

\* Every step keeps the types, and nothing is put off while the actor awakes.
LEMMA StepMailbox == MailboxInv /\ [Next]_vars => MailboxInv'
<1> SUFFICES ASSUME MailboxInv, [Next]_vars PROVE MailboxInv'
  OBVIOUS
<1> USE DEF MailboxInv, NothingPutOff
<1>1. CASE \E m \in Normals : normal_priority_send(m)
  <2> PICK m \in Normals : normal_priority_send(m)
    BY <1>1
  <2>1. fate' \in [Messages -> Fates]
    BY FateType DEF normal_priority_send, Messages, Fates
  <2>2. lp' \in Seq(Normals)
    <3>1. lp \in Seq(Normals)
      BY DEF TypeOK
    <3>2. lp' = Append(lp, m) \/ lp' = lp
      BY DEF normal_priority_send
    <3> QED
      BY <3>1, <3>2, AppendType
  <2> QED
    BY <2>1, <2>2 DEF normal_priority_send, TypeOK, Fates, ending
<1>2. CASE \E m \in Instants \cup Scheduleds : high_priority_send(m)
  <2> PICK m \in Instants \cup Scheduleds : high_priority_send(m)
    BY <1>2
  <2>1. fate' \in [Messages -> Fates]
    BY FateType DEF high_priority_send, Messages, Fates
  <2>2. hp' \in Seq(Instants \cup Scheduleds)
    <3>1. hp \in Seq(Instants \cup Scheduleds)
      BY DEF TypeOK
    <3>2. hp' = Append(hp, m) \/ hp' = hp
      BY DEF high_priority_send
    <3> QED
      BY <3>1, <3>2, AppendType
  <2> QED
    BY <2>1, <2>2 DEF high_priority_send, TypeOK, Fates, ending
<1>3. CASE Join \/ JoinReturns \/ Tick
  BY <1>3, MailboxAssumption DEF Join, JoinReturns, Tick, TypeOK, queues, ending
<1>4. CASE LoopTop
  <2>1. fate' \in [Messages -> {"unsent", "queued", "rejected", "handled", "lost"}]
    BY <1>4, LoseType DEF LoopTop, TypeOK
  <2> QED
    BY <1>4, <2>1 DEF LoopTop, TypeOK, choose_queue, ending
<1>5. CASE PollHp
  <2>1. CASE hp = <<>>
    BY <1>5, <2>1 DEF PollHp, TypeOK, ending
  <2>2. CASE hp # <<>> /\ Head(hp) \in Scheduleds /\ delayed' = delayed \cup {Head(hp)}
             /\ pc' = "top" /\ UNCHANGED <<current, fate>>
    <3>1. hp' \in Seq(Instants \cup Scheduleds)
      BY <1>5, <2>2, HpTail DEF PollHp
    <3> QED
      BY <1>5, <2>2, <3>1 DEF PollHp, TypeOK, ending
  <2>3. CASE hp # <<>> /\ Head(hp) \in Instants /\ Handle(Head(hp)) /\ UNCHANGED delayed
    <3>1. hp' \in Seq(Instants \cup Scheduleds)
      BY <1>5, <2>3, HpTail DEF PollHp
    <3>2. Head(hp) \in Messages
      BY <2>3 DEF Messages
    <3>3. fate' \in [Messages -> Fates]
      BY <2>3, <3>2, FateType DEF Handle, Fates
    <3> QED
      BY <1>5, <2>3, <3>1, <3>2, <3>3 DEF PollHp, Handle, TypeOK, Fates, ending
  <2> QED
    BY <1>5, <2>1, <2>2, <2>3 DEF PollHp
<1>6. CASE PollDelayed
  <2>1. CASE \E m \in Expired : delayed' = delayed \ {m} /\ Handle(m) /\ Overtake(Urgent \ Expired)
             /\ UNCHANGED closed
    <3> PICK m \in Expired : delayed' = delayed \ {m} /\ Handle(m) /\ Overtake(Urgent \ Expired)
             /\ UNCHANGED closed
      BY <2>1
    <3>1. m \in Messages
      BY DEF Expired, TypeOK, Messages
    <3>2. fate' \in [Messages -> Fates]
      BY <3>1, FateType DEF Handle, Fates
    <3>3. overtaken' \in [Messages -> Nat]
      BY OvertakeType
    <3>4. delayed' \in SUBSET Scheduleds
      BY DEF TypeOK
    <3>5. pc' = "handler" /\ current' = m
      BY DEF Handle
    <3> QED
      BY <1>6, <3>1, <3>2, <3>3, <3>4, <3>5 DEF PollDelayed, TypeOK, Fates, ending
  <2>2. CASE closed' \in BOOLEAN /\ pc' \in {"handler", "poll_lp"}
             /\ UNCHANGED <<delayed, current, fate, overtaken>>
    BY <1>6, <2>2 DEF PollDelayed, TypeOK, ending
  <2> QED
    BY <1>6, <2>1, <2>2 DEF PollDelayed, TypeOK
<1>7. CASE PollLp
  <2>1. CASE lp = <<>>
    BY <1>7, <2>1 DEF PollLp, TypeOK, ending
  <2>2. CASE lp # <<>>
    <3>1. lp' \in Seq(Normals) /\ Head(lp) \in Messages
      BY <1>7, <2>2, LpTail DEF PollLp, Messages
    <3>2. fate' \in [Messages -> Fates]
      BY <1>7, <2>2, <3>1, FateType DEF PollLp, Handle, Fates
    <3>3. overtaken' \in [Messages -> Nat]
      BY <1>7, <2>2, OvertakeType DEF PollLp
    <3> QED
      BY <1>7, <2>2, <3>1, <3>2, <3>3 DEF PollLp, Handle, TypeOK, Fates, ending
  <2> QED
    BY <2>1, <2>2
<1>8. CASE Wake \/ NotifyDone \/ ReleaseJoiners
  BY <1>8 DEF Wake, NotifyDone, ReleaseJoiners, TypeOK, queues, ending
<1>9. CASE HandlerStops \/ HandlerReturns \/ AwakeFails
  <2>1. CASE HandlerStops
    BY <2>1 DEF HandlerStops, TypeOK, queues, ending
  <2>2. CASE HandlerReturns
    BY <2>2 DEF HandlerReturns, TypeOK, queues, ending
  <2>3. CASE AwakeFails
    BY <2>3 DEF AwakeFails, TypeOK, queues, ending
  <2> QED BY <1>9, <2>1, <2>2, <2>3
<1>10. CASE DropRuntime \/ Panic
  <2>1. fate' \in [Messages -> {"unsent", "queued", "rejected", "handled", "lost"}]
    BY <1>10, LoseType DEF DropRuntime, Panic, Drop
  <2>2. hp' = <<>> /\ lp' = <<>>
    BY <1>10 DEF DropRuntime, Panic, Drop
  <2>3. hp' \in Seq(Instants \cup Scheduleds) /\ lp' \in Seq(Normals)
    BY <2>2, EmptyType
  <2> QED
    BY <1>10, <2>1, <2>3 DEF DropRuntime, Panic, Drop, TypeOK, ending
<1>11. CASE UNCHANGED vars
  BY <1>11 DEF vars, TypeOK
<1> QED
  BY <1>1, <1>2, <1>3, <1>4, <1>5, <1>6, <1>7, <1>8, <1>9, <1>10, <1>11
  DEF Next, RuntimeStep, HandlerStep

\* The mailbox is type correct, whatever is sent to it and however the actor ends.
THEOREM MailboxTypeCorrect == Spec => []TypeOK
<1>1. Spec => []MailboxInv
  BY InitMailbox, StepMailbox, PTL DEF Spec
<1> QED
  BY <1>1, PTL DEF MailboxInv
-----------------------------------------------------------------------------
(* The detailed mailbox implements the abstract one.                        *)

\* A new runtime is a new abstract mailbox.
LEMMA InitRefines == Init => Abstract!Init
BY DEF Init, Abstract!Init, Exists, Messages, Abstract!Messages

\* The steps that the abstract mailbox does not see.
LEMMA Stutters ==
  ASSUME UNCHANGED <<hp, lp, delayed, now, fate>>,
         Exists' = Exists,
         (pc \in {"finishing", "releasing", "released", "dropped", "panicked"})'
           = (pc \in {"finishing", "releasing", "released", "dropped", "panicked"})
  PROVE  UNCHANGED Abstract!vars
BY DEF Abstract!vars

\* Every step is a step of the abstract mailbox, or leaves it alone.
LEMMA StepRefines == MailboxInv /\ [Next]_vars => [Abstract!Next]_(Abstract!vars)
<1> SUFFICES ASSUME MailboxInv, [Next]_vars PROVE [Abstract!Next]_(Abstract!vars)
  OBVIOUS
<1> USE DEF MailboxInv
<1>0. Abstract!Messages = Messages
  BY DEF Messages, Abstract!Messages
<1>1. ASSUME NEW m \in Normals, normal_priority_send(m)
      PROVE  Abstract!Next
  <2>1. m \in Abstract!Messages /\ m \in Normals
    BY DEF Abstract!Messages
  <2>2. Exists' = Exists
    BY <1>1 DEF normal_priority_send, Exists
  <2>3. Abstract!Send(m)
    BY <1>1, <2>1, <2>2 DEF normal_priority_send, Abstract!Send, Abstract!Becomes
  <2> QED
    BY <2>1, <2>3 DEF Abstract!Next
<1>2. ASSUME NEW m \in Instants \cup Scheduleds, high_priority_send(m)
      PROVE  Abstract!Next
  <2>1. m \in Abstract!Messages /\ m \notin Normals
    BY MailboxAssumption DEF Abstract!Messages
  <2>2. Exists' = Exists
    BY <1>2 DEF high_priority_send, Exists
  <2>3. Abstract!Send(m)
    BY <1>2, <2>1, <2>2 DEF high_priority_send, Abstract!Send, Abstract!Becomes
  <2> QED
    BY <2>1, <2>3 DEF Abstract!Next
<1>3. CASE Join \/ JoinReturns
  BY <1>3, Stutters DEF Join, JoinReturns, queues, Exists
<1>4. CASE Tick
  BY <1>4 DEF Tick, queues, Exists, Abstract!Next, Abstract!Tick
<1>5. CASE LoopTop
  <2>1. CASE alive
    BY <1>5, <2>1, Stutters DEF LoopTop, Exists
  <2>2. CASE ~alive
    <3>1. Abstract!Lose(delayed)
      BY <1>0, <1>5, <2>2 DEF LoopTop, Lose, Abstract!Lose
    <3>2. Abstract!Retire
      BY <1>5, <2>2, <3>1 DEF LoopTop, Exists, Abstract!Retire
    <3> QED
      BY <3>2 DEF Abstract!Next
  <2> QED
    BY <2>1, <2>2
<1>6. CASE PollHp
  <2>1. CASE hp = <<>>
    BY <1>6, <2>1, Stutters DEF PollHp, Exists
  <2>2. CASE hp # <<>> /\ Head(hp) \in Scheduleds /\ hp' = Tail(hp)
             /\ delayed' = delayed \cup {Head(hp)} /\ pc' = "top" /\ UNCHANGED fate
    <3>1. Abstract!PutOff
      BY <1>6, <2>2 DEF PollHp, Exists, Abstract!PutOff
    <3> QED
      BY <3>1 DEF Abstract!Next
  <2>3. CASE hp # <<>> /\ Head(hp) \in Instants /\ hp' = Tail(hp) /\ Handle(Head(hp))
             /\ UNCHANGED delayed
    <3>1. Abstract!HandleUrgent
      BY <1>6, <2>3 DEF PollHp, Handle, Exists, Abstract!HandleUrgent, Abstract!Becomes
    <3> QED
      BY <3>1 DEF Abstract!Next
  <2> QED
    BY <1>6, <2>1, <2>2, <2>3 DEF PollHp
<1>7. CASE PollDelayed
  <2>1. ASSUME NEW m \in Expired, delayed' = delayed \ {m}, Handle(m)
        PROVE  Abstract!Next
    <3>1. Abstract!HandleScheduled(m)
      BY <1>7, <2>1 DEF PollDelayed, Handle, Expired, Exists, Abstract!HandleScheduled, Abstract!Becomes
    <3>2. m \in Abstract!Messages
      BY DEF Expired, TypeOK, Abstract!Messages
    <3> QED
      BY <3>1, <3>2 DEF Abstract!Next
  <2>2. CASE pc' \in {"handler", "poll_lp"} /\ UNCHANGED <<delayed, fate>>
    BY <1>7, <2>2, Stutters DEF PollDelayed, Exists
  <2> QED
    BY <1>7, <2>1, <2>2 DEF PollDelayed
<1>8. CASE PollLp
  <2>1. CASE lp = <<>>
    BY <1>8, <2>1, Stutters DEF PollLp, Exists
  <2>2. CASE lp # <<>>
    <3>1. Abstract!HandleOrdinary
      BY <1>8, <2>2 DEF PollLp, Handle, Exists, Abstract!HandleOrdinary, Abstract!Becomes
    <3> QED
      BY <3>1 DEF Abstract!Next
  <2> QED
    BY <2>1, <2>2
<1>9. CASE Wake \/ NotifyDone \/ ReleaseJoiners \/ HandlerStops \/ HandlerReturns
  BY <1>9, Stutters
  DEF Wake, NotifyDone, ReleaseJoiners, HandlerStops, HandlerReturns, queues, Exists
<1>10. CASE AwakeFails
  <2>1. delayed = {} /\ fate' = fate
    BY <1>10 DEF AwakeFails, NothingPutOff
  <2>2. Abstract!Lose(delayed)
    BY <1>0, <2>1, LoseNothing DEF Abstract!Lose
  <2>3. Abstract!Retire
    BY <1>10, <2>1, <2>2 DEF AwakeFails, queues, Exists, Abstract!Retire
  <2> QED
    BY <2>3 DEF Abstract!Next
<1>11. CASE DropRuntime \/ Panic
  <2>1. Abstract!Lose(Abstract!Messages)
    BY <1>0, <1>11 DEF DropRuntime, Panic, Drop, Lose, Abstract!Lose
  <2>2. Abstract!Close
    BY <1>11, <2>1 DEF DropRuntime, Panic, Drop, Exists, Abstract!Close
  <2> QED
    BY <2>2 DEF Abstract!Next
<1>12. CASE UNCHANGED vars
  BY <1>12, Stutters DEF vars, Exists
<1> QED
  BY <1>1, <1>2, <1>3, <1>4, <1>5, <1>6, <1>7, <1>8, <1>9, <1>10, <1>11, <1>12
  DEF Next, RuntimeStep, HandlerStep

\* The runtime of an actor implements the abstract mailbox: every step of the
\* select, of a handler or of the end of the entrypoint is one step of module
\* Mailbox, or none.
THEOREM RuntimeKeepsMailbox == Spec => KeepsMailbox
<1>1. Spec => []MailboxInv
  BY InitMailbox, StepMailbox, PTL DEF Spec
<1> QED
  BY <1>1, InitRefines, StepRefines, PTL DEF Spec, KeepsMailbox, Abstract!Spec
-----------------------------------------------------------------------------
(* The order at the end of the entrypoint.                                  *)

\* The supervisor is told before the joiners are released, and they are
\* released before the runtime is dropped.
EndInOrder ==
  /\ pc \in {"releasing", "released", "dropped"} => notified
  /\ join_status = "Stop" => pc \in {"released", "dropped"}

EndInv == EndInOrder /\ JoinMeansOver

\* A new actor has released nobody.
LEMMA InitEnd == Init => EndInv
BY DEF Init, EndInv, EndInOrder, JoinMeansOver

\* Every step keeps the order of the end: notice, joiners, then the return of join().
LEMMA StepEnd == EndInv /\ [Next]_vars => EndInv'
<1> SUFFICES ASSUME EndInv, [Next]_vars PROVE EndInv'
  OBVIOUS
<1> USE DEF EndInv, EndInOrder, JoinMeansOver, ending
<1>1. CASE \E m \in Normals : normal_priority_send(m)
  BY <1>1 DEF normal_priority_send
<1>2. CASE \E m \in Instants \cup Scheduleds : high_priority_send(m)
  BY <1>2 DEF high_priority_send
<1>3. CASE Join \/ Tick
  BY <1>3 DEF Join, Tick
<1>4. CASE JoinReturns
  BY <1>4 DEF JoinReturns, Exists
<1>5. CASE LoopTop \/ PollHp \/ PollLp \/ Wake
  BY <1>5 DEF LoopTop, PollHp, PollLp, Handle, Wake
<1>6. CASE PollDelayed
  BY <1>6 DEF PollDelayed, Handle
<1>7. CASE NotifyDone \/ ReleaseJoiners \/ DropRuntime
  BY <1>7 DEF NotifyDone, ReleaseJoiners, DropRuntime
<1>8. CASE HandlerStep
  BY <1>8 DEF HandlerStep, HandlerStops, HandlerReturns, AwakeFails, Panic
<1>9. CASE UNCHANGED vars
  BY <1>9 DEF vars
<1> QED
  BY <1>1, <1>2, <1>3, <1>4, <1>5, <1>6, <1>7, <1>8, <1>9 DEF Next, RuntimeStep

\* join() returns only after the Done notice of the actor, unless it panicked.
THEOREM JoinAfterTheEnd == Spec => []JoinMeansOver
<1>1. Spec => []EndInv
  BY InitEnd, StepEnd, PTL DEF Spec
<1> QED
  BY <1>1, PTL DEF EndInv
-----------------------------------------------------------------------------
(* Urgent messages are not starved by ordinary ones.                        *)

InHp(m) == \E i \in DOMAIN hp : hp[i] = m

\* The fused delay queue is never closed, because a turn selects on it exactly
\* when it has items, and nothing enters or leaves it before it is polled.
DelayQueueOpen ==
  /\ ~closed
  /\ pc \in {"poll_hp", "poll_delayed", "poll_lp", "parked"} => (maybe_queue <=> delayed # {})

\* A message that has been overtaken in a queue is in the way of the select:
\* this turn has not passed by its queue, and no turn will while it is there.
Blocking ==
  \A m \in Instants \cup Scheduleds :
    /\ fate[m] = "unsent" => overtaken[m] = 0
    /\ InHp(m) =>
         /\ fate[m] # "unsent"
         /\ overtaken[m] # 0 =>
              overtaken[m] = 1 /\ pc \notin {"poll_delayed", "poll_lp", "parked"}
    /\ m \in delayed =>
         /\ fate[m] # "unsent"
         /\ overtaken[m] \notin {0, 1} =>
              overtaken[m] = 2 /\ deadline[m] <= now /\ pc \notin {"poll_lp", "parked"}

UrgencyInv == DelayQueueOpen /\ Blocking /\ OvertakenAtMostOnce

\* What sending and taking do to the high-priority channel.
LEMMA InHpAppend ==
  ASSUME TypeOK, NEW n \in Instants \cup Scheduleds, hp' = Append(hp, n), NEW m, InHp(m)'
  PROVE  InHp(m) \/ m = n
<1>1. hp \in Seq(Instants \cup Scheduleds)
  BY DEF TypeOK
<1>2. PICK i \in DOMAIN hp' : hp'[i] = m
  BY DEF InHp
<1>3. DOMAIN hp' = 1 .. Len(hp) + 1 /\ DOMAIN hp = 1 .. Len(hp) /\ Len(hp) \in Nat
  BY <1>1
<1>4. CASE i = Len(hp) + 1
  BY <1>1, <1>2, <1>4
<1>5. CASE i \in DOMAIN hp
  <2>1. hp[i] = m
    BY <1>1, <1>2, <1>5
  <2> QED BY <1>5, <2>1 DEF InHp
<1> QED BY <1>2, <1>3, <1>4, <1>5

\* The messages of the tail were in the channel before.
LEMMA InHpTail ==
  ASSUME TypeOK, hp # <<>>
  PROVE  /\ InHp(Head(hp))
         /\ \A m : (\E i \in DOMAIN Tail(hp) : Tail(hp)[i] = m) => InHp(m)
<1>1. hp \in Seq(Instants \cup Scheduleds)
  BY DEF TypeOK
<1>2. DOMAIN Tail(hp) = 1 .. Len(hp) - 1 /\ DOMAIN hp = 1 .. Len(hp) /\ Len(hp) \in Nat
  BY <1>1
<1>3. Head(hp) = hp[1] /\ 1 \in DOMAIN hp
  BY <1>1
<1>4. ASSUME NEW m, NEW i \in DOMAIN Tail(hp), Tail(hp)[i] = m
      PROVE  InHp(m)
  <2>1. i + 1 \in DOMAIN hp /\ hp[i + 1] = m
    BY <1>1, <1>2, <1>4
  <2> QED BY <2>1 DEF InHp
<1> QED BY <1>3, <1>4 DEF InHp

\* A turn that has found the high-priority channel empty, or the delay queue
\* without an item that is due, hands on one message of a lower priority at
\* most: the counters of those that arrive meanwhile grow by one.
LEMMA OvertakeStep ==
  ASSUME MailboxInv, UrgencyInv, NEW S \in SUBSET Urgent, Overtake(S), pc' = "handler",
         UNCHANGED <<hp, now>>, delayed' \subseteq delayed,
         \A m \in Messages : fate'[m] = fate[m] \/ fate'[m] = "handled",
         pc \in {"poll_delayed", "poll_lp"}, pc = "poll_delayed" => S \cap Expired = {}
  PROVE  Blocking' /\ OvertakenAtMostOnce'
<1> USE DEF MailboxInv, UrgencyInv
<1>1. \A m \in Instants \cup Scheduleds :
        /\ m \in Messages /\ overtaken[m] \in Nat
        /\ overtaken'[m] = IF m \in S THEN overtaken[m] + 1 ELSE overtaken[m]
  BY DEF Overtake, TypeOK, Messages
<1>2. \A m \in Instants : m \notin delayed /\ m \notin Expired
  BY MailboxAssumption DEF TypeOK, Expired
<1>3. \A m \in S : InHp(m) \/ m \in Expired
  BY DEF Urgent, InHp
<1>4. \A m : InHp(m)' <=> InHp(m)
  BY DEF InHp
<1>5. ASSUME NEW m \in Instants \cup Scheduleds, m \in S
      PROVE  /\ fate[m] # "unsent"
             /\ InHp(m) => overtaken[m] = 0
             /\ ~InHp(m) => /\ m \in Expired /\ m \in Scheduleds /\ pc = "poll_lp"
                            /\ overtaken[m] \in {0, 1}
  BY <1>2, <1>3, <1>5 DEF Blocking, Expired
<1>6. ASSUME NEW m \in Instants \cup Scheduleds, fate[m] # "unsent"
      PROVE  fate'[m] # "unsent"
  BY <1>1, <1>6
<1>7. Blocking'
  <2> SUFFICES ASSUME NEW m \in Instants \cup Scheduleds
               PROVE  /\ fate'[m] = "unsent" => overtaken'[m] = 0
                      /\ InHp(m)' => fate'[m] # "unsent" /\ overtaken'[m] \in {0, 1}
                      /\ m \in delayed' =>
                           /\ fate'[m] # "unsent"
                           /\ overtaken'[m] \notin {0, 1} => overtaken'[m] = 2 /\ deadline[m] <= now
    BY DEF Blocking
  <2>1. CASE m \in S
    <3>1. fate[m] # "unsent" /\ fate'[m] # "unsent"
      BY <1>5, <1>6, <2>1
    <3>2. CASE InHp(m)
      <4>1. overtaken'[m] = 1
        BY <1>1, <1>5, <2>1, <3>2
      <4> QED BY <3>1, <4>1
    <3>3. CASE ~InHp(m)
      <4>1. ~InHp(m)' /\ m \in Expired /\ overtaken[m] \in {0, 1}
        BY <1>4, <1>5, <2>1, <3>3
      <4>2. overtaken'[m] \in {1, 2}
        BY <1>1, <2>1, <4>1
      <4> QED BY <3>1, <4>1, <4>2 DEF Expired
    <3> QED BY <3>2, <3>3
  <2>2. CASE m \notin S
    BY <1>1, <1>4, <1>6, <2>2 DEF Blocking
  <2> QED BY <2>1, <2>2
<1>8. OvertakenAtMostOnce'
  <2>1. ASSUME NEW m \in Instants
        PROVE  overtaken'[m] <= 1
    <3>1. m \in S => overtaken[m] = 0
      BY <1>2, <1>5
    <3> QED BY <1>1, <3>1 DEF OvertakenAtMostOnce
  <2>2. ASSUME NEW m \in Scheduleds
        PROVE  overtaken'[m] <= 2
    <3>1. m \in S => overtaken[m] \in {0, 1}
      BY <1>5
    <3> QED BY <1>1, <3>1 DEF OvertakenAtMostOnce
  <2> QED BY <2>1, <2>2 DEF OvertakenAtMostOnce
<1> QED BY <1>7, <1>8

\* Nothing has been overtaken in a new mailbox.
LEMMA InitUrgency == Init => UrgencyInv
BY DEF Init, UrgencyInv, DelayQueueOpen, Blocking, OvertakenAtMostOnce, InHp, Messages

\* The steps that overtake nobody and put nothing into the high-priority
\* channel: the select does not get past a queue with an overtaken message.
LEMMA QuietStep ==
  ASSUME MailboxInv, UrgencyInv, overtaken' = overtaken,
         \A m \in Instants \cup Scheduleds :
           /\ fate'[m] = "unsent" => fate[m] = "unsent"
           /\ InHp(m)' => InHp(m)
           /\ m \in delayed' => m \in delayed \/ InHp(m),
         now' \in Nat, now <= now',
         pc' \in {"poll_delayed", "poll_lp", "parked"} =>
           \/ pc' = pc
           \/ pc = "poll_hp" /\ pc' = "poll_delayed" /\ hp = <<>>
           \/ pc = "poll_delayed" /\ pc' = "poll_lp" /\ Expired = {}
           \/ pc = "poll_lp" /\ pc' = "parked"
  PROVE  Blocking' /\ OvertakenAtMostOnce'
<1> USE DEF MailboxInv, UrgencyInv
<1>1. OvertakenAtMostOnce'
  BY DEF OvertakenAtMostOnce
<1>2. \A m \in delayed : deadline[m] \in Nat
  BY MailboxAssumption DEF TypeOK
<1>3. now \in Nat
  BY MailboxAssumption DEF TypeOK
<1>4. hp = <<>> => \A m : ~InHp(m)
  BY DEF InHp
<1> SUFFICES ASSUME NEW m \in Instants \cup Scheduleds
             PROVE  /\ fate'[m] = "unsent" => overtaken[m] = 0
                    /\ InHp(m)' =>
                         /\ fate'[m] # "unsent"
                         /\ overtaken[m] # 0 =>
                              overtaken[m] = 1 /\ pc' \notin {"poll_delayed", "poll_lp", "parked"}
                    /\ m \in delayed' =>
                         /\ fate'[m] # "unsent"
                         /\ overtaken[m] \notin {0, 1} =>
                              overtaken[m] = 2 /\ deadline[m] <= now' /\ pc' \notin {"poll_lp", "parked"}
  BY <1>1 DEF Blocking
<1>5. ASSUME InHp(m), overtaken[m] # 0
      PROVE  overtaken[m] = 1 /\ pc' \notin {"poll_delayed", "poll_lp", "parked"}
  BY <1>4, <1>5 DEF Blocking
<1>6. ASSUME m \in delayed, overtaken[m] \notin {0, 1}
      PROVE  overtaken[m] = 2 /\ deadline[m] <= now' /\ pc' \notin {"poll_lp", "parked"}
  <2>1. overtaken[m] = 2 /\ deadline[m] <= now /\ pc \notin {"poll_lp", "parked"}
    BY <1>6 DEF Blocking
  <2>2. m \in Expired
    BY <1>6, <2>1 DEF Expired
  <2> QED BY <1>2, <1>3, <1>6, <2>1, <2>2
<1> QED BY <1>5, <1>6 DEF Blocking

\* Every step keeps the invariant.
LEMMA StepUrgency ==
  ASSUME MailboxInv, UrgencyInv, [Next]_vars
  PROVE  UrgencyInv'
<1> USE DEF MailboxInv, UrgencyInv
<1>1. now \in Nat /\ now <= now
  BY MailboxAssumption DEF TypeOK
<1>2. hp' = hp => \A m : InHp(m)' => InHp(m)
  BY DEF InHp
<1>3. CASE \E n \in Normals : normal_priority_send(n)
  <2>1. \A m \in Instants \cup Scheduleds : fate'[m] = fate[m]
    BY <1>3, MailboxAssumption DEF normal_priority_send, TypeOK, Messages
  <2>2. /\ UNCHANGED <<pc, hp, delayed, closed, maybe_queue, now, overtaken>>
    BY <1>3 DEF normal_priority_send
  <2>3. Blocking' /\ OvertakenAtMostOnce'
    BY <1>1, <1>2, <2>1, <2>2, QuietStep
  <2> QED BY <2>2, <2>3 DEF DelayQueueOpen
<1>4. ASSUME NEW n \in Instants \cup Scheduleds, high_priority_send(n)
      PROVE  UrgencyInv'
  <2>1. /\ UNCHANGED <<pc, delayed, closed, maybe_queue, now, overtaken>>
        /\ fate[n] = "unsent" /\ hp' \in {hp, Append(hp, n)}
    BY <1>4 DEF high_priority_send
  <2>2. \A m \in Instants \cup Scheduleds :
          fate'[m] # "unsent" <=> fate[m] # "unsent" \/ m = n
    BY <1>4 DEF high_priority_send, TypeOK, Messages
  <2>3. \A m : InHp(m)' => InHp(m) \/ m = n
    BY <1>2, <2>1, InHpAppend
  <2>4. n \notin delayed /\ overtaken[n] = 0
    BY <2>1 DEF Blocking
  <2>5. Blocking'
    BY <2>1, <2>2, <2>3, <2>4 DEF Blocking
  <2> QED BY <2>1, <2>5 DEF DelayQueueOpen, OvertakenAtMostOnce
<1>5. CASE Tick
  <2>1. now' \in Nat /\ now <= now'
    BY <1>1, <1>5 DEF Tick
  <2>2. UNCHANGED <<pc, hp, delayed, closed, maybe_queue, fate, overtaken>>
    BY <1>5 DEF Tick, queues
  <2>3. Blocking' /\ OvertakenAtMostOnce'
    BY <1>2, <2>1, <2>2, QuietStep
  <2> QED BY <2>2, <2>3 DEF DelayQueueOpen
<1>6. CASE Join \/ JoinReturns \/ HandlerStops \/ UNCHANGED vars
  <2>1. UNCHANGED <<pc, hp, delayed, closed, maybe_queue, now, fate, overtaken>>
    BY <1>6 DEF Join, JoinReturns, HandlerStops, vars, queues
  <2>2. Blocking' /\ OvertakenAtMostOnce'
    BY <1>1, <1>2, <2>1, QuietStep
  <2> QED BY <2>1, <2>2 DEF DelayQueueOpen
<1>7. CASE HandlerReturns \/ AwakeFails \/ NotifyDone \/ ReleaseJoiners
  <2>1. /\ UNCHANGED <<hp, delayed, closed, maybe_queue, now, fate, overtaken>>
        /\ pc' \in {"top", "finishing", "releasing", "released"}
    BY <1>7 DEF HandlerReturns, AwakeFails, NotifyDone, ReleaseJoiners, queues
  <2>2. Blocking' /\ OvertakenAtMostOnce'
    BY <1>1, <1>2, <2>1, QuietStep
  <2> QED BY <2>1, <2>2 DEF DelayQueueOpen
<1>8. ASSUME NEW S, Lose(S)
      PROVE  \A m \in Instants \cup Scheduleds : fate'[m] = "unsent" => fate[m] = "unsent"
  BY <1>8 DEF Lose, Messages
<1>9. CASE DropRuntime \/ Panic
  <2>1. /\ UNCHANGED <<closed, maybe_queue, now, overtaken>> /\ Lose(Messages)
        /\ hp' = <<>> /\ delayed' = {} /\ pc' \in {"dropped", "panicked"}
    BY <1>9 DEF DropRuntime, Panic, Drop
  <2>2. \A m : ~InHp(m)'
    BY <2>1 DEF InHp
  <2>3. Blocking' /\ OvertakenAtMostOnce'
    BY <1>1, <1>8, <2>1, <2>2, QuietStep
  <2> QED BY <2>1, <2>3 DEF DelayQueueOpen
<1>10. CASE LoopTop
  <2>1. /\ UNCHANGED <<hp, closed, now, overtaken>> /\ delayed' \subseteq delayed
        /\ pc' \in {"poll_hp", "finishing"}
        /\ pc' = "poll_hp" => (maybe_queue' <=> delayed' # {})
    BY <1>10 DEF LoopTop, choose_queue
  <2>2. \A m \in Instants \cup Scheduleds : fate'[m] = "unsent" => fate[m] = "unsent"
    BY <1>8, <1>10 DEF LoopTop
  <2>3. Blocking' /\ OvertakenAtMostOnce'
    BY <1>1, <1>2, <2>1, <2>2, QuietStep
  <2> QED BY <2>1, <2>3 DEF DelayQueueOpen
<1>11. CASE Wake
  <2>1. UNCHANGED <<hp, delayed, closed, maybe_queue, now, fate, overtaken>>
        /\ pc = "parked" /\ pc' = "poll_hp"
    BY <1>11 DEF Wake, queues
  <2>2. Blocking' /\ OvertakenAtMostOnce'
    BY <1>1, <1>2, <2>1, QuietStep
  <2> QED BY <2>1, <2>2 DEF DelayQueueOpen
<1>12. CASE PollHp
  <2>1. UNCHANGED <<closed, maybe_queue, now, overtaken>> /\ pc = "poll_hp"
    BY <1>12 DEF PollHp
  <2>2. CASE hp = <<>>
    <3>1. UNCHANGED <<hp, delayed, fate>> /\ pc' = "poll_delayed"
      BY <1>12, <2>2 DEF PollHp
    <3>2. Blocking' /\ OvertakenAtMostOnce'
      BY <1>1, <1>2, <2>1, <2>2, <3>1, QuietStep
    <3> QED BY <2>1, <3>1, <3>2 DEF DelayQueueOpen
  <2>3. CASE hp # <<>>
    <3>1. /\ hp' = Tail(hp) /\ pc' \in {"top", "handler"}
          /\ delayed' \in {delayed, delayed \cup {Head(hp)}}
          /\ fate' \in {fate, [fate EXCEPT ![Head(hp)] = "handled"]}
      BY <1>12, <2>3 DEF PollHp, Handle
    <3>2. \A m \in Instants \cup Scheduleds :
            /\ fate'[m] = "unsent" => fate[m] = "unsent"
            /\ InHp(m)' => InHp(m)
            /\ m \in delayed' => m \in delayed \/ InHp(m)
      <4>1. \A m : InHp(m)' => InHp(m)
        BY <2>3, <3>1, InHpTail DEF InHp
      <4>2. \A m : m \in delayed' => m \in delayed \/ InHp(m)
        BY <2>3, <3>1, InHpTail
      <4>3. \A m \in Messages : fate'[m] = "unsent" => fate[m] = "unsent"
        BY <3>1 DEF TypeOK
      <4> QED BY <4>1, <4>2, <4>3 DEF Messages
    <3>3. Blocking' /\ OvertakenAtMostOnce'
      BY <1>1, <2>1, <3>1, <3>2, QuietStep
    <3> QED BY <2>1, <3>1, <3>3 DEF DelayQueueOpen
  <2> QED BY <2>2, <2>3
<1>13. CASE PollDelayed
  <2>1. UNCHANGED <<hp, maybe_queue, now>> /\ pc = "poll_delayed"
    BY <1>13 DEF PollDelayed
  <2>2. ASSUME NEW n \in Expired, delayed' = delayed \ {n}, Handle(n),
               Overtake(Urgent \ Expired), UNCHANGED closed
        PROVE  UrgencyInv'
    <3>1. \A m \in Messages : fate'[m] = fate[m] \/ fate'[m] = "handled"
      BY <2>2 DEF Handle, TypeOK
    <3>2. pc' = "handler"
      BY <2>2 DEF Handle
    <3> DEFINE S == Urgent \ Expired
    <3>3. S \in SUBSET Urgent /\ Overtake(S) /\ S \cap Expired = {} /\ delayed' \subseteq delayed
      BY <2>2
    <3> HIDE DEF S
    <3>4. Blocking' /\ OvertakenAtMostOnce'
      BY <2>1, <3>1, <3>2, <3>3, OvertakeStep
    <3> QED BY <2>2, <3>2, <3>4 DEF DelayQueueOpen
  <2>3. CASE /\ UNCHANGED <<delayed, fate, overtaken>>
             /\ Expired = {} /\ delayed # {} /\ ~closed' /\ pc' = "poll_lp"
    <3>1. Blocking' /\ OvertakenAtMostOnce'
      BY <1>1, <1>2, <2>1, <2>3, QuietStep
    <3> QED BY <2>1, <2>3, <3>1 DEF DelayQueueOpen
  <2>4. CASE UNCHANGED <<delayed, closed, fate, overtaken>> /\ delayed = {} /\ pc' = "poll_lp"
    <3>1. Expired = {}
      BY <2>4 DEF Expired
    <3>2. Blocking' /\ OvertakenAtMostOnce'
      BY <1>1, <1>2, <2>1, <2>4, <3>1, QuietStep
    <3> QED BY <2>1, <2>4, <3>2 DEF DelayQueueOpen
  <2> QED BY <1>13, <2>1, <2>2, <2>3, <2>4 DEF PollDelayed, DelayQueueOpen
<1>14. CASE PollLp
  <2>1. UNCHANGED <<hp, delayed, closed, maybe_queue, now>> /\ pc = "poll_lp"
    BY <1>14 DEF PollLp
  <2>2. CASE lp = <<>>
    <3>1. UNCHANGED <<fate, overtaken>> /\ pc' = "parked"
      BY <1>14, <2>2 DEF PollLp
    <3>2. Blocking' /\ OvertakenAtMostOnce'
      BY <1>1, <1>2, <2>1, <3>1, QuietStep
    <3> QED BY <2>1, <3>1, <3>2 DEF DelayQueueOpen
  <2>3. CASE lp # <<>>
    <3>1. Handle(Head(lp)) /\ Overtake(Urgent)
      BY <1>14, <2>3 DEF PollLp
    <3>2. \A m \in Messages : fate'[m] = fate[m] \/ fate'[m] = "handled"
      BY <3>1 DEF Handle, TypeOK
    <3>3. pc' = "handler"
      BY <3>1 DEF Handle
    <3>4. Blocking' /\ OvertakenAtMostOnce'
      BY <2>1, <3>1, <3>2, <3>3, OvertakeStep
    <3> QED BY <2>1, <3>3, <3>4 DEF DelayQueueOpen
  <2> QED BY <2>2, <2>3
<1> QED
  BY <1>3, <1>4, <1>5, <1>6, <1>7, <1>9, <1>10, <1>11, <1>12, <1>13, <1>14
  DEF Next, RuntimeStep, HandlerStep

\* However many senders there are and however the handlers behave, an instant
\* message is overtaken at most once, and a scheduled one at most twice.
THEOREM UrgentNotStarved == Spec => []OvertakenAtMostOnce
<1>1. Spec => []MailboxInv
  BY InitMailbox, StepMailbox, PTL DEF Spec
<1>2. MailboxInv /\ UrgencyInv /\ [Next]_vars => UrgencyInv'
  BY StepUrgency
<1> QED
  BY <1>1, <1>2, InitUrgency, PTL DEF Spec, UrgencyInv
=============================================================================
