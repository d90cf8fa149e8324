----------------------- MODULE StreamForwarder_proofs ------------------------
(***************************************************************************)
(* Theorems about an attached stream, for a stream of any length.          *)
(***************************************************************************)
EXTENDS StreamForwarder, TLAPS

Methods == {"handle", "finished", "task_finished", "task_failed"}

StreamTypeOK ==
  /\ length \in Nat /\ pulled \in 0 .. length
  /\ task \in {"requested", "parked", "next", "returned", "over"}
  /\ result \in {"none", "Ok", "Interrupted", "Other"}
  /\ lp \in Seq(Nat) /\ actor \in BOOLEAN
  /\ notice \in {"none", "queued", "handled"}
  /\ calls \in Seq([method : Methods, item : Nat])

\* The routine returns Ok only after the whole stream, and nothing comes after
\* that; the notice is sent, and taken, when the result is known.
ResultKnown ==
  /\ result # "none" => task \in {"returned", "over"}
  /\ result = "Ok" => pulled = length
  /\ notice # "none" => task = "over"
  /\ Called("finished") # {} => result = "Ok"
  /\ Called("task_finished") # {} => result = "Ok" /\ task = "over"
  /\ Called("task_failed") # {} => result # "Ok" /\ task = "over"

\* The items 1 .. h have been handled, one after the other.
HandledUpTo(h) ==
  /\ \A i \in Called("handle") :
       calls[i].item \in 1 .. h /\ HandledBefore(i) = 1 .. calls[i].item - 1
  /\ {calls[i].item : i \in Called("handle")} = 1 .. h
  /\ \A i \in Called("finished") :
       h = length /\ HandledBefore(i) = 1 .. length /\ \A k \in Called("handle") : k < i

\* The mailbox has the other items that were pulled, and the end of the stream
\* behind them if it was sent and not yet handled.
QueuedAfter(h) ==
  /\ Len(lp) = (pulled - h) + (IF result = "Ok" /\ Called("finished") = {} THEN 1 ELSE 0)
  /\ \A k \in DOMAIN lp : lp[k] = IF k <= pulled - h THEN h + k ELSE StreamDone

StreamAt(h) == HandledUpTo(h) /\ (actor => QueuedAfter(h))

StreamInv == StreamTypeOK /\ ResultKnown /\ \E h \in 0 .. pulled : StreamAt(h)

AllHandled == {calls[i].item : i \in Called("handle")}

\* What one more call changes: nothing before it.
LEMMA CallAdded ==
  ASSUME StreamTypeOK, NEW m \in Methods, NEW x \in Nat, calls' = Append(calls, Call(m, x)),
         NEW n, n = Len(calls)
  PROVE  /\ n \in Nat /\ calls' \in Seq([method : Methods, item : Nat])
         /\ \A method : Called(method)' = Called(method) \cup (IF method = m THEN {n + 1} ELSE {})
         /\ \A method : Called(method) \subseteq 1 .. n
         /\ \A i \in 1 .. n : calls'[i] = calls[i]
         /\ calls'[n + 1].item = x
         /\ \A i \in 1 .. n : HandledBefore(i)' = HandledBefore(i)
         /\ HandledBefore(n + 1)' = AllHandled
<1> DEFINE c == Call(m, x)
<1>1. c \in [method : Methods, item : Nat] /\ c.method = m /\ c.item = x
  BY DEF Call
<1> HIDE DEF c
<1>2. /\ n \in Nat /\ calls' \in Seq([method : Methods, item : Nat])
      /\ DOMAIN calls = 1 .. n /\ DOMAIN calls' = 1 .. n + 1
      /\ \A i \in 1 .. n : calls'[i] = calls[i]
      /\ calls'[n + 1] = c
  BY <1>1 DEF StreamTypeOK, c
<1>3. \A method : Called(method) \subseteq 1 .. n
  BY <1>2 DEF Called
<1>4. \A method : Called(method)' = Called(method) \cup (IF method = m THEN {n + 1} ELSE {})
  <2> SUFFICES ASSUME NEW method
               PROVE  Called(method)' = Called(method) \cup (IF method = m THEN {n + 1} ELSE {})
    OBVIOUS
  <2>1. \A i : i \in Called(method)' <=> i \in 1 .. n + 1 /\ calls'[i].method = method
    BY <1>2 DEF Called
  <2>2. \A i : i \in Called(method) <=> i \in 1 .. n /\ calls[i].method = method
    BY <1>2 DEF Called
  <2>3. \A i : i \in 1 .. n + 1 <=> i \in 1 .. n \/ i = n + 1
    BY <1>2
  <2> QED BY <1>1, <1>2, <2>1, <2>2, <2>3
<1>5. \A i \in 1 .. n + 1 : {j \in Called("handle")' : j < i} = {j \in Called("handle") : j < i}
  BY <1>2, <1>3, <1>4
<1>6. \A k \in Called("handle") : calls'[k].item = calls[k].item
  BY <1>2, <1>3
<1>7. ASSUME NEW i \in 1 .. n + 1
      PROVE  HandledBefore(i)' = HandledBefore(i)
  <2> DEFINE J == {j \in Called("handle") : j < i}
  <2>1. HandledBefore(i)' = {calls'[k].item : k \in J}
    <3>1. {j \in Called("handle")' : j < i} = J
      BY <1>5
    <3> HIDE DEF J
    <3> QED BY <3>1 DEF HandledBefore
  <2>2. HandledBefore(i) = {calls[k].item : k \in J}
    BY DEF HandledBefore
  <2>3. \A k \in J : calls'[k].item = calls[k].item
    BY <1>6
  <2> HIDE DEF J
  <2>4. {calls'[k].item : k \in J} = {calls[k].item : k \in J}
    BY <2>3
  <2> QED BY <2>1, <2>2, <2>4
<1>8. HandledBefore(n + 1) = AllHandled
  <2>1. {j \in Called("handle") : j < n + 1} = Called("handle")
    BY <1>2, <1>3
  <2> QED BY <2>1 DEF AllHandled, HandledBefore
<1>9. n + 1 \in 1 .. n + 1 /\ 1 .. n \subseteq 1 .. n + 1
  BY <1>2
<1>10. calls'[n + 1].item = x
  BY <1>1, <1>2
<1> QED BY <1>2, <1>3, <1>4, <1>7, <1>8, <1>9, <1>10

\* The history is unchanged with the calls.
LEMMA CallsKept ==
  ASSUME UNCHANGED calls
  PROVE  /\ \A method : Called(method)' = Called(method)
         /\ \A i : HandledBefore(i)' = HandledBefore(i)
         /\ AllHandled' = AllHandled
  BY DEF Called, HandledBefore, AllHandled

\* Steps of the task that send nothing, and stops.
LEMMA QuietStep ==
  ASSUME StreamInv, attach \/ Poll \/ Pending \/ Notify \/ Stop
  PROVE  StreamInv'
<1>1. UNCHANGED <<length, pulled, lp, actor, calls>>
  BY DEF attach, Poll, Pending, Notify, Stop
<1>2. /\ \A method : Called(method)' = Called(method)
      /\ \A i : HandledBefore(i)' = HandledBefore(i)
  BY <1>1, CallsKept
<1>3. StreamTypeOK'
  BY <1>1 DEF StreamInv, StreamTypeOK, attach, Poll, Pending, Notify, Stop
<1>4. result' = "Ok" <=> result = "Ok"
  BY DEF StreamInv, ResultKnown, attach, Poll, Pending, Notify, Stop
<1>5. ResultKnown'
  BY <1>1, <1>2, <1>4 DEF StreamInv, StreamTypeOK, ResultKnown, attach, Poll, Pending, Notify, Stop
<1>6. PICK h \in 0 .. pulled : StreamAt(h)
  BY DEF StreamInv
<1>7. HandledUpTo(h)'
  BY <1>1, <1>2, <1>6 DEF StreamAt, HandledUpTo
<1>8. actor' => QueuedAfter(h)'
  BY <1>1, <1>2, <1>4, <1>6 DEF StreamAt, QueuedAfter
<1> QED BY <1>1, <1>3, <1>5, <1>6, <1>7, <1>8 DEF StreamInv, StreamAt

\* An item is pulled, and comes to the end of the mailbox.
LEMMA ForwardItemStep ==
  ASSUME StreamInv, ForwardItem
  PROVE  StreamInv'
<1>1. /\ task = "next" /\ pulled < length /\ pulled' = pulled + 1
      /\ UNCHANGED <<length, notice, actor, calls>>
      /\ IF actor THEN lp' = Append(lp, pulled + 1) /\ UNCHANGED <<task, result>>
                  ELSE task' = "returned" /\ result' = "Other" /\ UNCHANGED lp
  BY DEF ForwardItem
<1>2. /\ \A method : Called(method)' = Called(method)
      /\ \A i : HandledBefore(i)' = HandledBefore(i)
  BY <1>1, CallsKept
<1>3. result = "none" /\ length \in Nat /\ pulled \in 0 .. length
  BY <1>1 DEF StreamInv, ResultKnown, StreamTypeOK
<1>4. StreamTypeOK'
  <2>1. pulled' \in 0 .. length
    BY <1>1, <1>3
  <2>2. lp' \in Seq(Nat)
    <3>1. lp \in Seq(Nat) /\ Append(lp, pulled + 1) \in Seq(Nat)
      BY <1>3 DEF StreamInv, StreamTypeOK
    <3> QED BY <1>1, <3>1
  <2> QED BY <1>1, <2>1, <2>2 DEF StreamInv, StreamTypeOK
<1>5. ResultKnown'
  BY <1>1, <1>2, <1>3 DEF StreamInv, ResultKnown
<1>6. PICK h \in 0 .. pulled : StreamAt(h)
  BY DEF StreamInv
<1>7. HandledUpTo(h)'
  BY <1>1, <1>2, <1>6 DEF StreamAt, HandledUpTo
<1>8. ASSUME actor
      PROVE  QueuedAfter(h)'
  <2>1. lp' = Append(lp, pulled + 1) /\ result' = "none" /\ lp \in Seq(Nat)
    BY <1>1, <1>3, <1>8 DEF StreamInv, StreamTypeOK
  <2>2. Len(lp) = pulled - h /\ \A k \in DOMAIN lp : lp[k] = IF k <= pulled - h THEN h + k ELSE StreamDone
    BY <1>3, <1>6, <1>8 DEF StreamAt, QueuedAfter
  <2>3. /\ DOMAIN lp = 1 .. pulled - h /\ Len(lp') = pulled - h + 1 /\ DOMAIN lp' = 1 .. pulled - h + 1
        /\ \A k \in DOMAIN lp : lp'[k] = lp[k]
        /\ lp'[pulled - h + 1] = pulled + 1
    BY <1>3, <2>1, <2>2
  <2>4. \A k \in DOMAIN lp' : lp'[k] = h + k /\ k <= pulled' - h
    BY <1>1, <1>3, <2>2, <2>3
  <2>5. Len(lp') = pulled' - h
    BY <1>1, <1>3, <2>3
  <2> QED BY <1>1, <1>3, <2>1, <2>4, <2>5 DEF QueuedAfter
<1>9. h \in 0 .. pulled'
  BY <1>1, <1>3
<1> QED BY <1>1, <1>4, <1>5, <1>7, <1>8, <1>9 DEF StreamInv, StreamAt

\* The end of the stream comes behind all of its items.
LEMMA ForwardDoneStep ==
  ASSUME StreamInv, ForwardDone
  PROVE  StreamInv'
<1>1. /\ task = "next" /\ pulled = length /\ task' = "returned"
      /\ UNCHANGED <<length, pulled, notice, actor, calls>>
      /\ IF actor THEN lp' = Append(lp, StreamDone) /\ result' = "Ok" ELSE result' = "Other" /\ UNCHANGED lp
  BY DEF ForwardDone
<1>2. /\ \A method : Called(method)' = Called(method)
      /\ \A i : HandledBefore(i)' = HandledBefore(i)
  BY <1>1, CallsKept
<1>3. /\ result = "none" /\ length \in Nat /\ notice = "none" /\ Called("finished") = {}
      /\ Called("task_finished") = {} /\ Called("task_failed") = {}
  BY <1>1 DEF StreamInv, ResultKnown, StreamTypeOK
<1>4. StreamTypeOK'
  <2>1. lp' \in Seq(Nat)
    <3>1. lp \in Seq(Nat) /\ Append(lp, StreamDone) \in Seq(Nat)
      BY DEF StreamInv, StreamTypeOK, StreamDone
    <3> QED BY <1>1, <3>1
  <2> QED BY <1>1, <2>1 DEF StreamInv, StreamTypeOK
<1>5. ResultKnown'
  BY <1>1, <1>2, <1>3 DEF ResultKnown
<1>6. PICK h \in 0 .. pulled : StreamAt(h)
  BY DEF StreamInv
<1>7. HandledUpTo(h)'
  BY <1>1, <1>2, <1>6 DEF StreamAt, HandledUpTo
<1>8. ASSUME actor
      PROVE  QueuedAfter(h)'
  <2>1. lp' = Append(lp, StreamDone) /\ result' = "Ok" /\ lp \in Seq(Nat)
    BY <1>1, <1>8 DEF StreamInv, StreamTypeOK
  <2>2. Len(lp) = pulled - h /\ \A k \in DOMAIN lp : lp[k] = IF k <= pulled - h THEN h + k ELSE StreamDone
    BY <1>1, <1>3, <1>6, <1>8 DEF StreamAt, QueuedAfter
  <2>3. /\ DOMAIN lp = 1 .. pulled - h /\ Len(lp') = pulled - h + 1 /\ DOMAIN lp' = 1 .. pulled - h + 1
        /\ \A k \in DOMAIN lp : lp'[k] = lp[k]
        /\ lp'[pulled - h + 1] = StreamDone
    BY <1>1, <1>3, <2>1, <2>2
  <2>4. \A k \in DOMAIN lp' : lp'[k] = IF k <= pulled - h THEN h + k ELSE StreamDone
    BY <1>1, <1>3, <2>2, <2>3
  <2> QED BY <1>1, <1>2, <1>3, <2>1, <2>3, <2>4 DEF QueuedAfter
<1> QED BY <1>1, <1>4, <1>5, <1>6, <1>7, <1>8 DEF StreamInv, StreamAt

\* The actor takes the next item, or the end of the stream.
LEMMA HandleItemStep ==
  ASSUME StreamInv, HandleItem
  PROVE  StreamInv'
<1>1. /\ actor /\ lp # <<>> /\ lp' = Tail(lp) /\ lp \in Seq(Nat)
      /\ UNCHANGED <<length, pulled, task, result, notice, actor>>
  BY DEF HandleItem, StreamInv, StreamTypeOK
<1>2. /\ length \in Nat /\ pulled \in 0 .. length /\ StreamTypeOK
  BY DEF StreamInv, StreamTypeOK
<1>3. PICK h \in 0 .. pulled : StreamAt(h)
  BY DEF StreamInv
<1>4. HandledUpTo(h) /\ QueuedAfter(h)
  BY <1>1, <1>3 DEF StreamAt
<1>5. /\ Len(lp) \in Nat \ {0} /\ DOMAIN lp = 1 .. Len(lp) /\ Head(lp) = lp[1]
      /\ lp' \in Seq(Nat) /\ Len(lp') = Len(lp) - 1 /\ DOMAIN lp' = 1 .. Len(lp) - 1
      /\ \A k \in DOMAIN lp' : lp'[k] = lp[k + 1]
  BY <1>1
<1>6. lp[1] = IF 1 <= pulled - h THEN h + 1 ELSE StreamDone
  BY <1>4, <1>5 DEF QueuedAfter
<1>7. PICK n : n = Len(calls)
  OBVIOUS
<1>8. CASE h < pulled
  <2>1. lp[1] = h + 1 /\ lp[1] # StreamDone /\ h + 1 \in Nat
    BY <1>2, <1>6, <1>8 DEF StreamDone
  <2>2. calls' = Append(calls, Call("handle", h + 1))
    BY <1>5, <2>1 DEF HandleItem
  <2>3. /\ n \in Nat /\ calls' \in Seq([method : Methods, item : Nat])
        /\ \A method : Called(method)' = Called(method) \cup (IF method = "handle" THEN {n + 1} ELSE {})
        /\ \A method : Called(method) \subseteq 1 .. n
        /\ \A i \in 1 .. n : calls'[i] = calls[i]
        /\ calls'[n + 1].item = h + 1
        /\ \A i \in 1 .. n : HandledBefore(i)' = HandledBefore(i)
        /\ HandledBefore(n + 1)' = AllHandled
    <3> DEFINE m == "handle"
               x == h + 1
    <3>1. m \in Methods /\ x \in Nat /\ calls' = Append(calls, Call(m, x))
      BY <2>1, <2>2 DEF Methods
    <3> HIDE DEF m, x
    <3>2. /\ n \in Nat /\ calls' \in Seq([method : Methods, item : Nat])
          /\ \A method : Called(method)' = Called(method) \cup (IF method = m THEN {n + 1} ELSE {})
          /\ \A method : Called(method) \subseteq 1 .. n
          /\ \A i \in 1 .. n : calls'[i] = calls[i]
          /\ calls'[n + 1].item = x
          /\ \A i \in 1 .. n : HandledBefore(i)' = HandledBefore(i)
          /\ HandledBefore(n + 1)' = AllHandled
      BY <1>2, <1>7, <3>1, CallAdded
    <3> QED BY <3>2 DEF m, x
  <2>4. /\ Called("handle")' = Called("handle") \cup {n + 1}
        /\ \A method : method # "handle" => Called(method)' = Called(method)
    BY <2>3
  <2>5. StreamTypeOK'
    BY <1>1, <1>2, <1>5, <2>3 DEF StreamTypeOK
  <2>6. ResultKnown'
    BY <1>1, <2>4 DEF StreamInv, ResultKnown
  <2>7. Called("finished") = {}
    BY <1>2, <1>4, <1>8 DEF HandledUpTo
  <2>8. AllHandled = 1 .. h
    BY <1>4 DEF HandledUpTo, AllHandled
  <2>9. HandledUpTo(h + 1)'
    <3>1. \A i \in Called("handle") :
            /\ calls'[i].item \in 1 .. h /\ HandledBefore(i)' = 1 .. calls'[i].item - 1
            /\ calls'[i].item = calls[i].item
      BY <1>4, <2>3 DEF HandledUpTo
    <3>2. HandledBefore(n + 1)' = 1 .. calls'[n + 1].item - 1
      BY <2>3, <2>8, <1>2
    <3>3. \A i \in Called("handle")' :
            calls'[i].item \in 1 .. h + 1 /\ HandledBefore(i)' = 1 .. calls'[i].item - 1
      BY <1>2, <2>3, <2>4, <3>1, <3>2
    <3>4. {calls'[i].item : i \in Called("handle")'} = 1 .. h + 1
      <4>1. {calls'[i].item : i \in Called("handle")'} = AllHandled \cup {h + 1}
        <5>1. \A i \in Called("handle") : calls'[i].item = calls[i].item
          BY <3>1
        <5>2. {calls'[i].item : i \in Called("handle") \cup {n + 1}}
                = {calls[i].item : i \in Called("handle")} \cup {calls'[n + 1].item}
          BY <5>1
        <5>3. calls'[n + 1].item = h + 1
          BY <2>3
        <5> QED BY <2>4, <5>2, <5>3 DEF AllHandled
      <4>2. (1 .. h) \cup {h + 1} = 1 .. h + 1
        BY <1>2
      <4> QED BY <2>8, <4>1, <4>2
    <3> QED BY <2>4, <2>7, <3>3, <3>4 DEF HandledUpTo
  <2>10. QueuedAfter(h + 1)'
    <3>1. Len(lp') = (pulled - (h + 1)) + (IF result = "Ok" /\ Called("finished") = {} THEN 1 ELSE 0)
      BY <1>2, <1>4, <1>5 DEF QueuedAfter
    <3>2. \A k \in DOMAIN lp' : lp'[k] = IF k <= pulled - (h + 1) THEN (h + 1) + k ELSE StreamDone
      <4> SUFFICES ASSUME NEW k \in DOMAIN lp'
                   PROVE  lp'[k] = IF k <= pulled - (h + 1) THEN (h + 1) + k ELSE StreamDone
        OBVIOUS
      <4>1. k \in Nat /\ k + 1 \in DOMAIN lp /\ lp'[k] = lp[k + 1]
        BY <1>5
      <4>2. lp[k + 1] = IF k + 1 <= pulled - h THEN h + (k + 1) ELSE StreamDone
        BY <1>4, <4>1 DEF QueuedAfter
      <4>3. (k + 1 <= pulled - h <=> k <= pulled - (h + 1)) /\ h + (k + 1) = (h + 1) + k
        BY <1>2, <4>1
      <4> QED BY <4>1, <4>2, <4>3
    <3> QED BY <1>1, <2>4, <3>1, <3>2 DEF QueuedAfter
  <2>11. h + 1 \in 0 .. pulled'
    BY <1>1, <1>2, <1>8
  <2> QED BY <2>5, <2>6, <2>9, <2>10, <2>11 DEF StreamInv, StreamAt
<1>9. CASE h = pulled
  <2>1. lp[1] = StreamDone /\ StreamDone \in Nat
    BY <1>2, <1>6, <1>9 DEF StreamDone
  <2>2. calls' = Append(calls, Call("finished", StreamDone))
    BY <1>5, <2>1 DEF HandleItem
  <2>3. result = "Ok" /\ Called("finished") = {} /\ Len(lp) = 1
    BY <1>2, <1>4, <1>5, <1>9 DEF QueuedAfter
  <2>4. pulled = length /\ Called("task_failed") = {}
    BY <2>3 DEF StreamInv, ResultKnown
  <2>5. /\ n \in Nat /\ calls' \in Seq([method : Methods, item : Nat])
        /\ \A method : Called(method)' = Called(method) \cup (IF method = "finished" THEN {n + 1} ELSE {})
        /\ \A method : Called(method) \subseteq 1 .. n
        /\ \A i \in 1 .. n : calls'[i] = calls[i]
        /\ \A i \in 1 .. n : HandledBefore(i)' = HandledBefore(i)
        /\ HandledBefore(n + 1)' = AllHandled
    <3> DEFINE m == "finished"
               x == StreamDone
    <3>1. m \in Methods /\ x \in Nat /\ calls' = Append(calls, Call(m, x))
      BY <2>1, <2>2 DEF Methods
    <3> HIDE DEF m, x
    <3>2. /\ n \in Nat /\ calls' \in Seq([method : Methods, item : Nat])
          /\ \A method : Called(method)' = Called(method) \cup (IF method = m THEN {n + 1} ELSE {})
          /\ \A method : Called(method) \subseteq 1 .. n
          /\ \A i \in 1 .. n : calls'[i] = calls[i]
          /\ calls'[n + 1].item = x
          /\ \A i \in 1 .. n : HandledBefore(i)' = HandledBefore(i)
          /\ HandledBefore(n + 1)' = AllHandled
      BY <1>2, <1>7, <3>1, CallAdded
    <3> QED BY <3>2 DEF m, x
  <2>6. /\ Called("finished")' = {n + 1}
        /\ \A method : method # "finished" => Called(method)' = Called(method)
    BY <2>3, <2>5
  <2>7. StreamTypeOK'
    BY <1>1, <1>2, <1>5, <2>5 DEF StreamTypeOK
  <2>8. ResultKnown'
    BY <1>1, <2>3, <2>6 DEF StreamInv, ResultKnown
  <2>9. HandledUpTo(h)'
    <3>1. \A i \in Called("handle") :
            /\ calls'[i].item \in 1 .. h /\ HandledBefore(i)' = 1 .. calls'[i].item - 1
            /\ calls'[i].item = calls[i].item
      BY <1>4, <2>5 DEF HandledUpTo
    <3>2. {calls'[i].item : i \in Called("handle")'} = 1 .. h
      <4>1. {calls'[i].item : i \in Called("handle")'} = {calls[i].item : i \in Called("handle")}
        BY <2>6, <3>1
      <4> QED BY <1>4, <4>1 DEF HandledUpTo
    <3>3. HandledBefore(n + 1)' = 1 .. length
      BY <1>4, <1>9, <2>4, <2>5 DEF HandledUpTo, AllHandled
    <3>4. \A k \in Called("handle") : k < n + 1
      BY <2>5
    <3> QED BY <1>1, <1>9, <2>4, <2>6, <3>1, <3>2, <3>3, <3>4 DEF HandledUpTo
  <2>10. QueuedAfter(h)'
    <3>1. Len(lp') = 0 /\ DOMAIN lp' = {}
      BY <1>5, <2>3
    <3>2. Called("finished")' # {}
      BY <2>6
    <3>3. Len(lp') = (pulled' - h) + (IF result' = "Ok" /\ Called("finished")' = {} THEN 1 ELSE 0)
      <4>1. pulled' = pulled /\ pulled \in Nat /\ h = pulled
        BY <1>1, <1>2, <1>9
      <4> QED BY <3>1, <3>2, <4>1
    <3> QED BY <3>1, <3>3 DEF QueuedAfter
  <2> QED BY <1>1, <1>3, <2>7, <2>8, <2>9, <2>10 DEF StreamInv, StreamAt
<1> QED BY <1>2, <1>8, <1>9

\* The actor takes the notice, wherever it comes between the items.
LEMMA HandleTaskDoneStep ==
  ASSUME StreamInv, HandleTaskDone
  PROVE  StreamInv'
<1> DEFINE m == IF result = "Ok" THEN "task_finished" ELSE "task_failed"
<1>1. /\ notice = "queued" /\ notice' = "handled" /\ calls' = Append(calls, Call(m, 0))
      /\ UNCHANGED <<length, pulled, task, result, lp, actor>>
  BY DEF HandleTaskDone
<1>2. m \in Methods \ {"handle", "finished"} /\ (m = "task_finished" <=> result = "Ok")
  BY DEF Methods
<1> HIDE DEF m
<1>3. StreamTypeOK /\ task = "over"
  BY <1>1 DEF StreamInv, ResultKnown
<1>4. PICK n : n = Len(calls)
  OBVIOUS
<1>5. /\ n \in Nat /\ calls' \in Seq([method : Methods, item : Nat])
      /\ \A method : Called(method)' = Called(method) \cup (IF method = m THEN {n + 1} ELSE {})
      /\ \A method : Called(method) \subseteq 1 .. n
      /\ \A i \in 1 .. n : calls'[i] = calls[i]
      /\ \A i \in 1 .. n : HandledBefore(i)' = HandledBefore(i)
  BY <1>1, <1>2, <1>3, <1>4, CallAdded
<1>6. \A method : method # m => Called(method)' = Called(method)
  BY <1>5
<1>7. Called("handle")' = Called("handle") /\ Called("finished")' = Called("finished")
  BY <1>2, <1>6
<1>8. StreamTypeOK'
  BY <1>1, <1>3, <1>5 DEF StreamTypeOK
<1>9. ResultKnown'
  <2>1. CASE m = "task_finished"
    <3>1. Called("task_failed")' = Called("task_failed")
      BY <1>6, <2>1
    <3> QED BY <1>1, <1>2, <1>3, <1>7, <2>1, <3>1 DEF StreamInv, ResultKnown
  <2>2. CASE m = "task_failed"
    <3>1. Called("task_finished")' = Called("task_finished")
      BY <1>6, <2>2
    <3> QED BY <1>1, <1>2, <1>3, <1>7, <2>2, <3>1 DEF StreamInv, ResultKnown
  <2> QED BY <1>2, <2>1, <2>2 DEF Methods
<1>10. PICK h \in 0 .. pulled : StreamAt(h)
  BY DEF StreamInv
<1>11. HandledUpTo(h)'
  <2>1. \A i \in Called("handle") :
          calls'[i].item = calls[i].item /\ HandledBefore(i)' = HandledBefore(i)
    BY <1>5
  <2>2. \A i \in Called("finished") : HandledBefore(i)' = HandledBefore(i)
    BY <1>5
  <2>3. {calls'[i].item : i \in Called("handle")} = {calls[i].item : i \in Called("handle")}
    BY <2>1
  <2> QED BY <1>1, <1>7, <1>10, <2>1, <2>2, <2>3 DEF StreamAt, HandledUpTo
<1>12. actor' => QueuedAfter(h)'
  BY <1>1, <1>7, <1>10 DEF StreamAt, QueuedAfter
<1> QED BY <1>1, <1>8, <1>9, <1>10, <1>11, <1>12 DEF StreamInv, StreamAt

\* The actor ends.
LEMMA ActorEndsStep ==
  ASSUME StreamInv, ActorEnds
  PROVE  StreamInv'
<1>1. /\ actor' = FALSE /\ lp' = <<>> /\ UNCHANGED <<length, pulled, task, result, calls>>
      /\ notice' \in {"none", notice}
  BY DEF ActorEnds
<1>2. /\ \A method : Called(method)' = Called(method)
      /\ \A i : HandledBefore(i)' = HandledBefore(i)
  BY <1>1, CallsKept
<1>3. StreamTypeOK' /\ ResultKnown'
  <2>1. lp' \in Seq(Nat)
    BY <1>1
  <2>2. notice' \in {"none", "queued", "handled"} /\ actor' \in BOOLEAN
    BY <1>1 DEF StreamInv, StreamTypeOK
  <2>3. StreamTypeOK'
    BY <1>1, <2>1, <2>2 DEF StreamInv, StreamTypeOK
  <2> QED BY <1>1, <1>2, <2>3 DEF StreamInv, ResultKnown
<1>4. PICK h \in 0 .. pulled : StreamAt(h)
  BY DEF StreamInv
<1>5. HandledUpTo(h)'
  BY <1>1, <1>2, <1>4 DEF StreamAt, HandledUpTo
<1> QED BY <1>1, <1>3, <1>4, <1>5 DEF StreamInv, StreamAt

\* Every step keeps the invariant.
LEMMA StreamStep ==
  ASSUME StreamInv, [Next]_vars
  PROVE  StreamInv'
<1>1. CASE UNCHANGED vars
  <2>1. /\ \A method : Called(method)' = Called(method)
        /\ \A i : HandledBefore(i)' = HandledBefore(i)
    BY <1>1, CallsKept DEF vars
  <2>2. UNCHANGED <<length, pulled, task, result, lp, notice, actor, calls>>
    BY <1>1 DEF vars
  <2>3. StreamTypeOK' /\ ResultKnown'
    BY <2>1, <2>2 DEF StreamInv, StreamTypeOK, ResultKnown
  <2>4. PICK h \in 0 .. pulled : StreamAt(h)
    BY DEF StreamInv
  <2>5. HandledUpTo(h)' /\ (actor' => QueuedAfter(h)')
    BY <2>1, <2>2, <2>4 DEF StreamAt, HandledUpTo, QueuedAfter
  <2> QED BY <2>2, <2>3, <2>4, <2>5 DEF StreamInv, StreamAt
<1> QED BY <1>1, QuietStep, ForwardItemStep, ForwardDoneStep, HandleItemStep, HandleTaskDoneStep,
           ActorEndsStep DEF Next, TaskStep, RoutineStep

\* No item has been pulled and no method called.
LEMMA StreamInit == Init => StreamInv
<1> SUFFICES ASSUME Init PROVE StreamInv
  OBVIOUS
<1>1. StreamTypeOK
  BY StreamAssumption DEF Init, StreamTypeOK
<1>2. \A method : Called(method) = {}
  BY DEF Init, Called
<1>3. ResultKnown
  BY <1>2 DEF Init, ResultKnown
<1>4. HandledUpTo(0) /\ QueuedAfter(0) /\ 0 \in 0 .. pulled
  BY <1>2 DEF Init, HandledUpTo, QueuedAfter
<1> QED BY <1>1, <1>3, <1>4 DEF StreamInv, StreamAt

\* The consumer of a stream of any length sees its items in their order, each
\* once, and finished() after the last of them, however the notice of the task
\* and stops come in between.
THEOREM ConsumerSeesTheStream == Spec => []ItemsInOrder
<1>1. StreamInv /\ [Next]_vars => StreamInv'
  BY StreamStep
<1>2. StreamInv => ItemsInOrder
  <2> SUFFICES ASSUME StreamInv PROVE ItemsInOrder
    OBVIOUS
  <2>1. PICK h \in 0 .. pulled : StreamAt(h)
    BY DEF StreamInv
  <2>2. length \in Nat /\ pulled \in 0 .. length
    BY DEF StreamInv, StreamTypeOK
  <2>3. 1 .. h \subseteq 1 .. length
    BY <2>2
  <2>4. Called("finished") # {} => Called("task_failed") = {}
    BY DEF StreamInv, ResultKnown
  <2> QED BY <2>1, <2>3, <2>4 DEF StreamAt, HandledUpTo, ItemsInOrder
<1> QED BY <1>1, <1>2, StreamInit, PTL DEF Spec

\* When task_finished() is called, all that has not been handled is in the
\* mailbox, in its order.
THEOREM FinishedTaskHasForwarded == Spec => []TaskFinishedMeansForwarded
<1>1. StreamInv /\ [Next]_vars => StreamInv'
  BY StreamStep
<1>2. StreamInv => TaskFinishedMeansForwarded
  <2> SUFFICES ASSUME StreamInv, actor, Called("task_finished") # {}
               PROVE  \E h \in 0 .. length :
                        /\ {calls[i].item : i \in Called("handle")} = 1 .. h
                        /\ Len(lp) >= length - h
                        /\ \A k \in DOMAIN lp : lp[k] = IF k <= length - h THEN h + k ELSE StreamDone
    BY DEF TaskFinishedMeansForwarded
  <2>1. PICK h \in 0 .. pulled : StreamAt(h)
    BY DEF StreamInv
  <2>2. length \in Nat /\ pulled = length
    BY DEF StreamInv, StreamTypeOK, ResultKnown
  <2>3. {calls[i].item : i \in Called("handle")} = 1 .. h
    BY <2>1 DEF StreamAt, HandledUpTo
  <2>4. Len(lp) >= length - h
    BY <2>1, <2>2 DEF StreamAt, QueuedAfter
  <2>5. \A k \in DOMAIN lp : lp[k] = IF k <= length - h THEN h + k ELSE StreamDone
    BY <2>1, <2>2 DEF StreamAt, QueuedAfter
  <2> QED BY <2>2, <2>3, <2>4, <2>5
<1> QED BY <1>1, <1>2, StreamInit, PTL DEF Spec

=============================================================================
