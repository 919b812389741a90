--------------------------- MODULE InboundProofs ---------------------------
(***************************************************************************)
(* Proof that events of messages that do not overlap are queued in the     *)
(* order of the messages, for every set of messages, however many of them  *)
(* are received and whatever calls fail or are repeated.                   *)
(***************************************************************************)
EXTENDS Inbound, TLAPS

\* s is a sequence of length n; nothing is said of its elements.
IsSeq(s, n) == n \in Nat /\ s = [i \in 1..n |-> s[i]]

\* r is s with e behind it; r is s but for element i.
Extends(r, s, n, e) ==
    IsSeq(r, n + 1) /\ (\A i \in 1..n : r[i] = s[i]) /\ r[n + 1] = e
Differs(r, s, n, i) ==
    IsSeq(r, n) /\ \A j \in 1..n : j # i => r[j] = s[j]

\* What Append does to such a sequence.
LEMMA AppendIsSeq ==
    ASSUME NEW s, NEW n, NEW e, NEW r, IsSeq(s, n), r = Append(s, e)
    PROVE  Extends(r, s, n, e)
  <1> DEFINE S == {s[i] : i \in 1..n} \cup {e}
  <1>1. s \in Seq(S) /\ Len(s) = n /\ DOMAIN s = 1..n
    <2>1. n \in Nat /\ s \in [1..n -> S]
      BY DEF IsSeq
    <2>2. s \in Seq(S)
      BY <2>1
    <2> QED
      BY <2>1, <2>2
  <1>2. e \in S
    OBVIOUS
  <1> HIDE DEF S
  <1>3. r \in Seq(S) /\ Len(r) = n + 1
    BY <1>1, <1>2
  <1>4. (\A i \in 1..n : r[i] = s[i]) /\ r[n + 1] = e
    BY <1>1, <1>2
  <1>5. IsSeq(r, n + 1)
    BY <1>1, <1>3 DEF IsSeq
  <1> QED
    BY <1>4, <1>5 DEF Extends

\* Changing an element keeps the length.
LEMMA ExceptIsSeq ==
    ASSUME NEW s, NEW n, NEW i, NEW e, NEW r, IsSeq(s, n), r = [s EXCEPT ![i] = e]
    PROVE  Differs(r, s, n, i)
  BY DEF IsSeq, Differs

\* The number n is the sequence's length and bounds its domain.
LEMMA LenIsSeq ==
    ASSUME NEW s, NEW n, IsSeq(s, n)
    PROVE  n \in Nat /\ Len(s) = n /\ DOMAIN s = 1..n
  <1> DEFINE S == {s[i] : i \in 1..n}
  <1>1. n \in Nat /\ s \in [1..n -> S]
    BY DEF IsSeq
  <1>2. s \in Seq(S)
    BY <1>1
  <1> QED
    BY <1>1, <1>2

-----------------------------------------------------------------------------
N == Len(received)
L == Len(lists)

\* One entry per message in each of the sequences about messages.
Shape ==
    /\ IsSeq(received, N) /\ IsSeq(params, N) /\ IsSeq(calls, N) /\ IsSeq(tries, N)
    /\ IsSeq(before, N) /\ IsSeq(lists, L)
    /\ \A k \in 1..L : lists[k][1] \in 1..N

\* A message that was done when another was received stays done.
BeforeDone == \A j \in 1..N : \A i \in before[j] : i \in 1..N /\ Done(i)

IInv == Shape /\ BeforeDone /\ EventsInOrder

\* The domains the definitions speak of.
LEMMA Domains ==
    ASSUME Shape
    PROVE  /\ N \in Nat /\ L \in Nat
           /\ DOMAIN received = 1..N /\ DOMAIN calls = 1..N /\ DOMAIN params = 1..N
           /\ DOMAIN tries = 1..N /\ DOMAIN before = 1..N /\ DOMAIN lists = 1..L
  BY DEF Shape, IsSeq

-----------------------------------------------------------------------------
LEMMA InitIInv == Init => IInv
  <1> SUFFICES ASSUME Init PROVE IInv
    OBVIOUS
  <1>1. N = 0 /\ L = 0
    BY DEF Init, N, L
  <1>2. IsSeq(<<>>, 0)
    BY DEF IsSeq
  <1> QED
    BY <1>1, <1>2 DEF Init, IInv, Shape, BeforeDone, EventsInOrder

\* A message received finds some of the others done, and adds no entry.
LEMMA ReceiveKeeps == ASSUME IInv, NEW m, Receive(m) PROVE IInv'
  <1> DEFINE D == {i \in DOMAIN received : Done(i)}
  <1>1. /\ Shape /\ BeforeDone /\ EventsInOrder
        /\ received' = Append(received, m) /\ params' = Append(params, Handled(m))
        /\ calls' = Append(calls, <<>>) /\ tries' = Append(tries, 0)
        /\ before' = Append(before, D) /\ lists' = lists
    BY DEF IInv, Receive
  <1>2. N \in Nat /\ DOMAIN received = 1..N /\ L' = L
    BY <1>1, Domains DEF L
  <1>3. /\ IsSeq(received', N + 1) /\ IsSeq(params', N + 1) /\ IsSeq(calls', N + 1)
        /\ IsSeq(tries', N + 1) /\ IsSeq(before', N + 1)
        /\ \A i \in 1..N : /\ params'[i] = params[i] /\ calls'[i] = calls[i]
                           /\ before'[i] = before[i]
        /\ before'[N + 1] = D
    <2> HIDE DEF D
    <2>1. \E e : Extends(received', received, N, e)
      BY <1>1, AppendIsSeq DEF Shape
    <2>2. \E e : Extends(params', params, N, e)
      BY <1>1, AppendIsSeq DEF Shape
    <2>3. \E e : Extends(calls', calls, N, e)
      BY <1>1, AppendIsSeq DEF Shape
    <2>4. \E e : Extends(tries', tries, N, e)
      BY <1>1, AppendIsSeq DEF Shape
    <2>5. Extends(before', before, N, D)
      <3>1. IsSeq(before, N) /\ before' = Append(before, D)
        BY <1>1 DEF Shape, D
      <3> QED
        BY <3>1, AppendIsSeq
    <2> QED
      BY <2>1, <2>2, <2>3, <2>4, <2>5 DEF Extends
  <1>4. N' = N + 1
    BY <1>3, LenIsSeq DEF N
  <1>5. Shape'
    BY <1>1, <1>2, <1>3, <1>4 DEF Shape
  <1>6. BeforeDone'
    <2> SUFFICES ASSUME NEW j \in 1..(N + 1), NEW i \in before'[j]
                 PROVE  i \in 1..N /\ Done(i)'
      BY <1>2, <1>4 DEF BeforeDone
    <2>1. i \in 1..N /\ Done(i)
      <3>1. CASE j \in 1..N
        BY <1>1, <1>3, <3>1 DEF BeforeDone
      <3>2. CASE j = N + 1
        BY <1>2, <1>3, <3>2
      <3> QED
        BY <1>2, <3>1, <3>2
    <2> QED
      BY <1>3, <2>1 DEF Done
  <1>7. EventsInOrder'
    <2>1. \A l \in 1..L : before'[lists[l][1]] = before[lists[l][1]]
      BY <1>1, <1>3 DEF Shape
    <2>2. DOMAIN lists = 1..L
      BY <1>1, Domains
    <2> QED
      BY <1>1, <2>1, <2>2 DEF EventsInOrder
  <1> QED
    BY <1>5, <1>6, <1>7 DEF IInv

\* What every later step of message i's goroutine has in common.
Works(i) ==
    /\ ~Done(i)
    /\ \E e : params' = [params EXCEPT ![i] = e]
    /\ \E e : calls' = [calls EXCEPT ![i] = e]
    /\ \E e : tries' = [tries EXCEPT ![i] = e]
    /\ lists' = lists \/ \E e, v : lists' = Append(lists, <<i, e, v>>)
    /\ UNCHANGED <<received, before>>

\* A goroutine at work pushes behind the entries there are, and nobody was
\* received after it had been done.
LEMMA WorksKeeps == ASSUME IInv, NEW i \in 1..N, Works(i) PROVE IInv'
  <1>1. /\ Shape /\ BeforeDone /\ EventsInOrder /\ ~Done(i)
        /\ received' = received /\ before' = before
    BY DEF IInv, Works
  <1>2. N' = N /\ N \in Nat /\ L \in Nat /\ DOMAIN lists = 1..L
    BY <1>1, Domains DEF N
  <1>3. /\ IsSeq(params', N) /\ IsSeq(calls', N) /\ IsSeq(tries', N)
        /\ \A j \in 1..N : j # i => params'[j] = params[j] /\ calls'[j] = calls[j]
    <2>1. PICK e : params' = [params EXCEPT ![i] = e]
      BY DEF Works
    <2>2. PICK d : calls' = [calls EXCEPT ![i] = d]
      BY DEF Works
    <2>3. PICK t : tries' = [tries EXCEPT ![i] = t]
      BY DEF Works
    <2>4. Differs(params', params, N, i)
      BY <1>1, <2>1, ExceptIsSeq DEF Shape
    <2>5. Differs(calls', calls, N, i)
      BY <1>1, <2>2, ExceptIsSeq DEF Shape
    <2>6. Differs(tries', tries, N, i)
      BY <1>1, <2>3, ExceptIsSeq DEF Shape
    <2> QED
      BY <2>4, <2>5, <2>6 DEF Differs
  <1>4. \A j \in 1..N : i \notin before[j]
    BY <1>1 DEF BeforeDone
  <1>5. BeforeDone'
    BY <1>1, <1>2, <1>3, <1>4 DEF BeforeDone, Done
  <1>6. CASE lists' = lists
    <2>1. L' = L
      BY <1>6 DEF L
    <2>2. Shape'
      BY <1>1, <1>2, <1>3, <1>6, <2>1 DEF Shape
    <2>3. EventsInOrder'
      BY <1>1, <1>6 DEF EventsInOrder
    <2> QED
      BY <1>5, <2>2, <2>3 DEF IInv
  <1>7. ASSUME NEW e, NEW v, lists' = Append(lists, <<i, e, v>>) PROVE IInv'
    <2>1. /\ IsSeq(lists', L + 1)
          /\ \A k \in 1..L : lists'[k] = lists[k]
          /\ lists'[L + 1] = <<i, e, v>>
      <3> DEFINE entry == <<i, e, v>>
      <3>1. IsSeq(lists, L) /\ lists' = Append(lists, entry)
        BY <1>1, <1>7 DEF Shape
      <3> HIDE DEF entry
      <3>2. Extends(lists', lists, L, entry)
        BY <3>1, AppendIsSeq
      <3> QED
        BY <3>2 DEF Extends, entry
    <2>2. L' = L + 1 /\ DOMAIN lists' = 1..(L + 1)
      BY <2>1, LenIsSeq DEF L
    <2>3. lists'[L + 1][1] = i
      BY <2>1
    <2>4. \A k \in 1..(L + 1) : lists'[k][1] \in 1..N
      <3> TAKE k \in 1..(L + 1)
      <3>1. CASE k \in 1..L
        BY <1>1, <2>1, <3>1 DEF Shape
      <3>2. CASE k = L + 1
        BY <2>3, <3>2
      <3> QED
        BY <1>2, <3>1, <3>2
    <2>5. Shape'
      BY <1>1, <1>2, <1>3, <2>1, <2>2, <2>4 DEF Shape
    <2>6. EventsInOrder'
      <3> SUFFICES ASSUME NEW k \in 1..(L + 1), NEW l \in 1..(L + 1),
                          lists'[k][1] \in before[lists'[l][1]]
                   PROVE  k < l
        BY <1>1, <2>2 DEF EventsInOrder
      <3>1. k # L + 1
        BY <1>4, <2>3, <2>4
      <3>2. CASE l \in 1..L
        BY <1>1, <1>2, <2>1, <3>1, <3>2 DEF EventsInOrder
      <3>3. CASE l = L + 1
        BY <1>2, <3>1, <3>3
      <3> QED
        BY <1>2, <3>2, <3>3
    <2> QED
      BY <1>5, <2>5, <2>6 DEF IInv
  <1> QED
    BY <1>6, <1>7 DEF Works

\* Effect appends to the lists or leaves them alone.
LEMMA EffectLists ==
    ASSUME NEW i, NEW c, Effect(i, c)
    PROVE  lists' = lists \/ \E e, v : lists' = Append(lists, <<i, e, v>>)
  BY DEF Effect

\* The steps of a goroutine are of that kind.
LEMMA StepsWork ==
    ASSUME IInv, NEW i \in DOMAIN received, Begin(i) \/ Call(i) \/ Retry(i)
    PROVE  i \in 1..N /\ Works(i)
  <1>1. i \in 1..N /\ params = [params EXCEPT ![i] = params[i]]
                   /\ calls = [calls EXCEPT ![i] = calls[i]]
                   /\ tries = [tries EXCEPT ![i] = tries[i]]
    BY Domains DEF IInv, Shape, IsSeq
  <1>2. CASE Begin(i)
    BY <1>1, <1>2 DEF Begin, Works, Done
  <1>3. CASE Call(i)
    <2>1. /\ calls' = [calls EXCEPT ![i] = Tail(calls[i])] /\ calls[i] # <<>>
          /\ \E e : tries' = [tries EXCEPT ![i] = e]
          /\ UNCHANGED <<received, params, before>>
      BY <1>3 DEF Call
    <2>2. lists' = lists \/ \E e, v : lists' = Append(lists, <<i, e, v>>)
      BY <1>3, EffectLists DEF Call
    <2> QED
      BY <1>1, <2>1, <2>2 DEF Works, Done
  <1>4. CASE Retry(i)
    <2>1. /\ \E e : calls' = [calls EXCEPT ![i] = e]
          /\ \E e : tries' = [tries EXCEPT ![i] = e]
          /\ calls[i] # <<>> /\ UNCHANGED <<received, params, before>>
      BY <1>4 DEF Retry
    <2>2. lists' = lists \/ \E e, v : lists' = Append(lists, <<i, e, v>>)
      BY <1>4, EffectLists DEF Retry
    <2> QED
      BY <1>1, <2>1, <2>2 DEF Works, Done
  <1> QED
    BY <1>1, <1>2, <1>3, <1>4

\* The invariant is inductive.
LEMMA NextKeeps == IInv /\ [Next]_vars => IInv'
  <1>1. ASSUME IInv, UNCHANGED vars PROVE IInv'
    BY <1>1 DEF IInv, Shape, BeforeDone, EventsInOrder, Done, N, L, vars
  <1>2. ASSUME IInv, Next PROVE IInv'
    BY <1>2, ReceiveKeeps, StepsWork, WorksKeeps DEF Next
  <1> QED
    BY <1>1, <1>2

\* Two events are queued in the order they happened, if the earlier one's
\* message was done with when the later one's came.
THEOREM InboundEventsInOrder == Spec => []EventsInOrder
  <1>1. IInv => EventsInOrder
    BY DEF IInv
  <1> QED
    BY <1>1, InitIInv, NextKeeps, PTL DEF Spec
=============================================================================
