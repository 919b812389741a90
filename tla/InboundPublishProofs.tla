----------------------- MODULE InboundPublishProofs -----------------------
(***************************************************************************)
(* Proof that a value is announced when it can be read, for every set of   *)
(* messages, however their goroutines interleave and whatever calls fail   *)
(* or are repeated.                                                        *)
(***************************************************************************)
EXTENDS InboundFieldProofs

\* The value that publication c announces can be read, message i's.
Shows(i, c) == Readable(i, <<c.channel, c.payload[1]>>, c.payload[2])

\* If a message's next call is a publication, the value it announces can be read.
Publication(i) ==
    calls[i] # <<>> /\ calls[i][1].op = "publish" => Shows(i, calls[i][1])
Publications == \A i \in 1..N : Publication(i)

PInv == TInv /\ Publications

LEMMA PInvAnnouncedIsStored == PInv => AnnouncedIsStored
  <1> SUFFICES ASSUME PInv, NEW i \in DOMAIN received, calls[i] # <<>>,
                      Head(calls[i]).op = "publish"
               PROVE  Shows(i, Head(calls[i]))
    BY DEF AnnouncedIsStored, Shows
  <1>1. i \in 1..N
    BY Domains DEF PInv, TInv, IInv
  <1>2. Head(calls[i]) = calls[i][1]
    BY <1>1, CallsLeft, TailCalls DEF PInv
  <1> QED
    BY <1>1, <1>2 DEF PInv, Publications, Publication

LEMMA InitPInv == Init => PInv
  <1> SUFFICES ASSUME Init PROVE PInv
    OBVIOUS
  <1>1. N = 0
    BY DEF Init, N
  <1> QED
    BY <1>1, InitTInv DEF PInv, Publications

\* A value stays readable while the field keeps it or is written by another
\* message that was at work when message i was received.
LEMMA StaysReadable ==
    ASSUME NEW i, NEW at, NEW v, Readable(i, at, v),
           failed \subseteq failed', before'[i] = before[i], Writers(at) \subseteq Writers(at)',
           \A j \in Writers(at) : received'[j] = received[j],
           \/ Stored(at)' = Stored(at)
           \/ \E j \in Writers(at) \ {i} :
                j \notin before[i] /\ Stored(at)' \in Written(received[j], at)
    PROVE  Readable(i, at, v)'
  <1>1. \A j \in Writers(at) :
          Stored(at)' \in Written(received[j], at) => Stored(at)' \in Written(received'[j], at)
    OBVIOUS
  <1> QED
    BY <1>1 DEF Readable

LEMMA ReceivePublications == ASSUME PInv, TInv', NEW m, Receive(m) PROVE PInv'
  <1>1. /\ N' = N + 1 /\ N \in Nat /\ calls'[N + 1] = <<>>
        /\ \A k \in 1..N : /\ received'[k] = received[k] /\ calls'[k] = calls[k]
                           /\ before'[k] = before[k]
        /\ store' = store /\ failed' = failed
    BY ReceiveSteps DEF PInv
  <1>2. DOMAIN received = 1..N /\ DOMAIN received' = 1..(N + 1)
    <2>1. Shape /\ Shape'
      BY DEF PInv, TInv, IInv
    <2> QED
      BY <1>1, <2>1 DEF Shape, IsSeq
  <1>3. \A at : /\ Writers(at) \subseteq Writers(at)' /\ Stored(at)' = Stored(at)
                /\ \A j \in Writers(at) : received'[j] = received[j]
    <2>1. \A k \in 1..N : k \in 1..(N + 1) /\ Touched(received'[k]) = Touched(received[k])
      BY <1>1
    <2> QED
      BY <1>1, <1>2, <2>1 DEF Writers, Stored
  <1>4. ASSUME NEW k \in 1..(N + 1)
        PROVE  Publication(k)'
    <2>1. CASE k \in 1..N
      <3>1. PICK c : c = calls[k][1]
        OBVIOUS
      <3>2. Shows(k, c) => Shows(k, c)'
        BY <1>1, <1>3, <2>1, StaysReadable DEF Shows
      <3>3. calls'[k] = calls[k] /\ calls'[k][1] = c
        BY <1>1, <2>1, <3>1
      <3> QED
        BY <2>1, <3>1, <3>2, <3>3 DEF PInv, Publications, Publication, Shows
    <2>2. CASE k = N + 1
      BY <1>1, <2>2 DEF Publication
    <2> QED
      BY <1>1, <2>1, <2>2
  <1> QED
    BY <1>1, <1>4 DEF PInv, Publications

LEMMA TurnsPublications ==
    ASSUME PInv, TInv', NEW i, NEW p, Turns(i, p) PROVE PInv'
  <1>1. /\ i \in 1..N /\ N' = N /\ calls'[i] = OpsOf(p)
        /\ UNCHANGED <<received, before, store, failed>>
        /\ \A j \in 1..N : j # i => calls'[j] = calls[j]
    BY DEF Turns
  <1>2. \A k, c : Shows(k, c)' <=> Shows(k, c)
    BY <1>1 DEF Shows, Readable, Stored, Writers
  <1>3. OpsOf(p) # <<>> => OpsOf(p)[1].op # "publish"
    <2> DEFINE s == OpsOf(p)
    <2>1. AreCalls(s) /\ AllAnnounces(s)
      BY OpsCalls, OpsAnnounce
    <2> HIDE DEF s
    <2>2. s # <<>> => Len(s) \in Nat \ {0}
      BY <2>1, TailCalls
    <2> QED
      BY <2>1, <2>2 DEF AllAnnounces, s
  <1>4. ASSUME NEW k \in 1..N
        PROVE  Publication(k)'
    <2>1. CASE k # i
      BY <1>1, <1>2, <2>1 DEF PInv, Publications, Publication
    <2>2. CASE k = i
      BY <1>1, <1>3, <2>2 DEF Publication
    <2> QED
      BY <2>1, <2>2
  <1> QED
    BY <1>1, <1>4 DEF PInv, Publications

\* A field changes only by a call that writes it, and then to that value.
LEMMA ActsStored ==
    ASSUME NEW i, NEW c, Acts(i, c), NEW at
    PROVE  /\ ~Writes(c, at) => Stored(at)' = Stored(at)
           /\ Stored(at)' # Stored(at) => Stored(at)' = Value(c)
           /\ Writes(c, at) => Stored(at)' = Value(c) \/ <<i, c>> \in failed'
  <1>1. Effect(i, c) => Stored(at)' = IF Writes(c, at) THEN Value(c) ELSE Stored(at)
    BY EffectStored
  <1>2. store' = store => Stored(at)' = Stored(at)
    BY DEF Stored
  <1>3. Effect(i, c) \/ (store' = store /\ <<i, c>> \in failed')
    BY DEF Acts
  <1> QED
    BY <1>1, <1>2, <1>3

\* A publication that comes next announces what the call made before wrote.
LEMMA TailAnnounces ==
    ASSUME NEW s, AreCalls(s), s # <<>>, RestAnnounces(s),
           Tail(s) # <<>>, Tail(s)[1].op = "publish"
    PROVE  Announces(Tail(s)[1], s[1])
  <1> DEFINE n == Len(s)
  <1>1. PICK t : t = Tail(s)
    OBVIOUS
  <1>2. /\ n \in Nat \ {0} /\ AreCalls(t) /\ Len(t) = n - 1
        /\ \A j \in 1..(n - 1) : t[j] = s[j + 1]
    BY <1>1, TailCalls
  <1>3. \A j \in 2..n : s[j].op = "publish" => Announces(s[j], s[j - 1])
    BY DEF RestAnnounces
  <1> HIDE DEF n
  <1>4. n - 1 \in Nat \ {0}
    BY <1>1, <1>2, TailCalls
  <1>5. 2 \in 2..n /\ 1 \in 1..(n - 1) /\ t[1] = s[2]
    BY <1>2, <1>4
  <1> QED
    BY <1>1, <1>3, <1>5

LEMMA ActsPublications ==
    ASSUME PInv, TInv', NEW i, NEW c, Acts(i, c) PROVE PInv'
  <1>1. /\ i \in 1..N /\ calls[i] # <<>> /\ c = calls[i][1] /\ c \in AllOps(received[i])
        /\ N' = N /\ UNCHANGED <<received, params, before>>
        /\ \A j \in 1..N : j # i => calls'[j] = calls[j]
        /\ calls'[i] \in {Tail(calls[i]), Restarted(c, calls[i])}
        /\ failed \subseteq failed'
    BY DEF Acts, Passes
  <1>2. \A at : Writers(at)' = Writers(at)
    BY <1>1 DEF Writers
  <1>3. DOMAIN received = 1..N /\ AreCalls(calls[i]) /\ RestAnnounces(calls[i])
    BY <1>1, CallsLeft, Domains DEF PInv, TInv, IInv
  <1>4. ASSUME NEW k \in 1..N, NEW d, Shows(k, d),
               k # i \/ ~Writes(c, <<d.channel, d.payload[1]>>)
        PROVE  Shows(k, d)'
    <2> DEFINE at == <<d.channel, d.payload[1]>>
    <2>1. CASE ~Writes(c, at)
      <3>1. Stored(at)' = Stored(at)
        BY <2>1, ActsStored
      <3> QED
        BY <1>1, <1>2, <1>4, <3>1, StaysReadable DEF Shows
    <2>2. CASE k # i /\ Writes(c, at)
      <3>1. i \in Writers(at)
        BY <1>1, <1>3, <2>2 DEF Writers, Touched, Writes
      <3>2. i \notin before[k]
        BY <1>1, <1>4 DEF PInv, TInv, IInv, BeforeDone, Done
      <3>3. Stored(at)' = Stored(at) \/ Stored(at)' \in Written(received[i], at)
        <4>1. Stored(at)' # Stored(at) => Stored(at)' = Value(c)
          BY ActsStored
        <4>2. Value(c) \in Written(received[i], at)
          BY <1>1, <2>2 DEF Written
        <4> QED
          BY <4>1, <4>2
      <3> QED
        BY <1>1, <1>2, <1>4, <2>2, <3>1, <3>2, <3>3, StaysReadable DEF Shows
    <2> QED
      BY <1>4, <2>1, <2>2
  <1>5. ASSUME NEW k \in 1..N
        PROVE  Publication(k)'
    <2>1. PICK d : d = calls[k][1]
      OBVIOUS
    <2>2. calls[k] # <<>> /\ d.op = "publish" => Shows(k, d)
      BY <2>1 DEF PInv, Publications, Publication
    <2>3. CASE k # i
      <3>1. Shows(k, d) => Shows(k, d)'
        BY <1>4, <2>3
      <3>2. calls'[k] = calls[k]
        BY <1>1, <2>3
      <3> QED
        BY <2>1, <2>2, <3>1, <3>2 DEF Shows, Publication
    \* What is repeated starts with the write or another call of its own.
    <2>4. CASE k = i /\ calls'[i] = Restarted(c, calls[i])
      <3>1. PICK p : IsRest(calls[i], OpsOf(p))
        BY <1>1 DEF PInv, TInv, Goroutines
      <3>2. Restarted(c, calls[i])[1].op # "publish"
        <4>1. PICK s : s = calls[i]
          OBVIOUS
        <4>2. IsRest(s, OpsOf(p)) /\ s # <<>> /\ c = s[1]
          BY <1>1, <3>1, <4>1
        <4>3. /\ s[1].op # "publish" => Restarted(s[1], s) = s
              /\ s[1].op = "publish" => Restarted(s[1], s)[1].op = "hset"
          BY <4>2, RestRestarted
        <4> QED
          BY <4>1, <4>2, <4>3
      <3> QED
        BY <2>4, <3>2 DEF Publication
    <2>5. CASE k = i /\ calls'[i] = Tail(calls[i])
      <3>1. PICK e : e = Tail(calls[i])[1]
        OBVIOUS
      <3>2. Tail(calls[i]) # <<>> /\ e.op = "publish" => Announces(e, c)
        BY <1>1, <1>3, <3>1, TailAnnounces
      <3>3. ASSUME Announces(e, c) PROVE Shows(i, e)'
        <4>1. PICK key, field, v : c = HSet(key, field, v) /\ e = Publish(key, <<field, v>>)
          BY <3>3 DEF Announces
        <4>2. PICK at : at = <<key, field>>
          OBVIOUS
        <4>3. Writes(c, at) /\ Value(c) = v /\ at[1] = key /\ at[2] = field
          BY <4>1, <4>2 DEF HSet, Writes, Value
        <4>4. e.channel = key /\ e.payload[1] = field /\ e.payload[2] = v
          BY <4>1 DEF Publish
        <4>5. Stored(at)' = v \/ <<i, HSet(at[1], at[2], v)>> \in failed'
          BY <4>1, <4>3, ActsStored
        <4>6. Readable(i, at, v)'
          BY <4>5 DEF Readable
        <4> QED
          BY <4>2, <4>4, <4>6 DEF Shows
      <3> QED
        BY <2>5, <3>1, <3>2, <3>3 DEF Shows, Publication
    <2> QED
      BY <1>1, <2>3, <2>4, <2>5
  <1> QED
    BY <1>1, <1>5 DEF PInv, Publications

LEMMA NextPublications == PInv /\ [Next]_vars => PInv'
  <1> SUFFICES ASSUME PInv, [Next]_vars PROVE PInv'
    OBVIOUS
  <1>1. TInv'
    BY NextTypes DEF PInv
  <1>2. CASE UNCHANGED vars
    <2>1. UNCHANGED <<received, calls, store, before, failed>> /\ N' = N
      BY <1>2 DEF vars, mishaps, N
    <2>2. \A i, c : Shows(i, c)' <=> Shows(i, c)
      BY <2>1 DEF Shows, Readable, Stored, Writers
    <2> QED
      BY <1>1, <2>1, <2>2 DEF PInv, Publications, Publication
  <1>3. ASSUME NEW m \in Incoming, Receive(m) PROVE PInv'
    BY <1>1, <1>3, ReceivePublications
  <1>4. ASSUME NEW i \in DOMAIN received, Begin(i) PROVE PInv'
    BY <1>1, <1>4, BeginTurns, TurnsPublications DEF PInv
  <1>5. ASSUME NEW i \in DOMAIN received, Call(i) \/ Retry(i) PROVE PInv'
    BY <1>1, <1>5, CallActs, ActsPublications DEF PInv
  <1> QED
    BY <1>2, <1>3, <1>4, <1>5 DEF Next

\* A value is announced when it can be read, unless its write failed; or else the
\* field holds what another message wrote that was not dealt with when this one
\* was received.
THEOREM InboundAnnouncedIsStored == Spec => []AnnouncedIsStored
  BY InitPInv, NextPublications, PInvAnnouncedIsStored, PTL DEF Spec
=============================================================================
