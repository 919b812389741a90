--------------------------- MODULE PairingProofs ---------------------------
(***************************************************************************)
(* Proof that the circle of pin reports and removals does not feed itself, *)
(* for any set of pins and any number of displays, dismissals, commands    *)
(* and failures.                                                           *)
(***************************************************************************)
EXTENDS Pairing, FiniteSetTheorems, SequenceTheorems, TLAPS

\* What a handler of a pin message may store, publish and call.
Values   == {Text(p) : p \in Pins \cup {""}}
Payloads == {<<"pin-code", v>> : v \in Values}
PinCalls == {HSet("ble", "pin-code", v) : v \in Values}
            \cup {Publish("ble", payload) : payload \in Payloads}
            \cup {HDel("ble", "pin-code")}

-----------------------------------------------------------------------------
(* The calls of the handlers.                                              *)

\* A displayed pin is stored and published.
LEMMA DisplayCallsAre ==
    ASSUME NEW p
    PROVE  DisplayCalls(p) = <<HSet("ble", "pin-code", Text(p)),
                               Publish("ble", <<"pin-code", Text(p)>>)>>
  <1>1. DisplayCalls(p) = handleBLEParamMessage(41090, 41090, Text(p))
    BY DEF DisplayCalls, Ops, Type
  <1>2. IsText(Text(p)) /\ Text(p)[2] = p
    BY DEF IsText, Text
  <1>3. handleBLEParamMessage(41090, 41090, Text(p))
        = WriteAndPublish("ble", "pin-code", Text(p))
    BY <1>2 DEF handleBLEParamMessage, Type, BLEParam
  <1> QED
    BY <1>1, <1>3 DEF WriteAndPublish

\* Concatenating literal sequences.
LEMMA ConcatThree == ASSUME NEW a, NEW b, NEW c PROVE <<a>> \o <<b, c>> = <<a, b, c>>
  <1> DEFINE S == {a, b, c}
  <1>1. <<a>> \in Seq(S) /\ <<b, c>> \in Seq(S) /\ Len(<<a>>) = 1 /\ Len(<<b, c>>) = 2
    OBVIOUS
  <1>2. /\ <<a>> \o <<b, c>> \in Seq(S) /\ Len(<<a>> \o <<b, c>>) = 3
        /\ \A i \in 1..3 : (<<a>> \o <<b, c>>)[i]
                          = IF i <= 1 THEN <<a>>[i] ELSE <<b, c>>[i - 1]
    BY <1>1, ConcatProperties
  <1>3. /\ (<<a>> \o <<b, c>>)[1] = a /\ (<<a>> \o <<b, c>>)[2] = b
        /\ (<<a>> \o <<b, c>>)[3] = c
    BY <1>2
  <1> DEFINE u == <<a>> \o <<b, c>>
             t == <<a, b, c>>
  <1>4. t \in Seq(S) /\ Len(t) = 3 /\ t[1] = a /\ t[2] = b /\ t[3] = c
    OBVIOUS
  <1>5. u \in Seq(S) /\ Len(u) = 3 /\ u[1] = a /\ u[2] = b /\ u[3] = c
    BY <1>2, <1>3
  <1> HIDE DEF t, u, S
  <1>6. \A i \in 1..3 : u[i] = t[i]
    BY <1>4, <1>5
  <1>7. u = t
    BY <1>4, <1>5, <1>6, SeqEqual
  <1> QED
    BY <1>7 DEF t, u

\* A removed pin is deleted, stored empty, and published empty.
LEMMA RemoveCallsAre ==
    RemoveCalls = <<HDel("ble", "pin-code"), HSet("ble", "pin-code", Text("")),
                    Publish("ble", <<"pin-code", Text("")>>)>>
  <1>1. RemoveCalls = handleBLEParamMessage(41091, 41091, <<"int", 0>>)
    BY DEF RemoveCalls, Ops, Type
  <1>2. handleBLEParamMessage(41091, 41091, <<"int", 0>>) = RemovePin
    BY DEF handleBLEParamMessage, Type, BLEParam
  <1> DEFINE del == HDel("ble", "pin-code")
             set == HSet("ble", "pin-code", Text(""))
             pub == Publish("ble", <<"pin-code", Text("")>>)
  <1>3. RemovePin = <<del>> \o <<set, pub>>
    BY DEF RemovePin, WriteAndPublish
  <1> HIDE DEF del, set, pub
  <1>4. <<del>> \o <<set, pub>> = <<del, set, pub>>
    BY ConcatThree
  <1>5. RemoveCalls = <<del, set, pub>>
    BY <1>1, <1>2, <1>3, <1>4
  <1> QED
    BY <1>5 DEF del, set, pub

\* So a handler starts with some of these calls.
LEMMA HandlersCalls ==
    /\ \A p \in Pins : DisplayCalls(p) \in Seq(PinCalls) \ {<<>>}
    /\ RemoveCalls \in Seq(PinCalls) \ {<<>>}
  <1>1. ASSUME NEW p \in Pins \cup {""}
        PROVE  /\ HSet("ble", "pin-code", Text(p)) \in PinCalls
               /\ Publish("ble", <<"pin-code", Text(p)>>) \in PinCalls
    BY DEF PinCalls, Payloads, Values
  <1>2. HDel("ble", "pin-code") \in PinCalls
    BY DEF PinCalls
  <1>3. ASSUME NEW a \in PinCalls, NEW b \in PinCalls, NEW c \in PinCalls
        PROVE  <<a, b>> \in Seq(PinCalls) \ {<<>>} /\ <<a, b, c>> \in Seq(PinCalls) \ {<<>>}
    OBVIOUS
  <1>4. ASSUME NEW p \in Pins PROVE DisplayCalls(p) \in Seq(PinCalls) \ {<<>>}
    BY <1>1, <1>3, DisplayCallsAre
  <1>5. RemoveCalls \in Seq(PinCalls) \ {<<>>}
    BY <1>1, <1>2, <1>3, RemoveCallsAre
  <1> QED
    BY <1>4, <1>5

\* What such a call stores is a pin's text; what it publishes is never the
\* mere name of the field.
LEMMA CallEffects ==
    ASSUME NEW c \in PinCalls
    PROVE  /\ c.op = "hset" => c.value \in Values
           /\ c.op = "publish" => c.payload \in Payloads
  BY DEF PinCalls, HSet, HDel, Publish

\* The service does not publish what the subscriber waits for.
LEMMA OwnPayloads ==
    ASSUME NEW payload \in Payloads
    PROVE  payload # PinChanged /\ payload[1] = "pin-code"
  <1>1. PICK v : payload = <<"pin-code", v>>
    BY DEF Payloads
  <1>2. Len(payload) = 2 /\ Len(PinChanged) = 1
    BY <1>1 DEF PinChanged
  <1> QED
    BY <1>1, <1>2

-----------------------------------------------------------------------------
(* Counting the notifications still to be received.                        *)

At(s) == {i \in 1..Len(s) : s[i] = PinChanged}

Pending(s) == Cardinality(At(s))

\* There are finitely many.
LEMMA PendingNat ==
    ASSUME NEW S, NEW s \in Seq(S)
    PROVE  IsFiniteSet(At(s)) /\ Pending(s) \in Nat
  <1>1. IsFiniteSet(1..Len(s)) /\ At(s) \in SUBSET (1..Len(s))
    BY FS_Interval DEF At
  <1> QED
    BY <1>1, FS_Subset, FS_CardinalityType DEF Pending

\* Receiving one more.
LEMMA PendingAppend ==
    ASSUME NEW S, NEW s \in Seq(S), NEW e \in S
    PROVE  Pending(Append(s, e)) = IF e = PinChanged THEN Pending(s) + 1 ELSE Pending(s)
  <1>1. Len(s) \in Nat /\ Len(Append(s, e)) = Len(s) + 1
    OBVIOUS
  <1>2. /\ \A i \in 1..Len(s) : Append(s, e)[i] = s[i]
        /\ Append(s, e)[Len(s) + 1] = e
    OBVIOUS
  <1>3. CASE e = PinChanged
    <2>1. At(Append(s, e)) = At(s) \cup {Len(s) + 1}
      BY <1>1, <1>2, <1>3 DEF At
    <2>2. Len(s) + 1 \notin At(s)
      BY <1>1 DEF At
    <2> QED
      BY <1>3, <2>1, <2>2, PendingNat, FS_AddElement DEF Pending
  <1>4. CASE e # PinChanged
    <2>1. At(Append(s, e)) = At(s)
      BY <1>1, <1>2, <1>4 DEF At
    <2> QED
      BY <1>4, <2>1 DEF Pending
  <1> QED
    BY <1>3, <1>4

\* Receiving the oldest one.
LEMMA PendingTail ==
    ASSUME NEW S, NEW s \in Seq(S), s # <<>>
    PROVE  Pending(s) = IF Head(s) = PinChanged THEN Pending(Tail(s)) + 1
                        ELSE Pending(Tail(s))
  <1> DEFINE rest == At(s) \ {1}
             shift == [i \in At(Tail(s)) |-> i + 1]
  <1>1. /\ Len(s) \in Nat \ {0} /\ Head(s) = s[1]
        /\ Tail(s) \in Seq(S) /\ Len(Tail(s)) = Len(s) - 1
        /\ \A i \in 1..Len(Tail(s)) : Tail(s)[i] = s[i + 1]
    BY HeadTailProperties
  <1>2. shift \in Bijection(At(Tail(s)), rest)
    <2>1. \A i \in At(Tail(s)) : i \in Nat /\ i + 1 \in rest
      BY <1>1 DEF At
    <2>2. \A j \in rest : j - 1 \in At(Tail(s)) /\ (j - 1) + 1 = j
      BY <1>1 DEF At
    <2>3. shift \in [At(Tail(s)) -> rest]
      BY <2>1
    <2>4. \A a, b \in At(Tail(s)) : shift[a] = shift[b] => a = b
      BY <2>1
    <2>5. \A j \in rest : \E i \in At(Tail(s)) : shift[i] = j
      BY <2>2
    <2> HIDE DEF shift, rest
    <2>6. shift \in Injection(At(Tail(s)), rest)
      BY <2>3, <2>4 DEF Injection, IsInjective
    <2>7. shift \in Surjection(At(Tail(s)), rest)
      BY <2>3, <2>5 DEF Surjection
    <2> QED
      BY <2>6, <2>7 DEF Bijection
  <1>3. Cardinality(rest) = Pending(Tail(s))
    <2>1. ExistsBijection(At(Tail(s)), rest)
      BY <1>2 DEF ExistsBijection
    <2>2. IsFiniteSet(At(Tail(s)))
      BY <1>1, PendingNat
    <2> QED
      BY <2>1, <2>2, FS_Bijection DEF Pending
  <1>4. Cardinality(rest) = IF 1 \in At(s) THEN Pending(s) - 1 ELSE Pending(s)
    BY PendingNat, FS_RemoveElement DEF Pending
  <1>5. 1 \in At(s) <=> Head(s) = PinChanged
    BY <1>1 DEF At
  <1> QED
    BY <1>3, <1>4, <1>5, PendingNat

-----------------------------------------------------------------------------
(* The invariant.                                                          *)

Calls == Seq(PinCalls) \ {<<>>}

\* TypeOK, with the elements of the sequences.
Typed ==
    /\ running \in Seq(Calls)
    /\ inbox \in Seq(Payloads \cup {PinChanged})
    /\ pin \in Values \cup {Absent}
    /\ shown \in Pins \cup {None}
    /\ subscribed \in BOOLEAN /\ announcing \in BOOLEAN /\ clean \in BOOLEAN
    /\ subscriber \in {"idle", "reading", "sending"}
    /\ watcher \in {"idle", "holding"}
    /\ {list, removals, dismissals, removes} \subseteq Nat
    /\ list <= removes /\ removes <= MaxRemoves

\* Notifications, announcements, answers and commands that may each cause one.
Unheard     == Pending(inbox)
Unannounced == IF announcing THEN 1 ELSE 0
Unanswered  == IF subscriber = "idle" THEN 0 ELSE 1
Unforwarded == IF watcher = "holding" THEN list + 1 ELSE list

\* Removals sent, and those that what is under way may still cause.
Due == removals + Unheard + Unannounced + Unanswered + Unforwarded

Balance == Due <= dismissals + removes

IInv == Typed /\ Balance

\* The terms of the sum are numbers.
LEMMA Numbers ==
    ASSUME Typed
    PROVE  /\ {removals, Unheard, Unannounced, Unanswered, Unforwarded} \subseteq Nat
           /\ {list, dismissals, removes} \subseteq Nat
  <1>1. Unheard \in Nat
    BY PendingNat DEF Typed, Unheard
  <1> QED
    BY <1>1 DEF Typed, Unannounced, Unanswered, Unforwarded

\* It holds initially.
LEMMA InitIInv == Init => IInv
  <1> SUFFICES ASSUME Init PROVE IInv
    OBVIOUS
  <1>1. Pending(inbox) = 0
    <2>1. At(inbox) = {}
      BY DEF Init, At
    <2> QED
      BY <2>1, FS_EmptySet DEF Pending
  <1>2. Typed
    <2>1. subscribed \in BOOLEAN /\ announcing \in BOOLEAN /\ clean \in BOOLEAN
      BY Zenon DEF Init
    <2> QED
      BY <2>1, BoundsAssumption DEF Init, Typed
  <1>3. Balance
    BY <1>1 DEF Init, Balance, Due, Unheard, Unannounced, Unanswered, Unforwarded
  <1> QED
    BY <1>2, <1>3 DEF IInv

\* A report starts a handler or is lost.
LEMMA ReportTyped ==
    ASSUME Typed, NEW calls \in Calls, Report(calls)
    PROVE  running' \in Seq(Calls) /\ clean' \in BOOLEAN
  <1>1. CASE running' = Append(running, calls) /\ clean' = (running = <<>>)
    BY <1>1 DEF Typed
  <1>2. CASE UNCHANGED running /\ clean' = FALSE
    BY <1>2 DEF Typed
  <1> QED
    BY <1>1, <1>2 DEF Report

\* A removal that arrives has been sent.
LEMMA ObeyTyped ==
    ASSUME Typed, Obey
    PROVE  /\ running' \in Seq(Calls) /\ clean' \in BOOLEAN
           /\ shown' = None /\ removals' = removals + 1
  <1>1. CASE Report(RemoveCalls)
    BY <1>1, ReportTyped, HandlersCalls DEF Obey, Calls
  <1>2. CASE UNCHANGED <<running, clean, faults>>
    BY <1>2 DEF Obey, Typed
  <1> QED
    BY <1>1, <1>2 DEF Obey

\* The nRF52 owes nothing by displaying or dropping a pin.
LEMMA ShowFinishKeep ==
    ASSUME IInv, (\E p \in Pins : Show(p)) \/ Finish PROVE IInv'
  <1>1. running' \in Seq(Calls) /\ clean' \in BOOLEAN /\ shown' \in Pins \cup {None}
    <2>1. ASSUME NEW p \in Pins, Show(p)
          PROVE  running' \in Seq(Calls) /\ clean' \in BOOLEAN /\ shown' = p
      BY <2>1, ReportTyped, HandlersCalls DEF Show, Calls, IInv
    <2>2. CASE Finish
      BY <2>2, ReportTyped, HandlersCalls DEF Finish, Calls, IInv
    <2> QED
      BY <2>1, <2>2
  <1>2. UNCHANGED <<redis, subscriber, others, watcher, removals, dismissals, removes>>
    BY DEF Show, Finish
  <1> QED
    BY <1>1, <1>2 DEF IInv, Typed, Balance, Due, Unheard, Unannounced, Unanswered,
                      Unforwarded, redis, others

\* Removing the first call of handler i leaves sequences of calls.
LEMMA CallRunning ==
    ASSUME running \in Seq(Calls), NEW i \in DOMAIN running,
           running' = IF Len(running[i]) = 1 THEN RemoveAt(running, i)
                      ELSE [running EXCEPT ![i] = Tail(@)]
    PROVE  running' \in Seq(Calls) /\ Head(running[i]) \in PinCalls
  <1>1. running[i] \in Seq(PinCalls) /\ running[i] # <<>> /\ i \in 1..Len(running)
    BY DEF Calls
  <1>2. /\ Head(running[i]) \in PinCalls /\ Tail(running[i]) \in Seq(PinCalls)
        /\ Len(Tail(running[i])) = Len(running[i]) - 1
    BY <1>1
  <1>3. CASE Len(running[i]) = 1
    <2>1. SubSeq(running, 1, i - 1) \in Seq(Calls)
      <3>1. \A j \in 1..(i - 1) : running[j] \in Calls
        BY <1>1
      <3> QED
        BY <1>1, <3>1, SubSeqProperties
    <2>2. SubSeq(running, i + 1, Len(running)) \in Seq(Calls)
      <3>1. \A j \in (i + 1)..Len(running) : running[j] \in Calls
        BY <1>1
      <3> QED
        BY <1>1, <3>1, SubSeqProperties
    <2> QED
      BY <1>2, <1>3, <2>1, <2>2, ConcatProperties DEF RemoveAt
  <1>4. CASE Len(running[i]) # 1
    <2>1. Tail(running[i]) # <<>>
      <3>1. Len(running[i]) \in Nat \ {0}
        BY <1>1
      <3>2. Len(Tail(running[i])) # 0
        BY <1>2, <1>4, <3>1
      <3>3. Len(<<>>) = 0
        OBVIOUS
      <3> QED
        BY <3>2, <3>3
    <2>2. Tail(running[i]) \in Calls
      BY <1>2, <2>1 DEF Calls
    <2> QED
      BY <1>1, <1>2, <1>4, <2>2
  <1> QED
    BY <1>3, <1>4

\* What a subscribed service receives.
LEMMA NotifiedPending ==
    ASSUME Typed, NEW payload \in Payloads \cup {PinChanged}, inbox' = Notified(payload)
    PROVE  /\ inbox' \in Seq(Payloads \cup {PinChanged})
           /\ Unheard' \in {Unheard, Unheard + 1}
           /\ payload # PinChanged => Unheard' = Unheard
  <1>1. inbox \in Seq(Payloads \cup {PinChanged})
    BY DEF Typed
  <1>2. CASE subscribed
    <2>1. inbox' = Append(inbox, payload)
      BY <1>2 DEF Notified
    <2>2. Pending(Append(inbox, payload))
          = IF payload = PinChanged THEN Pending(inbox) + 1 ELSE Pending(inbox)
      BY <1>1, PendingAppend
    <2> QED
      BY <1>1, <2>1, <2>2 DEF Unheard
  <1>3. CASE ~subscribed
    BY <1>1, <1>3 DEF Notified, Unheard
  <1> QED
    BY <1>2, <1>3

\* A handler's own publication causes no removal.
LEMMA CallKeeps == ASSUME IInv, NEW i \in DOMAIN running, Call(i) PROVE IInv'
  <1> DEFINE c == Head(running[i])
  <1>1. running' \in Seq(Calls) /\ c \in PinCalls
    BY CallRunning DEF IInv, Typed, Call
  <1>2. UNCHANGED <<shown, subscribed, subscriber, others, watcher, removals,
                    dismissals, removes>>
    BY DEF Call
  <1>3. pin' \in Values \cup {Absent} /\ clean' \in BOOLEAN
    <2>1. c.op = "hset" => c.value \in Values
      BY <1>1, CallEffects
    <2>2. clean' \in BOOLEAN
      <3>1. CASE UNCHANGED clean
        BY <3>1 DEF IInv, Typed
      <3>2. CASE clean' = (clean /\ c.op # "hset")
        BY <3>2, Zenon
      <3> QED
        BY <3>1, <3>2 DEF Call
    <2>3. pin' \in Values \cup {Absent}
      BY <2>1 DEF Call, IInv, Typed
    <2> QED
      BY <2>2, <2>3
  <1>4. inbox' \in Seq(Payloads \cup {PinChanged}) /\ Unheard' = Unheard
    <2>1. CASE inbox' = inbox
      BY <2>1 DEF IInv, Typed, Unheard
    <2>2. CASE c.op = "publish" /\ inbox' = Notified(c.payload)
      <3>1. c.payload \in Payloads /\ c.payload # PinChanged
        BY <1>1, <2>2, CallEffects, OwnPayloads
      <3>2. Typed
        BY DEF IInv
      <3> HIDE DEF c
      <3> QED
        BY <2>2, <3>1, <3>2, NotifiedPending
    <2> QED
      BY <2>1, <2>2 DEF Call
  <1>5. Typed'
    BY <1>1, <1>2, <1>3, <1>4 DEF IInv, Typed, others
  <1>6. UNCHANGED <<removals, Unannounced, Unanswered, Unforwarded, dismissals, removes>>
    BY <1>2 DEF Unannounced, Unanswered, Unforwarded, others
  <1>7. Balance'
    BY <1>4, <1>6 DEF IInv, Balance, Due
  <1> QED
    BY <1>5, <1>7 DEF IInv

\* Other services, and the SUBSCRIBE that makes them heard.
LEMMA OthersKeep ==
    ASSUME IInv, Dismiss \/ Announce \/ Push \/ Subscribe PROVE IInv'
  <1>1. Typed /\ Balance
    BY DEF IInv
  <1>2. CASE Dismiss
    <2>1. pin' \in Values \cup {Absent}
      BY <1>2 DEF Dismiss, Values
    <2>2. /\ dismissals' = dismissals + 1 /\ ~announcing /\ announcing' = TRUE
          /\ UNCHANGED <<nRF52, subscribed, inbox, subscriber, list, watcher, removals,
                         clean, removes>>
      BY <1>2 DEF Dismiss
    <2>3. Typed'
      BY <1>1, <2>1, <2>2 DEF Typed, nRF52
    <2>4. /\ Unannounced = 0 /\ Unannounced' = 1
          /\ UNCHANGED <<removals, Unheard, Unanswered, Unforwarded, removes>>
      BY <2>2 DEF Unannounced, Unheard, Unanswered, Unforwarded
    <2>5. Balance'
      BY <1>1, <2>2, <2>4, Numbers DEF Balance, Due
    <2> QED
      BY <2>3, <2>5 DEF IInv
  <1>3. CASE Announce
    <2>1. inbox' \in Seq(Payloads \cup {PinChanged}) /\ Unheard' \in {Unheard, Unheard + 1}
      <3>1. CASE inbox' = inbox
        BY <1>1, <3>1 DEF Typed, Unheard
      <3>2. CASE inbox' = Notified(PinChanged)
        BY <1>1, <3>2, NotifiedPending
      <3> QED
        BY <1>3, <3>1, <3>2 DEF Announce
    <2>2. clean' \in BOOLEAN
      <3>1. CASE clean' = (clean /\ subscribed)
        BY <3>1, Zenon
      <3>2. CASE clean' = FALSE
        BY <3>2
      <3> QED
        BY <1>3, <3>1, <3>2 DEF Announce
    <2>3. /\ announcing /\ announcing' = FALSE
          /\ UNCHANGED <<nRF52, pin, subscribed, subscriber, list, watcher, removals,
                         dismissals, removes>>
      BY <1>3 DEF Announce
    <2>4. Typed'
      BY <1>1, <2>1, <2>2, <2>3 DEF Typed, nRF52
    <2>5. /\ Unannounced = 1 /\ Unannounced' = 0
          /\ UNCHANGED <<removals, Unanswered, Unforwarded, dismissals, removes>>
      BY <2>3 DEF Unannounced, Unanswered, Unforwarded
    <2>6. Balance'
      BY <1>1, <2>1, <2>5, Numbers DEF Balance, Due
    <2> QED
      BY <2>4, <2>6 DEF IInv
  <1>4. CASE Push
    <2>1. /\ removes < MaxRemoves /\ removes' = removes + 1 /\ list' = list + 1
          /\ UNCHANGED <<nRF52, redis, subscriber, announcing, watcher, removals, clean,
                         dismissals>>
      BY <1>4 DEF Push
    <2>2. MaxRemoves \in Nat
      BY BoundsAssumption
    <2>3. list' \in Nat /\ removes' \in Nat /\ list' <= removes' /\ removes' <= MaxRemoves
      BY <1>1, <2>1, <2>2 DEF Typed
    <2>4. Typed'
      BY <1>1, <2>1, <2>3 DEF Typed, nRF52, redis
    <2>5. /\ Unforwarded' = Unforwarded + 1
          /\ UNCHANGED <<removals, Unheard, Unannounced, Unanswered, dismissals>>
      BY <1>1, <2>1, Numbers DEF Unforwarded, Unheard, Unannounced, Unanswered, redis
    <2>6. Balance'
      BY <1>1, <2>1, <2>5, Numbers DEF Balance, Due
    <2> QED
      BY <2>4, <2>6 DEF IInv
  <1>5. CASE Subscribe
    BY <1>1, <1>5 DEF Subscribe, IInv, Typed, Balance, Due, Unheard, Unannounced,
                      Unanswered, Unforwarded, nRF52, others, bounds
  <1> QED
    BY <1>2, <1>3, <1>4, <1>5

\* A removal is sent or given up.
LEMMA ObeyOrNot ==
    ASSUME Typed,
           Obey \/ (UNCHANGED <<shown, running, removals>> /\ clean' \in {FALSE, clean})
    PROVE  /\ running' \in Seq(Calls) /\ clean' \in BOOLEAN /\ shown' \in Pins \cup {None}
           /\ removals' \in Nat /\ removals' <= removals + 1
  <1>1. CASE Obey
    BY <1>1, ObeyTyped DEF Typed
  <1>2. CASE UNCHANGED <<shown, running, removals>> /\ clean' \in {FALSE, clean}
    <2>1. clean' \in BOOLEAN
      BY <1>2 DEF Typed
    <2> QED
      BY <1>2, <2>1 DEF Typed
  <1> QED
    BY <1>1, <1>2

\* A removal more in the sum, or none, and a question answered.
LEMMA Answered ==
    ASSUME NEW r \in Nat, NEW sent \in Nat, sent <= r + 1,
           NEW h \in Nat, NEW n \in Nat, NEW l \in Nat
    PROVE  /\ r + h + n + 1 + l \in Nat /\ sent + h + n + 0 + l \in Nat
           /\ sent + h + n + 0 + l <= r + h + n + 1 + l
  OBVIOUS

\* The subscriber spends a notification on each removal.
LEMMA SubscriberKeeps == ASSUME IInv, Receive \/ Check \/ Send PROVE IInv'
  <1>1. Typed /\ Balance
    BY DEF IInv
  <1>2. CASE Receive
    <2>1. /\ inbox # <<>> /\ inbox' = Tail(inbox)
          /\ subscriber = "idle"
          /\ subscriber' = IF Head(inbox) = PinChanged THEN "reading" ELSE "idle"
          /\ UNCHANGED <<nRF52, pin, subscribed, others, watcher, removals, clean, bounds>>
      BY <1>2 DEF Receive
    <2> DEFINE S == Payloads \cup {PinChanged}
    <2>2. inbox \in Seq(S)
      BY <1>1 DEF Typed
    <2>3. inbox' \in Seq(S)
      BY <2>1, <2>2
    <2>4. Unheard = IF Head(inbox) = PinChanged THEN Unheard' + 1 ELSE Unheard'
      <3> HIDE DEF S
      <3>1. Pending(inbox) = IF Head(inbox) = PinChanged THEN Pending(Tail(inbox)) + 1
                             ELSE Pending(Tail(inbox))
        BY <2>1, <2>2, PendingTail
      <3> QED
        BY <2>1, <3>1 DEF Unheard
    <2>5. Typed'
      BY <1>1, <2>1, <2>3 DEF Typed, nRF52, others, bounds
    <2>6. /\ Unanswered = 0 /\ Unanswered' = IF Head(inbox) = PinChanged THEN 1 ELSE 0
          /\ UNCHANGED <<removals, Unannounced, Unforwarded, dismissals, removes>>
      BY <2>1 DEF Unanswered, Unannounced, Unforwarded, others, bounds
    <2>7. Unheard' \in Nat
      <3> HIDE DEF S
      <3> QED
        BY <2>3, PendingNat DEF Unheard
    <2>8. Balance'
      BY <1>1, <2>4, <2>6, <2>7, Numbers DEF Balance, Due
    <2> QED
      BY <2>5, <2>8 DEF IInv
  <1>3. CASE Check
    <2>1. /\ subscriber = "reading" /\ subscriber' \in {"sending", "idle"}
          /\ UNCHANGED <<nRF52, redis, others, watcher, removals, clean, dismissals, removes>>
      BY <1>3 DEF Check
    <2>2. Typed'
      BY <1>1, <2>1 DEF Typed, nRF52, redis, others
    <2>3. /\ Unanswered = 1 /\ Unanswered' \in {0, 1}
          /\ UNCHANGED <<removals, Unheard, Unannounced, Unforwarded, dismissals, removes>>
      BY <2>1 DEF Unanswered, Unheard, Unannounced, Unforwarded, redis, others
    <2>4. Balance'
      BY <1>1, <2>3, Numbers DEF Balance, Due
    <2> QED
      BY <2>2, <2>4 DEF IInv
  <1>4. CASE Send
    <2>1. /\ subscriber = "sending" /\ subscriber' = "idle"
          /\ UNCHANGED <<redis, others, watcher, dismissals, removes>>
      BY <1>4 DEF Send
    <2>2. Obey \/ (UNCHANGED <<shown, running, removals>> /\ clean' \in {FALSE, clean})
      BY <1>4 DEF Send, nRF52
    <2>3. /\ running' \in Seq(Calls) /\ clean' \in BOOLEAN /\ shown' \in Pins \cup {None}
          /\ removals' \in Nat /\ removals' <= removals + 1
      BY <1>1, <2>2, ObeyOrNot
    <2>4. Typed'
      BY <1>1, <2>1, <2>3 DEF Typed, redis, others
    <2>5. /\ Unanswered = 1 /\ Unanswered' = 0
          /\ UNCHANGED <<Unheard, Unannounced, Unforwarded, dismissals, removes>>
      BY <2>1 DEF Unanswered, Unheard, Unannounced, Unforwarded, redis, others
    <2>6. {Due, Due'} \subseteq Nat /\ Due' <= Due
      <3>1. /\ removals \in Nat /\ Unheard \in Nat
            /\ Unannounced \in Nat /\ Unforwarded \in Nat
        BY <1>1, Numbers
      <3>2. Due = removals + Unheard + Unannounced + 1 + Unforwarded
        BY <2>5 DEF Due
      <3>3. Due' = removals' + Unheard + Unannounced + 0 + Unforwarded
        BY <2>5 DEF Due
      <3>4. /\ removals + Unheard + Unannounced + 1 + Unforwarded \in Nat
            /\ removals' + Unheard + Unannounced + 0 + Unforwarded \in Nat
            /\ removals' + Unheard + Unannounced + 0 + Unforwarded
               <= removals + Unheard + Unannounced + 1 + Unforwarded
        BY <2>3, <3>1, Answered
      <3> QED
        BY <3>2, <3>3, <3>4
    <2>7. Balance'
      BY <1>1, <2>5, <2>6, Numbers DEF Balance
    <2> QED
      BY <2>4, <2>7 DEF IInv
  <1> QED
    BY <1>2, <1>3, <1>4

\* A removal more in the sum, a command less.
LEMMA Spent ==
    ASSUME NEW r \in Nat, NEW sent \in Nat, sent <= r + 1,
           NEW h \in Nat, NEW n \in Nat, NEW w \in Nat, NEW l \in Nat
    PROVE  /\ r + h + n + w + (l + 1) \in Nat /\ sent + h + n + w + l \in Nat
           /\ sent + h + n + w + l <= r + h + n + w + (l + 1)
  OBVIOUS

\* The watcher spends a command on each removal.
LEMMA WatcherKeeps == ASSUME IInv, Watcher PROVE IInv'
  <1>1. Typed /\ Balance
    BY DEF IInv
  <1>2. CASE BRPop
    <2>1. /\ watcher = "idle" /\ watcher' = "holding" /\ list > 0 /\ list' = list - 1
          /\ UNCHANGED <<nRF52, redis, subscriber, announcing, removals, clean, bounds>>
      BY <1>2 DEF BRPop
    <2>2. list' \in Nat /\ list' <= removes
      BY <1>1, <2>1 DEF Typed
    <2>3. Typed'
      BY <1>1, <2>1, <2>2 DEF Typed, nRF52, redis, bounds
    <2>4. UNCHANGED <<removals, Unheard, Unannounced, Unanswered, Unforwarded,
                      dismissals, removes>>
      <3>1. Unforwarded' = Unforwarded
        BY <1>1, <2>1, Numbers DEF Unforwarded
      <3> QED
        BY <2>1, <3>1 DEF Unanswered, Unheard, Unannounced, redis, bounds
    <2>5. Balance'
      BY <1>1, <2>4 DEF Balance, Due
    <2> QED
      BY <2>3, <2>5 DEF IInv
  <1>3. CASE Forward
    <2>1. /\ watcher = "holding" /\ watcher' = "idle"
          /\ UNCHANGED <<redis, subscriber, others, dismissals, removes>>
      BY <1>3 DEF Forward
    <2>2. Obey \/ (UNCHANGED <<shown, running, removals>> /\ clean' \in {FALSE, clean})
      BY <1>3 DEF Forward, nRF52
    <2>3. /\ running' \in Seq(Calls) /\ clean' \in BOOLEAN /\ shown' \in Pins \cup {None}
          /\ removals' \in Nat /\ removals' <= removals + 1
      BY <1>1, <2>2, ObeyOrNot
    <2>4. Typed'
      BY <1>1, <2>1, <2>3 DEF Typed, redis, others
    <2>5. /\ Unforwarded = list + 1 /\ Unforwarded' = list
          /\ UNCHANGED <<Unheard, Unannounced, Unanswered, dismissals, removes>>
      BY <2>1 DEF Unforwarded, Unanswered, Unheard, Unannounced, redis, others
    <2>6. {Due, Due'} \subseteq Nat /\ Due' <= Due
      <3>1. list \in Nat /\ removals \in Nat /\ Unheard \in Nat
        BY <1>1, Numbers
      <3>2. Unannounced \in Nat /\ Unanswered \in Nat
        BY <1>1, Numbers
      <3>3. Due = removals + Unheard + Unannounced + Unanswered + (list + 1)
        BY <2>5 DEF Due
      <3>4. Due' = removals' + Unheard + Unannounced + Unanswered + list
        BY <2>5 DEF Due
      <3>5. removals' \in Nat /\ removals' <= removals + 1
        BY <2>3
      <3>6. /\ removals' + Unheard + Unannounced + Unanswered + list \in Nat
            /\ removals + Unheard + Unannounced + Unanswered + (list + 1) \in Nat
            /\ removals' + Unheard + Unannounced + Unanswered + list
               <= removals + Unheard + Unannounced + Unanswered + (list + 1)
        BY <3>1, <3>2, <3>5, Spent
      <3>7. Due' \in Nat
        BY <3>4, <3>6
      <3> QED
        BY <3>3, <3>4, <3>6, <3>7
    <2>7. Balance'
      BY <1>1, <2>5, <2>6, Numbers DEF Balance
    <2> QED
      BY <2>4, <2>7 DEF IInv
  <1> QED
    BY <1>2, <1>3 DEF Watcher

\* The invariant is inductive.
LEMMA NextKeeps == IInv /\ [Next]_vars => IInv'
  <1>1. ASSUME IInv, UNCHANGED vars PROVE IInv'
    BY <1>1 DEF IInv, Typed, Balance, Due, Unheard, Unannounced, Unanswered,
                Unforwarded, vars, nRF52, redis, others, bounds
  <1>2. ASSUME IInv, Next PROVE IInv'
    BY <1>2, ShowFinishKeep, CallKeeps, OthersKeep, SubscriberKeeps, WatcherKeeps
       DEF Next, Handler, Subscriber
  <1> QED
    BY <1>1, <1>2

\* So it holds always.
LEMMA SpecIInv == Spec => []IInv
  BY InitIInv, NextKeeps, PTL DEF Spec

-----------------------------------------------------------------------------
\* The variables keep their types.
THEOREM PairingTypeOK == Spec => []TypeOK
  <1>1. ASSUME IInv PROVE TypeOK
    <2>1. \A i \in DOMAIN running : running[i] # <<>>
      BY <1>1 DEF IInv, Typed, Calls
    <2>2. \A i \in DOMAIN inbox : inbox[i][1] = "pin-code"
      <3>1. PinChanged[1] = "pin-code"
        BY DEF PinChanged
      <3> QED
        BY <1>1, <3>1, OwnPayloads DEF IInv, Typed
    <2>3. Values = {Text(p) : p \in Pins} \cup {Text("")}
      BY DEF Values
    <2>4. list \in 0..MaxRemoves /\ removals \in Nat
      BY <1>1, BoundsAssumption DEF IInv, Typed
    <2> QED
      BY <1>1, <2>1, <2>2, <2>3, <2>4 DEF IInv, Typed, TypeOK
  <1> QED
    BY <1>1, SpecIInv, PTL

\* Whatever is displayed, dismissed, lost or fails, the service sends at most
\* one removal for each dismissal and each command "remove": it never answers
\* what it publishes itself.
THEOREM PairingRemovals == Spec => []RemovalsCaused
  <1>1. ASSUME IInv PROVE RemovalsCaused
    BY <1>1, Numbers DEF IInv, Balance, Due, RemovalsCaused
  <1> QED
    BY <1>1, SpecIInv, PTL

-----------------------------------------------------------------------------
(* The dashboard shows the pin the nRF52 displays.                         *)

\* The calls that make Redis agree with a pin, and those left once it does.
Store(v) == <<HSet("ble", "pin-code", v), Publish("ble", <<"pin-code", v>>)>>
Tell(v)  == <<Publish("ble", <<"pin-code", v>>)>>

\* What the last report has Redis set to.
Wanted == IF shown = None THEN Text("") ELSE Text(shown)

\* Redis agrees with the nRF52, or has no pin because another service removed
\* it and the removal is under way to the nRF52.
Settled ==
    \/ Agree
    \/ /\ pin \in {Absent, Text("")}
       /\ announcing \/ Unheard > 0 \/ subscriber # "idle"

\* While nothing is lost or overtaken a single handler is at work, on the last
\* report, and Redis is settled once it has stored the pin.
LastReport ==
    clean =>
        \/ running = <<>> /\ Settled
        \/ running = <<RemoveCalls>> /\ shown = None
        \/ running = <<Store(Wanted)>>
        \/ \E v \in Values : running = <<Tell(v)>> /\ Settled

\* The steps of the handlers.
LEMMA StoreSteps ==
    ASSUME NEW v
    PROVE  /\ Len(Store(v)) # 1 /\ Head(Store(v)) = HSet("ble", "pin-code", v)
           /\ Tail(Store(v)) = Tell(v)
           /\ Len(Tell(v)) = 1 /\ Head(Tell(v)) = Publish("ble", <<"pin-code", v>>)
  BY DEF Store, Tell

LEMMA RemoveSteps ==
    /\ Len(RemoveCalls) # 1 /\ Head(RemoveCalls) = HDel("ble", "pin-code")
    /\ Tail(RemoveCalls) = Store(Text(""))
  <1>1. ASSUME NEW a, NEW b, NEW c
        PROVE  /\ Len(<<a, b, c>>) # 1 /\ Head(<<a, b, c>>) = a
               /\ Tail(<<a, b, c>>) = <<b, c>>
    OBVIOUS
  <1> QED
    BY <1>1, RemoveCallsAre DEF Store

\* After a report that left things clean its handler is the only one.
LEMMA ReportAlone ==
    ASSUME NEW calls, Report(calls), clean'
    PROVE  running = <<>> /\ running' = <<calls>>
  <1>1. running' = Append(running, calls) /\ running = <<>>
    BY DEF Report
  <1> QED
    BY <1>1

\* What is known of the display and of the way of a removal need not change.
LEMMA SettledSame ==
    ASSUME UNCHANGED <<shown, pin, announcing, inbox, subscriber>>
    PROVE  (Settled' <=> Settled) /\ Wanted' = Wanted
  BY DEF Settled, Agree, Unheard, Wanted

LEMMA LastReportInit == Init => LastReport
  BY DEF Init, LastReport, Settled, Agree

\* The nRF52 displays a pin, or drops it.
LEMMA ShowFinishLast ==
    ASSUME LastReport, (\E p \in Pins : Show(p)) \/ Finish PROVE LastReport'
  <1> SUFFICES ASSUME clean' PROVE LastReport'
    BY DEF LastReport
  <1>1. ASSUME NEW p \in Pins, Show(p) PROVE running' = <<Store(Wanted)>>'
    <2>1. Report(DisplayCalls(p)) /\ shown' = p
      BY <1>1 DEF Show
    <2>2. running' = <<DisplayCalls(p)>>
      BY <2>1, ReportAlone
    <2>3. Wanted' = Text(p)
      BY <2>1, NoneAssumption DEF Wanted
    <2> QED
      BY <2>2, <2>3, DisplayCallsAre DEF Store
  <1>2. ASSUME Finish PROVE running' = <<RemoveCalls>> /\ shown' = None
    BY <1>2, ReportAlone DEF Finish
  <1> QED
    BY <1>1, <1>2 DEF LastReport

\* A removal arrives; if no pin was displayed nothing need follow.
LEMMA ObeyLast ==
    ASSUME LastReport, Obey, UNCHANGED <<pin, announcing, inbox>> PROVE LastReport'
  <1> SUFFICES ASSUME clean' PROVE LastReport'
    BY DEF LastReport
  <1>1. shown' = None
    BY DEF Obey
  <1>2. CASE Report(RemoveCalls)
    BY <1>1, <1>2, ReportAlone DEF LastReport
  <1>3. CASE shown = None /\ UNCHANGED <<running, clean, faults>>
    <2>1. (Settled => Settled') /\ Wanted' = Wanted
      BY <1>1, <1>3 DEF Settled, Agree, Wanted
    <2> QED
      BY <1>1, <1>3, <2>1 DEF LastReport
  <1> QED
    BY <1>2, <1>3 DEF Obey

\* The handler makes its next call.
LEMMA CallLast ==
    ASSUME IInv, LastReport, NEW i \in DOMAIN running, Call(i) PROVE LastReport'
  <1> SUFFICES ASSUME clean' PROVE LastReport'
    BY DEF LastReport
  <1>1. PICK c : c = Head(running[i])
    OBVIOUS
  <1>2. /\ running' = IF Len(running[i]) = 1 THEN RemoveAt(running, i)
                      ELSE [running EXCEPT ![i] = Tail(@)]
        /\ \/ /\ pin' = CASE c.op = "hset" -> c.value
                          [] c.op = "hdel" -> Absent
                          [] OTHER -> pin
              /\ inbox' = IF c.op = "publish" THEN Notified(c.payload) ELSE inbox
              /\ UNCHANGED clean
           \/ /\ clean' = (clean /\ c.op # "hset")
              /\ UNCHANGED <<pin, inbox>>
        /\ UNCHANGED <<shown, subscribed, subscriber, announcing>>
    BY <1>1 DEF Call, others
  <1>3. clean
    BY <1>2
  <1>4. Wanted' = Wanted /\ Wanted \in Values
    BY <1>2 DEF Wanted, Values, IInv, Typed
  <1>5. ASSUME NEW t, running = <<t>>
        PROVE  /\ c = Head(t)
               /\ Len(t) = 1 => running' = <<>>
               /\ Len(t) # 1 => running' = <<Tail(t)>>
    <2>1. i = 1 /\ running[i] = t
      BY <1>5
    <2>2. RemoveAt(<<t>>, 1) = <<>>
      BY DEF RemoveAt
    <2> QED
      BY <1>1, <1>2, <1>5, <2>1, <2>2
  <1>6. CASE running = <<RemoveCalls>> /\ shown = None
    <2>1. running' = <<Tail(RemoveCalls)>>
      <3>1. Len(RemoveCalls) # 1
        BY RemoveSteps
      <3> QED
        BY <1>5, <1>6, <3>1
    <2>2. running' = <<Store(Text(""))>> /\ shown' = None
      BY <1>2, <1>6, <2>1, RemoveSteps
    <2> QED
      BY <2>2 DEF LastReport, Wanted
  <1>7. CASE running = <<Store(Wanted)>>
    <2>1. c = HSet("ble", "pin-code", Wanted) /\ running' = <<Tell(Wanted)>>
      <3>1. /\ c = Head(Store(Wanted))
            /\ Len(Store(Wanted)) # 1 => running' = <<Tail(Store(Wanted))>>
        BY <1>5, <1>7
      <3> QED
        BY <3>1, StoreSteps
    <2>2. c.op = "hset" /\ c.value = Wanted
      BY <2>1 DEF HSet
    <2>3. pin' = Wanted
      BY <1>2, <2>2
    <2>4. Settled'
      BY <1>2, <2>3 DEF Settled, Agree, Wanted
    <2> QED
      BY <1>4, <2>1, <2>4 DEF LastReport
  <1>8. CASE \E v \in Values : running = <<Tell(v)>> /\ Settled
    <2>1. PICK v \in Values : running = <<Tell(v)>> /\ Settled
      BY <1>8
    <2>2. c = Publish("ble", <<"pin-code", v>>) /\ running' = <<>>
      BY <1>5, <2>1, StoreSteps
    <2>3. c.op = "publish" /\ c.payload \in Payloads
      BY <2>2 DEF Publish, Payloads
    <2>4. pin' = pin
      BY <1>2, <2>3
    <2>5. Unheard > 0 => Unheard' > 0
      <3>1. CASE inbox' = inbox
        BY <3>1 DEF Unheard
      <3>2. CASE inbox' = Notified(c.payload)
        <4>1. Unheard' = Unheard
          BY <2>3, <3>2, NotifiedPending, OwnPayloads DEF IInv
        <4> QED
          BY <4>1
      <3> QED
        BY <1>2, <2>3, <3>1, <3>2
    <2>6. Settled'
      BY <1>2, <2>1, <2>4, <2>5 DEF Settled, Agree
    <2> QED
      BY <2>2, <2>6 DEF LastReport
  <1>9. running # <<>>
    OBVIOUS
  <1> QED
    BY <1>3, <1>6, <1>7, <1>8, <1>9 DEF LastReport

\* Other services.
LEMMA OthersLast ==
    ASSUME IInv, LastReport, Dismiss \/ Announce \/ Push \/ Subscribe PROVE LastReport'
  <1> SUFFICES ASSUME clean' PROVE LastReport'
    BY DEF LastReport
  <1>1. UNCHANGED <<shown, running, subscriber>>
    BY DEF Dismiss, Announce, Push, Subscribe, nRF52
  <1>2. clean
    BY DEF Dismiss, Announce, Push, Subscribe
  <1>3. Settled => Settled'
    <2>1. CASE Dismiss
      BY <2>1 DEF Dismiss, Settled
    <2>2. CASE Announce
      <3>1. pin' = pin /\ subscribed /\ inbox' = Append(inbox, PinChanged)
        BY <2>2 DEF Announce, Notified
      <3>2. Unheard' > 0
        <4>1. inbox \in Seq(Payloads \cup {PinChanged})
          BY DEF IInv, Typed
        <4>2. Pending(Append(inbox, PinChanged)) = Pending(inbox) + 1 /\ Pending(inbox) \in Nat
          BY <4>1, PendingAppend, PendingNat
        <4> QED
          BY <3>1, <4>2 DEF Unheard
      <3> QED
        BY <1>1, <3>1, <3>2 DEF Settled, Agree
    <2>3. CASE Push \/ Subscribe
      BY <1>1, <2>3, SettledSame DEF Push, Subscribe, redis, others
    <2> QED
      BY <2>1, <2>2, <2>3
  <1>4. Wanted' = Wanted
    BY <1>1 DEF Wanted
  <1> QED
    BY <1>1, <1>2, <1>3, <1>4 DEF LastReport

\* The subscriber passes a removal on.
LEMMA SubscriberLast ==
    ASSUME IInv, LastReport, Receive \/ Check \/ Send PROVE LastReport'
  <1> SUFFICES ASSUME clean' PROVE LastReport'
    BY DEF LastReport
  <1>1. CASE Receive
    <2>1. /\ inbox # <<>> /\ inbox' = Tail(inbox) /\ subscriber = "idle"
          /\ subscriber' = IF Head(inbox) = PinChanged THEN "reading" ELSE "idle"
          /\ UNCHANGED <<shown, running, pin, announcing, clean>>
      BY <1>1 DEF Receive, nRF52, others
    <2>2. Unheard = IF Head(inbox) = PinChanged THEN Unheard' + 1 ELSE Unheard'
      <3>1. inbox \in Seq(Payloads \cup {PinChanged})
        BY DEF IInv, Typed
      <3> QED
        BY <2>1, <3>1, PendingTail DEF Unheard
    <2>3. Settled => Settled'
      BY <2>1, <2>2 DEF Settled, Agree
    <2> QED
      BY <2>1, <2>3 DEF LastReport, Wanted
  <1>2. CASE Check
    <2>1. /\ subscriber = "reading"
          /\ pin \in {Absent, Text("")} => subscriber' = "sending"
          /\ UNCHANGED <<shown, running, pin, announcing, clean>>
      BY <1>2 DEF Check, nRF52, redis, others
    <2>2. Settled => Settled'
      BY <2>1 DEF Settled, Agree
    <2> QED
      BY <2>1, <2>2 DEF LastReport, Wanted
  <1>3. CASE Send
    BY <1>3, ObeyLast DEF Send, redis, others
  <1> QED
    BY <1>1, <1>2, <1>3

\* The watcher forwards a command or loses it.
LEMMA WatcherLast == ASSUME LastReport, Watcher PROVE LastReport'
  <1>1. CASE UNCHANGED <<nRF52, redis, subscriber, announcing, clean>>
    BY <1>1, SettledSame DEF LastReport, nRF52, redis
  <1>2. CASE Forward /\ Obey
    BY <1>2, ObeyLast DEF Forward, redis, others
  <1> QED
    BY <1>1, <1>2 DEF Watcher, BRPop, Forward, others

LEMMA SpecLastReport == Spec => []LastReport
  <1>1. IInv /\ LastReport /\ [Next]_vars => LastReport'
    <2>1. ASSUME LastReport, UNCHANGED vars PROVE LastReport'
      BY <2>1, SettledSame DEF LastReport, vars, nRF52, redis, others
    <2>2. ASSUME IInv, LastReport, Next PROVE LastReport'
      BY <2>2, ShowFinishLast, CallLast, OthersLast, SubscriberLast, WatcherLast
        DEF Next, Handler, Subscriber
    <2> QED
      BY <2>1, <2>2
  <1> QED
    BY <1>1, LastReportInit, SpecIInv, PTL DEF Spec

\* Once all is quiet Redis, and with it the dashboard, has the pin the nRF52
\* displays, however displays, dismissals, commands and stale or failing reads
\* follow each other, unless a message, notification or write was lost or two
\* handlers were at work at once.
THEOREM PairingPinAgrees == Spec => []PinAgrees
  <1>1. ASSUME IInv, LastReport PROVE PinAgrees
    <2> SUFFICES ASSUME Quiet, clean PROVE Agree
      BY DEF PinAgrees
    <2>1. running = <<>> /\ inbox = <<>> /\ subscriber = "idle" /\ ~announcing
      BY DEF Quiet
    <2>2. Settled
      BY <1>1, <2>1 DEF LastReport
    <2>3. Unheard = 0
      <3>1. At(inbox) = {}
        BY <2>1 DEF At
      <3> QED
        BY <3>1, FS_EmptySet DEF Unheard, Pending
    <2>4. ~(Unheard > 0)
      BY <2>3
    <2> QED
      BY <2>1, <2>2, <2>4, Zenon DEF Settled
  <1> QED
    BY <1>1, SpecIInv, SpecLastReport, PTL

=============================================================================
