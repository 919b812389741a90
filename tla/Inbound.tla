------------------------------ MODULE Inbound ------------------------------
(***************************************************************************)
(* How messages of the nRF52 reach Redis.  The receiver starts a goroutine *)
(* for every frame it hands over (processByte: go u.handler), and nothing  *)
(* orders them: their Redis calls interleave, and the parameters of one    *)
(* message are handled in the random order of a Go map.                    *)
(***************************************************************************)
EXTENDS Handlers, FiniteSetsExt, Bags

CONSTANTS
    Messages,       \* payloads of the frames the nRF52 sends
    Shared,         \* sets of those that write one field
    MaxMessages,    \* bound: messages received; one more if all write one field
    MaxFaults,      \* bound: calls that fail or are repeated
    MaxRetries,     \* how often go-redis repeats a command or a pipeline
    Absent          \* a field that does not exist

ASSUME MessagesAssumption ==
    /\ UNION Shared \subseteq Messages
    /\ \A m \in Messages : \A e \in m.entries :
         e.type \in Keys /\ IsFiniteSet(e.params)
ASSUME BoundsAssumption == {MaxMessages, MaxFaults, MaxRetries} \subseteq Nat

VARIABLES
    received,   \* messages handed over, in the order of the line
    params,     \* params[i]: parameters message i's goroutine has not begun
    calls,      \* calls[i]: the calls left for the one it has begun
    tries,      \* tries[i]: how often the command or pipeline at hand was repeated
    store,      \* Redis hashes: store[<<key, field>>] of the fields that exist
    lists,      \* Redis lists: entries <<message, list, value>>, oldest first
    published,  \* payloads published, as <<channel, parts of the payload>>
    acked,      \* messages whose reset ACK has been sent
    before,     \* history: before[i], messages done when i was received
    failed,     \* history: <<message, call>> of the calls that failed
    repeated    \* history: bag of the <<message, call>> that were repeated

mishaps == <<failed, repeated>>
vars == <<received, params, calls, tries, store, lists, published, acked, before, mishaps>>

\* The calls made for parameter p = <<type, key, value>>.
OpsOf(p) == Ops(p[1], p[2], p[3])

\* The calls message m can lead to.
AllOps(m) == UNION {ToSet(OpsOf(p)) : p \in Handled(m)}

\* Call c writes or deletes the field at, and leaves this in it.
Writes(c, at) == c.op \in {"hset", "hdel"} /\ c.at = at
Value(c)      == IF c.op = "hset" THEN c.value ELSE Absent

\* The fields message m writes or deletes.
Touched(m) == {c.at : c \in {d \in AllOps(m) : d.op \in {"hset", "hdel"}}}

\* The hash fields f with v in the field at, or without it.
Put(f, at, v) == [x \in DOMAIN f \cup {at} |-> IF x = at THEN v ELSE f[x]]
Drop(f, at)   == [x \in DOMAIN f \ {at} |-> f[x]]

Stored(at) == IF at \in DOMAIN store THEN store[at] ELSE Absent

Done(i) == params[i] = {} /\ calls[i] = <<>>

-----------------------------------------------------------------------------
\* What may be received next.
Incoming ==
    CASE Len(received) < MaxMessages -> Messages
      [] Len(received) = MaxMessages -> UNION {g \in Shared : ToSet(received) \subseteq g}
      [] OTHER -> {}

\* The receiver hands a message over to a new goroutine.
Receive(m) ==
    /\ received' = Append(received, m)
    /\ params' = Append(params, Handled(m))
    /\ calls' = Append(calls, <<>>)
    /\ tries' = Append(tries, 0)
    /\ before' = Append(before, {i \in DOMAIN received : Done(i)})
    /\ UNCHANGED <<store, lists, published, acked, mishaps>>

\* The goroutine of message i turns to one of its parameters.
Begin(i) ==
    /\ calls[i] = <<>>
    /\ \E p \in params[i] :
         /\ params' = [params EXCEPT ![i] = @ \ {p}]
         /\ calls' = [calls EXCEPT ![i] = OpsOf(p)]
    /\ UNCHANGED <<received, tries, store, lists, published, acked, before, mishaps>>

\* Effect that deletes nothing.
EffectNoDelete(i, c) ==
    /\ store' = IF c.op = "hset" THEN Put(store, c.at, c.value) ELSE store
    /\ lists' = IF c.op = "lpush" THEN Append(lists, <<i, c.list, c.value>>) ELSE lists
    /\ published' = IF c.op = "publish"
                    THEN published \cup {<<c.channel, c.payload>>} ELSE published
    /\ acked' = IF c.op = "uart" THEN acked \cup {i} ELSE acked

\* Effect that writes under the field's name as the key.
EffectWrongKey(i, c) ==
    /\ store' = CASE c.op = "hset" -> Put(store, <<c.at[2], c.at[2]>>, c.value)
                  [] c.op = "hdel" -> Drop(store, c.at)
                  [] OTHER -> store
    /\ lists' = IF c.op = "lpush" THEN Append(lists, <<i, c.list, c.value>>) ELSE lists
    /\ published' = IF c.op = "publish"
                    THEN published \cup {<<c.channel, c.payload>>} ELSE published
    /\ acked' = IF c.op = "uart" THEN acked \cup {i} ELSE acked

\* Effect that pushes at the other end of the list.
EffectOtherEnd(i, c) ==
    /\ store' = CASE c.op = "hset" -> Put(store, c.at, c.value)
                  [] c.op = "hdel" -> Drop(store, c.at)
                  [] OTHER -> store
    /\ lists' = IF c.op = "lpush" THEN <<<<i, c.list, c.value>>>> \o lists ELSE lists
    /\ published' = IF c.op = "publish"
                    THEN published \cup {<<c.channel, c.payload>>} ELSE published
    /\ acked' = IF c.op = "uart" THEN acked \cup {i} ELSE acked

\* What call c of message i does when it succeeds.
Effect(i, c) ==
    /\ store' = CASE c.op = "hset" -> Put(store, c.at, c.value)
                  [] c.op = "hdel" -> Drop(store, c.at)
                  [] OTHER -> store
    /\ lists' = IF c.op = "lpush" THEN Append(lists, <<i, c.list, c.value>>) ELSE lists
    /\ published' = IF c.op = "publish"
                    THEN published \cup {<<c.channel, c.payload>>} ELSE published
    /\ acked' = IF c.op = "uart" THEN acked \cup {i} ELSE acked

\* Calls that failed or were repeated, and whether call c of message i may.
Disturbed     == failed \cup BagToSet(repeated)
MayBreak(i, c) == Cardinality(Disturbed \cup {<<i, c>>}) <= MaxFaults

\* The call at hand is answered with the next one, the publication of its pipeline.
OpensPipeline(i) == Len(calls[i]) > 1 /\ calls[i][2].op = "publish"

\* Call that gives up the message's remaining calls when one fails.
CallAbandons(i) ==
    /\ calls[i] # <<>>
    /\ \/ /\ Effect(i, Head(calls[i]))
          /\ calls' = [calls EXCEPT ![i] = Tail(@)]
          /\ UNCHANGED failed
       \/ /\ MayBreak(i, Head(calls[i]))
          /\ failed' = failed \cup {<<i, Head(calls[i])>>}
          /\ calls' = [calls EXCEPT ![i] = <<>>]
          /\ UNCHANGED <<store, lists, published, acked>>
    /\ tries' = [tries EXCEPT ![i] = 0]
    /\ UNCHANGED <<received, params, before, repeated>>

\* The goroutine makes its next call; if it fails, that is logged and the
\* next one follows.  A call that failed may still have had its effect.
Call(i) ==
    /\ calls[i] # <<>>
    /\ calls' = [calls EXCEPT ![i] = Tail(@)]
    /\ tries' = [tries EXCEPT ![i] = IF OpensPipeline(i) THEN @ ELSE 0]
    /\ \/ Effect(i, Head(calls[i])) /\ UNCHANGED failed
       \/ /\ MayBreak(i, Head(calls[i]))
          /\ failed' = failed \cup {<<i, Head(calls[i])>>}
          /\ Effect(i, Head(calls[i])) \/ UNCHANGED <<store, lists, published, acked>>
    /\ UNCHANGED <<received, params, before, repeated>>

\* The calls left when call c is repeated: a publication is the end of a
\* pipeline, which go-redis repeats as a whole.
Restarted(c, left) ==
    IF c.op = "publish" THEN <<HSet(c.channel, c.payload[1], c.payload[2])>> \o left
    ELSE left

\* go-redis repeats a command or a pipeline when the connection broke before
\* the replies came, though the call may have had its effect.  The client sets
\* no MaxRetries.  Writes to the UART are not repeated.
Retry(i) ==
    LET c == Head(calls[i])
    IN  /\ calls[i] # <<>>
        /\ c # ResetAck
        /\ tries[i] < MaxRetries
        /\ MayBreak(i, c)
        /\ Effect(i, c)
        /\ calls' = [calls EXCEPT ![i] = Restarted(c, @)]
        /\ tries' = [tries EXCEPT ![i] = @ + 1]
        /\ repeated' = repeated (+) SetToBag({<<i, c>>})
        /\ UNCHANGED <<received, params, before, failed>>

Init ==
    /\ received = <<>> /\ params = <<>> /\ calls = <<>> /\ tries = <<>> /\ before = <<>>
    /\ store = <<>>
    /\ lists = <<>>
    /\ published = {} /\ acked = {}
    /\ failed = {} /\ repeated = EmptyBag

Next ==
    \/ \E m \in Incoming : Receive(m)
    \/ \E i \in DOMAIN received : Begin(i) \/ Call(i) \/ Retry(i)

Spec == Init /\ [][Next]_vars

-----------------------------------------------------------------------------
(* Properties.                                                             *)

\* Every variable has the values its comment says.
TypeOK ==
    /\ ToSet(received) \subseteq Messages
    /\ {DOMAIN params, DOMAIN calls, DOMAIN tries, DOMAIN before} = {DOMAIN received}
    /\ \A i \in DOMAIN received :
         /\ params[i] \subseteq Handled(received[i])
         /\ ToSet(calls[i]) \cup {f[2] : f \in {g \in Disturbed : g[1] = i}}
              \subseteq AllOps(received[i])
         /\ tries[i] \in 0..MaxRetries
         /\ before[i] \subseteq 1..(i - 1)
    /\ DOMAIN store \subseteq UNION {Touched(received[i]) : i \in DOMAIN received}
    /\ \A e \in ToSet(lists) : e[1] \in DOMAIN received
    /\ acked \cup {f[1] : f \in Disturbed} \subseteq DOMAIN received
    /\ Cardinality(Disturbed) <= MaxFaults

\* The calls of sequence s that write the field at and after which none does.
FinalWrites(s, at) ==
    {s[j] : j \in {k \in DOMAIN s : /\ Writes(s[k], at)
                                   /\ \A l \in DOMAIN s : l > k => ~Writes(s[l], at)}}

\* What message m may leave in a field: for each of its parameters that
\* writes the field, the last write.
Leaves(m, at) ==
    {Value(c) : c \in UNION {FinalWrites(OpsOf(p), at) : p \in Handled(m)}}

Writers(at) == {i \in DOMAIN received : at \in Touched(received[i])}

\* What message m may write to a field, on the way and in the end.
Written(m, at) == {Value(c) : c \in {d \in AllOps(m) : Writes(d, at)}}

\* A field is never older than a message that has been dealt with, however the
\* goroutines interleave and repeat their calls: what a reader finds comes from
\* a message that none dealt with was received after, and if that one is done
\* too, is what it leaves in the end.  So when the messages do not overlap, the
\* field holds what the last one says; two that overlap may be stored in either
\* order, but as one of them says.  (No call for the field may have failed.)
FieldCurrent ==
    \A at \in UNION {Touched(received[i]) : i \in DOMAIN received} :
        LET writers == Writers(at)
            done    == {j \in writers : Done(j)}
        IN  /\ done # {}
            /\ \A f \in failed : "at" \in DOMAIN f[2] => f[2].at # at
            => \E i \in writers :
                 /\ Stored(at) \in IF i \in done THEN Leaves(received[i], at)
                                   ELSE Written(received[i], at)
                 /\ \A j \in done : i \notin before[j]

\* How often call c of message i was repeated.
Repetitions(i, c) == IF BagIn(<<i, c>>, repeated) THEN repeated[<<i, c>>] ELSE 0

\* The parameters of message m that lead to call c.
Causes(m, c) == {p \in Handled(m) : c \in ToSet(OpsOf(p))}

\* Once its calls are made, every event a message reported is in its list as
\* often as the message names it, and its reset report is acknowledged,
\* whatever became of the other calls, unless that call itself failed.  The
\* event is there more often only by as much as go-redis repeated the call, at
\* most MaxRetries times for each time it is named.  Nothing else is in a list
\* or acknowledged.
OncePerMessage ==
    \A i \in DOMAIN received : Done(i) =>
        /\ \A e \in Range(Events) :
             LET c     == LPush(e[1], e[2])
                 named == Cardinality(Causes(received[i], c))
                 again == Repetitions(i, c)
                 least == IF <<i, c>> \in failed THEN 0 ELSE named
             IN  /\ Cardinality({k \in DOMAIN lists : lists[k] = <<i, e[1], e[2]>>})
                    \in least..(named + again)
                 /\ again <= MaxRetries * named
        /\ i \in acked => ResetAck \in AllOps(received[i])
        /\ ResetAck \in AllOps(received[i]) /\ <<i, ResetAck>> \notin failed => i \in acked

\* Events are queued in the order they happened, if the earlier one had been
\* queued when the later one was received.
EventsInOrder ==
    \A k, l \in DOMAIN lists :
        lists[k][1] \in before[lists[l][1]] => k < l

\* A reader finds v, which message i has written, in the field at, unless that
\* write failed, or what a message wrote that i did not come after.
Readable(i, at, v) ==
    \/ Stored(at) = v
    \/ <<i, HSet(at[1], at[2], v)>> \in failed
    \/ \E j \in Writers(at) \ {i} :
         j \notin before[i] /\ Stored(at) \in Written(received[j], at)

\* A value is announced when it can be read: a subscriber that fetches the
\* field on the announcement finds it, or one that competes with it, but none
\* of a message dealt with before.  (The two calls of WriteAndPublish are no
\* transaction.)
AnnouncedIsStored ==
    \A i \in DOMAIN received : calls[i] # <<>> =>
        LET c == Head(calls[i])
        IN  c.op = "publish" => Readable(i, <<c.channel, c.payload[1]>>, c.payload[2])

-----------------------------------------------------------------------------
(* What comments of the source say, and the code does not do.              *)

\* "For PROTSTATUS and BATTSTATUS faults": the fault key shows a fault while
\* the last report of either status word has one.
StatusOps(i, sub) ==
    UNION {ToSet(OpsOf(p)) :
             p \in {q \in Handled(received[i]) :
                      q[1] = Type.BatteryInfo /\ q[2] = q[1] + sub}}
Reports(sub) == {i \in DOMAIN received : StatusOps(i, sub) # {}}
FaultShown ==
    LET protection  == Reports(BatteryInfo.ProtectionStatus)
        status      == Reports(BatteryInfo.BattStatus)
        all         == protection \cup status
        faulty(sub) == Reports(sub) # {} /\ \E c \in StatusOps(Max(Reports(sub)), sub) :
                                                c.op = "hset"
    IN  /\ \A i \in all : Done(i) /\ all \cap 1..(i - 1) \subseteq before[i]
        /\ failed = {}
        /\ faulty(BatteryInfo.ProtectionStatus) \/ faulty(BatteryInfo.BattStatus)
        => Stored(<<"cb-battery:fault", "fault">>) # Absent
=============================================================================
