# Bluetooth service: TLA+ models and proofs

`bluetooth-service` (Go) is the bridge on a scooter's main board between an
nRF52 Bluetooth chip, reached over a serial line, and the other services, reached
through Redis. It keeps the nRF52's picture of the scooter up to date, stores
what the nRF52 reports, forwards commands, and has to come up and go down in an
orderly way while five kinds of goroutines (`main`, the read loop, one
per received frame, one per Redis channel, the command watcher) share one UART and one Redis client.

Paths below are relative to the repository. Every definition that models code is
listed with its lines in `PROJECT.json` ("map").

## 1. Inventory

### Components

| Component | State it keeps | Operations | Correct when |
|---|---|---|---|
| USOCK framing, `pkg/usock/usock.go` | receiver state, the frame being built, one byte buffer shared by both checksums | `WriteWithFrameID`, `readLoop`, the ten states of `processByte` | frames come out as they went in, in order, at most once; a checksum covers exactly what is acted on; any disturbance is left behind after a bounded number of bytes |
| CRC-16, `usock.go:67-90, 386-393` | none | `calculateCRC16` | the table is the polynomial's |
| Redis to nRF52, `pkg/service/redis_handlers.go` | nothing but the stacks of one goroutine per channel and of `main` | subscribe, receive, `Update*`, pin removal | once all is quiet the nRF52 knows the value in Redis |
| Command watcher, `redis_handlers.go:165-233` | the command just popped | `BRPOP`, map, send | commands arrive in order, none twice; the watcher never stalls |
| nRF52 to Redis, `pkg/service/usock_handlers.go` | nothing but one goroutine per frame | `HandleUSockMessage` and a handler per message type | a field holds the last report; an event is queued once; a reset report is acknowledged once |
| Pairing PIN, `usock_handlers.go:477-497`, `redis_handlers.go:140-153, 217-221` | none of its own: the pin is in the nRF52 and in Redis | store and publish, read and remove, command `remove` | both sides agree once all is quiet; the service does not answer itself |
| nRF52 initialisation, `pkg/service/nrf_commands.go` | none | `InitializeNRF52` | runs before the first updates |
| Start-up and shutdown, `cmd/bluetooth-service/main.go`, `service.go` | `stopCh`, `stopChan`, the wait group, port, Redis connection, `sigCh` | `main`, `Stop`, `Close`, `readLoop`, watcher | a signal ends the process with everything released, and costs little |
| Redis client, `pkg/redis/client.go` | the go-redis client | thin wrappers, state strings to numbers | a wrapper does what its callers take it to do |
| BLE types, `pkg/ble/types.go` | constants | none | the numbers are those of the firmware |
| CBOR and logging, `helpers.go` | none | encode, decode, dump | (library) |

### How they interact

* `main` starts the read loop, the watcher and the subscribers, then sends the
  initialisation commands and one update of every field, and only then asks for
  signals.
* The read loop calls `processByte`, which starts **a goroutine per frame**
  (`go u.handler`, usock.go:372). Nothing orders these goroutines.
* A subscriber, `main` and the watcher all read Redis first and write the UART
  afterwards. `WriteWithFrameID` holds a mutex, so frames do not mix, but **no
  lock spans the read and the write**.
* Other services write a hash field and then publish its name; the service reads
  the field back. It also publishes on channels it follows itself (`ble`,
  `power-manager`).
* Shutdown: `Stop` closes `stopCh`, `USOCK.Close` closes `stopChan`, waits for
  the reader, closes the port; the Redis connection is closed last.

### What is hard

Reads of Redis and writes of the UART by several goroutines in any order; start
of the subscriptions against `main`'s first updates; goroutine per frame against
the order of the line; lost, changed and stray bytes with no timeout inside a
frame; partial failures (an HGET error is taken for a missing field); blocking
calls without a timeout against shutdown. The full list, at its lines and with
the properties that watch it, is "hazards" in `PROJECT.json`.

## 2. Modules

| Module | Models | Notes |
|---|---|---|
| `FrameChannel` | abstract specification: a FIFO channel that may lose but never alters, repeats or invents | implemented by `Usock` and by the command list of `Outbound` |
| `Usock` | both ends of the framing and the line between them | the checksum is the constant operator `CRC` |
| `FrameDecoder` | abstract specification: a decoder hands over a frame only when the bytes it heard last spell it, and uses no byte twice | implemented by `UsockDecoder` |
| `UsockDecoder` | `Usock` with a record of the bytes `processByte` was given | EXTENDS `Usock`; history variables `heard`, `used` |
| `Crc16` | table and loop of the checksum, and the polynomial as reference | |
| `BleTypes` | the numbers of `pkg/ble/types.go` | used by both directions |
| `Conversions` | key and number sent for a Redis string, one case per `Update*` | `Uint16` is `% 2^16` |
| `Outbound` | Redis to nRF52: subscribers, first updates, initialisation, watcher, restarts of the nRF52 | EXTENDS `Conversions` |
| `Handlers` | what is handled of a payload, and the Redis and UART calls each handler makes | pure operators |
| `Inbound` | goroutine per frame performing those calls | EXTENDS `Handlers` |
| `Pairing` | the two directions composed for the pin: handlers, subscriber and watcher around one Redis field | EXTENDS `Handlers` |
| `Lifecycle` | `main`, reader, watcher, handlers, subscribers, stop channels, signals | |
| `UsockProofs`, `OutboundProofs`, `PairingProofs`, `LifecycleProofs` | theorems about the module of the name | |
| `UsockDecoderProofs` | `UsockDecoder` implements `FrameDecoder` | EXTENDS `UsockProofs` |
| `InboundProofs`, `InboundFieldProofs`, `InboundPublishProofs` | theorems about `Inbound`: the order of events; fields, pushes and acknowledgments; announcements | each EXTENDS the one before |
| `MC*` | values of the constants for TLC | |

### Usock

`state`, `frame`, `buffer` are the fields of the Go struct; `delivered` is what
the handler was given. Each case of the switch in `processByte` is an action of
the same name; the two checksum fields are built from two bytes, as in the code,
and `buffer` is reset only where the code resets it (on `Sync1` and after a good
header). `WriteWithFrameID` puts a whole frame on `wire`; `ReadByte` is one
iteration of `readLoop` and consumes a byte; `Disturb` loses, changes or inserts
one byte or cuts a frame short. The receiver is the same code at both ends as
far as the repository goes: the nRF52's sender is taken to build frames like
`WriteWithFrameID`.

`UsockDecoder` adds what the receiver `heard` and how many of those bytes it had heard
when it last handed over a frame (`used`); nothing depends on them. They are what
`FrameDecoder` speaks of, which knows the bytes and not the sender: where
`FrameChannel` says that the link loses frames and does nothing worse,
`FrameDecoder` says what a frame handed over owes to the line when the line did.

### Outbound

For every goroutine `p`, `agenda[p]` is what it is still to send and `got[p]`
what it has read for the first of these. `Read` is the HGET (which may fail: the
code then goes on with a default), `Write` the UART write, which files the value
under the key it travels with (`Key`, from `BleTypes`): two fields sent under one
key would overwrite each other. A presence that is no number is read a second
time, and a notification of presence resends the cycle count; `hibernating-l2`
is followed by a second frame, and `nrf` keeps its level only until the next power state is sent
(`Sent`). `inbox` is the subscription's channel, `Set` and
`Publish` the two steps of another service. `NrfReset` is a restart of the nRF52,
which forgets everything. `clean[f]` is a history variable: it says that the last
write to `f` is one the design can be expected to deliver (no call for it failed,
no notification was lost, the nRF52 has not restarted since `main` sent it, and it
did not fall between `main`'s read and the subscription or `main`'s write).

### Handlers and Inbound

`Handled(payload)` is what `HandleUSockMessage` does with a decoded payload:
nothing for one without exactly one type or without a map inside, every parameter
with a 16-bit key otherwise. `Ops(type, key, v)` is the sequence of calls for one
parameter. The handlers go on after a failing call, so this sequence is all there
is to a handler; `Inbound` performs it one call at a time, one goroutine per
message, in any interleaving, with the parameters of a message in any order (a Go
map). A pipeline of HSET and PUBLISH is two calls, each of which may fail, with
its effect or without. `Retry` is go-redis repeating a call whose reply was lost, up
to `MaxRetries` times (`tries` counts them). The client is made without a value
for it (client.go:21-25), so the library's default of three applies. A pipeline is
repeated as a whole, and has one count: if the publication is repeated, its HSET is made
again first (`Restarted`). `repeated` is a bag, of how often which call was.
A message may name the same event under two keys (the handler looks at the event
number only), so `OncePerMessage` counts: an event is queued as often as the message
names it.

### Pairing

`shown` is the pin the nRF52 displays, `pin` the field `ble/pin-code`. `Show` and
`Finish` are the nRF52's, `Obey` its reaction to a removal; all three end in a
`Report`, whose handler makes the calls `Handlers` gives for the message
(`DisplayCalls`, `RemoveCalls`), one `Call` at a time. `Dismiss` and `Announce`
are the two steps of a service that removes the field; `Subscribe`, `Receive`,
`Check` and `Send` are the goroutine of channel `ble`, `BRPop` and `Forward` the
watcher with the command `remove`. A publication of the handlers
(`pin-code:<pin>`) comes back to the subscriber like any other. The one assumption
about the nRF52 is that it reports every pin it displays and every pin it drops;
whether it also acknowledges a removal that found no pin is left open. `clean` says
that since the last change nothing was lost and no two handlers were at work at
once.

### Lifecycle

One action per step of `main` that touches a shared resource. The reader and the
watcher alternate between their `select` and a call that blocks without timeout.
`handlers` counts the goroutines of frames, which nobody waits for, as nobody does
for the subscribers; `refused` records whose UART writes met a nil `Service.usock`
or a closed port. A signal before `signal.Notify` kills the process; one after it
is kept in the channel of capacity one.

## 3. What the runs check

| Run | Question | Outcome |
|---|---|---|
| `usock` | `ChecksumCoversFields`, `BoundedFrame`, `EveryByteAdvances`, `CleanDelivery`, `LossBound`, `ArrivesWhole`, `ImplementsChannel` with three frames and one disturbance anywhere, real sync bytes and checksum | hold |
| `usock_decoder` | `ImplementsDecoder`, `LossBound` again and `CleanFrameArrives`, with payloads made of sync bytes and empty ones among those sent | hold |
| `crc16` | the table against the polynomial; bursts inside two adjacent bytes are noticed | holds |
| `outbound_fields` | `MirrorCurrent`: once nothing is under way the nRF52 has the value in Redis, restarts and failures of other fields notwithstanding; `LevelRequested` for the second frame of hibernation | hold |
| `outbound_live` | `Converges`, `CommandsDrain`; `CommandsInOrder`: the command list refines `FrameChannel` | hold |
| `inbound` | `FieldCurrent`, `OncePerMessage`, `EventsInOrder`, `AnnouncedIsStored` over payloads that reach every handler, with a call that fails or is repeated | hold |
| `pairing` | `RemovalsCaused`: no removal without a dismissal or a command; `PinAgrees`: nRF52 and Redis agree when all is quiet; `PinSettles`: they come to rest so | hold |
| `lifecycle` | `PortOutlivesReader`, `OneCommandLost`, `WritesMeetPort`, `NoLateHandler`, and `GracefulShutdown` while the nRF52 talks | hold |
| `outbound_boot_race` | `CurrentStateSent` | **violated**, see below |
| `outbound_mileage` | `MileageSent` | **violated** |
| `inbound_fault` | `FaultShown` | **violated** |
| `lifecycle_silent` | `GracefulShutdown` with a silent nRF52 | **violated** |

### What is violated

* **Stale state after start-up.** `main` reads the vehicle state, another service
  changes it, the subscriber reads and sends the new one, `main` then sends the
  old one. Or the change comes after `main`'s read and before SUBSCRIBE reaches
  Redis. Either way the nRF52 is wrong until the next change.
* **Odometer.** `UpdateMileage` converts to `uint16`.
* **Fault field.** Protection status and battery status share the one Redis
  field `fault`, and each clears it when its own bits are clear.
* **Shutdown.** `USOCK.Close` waits for a reader that waits for a byte; with a
  silent nRF52 the process never ends, and later signals are not looked at.

Seen while modelling, and not runs of their own:

* `SubscribeToRedisChannels` returns, and is logged, before a channel is
  subscribed, so updates can precede the initialisation commands.
* `InitializeNRF52` returns nil whatever failed, so `main` logs success
  (main.go:84-89) even if no command was written.
* After a restart of the nRF52 nothing is sent again: neither the fields nor the
  command that enables data streaming. A silent nRF52 is then what a shutdown
  meets (`lifecycle_silent`).
* A frame that announces no payload collects one byte (usock.go:336). It is then lost,
  with the next one perhaps, or, if one more byte on the line happens to complete it, handed
  over with a payload of one byte (the zero in `Lengths` of `FrameDecoder`;
  `usock_decoder` reaches it).
* The removed pin is written back as an empty string (usock_handlers.go:495), and
  `WriteAndPublishString` publishes `field:value` where the subscriber of the same
  channel expects a field name. The second is what keeps the pin's circle from
  feeding itself: with the bare name published, every removal would be answered by
  another (the mutant `WriteAndPublishName`).
* A removal decided before a new pin is displayed drops the new pin; both sides
  agree afterwards, but the new pairing attempt is lost.
* Neither the handlers nor the subscribers are waited for at shutdown, and a
  handler can run before `SetUSock`; its reset acknowledgment is then not sent.
* An LPUSH whose reply is lost is repeated, and its event may be queued four times.
* If `main` reads `hibernating-l2` and another power state is written between its two
  frames, the channel's goroutine may send that one first, and the L2 request then
  comes last and stays.
* A signal during start-up ends the process with the port open.

### What limits the properties that hold

* `LossBound` says that a disturbance costs at most `Cost` frames: the one it hits, and
  as many of the shortest ones as fit in what a receiver that saw a header may still
  wait for, as nothing times out. For the code's `MaxPayloadLength` of 1024 that is 105
  frames, for the 2 of the runs it is two. An empty frame counts as one more
  disturbance. It is for frames in which no byte after the first is a sync byte. With
  sync bytes in a payload one disturbance cost three frames out of three: the receiver
  may lock on to a payload. Then `BoundedFrame`, `CleanDelivery`, `ArrivesWhole` and
  `ImplementsDecoder` remain.
* `MirrorCurrent` and `Converges` speak of fields with `clean`; how the others
  go wrong is `CurrentStateSent`.
* Two messages that overlap may be stored, announced or queued in either order, by design of
  `go u.handler`. `FieldCurrent` and `AnnouncedIsStored` cover them: they say that what
  is stored is what one of the two says, never anything of a message older than one
  that has been dealt with. `EventsInOrder` orders an event only behind those of messages done
  when it was received.
* `LevelRequested` asks that the last L2 request is younger than the last power state
  when the scooter is in hibernation. That no such request is left when it is not does
  not hold, as above.

### Bounds, and why they are enough

* `usock`: three frames because a disturbance can cost the frame it hits and the
  next, and the third shows the recovery; payloads of one and two bytes make the
  payload state loop or not; noise bytes are an ordinary value and a sync byte;
  `MaxPayloadLength = 2` makes an announced length exceed it after one change.
  The bounds do not matter for the invariants: they are proved for all values.
* `usock_decoder`: an empty payload and one of a single byte, since those are the two the
  decoder can confuse, and two that hold sync bytes; noise bytes of both kinds. It uses
  a plain sum for the checksum. `ImplementsDecoder` is proved for all values, and what
  `CleanFrameArrives` checks does not depend on the checksum, as the proof of
  `CleanDelivery` shows.
* `outbound_fields`: two writes are what it takes for one to overtake the other;
  the three fields stand for each shape of `Update` (cut to 16 bits, read twice
  and followed by another field, second frame), on two channels, so two goroutines
  and `main`; two faults let a failure meet a restart. The three invariants are
  proved for any fields and any number of writes and faults. `outbound_live` follows one
  field; every other shape of `Update` is a bounded sequence of the same two steps.
* `inbound`: two messages over more than fifty payloads that reach every handler with
  every shape of value, well and ill formed; three when all are about a field that several messages
  write, as two writers and a reader of the same field need. One call fails or is
  repeated, as often as go-redis' default `MaxRetries = 3` allows. All five invariants
  are proved for any payloads, and any number of messages, failures and repetitions.
* `pairing`: two pins, so that a removal meant for one can meet the other; one
  dismissal and one command, so that two removals can be under way together; one
  fault. `RemovalsCaused` and `PinAgrees` are proved for any numbers. With a dismissal more and no
  command the state space grows several times over without a new kind of step.
* `lifecycle`: the counters only say how many bytes and commands wait and how many
  handlers run; the proofs hold for any.

### Fairness

`outbound_live`: weak fairness of every goroutine's steps (the Go scheduler is
fair, HGET and the UART write return) and of `Publish` (a service that wrote a
field publishes it). Nothing obliges anyone to write. Because `MaxFaults` bounds
the failures, a call fails finitely often. `usock_decoder`: weak fairness of the
read loop. `lifecycle`: the three goroutines, and, in `TalkingSpec` only, the
arrival of bytes: the nRF52 streams data once it has been told to. `FairSpec`,
used by `lifecycle_silent`, drops that, as nothing in the code makes it talk.

`pairing`: weak fairness of the handlers, the subscriber and the watcher, whose
calls return, and of `Announce`; nobody has to display, dismiss or finish anything.

Deadlock checking is off because with every bound used up a system at rest has
nothing left to do, and in `Lifecycle` the process ends.

## 4. What is proved

All of it for every value of the constants, under the assumptions named in the
modules. Every safety property of a passing run is proved except the two of
`MCCrc16`; `ImplementsChannel` is proved while the line is clean, and
`ImplementsDecoder` is what is proved of a line that is not.

`UsockProofs`, from `CRCTyped` (`calculateCRC16` maps bytes to a `uint16`; its Go
type says so) and the assumptions of `Usock`:

* `UsockTypeOK`, `UsockChecksums`, `UsockBoundedFrame`, `UsockAdvances`. The
  inductive invariant is `RxInv`. `Receiver`, its part about the state machine,
  is kept by `processByte` **whatever byte arrives**, so the theorems cover
  every noise. `TypeOK` alone is not inductive: a checksum assembled from two
  bytes stays a word only because the first half is a byte (`HalfWords`), and
  `ChecksumCoversFields` needs to know the buffer byte by byte while the header
  comes in (`HeaderBuffer`).
* `UsockCleanDelivery`: on an undisturbed line every frame with a payload is
  delivered intact, in order, with its last byte. The invariant `CleanInv` says
  that the receiver is as many bytes into the first frame on the line as have
  been read from it, and holds that frame's fields; `EncodeLayout` gives the
  byte at each position of an encoded frame, `ReceiverFollows` the effect of
  one more byte. It needs `Data # <<>>`, which is where the zero length case of
  usock.go:336 shows up.
* `UsockCleanChannel`: `Spec /\ []CleanLine => ImplementsChannel`. `CleanStep` maps
  every step: `WriteWithFrameID` is `Accept`, the last byte of a frame `HandOver`,
  every other byte a stutter; `Lose` is never needed. On a disturbed line the
  refinement depends on the checksum telling altered frames apart, which no
  16-bit checksum does for all of them; there the run `usock` is what there is.

* `UsockArrivesWhole`, without any condition on what the line did before: a frame
  whose first byte reaches a hunting receiver, and which is not itself disturbed, is handed
  over with its last byte. `Whole` is `CleanInv` for one frame: as long as the receiver
  is as many bytes into the frame as have been read, it holds that frame's fields.
  `DisturbedKeepsRead` shows that a disturbance leaves the part already read
  alone, so that a frame still equal to an encoded one has not been touched, and
  `HuntingFollows` that a hunting receiver can follow any frame, whatever the buffer
  and the frame of the last attempt still hold.
* `UsockLossBound`, for any number of disturbances and frames, through `LossInv`.
  `LossBound` speaks of an empty line; before that, `Slack` counts the faults less the
  faulty frames still to come, which is what has been paid in so far, and `Affords(d)` that
  it pays for the frames lost and for `d` more. Where a good frame is being read, `d`
  has to cover what a receiver out of step with it may still swallow. Ahead of the
  line, it is in a frame that began earlier and ends after at most
  `MaxPayloadLength + 8` bytes, so each good frame it swallows whole brings that end
  ten bytes nearer. Behind the line it is hunting (`Quiet`: after the first byte of such a
  frame nothing looks like the start of one), so it loses this frame and is in step
  with the next, which `Whole` then hands over. A faulty frame that has gone by pays in
  `Cost`, which `CostCovers` shows to be enough for the longest frame the receiver
  can be left in; a disturbance pays for the one frame it makes faulty
  (`DisturbRaisesSlack`).

`UsockDecoderProofs`, from the same assumptions:

* `UsockImplementsDecoder`: `HeardSpec => ImplementsDecoder`, on any line. `HandOver` of
  `FrameDecoder` needs the whole frame, and the receiver keeps only its fields and
  two checksums, so the invariant `HeardInv` says in each state what the last bytes heard
  were: they are the part of the frame received so far, header checksum included, and
  none of them came before `used`. `HeardInvByte` keeps it byte by byte, with a case
  for each state of `processByte`; `HandsOverHeard` reads `HandOver` off it when the
  second checksum is right. A frame that announced no payload has one byte here,
  which is the only place where the length heard and the length handed over differ.

`OutboundProofs`, from the assumptions of `Conversions` and `Outbound`. `FieldsAssumption`
names the fields the source has an update for; `SentinelsAssumption` keeps the two
values that stand for nothing apart from what is sent. First lemmas about the
operators: no two fields travel under one key (`KeysDiffer`), what is sent for any
string fits 16 bits (`MessageCarried`), `main` updates every field (`BootCovers`), a
notification causes an update of its own field and of none of another hash
(`UpdatesContain`), a presence read twice comes to what one reading would
(`PresenceTwice`).

* `OutboundTypeOK`, `OutboundMirror`, `OutboundLevel`, through one inductive invariant
  `IInv`. `MirrorCurrent` speaks of quiet states only; what keeps it is
  `FieldInv(f)`, which holds in between: as long as the last write to `f` is one that
  must arrive, `main` holds no stale value of `f`, another goroutine holds one only
  if a notification under way will make it read again, and either somebody is still
  to read or send `f` or the nRF52 has it. It needs `Idle` and `OwnFields` (which
  goroutine can have `f` on its agenda, and when) and `Levels` (the second frame of
  a hibernation stands directly behind the power state it was read with, so it is
  sent unless its write fails). `LevelRequested` is not a matter of one goroutine: the power
  state another one sends undoes a request already sent, and `Fresh` says that this one then has the
  second frame still to send. There is a lemma per action.
* `OutboundCommands`: the command list implements `FrameChannel`. A BRPOP whose
  reply is lost is `Lose`, a popped command stays at the head of the abstract
  queue, and `Forward` hands it over or loses it.

`InboundProofs`, `InboundFieldProofs` and `InboundPublishProofs`, for any set of payloads and any number of
messages, failures and repetitions, from `MessagesAssumption` (types are 16-bit
numbers, a payload has finitely many parameters):

* `InboundEventsInOrder`. The property compares positions in a list with a history
  of who was done when; it is not inductive. The invariant adds that a message
  which is done has no calls and no parameters left, that `before` holds only
  earlier messages, and that every entry of a list belongs to a received message:
  what is appended then comes from a message that is not done, hence before
  nobody's receipt.
* `InboundTypeOK`, through `TInv`. `OpsCalls` goes through every handler: its calls are
  a sequence, and a push comes alone in it. What a goroutine has left is the end of such
  a sequence (`IsRest`), and stays one when a pipeline is repeated (`RestRestarted`),
  because each publication comes directly behind the HSET of the same field
  and value (`OpsAnnounce`): what is put back is what was there.
  `Counted` is what is needed for the bound on failures: the calls that failed or were
  repeated are a finite set.
* `InboundFieldCurrent`, through `FInv`. `FieldCurrent` looks at messages that are done. What keeps
  it is `Fresh`, which looks at those that still owe the field a write (`Owes`): either
  every message about a field does, or the field is held by one of them (`Holds`: its value
  is what that message leaves, or has written on the way) and whoever was received after that one
  was done owes a write. A call that writes the field makes its own message the holder. Since a goroutine
  may write a field several times (the pin is deleted and written back), `CallsLeft`
  says that the last writes among the calls left are always ones the message may leave.
* `InboundOncePerMessage`, through `OInv`. Two accounts are kept for every event of every
  message. `Pushes`: entries in the list, plus the push begun, plus the parameters still to
  come are at least the number of times the message names the event, unless a push failed,
  and exceed it by no more than the repetitions. `Limits`: the repetitions so far, plus
  those the push at hand may still see, are at most `MaxRetries` for each push
  begun. The second needs that `tries` starts from zero with every push, which is
  why a push comes alone. `Acks` is the account of the acknowledgment of a reset report.

* `InboundAnnouncedIsStored`, through `PInv`. `AnnouncedIsStored` looks at the moment
  before a PUBLISH; what leads there is `OpsAnnounce` again, which holds of the calls still left
  too (`RestAnnounces`). Another message may then write the field in between only if
  it was at work when this one was received (`BeforeDone`), which is the exception the
  property names.

`PairingProofs`, for any set of pins and any bounds, from `NoneAssumption` (no pin is
the value for no pin). First the calls of the handlers are computed from `Handlers`
(`DisplayCallsAre`, `RemoveCallsAre`), which shows that what they publish is never
the bare name the subscriber waits for (`OwnPayloads`).

* `PairingTypeOK`, `PairingRemovals`. `Balance`: the removals sent, plus one for each
  notification not yet received, announcement not yet made, subscriber at work and
  command not yet forwarded, never exceed the dismissals and commands. Every step
  keeps the sum or lowers it, or raises both sides by one.
* `PairingPinAgrees`, through `LastReport`: while `clean`, at most one handler is at
  work, on the report of what the nRF52 shows now, at its first call, its second or
  its last; and once Redis has the value, either the two sides agree or Redis has no
  pin and a removal is on its way (`Settled`).

`LifecycleProofs`, from `BoundsAssumption`: `LifecycleTypeOK`, `LifecyclePort`,
`LifecycleCommands`, `LifecycleWrites`, `LifecycleHandlers`, through one inductive
invariant `IInv`. `PortInv` follows the port and `Service.usock` along `main`'s
positions; `LostInv` says that the watcher can meet a closed port only after
`Service.Stop`, and that a watcher which lost a command takes no other, which is
why one is the most that can be lost. `NoLateHandler` follows because from `Join`
on the reader is done.

**Only model-checked**:

* `Converges`, `CommandsDrain`, `CleanFrameArrives`, `PinSettles`, `GracefulShutdown`:
  liveness under fairness is out of the prover's reach.
* `TableImplementsPolynomial`, `DetectsBursts`: `Crc16` is written with bit
  operations, which the prover cannot use, and what a loop over the message
  computes for every message is an induction over data, which it cannot do.
* `ImplementsChannel` on a disturbed line, for the reason above.

## 5. What is not modelled, and why

* CBOR encoding and decoding, logging, go-redis' pools and reconnection, flag
  parsing: libraries or without effect on the state. A decoded value is one of
  five shapes, which is what the handlers tell apart.
* The handlers' logging branches: `handleBatteryMessage`, `handleVehicleStateMessage`,
  `handlePowerManagementMessage` and `handleBLECommandMessage` only log, so they are
  the empty sequence of calls.
* The branch of `HandleUSockMessage` for an acknowledgment with an empty map
  (usock_handlers.go:29-49): it only logs, and cannot be reached, as data that
  begins with 0xa1 decodes to a map of one key.
* The "unhandled bits" branches of the status words: the masks cover every bit
  that is tested, so they are unreachable.
* The raw part number: its text is a function of it, modelled as a table.
* The nRF52 itself, its advertising and streaming state included: what the six
  initialisation commands lead to is not in the source. Of `InitializeNRF52` the
  number and place of the commands is modelled, not their meaning.
* `RestartAdvertisingWithoutWhitelist`, `USOCK.Write`, `convertToBytes`,
  `calculateCRC8`, `ble.Message`, `ble.BatterySlot` and the characteristics table,
  which nothing uses.
* The data race on `Service.usock` between `SetUSock` and a handler of an early
  frame is taken as reading either the old or the new pointer, which is what the
  builds for the supported targets produce.

## 6. Plan

Done: `Crc16`, `FrameChannel`, `Usock`, `BleTypes`, `Conversions`, `Outbound`,
`Handlers`, `Inbound`, `Pairing`, `Lifecycle`, and the proofs above. What is left
of the system is listed in section 5, with the reasons.

A possible extension, if the firmware of the nRF52 can be consulted: its echo of
the mileage, which the service stores in `engine-ecu odometer`, and the advertising
state under initialisation and forwarded commands.

What could still be proved: for `Pairing`, that a circle at rest with nothing lost
agrees whatever the order of the reports, where `PinAgrees` asks for one handler at a
time. That nothing is delivered which was not sent has no assumption about `CRC` that a
16-bit checksum could satisfy for all payloads, and stays with TLC.
