------------------------------ MODULE Outbound ------------------------------
(***************************************************************************)
(* How the service keeps the nRF52's picture of the scooter up to date.    *)
(*                                                                         *)
(* External services write a field of a Redis hash and then publish its    *)
(* name on the hash's channel.  One goroutine per channel (service         *)
(* SubscribeToRedisChannels) reads the field back and sends it over the    *)
(* UART; main does the same once for every field at startup, after the     *)
(* initialisation commands.  Reading Redis and writing the UART are        *)
(* separate steps of each goroutine: only the write holds the UART's       *)
(* mutex.  A further goroutine (WatchRedisCommands) forwards commands from *)
(* a Redis list.                                                           *)
(***************************************************************************)
EXTENDS Conversions, Sequences, FiniteSets, SequencesExt

CONSTANTS
    Fields,         \* the fields this instance follows
    FieldValues,    \* FieldValues[f]: values the field may be given
    KnownCommands,  \* list entries WatchRedisCommands maps to a message
    OtherCommands,  \* entries it drops
    MaxSets,        \* bound: fields written by external services
    MaxPushes,      \* bound: commands pushed
    MaxFaults,      \* bound: failing calls, lost notifications, restarts of the nRF52
    None,           \* no value
    Again           \* a presence that is no number is read a second time

Commands == KnownCommands \cup OtherCommands

\* Values the UART messages carry: a 16-bit number, or the version string,
\* which is empty if Redis has none.
Number   == {n \in Nat : n < 65536}
Versions == {""} \cup UNION {FieldValues[f] \ {Absent} : f \in Fields \cap {MdbVersion}}

Carried(f) == IF f = MdbVersion THEN Versions ELSE Number

ASSUME FieldsAssumption ==
    /\ Fields \subseteq AllFields
    /\ \A f \in Fields : FieldValues[f] \subseteq STRING \cup {Absent}
ASSUME SentinelsAssumption ==
    /\ None # Again /\ None \notin Commands
    /\ \A f \in Fields : None \notin Carried(f) /\ Again \notin Carried(f)
ASSUME BoundsAssumption == {MaxSets, MaxPushes, MaxFaults} \subseteq Nat

Channels == {f[1] : f \in Fields}
Main     == "main"
Procs    == Channels \cup {Main}

VARIABLES
    store,       \* Redis: store[f] is the field's value or Absent
    unannounced, \* fields written whose notification is still to be published
    subscribed,  \* channels whose SUBSCRIBE has reached Redis
    inbox,       \* inbox[c]: notifications not yet handled, oldest first
    boot,        \* main: NotStarted, then init commands sent so far
    agenda,      \* agenda[p]: fields goroutine p is still to send
    got,         \* got[p]: what p has read for the first of them, or None
    nrf,         \* the last value the nRF52 was sent under each key, or None;
                 \* for the level, the last one since the last power state
    list,        \* Redis: the command list, oldest first
    popped,      \* the command taken by the watcher, or None
    obeyed,      \* commands sent to the nRF52, oldest first
    clean,       \* history: fields whose last write must reach the nRF52
    sets, pushes, faults    \* counters of the bounds

redis    == <<store, unannounced, subscribed, inbox>>
workers  == <<boot, agenda, got, nrf>>
commands == <<list, popped, obeyed, pushes>>
vars     == <<redis, workers, commands, clean, sets, faults>>

-----------------------------------------------------------------------------
(* What the goroutines have to do.                                         *)

NotStarted   == -1  \* no goroutine has been started
InitCommands == 6   \* messages InitializeNRF52 sends

\* The update of f, if it is followed.
One(f) == IF f \in Fields THEN <<f>> ELSE <<>>

BatteryUpdates(slot) ==
    One(Battery(slot, "present")) \o One(Battery(slot, "state"))
    \o One(Battery(slot, "cycle-count")) \o One(Battery(slot, "charge"))

\* main's updates, in order.
BootUpdates ==
    One(VehicleState) \o One(SeatboxLock) \o One(Handlebar) \o One(Odometer)
    \o One(MdbVersion) \o BatteryUpdates(1) \o BatteryUpdates(2) \o One(PowerState)

\* Updates with two cases missing from the switch.
UpdatesMissingCases(f) ==
    IF f \in {VehicleState, Odometer} THEN <<>>
    ELSE One(f) \o (IF f \in Presence THEN One(<<f[1], "cycle-count">>) ELSE <<>>)

\* The updates a notification for field f causes.
Updates(f) ==
    One(f) \o (IF f \in Presence THEN One(<<f[1], "cycle-count">>) ELSE <<>>)

Working(p) == agenda[p] # <<>>
Current(p) == Head(agenda[p])

\* The service is past boot's own update of f.
Booted(f) == boot = InitCommands /\ ~Contains(agenda[Main], f)

\* Nothing is under way that could still change what the nRF52 knows of f.
Quiet(f) ==
    /\ boot = InitCommands
    /\ \A g \in unannounced : ~Contains(Updates(g), f)
    /\ \A g \in Range(inbox[f[1]]) : ~Contains(Updates(g), f)
    /\ \A p \in Procs : ~Contains(agenda[p], f)

-----------------------------------------------------------------------------
(* External services and Redis.                                            *)

\* A service writes field f.  The write must reach the nRF52 if main's boot
\* update is still to read it, or if main is done with f and the channel is
\* subscribed.
Set(f, v) ==
    /\ sets < MaxSets
    /\ sets' = sets + 1
    /\ store' = [store EXCEPT ![f] = v]
    /\ unannounced' = unannounced \cup {f}
    /\ clean' = [clean EXCEPT ![f] =
         IF Booted(f) THEN f[1] \in subscribed
         ELSE ~(Working(Main) /\ Current(Main) = f /\ got[Main] # None)]
    /\ UNCHANGED <<subscribed, inbox, workers, commands, faults>>

\* It then publishes the field's name: whoever is subscribed gets it.
Publish(f) ==
    /\ f \in unannounced
    /\ unannounced' = unannounced \ {f}
    /\ \/ /\ inbox' = IF f[1] \in subscribed
                      THEN [inbox EXCEPT ![f[1]] = Append(@, f)] ELSE inbox
          /\ UNCHANGED <<clean, faults>>
       \/ /\ faults < MaxFaults          \* lost on a broken connection
          /\ faults' = faults + 1
          /\ clean' = [g \in Fields |-> clean[g] /\ ~Contains(Updates(f), g)]
          /\ UNCHANGED inbox
    /\ UNCHANGED <<store, subscribed, workers, commands, sets>>

Push(c) ==
    /\ pushes < MaxPushes
    /\ pushes' = pushes + 1
    /\ list' = Append(list, c)
    /\ UNCHANGED <<redis, workers, popped, obeyed, clean, sets, faults>>

\* The nRF52 restarts and knows nothing.  The service stores and acknowledges
\* the reset report (Inbound) and sends nothing again: only what main has not
\* sent yet is certain to reach it.
NrfReset ==
    /\ faults < MaxFaults
    /\ faults' = faults + 1
    /\ nrf' = [k \in DOMAIN nrf |-> None]
    /\ clean' = [f \in Fields |-> clean[f] /\ ~Booted(f)]
    /\ UNCHANGED <<redis, boot, agenda, got, commands, sets>>

-----------------------------------------------------------------------------
(* main.                                                                   *)

\* SubscribeToRedisChannels starts the goroutines and returns at once.
StartSubscribers ==
    /\ boot = NotStarted
    /\ boot' = 0
    /\ UNCHANGED <<redis, agenda, got, nrf, commands, clean, sets, faults>>

\* InitializeNRF52 sends its commands in turn, whether they fail or not; the
\* last restarts advertising.
InitializeNRF52 ==
    /\ boot \in 0..(InitCommands - 1)
    /\ boot' = boot + 1
    /\ agenda' = IF boot' = InitCommands
                 THEN [agenda EXCEPT ![Main] = BootUpdates] ELSE agenda
    /\ UNCHANGED <<redis, got, nrf, commands, clean, sets, faults>>

-----------------------------------------------------------------------------
(* The goroutine of a channel.                                             *)

Subscribe(c) ==
    /\ boot # NotStarted
    /\ c \notin subscribed
    /\ subscribed' = subscribed \cup {c}
    /\ UNCHANGED <<store, unannounced, inbox, workers, commands, clean, sets, faults>>

\* Receive that handles the newest notification and drops the others.
ReceiveNewest(c) ==
    /\ ~Working(c)
    /\ inbox[c] # <<>>
    /\ agenda' = [agenda EXCEPT ![c] = Updates(Last(inbox[c]))]
    /\ inbox' = [inbox EXCEPT ![c] = <<>>]
    /\ UNCHANGED <<store, unannounced, subscribed, boot, got, nrf, commands,
                   clean, sets, faults>>

Receive(c) ==
    /\ ~Working(c)
    /\ inbox[c] # <<>>
    /\ agenda' = [agenda EXCEPT ![c] = Updates(Head(inbox[c]))]
    /\ inbox' = [inbox EXCEPT ![c] = Tail(@)]
    /\ UNCHANGED <<store, unannounced, subscribed, boot, got, nrf, commands,
                   clean, sets, faults>>

-----------------------------------------------------------------------------
(* One update: read the field, then write the UART.                        *)

\* TakeValue that forgets the level of a hibernation.
TakeValueNoLevel(p, v) ==
    /\ got' = [got EXCEPT ![p] = Message(Current(p), v)]
    /\ UNCHANGED agenda

\* Goroutine p has read v for its current field.
TakeValue(p, v) ==
    LET f == Current(p)
    IN  /\ got' = [got EXCEPT ![p] =
             IF f \notin Presence THEN Message(f, v)
             ELSE IF @ = Again THEN PresentText(v)
             ELSE IF v \in DOMAIN Numerals THEN Message(f, v)
             ELSE Again]
        /\ agenda' = IF f = PowerState /\ v = "hibernating-l2"
                     THEN [agenda EXCEPT ![p] = <<f, PowerLevel>> \o Tail(@)]
                     ELSE agenda

Read(p) ==
    /\ Working(p)
    /\ Current(p) # PowerLevel
    /\ got[p] \in {None, Again}
    /\ \/ /\ TakeValue(p, store[Current(p)])
          /\ UNCHANGED <<clean, faults>>
       \/ /\ faults < MaxFaults           \* HGET fails: a default is sent
          /\ faults' = faults + 1
          /\ TakeValue(p, Absent)
          /\ clean' = [clean EXCEPT ![Current(p)] = FALSE]
    /\ UNCHANGED <<redis, boot, nrf, commands, sets>>

Ready(p) == Working(p) /\ (Current(p) = PowerLevel \/ got[p] \notin {None, Again})

\* What is still to send, without the level that comes first.
WithoutLevel(todo) ==
    IF todo # <<>> /\ Head(todo) = PowerLevel THEN Tail(todo) ELSE todo

\* What the nRF52 was sent, after value v of field f.
Sent(f, v) ==
    [k \in DOMAIN nrf |->
        IF k = Key(f) THEN v
        ELSE IF f = PowerState /\ k = Key(PowerLevel) THEN None ELSE nrf[k]]

\* writeUARTMessage.  If it fails the update is given up, and with it the
\* level request that would have followed the power state.
Write(p) ==
    LET f == Current(p)
    IN  /\ Ready(p)
        /\ got' = [got EXCEPT ![p] = None]
        /\ \/ /\ nrf' = Sent(f, IF f = PowerLevel THEN 1 ELSE got[p])
              /\ agenda' = [agenda EXCEPT ![p] = Tail(@)]
              /\ UNCHANGED <<clean, faults>>
           \/ /\ faults < MaxFaults
              /\ faults' = faults + 1
              /\ agenda' = [agenda EXCEPT ![p] = WithoutLevel(Tail(@))]
              /\ clean' = [g \in Fields |->
                   clean[g] /\ g # f /\ (f = PowerLevel => g # PowerState)]
              /\ UNCHANGED nrf
        /\ UNCHANGED <<redis, boot, commands, sets>>

-----------------------------------------------------------------------------
(* The command watcher.                                                    *)

\* BRPop from the wrong end of the list.
BRPopNewest ==
    /\ popped = None
    /\ list # <<>>
    /\ popped' = Last(list)
    /\ list' = Front(list)
    /\ UNCHANGED <<redis, workers, obeyed, pushes, clean, sets, faults>>

\* A command whose reply is lost with the connection is gone from the list.
BRPop ==
    /\ popped = None
    /\ list # <<>>
    /\ list' = Tail(list)
    /\ \/ popped' = Head(list) /\ UNCHANGED faults
       \/ /\ faults < MaxFaults
          /\ faults' = faults + 1
          /\ UNCHANGED popped
    /\ UNCHANGED <<redis, workers, obeyed, pushes, clean, sets>>

\* Forward without the default case: an unknown command is never dropped.
ForwardKnown ==
    /\ popped \in KnownCommands
    /\ popped' = None
    /\ obeyed' = Append(obeyed, popped)
    /\ UNCHANGED <<redis, workers, list, pushes, clean, sets, faults>>

\* The popped command is sent, dropped if unknown, lost if the write fails.
Forward ==
    /\ popped # None
    /\ popped' = None
    /\ \/ /\ popped \in KnownCommands
          /\ obeyed' = Append(obeyed, popped)
          /\ UNCHANGED faults
       \/ /\ popped \notin KnownCommands
          /\ UNCHANGED <<obeyed, faults>>
       \/ /\ popped \in KnownCommands
          /\ faults < MaxFaults
          /\ faults' = faults + 1
          /\ UNCHANGED obeyed
    /\ UNCHANGED <<redis, workers, list, pushes, clean, sets>>

-----------------------------------------------------------------------------
Init ==
    /\ store \in [Fields -> UNION {FieldValues[f] : f \in Fields}]
    /\ \A f \in Fields : store[f] \in FieldValues[f]
    /\ unannounced = {}
    /\ subscribed = {}
    /\ inbox = [c \in Channels |-> <<>>]
    /\ boot = NotStarted
    /\ agenda = [p \in Procs |-> <<>>]
    /\ got = [p \in Procs |-> None]
    /\ nrf = [k \in {Key(f) : f \in Fields \cup {PowerLevel}} |-> None]
    /\ list = <<>> /\ popped = None /\ obeyed = <<>>
    /\ clean = [f \in Fields |-> TRUE]
    /\ sets = 0 /\ pushes = 0 /\ faults = 0

Environment ==
    \/ \E f \in Fields : (\E v \in FieldValues[f] : Set(f, v)) \/ Publish(f)
    \/ \E c \in Commands : Push(c)
    \/ NrfReset

Update(p) == Read(p) \/ Write(p)

Next ==
    \/ Environment
    \/ StartSubscribers \/ InitializeNRF52
    \/ \E c \in Channels : Subscribe(c) \/ Receive(c)
    \/ \E p \in Procs : Update(p)
    \/ BRPop \/ Forward

Spec == Init /\ [][Next]_vars

\* Every goroutine is scheduled and no call blocks for ever; a service that
\* wrote a field publishes it.  Nobody has to write or push anything.
Fairness ==
    /\ WF_vars(StartSubscribers) /\ WF_vars(InitializeNRF52)
    /\ \A c \in Channels : WF_vars(Subscribe(c)) /\ WF_vars(Receive(c))
    /\ \A p \in Procs : WF_vars(Update(p))
    /\ \A f \in Fields : WF_vars(Publish(f))
    /\ WF_vars(BRPop) /\ WF_vars(Forward)

FairSpec == Spec /\ Fairness

-----------------------------------------------------------------------------
(* Properties.                                                             *)

\* Every variable has the values its comment says; what is sent fits the
\* uint16 parameter of writeUARTMessage.
TypeOK ==
    /\ DOMAIN store = Fields /\ \A f \in Fields : store[f] \in FieldValues[f]
    /\ unannounced \subseteq Fields
    /\ subscribed \subseteq Channels
    /\ inbox \in [Channels -> Seq(Fields)]
    /\ boot \in NotStarted..InitCommands
    /\ agenda \in [Procs -> Seq(Fields \cup {PowerLevel})]
    /\ DOMAIN got = Procs
    /\ \A p \in Procs : got[p] \in {None, Again} \/ (Working(p) /\ got[p] \in Carried(Current(p)))
    /\ DOMAIN nrf = {Key(f) : f \in Fields \cup {PowerLevel}}
    /\ \A f \in Fields \cup {PowerLevel} : nrf[Key(f)] = None \/ nrf[Key(f)] \in Carried(f)
    /\ list \in Seq(Commands)
    /\ popped \in Commands \cup {None}
    /\ obeyed \in Seq(KnownCommands)
    /\ clean \in [Fields -> BOOLEAN]
    /\ sets \in 0..MaxSets /\ pushes \in 0..MaxPushes /\ faults \in 0..MaxFaults

\* What the nRF52 should have been told.
Expected(f) == Message(f, store[f])

\* The nRF52's picture is the one in Redis: however reads, writes and
\* notifications of the goroutines interleave, once all is quiet the last
\* value written to a field is the one that was sent last, unless a call
\* failed, a notification was lost, or the write met main's boot update.
MirrorCurrent ==
    \A f \in Fields : Quiet(f) /\ clean[f] => nrf[Key(f)] = Expected(f)

\* A scooter left in hibernating-l2 has had its L2 request sent, the second
\* frame of UpdatePowerManagementState, and no power state after it, whoever
\* else sends one: the frames of two updates of it may mix.
LevelRequested ==
    /\ PowerState \in Fields
    /\ Quiet(PowerState) /\ clean[PowerState]
    /\ ~\E p \in Procs : Contains(agenda[p], PowerLevel)
    /\ store[PowerState] = "hibernating-l2"
    => nrf[Key(PowerLevel)] = 1

\* The command list is a lossy FIFO channel to the nRF52: WatchRedisCommands
\* sends commands in the order they were queued, none twice, none made up.
\* A command is lost if it is unknown or its frame cannot be written.
Link == INSTANCE FrameChannel WITH
    Frames <- Commands,
    queue <- (IF popped = None THEN <<>> ELSE <<popped>>) \o list,
    delivered <- obeyed

CommandsInOrder == Link!Spec

\* A written field reaches the nRF52 without another notification having to
\* come: the subscribers and main never stop on a field half sent.
Converges ==
    \A f \in Fields : <>[](clean[f] => nrf[Key(f)] = Expected(f))

\* The command watcher never leaves a command waiting for ever.
CommandsDrain == []<>(list = <<>> /\ popped = None)

-----------------------------------------------------------------------------
(* What comments of the source say, and the code does not do.              *)

\* "UpdateVehicleState sends the current vehicle state from Redis to nRF52":
\* with no failing call, the nRF52 ends up with the current state.
CurrentStateSent ==
    \A f \in Fields : Quiet(f) /\ faults = 0 => nrf[Key(f)] = Expected(f)

\* "UpdateMileage sends the current mileage from Redis to nRF52": the number
\* the nRF52 gets is the number in Redis.
MileageSent ==
    Quiet(Odometer) /\ clean[Odometer] /\ store[Odometer] # Absent
    => nrf[Key(Odometer)] = Numerals[store[Odometer]]
=============================================================================
