--------------------------- MODULE OutboundProofs ---------------------------
(***************************************************************************)
(* Theorems about the updates of the nRF52, for every set of fields and of *)
(* values they are given, every set of commands, and any number of writes, *)
(* commands and faults.                                                    *)
(***************************************************************************)
EXTENDS Outbound, SequenceTheorems, TLAPS

Updatable == Fields \cup {PowerLevel}

-----------------------------------------------------------------------------
(* What a sequence contains.                                               *)

LEMMA ContainsEmpty == ASSUME NEW x PROVE ~Contains(<<>>, x)
  BY DEF Contains

LEMMA ContainsAppend ==
    ASSUME NEW S, NEW s \in Seq(S), NEW e \in S
    PROVE  /\ Append(s, e) \in Seq(S)
           /\ \A x : Contains(Append(s, e), x) <=> Contains(s, x) \/ x = e
  <1>1. /\ Append(s, e) \in Seq(S) /\ Len(Append(s, e)) = Len(s) + 1 /\ Len(s) \in Nat
        /\ \A i \in 1..Len(s) : Append(s, e)[i] = s[i]
        /\ Append(s, e)[Len(s) + 1] = e
    OBVIOUS
  <1> QED
    BY <1>1 DEF Contains

LEMMA ContainsTail ==
    ASSUME NEW S, NEW s \in Seq(S), s # <<>>
    PROVE  /\ Head(s) \in S /\ Tail(s) \in Seq(S)
           /\ \A x : Contains(s, x) <=> x = Head(s) \/ Contains(Tail(s), x)
  <1>1. /\ Head(s) \in S /\ Head(s) = s[1] /\ Tail(s) \in Seq(S)
        /\ Len(s) \in Nat /\ Len(s) >= 1 /\ Len(Tail(s)) = Len(s) - 1
        /\ \A i \in 1..(Len(s) - 1) : Tail(s)[i] = s[i + 1]
    OBVIOUS
  <1>2. ASSUME NEW x, Contains(s, x), x # s[1] PROVE Contains(Tail(s), x)
    <2>1. PICK i \in 1..Len(s) : s[i] = x
      BY <1>2 DEF Contains
    <2>2. i - 1 \in 1..(Len(s) - 1) /\ s[(i - 1) + 1] = x
      BY <1>1, <1>2, <2>1
    <2> QED
      BY <1>1, <2>2 DEF Contains
  <1>3. ASSUME NEW x, Contains(Tail(s), x) PROVE Contains(s, x)
    <2>1. PICK i \in 1..(Len(s) - 1) : Tail(s)[i] = x
      BY <1>1, <1>3 DEF Contains
    <2>2. i + 1 \in 1..Len(s)
      BY <1>1
    <2> QED
      BY <1>1, <2>1, <2>2 DEF Contains
  <1>4. Contains(s, s[1])
    BY <1>1 DEF Contains
  <1> QED
    BY <1>1, <1>2, <1>3, <1>4

LEMMA ContainsConcat ==
    ASSUME NEW S, NEW s \in Seq(S), NEW t \in Seq(S)
    PROVE  /\ s \o t \in Seq(S)
           /\ \A x : Contains(s \o t, x) <=> Contains(s, x) \/ Contains(t, x)
  <1>1. /\ s \o t \in Seq(S) /\ Len(s \o t) = Len(s) + Len(t)
        /\ Len(s) \in Nat /\ Len(t) \in Nat
        /\ \A i \in 1..(Len(s) + Len(t)) :
             (s \o t)[i] = IF i <= Len(s) THEN s[i] ELSE t[i - Len(s)]
    BY ConcatProperties
  <1>2. ASSUME NEW x, Contains(s \o t, x) PROVE Contains(s, x) \/ Contains(t, x)
    <2>1. PICK i \in 1..(Len(s) + Len(t)) : (s \o t)[i] = x
      BY <1>1, <1>2 DEF Contains
    <2>2. CASE i <= Len(s)
      BY <1>1, <2>1, <2>2 DEF Contains
    <2>3. CASE ~(i <= Len(s))
      <3>1. i - Len(s) \in 1..Len(t) /\ t[i - Len(s)] = x
        BY <1>1, <2>1, <2>3
      <3> QED
        BY <3>1 DEF Contains
    <2> QED
      BY <2>2, <2>3
  <1>3. ASSUME NEW x, Contains(s, x) PROVE Contains(s \o t, x)
    BY <1>1, <1>3 DEF Contains
  <1>4. ASSUME NEW x, Contains(t, x) PROVE Contains(s \o t, x)
    <2>1. PICK i \in 1..Len(t) : t[i] = x
      BY <1>4 DEF Contains
    <2>2. i + Len(s) \in 1..(Len(s) + Len(t)) /\ (s \o t)[i + Len(s)] = x
      BY <1>1, <2>1
    <2> QED
      BY <1>1, <2>2 DEF Contains
  <1> QED
    BY <1>1, <1>2, <1>3, <1>4

LEMMA Joined ==
    ASSUME NEW S, NEW s \in Seq(S), NEW t \in Seq(S)
    PROVE  /\ Len(s \o t) = Len(s) + Len(t) /\ Len(t) \in Nat
           /\ \A i \in 1..(Len(s) + Len(t)) :
                (s \o t)[i] = IF i <= Len(s) THEN s[i] ELSE t[i - Len(s)]
  BY ConcatProperties

-----------------------------------------------------------------------------
(* The updates of a field.                                                 *)

LEMMA OneContains ==
    ASSUME NEW f
    PROVE  One(f) \in Seq(Fields) /\ \A x : Contains(One(f), x) <=> x = f /\ f \in Fields
  <1>1. CASE f \in Fields
    BY <1>1 DEF One, Contains
  <1>2. CASE f \notin Fields
    BY <1>2, ContainsEmpty DEF One
  <1> QED
    BY <1>1, <1>2

\* A notification for a field causes an update of it, and none of another hash.
LEMMA UpdatesContain ==
    ASSUME NEW f \in Fields
    PROVE  /\ Updates(f) \in Seq(Fields) /\ Contains(Updates(f), f)
           /\ \A x : Contains(Updates(f), x) => x \in Fields /\ x[1] = f[1]
  <1>1. CASE f \in Presence
    <2> DEFINE g == <<f[1], "cycle-count">>
    <2>1. Updates(f) = One(f) \o One(g) /\ g[1] = f[1]
      BY <1>1 DEF Updates
    <2> HIDE DEF g
    <2>2. /\ One(f) \in Seq(Fields) /\ \A x : Contains(One(f), x) <=> x = f
          /\ One(g) \in Seq(Fields) /\ \A x : Contains(One(g), x) <=> x = g /\ g \in Fields
      BY OneContains
    <2> DEFINE s == One(f)
               t == One(g)
               u == Updates(f)
    <2>3. s \in Seq(Fields) /\ t \in Seq(Fields) /\ u = s \o t
      BY <2>1, <2>2
    <2> HIDE DEF s, t, u
    <2>4. u \in Seq(Fields) /\ \A x : Contains(u, x) <=> Contains(s, x) \/ Contains(t, x)
      BY <2>3, ContainsConcat
    <2> USE DEF s, t, u
    <2> QED
      BY <2>1, <2>2, <2>4
  <1>2. CASE f \notin Presence
    <2>1. One(f) \in Seq(Fields) /\ <<>> \in Seq(Fields)
      BY OneContains
    <2>2. Updates(f) = One(f) \o <<>>
      BY <1>2 DEF Updates
    <2> QED
      BY <2>1, <2>2, ContainsConcat, ContainsEmpty, OneContains
  <1> QED
    BY <1>1, <1>2

\* s is a sequence of fields, those of F among them.
Covers(s, F) == s \in Seq(Fields) /\ \A f \in F : Contains(s, f)

LEMMA CoversConcat ==
    ASSUME NEW s, NEW t, NEW F, NEW G, Covers(s, F), Covers(t, G)
    PROVE  Covers(s \o t, F \cup G)
  <1>1. /\ s \o t \in Seq(Fields)
        /\ \A x : Contains(s \o t, x) <=> Contains(s, x) \/ Contains(t, x)
    BY ContainsConcat DEF Covers
  <1> QED
    BY <1>1 DEF Covers

LEMMA CoversOne == ASSUME NEW f PROVE Covers(One(f), {f} \cap Fields)
  BY OneContains DEF Covers

LEMMA CoversBattery ==
    ASSUME NEW slot \in 1..2
    PROVE  Covers(BatteryUpdates(slot),
                  {Battery(slot, field) :
                     field \in {"present", "state", "cycle-count", "charge"}} \cap Fields)
  <1> DEFINE a == One(Battery(slot, "present"))
             b == One(Battery(slot, "state"))
             c == One(Battery(slot, "cycle-count"))
             d == One(Battery(slot, "charge"))
             A == {Battery(slot, "present")} \cap Fields
             B == {Battery(slot, "state")} \cap Fields
             C == {Battery(slot, "cycle-count")} \cap Fields
             D == {Battery(slot, "charge")} \cap Fields
  <1>1. Covers(a, A) /\ Covers(b, B) /\ Covers(c, C) /\ Covers(d, D)
    BY CoversOne
  <1>2. BatteryUpdates(slot) = a \o b \o c \o d
    BY DEF BatteryUpdates
  <1>3. {Battery(slot, field) : field \in {"present", "state", "cycle-count", "charge"}}
          \cap Fields = A \cup B \cup C \cup D
    OBVIOUS
  <1> HIDE DEF a, b, c, d, A, B, C, D
  <1>4. Covers(a \o b, A \cup B)
    BY <1>1, CoversConcat
  <1>5. Covers(a \o b \o c, A \cup B \cup C)
    BY <1>1, <1>4, CoversConcat
  <1>6. Covers(a \o b \o c \o d, A \cup B \cup C \cup D)
    BY <1>1, <1>5, CoversConcat
  <1> QED
    BY <1>2, <1>3, <1>6

\* main updates every field.
LEMMA BootCovers == Covers(BootUpdates, Fields)
  <1> DEFINE a == One(VehicleState)
             b == One(SeatboxLock)
             c == One(Handlebar)
             d == One(Odometer)
             e == One(MdbVersion)
             g == BatteryUpdates(1)
             h == BatteryUpdates(2)
             i == One(PowerState)
             A == {VehicleState} \cap Fields
             B == {SeatboxLock} \cap Fields
             C == {Handlebar} \cap Fields
             D == {Odometer} \cap Fields
             E == {MdbVersion} \cap Fields
             Slot(n) == {Battery(n, field) :
                           field \in {"present", "state", "cycle-count", "charge"}}
             G == Slot(1) \cap Fields
             H == Slot(2) \cap Fields
             I == {PowerState} \cap Fields
  <1>1. /\ Covers(a, A) /\ Covers(b, B) /\ Covers(c, C) /\ Covers(d, D)
        /\ Covers(e, E) /\ Covers(g, G) /\ Covers(h, H) /\ Covers(i, I)
    BY CoversOne, CoversBattery
  <1>2. BootUpdates = a \o b \o c \o d \o e \o g \o h \o i
    BY DEF BootUpdates
  <1>3. \A f \in Fields : f \in A \cup B \cup C \cup D \cup E \cup G \cup H \cup I
    BY FieldsAssumption DEF AllFields
  <1> HIDE DEF a, b, c, d, e, g, h, i, A, B, C, D, E, G, H, I
  <1>4. Covers(a \o b, A \cup B)
    BY <1>1, CoversConcat
  <1>5. Covers(a \o b \o c, A \cup B \cup C)
    BY <1>1, <1>4, CoversConcat
  <1>6. Covers(a \o b \o c \o d, A \cup B \cup C \cup D)
    BY <1>1, <1>5, CoversConcat
  <1>7. Covers(a \o b \o c \o d \o e, A \cup B \cup C \cup D \cup E)
    BY <1>1, <1>6, CoversConcat
  <1>8. Covers(a \o b \o c \o d \o e \o g, A \cup B \cup C \cup D \cup E \cup G)
    BY <1>1, <1>7, CoversConcat
  <1>9. Covers(a \o b \o c \o d \o e \o g \o h, A \cup B \cup C \cup D \cup E \cup G \cup H)
    BY <1>1, <1>8, CoversConcat
  <1>10. Covers(BootUpdates, A \cup B \cup C \cup D \cup E \cup G \cup H \cup I)
    BY <1>1, <1>2, <1>9, CoversConcat
  <1> QED
    BY <1>3, <1>10 DEF Covers

-----------------------------------------------------------------------------
(* The keys.                                                               *)

\* The number each field travels under.
LEMMA Keys ==
    /\ Key(VehicleState) = 33 /\ Key(SeatboxLock) = 34 /\ Key(Handlebar) = 35
    /\ Key(Odometer) = 41026 /\ Key(MdbVersion) = 41025
    /\ Key(PowerState) = 2049 /\ Key(PowerLevel) = 2050
    /\ Key(Battery(1, "state")) = 226 /\ Key(Battery(1, "present")) = 227
    /\ Key(Battery(1, "cycle-count")) = 230 /\ Key(Battery(1, "charge")) = 233
    /\ Key(Battery(2, "state")) = 238 /\ Key(Battery(2, "present")) = 239
    /\ Key(Battery(2, "cycle-count")) = 242 /\ Key(Battery(2, "charge")) = 245
  <1> USE DEF Key, Absolute, Type, VehicleState, SeatboxLock, Handlebar, Odometer,
              MdbVersion, PowerState, PowerLevel
  <1>1. /\ Key(VehicleState) = 33 /\ Key(SeatboxLock) = 34 /\ Key(Handlebar) = 35
    BY DEF VehicleStateSub
  <1>2. Key(Odometer) = 41026 /\ Key(MdbVersion) = 41025
    BY DEF ScooterInfo
  <1>3. Key(PowerState) = 2049 /\ Key(PowerLevel) = 2050
    BY DEF PowerManagement
  <1>4. /\ Key(Battery(1, "state")) = 226 /\ Key(Battery(1, "present")) = 227
        /\ Key(Battery(1, "cycle-count")) = 230 /\ Key(Battery(1, "charge")) = 233
    BY DEF Battery, BatteryKey, BatterySlot
  <1>5. /\ Key(Battery(2, "state")) = 238 /\ Key(Battery(2, "present")) = 239
        /\ Key(Battery(2, "cycle-count")) = 242 /\ Key(Battery(2, "charge")) = 245
    BY DEF Battery, BatteryKey, BatterySlot
  <1> HIDE DEF Key, VehicleState, SeatboxLock, Handlebar, Odometer, MdbVersion,
               PowerState, PowerLevel
  <1> QED
    BY <1>1, <1>2, <1>3, <1>4, <1>5

\* No two fields share a key, so none overwrites another at the nRF52.
LEMMA KeysDiffer ==
    ASSUME NEW f \in AllFields \cup {PowerLevel}, NEW g \in AllFields \cup {PowerLevel},
           Key(f) = Key(g)
    PROVE  f = g
  <1> DEFINE one == {VehicleState, SeatboxLock, Handlebar, Odometer, MdbVersion,
                     PowerState, PowerLevel}
             two(slot) == {Battery(slot, "state"), Battery(slot, "present"),
                           Battery(slot, "cycle-count"), Battery(slot, "charge")}
  <1>1. ASSUME NEW h \in AllFields \cup {PowerLevel}
        PROVE  h \in one \/ h \in two(1) \/ h \in two(2)
    BY <1>1 DEF AllFields
  <1>2. \A h \in one : Key(h) \in {33, 34, 35, 41026, 41025, 2049, 2050}
    BY Keys
  <1>3. \A h \in two(1) : Key(h) \in {226, 227, 230, 233}
    BY Keys
  <1>4. \A h \in two(2) : Key(h) \in {238, 239, 242, 245}
    BY Keys
  <1>5. ASSUME f \in one, g \in one PROVE f = g
    BY <1>5, Keys
  <1>6. ASSUME f \in two(1), g \in two(1) PROVE f = g
    BY <1>6, Keys
  <1>7. ASSUME f \in two(2), g \in two(2) PROVE f = g
    BY <1>7, Keys
  <1> HIDE DEF one, two
  <1>8. (f \in one \/ f \in two(1) \/ f \in two(2)) /\ (g \in one \/ g \in two(1) \/ g \in two(2))
    BY <1>1
  <1>9. CASE f \in one
    <2>1. Key(g) \in {33, 34, 35, 41026, 41025, 2049, 2050}
      BY <1>2, <1>9
    <2>2. g \notin two(1) /\ g \notin two(2)
      BY <1>3, <1>4, <2>1
    <2> QED
      BY <1>5, <1>8, <1>9, <2>2
  <1>10. CASE f \in two(1)
    <2>1. Key(g) \in {226, 227, 230, 233}
      BY <1>3, <1>10
    <2>2. g \notin one /\ g \notin two(2)
      BY <1>2, <1>4, <2>1
    <2> QED
      BY <1>6, <1>8, <1>10, <2>2
  <1>11. CASE f \in two(2)
    <2>1. Key(g) \in {238, 239, 242, 245}
      BY <1>4, <1>11
    <2>2. g \notin one /\ g \notin two(1)
      BY <1>2, <1>3, <2>1
    <2> QED
      BY <1>7, <1>8, <1>11, <2>2
  <1> QED
    BY <1>8, <1>9, <1>10, <1>11

-----------------------------------------------------------------------------
(* What is sent for a value.                                               *)

LEMMA Numeric ==
    ASSUME NEW v
    PROVE  /\ GetInt(v) \in Int /\ GetStateInt(v) \in Int
           /\ HandlebarInt(v) \in Number /\ batteryStateToInt(v) \in Number
           /\ PresentText(v) \in Number /\ PowerInt(v) \in Number
           /\ \A n \in Int : Uint16(n) \in Number
  <1>1. GetInt(v) \in Int
    BY NumeralsAssumption DEF GetInt
  <1>2. GetStateInt(v) \in Int
    BY <1>1 DEF GetStateInt
  <1>3. batteryStateToInt(v) \in Number
    BY DEF batteryStateToInt, Number
  <1>4. PowerInt(v) \in Number
    BY DEF PowerInt, Number
  <1>5. HandlebarInt(v) \in Number /\ PresentText(v) \in Number
    BY DEF HandlebarInt, PresentText, Number
  <1>6. \A n \in Int : Uint16(n) \in Number
    BY DEF Uint16, Number
  <1> QED
    BY <1>1, <1>2, <1>3, <1>4, <1>5, <1>6

\* A message carries 16 bits, or the version.
LEMMA MessageCarried ==
    ASSUME NEW f \in Fields, NEW v \in FieldValues[f] \cup {Absent}
    PROVE  Message(f, v) \in Carried(f)
  <1>1. CASE f = MdbVersion
    <2>1. Message(f, v) = IF v = Absent THEN "" ELSE v
      BY <1>1 DEF Message, MdbVersion, VehicleState, SeatboxLock, Handlebar, PowerState,
                  Presence, Battery
    <2>2. CASE v = Absent
      BY <1>1, <2>1, <2>2 DEF Carried, Versions
    <2>3. CASE v # Absent
      <3>1. f \in Fields \cap {MdbVersion} /\ v \in FieldValues[f] \ {Absent}
        BY <1>1, <2>3
      <3>2. v \in UNION {FieldValues[g] \ {Absent} : g \in Fields \cap {MdbVersion}}
        BY <3>1
      <3> QED
        BY <1>1, <2>1, <2>3, <3>2 DEF Carried, Versions
    <2> QED
      BY <2>2, <2>3
  <1>2. CASE f # MdbVersion
    <2>1. \/ Message(f, v) = Uint16(GetStateInt(v)) \/ Message(f, v) = HandlebarInt(v)
          \/ Message(f, v) = PowerInt(v) \/ Message(f, v) = Uint16(GetInt(v))
          \/ Message(f, v) = PresentText(v) \/ Message(f, v) = batteryStateToInt(v)
      BY <1>2 DEF Message
    <2> QED
      BY <1>2, <2>1, Numeric DEF Carried
  <1> QED
    BY <1>1, <1>2

\* The second reading of a presence comes to the same as the first would.
LEMMA PresenceTwice ==
    ASSUME NEW f \in Presence, NEW v
    PROVE  /\ v \notin DOMAIN Numerals => Message(f, v) = PresentText(v)
           /\ f # MdbVersion /\ f # PowerState
  <1>1. f \notin {VehicleState, SeatboxLock, Handlebar, MdbVersion, PowerState}
    BY DEF Presence, Battery, VehicleState, SeatboxLock, Handlebar, MdbVersion, PowerState
  <1>2. f \notin {Battery(slot, "state") : slot \in 1..2}
    BY DEF Presence, Battery
  <1> QED
    BY <1>1, <1>2 DEF Message

-----------------------------------------------------------------------------
(* Names.                                                                  *)

LEMMA Names ==
    /\ Main \notin Channels
    /\ PowerLevel \notin Fields
    /\ PowerLevel[1] = PowerState[1] /\ PowerLevel # PowerState
    /\ PowerLevel # MdbVersion /\ PowerState # MdbVersion
    /\ \A f \in Fields : f[1] \in Channels
  <1>1. \A f \in AllFields : f[1] # "main" /\ f # PowerLevel
    <2>1. \A slot \in 1..2 : \A field :
            Battery(slot, field)[1] # "main" /\ Battery(slot, field) # PowerLevel
      BY DEF Battery, PowerLevel
    <2>2. \A f \in {VehicleState, SeatboxLock, Handlebar, Odometer, MdbVersion, PowerState} :
            f[1] # "main" /\ f # PowerLevel
      BY DEF VehicleState, SeatboxLock, Handlebar, Odometer, MdbVersion, PowerState, PowerLevel
    <2> QED
      BY <2>1, <2>2 DEF AllFields
  <1>2. /\ PowerLevel[1] = PowerState[1] /\ PowerLevel # PowerState
        /\ PowerLevel # MdbVersion /\ PowerState # MdbVersion
    BY DEF PowerLevel, PowerState, MdbVersion
  <1> QED
    BY <1>1, <1>2, FieldsAssumption DEF Channels, Main

-----------------------------------------------------------------------------
(* The invariant.                                                          *)

\* p has read its current field f.
Holds(p, f) == Working(p) /\ Current(p) = f /\ got[p] # None

\* Redis has f in the one state that takes a second frame.
LevelDue(f) == f = PowerState /\ store[f] = "hibernating-l2"

\* What p has read for f is still what Redis says.
Fresh(p, f) ==
    \/ /\ got[p] = Expected(f)
       /\ LevelDue(f) => Contains(agenda[p], PowerLevel)
    \/ got[p] = Again /\ f \in Presence /\ store[f] \notin DOMAIN Numerals

\* main is still to read f.
MainToRead(f) ==
    boot # InitCommands \/ (Contains(agenda[Main], f) /\ ~Holds(Main, f))

\* A notification is under way that makes the channel's goroutine read f.
Pending(f) ==
    /\ f[1] \in subscribed
    /\ \E g \in Fields :
         /\ g \in unannounced \/ Contains(inbox[f[1]], g)
         /\ Contains(Updates(g), f)

\* The nRF52 has what Redis says of f.
Known(f) ==
    /\ nrf[Key(f)] = Expected(f)
    /\ LevelDue(f) => \/ nrf[Key(PowerLevel)] = 1
                      \/ \E p \in Procs : Contains(agenda[p], PowerLevel)

\* While the last write to f is one that must arrive: main holds nothing stale
\* for f, a channel's goroutine only if it is going to read f again, and unless
\* somebody is still to send f, the nRF52 has it.
FieldInv(f) ==
    clean[f] =>
        /\ Holds(Main, f) => Fresh(Main, f)
        /\ \A c \in Channels : Holds(c, f) => Fresh(c, f) \/ Pending(f)
        /\ \/ MainToRead(f) \/ Holds(Main, f) \/ Pending(f)
           \/ \E c \in Channels : Contains(agenda[c], f)
           \/ Known(f)

\* A goroutine without work has read nothing, only a presence is read twice,
\* and none has work before its channel is subscribed or main is through with
\* the initialisation.
Idle ==
    /\ \A p \in Procs : ~Working(p) => got[p] = None
    /\ \A p \in Procs : got[p] = Again => Current(p) \in Presence
    /\ boot # InitCommands => agenda[Main] = <<>>
    /\ \A c \in Channels : c \notin subscribed => inbox[c] = <<>> /\ agenda[c] = <<>>

\* A channel's goroutine is told of the fields of its hash only.
OwnFields ==
    \A c \in Channels :
        /\ \A g \in Fields : Contains(inbox[c], g) => g[1] = c
        /\ \A f \in Updatable : Contains(agenda[c], f) => f[1] = c

\* The level comes right behind the power state it was read with.
Levels ==
    \A p \in Procs : \A i \in 1..Len(agenda[p]) :
        agenda[p][i] = PowerLevel =>
            \/ i = 1 /\ got[p] = None
            \/ i = 2 /\ Current(p) = PowerState /\ got[p] # None

IInv ==
    TypeOK /\ Idle /\ OwnFields /\ Levels /\ \A f \in Fields : FieldInv(f)

-----------------------------------------------------------------------------
LEMMA InitIInv == Init => IInv
  <1> SUFFICES ASSUME Init PROVE IInv
    OBVIOUS
  <1>1. TypeOK
    <2>1. \A S : <<>> \in Seq(S)
      OBVIOUS
    <2> QED
      BY <2>1, BoundsAssumption DEF Init, TypeOK, NotStarted, InitCommands
  <1>2. Idle
    BY SentinelsAssumption DEF Init, Idle, NotStarted, InitCommands, Procs
  <1>3. OwnFields
    BY ContainsEmpty DEF Init, OwnFields, Procs
  <1>4. Levels
    BY DEF Init, Levels
  <1>5. ASSUME NEW f \in Fields PROVE FieldInv(f)
    BY DEF Init, FieldInv, MainToRead, Holds, NotStarted, InitCommands, Procs
  <1> QED
    BY <1>1, <1>2, <1>3, <1>4, <1>5 DEF IInv

\* A write by another service.
LEMMA SetKeeps ==
    ASSUME IInv, NEW f \in Fields, NEW v \in FieldValues[f], Set(f, v)
    PROVE  IInv'
  <1>1. TypeOK /\ Idle /\ OwnFields /\ Levels /\ \A g \in Fields : FieldInv(g)
    BY DEF IInv
  <1>2. /\ store' = [store EXCEPT ![f] = v]
        /\ unannounced' = unannounced \cup {f}
        /\ clean' = [clean EXCEPT ![f] =
             IF Booted(f) THEN f[1] \in subscribed
             ELSE ~(Working(Main) /\ Current(Main) = f /\ got[Main] # None)]
        /\ sets < MaxSets /\ sets' = sets + 1
        /\ UNCHANGED <<subscribed, inbox, boot, agenda, got, nrf, list, popped, obeyed,
                       pushes, faults>>
    BY DEF Set, workers, commands
  <1>3. TypeOK'
    <2> DEFINE b == IF Booted(f) THEN f[1] \in subscribed
                    ELSE ~(Working(Main) /\ Current(Main) = f /\ got[Main] # None)
    <2>1. clean' \in [Fields -> BOOLEAN]
      <3>1. b \in BOOLEAN
        <4>1. CASE Booted(f)
          BY <4>1
        <4>2. CASE ~Booted(f)
          BY <4>2
        <4> QED
          BY <4>1, <4>2
      <3>2. clean \in [Fields -> BOOLEAN] /\ clean' = [clean EXCEPT ![f] = b]
        BY <1>1, <1>2 DEF TypeOK
      <3> HIDE DEF b
      <3> QED
        BY <3>1, <3>2
    <2>2. sets' \in 0..MaxSets
      BY <1>1, <1>2, BoundsAssumption DEF TypeOK
    <2> QED
      BY <1>1, <1>2, <2>1, <2>2 DEF TypeOK, Working, Current
  <1>4. Idle' /\ OwnFields' /\ Levels'
    BY <1>1, <1>2 DEF Idle, OwnFields, Levels, Working, Current
  <1>5. ASSUME NEW g \in Fields, Pending(g) PROVE Pending(g)'
    BY <1>2, <1>5 DEF Pending
  <1>6. ASSUME NEW g \in Fields, g # f PROVE FieldInv(g)'
    <2>1. clean'[g] = clean[g] /\ store'[g] = store[g]
      BY <1>1, <1>2, <1>6 DEF TypeOK
    <2> QED
      BY <1>1, <1>2, <1>5, <2>1
        DEF FieldInv, Holds, Fresh, MainToRead, Known, Expected, LevelDue, Working, Current
  <1>7. FieldInv(f)'
    <2> SUFFICES ASSUME clean'[f] PROVE FieldInv(f)'
      BY DEF FieldInv
    <2>1. IF Booted(f) THEN f[1] \in subscribed ELSE ~Holds(Main, f)
      BY <1>1, <1>2 DEF TypeOK, Holds
    <2>2. ~Holds(Main, f)
      <3>1. CASE Booted(f)
        BY <1>1, <3>1 DEF Booted, Holds, Working, Current, TypeOK, Contains, Procs
      <3> QED
        BY <2>1, <3>1
    <2>3. f[1] \in subscribed => Pending(f)'
      BY <1>2, UpdatesContain DEF Pending
    <2>4. ASSUME NEW c \in Channels, Holds(c, f)' PROVE Pending(f)'
      <3>1. Working(c) /\ Current(c) = f
        BY <1>2, <2>4 DEF Holds, Working, Current
      <3>2. c \in subscribed
        BY <1>1, <3>1 DEF Idle, Working
      <3>3. Contains(agenda[c], f)
        BY <1>1, <3>1, ContainsTail DEF TypeOK, Working, Current, Procs
      <3>4. f[1] = c
        BY <1>1, <3>3 DEF OwnFields, Updatable
      <3> QED
        BY <2>3, <3>2, <3>4
    <2>5. MainToRead(f)' \/ Pending(f)'
      <3>1. CASE Booted(f)
        BY <2>1, <2>3, <3>1
      <3>2. CASE ~Booted(f)
        BY <1>2, <2>2, <3>2 DEF MainToRead, Booted, Holds, Working, Current
      <3> QED
        BY <3>1, <3>2
    <2>6. ~Holds(Main, f)'
      BY <1>2, <2>2 DEF Holds, Working, Current
    <2> QED
      BY <2>4, <2>5, <2>6 DEF FieldInv
  <1> QED
    BY <1>3, <1>4, <1>6, <1>7 DEF IInv

\* A notification, delivered or lost.
LEMMA PublishKeeps ==
    ASSUME IInv, NEW f \in Fields, Publish(f)
    PROVE  IInv'
  <1>1. TypeOK /\ Idle /\ OwnFields /\ Levels /\ \A g \in Fields : FieldInv(g)
    BY DEF IInv
  <1>2. /\ f \in unannounced /\ unannounced' = unannounced \ {f}
        /\ UNCHANGED <<store, subscribed, boot, agenda, got, nrf, list, popped, obeyed,
                       pushes, sets>>
    BY DEF Publish, workers, commands
  <1>3. Levels'
    BY <1>1, <1>2 DEF Levels, Current
  <1>4. f[1] \in Channels
    BY Names
  <1>5. CASE /\ inbox' = IF f[1] \in subscribed
                         THEN [inbox EXCEPT ![f[1]] = Append(@, f)] ELSE inbox
             /\ UNCHANGED <<clean, faults>>
    <2>1. inbox[f[1]] \in Seq(Fields)
      BY <1>1, <1>4 DEF TypeOK
    <2>2. /\ Append(inbox[f[1]], f) \in Seq(Fields)
          /\ \A x : Contains(Append(inbox[f[1]], f), x) <=> Contains(inbox[f[1]], x) \/ x = f
      BY <2>1, ContainsAppend
    <2>3. inbox' \in [Channels -> Seq(Fields)]
      BY <1>1, <1>4, <1>5, <2>2 DEF TypeOK
    <2>4. \A c \in Channels :
            /\ c \notin subscribed => inbox'[c] = inbox[c]
            /\ \A x : Contains(inbox'[c], x) => Contains(inbox[c], x) \/ (c = f[1] /\ x = f)
            /\ \A x : Contains(inbox[c], x) => Contains(inbox'[c], x)
            /\ c = f[1] /\ c \in subscribed => Contains(inbox'[c], f)
      BY <1>1, <1>4, <1>5, <2>2 DEF TypeOK
    <2>5. TypeOK'
      BY <1>1, <1>2, <1>5, <2>3 DEF TypeOK, Working, Current
    <2>6. Idle' /\ OwnFields'
      BY <1>1, <1>2, <2>4 DEF Idle, OwnFields, Working, Current
    <2>7. ASSUME NEW g \in Fields, Pending(g) PROVE Pending(g)'
      <3>1. PICK h \in Fields : /\ h \in unannounced \/ Contains(inbox[g[1]], h)
                                /\ Contains(Updates(h), g)
        BY <2>7 DEF Pending
      <3>2. h[1] = g[1] /\ g[1] \in subscribed /\ g[1] \in Channels
        BY <2>7, <3>1, UpdatesContain, Names DEF Pending
      <3>3. h \in unannounced' \/ Contains(inbox'[g[1]], h)
        BY <1>2, <2>4, <3>1, <3>2
      <3> QED
        BY <1>2, <3>1, <3>2, <3>3 DEF Pending
    <2>8. ASSUME NEW g \in Fields PROVE FieldInv(g)'
      BY <1>1, <1>2, <1>5, <2>7
        DEF FieldInv, Holds, Fresh, MainToRead, Known, Expected, LevelDue, Working, Current
    <2> QED
      BY <1>3, <2>5, <2>6, <2>8 DEF IInv
  <1>6. CASE /\ faults < MaxFaults /\ faults' = faults + 1
             /\ clean' = [g \in Fields |-> clean[g] /\ ~Contains(Updates(f), g)]
             /\ UNCHANGED inbox
    <2>1. clean' \in [Fields -> BOOLEAN]
      BY <1>6
    <2>2. faults' \in 0..MaxFaults
      BY <1>1, <1>6, BoundsAssumption DEF TypeOK
    <2>3. TypeOK'
      BY <1>1, <1>2, <1>6, <2>1, <2>2 DEF TypeOK, Working, Current
    <2>4. Idle' /\ OwnFields'
      BY <1>1, <1>2, <1>6 DEF Idle, OwnFields, Working, Current
    <2>5. ASSUME NEW g \in Fields PROVE FieldInv(g)'
      <3> SUFFICES ASSUME clean'[g] PROVE FieldInv(g)'
        BY DEF FieldInv
      <3>1. clean[g] /\ ~Contains(Updates(f), g)
        BY <1>6
      <3>2. Pending(g) => Pending(g)'
        BY <1>2, <1>6, <3>1 DEF Pending
      <3> QED
        BY <1>1, <1>2, <1>6, <3>1, <3>2
          DEF FieldInv, Holds, Fresh, MainToRead, Known, Expected, LevelDue, Working, Current
    <2> QED
      BY <1>3, <2>3, <2>4, <2>5 DEF IInv
  <1> QED
    BY <1>5, <1>6 DEF Publish

\* The command list and the watcher have nothing to do with the fields.
LEMMA CommandsKeep ==
    ASSUME IInv, BRPop \/ Forward \/ \E c \in Commands : Push(c)
    PROVE  IInv'
  <1>1. TypeOK /\ Idle /\ OwnFields /\ Levels /\ \A g \in Fields : FieldInv(g)
    BY DEF IInv
  <1>2. UNCHANGED <<store, unannounced, subscribed, inbox, boot, agenda, got, nrf, clean, sets>>
    BY DEF BRPop, Forward, Push, redis, workers
  <1>3. /\ list' \in Seq(Commands) /\ popped' \in Commands \cup {None}
        /\ obeyed' \in Seq(KnownCommands) /\ pushes' \in 0..MaxPushes
        /\ faults' \in 0..MaxFaults
    <2>1. /\ list \in Seq(Commands) /\ popped \in Commands \cup {None}
          /\ obeyed \in Seq(KnownCommands) /\ pushes \in 0..MaxPushes
          /\ faults \in 0..MaxFaults
      BY <1>1 DEF TypeOK
    <2>2. CASE BRPop
      <3>1. list # <<>> /\ list' = Tail(list) /\ UNCHANGED <<obeyed, pushes>>
        BY <2>2 DEF BRPop
      <3>2. list' \in Seq(Commands) /\ Head(list) \in Commands
        BY <2>1, <3>1
      <3>3. (popped' = Head(list) \/ popped' = popped) /\ faults' \in 0..MaxFaults
        BY <2>1, <2>2, BoundsAssumption DEF BRPop
      <3> QED
        BY <2>1, <3>1, <3>2, <3>3
    <2>3. CASE Forward
      <3>1. popped' = None /\ list' = list /\ pushes' = pushes
        BY <2>3 DEF Forward
      <3>2. faults' \in 0..MaxFaults
        BY <2>1, <2>3, BoundsAssumption DEF Forward
      <3>3. obeyed' = obeyed \/ (popped \in KnownCommands /\ obeyed' = Append(obeyed, popped))
        BY <2>3 DEF Forward
      <3>4. obeyed' \in Seq(KnownCommands)
        BY <2>1, <3>3
      <3> QED
        BY <2>1, <3>1, <3>2, <3>4
    <2>4. CASE \E c \in Commands : Push(c)
      <3>1. PICK c \in Commands : Push(c)
        BY <2>4
      <3>2. /\ list' = Append(list, c) /\ pushes < MaxPushes /\ pushes' = pushes + 1
            /\ UNCHANGED <<popped, obeyed, faults>>
        BY <3>1 DEF Push
      <3>3. list' \in Seq(Commands)
        BY <2>1, <3>2
      <3>4. pushes' \in 0..MaxPushes
        BY <2>1, <3>2, BoundsAssumption
      <3> QED
        BY <2>1, <3>2, <3>3, <3>4
    <2> QED
      BY <2>2, <2>3, <2>4
  <1>4. TypeOK'
    BY <1>1, <1>2, <1>3 DEF TypeOK, Working, Current
  <1>5. Idle' /\ OwnFields' /\ Levels'
    BY <1>1, <1>2 DEF Idle, OwnFields, Levels, Working, Current
  <1>6. ASSUME NEW g \in Fields PROVE FieldInv(g)'
    BY <1>1, <1>2 DEF FieldInv, Holds, Fresh, Pending, MainToRead, Known, Expected, LevelDue,
                      Working, Current
  <1> QED
    BY <1>4, <1>5, <1>6 DEF IInv

\* A restart of the nRF52.
LEMMA NrfResetKeeps == ASSUME IInv, NrfReset PROVE IInv'
  <1>1. TypeOK /\ Idle /\ OwnFields /\ Levels /\ \A g \in Fields : FieldInv(g)
    BY DEF IInv
  <1>2. /\ faults < MaxFaults /\ faults' = faults + 1
        /\ nrf' = [k \in DOMAIN nrf |-> None]
        /\ clean' = [f \in Fields |-> clean[f] /\ ~Booted(f)]
        /\ UNCHANGED <<store, unannounced, subscribed, inbox, boot, agenda, got, list, popped,
                       obeyed, pushes, sets>>
    BY DEF NrfReset, redis, commands
  <1>3. TypeOK'
    <2>1. clean' \in [Fields -> BOOLEAN] /\ faults' \in 0..MaxFaults
      BY <1>1, <1>2, BoundsAssumption DEF TypeOK
    <2>2. /\ DOMAIN nrf' = {Key(f) : f \in Fields \cup {PowerLevel}}
          /\ \A f \in Fields \cup {PowerLevel} : nrf'[Key(f)] = None
      BY <1>1, <1>2 DEF TypeOK
    <2> QED
      BY <1>1, <1>2, <2>1, <2>2 DEF TypeOK, Working, Current
  <1>4. Idle' /\ OwnFields' /\ Levels'
    BY <1>1, <1>2 DEF Idle, OwnFields, Levels, Working, Current
  <1>5. ASSUME NEW f \in Fields PROVE FieldInv(f)'
    <2> SUFFICES ASSUME clean'[f] PROVE FieldInv(f)'
      BY DEF FieldInv
    <2>1. clean[f] /\ ~Booted(f)
      BY <1>2
    <2>2. MainToRead(f) \/ Holds(Main, f)
      BY <2>1 DEF Booted, MainToRead
    <2> QED
      BY <1>1, <1>2, <2>1, <2>2 DEF FieldInv, Holds, Fresh, Pending, MainToRead, Expected,
                                    LevelDue, Working, Current
  <1> QED
    BY <1>3, <1>4, <1>5 DEF IInv

\* main starts the subscribers, and passes to its updates after the last
\* command of the initialisation.
LEMMA MainKeeps == ASSUME IInv, StartSubscribers \/ InitializeNRF52 PROVE IInv'
  <1>1. TypeOK /\ Idle /\ OwnFields /\ Levels /\ \A g \in Fields : FieldInv(g)
    BY DEF IInv
  <1>2. /\ boot # InitCommands
        /\ boot' \in NotStarted..InitCommands
        /\ UNCHANGED <<store, unannounced, subscribed, inbox, got, nrf, list, popped, obeyed,
                       pushes, clean, sets, faults>>
    BY DEF StartSubscribers, InitializeNRF52, redis, commands, NotStarted, InitCommands
  <1>3. \/ boot' # InitCommands /\ agenda' = agenda
        \/ boot' = InitCommands /\ agenda' = [agenda EXCEPT ![Main] = BootUpdates]
    BY DEF StartSubscribers, InitializeNRF52, NotStarted, InitCommands
  <1>4. /\ BootUpdates \in Seq(Fields) /\ \A f \in Fields : Contains(BootUpdates, f)
        /\ agenda \in [Procs -> Seq(Updatable)] /\ Main \in Procs
        /\ agenda[Main] = <<>> /\ got[Main] = None
    BY <1>1, <1>2, BootCovers DEF Covers, TypeOK, Idle, Procs, Working, Updatable
  <1>5. /\ agenda' \in [Procs -> Seq(Updatable)]
        /\ \A p \in Procs : p # Main => agenda'[p] = agenda[p]
        /\ boot' # InitCommands => agenda'[Main] = <<>>
        /\ boot' = InitCommands => agenda'[Main] = BootUpdates
    <2>1. BootUpdates \in Seq(Updatable)
      BY <1>4 DEF Updatable
    <2> QED
      BY <1>3, <1>4, <2>1
  <1>6. \A c \in Channels : c \in Procs /\ c # Main
    BY Names DEF Procs
  <1>7. TypeOK'
    <2>1. \A p \in Procs :
            got'[p] \in {None, Again} \/ (Working(p) /\ got[p] \in Carried(Current(p)))'
      BY <1>1, <1>2, <1>4, <1>5 DEF TypeOK, Working, Current
    <2> QED
      BY <1>1, <1>2, <1>5, <2>1 DEF TypeOK, Updatable
  <1>8. Idle' /\ OwnFields'
    BY <1>1, <1>2, <1>4, <1>5, <1>6, SentinelsAssumption DEF Idle, OwnFields, Working, Current
  <1>9. Levels'
    <2> SUFFICES ASSUME NEW p \in Procs, NEW i \in 1..Len(agenda'[p]),
                        agenda'[p][i] = PowerLevel
                 PROVE  \/ i = 1 /\ got'[p] = None
                        \/ i = 2 /\ Current(p)' = PowerState /\ got'[p] # None
      BY DEF Levels
    <2>1. CASE p # Main
      BY <1>1, <1>2, <1>5, <2>1 DEF Levels, Current
    <2>2. CASE p = Main
      BY <1>4, <1>5, <2>2, Names
    <2> QED
      BY <2>1, <2>2
  <1>10. ASSUME NEW f \in Fields PROVE FieldInv(f)'
    <2>1. MainToRead(f)' /\ ~Holds(Main, f)'
      BY <1>2, <1>4, <1>5 DEF MainToRead, Holds
    <2>2. ASSUME clean'[f], NEW c \in Channels, Holds(c, f)' PROVE (Fresh(c, f) \/ Pending(f))'
      <3>1. Holds(c, f) /\ clean[f]
        BY <1>2, <1>5, <1>6, <2>2 DEF Holds, Working, Current
      <3>2. Fresh(c, f) \/ Pending(f)
        BY <1>1, <3>1 DEF FieldInv
      <3> QED
        BY <1>2, <1>5, <1>6, <3>2 DEF Fresh, Pending, Expected, LevelDue
    <2> QED
      BY <2>1, <2>2 DEF FieldInv
  <1> QED
    BY <1>7, <1>8, <1>9, <1>10 DEF IInv

\* A channel is subscribed.
LEMMA SubscribeKeeps == ASSUME IInv, NEW c \in Channels, Subscribe(c) PROVE IInv'
  <1>1. TypeOK /\ Idle /\ OwnFields /\ Levels /\ \A g \in Fields : FieldInv(g)
    BY DEF IInv
  <1>2. /\ subscribed' = subscribed \cup {c}
        /\ UNCHANGED <<store, unannounced, inbox, boot, agenda, got, nrf, list, popped, obeyed,
                       pushes, clean, sets, faults>>
    BY DEF Subscribe, workers, commands
  <1>3. TypeOK'
    BY <1>1, <1>2 DEF TypeOK, Working, Current
  <1>4. Idle' /\ OwnFields' /\ Levels'
    BY <1>1, <1>2 DEF Idle, OwnFields, Levels, Working, Current
  <1>5. ASSUME NEW f \in Fields PROVE FieldInv(f)'
    BY <1>1, <1>2 DEF FieldInv, Holds, Fresh, Pending, MainToRead, Known, Expected, LevelDue,
                      Working, Current
  <1> QED
    BY <1>3, <1>4, <1>5 DEF IInv

\* A goroutine takes its next notification.
LEMMA ReceiveKeeps == ASSUME IInv, NEW c \in Channels, Receive(c) PROVE IInv'
  <1>1. TypeOK /\ Idle /\ OwnFields /\ Levels /\ \A g \in Fields : FieldInv(g)
    BY DEF IInv
  <1> DEFINE h == Head(inbox[c])
  <1>2. /\ agenda[c] = <<>> /\ inbox[c] # <<>>
        /\ agenda' = [agenda EXCEPT ![c] = Updates(h)]
        /\ inbox' = [inbox EXCEPT ![c] = Tail(inbox[c])]
        /\ UNCHANGED <<store, unannounced, subscribed, boot, got, nrf, list, popped, obeyed,
                       pushes, clean, sets, faults>>
    BY DEF Receive, Working, commands
  <1>3. /\ c \in Procs /\ c # Main /\ c \in subscribed
        /\ inbox \in [Channels -> Seq(Fields)] /\ agenda \in [Procs -> Seq(Updatable)]
        /\ got[c] = None
    BY <1>1, <1>2, Names DEF Procs, TypeOK, Idle, Working, Updatable
  <1>4. /\ h \in Fields /\ Tail(inbox[c]) \in Seq(Fields)
        /\ \A x : Contains(inbox[c], x) <=> x = h \/ Contains(Tail(inbox[c]), x)
    BY <1>2, <1>3, ContainsTail
  <1>5. /\ Updates(h) \in Seq(Fields)
        /\ \A x : Contains(Updates(h), x) => x \in Fields /\ x[1] = h[1]
    BY <1>4, UpdatesContain
  <1>6. h[1] = c
    BY <1>1, <1>4 DEF OwnFields
  <1> HIDE DEF h
  <1>7. /\ inbox' \in [Channels -> Seq(Fields)]
        /\ inbox'[c] = Tail(inbox[c])
        /\ \A d \in Channels : d # c => inbox'[d] = inbox[d]
    BY <1>2, <1>3, <1>4
  <1>8. /\ agenda' \in [Procs -> Seq(Updatable)]
        /\ agenda'[c] = Updates(h)
        /\ \A p \in Procs : p # c => agenda'[p] = agenda[p]
    <2>1. Updates(h) \in Seq(Updatable)
      BY <1>5 DEF Updatable
    <2> QED
      BY <1>2, <1>3, <2>1
  <1>9. TypeOK'
    <2>1. \A p \in Procs :
            got'[p] \in {None, Again} \/ (Working(p) /\ got[p] \in Carried(Current(p)))'
      BY <1>1, <1>2, <1>3, <1>8 DEF TypeOK, Working, Current
    <2> QED
      BY <1>1, <1>2, <1>7, <1>8, <2>1 DEF TypeOK, Updatable
  <1>10. Idle'
    BY <1>1, <1>2, <1>3, <1>7, <1>8, SentinelsAssumption DEF Idle, Working, Current, Procs
  <1>11. OwnFields'
    <2>1. ASSUME NEW d \in Channels, NEW g \in Fields, Contains(inbox'[d], g) PROVE g[1] = d
      <3>1. Contains(inbox[d], g)
        BY <1>4, <1>7, <2>1
      <3> QED
        BY <1>1, <3>1 DEF OwnFields
    <2>2. ASSUME NEW d \in Channels, NEW f \in Updatable, Contains(agenda'[d], f) PROVE f[1] = d
      <3>1. CASE d = c
        BY <1>5, <1>6, <1>8, <2>2, <3>1
      <3>2. CASE d # c
        <4>1. Contains(agenda[d], f)
          BY <1>8, <2>2, <3>2 DEF Procs
        <4> QED
          BY <1>1, <4>1 DEF OwnFields
      <3> QED
        BY <3>1, <3>2
    <2> QED
      BY <2>1, <2>2 DEF OwnFields
  <1>12. Levels'
    <2> SUFFICES ASSUME NEW p \in Procs, NEW i \in 1..Len(agenda'[p]),
                        agenda'[p][i] = PowerLevel
                 PROVE  \/ i = 1 /\ got'[p] = None
                        \/ i = 2 /\ Current(p)' = PowerState /\ got'[p] # None
      BY DEF Levels
    <2>1. CASE p # c
      BY <1>1, <1>2, <1>8, <2>1 DEF Levels, Current
    <2>2. CASE p = c
      BY <1>5, <1>8, <2>2, Names
    <2> QED
      BY <2>1, <2>2
  <1>13. ASSUME NEW f \in Fields PROVE FieldInv(f)'
    <2> SUFFICES ASSUME clean'[f] PROVE FieldInv(f)'
      BY DEF FieldInv
    <2>1. clean[f] /\ store'[f] = store[f]
      BY <1>2
    <2>2. Pending(f) => Pending(f)' \/ Contains(agenda'[c], f)
      <3> SUFFICES ASSUME Pending(f) PROVE Pending(f)' \/ Contains(agenda'[c], f)
        OBVIOUS
      <3>1. PICK g \in Fields : /\ g \in unannounced \/ Contains(inbox[f[1]], g)
                                /\ Contains(Updates(g), f)
        BY DEF Pending
      <3>2. f[1] \in Channels /\ f[1] \in subscribed
        BY Names DEF Pending
      <3>3. CASE g \in unannounced \/ Contains(inbox'[f[1]], g)
        BY <1>2, <3>1, <3>2, <3>3 DEF Pending
      <3>4. CASE ~(g \in unannounced \/ Contains(inbox'[f[1]], g))
        <4>1. Contains(inbox[f[1]], g) /\ f[1] = c /\ g = h
          BY <1>4, <1>7, <3>1, <3>2, <3>4
        <4> QED
          BY <1>8, <3>1, <4>1
      <3> QED
        BY <3>3, <3>4
    <2>3. Holds(Main, f)' => Fresh(Main, f)'
      BY <1>1, <1>2, <1>3, <1>8, <2>1
        DEF FieldInv, Holds, Fresh, Expected, LevelDue, Working, Current, Procs
    <2>4. ASSUME NEW d \in Channels, Holds(d, f)' PROVE Fresh(d, f)' \/ Pending(f)'
      <3>1. d # c /\ Holds(d, f)
        BY <1>2, <1>3, <1>8, <2>4 DEF Holds, Working, Current, Procs
      <3>2. Fresh(d, f) \/ Pending(f)
        BY <1>1, <2>1, <3>1 DEF FieldInv
      <3>3. Fresh(d, f) => Fresh(d, f)'
        BY <1>2, <1>8, <2>1, <3>1 DEF Fresh, Expected, LevelDue, Procs
      <3>4. d = f[1]
        <4>1. d \in Procs /\ Contains(agenda[d], f)
          BY <1>3, <3>1, ContainsTail DEF Holds, Working, Current, Procs
        <4> QED
          BY <1>1, <4>1 DEF OwnFields, Updatable
      <3>5. Contains(agenda'[c], f) => f[1] = c
        BY <1>5, <1>6, <1>8
      <3> QED
        BY <2>2, <3>1, <3>2, <3>3, <3>4, <3>5
    <2>5. \/ MainToRead(f) \/ Holds(Main, f) \/ Pending(f)
          \/ \E d \in Channels : Contains(agenda[d], f)
          \/ Known(f)
      BY <1>1, <2>1 DEF FieldInv
    <2>6. (MainToRead(f) => MainToRead(f)') /\ (Holds(Main, f) => Holds(Main, f)')
      BY <1>2, <1>3, <1>8 DEF MainToRead, Holds, Working, Current, Procs
    <2>7. ASSUME NEW d \in Channels, Contains(agenda[d], f) PROVE Contains(agenda'[d], f)
      <3>1. d # c
        BY <1>2, <2>7, ContainsEmpty
      <3> QED
        BY <1>8, <2>7, <3>1 DEF Procs
    <2>8. Known(f) => Known(f)'
      <3>1. \A p \in Procs : Contains(agenda[p], PowerLevel) => Contains(agenda'[p], PowerLevel)
        BY <1>2, <1>8, ContainsEmpty
      <3> QED
        BY <1>2, <2>1, <3>1 DEF Known, Expected, LevelDue
    <2> QED
      BY <2>2, <2>3, <2>4, <2>5, <2>6, <2>7, <2>8 DEF FieldInv
  <1> QED
    BY <1>9, <1>10, <1>11, <1>12, <1>13 DEF IInv

\* A goroutine that is to read has no level to send.
LEMMA NoLevel ==
    ASSUME IInv, NEW p \in Procs, Working(p), Current(p) # PowerLevel,
           Current(p) = PowerState => got[p] = None
    PROVE  ~Contains(agenda[p], PowerLevel)
  <1>1. agenda[p] \in Seq(Updatable) /\ Levels
    BY DEF IInv, TypeOK, Updatable
  <1>2. ASSUME NEW i \in 1..Len(agenda[p]), agenda[p][i] = PowerLevel PROVE FALSE
    <2>1. i # 1
      BY <1>1, <1>2 DEF Working, Current
    <2> QED
      BY <1>1, <1>2, <2>1 DEF Levels
  <1> QED
    BY <1>2 DEF Contains

\* What a goroutine has read, and what it is to send then.
LEMMA Taken ==
    ASSUME IInv, NEW p \in Procs, Working(p), Current(p) # PowerLevel,
           got[p] \in {None, Again},
           NEW v \in FieldValues[Current(p)] \cup {Absent}, TakeValue(p, v)
    PROVE  /\ Current(p) \in Fields
           /\ got' = [got EXCEPT ![p] = got'[p]]
           /\ got'[p] # None
           /\ got'[p] = Again \/ got'[p] \in Carried(Current(p))
           /\ \/ got'[p] = Message(Current(p), v)
              \/ Current(p) \in Presence /\ got[p] = Again /\ got'[p] = PresentText(v)
              \/ Current(p) \in Presence /\ got'[p] = Again /\ v \notin DOMAIN Numerals
           /\ got'[p] = Again => Current(p) \in Presence
           /\ agenda' \in [Procs -> Seq(Updatable)]
           /\ \A q \in Procs : q # p => agenda'[q] = agenda[q]
           /\ agenda'[p] # <<>> /\ Current(p)' = Current(p)
           /\ \A x : x # PowerLevel => (Contains(agenda'[p], x) <=> Contains(agenda[p], x))
           /\ Contains(agenda'[p], PowerLevel)
                <=> Current(p) = PowerState /\ v = "hibernating-l2"
           /\ \A i \in 1..Len(agenda'[p]) :
                agenda'[p][i] = PowerLevel => i = 2 /\ Current(p) = PowerState
  <1> DEFINE f == Current(p)
             rest == Tail(agenda[p])
             new == IF f \notin Presence THEN Message(f, v)
                    ELSE IF got[p] = Again THEN PresentText(v)
                    ELSE IF v \in DOMAIN Numerals THEN Message(f, v)
                    ELSE Again
             due == f = PowerState /\ v = "hibernating-l2"
  <1>1. TypeOK /\ Idle /\ Levels
    BY DEF IInv
  <1>2. /\ agenda[p] \in Seq(Updatable) /\ agenda[p] # <<>> /\ f = Head(agenda[p])
        /\ agenda \in [Procs -> Seq(Updatable)] /\ DOMAIN got = Procs
    BY <1>1 DEF TypeOK, Working, Current, Updatable
  <1>3. /\ f \in Fields /\ rest \in Seq(Updatable)
        /\ \A x : Contains(agenda[p], x) <=> x = f \/ Contains(rest, x)
    BY <1>2, ContainsTail DEF Updatable
  <1>4. got' = [got EXCEPT ![p] = new]
    BY DEF TakeValue
  <1>5. agenda' = IF due THEN [agenda EXCEPT ![p] = <<f, PowerLevel>> \o rest] ELSE agenda
    BY DEF TakeValue
  <1>6. got'[p] = new
    BY <1>2, <1>4
  <1>7. ~Contains(agenda[p], PowerLevel)
    <2>1. f = PowerState => got[p] = None
      BY <1>1, PresenceTwice DEF Idle
    <2> QED
      BY <2>1, NoLevel
  <1>8. /\ Message(f, v) \in Carried(f)
        /\ f \in Presence => PresentText(v) \in Carried(f)
    <2>1. Message(f, v) \in Carried(f)
      BY <1>3, MessageCarried
    <2>2. f \in Presence => PresentText(v) \in Carried(f)
      BY PresenceTwice, Numeric DEF Carried
    <2> QED
      BY <2>1, <2>2
  <1>9. /\ new # None
        /\ new = Again \/ new \in Carried(f)
        /\ new = Again => f \in Presence
        /\ \/ new = Message(f, v)
           \/ f \in Presence /\ got[p] = Again /\ new = PresentText(v)
           \/ f \in Presence /\ new = Again /\ v \notin DOMAIN Numerals
    BY <1>3, <1>8, SentinelsAssumption
  <1>10. CASE ~due
    <2>1. agenda' = agenda
      BY <1>5, <1>10
    <2>2. \A i \in 1..Len(agenda[p]) : agenda[p][i] # PowerLevel
      BY <1>7 DEF Contains
    <2> HIDE DEF new
    <2> QED
      BY <1>2, <1>3, <1>4, <1>6, <1>7, <1>9, <1>10, <2>1, <2>2 DEF Current
  <1>11. CASE due
    <2> DEFINE two == <<f, PowerLevel>>
               todo == two \o rest
    <2>1. two \in Seq(Updatable) /\ Len(two) = 2 /\ two[1] = f /\ two[2] = PowerLevel
      BY <1>3 DEF Updatable
    <2>2. \A x : Contains(two, x) <=> x = f \/ x = PowerLevel
      BY DEF Contains
    <2> HIDE DEF two, rest
    <2>3. /\ todo \in Seq(Updatable)
          /\ \A x : Contains(todo, x) <=> Contains(two, x) \/ Contains(rest, x)
      BY <1>3, <2>1, ContainsConcat
    <2>4. /\ Len(todo) = 2 + Len(rest) /\ Len(rest) \in Nat
          /\ \A i \in 1..(2 + Len(rest)) : todo[i] = IF i <= 2 THEN two[i] ELSE rest[i - 2]
      <3>1. /\ Len(todo) = Len(two) + Len(rest) /\ Len(rest) \in Nat
            /\ \A i \in 1..(Len(two) + Len(rest)) :
                 todo[i] = IF i <= Len(two) THEN two[i] ELSE rest[i - Len(two)]
        BY <1>3, <2>1, Joined
      <3> HIDE DEF todo
      <3> QED
        BY <2>1, <3>1
    <2>5. todo # <<>> /\ Head(todo) = f
      BY <2>1, <2>3, <2>4
    <2>6. ASSUME NEW i \in 1..Len(todo), todo[i] = PowerLevel PROVE i = 2
      <3>1. i <= 2 => i = 2
        BY <2>1, <2>4, <2>6
      <3>2. ASSUME i > 2 PROVE FALSE
        <4>1. i - 2 \in 1..Len(rest) /\ rest[i - 2] = PowerLevel
          BY <2>4, <2>6, <3>2
        <4> QED
          BY <1>3, <1>7, <4>1 DEF Contains
      <3> QED
        BY <2>4, <3>1, <3>2
    <2> HIDE DEF todo
    <2>7. /\ agenda' = [agenda EXCEPT ![p] = todo]
      BY <1>5, <1>11 DEF todo, two
    <2>8. /\ agenda' \in [Procs -> Seq(Updatable)] /\ agenda'[p] = todo
          /\ \A q \in Procs : q # p => agenda'[q] = agenda[q]
      BY <1>2, <2>3, <2>7
    <2>9. Current(p)' = f
      BY <2>5, <2>8 DEF Current
    <2>10. /\ \A x : x # PowerLevel => (Contains(todo, x) <=> Contains(agenda[p], x))
           /\ Contains(todo, PowerLevel)
      BY <1>3, <2>2, <2>3
    <2> HIDE DEF new
    <2> QED
      BY <1>3, <1>4, <1>6, <1>9, <1>11, <2>5, <2>6, <2>8, <2>9, <2>10
  <1> QED
    BY <1>10, <1>11

\* A goroutine reads its field.
LEMMA ReadKeeps == ASSUME IInv, NEW p \in Procs, Read(p) PROVE IInv'
  <1>1. TypeOK /\ Idle /\ OwnFields /\ Levels /\ \A g \in Fields : FieldInv(g)
    BY DEF IInv
  <1>2. /\ Working(p) /\ Current(p) # PowerLevel /\ got[p] \in {None, Again}
        /\ UNCHANGED <<store, unannounced, subscribed, inbox, boot, nrf, list, popped,
                       obeyed, pushes, sets>>
    BY DEF Read, redis, commands
  <1>0. PICK f : f = Current(p)
    OBVIOUS
  <1>3. f \in Fields
    <2>1. agenda[p] \in Seq(Updatable) /\ agenda[p] # <<>>
      BY <1>1, <1>2 DEF TypeOK, Working, Updatable
    <2> QED
      BY <1>0, <1>2, <2>1 DEF Current, Updatable
  <1>4. PICK v \in FieldValues[f] \cup {Absent} :
          /\ TakeValue(p, v)
          /\ \/ v = store[f] /\ UNCHANGED <<clean, faults>>
             \/ /\ faults < MaxFaults /\ faults' = faults + 1
                /\ clean' = [clean EXCEPT ![f] = FALSE]
    BY <1>0, <1>1, <1>3 DEF Read, TypeOK
  <1>5. /\ got' = [got EXCEPT ![p] = got'[p]]
        /\ got'[p] # None
        /\ got'[p] = Again \/ got'[p] \in Carried(f)
        /\ \/ got'[p] = Message(f, v)
           \/ f \in Presence /\ got[p] = Again /\ got'[p] = PresentText(v)
           \/ f \in Presence /\ got'[p] = Again /\ v \notin DOMAIN Numerals
        /\ got'[p] = Again => f \in Presence
        /\ agenda' \in [Procs -> Seq(Updatable)]
        /\ \A q \in Procs : q # p => agenda'[q] = agenda[q]
        /\ agenda'[p] # <<>> /\ Current(p)' = f
        /\ \A x : x # PowerLevel => (Contains(agenda'[p], x) <=> Contains(agenda[p], x))
        /\ Contains(agenda'[p], PowerLevel) <=> f = PowerState /\ v = "hibernating-l2"
        /\ \A i \in 1..Len(agenda'[p]) :
             agenda'[p][i] = PowerLevel => i = 2 /\ f = PowerState
    BY <1>0, <1>2, <1>4, Taken
  <1>6. /\ agenda[p] # <<>> /\ Contains(agenda[p], f)
        /\ ~Contains(agenda[p], PowerLevel)
    <2>1. agenda[p] \in Seq(Updatable) /\ agenda[p] # <<>>
      BY <1>1, <1>2 DEF TypeOK, Working, Updatable
    <2>2. f = PowerState => got[p] = None
      BY <1>0, <1>1, <1>2, PresenceTwice DEF Idle
    <2> QED
      BY <1>0, <1>2, <2>1, <2>2, ContainsTail, NoLevel DEF Current
  <1>7. \A q \in Procs : \A x : Contains(agenda[q], x) => Contains(agenda'[q], x)
    BY <1>5, <1>6
  <1>8. /\ DOMAIN got' = Procs
        /\ \A q \in Procs : q # p => got'[q] = got[q] /\ Current(q)' = Current(q)
    BY <1>1, <1>5 DEF TypeOK, Current
  <1>9. TypeOK'
    <2>1. \A q \in Procs :
            got'[q] \in {None, Again} \/ (Working(q) /\ got[q] \in Carried(Current(q)))'
      BY <1>1, <1>5, <1>8 DEF TypeOK, Working
    <2>2. clean' \in [Fields -> BOOLEAN]
      BY <1>1, <1>4 DEF TypeOK
    <2>3. faults' \in 0..MaxFaults
      BY <1>1, <1>4, BoundsAssumption DEF TypeOK
    <2> QED
      BY <1>1, <1>2, <1>5, <1>8, <2>1, <2>2, <2>3 DEF TypeOK, Updatable
  <1>10. Idle'
    <2>1. \A q \in Procs : ~Working(q)' => got'[q] = None
      BY <1>1, <1>5, <1>8 DEF Idle, Working
    <2>2. ASSUME NEW q \in Procs, got'[q] = Again PROVE Current(q)' \in Presence
      <3>1. CASE q = p
        BY <1>5, <2>2, <3>1
      <3>2. CASE q # p
        BY <1>1, <1>8, <2>2, <3>2 DEF Idle
      <3> QED
        BY <3>1, <3>2
    <2>3. boot' # InitCommands => agenda'[Main] = <<>>
      BY <1>1, <1>2, <1>5, <1>6 DEF Idle, Procs
    <2>4. \A c \in Channels : c \notin subscribed' => inbox'[c] = <<>> /\ agenda'[c] = <<>>
      BY <1>1, <1>2, <1>5, <1>6 DEF Idle, Procs
    <2> QED
      BY <2>1, <2>2, <2>3, <2>4 DEF Idle
  <1>11. OwnFields'
    <2>1. ASSUME NEW c \in Channels, NEW g \in Updatable, Contains(agenda'[c], g)
          PROVE  g[1] = c
      <3>1. CASE Contains(agenda[c], g)
        BY <1>1, <3>1 DEF OwnFields
      <3>2. CASE ~Contains(agenda[c], g)
        <4>1. c = p /\ g = PowerLevel /\ f = PowerState
          BY <1>5, <2>1, <3>2 DEF Procs
        <4>2. f[1] = c
          BY <1>1, <1>3, <1>6, <4>1 DEF OwnFields, Updatable
        <4> QED
          BY <4>1, <4>2, Names
      <3> QED
        BY <3>1, <3>2
    <2> QED
      BY <1>1, <1>2, <2>1 DEF OwnFields
  <1>12. Levels'
    <2> SUFFICES ASSUME NEW q \in Procs, NEW i \in 1..Len(agenda'[q]),
                        agenda'[q][i] = PowerLevel
                 PROVE  \/ i = 1 /\ got'[q] = None
                        \/ i = 2 /\ Current(q)' = PowerState /\ got'[q] # None
      BY DEF Levels
    <2>1. CASE q # p
      BY <1>1, <1>5, <1>8, <2>1 DEF Levels
    <2>2. CASE q = p
      BY <1>5, <2>2
    <2> QED
      BY <2>1, <2>2
  <1>13. ASSUME NEW g \in Fields PROVE FieldInv(g)'
    <2> SUFFICES ASSUME clean'[g] PROVE FieldInv(g)'
      BY DEF FieldInv
    <2>1. clean[g] /\ (g = f => v = store[f])
      BY <1>1, <1>3, <1>4 DEF TypeOK
    <2>2. Pending(g)' <=> Pending(g)
      BY <1>2 DEF Pending
    <2>3. ASSUME NEW q \in Procs, q # p
          PROVE  (Holds(q, g)' <=> Holds(q, g)) /\ (Fresh(q, g) <=> Fresh(q, g)')
      BY <1>2, <1>5, <1>8, <2>3 DEF Holds, Working, Fresh, Expected, LevelDue
    <2>4. Holds(p, g)' <=> g = f
      BY <1>5 DEF Holds, Working
    <2>5. ASSUME g = f
          PROVE  /\ p = Main => Fresh(p, f)'
                 /\ p \in Channels => Fresh(p, f)' \/ Pending(f)
      <3>1. LevelDue(f) => Contains(agenda'[p], PowerLevel)
        BY <1>5, <2>1, <2>5 DEF LevelDue
      <3>2. v = store[f] /\ store' = store
        BY <1>2, <2>1, <2>5
      <3>3. CASE got'[p] = Message(f, v)
        BY <3>1, <3>2, <3>3 DEF Fresh, Expected, LevelDue
      <3>4. CASE f \in Presence /\ got[p] = Again /\ got'[p] = PresentText(v)
        <4>1. Holds(p, f) /\ clean[f]
          BY <1>0, <1>2, <2>1, <2>5, <3>4, SentinelsAssumption DEF Holds
        <4>2. Expected(f) # Again
          BY <1>3, <3>2, MessageCarried, SentinelsAssumption DEF Expected
        <4>3. /\ p = Main => Fresh(p, f)
              /\ p \in Channels => Fresh(p, f) \/ Pending(f)
          BY <1>1, <1>3, <4>1 DEF FieldInv
        <4>4. Fresh(p, f) => v \notin DOMAIN Numerals
          BY <3>2, <3>4, <4>2 DEF Fresh
        <4>5. v \notin DOMAIN Numerals => Message(f, v) = PresentText(v)
          BY <3>4, PresenceTwice
        <4>6. Fresh(p, f) => Fresh(p, f)'
          BY <3>1, <3>2, <3>4, <4>4, <4>5 DEF Fresh, Expected, LevelDue
        <4> QED
          BY <4>3, <4>6
      <3>5. CASE f \in Presence /\ got'[p] = Again /\ v \notin DOMAIN Numerals
        BY <3>2, <3>5 DEF Fresh
      <3> QED
        BY <1>5, <3>3, <3>4, <3>5
    <2>6. Holds(Main, g)' => Fresh(Main, g)'
      <3>1. CASE p = Main
        BY <2>4, <2>5, <3>1
      <3>2. CASE p # Main
        BY <1>1, <2>1, <2>3, <3>2 DEF FieldInv, Procs
      <3> QED
        BY <3>1, <3>2
    <2>7. ASSUME NEW c \in Channels, Holds(c, g)' PROVE Fresh(c, g)' \/ Pending(g)'
      <3>1. CASE p = c
        BY <2>2, <2>4, <2>5, <2>7, <3>1
      <3>2. CASE p # c
        BY <1>1, <2>1, <2>2, <2>3, <2>7, <3>2 DEF FieldInv, Procs
      <3> QED
        BY <3>1, <3>2
    <2>8. \/ MainToRead(g) \/ Holds(Main, g) \/ Pending(g)
          \/ \E c \in Channels : Contains(agenda[c], g)
          \/ Known(g)
      BY <1>1, <2>1 DEF FieldInv
    <2>9. MainToRead(g) => MainToRead(g)' \/ Holds(Main, g)'
      BY <1>2, <1>7 DEF MainToRead, Procs
    <2>10. Holds(Main, g) => Holds(Main, g)'
      <3>1. CASE p = Main
        BY <1>0, <2>4, <3>1 DEF Holds
      <3>2. CASE p # Main
        BY <2>3, <3>2 DEF Procs
      <3> QED
        BY <3>1, <3>2
    <2>11. Known(g) => Known(g)'
      BY <1>2, <1>7 DEF Known, Expected, LevelDue
    <2>12. ASSUME NEW c \in Channels, Contains(agenda[c], g) PROVE Contains(agenda'[c], g)
      BY <1>7, <2>12 DEF Procs
    <2> QED
      BY <2>2, <2>6, <2>7, <2>8, <2>9, <2>10, <2>11, <2>12 DEF FieldInv
  <1> QED
    BY <1>9, <1>10, <1>11, <1>12, <1>13 DEF IInv

\* What is left when the first update has been sent, or given up.
LEMMA Left ==
    ASSUME IInv, NEW p \in Procs, Working(p)
    PROVE  LET rest == Tail(agenda[p])
               kept == WithoutLevel(rest)
           IN  /\ Current(p) \in Updatable
               /\ rest \in Seq(Updatable) /\ kept \in Seq(Updatable)
               /\ \A x : Contains(agenda[p], x) <=> x = Current(p) \/ Contains(rest, x)
               /\ \A x : x # PowerLevel => (Contains(kept, x) <=> Contains(rest, x))
               /\ \A x : Contains(kept, x) => Contains(rest, x)
               /\ \A i \in 1..Len(rest) : rest[i] = PowerLevel => i = 1
               /\ \A i \in 1..Len(kept) : kept[i] # PowerLevel
               /\ Contains(rest, PowerLevel) => Current(p) = PowerState
  <1> DEFINE rest == Tail(agenda[p])
             kept == WithoutLevel(rest)
  <1>1. Levels /\ agenda[p] \in Seq(Updatable) /\ agenda[p] # <<>>
    BY DEF IInv, TypeOK, Updatable, Working
  <1>2. /\ Current(p) \in Updatable /\ rest \in Seq(Updatable)
        /\ \A x : Contains(agenda[p], x) <=> x = Current(p) \/ Contains(rest, x)
    BY <1>1, ContainsTail DEF Current
  <1>3. ASSUME NEW i \in 1..Len(rest), rest[i] = PowerLevel
        PROVE  i = 1 /\ Current(p) = PowerState
    <2>1. i + 1 \in 1..Len(agenda[p]) /\ agenda[p][i + 1] = PowerLevel /\ i \in Nat /\ i >= 1
      BY <1>1, <1>3
    <2> HIDE DEF rest
    <2>2. i + 1 = 2 /\ Current(p) = PowerState
      BY <1>1, <2>1 DEF Levels
    <2> QED
      BY <2>1, <2>2
  <1>4. Contains(rest, PowerLevel) => Current(p) = PowerState
    BY <1>3 DEF Contains
  <1> HIDE DEF rest
  <1>5. CASE rest # <<>> /\ Head(rest) = PowerLevel
    <2>1. kept = Tail(rest)
      BY <1>5 DEF WithoutLevel
    <2>2. /\ kept \in Seq(Updatable)
          /\ \A x : Contains(rest, x) <=> x = PowerLevel \/ Contains(kept, x)
      BY <1>2, <1>5, <2>1, ContainsTail
    <2>3. ASSUME NEW i \in 1..Len(kept) PROVE kept[i] # PowerLevel
      <3>1. i + 1 \in 1..Len(rest) /\ kept[i] = rest[i + 1] /\ i + 1 # 1
        BY <1>2, <1>5, <2>1
      <3> QED
        BY <1>3, <3>1
    <2> QED
      BY <1>2, <1>3, <1>4, <2>2, <2>3 DEF rest
  <1>6. CASE ~(rest # <<>> /\ Head(rest) = PowerLevel)
    <2>1. kept = rest
      BY <1>6 DEF WithoutLevel
    <2>2. ASSUME NEW i \in 1..Len(rest) PROVE rest[i] # PowerLevel
      BY <1>2, <1>3, <1>6, <2>2
    <2> QED
      BY <1>2, <1>3, <1>4, <2>1, <2>2 DEF rest
  <1> QED
    BY <1>5, <1>6

\* A goroutine sends its message, or fails to.
LEMMA WriteKeeps == ASSUME IInv, NEW p \in Procs, Write(p) PROVE IInv'
  <1>0. PICK f : f = Current(p)
    OBVIOUS
  <1> DEFINE rest == Tail(agenda[p])
             kept == WithoutLevel(rest)
             sent == IF f = PowerLevel THEN 1 ELSE got[p]
  <1>1. TypeOK /\ Idle /\ OwnFields /\ Levels /\ \A g \in Fields : FieldInv(g)
    BY DEF IInv
  <1>2. /\ Working(p) /\ (f = PowerLevel \/ got[p] \notin {None, Again})
        /\ got' = [got EXCEPT ![p] = None]
        /\ UNCHANGED <<store, unannounced, subscribed, inbox, boot, list, popped, obeyed,
                       pushes, sets>>
    BY <1>0 DEF Write, Ready, redis, commands
  <1>3. \/ /\ nrf' = Sent(f, sent)
           /\ agenda' = [agenda EXCEPT ![p] = rest]
           /\ UNCHANGED <<clean, faults>>
        \/ /\ faults < MaxFaults /\ faults' = faults + 1
           /\ agenda' = [agenda EXCEPT ![p] = kept]
           /\ clean' = [g \in Fields |-> clean[g] /\ g # f /\ (f = PowerLevel => g # PowerState)]
           /\ nrf' = nrf
    BY <1>0 DEF Write
  <1>4. /\ f \in Updatable
        /\ rest \in Seq(Updatable) /\ kept \in Seq(Updatable)
        /\ \A x : Contains(agenda[p], x) <=> x = f \/ Contains(rest, x)
        /\ \A x : x # PowerLevel => (Contains(kept, x) <=> Contains(rest, x))
        /\ \A x : Contains(kept, x) => Contains(rest, x)
        /\ \A i \in 1..Len(rest) : rest[i] = PowerLevel => i = 1
        /\ \A i \in 1..Len(kept) : kept[i] # PowerLevel
        /\ Contains(rest, PowerLevel) => f = PowerState
    BY <1>0, <1>2, Left
  <1>5. PICK left \in {rest, kept} : agenda' = [agenda EXCEPT ![p] = left]
    BY <1>3
  <1>6. /\ agenda' \in [Procs -> Seq(Updatable)] /\ agenda'[p] = left
        /\ \A q \in Procs : q # p => agenda'[q] = agenda[q]
        /\ \A x : x \notin {f, PowerLevel} =>
             (Contains(agenda[p], x) <=> Contains(agenda'[p], x))
        /\ \A x : Contains(agenda'[p], x) => Contains(agenda[p], x)
    <2>1. agenda \in [Procs -> Seq(Updatable)]
      BY <1>1 DEF TypeOK, Updatable
    <2> HIDE DEF rest, kept
    <2> QED
      BY <1>4, <1>5, <2>1
  <1>7. /\ DOMAIN got' = Procs /\ got'[p] = None
        /\ \A q \in Procs : q # p => got'[q] = got[q]
    BY <1>1, <1>2 DEF TypeOK
  <1>8. /\ \A q \in Procs : q # p => Current(q)' = Current(q)
        /\ Working(p) /\ p \in Procs
    BY <1>2, <1>6 DEF Current
  <1>9. sent \in Carried(f) /\ (f # PowerLevel => f \in Fields /\ Holds(p, f) /\ sent = got[p])
    <2>1. CASE f = PowerLevel
      BY <2>1, Names DEF Carried, Number
    <2>2. CASE f # PowerLevel
      BY <1>0, <1>1, <1>2, <1>4, <2>2 DEF TypeOK, Updatable, Holds
    <2> QED
      BY <2>1, <2>2
  <1> HIDE DEF rest, kept, sent
  <1>10. \/ nrf' = nrf
         \/ /\ DOMAIN nrf' = DOMAIN nrf /\ nrf'[Key(f)] = sent
            /\ \A g \in Updatable : g # f =>
                 nrf'[Key(g)] = IF f = PowerState /\ g = PowerLevel THEN None ELSE nrf[Key(g)]
    <2> SUFFICES ASSUME nrf' = Sent(f, sent)
                 PROVE  /\ DOMAIN nrf' = DOMAIN nrf /\ nrf'[Key(f)] = sent
                        /\ \A g \in Updatable : g # f =>
                             nrf'[Key(g)] = IF f = PowerState /\ g = PowerLevel THEN None
                                            ELSE nrf[Key(g)]
      BY <1>3
    <2>1. \A g \in Updatable : Key(g) \in DOMAIN nrf
      BY <1>1 DEF TypeOK, Updatable
    <2>2. \A g \in Updatable : g # f => Key(g) # Key(f)
      BY <1>4, KeysDiffer, FieldsAssumption DEF Updatable
    <2>3. \A g \in Updatable : Key(g) = Key(PowerLevel) <=> g = PowerLevel
      BY KeysDiffer, FieldsAssumption DEF Updatable
    <2> QED
      BY <1>4, <2>1, <2>2, <2>3 DEF Sent
  <1>11. TypeOK'
    <2>1. \A q \in Procs :
            got'[q] \in {None, Again} \/ (Working(q) /\ got[q] \in Carried(Current(q)))'
      BY <1>1, <1>6, <1>7, <1>8 DEF TypeOK, Working
    <2>2. clean' \in [Fields -> BOOLEAN]
      BY <1>1, <1>3 DEF TypeOK
    <2>3. faults' \in 0..MaxFaults
      BY <1>1, <1>3, BoundsAssumption DEF TypeOK
    <2>4. /\ DOMAIN nrf' = {Key(g) : g \in Fields \cup {PowerLevel}}
          /\ \A g \in Fields \cup {PowerLevel} : nrf'[Key(g)] = None \/ nrf'[Key(g)] \in Carried(g)
      BY <1>1, <1>9, <1>10 DEF TypeOK, Updatable
    <2> QED
      BY <1>1, <1>2, <1>6, <1>7, <2>1, <2>2, <2>3, <2>4 DEF TypeOK, Updatable
  <1>12. Idle'
    <2>1. \A q \in Procs : ~Working(q)' => got'[q] = None
      BY <1>1, <1>6, <1>7 DEF Idle, Working
    <2>2. \A q \in Procs : got'[q] = Again => Current(q)' \in Presence
      BY <1>1, <1>7, <1>8, SentinelsAssumption DEF Idle
    <2>3. boot' # InitCommands => agenda'[Main] = <<>>
      BY <1>1, <1>2, <1>6 DEF Idle, Working, Procs
    <2>4. \A c \in Channels : c \notin subscribed' => inbox'[c] = <<>> /\ agenda'[c] = <<>>
      BY <1>1, <1>2, <1>6 DEF Idle, Working, Procs
    <2> QED
      BY <2>1, <2>2, <2>3, <2>4 DEF Idle
  <1>13. OwnFields'
    <2>1. \A q \in Procs : \A x : Contains(agenda'[q], x) => Contains(agenda[q], x)
      BY <1>6
    <2> QED
      BY <1>1, <1>2, <2>1 DEF OwnFields, Procs
  <1>14. Levels'
    <2> SUFFICES ASSUME NEW q \in Procs, NEW i \in 1..Len(agenda'[q]),
                        agenda'[q][i] = PowerLevel
                 PROVE  \/ i = 1 /\ got'[q] = None
                        \/ i = 2 /\ Current(q)' = PowerState /\ got'[q] # None
      BY DEF Levels
    <2>1. CASE q # p
      BY <1>1, <1>6, <1>7, <1>8, <2>1 DEF Levels
    <2>2. CASE q = p
      BY <1>4, <1>6, <1>7, <2>2
    <2> QED
      BY <2>1, <2>2
  <1>15. ASSUME NEW g \in Fields PROVE FieldInv(g)'
    <2> SUFFICES ASSUME clean'[g] PROVE FieldInv(g)'
      BY DEF FieldInv
    <2>1. clean[g] /\ g # PowerLevel
      BY <1>3, Names
    <2>2. Pending(g)' <=> Pending(g)
      BY <1>2 DEF Pending
    <2>3. ASSUME NEW q \in Procs, Holds(q, g)'
          PROVE  q # p /\ Holds(q, g) /\ (Fresh(q, g) => Fresh(q, g)')
      <3>1. q # p
        BY <1>7, <2>3 DEF Holds
      <3> QED
        BY <1>2, <1>6, <1>7, <1>8, <2>3, <3>1
          DEF Holds, Working, Fresh, Expected, LevelDue
    <2>4. Holds(Main, g)' => Fresh(Main, g)'
      BY <1>1, <2>1, <2>3 DEF FieldInv, Procs
    <2>5. ASSUME NEW c \in Channels, Holds(c, g)' PROVE Fresh(c, g)' \/ Pending(g)'
      BY <1>1, <2>1, <2>2, <2>3, <2>5 DEF FieldInv, Procs
    <2>6. \/ MainToRead(g) \/ Holds(Main, g) \/ Pending(g)
          \/ \E c \in Channels : Contains(agenda[c], g)
          \/ Known(g)
      BY <1>1, <2>1 DEF FieldInv
    <2>7. CASE g = f
      <3>1. nrf' = Sent(f, sent) /\ agenda'[p] = rest
        <4>1. nrf' = Sent(f, sent) /\ agenda' = [agenda EXCEPT ![p] = rest]
          BY <1>3, <2>7
        <4> QED
          BY <1>1, <4>1 DEF TypeOK
      <3>2. Holds(p, f) /\ sent = got[p] /\ nrf'[Key(f)] = sent
        <4>1. Key(f) \in DOMAIN nrf
          BY <1>1, <1>4 DEF TypeOK, Updatable
        <4> QED
          BY <1>9, <2>1, <2>7, <3>1, <4>1 DEF Sent
      <3>3. Fresh(p, f) => Known(f)'
        <4>1. got[p] # Again
          BY <1>2, <2>1, <2>7
        <4>2. Contains(agenda[p], PowerLevel) => Contains(agenda'[p], PowerLevel)
          BY <1>4, <2>1, <2>7, <3>1
        <4> QED
          BY <1>2, <3>2, <4>1, <4>2 DEF Fresh, Known, Expected, LevelDue
      <3>4. Fresh(p, f) \/ Pending(f)
        BY <1>1, <2>1, <2>7, <3>2 DEF FieldInv, Procs
      <3> QED
        BY <2>2, <2>4, <2>5, <2>7, <3>3, <3>4 DEF FieldInv
    <2>8. CASE g # f
      <3>1. \A q \in Procs : Contains(agenda[q], g) <=> Contains(agenda'[q], g)
        BY <1>6, <2>1, <2>8
      <3>2. MainToRead(g) => MainToRead(g)'
        BY <1>2, <2>3, <3>1 DEF MainToRead, Procs
      <3>3. Holds(Main, g) => Holds(Main, g)'
        <4>1. Main = p => ~Holds(Main, g)
          BY <1>0, <2>8 DEF Holds
        <4> QED
          BY <1>6, <1>7, <1>8, <4>1 DEF Holds, Working, Procs
      <3>4. Known(g) => Known(g)'
        <4> SUFFICES ASSUME Known(g) PROVE Known(g)'
          OBVIOUS
        <4>1. nrf'[Key(g)] = Expected(g)'
          BY <1>2, <1>10, <2>1, <2>8 DEF Known, Expected, Updatable
        <4>2. ASSUME LevelDue(g)
              PROVE  \/ nrf'[Key(PowerLevel)] = 1
                     \/ \E q \in Procs : Contains(agenda'[q], PowerLevel)
          <5>1. g = PowerState /\ f # PowerState
            BY <2>8, <4>2 DEF LevelDue
          <5>2. CASE f = PowerLevel
            <6>1. nrf' = Sent(f, sent) /\ sent = 1
              BY <1>3, <5>1, <5>2 DEF sent
            <6>2. Key(f) \in DOMAIN nrf
              BY <1>1, <1>4 DEF TypeOK, Updatable
            <6> QED
              BY <5>2, <6>1, <6>2 DEF Sent
          <5>3. CASE f # PowerLevel
            <6>1. ~Contains(agenda[p], PowerLevel)
              BY <1>4, <5>1, <5>3
            <6>2. nrf'[Key(PowerLevel)] = nrf[Key(PowerLevel)]
              BY <1>10, <5>1, <5>3 DEF Updatable
            <6>3. CASE nrf[Key(PowerLevel)] = 1
              BY <6>2, <6>3
            <6>4. CASE \E q \in Procs : Contains(agenda[q], PowerLevel)
              BY <1>6, <6>1, <6>4
            <6> QED
              BY <4>2, <6>3, <6>4 DEF Known
          <5> QED
            BY <5>2, <5>3
        <4> QED
          BY <1>2, <4>1, <4>2 DEF Known, LevelDue
      <3> QED
        BY <2>2, <2>4, <2>5, <2>6, <3>1, <3>2, <3>3, <3>4 DEF FieldInv, Procs
    <2> QED
      BY <2>7, <2>8
  <1> QED
    BY <1>11, <1>12, <1>13, <1>14, <1>15 DEF IInv

LEMMA NextKeeps == IInv /\ [Next]_vars => IInv'
  <1> SUFFICES ASSUME IInv, [Next]_vars PROVE IInv'
    OBVIOUS
  <1>1. ASSUME NEW f \in Fields, NEW v \in FieldValues[f], Set(f, v) PROVE IInv'
    BY <1>1, SetKeeps
  <1>2. ASSUME NEW f \in Fields, Publish(f) PROVE IInv'
    BY <1>2, PublishKeeps
  <1>3. ASSUME BRPop \/ Forward \/ \E c \in Commands : Push(c) PROVE IInv'
    BY <1>3, CommandsKeep
  <1>4. ASSUME NrfReset PROVE IInv'
    BY <1>4, NrfResetKeeps
  <1>5. ASSUME StartSubscribers \/ InitializeNRF52 PROVE IInv'
    BY <1>5, MainKeeps
  <1>6. ASSUME NEW c \in Channels, Subscribe(c) PROVE IInv'
    BY <1>6, SubscribeKeeps
  <1>7. ASSUME NEW c \in Channels, Receive(c) PROVE IInv'
    BY <1>7, ReceiveKeeps
  <1>8. ASSUME NEW p \in Procs, Read(p) PROVE IInv'
    BY <1>8, ReadKeeps
  <1>9. ASSUME NEW p \in Procs, Write(p) PROVE IInv'
    BY <1>9, WriteKeeps
  <1>10. ASSUME UNCHANGED vars PROVE IInv'
    <2>1. UNCHANGED <<store, unannounced, subscribed, inbox, boot, agenda, got, nrf, list,
                      popped, obeyed, pushes, clean, sets, faults>>
      BY <1>10 DEF vars, redis, workers, commands
    <2>2. TypeOK /\ Idle /\ OwnFields /\ Levels /\ \A g \in Fields : FieldInv(g)
      BY DEF IInv
    <2>3. TypeOK' /\ Idle' /\ OwnFields' /\ Levels'
      BY <2>1, <2>2 DEF TypeOK, Idle, OwnFields, Levels, Working, Current
    <2>4. ASSUME NEW f \in Fields PROVE FieldInv(f)'
      BY <2>1, <2>2 DEF FieldInv, Holds, Fresh, Pending, MainToRead, Known, Expected,
                        LevelDue, Working, Current
    <2> QED
      BY <2>3, <2>4 DEF IInv
  <1> QED
    BY <1>1, <1>2, <1>3, <1>4, <1>5, <1>6, <1>7, <1>8, <1>9, <1>10
      DEF Next, Environment, Update

LEMMA SpecIInv == Spec => []IInv
  BY InitIInv, NextKeeps, PTL DEF Spec

-----------------------------------------------------------------------------
(* The theorems.                                                           *)

\* Every variable keeps its type: in particular no frame of an Update function
\* carries a number wider than 16 bits, whatever the fields are set to.
THEOREM OutboundTypeOK == Spec => []TypeOK
  <1>1. IInv => TypeOK
    BY DEF IInv
  <1> QED
    BY <1>1, SpecIInv, PTL

\* Nothing is under way for a field once it is quiet.
LEMMA QuietKnown == ASSUME IInv, NEW f \in Fields, Quiet(f), clean[f] PROVE Known(f)
  <1>1. f[1] \in Channels /\ Main \in Procs /\ Channels \subseteq Procs
    BY Names DEF Procs
  <1>2. ~MainToRead(f) /\ ~\E c \in Channels : Contains(agenda[c], f)
    BY <1>1 DEF Quiet, MainToRead
  <1>3. ~Holds(Main, f)
    <2>1. agenda[Main] \in Seq(Updatable) /\ ~Contains(agenda[Main], f)
      BY <1>1 DEF IInv, TypeOK, Quiet, Updatable
    <2> QED
      BY <2>1, ContainsTail DEF Holds, Working, Current
  <1>4. ~Pending(f)
    <2>1. \A g : Contains(inbox[f[1]], g) => g \in Range(inbox[f[1]])
      <3>1. inbox[f[1]] \in Seq(Fields)
        BY <1>1 DEF IInv, TypeOK
      <3>2. DOMAIN inbox[f[1]] = 1..Len(inbox[f[1]])
        BY <3>1
      <3> QED
        BY <3>2 DEF Contains, Range
    <2> QED
      BY <2>1 DEF Pending, Quiet
  <1> QED
    BY <1>2, <1>3, <1>4 DEF IInv, FieldInv

\* The nRF52's picture agrees with Redis whenever all is quiet: no
\* interleaving of the reads and writes of main and the channels' goroutines
\* leaves an older value as the last one sent.
THEOREM OutboundMirror == Spec => []MirrorCurrent
  <1>1. IInv => MirrorCurrent
    BY QuietKnown DEF MirrorCurrent, Known
  <1> QED
    BY <1>1, SpecIInv, PTL

\* A scooter left in hibernating-l2 has had its L2 request sent: the second
\* frame of UpdatePowerManagementState is not overtaken for good.
THEOREM OutboundLevel == Spec => []LevelRequested
  <1>1. IInv => LevelRequested
    BY QuietKnown DEF LevelRequested, Known, LevelDue
  <1> QED
    BY <1>1, SpecIInv, PTL

\* The watcher implements the lossy channel of commands: each step maps to a
\* step of it or to none.
THEOREM OutboundCommands == Spec => CommandsInOrder
  <1> DEFINE waiting == (IF popped = None THEN <<>> ELSE <<popped>>) \o list
  <1>1. Init => Link!Init
    <2>1. Init => waiting = <<>> /\ obeyed = <<>>
      BY DEF Init
    <2> QED
      BY <2>1 DEF Link!Init
  <1>2. IInv /\ [Next]_vars => [Link!Next]_<<waiting, obeyed>>
    <2> SUFFICES ASSUME IInv, [Next]_vars PROVE [Link!Next]_<<waiting, obeyed>>
      OBVIOUS
    <2>1. /\ list \in Seq(Commands) /\ popped \in Commands \cup {None}
          /\ obeyed \in Seq(KnownCommands)
      BY DEF IInv, TypeOK
    <2>2. ASSUME NEW c \in Commands, Push(c) PROVE Link!Accept(c)
      <3>1. list' = Append(list, c) /\ popped' = popped /\ obeyed' = obeyed
        BY <2>2 DEF Push
      <3>2. CASE popped = None
        BY <2>1, <3>1, <3>2 DEF Link!Accept
      <3>3. CASE popped # None
        <4>1. <<popped>> \o Append(list, c) = Append(<<popped>> \o list, c)
          BY <2>1, <3>3
        <4> QED
          BY <3>1, <3>3, <4>1 DEF Link!Accept
      <3> QED
        BY <3>2, <3>3
    <2>3. ASSUME BRPop PROVE Link!Lose \/ UNCHANGED <<waiting, obeyed>>
      <3>1. popped = None /\ list # <<>> /\ list' = Tail(list) /\ obeyed' = obeyed
        BY <2>3 DEF BRPop
      <3>2. waiting = list
        BY <2>1, <3>1
      <3>3. Head(list) \in Commands /\ Tail(list) \in Seq(Commands)
            /\ <<Head(list)>> \o Tail(list) = list
        BY <2>1, <3>1
      <3>4. CASE popped' = Head(list)
        <4>1. popped' # None
          BY <3>3, <3>4, SentinelsAssumption
        <4> QED
          BY <3>1, <3>2, <3>3, <3>4, <4>1
      <3>5. CASE popped' = popped
        <4>1. waiting' = Tail(list)
          BY <3>1, <3>3, <3>5
        <4> QED
          BY <3>1, <3>2, <4>1 DEF Link!Lose
      <3> QED
        BY <2>3, <3>4, <3>5 DEF BRPop
    <2>4. ASSUME Forward PROVE Link!HandOver \/ Link!Lose
      <3>1. popped # None /\ popped' = None /\ list' = list
        BY <2>4 DEF Forward
      <3>2. /\ waiting # <<>> /\ Head(waiting) = popped /\ Tail(waiting) = list
            /\ waiting' = list
        BY <2>1, <3>1
      <3>3. obeyed' = Append(obeyed, popped) \/ obeyed' = obeyed
        BY <2>4 DEF Forward
      <3> HIDE DEF waiting
      <3>4. (obeyed' = Append(obeyed, popped)) => Link!HandOver
        BY <3>2 DEF Link!HandOver, waiting
      <3>5. (obeyed' = obeyed) => Link!Lose
        BY <3>2 DEF Link!Lose, waiting
      <3> QED
        BY <3>3, <3>4, <3>5
    <2>5. CASE UNCHANGED <<list, popped, obeyed>>
      BY <2>5
    <2>6. \/ BRPop \/ Forward \/ \E c \in Commands : Push(c)
          \/ UNCHANGED <<list, popped, obeyed>>
      BY DEF Next, Environment, Update, vars, commands, Set, Publish, NrfReset,
             StartSubscribers, InitializeNRF52, Subscribe, Receive, Read, Write
    <2> QED
      BY <2>2, <2>3, <2>4, <2>5, <2>6 DEF Link!Next
  <1> QED
    BY <1>1, <1>2, SpecIInv, PTL DEF Spec, CommandsInOrder, Link!Spec

=============================================================================
