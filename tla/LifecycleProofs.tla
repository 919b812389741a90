-------------------------- MODULE LifecycleProofs --------------------------
(***************************************************************************)
(* Proofs about start-up and shutdown, for every number of waiting bytes   *)
(* and commands.                                                           *)
(***************************************************************************)
EXTENDS Lifecycle, TLAPS

\* The port is open from usock.New until USOCK.Close has seen the reader end.
PortInv ==
    /\ main \in {"set", "run", "subscribe", "boot", "notify", "waiting",
                "stop", "close", "join"} => port
    /\ main \in {"connect", "clear", "open"} => reader = "none"
    /\ main \in {"closePort", "closeRedis", "exited"} => reader = "done"
    /\ main \in {"closeRedis", "exited"} => ~port
    /\ reader \in {"loop", "reading"} => port
    /\ main = "exited" => ~redis

\* The watcher can meet a closed port only after Service.Stop, and once a
\* command is lost it takes no other.
LostInv ==
    /\ main \in {"connect", "clear", "open", "set", "run"} => watcher = "none"
    /\ main \in {"close", "join", "closePort", "closeRedis", "exited"} => stopCh
    /\ watcher # "none" /\ ~port => stopCh
    /\ lost # 0 => \/ ~Alive
                   \/ stopCh /\ watcher \in {"loop", "done"}
    /\ lost <= 1

\* Service.usock is set before any goroutine but the reader and its handlers
\* runs, and once it is set the port is closed only after Service.Stop.
ConnectedInv ==
    /\ main \in {"run", "subscribe", "boot", "notify"} => connected
    /\ Caught => connected
    /\ watcher # "none" => connected
    /\ connected /\ ~port => stopCh

Core == TypeOK /\ PortInv /\ LostInv /\ ConnectedInv
IInv == Core /\ WritesMeetPort

-----------------------------------------------------------------------------
\* A write to the UART keeps the record of refused writes typed.
LEMMA WriteTyped ==
    ASSUME NEW who \in Writers, Write(who),
           refused \subseteq Writers \X {"unset", "closed"}
    PROVE  refused' \subseteq Writers \X {"unset", "closed"}
  BY DEF Write

\* A refused write is one WritesMeetPort allows if the writer has reason to
\* expect an open port before Service.Stop.
LEMMA WriteMeetsPort ==
    ASSUME WritesMeetPort, stopCh' = stopCh,
           NEW who, Write(who),
           connected \/ who = "handler",
           connected /\ ~port => stopCh /\ who # "main"
    PROVE  WritesMeetPort'
  <1> SUFFICES ASSUME NEW r \in refused'
               PROVE  IF r[2] = "unset" THEN r[1] = "handler" ELSE r[1] # "main" /\ stopCh'
    BY DEF WritesMeetPort
  <1>1. CASE r \in refused
    BY <1>1 DEF WritesMeetPort
  <1>2. CASE r \notin refused /\ ~connected
    <2>1. r = <<who, "unset">>
      BY <1>2 DEF Write
    <2> QED
      BY <1>2, <2>1
  <1>3. CASE r \notin refused /\ connected
    <2>1. r = <<who, "closed">> /\ ~port
      BY <1>3 DEF Write
    <2> QED
      BY <1>3, <2>1
  <1> QED
    BY <1>1, <1>2, <1>3

-----------------------------------------------------------------------------
\* The invariant holds before main has done anything.
LEMMA InitIInv == Init => IInv
  <1> SUFFICES ASSUME Init PROVE IInv
    OBVIOUS
  <1>1. TypeOK
    <2>1. /\ bytes \in 0..MaxBytes /\ waiting \in 0..MaxWaiting
          /\ handlers \in 0..MaxHandlers /\ lost \in Nat
      BY BoundsAssumption DEF Init
    <2>2. /\ port \in BOOLEAN /\ redis \in BOOLEAN /\ signal \in BOOLEAN
          /\ stopChan \in BOOLEAN /\ stopCh \in BOOLEAN /\ connected \in BOOLEAN
      BY Zenon DEF Init
    <2>3. /\ main \in Positions \cup Ends
          /\ reader \in {"none", "loop", "reading", "done"}
          /\ watcher \in {"none", "loop", "blocked", "holding", "done"}
      BY DEF Init, Positions
    <2>4. refused \subseteq Writers \X {"unset", "closed"}
      BY DEF Init
    <2> QED
      BY <2>1, <2>2, <2>3, <2>4, Zenon DEF TypeOK
  <1>2. PortInv
    BY DEF Init, PortInv
  <1>3. LostInv
    BY DEF Init, LostInv
  <1>4. ConnectedInv
    BY DEF Init, ConnectedInv, Caught
  <1>5. WritesMeetPort
    BY DEF Init, WritesMeetPort
  <1> QED
    BY <1>1, <1>2, <1>3, <1>4, <1>5, Zenon DEF IInv, Core

\* Every step of main keeps the core of the invariant.
LEMMA MainKeeps == ASSUME Core, Main PROVE Core'
  <1> USE DEF Core, TypeOK, PortInv, LostInv, ConnectedInv, Positions, Ends, Alive,
              Caught, stops, frames, world, losses
  <1>1. CASE ConnectRedis
    BY <1>1 DEF ConnectRedis
  <1>2. CASE ClearUARTAttributes
    BY <1>2, BoundsAssumption DEF ClearUARTAttributes
  <1>3. CASE OpenPort
    BY <1>3 DEF OpenPort
  <1>4. CASE SetUSock
    BY <1>4 DEF SetUSock
  <1>5. CASE StartWatcher \/ StartSubscribers \/ Notify
    BY <1>5 DEF StartWatcher, StartSubscribers, Notify
  <1>6. CASE Boot
    <2>1. refused' \subseteq Writers \X {"unset", "closed"}
      <3>1. "main" \in Writers
        BY DEF Writers
      <3> QED
        BY <1>6, <3>1, WriteTyped DEF Boot
    <2> QED
      BY <1>6, <2>1 DEF Boot
  <1>7. CASE ReceiveSignal
    BY <1>7 DEF ReceiveSignal
  <1>8. CASE Stop \/ CloseStopChan
    BY <1>8 DEF Stop, CloseStopChan
  <1>9. CASE Join
    BY <1>9 DEF Join
  <1>10. CASE ClosePort
    BY <1>10 DEF ClosePort
  <1>11. CASE CloseRedis
    <2>1. watcher = "holding" => lost = 0
      BY <1>11 DEF CloseRedis
    <2>2. lost' \in Nat /\ lost' <= 1
      BY <1>11, <2>1 DEF CloseRedis
    <2> QED
      BY <1>11, <2>2 DEF CloseRedis
  <1> QED
    BY <1>1, <1>2, <1>3, <1>4, <1>5, <1>6, <1>7, <1>8, <1>9, <1>10, <1>11 DEF Main

\* So does every step of the other goroutines and of the outside.
LEMMA OthersKeep ==
    ASSUME Core,
           \/ Reader \/ Watcher \/ Handle \/ Update \/ ReadError \/ BRPopError
           \/ Arrive \/ Push \/ Signal
    PROVE  Core'
  <1>w. {"watcher", "handler", "subscriber"} \subseteq Writers
    BY DEF Writers
  <1> USE BoundsAssumption
      DEF Core, TypeOK, PortInv, LostInv, ConnectedInv, Positions, Ends, Alive,
          Caught, stops, frames, world, losses
  <1>1. CASE Reader
    BY <1>1 DEF Reader, ReadSelect, ReadByte
  <1>2. CASE WatchSelect
    BY <1>2 DEF WatchSelect
  <1>3. CASE BRPop
    BY <1>3 DEF BRPop
  <1>4. CASE Forward
    <2>1. refused' \subseteq Writers \X {"unset", "closed"}
      BY <1>4, <1>w, WriteTyped DEF Forward
    <2> QED
      BY <1>4, <2>1 DEF Forward
  <1>5. CASE Handle
    <2>1. refused' \subseteq Writers \X {"unset", "closed"}
      BY <1>5, <1>w, WriteTyped DEF Handle
    <2> QED
      BY <1>5, <2>1 DEF Handle
  <1>6. CASE Update
    <2>1. refused' \subseteq Writers \X {"unset", "closed"}
      BY <1>6, <1>w, WriteTyped DEF Update
    <2> QED
      BY <1>6, <2>1 DEF Update
  <1>7. CASE ReadError \/ BRPopError
    BY <1>7 DEF ReadError, BRPopError
  <1>8. CASE Arrive \/ Push
    BY <1>8 DEF Arrive, Push
  <1>9. CASE Signal
    <2>1. CASE signal' = TRUE /\ UNCHANGED main
      BY <1>9, <2>1 DEF Signal
    <2>2. CASE main' = "killed" /\ UNCHANGED signal
      BY <1>9, <2>2 DEF Signal
    <2> QED
      BY <1>9, <2>1, <2>2 DEF Signal
  <1> QED
    BY <1>1, <1>2, <1>3, <1>4, <1>5, <1>6, <1>7, <1>8, <1>9 DEF Watcher

\* Refused writes stay those WritesMeetPort allows.
LEMMA WritesKeep == ASSUME IInv, Next PROVE WritesMeetPort'
  <1> USE DEF IInv, Core, stops, losses
  <1>1. CASE Boot
    <2>1. connected /\ port /\ stopCh' = stopCh /\ Write("main")
      BY <1>1 DEF Boot, PortInv, ConnectedInv
    <2> QED
      BY <2>1, WriteMeetsPort
  <1>2. CASE Forward
    <2>1. connected /\ (~port => stopCh) /\ stopCh' = stopCh /\ Write("watcher")
      BY <1>2 DEF Forward, ConnectedInv
    <2> QED
      BY <2>1, WriteMeetsPort
  <1>3. CASE Handle
    <2>1. (connected /\ ~port => stopCh) /\ stopCh' = stopCh
      BY <1>3 DEF Handle, ConnectedInv
    <2>2. CASE Write("handler")
      BY <2>1, <2>2, WriteMeetsPort
    <2>3. CASE UNCHANGED refused
      BY <2>1, <2>3 DEF WritesMeetPort
    <2> QED
      BY <1>3, <2>2, <2>3 DEF Handle
  <1>4. CASE Update
    <2>1. connected /\ (~port => stopCh) /\ stopCh' = stopCh /\ Write("subscriber")
      BY <1>4 DEF Update, ConnectedInv
    <2> QED
      BY <2>1, WriteMeetsPort
  <1>5. CASE ~Boot /\ ~Forward /\ ~Handle /\ ~Update
    <2>1. refused' = refused /\ (stopCh => stopCh')
      BY <1>5 DEF Next, Main, Reader, Watcher, ConnectRedis, ClearUARTAttributes,
           OpenPort, SetUSock, StartWatcher, StartSubscribers, Notify, ReceiveSignal,
           Stop, CloseStopChan, Join, ClosePort, CloseRedis, ReadSelect, ReadByte,
           WatchSelect, BRPop, ReadError, BRPopError, Arrive, Push, Signal
    <2> QED
      BY <2>1 DEF WritesMeetPort
  <1> QED
    BY <1>1, <1>2, <1>3, <1>4, <1>5

\* The invariant is inductive.
LEMMA NextKeeps == IInv /\ [Next]_vars => IInv'
  <1>1. ASSUME IInv, UNCHANGED vars PROVE IInv'
    BY <1>1 DEF IInv, Core, TypeOK, PortInv, LostInv, ConnectedInv, WritesMeetPort,
                Alive, Caught, vars, stops, frames, world, losses
  <1>2. ASSUME IInv, Next PROVE IInv'
    BY <1>2, MainKeeps, OthersKeep, WritesKeep DEF Next, IInv
  <1> QED
    BY <1>1, <1>2

LEMMA SpecIInv == Spec => []IInv
  BY InitIInv, NextKeeps, PTL DEF Spec

-----------------------------------------------------------------------------
\* The variables keep their types.
THEOREM LifecycleTypeOK == Spec => []TypeOK
  <1>1. IInv => TypeOK
    BY DEF IInv, Core
  <1> QED
    BY <1>1, SpecIInv, PTL

\* The reader never runs on a closed port, and a return from main has
\* released the port and the connection, whatever signals and bytes arrive.
THEOREM LifecyclePort == Spec => []PortOutlivesReader
  <1>1. IInv => PortOutlivesReader
    BY DEF IInv, Core, PortInv, PortOutlivesReader
  <1> QED
    BY <1>1, SpecIInv, PTL

\* However many commands are queued, a shutdown loses at most one of them.
THEOREM LifecycleCommands == Spec => []OneCommandLost
  <1>1. IInv => OneCommandLost
    BY DEF IInv, Core, LostInv, OneCommandLost
  <1> QED
    BY <1>1, SpecIInv, PTL

\* Between SetUSock and Service.Stop no goroutine but a frame's handler is
\* refused a write, and main never is.
THEOREM LifecycleWrites == Spec => []WritesMeetPort
  <1>1. IInv => WritesMeetPort
    BY DEF IInv
  <1> QED
    BY <1>1, SpecIInv, PTL

\* Once USOCK.Close has waited for the reader no frame is handed over any more,
\* however many handlers are still at work.
THEOREM LifecycleHandlers == Spec => NoLateHandler
  <1>1. ASSUME IInv, [Next]_vars, main \in {"closePort", "closeRedis"}
        PROVE  handlers' <= handlers
    <2>1. handlers \in Nat /\ ~ReadByte
      BY <1>1, BoundsAssumption DEF IInv, Core, TypeOK, PortInv, ReadByte
    <2>2. handlers' = handlers \/ handlers' = handlers - 1
      BY <1>1, <2>1 DEF Next, Main, Reader, Watcher, ConnectRedis, ClearUARTAttributes,
           OpenPort, SetUSock, StartWatcher, StartSubscribers, Boot, Notify,
           ReceiveSignal, Stop, CloseStopChan, Join, ClosePort, CloseRedis, ReadSelect,
           WatchSelect, BRPop, Forward, Handle, Update, ReadError, BRPopError,
           Arrive, Push, Signal, vars, frames
    <2> QED
      BY <2>1, <2>2
  <1>2. IInv /\ [Next]_vars
        => [(main \in {"closePort", "closeRedis"}) => handlers' <= handlers]_vars
    BY <1>1
  <1> QED
    BY <1>2, SpecIInv, PTL DEF Spec, NoLateHandler
=============================================================================
