----------------------------- MODULE Lifecycle -----------------------------
(***************************************************************************)
(* Start-up and shutdown of the process: main, the goroutine that reads    *)
(* the UART (usock readLoop), the command watcher (WatchRedisCommands),    *)
(* the goroutines of received frames and of Redis channels, and what they  *)
(* share: the serial port, the Service's reference to it, the Redis        *)
(* connection and the two stop channels.                                   *)
(*                                                                         *)
(* The reader blocks in a read without timeout and the watcher in a BRPOP  *)
(* without timeout; each looks at its stop channel only between two calls. *)
(* The payloads are left out, and so are failing UART writes (Outbound).   *)
(***************************************************************************)
EXTENDS Naturals

CONSTANTS
    MaxBytes,       \* bound: bytes waiting at the serial port
    MaxWaiting,     \* bound: commands waiting in the Redis list
    MaxHandlers     \* bound: handlers of frames at work at once

ASSUME BoundsAssumption ==
    /\ MaxBytes \in Nat \ {0}
    /\ MaxWaiting \in Nat \ {0}
    /\ MaxHandlers \in Nat

VARIABLES
    main,       \* main's position, see Positions
    port,       \* the serial port is open
    redis,      \* the Redis connection is open
    stopChan,   \* USOCK.stopChan is closed
    stopCh,     \* Service.stopCh is closed
    connected,  \* Service.usock is set
    handlers,   \* goroutines started for frames and not done
    reader,     \* readLoop: "none", "loop", "reading" or "done"
    watcher,    \* watcher: "none", "loop", "blocked", "holding" or "done"
    bytes,      \* bytes waiting at the port
    waiting,    \* commands waiting in the Redis list
    signal,     \* a signal is in sigCh
    lost,       \* history: commands popped that could not be sent any more
    refused     \* history: <<who, why>> of the UART writes that failed

stops  == <<stopChan, stopCh>>
frames == <<connected, handlers>>
losses == <<lost, refused>>
world  == <<bytes, waiting, signal>>
vars   == <<main, port, redis, stops, frames, reader, watcher, world, losses>>

\* main, from redis.New to the deferred closes.
Positions == {"connect", "clear", "open", "set", "run", "subscribe", "boot",
              "notify", "waiting", "stop", "close", "join", "closePort", "closeRedis"}

\* How the process can end: main returned, log.Fatalf, default signal action.
Ends == {"exited", "failed", "killed"}

Alive == main \notin Ends

\* signal.Notify has been called.
Caught == main \in {"waiting", "stop", "close", "join", "closePort", "closeRedis"}

\* What becomes of a UART write: there is no reference to write to, the port
\* is closed, or it goes out.
Write(who) ==
    refused' = IF ~connected THEN refused \cup {<<who, "unset">>}
               ELSE IF ~port THEN refused \cup {<<who, "closed">>}
               ELSE refused

-----------------------------------------------------------------------------
(* main.                                                                   *)

ConnectRedis ==
    /\ main = "connect"
    /\ \/ main' = "clear" /\ redis' = TRUE
       \/ main' = "failed" /\ UNCHANGED redis
    /\ UNCHANGED <<port, stops, frames, reader, watcher, world, losses>>

\* usock.New first opens the port with default settings and closes it again;
\* what was waiting there may be thrown away.
ClearUARTAttributes ==
    /\ main = "clear"
    /\ main' \in {"open", "failed"}
    /\ bytes' \in {0, bytes}
    /\ UNCHANGED <<port, redis, stops, frames, reader, watcher, waiting, signal, losses>>

\* OpenPort that goes on to the goroutines without SetUSock.
OpenPortUnset ==
    /\ main = "open"
    /\ \/ main' = "run" /\ port' = TRUE /\ reader' = "loop"
       \/ main' = "failed" /\ UNCHANGED <<port, reader>>
    /\ UNCHANGED <<redis, stops, frames, watcher, world, losses>>

\* It then opens the port and starts the reader.
OpenPort ==
    /\ main = "open"
    /\ \/ main' = "set" /\ port' = TRUE /\ reader' = "loop"
       \/ main' = "failed" /\ UNCHANGED <<port, reader>>
    /\ UNCHANGED <<redis, stops, frames, watcher, world, losses>>

\* The reader is running already: a handler may have found no reference.
SetUSock ==
    /\ main = "set"
    /\ main' = "run"
    /\ connected' = TRUE
    /\ UNCHANGED <<port, redis, stops, handlers, reader, watcher, world, losses>>

StartWatcher ==
    /\ main = "run"
    /\ main' = "subscribe"
    /\ watcher' = "loop"
    /\ UNCHANGED <<port, redis, stops, frames, reader, world, losses>>

\* SubscribeToRedisChannels starts a goroutine per channel; none is ever told
\* to stop.
StartSubscribers ==
    /\ main = "subscribe"
    /\ main' = "boot"
    /\ UNCHANGED <<port, redis, stops, frames, reader, watcher, world, losses>>

\* Initialisation commands and first updates, with their sleeps.
Boot ==
    /\ main = "boot"
    /\ main' = "notify"
    /\ Write("main")
    /\ UNCHANGED <<port, redis, stops, frames, reader, watcher, world, lost>>

Notify ==
    /\ main = "notify"
    /\ main' = "waiting"
    /\ UNCHANGED <<port, redis, stops, frames, reader, watcher, world, losses>>

ReceiveSignal ==
    /\ main = "waiting"
    /\ signal
    /\ signal' = FALSE
    /\ main' = "stop"
    /\ UNCHANGED <<port, redis, stops, frames, reader, watcher, bytes, waiting, losses>>

\* Service.Stop
Stop ==
    /\ main = "stop"
    /\ stopCh' = TRUE
    /\ main' = "close"
    /\ UNCHANGED <<port, redis, stopChan, frames, reader, watcher, world, losses>>

\* USOCK.Close: tell the reader, wait for it, close the port.
CloseStopChan ==
    /\ main = "close"
    /\ stopChan' = TRUE
    /\ main' = "join"
    /\ UNCHANGED <<port, redis, stopCh, frames, reader, watcher, world, losses>>

\* Join without the wg.Wait.
JoinNobody ==
    /\ main = "join"
    /\ main' = "closePort"
    /\ UNCHANGED <<port, redis, stops, frames, reader, watcher, world, losses>>

Join ==
    /\ main = "join"
    /\ reader = "done"
    /\ main' = "closePort"
    /\ UNCHANGED <<port, redis, stops, frames, reader, watcher, world, losses>>

ClosePort ==
    /\ main = "closePort"
    /\ port' = FALSE
    /\ main' = "closeRedis"
    /\ UNCHANGED <<redis, stops, frames, reader, watcher, world, losses>>

\* A command in the watcher's hand dies with the process.
CloseRedis ==
    /\ main = "closeRedis"
    /\ redis' = FALSE
    /\ main' = "exited"
    /\ lost' = IF watcher = "holding" THEN lost + 1 ELSE lost
    /\ UNCHANGED <<port, stops, frames, reader, watcher, world, refused>>

-----------------------------------------------------------------------------
(* readLoop.                                                               *)

\* The select that never looks at stopChan.
ReadSelectForever ==
    /\ Alive
    /\ reader = "loop"
    /\ reader' = "reading"
    /\ UNCHANGED <<main, port, redis, stops, frames, watcher, world, losses>>

ReadSelect ==
    /\ Alive
    /\ reader = "loop"
    /\ reader' = IF stopChan THEN "done" ELSE "reading"
    /\ UNCHANGED <<main, port, redis, stops, frames, watcher, world, losses>>

\* port.Read returns a byte, perhaps the last of a frame.
ReadByte ==
    /\ Alive
    /\ reader = "reading"
    /\ bytes > 0
    /\ bytes' = bytes - 1
    /\ reader' = "loop"
    /\ handlers' \in {handlers} \cup ({handlers + 1} \cap 0..MaxHandlers)
    /\ UNCHANGED <<main, port, redis, stops, connected, watcher, waiting, signal, losses>>

\* port.Read returns an error, or no byte: the loop goes on.
ReadError ==
    /\ Alive
    /\ reader = "reading"
    /\ reader' = "loop"
    /\ UNCHANGED <<main, port, redis, stops, frames, watcher, world, losses>>

-----------------------------------------------------------------------------
(* WatchRedisCommands.                                                     *)

\* The select without the case for stopCh.
WatchSelectForever ==
    /\ Alive
    /\ watcher = "loop"
    /\ watcher' = "blocked"
    /\ UNCHANGED <<main, port, redis, stops, frames, reader, world, losses>>

WatchSelect ==
    /\ Alive
    /\ watcher = "loop"
    /\ watcher' = IF stopCh THEN "done" ELSE "blocked"
    /\ UNCHANGED <<main, port, redis, stops, frames, reader, world, losses>>

\* BRPop that returns without a command.
BRPopEmpty ==
    /\ Alive
    /\ watcher = "blocked"
    /\ redis
    /\ waiting' = waiting - 1
    /\ watcher' = "holding"
    /\ UNCHANGED <<main, port, redis, stops, frames, reader, bytes, signal, losses>>

BRPop ==
    /\ Alive
    /\ watcher = "blocked"
    /\ redis
    /\ waiting > 0
    /\ waiting' = waiting - 1
    /\ watcher' = "holding"
    /\ UNCHANGED <<main, port, redis, stops, frames, reader, bytes, signal, losses>>

\* BRPOP fails: the watcher sleeps and tries again.
BRPopError ==
    /\ Alive
    /\ watcher = "blocked"
    /\ watcher' = "loop"
    /\ UNCHANGED <<main, port, redis, stops, frames, reader, world, losses>>

\* The command is written to the UART, which fails once the port is closed.
Forward ==
    /\ Alive
    /\ watcher = "holding"
    /\ watcher' = "loop"
    /\ lost' = IF port THEN lost ELSE lost + 1
    /\ Write("watcher")
    /\ UNCHANGED <<main, port, redis, stops, frames, reader, world>>

-----------------------------------------------------------------------------
(* The goroutines nobody waits for.                                        *)

\* A handler makes its calls and ends; that of a reset report writes its ACK.
Handle ==
    /\ Alive
    /\ handlers > 0
    /\ handlers' = handlers - 1
    /\ Write("handler") \/ UNCHANGED refused
    /\ UNCHANGED <<main, port, redis, stops, connected, reader, watcher, world, lost>>

\* The goroutine of a channel sends an update.
Update ==
    /\ main \in {"boot", "notify"} \/ Caught
    /\ Write("subscriber")
    /\ UNCHANGED <<main, port, redis, stops, frames, reader, watcher, world, lost>>

-----------------------------------------------------------------------------
(* The outside: the nRF52, services queueing commands, the init system.    *)

Arrive ==
    /\ bytes < MaxBytes
    /\ bytes' = bytes + 1
    /\ UNCHANGED <<main, port, redis, stops, frames, reader, watcher, waiting, signal, losses>>

Push ==
    /\ waiting < MaxWaiting
    /\ waiting' = waiting + 1
    /\ UNCHANGED <<main, port, redis, stops, frames, reader, watcher, bytes, signal, losses>>

\* Before signal.Notify the default action ends the process; after it a
\* signal is queued, or dropped if one is queued already.
Signal ==
    /\ Alive
    /\ IF Caught THEN signal' = TRUE /\ UNCHANGED main
                 ELSE main' = "killed" /\ UNCHANGED signal
    /\ UNCHANGED <<port, redis, stops, frames, reader, watcher, bytes, waiting, losses>>

-----------------------------------------------------------------------------
Init ==
    /\ main = "connect"
    /\ port = FALSE /\ redis = FALSE
    /\ stopChan = FALSE /\ stopCh = FALSE
    /\ connected = FALSE /\ handlers = 0
    /\ reader = "none" /\ watcher = "none"
    /\ bytes = 0 /\ waiting \in 0..MaxWaiting
    /\ signal = FALSE
    /\ lost = 0 /\ refused = {}

Main ==
    \/ ConnectRedis \/ ClearUARTAttributes \/ OpenPort \/ SetUSock
    \/ StartWatcher \/ StartSubscribers \/ Boot \/ Notify
    \/ ReceiveSignal \/ Stop \/ CloseStopChan \/ Join \/ ClosePort \/ CloseRedis

Reader  == ReadSelect \/ ReadByte
Watcher == WatchSelect \/ BRPop \/ Forward

Next ==
    \/ Main \/ Reader \/ Watcher \/ Handle \/ Update
    \/ ReadError \/ BRPopError
    \/ Arrive \/ Push \/ Signal

Spec == Init /\ [][Next]_vars

\* The three goroutines are scheduled; reads and BRPOPs return when there is
\* something to return.  Nothing obliges the nRF52 to talk.
FairSpec == Spec /\ WF_vars(Main) /\ WF_vars(Reader) /\ WF_vars(Watcher)

\* An nRF52 that goes on sending, as it does while data streaming is enabled.
TalkingSpec == FairSpec /\ WF_vars(Arrive)

-----------------------------------------------------------------------------
(* Properties.                                                             *)

\* Who writes the UART.
Writers == {"main", "watcher", "handler", "subscriber"}

\* Every variable has the values its comment says.
TypeOK ==
    /\ main \in Positions \cup Ends
    /\ port \in BOOLEAN /\ redis \in BOOLEAN /\ signal \in BOOLEAN
    /\ stopChan \in BOOLEAN /\ stopCh \in BOOLEAN
    /\ connected \in BOOLEAN /\ handlers \in 0..MaxHandlers
    /\ reader \in {"none", "loop", "reading", "done"}
    /\ watcher \in {"none", "loop", "blocked", "holding", "done"}
    /\ bytes \in 0..MaxBytes
    /\ waiting \in 0..MaxWaiting
    /\ lost \in Nat
    /\ refused \subseteq Writers \X {"unset", "closed"}

\* USOCK.Close takes the port away from nobody: whenever the reader runs the
\* port is open, and a process that returned from main has released all.
PortOutlivesReader ==
    /\ reader \in {"loop", "reading"} => port
    /\ main = "exited" => reader = "done" /\ ~port /\ ~redis

\* A shutdown costs at most one command: WatchRedisCommands stops after the
\* one it had popped, or was waiting for, when Service.Stop was called.
OneCommandLost == lost <= 1

\* SetUSock and Close frame the use of the UART: the watcher, the subscribers
\* and main never find Service.usock unset (a handler may, as the reader runs
\* before SetUSock), main never finds the port closed, and the others only
\* once Service.Stop has been called.
WritesMeetPort ==
    \A r \in refused :
        IF r[2] = "unset" THEN r[1] = "handler" ELSE r[1] # "main" /\ stopCh

\* No frame is handed over once USOCK.Close has seen the reader end: from then
\* on the handlers only become fewer, though nothing waits for the last.
NoLateHandler ==
    [][(main \in {"closePort", "closeRedis"}) => handlers' <= handlers]_vars

-----------------------------------------------------------------------------
(* What the README says, and the code keeps only for a talking nRF52.       *)

\* "Graceful shutdown on signal interrupts": a caught signal leads to main's
\* return.  It does if the nRF52 talks, not if it is silent.
GracefulShutdown == signal ~> main = "exited"
=============================================================================
