------------------------------ MODULE Pairing ------------------------------
(***************************************************************************)
(* The pairing PIN, the one thing that goes round in a circle.  The nRF52  *)
(* displays a pin and reports it; a handler of the service stores it under *)
(* ble/pin-code and publishes "pin-code:<pin>" on channel "ble".  Other    *)
(* services dismiss it by removing the field and publishing "pin-code" on  *)
(* the same channel, or by queueing the command "remove": the subscriber   *)
(* of SubscribeToRedisChannels or the watcher of WatchRedisCommands then   *)
(* tells the nRF52 to drop the pin, whose report makes a handler delete    *)
(* the field and publish once more.                                        *)
(*                                                                         *)
(* The calls of the handlers are those of Handlers; what a call does that  *)
(* go-redis repeats is in Inbound.                                         *)
(***************************************************************************)
EXTENDS Handlers

CONSTANTS
    Pins,           \* the pins the nRF52 may display
    MaxShows,       \* bound: pins displayed
    MaxDismissals,  \* bound: pins dismissed through Redis
    MaxRemoves,     \* bound: commands "remove" queued
    MaxFaults,      \* bound: failing calls, lost messages and notifications
    Absent,         \* the field does not exist
    None            \* nothing

ASSUME BoundsAssumption ==
    {MaxShows, MaxDismissals, MaxRemoves, MaxFaults} \subseteq Nat
ASSUME NoneAssumption == None \notin Pins

VARIABLES
    shown,       \* the pin the nRF52 displays, or None
    running,     \* handlers not done: the calls each has left
    pin,         \* Redis: ble/pin-code, or Absent
    subscribed,  \* the SUBSCRIBE to "ble" has reached Redis
    inbox,       \* what the subscriber is still to receive, oldest first
    subscriber,  \* "idle", "reading" the field, or "sending" a removal
    announcing,  \* a dismissal is still to be published
    list,        \* commands "remove" in the Redis list
    watcher,     \* the watcher is "idle" or "holding" a command
    removals,    \* history: removals sent to the nRF52
    clean,       \* history: since the last change nothing was lost or overtaken
    shows, dismissals, removes, faults  \* counters of the bounds

nRF52  == <<shown, running>>
redis  == <<pin, subscribed, inbox>>
others == <<announcing, list>>
bounds == <<shows, dismissals, removes, faults>>
vars   == <<nRF52, redis, subscriber, others, watcher, removals, clean, bounds>>

\* The calls of the handlers of the two messages, which carry a single
\* parameter under their own number.
DisplayCalls(p) == Ops(Type.BLEPairingPinDisplay, Type.BLEPairingPinDisplay, Text(p))
RemoveCalls     == Ops(Type.BLEPairingPinRemove, Type.BLEPairingPinRemove, <<"int", 0>>)

\* What the subscriber compares a payload with: the mere name of the field.
\* The service's own publications have a second part, the value.
PinChanged == <<"pin-code">>

Notified(payload) == IF subscribed THEN Append(inbox, payload) ELSE inbox

-----------------------------------------------------------------------------
(* The nRF52.  It reports every pin it displays and every pin it drops.    *)

\* A handler is started for the report, unless the line loses it.  A handler
\* that meets another one at work may overtake it.
Report(calls) ==
    \/ /\ running' = Append(running, calls)
       /\ clean' = (running = <<>>)
       /\ UNCHANGED faults
    \/ /\ faults < MaxFaults
       /\ faults' = faults + 1
       /\ clean' = FALSE
       /\ UNCHANGED running

Show(p) ==
    /\ shows < MaxShows
    /\ shows' = shows + 1
    /\ p # shown
    /\ shown' = p
    /\ Report(DisplayCalls(p))
    /\ UNCHANGED <<redis, subscriber, others, watcher, removals, dismissals, removes>>

\* Pairing succeeds, fails or times out.
Finish ==
    /\ shown # None
    /\ shown' = None
    /\ Report(RemoveCalls)
    /\ UNCHANGED <<redis, subscriber, others, watcher, removals, shows, dismissals, removes>>

\* A removal arrives.  It may be acknowledged even if no pin was displayed.
Obey ==
    /\ removals' = removals + 1
    /\ shown' = None
    /\ \/ Report(RemoveCalls)
       \/ shown = None /\ UNCHANGED <<running, clean, faults>>

-----------------------------------------------------------------------------
(* The handlers.                                                           *)

\* Handler i makes its next call.
Call(i) ==
    LET c == Head(running[i])
    IN  /\ running' = IF Len(running[i]) = 1 THEN RemoveAt(running, i)
                      ELSE [running EXCEPT ![i] = Tail(@)]
        /\ \/ /\ pin' = CASE c.op = "hset" -> c.value
                          [] c.op = "hdel" -> Absent
                          [] OTHER -> pin
              /\ inbox' = IF c.op = "publish" THEN Notified(c.payload) ELSE inbox
              /\ UNCHANGED <<clean, faults>>
           \/ /\ faults < MaxFaults
              /\ faults' = faults + 1
              /\ clean' = (clean /\ c.op # "hset")
              /\ UNCHANGED <<pin, inbox>>
        /\ UNCHANGED <<shown, subscribed, subscriber, others, watcher, removals,
                       shows, dismissals, removes>>

-----------------------------------------------------------------------------
(* Other services.                                                         *)

\* The field is deleted or emptied, then the change is published.
Dismiss ==
    /\ dismissals < MaxDismissals
    /\ dismissals' = dismissals + 1
    /\ ~announcing
    /\ announcing' = TRUE
    /\ pin' \in {Absent, Text("")}
    /\ UNCHANGED <<nRF52, subscribed, inbox, subscriber, list, watcher,
                   removals, clean, shows, removes, faults>>

Announce ==
    /\ announcing
    /\ announcing' = FALSE
    /\ \/ /\ inbox' = Notified(PinChanged)
          /\ clean' = (clean /\ subscribed)
          /\ UNCHANGED faults
       \/ /\ faults < MaxFaults
          /\ faults' = faults + 1
          /\ clean' = FALSE
          /\ UNCHANGED inbox
    /\ UNCHANGED <<nRF52, pin, subscribed, subscriber, list, watcher, removals,
                   shows, dismissals, removes>>

Push ==
    /\ removes < MaxRemoves
    /\ removes' = removes + 1
    /\ list' = list + 1
    /\ UNCHANGED <<nRF52, redis, subscriber, announcing, watcher, removals,
                   clean, shows, dismissals, faults>>

-----------------------------------------------------------------------------
(* The subscriber and the watcher.                                         *)

Subscribe ==
    /\ ~subscribed
    /\ subscribed' = TRUE
    /\ UNCHANGED <<nRF52, pin, inbox, subscriber, others, watcher, removals, clean, bounds>>

\* Receive that stops at a payload it does not know.
ReceiveKnown ==
    /\ subscriber = "idle"
    /\ inbox # <<>>
    /\ Head(inbox) = PinChanged
    /\ inbox' = Tail(inbox)
    /\ subscriber' = "reading"
    /\ UNCHANGED <<nRF52, pin, subscribed, others, watcher, removals, clean, bounds>>

\* Any payload but the field's name is logged as unhandled.
Receive ==
    /\ subscriber = "idle"
    /\ inbox # <<>>
    /\ inbox' = Tail(inbox)
    /\ subscriber' = IF Head(inbox) = PinChanged THEN "reading" ELSE "idle"
    /\ UNCHANGED <<nRF52, pin, subscribed, others, watcher, removals, clean, bounds>>

\* Check that looks for an empty pin only, and not for an error.
CheckEmpty ==
    /\ subscriber = "reading"
    /\ subscriber' = IF pin = Text("") THEN "sending" ELSE "idle"
    /\ UNCHANGED <<nRF52, redis, others, watcher, removals, clean, bounds>>

\* A pin that is empty, missing or cannot be read counts as removed.
Check ==
    /\ subscriber = "reading"
    /\ \/ /\ subscriber' = IF pin \in {Absent, Text("")} THEN "sending" ELSE "idle"
          /\ UNCHANGED faults
       \/ /\ faults < MaxFaults
          /\ faults' = faults + 1
          /\ subscriber' = "sending"
    /\ UNCHANGED <<nRF52, redis, others, watcher, removals, clean, shows, dismissals, removes>>

\* The removal is sent, or given up if the write fails.
Send ==
    /\ subscriber = "sending"
    /\ subscriber' = "idle"
    /\ \/ Obey
       \/ /\ faults < MaxFaults
          /\ faults' = faults + 1
          /\ clean' = FALSE
          /\ UNCHANGED <<nRF52, removals>>
    /\ UNCHANGED <<redis, others, watcher, shows, dismissals, removes>>

\* BRPop that returns without a command.
BRPopEmpty ==
    /\ watcher = "idle"
    /\ list' = list - 1
    /\ watcher' = "holding"
    /\ UNCHANGED <<nRF52, redis, subscriber, announcing, removals, clean, bounds>>

BRPop ==
    /\ watcher = "idle"
    /\ list > 0
    /\ list' = list - 1
    /\ watcher' = "holding"
    /\ UNCHANGED <<nRF52, redis, subscriber, announcing, removals, clean, bounds>>

Forward ==
    /\ watcher = "holding"
    /\ watcher' = "idle"
    /\ \/ Obey
       \/ /\ faults < MaxFaults
          /\ faults' = faults + 1
          /\ UNCHANGED <<nRF52, removals, clean>>
    /\ UNCHANGED <<redis, subscriber, others, shows, dismissals, removes>>

-----------------------------------------------------------------------------
Init ==
    /\ shown = None
    /\ running = <<>>
    /\ pin = Absent
    /\ subscribed = FALSE
    /\ inbox = <<>>
    /\ subscriber = "idle"
    /\ announcing = FALSE
    /\ list = 0
    /\ watcher = "idle"
    /\ removals = 0
    /\ clean = TRUE
    /\ shows = 0 /\ dismissals = 0 /\ removes = 0 /\ faults = 0

Handler    == \E i \in DOMAIN running : Call(i)
Subscriber == Subscribe \/ Receive \/ Check \/ Send
Watcher    == BRPop \/ Forward

Next ==
    \/ \E p \in Pins : Show(p)
    \/ Finish
    \/ Dismiss \/ Announce \/ Push
    \/ Handler \/ Subscriber \/ Watcher

Spec == Init /\ [][Next]_vars

\* The service's goroutines are scheduled and their calls return; a service
\* that dismissed a pin announces it.  Nobody has to display or dismiss one.
FairSpec ==
    /\ Spec
    /\ WF_vars(Handler) /\ WF_vars(Subscriber) /\ WF_vars(Watcher)
    /\ WF_vars(Announce)

-----------------------------------------------------------------------------
(* Properties.                                                             *)

\* Every variable has the values its comment says.
TypeOK ==
    /\ shown \in Pins \cup {None}
    /\ \A i \in DOMAIN running : running[i] # <<>>
    /\ pin \in {Text(p) : p \in Pins} \cup {Absent, Text("")}
    /\ subscribed \in BOOLEAN /\ announcing \in BOOLEAN /\ clean \in BOOLEAN
    /\ \A i \in DOMAIN inbox : inbox[i][1] = "pin-code"
    /\ subscriber \in {"idle", "reading", "sending"}
    /\ watcher \in {"idle", "holding"}
    /\ list \in 0..MaxRemoves
    /\ removals \in Nat

\* Nobody in the service answers its own publications: the subscriber shares
\* channel "ble" with the handlers, but at most one removal is sent for each
\* dismissal of another service and each command "remove".
RemovalsCaused ==
    removals <= dismissals + removes

\* Nothing is under way that could still change the pin on either side.
Quiet == running = <<>> /\ inbox = <<>> /\ subscriber = "idle" /\ ~announcing

Agree == IF shown = None THEN pin \in {Absent, Text("")} ELSE pin = Text(shown)

\* The dashboard shows the pin the nRF52 displays: with displays, dismissals,
\* stale and failing reads and removals of a pin that has been replaced
\* meanwhile, once all is quiet Redis and the nRF52 agree, unless a message,
\* notification or write was lost or two handlers were at work at once.
PinAgrees == Quiet /\ clean => Agree

\* The circle comes to rest: after the last display and dismissal both sides
\* agree for good, unless something was lost or overtaken.
PinSettles == <>[](clean => Agree)
=============================================================================
