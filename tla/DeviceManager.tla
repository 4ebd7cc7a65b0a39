--------------------------- MODULE DeviceManager ----------------------------
(***************************************************************************)
(* devmgr/src/DeviceManager.cpp: the process that tells the TV whether the *)
(* box is the active source, on top of the host library (RdkHost) and of a *)
(* Connection.                                                             *)
(*                                                                         *)
(* Three threads act on its statics: main, the thread of the IARM events,  *)
(* which runs the power callback, and the reader of the bus, which runs    *)
(* DevMgrProcessor.  The writer of the bus empties the queue of the        *)
(* asynchronous sends.  A synchronous send takes the bus mutex that the    *)
(* reader holds while it notifies; an asynchronous one does not.           *)
(*                                                                         *)
(* Of the messages, the claims to be the active source and the reports of  *)
(* the power state are kept; the other answers of DevMgrProcessor, and     *)
(* ImageViewOn, say the same thing every time.                             *)
(***************************************************************************)
EXTENDS RdkHost

CONSTANT MaxQueued     \* bound: claims in the queue of the writer

Active == "ActiveSource"
Inactive == "InActiveSource"

VARIABLES
  main,        \* where main() is
  callback,    \* hostCb has the power callback
  opened,      \* LibCCEC::init() is through: the bus takes frames
  conn,        \* conn_ is set
  connected,   \* isConnected says CECHost_HDMI_CONNECTED
  devPower,    \* powerState of this file
  unread,      \* history: main could not read the power state
  event,       \* where the power callback is
  reader,      \* what DevMgrProcessor is about to send: an answer, or "idle"
  wasActive,   \* history: what the box was when it decided to
  queued,      \* the claims the writer of the bus has not written yet
  claim,       \* the last claim on the wire
  lost,        \* history: a claim after it could not be written
  late,        \* history: it was decided on, or queued, before the mode changed
  reported,    \* the last power state reported to another device
  crashed      \* the process is gone

devVars == <<main, callback, opened, conn, connected, devPower, unread>>
wireVars == <<queued, claim, lost, late, reported>>
readerVars == <<reader, wasActive>>
vars == <<hostVars, devVars, event, readerVars, wireVars, crashed>>

Init ==
  /\ HostInit
  /\ main = "init"
  /\ callback = FALSE /\ opened = FALSE /\ conn = FALSE
  /\ connected = TRUE     \* isConnected is 0, CECHost_HDMI_CONNECTED
  /\ devPower = Standby /\ unread = TRUE
  /\ event = "idle" /\ reader = "idle" /\ wasActive = FALSE
  /\ queued = <<>> /\ claim = None /\ lost = FALSE /\ late = FALSE /\ reported = None
  /\ crashed = FALSE

-----------------------------------------------------------------------------
(* main() *)

\* CECHost_Init.
MainInit ==
  /\ main = "init"
  /\ \/ InitRegister \/ InitCache
     \/ Booting /\ (Ask \/ Store)
  /\ main' = IF boot' = "up" THEN "callback" ELSE main
  /\ UNCHANGED <<callback, opened, conn, connected, devPower, unread, event, readerVars,
                 wireVars, crashed>>

\* The hotplug callback is left out of cb: "connected" and the physical address
\* are what they are at this moment.
MainSetsCallback ==
  /\ main = "callback"
  /\ callback' = TRUE /\ main' = "display"
  /\ UNCHANGED <<hostVars, opened, conn, connected, devPower, unread, event, readerVars,
                 wireVars, crashed>>

\* CECHost_IsHdmiOutputConnected answers yes or no, or fails.
MainAsksDisplay ==
  /\ main = "display"
  /\ connected' \in BOOLEAN /\ main' = "power"
  /\ UNCHANGED <<hostVars, callback, opened, conn, devPower, unread, event, readerVars,
                 wireVars, crashed>>

\* CECHost_GetPowerState; a failure leaves devPower alone.
MainAsksPower ==
  /\ main = "power"
  /\ \/ Ask /\ UNCHANGED <<main, devPower, unread>>
     \/ /\ Store
        /\ devPower' = IF reply.ok THEN reply.state ELSE devPower
        /\ unread' = (reply.late \/ ~reply.ok)
        /\ main' = "library"
  /\ UNCHANGED <<callback, opened, conn, connected, event, readerVars, wireVars, crashed>>

\* Variant: the library is initialised after the connection is made.
MainMakesConnectionFirst ==
  /\ main = "library"
  /\ main' = "connection"
  /\ UNCHANGED <<hostVars, callback, opened, conn, connected, devPower, unread, event,
                 readerVars, wireVars, crashed>>

\* LibCCEC::init() starts the bus; the connection exists from the next line on,
\* and hears requests once its listener is added.
MainInitsLibrary ==
  /\ main = "library"
  /\ opened' = TRUE /\ main' = "connection"
  /\ UNCHANGED <<hostVars, callback, conn, connected, devPower, unread, event, readerVars,
                 wireVars, crashed>>

MainSetsConn ==
  /\ main = "connection"
  /\ conn' = TRUE /\ main' = "open"
  /\ UNCHANGED <<hostVars, callback, opened, connected, devPower, unread, event, readerVars,
                 wireVars, crashed>>

MainOpens ==
  /\ main = "open"
  /\ main' = "running"
  /\ UNCHANGED <<hostVars, callback, opened, conn, connected, devPower, unread, event, readerVars,
                 wireVars, crashed>>

Main ==
  MainInit \/ MainSetsCallback \/ MainAsksDisplay \/ MainAsksPower
    \/ MainInitsLibrary \/ MainSetsConn \/ MainOpens

-----------------------------------------------------------------------------
(* What reaches the wire *)

\* A frame is written, or it is not and nobody is told: sendTo() without
\* Throw_e swallows the exception, and so does the writer.
Written(c, isLate) ==
  \/ claim' = c /\ lost' = FALSE /\ late' = isLate
  \/ lost' = TRUE /\ UNCHANGED <<claim, late>>

\* The writer of the bus takes the head of its queue.
WriterWrites ==
  /\ queued # <<>>
  /\ queued' = Tail(queued)
  /\ Written(Head(queued), mode # Standby)
  /\ UNCHANGED <<hostVars, devVars, event, readerVars, reported, crashed>>

-----------------------------------------------------------------------------
(* CECHost_PowerStateCallback_, inside _powerEventHandler *)

\* Variant: without a callback the handler has nothing to do.
AfterEventDropped == IF callback THEN "tell" ELSE "idle"

AfterEvent == IF callback THEN "tell" ELSE "done"

\* The handler calls it when it is installed, and stores the state anyway.
EventTaken ==
  /\ event = "idle"
  /\ PowerEventTaken
  /\ event' = AfterEvent
  /\ UNCHANGED <<devVars, readerVars, wireVars, crashed>>

\* conn_ is not tested, and an exception of sendToAsync() would leave the
\* handler: without a connection, or without a bus, the process ends here.
CallbackDies ==
  /\ event = "tell"
  /\ ~conn \/ (handling # On /\ ~opened)
  /\ crashed' = TRUE
  /\ UNCHANGED <<hostVars, devVars, event, readerVars, wireVars>>

\* Variant: only the wake-up is announced.
TellsOnWakeUp ==
  \/ handling = On /\ reader = "idle" /\ Written(Active, FALSE) /\ UNCHANGED queued
  \/ handling # On /\ UNCHANGED <<queued, claim, lost, late>>

\* ImageViewOn and ActiveSource, each when the reader leaves the bus; or
\* InActiveSource to the queue.
Tells ==
  \/ handling = On /\ reader = "idle" /\ Written(Active, FALSE) /\ UNCHANGED queued
  \/ handling # On /\ queued' = Append(queued, Inactive) /\ UNCHANGED <<claim, lost, late>>

CallbackTells ==
  /\ event = "tell" /\ conn
  /\ handling = On \/ opened
  /\ Tells
  /\ event' = "store"
  /\ UNCHANGED <<hostVars, devVars, readerVars, reported, crashed>>

\* Variant: the state the box comes from.
OldState == CHOOSE m \in Modes : m # handling

NewState == handling

CallbackStores ==
  /\ event = "store"
  /\ devPower' = NewState /\ unread' = FALSE
  /\ event' = "done"
  /\ UNCHANGED <<hostVars, main, callback, opened, conn, connected, readerVars, wireVars, crashed>>

EventDone ==
  /\ event = "done"
  /\ PowerEventDone
  /\ event' = "idle"
  /\ UNCHANGED <<devVars, readerVars, wireVars, crashed>>

-----------------------------------------------------------------------------
(* DevMgrProcessor, on the reader of the bus *)

\* The box says it is the source when it is on and the display is there.
Answers == IsActive /\ connected

\* A request of a device that has an address; others are not answered.
RequestActiveSource ==
  /\ main = "running" /\ reader = "idle"
  /\ Answers
  /\ reader' = "claim" /\ wasActive' = IsActive
  /\ UNCHANGED <<hostVars, devVars, event, wireVars, crashed>>

GiveDevicePowerStatus ==
  /\ main = "running" /\ reader = "idle"
  /\ reader' = devPower /\ UNCHANGED wasActive
  /\ UNCHANGED <<hostVars, devVars, event, wireVars, crashed>>

\* The answer, from what was read before.
ReaderSends ==
  /\ reader # "idle"
  /\ \/ /\ reader = "claim"
        /\ Written(Active, mode # On /\ wasActive)
        /\ UNCHANGED reported
     \/ /\ reader \in Modes
        /\ reported' \in {reader, reported}
        /\ UNCHANGED <<claim, lost, late>>
  /\ reader' = "idle"
  /\ UNCHANGED <<hostVars, devVars, event, wasActive, queued, crashed>>

-----------------------------------------------------------------------------
\* The bound keeps the power manager from filling the queue of the writer.
Environment ==
  /\ Len(queued) + Len(events) < MaxQueued
  /\ PowerManager
  /\ UNCHANGED <<devVars, event, readerVars, wireVars, crashed>>

Next ==
  /\ ~crashed
  /\ \/ Main \/ Environment \/ WriterWrites
     \/ EventTaken \/ CallbackDies \/ CallbackTells \/ CallbackStores \/ EventDone
     \/ RequestActiveSource \/ GiveDevicePowerStatus \/ ReaderSends

Spec == Init /\ [][Next]_vars

-----------------------------------------------------------------------------
\* The values of the variables; the callback holds an event all the time.
TypeOK ==
  /\ HostTypeOK
  /\ main \in {"init", "callback", "display", "power", "library", "connection", "open", "running"}
  /\ {callback, opened, conn, connected, unread, lost, late, crashed} \subseteq BOOLEAN
  /\ devPower \in Modes /\ reported \in Modes \cup {None}
  /\ event \in {"idle", "tell", "store", "done"} /\ (event = "idle" <=> handling = None)
  /\ reader \in {"idle", "claim"} \cup Modes /\ wasActive \in BOOLEAN
  /\ queued \in Seq({Inactive}) /\ claim \in {Active, Inactive, None}

\* Nothing is under way.
Quiet ==
  main = "running" /\ events = <<>> /\ event = "idle" /\ reader = "idle" /\ queued = <<>>

\* When nothing is under way, what the TV was last told agrees with the power
\* state of the box.  Three things break it, and nothing else does: the last
\* claim could not be written (Connection.cpp:193), an InActiveSource waited in
\* the queue while the box woke and overtook it (DeviceManager.cpp:345, behind
\* :341), or the reader had found the box active before it went to standby
\* (DeviceManager.cpp:152 and :154).
ClaimAgrees ==
  Quiet /\ claim # None /\ ~lost /\ ~late => (claim = Active <=> mode = On)

\* When nothing is under way, the power state other devices are told is the
\* one of the box, unless main could not read it when it started
\* (DeviceManager.cpp:274, while power events are handled already).
PowerReportAgrees == Quiet /\ ~unread => devPower = mode

\* A power event ends the process only while main has not set conn_, between
\* DeviceManager.cpp:251 and :285; from then on the callback finds a bus that
\* takes its frames.
DiesOnlyAtStart == [][crashed' /\ ~crashed => ~conn]_vars
=============================================================================
