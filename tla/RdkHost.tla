------------------------------ MODULE RdkHost -------------------------------
(***************************************************************************)
(* host/src/RDK.cpp: the host library of an RDK box.  It keeps the power   *)
(* state of the box, the status of the CEC devices and the OSD name, for   *)
(* the process that loaded it and for the other processes of the IARM bus. *)
(*                                                                         *)
(* The threads are the application's, the one on which IARM delivers       *)
(* events one after the other, and one for each remote call.  The power    *)
(* manager and the processes that listen are the environment.  An event    *)
(* reaches a process some time after it was broadcast, in order.           *)
(***************************************************************************)
EXTENDS Integers, Sequences

CONSTANTS
  Devices,     \* the logical addresses _deviceStatus is indexed with
  Names,       \* the OSD names that occur
  NoName,      \* the empty name of a device
  Setters,     \* the threads of the remote calls that set the OSD name
  MaxEvents,   \* bound: power events under way
  MaxTold      \* bound: status events under way

On == "on"
Standby == "standby"
Modes == {On, Standby}
None == "none"

\* None stands for the absence of a name, and the OSD name always has a value.
ASSUME NamesAssumption == /\ Names # {} /\ Names \cap {NoName, None} = {}
                          /\ MaxEvents \in Nat /\ MaxTold \in Nat

NoReply == [state |-> None, ok |-> FALSE, late |-> FALSE]

VARIABLES
  boot,        \* what CECHost_Init has done: off, registered, cached, up
  mode,        \* the power manager's mode
  events,      \* MODECHANGED events sent and not taken yet
  handling,    \* the mode _powerEventHandler is at work on, or None
  powerState,  \* powerState
  reply,       \* what CECHost_GetPowerState was told and has not stored yet
  stale,       \* history: it stored a reply that was overtaken, or none
  devStatus,   \* _deviceStatus
  told,        \* DEVICESTATUSCHANGE events broadcast and not delivered yet
  view,        \* what a process makes of the table it fetched and the events
  asking,      \* its _GetDevStatus is answered and the answer not there yet
  table,       \* that answer
  untold,      \* history: the fields, as <<device, field>>, whose last change
               \* the process was not told
  spoiled,     \* history: the fields that will be so when the answer is there
  osdName,     \* osdName, as its first and its second part
  setting,     \* [s |-> the name thread s is to copy over osdName, or None]
  begun,       \* the threads that have copied the first part
  crossed,     \* history: the last write of osdName overlapped another
  copy,        \* the part a reader of osdName has copied, or None
  given,       \* the name the last reader got
  mixed        \* history: that reader did not have osdName to itself, or met
               \* what two overlapping writes had left

powerVars == <<mode, events, handling, powerState, reply, stale>>
statusVars == <<devStatus, told, view, asking, table, untold, spoiled>>
nameVars == <<osdName, setting, begun, crossed, copy, given, mixed>>
hostVars == <<boot, powerVars, statusVars, nameVars>>

Fields == {"power", "name", "connected"}

Cleared == [power |-> Standby, connected |-> FALSE, name |-> NoName]
Blank == [d \in Devices |-> Cleared]

\* A static array of zeros says that every device is on.
Zeros == [d \in Devices |-> [Cleared EXCEPT !.power = On]]

\* The name before anybody set one.
DefaultName == CHOOSE n \in Names : TRUE

HostInit ==
  /\ boot = "off"
  /\ mode \in Modes /\ events = <<>> /\ handling = None
  /\ powerState = On     \* a static int that is 0
  /\ reply = NoReply /\ stale = FALSE
  /\ devStatus = Zeros /\ told = <<>>
  /\ view = Zeros /\ asking = FALSE /\ table = Blank
  /\ untold = {} /\ spoiled = {}
  /\ osdName = <<DefaultName, DefaultName>>
  /\ setting = [s \in Setters |-> None] /\ begun = {} /\ crossed = FALSE
  /\ copy = None /\ given = osdName /\ mixed = FALSE

-----------------------------------------------------------------------------
(* CECHost_Init, CECHost_Term *)

\* Some fields changed without an event, and others with one.
Notes(silent, heard) ==
  /\ untold' = (untold \ heard) \cup silent
  /\ spoiled' = IF asking THEN (spoiled \ heard) \cup silent ELSE {}

\* Nobody is told that the cache is reset.
ClearStatus ==
  /\ devStatus' = Blank
  /\ Notes({c \in Devices \X Fields : devStatus[c[1]][c[2]] # Cleared[c[2]]}, {})
  /\ UNCHANGED <<told, view, asking, table>>

InitRegister ==
  /\ boot = "off"
  /\ boot' = "registered"
  /\ UNCHANGED <<powerVars, statusVars, nameVars>>

InitCache ==
  /\ boot = "registered"
  /\ boot' = "cached"
  /\ ClearStatus
  /\ UNCHANGED <<powerVars, nameVars>>

\* The last step of CECHost_Init is a CECHost_GetPowerState, below.
Booting == boot = "cached"

\* Events end with the connection to the bus.
Term ==
  /\ boot = "up" /\ reply = NoReply /\ handling = None
  /\ boot' = "off" /\ events' = <<>>
  /\ UNCHANGED <<mode, handling, powerState, reply, stale, statusVars, nameVars>>

-----------------------------------------------------------------------------
(* Power *)

\* Variant: the handlers are registered when CECHost_Init is through.
RegisteredLast == boot = "up"

\* The handlers are registered before the state is asked for.
Registered == boot # "off"

\* The power manager changes its mode, by itself or for CECHost_SetPowerState,
\* and tells every registered process.
ModeChanges(m) ==
  /\ m # mode /\ Len(events) < MaxEvents
  /\ mode' = m
  /\ events' = IF Registered THEN Append(events, m) ELSE events

PowerManager ==
  /\ \E m \in Modes : ModeChanges(m)
  /\ UNCHANGED <<boot, handling, powerState, reply, stale, statusVars, nameVars>>

\* A remote call that may fail, or ask for the mode the box is in.
SetPowerState(state) ==
  /\ boot = "up" /\ ModeChanges(state)
  /\ UNCHANGED <<boot, handling, powerState, reply, stale, statusVars, nameVars>>

\* Variant: a failure leaves the state open.
AnswerOpen(ok) == IF ok THEN mode ELSE "unknown"

\* A failure counts as standby.
Answer(ok) == IF ok THEN mode ELSE Standby

\* The remote call of CECHost_GetPowerState...
Ask ==
  /\ Booting \/ boot = "up"
  /\ reply = NoReply
  /\ \E ok \in BOOLEAN :
       reply' = [state |-> Answer(ok), ok |-> ok, late |-> FALSE]
  /\ UNCHANGED <<boot, mode, events, handling, powerState, stale, statusVars, nameVars>>

\* ... and the assignments that follow.
Store ==
  /\ reply # NoReply
  /\ powerState' = reply.state
  /\ stale' = (reply.late \/ ~reply.ok)
  /\ reply' = NoReply
  /\ boot' = IF Booting THEN "up" ELSE boot
  /\ UNCHANGED <<mode, events, handling, statusVars, nameVars>>

\* _powerEventHandler runs the callback first, and stores the state after it.
PowerEventTaken ==
  /\ handling = None /\ events # <<>>
  /\ handling' = Head(events) /\ events' = Tail(events)
  /\ UNCHANGED <<boot, mode, powerState, reply, stale, statusVars, nameVars>>

PowerEventDone ==
  /\ handling # None
  /\ powerState' = handling /\ handling' = None
  /\ stale' = FALSE
  /\ reply' = IF reply = NoReply THEN NoReply ELSE [reply EXCEPT !.late = TRUE]
  /\ UNCHANGED <<boot, mode, events, statusVars, nameVars>>

\* CECHost_IsActive
IsActive == powerState = On

-----------------------------------------------------------------------------
(* Device status, under devStatMutex *)

\* One device's status after one of the three kinds of change: with the
\* connection go its power state and name.
Changed(status, field, value) ==
  IF field = "connected" /\ ~value THEN Cleared ELSE [status EXCEPT ![field] = value]

\* The values of each kind.
Values(field) ==
  CASE field = "power" -> Modes
    [] field = "name" -> Names
    [] field = "connected" -> BOOLEAN

StatusEvents == UNION {[device : Devices, field : {field}, value : Values(field)] : field \in Fields}

\* The fields, other than the one that is set, that change with it.
TakenAlong(d, field, value) ==
  {d} \X {g \in Fields \ {field} : Changed(devStatus[d], field, value)[g] # devStatus[d][g]}

\* Variant: the broadcast is behind the mutex, and an older one overtakes it.
BroadcastLate(event) == <<event>> \o told

\* The broadcast is made under the mutex, so events are in the order of the
\* changes.  An event is about one field.
Broadcast(event) == Append(told, event)

\* CECHost_SetDeviceStatus: a value the cache has already is no change.  A
\* change is stored and then broadcast; a broadcast that fails is reported to
\* the caller and not undone.
SetDeviceStatus(d, field, value) ==
  /\ boot = "up"
  /\ devStatus[d][field] # value
  /\ devStatus' = [devStatus EXCEPT ![d] = Changed(@, field, value)]
  /\ \/ /\ Len(told) < MaxTold
        /\ told' = Broadcast([device |-> d, field |-> field, value |-> value])
        /\ Notes(TakenAlong(d, field, value), {<<d, field>>})
     \/ /\ UNCHANGED told
        /\ Notes(TakenAlong(d, field, value) \cup {<<d, field>>}, {})
  /\ UNCHANGED <<boot, powerVars, view, asking, table, nameVars>>

\* An event about the field is under way.
Pending(d, field) ==
  \E i \in 1 .. Len(told) : told[i].device = d /\ told[i].field = field

\* The process is delivered an event, and takes the field it names from it.  An
\* answer still to come does not know whether it is the older one.
Hears ==
  /\ told # <<>>
  /\ LET event == Head(told) IN
       /\ view' = [view EXCEPT ![event.device] = [@ EXCEPT ![event.field] = event.value]]
       /\ spoiled' = IF asking THEN spoiled \cup {<<event.device, event.field>>} ELSE {}
  /\ told' = Tail(told)
  /\ UNCHANGED <<boot, powerVars, devStatus, asking, table, untold, nameVars>>

\* _GetDevStatus: the whole table is copied, under the mutex...
GetDevStatus ==
  /\ boot # "off" /\ ~asking
  /\ asking' = TRUE /\ table' = devStatus
  /\ spoiled' = {c \in untold : Pending(c[1], c[2])}
  /\ UNCHANGED <<boot, powerVars, devStatus, told, view, untold, nameVars>>

\* ... and reaches the process that asked.
Learns ==
  /\ asking
  /\ view' = table /\ untold' = spoiled
  /\ asking' = FALSE /\ table' = Blank /\ spoiled' = {}
  /\ UNCHANGED <<boot, powerVars, devStatus, told, nameVars>>

\* _hdmiEventHandler: an unplugged display takes the devices behind it along.
HdmiUnplugged ==
  /\ boot # "off"
  /\ ClearStatus
  /\ UNCHANGED <<boot, powerVars, nameVars>>

-----------------------------------------------------------------------------
(* The OSD name, without a mutex *)

\* Variant: only the first part is copied.
RestOf(name) == osdName[2]

Rest(name) == name

\* _SetOSDName: a name that is not the present one is copied over it, byte after
\* byte.  The comparison changes nothing, so that it is one step.
SetOSDName(s, name) ==
  /\ boot # "off" /\ setting[s] = None
  /\ osdName # <<name, name>>
  /\ setting' = [setting EXCEPT ![s] = name]
  /\ UNCHANGED <<boot, powerVars, statusVars, osdName, begun, crossed, copy, given, mixed>>

SetOSDNameBegins(s) ==
  /\ setting[s] # None /\ s \notin begun
  /\ osdName' = [osdName EXCEPT ![1] = setting[s]]
  /\ begun' = begun \cup {s} /\ crossed' = (begun # {})
  /\ mixed' = (mixed \/ copy # None)
  /\ UNCHANGED <<boot, powerVars, statusVars, setting, copy, given>>

SetOSDNameEnds(s) ==
  /\ s \in begun
  /\ osdName' = [osdName EXCEPT ![2] = Rest(setting[s])]
  /\ begun' = begun \ {s} /\ setting' = [setting EXCEPT ![s] = None]
  /\ UNCHANGED <<boot, powerVars, statusVars, crossed, copy, given, mixed>>

\* CECHost_GetOSDName and _GetOSDName copy it the same way.
GetOSDNameBegins ==
  /\ boot # "off" /\ copy = None
  /\ copy' = osdName[1]
  /\ mixed' = (begun # {} \/ crossed)
  /\ UNCHANGED <<boot, powerVars, statusVars, osdName, setting, begun, crossed, given>>

GetOSDNameEnds ==
  /\ copy # None
  /\ given' = <<copy, osdName[2]>> /\ copy' = None
  /\ UNCHANGED <<boot, powerVars, statusVars, osdName, setting, begun, crossed, mixed>>

-----------------------------------------------------------------------------
\* The calls of an application and of remote processes, and the events.
Status ==
  \/ \E d \in Devices, field \in Fields :
       \E value \in Values(field) : SetDeviceStatus(d, field, value)
  \/ Hears \/ GetDevStatus \/ Learns
  \/ HdmiUnplugged

OSDName ==
  \/ \E s \in Setters :
       \/ \E name \in Names : SetOSDName(s, name)
       \/ SetOSDNameBegins(s)
       \/ SetOSDNameEnds(s)
  \/ GetOSDNameBegins
  \/ GetOSDNameEnds

HostNext ==
  \/ InitRegister \/ InitCache \/ Term
  \/ PowerManager
  \/ \E state \in Modes : SetPowerState(state)
  \/ Ask \/ Store
  \/ PowerEventTaken \/ PowerEventDone
  \/ Status \/ OSDName

HostSpec == HostInit /\ [][HostNext]_hostVars

-----------------------------------------------------------------------------
\* The values of the variables.
HostTypeOK ==
  /\ boot \in {"off", "registered", "cached", "up"}
  /\ mode \in Modes /\ powerState \in Modes /\ stale \in BOOLEAN
  /\ events \in Seq(Modes) /\ Len(events) <= MaxEvents
  /\ handling \in Modes \cup {None}
  /\ reply \in {NoReply} \cup [state : Modes, ok : BOOLEAN, late : BOOLEAN]
  /\ {devStatus, view, table} \subseteq
       [Devices -> [power : Modes, connected : BOOLEAN, name : Names \cup {NoName}]]
  /\ told \in Seq(StatusEvents) /\ Len(told) <= MaxTold
  /\ asking \in BOOLEAN /\ untold \cup spoiled \subseteq Devices \X Fields
  /\ osdName \in Names \X Names /\ given \in Names \X Names
  /\ setting \in [Setters -> Names \cup {None}] /\ begun \subseteq Setters
  /\ copy \in Names \cup {None} /\ crossed \in BOOLEAN /\ mixed \in BOOLEAN

\* Once every event is handled and no answer is awaited, the box knows its
\* power state: what CECHost_IsActive says is the power manager's mode, unless
\* the last answer was a failure or one an event overtook between the remote
\* call and the assignment (RDK.cpp:236 and :239, against :496).
PowerAgrees ==
  boot = "up" /\ events = <<>> /\ handling = None /\ reply = NoReply /\ ~stale
    => powerState = mode

\* A process that took the table once and then follows the events knows every
\* field of every device, as soon as no event about it is under way, unless the
\* last change of the field had no event: the broadcast failed (RDK.cpp:269), the
\* table was cleared (RDK.cpp:468), or the device disconnected, which the event
\* says of the connection only while its power state and name go too
\* (RDK.cpp:291 to :299).  Fetching the table again mends that, but for the
\* fields that had an event under way when it was copied, and for those whose
\* event overtook the copy or which changed without one meanwhile.
ViewAgrees ==
  \A d \in Devices, field \in Fields :
    <<d, field>> \notin untold /\ ~Pending(d, field) => view[d][field] = devStatus[d][field]

\* A reader of the OSD name gets a name somebody set, and never the beginning
\* of one and the end of another, unless one was being written while it was
\* read, or the last two that were written overlapped each other and nobody has
\* written since (RDK.cpp:411 takes no mutex).
NameWhole == copy = None /\ ~mixed => given[1] = given[2]
=============================================================================
