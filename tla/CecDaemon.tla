------------------------------ MODULE CecDaemon ------------------------------
(***************************************************************************)
(* daemon/src/CecIARMBusMgr.cpp: the process that owns the hardware, and   *)
(* with it the clients of IarmHal.  Its library is CecLibrary, which       *)
(* LibCCEC implements.                                                     *)
(*                                                                         *)
(* The IARM bus runs the event handlers one after the other on one thread, *)
(* and each call of a client on a thread of its own.  start() and stop()   *)
(* hold the daemon's mutex; the functions behind the clients' calls do     *)
(* not, and neither does the listener.                                     *)
(*                                                                         *)
(* An exception that leaves a function the bus called ends the daemon.     *)
(***************************************************************************)
EXTENDS IarmHal

CONSTANTS HalAnswers,  \* what HdmiCecTx may answer
          AddErrors,   \* what HdmiCecAddLogicalAddress may answer
          Logicals,    \* what HdmiCecGetLogicalAddress may find
          Physical     \* what HdmiCecGetPhysicalAddress finds

ASSUME HardwareAssumption == /\ AddErrors \subseteq HalCodes
                             /\ \A a \in HalAnswers : /\ a.err \in HalCodes
                                                      /\ a.result \in HalCodes

VARIABLES initialized, driver, \* of the daemon's LibCCEC
          doing,       \* how far start() or stop() has got
          started,     \* CECIARMMgr::started
          published,   \* is m_connection set?
          connection,  \* does the object it points to exist?
          listening,   \* is the connection open, with the frame listener added?
          addresses,   \* DriverImpl::logicalAddresses
          dead,        \* the daemon has ended
          told,        \* what a call of each client was answered
          direct,      \* history: what it would have been told by the hardware
          wire,        \* history: the frame that reached the hardware
          accepted, masked \* history: addresses the hardware took, and those
                           \* of which an error was taken for a success

managerVars == <<doing, started, published, connection, listening>>
answerVars == <<told, direct, wire>>
addressVars == <<addresses, accepted, masked>>
libVars == <<initialized, driver>>
vars == <<clientVars, libVars, managerVars, addressVars, dead, answerVars>>

Lib == INSTANCE CecLibrary

\* init(): the calls and handlers are registered, and nothing is started.
Init == /\ ClientInit
        /\ Lib!Init
        /\ doing = "nothing"
        /\ started = FALSE /\ published = FALSE
        /\ connection = FALSE /\ listening = FALSE
        /\ dead = FALSE
        /\ addresses = {} /\ accepted = {} /\ masked = {}
        /\ told = [c \in Clients |-> "none"]
        /\ direct = [c \in Clients |-> "none"]
        /\ wire = [c \in Clients |-> NoFrame]

Ends == dead' = TRUE

Does(from, to) == ~dead /\ doing = from /\ doing' = to

-----------------------------------------------------------------------------
(* The event thread.  ENABLE: _Enable, start() and stop() *)

TakesEvent(e) == /\ ~dead /\ doing = "nothing"
                 /\ events # <<>> /\ Head(events) = e
                 /\ events' = Tail(events)

EventRest == <<at, ctx, registered, listed, call, frame, pending, handling, edge, ended,
               asked, libVars, started, published, connection, listening, addressVars,
               answerVars>>

\* start() of a manager that is started, and stop() of one that is not,
\* return INVALID_STATE, which nobody looks at.
EnableBegins ==
  /\ TakesEvent("enable")
  /\ doing' = IF started THEN "nothing" ELSE "init"
  /\ UNCHANGED <<EventRest, dead>>

DisableBegins ==
  /\ TakesEvent("disable")
  /\ doing' = IF started THEN "unlisten" ELSE "nothing"
  /\ UNCHANGED <<EventRest, dead>>

\* LibCCEC::init; no handler catches what it throws.
StartOpens ==
  /\ Does("init", "initDone")
  /\ Lib!Open
  /\ UNCHANGED <<clientVars, started, published, connection, listening, addressVars,
                 dead, answerVars>>

StartFails ==
  /\ Does("init", "nothing")
  /\ Ends
  /\ UNCHANGED <<clientVars, libVars, started, published, connection, listening,
                 addressVars, answerVars>>

StartInitialized ==
  /\ Does("initDone", "connect")
  /\ Lib!InitDone
  /\ UNCHANGED <<clientVars, started, published, connection, listening, addressVars,
                 dead, answerVars>>

StartConnects ==
  /\ Does("connect", "publish")
  /\ connection' = TRUE /\ listening' = TRUE
  /\ UNCHANGED <<clientVars, libVars, started, published, addressVars, dead, answerVars>>

StartPublishes ==
  /\ Does("publish", "nothing")
  /\ published' = TRUE /\ started' = TRUE
  /\ UNCHANGED <<clientVars, libVars, connection, listening, addressVars, dead, answerVars>>

StopUnlistens ==
  /\ Does("unlisten", "unpublish")
  /\ listening' = FALSE
  /\ UNCHANGED <<clientVars, libVars, started, published, connection, addressVars, dead,
                 answerVars>>

\* Variant: the pointer is not cleared before the object goes.
StopKeepsPointer ==
  /\ Does("unpublish", "delete")
  /\ UNCHANGED <<clientVars, libVars, started, published, connection, listening,
                 addressVars, dead, answerVars>>

StopUnpublishes ==
  /\ Does("unpublish", "delete")
  /\ published' = FALSE
  /\ UNCHANGED <<clientVars, libVars, started, connection, listening, addressVars, dead,
                 answerVars>>

StopDeletes ==
  /\ Does("delete", "term")
  /\ connection' = FALSE
  /\ UNCHANGED <<clientVars, libVars, started, published, listening, addressVars, dead,
                 answerVars>>

StopCloses ==
  /\ Does("term", "termDone")
  /\ Lib!Close
  /\ UNCHANGED <<clientVars, started, published, connection, listening, addressVars,
                 dead, answerVars>>

\* LibCCEC::term throws with the connection gone and started still set.
StopFails ==
  /\ Does("term", "nothing")
  /\ Lib!CloseFails
  /\ Ends
  /\ UNCHANGED <<clientVars, started, published, connection, listening, addressVars,
                 answerVars>>

\* Variant: started is not reset.
StopTerminatedOnly ==
  /\ Does("termDone", "nothing")
  /\ Lib!TermDone
  /\ UNCHANGED <<clientVars, started, published, connection, listening, addressVars,
                 dead, answerVars>>

StopTerminated ==
  /\ Does("termDone", "nothing")
  /\ Lib!TermDone
  /\ started' = FALSE
  /\ UNCHANGED <<clientVars, published, connection, listening, addressVars, dead,
                 answerVars>>

\* SEND: the frame is queued; Bus::sendAsync throws when the bus is stopped.
SendEvent ==
  /\ TakesEvent("send")
  /\ dead' = (published /\ ~initialized)
  /\ UNCHANGED <<EventRest, doing>>

Manages == \/ EnableBegins \/ DisableBegins \/ SendEvent
           \/ StartOpens \/ StartFails \/ StartInitialized
           \/ StartConnects \/ StartPublishes
           \/ StopUnlistens \/ StopUnpublishes \/ StopDeletes
           \/ StopCloses \/ StopFails \/ StopTerminated

-----------------------------------------------------------------------------
(* The listener: each frame received goes to all clients. *)

Notify ==
  /\ ~dead /\ listening /\ driver = "open"
  /\ pending' = [c \in Clients |-> c \in Receivers]
  /\ UNCHANGED <<at, ctx, registered, listed, call, frame, handling, edge, ended, events,
                 asked, libVars, managerVars, addressVars, dead, answerVars>>

-----------------------------------------------------------------------------
(* The calls.  An answer waits at "answered" for the client to take it. *)

CallRest == <<at, ctx, registered, frame, pending, handling, edge, ended, events, asked,
              libVars, managerVars>>

Answers(c, op, outcome) == /\ call[c] = op
                           /\ call' = [call EXCEPT ![c] = "answered"]
                           /\ told' = [told EXCEPT ![c] = outcome]

WouldTell(c, outcome) == direct' = [direct EXCEPT ![c] = outcome]

\* _Send.  m_connection is tested ...
SendTests(c) ==
  /\ ~dead /\ published
  /\ call[c] = "send" /\ call' = [call EXCEPT ![c] = "sending"]
  /\ UNCHANGED <<CallRest, listed, addressVars, dead, answerVars>>

\* ... or the call is refused, by the test or for want of a daemon, ...
SendRefused(c) ==
  /\ dead \/ ~published
  /\ Answers(c, "send", WriteOutcome(TRUE, frame[c], TxAnswer(FALSE, "SUCCESS")))
  /\ UNCHANGED <<CallRest, listed, addressVars, dead, direct, wire>>

\* Variant: no difference is made between the exceptions.
SendReplyFails(outcome) == IF outcome = "ok" THEN "SENT_AND_ACKD" ELSE "SENT_FAILED"

SendReply(outcome) == CASE outcome = "ok" -> "SENT_AND_ACKD"
                        [] outcome = "CECNoAckException" -> "SENT_BUT_NOT_ACKD"
                        [] OTHER -> "SENT_FAILED"

\* ... and the connection is used.  Its own source is UNREGISTERED.
SendUses(c) ==
  /\ ~dead /\ call[c] = "sending"
  /\ LET out == MatchSource(frame[c], Unregistered, addresses)
         Replies(outcome) ==
           Answers(c, "sending", WriteOutcome(TRUE, frame[c],
                                              TxAnswer(TRUE, SendReply(outcome))))
     IN IF initialized /\ driver = "open"
        THEN /\ wire' = [wire EXCEPT ![c] = out]
             /\ \E a \in HalAnswers : /\ Replies(SendOutcome(TRUE, WriteOutcome(TRUE, out, a)))
                                      /\ WouldTell(c, WriteOutcome(TRUE, frame[c], a))
        ELSE Replies("InvalidStateException") /\ UNCHANGED <<wire, direct>>
  /\ UNCHANGED <<CallRest, listed, addressVars, dead>>

\* The connection that was tested is deleted by now: what SendUses does with
\* the freed object, or the end of the daemon.
SendFaults(c) ==
  /\ ~dead /\ call[c] = "sending" /\ ~connection
  /\ Ends
  /\ UNCHANGED <<CallRest, call, listed, addressVars, answerVars>>

SendBroken(c) ==
  /\ dead
  /\ Answers(c, "sending", WriteOutcome(TRUE, frame[c], TxAnswer(FALSE, "SUCCESS")))
  /\ UNCHANGED <<CallRest, listed, addressVars, dead, direct, wire>>

-----------------------------------------------------------------------------
(* _AddLogicalAddress, _GetLogicalAddress and _GetPhysicalAddress *)

\* Variant: what is caught is not reported.
ReachedAnyway(outcome) == TRUE

\* An exception, caught, is the refusal of the call.
Reached(outcome) == outcome \notin {"InvalidStateException", "IOException",
                                    "AddressNotAvailableException"}

AddLogicalAddress(c) ==
  \E err \in AddErrors :
    LET here == IF dead THEN "InvalidStateException"
                ELSE LibAddOutcome(initialized, driver = "open", err)
        code == RpcCode(Reached(here))
        asks == ~dead /\ initialized /\ driver = "open"
        own == {Own[c]}
    IN /\ Answers(c, "add", AddOutcome(TRUE, code))
       /\ listed' = [listed EXCEPT ![c] = Listed(@, Own[c], TRUE, code)]
       /\ addresses' = IF asks THEN Listed(addresses, Own[c], TRUE, err) ELSE addresses
       /\ accepted' = IF asks /\ err = "SUCCESS" THEN accepted \cup own ELSE accepted
       /\ masked' = IF code # "SUCCESS" \/ err \notin {"SUCCESS", "GENERAL_ERROR",
                                                        "LOGICALADDRESS_UNAVAILABLE"}
                    THEN masked \cup own ELSE masked
       /\ IF asks THEN WouldTell(c, LibAddOutcome(TRUE, TRUE, err)) ELSE UNCHANGED direct
       /\ UNCHANGED <<CallRest, dead, wire>>

\* An address of the TV's, which is zero, cannot be told from none.
GetLogicalAddress(c) ==
  \E found \in Logicals :
    LET here == IF dead THEN "InvalidStateException"
                ELSE LogicalOutcome(initialized, "SUCCESS", found)
        code == RpcCode(~dead /\ initialized /\ found # Zero)
    IN /\ Answers(c, "logical", LogicalOutcome(TRUE, code, found))
       /\ IF ~dead /\ initialized THEN WouldTell(c, here) ELSE UNCHANGED direct
       /\ UNCHANGED <<CallRest, listed, addressVars, dead, wire>>

GetPhysicalAddress(c) ==
  LET reached == ~dead /\ initialized IN
  /\ Answers(c, "physical", PhysicalOutcome(TRUE, RpcCode(reached), Physical))
  /\ IF reached THEN WouldTell(c, Physical) ELSE UNCHANGED direct
  /\ UNCHANGED <<CallRest, listed, addressVars, dead, wire>>

\* The client goes on.
Returns(c) ==
  /\ call[c] = "answered"
  /\ call' = [call EXCEPT ![c] = "none"]
  /\ told' = [told EXCEPT ![c] = "none"]
  /\ direct' = [direct EXCEPT ![c] = "none"]
  /\ wire' = [wire EXCEPT ![c] = NoFrame]
  /\ frame' = [frame EXCEPT ![c] = NoFrame]
  /\ UNCHANGED <<at, ctx, registered, listed, pending, handling, edge, ended, events,
                 asked, libVars, managerVars, addressVars, dead>>

Serves(c) == \/ SendTests(c) \/ SendRefused(c) \/ SendUses(c)
             \/ SendFaults(c) \/ SendBroken(c)
             \/ AddLogicalAddress(c) \/ GetLogicalAddress(c) \/ GetPhysicalAddress(c)
             \/ Returns(c)

-----------------------------------------------------------------------------

ClientStep(c) == /\ \/ OpenOrClose(c) \/ Begins(c)
                    \/ HandlerEntered(c) \/ HandlerReturns(c) \/ HandlerFaults(c)
                 /\ UNCHANGED <<libVars, managerVars, addressVars, dead, answerVars>>

Next == Manages \/ Notify \/ \E c \in Clients : ClientStep(c) \/ Serves(c)

Spec == Init /\ [][Next]_vars

-----------------------------------------------------------------------------
(* Properties *)

Outcomes == {"none", "ok", "InvalidStateException", "IOException", "CECNoAckException",
             "AddressNotAvailableException", "unset", Physical} \cup Logicals

Wires == {NoFrame} \cup Frames

\* Every variable stays in its type, and a daemon that has ended answers no
\* more than that the call failed.
TypeOK ==
  /\ at \in [Clients -> {"closed", "registered", "allocated", "open", "closing",
                          "unregistered"}]
  /\ ctx \in [Clients -> {"none", "raw", "set"}]
  /\ registered \in [Clients -> BOOLEAN] /\ pending \in [Clients -> BOOLEAN]
  /\ handling \in [Clients -> BOOLEAN] /\ edge \in [Clients -> BOOLEAN]
  /\ ended \in [Clients -> BOOLEAN]
  /\ listed \in [Clients -> SUBSET (0 .. 15)] /\ addresses \subseteq 0 .. 15
  /\ accepted \subseteq addresses /\ masked \subseteq 0 .. 15
  /\ call \in [Clients -> {"none", "send", "sending", "add", "logical", "physical",
                            "answered"}]
  /\ frame \in [Clients -> Wires] /\ wire \in [Clients -> Wires]
  /\ events \in Seq({"enable", "disable", "send"}) /\ Len(events) <= MaxEvents
  /\ told \in [Clients -> Outcomes] /\ direct \in [Clients -> Outcomes]
  /\ doing \in {"nothing", "init", "initDone", "connect", "publish", "unlisten",
                "unpublish", "delete", "term", "termDone"}
  /\ {asked, started, published, connection, listening, dead} \subseteq BOOLEAN
  /\ Lib!TypeOK

\* A call that reached the hardware is told in the client what a process that
\* owns the hardware would be told, for every answer of the HAL and through
\* two DriverImpls and two adapters of codes to exceptions and back, even if
\* stop() ran meanwhile.  One that did not is told of a failure, but for
\* getPhysicalAddress, whose caller is told nothing, and for addLogicalAddress,
\* whose errors DriverImpl masks.
OutcomeAgrees ==
  \A c \in Clients :
    told[c] # "none" =>
      \/ told[c] = direct[c]
      \/ direct[c] = "none" /\ told[c] \in {"IOException", "InvalidStateException", "unset"}
      \/ frame[c] = NoFrame /\ told[c] = "ok" /\ Own[c] \in masked

\* The initiator on the wire is the one the client sent with, although the
\* daemon's own connection matches the source of every frame too.
InitiatorKept == \A c \in Clients : wire[c] # NoFrame => wire[c] = frame[c]

\* Once the events are handled, the daemon is up exactly when the last ENABLE
\* of any client said so: no sequence of opens and closes wedges it.
DaemonFollowsLast == ~dead /\ events = <<>> /\ doing = "nothing" => started = asked

\* m_connection, which calls and the SEND handler test without the mutex,
\* is only set while the connection exists and the library is up; a call can
\* meet a deleted connection only if its own test came before stop() cleared
\* the pointer.
PublishedIsReady == ~dead /\ published => connection /\ initialized /\ driver = "open"

\* The receive handler, which takes no lock, meets a context that is missing or
\* not filled in only if an open or a close of this client was under way at
\* some time while it ran.
ReceiveFaultsOnlyAtEdges ==
  \A c \in Clients : handling[c] /\ ctx[c] # "set" => edge[c]

\* Each address a client has listed, and so puts in the header of its frames,
\* the hardware has accepted, unless it is one of which a layer took an error
\* code for success.
ListedWasAccepted == \A c \in Clients : listed[c] \subseteq accepted \cup masked
=============================================================================
