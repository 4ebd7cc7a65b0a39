------------------------------- MODULE IarmHal -------------------------------
(***************************************************************************)
(* ccec/drivers/iarmbus/hdmi_cec_driver.c: the HAL as a process that does  *)
(* not own the hardware sees it, each call a message to the CEC daemon.    *)
(* A client is such a process, with the DriverImpl above the adapter.      *)
(*                                                                         *)
(* DriverMutex, and the mutex of DriverImpl above it, is held over every   *)
(* call, so a client has one call at a time.  The handler of received      *)
(* frames runs on the IARM bus's thread and takes neither.                 *)
(***************************************************************************)
EXTENDS Transmit, Sequences

CONSTANTS Clients,
          Own,        \* the source of each client's connection
          Senders,    \* bound: the clients whose applications make calls
          Receivers,  \* bound: the clients that frames are delivered to
          SentFrames, \* the frames an application sends
          MaxEvents,  \* bound: events on their way to the daemon
          NoFrame

ASSUME ClientAssumption == /\ Own \in [Clients -> 0 .. 14] /\ MaxEvents \in Nat
                           /\ Senders \cup Receivers \subseteq Clients
                           /\ SentFrames \subseteq Frames

VARIABLES at,         \* how far HdmiCecOpen or HdmiCecClose has got
          ctx,        \* driverCtx: "none", "raw" (rxCB never set) or "set"
          registered, \* is cecRecvEventHandler registered?
          listed,     \* DriverImpl::logicalAddresses
          call,       \* the call a client is in, and how far that has got
          frame,      \* the frame it sends
          pending,    \* has the IARM bus a received frame for the client?
          handling,   \* is the handler running?
          edge,       \* history: an open or close was under way meanwhile
          ended,      \* the process dereferenced no context
          events,     \* what the IARM bus has for the daemon, in order
          asked       \* history: what the last ENABLE event said

clientVars == <<at, ctx, registered, listed, call, frame, pending, handling, edge,
                ended, events, asked>>

ClientInit == /\ at = [c \in Clients |-> "closed"]
              /\ ctx = [c \in Clients |-> "none"]
              /\ registered = [c \in Clients |-> FALSE]
              /\ listed = [c \in Clients |-> {}]
              /\ call = [c \in Clients |-> "none"]
              /\ frame = [c \in Clients |-> NoFrame]
              /\ pending = [c \in Clients |-> FALSE]
              /\ handling = [c \in Clients |-> FALSE]
              /\ edge = [c \in Clients |-> FALSE]
              /\ ended = [c \in Clients |-> FALSE]
              /\ events = <<>>
              /\ asked = FALSE

\* IARM_Bus_BroadcastEvent: the bus keeps the order of the events.
Broadcasts(e) == Len(events) < MaxEvents /\ events' = Append(events, e)

Goes(c, from, to) == /\ ~ended[c] /\ call[c] = "none"
                     /\ at[c] = from /\ at' = [at EXCEPT ![c] = to]

-----------------------------------------------------------------------------
(* HdmiCecOpen, then HdmiCecSetRxCallback, called by DriverImpl::open *)

OpenRegisters(c) ==
  /\ Goes(c, "closed", "registered")
  /\ Broadcasts("enable") /\ asked' = TRUE
  /\ registered' = [registered EXCEPT ![c] = TRUE]
  /\ UNCHANGED <<ctx, listed, call, frame, pending, handling, edge, ended>>

OpenAllocates(c) ==
  /\ Goes(c, "registered", "allocated")
  /\ ctx' = [ctx EXCEPT ![c] = "raw"]
  /\ UNCHANGED <<registered, listed, call, frame, pending, handling, edge, ended,
                 events, asked>>

SetRxCallback(c) ==
  /\ Goes(c, "allocated", "open")
  /\ ctx' = [ctx EXCEPT ![c] = "set"]
  /\ UNCHANGED <<registered, listed, call, frame, pending, handling, edge, ended,
                 events, asked>>

-----------------------------------------------------------------------------
(* HdmiCecClose.  The addresses stay listed. *)

CloseDisables(c) ==
  /\ Goes(c, "open", "closing")
  /\ Broadcasts("disable") /\ asked' = FALSE
  /\ edge' = [edge EXCEPT ![c] = TRUE]
  /\ UNCHANGED <<ctx, registered, listed, call, frame, pending, handling, ended>>

\* Variant: the handler stays registered.
CloseLeavesHandler(c) ==
  /\ Goes(c, "closing", "unregistered")
  /\ UNCHANGED <<ctx, registered, listed, call, frame, pending, handling, edge,
                 ended, events, asked>>

CloseUnregisters(c) ==
  /\ Goes(c, "closing", "unregistered")
  /\ registered' = [registered EXCEPT ![c] = FALSE]
  /\ UNCHANGED <<ctx, listed, call, frame, pending, handling, edge, ended, events,
                 asked>>

CloseFrees(c) ==
  /\ Goes(c, "unregistered", "closed")
  /\ ctx' = [ctx EXCEPT ![c] = "none"]
  /\ UNCHANGED <<registered, listed, call, frame, pending, handling, edge, ended,
                 events, asked>>

OpenOrClose(c) == \/ OpenRegisters(c) \/ OpenAllocates(c) \/ SetRxCallback(c)
                  \/ CloseDisables(c) \/ CloseUnregisters(c) \/ CloseFrees(c)

-----------------------------------------------------------------------------
(* cecRecvEventHandler *)

\* The bus calls the handler it finds registered; it has one thread.
HandlerEntered(c) ==
  /\ ~ended[c] /\ ~handling[c] /\ pending[c]
  /\ pending' = [pending EXCEPT ![c] = FALSE]
  /\ handling' = [handling EXCEPT ![c] = registered[c]]
  /\ edge' = [edge EXCEPT ![c] = at[c] \notin {"open", "closed"}]
  /\ UNCHANGED <<at, ctx, registered, listed, call, frame, ended, events, asked>>

\* if (driverCtx->rxCB) driverCtx->rxCB(...): DriverReceiveCallback, whose
\* own part is DriverImpl!ReceiveCheck.  With the context allocated and not
\* filled in, the test is of whatever malloc left there.
HandlerReturns(c) ==
  /\ handling[c] /\ ctx[c] # "none"
  /\ handling' = [handling EXCEPT ![c] = FALSE]
  /\ UNCHANGED <<at, ctx, registered, listed, call, frame, pending, edge, ended,
                 events, asked>>

HandlerFaults(c) ==
  /\ handling[c] /\ ctx[c] # "set"
  /\ ended' = [ended EXCEPT ![c] = TRUE]
  /\ UNCHANGED <<at, ctx, registered, listed, call, frame, pending, handling, edge,
                 events, asked>>

-----------------------------------------------------------------------------
(* Calls of an open client: the first half, up to the message to the daemon *)

Calls(c, op) == /\ ~ended[c] /\ at[c] = "open" /\ call[c] = "none"
                /\ call' = [call EXCEPT ![c] = op]

\* HdmiCecTx under Connection::send: the source is matched first.
Tx(c, f) ==
  /\ Calls(c, "send")
  /\ frame' = [frame EXCEPT ![c] = MatchSource(f, Own[c], listed[c])]
  /\ UNCHANGED <<at, ctx, registered, listed, pending, handling, edge, ended, events,
                 asked>>

\* HdmiCecTx under Connection::poll and ping, which leave the source alone.
Poll(c, to) ==
  /\ Calls(c, "send")
  /\ frame' = [frame EXCEPT ![c] = PollFrame(Own[c], to)]
  /\ UNCHANGED <<at, ctx, registered, listed, pending, handling, edge, ended, events,
                 asked>>

\* HdmiCecAddLogicalAddress, HdmiCecGetLogicalAddress, HdmiCecGetPhysicalAddress
AsksAbout(c, op) ==
  /\ op \in {"add", "logical", "physical"}
  /\ Calls(c, op)
  /\ UNCHANGED <<at, ctx, registered, listed, frame, pending, handling, edge, ended,
                 events, asked>>

\* HdmiCecTxAsync sends an event and returns.
TxAsync(c) ==
  /\ ~ended[c] /\ at[c] = "open" /\ call[c] = "none"
  /\ Broadcasts("send")
  /\ UNCHANGED <<at, ctx, registered, listed, call, frame, pending, handling, edge,
                 ended, asked>>

Begins(c) == /\ c \in Senders
             /\ \/ \E f \in SentFrames : Tx(c, f) \/ Tx(c, FullFrame(Own[c], f.to, f.op))
                \/ Poll(c, Own[c]) \/ Poll(c, 0)
                \/ \E op \in {"add", "logical", "physical"} : AsksAbout(c, op)
                \/ TxAsync(c)

-----------------------------------------------------------------------------
(* ... and what the adapter makes of the daemon's answer.  A call that did  *)
(* not reach the daemon's function, or that it refused, is INVALID_STATE.   *)

RpcCode(reached) == IF reached THEN "SUCCESS" ELSE "INVALID_STATE"

TxAnswer(reached, retVal) == HalAnswer(RpcCode(reached), retVal)
=============================================================================
