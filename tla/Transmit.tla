------------------------------ MODULE Transmit ------------------------------
(***************************************************************************)
(* What becomes of one frame, and of one call about addresses, on the way  *)
(* from a Connection through LibCCEC and DriverImpl to the HAL: how the    *)
(* HAL's codes are classified (ccec/src/DriverImpl.cpp), what the          *)
(* library adds (LibCCEC.cpp) and what a Connection lets through           *)
(* (Connection.cpp).                                                       *)
(*                                                                         *)
(* A frame is its two addresses and the one opcode the code asks about.    *)
(* An outcome is "ok", the name of the exception, or the value returned.   *)
(***************************************************************************)
EXTENDS Naturals

\* LogicalAddress::BROADCAST and UNREGISTERED are the same nibble.
Broadcast == 15
Unregistered == 15

\* A logical address that the HAL returns is a value of its own; this is 0.
Zero == "0"

\* The codes of hdmi_cec_driver.h.
HalCodes == {"SUCCESS", "SENT_AND_ACKD", "SENT_BUT_NOT_ACKD", "SENT_FAILED",
             "INVALID_STATE", "INVALID_ARGUMENT", "LOGICALADDRESS_UNAVAILABLE",
             "GENERAL_ERROR"}

\* What HdmiCecTx answers: its return value and *result.
HalAnswer(err, result) == [err |-> err, result |-> result]

\* "none" is a frame of a header only, "rpa" is REPORT_PHYSICAL_ADDRESS.
Frame(from, to, op) == [from |-> from, to |-> to, op |-> op]
Frames == [from : 0 .. 15, to : 0 .. 15, op : {"none", "rpa", "other"}]

-----------------------------------------------------------------------------
(* DriverImpl *)

Refusals == {"INVALID_STATE", "INVALID_ARGUMENT", "LOGICALADDRESS_UNAVAILABLE",
             "SENT_FAILED", "GENERAL_ERROR"}

\* A broadcast is never acknowledged; the one whose negative acknowledge
\* counts is the report of a physical address (CEC CTS 9-3-3).
NeedsAck(frame) == frame.to # Broadcast \/ frame.op = "rpa"

WriteOutcome(open, frame, answer) ==
  CASE ~open -> "InvalidStateException"
    [] open /\ (answer.err # "SUCCESS" \/ answer.result \in Refusals) -> "IOException"
    [] OTHER -> IF answer.result = "SENT_BUT_NOT_ACKD" /\ NeedsAck(frame)
                THEN "CECNoAckException" ELSE "ok"

\* poll() writes a header with no block behind it.
PollFrame(from, to) == Frame(from, to, "none")

\* Two of the HAL's codes are an error; all others count as success.
AddOutcome(open, err) ==
  CASE ~open -> "InvalidStateException"
    [] open /\ err = "LOGICALADDRESS_UNAVAILABLE" -> "AddressNotAvailableException"
    [] open /\ err = "GENERAL_ERROR" -> "IOException"
    [] OTHER -> "ok"

\* Variant: the address is not put on the list.
ListedNever(list, address, open, err) == list

\* An address that was added is listed, and the list outlives close().
Listed(list, address, open, err) ==
  IF AddOutcome(open, err) = "ok" THEN list \cup {address} ELSE list

IsValidLogicalAddress(list, source) == source \in list

\* The HAL's return value is ignored: a call that failed leaves the zero that
\* logicalAddress was initialised with, and *physicalAddress as it was.
DriverLogicalAddress(err, value) == IF err = "SUCCESS" THEN value ELSE Zero
DriverPhysicalAddress(err, value) == IF err = "SUCCESS" THEN value ELSE "unset"

-----------------------------------------------------------------------------
(* LibCCEC *)

LibAddOutcome(initialized, open, err) ==
  IF initialized THEN AddOutcome(open, err) ELSE "InvalidStateException"

\* Address zero is the TV's, and is taken for no address.
LogicalOutcome(initialized, err, value) ==
  LET address == DriverLogicalAddress(err, value) IN
  IF initialized /\ address # Zero THEN address ELSE "InvalidStateException"

PhysicalOutcome(initialized, err, value) ==
  IF initialized THEN DriverPhysicalAddress(err, value) ELSE "InvalidStateException"

-----------------------------------------------------------------------------
(* Connection *)

\* sendTo() and sendToAsync() put a header before the blocks they are given.
FullFrame(source, to, op) == Frame(source, to, op)

\* Variant: the source need not be an address of this device.
MatchSourceAlways(frame, source, list) == [frame EXCEPT !.from = source]

\* The initiator is overwritten only with an address that is listed.
MatchSource(frame, source, list) ==
  IF IsValidLogicalAddress(list, source) THEN [frame EXCEPT !.from = source] ELSE frame

\* send() with a Throw_e, poll() and ping() rethrow; send() without drops the
\* exception, so its caller is told that all is well.
SendOutcome(doThrow, outcome) == IF doThrow THEN outcome ELSE "ok"
=============================================================================
