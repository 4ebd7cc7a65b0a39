----------------------------- MODULE MCCecDaemon -----------------------------
(***************************************************************************)
(* Two clients of the daemon that open and close as they like: one makes   *)
(* every kind of call, frames are delivered to the other.                  *)
(***************************************************************************)
EXTENDS CecDaemon

CONSTANTS tuner, player

TwoClients == {tuner, player}
Tuner == {tuner}
Player == {player}
MCOwn == [c \in TwoClients |-> IF c = tuner THEN 4 ELSE 8]
MCFrames == {Frame(4, 0, "other"), Frame(8, Broadcast, "rpa"), Frame(4, Broadcast, "other")}
MCAnswers == {HalAnswer("SUCCESS", "SENT_AND_ACKD"), HalAnswer("SUCCESS", "SENT_BUT_NOT_ACKD"),
              HalAnswer("SUCCESS", "SENT_FAILED"), HalAnswer("GENERAL_ERROR", "SUCCESS")}
MCAddErrors == {"SUCCESS", "LOGICALADDRESS_UNAVAILABLE", "INVALID_STATE"}
MCLogicals == {Zero, "4"}
=============================================================================
