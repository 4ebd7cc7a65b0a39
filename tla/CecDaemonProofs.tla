--------------------------- MODULE CecDaemonProofs ---------------------------
(***************************************************************************)
(* For any clients, addresses, frames and answers of the hardware: the     *)
(* daemon follows its clients, what it publishes is ready, what a client   *)
(* is told agrees with the hardware, and the receive handler is only in    *)
(* danger at the edges.                                                    *)
(*                                                                         *)
(* Three parts of the state do not disturb each other and have invariants  *)
(* of their own: the daemon's start() and stop() with the events (Manager),*)
(* a client's open and close with its handler (Opening), and its calls     *)
(* with their answers (Calling).                                           *)
(***************************************************************************)
EXTENDS CecDaemon, SequenceTheorems, TLAPS

-----------------------------------------------------------------------------
(* The event thread *)

Up == initialized /\ driver = "open"
Down == ~initialized /\ driver = "closed"

\* How far start() or stop() has got, and what that means for the library and
\* for m_connection.
Phase ==
  /\ doing = "nothing" => (IF started THEN published /\ connection /\ Up
                                      ELSE ~published /\ Down)
  /\ doing = "init" => ~started /\ ~published /\ Down
  /\ doing = "initDone" => ~started /\ ~published /\ ~initialized /\ driver = "open"
  /\ doing = "connect" => ~started /\ ~published /\ Up
  /\ doing = "publish" => ~started /\ ~published /\ connection /\ Up
  /\ doing \in {"unlisten", "unpublish"} => started /\ published /\ connection /\ Up
  /\ doing \in {"delete", "term"} => started /\ ~published /\ Up
  /\ doing = "termDone" => started /\ ~published /\ initialized /\ driver = "closed"

\* Is the daemon up once what it is doing is done?
Target == IF doing = "nothing" THEN started
          ELSE doing \in {"init", "initDone", "connect", "publish"}

\* The last ENABLE or DISABLE among the events s is what was asked last, and
\* with none of them left that is the target.
LastDecides(s, last, target) ==
  /\ \A k \in 1 .. Len(s) :
       s[k] # "send" /\ (\A j \in k + 1 .. Len(s) : s[j] = "send")
         => last = (s[k] = "enable")
  /\ (\A k \in 1 .. Len(s) : s[k] = "send") => last = target

Settled == LastDecides(events, asked, Target)

Manager == ~dead => Phase /\ Settled

-----------------------------------------------------------------------------
(* A client and its receive handler *)

Opening == \A c \in Clients :
  /\ at[c] \in {"open", "closing", "unregistered"} => ctx[c] = "set"
  /\ at[c] \in {"closed", "unregistered"} => ~registered[c]
  /\ handling[c] /\ ~edge[c] => at[c] = "open"

-----------------------------------------------------------------------------
(* A client and its calls *)

\* Nothing has been told, and nothing sent, until a call is answered, and only
\* a call that sends has a frame.
Calling(c) ==
  /\ call[c] # "answered" => told[c] = "none" /\ direct[c] = "none" /\ wire[c] = NoFrame
  /\ call[c] \in {"none", "add", "logical", "physical"} => frame[c] = NoFrame

\* The parts of OutcomeAgrees, InitiatorKept and ListedWasAccepted for one client.
Agrees(c) ==
  told[c] # "none" =>
    \/ told[c] = direct[c]
    \/ direct[c] = "none" /\ told[c] \in {"IOException", "InvalidStateException", "unset"}
    \/ frame[c] = NoFrame /\ told[c] = "ok" /\ Own[c] \in masked

Keeps(c) == wire[c] # NoFrame => wire[c] = frame[c]

Accounts(c) == listed[c] \subseteq accepted \cup masked

\* The source of the daemon's own connection is never an address it has.
Answering ==
  /\ Unregistered \notin addresses
  /\ \A c \in Clients : Calling(c) /\ Agrees(c) /\ Keeps(c) /\ Accounts(c)

IInv == TypeOK /\ Manager /\ Opening /\ Answering

-----------------------------------------------------------------------------
(* The events *)

Kinds == {"enable", "disable", "send"}

\* A SEND event, which the daemon handles without being told up or down, leaves
\* the decision where it was when it arrives ...
LEMMA SendArrives ==
  ASSUME NEW s \in Seq(Kinds), NEW a \in BOOLEAN, NEW t \in BOOLEAN, LastDecides(s, a, t)
  PROVE  LastDecides(Append(s, "send"), a, t)
<1> DEFINE r == Append(s, "send")
<1>1. Len(s) \in Nat /\ Len(r) = Len(s) + 1
  BY AppendProperties
<1>2. \A k \in 1 .. Len(s) : r[k] = s[k]
  BY AppendProperties
<1>3. r[Len(s) + 1] = "send"
  BY AppendProperties
<1> HIDE DEF r
<1>4. ASSUME NEW k \in 1 .. Len(r), r[k] # "send", \A j \in k + 1 .. Len(r) : r[j] = "send"
      PROVE  a = (r[k] = "enable")
  <2>1. k \in 1 .. Len(s) /\ s[k] = r[k]
    BY <1>1, <1>2, <1>3, <1>4
  <2>2. \A j \in k + 1 .. Len(s) : s[j] = "send"
    BY <1>1, <1>2, <1>4, <2>1
  <2>3. QED
    BY <1>4, <2>1, <2>2 DEF LastDecides
<1>5. ASSUME \A k \in 1 .. Len(r) : r[k] = "send"
      PROVE  a = t
  <2>1. \A k \in 1 .. Len(s) : s[k] = "send"
    BY <1>1, <1>2, <1>5
  <2>2. QED
    BY <2>1 DEF LastDecides
<1>6. QED
  BY <1>4, <1>5 DEF LastDecides, r

\* ... one of ENABLE and DISABLE decides ...
LEMMA EnableArrives ==
  ASSUME NEW s \in Seq(Kinds), NEW e \in {"enable", "disable"}, NEW t \in BOOLEAN
  PROVE  LastDecides(Append(s, e), e = "enable", t)
<1> DEFINE r == Append(s, e)
<1>1. Len(s) \in Nat /\ Len(r) = Len(s) + 1
  BY AppendProperties
<1>2. r[Len(s) + 1] = e
  BY AppendProperties
<1> HIDE DEF r
<1>3. ASSUME NEW k \in 1 .. Len(r), r[k] # "send", \A j \in k + 1 .. Len(r) : r[j] = "send"
      PROVE  (e = "enable") = (r[k] = "enable")
  <2>1. k = Len(s) + 1
    BY <1>1, <1>2, <1>3
  <2>2. QED
    BY <1>2, <2>1
<1>4. ~ \A k \in 1 .. Len(r) : r[k] = "send"
  BY <1>1, <1>2
<1>5. QED
  BY <1>3, <1>4 DEF LastDecides, r

\* ... and the first event, once it is taken, decides if nothing is behind it.
LEMMA EventTaken ==
  ASSUME NEW s \in Seq(Kinds), s # <<>>, NEW a \in BOOLEAN, NEW t \in BOOLEAN, NEW u \in BOOLEAN,
         LastDecides(s, a, t),
         Head(s) = "send" => u = t,
         Head(s) # "send" => u = (Head(s) = "enable")
  PROVE  LastDecides(Tail(s), a, u)
<1> DEFINE r == Tail(s)
<1>1. Len(s) \in Nat \ {0} /\ Len(r) = Len(s) - 1 /\ Head(s) = s[1]
  BY HeadTailProperties, EmptySeq
<1>2. \A k \in 1 .. Len(r) : r[k] = s[k + 1]
  BY HeadTailProperties
<1> HIDE DEF r
<1>3. ASSUME NEW k \in 1 .. Len(r), r[k] # "send", \A j \in k + 1 .. Len(r) : r[j] = "send"
      PROVE  a = (r[k] = "enable")
  <2>1. k + 1 \in 1 .. Len(s) /\ s[k + 1] = r[k]
    BY <1>1, <1>2
  <2>2. ASSUME NEW j \in (k + 1) + 1 .. Len(s)
        PROVE  s[j] = "send"
    <3>1. j - 1 \in k + 1 .. Len(r) /\ j - 1 \in 1 .. Len(r) /\ (j - 1) + 1 = j
      BY <1>1
    <3>2. QED
      BY <1>2, <1>3, <3>1
  <2>3. QED
    BY <1>3, <2>1, <2>2 DEF LastDecides
<1>4. ASSUME \A k \in 1 .. Len(r) : r[k] = "send"
      PROVE  a = u
  <2>1. \A j \in 2 .. Len(s) : s[j] = "send"
    <3> SUFFICES ASSUME NEW j \in 2 .. Len(s) PROVE s[j] = "send"
      OBVIOUS
    <3>1. j - 1 \in 1 .. Len(r) /\ (j - 1) + 1 = j
      BY <1>1
    <3>2. QED
      BY <1>2, <1>4, <3>1
  <2>2. CASE s[1] = "send"
    <3>1. \A k \in 1 .. Len(s) : s[k] = "send"
      BY <1>1, <2>1, <2>2
    <3>2. QED
      BY <1>1, <2>2, <3>1 DEF LastDecides
  <2>3. CASE s[1] # "send"
    <3>1. 1 \in 1 .. Len(s) /\ \A j \in 1 + 1 .. Len(s) : s[j] = "send"
      BY <1>1, <2>1
    <3>2. a = (s[1] = "enable")
      BY <2>3, <3>1 DEF LastDecides
    <3>3. QED
      BY <1>1, <2>3, <3>2
  <2>4. QED
    BY <2>2, <2>3
<1>5. QED
  BY <1>3, <1>4 DEF LastDecides, r

-----------------------------------------------------------------------------
(* Types, one group of actions after the other *)

\* start() and stop(), and the handler of SEND.
LEMMA ManagesTyped ==
  ASSUME TypeOK, Manages
  PROVE  TypeOK'
<1>1. ASSUME NEW e, TakesEvent(e)
      PROVE  events' \in Seq(Kinds) /\ Len(events') <= MaxEvents
  <2>1. events \in Seq(Kinds) /\ Len(events) <= MaxEvents
    BY DEF TypeOK, Kinds
  <2>2. Tail(events) \in Seq(Kinds) /\ Len(Tail(events)) = Len(events) - 1 /\ Len(events) \in Nat
    BY <1>1, <2>1, HeadTailProperties, EmptySeq DEF TakesEvent
  <2>3. MaxEvents \in Nat
    BY ClientAssumption
  <2>4. QED
    BY <1>1, <2>1, <2>2, <2>3 DEF TakesEvent
<1>2. CASE EnableBegins
  BY <1>1, <1>2 DEF EnableBegins, EventRest, addressVars, answerVars, libVars, TakesEvent, TypeOK, Kinds, Lib!TypeOK
<1>3. CASE DisableBegins
  BY <1>1, <1>3 DEF DisableBegins, EventRest, addressVars, answerVars, libVars, TakesEvent, TypeOK, Kinds, Lib!TypeOK
<1>4. CASE SendEvent
  BY <1>1, <1>4 DEF SendEvent, EventRest, addressVars, answerVars, libVars, TakesEvent, TypeOK, Kinds, Lib!TypeOK
<1>5. CASE StartOpens
  BY <1>5 DEF StartOpens, Does, clientVars, addressVars, answerVars, TypeOK, Lib!TypeOK, Lib!Open
<1>6. CASE StartFails
  BY <1>6 DEF StartFails, Does, Ends, clientVars, addressVars, answerVars, libVars, TypeOK, Lib!TypeOK
<1>7. CASE StartInitialized
  BY <1>7 DEF StartInitialized, Does, clientVars, addressVars, answerVars, TypeOK, Lib!TypeOK, Lib!InitDone
<1>8. CASE StartConnects
  BY <1>8 DEF StartConnects, Does, clientVars, addressVars, answerVars, libVars, TypeOK, Lib!TypeOK
<1>9. CASE StartPublishes
  BY <1>9 DEF StartPublishes, Does, clientVars, addressVars, answerVars, libVars, TypeOK, Lib!TypeOK
<1>10. CASE StopUnlistens
  BY <1>10 DEF StopUnlistens, Does, clientVars, addressVars, answerVars, libVars, TypeOK, Lib!TypeOK
<1>11. CASE StopUnpublishes
  BY <1>11 DEF StopUnpublishes, Does, clientVars, addressVars, answerVars, libVars, TypeOK, Lib!TypeOK
<1>12. CASE StopDeletes
  BY <1>12 DEF StopDeletes, Does, clientVars, addressVars, answerVars, libVars, TypeOK, Lib!TypeOK
<1>13. CASE StopCloses
  BY <1>13 DEF StopCloses, Does, clientVars, addressVars, answerVars, TypeOK, Lib!TypeOK, Lib!Close
<1>14. CASE StopFails
  BY <1>14 DEF StopFails, Does, Ends, clientVars, addressVars, answerVars, TypeOK, Lib!TypeOK, Lib!CloseFails
<1>15. CASE StopTerminated
  BY <1>15 DEF StopTerminated, Does, clientVars, addressVars, answerVars, TypeOK, Lib!TypeOK, Lib!TermDone
<1>16. QED
  BY <1>2, <1>3, <1>4, <1>5, <1>6, <1>7, <1>8, <1>9, <1>10, <1>11, <1>12, <1>13, <1>14, <1>15
     DEF Manages

\* A frame stays one when its source is matched, whoever sends it.
LEMMA SourceMatched ==
  ASSUME NEW f \in Frames, NEW source \in 0 .. 15, NEW list
  PROVE  MatchSource(f, source, list) \in Frames
BY DEF MatchSource, Frames, IsValidLogicalAddress

\* What a client asks for is a frame, or an event the daemon knows.
LEMMA ClientTyped ==
  ASSUME TypeOK, NEW c \in Clients, ClientStep(c)
  PROVE  TypeOK'
<1>1. ASSUME NEW e \in Kinds, Broadcasts(e)
      PROVE  events' \in Seq(Kinds) /\ Len(events') <= MaxEvents
  <2>1. events \in Seq(Kinds) /\ Len(events) \in Nat
    BY DEF TypeOK, Kinds
  <2>2. events' \in Seq(Kinds) /\ Len(events') = Len(events) + 1
    BY <1>1, <2>1, AppendProperties DEF Broadcasts
  <2>3. QED
    BY <1>1, <2>1, <2>2, ClientAssumption DEF Broadcasts
<1>2. UNCHANGED <<libVars, managerVars, addressVars, dead, answerVars>>
  BY DEF ClientStep
<1>3. TypeOK' <=> /\ at' \in [Clients -> {"closed", "registered", "allocated", "open", "closing",
                                          "unregistered"}]
                  /\ ctx' \in [Clients -> {"none", "raw", "set"}]
                  /\ registered' \in [Clients -> BOOLEAN] /\ pending' \in [Clients -> BOOLEAN]
                  /\ handling' \in [Clients -> BOOLEAN] /\ edge' \in [Clients -> BOOLEAN]
                  /\ ended' \in [Clients -> BOOLEAN]
                  /\ listed' \in [Clients -> SUBSET (0 .. 15)]
                  /\ call' \in [Clients -> {"none", "send", "sending", "add", "logical",
                                            "physical", "answered"}]
                  /\ frame' \in [Clients -> Wires]
                  /\ events' \in Seq(Kinds) /\ Len(events') <= MaxEvents
                  /\ asked' \in BOOLEAN
  BY <1>2 DEF TypeOK, Kinds, Lib!TypeOK, libVars, managerVars, addressVars, answerVars
<1>4. CASE OpenOrClose(c)
  BY <1>1, <1>3, <1>4 DEF OpenOrClose, OpenRegisters, OpenAllocates, SetRxCallback, CloseDisables,
     CloseUnregisters, CloseFrees, Goes, TypeOK, Kinds
<1>5. CASE HandlerEntered(c) \/ HandlerReturns(c) \/ HandlerFaults(c)
  <2>1. registered[c] \in BOOLEAN /\ (at[c] \notin {"open", "closed"}) \in BOOLEAN
    BY DEF TypeOK
  <2>2. QED
    BY <1>3, <1>5, <2>1 DEF HandlerEntered, HandlerReturns, HandlerFaults, TypeOK, Kinds
<1>6. CASE Begins(c)
  <2>1. Own[c] \in 0 .. 15
    BY ClientAssumption
  <2>2. ASSUME NEW f \in SentFrames, Tx(c, f)
        PROVE  TypeOK'
    <3>1. MatchSource(f, Own[c], listed[c]) \in Wires
      BY <2>1, SourceMatched, ClientAssumption DEF Wires
    <3>2. QED
      BY <1>3, <2>2, <3>1 DEF Tx, Calls, TypeOK, Kinds
  <2>3. ASSUME NEW f \in SentFrames, Tx(c, FullFrame(Own[c], f.to, f.op))
        PROVE  TypeOK'
    <3>1. FullFrame(Own[c], f.to, f.op) \in Frames
      BY <2>1, ClientAssumption DEF FullFrame, Frame, Frames
    <3>2. MatchSource(FullFrame(Own[c], f.to, f.op), Own[c], listed[c]) \in Wires
      BY <2>1, <3>1, SourceMatched DEF Wires
    <3>3. QED
      BY <1>3, <2>3, <3>2 DEF Tx, Calls, TypeOK, Kinds
  <2>4. ASSUME NEW to \in 0 .. 15, Poll(c, to)
        PROVE  TypeOK'
    <3>1. PollFrame(Own[c], to) \in Wires
      BY <2>1 DEF PollFrame, Frame, Frames, Wires
    <3>2. QED
      BY <1>3, <2>4, <3>1 DEF Poll, Calls, TypeOK, Kinds
  <2>5. ASSUME NEW op, AsksAbout(c, op)
        PROVE  TypeOK'
    BY <1>3, <2>5 DEF AsksAbout, Calls, TypeOK, Kinds
  <2>6. CASE TxAsync(c)
    BY <1>1, <1>3, <2>6 DEF TxAsync, TypeOK, Kinds
  <2>7. QED
    BY <1>6, <2>1, <2>2, <2>3, <2>4, <2>5, <2>6 DEF Begins
<1>7. QED
  BY <1>4, <1>5, <1>6 DEF ClientStep

\* The listener marks the clients a frame is for.
LEMMA NotifyTyped ==
  ASSUME TypeOK, Notify
  PROVE  TypeOK'
BY DEF TypeOK, Notify, managerVars, addressVars, answerVars, libVars, Lib!TypeOK

\* A write has three ends, whatever the hardware answers, once the driver is open.
LEMMA WriteEnds ==
  ASSUME NEW f, NEW a
  PROVE  WriteOutcome(TRUE, f, a) \in {"ok", "IOException", "CECNoAckException"}
BY DEF WriteOutcome

\* An answer leaves the call waiting for the client.
LEMMA AnswerTyped ==
  ASSUME TypeOK, NEW c \in Clients, NEW op, NEW outcome \in Outcomes
  PROVE  /\ Answers(c, op, outcome)
              => /\ call' \in [Clients -> {"none", "send", "sending", "add", "logical", "physical",
                                           "answered"}]
                 /\ told' \in [Clients -> Outcomes]
         /\ WouldTell(c, outcome) => direct' \in [Clients -> Outcomes]
<1>1. /\ told \in [Clients -> Outcomes] /\ direct \in [Clients -> Outcomes]
      /\ call \in [Clients -> {"none", "send", "sending", "add", "logical", "physical", "answered"}]
  BY DEF TypeOK
<1>2. QED
  BY <1>1 DEF Answers, WouldTell

\* The client is told one of the outcomes, and lists only its own address.
LEMMA ServesTyped ==
  ASSUME TypeOK, Unregistered \notin addresses, NEW c \in Clients, Serves(c)
  PROVE  TypeOK'
<1>1. Own[c] \in 0 .. 15
  BY ClientAssumption
<1>2. CASE SendTests(c)
  BY <1>2 DEF SendTests, CallRest, addressVars, answerVars, managerVars, libVars, TypeOK, Lib!TypeOK
<1>3. CASE SendRefused(c) \/ SendBroken(c)
  <2>1. WriteOutcome(TRUE, frame[c], TxAnswer(FALSE, "SUCCESS")) \in Outcomes
    BY WriteEnds DEF Outcomes
  <2>2. /\ call' \in [Clients -> {"none", "send", "sending", "add", "logical", "physical",
                                  "answered"}]
        /\ told' \in [Clients -> Outcomes]
    BY <1>3, <2>1, AnswerTyped DEF SendRefused, SendBroken
  <2>3. UNCHANGED <<CallRest, listed, addressVars, dead, direct, wire>>
    BY <1>3 DEF SendRefused, SendBroken
  <2>4. QED
    BY <2>2, <2>3 DEF CallRest, addressVars, managerVars, libVars, TypeOK, Lib!TypeOK
<1>4. CASE SendFaults(c)
  BY <1>4 DEF SendFaults, Ends, CallRest, addressVars, answerVars, managerVars, libVars, TypeOK,
     Lib!TypeOK
<1>5. CASE SendUses(c)
  <2>1. /\ MatchSource(frame[c], Unregistered, addresses) = frame[c]
        /\ frame[c] \in Wires
    BY DEF MatchSource, IsValidLogicalAddress, TypeOK
  <2>2. ASSUME NEW r
        PROVE  WriteOutcome(TRUE, frame[c], r) \in Outcomes
    BY WriteEnds DEF Outcomes
  <2>3. /\ call' \in [Clients -> {"none", "send", "sending", "add", "logical", "physical",
                                  "answered"}]
        /\ told' \in [Clients -> Outcomes]
        /\ direct' \in [Clients -> Outcomes]
        /\ wire' \in [Clients -> Wires]
    <3>1. CASE initialized /\ driver = "open"
      <4>1. PICK a \in HalAnswers :
              /\ wire' = [wire EXCEPT ![c] = frame[c]]
              /\ Answers(c, "sending", WriteOutcome(TRUE, frame[c],
                   TxAnswer(TRUE, SendReply(SendOutcome(TRUE, WriteOutcome(TRUE, frame[c], a))))))
              /\ WouldTell(c, WriteOutcome(TRUE, frame[c], a))
        BY <1>5, <2>1, <3>1 DEF SendUses
      <4>2. wire' \in [Clients -> Wires]
        BY <2>1, <4>1 DEF TypeOK
      <4>3. QED
        BY <2>2, <4>1, <4>2, AnswerTyped
    <3>2. CASE ~(initialized /\ driver = "open")
      <4>1. /\ Answers(c, "sending", WriteOutcome(TRUE, frame[c],
                   TxAnswer(TRUE, SendReply("InvalidStateException"))))
            /\ wire' = wire /\ direct' = direct
        BY <1>5, <3>2 DEF SendUses
      <4>2. wire' \in [Clients -> Wires] /\ direct' \in [Clients -> Outcomes]
        BY <4>1 DEF TypeOK
      <4>3. QED
        BY <2>2, <4>1, <4>2, AnswerTyped
    <3>3. QED
      BY <3>1, <3>2
  <2>4. QED
    BY <1>5, <2>3 DEF SendUses, CallRest, addressVars, managerVars, libVars, TypeOK, Lib!TypeOK
<1>6. CASE AddLogicalAddress(c)
  <2>1. PICK err \in AddErrors :
          LET here == IF dead THEN "InvalidStateException"
                      ELSE LibAddOutcome(initialized, driver = "open", err)
              code == RpcCode(Reached(here))
              asks == ~dead /\ initialized /\ driver = "open"
          IN /\ Answers(c, "add", AddOutcome(TRUE, code))
             /\ listed' = [listed EXCEPT ![c] = Listed(@, Own[c], TRUE, code)]
             /\ addresses' = IF asks THEN Listed(addresses, Own[c], TRUE, err) ELSE addresses
             /\ accepted' = IF asks /\ err = "SUCCESS" THEN accepted \cup {Own[c]} ELSE accepted
             /\ masked' = IF code # "SUCCESS" \/ err \notin {"SUCCESS", "GENERAL_ERROR",
                                                             "LOGICALADDRESS_UNAVAILABLE"}
                          THEN masked \cup {Own[c]} ELSE masked
             /\ IF asks THEN WouldTell(c, LibAddOutcome(TRUE, TRUE, err)) ELSE UNCHANGED direct
             /\ UNCHANGED <<CallRest, dead, wire>>
    BY <1>6 DEF AddLogicalAddress
  <2>2. \A open \in BOOLEAN : \A e : AddOutcome(open, e) \in Outcomes
    BY DEF AddOutcome, Outcomes
  <2>3. \A list, open, e : Listed(list, Own[c], open, e) \in {list, list \cup {Own[c]}}
    BY DEF Listed
  <2>4. Listed(addresses, Own[c], TRUE, "SUCCESS") = addresses \cup {Own[c]}
    BY DEF Listed, AddOutcome
  <2>5. told' \in [Clients -> Outcomes] /\ direct' \in [Clients -> Outcomes]
    <3>1. ASSUME NEW outcome \in Outcomes
          PROVE  /\ Answers(c, "add", outcome) => told' \in [Clients -> Outcomes]
                 /\ WouldTell(c, outcome) => direct' \in [Clients -> Outcomes]
      BY AnswerTyped
    <3>2. direct \in [Clients -> Outcomes]
      BY DEF TypeOK
    <3>3. QED
      BY <2>1, <2>2, <3>1, <3>2 DEF LibAddOutcome
  <2>6. listed' \in [Clients -> SUBSET (0 .. 15)]
    <3>1. PICK list : /\ listed' = [listed EXCEPT ![c] = list]
                      /\ list \in {listed[c], listed[c] \cup {Own[c]}}
      BY <2>1, <2>3
    <3>2. /\ listed \in [Clients -> SUBSET (0 .. 15)]
          /\ list \in SUBSET (0 .. 15)
      BY <1>1, <3>1 DEF TypeOK
    <3>3. QED
      BY <3>1, <3>2
  <2>7. addresses' \subseteq 0 .. 15 /\ accepted' \subseteq addresses' /\ masked' \subseteq 0 .. 15
    <3>1. /\ addresses' \in {addresses, addresses \cup {Own[c]}}
          /\ accepted' \in {accepted, accepted \cup {Own[c]}}
          /\ masked' \in {masked, masked \cup {Own[c]}}
      BY <2>1, <2>3
    <3>2. Own[c] \in accepted' => Own[c] \in accepted \/ Own[c] \in addresses'
      BY <2>1, <2>4
    <3>3. addresses \subseteq 0 .. 15 /\ accepted \subseteq addresses /\ masked \subseteq 0 .. 15
      BY DEF TypeOK
    <3>4. QED
      BY <1>1, <3>1, <3>2, <3>3
  <2>8. call' \in [Clients -> {"none", "send", "sending", "add", "logical", "physical", "answered"}]
    BY <2>1, <2>2, AnswerTyped
  <2>9. QED
    BY <2>1, <2>5, <2>6, <2>7, <2>8 DEF CallRest, managerVars, libVars, TypeOK, Lib!TypeOK
<1>7. CASE GetLogicalAddress(c)
  <2>1. ASSUME NEW code, NEW found \in Logicals, NEW up
        PROVE  LogicalOutcome(up, code, found) \in Outcomes
    BY DEF LogicalOutcome, DriverLogicalAddress, Outcomes
  <2>2. "InvalidStateException" \in Outcomes
    BY DEF Outcomes
  <2>3. /\ call' \in [Clients -> {"none", "send", "sending", "add", "logical", "physical",
                                  "answered"}]
        /\ told' \in [Clients -> Outcomes] /\ direct' \in [Clients -> Outcomes]
    <3>1. direct \in [Clients -> Outcomes]
      BY DEF TypeOK
    <3>2. QED
      BY <1>7, <2>1, <2>2, <3>1, AnswerTyped DEF GetLogicalAddress
  <2>4. QED
    BY <1>7, <2>3 DEF GetLogicalAddress, CallRest, addressVars, managerVars, libVars, TypeOK, Lib!TypeOK
<1>8. CASE GetPhysicalAddress(c)
  <2>1. ASSUME NEW code, NEW up
        PROVE  PhysicalOutcome(up, code, Physical) \in Outcomes
    BY DEF PhysicalOutcome, DriverPhysicalAddress, Outcomes
  <2>2. Physical \in Outcomes
    BY DEF Outcomes
  <2>3. QED
    BY <1>8, <2>1, <2>2 DEF GetPhysicalAddress, Answers, WouldTell, CallRest, addressVars, managerVars,
       libVars, TypeOK, Lib!TypeOK
<1>9. CASE Returns(c)
  <2>1. "none" \in Outcomes /\ NoFrame \in Wires
    BY DEF Outcomes, Wires
  <2>2. QED
    BY <1>9, <2>1 DEF Returns, addressVars, managerVars, libVars, TypeOK, Lib!TypeOK
<1>10. QED
  BY <1>2, <1>3, <1>4, <1>5, <1>6, <1>7, <1>8, <1>9 DEF Serves

-----------------------------------------------------------------------------
(* The daemon follows the events *)

\* Taking an event starts what it asks for, if it is not the case already, and
\* with it the target becomes what the event said.
LEMMA EventKeepsManager ==
  ASSUME TypeOK, Manager, EnableBegins \/ DisableBegins \/ SendEvent
  PROVE  Manager'
<1>1. /\ events \in Seq(Kinds) /\ events # <<>> /\ events' = Tail(events)
      /\ asked \in BOOLEAN /\ started \in BOOLEAN /\ ~dead /\ doing = "nothing"
      /\ UNCHANGED <<asked, started, published, connection, initialized, driver>>
  BY DEF TypeOK, Kinds, EnableBegins, DisableBegins, SendEvent, TakesEvent, EventRest, libVars
<1>2. Phase /\ LastDecides(events, asked, Target) /\ Target = started
  BY <1>1 DEF Manager, Settled, Target
<1>3. CASE EnableBegins
  <2>1. Head(events) = "enable" /\ doing' = IF started THEN "nothing" ELSE "init"
    BY <1>3 DEF EnableBegins, TakesEvent
  <2>2. Target' = TRUE
    BY <1>1, <2>1 DEF Target
  <2>3. LastDecides(Tail(events), asked, TRUE)
    BY <1>1, <1>2, <2>1, EventTaken
  <2>4. Phase'
    BY <1>1, <1>2, <2>1 DEF Phase, Up, Down
  <2>5. QED
    BY <1>1, <2>2, <2>3, <2>4 DEF Manager, Settled, LastDecides
<1>4. CASE DisableBegins
  <2>1. Head(events) = "disable" /\ doing' = IF started THEN "unlisten" ELSE "nothing"
    BY <1>4 DEF DisableBegins, TakesEvent
  <2>2. Target' = FALSE
    BY <1>1, <2>1 DEF Target
  <2>3. LastDecides(Tail(events), asked, FALSE)
    BY <1>1, <1>2, <2>1, EventTaken
  <2>4. Phase'
    BY <1>1, <1>2, <2>1 DEF Phase, Up, Down
  <2>5. QED
    BY <1>1, <2>2, <2>3, <2>4 DEF Manager, Settled, LastDecides
<1>5. CASE SendEvent
  <2>1. Head(events) = "send" /\ doing' = doing
    BY <1>5 DEF SendEvent, TakesEvent
  <2>2. Target' = started
    BY <1>1, <2>1 DEF Target
  <2>3. LastDecides(Tail(events), asked, started)
    BY <1>1, <1>2, <2>1, EventTaken
  <2>4. Phase'
    BY <1>1, <1>2, <2>1 DEF Phase, Up, Down
  <2>5. QED
    BY <1>1, <2>2, <2>3, <2>4 DEF Manager, Settled, LastDecides
<1>6. QED
  BY <1>3, <1>4, <1>5

\* A step of start() or stop() goes from one phase to the next, towards the
\* same target; where one fails the daemon has ended.
LEMMA PhaseKeepsManager ==
  ASSUME TypeOK, Manager, Manages, events' = events
  PROVE  Manager'
<1>0. events # <<>> => Tail(events) # events
  <2>1. events \in Seq(Kinds)
    BY DEF TypeOK, Kinds
  <2>2. events # <<>> => Len(Tail(events)) = Len(events) - 1 /\ Len(events) \in Nat
    BY <2>1, HeadTailProperties
  <2>3. QED
    BY <2>2
<1> USE DEF Phase, Up, Down, Target, Does, libVars, clientVars
<1>1. ASSUME ~dead, dead' = dead, Phase', Target' = Target, asked' = asked
      PROVE  Manager'
  BY <1>1 DEF Manager, Settled, LastDecides
<1>2. CASE ~dead
  <2> USE <1>2
  <2>1. Phase /\ doing \in {"nothing", "init", "initDone", "connect", "publish", "unlisten",
                            "unpublish", "delete", "term", "termDone"}
    BY DEF Manager, TypeOK
  <2>2. ~EnableBegins /\ ~DisableBegins /\ ~SendEvent
    BY <1>0 DEF EnableBegins, DisableBegins, SendEvent, TakesEvent
  <2>3. CASE StartOpens
    BY <1>1, <2>1, <2>3 DEF StartOpens, Lib!Open
  <2>4. CASE StartFails \/ StopFails
    BY <2>4 DEF StartFails, StopFails, Ends, Manager
  <2>5. CASE StartInitialized
    BY <1>1, <2>1, <2>5 DEF StartInitialized, Lib!InitDone
  <2>6. CASE StartConnects
    BY <1>1, <2>1, <2>6 DEF StartConnects
  <2>7. CASE StartPublishes
    BY <1>1, <2>1, <2>7 DEF StartPublishes
  <2>8. CASE StopUnlistens
    BY <1>1, <2>1, <2>8 DEF StopUnlistens
  <2>9. CASE StopUnpublishes
    BY <1>1, <2>1, <2>9 DEF StopUnpublishes
  <2>10. CASE StopDeletes
    BY <1>1, <2>1, <2>10 DEF StopDeletes
  <2>11. CASE StopCloses
    BY <1>1, <2>1, <2>11 DEF StopCloses, Lib!Close
  <2>12. CASE StopTerminated
    <3>1. doing = "termDone" /\ doing' = "nothing" /\ started' = FALSE
      BY <2>12 DEF StopTerminated
    <3>2. Target' = Target
      <4>1. Target' = FALSE
        BY <3>1
      <4>2. Target = (doing \in {"init", "initDone", "connect", "publish"})
        BY <3>1
      <4>3. (doing \in {"init", "initDone", "connect", "publish"}) = FALSE
        BY <3>1
      <4>4. QED
        BY <4>1, <4>2, <4>3, Zenon
    <3>3. dead' = dead /\ asked' = asked
      BY <2>12 DEF StopTerminated
    <3>4. Phase'
      BY <2>1, <2>12 DEF StopTerminated, Lib!TermDone
    <3>5. QED
      BY <1>1, <1>2, <3>2, <3>3, <3>4
  <2>13. QED
    BY <2>2, <2>3, <2>4, <2>5, <2>6, <2>7, <2>8, <2>9, <2>10, <2>11, <2>12 DEF Manages
<1>3. CASE dead
  BY <1>3 DEF Manages, EnableBegins, DisableBegins, SendEvent, TakesEvent, StartOpens, StartFails,
     StartInitialized, StartConnects, StartPublishes, StopUnlistens, StopUnpublishes, StopDeletes,
     StopCloses, StopFails, StopTerminated
<1>4. QED
  BY <1>2, <1>3

\* A client changes nothing of this but the events, and an ENABLE or DISABLE it
\* sends is the last.
LEMMA ClientKeepsManager ==
  ASSUME TypeOK, Manager, NEW c \in Clients, ClientStep(c)
  PROVE  Manager'
<1> SUFFICES ASSUME ~dead PROVE Manager'
  BY DEF Manager, ClientStep
<1>1. UNCHANGED <<initialized, driver, doing, started, published, connection, dead>>
  BY DEF ClientStep, libVars, managerVars
<1>2. Phase' /\ Target' = Target
  BY <1>1 DEF Manager, Phase, Target, Up, Down
<1>3. events \in Seq(Kinds) /\ asked \in BOOLEAN /\ Target \in BOOLEAN
  <2>1. events \in Seq(Kinds)
    BY DEF TypeOK, Kinds
  <2>2. asked \in BOOLEAN /\ started \in BOOLEAN
    BY DEF TypeOK
  <2>3. Target \in BOOLEAN
    <3>1. CASE doing = "nothing"
      BY <2>2, <3>1 DEF Target
    <3>2. CASE doing # "nothing"
      BY <3>2 DEF Target
    <3>3. QED
      BY <3>1, <3>2
  <2>4. QED
    BY <2>1, <2>2, <2>3
<1>4. LastDecides(events, asked, Target)
  BY DEF Manager, Settled
<1>5. LastDecides(events', asked', Target)
  <2>1. CASE UNCHANGED <<events, asked>>
    BY <1>4, <2>1 DEF LastDecides
  <2>2. CASE events' = Append(events, "enable") /\ asked' = TRUE
    BY <1>3, <2>2, EnableArrives
  <2>3. CASE events' = Append(events, "disable") /\ asked' = FALSE
    BY <1>3, <2>3, EnableArrives
  <2>4. CASE events' = Append(events, "send") /\ asked' = asked
    BY <1>3, <1>4, <2>4, SendArrives
  <2>5. QED
    BY <2>1, <2>2, <2>3, <2>4 DEF ClientStep, OpenOrClose, Begins, OpenRegisters, OpenAllocates,
       SetRxCallback, CloseDisables, CloseUnregisters, CloseFrees, HandlerEntered, HandlerReturns,
       HandlerFaults, Tx, Poll, AsksAbout, TxAsync, Broadcasts
<1>6. QED
  BY <1>2, <1>5 DEF Manager, Settled, LastDecides

\* A call changes nothing of it, unless it ends the daemon.
LEMMA ServesKeepsManager ==
  ASSUME Manager, UNCHANGED vars \/ Notify \/ \E c \in Clients : Serves(c)
  PROVE  Manager'
<1>1. UNCHANGED <<initialized, driver, doing, started, published, connection, events, asked>>
  BY DEF vars, clientVars, libVars, managerVars, Notify, Serves, SendTests, SendRefused, SendUses,
     SendFaults, SendBroken, AddLogicalAddress, GetLogicalAddress, GetPhysicalAddress, Returns, CallRest
<1>2. dead => dead'
  BY DEF vars, Notify, Serves, SendTests, SendRefused, SendUses, SendFaults, SendBroken, Ends,
     AddLogicalAddress, GetLogicalAddress, GetPhysicalAddress, Returns
<1>3. QED
  BY <1>1, <1>2 DEF Manager, Phase, Up, Down, Settled, LastDecides, Target

-----------------------------------------------------------------------------
(* A client's opens and closes, and its handler *)

\* Between the two the handler is registered and the context is whole; the
\* handler is unregistered before the context is freed.
LEMMA ClientKeepsOpening ==
  ASSUME TypeOK, Opening, NEW c \in Clients, ClientStep(c)
  PROVE  Opening'
<1> USE DEF Opening, TypeOK, Goes
<1>1. CASE OpenRegisters(c)
  BY <1>1 DEF OpenRegisters
<1>2. CASE OpenAllocates(c)
  BY <1>2 DEF OpenAllocates
<1>3. CASE SetRxCallback(c)
  BY <1>3 DEF SetRxCallback
<1>4. CASE CloseDisables(c)
  BY <1>4 DEF CloseDisables
<1>5. CASE CloseUnregisters(c)
  BY <1>5 DEF CloseUnregisters
<1>6. CASE CloseFrees(c)
  BY <1>6 DEF CloseFrees
<1>7. CASE HandlerEntered(c)
  BY <1>7 DEF HandlerEntered
<1>8. CASE HandlerReturns(c)
  BY <1>8 DEF HandlerReturns
<1>9. CASE HandlerFaults(c)
  BY <1>9 DEF HandlerFaults
<1>10. CASE Begins(c)
  BY <1>10 DEF Begins, Tx, Poll, AsksAbout, TxAsync
<1>11. QED
  BY <1>1, <1>2, <1>3, <1>4, <1>5, <1>6, <1>7, <1>8, <1>9, <1>10 DEF ClientStep, OpenOrClose

\* The daemon and the calls have no part in it.
LEMMA OthersKeepOpening ==
  ASSUME Opening, UNCHANGED vars \/ Manages \/ Notify \/ \E c \in Clients : Serves(c)
  PROVE  Opening'
<1>1. UNCHANGED <<at, ctx, registered, handling, edge>>
  BY DEF vars, clientVars, Notify, Manages, EnableBegins, DisableBegins, SendEvent, EventRest,
     StartOpens, StartFails, StartInitialized, StartConnects, StartPublishes, StopUnlistens,
     StopUnpublishes, StopDeletes, StopCloses, StopFails, StopTerminated, Serves, SendTests,
     SendRefused, SendUses, SendFaults, SendBroken, AddLogicalAddress, GetLogicalAddress,
     GetPhysicalAddress, Returns, CallRest
<1>2. QED
  BY <1>1 DEF Opening

-----------------------------------------------------------------------------
(* A client's calls *)

\* What a client is told of its frame is what the hardware answered: the reply
\* of the daemon is classified again, for the same frame, with the same result.
LEMMA ToldTheSame ==
  ASSUME NEW f, NEW a
  PROVE  WriteOutcome(TRUE, f,
             TxAnswer(TRUE, SendReply(SendOutcome(TRUE, WriteOutcome(TRUE, f, a)))))
           = WriteOutcome(TRUE, f, a)
<1> DEFINE out == WriteOutcome(TRUE, f, a)
<1>1. ASSUME NEW reply
      PROVE  WriteOutcome(TRUE, f, TxAnswer(TRUE, reply))
               = IF reply \in Refusals THEN "IOException"
                 ELSE IF reply = "SENT_BUT_NOT_ACKD" /\ NeedsAck(f) THEN "CECNoAckException" ELSE "ok"
  BY DEF WriteOutcome, TxAnswer, RpcCode, HalAnswer
<1>2. out \in {"ok", "IOException", "CECNoAckException"}
  BY WriteEnds
<1>3. out = "CECNoAckException" => NeedsAck(f)
  BY DEF WriteOutcome
<1>4. SendOutcome(TRUE, out) = out
  BY DEF SendOutcome
<1> HIDE DEF out
<1>5. CASE out = "ok"
  <2>1. SendReply(out) = "SENT_AND_ACKD"
    BY <1>5 DEF SendReply
  <2>2. QED
    BY <1>1, <1>4, <1>5, <2>1 DEF Refusals, out
<1>6. CASE out = "IOException"
  <2>1. SendReply(out) = "SENT_FAILED"
    BY <1>6 DEF SendReply
  <2>2. QED
    BY <1>1, <1>4, <1>6, <2>1 DEF Refusals, out
<1>7. CASE out = "CECNoAckException"
  <2>1. SendReply(out) = "SENT_BUT_NOT_ACKD"
    BY <1>7 DEF SendReply
  <2>2. QED
    BY <1>1, <1>3, <1>4, <1>7, <2>1 DEF Refusals, out
<1>8. QED
  BY <1>2, <1>5, <1>6, <1>7

\* A call that did not reach the daemon's connection is an IOException.
LEMMA RefusedIsTold ==
  ASSUME NEW f
  PROVE  WriteOutcome(TRUE, f, TxAnswer(FALSE, "SUCCESS")) = "IOException"
BY DEF WriteOutcome, TxAnswer, RpcCode, HalAnswer

\* What one client is told does not touch the others: their part stays true
\* while the addresses the hardware took, or seemed to take, only grow.
LEMMA OthersAnswered ==
  ASSUME NEW d \in Clients, Calling(d), Agrees(d), Keeps(d), Accounts(d),
         call'[d] = call[d], frame'[d] = frame[d], told'[d] = told[d], direct'[d] = direct[d],
         wire'[d] = wire[d], listed'[d] = listed[d],
         accepted \subseteq accepted', masked \subseteq masked'
  PROVE  Calling(d)' /\ Agrees(d)' /\ Keeps(d)' /\ Accounts(d)'
BY DEF Calling, Agrees, Keeps, Accounts

\* A client that begins a call has been answered the one before.
LEMMA ClientKeepsAnswering ==
  ASSUME TypeOK, Answering, NEW c \in Clients, ClientStep(c)
  PROVE  Answering'
<1>1. UNCHANGED <<addresses, accepted, masked, told, direct, wire>>
  BY DEF ClientStep, addressVars, answerVars
<1>2. listed' = listed
  BY DEF ClientStep, OpenOrClose, Begins, OpenRegisters, OpenAllocates, SetRxCallback, CloseDisables,
     CloseUnregisters, CloseFrees, HandlerEntered, HandlerReturns, HandlerFaults, Tx, Poll, AsksAbout,
     TxAsync
<1>3. CASE UNCHANGED <<call, frame>>
  BY <1>1, <1>2, <1>3, OthersAnswered DEF Answering
<1>4. ASSUME NEW op \in {"send", "add", "logical", "physical"}, NEW f,
             call[c] = "none", call' = [call EXCEPT ![c] = op],
             frame' = IF op = "send" THEN [frame EXCEPT ![c] = f] ELSE frame
      PROVE  Answering'
  <2>1. call \in [Clients -> {"none", "send", "sending", "add", "logical", "physical", "answered"}]
        /\ frame \in [Clients -> Wires]
    BY DEF TypeOK
  <2>2. ASSUME NEW d \in Clients, d # c
        PROVE  Calling(d)' /\ Agrees(d)' /\ Keeps(d)' /\ Accounts(d)'
    <3>1. call'[d] = call[d] /\ frame'[d] = frame[d]
      BY <1>4, <2>1, <2>2
    <3>2. QED
      BY <1>1, <1>2, <3>1, OthersAnswered DEF Answering
  <2>3. Calling(c)' /\ Agrees(c)' /\ Keeps(c)' /\ Accounts(c)'
    <3>1. call'[c] = op /\ (op # "send" => frame'[c] = frame[c])
      BY <1>4, <2>1
    <3>2. QED
      BY <1>1, <1>2, <1>4, <3>1 DEF Answering, Calling, Agrees, Keeps, Accounts
  <2>4. QED
    BY <1>1, <2>2, <2>3 DEF Answering
<1>5. CASE Begins(c)
  BY <1>3, <1>4, <1>5 DEF Begins, Tx, Poll, AsksAbout, TxAsync, Calls
<1>6. CASE ~Begins(c)
  BY <1>3, <1>6 DEF ClientStep, OpenOrClose, OpenRegisters, OpenAllocates, SetRxCallback,
     CloseDisables, CloseUnregisters, CloseFrees, HandlerEntered, HandlerReturns, HandlerFaults
<1>7. QED
  BY <1>5, <1>6

\* The daemon's own threads have no part in it.
LEMMA OthersKeepAnswering ==
  ASSUME Answering, UNCHANGED vars \/ Manages \/ Notify
  PROVE  Answering'
<1>1. UNCHANGED <<call, frame, listed, addresses, accepted, masked, told, direct, wire>>
  BY DEF vars, clientVars, Notify, Manages, EnableBegins, DisableBegins, SendEvent, EventRest,
     StartOpens, StartFails, StartInitialized, StartConnects, StartPublishes, StopUnlistens,
     StopUnpublishes, StopDeletes, StopCloses, StopFails, StopTerminated, addressVars, answerVars
<1>2. QED
  BY <1>1, OthersAnswered DEF Answering

\* Each answer agrees with the hardware's, or owns up to what was not asked.
LEMMA ServesKeepsAnswering ==
  ASSUME TypeOK, Answering, NEW c \in Clients, Serves(c)
  PROVE  Answering'
<1>1. /\ call \in [Clients -> {"none", "send", "sending", "add", "logical", "physical", "answered"}]
      /\ frame \in [Clients -> Wires] /\ wire \in [Clients -> Wires]
      /\ listed \in [Clients -> SUBSET (0 .. 15)]
  BY DEF TypeOK
<1>2. told \in [Clients -> Outcomes] /\ direct \in [Clients -> Outcomes]
  BY DEF TypeOK
<1>3. Calling(c) /\ Agrees(c) /\ Keeps(c) /\ Accounts(c) /\ Unregistered \notin addresses
  BY DEF Answering
<1>4. ASSUME \A d \in Clients \ {c} : /\ call'[d] = call[d] /\ frame'[d] = frame[d]
                                      /\ told'[d] = told[d] /\ direct'[d] = direct[d]
                                      /\ wire'[d] = wire[d] /\ listed'[d] = listed[d],
             accepted \subseteq accepted', masked \subseteq masked',
             Unregistered \notin addresses',
             Calling(c)' /\ Agrees(c)' /\ Keeps(c)' /\ Accounts(c)'
      PROVE  Answering'
  <2>1. ASSUME NEW d \in Clients, d # c
        PROVE  Calling(d)' /\ Agrees(d)' /\ Keeps(d)' /\ Accounts(d)'
    BY <1>4, <2>1, OthersAnswered DEF Answering
  <2>2. QED
    BY <1>4, <2>1 DEF Answering
<1>5. ASSUME NEW out, NEW op, Answers(c, op, out)
      PROVE  /\ call[c] = op /\ call'[c] = "answered" /\ told'[c] = out
             /\ \A d \in Clients \ {c} : call'[d] = call[d] /\ told'[d] = told[d]
  BY <1>1, <1>2, <1>5 DEF Answers
<1>6. CASE SendTests(c)
  <2>1. /\ UNCHANGED <<frame, listed, addresses, accepted, masked, told, direct, wire>>
        /\ call[c] = "send" /\ call'[c] = "sending"
        /\ \A d \in Clients \ {c} : call'[d] = call[d]
    BY <1>1, <1>6 DEF SendTests, CallRest, addressVars, answerVars
  <2>2. QED
    BY <1>3, <1>4, <2>1 DEF Calling, Agrees, Keeps, Accounts
<1>7. CASE SendRefused(c) \/ SendBroken(c)
  <2>1. PICK op \in {"send", "sending"} : Answers(c, op, "IOException")
    BY <1>7, RefusedIsTold DEF SendRefused, SendBroken
  <2>2. UNCHANGED <<frame, listed, addresses, accepted, masked, direct, wire>>
    BY <1>7 DEF SendRefused, SendBroken, CallRest, addressVars
  <2>3. /\ call[c] = op /\ call'[c] = "answered" /\ told'[c] = "IOException"
        /\ \A d \in Clients \ {c} : call'[d] = call[d] /\ told'[d] = told[d]
    BY <1>5, <2>1
  <2>4. QED
    BY <1>3, <1>4, <2>2, <2>3 DEF Calling, Agrees, Keeps, Accounts
<1>8. CASE SendFaults(c)
  BY <1>3, <1>4, <1>8 DEF SendFaults, CallRest, addressVars, answerVars, Calling, Agrees, Keeps, Accounts
<1>9. CASE SendUses(c)
  <2>1. UNCHANGED <<frame, listed, addresses, accepted, masked>>
    BY <1>9 DEF SendUses, CallRest, addressVars
  <2>2. MatchSource(frame[c], Unregistered, addresses) = frame[c]
    BY <1>3 DEF MatchSource, IsValidLogicalAddress
  <2>3. CASE initialized /\ driver = "open"
    <3>1. PICK a \in HalAnswers :
            /\ wire' = [wire EXCEPT ![c] = frame[c]]
            /\ Answers(c, "sending", WriteOutcome(TRUE, frame[c],
                 TxAnswer(TRUE, SendReply(SendOutcome(TRUE, WriteOutcome(TRUE, frame[c], a))))))
            /\ WouldTell(c, WriteOutcome(TRUE, frame[c], a))
      BY <1>9, <2>2, <2>3 DEF SendUses
    <3>2. Answers(c, "sending", WriteOutcome(TRUE, frame[c], a))
      BY <3>1, ToldTheSame
    <3>3. /\ call[c] = "sending" /\ call'[c] = "answered"
          /\ told'[c] = WriteOutcome(TRUE, frame[c], a)
          /\ \A d \in Clients \ {c} : call'[d] = call[d] /\ told'[d] = told[d]
      BY <1>5, <3>2
    <3>4. /\ direct'[c] = WriteOutcome(TRUE, frame[c], a) /\ wire'[c] = frame[c]
          /\ \A d \in Clients \ {c} : direct'[d] = direct[d] /\ wire'[d] = wire[d]
      BY <1>1, <1>2, <3>1 DEF WouldTell
    <3>5. QED
      BY <1>3, <1>4, <2>1, <3>3, <3>4 DEF Calling, Agrees, Keeps, Accounts
  <2>4. CASE ~(initialized /\ driver = "open")
    <3>1. /\ Answers(c, "sending", WriteOutcome(TRUE, frame[c],
                       TxAnswer(TRUE, SendReply("InvalidStateException"))))
          /\ UNCHANGED <<wire, direct>>
      BY <1>9, <2>4 DEF SendUses
    <3>2. WriteOutcome(TRUE, frame[c], TxAnswer(TRUE, SendReply("InvalidStateException")))
            = "IOException"
      BY DEF WriteOutcome, TxAnswer, RpcCode, HalAnswer, SendReply, Refusals
    <3>3. /\ call[c] = "sending" /\ call'[c] = "answered" /\ told'[c] = "IOException"
          /\ \A d \in Clients \ {c} : call'[d] = call[d] /\ told'[d] = told[d]
      BY <1>5, <3>1, <3>2
    <3>4. QED
      BY <1>3, <1>4, <2>1, <3>1, <3>3 DEF Calling, Agrees, Keeps, Accounts
  <2>5. QED
    BY <2>3, <2>4
<1>10. CASE GetLogicalAddress(c)
  <2>1. UNCHANGED <<frame, listed, addresses, accepted, masked, wire>>
    BY <1>10 DEF GetLogicalAddress, CallRest, addressVars
  <2>2. PICK found \in Logicals :
          LET code == RpcCode(~dead /\ initialized /\ found # Zero)
          IN /\ Answers(c, "logical", LogicalOutcome(TRUE, code, found))
             /\ IF ~dead /\ initialized
                THEN WouldTell(c, IF dead THEN "InvalidStateException"
                                  ELSE LogicalOutcome(initialized, "SUCCESS", found))
                ELSE UNCHANGED direct
    BY <1>10 DEF GetLogicalAddress
  <2>3. CASE ~dead /\ initialized
    <3>1. LogicalOutcome(TRUE, RpcCode(~dead /\ initialized /\ found # Zero), found)
            = LogicalOutcome(initialized, "SUCCESS", found)
      BY <2>3 DEF LogicalOutcome, DriverLogicalAddress, RpcCode
    <3>2. PICK out : Answers(c, "logical", out) /\ WouldTell(c, out)
      BY <2>2, <2>3, <3>1
    <3>3. /\ direct'[c] = out /\ \A d \in Clients \ {c} : direct'[d] = direct[d]
      BY <1>2, <3>2 DEF WouldTell
    <3>4. /\ call[c] = "logical" /\ call'[c] = "answered" /\ told'[c] = out
          /\ \A d \in Clients \ {c} : call'[d] = call[d] /\ told'[d] = told[d]
      BY <1>5, <3>2
    <3>5. QED
      BY <1>3, <1>4, <2>1, <3>3, <3>4 DEF Calling, Agrees, Keeps, Accounts
  <2>4. CASE ~(~dead /\ initialized)
    <3>1. LogicalOutcome(TRUE, RpcCode(~dead /\ initialized /\ found # Zero), found)
            = "InvalidStateException"
      BY <2>4 DEF LogicalOutcome, DriverLogicalAddress, RpcCode
    <3>2. Answers(c, "logical", "InvalidStateException") /\ direct' = direct
      BY <2>2, <2>4, <3>1
    <3>3. /\ call[c] = "logical" /\ call'[c] = "answered" /\ told'[c] = "InvalidStateException"
          /\ \A d \in Clients \ {c} : call'[d] = call[d] /\ told'[d] = told[d]
      BY <1>5, <3>2
    <3>4. QED
      BY <1>3, <1>4, <2>1, <3>2, <3>3 DEF Calling, Agrees, Keeps, Accounts
  <2>5. QED
    BY <2>3, <2>4
<1>11. CASE GetPhysicalAddress(c)
  <2>1. UNCHANGED <<frame, listed, addresses, accepted, masked, wire>>
    BY <1>11 DEF GetPhysicalAddress, CallRest, addressVars
  <2>2. \/ Answers(c, "physical", Physical) /\ WouldTell(c, Physical)
        \/ Answers(c, "physical", "unset") /\ direct' = direct
    BY <1>11 DEF GetPhysicalAddress, PhysicalOutcome, DriverPhysicalAddress, RpcCode
  <2>3. CASE Answers(c, "physical", Physical) /\ WouldTell(c, Physical)
    <3>1. /\ direct'[c] = Physical /\ \A d \in Clients \ {c} : direct'[d] = direct[d]
      BY <1>2, <2>3 DEF WouldTell
    <3>2. /\ call[c] = "physical" /\ call'[c] = "answered" /\ told'[c] = Physical
          /\ \A d \in Clients \ {c} : call'[d] = call[d] /\ told'[d] = told[d]
      BY <1>5, <2>3
    <3>3. QED
      BY <1>3, <1>4, <2>1, <3>1, <3>2 DEF Calling, Agrees, Keeps, Accounts
  <2>4. CASE Answers(c, "physical", "unset") /\ direct' = direct
    <3>1. /\ call[c] = "physical" /\ call'[c] = "answered" /\ told'[c] = "unset"
          /\ \A d \in Clients \ {c} : call'[d] = call[d] /\ told'[d] = told[d]
      BY <1>5, <2>4
    <3>2. QED
      BY <1>3, <1>4, <2>1, <2>4, <3>1 DEF Calling, Agrees, Keeps, Accounts
  <2>5. QED
    BY <2>2, <2>3, <2>4
<1>12. CASE Returns(c)
  <2>1. /\ UNCHANGED <<listed, addresses, accepted, masked>>
        /\ call'[c] = "none" /\ told'[c] = "none" /\ direct'[c] = "none"
        /\ wire'[c] = NoFrame /\ frame'[c] = NoFrame
        /\ \A d \in Clients \ {c} : /\ call'[d] = call[d] /\ told'[d] = told[d]
                                    /\ direct'[d] = direct[d]
                                    /\ wire'[d] = wire[d] /\ frame'[d] = frame[d]
    BY <1>1, <1>2, <1>12 DEF Returns, addressVars
  <2>2. QED
    BY <1>3, <1>4, <2>1 DEF Calling, Agrees, Keeps, Accounts
<1>13. CASE AddLogicalAddress(c)
  <2>1. PICK err \in AddErrors :
          LET here == IF dead THEN "InvalidStateException"
                      ELSE LibAddOutcome(initialized, driver = "open", err)
              code == RpcCode(Reached(here))
              asks == ~dead /\ initialized /\ driver = "open"
          IN /\ Answers(c, "add", AddOutcome(TRUE, code))
             /\ listed' = [listed EXCEPT ![c] = Listed(@, Own[c], TRUE, code)]
             /\ addresses' = IF asks THEN Listed(addresses, Own[c], TRUE, err) ELSE addresses
             /\ accepted' = IF asks /\ err = "SUCCESS" THEN accepted \cup {Own[c]} ELSE accepted
             /\ masked' = IF code # "SUCCESS" \/ err \notin {"SUCCESS", "GENERAL_ERROR",
                                                             "LOGICALADDRESS_UNAVAILABLE"}
                          THEN masked \cup {Own[c]} ELSE masked
             /\ IF asks THEN WouldTell(c, LibAddOutcome(TRUE, TRUE, err)) ELSE UNCHANGED direct
             /\ UNCHANGED <<CallRest, dead, wire>>
    BY <1>13 DEF AddLogicalAddress
  <2> DEFINE here == IF dead THEN "InvalidStateException"
                     ELSE LibAddOutcome(initialized, driver = "open", err)
             code == RpcCode(Reached(here))
             asks == ~dead /\ initialized /\ driver = "open"
  <2>2. UNCHANGED <<frame, wire>>
    BY <2>1 DEF CallRest
  <2>3. \A known \in BOOLEAN : AddOutcome(TRUE, RpcCode(known)) = "ok"
    BY DEF AddOutcome, RpcCode
  <2>4. /\ call[c] = "add" /\ call'[c] = "answered" /\ told'[c] = "ok"
        /\ \A d \in Clients \ {c} : call'[d] = call[d] /\ told'[d] = told[d]
    <3>1. Answers(c, "add", "ok")
      BY <2>1, <2>3 DEF Reached
    <3>2. QED
      BY <1>5, <3>1
  <2>5. /\ listed'[c] \subseteq listed[c] \cup {Own[c]}
        /\ \A d \in Clients \ {c} : listed'[d] = listed[d]
        /\ addresses' \subseteq addresses \cup {Own[c]}
        /\ accepted \subseteq accepted' /\ masked \subseteq masked'
    BY <1>1, <2>1 DEF Listed
  <2>6. Own[c] # Unregistered
    BY ClientAssumption DEF Unregistered
  <2>7. \A d \in Clients \ {c} : direct'[d] = direct[d]
    BY <1>2, <2>1 DEF WouldTell
  <2>8. /\ ~asks => code # "SUCCESS"
        /\ asks /\ err \in {"GENERAL_ERROR", "LOGICALADDRESS_UNAVAILABLE"} => code # "SUCCESS"
    BY DEF LibAddOutcome, AddOutcome, Reached, RpcCode
  <2>9. Own[c] \in masked' \/ (asks /\ err = "SUCCESS")
    BY <2>1, <2>8
  <2>10. Own[c] \in accepted' \cup masked'
    BY <2>1, <2>9
  <2>11. asks /\ err = "SUCCESS" => direct'[c] = "ok"
    BY <1>2, <2>1 DEF WouldTell, LibAddOutcome, AddOutcome
  <2>12. frame'[c] = NoFrame /\ wire'[c] = NoFrame
    BY <1>3, <2>2, <2>4 DEF Calling
  <2>13. Calling(c)' /\ Agrees(c)' /\ Keeps(c)' /\ Accounts(c)'
    BY <1>3, <2>4, <2>5, <2>9, <2>10, <2>11, <2>12 DEF Calling, Agrees, Keeps, Accounts
  <2>14. QED
    BY <1>3, <1>4, <2>2, <2>4, <2>5, <2>6, <2>7, <2>13
<1>14. QED
  BY <1>6, <1>7, <1>8, <1>9, <1>10, <1>11, <1>12, <1>13 DEF Serves

-----------------------------------------------------------------------------
(* The three together *)

\* At the start nothing is up, nothing asked, and nobody told anything.
LEMMA InitGood == Init => IInv
<1> SUFFICES ASSUME Init PROVE IInv
  OBVIOUS
<1> USE DEF Init, ClientInit, Lib!Init
<1>1. /\ at \in [Clients -> {"closed", "registered", "allocated", "open", "closing",
                             "unregistered"}]
      /\ ctx \in [Clients -> {"none", "raw", "set"}]
      /\ registered \in [Clients -> BOOLEAN] /\ pending \in [Clients -> BOOLEAN]
      /\ handling \in [Clients -> BOOLEAN] /\ edge \in [Clients -> BOOLEAN]
      /\ ended \in [Clients -> BOOLEAN]
  OBVIOUS
<1>2. /\ listed \in [Clients -> SUBSET (0 .. 15)] /\ addresses \subseteq 0 .. 15
      /\ accepted \subseteq addresses /\ masked \subseteq 0 .. 15
  OBVIOUS
<1>3. /\ call \in [Clients -> {"none", "send", "sending", "add", "logical", "physical", "answered"}]
      /\ frame \in [Clients -> Wires] /\ wire \in [Clients -> Wires]
      /\ told \in [Clients -> Outcomes] /\ direct \in [Clients -> Outcomes]
  BY DEF Wires, Outcomes
<1>4. events \in Seq({"enable", "disable", "send"}) /\ Len(events) <= MaxEvents
  BY ClientAssumption
<1>5. /\ doing = "nothing" /\ {asked, started, published, connection, listening, dead} \subseteq BOOLEAN
      /\ Lib!TypeOK
  BY DEF Lib!TypeOK
<1>6. TypeOK
  BY <1>1, <1>2, <1>3, <1>4, <1>5 DEF TypeOK
<1>7. Manager
  <2>1. Phase
    BY DEF Phase, Up, Down
  <2>2. Target = FALSE /\ asked = FALSE
    BY DEF Target
  <2>3. LastDecides(events, FALSE, FALSE)
    <3>1. Len(events) = 0
      OBVIOUS
    <3>2. 1 .. Len(events) = {}
      BY <3>1
    <3>3. QED
      BY <3>2 DEF LastDecides
  <2>4. QED
    BY <2>1, <2>2, <2>3 DEF Manager, Settled
<1>8. Opening
  BY DEF Opening
<1>9. Answering
  BY DEF Answering, Calling, Agrees, Keeps, Accounts
<1>10. QED
  BY <1>6, <1>7, <1>8, <1>9 DEF IInv

\* Each step keeps the types and the three parts.
LEMMA StepKeeps == IInv /\ [Next]_vars => IInv'
<1> SUFFICES ASSUME IInv, [Next]_vars PROVE IInv'
  OBVIOUS
<1>1. TypeOK /\ Manager /\ Opening /\ Answering /\ Unregistered \notin addresses
  BY DEF IInv, Answering
<1>2. CASE UNCHANGED vars
  <2>1. TypeOK'
    BY <1>1, <1>2 DEF TypeOK, Lib!TypeOK, vars, clientVars, libVars, managerVars, addressVars, answerVars
  <2>2. QED
    BY <1>1, <1>2, <2>1, ServesKeepsManager, OthersKeepOpening, OthersKeepAnswering DEF IInv
<1>3. CASE Manages
  <2>1. Manager'
    <3>1. CASE EnableBegins \/ DisableBegins \/ SendEvent
      BY <1>1, <3>1, EventKeepsManager
    <3>2. CASE ~(EnableBegins \/ DisableBegins \/ SendEvent)
      <4>1. events' = events
        BY <1>3, <3>2 DEF Manages, StartOpens, StartFails, StartInitialized, StartConnects,
           StartPublishes, StopUnlistens, StopUnpublishes, StopDeletes, StopCloses, StopFails,
           StopTerminated, clientVars
      <4>2. QED
        BY <1>1, <1>3, <4>1, PhaseKeepsManager
    <3>3. QED
      BY <3>1, <3>2
  <2>2. QED
    BY <1>1, <1>3, <2>1, ManagesTyped, OthersKeepOpening, OthersKeepAnswering DEF IInv
<1>4. CASE Notify
  BY <1>1, <1>4, NotifyTyped, ServesKeepsManager, OthersKeepOpening, OthersKeepAnswering DEF IInv
<1>5. ASSUME NEW c \in Clients, ClientStep(c)
      PROVE  IInv'
  BY <1>1, <1>5, ClientTyped, ClientKeepsManager, ClientKeepsOpening, ClientKeepsAnswering DEF IInv
<1>6. ASSUME NEW c \in Clients, Serves(c)
      PROVE  IInv'
  BY <1>1, <1>6, ServesTyped, ServesKeepsManager, OthersKeepOpening, ServesKeepsAnswering DEF IInv
<1>7. QED
  BY <1>2, <1>3, <1>4, <1>5, <1>6 DEF Next

\* The inductive invariant of the daemon and its clients.
LEMMA Invariance == Spec => []IInv
  BY InitGood, StepKeeps, PTL DEF Spec

-----------------------------------------------------------------------------
(* What is promised *)

\* Every variable keeps its type, and the addresses the hardware accepted are
\* among those the daemon has listed.
THEOREM TypeCorrect == Spec => []TypeOK
<1>1. IInv => TypeOK
  BY DEF IInv
<1>2. QED
  BY <1>1, Invariance, PTL

\* m_connection is only set while the connection exists and the library is up.
THEOREM ReadyWhenPublished == Spec => []PublishedIsReady
<1>1. IInv => PublishedIsReady
  BY DEF IInv, TypeOK, Manager, Phase, Up, Down, PublishedIsReady
<1>2. QED
  BY <1>1, Invariance, PTL

\* However many clients open and close, and in whatever order, the daemon ends
\* up where the last ENABLE or DISABLE sends it.
THEOREM LastDecidesDaemon == Spec => []DaemonFollowsLast
<1>1. IInv => DaemonFollowsLast
  <2> SUFFICES ASSUME IInv, ~dead, events = <<>>, doing = "nothing"
               PROVE  started = asked
    BY DEF DaemonFollowsLast
  <2>1. Settled /\ Target = started
    BY DEF IInv, Manager, Target
  <2>2. \A k \in 1 .. Len(events) : events[k] = "send"
    OBVIOUS
  <2>3. QED
    BY <2>1, <2>2 DEF Settled, LastDecides
<1>2. QED
  BY <1>1, Invariance, PTL

\* A handler that meets a context which is missing or half filled in has an
\* open or a close of its own process beside it.
THEOREM FaultsOnlyAtEdges == Spec => []ReceiveFaultsOnlyAtEdges
<1>1. IInv => ReceiveFaultsOnlyAtEdges
  BY DEF IInv, Opening, ReceiveFaultsOnlyAtEdges
<1>2. QED
  BY <1>1, Invariance, PTL

\* What a client is told through the bus, the daemon and two drivers is what
\* the process that owns the hardware would have been told.
THEOREM ToldAsDirectly == Spec => []OutcomeAgrees
<1>1. IInv => OutcomeAgrees
  BY DEF IInv, Answering, Agrees, OutcomeAgrees
<1>2. QED
  BY <1>1, Invariance, PTL

\* The daemon puts each frame on the wire with the initiator it came with.
THEOREM InitiatorUnchanged == Spec => []InitiatorKept
<1>1. IInv => InitiatorKept
  BY DEF IInv, Answering, Keeps, InitiatorKept
<1>2. QED
  BY <1>1, Invariance, PTL

\* What a client lists the hardware took, or an error of it was taken for success.
THEOREM ListedIsAccounted == Spec => []ListedWasAccepted
<1>1. IInv => ListedWasAccepted
  BY DEF IInv, Answering, Accounts, ListedWasAccepted
<1>2. QED
  BY <1>1, Invariance, PTL
=============================================================================
