------------------------------- MODULE Codec --------------------------------
(***************************************************************************)
(* The way of a message through MessageEncoder (MessageEncoder.hpp), a     *)
(* CECFrame and MessageDecoder::decode (MessageDecoder.cpp), and the way   *)
(* of a frame some other device made through the decoder alone.            *)
(*                                                                         *)
(* One message or frame is under way at a time: nothing here is shared.    *)
(***************************************************************************)
EXTENDS Messages

CONSTANTS
  Addresses,   \* the logical addresses of a header, within 0..15
  Arguments,   \* [name |-> the argument tuples an application gives that message]
  Foreign      \* the frames other devices send

VARIABLES
  sent,    \* what the application encoded: [from, to, name, args], or None
  frame,   \* the bytes of the frame
  got      \* what became of it: [kind, from, to, message]

vars == <<sent, frame, got>>

-----------------------------------------------------------------------------
(* CECFrame and Header *)

MaxLength == 128    \* CECFrame::MAX_LENGTH; append() throws beyond it

\* Addresses are of four bits, no frame is longer than a CECFrame, and an
\* application gives each operand of a message what its class takes.
ASSUME CodecAssumption ==
  /\ Addresses \subseteq 0..15
  /\ \A bytes \in Foreign : bytes \in Seq(Byte) /\ Len(bytes) <= MaxLength
  /\ DOMAIN Arguments \subseteq DOMAIN Code
  /\ \A name \in DOMAIN Arguments : \A args \in Arguments[name] :
       CASE name = RequestDescriptor -> args \in Seq(Given("RequestAudioFormat"))
         [] name = ReportDescriptor -> args \in Seq(Given("ShortAudioDescriptor"))
         [] OTHER -> /\ DOMAIN args = DOMAIN Layout[name]
                     /\ \A i \in DOMAIN args : args[i] \in Given(Layout[name][i])

\* subFrame(start), from the byte at offset start on.
SubFrame(bytes, start) == SubSeq(bytes, start + 1, Len(bytes))

\* Header::serialize() appends "to" and then puts "from" into the same byte.
HeaderByte(from, to) == (16 * from + to) % 256

HeaderOf(byte) == [from |-> byte \div 16, to |-> byte % 16]

-----------------------------------------------------------------------------
(* MessageEncoder and MessageDecoder *)

\* Variant: POLLING is written like any code.
OpCodeBytesAlways(name) == <<Code[name]>>

\* POLLING is no byte of the frame; other codes are cut to one.
OpCodeBytes(name) == IF name = "Polling" THEN <<>> ELSE <<Code[name] % 256>>

Encoded(from, to, m, count) ==
  <<HeaderByte(from, to)>> \o OpCodeBytes(m.name) \o Serialized(m, count)

\* The cases of decode() that hand a message to the processor.
Decodable ==
  (DOMAIN SourceMessages \cup DOMAIN VersionMessages \cup DOMAIN NameMessages
     \cup DOMAIN DeviceMessages \cup DOMAIN RoutingMessages
     \cup {RequestDescriptor, ReportDescriptor, "SystemAudioModeRequest",
           "SetSystemAudioMode", "ReportAudioStatus", "InitiateArc", "TerminateArc"})

None == [name |-> "none", operands |-> <<>>]

Outcome(kind, header, m) == [kind |-> kind, from |-> header.from, to |-> header.to, message |-> m]

NoHeader == [from |-> -1, to |-> -1]

\* Variant: decode() catches the InvalidParamException of an operand without
\* bytes, and not the length_error of one that starts past the frame.
RefusalUncaught(name, bytes) ==
  IF \E i \in DOMAIN Fields(name, bytes) : Start(Fields(name, bytes), i) > Len(bytes)
  THEN "escaped" ELSE "dropped"

\* Both kinds of exception an operand's constructor throws are caught and
\* logged: InvalidParamException, and any std::exception.
Refusal(name, bytes) == "dropped"

\* decode(in_).  The header is read outside the try block: an empty frame is
\* the one whose exception reaches the caller.
DecodeOutcome(bytes) ==
  CASE Len(bytes) = 0 -> Outcome("escaped", NoHeader, None)
    [] Len(bytes) = 1 -> Outcome("processed", HeaderOf(bytes[1]),
                                 [name |-> "Polling", operands |-> <<>>])
    [] Len(bytes) > 1 ->
         LET names == {name \in Decodable : Code[name] = bytes[2]}
             name == CHOOSE n \in names : TRUE
             m == Deserialized(name, SubFrame(bytes, 2))
             kind == IF Refused(m) THEN Refusal(name, SubFrame(bytes, 2)) ELSE "processed"
         IN IF names = {} THEN Outcome("ignored", HeaderOf(bytes[1]), None)
            ELSE Outcome(kind, HeaderOf(bytes[1]), m)

-----------------------------------------------------------------------------
Nothing == Outcome("nothing", NoHeader, None)
NotSent == [from |-> -1, to |-> -1, name |-> "none", args |-> <<>>]

Init == sent = NotSent /\ frame = <<>> /\ got = Nothing

\* The application builds a message and encodes it.  A count past the end of
\* the vector reads outside it, and append() throws when the frame is full.
Encode(from, to, name) ==
  /\ got = Nothing /\ sent = NotSent /\ frame = <<>>
  /\ \E args \in Arguments[name] :
       LET m == Message(name, args)
       IN \E count \in Counts(m) :
            /\ sent' = [from |-> from, to |-> to, name |-> name, args |-> args]
            /\ LET bytes == Encoded(from, to, m, count)
               IN IF count > Len(m.operands)
                  THEN got' = Outcome("overrun", NoHeader, None) /\ frame' = <<>>
                  ELSE IF Len(bytes) > MaxLength
                  THEN got' = Outcome("thrown", NoHeader, None) /\ frame' = <<>>
                  ELSE frame' = bytes /\ UNCHANGED got

\* A frame comes from the bus, whatever another device put into it.
Arrive(bytes) ==
  /\ got = Nothing /\ sent = NotSent /\ frame = <<>>
  /\ bytes # <<>>
  /\ frame' = bytes
  /\ UNCHANGED <<sent, got>>

\* The decoder takes the frame; an empty one only comes from a HAL.
Decode ==
  /\ got = Nothing
  /\ got' = DecodeOutcome(frame)
  /\ UNCHANGED <<sent, frame>>

\* The next message or frame.
Reset == got # Nothing /\ sent' = NotSent /\ frame' = <<>> /\ got' = Nothing

Next ==
  \/ \E from, to \in Addresses, name \in DOMAIN Arguments : Encode(from, to, name)
  \/ \E bytes \in Foreign : Arrive(bytes)
  \/ Decode
  \/ Reset

Spec == Init /\ [][Next]_vars

-----------------------------------------------------------------------------
\* The values of the variables: an outcome always is one of seven kinds.
TypeOK ==
  /\ got.kind \in {"nothing", "processed", "dropped", "ignored", "escaped", "thrown", "overrun"}
  /\ frame \in Seq(Byte) /\ Len(frame) <= MaxLength
  /\ sent.name \in DOMAIN Arguments \cup {"none"}

WasSent == sent # NotSent /\ got.kind \notin {"nothing", "thrown", "overrun"}

\* The texts that are longer than their class are cut by the receiver.
Fit(class, str) == SubSeq(str, 1, IF Len(str) > Class[class].max THEN Class[class].max ELSE Len(str))

\* What a receiver should read from what the sender wrote.
Meant ==
  LET classes == Classes(sent.name, sent.args)
  IN [i \in DOMAIN classes |->
        IF classes[i] \in {"PhysicalAddress", "RequestAudioFormat"} THEN sent.args[i]
        ELSE Fit(classes[i], sent.args[i])]

\* The messages that do not survive: a report of audio descriptors writes an
\* undefined number of them with half of each byte, the request that says
\* "system audio off", and an operand of no bytes, are refused on arrival.
Lossy ==
  \/ sent.name = ReportDescriptor
  \/ sent.name = "SystemAudioModeRequest" /\ sent.args[1] = <<15, 15, 15, 15>>
  \/ \E i \in DOMAIN sent.args : sent.args[i] = <<>>
  \/ sent.name \notin Decodable \cup {"Polling"}

\* What one device encodes, another one that runs this decoder reads: the same
\* message with the same header and arguments (MessageEncoder.hpp:53,
\* MessageDecoder.cpp:39), but for the messages named in Lossy.
RoundTrip ==
  WasSent /\ ~Lossy =>
    /\ got.kind = "processed"
    /\ got.from = sent.from /\ got.to = sent.to
    /\ got.message.name = sent.name
    /\ LET classes == Classes(sent.name, sent.args)
       IN [i \in DOMAIN got.message.operands |->
             Read(classes[i], got.message.operands[i])] = Meant

\* A frame cut short shifts no operand: those the decoder accepts are the bytes
\* of the frame one after the other, and only the last can be short
\* (Operands.hpp:70, where the length is computed from the bytes left).
OnlyLastShort ==
  got.kind = "processed" /\ Len(frame) > 1 =>
    LET fields == Fields(got.message.name, SubFrame(frame, 2))
        operands == got.message.operands
    IN /\ IsPrefix(FlattenSeq(operands), SubFrame(frame, 2))
       /\ \A i \in 1..(Len(operands) - 1) : Len(operands[i]) = Class[fields[i]].max

\* Whatever another device sends, the decoder drops what it cannot read: an
\* exception reaches its caller for a frame without a header only
\* (MessageDecoder.cpp:45, outside the try block that starts at :55).
EscapesOnlyOnEmpty == got.kind = "escaped" => frame = <<>>

\* The processor prints every message it is given, and applications call the
\* accessors: nothing they index lies outside the operand or its table, except
\* in a physical address that was cut to its first byte (Operands.hpp:396).
PrintStaysInside ==
  /\ got.kind = "overrun" => sent.name = ReportDescriptor
  /\ got.kind = "processed" =>
       ReadsInside(LogicalAddress, <<got.from>>) /\ ReadsInside(LogicalAddress, <<got.to>>)
  /\ got.kind = "processed" /\ Len(frame) > 1 =>
       LET fields == Fields(got.message.name, SubFrame(frame, 2))
       IN \A i \in DOMAIN fields :
            LET str == got.message.operands[i]
            IN \/ ReadsInside(Class[fields[i]], str)
               \/ fields[i] = "PhysicalAddress" /\ Len(str) = 1
=============================================================================
