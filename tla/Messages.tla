------------------------------ MODULE Messages ------------------------------
(***************************************************************************)
(* ccec/include/ccec/Messages.hpp and OpCode.hpp: the messages, the        *)
(* operands each one serialises and reads back, in order.                  *)
(*                                                                         *)
(* A message is [name, operands], its operands the byte sequences of       *)
(* Operands.tla.  DataBlock::print() and GetOpName() only make texts.      *)
(***************************************************************************)
EXTENDS Operands

-----------------------------------------------------------------------------
(* OpCode.hpp: the code of each message that has a class *)

Code ==
  [ActiveSource |-> \h82, ImageViewOn |-> \h04, TextViewOn |-> \h0D, InActiveSource |-> \h9D,
   RequestActiveSource |-> \h85, Standby |-> \h36, GetCECVersion |-> \h9F, CECVersion |-> \h9E,
   SetMenuLanguage |-> \h32, GetMenuLanguage |-> \h91, GiveOSDName |-> \h46, SetOSDName |-> \h47,
   SetOSDString |-> \h64, GivePhysicalAddress |-> \h83, ReportPhysicalAddress |-> \h84,
   GiveDeviceVendorID |-> \h8C, DeviceVendorID |-> \h87, GiveDevicePowerStatus |-> \h8F,
   ReportPowerStatus |-> \h90, Abort |-> \hFF, FeatureAbort |-> \h00, RoutingChange |-> \h80,
   RoutingInformation |-> \h81, SetStreamPath |-> \h86, RequestShortAudioDescriptor |-> \hA4,
   ReportShortAudioDescriptor |-> \hA3, SystemAudioModeRequest |-> \h70,
   SetSystemAudioMode |-> \h72, GiveAudioStatus |-> \h71, ReportAudioStatus |-> \h7A,
   UserControlPressed |-> \h44, UserControlReleased |-> \h45, Polling |-> \h200,
   RequestArcInitiation |-> \hC3, ReportArcInitiation |-> \hC1, RequestArcTermination |-> \hC4,
   ReportArcTermination |-> \hC2, InitiateArc |-> \hC0, TerminateArc |-> \hC5]

-----------------------------------------------------------------------------
(* The operands of each message: the classes its constructors and its      *)
(* serialize() go through, one after the other                             *)

SourceMessages ==
  [ActiveSource |-> <<"PhysicalAddress">>, ImageViewOn |-> <<>>, TextViewOn |-> <<>>,
   InActiveSource |-> <<"PhysicalAddress">>, RequestActiveSource |-> <<>>, Standby |-> <<>>]

VersionMessages ==
  [GetCECVersion |-> <<>>, CECVersion |-> <<"Version">>,
   SetMenuLanguage |-> <<"Language">>, GetMenuLanguage |-> <<>>]

NameMessages ==
  [GiveOSDName |-> <<>>, SetOSDName |-> <<"OSDName">>, SetOSDString |-> <<"OSDString">>]

DeviceMessages ==
  [GivePhysicalAddress |-> <<>>, ReportPhysicalAddress |-> <<"PhysicalAddress", "DeviceType">>,
   GiveDeviceVendorID |-> <<>>, DeviceVendorID |-> <<"VendorID">>,
   GiveDevicePowerStatus |-> <<>>, ReportPowerStatus |-> <<"PowerStatus">>]

RoutingMessages ==
  [Abort |-> <<>>, FeatureAbort |-> <<"OpCode", "AbortReason">>,
   RoutingChange |-> <<"PhysicalAddress", "PhysicalAddress">>,
   RoutingInformation |-> <<"PhysicalAddress">>, SetStreamPath |-> <<"PhysicalAddress">>]

AudioMessages ==
  [SystemAudioModeRequest |-> <<"PhysicalAddress">>, SetSystemAudioMode |-> <<"SystemAudioStatus">>,
   GiveAudioStatus |-> <<>>, ReportAudioStatus |-> <<"AudioStatus">>]

ControlMessages ==
  [UserControlPressed |-> <<"UICommand">>, UserControlReleased |-> <<>>, Polling |-> <<>>,
   RequestArcInitiation |-> <<>>, ReportArcInitiation |-> <<>>, RequestArcTermination |-> <<>>,
   ReportArcTermination |-> <<>>, InitiateArc |-> <<>>, TerminateArc |-> <<>>]

\* The two messages with as many operands as the application or the frame has.
RequestDescriptor == "RequestShortAudioDescriptor"
ReportDescriptor == "ReportShortAudioDescriptor"
MaxDescriptors == 4

Layout ==
  [name \in DOMAIN Code \ {RequestDescriptor, ReportDescriptor} |->
     CASE name \in DOMAIN SourceMessages -> SourceMessages[name]
       [] name \in DOMAIN VersionMessages -> VersionMessages[name]
       [] name \in DOMAIN NameMessages -> NameMessages[name]
       [] name \in DOMAIN DeviceMessages -> DeviceMessages[name]
       [] name \in DOMAIN RoutingMessages -> RoutingMessages[name]
       [] name \in DOMAIN AudioMessages -> AudioMessages[name]
       [] name \in DOMAIN ControlMessages -> ControlMessages[name]]

-----------------------------------------------------------------------------
(* A message built from its arguments, and its bytes *)

\* Both constructors stop at four descriptors.
Classes(name, args) ==
  IF name \in {RequestDescriptor, ReportDescriptor}
  THEN [i \in 1..(IF Len(args) > MaxDescriptors THEN MaxDescriptors ELSE Len(args)) |->
          IF name = RequestDescriptor THEN "RequestAudioFormat" ELSE "ShortAudioDescriptor"]
  ELSE Layout[name]

Message(name, args) ==
  LET classes == Classes(name, args)
  IN [name |-> name, operands |-> [i \in DOMAIN classes |-> Build(classes[i], args[i])]]

\* The number of operands serialize() walks.  The parameter of the constructor
\* of ReportShortAudioDescriptor hides the member, which stays uninitialised.
Counts(m) == IF m.name = ReportDescriptor THEN 0..(MaxDescriptors + 1) ELSE {Len(m.operands)}

\* F.F.F.F stands for "off" and is not sent.
AllOnes == <<255, 255>>

Serialized(m, count) ==
  IF m.name = "SystemAudioModeRequest" /\ m.operands[1] = AllOnes THEN <<>>
  ELSE FlattenSeq(SubSeq(m.operands, 1, count))

-----------------------------------------------------------------------------
(* A message read from the operands of a frame *)

\* The number of descriptors follows from the length of the frame.
Fields(name, bytes) ==
  CASE name = RequestDescriptor ->
         [i \in 1..(IF Len(bytes) > MaxDescriptors THEN MaxDescriptors ELSE Len(bytes)) |->
            "RequestAudioFormat"]
    [] name = ReportDescriptor -> [i \in 1..(Len(bytes) \div 3) |-> "ShortAudioDescriptor"]
    [] OTHER -> Layout[name]

\* Variant: every operand is read at startPos.
StartAtZero(fields, i) == 0

\* The constructors add the MAX_LEN of the first operand to startPos for the
\* second one, and i or i * 3 for the descriptors, which are all of one class.
Start(fields, i) == (i - 1) * Class[fields[1]].max

\* SystemAudioModeRequest means to take an empty frame for F.F.F.F, but its
\* operand is constructed, and refuses the frame, before that line is reached.
Deserialized(name, bytes) ==
  LET fields == Fields(name, bytes)
  IN [name |-> name,
      operands |-> [i \in DOMAIN fields |->
                      CECBytes(bytes, Start(fields, i), Class[fields[i]].max)]]

Refused(m) == \E i \in DOMAIN m.operands : m.operands[i] = Thrown
=============================================================================
