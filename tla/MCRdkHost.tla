----------------------------- MODULE MCRdkHost ------------------------------
(* RdkHost with a device, two names and two threads that set the OSD name. *)
(* The status of the devices has no variable in common with the power      *)
(* state and the name but boot, so that one of the two may rest while the  *)
(* other goes through all it can do.                                       *)
EXTENDS RdkHost, TLC

CONSTANTS D1, N1, N2, S1, S2

MCDevices == {D1}
MCNames == {N1, N2}
MCSetters == {S1, S2}
MCSymmetry == Permutations(MCSetters)

\* No device has changed and nobody asks; CECHost_Init may have reset the table.
StatusRests ==
  /\ devStatus \in {Zeros, Blank} /\ view = Zeros /\ told = <<>> /\ ~asking
  /\ untold = {c \in Devices \X Fields : devStatus[c[1]][c[2]] # view[c[1]][c[2]]}

\* The box is on and knows it, and the OSD name was neither set nor read; one
\* name is enough for the devices.
OthersRest ==
  /\ mode = On /\ events = <<>> /\ handling = None
  /\ powerState = On /\ reply.state # Standby /\ ~reply.late /\ ~stale
  /\ osdName = <<DefaultName, DefaultName>> /\ given = osdName
  /\ \A s \in Setters : setting[s] = None
  /\ copy = None /\ ~crossed /\ ~mixed
  /\ \A d \in Devices : devStatus[d].name \in {NoName, DefaultName}

OneAtATime == StatusRests \/ OthersRest
=============================================================================
