-------------------------- MODULE MCDeviceManager ---------------------------
(* DeviceManager with two power events under way, and no device status:    *)
(* the process never sets one.                                             *)
EXTENDS DeviceManager

MCDevices == {}
MCNames == {"SettopBox"}
=============================================================================
