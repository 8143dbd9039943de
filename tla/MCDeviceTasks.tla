---------------------------- MODULE MCDeviceTasks ----------------------------
(* Small instances of DeviceTasks: two devices, and two clicks that may be *)
(* in progress at once.                                                    *)
EXTENDS DeviceTasks
=============================================================================
