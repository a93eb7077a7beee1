--------------------------- MODULE MCDeviceTimeline ---------------------------
(***************************************************************************)
(* The same instances, with the reference timeline beside the clock.       *)
(***************************************************************************)
EXTENDS DeviceTimeline, MCDeviceClock

=============================================================================
