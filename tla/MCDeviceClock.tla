---------------------------- MODULE MCDeviceClock ----------------------------
(***************************************************************************)
(* TLC instances of the device clock.  A CD event readies the DMA channel  *)
(* behind it, a timer repeats, the vertical blank repeats.                 *)
(***************************************************************************)
EXTENDS DeviceClockInv

MCArms ==
    [i \in Devices |-> [j \in Devices |->
        CASE i = "cdrom" /\ j = "dma" -> 2
          [] i = "timers" /\ j = "timers" -> 3
          [] i = "interrupts" /\ j = "interrupts" -> 7
          [] OTHER -> 0]]

=============================================================================
