------------------------------- MODULE MCCdRom -------------------------------
(* Constants for model checking CdRom: second responses that come before and *)
(* after the next sector, a session that streams and fetches sectors, one   *)
(* that aims again while it streams, one that changes the sector size while *)
(* it streams, one that drives the controller with every command while the  *)
(* host acts, and one in which the host acts again on what it did.          *)
EXTENDS CdRomInv

MCLatency == [op \in TwoPhase \cup {"Paused"} |-> IF op = "Seek" THEN 1 ELSE 4]

Plain(ops) == {[op |-> op, to |-> 0] : op \in ops}
Far == [op |-> "Setloc", to |-> 1]

Streaming ==
    [issue |-> Plain({"Read"}), most |-> 2, fetch |-> TRUE, host |-> 0]

Seeking ==
    [issue |-> Plain({"Read", "Pause", "ReadTOC", "Other", "Invalid"}) \cup {Far},
     most |-> 3, fetch |-> FALSE, host |-> 0]

Driving ==
    [issue |-> Plain({"GetStat", "Read", "Play"} \cup (TwoPhase \ {"ReadTOC", "Pause"})),
     most |-> 2, fetch |-> FALSE, host |-> 1]

Sizing ==
    [issue |-> Plain({"Read"} \cup Sizes), most |-> 4, fetch |-> FALSE, host |-> 0]

Hosting ==
    [issue |-> Plain({"GetStat", "Read"}), most |-> 1, fetch |-> FALSE, host |-> 2]

MCSessions == {Streaming, Seeking, Sizing, Driving, Hosting}

\* Whole sectors, read at the configured speed.
MCWhole == {[issue |-> Plain({"Read", "whole"}), most |-> 2, fetch |-> FALSE, host |-> 0]}
==============================================================================
