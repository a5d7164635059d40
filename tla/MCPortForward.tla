---------------------------- MODULE MCPortForward ----------------------------
(* PortForward with two forwards on one port of two addresses.               *)
EXTENDS PortForward, TLC

CONSTANTS f1, f2, localhost, lan

TwoAddresses == (f1 :> localhost) @@ (f2 :> lan)
SharedPort   == (f1 :> 80) @@ (f2 :> 80)
==============================================================================
