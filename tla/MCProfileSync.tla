----------------------------- MODULE MCProfileSync -----------------------------
(* Instances of ProfileSync for TLC: two devices with a launcher each, and *)
(* two launchers on one device.                                            *)
EXTENDS ProfileSync, TLC

CONSTANTS d1, d2, p1, p2, f1

TwoDevices == p1 :> d1 @@ p2 :> d2
OneDevice == p1 :> d1 @@ p2 :> d1
OnlyFirst == f1 :> d1
=============================================================================
