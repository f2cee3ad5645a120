---------------------------- MODULE MC_OrderFlow ----------------------------
(* Small instances of OrderFlow for TLC.                                   *)
EXTENDS OrderFlow, TLC

CONSTANTS a, o1

MCOrderOf == a :> o1
=============================================================================
