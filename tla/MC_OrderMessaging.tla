------------------------- MODULE MC_OrderMessaging -------------------------
(* Small instances of OrderMessaging for TLC.                              *)
EXTENDS OrderMessaging, TLC

CONSTANTS a, b, n, o1

\* All messages are for one order.
MCOrderOf == [i \in Ids |-> o1]

\* Slots are alike, and so are the readable messages.
Symmetry == Permutations(Slots) \cup Permutations(Readable)
=============================================================================
