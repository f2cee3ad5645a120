-------------------------- MODULE MC_OrdersGateway --------------------------
(* Small instances of OrdersGateway for TLC.                               *)
EXTENDS OrdersGateway, TLC

CONSTANTS o1, o2, alice, bob, support

MCOwner == o1 :> alice @@ o2 :> bob

\* A token in each place, one that hides a good one, and none.
MCHandshakes ==
  { [auth |-> "none", header |-> alice, query |-> "invalid"],
    [auth |-> support, header |-> "none", query |-> "none"],
    [auth |-> "invalid", header |-> "none", query |-> alice],
    [auth |-> "none", header |-> "none", query |-> alice],
    [auth |-> "none", header |-> "none", query |-> "none"] }
=============================================================================
