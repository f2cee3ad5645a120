---------------------------- MODULE MC_Payments ----------------------------
(* Small instances of Payments for TLC.                                    *)
EXTENDS Payments, TLC

CONSTANTS c1, c2, key1, o1, o2, e1

Body(order, key, sim) == [order |-> order, key |-> key, simulate |-> sim]

\* Two calls: with one key on two orders, with a key and without and an outage
\* simulated for each, and with the errors that come before the first attempt.
MCInputs ==
  { c1 :> Body(o1, key1, FALSE) @@ c2 :> Body(o2, key1, TRUE),
    c1 :> Body(o1, key1, TRUE) @@ c2 :> Body(o2, NoKey, TRUE),
    c1 :> Body(e1, NoKey, FALSE) @@ c2 :> Body(NoOrder, NoKey, FALSE) }
=============================================================================
