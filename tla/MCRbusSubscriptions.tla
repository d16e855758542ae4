------------------------ MODULE MCRbusSubscriptions ------------------------
(* The registry with two consumers, a scalar property and a table with one *)
(* row: subscriptions to the scalar, with and without a filter, to the     *)
(* row's property and to the wildcard.                                     *)
EXTENDS RbusSubscriptions

CONSTANTS l1, l2

MCRequests ==
  { [l |-> l1, e |-> "S", c |-> "plain"],
    [l |-> l1, e |-> "S", c |-> "filter"],
    [l |-> l2, e |-> "r", c |-> "plain"],
    [l |-> l2, e |-> "all", c |-> "plain"] }
=============================================================================
