---------------------------- MODULE MCRbusEvents ----------------------------
(* One consumer with two threads and two subscriptions to one property of  *)
(* one provider: either each thread has its own, or both threads handle    *)
(* one of them.                                                            *)
EXTENDS RbusEvents

CONSTANTS c, t1, t2

MCPlain == [l |-> c, e |-> "S", c |-> "plain"]
MCFilter == [l |-> c, e |-> "S", c |-> "filter"]
MCRequests == {MCPlain, MCFilter}
MCOwn == (t1 :> {MCPlain}) @@ (t2 :> {MCFilter})
MCShared == (t1 :> {MCPlain}) @@ (t2 :> {MCPlain, MCFilter})
=============================================================================
