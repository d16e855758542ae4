----------------------------- MODULE MCRtRouted -----------------------------
(* An instance of RtRouted: two processes of one application.  p1 listens   *)
(* to advisories and has a table; both claim one column of it, p2 has       *)
(* another, so that there are elements of both below p1's; p2 has, against  *)
(* the rule, a property beside the rows.                                    *)
EXTENDS RtRouted

MCExpr == [c \in Clients |->
    IF c = "p1" THEN [inbox |-> <<"app", "INBOX", "1">>, obj |-> <<"p1">>, adv |-> Advisory]
                ELSE [inbox |-> <<"app", "INBOX", "2">>, obj |-> <<"p2">>]]

MCMay == [c \in Clients |->
    IF c = "p1" THEN {<<"D", "T", "{i}">>, <<"D", "T", "{i}", "A">>}
                ELSE {<<"D", "T", "{i}", "A">>, <<"D", "T", "{i}", "C">>, <<"D", "T", "B">>}]

Rows == {<<"D", "T", "1", "A">>}
=============================================================================
