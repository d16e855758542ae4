---------------------------- MODULE RouteTable ----------------------------
(***************************************************************************)
(* What the router promises its clients about element names: a table in    *)
(* which an element belongs to at most one connected client, from the      *)
(* registration the router accepted until that client withdraws or is      *)
(* gone, or a client that once registered the element, or one above it,    *)
(* gives that up.  RtRouted, with its topic tree, implements this table.   *)
(***************************************************************************)
CONSTANTS
    Clients,
    Elements,
    Under     \* Under[t]: element t and the elements below it

VARIABLES
    live,      \* connected clients
    owns,      \* <<c, t>>: element t belongs to client c
    believes   \* <<c, t>>: c has registered t and not given it up

tvars == <<live, owns, believes>>

Init == live = {} /\ owns = {} /\ believes = {}

Join(c) == live' = live \union {c} /\ UNCHANGED <<owns, believes>>

Register(c, t) ==
    /\ c \in live /\ \A d \in Clients : <<d, t>> \notin owns
    /\ owns' = owns \union {<<c, t>>}
    /\ believes' = believes \union {<<c, t>>}
    /\ UNCHANGED live

(* Nobody is told that elements below t go too, whoever has them. *)
Unregister(c, t) ==
    /\ <<c, t>> \in believes
    /\ owns' = {x \in owns : x[2] \notin Under[t]}
    /\ believes' = believes \ {<<c, t>>}
    /\ UNCHANGED live

Without(c, pairs) == {x \in pairs : x[1] # c}

(* The listener the elements of c are attached to is removed. *)
Withdraw(c) ==
    /\ owns' = Without(c, owns) /\ believes' = Without(c, believes)
    /\ UNCHANGED live

Leave(c) ==
    /\ live' = live \ {c}
    /\ owns' = Without(c, owns) /\ believes' = Without(c, believes)

Next ==
    \E c \in Clients :
       \/ Join(c) \/ Leave(c) \/ Withdraw(c)
       \/ \E t \in Elements : Register(c, t) \/ Unregister(c, t)

Spec == Init /\ [][Next]_tvars
=============================================================================
