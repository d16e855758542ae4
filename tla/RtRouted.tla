------------------------------ MODULE RtRouted ------------------------------
(***************************************************************************)
(* The router daemon (src/rtmessage/rtrouted.c): clients connect, register *)
(* routes and aliases in the topic tree, messages are dispatched through   *)
(* it, and the routes of a client go away with its connection.  rtrouted   *)
(* is single-threaded: one turn of its select loop handles one message or  *)
(* one lost connection, and is one step here.                              *)
(*                                                                         *)
(* A route (rtRouteEntry) is a pair <<client, id>>.  Its id is the one the *)
(* client sends: "inbox" for the listener that every connection creates,   *)
(* "obj" for the component's listener, to which its elements are attached  *)
(* as aliases, "adv" for the listener on the router's advisories.          *)
(***************************************************************************)
EXTENDS RtRoutingTree, FiniteSetsExt

CONSTANTS
    Clients,    \* connections
    Expr,       \* Expr[c][id]: the expression of each listener of c
    May,        \* May[c]: the aliases (element names) c registers
    Queries     \* topics that messages are sent to

ASSUME RouterAssumption ==
    \A c \in Clients :
       /\ {"inbox", "obj"} \subseteq DOMAIN Expr[c]
       /\ "adv" \in DOMAIN Expr[c] => Expr[c]["adv"] = Advisory

VARIABLES
    clients,   \* gClients
    dead,      \* clients whose socket is closed and the router has not noticed
    inbox,     \* clients whose inbox field is set
    routes,    \* gRoutes
    rt,        \* gRoutingTree
    claims,    \* <<c, t>>: c's registration of t succeeded, c has not undone it
    taken,     \* the claims whose topic went with a topic that was removed
    seen,      \* <<a, c>>: the last advisory about c that a got says connected
    out        \* what the last message handled came to

vars == <<clients, dead, inbox, routes, rt, claims, taken, seen, out>>

Quiet == [kind |-> "none"]

Init ==
    /\ clients = {} /\ dead = {} /\ inbox = {} /\ routes = {}
    /\ rt = EmptyTree
    /\ claims = {} /\ taken = {} /\ seen = {} /\ out = Quiet

(* rtRouted_SendMessage and rtRouted_ForwardMessage: the clients that get a *)
(* message for the topic.  A send to a dead client fails, and is only       *)
(* logged.                                                                  *)
Receivers(tree, topic) == {r[1] : r \in GetTopicRoutes(tree, topic, FALSE)} \ dead

(* rtRouted_SendAdvisoryMessage skips the client it is about. *)
Advised(tree, c) == {<<a, c>> : a \in Receivers(tree, Advisory) \ {c}}

(* rtRouted_AcceptClientConnection, rtRouted_RegisterNewClient *)
Accept(c) ==
    /\ c \notin clients
    /\ clients' = clients \union {c}
    /\ out' = Quiet
    /\ UNCHANGED <<dead, inbox, routes, rt, claims, taken, seen>>

(* The client's process ends, or closes its socket. *)
Die(c) ==
    /\ c \in clients \ dead
    /\ dead' = dead \union {c}
    /\ out' = Quiet
    /\ UNCHANGED <<clients, inbox, routes, rt, claims, taken, seen>>

(* rtRouted_OnMessageSubscribe with add = 1 and a route id the router has   *)
(* not seen from this client: rtRouted_AddRoute, whose result from the tree *)
(* is dropped; the first inbox is announced.  Every client's first          *)
(* subscription is its inbox (rtConnection_CreateInternal).                 *)
SubscribeRoute(c, id) ==
    /\ c \in clients \ dead /\ <<c, id>> \notin routes
    /\ id # "inbox" => <<c, "inbox">> \in routes
    /\ routes' = routes \union {<<c, id>>}
    /\ rt' = AddTopicRoute(rt, Expr[c][id], <<c, id>>, FALSE).rt
    /\ IF id = "inbox" /\ c \notin inbox
       THEN inbox' = inbox \union {c} /\ seen' = seen \union Advised(rt', c)
       ELSE UNCHANGED <<inbox, seen>>
    /\ out' = Quiet
    /\ UNCHANGED <<clients, dead, claims, taken>>

AliasAdded(c, t, res) ==
    /\ rt' = res.rt
    /\ out' = Quiet
    /\ IF res.rc = "ok" THEN claims' = claims \union {<<c, t>>} /\ taken' = taken \ {<<c, t>>}
                        ELSE UNCHANGED <<claims, taken>>
    /\ UNCHANGED <<clients, dead, inbox, routes, seen>>

\* Mutant of SubscribeAlias: duplicates are not rejected.
SubscribeAlias_AllowDup(c, t) ==
    /\ c \notin dead /\ <<c, "obj">> \in routes
    /\ AliasAdded(c, t, AddTopicRoute(rt, t, <<c, "obj">>, FALSE))

(* ... and with the id of a route the client has: rtRouted_AddAlias.  The   *)
(* result is sent to the inbox of the client, which waits for it and takes  *)
(* the element for its own if it is RT_OK.                                  *)
SubscribeAlias(c, t) ==
    /\ c \notin dead /\ <<c, "obj">> \in routes
    /\ AliasAdded(c, t, AddTopicRoute(rt, t, <<c, "obj">>, TRUE))

(* rtRouted_OnMessageSubscribe with add = 0 for the expression of a route   *)
(* of the client: rtRouted_ClearRoute.  No client removes its inbox.        *)
UnsubscribeRoute(c, id) ==
    /\ c \notin dead /\ <<c, id>> \in routes /\ id # "inbox"
    /\ routes' = routes \ {<<c, id>>}
    /\ rt' = RemoveRoute(rt, <<c, id>>)
    /\ claims' = {x \in claims : x[1] = c => id # "obj"}
    /\ taken' = taken \intersect claims'
    /\ seen' = {x \in seen : x[1] = c => id # "adv"}
    /\ out' = Quiet
    /\ UNCHANGED <<clients, dead, inbox>>

(* ... and for anything else: rtRoutingTree_RemoveTopic, which also takes   *)
(* what is registered below the topic, whoever registered it.  A client     *)
(* removes what it has registered, in any order (rbus_unregDataElements);   *)
(* nothing tells it that a claim of its was taken, and nothing checks whose *)
(* topic it removes.                                                        *)
UnsubscribeAlias(c, t) ==
    /\ c \notin dead /\ <<c, t>> \in claims
    /\ rt' = RemoveTopic(rt, t)
    /\ claims' = claims \ {<<c, t>>}
    /\ taken' = {x \in claims' : x \in taken \/ Below(t, x[2])}
    /\ out' = Quiet
    /\ UNCHANGED <<clients, dead, inbox, routes, seen>>

\* Mutant of Dispatch: a request that matches nothing is dropped.
Dispatch_Drop(c, q) ==
    /\ c \notin dead /\ <<c, "inbox">> \in routes
    /\ out' = [kind |-> "sent", from |-> c, returned |-> {},
               matched |-> GetTopicRoutes(rt, q, FALSE) # {}]
    /\ UNCHANGED <<clients, dead, inbox, routes, rt, claims, taken, seen>>

(* rtRouter_DispatchMessageFromClient for a request of c to topic q (other  *)
(* messages are forwarded, and change nothing here).  A request that        *)
(* matches no route is turned around once, to the topic where the sender    *)
(* awaits its reply.  (A send never fails with EBADF, for which the code    *)
(* would clear the routes: a client's socket is closed after its routes are *)
(* gone.)                                                                   *)
Dispatch(c, q) ==
    /\ c \notin dead /\ <<c, "inbox">> \in routes
    /\ LET matched == GetTopicRoutes(rt, q, FALSE) # {}
       IN out' = [kind |-> "sent", from |-> c, matched |-> matched,
                  returned |-> IF matched THEN {} ELSE Receivers(rt, Expr[c]["inbox"])]
    /\ UNCHANGED <<clients, dead, inbox, routes, rt, claims, taken, seen>>

(* rtRouted_ClearClientRoutes *)
RoutesOf(c) == {r \in routes : r[1] = c}

\* Mutants of Disconnect: the routes stay in the tree; nobody is told.
Disconnect_KeepRoutes(c) ==
    /\ c \in dead
    /\ clients' = clients \ {c} /\ dead' = dead \ {c} /\ inbox' = inbox \ {c}
    /\ seen' = {x \in seen \ Advised(rt, c) : x[1] # c}
    /\ routes' = routes \ RoutesOf(c)
    /\ claims' = {x \in claims : x[1] # c} /\ taken' = taken \intersect claims'
    /\ out' = Quiet
    /\ UNCHANGED rt
Disconnect_Silent(c) ==
    /\ c \in dead
    /\ clients' = clients \ {c} /\ dead' = dead \ {c} /\ inbox' = inbox \ {c}
    /\ seen' = {x \in seen : x[1] # c}
    /\ routes' = routes \ RoutesOf(c)
    /\ rt' = FoldSet(LAMBDA r, tree : RemoveRoute(tree, r), rt, RoutesOf(c))
    /\ claims' = {x \in claims : x[1] # c} /\ taken' = taken \intersect claims'
    /\ out' = Quiet

(* The router reads from a closed socket: the client leaves gClients, the   *)
(* advisory listeners are told, and rtConnectedClient_Destroy clears all    *)
(* its routes.                                                              *)
Disconnect(c) ==
    /\ c \in dead
    /\ clients' = clients \ {c} /\ dead' = dead \ {c} /\ inbox' = inbox \ {c}
    /\ seen' = {x \in seen \ Advised(rt, c) : x[1] # c}
    /\ routes' = routes \ RoutesOf(c)
    /\ rt' = FoldSet(LAMBDA r, tree : RemoveRoute(tree, r), rt, RoutesOf(c))
    /\ claims' = {x \in claims : x[1] # c} /\ taken' = taken \intersect claims'
    /\ out' = Quiet

Next ==
    \E c \in Clients :
       \/ Accept(c) \/ Die(c) \/ Disconnect(c)
       \/ \E id \in DOMAIN Expr[c] : SubscribeRoute(c, id) \/ UnsubscribeRoute(c, id)
       \/ \E t \in May[c] : SubscribeAlias(c, t) \/ UnsubscribeAlias(c, t)
       \/ \E q \in Queries : Dispatch(c, q)

Spec == Init /\ [][Next]_vars

-----------------------------------------------------------------------------
(* Properties                                                               *)

(* The router's lists and the tree are well formed. *)
TypeOK ==
    /\ dead \subseteq clients /\ clients \subseteq Clients /\ inbox \subseteq clients
    /\ \A r \in routes : r[1] \in clients /\ r[2] \in DOMAIN Expr[r[1]]
    /\ TreeTypeOK(rt, routes)
    /\ \A x \in claims : x[1] \in clients /\ x[2] \in May[x[1]]
    /\ taken \subseteq claims

(* Every route that a list of the tree points to is one of gRoutes, is      *)
(* still an rtTreeRoute and has a topic (rtRoutingTree_ResolvePartialPath   *)
(* takes its first): whatever order disconnects and removals come in, the   *)
(* router never forwards through an entry it has freed.                     *)
NoStaleRoute ==
    \A p \in DOMAIN rt.node : \A r \in rt.node[p].routes \union rt.node[p].routes2 :
        r \in routes /\ r \in DOMAIN rt.routes /\ rt.routes[r] # <<>>

(* The topics that name an element: itself, its instances when it belongs   *)
(* to a table, and the table's path when it is the row placeholder.         *)
Names(t) ==
    {[i \in DOMAIN t |-> IF t[i] = Curly THEN row ELSE t[i]] : row \in RowTokens \union {Curly}}
      \union (IF Last(t) = Curly THEN {Front(t)} ELSE {})

(* A registered element stays routable to its owner, and to nobody else,    *)
(* under each of its names, until the owner drops its listener or           *)
(* disconnects, or a client removes it or a topic above it: no other        *)
(* registration, removal or death gets in the way, nor does a registration  *)
(* after such a removal leave the element half there.                       *)
AliasRoutable ==
    \A x \in claims \ taken :
        \A q \in Names(x[2]) : GetTopicRoutes(rt, q, FALSE) = {<<x[1], "obj">>}

(* Replies reach the client that asked, and no other client: the inbox of   *)
(* a connection is routed to it alone, also when several processes of one   *)
(* application share the beginning of its name.                             *)
InboxPrivate ==
    \A c \in Clients : <<c, "inbox">> \in routes =>
        GetTopicRoutes(rt, Expr[c]["inbox"], FALSE) = {<<c, "inbox">>}

(* A query of a partial path reaches every client with an element below it: *)
(* routeList2 is never short of a route, and wildcard discovery returns,    *)
(* for the owner of each element, a topic that leads to that owner alone.   *)
(* (It may have too many: a removed topic stays in its ancestors' lists.)   *)
PartialPathComplete ==
    \A x \in claims \ taken : \A n \in 1..(Len(x[2]) - 1) :
        LET path == SubSeq(x[2], 1, n)
            route == <<x[1], "obj">>
        IN /\ route \in GetTopicRoutes(rt, path, TRUE)
           /\ \E y \in ResolvePartialPath(rt, path) :
                 y[1] = route /\ GetTopicRoutes(rt, y[2], FALSE) = {route}

(* A table's row placeholder never has siblings: rows and properties are    *)
(* not mixed under one parent, in whatever order they are registered and    *)
(* removed.                                                                 *)
TableExclusive ==
    \A p \in DOMAIN rt.node :
        Curly \in ToSet(rt.node[p].kids) => Len(rt.node[p].kids) = 1

(* A request that matches no route comes back, marked undeliverable, to the *)
(* client that sent it, instead of leaving it to its timeout.               *)
UndeliverableReturned ==
    (out.kind = "sent" /\ ~out.matched) => out.returned = {out.from}

(* A provider that listens to advisories never keeps a client for connected *)
(* that is gone: it would keep that client's subscriptions for ever.        *)
NoGhostClient ==
    \A x \in seen : x[1] \notin dead => x[2] \in clients

(* The tree implements the table of element names. *)
Elements == UNION {May[c] : c \in Clients}
Owned ==
    {<<c, t>> \in Clients \X Elements :
        t \in DOMAIN rt.node /\ <<c, "obj">> \in rt.node[t].routes}
Table == INSTANCE RouteTable WITH
            Under <- [t \in Elements |-> {u \in Elements : Below(t, u)}],
            live <- clients, owns <- Owned, believes <- claims

(* Every step of the router is a step of the table of element names: an     *)
(* element is given to a client only while nobody has it, and is lost only  *)
(* when its owner withdraws or is gone, or a client gives up an element it  *)
(* once registered at or above it.                                          *)
ImplementsTable == Table!Spec
=============================================================================
