--------------------------- MODULE RtRoutingTree ---------------------------
(***************************************************************************)
(* The router's topic tree (src/rtmessage/rtRoutingTree.c) as operators on *)
(* a value.  A topic is the sequence of its tokens and names its node; a   *)
(* tree is a record of                                                     *)
(*   node  : a function from the topics that exist (the root is <<>>) to   *)
(*           kids    (childList, in order), routes (routeList), hasList    *)
(*           (routeList is not NULL), routes2 (routeList2) and isTable;    *)
(*   routes: routeList of the tree: each route with its topicList.         *)
(***************************************************************************)
EXTENDS Integers, Sequences, SequencesExt, FiniteSets, TLC

CONSTANTS
    RowTokens,  \* tokens that start with a digit, '[' or '*'
    MaxTokens,  \* MAX_TOKENS: dots an expression may have
    NoTopic     \* no node found

ASSUME TreeAssumption == MaxTokens \in Nat /\ "{i}" \notin RowTokens

Curly == "{i}"   \* the only token that starts with '{'

Advisory == <<"_RTROUTED", "ADVISORY">>   \* RTMSG_ADVISORY_TOPIC

-----------------------------------------------------------------------------
(* createTreeTopic *)
NewTopic == [kids |-> <<>>, routes |-> {}, hasList |-> FALSE, routes2 |-> {},
             isTable |-> FALSE]

EmptyTree == [node |-> (<<>> :> NewTopic), routes |-> <<>>]

CreateTopic(node, parent, name) ==
    (Append(parent, name) :> NewTopic) @@
    [node EXCEPT ![parent].kids = Append(@, name),
                 ![parent].isTable = @ \/ name = Curly]

(* validateExpression: no two dots in a row, not too many dots. *)
ValidExpression(topic) ==
    Len(topic) - 1 <= MaxTokens /\ \A i \in 2..Len(topic) : topic[i] # ""

\* Mutants of the match rules: a row name only matches itself, and a table may
\* get siblings.
Hit_NoRows(kid, name) == kid = name \/ (name \notin RowTokens /\ (kid = Curly \/ name = Curly))
Hit_Siblings(kid, name) == kid = name \/ (kid = Curly /\ name \in RowTokens)

(* getChildByName stops at the first child that is the name itself, or that *)
(* is a table row placeholder, or at any child when the name is one.        *)
Hit(kid, name) == kid = name \/ kid = Curly \/ name = Curly

(* Of those, every pair but these two is an error when registering.         *)
Agrees(kid, name) == kid = name \/ (kid = Curly /\ name \in RowTokens)

(* The index among its siblings of the child found, 0 if there is none.     *)
ChildIndex(node, parent, name) ==
    LET Found(kid) == Hit(kid, name) IN SelectInSeq(node[parent].kids, Found)

(* getChildByName, token by token, without creating anything.               *)
WalkStep(node, at, name) ==
    IF at = NoTopic THEN NoTopic
    ELSE LET i == ChildIndex(node, at, name)
         IN IF i = 0 THEN NoTopic ELSE Append(at, node[at].kids[i])

Walk(node, topic) == FoldLeft(LAMBDA at, name : WalkStep(node, at, name), <<>>, topic)

(* getChildByName creating what is missing: the walk stops at an error.     *)
CreateStep(s, name) ==
    IF s.error THEN s
    ELSE LET i == ChildIndex(s.node, s.at, name)
             kid == s.node[s.at].kids[i]
         IN IF i = 0
            THEN [s EXCEPT !.node = CreateTopic(s.node, s.at, name),
                           !.at = Append(s.at, name), !.created = TRUE]
            ELSE [s EXCEPT !.at = Append(s.at, kid), !.created = FALSE,
                           !.error = ~Agrees(kid, name)]

CreateWalk(node, topic) ==
    FoldLeft(CreateStep, [node |-> node, at |-> <<>>, created |-> FALSE, error |-> FALSE],
             topic)

Below(t, p) == IsPrefix(t, p)   \* p is t or a topic under it

-----------------------------------------------------------------------------
(* rtRoutingTree_AddTopicRoute *)

(* getTreeRoute, or a new rtTreeRoute without topics. *)
WithRoute(routes, r) == IF r \in DOMAIN routes THEN routes ELSE (r :> <<>>) @@ routes

\* Mutant of AssignRoute: the ancestors' routeList2 is not updated.
AssignRoute_NoBackprop(node, t, r) ==
    [node EXCEPT ![t].routes = @ \union {r}, ![t].hasList = TRUE]

(* Put the route on the topic and, with optimizeTopicsBackpropagate, in     *)
(* routeList2 of the topic's ancestors below the root.                      *)
AssignRoute(node, t, r) ==
    [p \in DOMAIN node |->
        IF p = t THEN [node[p] EXCEPT !.routes = @ \union {r}, !.hasList = TRUE]
        ELSE IF p # <<>> /\ IsStrictPrefix(p, t)
             THEN [node[p] EXCEPT !.routes2 = @ \union {r}]
             ELSE node[p]]

(* A topic that has a routeList, even an empty one, is a duplicate, unless  *)
(* it is the advisories' own.                                               *)
AddTopicRoute(rt, topic, r, errOnDup) ==
    IF ~ValidExpression(topic) THEN [rt |-> rt, rc |-> "invalid"]
    ELSE IF topic = <<>> THEN [rt |-> rt, rc |-> "ok"]
    ELSE LET w      == CreateWalk(rt.node, topic)
             routes == WithRoute(rt.routes, r)
             grown  == [node |-> w.node, routes |-> routes]
             topics == routes[r]
         IN CASE w.error -> [rt |-> grown, rc |-> "protocol"]
              [] /\ ~w.error /\ errOnDup /\ topic # Advisory
                 /\ ~w.created /\ w.node[w.at].hasList ->
                    [rt |-> grown, rc |-> "duplicate"]
              [] OTHER ->
                    [rt |-> [node |-> AssignRoute(w.node, w.at, r),
                             routes |-> [routes EXCEPT ![r] =
                                           IF Contains(topics, w.at) THEN topics
                                           ELSE Append(topics, w.at)]],
                     rc |-> "ok"]

-----------------------------------------------------------------------------
(* rtRoutingTree_GetTopicRoutes.  "partial": the query ends with a dot. *)
GetTopicRoutes(rt, topic, partial) ==
    LET p == Walk(rt.node, topic)
    IN IF topic = <<>> \/ p = NoTopic THEN {}
       ELSE LET n == rt.node[p]
            IN CASE partial -> n.routes2
                 [] ~partial /\ n.isTable ->
                       IF n.kids = <<>> THEN {} ELSE rt.node[Append(p, Head(n.kids))].routes
                 [] OTHER -> n.routes

(* rtRoutingTree_ResolvePartialPath: the first topic of every route found. *)
ResolvePartialPath(rt, topic) ==
    LET p == Walk(rt.node, topic)
    IN IF topic = <<>> \/ p = NoTopic THEN {}
       ELSE {<<r, Head(rt.routes[r])>> :
                r \in {q \in rt.node[p].routes2 \intersect DOMAIN rt.routes : rt.routes[q] # <<>>}}

-----------------------------------------------------------------------------
(* Keep only the nodes in "keep" and drop the others from their parents'    *)
(* childList.                                                               *)
Restricted(node, keep) ==
    [p \in keep |->
        LET Kept(name) == Append(p, name) \in keep
        IN [node[p] EXCEPT !.kids = SelectSeq(@, Kept)]]

\* Mutant of RemoveRoute: routeList2 keeps the route.
RemoveRoute_Keeps2(rt, r) ==
    IF r \notin DOMAIN rt.routes THEN rt
    ELSE LET node == [p \in DOMAIN rt.node |-> [rt.node[p] EXCEPT !.routes = @ \ {r}]]
             keep == {p \in DOMAIN node : p = <<>> \/ \E q \in DOMAIN node :
                                            Below(p, q) /\ node[q].routes # {}}
         IN [node |-> Restricted(node, keep),
             routes |-> [q \in DOMAIN rt.routes \ {r} |-> rt.routes[q]]]

\* Mutant of RemoveRoute: a topic without routes is pruned with its children.
RemoveRoute_PruneParents(rt, r) ==
    IF r \notin DOMAIN rt.routes THEN rt
    ELSE LET node == [p \in DOMAIN rt.node |->
                        [rt.node[p] EXCEPT !.routes = @ \ {r}, !.routes2 = @ \ {r}]]
             keep == {p \in DOMAIN node : \A n \in 1..Len(p) :
                                            node[SubSeq(p, 1, n)].routes # {}}
         IN [node |-> Restricted(node, keep),
             routes |-> [q \in DOMAIN rt.routes \ {r} |-> rt.routes[q]]]

(* rtRoutingTree_RemoveRoute and removeRouteFromTopicTree: take the route   *)
(* off every topic and then, children first, prune every topic that has     *)
(* neither routes nor children.  A topic that stays keeps its routeList,    *)
(* also when it is empty now.                                               *)
RemoveRoute(rt, r) ==
    IF r \notin DOMAIN rt.routes THEN rt
    ELSE LET node == [p \in DOMAIN rt.node |->
                        [rt.node[p] EXCEPT !.routes = @ \ {r}, !.routes2 = @ \ {r}]]
             keep == {p \in DOMAIN node : p = <<>> \/ \E q \in DOMAIN node :
                                            Below(p, q) /\ node[q].routes # {}}
         IN [node |-> Restricted(node, keep),
             routes |-> [q \in DOMAIN rt.routes \ {r} |-> rt.routes[q]]]

(* removeTopicFromRoutes for the topics in "gone": a route whose topicList  *)
(* becomes empty is freed, whoever still points to it.                      *)
RoutesWithout(routes, node, gone) ==
    LET touched(r) == \E p \in gone : r \in node[p].routes
        rest(r) == SelectSeq(routes[r], LAMBDA p : ~(p \in gone /\ r \in node[p].routes))
    IN [r \in {q \in DOMAIN routes : touched(q) => rest(q) # <<>>} |-> rest(r)]

(* rtRoutingTree_RemoveTopic: the last token must be matched exactly; the   *)
(* topic goes with everything under it.  routeList2 of its ancestors and    *)
(* isTable of its parent stay as they are.                                  *)
RemoveTopic(rt, topic) ==
    IF topic = <<>> THEN rt
    ELSE LET parent == Walk(rt.node, Front(topic))
             i == IF parent = NoTopic THEN 0 ELSE ChildIndex(rt.node, parent, Last(topic))
         IN IF i = 0 \/ (i # 0 /\ rt.node[parent].kids[i] # Last(topic)) THEN rt
            ELSE LET t == Append(parent, Last(topic))
                     gone == {p \in DOMAIN rt.node : Below(t, p)}
                 IN [node |-> Restricted(rt.node, DOMAIN rt.node \ gone),
                     routes |-> RoutesWithout(rt.routes, rt.node, gone)]

-----------------------------------------------------------------------------
(* Facts about a tree that the router relies on. *)

TreeTypeOK(rt, Routes) ==
    /\ <<>> \in DOMAIN rt.node
    /\ \A p \in DOMAIN rt.node :
          /\ rt.node[p].routes \subseteq Routes /\ rt.node[p].routes2 \subseteq Routes
          /\ rt.node[p].hasList \in BOOLEAN /\ rt.node[p].isTable \in BOOLEAN
          /\ rt.node[p].routes # {} => rt.node[p].hasList
          /\ p # <<>> => Front(p) \in DOMAIN rt.node
          /\ \A name \in ToSet(rt.node[p].kids) : Append(p, name) \in DOMAIN rt.node
    /\ DOMAIN rt.routes \subseteq Routes
=============================================================================
