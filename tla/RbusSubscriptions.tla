------------------------- MODULE RbusSubscriptions -------------------------
(***************************************************************************)
(* The subscriptions a provider keeps: rbus_subscriptions.c with its       *)
(* callers in rbus.c.  A subscription lives in a list, knows the instance  *)
(* elements it matches, and is written to a cache file so that a provider  *)
(* that restarts finds its subscribers again.                              *)
(*                                                                         *)
(* Two threads of the provider change the registry.  The callback thread   *)
(* serves subscribe and unsubscribe requests and disconnect advisories.    *)
(* An application thread registers elements and adds or removes table      *)
(* rows (a row added or removed on a request is the case that no other     *)
(* request comes in between).  handle_subsMutex guards the list, but it is *)
(* not recursive: subscribeHandlerImpl, called under it, fails to lock it  *)
(* again and then releases it for its caller.                              *)
(*                                                                         *)
(* Elements: scalar properties, and a table "tbl" whose rows each have one *)
(* property.  An event name is a scalar, a row (the row's property) or     *)
(* "all", the wildcard over the rows.  The provider publishes by itself    *)
(* (its handler sets autoPublish to false), so no polling is started.      *)
(***************************************************************************)
EXTENDS Naturals, Sequences, FiniteSets, SequencesExt

CONSTANTS
  Listeners,    \* consumer processes
  Scalars,      \* scalar properties of the provider
  Rows,         \* rows the table may have
  Requests,     \* the subscriptions that may be asked for
  MayRefuse,    \* may the provider's eventSubHandler return an error
  MaxStops      \* how often the provider may crash or close

VARIABLES
  up,       \* the provider runs
  regd,     \* elements registered with rbus_regDataElements
  rows,     \* rows in the element tree
  subs,     \* subList
  file,     \* the cache file: the subscriptions it holds, in order
  saving,   \* saveCache has truncated the file and not yet written it
  app,      \* what the application thread is doing
  alive,    \* listeners whose process runs
  gone,     \* disconnect advisories not yet delivered
  acked,    \* history: subscriptions granted and not ended since
  stops,    \* how often the provider has stopped
  torn,     \* history: it stopped in a save, or with an entry taken out
  cut,      \* history: the entry a resubscription loop stood at was removed
  raced     \* history: a request met a row half added or half removed

vars == <<up, regd, rows, subs, file, saving, app, alive, gone, acked, stops,
          torn, cut, raced>>

Table == "tbl"
Elements == Scalars \union {Table}
Nodes == Scalars \union Rows
EventNames == Nodes \union {"all"}
Key == [l : Listeners, e : EventNames, c : {"plain", "filter"}]
ASSUME RequestsAssumption == Requests \subseteq Key

(* The instance elements an event name matches (TokenChain_match).         *)
Matches(e) == IF e = "all" THEN rows ELSE {e} \intersect (regd \union rows)

(* retrieveInstanceElement finds an element of that name.                  *)
Retrievable(e) == IF e = "all" THEN Table \in regd ELSE e \in regd \union rows

(* _compareEventNameToElemName: the cached event name is the element's.    *)
SameElement(e, x) == e = x \/ (e = "all" /\ x = Table)

KeyOf(s) == [l |-> s.l, e |-> s.e, c |-> s.c]
Sub(k, live, inst) ==
  [l |-> k.l, e |-> k.e, c |-> k.c, live |-> live, inst |-> inst]
NoInst == [n \in Nodes |-> 0]
Cached(k) == Sub(k, FALSE, NoInst)
Fresh(k) == Sub(k, TRUE, [n \in Nodes |-> IF n \in Matches(k.e) THEN 1 ELSE 0])

Keys(list) == [i \in DOMAIN list |-> KeyOf(list[i])]
KeySet(list) == {KeyOf(list[i]) : i \in DOMAIN list}
IndexOf(list, k) == CHOOSE i \in DOMAIN list : KeyOf(list[i]) = k
Without(list, k) == SelectSeq(list, LAMBDA s : KeyOf(s) # k)

(* Places in the list a loop of the application thread may stand at.       *)
End == [l |-> "end", e |-> "end", c |-> "end"]
PlaceFrom(list, i) == IF i > Len(list) THEN End ELSE KeyOf(list[i])

(* The application thread: its job and the element or row it is about;     *)
(* where a loop stands, how many turns it has left, the entry it has taken *)
(* out of the list; whether it holds handle_subsMutex.                     *)
Job(job, of) ==
  [job |-> job, of |-> of, at |-> End, left |-> 0, out |-> End, lock |-> FALSE]
Idle == Job("idle", Table)

(* rbusSubscriptions_saveCache: an empty list removes the file, any other  *)
(* opens it for writing, which empties it, and writes it later.  The disk  *)
(* works: fopen and fwrite do not fail.                                    *)
Save(list) ==
  /\ file' = <<>>
  /\ saving' = (list # <<>>)

NoSave == UNCHANGED <<file, saving>>

(* A handler of the callback thread gets past handle_subsMutex.            *)
CbFree == up /\ ~saving /\ ~app.lock

AppFree == up /\ ~saving

Init ==
  /\ up = FALSE
  /\ regd = {}
  /\ rows = {}
  /\ subs = <<>>
  /\ file = <<>>
  /\ saving = FALSE
  /\ app = Idle
  /\ alive = Listeners
  /\ gone = {}
  /\ acked = {}
  /\ stops = 0
  /\ torn = FALSE
  /\ cut = FALSE
  /\ raced = FALSE

-----------------------------------------------------------------------------
(* Life of the provider.                                                   *)

\* Mutant of Start: an entry of a dead listener is taken for a bad file.
Start_DropsAll ==
  /\ ~up
  /\ LET kept == IF \E k \in Range(file) : k.l \notin alive THEN <<>> ELSE file
     IN /\ subs' = [i \in DOMAIN kept |-> Cached(kept[i])]
        /\ IF Len(kept) < Len(file) THEN Save(subs') ELSE NoSave
  /\ up' = TRUE
  /\ acked' = {k \in acked : k.l \in alive}
  /\ UNCHANGED <<regd, rows, app, alive, gone, stops, torn, cut, raced>>

(* The listener of a cached entry still runs.                              *)
isListenerRunning(k) == k.l \in alive

(* rbusSubscriptions_create with loadCache: entries of listeners that no   *)
(* longer run are dropped, and then the file is written again.             *)
Start ==
  /\ ~up
  /\ LET kept == SelectSeq(file, isListenerRunning)
         list == [i \in DOMAIN kept |-> Cached(kept[i])]
     IN /\ subs' = list
        /\ IF Len(kept) < Len(file) THEN Save(list) ELSE NoSave
  /\ up' = TRUE
  /\ acked' = {k \in acked : k.l \in alive}
  /\ UNCHANGED <<regd, rows, app, alive, gone, stops, torn, cut, raced>>

(* A crash, or rbus_close, which leaves the cache file as it is.           *)
Stopped ==
  /\ up' = FALSE
  /\ regd' = {}
  /\ rows' = {}
  /\ subs' = <<>>
  /\ saving' = FALSE
  /\ app' = Idle
  /\ gone' = {}
  /\ torn' = (torn \/ saving \/ app.out # End)
  /\ UNCHANGED <<file, alive, acked, cut, raced>>

Stop ==
  /\ up
  /\ stops < MaxStops
  /\ stops' = stops + 1
  /\ Stopped

FinishSave ==
  /\ saving
  /\ saving' = FALSE
  /\ file' = Keys(subs)
  /\ UNCHANGED <<up, regd, rows, subs, app, alive, gone, acked, stops,
                 torn, cut, raced>>

(* A listener's process ends; the router tells a provider that is there.   *)
ListenerExits(l) ==
  /\ l \in alive
  /\ alive' = alive \ {l}
  /\ gone' = IF up THEN gone \union {l} ELSE gone
  /\ acked' = {k \in acked : k.l # l}
  /\ UNCHANGED <<up, regd, rows, subs, file, saving, app, stops, torn, cut, raced>>

-----------------------------------------------------------------------------
(* The callback thread.                                                    *)

\* Mutant of Subscribe: the key is not looked up first.
Subscribe_Twice(k, ok) ==
  /\ CbFree
  /\ k.l \in alive
  /\ Retrievable(k.e)
  /\ Len(subs) <= Cardinality(Requests)
  /\ ok
  /\ subs' = Append(subs, Fresh(k))
  /\ Save(subs')
  /\ acked' = acked \union {k}
  /\ UNCHANGED <<up, regd, rows, app, alive, gone, stops, torn, cut, raced>>

\* Mutant of Subscribe: addSubscription does not save the cache.
Subscribe_Unsaved(k, ok) ==
  /\ CbFree
  /\ k.l \in alive
  /\ Retrievable(k.e)
  /\ ok
  /\ k \notin KeySet(subs)
  /\ subs' = Append(subs, Fresh(k))
  /\ NoSave
  /\ acked' = acked \union {k}
  /\ UNCHANGED <<up, regd, rows, app, alive, gone, stops, torn, cut, raced>>

(* subscribeHandlerImpl with added = true: the provider's handler, then,   *)
(* unless the key is known, addSubscription.  The element is looked up     *)
(* without the mutex; that a row goes before it is used is left out.       *)
Subscribe(k, ok) ==
  /\ CbFree
  /\ k.l \in alive
  /\ Retrievable(k.e)
  /\ IF ok /\ k \notin KeySet(subs)
       THEN subs' = Append(subs, Fresh(k)) /\ Save(subs')
       ELSE UNCHANGED subs /\ NoSave
  /\ acked' = IF ok THEN acked \union {k} ELSE acked
  /\ raced' = (raced \/ (/\ app.job \in {"row made", "row going"}
                        /\ k.e \in {app.of, "all"}))
  /\ UNCHANGED <<up, regd, rows, app, alive, gone, stops, torn, cut>>

(* subscribeHandlerImpl with added = false, when the provider's handler    *)
(* agrees and the key is known; otherwise nothing changes.                 *)
Unsubscribe(k) ==
  /\ CbFree
  /\ k.l \in alive
  /\ Retrievable(k.e)
  /\ k \in KeySet(subs)
  /\ subs' = Without(subs, k)
  /\ Save(subs')
  /\ acked' = acked \ {k}
  /\ cut' = (cut \/ app.at = k)
  /\ UNCHANGED <<up, regd, rows, app, alive, gone, stops, torn, raced>>

(* rbusSubscriptions_handleClientDisconnect.  Every entry of the listener  *)
(* whose element is there is unsubscribed without filter, interval,        *)
(* duration or raw data: what goes, if the provider's handler agrees, is   *)
(* the plain entry of the same event.  A is the set of the positions whose *)
(* unsubscription the handler agrees to.  The loop is one step, although   *)
(* its first unsubscription releases the mutex.                            *)
Visited(l) ==
  {i \in DOMAIN subs : subs[i].l = l /\ Retrievable(subs[i].e) /\ subs[i].live}
Agreed(l) == IF MayRefuse THEN SUBSET Visited(l) ELSE {Visited(l)}
Ended(l, A) ==
  {k \in KeySet(subs) :
     k.l = l /\ k.c = "plain" /\ \E i \in A : subs[i].e = k.e}

(* The loop reads the next item before it unsubscribes.  If that item is   *)
(* what the unsubscription removes, its data is NULL when the loop gets    *)
(* there, and the process dies.                                            *)
NextIsRemoved(l, A) ==
  \E i \in A, j \in DOMAIN subs :
    /\ i < j
    /\ subs[i].c = "filter"
    /\ KeyOf(subs[j]) = [KeyOf(subs[i]) EXCEPT !.c = "plain"]
    /\ \A m \in (i + 1)..(j - 1) :
         /\ KeyOf(subs[m]) \in Ended(l, A)
         /\ \E h \in A : h < i /\ subs[h].e = subs[m].e

Disconnect(l, A) ==
  /\ CbFree
  /\ l \in gone
  /\ ~NextIsRemoved(l, A)
  /\ gone' = gone \ {l}
  /\ subs' = SelectSeq(subs, LAMBDA s : KeyOf(s) \notin Ended(l, A))
  /\ IF Ended(l, A) # {} THEN Save(subs') ELSE NoSave
  /\ cut' = (cut \/ app.at \in Ended(l, A))
  /\ UNCHANGED <<up, regd, rows, app, alive, acked, stops, torn, raced>>

DisconnectDies(l, A) ==
  /\ CbFree
  /\ l \in gone
  /\ NextIsRemoved(l, A)
  /\ UNCHANGED stops
  /\ Stopped

-----------------------------------------------------------------------------
(* The application thread.                                                 *)

(* rbus_regDataElements for one element: it is in the tree, and requests   *)
(* find it ...                                                             *)
Register(x) ==
  /\ AppFree
  /\ app.job = "idle"
  /\ x \notin regd
  /\ regd' = regd \union {x}
  /\ app' = Job("inserted", x)
  /\ UNCHANGED <<up, rows, subs, file, saving, alive, gone, acked, stops,
                 torn, cut, raced>>

(* registerTableRow: the row is instantiated ...                           *)
AddRow(r) ==
  /\ AppFree
  /\ app.job = "idle"
  /\ Table \in regd
  /\ r \notin rows
  /\ rows' = rows \union {r}
  /\ app' = Job("row made", r)
  /\ UNCHANGED <<up, regd, subs, file, saving, alive, gone, acked, stops,
                 torn, cut, raced>>

\* Mutant of RowAdded: wildcard subscriptions are passed over.
RowAdded_NoWildcard ==
  /\ AppFree
  /\ app.job = "row made"
  /\ app' = Job("row told", app.of)
  /\ UNCHANGED <<up, regd, rows, subs, file, saving, alive, gone, acked, stops,
                 torn, cut, raced>>

(* ... subscriptions that match its property get it as an instance         *)
(* (rbusSubscriptions_onTableRowAdded).                                    *)
RowAdded ==
  /\ AppFree
  /\ app.job = "row made"
  /\ LET r == app.of IN
     /\ subs' = [i \in DOMAIN subs |->
                   IF subs[i].live /\ subs[i].e \in {r, "all"}
                     THEN [subs[i] EXCEPT !.inst[r] = @ + 1]
                     ELSE subs[i]]
     /\ app' = Job("row told", r)
  /\ UNCHANGED <<up, regd, rows, file, saving, alive, gone, acked, stops,
                 torn, cut, raced>>

(* In either case the mutex is then taken for a walk over the list:        *)
(* rbusSubscriptions_resubscribeElementCache or                            *)
(* rbusSubscriptions_resubscribeRowElementCache.                           *)
StartLoop ==
  /\ AppFree
  /\ app.job \in {"inserted", "row told"}
  /\ app' = [app EXCEPT !.job = IF @ = "inserted" THEN "element" ELSE "row",
                        !.at = PlaceFrom(subs, 1),
                        !.left = IF app.job = "row told" THEN Len(subs) ELSE 0,
                        !.lock = TRUE]
  /\ UNCHANGED <<up, regd, rows, subs, file, saving, alive, gone, acked, stops,
                 torn, cut, raced>>

\* Mutant of Resubscribes: names are compared without the wildcard.
Resubscribes_NoWildcard(s) ==
  \/ (app.job = "element" /\ ~s.live /\ s.e = app.of)
  \/ (app.job = "row" /\ s.e = app.of)

(* Does the loop resubscribe the entry it stands at?  (For a row the code  *)
(* compares only the beginning of the name: T.1 is also that of T.10.)     *)
Resubscribes(s) ==
  \/ (app.job = "element" /\ ~s.live /\ SameElement(s.e, app.of))
  \/ (app.job = "row" /\ s.e = app.of)

Looping == AppFree /\ app.job \in {"element", "row"} /\ app.out = End
LoopEnds == app.at = End \/ (app.job = "row" /\ app.left = 0)

(* One turn of either loop: it reads the next item, and takes an entry to  *)
(* be resubscribed out of the list.                                        *)
LoopTurn ==
  /\ Looping
  /\ ~LoopEnds
  /\ app.at \in KeySet(subs)
  /\ LET i == IndexOf(subs, app.at)
         hit == Resubscribes(subs[i])
     IN /\ subs' = IF hit THEN Without(subs, app.at) ELSE subs
        /\ app' = [app EXCEPT !.at = PlaceFrom(subs, i + 1),
                              !.left = IF app.job = "row" THEN @ - 1 ELSE @,
                              !.out = IF hit THEN app.at ELSE End]
  /\ UNCHANGED <<up, regd, rows, file, saving, alive, gone, acked, stops, torn,
                 cut, raced>>

(* subscribeHandlerImpl for that entry.  The provider's handler may refuse *)
(* it, a request may have added it meanwhile; a call that gets as far as   *)
(* the lock leaves the mutex unlocked.                                     *)
Resubscribe(ok) ==
  /\ AppFree
  /\ app.out # End
  /\ LET k == app.out IN
     /\ IF ok /\ k \notin KeySet(subs)
          THEN subs' = Append(subs, Fresh(k)) /\ Save(subs')
          ELSE UNCHANGED subs /\ NoSave
     /\ acked' = IF k \in KeySet(subs') THEN acked ELSE acked \ {k}
     /\ app' = [app EXCEPT !.out = End, !.lock = @ /\ ~ok]
  /\ UNCHANGED <<up, regd, rows, alive, gone, stops, torn, cut, raced>>

(* The item the loop read as the next one is no longer in the list: it     *)
(* holds NULL, or has been reused for the last entry, and the loop ends.   *)
(* (When it was reused for the same key, LoopTurn finds it at the end.)    *)
LoopCut ==
  /\ Looping
  /\ ~LoopEnds
  /\ app.at \notin KeySet(subs)
  /\ app' = Idle
  /\ UNCHANGED <<up, regd, rows, subs, file, saving, alive, gone, acked, stops,
                 torn, cut, raced>>

LoopDone ==
  /\ Looping
  /\ LoopEnds
  /\ app' = Idle
  /\ UNCHANGED <<up, regd, rows, subs, file, saving, alive, gone, acked, stops,
                 torn, cut, raced>>

\* Mutant of AfterRowRemoved: the instance of the row is forgotten.
AfterRowRemoved_Keeps(r) == subs

(* unregisterTableRow, the part under the mutex:                           *)
(* rbusSubscriptions_onElementDeleted for the row's property.  The flag    *)
(* val is not reset between entries, so everything from the first match to *)
(* the end of the list is removed.                                         *)
AfterRowRemoved(r) ==
  LET hits == {i \in DOMAIN subs : subs[i].inst[r] > 0}
  IN IF hits = {} THEN subs
     ELSE SubSeq(subs, 1, (CHOOSE i \in hits : \A j \in hits : i <= j) - 1)

RemoveRow(r) ==
  /\ AppFree
  /\ app.job = "idle"
  /\ r \in rows
  /\ subs' = AfterRowRemoved(r)
  /\ IF subs' # subs THEN Save(subs') ELSE NoSave
  /\ acked' = acked \intersect KeySet(subs')
  /\ app' = Job("row going", r)
  /\ UNCHANGED <<up, regd, rows, alive, gone, stops, torn, cut, raced>>

(* deleteTableRow, after the mutex is released.                            *)
DeleteRow ==
  /\ AppFree
  /\ app.job = "row going"
  /\ rows' = rows \ {app.of}
  /\ app' = Idle
  /\ UNCHANGED <<up, regd, subs, file, saving, alive, gone, acked, stops,
                 torn, cut, raced>>

-----------------------------------------------------------------------------
Answers == IF MayRefuse THEN BOOLEAN ELSE {TRUE}

Next ==
  \/ Start
  \/ Stop
  \/ FinishSave
  \/ \E l \in Listeners :
       \/ ListenerExits(l)
       \/ \E A \in Agreed(l) : Disconnect(l, A) \/ DisconnectDies(l, A)
  \/ \E k \in Requests, ok \in Answers : Subscribe(k, ok)
  \/ \E k \in Requests : Unsubscribe(k)
  \/ \E x \in Elements : Register(x)
  \/ \E r \in Rows : AddRow(r) \/ RemoveRow(r)
  \/ RowAdded
  \/ StartLoop
  \/ LoopTurn
  \/ \E ok \in Answers : Resubscribe(ok)
  \/ LoopCut
  \/ LoopDone
  \/ DeleteRow

Spec == Init /\ [][Next]_vars

-----------------------------------------------------------------------------
(* Properties.                                                             *)

(* The variables hold what the code's data structures can hold.            *)
TypeOK ==
  /\ {up, saving, torn, cut, raced} \subseteq BOOLEAN
  /\ regd \subseteq Elements
  /\ rows \subseteq Rows
  /\ KeySet(subs) \union Range(file) \union acked \subseteq Requests
  /\ \A i \in DOMAIN subs : subs[i].inst \in [Nodes -> 0..2] /\ subs[i].live \in BOOLEAN
  /\ gone \subseteq Listeners \ alive
  /\ {app.at, app.out} \subseteq Requests \union {End}
  /\ stops \in 0..MaxStops

(* No key is in the list, or in the cache file, twice, although a          *)
(* resubscription takes an entry out and adds it again while requests for  *)
(* the same key arrive.                                                    *)
RegistryUnique ==
  /\ Cardinality(KeySet(subs)) = Len(subs)
  /\ Cardinality(Range(file)) = Len(file)

(* Whatever is in the list of a running provider is in the cache file once *)
(* the save in progress is over, if the disk works: also between two turns *)
(* of a resubscription loop, which edits the list without the mutex.       *)
Durable == up /\ ~saving => KeySet(subs) \subseteq Range(file)

(* A subscription a consumer was granted and has not ended, which no row   *)
(* removal has taken along and the provider has not refused since,         *)
(* survives every stop of the provider outside a save and outside the      *)
(* window in which a loop has taken an entry out of the list: it is in the *)
(* list, or in the hands of a loop, while the provider runs, and in the    *)
(* file while it does not.                                                 *)
AckedKept ==
  ~torn => acked \subseteq (IF up THEN KeySet(subs) \union {app.out} ELSE Range(file))

(* A subscription that was attached to its element knows every existing    *)
(* instance it matches, once, and no instance that is gone: each event     *)
(* reaches the consumer exactly once, and no freed node is touched.  The   *)
(* exception is a request that meets a row between the step on the element *)
(* tree and the step on the registry, which no common lock joins.          *)
InstancesExact ==
  app.job \in {"idle", "inserted", "element"} /\ ~raced =>
    \A i \in DOMAIN subs : subs[i].live => subs[i].inst = Fresh(KeyOf(subs[i])).inst

(* After a restart, once the loop that registering the element runs is     *)
(* over, every subscription kept for that element is attached to it again, *)
(* unless a request removed the very entry the loop stood at.              *)
AckedServed ==
  \A i \in DOMAIN subs :
    (app.job = "idle" /\ ~cut /\ \E x \in regd : SameElement(subs[i].e, x))
      => subs[i].live

(* rbus_subscriptions.h says that a client's subscriptions are ended when  *)
(* it disconnects from the broker: no entry attached to an element belongs *)
(* to a listener whose disconnection has been handled.                     *)
DisconnectEndsAll ==
  up => \A i \in DOMAIN subs : subs[i].live => subs[i].l \in alive \union gone

(* rbus_subscriptions.c says that what is removed with a row is the        *)
(* instance of that row: a subscription that does not match the row stays. *)
RowRemovalKeepsOthers ==
  [][app.job = "idle" /\ app'.job = "row going" =>
       \A i \in DOMAIN subs :
         subs[i].inst[app'.of] = 0 => KeyOf(subs[i]) \in KeySet(subs')]_vars
=============================================================================
