# A formal model of rbus

rbus is the message bus of RDK. A process (a "component") links the library;
the library talks over a stream socket to a router daemon, `rtrouted`, which
forwards requests, responses and events between processes. This directory
holds TLA+ modules that model the parts of rbus where threads, processes and
failures meet, TLC configurations that check them on small instances, and
theorems whose proofs TLAPS checks.

## The system

| part | source | state | operations | what is hard |
|---|---|---|---|---|
| client connection | `rtmessage/rtConnection.c` | pending requests, sequence number, callback list, run flag | SendRequest, Read, the callback thread, Destroy | a late response against a timeout; a callback against a waiting request; Destroy against both |
| reconnection | `rtmessage/rtConnection.c` | socket, `reconnect_in_progress`, times, listeners | ConnectAndRegister, AddListener, RemoveListener, SendMessage | several threads notice one loss; the router goes away again |
| topic tree | `rtmessage/rtRoutingTree.c` | topics with children, routes, `routeList2`, `isTable` | AddTopicRoute, GetTopicRoutes, RemoveRoute, RemoveTopic, ResolvePartialPath | pointers kept in three places; tables and rows |
| router | `rtmessage/rtrouted.c` | clients, routes, tree | accept, subscribe, alias, dispatch, disconnect, advisory | clients die at any moment and come back |
| bus core | `core/rbuscore.c` | objects, methods, events, subscriptions, direct connections | open, close, register, invoke, subscribe, publish | locks around callbacks; advisories |
| bus API | `rbus/rbus.c` | handle, elements, subscriptions of both sides | subscribe, publish, get, set, tables, methods | transactions that fail half way; undo |
| subscription registry | `rbus/rbus_subscriptions.c` | list of subscriptions, instance lists, cache file | add, remove, element and row created or deleted, load, save, resubscribe | crash of the provider, crash of the subscriber |
| subscribe retrier | `rbus/rbus_asyncsubscribe.c` | list of items, thread | add, retry, remove, close | answers for items already removed |
| value-change polling | `rbus/rbus_valuechange.c` | records, thread | add, remove, poll, close | locks in opposite orders |
| interval subscriptions | `rbus/rbus_intervalsubscription.c` | records, one thread each | add, remove, publish, expire | joining a thread that needs the joiner's lock |
| session manager | `session_manager/session_manager.c` | current session | create, current, close | two clients, one session |

## Modules

| module | models |
|---|---|
| `RtConnection` | requests, reader, callback thread and Destroy of one connection |
| `RtConnectionProofs` | its type invariant and `OwnResponse`, proved |
| `RtReconnect` | ConnectAndRegister and the threads that call it |
| `RtReconnectProofs` | its type invariant, `OneReconnects` and `ListenersRegistered`, proved |
| `RtRoutingTree` | the topic tree, as operators on a value |
| `RtRouted` | the router's clients, routes and message handlers, on that tree |
| `RouteTable` | what the router promises: a table of names with one live owner each |
| `MCRtRouted` | the instance of `RtRouted` that TLC checks |
| `RbusSubscriptions` | the provider's subscription registry, its cache file, and its callers in `rbus.c` |
| `MCRbusSubscriptions` | the instance of `RbusSubscriptions` that TLC checks |
| `RbusEvents` | a consumer and a provider together: subscribe, unsubscribe, publish, deliver; extends `RbusSubscriptions` |
| `MCRbusEvents` | the instance of `RbusEvents` that TLC checks |

A step of a model is the stretch of code between two points at which another
thread or process can act. A critical section is one step unless other code
touches its data without the mutex. `PROJECT.json` maps every definition to the
lines it stands for. A definition whose name has an underscore and a suffix
(`Subscribe_Twice`) is a mutant: the definition it is named after with a
plausible mistake in it, under which one named property must fail.

### RtConnection

`pending` and `entry` are `pending_requests_list` and the `pending_request` on
each caller's stack; `seq` is `sequence_number`; `queue` is
`callback_message_list`; `run` is `run_threads`. `wire` and `inbox` stand for
what the router and the peers still hold and what is in the socket.

* `Call`, `Send`, `CallerReconnect`, `Woken`, `TakeResponse`, `TimedOut` and
  `RemoveUnlocked` are the stretches of `rtConnection_SendRequestInternal`.
  After a timeout the code removes its entry without `con->mutex`, so the
  reader's lookup (`ReaderFind`) and hand-over (`ReaderAttach`) are two steps
  although both run under that mutex. `Woken` needs no post: the
  `pthread_cond_timedwait` in `rtSemaphore_TimedWait` is not in a loop.
* `ReaderCheck` to `ReaderEnqueue` are `rtConnection_ReaderThread` and
  `rtConnection_Read`; a message beyond `MAX_ALLOWED_MESSAGES` is dropped.
* `CbTop` to `CbRemove` are `rtConnection_CallbackThread`. Its four separate
  tests of `run_threads` and its wait are steps of their own. A callback may
  need an application mutex that a thread waiting for a response holds
  (`AppLocked`).
* `DestroyStart` to `DestroyUnblock` are `rtConnection_Destroy`; the last one
  posts to the waiting callers and empties the pending list.

Reconnecting is one step here (`CallerReconnect`, `ReaderReconnect`): it may
fail, and it may return `RT_OK` without a connection, as it does for a thread
that waited for another one. Module `RtReconnect` opens that step up.

### RtReconnect

`flag` is `reconnect_in_progress`; `fd` is -1, new (never connected), connected,
or lost. `ReaderFails` tells the last kinds apart: on a unix socket, the default,
`recv` gives `EINVAL` when it was never connected, which
`rtConnection_ShouldReregister` does not take for a loss. The code
compares times only with `reconnect_time`, so a time is one bit of `fresh`.
There is one such bit for all senders, as there is one field. `Enter`, `Spin`,
`Socket`, `Connect`, `Readd` and `Resend` are the stretches of
`rtConnection_ConnectAndRegister`. The last one is the
`rtConnection_SendMessage` it calls for each listener, which can call
`ConnectAndRegister` again. `Lose` and `Restart` are the router going and coming.

### RtRoutingTree and RtRouted

The tree is a value: a function from topics (sequences of tokens) to nodes,
with the children in the order of `childList`, and the list of routes with
their topics. `AddTopicRoute`, `GetTopicRoutes`, `RemoveRoute`, `RemoveTopic`
and `ResolvePartialPath` are operators on it and keep the rules of
`getChildByName`, including that the first child that fits is taken. `rtrouted`
is single-threaded, so one turn of its `select` loop is one step of `RtRouted`.
`Die` (the socket closes) and `Disconnect` (the router notices) are separate:
between them the router still has the routes of a client that is gone.

Clients remove elements in any order, as `rbus_unregDataElements` and the undo
in `rbus_regDataElements` do. `RemoveTopic` frees what is below the topic,
whoever registered it, and nobody is told: `claims` is what each client believes
it has, and the history variable `taken` the claims that went that way.

`RouteTable` is the abstract specification: an element is given to a connected
client only while nobody has it, and is lost only when its owner withdraws or is
gone, or when a client gives up an element it once registered at or above it.
`RtRouted` implements it under the mapping `live <- clients`, `owns <- Owned`,
`believes <- claims`, where `Owned` reads the owners off the tree's lists.

### RbusSubscriptions

`subs` is `subList`, with the instances of each entry as counts; `file` is the
cache file. `saveCache` empties the file when it opens it and writes it later:
`Save` and `FinishSave`. `app` is the application thread, with the place of its
resubscription loop and the entry that the loop has taken out of the list.

* `Subscribe` and `Unsubscribe` are `subscribeHandlerImpl`; `Disconnect` is
  `rbusSubscriptions_handleClientDisconnect`, and `DisconnectDies` the case in
  which the item its loop read ahead is the one it removes.
* `Start` is `rbusSubscriptions_create` with `loadCache`; `Stop` a crash, or
  `rbus_close`, which leaves the file.
* `Register`, `StartLoop`, `LoopTurn`, `Resubscribe`, `LoopCut` and `LoopDone`
  are the registration of an element with
  `rbusSubscriptions_resubscribeElementCache`; `AddRow` and `RowAdded` start a
  row and lead to the same loop for rows; `RemoveRow` and `DeleteRow` are
  `unregisterTableRow`.

`handle_subsMutex` is of the error-checking kind. `subscribeHandlerImpl`, called
by the loops with the mutex held, fails to lock it and then unlocks it for its
caller: `Resubscribe` clears `app.lock`, and from there on requests are served
between the turns of the loop.

### RbusEvents

`ent` is `eventSubs` (an entry is missing, clean, or dirty), `lock` the holder of
`handle_eventSubsMutex`. `SubscribeCall`, `SubscribeRetry` and `SubscribeEnd`
are `rbusEvent_SubscribeWithRetries`; `UnsubscribeCall` and `UnsubscribeEnd` are
`rbusEvent_Unsubscribe` and `rbusEvent_UnsubscribeEx`, which keep the mutex
while the request is out; `OnEvent`, `OnEventDirty` and `OnEventEnd` are
`_master_event_callback_handler`. On the other side, `Serve` is the provider's
callback thread at the head of its queue and `ProviderStep` takes the steps of
`RbusSubscriptions` as they are, so the two modules share one registry.

The mutex is not held between a subscription's search for an entry and the
making of one, so two threads can both be there for one key. `overtaken` is the
history of the keys for which an unsubscription went out meanwhile.

## What the runs show

| run | result | distinct states | shows |
|---|---|---|---|
| `conn_requests` | holds | 107,745 | two threads with a request each, one lost connection, reconnects that may fail, answers in any order: a request that succeeds got its own response, and every request returns if the connection stands in the end |
| `conn_threads` | holds | 122,967 | a caller that holds an application mutex, three events, a queue of one, Destroy: callbacks in order, no lost wake-up, Destroy ends and unblocks the waiting caller (unless the callback Destroy joins waits for that caller's mutex), a response gets past a blocked callback |
| `conn_entry_live` | violated | | the reader writes to an entry whose owner has returned |
| `reconnect` | holds | 75,536 | a reader and two senders notice one loss: one of them reconnects, every listener is registered again, the connection comes back unless a call has failed, and then the next call brings it back |
| `reconnect_again` | violated | | a second loss while the listeners are registered again: the owner of the flag waits for itself |
| `reconnect_round` | violated | | a call that waited for another thread's failed reconnect goes round for ever, also when the router is back |
| `routed` | holds | 115,328 | two clients, a table with a column of the other client's, a contested column, a misplaced property, removals in any order: the tree never holds a stale route, elements and inboxes reach their owner alone, and the tree implements `RouteTable` |
| `subs` | holds | 1,703,857 | two consumers, four subscriptions, a restart: the list and the file agree, granted subscriptions survive, instances are exact, cached entries are attached again |
| `subs_disconnect` | violated | | a subscription with a filter outlives its consumer |
| `subs_row` | violated | | removing a row removes subscriptions that do not match it |
| `events` | holds | 216,597 | a consumer with two threads that share a subscription against a provider that restarts: what either side remembers, the other does too, and the mutex kept over a request is always released |
| `events_stray` | violated | | a handler is called after a successful unsubscription |

### Bounds and why they are enough

The bounds are in the guards and named in each module's CONSTANTS.

* `conn_requests`: two callers and two calls give every overlap of two requests,
  and every overlap of a request with a late response to the earlier attempt of
  the same thread. One lost connection gives a request cut off and sent again.
  Deeper overlaps are left to the theorem, which has no bound.
* `conn_threads`: `MaxQueue` = 1 with three events reaches the full queue, the
  dropped message and the queue that is drained while it grows. The application
  calls Destroy while no other thread is sending (`DestroyWhen = "quiet"`);
  threads may be waiting for a response. With a sender in the middle of
  reconnecting see "Other observations".
* `reconnect`: two senders and the reader are enough for an owner, a waiter and
  a late-comer; one listener stays and one comes and goes. A second loss is the
  subject of `reconnect_again`. The system may stop when `socket()` or `fcntl()`
  fails, because the flag then stays set, so deadlock is not an error there.
  `reconnect_round` needs two senders and no such failure.
* `routed`: the tree rules turn on the first child that fits, on a row
  placeholder with or without siblings, and on a topic below another. The two
  clients' elements contain each of these, a contested name, and elements of
  both below one of the first. Both inboxes share their first two tokens. The
  names of the components themselves (`obj`) are not below any element.
* `subs`: a scalar with and without a filter, a row and a wildcard over rows are
  the four ways in which an entry matches elements; one restart makes
  every entry a cached one. The provider may refuse any request.
* `events`: three calls of two threads give two concurrent subscriptions to one
  event and an unsubscription among them, with one timeout, one restart and one
  event; a second subscription, with a filter, belongs to one thread.
  `events_stray` gives each thread its own. The provider
  stops for good when its restarts are used up, so deadlock is not an error.

No symmetry reduction is used: several runs check liveness, where it is unsound.

### Fairness and why the code justifies it

The models assume that threads of the library keep running when they can, and
nothing of the network, of the peers or of what the application calls next.

* `RtConnection!ThreadFairness`: each thread takes the step it can take. Not
  assumed: new requests, arrivals, answers, a call of Destroy, spurious
  wake-ups, and that a reconnect succeeds. `RequestEnds` therefore says that
  requests end if the connection stands in the end. Strong fairness is needed
  once, for the reader's wait for `callback_message_mutex`, which the callback
  thread takes and releases again and again. `TimeFairness` says that a timed
  wait ends. It is left out of `PatientSpec`, under which `DestroyUnblocks` and
  `ResponseReachesWaiter` hold without help from a timeout.
* `RtReconnect!FairSpec`: the threads run, and a stopped router is started again
  (without that, no client can recover).
* `RbusEvents!EFairSpec`: calls under way go on and timeouts fire, since each
  request of `rbuscore` has one. Event delivery has strong fairness because the
  mutex it needs is free again and again. No call is ever assumed to be made.

## What is proved

The proofs hold for every value of the constants and use only the named
assumptions of the modules: `ConnAssumption` (bounds are naturals, `None` is no
caller) and `ReconnectAssumption`.

* `RtConnectionProofs!TypeCorrect`: `TypeOK` always holds, in particular the
  callback queue is at most `MAX_ALLOWED_MESSAGES + 1` long. `TypeOK` alone is
  not inductive: that a hand-over stores a response, and that the callback thread
  takes the head of a list that is not empty, needs `ThreadInv`. The inductive
  invariant is `TypeInv`, which is `TypeOK /\ ThreadInv` in four groups.
* `RtConnectionProofs!OwnResponseAlways`: a request that succeeds returned the
  response to itself. The strengthening is `SeqInv`: each number in flight is
  below `seq`, and a message with the number of an entry belongs to that entry's
  caller. A new request takes `seq`, which no message in flight has, and a
  removed entry keeps its number, so a late response can match nothing else.
  `TypeInv` gives the types.
* `RtReconnectProofs!OneReconnectsAlways`: one thread at a time replaces the
  socket, and the flag is set exactly while one does, until `socket()` or
  `fcntl()` fails.
  `Exclusive` is inductive only together with "there is a socket", which keeps
  every thread off the first-connect path that takes no flag: `Core`.
* `RtReconnectProofs!ListenersAlways`: when the connection stands and no thread
  holds the flag, the router has a route for every listener in use that is not
  being added. The strengthening is `Reg`: what is registered, being added, or
  still to be looked at by the thread that registers again covers every listener
  in use, so a listener that is added or removed during that walk is not missed.
  It rests on `Core` (only the owner walks) and on the types, which are
  `ReconnectTypeCorrect`.

Only model-checked: all liveness (out of the prover's reach); the tree and the
refinement `ImplementsTable` (its operators are folds over sequences, and what a
fold computes needs induction); the registry and `RbusEvents` (what
`SelectSeq` and `SubSeq` keep of a list needs induction too); `InOrder`, which
needs a stronger invariant not yet written.

## Findings

Each of these is a run whose property quotes the repository; `PROJECT.json` has
the quotation.

1. `conn_entry_live`: the removal after a timeout runs without `con->mutex`
   (`rtConnection.c:1090`), so the reader can write into a frame that is gone.
2. `reconnect_again`: the thread that reconnects registers the listeners by
   sending; if the connection is lost again then, that send waits for the flag
   its own caller holds (`rtConnection.c:433`), and so does everybody else.
3. `reconnect_round`: a thread that waited for another thread's reconnect is told
   `RT_OK` whatever came of it (`rtConnection.c:346`). Its loop sends again with
   the time it took at the beginning, which is not later than the failed
   reconnect, so it is never the one to reconnect: the call neither ends nor
   times out, even when the router is back. The next call of any thread
   (`CallRecovers`) brings the connection back, and with it this one.
4. `subs_disconnect`: the unsubscription on disconnect passes no filter, interval,
   duration or raw-data flag (`rbus_subscriptions.c:846`), so an entry that has
   one is not found and stays.
5. `subs_row`: the flag `val` is not reset between entries
   (`rbus_subscriptions.c:353`), so the rest of the list goes with the row.
6. `events_stray`: a dirty entry whose second unsubscription again finds no
   provider has its handler called (`rbus.c:1471`).

### Other observations

Met while modelling; each is in the models as the code has it, and the
properties state the exception where there is one.

* Destroy joins the reader while a sender that is reconnecting can bring the
  socket up again, and the reader then reads on it; hence `DestroyWhen`.
* A response handed over between a timeout and the removal is leaked.
* A sender that used up its attempts leaves a socket that was never connected.
  On a unix socket the reader does not take it for lost (`rtConnection.c:270`)
  and reads again at once, for ever; only the next call reconnects. `Recovers`
  excepts this, and `CallRecovers` states the rest.
* After `socket()` or `fcntl()` fails the flag stays set, and without a socket the
  next connect counts as the first and registers no listener
  (`rtConnection.c:356`, `423`).
* A listener removed while the listeners are registered again can be registered
  after its removal (`rtConnection.c:426`).
* A duplicate element is rejected while the router has not noticed that its
  owner is gone, and also when its owner has left while names below it stayed:
  the empty list of routes counts as a duplicate (`rtRoutingTree.c:519`).
* `RemoveTopic` frees the whole subtree, whoever registered it, and leaves
  `routeList2` of the ancestors as it is; `isTable` is never cleared. A client
  that then removes an element it lost that way removes it from the client that
  has it now (`taken`).
* An entry removed just as a resubscription loop stands at it ends the loop, and
  later entries stay unattached (`cut`).
* A request that meets a row between the step on the tree and the step on the
  registry leaves an instance counted twice or kept (`raced`).
* A stop while the file is empty, or while an entry is out of the list, loses
  subscriptions (`torn`).
* `rbusEvent_UnsubscribeEx` returns success after a failed request, where the
  comment at `rbus.c:5805` announces an error.
* An entry made after "already exists" has its `rawData` unset (`rbus.c:5216`);
  `NoOrphan` excepts an entry that searches miss.
* When two threads subscribe to one event and one unsubscribes before the other's
  call is over, the entry made last has no subscription at the provider
  (`overtaken`); a subscription that finds no provider marks the other thread's
  entry dirty (`rbus.c:5195`).

## What is abstracted or not modelled

* The sequence number does not wrap: 2^32 requests would have to pass while one
  response is late.
* Connection: a reader that stays blocked in `recv` on a socket another thread has
  closed is not modelled.
* A callback that itself sends a request and reads the socket (`read_tid`), and
  encryption, are left out of `RtConnection`.
* The router's own topics (discovery, diagnostics, HELLO) only read its state or
  answer it; they are not in the tree of the model, and no client can register
  a topic that hides them in the instance checked. A send that fails with `EBADF`
  (`rtrouted.c:1457`) cannot happen, as a client's routes go before its socket.
* `RbusSubscriptions`: the provider publishes itself (`autoPublish` is false), so
  value-change polling does not start; interval, duration, raw data and
  publish-on-subscribe are left out, and a key tells "with" from "without
  filter" for all of them. The several saves of one row removal or one
  disconnect are one, and the unsubscriptions of one disconnect are one step,
  although the first of them releases the mutex (`rbus.c:1237`). Edits of the
  list that the code makes without the mutex are atomic. A subscribe request
  looks up its element and uses it in one step, although the lookup is without
  the mutex (`rbus.c:2575`). The cache file can be opened and written:
  `rbus_subscriptions.c:651` returns without saving otherwise, and `Durable`
  would not hold until the next save. The row loop compares only the beginning
  of the name (`rbus_subscriptions.c:803`), which is the same with one row. The
  provider has one application thread.
* `RbusEvents`: the answer of a request is read before the write of the file is
  over. No asynchronous subscription is pending (`rbus.c:5078`), no subscription
  has a duration (`rbus.c:1478`), and the router accepts what the provider
  registers (`rbuscore.c:1014`, and the undo at `rbus.c:3369`). The router stays
  up.
* Not modelled, with the reason, in the components of `PROJECT.json`: wrappers
  around the C library, JSON and OpenSSL, and command-line tools have no state
  that a model could check.

## Plan

Done: the connection, its reconnection, the router with its tree, the registry
and the consumer's side of events. Next, in this order:

1. `RbusValueChange` and `RbusInterval`: the polling thread against add, remove
   and close, with the locks they and the registry take in opposite orders
   (deadlock freedom, a thread that joins another).
2. `RbusAsyncSubscribe`: the retrier, items removed while their request is out;
   composed with `RbusEvents`.
3. `SubscriptionStore`: an abstract store of subscriptions as a set, with
   `AckedKept` and `Durable` proved in TLAPS, and `RbusSubscriptions` checked to
   implement it. It avoids the induction that lists need.
4. `RbusCore`: objects, methods and server-side events, direct connections, and
   the locks around callbacks.
5. Set transactions, tables, and the session manager: several providers, one of
   which fails or whose client disappears.
6. Pure algorithms against reference definitions over bounded inputs, in one
   run: filter evaluation, token chains, list and vector, the frame reader of
   `rtConnectedClient_Read` over split and joined frames; the thread pool.
7. `RtConnection` composed with `RtRouted`: a request across a restart of the
   router; a proof of `InOrder`.

Related questions share a run: the two runs of `RtConnection` that hold, and
the pairs that differ only in a bound, can be merged as these are added.
