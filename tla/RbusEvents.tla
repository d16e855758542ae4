----------------------------- MODULE RbusEvents -----------------------------
(***************************************************************************)
(* A consumer and a provider of events together: rbusEvent_Subscribe,      *)
(* rbusEvent_Unsubscribe and the event callback of rbus.c on the consumer, *)
(* the registry of RbusSubscriptions on the provider, and between them the *)
(* requests, answers and events that rbuscore and the router carry.        *)
(*                                                                         *)
(* The consumer keeps an entry per subscription (handleInfo->eventSubs):   *)
(* none, clean, or dirty when an unsubscription found no provider.         *)
(* Application threads and the callback thread share it under              *)
(* handle_eventSubsMutex, which an unsubscription holds until its answer   *)
(* is there and a subscription does not.                                   *)
(***************************************************************************)
EXTENDS RbusSubscriptions

CONSTANTS
  Threads,      \* application threads of the consumer
  May,          \* May[t]: the subscriptions thread t handles
  MaxCalls,     \* API calls in all
  MaxTimeouts,  \* requests that time out although they will be served
  MaxEvents     \* events published in all

VARIABLES
  routed,       \* elements the router knows a provider of
  ent,          \* eventSubs: "none", "clean" or "dirty"
  lock,         \* holder of handle_eventSubsMutex
  pc,           \* what each thread of the consumer is doing
  req,          \* requests on their way to, or queued at, the provider
  evq,          \* events on their way to, or queued at, the consumer
  calls, timeouts, events,
  quit,         \* history: keys whose last call was an unsubscription that said OK
  stray,        \* history: a handler was called for such a key
  erred,        \* history: keys for which a request has failed
  overtaken,    \* history: keys unsubscribed while a subscription was out
  refused       \* history: keys the provider refused when it resubscribed

client == <<ent, lock, pc, evq, calls, timeouts, quit, stray, erred, overtaken>>
evars == <<vars, routed, client, req, events, refused>>

Cb == "cb"
Procs == Threads \union {Cb}
Quiet == [op |-> "idle", k |-> End, ans |-> "none"]
Waiting(t) == pc[t].op # "idle" /\ pc[t].ans = "none"

(* rbuscore hands the request to the router, which answers at once when no *)
(* provider is known for the element.                                      *)
Send(t, op, k) ==
  IF k.e \in routed
    THEN /\ req' = Append(req, [t |-> t, op |-> op, k |-> k])
         /\ pc' = [pc EXCEPT ![t] = [op |-> op, k |-> k, ans |-> "none"]]
    ELSE /\ pc' = [pc EXCEPT ![t] = [op |-> op, k |-> k, ans |-> "not found"]]
         /\ UNCHANGED req

Return(t) == pc' = [pc EXCEPT ![t] = Quiet]

EInit ==
  /\ Init
  /\ routed = {}
  /\ ent = [k \in Requests |-> "none"]
  /\ lock = "free"
  /\ pc = [t \in Procs |-> Quiet]
  /\ req = <<>>
  /\ evq = <<>>
  /\ calls = 0
  /\ timeouts = 0
  /\ events = 0
  /\ quit = {}
  /\ stray = FALSE
  /\ erred = {}
  /\ overtaken = {}
  /\ refused = {}

-----------------------------------------------------------------------------
(* The consumer's API calls.                                               *)

(* rbusEvent_SubscribeWithRetries up to the first request: a clean entry   *)
(* is refused as existing, a dirty one is clean again and that is all.     *)
(* (No asynchronous subscription, which would be refused too, is pending.) *)
SubscribeCall(t, k) ==
  /\ pc[t] = Quiet
  /\ lock = "free"
  /\ calls < MaxCalls
  /\ calls' = calls + 1
  /\ quit' = quit \ {k}
  /\ IF ent[k] = "none"
       THEN Send(t, "sub", k) /\ UNCHANGED ent
       ELSE ent' = [ent EXCEPT ![k] = "clean"] /\ UNCHANGED <<pc, req>>
  /\ UNCHANGED <<vars, routed, lock, evq, timeouts, events, stray, erred,
                 overtaken, refused>>

(* No provider and time left: the request is sent again after a sleep.     *)
SubscribeRetry(t) ==
  /\ pc[t].op = "sub"
  /\ pc[t].ans = "not found"
  /\ pc[t].k.e \in routed
  /\ Send(t, "sub", pc[t].k)
  /\ UNCHANGED <<vars, routed, ent, lock, evq, calls, timeouts, events, quit,
                 stray, erred, overtaken, refused>>

\* Mutant of SubscribeEnd: a request without an answer counts as granted.
SubscribeEnd_NoAnswer(t) ==
  /\ pc[t].op = "sub"
  /\ pc[t].ans # "none"
  /\ lock = "free"
  /\ IF pc[t].ans = "not found" THEN UNCHANGED ent
       ELSE ent' = [ent EXCEPT ![pc[t].k] = "clean"]
  /\ Return(t)
  /\ UNCHANGED <<vars, routed, lock, req, evq, calls, timeouts, events, quit,
                 stray, erred, overtaken, refused>>

(* The end of rbusEvent_SubscribeWithRetries, under the mutex unless the   *)
(* request failed.  When the provider says that the subscription exists,   *)
(* the entry is made without setting its rawData: by what that happens to  *)
(* hold, later searches find the entry or do not.                          *)
SubscribeEnd(t) ==
  /\ pc[t].op = "sub"
  /\ pc[t].ans # "none"
  /\ pc[t].ans \in {"ok", "exists", "not found"} => lock = "free"
  /\ LET k == pc[t].k IN
       \E e \in CASE pc[t].ans = "ok" -> {"clean"}
                  [] pc[t].ans = "exists" -> {"clean", "none"}
                  [] pc[t].ans = "not found" /\ ent[k] # "none" -> {"dirty"}
                  [] OTHER -> {ent[k]} :
         /\ ent' = [ent EXCEPT ![k] = e]
         /\ erred' = IF pc[t].ans = "ok" \/ (pc[t].ans = "exists" /\ e = "clean")
                       THEN erred ELSE erred \union {k}
  /\ Return(t)
  /\ UNCHANGED <<vars, routed, lock, req, evq, calls, timeouts, events, quit,
                 stray, overtaken, refused>>

(* An unsubscription of k goes out while a subscription that another       *)
(* thread sent before it has not ended: what the provider answers to the   *)
(* subscription may not hold any more when the entry is made.              *)
Overtakes(k) ==
  overtaken' = overtaken \union
    {x \in {k} : \E u \in Threads : /\ pc[u].op = "sub" /\ pc[u].k = x
                                     /\ pc[u].ans \in {"none", "ok", "exists"}}

(* rbusEvent_Unsubscribe, or rbusEvent_UnsubscribeEx for an entry with a   *)
(* filter: the mutex is kept while the request is out.                     *)
UnsubscribeCall(t, k) ==
  /\ pc[t] = Quiet
  /\ lock = "free"
  /\ calls < MaxCalls
  /\ ent[k] # "none"
  /\ calls' = calls + 1
  /\ lock' = t
  /\ Send(t, "unsub", k)
  /\ Overtakes(k)
  /\ UNCHANGED <<vars, routed, ent, evq, timeouts, events, quit, stray, erred,
                 refused>>

\* Mutant of AfterUnsubscribe: the entry goes also when no provider exists.
AfterUnsubscribe_Forgets(ans) == "none"

(* Its end: only an answer that no provider exists keeps the entry, dirty, *)
(* and the call still says success.                                        *)
AfterUnsubscribe(ans) == IF ans = "not found" THEN "dirty" ELSE "none"

\* Mutant of UnsubscribeEnd: a request without an answer leaves it locked.
UnsubscribeEnd_Locked(t) ==
  /\ t # Cb
  /\ pc[t].op = "unsub"
  /\ pc[t].ans # "none"
  /\ ent' = [ent EXCEPT ![pc[t].k] = AfterUnsubscribe(pc[t].ans)]
  /\ erred' = erred \union {pc[t].k}
  /\ lock' = IF pc[t].ans = "no answer" THEN lock ELSE "free"
  /\ Return(t)
  /\ UNCHANGED <<vars, routed, req, evq, calls, timeouts, events, quit, stray,
                 overtaken, refused>>

(* rbusEvent_UnsubscribeEx says success also when the request failed.      *)
SaysSuccess(k, ans) == ans \in {"ok", "not found"} \/ k.c = "filter"

UnsubscribeEnd(t) ==
  /\ t # Cb
  /\ pc[t].op = "unsub"
  /\ pc[t].ans # "none"
  /\ LET k == pc[t].k
         ans == pc[t].ans
     IN /\ ent' = [ent EXCEPT ![k] = AfterUnsubscribe(ans)]
        /\ quit' = IF SaysSuccess(k, ans) THEN quit \union {k} ELSE quit
        /\ erred' = IF ans \in {"ok", "not found"} THEN erred ELSE erred \union {k}
  /\ lock' = "free"
  /\ Return(t)
  /\ UNCHANGED <<vars, routed, req, evq, calls, timeouts, events, stray,
                 overtaken, refused>>

(* A caller gives up waiting.  The request may still be served; when it    *)
(* was lost with the provider, nothing else can end the wait.              *)
Timeout(t) ==
  /\ Waiting(t)
  /\ LET mine == {i \in DOMAIN req : req[i].t = t} IN
     /\ mine # {} => timeouts < MaxTimeouts
     /\ timeouts' = IF mine # {} THEN timeouts + 1 ELSE timeouts
     /\ req' = [i \in DOMAIN req |-> IF i \in mine THEN [req[i] EXCEPT !.t = "nobody"] ELSE req[i]]
  /\ pc' = [pc EXCEPT ![t].ans = "no answer"]
  /\ UNCHANGED <<vars, routed, ent, lock, evq, calls, events, quit, stray,
                 erred, overtaken, refused>>

-----------------------------------------------------------------------------
(* The consumer's callback thread: _master_event_callback_handler.         *)

Handled(k) == stray' = (stray \/ k \in quit)

(* An entry that is clean has its handler called, and one that is missing  *)
(* leaves the event unhandled.  (Subscriptions have no duration, whose end *)
(* would remove the entry.)                                                *)
OnEvent ==
  /\ evq # <<>>
  /\ lock = "free"
  /\ pc[Cb] = Quiet
  /\ ent[Head(evq)] # "dirty"
  /\ IF ent[Head(evq)] = "clean" THEN Handled(Head(evq)) ELSE UNCHANGED stray
  /\ evq' = Tail(evq)
  /\ UNCHANGED <<vars, routed, ent, lock, pc, req, calls, timeouts, events,
                 quit, erred, overtaken, refused>>

(* A dirty one is unsubscribed again, with the mutex held ...              *)
OnEventDirty ==
  /\ evq # <<>>
  /\ lock = "free"
  /\ pc[Cb] = Quiet
  /\ ent[Head(evq)] = "dirty"
  /\ lock' = Cb
  /\ Send(Cb, "unsub", Head(evq))
  /\ Overtakes(Head(evq))
  /\ evq' = Tail(evq)
  /\ UNCHANGED <<vars, routed, ent, calls, timeouts, events, quit, stray,
                 erred, refused>>

(* ... and removed, unless there is still no provider: then it stays and   *)
(* the handler is called.                                                  *)
OnEventEnd ==
  /\ pc[Cb].op = "unsub"
  /\ pc[Cb].ans # "none"
  /\ LET k == pc[Cb].k IN
     /\ ent' = [ent EXCEPT ![k] = AfterUnsubscribe(pc[Cb].ans)]
     /\ IF pc[Cb].ans = "not found" THEN Handled(k) ELSE UNCHANGED stray
     /\ erred' = IF pc[Cb].ans \in {"ok", "not found"} THEN erred ELSE erred \union {k}
  /\ lock' = "free"
  /\ Return(Cb)
  /\ UNCHANGED <<vars, routed, req, evq, calls, timeouts, events, quit,
                 overtaken, refused>>

-----------------------------------------------------------------------------
(* The provider.                                                           *)

(* The answer of _subscribe_callback_handler reaches the thread that asked *)
(* if it still waits.                                                      *)
Answer(r, ans) ==
  pc' = IF r.t = "nobody" THEN pc ELSE [pc EXCEPT ![r.t].ans = ans]

(* The callback thread of the provider serves the request at the head of   *)
(* its queue.  (The answer is read here before the write of the file is    *)
(* over, not after it: that shows only when the provider stops in between, *)
(* which the properties except.)                                           *)
Serve ==
  /\ req # <<>>
  /\ LET r == Head(req) IN
     \/ /\ r.op = "sub"
        /\ \E ok \in Answers :
             /\ Subscribe(r.k, ok)
             /\ Answer(r, CASE ~ok -> "error"
                            [] r.k \in KeySet(subs) -> "exists"
                            [] OTHER -> "ok")
     \/ /\ r.op = "unsub"
        /\ Unsubscribe(r.k)
        /\ Answer(r, "ok")
     \/ /\ CbFree
        /\ \/ r.k.e \notin regd
           \/ r.op = "unsub" /\ (r.k \notin KeySet(subs) \/ MayRefuse)
        /\ Answer(r, "error")
        /\ UNCHANGED vars
  /\ req' = Tail(req)
  /\ UNCHANGED <<routed, ent, lock, evq, calls, timeouts, events, quit, stray,
                 erred, overtaken, refused>>

(* rbus_regDataElements tells the router first, the registry afterwards.   *)
(* (A registration the router refuses, which is undone, is left out.)      *)
Route(x) ==
  /\ AppFree
  /\ app.job = "idle"
  /\ x \notin routed
  /\ routed' = routed \union {x}
  /\ UNCHANGED <<vars, client, req, events, refused>>

\* Mutant of ProviderStep: an element is inserted before it is routed.
ProviderStep_Unrouted ==
  /\ \/ Start
     \/ FinishSave
     \/ \E x \in Scalars : Register(x)
     \/ StartLoop
     \/ LoopDone
  /\ UNCHANGED <<routed, client, req, events, refused>>

(* The provider's own steps, the ones of RbusSubscriptions.                *)
ProviderStep ==
  /\ \/ Start
     \/ FinishSave
     \/ \E x \in routed : Register(x)
     \/ StartLoop
     \/ LoopTurn
     \/ \E ok \in Answers : Resubscribe(ok)
     \/ LoopCut
     \/ LoopDone
  /\ refused' = refused \union
                  {k \in Requests : k = app.out /\ k # app'.out /\ k \notin KeySet(subs')}
  /\ UNCHANGED <<routed, client, req, events>>

(* It stops: its routes and the requests it has not served are gone.       *)
ProviderStops ==
  /\ Stop
  /\ routed' = {}
  /\ req' = <<>>
  /\ UNCHANGED <<client, events, refused>>

(* rbusEvent_Publish: an event to every subscription the element has, to   *)
(* one with a filter only when the filter's result changes.                *)
Publish(n) ==
  /\ CbFree
  /\ n \in regd
  /\ events < MaxEvents
  /\ LET hits == SelectSeq(subs, LAMBDA s : s.inst[n] > 0) IN
     /\ hits # <<>>
     /\ \E crossed \in BOOLEAN :
          evq' = evq \o Keys(SelectSeq(hits, LAMBDA s : s.c = "plain" \/ crossed))
  /\ events' = events + 1
  /\ UNCHANGED <<vars, routed, ent, lock, pc, req, calls, timeouts, quit,
                 stray, erred, overtaken, refused>>

-----------------------------------------------------------------------------
ThreadStep(t) ==
  \/ SubscribeRetry(t)
  \/ SubscribeEnd(t)
  \/ UnsubscribeEnd(t)
  \/ Timeout(t)

ENext ==
  \/ \E t \in Threads : \E k \in May[t] : SubscribeCall(t, k) \/ UnsubscribeCall(t, k)
  \/ \E t \in Threads : ThreadStep(t)
  \/ Timeout(Cb)
  \/ OnEvent
  \/ OnEventDirty
  \/ OnEventEnd
  \/ Serve
  \/ \E x \in Scalars : Route(x) \/ Publish(x)
  \/ ProviderStep
  \/ ProviderStops

ESpec == EInit /\ [][ENext]_evars

(* Threads that can take a step of a call they are in take it: no thread   *)
(* of the library is suspended for ever, and every wait has a timeout.     *)
EFairSpec ==
  /\ ESpec
  /\ \A t \in Threads : WF_evars(SubscribeEnd(t)) /\ WF_evars(UnsubscribeEnd(t))
  /\ \A t \in Procs : WF_evars(Timeout(t))
  /\ SF_evars(OnEvent)
  /\ SF_evars(OnEventDirty)
  /\ WF_evars(OnEventEnd)
  /\ WF_evars(Serve)
  /\ WF_evars(up /\ ProviderStep)

-----------------------------------------------------------------------------
(* Properties.                                                             *)

(* Nothing about k is on its way: no call, no request.                     *)
Settled(k) ==
  /\ \A t \in Procs : pc[t].k # k
  /\ \A i \in DOMAIN req : req[i].k # k

Registry == IF up THEN KeySet(subs) \union {app.out} ELSE Range(file)

(* The consumer's variables hold what the code's structures can hold.      *)
ETypeOK ==
  /\ ent \in [Requests -> {"none", "clean", "dirty"}]
  /\ lock \in Procs \union {"free"}
  /\ \A t \in Procs : pc[t].op \in {"idle", "sub", "unsub"}
  /\ Range(evq) \subseteq Requests
  /\ regd \subseteq routed

(* What the consumer believes, the provider knows: when a call has left a  *)
(* clean entry and nothing about it is under way, the provider has the     *)
(* subscription, in its list or, while it is down, in its file, across     *)
(* restarts, timeouts and late answers, and when two threads subscribe to  *)
(* the same event at once.  Exceptions: a stop in the middle of a save, a  *)
(* provider that refused it when it resubscribed, and an unsubscription    *)
(* that overtook the end of another thread's subscription, which then      *)
(* makes its entry on an answer that does not hold any more.               *)
ClientServed ==
  \A k \in Requests :
    (ent[k] = "clean" /\ Settled(k) /\ ~torn /\ k \notin refused \union overtaken)
      => k \in Registry

(* What the provider knows, the consumer remembers: a subscription the     *)
(* consumer has no entry for is not kept by the provider either, unless a  *)
(* request about it failed, stayed without an answer, or was answered that *)
(* the subscription exists and so made an entry that searches miss.        *)
NoOrphan ==
  \A k \in Requests :
    (ent[k] = "none" /\ Settled(k) /\ k \notin erred) => k \notin Registry

(* The mutex that an unsubscription keeps while it waits for its answer    *)
(* always becomes free again, also when the provider dies meanwhile.       *)
LockFreed == (lock # "free") ~> (lock = "free")

(* rbus.h says that a component calls rbusEvent_Unsubscribe to stop        *)
(* receiving the event: no handler is called for a key whose last call was *)
(* an rbusEvent_Unsubscribe that returned success.                         *)
NoEventAfterUnsubscribe == ~stray
=============================================================================
