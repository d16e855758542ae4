------------------------- MODULE RtConnectionProofs -------------------------
(***************************************************************************)
(* Proofs about RtConnection: every request that succeeds got its own      *)
(* response, for any number of callers, messages and lost connections.     *)
(* The types are proved one group of variables at a time.                  *)
(***************************************************************************)
EXTENDS RtConnection, TLAPS

ReqType ==
    /\ seq \in Nat \ {0}
    /\ pending \subseteq Callers
    /\ entry \in [Callers -> [seq : Nat, sem : Nat, response : Response \union {None}]]
    /\ pc \in [Callers -> {"idle", "send", "reconnect", "wait", "take", "timeout"}]
    /\ result \in [Callers -> {None, "ok", "no_object", "error", "timeout", "no_connection"}]
    /\ got \in [Callers -> Response \union {None}]

NetType ==
    /\ up \in BOOLEAN
    /\ wire \subseteq Request
    /\ inbox \in Seq(Response \union Event)
    /\ events \in 0..MaxEvents
    /\ drops \in 0..MaxDrops /\ calls \in 0..MaxCalls

RdType ==
    /\ mutex \in {None, "reader"}
    /\ rd \in [at : {"check", "read", "reconnect", "find", "attach", "enqueue", "exit"},
               msg : Response \union Event \union {None}, target : Callers \union {None},
               found : Nat]
    /\ rd.at \in {"find", "attach"} => rd.msg \in Response
    /\ rd.at = "attach" => rd.target \in Callers /\ rd.found = rd.msg.seq
    /\ rd.at = "enqueue" => rd.msg \in Event

CbType ==
    /\ run \in BOOLEAN
    /\ queue \in Seq(Event) /\ Len(queue) <= MaxQueue + 1
    /\ cb \in {"top", "lock", "locked", "wait", "signaled", "empty", "unlocked", "find",
              "callback", "remove", "exit"}
    /\ ran \in Seq(1..MaxEvents)
    /\ destroy \in {"no", "shutdown", "signal", "join", "done"}
    /\ cb \in {"unlocked", "find", "callback", "remove"} => queue # <<>>

TypeInv == ReqType /\ NetType /\ RdType /\ CbType

LEMMA TypeSplit == TypeInv <=> TypeOK /\ ThreadInv
  BY SMTT(40) DEF TypeInv, ReqType, NetType, RdType, CbType, TypeOK, ThreadInv

-----------------------------------------------------------------------------
LEMMA TypeInit == Init => TypeInv
<1> SUFFICES ASSUME Init PROVE TypeInv
  OBVIOUS
<1>1. ReqType
  BY DEF Init, ReqType, NoEntry
<1>2. NetType
  BY ConnAssumption DEF Init, NetType
<1>3. RdType
  BY DEF Init, RdType, ReaderAt
<1>4. CbType
  BY ConnAssumption DEF Init, CbType
<1> QED
  BY <1>1, <1>2, <1>3, <1>4 DEF TypeInv

LEMMA ReqTypeStep == ReqType /\ RdType /\ [Next]_vars => ReqType'
<1> SUFFICES ASSUME ReqType, RdType, [Next]_vars PROVE ReqType'
  OBVIOUS
<1> USE DEF ReqType
<1>1. ASSUME NEW c \in Callers, Call(c) PROVE ReqType'
  BY <1>1 DEF Call
<1>2. ASSUME NEW c \in Callers, Send(c) PROVE ReqType'
  <2>1. seq' \in Nat \ {0} /\ pending' \subseteq Callers /\ got' = got
    BY <1>2 DEF Send
  <2>2. /\ pc' \in [Callers -> {"idle", "send", "reconnect", "wait", "take", "timeout"}]
        /\ result' \in [Callers -> {None, "ok", "no_object", "error", "timeout", "no_connection"}]
    BY SMTT(40), <1>2 DEF Send
  <2>3. \/ entry' = entry
        \/ entry' = [entry EXCEPT ![c] = [seq |-> seq, sem |-> 0, response |-> None]]
    BY <1>2 DEF Send
  <2>4. entry' \in [Callers -> [seq : Nat, sem : Nat, response : Response \union {None}]]
    BY <2>3
  <2> QED
    BY <2>1, <2>2, <2>4
<1>3. ASSUME NEW c \in Callers, CallerReconnect(c) PROVE ReqType'
  BY ZenonT(60), <1>3 DEF CallerReconnect
<1>4. ASSUME NEW c \in Callers, Woken(c) PROVE ReqType'
  BY <1>4 DEF Woken
<1>5. ASSUME NEW c \in Callers, TakeResponse(c) PROVE ReqType'
  BY ZenonT(60), <1>5 DEF TakeResponse, FrameGone, Outcome
<1>6. ASSUME NEW c \in Callers, TimedOut(c) PROVE ReqType'
  BY <1>6 DEF TimedOut
<1>7. ASSUME NEW c \in Callers, RemoveUnlocked(c) PROVE ReqType'
  BY ZenonT(60), <1>7 DEF RemoveUnlocked, FrameGone
<1>8. ASSUME ReaderAttach PROVE ReqType'
  BY <1>8 DEF ReaderAttach, TargetLive, RdType
<1>9. ASSUME DestroyUnblock PROVE ReqType'
  <2>1. \A c \in Callers : [entry[c] EXCEPT !.sem = @ + 1]
                         \in [seq : Nat, sem : Nat, response : Response \union {None}]
    OBVIOUS
  <2> QED
    BY <1>9, <2>1 DEF DestroyUnblock
<1>10. ASSUME UNCHANGED reqVars PROVE ReqType'
  BY <1>10 DEF reqVars
<1>11. ASSUME Answer \/ Arrive \/ Drop \/ CallbackStep \/ Stopped \/ UNCHANGED vars
       PROVE UNCHANGED reqVars
  BY <1>11 DEF Answer, Arrive, Drop, CallbackStep, CbTop, CbLock, CbLocked2, CbWake,
     CbCheck, CbFind, CbCallback, CbRemove, CbUnchanged, Stopped, vars, reqVars
<1>12. ASSUME ReaderStep, ~ReaderAttach PROVE UNCHANGED reqVars
  BY ZenonT(60), <1>12 DEF ReaderStep, ReaderCheck, ReaderRead, ReaderReadFails, ReaderReconnect,
     ReaderFind, ReaderEnqueue, EnqueueWith
<1>13. ASSUME DestroyStep, ~DestroyUnblock PROVE UNCHANGED reqVars
  BY <1>13 DEF DestroyStep, DestroyStart, DestroyShutdown, DestroySignal
<1> QED
  BY <1>1, <1>2, <1>3, <1>4, <1>5, <1>6, <1>7, <1>8, <1>9, <1>10, <1>11, <1>12, <1>13
  DEF Next, CallerStep

LEMMA NetTypeStep == NetType /\ ReqType /\ [Next]_vars => NetType'
<1> SUFFICES ASSUME NetType, ReqType, [Next]_vars PROVE NetType'
  OBVIOUS
<1> USE ConnAssumption DEF NetType
<1>1. ASSUME NEW c \in Callers, Call(c) PROVE NetType'
  BY <1>1 DEF Call
<1>2. ASSUME NEW c \in Callers, Send(c) PROVE NetType'
  BY <1>2 DEF Send, Request, ReqType
<1>3. ASSUME NEW c \in Callers, CallerReconnect(c) PROVE NetType'
  BY ZenonT(60), <1>3 DEF CallerReconnect, netVars
<1>4. ASSUME NEW c \in Callers, Woken(c) \/ TakeResponse(c) \/ TimedOut(c) \/ RemoveUnlocked(c)
      PROVE NetType'
  BY <1>4 DEF Woken, TakeResponse, TimedOut, RemoveUnlocked, netVars
<1>5. ASSUME Answer PROVE NetType'
  <2>1. PICK r \in wire, k \in {"response", "undeliverable"} :
          /\ wire' = wire \ {r}
          /\ inbox' = Append(inbox, [kind |-> k, seq |-> r.seq, from |-> r.from])
    BY <1>5 DEF Answer
  <2>2. [kind |-> k, seq |-> r.seq, from |-> r.from] \in Response
    BY <2>1 DEF Request, Response
  <2> QED
    BY <1>5, <2>1, <2>2 DEF Answer
<1>6. ASSUME Arrive PROVE NetType'
  <2>1. [kind |-> "event", n |-> events + 1] \in Event
    BY <1>6 DEF Arrive, Event
  <2> QED
    BY <1>6, <2>1 DEF Arrive
<1>7. ASSUME Drop PROVE NetType'
  <2>1. inbox' \in Seq(Response \union Event)
    BY <1>7 DEF Drop
  <2>2. wire' \subseteq Request
    BY <1>7 DEF Drop
  <2>3. up' \in BOOLEAN
    BY ZenonT(60), <1>7 DEF Drop
  <2>4. events' \in 0..MaxEvents /\ drops' \in 0..MaxDrops /\ calls' \in 0..MaxCalls
    BY <1>7 DEF Drop
  <2> QED
    BY <2>1, <2>2, <2>3, <2>4
<1>8. ASSUME ReaderStep PROVE NetType'
  <2>1. UNCHANGED netVars
    BY ZenonT(60), <1>8 DEF ReaderStep, ReaderCheck, ReaderRead, ReaderReadFails, ReaderReconnect,
       ReaderFind, ReaderAttach, ReaderEnqueue, EnqueueWith
  <2>2. up' \in BOOLEAN
    BY ZenonT(60), <1>8 DEF ReaderStep, ReaderCheck, ReaderRead, ReaderReadFails, ReaderReconnect,
       ReaderFind, ReaderAttach, ReaderEnqueue, EnqueueWith
  <2>3. inbox' = inbox \/ (inbox # <<>> /\ inbox' = Tail(inbox))
    BY ZenonT(60), <1>8 DEF ReaderStep, ReaderCheck, ReaderRead, ReaderReadFails, ReaderReconnect,
       ReaderFind, ReaderAttach, ReaderEnqueue, EnqueueWith
  <2>4. inbox' \in Seq(Response \union Event)
    BY <2>3
  <2> QED
    BY <2>1, <2>2, <2>4 DEF netVars
<1>9. ASSUME CallbackStep \/ Stopped \/ UNCHANGED vars PROVE NetType'
  BY <1>9 DEF CallbackStep, CbTop, CbLock, CbLocked2, CbWake, CbCheck, CbFind, CbCallback,
     CbRemove, CbUnchanged, Stopped, vars, netVars
<1>10. ASSUME DestroyStep PROVE NetType'
  <2>1. UNCHANGED netVars
    BY <1>10 DEF DestroyStep, DestroyStart, DestroyShutdown, DestroySignal, DestroyUnblock
  <2>2. up' \in BOOLEAN
    BY ZenonT(60), <1>10 DEF DestroyStep, DestroyStart, DestroyShutdown, DestroySignal, DestroyUnblock
  <2>3. inbox' = inbox \/ inbox' = <<>>
    BY <1>10 DEF DestroyStep, DestroyStart, DestroyShutdown, DestroySignal, DestroyUnblock
  <2>4. <<>> \in Seq(Response \union Event)
    OBVIOUS
  <2>5. inbox' \in Seq(Response \union Event)
    BY ZenonT(60), <2>3, <2>4
  <2> QED
    BY <2>1, <2>2, <2>5 DEF netVars
<1> QED
  BY <1>1, <1>2, <1>3, <1>4, <1>5, <1>6, <1>7, <1>8, <1>9, <1>10 DEF Next, CallerStep

(* The steps after which the reader has no message in its hands.            *)
LEMMA IdleReader ==
  ASSUME ReaderCheck \/ ReaderReadFails \/ ReaderReconnect \/ ReaderEnqueue
  PROVE  mutex' = mutex /\ \E to \in {"check", "read", "reconnect", "exit"} : rd' = ReaderAt(to)
<1>1. CASE ReaderCheck
  BY ZenonT(60), <1>1 DEF ReaderCheck
<1>2. CASE ReaderReadFails
  BY ZenonT(60), <1>2 DEF ReaderReadFails
<1>3. CASE ReaderReconnect
  BY ZenonT(60), <1>3 DEF ReaderReconnect
<1>4. CASE ReaderEnqueue
  BY ZenonT(60), <1>4 DEF ReaderEnqueue, EnqueueWith
<1> QED
  BY <1>1, <1>2, <1>3, <1>4

LEMMA RdTypeStep == TypeInv /\ [Next]_vars => RdType'
<1> SUFFICES ASSUME TypeInv, [Next]_vars PROVE RdType'
  OBVIOUS
<1> USE DEF RdType
<1>0. RdType
  BY DEF TypeInv
<1>1. ASSUME ReaderCheck \/ ReaderReadFails \/ ReaderReconnect \/ ReaderEnqueue PROVE RdType'
  <2>1. mutex' = mutex /\ \E to \in {"check", "read", "reconnect", "exit"} : rd' = ReaderAt(to)
    BY <1>1, IdleReader
  <2> QED
    BY <1>0, <2>1 DEF ReaderAt
<1>2. ASSUME ReaderRead PROVE RdType'
  <2>1. Head(inbox) \in Response \union Event
    BY <1>2 DEF ReaderRead, TypeInv, NetType
  <2>2. IsResponse(Head(inbox)) => Head(inbox) \in Response
    BY <2>1 DEF IsResponse, Event
  <2>3. ~IsResponse(Head(inbox)) => Head(inbox) \in Event
    BY <2>1 DEF IsResponse, Response
  <2> QED
    BY <1>0, <1>2, <2>1, <2>2, <2>3 DEF ReaderRead
<1>3. ASSUME ReaderFind PROVE RdType'
  <2>1. CASE Match(rd.msg) = {}
    BY <1>0, <1>3, <2>1 DEF ReaderFind, ReaderAt
  <2>2. CASE Match(rd.msg) # {}
    <3>1. PICK c \in Match(rd.msg) :
            rd' = [rd EXCEPT !.at = "attach", !.target = c, !.found = entry[c].seq]
      BY ZenonT(60), <1>3, <2>2 DEF ReaderFind
    <3>2. c \in Callers /\ entry[c].seq = rd.msg.seq /\ entry[c].seq \in Nat
      BY DEF Match, TypeInv, ReqType
    <3> QED
      BY ZenonT(60), <1>0, <1>3, <2>2, <3>1, <3>2 DEF ReaderFind
  <2> QED
    BY <2>1, <2>2
<1>4. ASSUME ReaderAttach PROVE RdType'
  BY <1>0, <1>4 DEF ReaderAttach, ReaderAt
<1>5. ASSUME UNCHANGED <<mutex, rd>> PROVE RdType'
  BY <1>0, <1>5
<1>6. ASSUME NEW c \in Callers, CallerStep(c) PROVE UNCHANGED <<mutex, rd>>
  BY ZenonT(60), <1>6 DEF CallerStep, Call, Send, CallerReconnect, Woken, TakeResponse, TimedOut,
     RemoveUnlocked
<1>7. ASSUME Answer \/ Arrive \/ Drop \/ CallbackStep \/ Stopped \/ UNCHANGED vars
      PROVE UNCHANGED <<mutex, rd>>
  BY <1>7 DEF Answer, Arrive, Drop, CallbackStep, CbTop, CbLock, CbLocked2, CbWake,
     CbCheck, CbFind, CbCallback, CbRemove, CbUnchanged, Stopped, vars
<1>8. ASSUME DestroyStep PROVE UNCHANGED <<mutex, rd>>
  BY <1>8 DEF DestroyStep, DestroyStart, DestroyShutdown, DestroySignal, DestroyUnblock
<1> QED
  BY <1>1, <1>2, <1>3, <1>4, <1>5, <1>6, <1>7, <1>8 DEF Next, ReaderStep

LEMMA CbTypeStep == TypeInv /\ [Next]_vars => CbType'
<1> SUFFICES ASSUME TypeInv, [Next]_vars PROVE CbType'
  OBVIOUS
<1> USE ConnAssumption DEF CbType
<1>0. CbType
  BY DEF TypeInv
<1>1. ASSUME ReaderEnqueue PROVE CbType'
  <2>1. rd.msg \in Event
    BY <1>1 DEF ReaderEnqueue, EnqueueWith, TypeInv, RdType
  <2>2. CASE Len(queue) > MaxQueue
    BY <1>0, <1>1, <2>2 DEF ReaderEnqueue, EnqueueWith
  <2>3. CASE ~(Len(queue) > MaxQueue)
    <3>1. queue' = Append(queue, rd.msg)
      BY <1>1, <2>3 DEF ReaderEnqueue, EnqueueWith
    <3>2. queue' \in Seq(Event) /\ Len(queue') = Len(queue) + 1
      BY <1>0, <2>1, <3>1
    <3>3. queue' # <<>> /\ Len(queue') <= MaxQueue + 1
      BY <1>0, <2>3, <3>2
    <3> QED
      BY <1>0, <1>1, <2>3, <3>2, <3>3 DEF ReaderEnqueue, EnqueueWith
  <2> QED
    BY <2>2, <2>3
<1>2. ASSUME CbTop \/ CbLock \/ CbLocked2 \/ CbWake \/ CbCheck \/ CbFind PROVE CbType'
  BY <1>0, <1>2 DEF CbTop, CbLock, CbLocked2, CbWake, CbCheck, CbFind, CbUnchanged
<1>3. ASSUME CbCallback PROVE CbType'
  <2>1. Head(queue) \in Event
    BY <1>0, <1>3 DEF CbCallback
  <2>2. Head(queue).n \in 1..MaxEvents
    BY <2>1 DEF Event
  <2>3. ran' \in Seq(1..MaxEvents)
    BY <1>0, <1>3, <2>2 DEF CbCallback
  <2> QED
    BY <1>0, <1>3, <2>3 DEF CbCallback, CbUnchanged
<1>4. ASSUME CbRemove PROVE CbType'
  <2>1. queue' \in Seq(Event) /\ Len(queue') = Len(queue) - 1
    BY <1>0, <1>4 DEF CbRemove
  <2>2. Len(queue) # 1 => queue' # <<>>
    BY <2>1
  <2> QED
    BY <1>0, <1>4, <2>1, <2>2 DEF CbRemove, CbUnchanged
<1>5. ASSUME DestroyStart \/ DestroyShutdown \/ DestroySignal PROVE CbType'
  BY ZenonT(60), <1>0, <1>5 DEF DestroyStart, DestroyShutdown, DestroySignal, cbVars
<1>6. ASSUME DestroyUnblock PROVE CbType'
  BY <1>0, <1>6 DEF DestroyUnblock
<1>7. ASSUME UNCHANGED <<run, cbVars, destroy>> PROVE CbType'
  BY <1>0, <1>7 DEF cbVars
<1>8. ASSUME NEW c \in Callers, CallerStep(c) PROVE UNCHANGED <<run, cbVars, destroy>>
  BY ZenonT(60), <1>8 DEF CallerStep, Call, Send, CallerReconnect, Woken, TakeResponse, TimedOut,
     RemoveUnlocked
<1>9. ASSUME Answer \/ Arrive \/ Drop \/ Stopped \/ UNCHANGED vars
      PROVE UNCHANGED <<run, cbVars, destroy>>
  BY <1>9 DEF Answer, Arrive, Drop, Stopped, vars, cbVars
<1>10. ASSUME ReaderStep, ~ReaderEnqueue PROVE UNCHANGED <<run, cbVars, destroy>>
  BY ZenonT(60), <1>10 DEF ReaderStep, ReaderCheck, ReaderRead, ReaderReadFails, ReaderReconnect,
     ReaderFind, ReaderAttach
<1> QED
  BY <1>1, <1>2, <1>3, <1>4, <1>5, <1>6, <1>7, <1>8, <1>9, <1>10
  DEF Next, CallbackStep, DestroyStep

LEMMA TypeStep == TypeInv /\ [Next]_vars => TypeInv'
  BY ReqTypeStep, NetTypeStep, RdTypeStep, CbTypeStep DEF TypeInv

-----------------------------------------------------------------------------
(* The types of all variables hold in every reachable state, whatever the   *)
(* number of threads and messages: in particular the callback queue is      *)
(* never longer than MAX_ALLOWED_MESSAGES + 1.                              *)
THEOREM TypeCorrect == Spec => []TypeOK
<1>1. Spec => []TypeInv
  BY TypeInit, TypeStep, PTL DEF Spec
<1> QED
  BY <1>1, TypeSplit, PTL

-----------------------------------------------------------------------------
IInv == SeqInv /\ OwnResponse

LEMMA IInit == Init => IInv
  BY ConnAssumption DEF Init, IInv, SeqInv, OwnResponse, Bound, NoEntry, ReaderAt

(* A message stays bound when one caller takes the next number.             *)
LEMMA BoundGrows ==
  ASSUME NEW m, NEW s \in Nat, NEW e, NEW f, NEW c \in Callers, m.seq \in Nat,
         Bound(m, s, e), \A d \in Callers : d # c => f[d] = e[d],
         f[c].seq = s \/ f[c] = e[c]
  PROVE  Bound(m, s + 1, f)
<1>1. m.seq < s
  BY DEF Bound
<1>2. ASSUME NEW d \in Callers, m.seq = f[d].seq PROVE m.from = d
  <2>1. f[d] = e[d]
    BY <1>1, <1>2
  <2> QED
    BY <1>2, <2>1 DEF Bound
<1> QED
  BY <1>1, <1>2 DEF Bound

(* Sending a request keeps what the sequence numbers say: the new number is *)
(* larger than every number in flight.                                      *)
LEMMA SendKeeps ==
  ASSUME TypeInv, IInv, NEW c \in Callers, Send(c)
  PROVE  IInv'
<1> USE DEF TypeInv, ReqType, NetType, RdType
<1>1. seq \in Nat /\ rd' = rd /\ inbox' = inbox /\ got' = got
  BY DEF Send
<1>2. pc[c] = "send" /\ result[c] = None
  BY DEF Send, IInv, SeqInv
<1>3. \A d \in Callers : d # c => /\ entry'[d] = entry[d] /\ result'[d] = result[d]
                                  /\ pc'[d] = pc[d]
  BY DEF Send
<1>4. \/ seq' = seq + 1 /\ entry'[c].seq = seq /\ entry'[c].response = None
      \/ seq' = seq /\ entry' = entry /\ wire' = wire
  BY DEF Send
<1>5. \A d \in Callers : entry[d].seq \in Nat /\ entry[d].seq < seq
  BY DEF IInv, SeqInv
<1>6. ASSUME NEW m, m.seq \in Nat, Bound(m, seq, entry) PROVE Bound(m, seq', entry')
  <2> HIDE DEF TypeInv, ReqType, NetType, RdType
  <2>1. \A d \in Callers : d # c => entry'[d] = entry[d]
    BY <1>3
  <2>2. m.seq \in Nat /\ Bound(m, seq, entry) /\ seq \in Nat
    BY <1>1, <1>6
  <2>3. CASE seq' = seq + 1 /\ entry'[c].seq = seq
    <3>1. Bound(m, seq + 1, entry')
      BY <2>1, <2>2, <2>3, BoundGrows
    <3> QED
      BY <2>3, <3>1
  <2>4. CASE seq' = seq /\ entry' = entry
    BY <2>2, <2>4
  <2> QED
    BY <1>4, <2>3, <2>4
<1>7. \A r \in wire' : Bound(r, seq', entry')
  <2> SUFFICES ASSUME NEW r \in wire' PROVE Bound(r, seq', entry')
    OBVIOUS
  <2>1. CASE r \in wire
    BY <1>6, <2>1 DEF IInv, SeqInv, Request
  <2>2. CASE r \notin wire
    <3>1. r = [seq |-> seq, from |-> c] /\ seq' = seq + 1
      BY <2>2 DEF Send
    <3>2. \A d \in Callers : d # c => entry'[d].seq # seq
      BY <1>3, <1>5
    <3> QED
      BY SMTT(40), <1>1, <3>1, <3>2 DEF Bound
  <2> QED
    BY <2>1, <2>2
<1>8. \A i \in DOMAIN inbox' : IsResponse(inbox'[i]) => Bound(inbox'[i], seq', entry')
  <2> SUFFICES ASSUME NEW i \in DOMAIN inbox, IsResponse(inbox[i])
               PROVE  Bound(inbox[i], seq', entry')
    BY <1>1
  <2>1. inbox[i] \in Response
    BY DEF IsResponse, Event
  <2>2. inbox[i].seq \in Nat
    BY <2>1 DEF Response
  <2> QED
    BY <1>6, <2>2 DEF IInv, SeqInv
<1>9. rd'.at \in {"find", "attach"} => Bound(rd'.msg, seq', entry')
  <2> SUFFICES ASSUME rd.at \in {"find", "attach"} PROVE Bound(rd.msg, seq', entry')
    BY <1>1
  <2>1. rd.msg.seq \in Nat
    BY DEF Response
  <2> QED
    BY <1>6, <2>1 DEF IInv, SeqInv
<1>10. ASSUME NEW d \in Callers
       PROVE  /\ entry'[d].seq < seq'
              /\ entry'[d].response # None => /\ entry'[d].response.from = d
                                             /\ entry'[d].response.seq = entry'[d].seq
  <2>1. CASE entry'[d] = entry[d]
    BY <1>1, <1>4, <1>5, <2>1 DEF IInv, SeqInv
  <2>2. CASE d = c /\ seq' = seq + 1 /\ entry'[c].seq = seq /\ entry'[c].response = None
    BY <1>1, <2>2
  <2> QED
    BY <1>3, <1>4, <2>1, <2>2
<1>11. \A d \in Callers : result'[d] # None => pc'[d] = "idle"
  BY SMTT(40), <1>2, <1>3 DEF IInv, SeqInv, Send
<1>12. OwnResponse'
  <2>1. result'[c] # "ok"
    BY <1>2, ConnAssumption DEF Send
  <2> QED
    BY <1>1, <1>3, <2>1 DEF IInv, OwnResponse
<1> QED
  BY <1>7, <1>8, <1>9, <1>10, <1>11, <1>12 DEF IInv, SeqInv

(* Bound depends on nothing of the entries but their numbers.               *)
LEMMA BoundKept ==
  ASSUME NEW m, NEW s, NEW e, NEW f, \A d \in Callers : f[d].seq = e[d].seq,
         Bound(m, s, e)
  PROVE  Bound(m, s, f)
  BY DEF Bound

(* The steps of a caller other than Send leave the messages alone.          *)
LEMMA CallerKeeps ==
  ASSUME TypeInv, IInv, NEW c \in Callers, CallerStep(c), ~Send(c)
  PROVE  IInv'
<1> USE DEF TypeInv, ReqType
<1>1. seq' = seq /\ wire' = wire /\ inbox' = inbox /\ rd' = rd
  BY ZenonT(60) DEF CallerStep, Call, CallerReconnect, Woken, TakeResponse, TimedOut, RemoveUnlocked,
     netVars
<1>2. \A d \in Callers : /\ entry'[d].seq = entry[d].seq
                         /\ entry'[d].response \in {None, entry[d].response}
  <2>1. CASE Woken(c)
    BY <2>1 DEF Woken
  <2>2. CASE TakeResponse(c) \/ RemoveUnlocked(c)
    BY <2>2 DEF TakeResponse, RemoveUnlocked, FrameGone
  <2>3. CASE Call(c) \/ CallerReconnect(c) \/ TimedOut(c)
    BY ZenonT(60), <2>3 DEF Call, CallerReconnect, TimedOut
  <2> QED
    BY SMTT(40), <2>1, <2>2, <2>3 DEF CallerStep
<1>3. \A d \in Callers : d # c => result'[d] = result[d] /\ pc'[d] = pc[d] /\ got'[d] = got[d]
  BY ZenonT(60) DEF CallerStep, Call, CallerReconnect, Woken, TakeResponse, TimedOut, RemoveUnlocked
<1>4. pc[c] # "idle" => result[c] = None
  BY DEF IInv, SeqInv
<1>5. result'[c] # None => pc'[c] = "idle"
  <2>1. CASE CallerReconnect(c)
    BY ZenonT(60), <1>4, <2>1 DEF CallerReconnect
  <2>2. CASE ~CallerReconnect(c)
    BY <1>4, <2>2 DEF CallerStep, Call, Woken, TakeResponse, TimedOut, RemoveUnlocked
  <2> QED
    BY <2>1, <2>2
<1>6. result'[c] = "ok" => /\ got'[c] # None /\ got'[c].from = c
                           /\ got'[c].seq = entry'[c].seq
  <2>1. CASE TakeResponse(c)
    BY <1>2, <2>1 DEF TakeResponse, Outcome, IInv, SeqInv
  <2>2. CASE ~TakeResponse(c)
    <3>1. CASE CallerReconnect(c)
      BY ZenonT(60), <1>4, <3>1, ConnAssumption DEF CallerReconnect
    <3>2. CASE ~CallerReconnect(c)
      BY <1>4, <2>2, <3>2, ConnAssumption DEF CallerStep, Call, Woken, TimedOut, RemoveUnlocked
    <3> QED
      BY <3>1, <3>2
  <2> QED
    BY <2>1, <2>2
<1>7. OwnResponse'
  BY <1>2, <1>3, <1>6 DEF IInv, OwnResponse
<1>8. \A r \in wire' : Bound(r, seq', entry')
  BY <1>1, <1>2, BoundKept DEF IInv, SeqInv
<1>9. \A i \in DOMAIN inbox' : IsResponse(inbox'[i]) => Bound(inbox'[i], seq', entry')
  BY <1>1, <1>2, BoundKept DEF IInv, SeqInv
<1>10. rd'.at \in {"find", "attach"} => Bound(rd'.msg, seq', entry')
  BY <1>1, <1>2, BoundKept DEF IInv, SeqInv
<1>11. ASSUME NEW d \in Callers
       PROVE  /\ entry'[d].seq < seq'
              /\ entry'[d].response # None => /\ entry'[d].response.from = d
                                             /\ entry'[d].response.seq = entry'[d].seq
  BY <1>1, <1>2 DEF IInv, SeqInv
<1>12. \A d \in Callers : result'[d] # None => pc'[d] = "idle"
  BY SMTT(40), <1>3, <1>5 DEF IInv, SeqInv
<1> QED
  BY <1>7, <1>8, <1>9, <1>10, <1>11, <1>12 DEF IInv, SeqInv

(* Steps that change no request: messages are made from bound ones only.    *)
LEMMA MessagesKeep ==
  ASSUME TypeInv, IInv, UNCHANGED reqVars,
         \A r \in wire' : Bound(r, seq, entry),
         \A i \in DOMAIN inbox' : IsResponse(inbox'[i]) => Bound(inbox'[i], seq, entry),
         rd'.at \in {"find", "attach"} => Bound(rd'.msg, seq, entry)
  PROVE  IInv'
<1>1. /\ seq' = seq /\ entry' = entry /\ pc' = pc
      /\ result' = result /\ got' = got
  BY DEF reqVars
<1>2. \A r \in wire' : Bound(r, seq', entry')
  BY <1>1
<1>3. \A i \in DOMAIN inbox' : IsResponse(inbox'[i]) => Bound(inbox'[i], seq', entry')
  BY <1>1
<1>4. rd'.at \in {"find", "attach"} => Bound(rd'.msg, seq', entry')
  BY <1>1
<1>5. \A c \in Callers :
         /\ entry'[c].seq < seq'
         /\ entry'[c].response # None => /\ entry'[c].response.from = c
                                         /\ entry'[c].response.seq = entry'[c].seq
         /\ result'[c] # None => pc'[c] = "idle"
  BY <1>1 DEF IInv, SeqInv
<1>6. OwnResponse'
  BY <1>1 DEF IInv, OwnResponse
<1> QED
  BY ZenonT(60), <1>2, <1>3, <1>4, <1>5, <1>6 DEF IInv, SeqInv

LEMMA IStep == TypeInv /\ IInv /\ [Next]_vars => IInv'
<1> SUFFICES ASSUME TypeInv, IInv, [Next]_vars PROVE IInv'
  OBVIOUS
<1> USE DEF TypeInv, NetType
<1>1. ASSUME NEW c \in Callers, CallerStep(c) PROVE IInv'
  BY <1>1, SendKeeps, CallerKeeps
<1>2. ASSUME Answer PROVE IInv'
  <2>1. PICK r \in wire, k \in {"response", "undeliverable"} :
          /\ wire' = wire \ {r}
          /\ inbox' = Append(inbox, [kind |-> k, seq |-> r.seq, from |-> r.from])
    BY <1>2 DEF Answer
  <2>2. Bound([kind |-> k, seq |-> r.seq, from |-> r.from], seq, entry)
    BY DEF IInv, SeqInv, Bound
  <2>3. \A i \in DOMAIN inbox' : IsResponse(inbox'[i]) => Bound(inbox'[i], seq, entry)
    BY <2>1, <2>2 DEF IInv, SeqInv
  <2>4. \A m \in wire' : Bound(m, seq, entry)
    BY <2>1 DEF IInv, SeqInv
  <2>5. rd' = rd /\ UNCHANGED reqVars
    BY <1>2 DEF Answer
  <2>6. rd'.at \in {"find", "attach"} => Bound(rd'.msg, seq, entry)
    BY <2>5 DEF IInv, SeqInv
  <2> QED
    BY ZenonT(60), <2>3, <2>4, <2>5, <2>6, MessagesKeep
<1>3. ASSUME Arrive PROVE IInv'
  <2>1. inbox' = Append(inbox, [kind |-> "event", n |-> events + 1])
    BY <1>3 DEF Arrive
  <2>2. \A i \in DOMAIN inbox' : IsResponse(inbox'[i]) => Bound(inbox'[i], seq, entry)
    BY <2>1 DEF IInv, SeqInv, IsResponse
  <2>3. rd' = rd /\ wire' = wire /\ UNCHANGED reqVars
    BY <1>3 DEF Arrive
  <2>4. \A r \in wire' : Bound(r, seq, entry)
    BY <2>3 DEF IInv, SeqInv
  <2>5. rd'.at \in {"find", "attach"} => Bound(rd'.msg, seq, entry)
    BY <2>3 DEF IInv, SeqInv
  <2> QED
    BY ZenonT(60), <2>2, <2>3, <2>4, <2>5, MessagesKeep
<1>4. ASSUME Drop \/ DestroyShutdown PROVE IInv'
  <2>1. inbox' = <<>> /\ wire' \subseteq wire /\ rd' = rd /\ UNCHANGED reqVars
    BY <1>4 DEF Drop, DestroyShutdown, netVars
  <2>2. \A i \in DOMAIN inbox' : IsResponse(inbox'[i]) => Bound(inbox'[i], seq, entry)
    BY <2>1
  <2>3. \A r \in wire' : Bound(r, seq, entry)
    BY <2>1 DEF IInv, SeqInv
  <2>4. rd'.at \in {"find", "attach"} => Bound(rd'.msg, seq, entry)
    BY <2>1 DEF IInv, SeqInv
  <2> QED
    BY <2>1, <2>2, <2>3, <2>4, MessagesKeep
<1>5. ASSUME ReaderRead PROVE IInv'
  <2>1. inbox # <<>> /\ inbox' = Tail(inbox) /\ wire' = wire /\ UNCHANGED reqVars
    BY <1>5 DEF ReaderRead, netVars
  <2>2. \A i \in DOMAIN inbox' : IsResponse(inbox'[i]) => Bound(inbox'[i], seq, entry)
    <3> SUFFICES ASSUME NEW i \in DOMAIN inbox', IsResponse(inbox'[i])
                 PROVE  Bound(inbox'[i], seq, entry)
      OBVIOUS
    <3>1. i + 1 \in DOMAIN inbox /\ inbox'[i] = inbox[i + 1]
      BY <2>1
    <3> QED
      BY ZenonT(60), <3>1 DEF IInv, SeqInv
  <2>3. rd'.at \in {"find", "attach"} => Bound(rd'.msg, seq, entry)
    BY <1>5, <2>1 DEF ReaderRead, IInv, SeqInv
  <2>4. \A r \in wire' : Bound(r, seq, entry)
    BY <2>1 DEF IInv, SeqInv
  <2> QED
    BY ZenonT(60), <2>1, <2>2, <2>3, <2>4, MessagesKeep
<1>6. ASSUME ReaderAttach PROVE IInv'
  <2>1. /\ seq' = seq /\ wire' = wire /\ inbox' = inbox /\ rd' = ReaderAt("check")
        /\ pc' = pc /\ result' = result /\ got' = got
    BY <1>6 DEF ReaderAttach, netVars
  <2>2. rd.target \in Callers /\ Bound(rd.msg, seq, entry) /\ rd.found = rd.msg.seq
    BY <1>6 DEF ReaderAttach, RdType, IInv, SeqInv
  <2>3. \A d \in Callers : entry'[d].seq = entry[d].seq
    BY <1>6, <2>2 DEF ReaderAttach, ReqType
  <2>4. ASSUME NEW d \in Callers
        PROVE  entry'[d].response # None => /\ entry'[d].response.from = d
                                           /\ entry'[d].response.seq = entry'[d].seq
    <3>1. CASE d = rd.target /\ TargetLive
      <4>1. entry'[d].response = rd.msg
        BY <1>6, <2>2, <3>1 DEF ReaderAttach, ReqType
      <4>2. entry[d].seq = rd.msg.seq
        BY <2>2, <3>1 DEF TargetLive
      <4> QED
        BY <2>2, <2>3, <4>1, <4>2 DEF Bound
    <3>2. CASE ~(d = rd.target /\ TargetLive)
      <4>1. entry'[d] = entry[d]
        BY <1>6, <2>2, <3>2 DEF ReaderAttach, ReqType
      <4> QED
        BY <4>1 DEF IInv, SeqInv
    <3> QED
      BY <3>1, <3>2
  <2>5. \A r \in wire' : Bound(r, seq', entry')
    BY <2>1, <2>3, BoundKept DEF IInv, SeqInv
  <2>6. \A i \in DOMAIN inbox' : IsResponse(inbox'[i]) => Bound(inbox'[i], seq', entry')
    BY <2>1, <2>3, BoundKept DEF IInv, SeqInv
  <2>7. OwnResponse'
    BY <2>1, <2>3 DEF IInv, OwnResponse
  <2>8. rd'.at = "check"
    BY <2>1 DEF ReaderAt
  <2>9. \A d \in Callers : entry'[d].seq < seq' /\ (result'[d] # None => pc'[d] = "idle")
    BY <2>1, <2>3 DEF IInv, SeqInv
  <2>10. ~(rd'.at \in {"find", "attach"})
    BY <2>8
  <2> QED
    BY ZenonT(60), <2>4, <2>5, <2>6, <2>7, <2>9, <2>10 DEF IInv, SeqInv
<1>7. ASSUME DestroyUnblock PROVE IInv'
  <2>1. /\ seq' = seq /\ wire' = wire /\ inbox' = inbox /\ rd' = rd
        /\ pc' = pc /\ result' = result /\ got' = got
    BY <1>7 DEF DestroyUnblock, netVars
  <2>2. \A d \in Callers : entry'[d].seq = entry[d].seq /\ entry'[d].response = entry[d].response
    BY <1>7 DEF DestroyUnblock, ReqType
  <2>3. \A r \in wire' : Bound(r, seq', entry')
    BY SMTT(40), <2>1, <2>2, BoundKept DEF IInv, SeqInv
  <2>4. \A i \in DOMAIN inbox' : IsResponse(inbox'[i]) => Bound(inbox'[i], seq', entry')
    BY <2>1, <2>2, BoundKept DEF IInv, SeqInv
  <2>5. rd'.at \in {"find", "attach"} => Bound(rd'.msg, seq', entry')
    BY SMTT(40), <2>1, <2>2, BoundKept DEF IInv, SeqInv
  <2>6. OwnResponse'
    BY <2>1, <2>2 DEF IInv, OwnResponse
  <2>7. \A d \in Callers : entry'[d].seq < seq' /\ (result'[d] # None => pc'[d] = "idle")
    BY <2>1, <2>2 DEF IInv, SeqInv
  <2>8. \A d \in Callers :
           entry'[d].response # None => /\ entry'[d].response.from = d
                                        /\ entry'[d].response.seq = entry'[d].seq
    BY <2>2 DEF IInv, SeqInv
  <2> QED
    BY ZenonT(60), <2>3, <2>4, <2>5, <2>6, <2>7, <2>8 DEF IInv, SeqInv
<1>8. ASSUME ReaderCheck \/ ReaderReadFails \/ ReaderReconnect \/ ReaderFind \/ ReaderEnqueue
      PROVE  IInv'
  <2>1. UNCHANGED <<reqVars, wire, inbox>>
    BY ZenonT(60), <1>8 DEF ReaderCheck, ReaderReadFails, ReaderReconnect, ReaderFind, ReaderEnqueue,
       EnqueueWith, netVars
  <2>2. rd'.at \in {"find", "attach"} => rd.at = "find" /\ rd'.msg = rd.msg
    <3>1. CASE ReaderFind
      <4>1. rd.at = "find"
        BY ZenonT(60), <3>1 DEF ReaderFind
      <4>2. \/ rd' = ReaderAt("check")
            \/ \E c \in Match(rd.msg) :
                  rd' = [rd EXCEPT !.at = "attach", !.target = c, !.found = entry[c].seq]
        BY ZenonT(60), <3>1 DEF ReaderFind
      <4>3. CASE rd' = ReaderAt("check")
        BY <4>3 DEF ReaderAt
      <4>4. ASSUME NEW c \in Match(rd.msg),
                   rd' = [rd EXCEPT !.at = "attach", !.target = c, !.found = entry[c].seq]
            PROVE  rd'.msg = rd.msg
        BY <4>4 DEF RdType
      <4> QED
        BY ZenonT(60), <4>1, <4>2, <4>3, <4>4
    <3>2. CASE ~ReaderFind
      BY <1>8, <3>2, IdleReader DEF ReaderAt
    <3> QED
      BY <3>1, <3>2
  <2> QED
    BY ZenonT(60), <2>1, <2>2, MessagesKeep DEF IInv, SeqInv
<1>9. ASSUME CallbackStep \/ DestroyStart \/ DestroySignal \/ Stopped \/ UNCHANGED vars
      PROVE  IInv'
  <2>1. UNCHANGED <<reqVars, wire, inbox, rd>>
    BY <1>9 DEF CallbackStep, CbTop, CbLock, CbLocked2, CbWake, CbCheck, CbFind, CbCallback,
       CbRemove, CbUnchanged, DestroyStart, DestroySignal, Stopped, vars, netVars, reqVars
  <2>2. wire' = wire /\ inbox' = inbox /\ rd' = rd /\ UNCHANGED reqVars
    BY <2>1
  <2>3. /\ \A r \in wire' : Bound(r, seq, entry)
        /\ \A i \in DOMAIN inbox' : IsResponse(inbox'[i]) => Bound(inbox'[i], seq, entry)
        /\ rd'.at \in {"find", "attach"} => Bound(rd'.msg, seq, entry)
    BY <2>2 DEF IInv, SeqInv
  <2> QED
    BY <2>2, <2>3, MessagesKeep
<1> QED
  BY <1>1, <1>2, <1>3, <1>4, <1>5, <1>6, <1>7, <1>8, <1>9 DEF Next, ReaderStep, DestroyStep

(* A request that succeeds returns the response to itself, for any number   *)
(* of threads, requests, reorderings, timeouts and lost connections (as     *)
(* long as the 32-bit sequence number does not wrap around).                *)
THEOREM OwnResponseAlways == Spec => []OwnResponse
<1>1. Spec => [](TypeInv /\ IInv)
  BY TypeInit, IInit, TypeStep, IStep, PTL DEF Spec
<1>2. TypeInv /\ IInv => OwnResponse
  BY DEF IInv
<1> QED
  BY <1>1, <1>2, PTL
=============================================================================
