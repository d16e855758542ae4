---------------------------- MODULE RtConnection ----------------------------
(***************************************************************************)
(* One client connection of the rtmessage library                          *)
(* (src/rtmessage/rtConnection.c): application threads that send requests  *)
(* and wait on a per-request semaphore, the reader thread that matches     *)
(* responses to pending requests and queues everything else, the callback  *)
(* thread that runs the listeners' callbacks, and rtConnection_Destroy.    *)
(*                                                                         *)
(* A critical section of con->mutex or of callback_message_mutex is one    *)
(* step, except where another thread can act inside it: a sender whose     *)
(* wait timed out touches the pending list without the mutex, so the       *)
(* reader's lookup and its hand-over of the response are two steps.        *)
(* Reconnecting is one step here; its protocol is module RtReconnect.      *)
(***************************************************************************)
EXTENDS Integers, Sequences, FiniteSets

CONSTANTS
    Callers,      \* application threads that call rtConnection_SendRequest
    AppLocked,    \* the callers that hold an application mutex meanwhile
    MaxCalls,     \* bound: calls of rtConnection_SendRequest
    MaxEvents,    \* bound: non-response messages that arrive
    MaxDrops,     \* bound: times the connection is lost
    MaxQueue,     \* MAX_ALLOWED_MESSAGES
    DestroyWhen,  \* when the application calls Destroy: "never", "quiet" (while
                  \* no other thread is sending a request) or "any" time
    None

ASSUME ConnAssumption ==
    /\ MaxCalls \in Nat /\ MaxEvents \in Nat /\ MaxDrops \in Nat
    /\ MaxQueue \in Nat /\ DestroyWhen \in {"never", "quiet", "any"}
    /\ AppLocked \subseteq Callers
    /\ None \notin Callers \union {"ok", "reader"}

VARIABLES
    mutex,     \* holder of con->mutex across steps: "reader" or None
    run,       \* con->run_threads
    up,        \* the socket is connected
    seq,       \* con->sequence_number
    pending,   \* con->pending_requests_list: the callers with an entry in it
    entry,     \* the pending_request on each caller's stack
    pc,        \* where each caller is
    result,    \* what the caller's last SendRequest returned
    got,       \* the response handed to the caller's application
    wire,      \* requests the router or a provider has not answered yet
    inbox,     \* messages in the socket, oldest first
    events,    \* non-response messages that have arrived so far
    rd,        \* the reader thread: [at, msg, target, found]
    queue,     \* con->callback_message_list
    cb,        \* where the callback thread is
    ran,       \* numbers of the messages whose callbacks ran, in order
    destroy,   \* how far rtConnection_Destroy has come
    drops,     \* times the connection was lost
    calls      \* requests made

reqVars   == <<seq, pending, entry, pc, result, got>>
cbVars    == <<queue, cb, ran>>
netVars   == <<wire, events, drops, calls>>
vars == <<mutex, run, up, seq, pending, entry, pc, result, got, wire, inbox,
          events, rd, queue, cb, ran, destroy, drops, calls>>

-----------------------------------------------------------------------------
(* Messages. A request or response carries its sequence number; "from" is   *)
(* the caller whose request it is, or answers (it stands for the payload).  *)

Request == [seq : Nat, from : Callers]
Response == [kind : {"response", "undeliverable"}, seq : Nat, from : Callers]
Event == [kind : {"event"}, n : 1..MaxEvents]
IsResponse(m) == m.kind \in {"response", "undeliverable"}

NoEntry == [seq |-> 0, sem |-> 0, response |-> None]
ReaderAt(where) == [at |-> where, msg |-> None, target |-> None, found |-> 0]

MutexFree == mutex = None

-----------------------------------------------------------------------------
(* rtConnection_CreateInternal: first connect, then both threads start.     *)
Init ==
    /\ mutex = None /\ run = TRUE /\ up = TRUE
    /\ seq = 1
    /\ pending = {}
    /\ entry = [c \in Callers |-> NoEntry]
    /\ pc = [c \in Callers |-> "idle"]
    /\ result = [c \in Callers |-> None]
    /\ got = [c \in Callers |-> None]
    /\ wire = {} /\ inbox = <<>> /\ events = 0
    /\ rd = ReaderAt("check")
    /\ queue = <<>> /\ cb = "top" /\ ran = <<>>
    /\ destroy = "no" /\ drops = 0 /\ calls = 0

-----------------------------------------------------------------------------
(* rtConnection_SendRequestInternal                                         *)

(* The application enters rtConnection_SendRequest. *)
Call(c) ==
    /\ pc[c] = "idle" /\ destroy = "no" /\ calls < MaxCalls
    /\ calls' = calls + 1
    /\ pc' = [pc EXCEPT ![c] = "send"]
    /\ result' = [result EXCEPT ![c] = None]
    /\ got' = [got EXCEPT ![c] = None]
    /\ UNCHANGED <<mutex, run, up, seq, pending, entry, wire, events, drops, inbox,
                   rd, cbVars, destroy>>

(* Under con->mutex: take a sequence number, push the entry, send. When the *)
(* send fails the entry is removed before the unlock; a socket that is gone *)
(* leads to a reconnect, any other error is returned. Numbers are only      *)
(* compared, so one whose send failed, which nothing carries, is not        *)
(* counted: a request that goes round without a connection stays finite.    *)
Send(c) ==
    /\ pc[c] = "send" /\ MutexFree
    /\ \/ /\ up
          /\ seq' = seq + 1
          /\ entry' = [entry EXCEPT ![c] = [seq |-> seq, sem |-> 0, response |-> None]]
          /\ pending' = pending \union {c}
          /\ wire' = wire \union {[seq |-> seq, from |-> c]}
          /\ pc' = [pc EXCEPT ![c] = "wait"]
          /\ UNCHANGED result
       \/ /\ ~up
          /\ pc' = [pc EXCEPT ![c] = "reconnect"]
          /\ UNCHANGED <<seq, entry, pending, wire, result>>
       \/ /\ pc' = [pc EXCEPT ![c] = "idle"]
          /\ result' = [result EXCEPT ![c] = "error"]
          /\ UNCHANGED <<seq, entry, pending, wire>>
    /\ UNCHANGED <<mutex, run, up, got, inbox, events, rd, cbVars, destroy, drops, calls>>

(* The socket was gone. rtConnection_ConnectAndRegister returns RT_OK after *)
(* a reconnect, but also, without one, to a caller that waited for another  *)
(* thread's attempt or whose time is not later than the last reconnect: the *)
(* request is tried again either way. Its error is returned.                *)
CallerReconnect(c) ==
    /\ pc[c] = "reconnect"
    /\ \/ /\ up' \in {TRUE, up}
          /\ pc' = [pc EXCEPT ![c] = "send"]
          /\ UNCHANGED result
       \/ /\ pc' = [pc EXCEPT ![c] = "idle"]
          /\ result' = [result EXCEPT ![c] = "no_connection"]
          /\ UNCHANGED up
    /\ UNCHANGED <<mutex, run, seq, pending, entry, got, netVars, inbox, rd, cbVars,
                   destroy>>

(* rtSemaphore_TimedWait returns RT_OK. Its pthread_cond_timedwait is not   *)
(* in a loop, so a spurious wake-up also ends the wait.                     *)
Woken(c) ==
    /\ pc[c] = "wait"
    /\ entry' = [entry EXCEPT ![c].sem = IF @ > 0 THEN @ - 1 ELSE 0]
    /\ pc' = [pc EXCEPT ![c] = "take"]
    /\ UNCHANGED <<mutex, run, up, seq, pending, result, got, netVars, inbox, rd,
                   cbVars, destroy>>

(* rtConnection_SendRequestInternal returns: its stack frame is gone. *)
FrameGone(c) == [entry EXCEPT ![c].sem = 0, ![c].response = None]

(* What SendRequest returns for the response r it found in its entry. *)
Outcome(r) == CASE r = None -> "error"
                [] r # None /\ r.kind = "response" -> "ok"
                [] OTHER -> "no_object"

\* Mutant of TakeResponse: the early return without a response keeps con->mutex.
TakeResponse_NoUnlock(c) ==
    /\ pc[c] = "take" /\ MutexFree
    /\ result' = [result EXCEPT ![c] = Outcome(entry[c].response)]
    /\ got' = [got EXCEPT ![c] = entry[c].response]
    /\ pending' = pending \ {c} /\ entry' = FrameGone(c)
    /\ pc' = [pc EXCEPT ![c] = "idle"]
    /\ mutex' = IF entry[c].response = None THEN c ELSE None
    /\ UNCHANGED <<run, up, seq, netVars, inbox, rd, cbVars, destroy>>

(* Under con->mutex: take the response, remove the entry. *)
TakeResponse(c) ==
    /\ pc[c] = "take" /\ MutexFree
    /\ result' = [result EXCEPT ![c] = Outcome(entry[c].response)]
    /\ got' = [got EXCEPT ![c] = entry[c].response]
    /\ pending' = pending \ {c} /\ entry' = FrameGone(c)
    /\ pc' = [pc EXCEPT ![c] = "idle"]
    /\ UNCHANGED <<mutex, run, up, seq, netVars, inbox, rd, cbVars, destroy>>

(* rtSemaphore_TimedWait gives up, possibly with a post it did not see.     *)
TimedOut(c) ==
    /\ pc[c] = "wait"
    /\ pc' = [pc EXCEPT ![c] = "timeout"]
    /\ UNCHANGED <<mutex, run, up, seq, pending, entry, result, got, netVars, inbox,
                   rd, cbVars, destroy>>

(* After a timeout the entry is removed WITHOUT con->mutex; the unlock that *)
(* follows fails with EPERM and changes nothing.                            *)
RemoveUnlocked(c) ==
    /\ pc[c] = "timeout"
    /\ pending' = pending \ {c} /\ entry' = FrameGone(c)
    /\ result' = [result EXCEPT ![c] = "timeout"]
    /\ pc' = [pc EXCEPT ![c] = "idle"]
    /\ UNCHANGED <<mutex, run, up, seq, got, netVars, inbox, rd, cbVars, destroy>>

CallerStep(c) == Call(c) \/ Send(c) \/ CallerReconnect(c) \/ Woken(c)
                 \/ TakeResponse(c) \/ TimedOut(c) \/ RemoveUnlocked(c)

-----------------------------------------------------------------------------
(* The router and the peers behind it.                                      *)

(* A request is answered by its provider, or turned around by the router    *)
(* because nobody listens to its topic. Answers come in any order.          *)
Answer ==
    /\ up
    /\ \E r \in wire, k \in {"response", "undeliverable"} :
          /\ wire' = wire \ {r}
          /\ inbox' = Append(inbox, [kind |-> k, seq |-> r.seq, from |-> r.from])
    /\ UNCHANGED <<mutex, run, up, reqVars, events, rd, cbVars, destroy, drops, calls>>

(* A published event or a request from another client arrives. *)
Arrive ==
    /\ up /\ events < MaxEvents
    /\ events' = events + 1
    /\ inbox' = Append(inbox, [kind |-> "event", n |-> events + 1])
    /\ UNCHANGED <<mutex, run, up, reqVars, wire, rd, cbVars, destroy, drops, calls>>

(* The socket dies: unread bytes are gone and any of the outstanding        *)
(* requests may never be answered (others may be, after a reconnect).       *)
Drop ==
    /\ up /\ drops < MaxDrops
    /\ drops' = drops + 1
    /\ up' = FALSE
    /\ inbox' = <<>>
    /\ \E lost \in SUBSET wire : wire' = wire \ lost
    /\ UNCHANGED <<mutex, run, reqVars, events, calls, rd, cbVars, destroy>>

-----------------------------------------------------------------------------
(* rtConnection_ReaderThread and rtConnection_Read                          *)

ReaderCheck ==
    /\ rd.at = "check" /\ MutexFree
    /\ rd' = ReaderAt(IF run THEN "read" ELSE "exit")
    /\ UNCHANGED <<mutex, run, up, reqVars, netVars, inbox, cbVars, destroy>>

(* A message is read off the socket. *)
ReaderRead ==
    /\ rd.at = "read" /\ up /\ inbox # <<>>
    /\ rd' = [at |-> IF IsResponse(Head(inbox)) THEN "find" ELSE "enqueue",
              msg |-> Head(inbox), target |-> None, found |-> 0]
    /\ inbox' = Tail(inbox)
    /\ UNCHANGED <<mutex, run, up, reqVars, netVars, cbVars, destroy>>

(* The read fails: leave when the threads are to stop, reconnect otherwise. *)
(* On a socket that was never connected (a failed reconnect leaves one) the *)
(* error is neither ENOTCONN nor EPIPE, and rtConnection_Read returns RT_OK *)
(* as if a message had been read.                                           *)
ReaderReadFails ==
    /\ rd.at = "read" /\ ~up /\ MutexFree
    /\ \E to \in {"check", IF run THEN "reconnect" ELSE "exit"} : rd' = ReaderAt(to)
    /\ UNCHANGED <<mutex, run, up, reqVars, netVars, inbox, cbVars, destroy>>

(* The reader keeps trying to reconnect until ConnectAndRegister returns    *)
(* RT_OK (as for a caller, with or without a connection) or it must stop.   *)
ReaderReconnect ==
    /\ rd.at = "reconnect"
    /\ \/ up' \in {TRUE, up} /\ rd' = ReaderAt("check")
       \/ ~run /\ rd' = ReaderAt("exit") /\ UNCHANGED up
    /\ UNCHANGED <<mutex, run, reqVars, netVars, inbox, cbVars, destroy>>

\* Mutant of Match: the sequence number is not compared.
Match_Any(m) == pending

(* The pending requests a response answers. *)
Match(m) == {c \in pending : entry[c].seq = m.seq}

(* Under con->mutex: look the sequence number up. A late response, whose    *)
(* request is gone, is dropped. The mutex is kept when an entry is found.   *)
ReaderFind ==
    /\ rd.at = "find" /\ MutexFree
    /\ IF Match(rd.msg) = {}
          THEN rd' = ReaderAt("check") /\ UNCHANGED mutex
          ELSE /\ \E c \in Match(rd.msg) :
                     rd' = [rd EXCEPT !.at = "attach", !.target = c, !.found = entry[c].seq]
               /\ mutex' = "reader"
    /\ UNCHANGED <<run, up, reqVars, netVars, inbox, cbVars, destroy>>

(* The entry found is still the one in the list. *)
TargetLive == rd.target \in pending /\ entry[rd.target].seq = rd.found

(* Still under con->mutex: hand the response over and post the semaphore.   *)
(* When the entry is gone by now this writes into a dead stack frame.       *)
ReaderAttach ==
    /\ rd.at = "attach"
    /\ entry' = IF TargetLive
                   THEN [entry EXCEPT ![rd.target].response = rd.msg,
                                      ![rd.target].sem = @ + 1]
                   ELSE entry
    /\ mutex' = None
    /\ rd' = ReaderAt("check")
    /\ UNCHANGED <<run, up, seq, pending, pc, result, got, netVars, inbox, cbVars,
                   destroy>>

CbLocked == cb = "locked"

AppMutexHeld == \E c \in AppLocked : pc[c] # "idle"

(* The reader's critical section of callback_message_mutex, which leaves    *)
(* list q behind and may signal the callback thread.                        *)
EnqueueWith(q, signal) ==
    /\ rd.at = "enqueue" /\ ~CbLocked
    /\ queue' = q
    /\ cb' = IF signal /\ cb = "wait" THEN "signaled" ELSE cb
    /\ rd' = ReaderAt("check")
    /\ UNCHANGED <<mutex, run, up, reqVars, netVars, inbox, ran, destroy>>

\* Mutants of ReaderEnqueue: no limit, wrong end, no signal, callback run inline.
ReaderEnqueue_NoLimit == EnqueueWith(Append(queue, rd.msg), TRUE)
ReaderEnqueue_PushFront ==
    IF Len(queue) > MaxQueue THEN EnqueueWith(queue, FALSE)
                             ELSE EnqueueWith(<<rd.msg>> \o queue, TRUE)
ReaderEnqueue_NoSignal ==
    IF Len(queue) > MaxQueue THEN EnqueueWith(queue, FALSE)
                             ELSE EnqueueWith(Append(queue, rd.msg), FALSE)
ReaderEnqueue_Inline == ~AppMutexHeld /\ EnqueueWith(queue, FALSE)

(* Queue the message and signal the callback thread, or drop the message    *)
(* when more than MAX_ALLOWED_MESSAGES are queued.                          *)
ReaderEnqueue ==
    IF Len(queue) > MaxQueue THEN EnqueueWith(queue, FALSE)
                             ELSE EnqueueWith(Append(queue, rd.msg), TRUE)

ReaderStep == ReaderCheck \/ ReaderRead \/ ReaderReadFails \/ ReaderReconnect
              \/ ReaderFind \/ ReaderAttach \/ ReaderEnqueue

-----------------------------------------------------------------------------
(* rtConnection_CallbackThread                                              *)

CbUnchanged == UNCHANGED <<mutex, run, up, reqVars, netVars, inbox, rd, destroy>>

(* while (1 == GetRunThreadsSync(con)) *)
CbTop ==
    /\ cb = "top" /\ MutexFree
    /\ cb' = IF run THEN "lock" ELSE "exit"
    /\ UNCHANGED <<queue, ran>> /\ CbUnchanged

CbLock ==
    /\ cb = "lock"
    /\ cb' = "locked"
    /\ UNCHANGED <<queue, ran>> /\ CbUnchanged

\* Mutant of CbLocked2: run_threads is not checked again after the lock.
CbLocked2_NoRecheck ==
    /\ cb = "locked"
    /\ cb' = IF queue = <<>> THEN "wait" ELSE "unlocked"
    /\ UNCHANGED <<queue, ran>> /\ CbUnchanged

(* run_threads is checked again with callback_message_mutex held; then the  *)
(* thread waits for a message or goes on to the one at the front.           *)
CbLocked2 ==
    /\ cb = "locked" /\ MutexFree
    /\ cb' = CASE ~run -> "exit"
               [] run /\ queue = <<>> -> "wait"
               [] OTHER -> "unlocked"
    /\ UNCHANGED <<queue, ran>> /\ CbUnchanged

(* pthread_cond_wait returns, after a signal or spuriously; the front of    *)
(* the list, if any, is taken before callback_message_mutex is released.    *)
CbWake ==
    /\ cb \in {"wait", "signaled"}
    /\ cb' = IF queue = <<>> THEN "empty" ELSE "unlocked"
    /\ UNCHANGED <<queue, ran>> /\ CbUnchanged

\* Mutant of CbCheck: whether there was a message is not checked.
CbCheck_NoEmpty ==
    /\ cb \in {"unlocked", "empty"} /\ MutexFree
    /\ cb' = IF ~run THEN "exit" ELSE "find"
    /\ UNCHANGED <<queue, ran>> /\ CbUnchanged

CbCheck ==
    /\ cb \in {"unlocked", "empty"} /\ MutexFree
    /\ cb' = CASE ~run -> "exit"
               [] run /\ cb = "empty" -> "top"
               [] OTHER -> "find"
    /\ UNCHANGED <<queue, ran>> /\ CbUnchanged

(* Under con->mutex: leave the loop when the threads are to stop, else find *)
(* the listener (which may have been removed).                              *)
CbFind ==
    /\ cb = "find" /\ MutexFree
    /\ cb' \in (IF run THEN {"callback", "remove"} ELSE {"top"})
    /\ UNCHANGED <<queue, ran>> /\ CbUnchanged

(* The application's callback, run with no lock of the library held. It     *)
(* needs the application mutex.                                             *)
CbCallback ==
    /\ cb = "callback" /\ ~AppMutexHeld
    /\ cb' = "remove"
    /\ ran' = Append(ran, Head(queue).n)
    /\ UNCHANGED queue /\ CbUnchanged

CbRemove ==
    /\ cb = "remove"
    /\ queue' = Tail(queue)
    /\ cb' = IF Len(queue) = 1 THEN "top" ELSE "find"
    /\ UNCHANGED ran /\ CbUnchanged

CallbackStep == CbTop \/ CbLock \/ CbLocked2 \/ CbWake \/ CbCheck \/ CbFind
                \/ CbCallback \/ CbRemove

-----------------------------------------------------------------------------
(* rtConnection_Destroy                                                     *)

Sending(c) == pc[c] \in {"send", "reconnect"}

(* SetRunThreadsSync(con, 0), under con->mutex. Other threads may be        *)
(* waiting for a response then.                                             *)
DestroyStart ==
    /\ destroy = "no" /\ MutexFree
    /\ DestroyWhen # "never"
    /\ DestroyWhen = "quiet" => \A c \in Callers : ~Sending(c)
    /\ destroy' = "shutdown" /\ run' = FALSE
    /\ UNCHANGED <<mutex, up, reqVars, netVars, inbox, rd, cbVars>>

DestroyShutdown ==
    /\ destroy = "shutdown"
    /\ destroy' = "signal" /\ up' = FALSE /\ inbox' = <<>>
    /\ UNCHANGED <<mutex, run, reqVars, netVars, rd, cbVars>>

(* rtConnection_StopThreads: signal with callback_message_mutex held. *)
DestroySignal ==
    /\ destroy = "signal" /\ ~CbLocked
    /\ destroy' = "join"
    /\ cb' = IF cb = "wait" THEN "signaled" ELSE cb
    /\ UNCHANGED <<mutex, run, up, reqVars, netVars, inbox, rd, queue, ran>>

\* Mutant of DestroyUnblock: the pending requests are not unblocked.
DestroyUnblock_NoPost ==
    /\ destroy = "join" /\ rd.at = "exit" /\ cb = "exit" /\ MutexFree
    /\ destroy' = "done" /\ queue' = <<>> /\ pending' = {}
    /\ UNCHANGED <<mutex, run, up, seq, entry, pc, result, got, netVars, inbox, rd,
                   cb, ran>>

(* Both threads are joined; then every pending request is unblocked and     *)
(* both lists are destroyed. The callers that wake up remove themselves     *)
(* from a list that is gone, which the code's wait of a second (the "ugly   *)
(* hack") does not prevent. (The freeing of con is not modelled.)           *)
DestroyUnblock ==
    /\ destroy = "join" /\ rd.at = "exit" /\ cb = "exit" /\ MutexFree
    /\ destroy' = "done"
    /\ entry' = [c \in Callers |-> IF c \in pending
                                      THEN [entry[c] EXCEPT !.sem = @ + 1]
                                      ELSE entry[c]]
    /\ queue' = <<>> /\ pending' = {}
    /\ UNCHANGED <<mutex, run, up, seq, pc, result, got, netVars, inbox, rd,
                   cb, ran>>

DestroyStep == DestroyStart \/ DestroyShutdown \/ DestroySignal \/ DestroyUnblock

(* Everything has stopped. *)
Stopped ==
    /\ destroy = "done" /\ \A c \in Callers : pc[c] = "idle"
    /\ UNCHANGED vars

Next ==
    \/ \E c \in Callers : CallerStep(c)
    \/ Answer \/ Arrive \/ Drop
    \/ ReaderStep \/ CallbackStep \/ DestroyStep \/ Stopped

(* Every thread of the process keeps running. Nothing is assumed of the    *)
(* network, so no reconnect need succeed (the reader may stay in its own,   *)
(* retrying, as long as the threads run), of new requests or of Destroy     *)
(* being called (once called it runs on), nor of spurious wake-ups; a mutex *)
(* that is released again and again is granted in the end.                  *)
ThreadFairness ==
    /\ \A c \in Callers : /\ WF_vars(Send(c)) /\ WF_vars(CallerReconnect(c))
                          /\ WF_vars(entry[c].sem > 0 /\ Woken(c))
                          /\ WF_vars(TakeResponse(c)) /\ WF_vars(RemoveUnlocked(c))
    /\ WF_vars((rd.at # "reconnect" \/ ~run) /\ ReaderStep) /\ SF_vars(ReaderEnqueue)
    /\ WF_vars(cb # "wait" /\ CallbackStep)
    /\ WF_vars(destroy # "no" /\ DestroyStep)

(* Time passes: a timed wait ends. *)
TimeFairness == \A c \in Callers : WF_vars(TimedOut(c))

Spec == Init /\ [][Next]_vars
PatientSpec == Spec /\ ThreadFairness
FairSpec == Spec /\ ThreadFairness /\ TimeFairness

-----------------------------------------------------------------------------
(* Properties                                                               *)

(* The values every variable of struct _rtConnection and of its threads may *)
(* hold; the callback queue never grows past MAX_ALLOWED_MESSAGES + 1.      *)
TypeOK ==
    /\ mutex \in {None, "reader"} /\ run \in BOOLEAN /\ up \in BOOLEAN
    /\ seq \in Nat \ {0}
    /\ pending \subseteq Callers
    /\ entry \in [Callers -> [seq : Nat, sem : Nat, response : Response \union {None}]]
    /\ pc \in [Callers -> {"idle", "send", "reconnect", "wait", "take", "timeout"}]
    /\ result \in [Callers -> {None, "ok", "no_object", "error", "timeout", "no_connection"}]
    /\ got \in [Callers -> Response \union {None}]
    /\ wire \subseteq Request
    /\ inbox \in Seq(Response \union Event)
    /\ events \in 0..MaxEvents
    /\ rd \in [at : {"check", "read", "reconnect", "find", "attach", "enqueue", "exit"},
               msg : Response \union Event \union {None}, target : Callers \union {None}, found : Nat]
    /\ queue \in Seq(Event) /\ Len(queue) <= MaxQueue + 1
    /\ cb \in {"top", "lock", "locked", "wait", "signaled", "empty", "unlocked", "find",
              "callback", "remove", "exit"}
    /\ ran \in Seq(1..MaxEvents)
    /\ destroy \in {"no", "shutdown", "signal", "join", "done"}
    /\ drops \in 0..MaxDrops /\ calls \in 0..MaxCalls

(* Message m was numbered before s, and a request in e that has its number  *)
(* is the one it belongs to.                                                *)
Bound(m, s, e) == m.seq < s /\ \A c \in Callers : m.seq = e[c].seq => m.from = c

(* The inductive invariant behind OwnResponse: a sequence number ties every *)
(* request and response in flight to the one request that carries it.       *)
SeqInv ==
    /\ \A r \in wire : Bound(r, seq, entry)
    /\ \A i \in DOMAIN inbox : IsResponse(inbox[i]) => Bound(inbox[i], seq, entry)
    /\ rd.at \in {"find", "attach"} => Bound(rd.msg, seq, entry)
    /\ \A c \in Callers :
          /\ entry[c].seq < seq
          /\ entry[c].response # None => /\ entry[c].response.from = c
                                         /\ entry[c].response.seq = entry[c].seq
          /\ result[c] # None => pc[c] = "idle"

(* What each thread holds fits where it is: the reader holds the kind of    *)
(* message its next step expects and hands a response only to the entry    *)
(* with its number; the callback thread never walks an empty list.          *)
ThreadInv ==
    /\ rd.at \in {"find", "attach"} => rd.msg \in Response
    /\ rd.at = "attach" => rd.target \in Callers /\ rd.found = rd.msg.seq
    /\ rd.at = "enqueue" => rd.msg \in Event
    /\ cb \in {"unlocked", "find", "callback", "remove"} => queue # <<>>

(* A request that succeeds returns the response to itself: never one to     *)
(* another thread's request, nor a late one to its own earlier attempt that *)
(* timed out or was cut off by a lost connection.                           *)
OwnResponse ==
    \A c \in Callers : result[c] = "ok" => /\ got[c] # None
                                          /\ got[c].from = c
                                          /\ got[c].seq = entry[c].seq

(* Callbacks run in the order in which their messages arrived, each at most *)
(* once, although the reader appends to the list the callback thread walks. *)
InOrder == \A i, j \in DOMAIN ran : i < j => ran[i] < ran[j]

(* rtConnection_SendRequest returns, by a response, by the timeout or by an *)
(* error, if the connection, however often it was lost before, is there for *)
(* good in the end. Without one a request may go round its reconnect for    *)
(* ever, whatever its timeout: the timeout only bounds the wait.            *)
RequestEnds == <>[]up => \A c \in Callers : (pc[c] # "idle" ~> pc[c] = "idle")

(* The callback thread waits for a mutex that a waiting request holds.      *)
Blocked == cb = "callback" /\ AppMutexHeld

(* A queued message is eventually handled by the callback thread (or freed  *)
(* by Destroy): the signal to an idle callback thread is never lost, and    *)
(* only an application that blocks a callback can hold the others up.       *)
QueueDrains == queue # <<>> ~> (queue = <<>> \/ Blocked)

(* rtConnection_Destroy returns: both threads notice that they must stop,   *)
(* unless the application blocks a callback.                                *)
DestroyEnds == destroy # "no" ~> (destroy = "done" \/ Blocked)

ResponseIn(c) ==
    \E i \in DOMAIN inbox : IsResponse(inbox[i]) /\ inbox[i].seq = entry[c].seq

(* A response that is in the socket reaches the thread waiting for it, even *)
(* when that thread holds a mutex which a callback is blocked on, and even  *)
(* if no wait ever times out (the lock-up of RDKB-26837).  Once Destroy has *)
(* stopped the reader, DestroyUnblocks takes over.                          *)
ResponseReachesWaiter ==
    \A c \in Callers :
        (pc[c] = "wait" /\ up /\ ResponseIn(c)) ~> (pc[c] # "wait" \/ ~up \/ ~run)

(* rtConnection_Destroy unblocks the threads that wait for a response, even *)
(* if their waits would never time out, unless one of them holds a mutex    *)
(* that a callback is blocked on: Destroy joins the callback thread before  *)
(* it posts, so only that thread's timeout can then end its wait.           *)
DestroyUnblocks ==
    \A c \in Callers : (pc[c] = "wait" /\ destroy # "no") ~> (pc[c] # "wait" \/ Blocked)

(* While the reader hands a response over, the entry it found under         *)
(* con->mutex is still in the pending list.                                 *)
EntryLiveAtHandOver == rd.at = "attach" => TargetLive
=============================================================================
