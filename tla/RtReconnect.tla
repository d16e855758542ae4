----------------------------- MODULE RtReconnect -----------------------------
(***************************************************************************)
(* How the threads of a connection notice that the router is gone and      *)
(* reconnect (rtConnection_ConnectAndRegister and its callers in           *)
(* src/rtmessage/rtConnection.c).  The reader thread and any number of     *)
(* application threads find the socket dead; the first to take the flag    *)
(* reconnect_in_progress makes a new socket, connects and registers the    *)
(* listeners again, the others wait for the flag to clear.                 *)
(*                                                                         *)
(* Times are only ever compared with con->reconnect_time, which its owner  *)
(* sets to the current time: "fresh" says whether sender_reconnect_time    *)
(* (one field for all senders) and reader_reconnect_time are later.        *)
(***************************************************************************)
EXTENDS Integers, FiniteSets

CONSTANTS
    Senders,       \* application threads
    Listeners,     \* indices of the listeners array
    Kept,          \* the listeners that are never removed
    MaxOps,        \* bound: calls of the senders
    MaxLosses,     \* bound: times the router goes away
    MaxSockFails   \* bound: times socket() or fcntl() fails

ASSUME ReconnectAssumption ==
    /\ MaxOps \in Nat /\ MaxLosses \in Nat /\ MaxSockFails \in Nat
    /\ Listeners \subseteq Nat /\ Kept \subseteq Listeners
    /\ "reader" \notin Senders

Threads == Senders \union {"reader"}

VARIABLES
    router,   \* the router is running
    fd,       \* con->fd: "none" (-1), "new" (never connected), "linked" or
              \* "lost" (its router is gone)
    flag,     \* con->reconnect_in_progress
    fresh,    \* fresh.send, fresh.read: see above
    in_use,   \* the listeners in use
    view,     \* the listeners the router has a route for
    at,       \* where each thread is
    op,       \* what each sender wants to send: [kind, l]
    todo,     \* listeners a reconnecting thread has still to look at
    ended,    \* how the last call of each sender ended
    ops, losses, sockFails

vars == <<router, fd, flag, fresh, in_use, view, at, op, todo, ended, ops, losses, sockFails>>
bounds == <<ops, losses, sockFails>>

NoOp == [kind |-> "none", l |-> 0]

Goto(t, where) == at' = [at EXCEPT ![t] = where]

Init ==
    /\ router = TRUE /\ fd = "linked" /\ flag = FALSE
    /\ fresh = [send |-> FALSE, read |-> FALSE]
    /\ in_use = Kept /\ view = Kept
    /\ at = [t \in Threads |-> IF t = "reader" THEN "top" ELSE "idle"]
    /\ op = [s \in Senders |-> NoOp]
    /\ todo = {} /\ ended = [s \in Senders |-> "none"]
    /\ ops = 0 /\ losses = 0 /\ sockFails = 0

-----------------------------------------------------------------------------
(* The environment *)

(* The router stops; it forgets its clients and their routes. *)
Lose ==
    /\ router /\ losses < MaxLosses
    /\ router' = FALSE /\ losses' = losses + 1
    /\ fd' = IF fd = "linked" THEN "lost" ELSE fd
    /\ view' = {}
    /\ UNCHANGED <<flag, fresh, in_use, at, op, todo, ended, ops, sockFails>>

Restart ==
    /\ ~router /\ router' = TRUE
    /\ UNCHANGED <<fd, flag, fresh, in_use, view, at, op, todo, ended, bounds>>

-----------------------------------------------------------------------------
(* Senders: rtConnection_SendMessageDirect, alone or from AddListenerWithId *)
(* and RemoveListenerWithId, which first change the listeners array. The    *)
(* loop of rtConnection_SendRequestInternal is the same up to its wait.     *)

Start(s, kind, l) ==
    /\ at[s] = "idle" /\ ops < MaxOps
    /\ ops' = ops + 1
    /\ op' = [op EXCEPT ![s] = [kind |-> kind, l |-> l]]
    /\ ended' = [ended EXCEPT ![s] = "none"]
    /\ Goto(s, "stamp")
    /\ UNCHANGED <<router, fd, flag, fresh, view, todo, losses, sockFails>>

(* One listener is not added and removed by two threads at a time. *)
Free(l) == \A s \in Senders : at[s] # "idle" => op[s].l # l

\* Mutant of AddListener: the slot past the one that was found free is taken.
AddListener_PastEnd(s, l) ==
    Free(l) /\ l \notin in_use /\ in_use' = in_use \union {l + 1} /\ Start(s, "add", l)

AddListener(s, l) == Free(l) /\ l \notin in_use /\ in_use' = in_use \union {l} /\ Start(s, "add", l)
RemoveListener(s, l) == Free(l) /\ l \in in_use \ Kept /\ in_use' = in_use \ {l} /\ Start(s, "remove", l)
SendMessage(s) == UNCHANGED in_use /\ Start(s, "message", 0)

\* Mutant of Stamp: the time is taken only while the connection stands.
Stamp_Connected(s) ==
    /\ at[s] = "stamp"
    /\ fresh' = [fresh EXCEPT !.send = @ \/ fd = "linked"]
    /\ Goto(s, "send")
    /\ UNCHANGED <<router, fd, flag, in_use, view, op, todo, ended, bounds>>

(* rtTime_Now(&con->sender_reconnect_time), once a call *)
Stamp(s) ==
    /\ at[s] = "stamp"
    /\ fresh' = [fresh EXCEPT !.send = TRUE]
    /\ Goto(s, "send")
    /\ UNCHANGED <<router, fd, flag, in_use, view, op, todo, ended, bounds>>

(* rtConnection_SendInternal under con->mutex: a socket that is not         *)
(* connected leads to ConnectAndRegister, no socket at all is an error.     *)
Send(s) ==
    /\ at[s] = "send"
    /\ CASE fd = "linked" ->
              /\ view' = CASE op[s].kind = "add" -> view \union {op[s].l}
                           [] op[s].kind = "remove" -> view \ {op[s].l}
                           [] OTHER -> view
              /\ Goto(s, "idle") /\ ended' = [ended EXCEPT ![s] = "ok"]
         [] fd \in {"new", "lost"} -> Goto(s, "enter") /\ UNCHANGED <<view, ended>>
         [] OTHER -> Goto(s, "idle") /\ ended' = [ended EXCEPT ![s] = "error"] /\ UNCHANGED view
    /\ UNCHANGED <<router, fd, flag, fresh, in_use, op, todo, bounds>>

-----------------------------------------------------------------------------
(* The reader: rtConnection_ReaderThread *)

ReaderTop ==
    /\ at["reader"] = "top"
    /\ fresh' = [fresh EXCEPT !.read = TRUE]
    /\ Goto("reader", "read")
    /\ UNCHANGED <<router, fd, flag, in_use, view, op, todo, ended, bounds>>

(* rtConnection_Read fails. ENOTCONN, from a socket whose router is gone,   *)
(* leads to ConnectAndRegister; any other error is swallowed, and the       *)
(* reader reads again: EBADF without a socket, and EINVAL from a unix       *)
(* socket (the default) that was never connected. On a new socket recv may  *)
(* also give ENOTCONN: over TCP, or when it still waits on the socket that  *)
(* the new one replaces.                                                    *)
ReaderFails ==
    /\ at["reader"] = "read"
    /\ \/ fd \in {"lost", "new"} /\ Goto("reader", "enter")
       \/ fd \in {"none", "new"} /\ Goto("reader", "top")
    /\ UNCHANGED <<router, fd, flag, fresh, in_use, view, op, todo, ended, bounds>>

(* After a failed reconnect: sleep, take a new time and try again. *)
ReaderRetries ==
    /\ at["reader"] = "sleep"
    /\ fresh' = [fresh EXCEPT !.read = TRUE]
    /\ Goto("reader", "enter")
    /\ UNCHANGED <<router, fd, flag, in_use, view, op, todo, ended, bounds>>

-----------------------------------------------------------------------------
(* rtConnection_ConnectAndRegister, called by thread t *)

(* RT_OK: the sender sends again, the reader reads again. *)
ReturnOk(t) == Goto(t, IF t = "reader" THEN "top" ELSE "send") /\ UNCHANGED ended

(* Any other result: the sender's call fails, the reader tries again. *)
ReturnError(t) ==
    /\ Goto(t, IF t = "reader" THEN "sleep" ELSE "idle")
    /\ ended' = [s \in Senders |-> IF s = t THEN "error" ELSE ended[s]]

IsFresh(t) == IF t = "reader" THEN fresh.read ELSE fresh.send

\* Mutant of Enter: neither the flag nor the time is tested.
Enter_NoFlag(t) ==
    /\ at[t] = "enter"
    /\ flag' = TRUE /\ fresh' = [send |-> FALSE, read |-> FALSE] /\ Goto(t, "socket")
    /\ UNCHANGED <<router, fd, in_use, view, op, todo, ended, bounds>>

(* Without a socket the call counts as a first connect, and takes no flag.  *)
(* Otherwise, under reconnect_mutex: take the flag if nobody has it and the *)
(* caller's time is later than the last reconnect.                          *)
Enter(t) ==
    /\ at[t] = "enter"
    /\ CASE fd = "none" ->
              Goto(t, "first") /\ fresh' = [send |-> FALSE, read |-> FALSE] /\ UNCHANGED flag
         [] fd # "none" /\ ~flag /\ IsFresh(t) ->
              flag' = TRUE /\ fresh' = [send |-> FALSE, read |-> FALSE] /\ Goto(t, "socket")
         [] OTHER -> Goto(t, "spin") /\ UNCHANGED <<flag, fresh>>
    /\ UNCHANGED <<router, fd, in_use, view, op, todo, ended, bounds>>

(* while (con->reconnect_in_progress) usleep: RT_OK however it ended.  The  *)
(* thread that registers the listeners again may itself end up here.        *)
Spin(t) ==
    /\ at[t] \in {"spin", "selfspin"} /\ ~flag
    /\ IF at[t] = "spin" THEN ReturnOk(t) ELSE Goto(t, "resend") /\ UNCHANGED ended
    /\ UNCHANGED <<router, fd, flag, fresh, in_use, view, op, todo, bounds>>

(* The old socket is closed, and with it the routes at the router go. When  *)
(* socket() or fcntl() fails the flag stays set; after the latter there is  *)
(* a socket.                                                                *)
Socket(t) ==
    /\ at[t] \in {"socket", "first"}
    /\ view' = {}
    /\ \/ /\ fd' = "new"
          /\ Goto(t, IF at[t] = "first" THEN "connect1" ELSE "connect")
          /\ UNCHANGED <<ended, sockFails>>
       \/ /\ sockFails < MaxSockFails /\ sockFails' = sockFails + 1
          /\ fd' \in {"none", "new"}
          /\ ReturnError(t)
    /\ UNCHANGED <<router, flag, fresh, in_use, op, todo, ops, losses>>

\* Mutant of Connect: the flag stays set when all attempts fail.
Connect_KeepFlag(t) ==
    /\ at[t] \in {"connect", "connect1"}
    /\ \/ /\ ~router
          /\ ReturnError(t)
          /\ UNCHANGED <<fd, flag, todo>>
       \/ /\ router /\ fd' = "linked"
          /\ IF at[t] = "connect1"
             THEN flag' = FALSE /\ ReturnOk(t) /\ UNCHANGED todo
             ELSE todo' = Listeners /\ Goto(t, "readd") /\ UNCHANGED <<flag, ended>>
    /\ UNCHANGED <<router, fresh, in_use, view, op, bounds>>

(* connect() succeeds when the router runs; while it does not, the thread   *)
(* tries again (no step) or has used up max_retries.  A first connect ends  *)
(* here.                                                                    *)
Connect(t) ==
    /\ at[t] \in {"connect", "connect1"}
    /\ \/ /\ ~router
          /\ flag' = FALSE /\ ReturnError(t)
          /\ UNCHANGED <<fd, todo>>
       \/ /\ router /\ fd' = "linked"
          /\ IF at[t] = "connect1"
             THEN flag' = FALSE /\ ReturnOk(t) /\ UNCHANGED todo
             ELSE todo' = Listeners /\ Goto(t, "readd") /\ UNCHANGED <<flag, ended>>
    /\ UNCHANGED <<router, fresh, in_use, view, op, bounds>>

Least(l) == l \in todo /\ \A k \in todo : l <= k

\* Mutant of Readd: the last listener of the array is left out.
Readd_OffByOne(t) ==
    /\ at[t] = "readd"
    /\ IF Cardinality(todo) <= 1
       THEN flag' = FALSE /\ todo' = {} /\ ReturnOk(t)
       ELSE /\ \E l \in todo : Least(l) /\
                 IF l \in in_use THEN Goto(t, "resend") /\ UNCHANGED todo
                                 ELSE todo' = todo \ {l} /\ UNCHANGED at
            /\ UNCHANGED <<flag, ended>>
    /\ UNCHANGED <<router, fd, fresh, in_use, view, op, bounds>>

(* The next listener is looked at, without con->mutex; after the last, the  *)
(* flag is cleared.                                                         *)
Readd(t) ==
    /\ at[t] = "readd"
    /\ \/ \E l \in todo :
            /\ Least(l)
            /\ IF l \in in_use THEN Goto(t, "resend") /\ UNCHANGED todo
                              ELSE todo' = todo \ {l} /\ UNCHANGED at
            /\ UNCHANGED <<flag, ended>>
       \/ /\ todo = {}
          /\ flag' = FALSE /\ ReturnOk(t) /\ UNCHANGED todo
    /\ UNCHANGED <<router, fd, fresh, in_use, view, op, bounds>>

(* rtConnection_SendMessage with the expression of that listener.  It takes *)
(* a new sender_reconnect_time; when the new connection is lost already it  *)
(* calls ConnectAndRegister, which finds the flag set and waits for it.     *)
Resend(t) ==
    /\ at[t] = "resend"
    /\ fresh' = [fresh EXCEPT !.send = TRUE]
    /\ IF fd = "linked"
       THEN /\ \E l \in todo : Least(l) /\ view' = view \union {l} /\ todo' = todo \ {l}
            /\ Goto(t, "readd")
       ELSE Goto(t, "selfspin") /\ UNCHANGED <<view, todo>>
    /\ UNCHANGED <<router, fd, flag, in_use, op, ended, bounds>>

-----------------------------------------------------------------------------
Reconnect(t) == Enter(t) \/ Spin(t) \/ Socket(t) \/ Connect(t) \/ Readd(t) \/ Resend(t)

SenderStep(s) == Stamp(s) \/ Send(s) \/ Reconnect(s)
ReaderStep == ReaderTop \/ ReaderFails \/ ReaderRetries \/ Reconnect("reader")

NewCall(s) == SendMessage(s) \/ \E l \in Listeners : AddListener(s, l) \/ RemoveListener(s, l)

(* Nothing to do: the reader waits for messages. *)
Idle ==
    /\ fd = "linked" /\ at["reader"] = "read" /\ \A s \in Senders : at[s] = "idle"
    /\ UNCHANGED vars

Next ==
    \/ Lose \/ Restart
    \/ \E s \in Senders : NewCall(s) \/ SenderStep(s)
    \/ ReaderStep \/ Idle

Spec == Init /\ [][Next]_vars

(* Every thread keeps running, and the router comes back when it stopped.   *)
FairSpec ==
    /\ Spec
    /\ WF_vars(ReaderStep) /\ \A s \in Senders : WF_vars(SenderStep(s))
    /\ WF_vars(Restart)

-----------------------------------------------------------------------------
(* Properties                                                               *)

Places == {"top", "read", "sleep", "idle", "stamp", "send", "enter", "spin", "first",
           "socket", "connect1", "connect", "readd", "resend", "selfspin"}

(* The values of the connection's fields and of the threads. *)
TypeOK ==
    /\ router \in BOOLEAN /\ fd \in {"none", "new", "lost", "linked"} /\ flag \in BOOLEAN
    /\ fresh \in [send : BOOLEAN, read : BOOLEAN]
    /\ in_use \subseteq Listeners /\ view \subseteq Listeners /\ todo \subseteq Listeners
    /\ at \in [Threads -> Places]
    /\ op \in [Senders -> [kind : {"none", "message", "add", "remove"}, l : Listeners \union {0}]]
    /\ ended \in [Senders -> {"none", "ok", "error"}]
    /\ ops \in 0..MaxOps /\ losses \in 0..MaxLosses /\ sockFails \in 0..MaxSockFails

Owner(t) == at[t] \in {"first", "socket", "connect1", "connect", "readd", "resend", "selfspin"}

(* One thread at a time replaces the socket: no thread closes the socket    *)
(* another one is connecting or registering listeners on.  The flag is set  *)
(* exactly while there is such a thread.  All this until socket() or        *)
(* fcntl() fails, which leaves the flag set.                                *)
Exclusive ==
    /\ \A t, u \in Threads : Owner(t) /\ Owner(u) => t = u
    /\ flag <=> \E t \in Threads : Owner(t)
OneReconnects == sockFails = 0 => Exclusive

(* When the connection stands and nobody is working on it, the router has a *)
(* route for every listener that is not being added (until socket() or      *)
(* fcntl() fails: the next connect may then count as the first and add      *)
(* none).                                                                   *)
Adding(l) == \E s \in Senders : at[s] # "idle" /\ op[s].kind = "add" /\ op[s].l = l
ListenersRegistered ==
    (fd = "linked" /\ ~flag /\ sockFails = 0) => \A l \in in_use : l \in view \/ Adding(l)

(* The connection is restored once the router is back, whoever of the       *)
(* reader and the senders notices the loss, and whoever waits for whom,     *)
(* unless a sender used up its attempts and its call has said so: that      *)
(* leaves a socket the reader does not take for lost (CallRecovers says     *)
(* what restores it). socket() or fcntl() failing is excepted too: it       *)
(* leaves the flag set for those who wait.                                  *)
Failed == \E s \in Senders : ended[s] = "error"
Recovers == fd # "linked" ~> (fd = "linked" \/ Failed \/ sockFails > 0)

(* Whatever failed before, a call that begins while the router runs         *)
(* restores the connection (again until socket() or fcntl() fails): its     *)
(* time is later than the last reconnect unless another thread takes the    *)
(* flag after it.                                                           *)
CallRecovers ==
    \A s \in Senders :
        (at[s] = "stamp" /\ router) ~> (fd = "linked" \/ ~router \/ sockFails > 0)

(* A call returns, or at least the connection it waits for is restored:     *)
(* what a request with a timeout promises whoever waits for it              *)
(* (rbus_invokeRemoteMethod). A sender that waited for another one's failed *)
(* attempt goes round instead, even when the router is back: its time is    *)
(* not later than that attempt, and the reader does not take the socket     *)
(* left behind for lost.                                                    *)
CallEnds == \A s \in Senders : at[s] # "idle" ~> (at[s] = "idle" \/ fd = "linked")
=============================================================================
