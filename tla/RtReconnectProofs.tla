------------------------- MODULE RtReconnectProofs -------------------------
(* One thread at a time reconnects, and no listener is forgotten, for any   *)
(* number of senders, listeners, calls and losses, until socket() or        *)
(* fcntl() fails.                                                           *)
EXTENDS RtReconnect, TLAPS

(* Exclusive is inductive until socket() or fcntl() fails, once it is known *)
(* that there is a socket (so that no call counts as a first connect, which *)
(* takes no flag).                                                          *)
Core ==
    /\ at \in [Threads -> Places]
    /\ fd # "none" /\ sockFails = 0
    /\ \A t \in Threads : at[t] \notin {"first", "connect1"}
    /\ Exclusive

LEMMA ReconnectInit == Init => Core
<1> SUFFICES ASSUME Init PROVE Core
  OBVIOUS
<1>1. \A t \in Threads : at[t] \in {"top", "idle"}
  BY DEF Init
<1> QED
  BY <1>1 DEF Init, Core, Exclusive, Owner, Places

(* A thread that was not the owner moves to a place that is not the owner's. *)
LEMMA Moves ==
  ASSUME Core, NEW t \in Threads, NEW w \in Places, ~Owner(t), Goto(t, w), UNCHANGED flag,
         fd' # "none", sockFails' = 0,
         w \notin {"first", "socket", "connect1", "connect", "readd", "resend", "selfspin"}
  PROVE  Core'
<1>1. /\ at' \in [Threads -> Places]
      /\ \A u \in Threads : at'[u] = IF u = t THEN w ELSE at[u]
  BY DEF Core, Goto
<1>2. \A u \in Threads : Owner(u)' <=> Owner(u)
  BY <1>1 DEF Owner
<1> QED
  BY <1>1, <1>2 DEF Core, Exclusive

(* The owner moves on, and stays the owner. *)
LEMMA OwnerMoves ==
  ASSUME Core, NEW t \in Threads, NEW w \in {"socket", "connect", "readd", "resend", "selfspin"},
         Owner(t), Goto(t, w), UNCHANGED flag, fd' # "none", sockFails' = 0
  PROVE  Core'
<1>1. /\ at' \in [Threads -> Places]
      /\ \A u \in Threads : at'[u] = IF u = t THEN w ELSE at[u]
  BY DEF Core, Goto, Places
<1>2. \A u \in Threads : Owner(u)' <=> Owner(u)
  BY <1>1 DEF Owner
<1> QED
  BY <1>1, <1>2 DEF Core, Exclusive

(* The owner clears the flag and leaves. *)
LEMMA OwnerLeaves ==
  ASSUME Core, NEW t \in Threads, NEW w \in {"top", "send", "sleep", "idle"},
         Owner(t), Goto(t, w), flag' = FALSE, fd' # "none", sockFails' = 0
  PROVE  Core'
<1>1. /\ at' \in [Threads -> Places]
      /\ \A u \in Threads : at'[u] = IF u = t THEN w ELSE at[u]
  BY DEF Core, Goto, Places
<1>2. \A u \in Threads : ~Owner(u)'
  BY <1>1 DEF Owner, Core, Exclusive
<1> QED
  BY <1>1, <1>2 DEF Core, Exclusive

LEMMA ReconnectKeeps ==
  ASSUME Core, NEW t \in Threads, Reconnect(t), sockFails' = 0
  PROVE  Core'
<1>1. CASE Enter(t)
  <2>1. CASE ~flag /\ IsFresh(t)
    <3>1. flag' /\ Goto(t, "socket") /\ UNCHANGED <<fd, sockFails>>
      BY <1>1, <2>1 DEF Enter, Core, bounds
    <3>2. /\ at' \in [Threads -> Places]
          /\ \A u \in Threads : at'[u] = IF u = t THEN "socket" ELSE at[u]
      BY <3>1 DEF Core, Goto, Places
    <3>3. \A u \in Threads : Owner(u)' <=> u = t
      BY <3>2, <2>1 DEF Owner, Core, Exclusive
    <3> QED
      BY <3>1, <3>2, <3>3 DEF Core, Exclusive
  <2>2. CASE ~(~flag /\ IsFresh(t))
    <3>1. Goto(t, "spin") /\ UNCHANGED <<flag, fd, sockFails>> /\ ~Owner(t)
      BY <1>1, <2>2 DEF Enter, Core, bounds, Owner
    <3> QED
      BY <3>1, Moves DEF Places, Core
  <2> QED
    BY <2>1, <2>2
<1>2. CASE Spin(t)
  <2>1. ~Owner(t)
    BY <1>2 DEF Spin, Core, Exclusive
  <2>2. \E w \in {"top", "send"} : Goto(t, w)
    BY <1>2, <2>1 DEF Spin, ReturnOk, Owner
  <2> QED
    BY <1>2, <2>1, <2>2, Moves DEF Spin, Places, Core, bounds
<1>3. CASE Socket(t)
  <2>1. fd' = "new" /\ Goto(t, "connect") /\ UNCHANGED <<flag, sockFails>> /\ Owner(t)
    BY <1>3 DEF Socket, Core, Owner
  <2> QED
    BY <2>1, OwnerMoves DEF Core
<1>4. CASE Connect(t)
  <2>1. Owner(t) /\ at[t] = "connect" /\ fd' # "none" /\ sockFails' = sockFails
    BY <1>4 DEF Connect, Core, Owner, bounds
  <2>2. CASE router
    BY <1>4, <2>1, <2>2, OwnerMoves DEF Connect, Core
  <2>3. CASE ~router
    <3>1. flag' = FALSE /\ \E w \in {"sleep", "idle"} : Goto(t, w)
      BY <1>4, <2>3 DEF Connect, ReturnError
    <3> QED
      BY <2>1, <3>1, OwnerLeaves, ZenonT(40) DEF Core
  <2> QED
    BY <2>2, <2>3
<1>5. CASE Readd(t)
  <2>1. Owner(t) /\ fd' # "none" /\ sockFails' = sockFails
    BY <1>5 DEF Readd, Owner, Core, bounds
  <2>2. CASE Goto(t, "resend") /\ UNCHANGED flag
    BY <2>1, <2>2, OwnerMoves DEF Core
  <2>3. CASE UNCHANGED <<at, flag>>
    BY <2>1, <2>3 DEF Core, Exclusive, Owner
  <2>4. CASE flag' = FALSE /\ ReturnOk(t)
    <3>1. \E w \in {"top", "send"} : Goto(t, w)
      BY <2>4 DEF ReturnOk
    <3> QED
      BY <2>1, <2>4, <3>1, OwnerLeaves, ZenonT(40) DEF Core
  <2> QED
    BY <1>5, <2>2, <2>3, <2>4, ZenonT(40) DEF Readd
<1>6. CASE Resend(t)
  <2>1. Owner(t) /\ fd' # "none" /\ sockFails' = sockFails /\ UNCHANGED flag
    BY <1>6 DEF Resend, Owner, Core, bounds
  <2>2. \E w \in {"readd", "selfspin"} : Goto(t, w)
    BY <1>6 DEF Resend
  <2> QED
    BY <2>1, <2>2, OwnerMoves DEF Core
<1> QED
  BY <1>1, <1>2, <1>3, <1>4, <1>5, <1>6 DEF Reconnect

LEMMA CoreStep == ASSUME Core, [Next]_vars, sockFails' = 0 PROVE Core'
<1>1. CASE Lose
  BY <1>1 DEF Lose, Core, Exclusive, Owner
<1>2. CASE Restart \/ Idle \/ UNCHANGED vars
  BY <1>2 DEF Restart, Idle, vars, bounds, Core, Exclusive, Owner
<1>3. ASSUME NEW s \in Senders, NewCall(s) PROVE Core'
  <2>1. \E k, l : Start(s, k, l)
    BY <1>3 DEF NewCall, SendMessage, AddListener, RemoveListener
  <2>2. Goto(s, "stamp") /\ UNCHANGED <<fd, flag, sockFails>> /\ at[s] = "idle"
    BY <2>1 DEF Start
  <2> QED
    BY <2>2, Moves DEF Core, Owner, Places, Threads
<1>4. ASSUME NEW s \in Senders, SenderStep(s) PROVE Core'
  <2>1. CASE Reconnect(s)
    BY <2>1, ReconnectKeeps DEF Threads
  <2>2. CASE Stamp(s) \/ Send(s)
    <3>1. /\ at[s] \in {"stamp", "send"} /\ UNCHANGED <<fd, flag, sockFails>>
          /\ \E w \in {"send", "idle", "enter"} : Goto(s, w)
      BY <2>2 DEF Stamp, Send, bounds
    <3> QED
      BY <3>1, Moves DEF Core, Owner, Places, Threads
  <2> QED
    BY <1>4, <2>1, <2>2 DEF SenderStep
<1>5. CASE ReaderStep
  <2>1. CASE Reconnect("reader")
    BY <2>1, ReconnectKeeps DEF Threads
  <2>2. CASE ReaderTop \/ ReaderFails \/ ReaderRetries
    <3>1. /\ at["reader"] \in {"top", "read", "sleep"} /\ UNCHANGED <<fd, flag, sockFails>>
          /\ \E w \in {"top", "read", "enter"} : Goto("reader", w)
      BY <2>2 DEF ReaderTop, ReaderFails, ReaderRetries, bounds
    <3> QED
      BY <3>1, Moves DEF Core, Owner, Places, Threads
  <2> QED
    BY <1>5, <2>1, <2>2 DEF ReaderStep
<1> QED
  BY <1>1, <1>2, <1>3, <1>4, <1>5 DEF Next

IInv == sockFails \in Nat /\ (sockFails = 0 => Core)

LEMMA ReconnectStep == IInv /\ [Next]_vars => IInv'
<1> SUFFICES ASSUME IInv, [Next]_vars PROVE IInv'
  OBVIOUS
<1>1. sockFails' \in {sockFails, sockFails + 1}
  <2>1. \A t \in Threads : Reconnect(t) => sockFails' \in {sockFails, sockFails + 1}
    BY DEF Reconnect, Enter, Spin, Socket, Connect, Readd, Resend, bounds
  <2>2. \A s \in Senders : NewCall(s) \/ Stamp(s) \/ Send(s) => sockFails' = sockFails
    BY DEF NewCall, SendMessage, AddListener, RemoveListener, Start, Stamp, Send, bounds
  <2>3. ReaderTop \/ ReaderFails \/ ReaderRetries => sockFails' = sockFails
    BY DEF ReaderTop, ReaderFails, ReaderRetries, bounds
  <2>4. Lose \/ Restart \/ Idle \/ UNCHANGED vars => sockFails' = sockFails
    BY DEF Lose, Restart, Idle, vars, bounds
  <2> QED
    BY <2>1, <2>2, <2>3, <2>4 DEF Next, SenderStep, ReaderStep, Threads
<1>2. sockFails' = 0 => sockFails = 0
  BY <1>1 DEF IInv
<1>3. sockFails' = 0 => Core'
  BY <1>2, CoreStep DEF IInv
<1> QED
  BY <1>1, <1>3 DEF IInv

(* Until socket() or fcntl() fails, reconnect_in_progress is set exactly    *)
(* while one thread is replacing the socket, and never two threads do: a    *)
(* thread can not close the socket under another one's connect or           *)
(* registration.                                                            *)
THEOREM OneReconnectsAlways == Spec => []OneReconnects
<1>1. Init => IInv
  BY ReconnectInit DEF IInv, Init
<1>2. IInv => OneReconnects
  BY DEF IInv, Core, OneReconnects
<1> QED
  BY <1>1, <1>2, ReconnectStep, PTL DEF Spec

-----------------------------------------------------------------------------
(* The types, one group of variables at a time.  A call that adds or        *)
(* removes a listener is about a listener.                                  *)
FlagType ==
    /\ router \in BOOLEAN /\ flag \in BOOLEAN
    /\ fresh \in [send : BOOLEAN, read : BOOLEAN]
PlaceType == at \in [Threads -> Places] /\ fd \in {"none", "new", "lost", "linked"}
OpType ==
    /\ op \in [Senders -> [kind : {"none", "message", "add", "remove"}, l : Listeners \union {0}]]
    /\ \A s \in Senders : op[s].kind \in {"add", "remove"} => op[s].l \in Listeners
    /\ ended \in [Senders -> {"none", "ok", "error"}]
SetType == in_use \subseteq Listeners /\ view \subseteq Listeners /\ todo \subseteq Listeners
CountType == ops \in 0..MaxOps /\ losses \in 0..MaxLosses /\ sockFails \in 0..MaxSockFails

RType == FlagType /\ PlaceType /\ OpType /\ SetType /\ CountType

LEMMA ReconnectTypeInit == Init => RType
<1> SUFFICES ASSUME Init PROVE RType
  OBVIOUS
<1>1. FlagType
  <2>1. [send |-> FALSE, read |-> FALSE] \in [send : BOOLEAN, read : BOOLEAN]
    BY Zenon
  <2> QED
    BY Zenon, <2>1 DEF Init, FlagType
<1>2. PlaceType
  BY DEF Init, PlaceType, Places
<1>3. OpType
  BY DEF Init, OpType, NoOp
<1>4. SetType /\ CountType
  BY ReconnectAssumption DEF Init, SetType, CountType
<1> QED
  BY <1>1, <1>2, <1>3, <1>4 DEF RType

LEMMA FlagTypeStep == FlagType /\ [Next]_vars => FlagType'
<1> SUFFICES ASSUME FlagType, [Next]_vars PROVE FlagType'
  OBVIOUS
<1> USE DEF FlagType
<1>1. ASSUME NEW t \in Threads, Reconnect(t) PROVE FlagType'
  <2>1. flag' = flag \/ flag' = TRUE \/ flag' = FALSE
    BY ZenonT(60), <1>1 DEF Reconnect, Enter, Spin, Socket, Connect, Readd, Resend
  <2>2. router' = router
    BY ZenonT(60), <1>1 DEF Reconnect, Enter, Spin, Socket, Connect, Readd, Resend
  <2>3. \/ fresh' = fresh \/ fresh' = [send |-> FALSE, read |-> FALSE]
        \/ fresh' = [fresh EXCEPT !.send = TRUE]
    BY ZenonT(60), <1>1 DEF Reconnect, Enter, Spin, Socket, Connect, Readd, Resend
  <2>4. fresh' \in [send : BOOLEAN, read : BOOLEAN]
    <3>1. [send |-> FALSE, read |-> FALSE] \in [send : BOOLEAN, read : BOOLEAN]
      BY Zenon
    <3>2. [fresh EXCEPT !.send = TRUE] \in [send : BOOLEAN, read : BOOLEAN]
      BY Zenon
    <3> QED
      BY Zenon, <2>3, <3>1, <3>2
  <2> QED
    BY ZenonT(60), <2>1, <2>2, <2>4
<1>2. ASSUME NEW s \in Senders, NewCall(s) \/ Stamp(s) \/ Send(s) PROVE FlagType'
  <2>1. UNCHANGED <<router, flag>> /\ (fresh' = fresh \/ fresh' = [fresh EXCEPT !.send = TRUE])
    BY ZenonT(60), <1>2 DEF NewCall, SendMessage, AddListener, RemoveListener, Start, Stamp, Send
  <2> QED
    BY ZenonT(60), <2>1
<1>3. ASSUME ReaderTop \/ ReaderFails \/ ReaderRetries PROVE FlagType'
  <2>1. UNCHANGED <<router, flag>> /\ (fresh' = fresh \/ fresh' = [fresh EXCEPT !.read = TRUE])
    BY ZenonT(60), <1>3 DEF ReaderTop, ReaderFails, ReaderRetries
  <2> QED
    BY ZenonT(60), <2>1
<1>4. ASSUME Lose \/ Restart \/ Idle \/ UNCHANGED vars PROVE FlagType'
  BY ZenonT(60), <1>4 DEF Lose, Restart, Idle, vars
<1> QED
  BY <1>1, <1>2, <1>3, <1>4 DEF Next, SenderStep, ReaderStep, Threads

LEMMA PlaceTypeStep == PlaceType /\ [Next]_vars => PlaceType'
<1> SUFFICES ASSUME PlaceType, [Next]_vars PROVE PlaceType'
  OBVIOUS
<1> USE DEF PlaceType
<1>0. ASSUME NEW t \in Threads, NEW w \in Places, Goto(t, w) PROVE at' \in [Threads -> Places]
  BY <1>0 DEF Goto
<1>1. ASSUME NEW t \in Threads, Reconnect(t) PROVE PlaceType'
  <2>1. at' = at \/ \E w \in Places : Goto(t, w)
    BY <1>1 DEF Reconnect, Enter, Spin, Socket, Connect, Readd, Resend, ReturnOk, ReturnError,
       Places
  <2>2. fd' = fd \/ fd' \in {"none", "new", "lost", "linked"}
    BY <1>1 DEF Reconnect, Enter, Spin, Socket, Connect, Readd, Resend
  <2> QED
    BY <1>0, <2>1, <2>2
<1>2. ASSUME NEW s \in Senders, NewCall(s) \/ Stamp(s) \/ Send(s) PROVE PlaceType'
  <2>1. fd' = fd /\ \E w \in {"stamp", "send", "idle", "enter"} : Goto(s, w)
    BY <1>2 DEF NewCall, SendMessage, AddListener, RemoveListener, Start, Stamp, Send
  <2> QED
    BY <1>0, <2>1 DEF Threads, Places
<1>3. ASSUME ReaderTop \/ ReaderFails \/ ReaderRetries PROVE PlaceType'
  <2>1. fd' = fd /\ \E w \in {"top", "read", "enter"} : Goto("reader", w)
    BY <1>3 DEF ReaderTop, ReaderFails, ReaderRetries
  <2> QED
    BY <1>0, <2>1 DEF Threads, Places
<1>4. ASSUME Lose \/ Restart \/ Idle \/ UNCHANGED vars PROVE PlaceType'
  BY <1>4 DEF Lose, Restart, Idle, vars
<1> QED
  BY <1>1, <1>2, <1>3, <1>4 DEF Next, SenderStep, ReaderStep, Threads

LEMMA OpTypeStep == OpType /\ [Next]_vars => OpType'
<1> SUFFICES ASSUME OpType, [Next]_vars PROVE OpType'
  OBVIOUS
<1> USE DEF OpType
<1>1. ASSUME NEW t \in Threads, Reconnect(t) PROVE OpType'
  <2>1. op' = op
    BY <1>1 DEF Reconnect, Enter, Spin, Socket, Connect, Readd, Resend
  <2>2. \/ ended' = ended
        \/ ended' = [s \in Senders |-> IF s = t THEN "error" ELSE ended[s]]
    BY <1>1 DEF Reconnect, Enter, Spin, Socket, Connect, Readd, Resend, ReturnOk, ReturnError
  <2> QED
    BY <2>1, <2>2
<1>2. ASSUME NEW s \in Senders, NewCall(s) PROVE OpType'
  <2>1. PICK k \in {"message", "add", "remove"}, l \in Listeners \union {0} :
          /\ k \in {"add", "remove"} => l \in Listeners
          /\ op' = [op EXCEPT ![s] = [kind |-> k, l |-> l]]
          /\ ended' = [ended EXCEPT ![s] = "none"]
    BY <1>2 DEF NewCall, SendMessage, AddListener, RemoveListener, Start
  <2> QED
    BY <2>1
<1>3. ASSUME NEW s \in Senders, Stamp(s) \/ Send(s) PROVE OpType'
  BY <1>3 DEF Stamp, Send
<1>4. ASSUME ReaderTop \/ ReaderFails \/ ReaderRetries \/ Lose \/ Restart \/ Idle \/ UNCHANGED vars
      PROVE  OpType'
  BY <1>4 DEF ReaderTop, ReaderFails, ReaderRetries, Lose, Restart, Idle, vars
<1> QED
  BY <1>1, <1>2, <1>3, <1>4 DEF Next, SenderStep, ReaderStep, Threads

LEMMA SetTypeStep == SetType /\ OpType /\ [Next]_vars => SetType'
<1> SUFFICES ASSUME SetType, OpType, [Next]_vars PROVE SetType'
  OBVIOUS
<1> USE DEF SetType
<1>1. ASSUME NEW t \in Threads, Reconnect(t) PROVE SetType'
  BY <1>1 DEF Reconnect, Enter, Spin, Socket, Connect, Readd, Resend
<1>2. ASSUME NEW s \in Senders, NewCall(s) PROVE SetType'
  BY <1>2 DEF NewCall, SendMessage, AddListener, RemoveListener, Start
<1>3. ASSUME NEW s \in Senders, Stamp(s) \/ Send(s) PROVE SetType'
  <2>1. UNCHANGED <<in_use, todo>>
    BY <1>3 DEF Stamp, Send
  <2>2. \/ view' = view \/ view' = view \ {op[s].l}
        \/ op[s].kind = "add" /\ view' = view \union {op[s].l}
    BY <1>3 DEF Stamp, Send
  <2> QED
    BY <2>1, <2>2 DEF OpType
<1>4. ASSUME ReaderTop \/ ReaderFails \/ ReaderRetries \/ Lose \/ Restart \/ Idle \/ UNCHANGED vars
      PROVE  SetType'
  BY <1>4 DEF ReaderTop, ReaderFails, ReaderRetries, Lose, Restart, Idle, vars
<1> QED
  BY <1>1, <1>2, <1>3, <1>4 DEF Next, SenderStep, ReaderStep, Threads

LEMMA CountTypeStep == CountType /\ [Next]_vars => CountType'
<1> SUFFICES ASSUME CountType, [Next]_vars PROVE CountType'
  OBVIOUS
<1> USE ReconnectAssumption DEF CountType, bounds
<1>1. ASSUME NEW t \in Threads, Reconnect(t) PROVE CountType'
  BY <1>1 DEF Reconnect, Enter, Spin, Socket, Connect, Readd, Resend
<1>2. ASSUME NEW s \in Senders, NewCall(s) PROVE CountType'
  BY <1>2 DEF NewCall, SendMessage, AddListener, RemoveListener, Start
<1>3. ASSUME NEW s \in Senders, Stamp(s) \/ Send(s) PROVE CountType'
  BY <1>3 DEF Stamp, Send
<1>4. ASSUME ReaderTop \/ ReaderFails \/ ReaderRetries \/ Lose \/ Restart \/ Idle \/ UNCHANGED vars
      PROVE  CountType'
  BY <1>4 DEF ReaderTop, ReaderFails, ReaderRetries, Lose, Restart, Idle, vars
<1> QED
  BY <1>1, <1>2, <1>3, <1>4 DEF Next, SenderStep, ReaderStep, Threads

LEMMA ReconnectTypeStep == RType /\ [Next]_vars => RType'
  BY FlagTypeStep, PlaceTypeStep, OpTypeStep, SetTypeStep, CountTypeStep DEF RType

(* The fields of the connection and the places of its threads keep their    *)
(* types, whatever the number of senders and listeners.                     *)
THEOREM ReconnectTypeCorrect == Spec => []TypeOK
<1>1. RType => TypeOK
  BY DEF RType, FlagType, PlaceType, OpType, SetType, CountType, TypeOK
<1> QED
  BY <1>1, ReconnectTypeInit, ReconnectTypeStep, PTL DEF Spec

-----------------------------------------------------------------------------
(* The listeners.  While a thread registers them again, those it has not    *)
(* come to are in todo; a listener being removed is no longer in use; and   *)
(* a thread that still has to connect knows that nobody is connected.       *)
Readding == \E t \in Threads : at[t] \in {"readd", "resend", "selfspin"}
Reg ==
    /\ \A s \in Senders : at[s] # "idle" /\ op[s].kind = "remove" => op[s].l \notin in_use
    /\ \A t \in Threads : at[t] = "connect" => fd # "linked"
    /\ fd = "linked" =>
          \A l \in in_use : l \in view \/ Adding(l) \/ (l \in todo /\ Readding)

LEMMA RegInit == Init => Reg
<1> SUFFICES ASSUME Init PROVE Reg
  OBVIOUS
<1>1. \A t \in Threads : at[t] \in {"top", "idle"}
  BY DEF Init
<1>2. \A s \in Senders : at[s] = "idle"
  BY ReconnectAssumption DEF Init, Threads
<1> QED
  BY <1>1, <1>2 DEF Init, Reg

(* A thread moves without any change to the connection or the listeners.    *)
LEMMA RegMoves ==
  ASSUME RType, Core, Reg, NEW t \in Threads, NEW w \in Places, Goto(t, w),
         UNCHANGED <<fd, in_use, view, op, todo>>,
         w \notin {"idle", "connect"}, at[t] # "idle",
         at[t] \in {"readd", "resend", "selfspin"} =>
             w \in {"readd", "resend", "selfspin"}
  PROVE  Reg'
<1>1. \A u \in Threads : at'[u] = IF u = t THEN w ELSE at[u]
  BY DEF Core, Goto
<1>2. \A s \in Senders : s \in Threads
  BY DEF Threads
<1>3. Readding => Readding'
  BY <1>1 DEF Readding
<1>4. ASSUME NEW l, Adding(l) PROVE Adding(l)'
  BY <1>1, <1>2, <1>4 DEF Adding
<1>5. \A s \in Senders : at'[s] # "idle" => at[s] # "idle"
  BY <1>1, <1>2
<1>6. \A u \in Threads : at'[u] = "connect" => at[u] = "connect"
  BY <1>1
<1> QED
  BY <1>3, <1>4, <1>5, <1>6 DEF Reg

LEMMA RegCall ==
  ASSUME RType, Core, Reg, NEW s \in Senders, NewCall(s)
  PROVE  Reg'
<1>1. PICK k, l : Start(s, k, l)
  BY DEF NewCall, SendMessage, AddListener, RemoveListener
<1>2. /\ s \in Threads /\ at[s] = "idle" /\ UNCHANGED <<fd, view, todo>>
      /\ \A u \in Threads : at'[u] = IF u = s THEN "stamp" ELSE at[u]
  BY <1>1 DEF Start, Goto, Core, Threads
<1>3. \A u \in Senders : u \in Threads
  BY DEF Threads
<1>4. \A u \in Senders : u # s => op'[u] = op[u]
  BY <1>1 DEF Start, RType, OpType
<1>5. Readding => Readding'
  BY <1>2 DEF Readding
<1>6. ASSUME NEW m, Adding(m) PROVE Adding(m)'
  BY <1>2, <1>3, <1>4, <1>6 DEF Adding
<1>7. \A u \in Threads : at'[u] = "connect" => at[u] = "connect"
  BY <1>2
<1>8. CASE SendMessage(s)
  <2>1. in_use' = in_use /\ op'[s].kind = "message"
    BY <1>8 DEF SendMessage, Start, RType, OpType
  <2> QED
    BY <1>2, <1>3, <1>4, <1>5, <1>6, <1>7, <2>1 DEF Reg
<1>9. ASSUME NEW m \in Listeners, AddListener(s, m) PROVE Reg'
  <2>1. in_use' = in_use \union {m} /\ op'[s].kind = "add" /\ op'[s].l = m /\ Free(m)
    BY <1>9 DEF AddListener, Start, RType, OpType
  <2>2. Adding(m)'
    BY <1>2, <2>1 DEF Adding
  <2>3. \A u \in Senders : at'[u] # "idle" /\ op'[u].kind = "remove" => op'[u].l \notin in_use'
    BY <1>2, <1>3, <1>4, <2>1 DEF Reg, Free
  <2> QED
    BY <1>2, <1>5, <1>6, <1>7, <2>1, <2>2, <2>3 DEF Reg
<1>10. ASSUME NEW m \in Listeners, RemoveListener(s, m) PROVE Reg'
  <2>1. in_use' = in_use \ {m} /\ op'[s].kind = "remove" /\ op'[s].l = m
    BY <1>10 DEF RemoveListener, Start, RType, OpType
  <2>2. \A u \in Senders : at'[u] # "idle" /\ op'[u].kind = "remove" => op'[u].l \notin in_use'
    BY <1>2, <1>3, <1>4, <2>1 DEF Reg
  <2> QED
    BY <1>2, <1>5, <1>6, <1>7, <2>1, <2>2 DEF Reg
<1> QED
  BY <1>8, <1>9, <1>10 DEF NewCall

LEMMA RegSend ==
  ASSUME RType, Core, Reg, NEW s \in Senders, Send(s)
  PROVE  Reg'
<1>1. s \in Threads /\ at[s] = "send" /\ fd # "none" /\ UNCHANGED <<fd, in_use, op, todo>>
  BY DEF Send, Core, Threads
<1>2. CASE fd \in {"new", "lost"}
  <2>1. Goto(s, "enter") /\ view' = view
    BY <1>2 DEF Send
  <2> QED
    BY <1>1, <2>1, RegMoves DEF Places
<1>3. CASE fd = "linked"
  <2>1. /\ \A u \in Threads : at'[u] = IF u = s THEN "idle" ELSE at[u]
        /\ \A u \in Senders : u \in Threads
    BY <1>3 DEF Send, Goto, Core, Threads
  <2>2. view' = CASE op[s].kind = "add" -> view \union {op[s].l}
                  [] op[s].kind = "remove" -> view \ {op[s].l}
                  [] OTHER -> view
    BY <1>3 DEF Send
  <2>3. Readding => Readding'
    BY <1>1, <2>1 DEF Readding
  <2>4. \A l \in in_use : l \in view => l \in view'
    BY <1>1, <2>2 DEF Reg
  <2>5. \A l : Adding(l) => Adding(l)' \/ (op[s].kind = "add" /\ op[s].l = l)
    BY <1>1, <2>1 DEF Adding
  <2>6. op[s].kind = "add" => op[s].l \in view'
    BY <2>2
  <2>7. \A l \in in_use : l \in view' \/ Adding(l)' \/ (l \in todo /\ Readding')
    BY <1>3, <2>3, <2>4, <2>5, <2>6 DEF Reg
  <2> QED
    BY <1>1, <2>1, <2>7 DEF Reg
<1> QED
  BY <1>1, <1>2, <1>3 DEF RType, PlaceType

LEMMA RegReconnect ==
  ASSUME RType, Core, Reg, NEW t \in Threads, Reconnect(t), sockFails' = 0
  PROVE  Reg'
<1>0. at[t] # "idle" /\ \A u \in Threads : Owner(u) /\ Owner(t) => u = t
  BY DEF Reconnect, Enter, Spin, Socket, Connect, Readd, Resend, Core, Exclusive
<1>1. CASE Enter(t)
  <2>1. /\ UNCHANGED <<fd, in_use, view, op, todo>> /\ at[t] = "enter"
        /\ Goto(t, "socket") \/ Goto(t, "spin")
    BY <1>1 DEF Enter, Core
  <2> QED
    BY <2>1, RegMoves DEF Places
<1>2. CASE Spin(t)
  <2>1. ~Owner(t)
    BY <1>2 DEF Spin, Core, Exclusive
  <2>2. /\ UNCHANGED <<fd, in_use, view, op, todo>> /\ at[t] = "spin"
        /\ Goto(t, "top") \/ Goto(t, "send")
    BY <1>2, <2>1 DEF Spin, Owner, ReturnOk
  <2> QED
    BY <2>2, RegMoves DEF Places
<1>3. CASE Socket(t)
  <2>1. fd' = "new" /\ Goto(t, "connect") /\ UNCHANGED <<in_use, op, todo>>
    BY <1>3 DEF Socket, Core
  <2>2. \A u \in Threads : at'[u] = IF u = t THEN "connect" ELSE at[u]
    BY <2>1 DEF Goto, Core
  <2>3. \A s \in Senders : s \in Threads
    BY DEF Threads
  <2> QED
    BY <1>0, <2>1, <2>2, <2>3 DEF Reg
<1>4. CASE Connect(t)
  <2>1. at[t] = "connect" /\ Owner(t) /\ UNCHANGED <<in_use, view, op>>
    BY <1>4 DEF Connect, Core, Owner
  <2>2. \A s \in Senders : s \in Threads
    BY DEF Threads
  <2>3. CASE router
    <3>1. todo' = Listeners /\ Goto(t, "readd")
      BY <1>4, <2>1, <2>3 DEF Connect
    <3>2. \A u \in Threads : at'[u] = IF u = t THEN "readd" ELSE at[u]
      BY <3>1 DEF Goto, Core
    <3>3. Readding'
      BY <3>2 DEF Readding
    <3>4. \A u \in Threads : at'[u] # "connect"
      BY <1>0, <2>1, <3>2 DEF Owner
    <3> QED
      BY <1>0, <2>1, <2>2, <3>1, <3>2, <3>3, <3>4 DEF Reg, RType, SetType
  <2>4. CASE ~router
    <3>1. fd' = fd /\ fd # "linked" /\ \E w \in {"sleep", "idle"} : Goto(t, w)
      BY <1>4, <2>1, <2>4 DEF Connect, ReturnError, Reg
    <3>2. \A u \in Threads : at'[u] = at[u] \/ (u = t /\ at'[u] \in {"sleep", "idle"})
      BY <3>1 DEF Goto, Core
    <3> QED
      BY <1>0, <2>1, <2>2, <3>1, <3>2 DEF Reg
  <2> QED
    BY <2>3, <2>4
<1>5. CASE Readd(t)
  <2>1. at[t] = "readd" /\ Owner(t) /\ UNCHANGED <<fd, in_use, view, op>>
    BY <1>5 DEF Readd, Owner
  <2>2. CASE Goto(t, "resend") /\ todo' = todo
    BY <2>1, <2>2, RegMoves DEF Places
  <2>3. ASSUME NEW l \in todo, l \notin in_use, todo' = todo \ {l}, at' = at PROVE Reg'
    <3>1. (Readding' <=> Readding) /\ \A m : Adding(m)' <=> Adding(m)
      BY <2>1, <2>3 DEF Readding, Adding
    <3>2. \A m \in in_use : m \in todo => m \in todo'
      BY <2>3
    <3> QED
      BY <2>1, <2>3, <3>1, <3>2 DEF Reg
  <2>4. CASE todo = {} /\ todo' = {} /\ ReturnOk(t)
    <3>1. \A u \in Threads : at'[u] = at[u] \/ (u = t /\ at'[u] \in {"top", "send"})
      BY <2>4 DEF ReturnOk, Goto, Core
    <3>2. \A s \in Senders : s \in Threads
      BY DEF Threads
    <3>3. ASSUME NEW l, Adding(l) PROVE Adding(l)'
      BY <2>1, <3>1, <3>2, <3>3 DEF Adding
    <3> QED
      BY <1>0, <2>1, <2>4, <3>1, <3>2, <3>3 DEF Reg
  <2> QED
    BY <1>5, <2>2, <2>3, <2>4 DEF Readd
<1>6. CASE Resend(t)
  <2>1. at[t] = "resend" /\ UNCHANGED <<fd, in_use, op>>
    BY <1>6 DEF Resend
  <2>2. CASE fd # "linked"
    <3>1. Goto(t, "selfspin") /\ UNCHANGED <<view, todo>>
      BY <1>6, <2>2 DEF Resend
    <3> QED
      BY <2>1, <3>1, RegMoves DEF Places
  <2>3. CASE fd = "linked"
    <3>1. Goto(t, "readd") /\ \E l \in todo : view' = view \union {l} /\ todo' = todo \ {l}
      BY <1>6, <2>3 DEF Resend
    <3>2. \A u \in Threads : at'[u] = IF u = t THEN "readd" ELSE at[u]
      BY <3>1 DEF Goto, Core
    <3>3. \A s \in Senders : s \in Threads
      BY DEF Threads
    <3>4. Readding'
      BY <3>2 DEF Readding
    <3>5. ASSUME NEW l, Adding(l) PROVE Adding(l)'
      BY <2>1, <3>2, <3>3, <3>5 DEF Adding
    <3>6. \A m \in in_use : m \in view' \/ Adding(m)' \/ m \in todo'
      BY <2>3, <3>1, <3>5 DEF Reg
    <3> QED
      BY <1>0, <2>1, <3>2, <3>3, <3>4, <3>6 DEF Reg
  <2> QED
    BY <2>2, <2>3
<1> QED
  BY <1>1, <1>2, <1>3, <1>4, <1>5, <1>6 DEF Reconnect

LEMMA RegStep == ASSUME RType, Core, Reg, [Next]_vars, sockFails' = 0 PROVE Reg'
<1>1. CASE Lose
  <2>1. UNCHANGED <<in_use, at, op, todo>> /\ fd' # "linked"
    BY <1>1 DEF Lose
  <2> QED
    BY <2>1 DEF Reg
<1>2. CASE Restart \/ Idle \/ UNCHANGED vars
  <2>1. UNCHANGED <<fd, in_use, view, at, op, todo>>
    BY <1>2 DEF Restart, Idle, vars
  <2> QED
    BY <2>1 DEF Reg, Adding, Readding
<1>3. ASSUME NEW s \in Senders, Stamp(s) PROVE Reg'
  <2>1. Goto(s, "send") /\ UNCHANGED <<fd, in_use, view, op, todo>> /\ at[s] = "stamp"
    BY <1>3 DEF Stamp
  <2> QED
    BY <2>1, RegMoves DEF Threads, Places
<1>4. CASE ReaderTop \/ ReaderFails \/ ReaderRetries
  <2>1. /\ at["reader"] \in {"top", "read", "sleep"} /\ UNCHANGED <<fd, in_use, view, op, todo>>
        /\ \E w \in {"top", "read", "enter"} : Goto("reader", w)
    BY <1>4 DEF ReaderTop, ReaderFails, ReaderRetries
  <2> QED
    BY <2>1, RegMoves DEF Threads, Places
<1> QED
  BY <1>1, <1>2, <1>3, <1>4, RegCall, RegSend, RegReconnect
  DEF Next, SenderStep, ReaderStep, Threads

LInv == RType /\ IInv /\ (sockFails = 0 => Reg)

LEMMA LStep == LInv /\ [Next]_vars => LInv'
<1> SUFFICES ASSUME LInv, [Next]_vars PROVE LInv'
  OBVIOUS
<1>1. IInv' /\ RType'
  BY ReconnectStep, ReconnectTypeStep DEF LInv
<1>2. sockFails' = 0 => sockFails = 0
  <2>1. ASSUME NEW t, Reconnect(t) PROVE sockFails' = 0 => sockFails = 0
    BY <2>1 DEF Reconnect, Enter, Spin, Socket, Connect, Readd, Resend, bounds, LInv, IInv
  <2>2. ASSUME NEW s, NewCall(s) \/ Stamp(s) \/ Send(s) PROVE sockFails' = sockFails
    BY <2>2 DEF NewCall, SendMessage, AddListener, RemoveListener, Start, Stamp, Send, bounds
  <2>3. ASSUME ReaderTop \/ ReaderFails \/ ReaderRetries PROVE sockFails' = sockFails
    BY <2>3 DEF ReaderTop, ReaderFails, ReaderRetries, bounds
  <2>4. ASSUME Lose \/ Restart \/ Idle \/ UNCHANGED vars PROVE sockFails' = sockFails
    BY <2>4 DEF Lose, Restart, Idle, vars, bounds
  <2> QED
    BY <2>1, <2>2, <2>3, <2>4, Zenon DEF Next, SenderStep, ReaderStep
<1>3. sockFails' = 0 => Reg'
  BY <1>2, RegStep DEF LInv, IInv
<1> QED
  BY <1>1, <1>3 DEF LInv

(* Until socket() or fcntl() fails, a connection that stands and on which   *)
(* nobody works has a route at the router for every listener that is not    *)
(* just being added: no listener is forgotten when ConnectAndRegister adds  *)
(* the listeners back while other threads add and remove them.              *)
THEOREM ListenersAlways == Spec => []ListenersRegistered
<1>1. Init => LInv
  BY ReconnectInit, ReconnectTypeInit, RegInit, SMTT(30) DEF LInv, IInv, Init
<1>2. LInv => ListenersRegistered
  <2> SUFFICES ASSUME LInv, fd = "linked", ~flag, sockFails = 0, NEW l \in in_use
               PROVE  l \in view \/ Adding(l)
    BY DEF ListenersRegistered
  <2>1. ~Readding
    BY DEF LInv, IInv, Core, Exclusive, Owner, Readding
  <2> QED
    BY <2>1 DEF LInv, Reg
<1> QED
  BY <1>1, <1>2, LStep, PTL DEF Spec
=============================================================================
