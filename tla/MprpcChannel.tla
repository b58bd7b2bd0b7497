---------------------------- MODULE MprpcChannel ----------------------------
(***************************************************************************)
(* MprpcChannel::CallMethod (src/src/mprpcchannel.cc) as threads run it:   *)
(* circuit breaker, serialisation, the lock of a long-connection channel,  *)
(* choice of a provider, reuse of or a new TCP connection, request, reply, *)
(* report to the breaker.  Channels are shared by threads as the program   *)
(* shares them, file descriptors are those of the process and are reused   *)
(* lowest first, and providers answer, keep silent, hang up, crash and     *)
(* come back at any time.                                                  *)
(*                                                                         *)
(* A request is one message, a reply is its two parts, the length and the  *)
(* body, which recv can take separately.  A message in a queue may still   *)
(* be on its way, so a receive can time out although the queue has a part  *)
(* (three seconds on each recv); bytes are the matter of RpcFraming.       *)
(* GetProvider may return any address or none: which, and why, is the      *)
(* matter of ServiceDiscovery.                                             *)
(***************************************************************************)
EXTENDS CircuitBreaker, Sequences

CONSTANTS
  Callers,          \* threads in CallMethod, all for one service.method
  Unserializable,   \* callers whose request or header may not serialise
  Channels,         \* MprpcChannel objects
  ChannelOf,        \* ChannelOf[c]: the channel of caller c's stub
  Address,          \* "ip:port" of the providers
  MaxFd,            \* descriptors left to the process: 1 .. MaxFd
  Nil,              \* no descriptor (-1), no address, no holder of a lock
  ClientLong,       \* rpcclientlongconnection = true in the client's file
  ServerLong        \* rpcserverlongconnection = true in the provider's file

Fd == 1 .. MaxFd

ASSUME ChannelAssumption ==
  /\ Unserializable \subseteq Callers
  /\ ChannelOf \in [Callers -> Channels]
  /\ MaxFd \in Nat
  /\ Nil \notin Fd \cup Callers \cup Address
  /\ ClientLong \in BOOLEAN
  /\ ServerLong \in BOOLEAN

VARIABLES
  pc,                   \* per caller: where it is in CallMethod
  turn,                 \* per caller: parity of its calls, tells two calls apart
  asProbe,              \* per caller: its request was let through as a probe
  addr,                 \* per caller: host_data
  fd,                   \* per caller: clientfd
  got,                  \* per caller: the calls whose reply parts it has read
  result,               \* per caller: what its last call returned
  m_clientfd,           \* per channel
  m_provider_address,   \* per channel
  holder,               \* per channel: who holds m_connection_mutex
  conn,                 \* per descriptor: its TCP connection
  up                    \* the addresses at which a provider listens

callVars == <<turn, asProbe, got>>
channelVars == <<m_clientfd, m_provider_address>>
vars == <<breakerVars, pc, callVars, addr, fd, result, channelVars, holder,
          conn, up>>

Id(c) == <<c, turn[c]>>
CallId == Callers \X {0, 1}
Part == {"size", "body"} \X CallId

\* "new": created, not connected; "shut": the provider has closed its side.
Conn == [stage : {"free", "new", "open", "shut"},
         peer : Address \cup {Nil},
         request : Seq(CallId),
         reply : Seq(Part)]

NoConn == [stage |-> "free", peer |-> Nil, request |-> <<>>, reply |-> <<>>]

\* The places after m_connection_mutex has been taken (or passed by).
Locked == {"provider", "socket", "connect", "send", "size", "body", "done"}
\* The places where clientfd names a descriptor of this call.
Connected == {"connect", "send", "size", "body", "done"}

TypeOK ==
  /\ BreakerTypeOK
  /\ pc \in [Callers -> {"idle", "serialize"} \cup Locked]
  /\ turn \in [Callers -> {0, 1}]
  /\ asProbe \in [Callers -> BOOLEAN]
  /\ addr \in [Callers -> Address \cup {Nil}]
  /\ fd \in [Callers -> Fd \cup {Nil}]
  /\ got \in [Callers -> SUBSET CallId]
  /\ result \in [Callers -> {"none", "rejected", "ok", "failed"}]
  /\ m_clientfd \in [Channels -> Fd \cup {Nil}]
  /\ m_provider_address \in [Channels -> Address \cup {Nil}]
  /\ holder \in [Channels -> Callers \cup {Nil}]
  /\ conn \in [Fd -> Conn]
  /\ up \in SUBSET Address

Init ==
  /\ BreakerInit
  /\ pc = [c \in Callers |-> "idle"]
  /\ turn = [c \in Callers |-> 0]
  /\ asProbe = [c \in Callers |-> FALSE]
  /\ addr = [c \in Callers |-> Nil]
  /\ fd = [c \in Callers |-> Nil]
  /\ got = [c \in Callers |-> {}]
  /\ result = [c \in Callers |-> "none"]
  /\ m_clientfd = [ch \in Channels |-> Nil]
  /\ m_provider_address = [ch \in Channels |-> Nil]
  /\ holder = [ch \in Channels |-> Nil]
  /\ conn = [f \in Fd |-> NoConn]
  /\ up = Address

Goto(c, label) == pc' = [pc EXCEPT ![c] = label]

-----------------------------------------------------------------------------
(* Slips used by the mutant runs only; more of them below.                 *)

\* lock() and no unlock() on the way out.
ReturnLocked(c, outcome) ==
  /\ Goto(c, "idle")
  /\ result' = [result EXCEPT ![c] = outcome]
  /\ addr' = [addr EXCEPT ![c] = Nil]
  /\ fd' = [fd EXCEPT ![c] = Nil]
  /\ UNCHANGED <<callVars, holder, up>>

\* CloseConnection that leaves m_clientfd and m_provider_address behind.
CloseOnly(c, f) ==
  /\ conn' = [conn EXCEPT ![f] = NoConn]
  /\ UNCHANGED channelVars

-----------------------------------------------------------------------------
(* The last lines of every call.                                           *)

\* return: the locals go and unique_lock releases the mutex if it holds it.
Return(c, outcome) ==
  /\ Goto(c, "idle")
  /\ result' = [result EXCEPT ![c] = outcome]
  /\ addr' = [addr EXCEPT ![c] = Nil]
  /\ fd' = [fd EXCEPT ![c] = Nil]
  /\ holder' = [ch \in Channels |-> IF holder[ch] = c THEN Nil ELSE holder[ch]]
  /\ UNCHANGED <<callVars, up>>

\* CloseConnection(f) on caller c's channel.
CloseConnection(c, f) ==
  /\ conn' = [conn EXCEPT ![f] = NoConn]
  /\ IF f = m_clientfd[ChannelOf[c]]
       THEN /\ m_clientfd' = [m_clientfd EXCEPT ![ChannelOf[c]] = Nil]
            /\ m_provider_address' =
                 [m_provider_address EXCEPT ![ChannelOf[c]] = Nil]
       ELSE UNCHANGED channelVars

\* The error paths: with or without a connection to close.
FailUnconnected(c) ==
  /\ OnFailure
  /\ Return(c, "failed")
  /\ UNCHANGED <<channelVars, conn>>

FailConnected(c) ==
  /\ CloseConnection(c, fd[c])
  /\ OnFailure
  /\ Return(c, "failed")

-----------------------------------------------------------------------------
(* Slips used by the mutant runs only.                                     *)

\* A failed receive that keeps the connection for the next call.
RecvFailsKeepsConnection(c) ==
  /\ pc[c] \in {"size", "body"}
  /\ FailUnconnected(c)

\* A failed receive that tells the breaker nothing.
RecvFailsUnreported(c) ==
  /\ pc[c] \in {"size", "body"}
  /\ CloseConnection(c, fd[c])
  /\ Return(c, "failed")
  /\ UNCHANGED breakerVars

\* A failed connect that does not close the socket.
ConnectFailsKeepsSocket(c) ==
  /\ pc[c] = "connect"
  /\ FailUnconnected(c)

\* No lock around a long connection.
PassLock(c) ==
  /\ pc[c] = "serialize"
  /\ Goto(c, "provider")
  /\ UNCHANGED <<breakerVars, callVars, addr, fd, result, channelVars, holder,
                 conn, up>>

\* A receive without SO_RCVTIMEO: it fails only when the connection has ended.
RecvWithoutTimeout(c) ==
  /\ pc[c] \in {"size", "body"}
  /\ conn[fd[c]].stage = "shut" /\ conn[fd[c]].reply = <<>>
  /\ FailConnected(c)

\* A long connection whose address is not written down.
ConnectUnrecorded(c) ==
  /\ pc[c] = "connect"
  /\ addr[c] \in up
  /\ conn' = [conn EXCEPT ![fd[c]].stage = "open", ![fd[c]].peer = addr[c]]
  /\ IF ClientLong
       THEN m_clientfd' = [m_clientfd EXCEPT ![ChannelOf[c]] = fd[c]]
       ELSE UNCHANGED m_clientfd
  /\ Goto(c, "send")
  /\ UNCHANGED <<breakerVars, callVars, addr, fd, result, m_provider_address,
                 holder, up>>

-----------------------------------------------------------------------------
(* CallMethod, from its first line to its last.                            *)

\* A call begins and the breaker lets it through (and perhaps half-opens).
Admitted(c) ==
  /\ pc[c] = "idle"
  /\ \/ Admit /\ asProbe' = [asProbe EXCEPT ![c] = FALSE]
     \/ AdmitProbe /\ asProbe' = [asProbe EXCEPT ![c] = TRUE]
  /\ turn' = [turn EXCEPT ![c] = 1 - @]
  /\ got' = [got EXCEPT ![c] = {}]
  /\ Goto(c, "serialize")
  /\ UNCHANGED <<addr, fd, result, channelVars, holder, conn, up>>

Rejected(c) ==
  /\ pc[c] = "idle"
  /\ ~MayPass
  /\ result' = [result EXCEPT ![c] = "rejected"]
  /\ UNCHANGED <<breakerVars, pc, callVars, addr, fd, channelVars, holder,
                 conn, up>>

SerializeFails(c) ==
  /\ c \in Unserializable
  /\ pc[c] = "serialize"
  /\ Return(c, "failed")
  /\ UNCHANGED <<breakerVars, channelVars, conn>>

\* A long-connection channel carries one call at a time.
TakeLock(c) ==
  /\ pc[c] = "serialize"
  /\ IF ClientLong
       THEN /\ holder[ChannelOf[c]] = Nil
            /\ holder' = [holder EXCEPT ![ChannelOf[c]] = c]
       ELSE UNCHANGED holder
  /\ Goto(c, "provider")
  /\ UNCHANGED <<breakerVars, callVars, addr, fd, result, channelVars, conn,
                 up>>

PickProvider(c, a) ==
  /\ pc[c] = "provider"
  /\ addr' = [addr EXCEPT ![c] = a]
  /\ Goto(c, "socket")
  /\ UNCHANGED <<breakerVars, callVars, fd, result, channelVars, holder, conn,
                 up>>

\* GetProvider returns false, or an address without a colon.
NoProvider(c) ==
  /\ pc[c] = "provider"
  /\ FailUnconnected(c)

\* The cached connection goes to the chosen provider.
CanReuse(c) ==
  /\ ClientLong
  /\ m_clientfd[ChannelOf[c]] # Nil
  /\ m_provider_address[ChannelOf[c]] = addr[c]

Reuse(c) ==
  /\ pc[c] = "socket"
  /\ CanReuse(c)
  /\ fd' = [fd EXCEPT ![c] = m_clientfd[ChannelOf[c]]]
  /\ Goto(c, "send")
  /\ UNCHANGED <<breakerVars, callVars, addr, result, channelVars, holder,
                 conn, up>>

\* The cached connection goes elsewhere: it is closed first.
CloseOther(c) ==
  /\ pc[c] = "socket"
  /\ ClientLong
  /\ m_clientfd[ChannelOf[c]] # Nil
  /\ ~CanReuse(c)
  /\ CloseConnection(c, m_clientfd[ChannelOf[c]])
  /\ UNCHANGED <<breakerVars, pc, callVars, addr, fd, result, holder, up>>

FreeFd == {f \in Fd : conn[f].stage = "free"}

NeedsSocket(c) ==
  /\ pc[c] = "socket"
  /\ ~ClientLong \/ m_clientfd[ChannelOf[c]] = Nil

\* socket() returns the lowest descriptor that is free.
Socket(c) ==
  /\ NeedsSocket(c)
  /\ \E f \in FreeFd :
       /\ \A g \in FreeFd : f <= g
       /\ conn' = [conn EXCEPT ![f].stage = "new"]
       /\ fd' = [fd EXCEPT ![c] = f]
  /\ Goto(c, "connect")
  /\ UNCHANGED <<breakerVars, callVars, addr, result, channelVars, holder, up>>

SocketFails(c) ==
  /\ NeedsSocket(c)
  /\ FreeFd = {}
  /\ FailUnconnected(c)

\* connect() succeeds; a long-connection channel keeps the connection.
Connect(c) ==
  /\ pc[c] = "connect"
  /\ addr[c] \in up
  /\ conn' = [conn EXCEPT ![fd[c]].stage = "open", ![fd[c]].peer = addr[c]]
  /\ IF ClientLong
       THEN /\ m_clientfd' = [m_clientfd EXCEPT ![ChannelOf[c]] = fd[c]]
            /\ m_provider_address' =
                 [m_provider_address EXCEPT ![ChannelOf[c]] = addr[c]]
       ELSE UNCHANGED channelVars
  /\ Goto(c, "send")
  /\ UNCHANGED <<breakerVars, callVars, addr, fd, result, holder, up>>

ConnectFails(c) ==
  /\ pc[c] = "connect"
  /\ FailConnected(c)

\* SendAll succeeds: the kernel has taken the request, which is lost if the
\* provider has closed its side.
Send(c) ==
  /\ pc[c] = "send"
  /\ conn' = IF conn[fd[c]].stage = "open"
               THEN [conn EXCEPT ![fd[c]].request = Append(@, Id(c))]
               ELSE conn
  /\ Goto(c, "size")
  /\ UNCHANGED <<breakerVars, callVars, addr, fd, result, channelVars, holder,
                 up>>

SendFails(c) ==
  /\ pc[c] = "send"
  /\ FailConnected(c)

\* RecvAll takes what the connection delivers first, whoever it answers.
Recv(c) ==
  /\ conn[fd[c]].reply # <<>>
  /\ got' = [got EXCEPT ![c] = @ \cup {Head(conn[fd[c]].reply)[2]}]
  /\ conn' = [conn EXCEPT ![fd[c]].reply = Tail(@)]
  /\ UNCHANGED <<breakerVars, turn, asProbe, addr, fd, result, channelVars,
                 holder, up>>

RecvSize(c) == pc[c] = "size" /\ Goto(c, "body") /\ Recv(c)
RecvBody(c) == pc[c] = "body" /\ Goto(c, "done") /\ Recv(c)

\* A receive times out, or the connection has ended.
RecvFails(c) ==
  /\ pc[c] \in {"size", "body"}
  /\ FailConnected(c)

\* ParseFromArray fails.
ParseFails(c) ==
  /\ pc[c] = "done"
  /\ FailConnected(c)

Succeed(c) ==
  /\ pc[c] = "done"
  /\ OnSuccess
  /\ IF ClientLong
       THEN UNCHANGED <<channelVars, conn>>
       ELSE CloseConnection(c, fd[c])
  /\ Return(c, "ok")

\* ~MprpcChannel of a channel no call is in; a new one takes its place.
Destroy(ch) ==
  /\ m_clientfd[ch] # Nil
  /\ \A c \in Callers : ChannelOf[c] = ch => pc[c] = "idle"
  /\ conn' = [conn EXCEPT ![m_clientfd[ch]] = NoConn]
  /\ m_clientfd' = [m_clientfd EXCEPT ![ch] = Nil]
  /\ m_provider_address' = [m_provider_address EXCEPT ![ch] = Nil]
  /\ UNCHANGED <<breakerVars, pc, callVars, addr, fd, result, holder, up>>

-----------------------------------------------------------------------------
(* The providers (RpcProvider) and the clock.                              *)

\* OnMessage runs the service and SendRpcResponse answers.  A provider in
\* short-connection mode then closes its side.
Answer(f) ==
  /\ conn[f].stage = "open"
  /\ conn[f].request # <<>>
  /\ LET id == Head(conn[f].request)
     IN  conn' = [conn EXCEPT
           ![f].request = Tail(@),
           ![f].reply = @ \o << <<"size", id>>, <<"body", id>> >>,
           ![f].stage = IF ServerLong THEN "open" ELSE "shut"]
  /\ UNCHANGED <<breakerVars, pc, callVars, addr, fd, result, channelVars,
                 holder, up>>

\* OnMessage drops the request: the service or the method is unknown, or the
\* arguments do not parse.  Nothing is sent and the connection stays.
KeepSilent(f) ==
  /\ conn[f].stage = "open"
  /\ conn[f].request # <<>>
  /\ conn' = [conn EXCEPT ![f].request = Tail(@)]
  /\ UNCHANGED <<breakerVars, pc, callVars, addr, fd, result, channelVars,
                 holder, up>>

\* OnMessage refuses a frame that is too large: it closes its side.
Refuse(f) ==
  /\ conn[f].stage = "open"
  /\ conn[f].request # <<>>
  /\ conn' = [conn EXCEPT ![f].stage = "shut", ![f].request = <<>>]
  /\ UNCHANGED <<breakerVars, pc, callVars, addr, fd, result, channelVars,
                 holder, up>>

Crash(a) ==
  /\ a \in up
  /\ up' = up \ {a}
  /\ conn' = [f \in Fd |->
                IF conn[f].stage = "open" /\ conn[f].peer = a
                  THEN [conn[f] EXCEPT !.stage = "shut", !.request = <<>>]
                  ELSE conn[f]]
  /\ UNCHANGED <<breakerVars, pc, callVars, addr, fd, result, channelVars,
                 holder>>

Restart(a) ==
  /\ a \notin up
  /\ up' = up \cup {a}
  /\ UNCHANGED <<breakerVars, pc, callVars, addr, fd, result, channelVars,
                 holder, conn>>

ClockTick ==
  /\ Tick
  /\ UNCHANGED <<pc, callVars, addr, fd, result, channelVars, holder, conn, up>>

-----------------------------------------------------------------------------
AskBreaker(c) == Admitted(c) \/ Rejected(c)
Prepare(c) == SerializeFails(c) \/ TakeLock(c)
Choose(c) == NoProvider(c) \/ \E a \in Address : PickProvider(c, a)
Obtain(c) == \/ Reuse(c) \/ CloseOther(c) \/ Socket(c) \/ SocketFails(c)
             \/ Connect(c) \/ ConnectFails(c)
Exchange(c) == \/ Send(c) \/ SendFails(c) \/ RecvSize(c) \/ RecvBody(c)
               \/ RecvFails(c) \/ ParseFails(c) \/ Succeed(c)

CallStep(c) == Prepare(c) \/ Choose(c) \/ Obtain(c) \/ Exchange(c)

Providers ==
  \/ \E f \in Fd : Answer(f) \/ KeepSilent(f) \/ Refuse(f)
  \/ \E a \in Address : Crash(a) \/ Restart(a)

Next ==
  \/ \E c \in Callers : AskBreaker(c) \/ CallStep(c)
  \/ \E ch \in Channels : Destroy(ch)
  \/ Providers
  \/ ClockTick

(* A thread inside CallMethod runs; what it waits for is bounded by the    *)
(* kernel (connect) or by the socket timeouts (send, recv).                *)
Fairness == \A c \in Callers : WF_vars(CallStep(c))

SafetySpec == Init /\ [][Next]_vars
Spec == SafetySpec /\ Fairness

-----------------------------------------------------------------------------
(* Properties.                                                             *)

\* A call reads only the reply to its own request: nothing of an earlier call
\* of the connection, one that timed out in particular, and nothing meant for
\* another thread.  The protocol has no request identifier; the lock, and
\* closing the connection on every failure, stand in for it
\* (mprpcchannel.cc:154-158, 328-377).
OwnReply == \A c \in Callers : got[c] \subseteq {Id(c)}

Holds(c, f) == pc[c] \in Connected /\ fd[c] = f
Caches(ch, f) == m_clientfd[ch] = f

\* No descriptor leaks: one that is not free belongs to a call in progress or
\* is the connection of a channel.
NoLeak ==
  \A f \in Fd : conn[f].stage # "free" =>
    \/ \E c \in Callers : Holds(c, f)
    \/ \E ch \in Channels : Caches(ch, f)

\* No descriptor is closed or used by two: two calls never hold the same one,
\* two channels never cache the same one, a call holds a cached one only if
\* it has the lock of that channel, and nobody keeps a descriptor that is free.
NoSharing ==
  \A f \in Fd :
    /\ \A c, d \in Callers : Holds(c, f) /\ Holds(d, f) => c = d
    /\ \A ch, dh \in Channels : Caches(ch, f) /\ Caches(dh, f) => ch = dh
    /\ \A c \in Callers, ch \in Channels :
         Holds(c, f) /\ Caches(ch, f) => holder[ch] = c
    /\ \A c \in Callers : Holds(c, f) => conn[f].stage # "free"
    /\ \A ch \in Channels : Caches(ch, f) => conn[f].stage # "free"

\* The connection that an idle channel keeps goes to the address the channel
\* remembers and has nothing left on it from earlier calls.
CleanWhenIdle ==
  \A ch \in Channels : m_clientfd[ch] # Nil /\ holder[ch] = Nil =>
    LET k == conn[m_clientfd[ch]]
    IN  /\ k.peer = m_provider_address[ch]
        /\ k.request = <<>> /\ k.reply = <<>>

\* What the breaker sees of a call; no provider is taken to have recovered.
CallSeen ==
  [c \in Callers |->
     IF pc[c] # "idle" THEN IF asProbe[c] THEN "probe" ELSE "normal"
     ELSE IF result[c] = "rejected" THEN "rejected" ELSE "idle"]

B == INSTANCE BreakerCallers WITH call <- CallSeen, healthy <- FALSE

\* Every call that was let through tells the breaker its outcome exactly once,
\* in the step it ends, except one that cannot serialise its request: with
\* its connections, locks and providers, CallMethod is BreakerCallers.
ReportsOnce == B!SafetySpec

\* The connection behind a descriptor, and the call that talks on it.
Talks(c, f) == pc[c] \in {"send", "size", "body"} /\ fd[c] = f
Talker(f) == CHOOSE c \in Callers : Talks(c, f)
IsUsed(f) == \E c \in Callers : Talks(c, f)

StageOn(f) ==
  IF conn[f].stage \in {"free", "new"} THEN "closed" ELSE conn[f].stage
PlaceOn(f) == IF IsUsed(f) THEN pc[Talker(f)] ELSE "idle"
CallOn(f) == IF IsUsed(f) THEN Id(Talker(f)) ELSE Nil

OnFd(f) == INSTANCE MessageConnection WITH
  CallId <- CallId, NoCall <- Nil,
  stage <- StageOn(f), place <- PlaceOn(f), call <- CallOn(f),
  request <- conn[f].request, reply <- conn[f].reply

\* Descriptor by descriptor, however it is reused for one connection after the
\* other: one call at a time talks on it, and every message is read by the call
\* it is meant for (mprpcchannel.cc:154-158, 322-394).
KeepsMessages ==
  /\ \A f \in Fd : OnFd(f)!Init
  /\ [][\A f \in Fd : OnFd(f)!Next \/ UNCHANGED OnFd(f)!vars]_vars

\* The lock of a channel is released, whatever the provider does: nothing in a
\* call waits for a provider without a timeout, and every return gives the
\* lock back.  (Which of the waiting threads gets it next is up to std::mutex,
\* which promises nothing.)
LockIsReleased ==
  \A ch \in Channels : \A c \in Callers : holder[ch] = c ~> holder[ch] # c

\* The lock is taken after the breaker was asked (mprpcchannel.cc:95, 157), so a
\* half-open probe may wait behind older calls of its method.  HALF_OPEN ends all
\* the same: it lets nobody else in, those ahead of the probe are finitely many,
\* each gives the lock back, and the report of any of them ends it too.  The
\* probe of a thread whose request does not serialise may be lost.
HalfOpenEnds ==
  m_state = "HALF_OPEN" ~>
    m_state # "HALF_OPEN" \/ \E c \in Unserializable : pc[c] = "idle"

WaitsEnd == LockIsReleased /\ HalfOpenEnds

\* Without a shared lock, a call that was let through ends, and so reports.
EveryCallEnds == \A c \in Callers : pc[c] # "idle" ~> pc[c] = "idle"

=============================================================================
