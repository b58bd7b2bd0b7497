---------------------------- MODULE ChannelProofs ---------------------------
(***************************************************************************)
(* Theorems about MprpcChannel, for every set of threads, channels,        *)
(* providers and descriptors, long connections or short.                   *)
(***************************************************************************)
EXTENDS MprpcChannel, CircuitBreakerProofs, TLAPS

-----------------------------------------------------------------------------
(* Types.  They are inductive together with the breaker's invariant and    *)
(* the fact that a call that is connected has a descriptor.                *)

HasFd == \A c \in Callers : pc[c] \in Connected => fd[c] \in Fd

Typed == TypeOK /\ BreakerInv /\ HasFd

LEMMA TypeInit == Init => TypeOK /\ BreakerInv
<1> SUFFICES ASSUME Init
             PROVE  TypeOK /\ BreakerInv
  OBVIOUS
<1>1. BreakerInv
  BY BreakerInitInv DEF Init
<1>2. NoConn \in Conn
  BY DEF NoConn, Conn
<1> QED
  BY <1>1, <1>2 DEF Init, TypeOK, BreakerInv

\* What the steps do to one connection.
LEMMA ConnSend ==
  ASSUME NEW k \in Conn, NEW id \in CallId
  PROVE  [k EXCEPT !.request = Append(@, id)] \in Conn
<1>1. Append(k.request, id) \in Seq(CallId)
  BY DEF Conn
<1> QED
  BY <1>1 DEF Conn

LEMMA ConnTake ==
  ASSUME NEW k \in Conn, k.request # <<>>
  PROVE  /\ [k EXCEPT !.request = Tail(@)] \in Conn
         /\ Head(k.request) \in CallId
<1>1. Tail(k.request) \in Seq(CallId) /\ Head(k.request) \in CallId
  BY DEF Conn
<1> QED
  BY <1>1 DEF Conn

LEMMA ConnRead ==
  ASSUME NEW k \in Conn, k.reply # <<>>
  PROVE  /\ [k EXCEPT !.reply = Tail(@)] \in Conn
         /\ Head(k.reply)[2] \in CallId
<1>1. Tail(k.reply) \in Seq(Part) /\ Head(k.reply) \in Part
  BY DEF Conn
<1>2. Head(k.reply)[2] \in CallId
  BY <1>1 DEF Part
<1> QED
  BY <1>1, <1>2 DEF Conn

LEMMA ConnShut ==
  ASSUME NEW k \in Conn
  PROVE  [k EXCEPT !.stage = "shut", !.request = <<>>] \in Conn
<1>1. <<>> \in Seq(CallId)
  OBVIOUS
<1> QED
  BY <1>1 DEF Conn

LEMMA ConnAnswer ==
  ASSUME NEW k \in Conn, k.request # <<>>, NEW stage \in {"open", "shut"}
  PROVE  [k EXCEPT !.request = Tail(@),
                   !.reply = @ \o << <<"size", Head(k.request)>>,
                                     <<"body", Head(k.request)>> >>,
                   !.stage = stage] \in Conn
<1>1. Tail(k.request) \in Seq(CallId) /\ Head(k.request) \in CallId
  BY DEF Conn
<1>2. /\ <<"size", Head(k.request)>> \in Part
      /\ <<"body", Head(k.request)>> \in Part
  BY <1>1 DEF Part
<1>3. k.reply \o << <<"size", Head(k.request)>>,
                    <<"body", Head(k.request)>> >> \in Seq(Part)
  BY <1>2 DEF Conn
<1> QED
  BY <1>1, <1>3 DEF Conn

\* The connection table stays typed when one connection is freed.
LEMMA TypeClose ==
  ASSUME TypeOK, NEW c \in Callers, NEW f, CloseConnection(c, f)
  PROVE  /\ conn' \in [Fd -> Conn]
         /\ m_clientfd' \in [Channels -> Fd \cup {Nil}]
         /\ m_provider_address' \in [Channels -> Address \cup {Nil}]
<1>1. NoConn \in Conn
  BY DEF NoConn, Conn
<1> QED
  BY <1>1 DEF TypeOK, CloseConnection, channelVars

LEMMA TypeReturn ==
  ASSUME TypeOK, NEW c \in Callers,
         NEW outcome \in {"ok", "failed"}, Return(c, outcome)
  PROVE  /\ pc' \in [Callers -> {"idle", "serialize"} \cup Locked]
         /\ turn' \in [Callers -> {0, 1}]
         /\ asProbe' \in [Callers -> BOOLEAN]
         /\ addr' \in [Callers -> Address \cup {Nil}]
         /\ fd' \in [Callers -> Fd \cup {Nil}]
         /\ got' \in [Callers -> SUBSET CallId]
         /\ result' \in [Callers -> {"none", "rejected", "ok", "failed"}]
         /\ holder' \in [Channels -> Callers \cup {Nil}]
         /\ up' \in SUBSET Address
BY DEF TypeOK, Return, Goto, callVars

LEMMA TypeFail ==
  ASSUME TypeOK, BreakerInv, NEW c \in Callers,
         FailUnconnected(c) \/ FailConnected(c)
  PROVE  TypeOK' /\ BreakerInv'
<1>1. BreakerInv'
  BY OnFailureKeepsInv DEF FailUnconnected, FailConnected
<1>2. Return(c, "failed")
  BY DEF FailUnconnected, FailConnected
<1>3. /\ conn' \in [Fd -> Conn]
      /\ m_clientfd' \in [Channels -> Fd \cup {Nil}]
      /\ m_provider_address' \in [Channels -> Address \cup {Nil}]
  BY TypeClose DEF FailUnconnected, FailConnected, TypeOK, channelVars
<1> QED
  BY <1>1, <1>2, <1>3, TypeReturn DEF TypeOK, BreakerInv

\* The steps of a call up to the choice of a provider.
LEMMA TypeBegin ==
  ASSUME TypeOK, BreakerInv, NEW c \in Callers,
         AskBreaker(c) \/ Prepare(c) \/ Choose(c)
  PROVE  TypeOK' /\ BreakerInv'
<1>1. CASE Admitted(c)
  <2>1. BreakerInv'
    BY <1>1, UnchangedKeepsInv, AdmitProbeKeepsInv DEF Admitted, Admit
  <2>2. asProbe' \in [Callers -> BOOLEAN]
    BY <1>1 DEF Admitted, TypeOK
  <2> QED
    BY <1>1, <2>1, <2>2 DEF Admitted, Goto, TypeOK, BreakerInv, channelVars
<1>2. CASE Rejected(c)
  BY <1>2, UnchangedKeepsInv
     DEF Rejected, TypeOK, BreakerInv, callVars, channelVars
<1>3. CASE SerializeFails(c)
  BY <1>3, UnchangedKeepsInv, TypeReturn
     DEF SerializeFails, TypeOK, BreakerInv, channelVars
<1>4. CASE TakeLock(c)
  BY <1>4, UnchangedKeepsInv, ChannelAssumption
     DEF TakeLock, Goto, Locked, TypeOK, BreakerInv, callVars, channelVars
<1>5. CASE NoProvider(c)
  BY <1>5, TypeFail DEF NoProvider
<1>6. ASSUME NEW a \in Address, PickProvider(c, a)
      PROVE  TypeOK' /\ BreakerInv'
  BY <1>6, UnchangedKeepsInv
     DEF PickProvider, Goto, Locked, TypeOK, BreakerInv, callVars, channelVars
<1> QED
  BY <1>1, <1>2, <1>3, <1>4, <1>5, <1>6 DEF AskBreaker, Prepare, Choose

\* The steps that obtain a connection.
LEMMA TypeObtain ==
  ASSUME TypeOK, BreakerInv, NEW c \in Callers, Obtain(c)
  PROVE  TypeOK' /\ BreakerInv'
<1> USE ChannelAssumption DEF TypeOK, callVars, channelVars, Goto, Locked
<1>1. CASE Reuse(c)
  BY <1>1, UnchangedKeepsInv DEF Reuse, CanReuse, BreakerInv
<1>2. CASE CloseOther(c)
  BY <1>2, TypeClose, UnchangedKeepsInv DEF CloseOther, BreakerInv
<1>3. CASE Socket(c)
  <2>1. BreakerInv'
    BY <1>3, UnchangedKeepsInv DEF Socket
  <2>2. PICK f \in FreeFd : /\ conn' = [conn EXCEPT ![f].stage = "new"]
                            /\ fd' = [fd EXCEPT ![c] = f]
    BY <1>3 DEF Socket
  <2>3. f \in Fd
    BY <2>2 DEF FreeFd
  <2>4. [conn[f] EXCEPT !.stage = "new"] \in Conn
    <3>1. conn[f] \in Conn
      BY <2>3
    <3> HIDE DEF TypeOK
    <3> QED
      BY <3>1 DEF Conn
  <2>5. conn' \in [Fd -> Conn]
    <3>1. conn \in [Fd -> Conn]
      OBVIOUS
    <3>2. conn' = [conn EXCEPT ![f] = [conn[f] EXCEPT !.stage = "new"]]
      BY <2>2, <2>3
    <3> HIDE DEF TypeOK
    <3> QED
      BY <2>4, <3>1, <3>2
  <2>6. fd' \in [Callers -> Fd \cup {Nil}]
    BY <2>2, <2>3
  <2> QED
    BY <1>3, <2>1, <2>5, <2>6 DEF Socket, BreakerInv
<1>4. CASE SocketFails(c)
  BY <1>4, TypeFail DEF SocketFails
<1>5. CASE Connect(c)
  <2>1. BreakerInv'
    BY <1>5, UnchangedKeepsInv DEF Connect
  <2>2. conn' \in [Fd -> Conn]
    <3>1. ASSUME NEW k \in Conn
          PROVE  [k EXCEPT !.stage = "open", !.peer = addr[c]] \in Conn
      BY DEF Conn
    <3>2. conn' = [conn EXCEPT ![fd[c]] =
                     [@ EXCEPT !.stage = "open", !.peer = addr[c]]]
      BY <1>5 DEF Connect, Conn
    <3> QED
      BY <3>1, <3>2
  <2>3. /\ m_clientfd' \in [Channels -> Fd \cup {Nil}]
        /\ m_provider_address' \in [Channels -> Address \cup {Nil}]
    BY <1>5 DEF Connect
  <2> QED
    BY <1>5, <2>1, <2>2, <2>3 DEF Connect, BreakerInv
<1>6. CASE ConnectFails(c)
  BY <1>6, TypeFail DEF ConnectFails
<1> QED
  BY <1>1, <1>2, <1>3, <1>4, <1>5, <1>6 DEF Obtain


\* The steps that send the request and read the reply.
LEMMA TypeExchange ==
  ASSUME TypeOK, BreakerInv, HasFd, NEW c \in Callers, Exchange(c)
  PROVE  TypeOK' /\ BreakerInv'
<1> USE DEF TypeOK, callVars, channelVars, Goto, Locked
<1>1. CASE Send(c)
  <2>1. conn' \in [Fd -> Conn]
    <3>1. Id(c) \in CallId
      BY DEF Id, CallId
    <3> QED
      BY <1>1, <3>1, ConnSend DEF Send
  <2> QED
    BY <1>1, <2>1, UnchangedKeepsInv DEF Send, BreakerInv
<1>2. CASE SendFails(c) \/ RecvFails(c) \/ ParseFails(c)
  BY <1>2, TypeFail DEF SendFails, RecvFails, ParseFails
<1>3. CASE RecvSize(c) \/ RecvBody(c)
  <2>0. fd[c] \in Fd
    BY <1>3 DEF RecvSize, RecvBody, HasFd, Connected
  <2>1. Recv(c) /\ \E label \in {"body", "done"} : Goto(c, label)
    BY <1>3 DEF RecvSize, RecvBody
  <2>2. conn' \in [Fd -> Conn] /\ got' \in [Callers -> SUBSET CallId]
    <3>1. /\ [conn[fd[c]] EXCEPT !.reply = Tail(@)] \in Conn
          /\ Head(conn[fd[c]].reply)[2] \in CallId
      BY <2>1, <2>0, ConnRead DEF Recv
    <3>2. conn' \in [Fd -> Conn]
      BY <2>1, <2>0, <3>1 DEF Recv
    <3> QED
      BY <2>1, <3>1, <3>2 DEF Recv
  <2> QED
    BY <2>1, <2>2, UnchangedKeepsInv DEF Recv, BreakerInv
<1>4. CASE Succeed(c)
  <2>1. /\ conn' \in [Fd -> Conn]
        /\ m_clientfd' \in [Channels -> Fd \cup {Nil}]
        /\ m_provider_address' \in [Channels -> Address \cup {Nil}]
    BY <1>4, TypeClose DEF Succeed
  <2> QED
    BY <1>4, <2>1, TypeReturn, OnSuccessKeepsInv DEF Succeed, BreakerInv
<1> QED
  BY <1>1, <1>2, <1>3, <1>4 DEF Exchange

\* What providers do to connections, the end of a channel, and the clock.
LEMMA TypeOthers ==
  ASSUME TypeOK, BreakerInv,
         Providers \/ ClockTick \/ \E ch \in Channels : Destroy(ch)
  PROVE  TypeOK' /\ BreakerInv'
<1> USE DEF TypeOK, callVars, channelVars
<1>1. ASSUME NEW f \in Fd, Answer(f)
      PROVE  TypeOK' /\ BreakerInv'
  <2>1. conn' \in [Fd -> Conn]
    BY <1>1, ConnAnswer DEF Answer
  <2> QED
    BY <1>1, <2>1, UnchangedKeepsInv DEF Answer, BreakerInv
<1>2. ASSUME NEW f \in Fd, KeepSilent(f) \/ Refuse(f)
      PROVE  TypeOK' /\ BreakerInv'
  <2>1. conn' \in [Fd -> Conn]
    <3>1. CASE KeepSilent(f)
      BY <3>1, ConnTake DEF KeepSilent
    <3>2. CASE Refuse(f)
      BY <3>2, ConnShut DEF Refuse
    <3> QED
      BY <1>2, <3>1, <3>2
  <2> QED
    BY <1>2, <2>1, UnchangedKeepsInv DEF KeepSilent, Refuse, BreakerInv
<1>3. ASSUME NEW a \in Address, Crash(a) \/ Restart(a)
      PROVE  TypeOK' /\ BreakerInv'
  <2>1. conn' \in [Fd -> Conn]
    BY <1>3, ConnShut DEF Crash, Restart
  <2> QED
    BY <1>3, <2>1, UnchangedKeepsInv DEF Crash, Restart, BreakerInv
<1>4. CASE ClockTick
  BY <1>4, TickKeepsInv DEF ClockTick, BreakerInv
<1>5. ASSUME NEW ch \in Channels, Destroy(ch)
      PROVE  TypeOK' /\ BreakerInv'
  <2>1. NoConn \in Conn
    BY DEF NoConn, Conn
  <2> QED
    BY <1>5, <2>1, UnchangedKeepsInv DEF Destroy, BreakerInv
<1> QED
  BY <1>1, <1>2, <1>3, <1>4, <1>5 DEF Providers

LEMMA HasFdStep ==
  ASSUME TypeOK, TypeOK', HasFd, Next
  PROVE  HasFd'
<1> USE DEF HasFd, Connected, TypeOK, Goto
<1>1. ASSUME NEW c \in Callers, AskBreaker(c) \/ Prepare(c) \/ Choose(c)
      PROVE  HasFd'
  BY <1>1 DEF AskBreaker, Admitted, Rejected, Prepare, SerializeFails, TakeLock,
              Choose, NoProvider, PickProvider, FailUnconnected, Return
<1>2. ASSUME NEW c \in Callers, Obtain(c)
      PROVE  HasFd'
  <2>1. CASE Reuse(c)
    BY <1>2, <2>1, ChannelAssumption DEF Reuse, CanReuse
  <2>2. CASE Socket(c)
    BY <1>2, <2>2 DEF Socket, FreeFd
  <2>3. CASE CloseOther(c) \/ SocketFails(c) \/ Connect(c) \/ ConnectFails(c)
    BY <2>3 DEF CloseOther, SocketFails, Connect, ConnectFails,
                FailUnconnected, FailConnected, Return
  <2> QED
    BY <1>2, <2>1, <2>2, <2>3 DEF Obtain
<1>3. ASSUME NEW c \in Callers, Exchange(c)
      PROVE  HasFd'
  BY <1>3 DEF Exchange, Send, SendFails, RecvSize, RecvBody, Recv, RecvFails,
              ParseFails, Succeed, FailConnected, Return
<1>4. CASE Providers \/ ClockTick \/ \E ch \in Channels : Destroy(ch)
  BY <1>4 DEF Providers, Answer, KeepSilent, Refuse, Crash, Restart, ClockTick,
              Destroy
<1> QED
  BY <1>1, <1>2, <1>3, <1>4 DEF Next, CallStep

LEMMA TypeStep == Typed /\ [Next]_vars => Typed'
<1> SUFFICES ASSUME Typed, [Next]_vars
             PROVE  Typed'
  OBVIOUS
<1> USE DEF Typed
<1>1. ASSUME NEW c \in Callers, AskBreaker(c) \/ CallStep(c)
      PROVE  TypeOK' /\ BreakerInv'
  BY <1>1, TypeBegin, TypeObtain, TypeExchange DEF CallStep
<1>2. ASSUME Next
      PROVE  TypeOK' /\ BreakerInv'
  BY <1>1, <1>2, TypeOthers DEF Next
<1>3. CASE UNCHANGED vars
  BY <1>3, UnchangedKeepsInv
     DEF vars, TypeOK, BreakerInv, callVars, channelVars, HasFd
<1> QED
  BY <1>2, <1>3, HasFdStep

LEMMA TypedAlways == SafetySpec => []Typed
<1>1. Init => Typed
  BY TypeInit DEF Init, Typed, HasFd, Connected
<1> QED
  BY <1>1, TypeStep, PTL DEF SafetySpec

\* Every variable of MprpcChannel keeps its type, and the breaker's counters
\* keep their meaning under the whole of CallMethod.
THEOREM ChannelTypes == SafetySpec => [](TypeOK /\ BreakerInv)
<1>1. Typed => TypeOK /\ BreakerInv
  BY DEF Typed
<1> QED
  BY <1>1, TypedAlways, PTL

-----------------------------------------------------------------------------
(* CallMethod implements BreakerCallers.                                   *)

\* Every way out of a call, as the breaker sees it.
LEMMA ReturnSeen ==
  ASSUME TypeOK, NEW c \in Callers, NEW outcome \in {"ok", "failed"},
         pc[c] # "idle", Return(c, outcome)
  PROVE  /\ B!InFlight(c)
         /\ CallSeen' = [CallSeen EXCEPT ![c] = "idle"]
BY DEF TypeOK, Return, Goto, CallSeen, callVars, B!InFlight

\* Every step inside a call, as the breaker sees it.
LEMMA InsideSeen ==
  ASSUME TypeOK, NEW c \in Callers, pc[c] # "idle",
         NEW label \in {"serialize"} \cup Locked, Goto(c, label),
         UNCHANGED <<breakerVars, asProbe, result>>
  PROVE  UNCHANGED B!vars
BY DEF TypeOK, Goto, CallSeen, Locked, B!vars, breakerVars, B!breakerVars

LEMMA FailSeen ==
  ASSUME TypeOK, NEW c \in Callers, pc[c] # "idle",
         FailUnconnected(c) \/ FailConnected(c)
  PROVE  B!Fail(c)
<1>1. OnFailure /\ Return(c, "failed")
  BY DEF FailUnconnected, FailConnected
<1>2. B!OnFailure
  BY <1>1 DEF OnFailure, Open, Trips, breakerVars,
              B!OnFailure, B!Open, B!Trips, B!breakerVars
<1> QED
  BY <1>1, <1>2, ReturnSeen DEF B!Fail

\* Steps that neither begin nor end a call are steps of nobody for the breaker.
LEMMA OutsideSeen ==
  ASSUME UNCHANGED <<breakerVars, pc, asProbe, result>>
  PROVE  UNCHANGED B!vars
BY DEF CallSeen, B!vars, breakerVars, B!breakerVars

LEMMA BreakerOpsSame ==
  /\ MayPass <=> B!MayPass
  /\ Admit <=> B!Admit
  /\ AdmitProbe <=> B!AdmitProbe
  /\ OnSuccess <=> B!OnSuccess
  /\ Tick <=> B!Tick
BY DEF MayPass, ProbeDue, Admit, AdmitProbe, TakeSlot, OnSuccess, Tick,
       breakerVars, B!MayPass, B!ProbeDue, B!Admit, B!AdmitProbe, B!TakeSlot,
       B!OnSuccess, B!Tick, B!breakerVars

LEMMA BeginSeen ==
  ASSUME TypeOK, NEW c \in Callers, AskBreaker(c)
  PROVE  B!AskBreaker(c)
<1> USE DEF TypeOK, CallSeen, B!InFlight
<1>1. ~B!InFlight(c)
  BY DEF AskBreaker, Admitted, Rejected
<1>2. ASSUME Admitted(c), Admit, asProbe' = [asProbe EXCEPT ![c] = FALSE]
      PROVE  B!Enter(c)
  <2>1. CallSeen' = [CallSeen EXCEPT ![c] = "normal"]
    BY <1>2 DEF Admitted, Goto
  <2> QED
    BY <1>1, <1>2, <2>1, BreakerOpsSame DEF B!Enter
<1>3. ASSUME Admitted(c), AdmitProbe, asProbe' = [asProbe EXCEPT ![c] = TRUE]
      PROVE  B!EnterAsProbe(c)
  <2>1. CallSeen' = [CallSeen EXCEPT ![c] = "probe"]
    BY <1>3 DEF Admitted, Goto
  <2> QED
    BY <1>1, <1>3, <2>1, BreakerOpsSame DEF B!EnterAsProbe
<1>4. ASSUME Rejected(c)
      PROVE  B!Rejected(c)
  <2>1. CallSeen' = [CallSeen EXCEPT ![c] = "rejected"]
    BY <1>4 DEF Rejected, callVars
  <2>2. UNCHANGED B!breakerVars
    BY <1>4 DEF Rejected, breakerVars, B!breakerVars
  <2> QED
    BY <1>1, <1>4, <2>1, <2>2, BreakerOpsSame DEF Rejected, B!Rejected
<1> QED
  BY <1>2, <1>3, <1>4 DEF AskBreaker, Admitted, B!AskBreaker

LEMMA CallStepSeen ==
  ASSUME TypeOK, NEW c \in Callers, CallStep(c)
  PROVE  B!Return(c) \/ UNCHANGED B!vars
<1> USE DEF callVars
<1>1. CASE SerializeFails(c)
  BY <1>1, ReturnSeen DEF SerializeFails, breakerVars, B!breakerVars,
                          B!SerializeFails, B!Return
<1>2. CASE TakeLock(c) \/ Send(c) \/ RecvSize(c) \/ RecvBody(c)
  BY <1>2, InsideSeen DEF TakeLock, Send, RecvSize, RecvBody, Recv, Locked
<1>3. ASSUME NEW a \in Address, PickProvider(c, a)
      PROVE  UNCHANGED B!vars
  BY <1>3, InsideSeen DEF PickProvider, Locked
<1>4. CASE Reuse(c) \/ Socket(c) \/ Connect(c)
  BY <1>4, InsideSeen DEF Reuse, Socket, NeedsSocket, Connect, Locked
<1>5. CASE CloseOther(c)
  BY <1>5, OutsideSeen DEF CloseOther
<1>6. CASE NoProvider(c) \/ SocketFails(c) \/ ConnectFails(c) \/ SendFails(c)
             \/ RecvFails(c) \/ ParseFails(c)
  <2>1. pc[c] # "idle" /\ (FailUnconnected(c) \/ FailConnected(c))
    BY <1>6 DEF NoProvider, SocketFails, NeedsSocket, ConnectFails, SendFails,
                RecvFails, ParseFails
  <2> QED
    BY <2>1, FailSeen DEF B!Return
<1>7. CASE Succeed(c)
  BY <1>7, ReturnSeen, BreakerOpsSame DEF Succeed, B!Succeed, B!Return
<1> QED
  BY <1>1, <1>2, <1>3, <1>4, <1>5, <1>6, <1>7
     DEF CallStep, Prepare, Choose, Obtain, Exchange

LEMMA StepSeen == TypeOK /\ [Next]_vars => [B!Next]_(B!vars)
<1> SUFFICES ASSUME TypeOK, [Next]_vars
             PROVE  B!Next \/ UNCHANGED B!vars
  OBVIOUS
<1>1. ASSUME NEW c \in Callers, AskBreaker(c)
      PROVE  B!Next
  BY <1>1, BeginSeen DEF B!Next
<1>2. ASSUME NEW c \in Callers, CallStep(c)
      PROVE  B!Next \/ UNCHANGED B!vars
  BY <1>2, CallStepSeen DEF B!Next
<1>3. CASE Providers \/ \E ch \in Channels : Destroy(ch)
  BY <1>3, OutsideSeen DEF Providers, Answer, KeepSilent, Refuse, Crash,
                           Restart, Destroy, callVars
<1>4. CASE ClockTick
  <2>1. CallSeen' = CallSeen
    BY <1>4 DEF ClockTick, callVars, CallSeen
  <2> QED
    BY <1>4, <2>1, BreakerOpsSame DEF ClockTick, B!ClockTick, B!Next
<1>5. CASE UNCHANGED vars
  BY <1>5, OutsideSeen DEF vars, callVars
<1> QED
  BY <1>1, <1>2, <1>3, <1>4, <1>5 DEF Next

\* With its connections, locks and providers, CallMethod is one of the callers
\* of BreakerCallers: each call that was let through reports exactly once, in
\* the step it ends, unless its request does not serialise.
THEOREM CallMethodReportsOnce == SafetySpec => ReportsOnce
<1>1. Init => B!Init
  BY DEF Init, BreakerInit, CallSeen, B!Init, B!BreakerInit
<1>2. Typed => TypeOK
  BY DEF Typed
<1> QED
  BY <1>1, <1>2, StepSeen, TypedAlways, PTL
     DEF SafetySpec, ReportsOnce, B!SafetySpec

-----------------------------------------------------------------------------
(* Descriptors.  The invariant says who has the lock of a channel, what a  *)
(* channel caches and what a call holds, and that each of them has its     *)
(* descriptor for itself.                                                  *)

Talking == {"send", "size", "body", "done"}
Established(f) == conn[f].stage \in {"open", "shut"}

LockInv ==
  /\ \A c \in Callers :
       ClientLong /\ pc[c] \in Locked => holder[ChannelOf[c]] = c
  /\ \A c \in Callers, ch \in Channels :
       holder[ch] = c => ClientLong /\ ch = ChannelOf[c] /\ pc[c] \in Locked

CacheInv ==
  /\ \A ch \in Channels : m_clientfd[ch] # Nil =>
       /\ ClientLong
       /\ Established(m_clientfd[ch])
       /\ conn[m_clientfd[ch]].peer = m_provider_address[ch]
  /\ \A ch, dh \in Channels :
       m_clientfd[ch] # Nil /\ m_clientfd[ch] = m_clientfd[dh] => ch = dh

HoldInv ==
  /\ \A c \in Callers : pc[c] = "connect" =>
       conn[fd[c]].stage = "new" /\ m_clientfd[ChannelOf[c]] = Nil
  /\ \A c \in Callers : pc[c] \in Talking =>
       /\ Established(fd[c])
       /\ ClientLong => m_clientfd[ChannelOf[c]] = fd[c]
  /\ \A c, d \in Callers :
       /\ pc[c] \in Connected
       /\ pc[d] \in Connected
       /\ fd[c] = fd[d]
       => c = d

FdInv == LockInv /\ CacheInv /\ HoldInv /\ NoLeak

\* The invariant says what NoSharing promises.
LEMMA FdInvNoSharing == Typed /\ FdInv => NoSharing
<1> SUFFICES ASSUME Typed, FdInv, NEW f \in Fd
             PROVE  /\ \A c, d \in Callers : Holds(c, f) /\ Holds(d, f) => c = d
                    /\ \A ch, dh \in Channels :
                         Caches(ch, f) /\ Caches(dh, f) => ch = dh
                    /\ \A c \in Callers, ch \in Channels :
                         Holds(c, f) /\ Caches(ch, f) => holder[ch] = c
                    /\ \A c \in Callers : Holds(c, f) => conn[f].stage # "free"
                    /\ \A ch \in Channels :
                         Caches(ch, f) => conn[f].stage # "free"
  BY DEF NoSharing
<1> USE ChannelAssumption DEF Holds, Caches, FdInv
<1>1. f # Nil
  OBVIOUS
<1>2. \A c, d \in Callers : Holds(c, f) /\ Holds(d, f) => c = d
  BY DEF HoldInv
<1>3. \A ch, dh \in Channels : Caches(ch, f) /\ Caches(dh, f) => ch = dh
  BY <1>1 DEF CacheInv
<1>4. \A c \in Callers : Holds(c, f) => conn[f].stage # "free"
  BY DEF HoldInv, Connected, Talking, Established
<1>5. \A ch \in Channels : Caches(ch, f) => conn[f].stage # "free"
  BY <1>1 DEF CacheInv, Established
<1>6. ASSUME NEW c \in Callers, NEW ch \in Channels, Holds(c, f), Caches(ch, f)
      PROVE  holder[ch] = c
  <2>1. ClientLong /\ Established(f)
    BY <1>1, <1>6 DEF CacheInv
  <2>2. pc[c] \in Talking
    BY <1>6, <2>1 DEF HoldInv, Connected, Talking, Established
  <2>3. m_clientfd[ChannelOf[c]] = f
    BY <1>6, <2>1, <2>2 DEF HoldInv
  <2>4. ch = ChannelOf[c]
    BY <1>1, <1>6, <2>3 DEF CacheInv
  <2> QED
    BY <2>1, <2>2, <2>4 DEF LockInv, Talking, Locked
<1> QED
  BY <1>2, <1>3, <1>4, <1>5, <1>6

\* A step inside a call that leaves alone who has what.
LEMMA FdKeep ==
  ASSUME Typed, FdInv,
         UNCHANGED <<fd, channelVars, holder>>,
         \A f \in Fd : /\ \/ conn'[f].stage = conn[f].stage
                          \/ Established(f) /\ Established(f)'
                       /\ conn'[f].peer = conn[f].peer,
         \A c \in Callers : \/ pc'[c] = pc[c]
                            \/ pc[c] \in Talking /\ pc'[c] \in Talking
                            \/ pc[c] = "provider" /\ pc'[c] = "socket"
                            \/ pc[c] = "idle" /\ pc'[c] = "serialize"
  PROVE  FdInv'
<1> USE ChannelAssumption DEF FdInv, channelVars, Talking, Typed, TypeOK, HasFd
<1>1. LockInv'
  BY DEF LockInv, Locked
<1>2. CacheInv'
  BY DEF CacheInv, Established
<1>3. HoldInv'
  BY DEF HoldInv, Established, Connected
<1>4. NoLeak'
  BY DEF NoLeak, Holds, Caches, Connected, Established
<1> QED
  BY <1>1, <1>2, <1>3, <1>4

\* Whoever returns gives the lock back, and takes it from nobody else.
LEMMA LockLeave ==
  ASSUME LockInv, NEW c \in Callers,
         pc \in [Callers -> {"idle", "serialize"} \cup Locked],
         holder \in [Channels -> Callers \cup {Nil}], Nil \notin Callers,
         pc' = [pc EXCEPT ![c] = "idle"],
         holder' = [ch \in Channels |->
                      IF holder[ch] = c THEN Nil ELSE holder[ch]],
         ChannelOf \in [Callers -> Channels]
  PROVE  LockInv'
<1>1. ASSUME NEW d \in Callers, pc'[d] \in Locked
      PROVE  d # c /\ pc[d] \in Locked
  BY <1>1 DEF Locked
<1>2. ASSUME NEW d \in Callers, ClientLong, pc'[d] \in Locked
      PROVE  holder'[ChannelOf[d]] = d
  BY <1>1, <1>2 DEF LockInv
<1>3. ASSUME NEW d \in Callers, NEW ch \in Channels, holder'[ch] = d
      PROVE  d # c /\ holder[ch] = d
  BY <1>3
<1>4. ASSUME NEW d \in Callers, NEW ch \in Channels, holder'[ch] = d
      PROVE  ClientLong /\ ch = ChannelOf[d] /\ pc'[d] \in Locked
  BY <1>3, <1>4 DEF LockInv
<1> QED
  BY <1>2, <1>4 DEF LockInv

\* A call that returns without closing anything: it holds no descriptor, or
\* one that its channel keeps.
LEMMA FdLeave ==
  ASSUME Typed, FdInv, NEW c \in Callers, NEW outcome, Return(c, outcome),
         UNCHANGED <<channelVars, conn>>,
         pc[c] \notin Connected \/ (ClientLong /\ pc[c] \in Talking)
  PROVE  FdInv'
<1> USE ChannelAssumption
    DEF FdInv, channelVars, Talking, Typed, TypeOK, HasFd, Return, Goto
<1>1. LockInv'
  BY LockLeave DEF Return, Goto
<1>2. CacheInv'
  BY DEF CacheInv, Established
<1>3. HoldInv'
  BY DEF HoldInv, Established, Connected
<1>4. NoLeak'
  <2>1. ASSUME NEW f \in Fd, Holds(c, f), ClientLong, pc[c] \in Talking
        PROVE  Caches(ChannelOf[c], f)
    BY <2>1 DEF Holds, Caches, HoldInv
  <2> QED
    BY <2>1 DEF NoLeak, Holds, Caches, Connected
<1> QED
  BY <1>1, <1>2, <1>3, <1>4

\* A call that closes its descriptor and returns.
LEMMA FdClose ==
  ASSUME Typed, FdInv, NEW c \in Callers, NEW outcome, Return(c, outcome),
         CloseConnection(c, fd[c]), pc[c] \in Connected
  PROVE  FdInv'
<1> USE ChannelAssumption DEF FdInv, Typed, TypeOK, HasFd
<1>1. /\ pc' = [pc EXCEPT ![c] = "idle"]
      /\ fd' = [fd EXCEPT ![c] = Nil]
      /\ holder' = [ch \in Channels |->
                      IF holder[ch] = c THEN Nil ELSE holder[ch]]
  BY DEF Return, Goto
<1>2. conn' = [conn EXCEPT ![fd[c]] = NoConn]
  BY DEF CloseConnection
<1>3. LockInv'
  BY <1>1, LockLeave
<1>4. fd[c] \in Fd /\ fd[c] # Nil
  OBVIOUS
<1>5. ASSUME NEW ch \in Channels, m_clientfd[ch] = fd[c]
      PROVE  ch = ChannelOf[c]
  <2>1. ClientLong /\ Established(fd[c])
    BY <1>4, <1>5 DEF CacheInv
  <2>2. pc[c] \in Talking
    BY <2>1 DEF HoldInv, Connected, Talking, Established
  <2>3. m_clientfd[ChannelOf[c]] = fd[c]
    BY <2>1, <2>2 DEF HoldInv
  <2> QED
    BY <1>4, <1>5, <2>3 DEF CacheInv
<1>6. ASSUME NEW ch \in Channels
      PROVE  \/ m_clientfd'[ch] = Nil
             \/ /\ m_clientfd'[ch] = m_clientfd[ch]
                /\ m_provider_address'[ch] = m_provider_address[ch]
                /\ m_clientfd[ch] # fd[c]
  BY <1>4, <1>5 DEF CloseConnection, channelVars
<1>7. ASSUME NEW ch \in Channels, m_clientfd[ch] # fd[c]
      PROVE  m_clientfd'[ch] = m_clientfd[ch]
  BY <1>7 DEF CloseConnection, channelVars
<1>8. CacheInv'
  BY <1>2, <1>6 DEF CacheInv, Established
<1>9. ASSUME NEW d \in Callers, pc'[d] \in Connected
      PROVE  d # c /\ pc'[d] = pc[d] /\ fd'[d] = fd[d] /\ fd[d] # fd[c]
  <2>1. d # c
    BY <1>1, <1>9 DEF Connected
  <2> QED
    BY <1>1, <1>9, <2>1 DEF HoldInv
<1>10. ASSUME NEW d \in Callers, pc'[d] = "connect"
       PROVE  m_clientfd'[ChannelOf[d]] = Nil
  BY <1>4, <1>7, <1>9, <1>10 DEF HoldInv, Connected
<1>11. ASSUME NEW d \in Callers, pc'[d] \in Talking, ClientLong
       PROVE  m_clientfd'[ChannelOf[d]] = fd'[d]
  BY <1>7, <1>9, <1>11 DEF HoldInv, Connected, Talking
<1>12. HoldInv'
  BY <1>2, <1>9, <1>10, <1>11 DEF HoldInv, Established, Connected, Talking
<1>13. NoLeak'
  <2>1. ASSUME NEW f \in Fd, conn'[f].stage # "free"
        PROVE  f # fd[c] /\ conn[f].stage # "free"
    BY <1>2, <2>1 DEF NoConn
  <2>2. ASSUME NEW f \in Fd, f # fd[c], NEW d \in Callers, Holds(d, f)
        PROVE  Holds(d, f)'
    BY <1>1, <2>2 DEF Holds, Connected
  <2>3. ASSUME NEW f \in Fd, f # fd[c], NEW ch \in Channels, Caches(ch, f)
        PROVE  Caches(ch, f)'
    BY <1>7, <2>3 DEF Caches
  <2> QED
    BY <2>1, <2>2, <2>3 DEF NoLeak
<1> QED
  BY <1>3, <1>8, <1>12, <1>13

\* The connection a channel keeps is closed while no call holds it.
LEMMA FdDrop ==
  ASSUME Typed, FdInv, NEW ch \in Channels, m_clientfd[ch] # Nil,
         \A c \in Callers : ~Holds(c, m_clientfd[ch]),
         conn' = [conn EXCEPT ![m_clientfd[ch]] = NoConn],
         m_clientfd' = [m_clientfd EXCEPT ![ch] = Nil],
         m_provider_address' = [m_provider_address EXCEPT ![ch] = Nil],
         UNCHANGED <<pc, fd, holder>>
  PROVE  FdInv'
<1> USE ChannelAssumption DEF FdInv, Typed, TypeOK, HasFd
<1>1. LockInv'
  BY DEF LockInv
<1>2. ASSUME NEW dh \in Channels, dh # ch, m_clientfd[dh] # Nil
      PROVE  m_clientfd[dh] # m_clientfd[ch]
  BY <1>2 DEF CacheInv
<1>3. CacheInv'
  BY <1>2 DEF CacheInv, Established
<1>4. ASSUME NEW c \in Callers, pc[c] \in Connected
      PROVE  fd[c] # m_clientfd[ch]
  BY <1>4 DEF Holds
<1>5. HoldInv'
  BY <1>4 DEF HoldInv, Established, Connected, Talking
<1>6. NoLeak'
  <2>1. ASSUME NEW f \in Fd, conn'[f].stage # "free"
        PROVE  f # m_clientfd[ch] /\ conn[f].stage # "free"
    BY <2>1 DEF NoConn
  <2> QED
    BY <2>1 DEF NoLeak, Holds, Caches
<1> QED
  BY <1>1, <1>3, <1>5, <1>6

\* Who holds what a channel caches has the lock of the channel.
LEMMA HolderHasLock ==
  ASSUME Typed, FdInv, NEW c \in Callers, NEW ch \in Channels,
         m_clientfd[ch] # Nil, Holds(c, m_clientfd[ch])
  PROVE  holder[ch] = c
BY FdInvNoSharing DEF NoSharing, Caches, Typed, TypeOK

LEMMA FdBegin ==
  ASSUME Typed, FdInv, NEW c \in Callers,
         AskBreaker(c) \/ Prepare(c) \/ Choose(c)
  PROVE  FdInv'
<1>1. CASE AskBreaker(c)
  BY <1>1, FdKeep
     DEF AskBreaker, Admitted, Rejected, Goto, callVars, channelVars, Typed,
         TypeOK
<1>2. CASE SerializeFails(c)
  BY <1>2, FdLeave DEF SerializeFails, Connected
<1>3. CASE TakeLock(c)
  <2> USE <1>3, ChannelAssumption DEF TakeLock, Goto, Typed, TypeOK, FdInv
  <2>1. LockInv'
    <3>1. pc' = [pc EXCEPT ![c] = "provider"] /\ pc[c] = "serialize"
      OBVIOUS
    <3>2. CASE ClientLong
      <4>1. /\ holder[ChannelOf[c]] = Nil
            /\ holder' = [holder EXCEPT ![ChannelOf[c]] = c]
        BY <3>2
      <4>2. c # Nil /\ ChannelOf[c] \in Channels
        OBVIOUS
      <4>3. ASSUME NEW d \in Callers, d # c, pc[d] \in Locked
            PROVE  holder[ChannelOf[d]] = d /\ ChannelOf[d] # ChannelOf[c]
        BY <3>2, <4>1, <4>3 DEF LockInv
      <4>4. \A d \in Callers :
               pc'[d] \in Locked => holder'[ChannelOf[d]] = d
        BY <3>1, <4>1, <4>2, <4>3
      <4>5. \A d \in Callers, ch \in Channels : holder'[ch] = d =>
               ch = ChannelOf[d] /\ pc'[d] \in Locked
        BY <3>1, <4>1, <4>2 DEF LockInv, Locked
      <4> QED
        BY <3>2, <4>4, <4>5 DEF LockInv
    <3>3. CASE ~ClientLong
      BY <3>1, <3>3 DEF LockInv
    <3> QED
      BY <3>2, <3>3
  <2>2. CacheInv'
    BY DEF CacheInv, Established, channelVars
  <2>3. HoldInv'
    BY DEF HoldInv, Established, Connected, Talking, channelVars
  <2>4. NoLeak'
    BY DEF NoLeak, Holds, Caches, Connected, channelVars
  <2> QED
    BY <2>1, <2>2, <2>3, <2>4
<1>4. CASE NoProvider(c)
  BY <1>4, FdLeave DEF NoProvider, FailUnconnected, Connected
<1>5. ASSUME NEW a \in Address, PickProvider(c, a)
      PROVE  FdInv'
  BY <1>5, FdKeep DEF PickProvider, Goto, channelVars, Typed, TypeOK
<1> QED
  BY <1>1, <1>2, <1>3, <1>4, <1>5 DEF Prepare, Choose

\* A call with a new socket that its channel keeps.
LEMMA HoldConnect ==
  ASSUME HoldInv, HasFd, NEW c \in Callers,
         pc \in [Callers -> {"idle", "serialize"} \cup Locked],
         m_clientfd \in [Channels -> Fd \cup {Nil}],
         ChannelOf \in [Callers -> Channels],
         pc[c] = "connect", pc' = [pc EXCEPT ![c] = "send"], UNCHANGED fd,
         \A g \in Fd : g # fd[c] => conn'[g] = conn[g],
         conn'[fd[c]].stage = "open",
         m_clientfd' = [m_clientfd EXCEPT ![ChannelOf[c]] = fd[c]],
         \A d \in Callers : d # c /\ pc[d] \in Connected =>
           fd[d] # fd[c] /\ ChannelOf[d] # ChannelOf[c]
  PROVE  HoldInv'
<1>1. ASSUME NEW d \in Callers, d # c, pc'[d] \in Connected
      PROVE  /\ pc[d] = pc'[d] /\ fd'[d] = fd[d]
             /\ conn'[fd[d]] = conn[fd[d]]
             /\ m_clientfd'[ChannelOf[d]] = m_clientfd[ChannelOf[d]]
  BY <1>1 DEF HasFd
<1>2. /\ pc'[c] = "send" /\ fd'[c] = fd[c]
      /\ m_clientfd'[ChannelOf[c]] = fd[c]
  OBVIOUS
<1>3. ASSUME NEW d \in Callers, pc'[d] = "connect"
      PROVE  conn'[fd'[d]].stage = "new" /\ m_clientfd'[ChannelOf[d]] = Nil
  BY <1>1, <1>2, <1>3 DEF HoldInv, Connected
<1>4. ASSUME NEW d \in Callers, pc'[d] \in Talking
      PROVE  /\ conn'[fd'[d]].stage \in {"open", "shut"}
             /\ ClientLong => m_clientfd'[ChannelOf[d]] = fd'[d]
  <2>1. CASE d = c
    BY <1>2, <2>1
  <2>2. CASE d # c
    BY <1>1, <1>4, <2>2 DEF HoldInv, Established, Connected, Talking
  <2> QED
    BY <2>1, <2>2
<1>5. ASSUME NEW d \in Callers, NEW e \in Callers,
             pc'[d] \in Connected, pc'[e] \in Connected, fd'[d] = fd'[e]
      PROVE  d = e
  <2>1. pc[d] \in Connected /\ pc[e] \in Connected
    BY <1>1, <1>5 DEF Connected
  <2> QED
    BY <1>5, <2>1 DEF HoldInv
<1> QED
  BY <1>3, <1>4, <1>5 DEF HoldInv, Established

\* Nobody drops a descriptor, and one that comes into use is held by a call.
LEMMA NoLeakKept ==
  ASSUME NoLeak, NEW c \in Callers,
         \A ch \in Channels : m_clientfd[ch] # Nil =>
           m_clientfd'[ch] = m_clientfd[ch],
         \A d \in Callers, f \in Fd : Holds(d, f) => Holds(d, f)',
         \A f \in Fd : conn'[f].stage # "free" =>
           conn[f].stage # "free" \/ Holds(c, f),
         Nil \notin Fd
  PROVE  NoLeak'
<1> SUFFICES ASSUME NEW f \in Fd, conn'[f].stage # "free"
             PROVE  \/ \E d \in Callers : Holds(d, f)'
                    \/ \E ch \in Channels : Caches(ch, f)'
  BY DEF NoLeak
<1>1. CASE \E d \in Callers : Holds(d, f)
  BY <1>1
<1>2. CASE \E ch \in Channels : Caches(ch, f)
  BY <1>2 DEF Caches
<1> QED
  BY <1>1, <1>2 DEF NoLeak

LEMMA FdObtain ==
  ASSUME Typed, FdInv, NEW c \in Callers, Obtain(c)
  PROVE  FdInv'
<1> USE ChannelAssumption DEF Typed, TypeOK, HasFd
<1>1. CASE Reuse(c)
  <2> USE <1>1 DEF Reuse, CanReuse, FdInv, Goto
  <2>0. \A d \in Callers : ~Holds(d, m_clientfd[ChannelOf[c]])
    <3>1. holder[ChannelOf[c]] = c
      BY DEF LockInv, Locked
    <3> QED
      BY <3>1, HolderHasLock DEF Holds, Connected
  <2>1. LockInv'
    BY DEF LockInv, Locked
  <2>2. CacheInv'
    BY DEF CacheInv, Established, channelVars
  <2>3. HoldInv'
    BY <2>0 DEF HoldInv, CacheInv, Established, Connected, Talking, Holds,
                channelVars
  <2>4. NoLeak'
    BY DEF NoLeak, Holds, Caches, Connected, channelVars
  <2> QED
    BY <2>1, <2>2, <2>3, <2>4
<1>2. CASE CloseOther(c)
  <2>1. holder[ChannelOf[c]] = c
    BY <1>2 DEF CloseOther, FdInv, LockInv, Locked
  <2>2. \A d \in Callers : ~Holds(d, m_clientfd[ChannelOf[c]])
    BY <1>2, <2>1, HolderHasLock DEF CloseOther, Holds, Connected
  <2> QED
    BY <1>2, <2>2, FdDrop DEF CloseOther, CloseConnection
<1>3. CASE Socket(c)
  <2>1. PICK f \in FreeFd : /\ conn' = [conn EXCEPT ![f].stage = "new"]
                            /\ fd' = [fd EXCEPT ![c] = f]
    BY <1>3 DEF Socket
  <2>2. /\ pc[c] = "socket" /\ pc' = [pc EXCEPT ![c] = "connect"]
        /\ UNCHANGED <<channelVars, holder>>
        /\ ~ClientLong \/ m_clientfd[ChannelOf[c]] = Nil
    BY <1>3 DEF Socket, NeedsSocket, Goto
  <2>3. f \in Fd /\ conn[f].stage = "free"
    BY DEF FreeFd
  <2>4. \A g \in Fd : g # f => conn'[g] = conn[g]
    BY <2>1
  <2>5. conn'[f].stage = "new" /\ conn'[f].peer = conn[f].peer
    BY <2>1, <2>3 DEF Conn
  <2>6. \A d \in Callers : ~Holds(d, f)
    BY <2>3, FdInvNoSharing DEF NoSharing
  <2>7. \A ch \in Channels : m_clientfd[ch] # f
    BY <2>3, FdInvNoSharing DEF NoSharing, Caches
  <2> USE DEF FdInv
  <2>8. LockInv'
    BY <2>2 DEF LockInv, Locked
  <2>9. CacheInv'
    BY <2>2, <2>4, <2>7 DEF CacheInv, Established, channelVars
  <2>10. \A ch \in Channels : m_clientfd[ch] # Nil => ClientLong
    BY DEF CacheInv
  <2>11. HoldInv'
    BY <2>1, <2>2, <2>3, <2>4, <2>5, <2>6, <2>10
       DEF HoldInv, Established, Connected, Talking, Holds, channelVars
  <2>12. NoLeak'
    BY <2>1, <2>2, <2>3, <2>4
       DEF NoLeak, Holds, Caches, Connected, channelVars
  <2> QED
    BY <2>8, <2>9, <2>11, <2>12
<1>4. CASE SocketFails(c)
  BY <1>4, FdLeave DEF SocketFails, NeedsSocket, FailUnconnected, Connected
<1>5. CASE Connect(c)
  <2>1. /\ pc[c] = "connect" /\ pc' = [pc EXCEPT ![c] = "send"]
        /\ UNCHANGED <<fd, holder>>
    BY <1>5 DEF Connect, Goto
  <2>2. fd[c] \in Fd /\ fd[c] # Nil /\ conn[fd[c]].stage = "new"
    BY <2>1 DEF FdInv, HoldInv, Connected
  <2>3. \A g \in Fd : g # fd[c] => conn'[g] = conn[g]
    BY <1>5 DEF Connect
  <2>4. conn'[fd[c]].stage = "open" /\ conn'[fd[c]].peer = addr[c]
    BY <1>5, <2>2 DEF Connect, Conn
  <2>5. \A ch \in Channels : m_clientfd[ch] # fd[c]
    BY <2>2 DEF FdInv, CacheInv, Established
  <2>6. \A d \in Callers : d # c /\ pc[d] \in Connected => fd[d] # fd[c]
    BY <2>1 DEF FdInv, HoldInv, Connected
  <2>7. ASSUME ClientLong, NEW d \in Callers, d # c, pc[d] \in Locked
        PROVE  ChannelOf[d] # ChannelOf[c]
    BY <2>1, <2>7 DEF FdInv, LockInv, Locked
  <2>8. CASE ClientLong
    <3>1. /\ m_clientfd' = [m_clientfd EXCEPT ![ChannelOf[c]] = fd[c]]
          /\ m_provider_address' =
               [m_provider_address EXCEPT ![ChannelOf[c]] = addr[c]]
      BY <1>5, <2>8 DEF Connect
    <3> USE DEF FdInv
    <3>2. LockInv'
      BY <2>1 DEF LockInv, Locked
    <3>3. CacheInv'
      BY <2>2, <2>3, <2>4, <2>5, <2>8, <3>1 DEF CacheInv, Established
    <3>4. HoldInv'
      <4>1. \A d \in Callers : d # c /\ pc[d] \in Connected =>
               fd[d] # fd[c] /\ ChannelOf[d] # ChannelOf[c]
        BY <2>6, <2>7, <2>8 DEF Connected, Locked
      <4> QED
        BY <2>1, <2>2, <2>3, <2>4, <3>1, <4>1, HoldConnect
    <3>5. NoLeak'
      <4>1. m_clientfd[ChannelOf[c]] = Nil
        BY <2>1 DEF HoldInv
      <4>2. \A ch \in Channels : m_clientfd[ch] # Nil =>
               m_clientfd'[ch] = m_clientfd[ch]
        BY <3>1, <4>1
      <4>3. \A d \in Callers, f \in Fd : Holds(d, f) => Holds(d, f)'
        BY <2>1 DEF Holds, Connected
      <4>4. \A f \in Fd : conn'[f].stage # "free" =>
               conn[f].stage # "free" \/ Holds(c, f)
        BY <2>1, <2>3 DEF Holds, Connected
      <4> QED
        BY <4>2, <4>3, <4>4, NoLeakKept
    <3> QED
      BY <3>2, <3>3, <3>4, <3>5
  <2>9. CASE ~ClientLong
    <3>1. UNCHANGED channelVars
      BY <1>5, <2>9 DEF Connect
    <3> USE DEF FdInv, channelVars
    <3>2. LockInv'
      BY <2>1 DEF LockInv, Locked
    <3>3. CacheInv'
      BY <2>3, <2>5, <3>1 DEF CacheInv, Established
    <3>4. HoldInv'
      BY <2>1, <2>2, <2>3, <2>4, <2>6, <2>9, <3>1
         DEF HoldInv, Established, Connected, Talking
    <3>5. NoLeak'
      <4>1. \A d \in Callers, f \in Fd : Holds(d, f) => Holds(d, f)'
        BY <2>1 DEF Holds, Connected
      <4>2. \A f \in Fd : conn'[f].stage # "free" =>
               conn[f].stage # "free" \/ Holds(c, f)
        BY <2>1, <2>3 DEF Holds, Connected
      <4> QED
        BY <3>1, <4>1, <4>2, NoLeakKept
    <3> QED
      BY <3>2, <3>3, <3>4, <3>5
  <2> QED
    BY <2>8, <2>9
<1>6. CASE ConnectFails(c)
  BY <1>6, FdClose DEF ConnectFails, FailConnected, Connected
<1> QED
  BY <1>1, <1>2, <1>3, <1>4, <1>5, <1>6 DEF Obtain

LEMMA FdExchange ==
  ASSUME Typed, FdInv, NEW c \in Callers, Exchange(c)
  PROVE  FdInv'
<1>1. CASE Send(c)
  BY <1>1, FdKeep
     DEF Send, Goto, channelVars, Talking, Typed, TypeOK, Conn
<1>2. CASE RecvSize(c) \/ RecvBody(c)
  <2>1. /\ pc[c] \in Talking
        /\ \E label \in Talking : pc' = [pc EXCEPT ![c] = label]
        /\ conn' = [conn EXCEPT ![fd[c]].reply = Tail(@)]
        /\ UNCHANGED <<fd, channelVars, holder>>
    BY <1>2 DEF RecvSize, RecvBody, Recv, Goto, Talking
  <2> QED
    BY <2>1, FdKeep DEF Typed, TypeOK, Conn
<1>3. CASE SendFails(c) \/ RecvFails(c) \/ ParseFails(c)
  BY <1>3, FdClose DEF SendFails, RecvFails, ParseFails, FailConnected, Connected
<1>4. CASE Succeed(c)
  BY <1>4, FdClose, FdLeave DEF Succeed, Connected, Talking
<1> QED
  BY <1>1, <1>2, <1>3, <1>4 DEF Exchange

LEMMA FdOthers ==
  ASSUME Typed, FdInv,
         Providers \/ ClockTick \/ \E ch \in Channels : Destroy(ch)
  PROVE  FdInv'
<1>1. ASSUME NEW f \in Fd, Answer(f) \/ KeepSilent(f) \/ Refuse(f)
      PROVE  FdInv'
  <2>1. /\ UNCHANGED <<pc, fd, channelVars, holder>>
        /\ \A g \in Fd : g # f => conn'[g] = conn[g]
    BY <1>1 DEF Answer, KeepSilent, Refuse, Typed, TypeOK
  <2>2. /\ Established(f) /\ Established(f)'
        /\ conn'[f].peer = conn[f].peer
    BY <1>1 DEF Answer, KeepSilent, Refuse, Established, Typed, TypeOK, Conn
  <2> QED
    BY <2>1, <2>2, FdKeep
<1>2. ASSUME NEW a \in Address, Crash(a)
      PROVE  FdInv'
  <2>1. \A g \in Fd : /\ \/ conn'[g].stage = conn[g].stage
                         \/ Established(g) /\ Established(g)'
                      /\ conn'[g].peer = conn[g].peer
    BY <1>2 DEF Crash, Established, Typed, TypeOK, Conn
  <2> QED
    BY <1>2, <2>1, FdKeep DEF Crash
<1>3. CASE ClockTick \/ \E a \in Address : Restart(a)
  BY <1>3, FdKeep DEF ClockTick, Restart
<1>4. ASSUME NEW ch \in Channels, Destroy(ch)
      PROVE  FdInv'
  <2>1. \A c \in Callers : ~Holds(c, m_clientfd[ch])
    BY <1>4, HolderHasLock DEF Destroy, Holds, Connected, FdInv, LockInv
  <2> QED
    BY <1>4, <2>1, FdDrop DEF Destroy
<1> QED
  BY <1>1, <1>2, <1>3, <1>4 DEF Providers

LEMMA FdStep == Typed /\ FdInv /\ [Next]_vars => FdInv'
<1> SUFFICES ASSUME Typed, FdInv, [Next]_vars
             PROVE  FdInv'
  OBVIOUS
<1>1. ASSUME NEW c \in Callers, AskBreaker(c) \/ CallStep(c)
      PROVE  FdInv'
  BY <1>1, FdBegin, FdObtain, FdExchange DEF CallStep
<1>2. CASE UNCHANGED vars
  BY <1>2, FdKeep DEF vars
<1> QED
  BY <1>1, <1>2, FdOthers DEF Next

LEMMA FdAlways == SafetySpec => [](Typed /\ FdInv)
<1>1. Init => FdInv
  BY ChannelAssumption
     DEF Init, FdInv, LockInv, CacheInv, HoldInv, NoLeak, Locked, Talking,
         Connected, NoConn
<1> QED
  BY <1>1, FdStep, TypedAlways, PTL DEF SafetySpec

\* No descriptor is used or closed by two: not by two calls, not by two
\* channels, and not by a call behind the back of the channel that keeps it,
\* however descriptors are reused by the process.
THEOREM DescriptorsAreNotShared == SafetySpec => []NoSharing
BY FdAlways, FdInvNoSharing, PTL

\* On every path through CallMethod, a socket that has been made is closed or
\* is the connection the channel keeps.
THEOREM DescriptorsDoNotLeak == SafetySpec => []NoLeak
<1>1. FdInv => NoLeak
  BY DEF FdInv
<1> QED
  BY <1>1, FdAlways, PTL

-----------------------------------------------------------------------------
(* Replies.  The invariant follows the one exchange a connection can be    *)
(* in: a connection nobody holds is quiet, and one that a call holds       *)
(* carries that call's request, or its reply, or the rest of its reply,    *)
(* and nothing else.                                                       *)

Quiet(f) == conn[f].request = <<>> /\ conn[f].reply = <<>>
Asked(f, id) == conn[f].request = <<id>> /\ conn[f].reply = <<>>
Answered(f, id) ==
  /\ conn[f].request = <<>>
  /\ conn[f].reply = << <<"size", id>>, <<"body", id>> >>
HalfRead(f, id) ==
  conn[f].request = <<>> /\ conn[f].reply = << <<"body", id>> >>

Orderly(c) ==
  /\ pc[c] \in {"connect", "send", "done"} => Quiet(fd[c])
  /\ pc[c] = "size" =>
       Quiet(fd[c]) \/ Asked(fd[c], Id(c)) \/ Answered(fd[c], Id(c))
  /\ pc[c] = "body" => HalfRead(fd[c], Id(c))

Unheld(f) == \A c \in Callers : ~Holds(c, f)

QueueInv ==
  /\ \A f \in Fd : Unheld(f) => Quiet(f)
  /\ \A c \in Callers : Orderly(c)
  /\ OwnReply

ChannelInv == Typed /\ FdInv /\ QueueInv

LEMMA QueueInvClean == ChannelInv => CleanWhenIdle
<1> SUFFICES ASSUME ChannelInv, NEW ch \in Channels,
                    m_clientfd[ch] # Nil, holder[ch] = Nil
             PROVE  /\ conn[m_clientfd[ch]].peer = m_provider_address[ch]
                    /\ Quiet(m_clientfd[ch])
  BY DEF CleanWhenIdle, Quiet
<1>1. m_clientfd[ch] \in Fd
  BY DEF ChannelInv, Typed, TypeOK
<1>2. Unheld(m_clientfd[ch])
  BY HolderHasLock, ChannelAssumption DEF ChannelInv, Unheld
<1> QED
  BY <1>1, <1>2 DEF ChannelInv, QueueInv, FdInv, CacheInv

\* Nothing moves on any connection and nobody takes or drops one.
LEMMA QueueStill ==
  ASSUME ChannelInv, UNCHANGED conn,
         \A c \in Callers :
           \/ /\ pc'[c] = pc[c] /\ fd'[c] = fd[c]
              /\ turn'[c] = turn[c] /\ got'[c] = got[c]
           \/ /\ pc[c] \notin Connected /\ pc'[c] \notin Connected
              /\ got'[c] = {} \/ (turn'[c] = turn[c] /\ got'[c] = got[c])
  PROVE  QueueInv'
<1> USE DEF ChannelInv, QueueInv
<1>1. \A c \in Callers, f \in Fd : Holds(c, f)' <=> Holds(c, f)
  BY DEF Holds
<1>2. \A f \in Fd : Unheld(f)' => Quiet(f)'
  BY <1>1 DEF Unheld, Quiet
<1>3. ASSUME NEW c \in Callers
      PROVE  Orderly(c)'
  BY DEF Orderly, Quiet, Asked, Answered, HalfRead, Id, Connected
<1>4. OwnReply'
  BY DEF OwnReply, Id
<1> QED
  BY <1>2, <1>3, <1>4

\* One connection f changes, by or for the only call that may hold it.
LEMMA QueueMove ==
  ASSUME ChannelInv, NEW c \in Callers, NEW f \in Fd,
         \A g \in Fd : g # f => conn'[g] = conn[g],
         \A d \in Callers : d # c =>
           /\ ~Holds(d, f)
           /\ pc'[d] = pc[d] /\ fd'[d] = fd[d]
           /\ turn'[d] = turn[d] /\ got'[d] = got[d],
         Holds(c, f) \/ pc[c] \notin Connected,
         turn'[c] = turn[c],
         got'[c] \subseteq {Id(c)},
         IF pc'[c] \in Connected
           THEN fd'[c] = f /\ Orderly(c)'
           ELSE Quiet(f)'
  PROVE  QueueInv'
<1> USE DEF ChannelInv, QueueInv
<1>1. ASSUME NEW g \in Fd, Unheld(g)'
      PROVE  Quiet(g)'
  <2>1. CASE g = f
    BY <1>1, <2>1 DEF Unheld, Holds
  <2>2. CASE g # f
    <3>1. Unheld(g)
      BY <1>1, <2>2 DEF Unheld, Holds
    <3> QED
      BY <2>2, <3>1 DEF Quiet
  <2> QED
    BY <2>1, <2>2
<1>2. ASSUME NEW d \in Callers
      PROVE  Orderly(d)'
  <2>1. CASE d = c
    BY <2>1 DEF Orderly, Connected
  <2>2. CASE d # c /\ pc[d] \in Connected
    <3>1. fd[d] \in Fd /\ fd[d] # f
      BY <2>2 DEF Holds, Typed, HasFd
    <3>2. /\ pc'[d] = pc[d] /\ fd'[d] = fd[d] /\ Id(d)' = Id(d)
          /\ conn'[fd[d]] = conn[fd[d]]
      BY <2>2, <3>1 DEF Id
    <3>3. Orderly(d)
      OBVIOUS
    <3> HIDE DEF ChannelInv, QueueInv
    <3> QED
      BY <3>2, <3>3 DEF Orderly, Quiet, Asked, Answered, HalfRead
  <2>3. CASE d # c /\ pc[d] \notin Connected
    BY <2>3 DEF Orderly, Connected
  <2> QED
    BY <2>1, <2>2, <2>3
<1>3. OwnReply'
  BY DEF OwnReply, Id
<1> QED
  BY <1>1, <1>2, <1>3

\* The call that holds a descriptor is the only one.
LEMMA OnlyHolder ==
  ASSUME ChannelInv, NEW c \in Callers, pc[c] \in Connected
  PROVE  /\ fd[c] \in Fd
         /\ Holds(c, fd[c])
         /\ \A d \in Callers : d # c => ~Holds(d, fd[c])
BY DEF ChannelInv, Typed, HasFd, FdInv, HoldInv, Holds

\* A call that closes its connection and returns.
LEMMA QueueClose ==
  ASSUME ChannelInv, NEW c \in Callers, NEW outcome, Return(c, outcome),
         CloseConnection(c, fd[c]), pc[c] \in Connected
  PROVE  QueueInv'
<1>1. /\ pc' = [pc EXCEPT ![c] = "idle"]
      /\ fd' = [fd EXCEPT ![c] = Nil]
      /\ conn' = [conn EXCEPT ![fd[c]] = NoConn]
      /\ UNCHANGED <<turn, got>>
  BY DEF Return, Goto, CloseConnection, callVars
<1>2. PICK f \in Fd : /\ f = fd[c] /\ Holds(c, f)
                      /\ \A d \in Callers : d # c => ~Holds(d, f)
  BY OnlyHolder
<1>3. /\ Quiet(f)'
      /\ \A g \in Fd : g # f => conn'[g] = conn[g]
  BY <1>1, <1>2 DEF Quiet, NoConn, ChannelInv, Typed, TypeOK
<1>4. pc'[c] \notin Connected
  BY <1>1 DEF Connected, ChannelInv, Typed, TypeOK
<1>5. \A d \in Callers : d # c => pc'[d] = pc[d] /\ fd'[d] = fd[d]
  BY <1>1 DEF ChannelInv, Typed, TypeOK
<1> QED
  BY <1>1, <1>2, <1>3, <1>4, <1>5, QueueMove
     DEF ChannelInv, QueueInv, OwnReply

\* A call that has no connection returns.
LEMMA QueueLeave ==
  ASSUME ChannelInv, NEW c \in Callers, NEW outcome, Return(c, outcome),
         UNCHANGED conn, pc[c] \notin Connected
  PROVE  QueueInv'
BY QueueStill
   DEF Return, Goto, callVars, Connected, ChannelInv, Typed, TypeOK

LEMMA QueueBegin ==
  ASSUME ChannelInv, NEW c \in Callers,
         AskBreaker(c) \/ Prepare(c) \/ Choose(c)
  PROVE  QueueInv'
<1>1. CASE Admitted(c)
  BY <1>1, QueueStill
     DEF Admitted, Goto, Connected, ChannelInv, Typed, TypeOK
<1>2. CASE Rejected(c)
  BY <1>2, QueueStill DEF Rejected, callVars
<1>3. CASE SerializeFails(c)
  BY <1>3, QueueLeave DEF SerializeFails, Connected
<1>4. CASE TakeLock(c)
  BY <1>4, QueueStill
     DEF TakeLock, Goto, callVars, Connected, ChannelInv, Typed, TypeOK
<1>5. CASE NoProvider(c)
  BY <1>5, QueueLeave DEF NoProvider, FailUnconnected, Connected
<1>6. ASSUME NEW a \in Address, PickProvider(c, a)
      PROVE  QueueInv'
  BY <1>6, QueueStill
     DEF PickProvider, Goto, callVars, Connected, ChannelInv, Typed, TypeOK
<1> QED
  BY <1>1, <1>2, <1>3, <1>4, <1>5, <1>6 DEF AskBreaker, Prepare, Choose

\* A channel's connection that nobody holds is closed.
LEMMA QueueDrop ==
  ASSUME ChannelInv, NEW f \in Fd, Unheld(f),
         conn' = [conn EXCEPT ![f] = NoConn],
         UNCHANGED <<pc, fd, turn, got>>
  PROVE  QueueInv'
<1> USE DEF ChannelInv, QueueInv
<1>1. /\ Quiet(f)'
      /\ \A g \in Fd : g # f => conn'[g] = conn[g]
  BY DEF Quiet, NoConn, Typed, TypeOK
<1>2. ASSUME NEW g \in Fd, Unheld(g)'
      PROVE  Quiet(g)'
  <2>1. Unheld(g)
    BY <1>2 DEF Unheld, Holds
  <2> QED
    BY <1>1, <2>1 DEF Quiet
<1>3. ASSUME NEW c \in Callers
      PROVE  Orderly(c)'
  <2>1. CASE pc[c] \in Connected
    <3>1. fd[c] \in Fd /\ fd[c] # f
      BY <2>1 DEF Unheld, Holds, Typed, HasFd
    <3> QED
      BY <1>1, <3>1 DEF Orderly, Quiet, Asked, Answered, HalfRead, Id
  <2>2. CASE pc[c] \notin Connected
    BY <2>2 DEF Orderly, Connected
  <2> QED
    BY <2>1, <2>2
<1> QED
  BY <1>2, <1>3 DEF OwnReply, Id

LEMMA QueueObtain ==
  ASSUME ChannelInv, NEW c \in Callers, Obtain(c)
  PROVE  QueueInv'
<1> DEFINE ch == ChannelOf[c]
<1>0. ChannelOf[c] \in Channels
  BY ChannelAssumption
<1>1. ASSUME Reuse(c) \/ CloseOther(c)
      PROVE  m_clientfd[ch] \in Fd /\ Unheld(m_clientfd[ch])
  <2>1. /\ m_clientfd[ch] # Nil /\ pc[c] = "socket" /\ ClientLong
    BY <1>1 DEF Reuse, CanReuse, CloseOther
  <2>2. holder[ch] = c
    BY <2>1 DEF ChannelInv, FdInv, LockInv, Locked
  <2> QED
    BY <1>0, <2>1, <2>2, HolderHasLock
       DEF Unheld, Holds, Connected, ChannelInv, Typed, TypeOK
<1>2. CASE Reuse(c)
  <2>1. PICK f \in Fd : f = m_clientfd[ch] /\ Unheld(f)
    BY <1>1, <1>2
  <2>2. /\ pc[c] = "socket" /\ pc' = [pc EXCEPT ![c] = "send"]
        /\ fd' = [fd EXCEPT ![c] = f]
        /\ UNCHANGED <<conn, turn, got>>
    BY <1>2, <2>1 DEF Reuse, Goto, callVars
  <2>3. pc'[c] = "send" /\ fd'[c] = f
    BY <2>2 DEF ChannelInv, Typed, TypeOK
  <2>4. Orderly(c)'
    BY <2>1, <2>2, <2>3 DEF Orderly, ChannelInv, QueueInv, Quiet
  <2>5. \A d \in Callers : d # c =>
          ~Holds(d, f) /\ pc'[d] = pc[d] /\ fd'[d] = fd[d]
    BY <2>1, <2>2 DEF Unheld, ChannelInv, Typed, TypeOK
  <2> QED
    BY <2>2, <2>3, <2>4, <2>5, QueueMove
       DEF Connected, ChannelInv, QueueInv, OwnReply
<1>3. CASE CloseOther(c)
  BY <1>1, <1>3, QueueDrop DEF CloseOther, CloseConnection, callVars
<1>4. CASE Socket(c)
  <2>1. PICK f \in FreeFd : /\ conn' = [conn EXCEPT ![f].stage = "new"]
                            /\ fd' = [fd EXCEPT ![c] = f]
    BY <1>4 DEF Socket
  <2>2. f \in Fd /\ Unheld(f)
    BY FdInvNoSharing DEF FreeFd, NoSharing, Unheld, ChannelInv
  <2>3. /\ pc[c] = "socket" /\ pc' = [pc EXCEPT ![c] = "connect"]
        /\ UNCHANGED <<turn, got>>
    BY <1>4 DEF Socket, NeedsSocket, Goto, callVars
  <2>4. pc'[c] = "connect" /\ fd'[c] = f
    BY <2>1, <2>3 DEF ChannelInv, Typed, TypeOK
  <2>5. /\ \A g \in Fd : g # f => conn'[g] = conn[g]
        /\ conn'[f].request = conn[f].request
        /\ conn'[f].reply = conn[f].reply
    BY <2>1, <2>2 DEF ChannelInv, Typed, TypeOK, Conn
  <2>6. Orderly(c)'
    BY <2>2, <2>4, <2>5 DEF Orderly, ChannelInv, QueueInv, Quiet
  <2>7. \A d \in Callers : d # c =>
          ~Holds(d, f) /\ pc'[d] = pc[d] /\ fd'[d] = fd[d]
    BY <2>1, <2>2, <2>3 DEF Unheld, ChannelInv, Typed, TypeOK
  <2> QED
    BY <2>2, <2>3, <2>4, <2>5, <2>6, <2>7, QueueMove
       DEF Connected, ChannelInv, QueueInv, OwnReply
<1>5. CASE SocketFails(c)
  BY <1>5, QueueLeave DEF SocketFails, NeedsSocket, FailUnconnected, Connected
<1>6. CASE Connect(c)
  <2>1. /\ pc[c] = "connect" /\ pc' = [pc EXCEPT ![c] = "send"]
        /\ conn' = [conn EXCEPT ![fd[c]].stage = "open", ![fd[c]].peer = addr[c]]
        /\ UNCHANGED <<fd, turn, got>>
    BY <1>6 DEF Connect, Goto, callVars
  <2>2. PICK f \in Fd : /\ f = fd[c] /\ Holds(c, f)
                        /\ \A d \in Callers : d # c => ~Holds(d, f)
    BY <2>1, OnlyHolder DEF Connected
  <2>3. /\ \A g \in Fd : g # f => conn'[g] = conn[g]
        /\ conn'[f].request = conn[f].request
        /\ conn'[f].reply = conn[f].reply
    BY <2>1, <2>2 DEF ChannelInv, Typed, TypeOK, Conn
  <2>4. pc'[c] = "send" /\ fd'[c] = f
    BY <2>1, <2>2 DEF ChannelInv, Typed, TypeOK
  <2>5. Orderly(c)'
    BY <2>1, <2>2, <2>3, <2>4 DEF Orderly, ChannelInv, QueueInv, Quiet
  <2>6. \A d \in Callers : d # c => pc'[d] = pc[d] /\ fd'[d] = fd[d]
    BY <2>1 DEF ChannelInv, Typed, TypeOK
  <2> QED
    BY <2>1, <2>2, <2>3, <2>4, <2>5, <2>6, QueueMove
       DEF Connected, ChannelInv, QueueInv, OwnReply
<1>7. CASE ConnectFails(c)
  BY <1>7, QueueClose DEF ConnectFails, FailConnected, Connected
<1> QED
  BY <1>2, <1>3, <1>4, <1>5, <1>6, <1>7 DEF Obtain

LEMMA QueueExchange ==
  ASSUME ChannelInv, NEW c \in Callers, Exchange(c)
  PROVE  QueueInv'
<1>0. pc[c] \in Connected
  BY DEF Exchange, Send, SendFails, RecvSize, RecvBody, RecvFails, ParseFails,
         Succeed, Connected
<1>1. PICK f \in Fd : /\ f = fd[c] /\ Holds(c, f)
                      /\ \A d \in Callers : d # c => ~Holds(d, f)
  BY <1>0, OnlyHolder
<1>2. conn[f] \in Conn /\ got[c] \subseteq {Id(c)}
  BY DEF ChannelInv, Typed, TypeOK, QueueInv, OwnReply
<1>3. CASE Send(c)
  <2>1. /\ pc[c] = "send" /\ pc' = [pc EXCEPT ![c] = "size"]
        /\ UNCHANGED <<fd, turn, got>>
    BY <1>3 DEF Send, Goto, callVars
  <2>2. /\ \A g \in Fd : g # f => conn'[g] = conn[g]
        /\ conn'[f].reply = conn[f].reply
        /\ \/ conn'[f].request = conn[f].request
           \/ conn'[f].request = Append(conn[f].request, Id(c))
    BY <1>1, <1>2, <1>3 DEF Send, ChannelInv, Typed, TypeOK, Conn
  <2>3. pc'[c] = "size" /\ fd'[c] = f /\ Id(c)' = Id(c)
    BY <1>1, <2>1 DEF Id, ChannelInv, Typed, TypeOK
  <2>4. conn[f].request = <<>> /\ conn[f].reply = <<>>
    BY <1>1, <2>1 DEF ChannelInv, QueueInv, Orderly, Quiet
  <2>5. Append(<<>>, Id(c)) = <<Id(c)>>
    OBVIOUS
  <2>6. Orderly(c)'
    BY <2>2, <2>3, <2>4, <2>5 DEF Orderly, Quiet, Asked
  <2>7. \A d \in Callers : d # c => pc'[d] = pc[d] /\ fd'[d] = fd[d]
    BY <2>1 DEF ChannelInv, Typed, TypeOK
  <2> QED
    BY <1>1, <1>2, <2>1, <2>2, <2>3, <2>6, <2>7, QueueMove DEF Connected
<1>4. CASE RecvSize(c)
  <2>1. /\ pc[c] = "size" /\ pc' = [pc EXCEPT ![c] = "body"]
        /\ conn[f].reply # <<>>
        /\ got' = [got EXCEPT ![c] = @ \cup {Head(conn[f].reply)[2]}]
        /\ conn' = [conn EXCEPT ![f].reply = Tail(@)]
        /\ UNCHANGED <<fd, turn>>
    BY <1>1, <1>4 DEF RecvSize, Recv, Goto
  <2>2. Answered(f, Id(c))
    BY <1>1, <2>1 DEF ChannelInv, QueueInv, Orderly, Quiet, Asked
  <2>3. /\ Head(conn[f].reply) = <<"size", Id(c)>>
        /\ Tail(conn[f].reply) = << <<"body", Id(c)>> >>
    BY <2>2 DEF Answered
  <2>4. got'[c] \subseteq {Id(c)} /\ \A d \in Callers : d # c => got'[d] = got[d]
    BY <1>2, <2>1, <2>3 DEF ChannelInv, Typed, TypeOK
  <2>5. /\ \A g \in Fd : g # f => conn'[g] = conn[g]
        /\ conn'[f].reply = Tail(conn[f].reply)
        /\ conn'[f].request = conn[f].request
    BY <1>2, <2>1 DEF ChannelInv, Typed, TypeOK, Conn
  <2>6. pc'[c] = "body" /\ fd'[c] = f /\ Id(c)' = Id(c)
    BY <1>1, <2>1 DEF Id, ChannelInv, Typed, TypeOK
  <2>7. Orderly(c)'
    BY <2>2, <2>3, <2>5, <2>6 DEF Orderly, HalfRead, Answered
  <2>8. \A d \in Callers : d # c => pc'[d] = pc[d] /\ fd'[d] = fd[d]
    BY <2>1 DEF ChannelInv, Typed, TypeOK
  <2> QED
    BY <1>1, <2>1, <2>4, <2>5, <2>6, <2>7, <2>8, QueueMove DEF Connected
<1>5. CASE RecvBody(c)
  <2>1. /\ pc[c] = "body" /\ pc' = [pc EXCEPT ![c] = "done"]
        /\ conn[f].reply # <<>>
        /\ got' = [got EXCEPT ![c] = @ \cup {Head(conn[f].reply)[2]}]
        /\ conn' = [conn EXCEPT ![f].reply = Tail(@)]
        /\ UNCHANGED <<fd, turn>>
    BY <1>1, <1>5 DEF RecvBody, Recv, Goto
  <2>2. HalfRead(f, Id(c))
    BY <1>1, <2>1 DEF ChannelInv, QueueInv, Orderly
  <2>3. /\ Head(conn[f].reply) = <<"body", Id(c)>>
        /\ Tail(conn[f].reply) = <<>>
    BY <2>2 DEF HalfRead
  <2>4. got'[c] \subseteq {Id(c)} /\ \A d \in Callers : d # c => got'[d] = got[d]
    BY <1>2, <2>1, <2>3 DEF ChannelInv, Typed, TypeOK
  <2>5. /\ \A g \in Fd : g # f => conn'[g] = conn[g]
        /\ conn'[f].reply = Tail(conn[f].reply)
        /\ conn'[f].request = conn[f].request
    BY <1>2, <2>1 DEF ChannelInv, Typed, TypeOK, Conn
  <2>6. pc'[c] = "done" /\ fd'[c] = f
    BY <1>1, <2>1 DEF ChannelInv, Typed, TypeOK
  <2>7. Orderly(c)'
    BY <2>2, <2>3, <2>5, <2>6 DEF Orderly, HalfRead, Quiet
  <2>8. \A d \in Callers : d # c => pc'[d] = pc[d] /\ fd'[d] = fd[d]
    BY <2>1 DEF ChannelInv, Typed, TypeOK
  <2> QED
    BY <1>1, <2>1, <2>4, <2>5, <2>6, <2>7, <2>8, QueueMove DEF Connected
<1>6. CASE SendFails(c) \/ RecvFails(c) \/ ParseFails(c)
  BY <1>0, <1>6, QueueClose DEF SendFails, RecvFails, ParseFails, FailConnected
<1>7. CASE Succeed(c) /\ ~ClientLong
  BY <1>0, <1>7, QueueClose DEF Succeed
<1>8. CASE Succeed(c) /\ ClientLong
  <2>1. /\ pc[c] = "done" /\ pc' = [pc EXCEPT ![c] = "idle"]
        /\ fd' = [fd EXCEPT ![c] = Nil]
        /\ UNCHANGED <<conn, turn, got>>
    BY <1>8 DEF Succeed, Return, Goto, callVars
  <2>2. Quiet(f)'
    BY <1>1, <2>1 DEF ChannelInv, QueueInv, Orderly, Quiet
  <2>3. pc'[c] \notin Connected
    BY <2>1 DEF Connected, ChannelInv, Typed, TypeOK
  <2>4. \A d \in Callers : d # c => pc'[d] = pc[d] /\ fd'[d] = fd[d]
    BY <2>1 DEF ChannelInv, Typed, TypeOK
  <2> QED
    BY <1>1, <1>2, <2>1, <2>2, <2>3, <2>4, QueueMove
<1> QED
  BY <1>3, <1>4, <1>5, <1>6, <1>7, <1>8 DEF Exchange

\* Requests are dropped, at most, and no reply moves.
LEMMA QueueDropRequests ==
  ASSUME ChannelInv, UNCHANGED <<pc, fd, turn, got>>,
         \A f \in Fd :
           /\ conn'[f].reply = conn[f].reply
           /\ conn'[f].request = conn[f].request \/ conn'[f].request = <<>>
  PROVE  QueueInv'
<1> USE DEF ChannelInv, QueueInv
<1>1. ASSUME NEW f \in Fd, Unheld(f)'
      PROVE  Quiet(f)'
  BY <1>1 DEF Unheld, Holds, Quiet
<1>2. ASSUME NEW c \in Callers
      PROVE  Orderly(c)'
  <2>1. CASE pc[c] \in Connected
    BY <2>1, OnlyHolder DEF Orderly, Quiet, Asked, Answered, HalfRead, Id
  <2>2. CASE pc[c] \notin Connected
    BY <2>2 DEF Orderly, Connected
  <2> QED
    BY <2>1, <2>2
<1> QED
  BY <1>1, <1>2 DEF OwnReply, Id

\* A request that waits is that of the call that holds the connection.
LEMMA RequestIsHolders ==
  ASSUME ChannelInv, NEW f \in Fd, conn[f].request # <<>>
  PROVE  \E c \in Callers : /\ pc[c] = "size" /\ fd[c] = f /\ Holds(c, f)
                            /\ Asked(f, Id(c))
<1>1. PICK c \in Callers : Holds(c, f)
  BY DEF ChannelInv, QueueInv, Unheld, Quiet
<1> QED
  BY <1>1 DEF Holds, Connected, ChannelInv, QueueInv, Orderly, Quiet,
              Answered, HalfRead

LEMMA QueueOthers ==
  ASSUME ChannelInv,
         Providers \/ ClockTick \/ \E ch \in Channels : Destroy(ch)
  PROVE  QueueInv'
<1> USE DEF callVars
<1>1. ASSUME NEW f \in Fd, Answer(f)
      PROVE  QueueInv'
  <2>1. PICK c \in Callers : /\ pc[c] = "size" /\ fd[c] = f /\ Holds(c, f)
                             /\ Asked(f, Id(c))
    BY <1>1, RequestIsHolders DEF Answer
  <2>2. /\ UNCHANGED <<pc, fd, turn, got>>
        /\ \A g \in Fd : g # f => conn'[g] = conn[g]
        /\ conn'[f].request = Tail(conn[f].request)
        /\ conn'[f].reply = conn[f].reply \o
             << <<"size", Head(conn[f].request)>>,
                <<"body", Head(conn[f].request)>> >>
    BY <1>1 DEF Answer, ChannelInv, Typed, TypeOK, Conn
  <2>3. conn[f].request = <<Id(c)>> /\ conn[f].reply = <<>>
    BY <2>1 DEF Asked
  <2>4. conn'[f].request = <<>>
    BY <2>2, <2>3
  <2>5. conn'[f].reply = << <<"size", Id(c)>>, <<"body", Id(c)>> >>
    BY <2>2, <2>3
  <2>6. Orderly(c)'
    BY <2>1, <2>2, <2>4, <2>5 DEF Orderly, Answered, Id
  <2>7. \A d \in Callers : d # c => ~Holds(d, f)
    BY <2>1, OnlyHolder DEF Holds
  <2> QED
    BY <2>1, <2>2, <2>6, <2>7, QueueMove
       DEF ChannelInv, QueueInv, OwnReply, Connected
<1>2. ASSUME NEW f \in Fd, KeepSilent(f)
      PROVE  QueueInv'
  <2>1. PICK c \in Callers : Asked(f, Id(c))
    BY <1>2, RequestIsHolders DEF KeepSilent
  <2>2. Tail(conn[f].request) = <<>>
    BY <2>1 DEF Asked
  <2> QED
    BY <1>2, <2>2, QueueDropRequests
       DEF KeepSilent, ChannelInv, Typed, TypeOK, Conn
<1>3. ASSUME NEW f \in Fd, Refuse(f)
      PROVE  QueueInv'
  BY <1>3, QueueDropRequests DEF Refuse, ChannelInv, Typed, TypeOK, Conn
<1>4. ASSUME NEW a \in Address, Crash(a)
      PROVE  QueueInv'
  BY <1>4, QueueDropRequests DEF Crash, ChannelInv, Typed, TypeOK, Conn
<1>5. CASE ClockTick \/ \E a \in Address : Restart(a)
  BY <1>5, QueueDropRequests DEF ClockTick, Restart
<1>6. ASSUME NEW ch \in Channels, Destroy(ch)
      PROVE  QueueInv'
  <2>1. m_clientfd[ch] \in Fd
    BY <1>6 DEF Destroy, ChannelInv, Typed, TypeOK
  <2>2. Unheld(m_clientfd[ch])
    BY <1>6, HolderHasLock
       DEF Destroy, Unheld, Holds, Connected, ChannelInv, FdInv, LockInv
  <2> QED
    BY <1>6, <2>1, <2>2, QueueDrop DEF Destroy
<1> QED
  BY <1>1, <1>2, <1>3, <1>4, <1>5, <1>6 DEF Providers

LEMMA ChannelStep == ChannelInv /\ [Next]_vars => ChannelInv'
<1> SUFFICES ASSUME ChannelInv, [Next]_vars
             PROVE  QueueInv'
  BY TypeStep, FdStep DEF ChannelInv
<1>1. ASSUME NEW c \in Callers, AskBreaker(c) \/ CallStep(c)
      PROVE  QueueInv'
  BY <1>1, QueueBegin, QueueObtain, QueueExchange DEF CallStep
<1>2. CASE UNCHANGED vars
  BY <1>2, QueueDropRequests DEF vars, callVars
<1> QED
  BY <1>1, <1>2, QueueOthers DEF Next

LEMMA ChannelAlways == SafetySpec => []ChannelInv
<1>1. Init => QueueInv
  BY DEF Init, QueueInv, Orderly, OwnReply, Quiet, NoConn
<1>2. Typed /\ FdInv /\ QueueInv => ChannelInv
  BY DEF ChannelInv
<1> QED
  BY <1>1, <1>2, ChannelStep, FdAlways, PTL DEF SafetySpec

\* A call reads only the reply to its own request, although nothing in a frame
\* names the call it belongs to.
THEOREM RepliesAreOwn == SafetySpec => []OwnReply
<1>1. ChannelInv => OwnReply
  BY DEF ChannelInv, QueueInv
<1> QED
  BY <1>1, ChannelAlways, PTL

\* The connection an idle channel keeps goes where the channel says, and no
\* request or reply of an earlier call is left on it.
THEOREM KeptConnectionsAreClean == SafetySpec => []CleanWhenIdle
BY ChannelAlways, QueueInvClean, PTL

-----------------------------------------------------------------------------
(* Each descriptor carries a MessageConnection.                            *)

On(f) == <<StageOn(f), PlaceOn(f), CallOn(f), conn[f].request, conn[f].reply>>

\* Who talks on a descriptor is who is seen to use it.
LEMMA TalkerSeen ==
  ASSUME NEW f \in Fd, NEW c \in Callers
  PROVE  /\ Talks(c, f) /\ (\A d \in Callers : Talks(d, f) => d = c) =>
              PlaceOn(f) = pc[c] /\ CallOn(f) = Id(c)
         /\ (Talks(c, f) /\ \A d \in Callers : Talks(d, f) => d = c)' =>
              PlaceOn(f)' = pc'[c] /\ CallOn(f)' = Id(c)'
<1>1. Talks(c, f) /\ (\A d \in Callers : Talks(d, f) => d = c) => Talker(f) = c
  BY DEF Talker
<1>2. (Talks(c, f) /\ \A d \in Callers : Talks(d, f) => d = c)' => Talker(f)' = c
  BY DEF Talker
<1>3. (Talks(c, f) => IsUsed(f)) /\ (Talks(c, f)' => IsUsed(f)')
  BY DEF IsUsed
<1> QED
  BY <1>1, <1>2, <1>3 DEF PlaceOn, CallOn, Id

LEMMA NobodySeen ==
  ASSUME NEW f \in Fd
  PROVE  /\ (\A c \in Callers : ~Talks(c, f)) => PlaceOn(f) = "idle" /\ CallOn(f) = Nil
         /\ (\A c \in Callers : ~Talks(c, f)') =>
              PlaceOn(f)' = "idle" /\ CallOn(f)' = Nil
BY DEF PlaceOn, CallOn, IsUsed

\* Only the holder talks.
LEMMA OneTalker ==
  ASSUME ChannelInv, ChannelInv', NEW f \in Fd, NEW c \in Callers
  PROVE  /\ Talks(c, f) => Holds(c, f) /\ \A d \in Callers : Talks(d, f) => d = c
         /\ Talks(c, f)' => \A d \in Callers : Talks(d, f)' => d = c
BY DEF Talks, Holds, Connected, ChannelInv, FdInv, HoldInv

\* A connection that is left alone, and whose talker does not move.
LEMMA OnKept ==
  ASSUME ChannelInv, ChannelInv', NEW f \in Fd,
         StageOn(f)' = StageOn(f),
         conn'[f].request = conn[f].request, conn'[f].reply = conn[f].reply,
         \A c \in Callers :
           /\ Talks(c, f)' <=> Talks(c, f)
           /\ Talks(c, f) => pc'[c] = pc[c] /\ turn'[c] = turn[c]
  PROVE  UNCHANGED On(f)
<1>1. PlaceOn(f)' = PlaceOn(f) /\ CallOn(f)' = CallOn(f)
  <2>1. CASE \E c \in Callers : Talks(c, f)
    <3>1. PICK c \in Callers : Talks(c, f)
      BY <2>1
    <3>2. PlaceOn(f) = pc[c] /\ CallOn(f) = Id(c)
      BY <3>1, OneTalker, TalkerSeen
    <3>3. PlaceOn(f)' = pc'[c] /\ CallOn(f)' = Id(c)'
      BY <3>1, OneTalker, TalkerSeen
    <3> QED
      BY <3>1, <3>2, <3>3 DEF Id
  <2>2. CASE \A c \in Callers : ~Talks(c, f)
    BY <2>2, NobodySeen
  <2> QED
    BY <2>1, <2>2
<1> QED
  BY <1>1 DEF On

\* A step of one call, seen on the connections that it does not touch.
LEMMA OnOthers ==
  ASSUME ChannelInv, ChannelInv', NEW c \in Callers, NEW f \in Fd,
         conn'[f] = conn[f], ~Talks(c, f), ~Talks(c, f)',
         \A d \in Callers : d # c =>
           pc'[d] = pc[d] /\ fd'[d] = fd[d] /\ turn'[d] = turn[d]
  PROVE  UNCHANGED On(f)
<1>1. \A d \in Callers :
        /\ Talks(d, f)' <=> Talks(d, f)
        /\ Talks(d, f) => pc'[d] = pc[d] /\ turn'[d] = turn[d]
  BY DEF Talks
<1>2. StageOn(f)' = StageOn(f)
  BY DEF StageOn
<1> QED
  BY <1>1, <1>2, OnKept

\* A connection that nobody talks on any more, or that nobody has talked on.
LEMMA OnClosed ==
  ASSUME NEW f \in Fd, conn \in [Fd -> Conn], conn'[f] = NoConn,
         \A c \in Callers : ~Talks(c, f)',
         \/ Established(f)
         \/ Quiet(f) /\ \A c \in Callers : ~Talks(c, f)
  PROVE  OnFd(f)!Next \/ UNCHANGED On(f)
<1>1. /\ StageOn(f)' = "closed" /\ PlaceOn(f)' = "idle" /\ CallOn(f)' = Nil
      /\ conn'[f].request = <<>> /\ conn'[f].reply = <<>>
  BY NobodySeen DEF StageOn, NoConn
<1>2. CASE Established(f)
  <2>1. StageOn(f) # "closed"
    BY <1>2 DEF StageOn, Established
  <2>2. OnFd(f)!Close
    BY <1>1, <2>1 DEF OnFd!Close
  <2> QED
    BY <2>2 DEF OnFd!Next
<1>3. CASE ~Established(f) /\ Quiet(f) /\ \A c \in Callers : ~Talks(c, f)
  <2>1. StageOn(f) = "closed" /\ PlaceOn(f) = "idle" /\ CallOn(f) = Nil
    BY <1>3, NobodySeen DEF StageOn, Established, Conn
  <2> QED
    BY <1>1, <1>3, <2>1 DEF On, Quiet
<1> QED
  BY <1>2, <1>3

\* A call that closes its descriptor and returns.
LEMMA OnCloseStep ==
  ASSUME ChannelInv, ChannelInv', NEW c \in Callers, NEW outcome, Return(c, outcome),
         CloseConnection(c, fd[c]), pc[c] \in Connected, NEW f \in Fd
  PROVE  OnFd(f)!Next \/ UNCHANGED On(f)
<1>1. /\ pc' = [pc EXCEPT ![c] = "idle"] /\ fd' = [fd EXCEPT ![c] = Nil]
      /\ conn' = [conn EXCEPT ![fd[c]] = NoConn] /\ UNCHANGED turn
  BY DEF Return, Goto, CloseConnection, callVars
<1>2. /\ conn \in [Fd -> Conn] /\ pc'[c] = "idle" /\ ~Talks(c, f)'
      /\ \A d \in Callers : d # c => pc'[d] = pc[d] /\ fd'[d] = fd[d] /\ turn'[d] = turn[d]
  BY <1>1 DEF ChannelInv, Typed, TypeOK, Talks
<1>3. /\ fd[c] \in Fd /\ \A d \in Callers : d # c => ~Holds(d, fd[c])
  BY OnlyHolder
<1>4. CASE f = fd[c]
  <2>1. conn'[f] = NoConn
    BY <1>1, <1>2, <1>4
  <2>2. \A d \in Callers : ~Talks(d, f)'
    BY <1>2, <1>3, <1>4 DEF Talks, Holds, Connected
  <2>3. Established(f) \/ (Quiet(f) /\ \A d \in Callers : ~Talks(d, f))
    <3>1. CASE pc[c] \in Talking
      BY <1>4, <3>1 DEF ChannelInv, FdInv, HoldInv
    <3>2. CASE pc[c] = "connect"
      BY <1>3, <1>4, <3>2 DEF ChannelInv, QueueInv, Orderly, Talks, Holds, Connected
    <3> QED
      BY <3>1, <3>2 DEF Connected, Talking
  <2> QED
    BY <1>2, <2>1, <2>2, <2>3, OnClosed
<1>5. CASE f # fd[c]
  <2>1. conn'[f] = conn[f] /\ ~Talks(c, f)
    BY <1>1, <1>2, <1>5 DEF Talks
  <2> QED
    BY <1>2, <2>1, OnOthers
<1> QED
  BY <1>4, <1>5

\* A step of a call that has no connection yet, or gives none back.
LEMMA OnQuietStep ==
  ASSUME ChannelInv, ChannelInv', NEW c \in Callers, UNCHANGED conn,
         pc[c] \notin {"send", "size", "body"}, pc'[c] \notin {"send", "size", "body"},
         \A d \in Callers : d # c =>
           pc'[d] = pc[d] /\ fd'[d] = fd[d] /\ turn'[d] = turn[d],
         NEW f \in Fd
  PROVE  UNCHANGED On(f)
BY OnOthers DEF Talks

LEMMA OnBegin ==
  ASSUME ChannelInv, ChannelInv', NEW c \in Callers,
         AskBreaker(c) \/ Prepare(c) \/ Choose(c), NEW f \in Fd
  PROVE  OnFd(f)!Next \/ UNCHANGED On(f)
<1>1. /\ UNCHANGED conn /\ pc[c] \notin {"send", "size", "body"}
      /\ pc'[c] \notin {"send", "size", "body"}
      /\ \A d \in Callers : d # c =>
           pc'[d] = pc[d] /\ fd'[d] = fd[d] /\ turn'[d] = turn[d]
  BY DEF AskBreaker, Admitted, Rejected, Prepare, SerializeFails, TakeLock, Choose,
         NoProvider, PickProvider, FailUnconnected, Return, Goto, callVars,
         ChannelInv, Typed, TypeOK
<1> QED
  BY <1>1, OnQuietStep

LEMMA OnObtain ==
  ASSUME ChannelInv, ChannelInv', NEW c \in Callers, Obtain(c), NEW f \in Fd
  PROVE  OnFd(f)!Next \/ UNCHANGED On(f)
<1> DEFINE ch == ChannelOf[c]
<1>1. ch \in Channels /\ conn \in [Fd -> Conn] /\ Id(c) \in CallId
  BY ChannelAssumption DEF ChannelInv, Typed, TypeOK, Id, CallId
<1>2. ASSUME Reuse(c) \/ CloseOther(c)
      PROVE  /\ m_clientfd[ch] \in Fd /\ Unheld(m_clientfd[ch])
             /\ Established(m_clientfd[ch]) /\ Quiet(m_clientfd[ch])
  <2>1. /\ m_clientfd[ch] # Nil /\ pc[c] = "socket" /\ ClientLong
    BY <1>2 DEF Reuse, CanReuse, CloseOther
  <2>2. holder[ch] = c
    BY <2>1 DEF ChannelInv, FdInv, LockInv, Locked
  <2>3. m_clientfd[ch] \in Fd /\ Unheld(m_clientfd[ch])
    BY <1>1, <2>1, <2>2, HolderHasLock
       DEF Unheld, Holds, Connected, ChannelInv, Typed, TypeOK
  <2> QED
    BY <1>1, <2>1, <2>3 DEF ChannelInv, FdInv, CacheInv, QueueInv
<1>3. ASSUME NEW g \in Fd, Unheld(g)
      PROVE  /\ \A d \in Callers : ~Talks(d, g)
             /\ PlaceOn(g) = "idle" /\ CallOn(g) = Nil
  <2>1. \A d \in Callers : ~Talks(d, g)
    BY <1>3 DEF Unheld, Talks, Holds, Connected
  <2> QED
    BY <2>1, NobodySeen
<1>4. CASE Reuse(c)
  <2>1. /\ pc[c] = "socket" /\ pc' = [pc EXCEPT ![c] = "send"]
        /\ fd' = [fd EXCEPT ![c] = m_clientfd[ch]] /\ UNCHANGED <<conn, turn>>
    BY <1>4 DEF Reuse, Goto, callVars
  <2>2. /\ pc'[c] = "send" /\ fd'[c] = m_clientfd[ch] /\ ~Talks(c, f)
        /\ \A d \in Callers : d # c => pc'[d] = pc[d] /\ fd'[d] = fd[d] /\ turn'[d] = turn[d]
    BY <2>1 DEF ChannelInv, Typed, TypeOK, Talks
  <2>3. CASE f = m_clientfd[ch]
    <3>1. PlaceOn(f) = "idle" /\ Established(f)
      BY <1>2, <1>3, <1>4, <2>3
    <3>2. Talks(c, f)'
      BY <2>2, <2>3 DEF Talks
    <3>3. PlaceOn(f)' = "send" /\ CallOn(f)' = Id(c)
      BY <2>1, <2>2, <3>2, OneTalker, TalkerSeen DEF Id
    <3>4. StageOn(f) # "closed" /\ StageOn(f)' = StageOn(f)
      BY <2>1, <3>1 DEF StageOn, Established
    <3>5. OnFd(f)!Begin(Id(c))
      BY <2>1, <3>1, <3>3, <3>4 DEF OnFd!Begin, OnFd!Use
    <3> QED
      BY <1>1, <3>5 DEF OnFd!Next
  <2>4. CASE f # m_clientfd[ch]
    <3>1. ~Talks(c, f)'
      BY <2>2, <2>4 DEF Talks
    <3> QED
      BY <2>1, <2>2, <3>1, OnOthers
  <2> QED
    BY <2>3, <2>4
<1>5. CASE CloseOther(c)
  <2>1. conn' = [conn EXCEPT ![m_clientfd[ch]] = NoConn] /\ UNCHANGED <<pc, fd, turn>>
    BY <1>5 DEF CloseOther, CloseConnection, callVars
  <2>2. CASE f = m_clientfd[ch]
    <3>1. conn'[f] = NoConn /\ Established(f) /\ \A d \in Callers : ~Talks(d, f)
      BY <1>1, <1>2, <1>3, <1>5, <2>1, <2>2
    <3>2. \A d \in Callers : ~Talks(d, f)'
      BY <2>1, <3>1 DEF Talks
    <3> QED
      BY <1>1, <3>1, <3>2, OnClosed
  <2>3. CASE f # m_clientfd[ch]
    <3>1. conn'[f] = conn[f] /\ StageOn(f)' = StageOn(f)
      BY <1>1, <2>1, <2>3 DEF StageOn
    <3>2. \A d \in Callers : Talks(d, f)' <=> Talks(d, f)
      BY <2>1 DEF Talks
    <3> QED
      BY <2>1, <3>1, <3>2, OnKept
  <2> QED
    BY <2>2, <2>3
<1>6. CASE Socket(c)
  <2>1. PICK g \in FreeFd : /\ conn' = [conn EXCEPT ![g].stage = "new"]
                            /\ fd' = [fd EXCEPT ![c] = g]
    BY <1>6 DEF Socket
  <2>2. /\ pc[c] = "socket" /\ pc' = [pc EXCEPT ![c] = "connect"] /\ UNCHANGED turn
    BY <1>6 DEF Socket, NeedsSocket, Goto, callVars
  <2>3. /\ conn'[f].request = conn[f].request /\ conn'[f].reply = conn[f].reply
        /\ StageOn(f)' = StageOn(f)
    <3>1. CASE f = g
      <4>1. conn[f].stage = "free" /\ conn[f] \in Conn
        BY <1>1, <2>1, <3>1 DEF FreeFd
      <4>2. conn'[f] = [conn[f] EXCEPT !.stage = "new"]
        BY <1>1, <2>1, <3>1
      <4> QED
        BY <4>1, <4>2 DEF StageOn, Conn
    <3>2. CASE f # g
      BY <1>1, <2>1, <3>2 DEF StageOn
    <3> QED
      BY <3>1, <3>2
  <2>4. /\ pc'[c] = "connect"
        /\ \A d \in Callers : d # c => pc'[d] = pc[d] /\ fd'[d] = fd[d]
    BY <2>1, <2>2 DEF ChannelInv, Typed, TypeOK
  <2>5. ASSUME NEW d \in Callers
        PROVE  /\ Talks(d, f)' <=> Talks(d, f)
               /\ Talks(d, f) => pc'[d] = pc[d] /\ turn'[d] = turn[d]
    BY <2>2, <2>4 DEF Talks
  <2> QED
    BY <2>3, <2>5, OnKept
<1>7. CASE SocketFails(c)
  <2>1. /\ UNCHANGED conn /\ pc[c] = "socket" /\ pc'[c] = "idle"
        /\ \A d \in Callers : d # c =>
             pc'[d] = pc[d] /\ fd'[d] = fd[d] /\ turn'[d] = turn[d]
    BY <1>7 DEF SocketFails, NeedsSocket, FailUnconnected, Return, Goto, callVars,
                ChannelInv, Typed, TypeOK
  <2> QED
    BY <2>1, OnQuietStep
<1>8. CASE Connect(c)
  <2>1. /\ pc[c] = "connect" /\ pc' = [pc EXCEPT ![c] = "send"]
        /\ conn' = [conn EXCEPT ![fd[c]].stage = "open", ![fd[c]].peer = addr[c]]
        /\ UNCHANGED <<fd, turn>>
    BY <1>8 DEF Connect, Goto, callVars
  <2>2. /\ fd[c] \in Fd /\ \A d \in Callers : d # c => ~Holds(d, fd[c])
    BY <2>1, OnlyHolder DEF Connected
  <2>3. /\ pc'[c] = "send" /\ fd'[c] = fd[c] /\ ~Talks(c, f)
        /\ \A d \in Callers : d # c => pc'[d] = pc[d] /\ fd'[d] = fd[d] /\ turn'[d] = turn[d]
    BY <2>1 DEF ChannelInv, Typed, TypeOK, Talks
  <2>4. CASE f = fd[c]
    <3>1. \A d \in Callers : ~Talks(d, f)
      BY <2>2, <2>3, <2>4 DEF Talks, Holds, Connected
    <3>2. PlaceOn(f) = "idle" /\ StageOn(f) = "closed"
      BY <2>1, <2>4, <3>1, NobodySeen DEF StageOn, ChannelInv, FdInv, HoldInv
    <3>3. Talks(c, f)'
      BY <2>3, <2>4 DEF Talks
    <3>4. PlaceOn(f)' = "send" /\ CallOn(f)' = Id(c)
      BY <2>1, <2>3, <3>3, OneTalker, TalkerSeen DEF Id
    <3>5. /\ StageOn(f)' = "open" /\ conn'[f].request = conn[f].request
          /\ conn'[f].reply = conn[f].reply
      BY <1>1, <2>1, <2>4 DEF StageOn, Conn
    <3>6. OnFd(f)!Open(Id(c))
      BY <3>2, <3>4, <3>5 DEF OnFd!Open, OnFd!Use
    <3> QED
      BY <1>1, <3>6 DEF OnFd!Next
  <2>5. CASE f # fd[c]
    <3>1. conn'[f] = conn[f] /\ ~Talks(c, f)'
      BY <1>1, <2>1, <2>3, <2>5 DEF Talks
    <3> QED
      BY <2>3, <3>1, OnOthers
  <2> QED
    BY <2>4, <2>5
<1>9. CASE ConnectFails(c)
  BY <1>9, OnCloseStep DEF ConnectFails, FailConnected, Connected
<1> QED
  BY <1>4, <1>5, <1>6, <1>7, <1>8, <1>9 DEF Obtain

LEMMA OnExchange ==
  ASSUME ChannelInv, ChannelInv', NEW c \in Callers, Exchange(c), NEW f \in Fd
  PROVE  OnFd(f)!Next \/ UNCHANGED On(f)
<1>1. /\ pc[c] \in {"send", "size", "body", "done"} /\ conn \in [Fd -> Conn]
      /\ fd[c] \in Fd /\ Established(fd[c])
      /\ \A d \in Callers : d # c => ~Holds(d, fd[c])
  <2>1. pc[c] \in Talking
    BY DEF Exchange, Send, SendFails, RecvSize, RecvBody, RecvFails, ParseFails,
           Succeed, Talking
  <2> QED
    BY <2>1, OnlyHolder
       DEF Talking, Connected, ChannelInv, Typed, TypeOK, FdInv, HoldInv
<1>2. pc[c] # "done" /\ f = fd[c] =>
        /\ PlaceOn(f) = pc[c] /\ CallOn(f) = Id(c) /\ Talks(c, f)
  BY <1>1, OneTalker, TalkerSeen DEF Talks
<1>3. ASSUME NEW label \in {"size", "body", "done"}, Goto(c, label), UNCHANGED <<fd, turn>>,
             \A g \in Fd : g # fd[c] => conn'[g] = conn[g]
      PROVE  /\ f # fd[c] => UNCHANGED On(f)
             /\ f = fd[c] => IF label = "done"
                               THEN PlaceOn(f)' = "idle" /\ CallOn(f)' = Nil
                               ELSE PlaceOn(f)' = label /\ CallOn(f)' = Id(c)
  <2>1. /\ pc'[c] = label
        /\ \A d \in Callers : d # c => pc'[d] = pc[d] /\ fd'[d] = fd[d] /\ turn'[d] = turn[d]
    BY <1>3 DEF Goto, ChannelInv, Typed, TypeOK
  <2>2. CASE f # fd[c]
    <3>1. ~Talks(c, f) /\ ~Talks(c, f)' /\ conn'[f] = conn[f]
      BY <1>3, <2>2 DEF Talks
    <3> QED
      BY <2>1, <2>2, <3>1, OnOthers
  <2>3. CASE f = fd[c] /\ label = "done"
    <3>1. \A d \in Callers : ~Talks(d, f)'
      BY <1>1, <1>3, <2>1, <2>3 DEF Talks, Holds, Connected
    <3> QED
      BY <2>3, <3>1, NobodySeen
  <2>4. CASE f = fd[c] /\ label # "done"
    <3>1. Talks(c, f)'
      BY <1>3, <2>1, <2>4 DEF Talks
    <3> QED
      BY <1>3, <2>1, <2>4, <3>1, OneTalker, TalkerSeen DEF Id
  <2> QED
    BY <2>2, <2>3, <2>4
<1>4. CASE Send(c)
  <2>1. /\ pc[c] = "send" /\ Goto(c, "size") /\ UNCHANGED <<fd, turn>>
        /\ \A g \in Fd : g # fd[c] => conn'[g] = conn[g]
    BY <1>1, <1>4 DEF Send, callVars
  <2>2. CASE f = fd[c]
    <3>1. Quiet(f)
      BY <2>1, <2>2 DEF ChannelInv, QueueInv, Orderly
    <3>2. /\ conn'[f].stage = conn[f].stage /\ conn'[f].reply = conn[f].reply
          /\ conn'[f].request = IF conn[f].stage = "open"
                                  THEN Append(conn[f].request, Id(c)) ELSE conn[f].request
      BY <1>1, <1>4, <2>2 DEF Send, Conn
    <3>3. Append(<<>>, Id(c)) = <<Id(c)>>
      OBVIOUS
    <3>4. conn'[f].request = IF StageOn(f) = "open" THEN <<Id(c)>> ELSE <<>>
      BY <1>1, <2>2, <3>1, <3>2, <3>3 DEF Quiet, StageOn, Established
    <3>5. StageOn(f)' = StageOn(f)
      BY <3>2 DEF StageOn
    <3>6. OnFd(f)!Send
      BY <1>2, <1>3, <2>1, <2>2, <3>2, <3>4, <3>5 DEF OnFd!Send
    <3> QED
      BY <3>6 DEF OnFd!Next
  <2> QED
    BY <1>3, <2>1, <2>2
<1>5. CASE RecvSize(c)
  <2>1. /\ pc[c] = "size" /\ Goto(c, "body") /\ UNCHANGED <<fd, turn>>
        /\ conn[fd[c]].reply # <<>>
        /\ conn' = [conn EXCEPT ![fd[c]].reply = Tail(@)]
    BY <1>5 DEF RecvSize, Recv
  <2>2. \A g \in Fd : g # fd[c] => conn'[g] = conn[g]
    BY <1>1, <2>1
  <2>3. CASE f = fd[c]
    <3>1. Answered(f, Id(c))
      BY <2>1, <2>3 DEF ChannelInv, QueueInv, Orderly, Quiet, Asked
    <3>2. /\ conn'[f].stage = conn[f].stage /\ conn'[f].request = conn[f].request
          /\ conn'[f].reply = Tail(conn[f].reply)
      BY <1>1, <2>1, <2>3 DEF Conn
    <3>3. conn[f].reply = OnFd(f)!ReplyTo(CallOn(f))
      BY <1>2, <2>1, <2>3, <3>1 DEF Answered, OnFd!ReplyTo
    <3>4. StageOn(f)' = StageOn(f)
      BY <3>2 DEF StageOn
    <3>5. OnFd(f)!RecvSize
      BY <1>2, <1>3, <2>1, <2>2, <2>3, <3>2, <3>3, <3>4 DEF OnFd!RecvSize
    <3> QED
      BY <3>5 DEF OnFd!Next
  <2> QED
    BY <1>3, <2>1, <2>2, <2>3
<1>6. CASE RecvBody(c)
  <2>1. /\ pc[c] = "body" /\ Goto(c, "done") /\ UNCHANGED <<fd, turn>>
        /\ conn[fd[c]].reply # <<>>
        /\ conn' = [conn EXCEPT ![fd[c]].reply = Tail(@)]
    BY <1>6 DEF RecvBody, Recv
  <2>2. \A g \in Fd : g # fd[c] => conn'[g] = conn[g]
    BY <1>1, <2>1
  <2>3. CASE f = fd[c]
    <3>1. HalfRead(f, Id(c))
      BY <2>1, <2>3 DEF ChannelInv, QueueInv, Orderly
    <3>2. /\ conn'[f].stage = conn[f].stage /\ conn'[f].request = conn[f].request
          /\ conn'[f].reply = Tail(conn[f].reply)
      BY <1>1, <2>1, <2>3 DEF Conn
    <3>3. /\ conn[f].reply = Tail(OnFd(f)!ReplyTo(CallOn(f)))
          /\ conn'[f].reply = <<>>
      <4>1. conn[f].reply = << <<"body", Id(c)>> >>
        BY <3>1 DEF HalfRead
      <4>2. Tail(OnFd(f)!ReplyTo(Id(c))) = << <<"body", Id(c)>> >>
        BY DEF OnFd!ReplyTo
      <4>3. conn[f].reply = Tail(OnFd(f)!ReplyTo(CallOn(f)))
        BY <1>2, <2>1, <2>3, <4>1, <4>2
      <4>4. Tail(<< <<"body", Id(c)>> >>) = <<>>
        OBVIOUS
      <4> QED
        BY <3>2, <4>1, <4>3, <4>4
    <3>4. StageOn(f)' = StageOn(f)
      BY <3>2 DEF StageOn
    <3>5. OnFd(f)!RecvAll
      BY <1>2, <1>3, <2>1, <2>2, <2>3, <3>2, <3>3, <3>4 DEF OnFd!RecvAll
    <3> QED
      BY <3>5 DEF OnFd!Next
  <2> QED
    BY <1>3, <2>1, <2>2, <2>3
<1>7. CASE SendFails(c) \/ RecvFails(c) \/ ParseFails(c)
  BY <1>1, <1>7, OnCloseStep DEF SendFails, RecvFails, ParseFails, FailConnected, Connected
<1>8. CASE Succeed(c) /\ ~ClientLong
  BY <1>1, <1>8, OnCloseStep DEF Succeed, Connected
<1>9. CASE Succeed(c) /\ ClientLong
  <2>1. /\ UNCHANGED conn /\ pc[c] = "done" /\ pc'[c] = "idle"
        /\ \A d \in Callers : d # c =>
             pc'[d] = pc[d] /\ fd'[d] = fd[d] /\ turn'[d] = turn[d]
    BY <1>9 DEF Succeed, Return, Goto, callVars, ChannelInv, Typed, TypeOK
  <2> QED
    BY <2>1, OnQuietStep
<1> QED
  BY <1>4, <1>5, <1>6, <1>7, <1>8, <1>9 DEF Exchange

\* Requests are dropped, at most, and the provider closes its end, perhaps.
LEMMA OnDropRequest ==
  ASSUME ChannelInv, ChannelInv', UNCHANGED <<pc, fd, turn>>, NEW f \in Fd,
         \/ conn'[f] = conn[f]
         \/ /\ conn[f].stage = "open" /\ conn'[f].stage \in {"open", "shut"}
            /\ conn'[f].reply = conn[f].reply /\ conn'[f].request = <<>>
            /\ conn'[f].stage = "open" => conn[f].request # <<>>
  PROVE  OnFd(f)!Next \/ UNCHANGED On(f)
<1>1. \A c \in Callers : Talks(c, f)' <=> Talks(c, f)
  BY DEF Talks
<1>2. PlaceOn(f)' = PlaceOn(f) /\ CallOn(f)' = CallOn(f)
  BY DEF PlaceOn, CallOn, IsUsed, Talker, Talks, Id
<1>3. CASE conn'[f] = conn[f]
  BY <1>2, <1>3 DEF On, StageOn
<1>4. CASE /\ conn[f].stage = "open" /\ conn'[f].stage = "open" /\ conn[f].request # <<>>
           /\ conn'[f].reply = conn[f].reply /\ conn'[f].request = <<>>
  <2>1. OnFd(f)!KeepSilent
    BY <1>2, <1>4 DEF OnFd!KeepSilent, StageOn
  <2> QED
    BY <2>1 DEF OnFd!Next
<1>5. CASE /\ conn[f].stage = "open" /\ conn'[f].stage = "shut"
           /\ conn'[f].reply = conn[f].reply /\ conn'[f].request = <<>>
  <2>1. OnFd(f)!HangUp
    BY <1>2, <1>5 DEF OnFd!HangUp, StageOn
  <2> QED
    BY <2>1 DEF OnFd!Next
<1> QED
  BY <1>3, <1>4, <1>5

LEMMA OnProviders ==
  ASSUME ChannelInv, ChannelInv', Providers \/ ClockTick \/ \E ch \in Channels : Destroy(ch),
         NEW f \in Fd
  PROVE  OnFd(f)!Next \/ UNCHANGED On(f)
<1>1. conn \in [Fd -> Conn]
  BY DEF ChannelInv, Typed, TypeOK
<1>2. ASSUME NEW g \in Fd, Answer(g)
      PROVE  OnFd(f)!Next \/ UNCHANGED On(f)
  <2>1. PICK c \in Callers : pc[c] = "size" /\ fd[c] = g /\ Asked(g, Id(c))
    BY <1>2, RequestIsHolders DEF Answer
  <2>2. /\ UNCHANGED <<pc, fd, turn>> /\ \A h \in Fd : h # g => conn'[h] = conn[h]
        /\ conn[g].stage = "open" /\ conn'[g].stage \in {"open", "shut"}
        /\ conn'[g].request = Tail(conn[g].request)
        /\ conn'[g].reply = conn[g].reply \o
             << <<"size", Head(conn[g].request)>>, <<"body", Head(conn[g].request)>> >>
    BY <1>1, <1>2 DEF Answer, Conn, callVars
  <2>3. CASE f = g
    <3>1. conn[f].request = <<Id(c)>> /\ conn[f].reply = <<>>
      BY <2>1, <2>3 DEF Asked
    <3>2. conn'[f].request = <<>>
      BY <2>2, <2>3, <3>1
    <3>3. conn'[f].reply = << <<"size", Id(c)>>, <<"body", Id(c)>> >>
      BY <2>2, <2>3, <3>1
    <3>4. PlaceOn(f) = "size" /\ CallOn(f) = Id(c)
      BY <2>1, <2>3, OneTalker, TalkerSeen DEF Talks
    <3>5. PlaceOn(f)' = PlaceOn(f) /\ CallOn(f)' = CallOn(f)
      BY <2>2 DEF PlaceOn, CallOn, IsUsed, Talker, Talks, Id
    <3>6. StageOn(f) = "open" /\ StageOn(f)' \in {"open", "shut"}
      BY <2>2, <2>3 DEF StageOn
    <3>7. OnFd(f)!Answer
      BY <3>1, <3>2, <3>3, <3>4, <3>5, <3>6 DEF OnFd!Answer, OnFd!ReplyTo
    <3> QED
      BY <3>7 DEF OnFd!Next
  <2>4. CASE f # g
    BY <2>2, <2>4, OnDropRequest
  <2> QED
    BY <2>3, <2>4
<1>3. ASSUME NEW g \in Fd, KeepSilent(g) \/ Refuse(g)
      PROVE  OnFd(f)!Next \/ UNCHANGED On(f)
  <2>1. PICK c \in Callers : Asked(g, Id(c))
    BY <1>3, RequestIsHolders DEF KeepSilent, Refuse
  <2>2. conn[g].request = <<Id(c)>> /\ Tail(conn[g].request) = <<>>
    BY <2>1 DEF Asked
  <2>3. /\ UNCHANGED <<pc, fd, turn>> /\ \A h \in Fd : h # g => conn'[h] = conn[h]
        /\ conn[g].stage = "open" /\ conn'[g].stage \in {"open", "shut"}
        /\ conn'[g].reply = conn[g].reply /\ conn'[g].request = <<>>
        /\ conn[g].request # <<>>
    BY <1>1, <1>3, <2>2 DEF KeepSilent, Refuse, Conn, callVars
  <2> QED
    BY <2>3, OnDropRequest
<1>4. ASSUME NEW a \in Address, Crash(a)
      PROVE  OnFd(f)!Next \/ UNCHANGED On(f)
  <2>1. /\ UNCHANGED <<pc, fd, turn>>
        /\ conn'[f] = conn[f] \/ (conn[f].stage = "open" /\
              conn'[f] = [conn[f] EXCEPT !.stage = "shut", !.request = <<>>])
    BY <1>4 DEF Crash, callVars
  <2>2. conn[f] \in Conn
    BY <1>1
  <2>3. \/ conn'[f] = conn[f]
        \/ /\ conn[f].stage = "open" /\ conn'[f].stage = "shut"
           /\ conn'[f].reply = conn[f].reply /\ conn'[f].request = <<>>
    BY <2>1, <2>2 DEF Conn
  <2> QED
    BY <2>1, <2>3, OnDropRequest
<1>5. CASE ClockTick \/ \E a \in Address : Restart(a)
  BY <1>5, OnDropRequest DEF ClockTick, Restart, callVars
<1>6. ASSUME NEW ch \in Channels, Destroy(ch)
      PROVE  OnFd(f)!Next \/ UNCHANGED On(f)
  <2>1. /\ m_clientfd[ch] \in Fd /\ Established(m_clientfd[ch])
        /\ \A c \in Callers : ~Holds(c, m_clientfd[ch])
    BY <1>6, HolderHasLock
       DEF Destroy, Holds, Connected, ChannelInv, Typed, TypeOK, FdInv, LockInv, CacheInv
  <2>2. conn' = [conn EXCEPT ![m_clientfd[ch]] = NoConn] /\ UNCHANGED <<pc, fd, turn>>
    BY <1>6 DEF Destroy, callVars
  <2>3. CASE f = m_clientfd[ch]
    <3>1. conn'[f] = NoConn /\ \A c \in Callers : ~Talks(c, f)'
      BY <1>1, <2>1, <2>2, <2>3 DEF Talks, Holds, Connected
    <3> QED
      BY <1>1, <2>1, <2>3, <3>1, OnClosed
  <2>4. CASE f # m_clientfd[ch]
    <3>1. conn'[f] = conn[f]
      BY <1>1, <2>1, <2>2, <2>4
    <3> QED
      BY <2>2, <3>1, OnDropRequest
  <2> QED
    BY <2>3, <2>4
<1> QED
  BY <1>2, <1>3, <1>4, <1>5, <1>6 DEF Providers

\* Descriptor by descriptor, CallMethod and its providers exchange whole messages:
\* one call talks at a time, and what it reads is the reply to its own request.
THEOREM ChannelKeepsMessages == SafetySpec => KeepsMessages
<1>1. Init => \A f \in Fd : OnFd(f)!Init
  <2> SUFFICES ASSUME Init, NEW f \in Fd PROVE OnFd(f)!Init
    OBVIOUS
  <2>1. conn[f] = NoConn /\ \A c \in Callers : ~Talks(c, f)
    BY DEF Init, Talks
  <2>2. PlaceOn(f) = "idle" /\ CallOn(f) = Nil
    BY <2>1, NobodySeen
  <2> QED
    BY <2>1, <2>2 DEF OnFd!Init, StageOn, NoConn
<1>2. ChannelInv /\ ChannelInv' /\ [Next]_vars =>
        [\A f \in Fd : OnFd(f)!Next \/ UNCHANGED OnFd(f)!vars]_vars
  <2> SUFFICES ASSUME ChannelInv, ChannelInv', Next, NEW f \in Fd
               PROVE  OnFd(f)!Next \/ UNCHANGED On(f)
    BY DEF OnFd!vars, On
  <2>1. ASSUME NEW c \in Callers, AskBreaker(c) \/ CallStep(c)
        PROVE  OnFd(f)!Next \/ UNCHANGED On(f)
    BY <2>1, OnBegin, OnObtain, OnExchange DEF CallStep
  <2> QED
    BY <2>1, OnProviders DEF Next
<1> QED
  BY <1>1, <1>2, ChannelAlways, PTL DEF SafetySpec, KeepsMessages
=============================================================================
