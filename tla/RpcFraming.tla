----------------------------- MODULE RpcFraming -----------------------------
(***************************************************************************)
(* One TCP connection between MprpcChannel::CallMethod and                 *)
(* RpcProvider::OnMessage, unit by unit.  A frame is a length, the header  *)
(* of that length and the arguments, whose length the header carries; a    *)
(* reply is a length and a message of that length.  Every send, every      *)
(* arrival and every recv moves as many units as it likes, so frames are   *)
(* cut anywhere, inside a length too.                                      *)
(*                                                                         *)
(* What texts look like is left to the constants: RpcMessages and          *)
(* ProtoWire give them in MCRpcFraming.  What the connection promises is   *)
(* RpcCalls.                                                               *)
(***************************************************************************)
EXTENDS Naturals, Sequences

CONSTANTS
  Calls, Target(_), Request(_), Methods, Response(_, _), MaxCalls,  \* as in RpcCalls
  Unit,             \* the units of texts
  Header(_),        \* text of the RpcHeader of a call
  Args(_),          \* text of its request
  ReadHeader(_),    \* RpcHeader::ParseFromString: [ok, target, argsSize]
  ReadArgs(_, _),   \* of a target and a text: [ok, request]
  Reply(_, _),      \* SerializeToString of the response: [ok, text]
  ReadReply(_, _),  \* of a call and a text: [ok, response]
  SizeUnits,        \* sizeof(uint32_t)
  MaxSize,          \* the largest uint32_t
  MaxHeader,        \* 1024 * 1024
  MaxFrame,         \* 64 * 1024 * 1024
  MaxReply          \* the largest int

\* A length is SizeUnits units, which say together what it is.
LengthUnit(i, n) == [part |-> i, of |-> n]
LengthText(n) == [i \in 1 .. SizeUnits |-> LengthUnit(i, n)]

Known(c) == Target(c) \in Methods

\* What is assumed of protobuf: lengths fit into a uint32_t, and each side
\* reads back what the other has written; a caller built with another response
\* type than the provider may find that a reply does not parse.
ASSUME CodecAssumption ==
  /\ SizeUnits \in Nat \ {0} /\ MaxSize \in Nat
  /\ MaxHeader \in 0 .. MaxSize - 1 /\ MaxFrame \in Nat /\ MaxReply \in 0 .. MaxSize
  /\ MaxCalls \in Nat
  /\ \A c \in Calls :
       /\ Header(c) \in Seq(Unit) /\ Len(Header(c)) \in 1 .. MaxSize
       /\ Args(c) \in Seq(Unit)
       /\ ReadHeader(Header(c)) =
            [ok |-> TRUE, target |-> Target(c), argsSize |-> Len(Args(c))]
       /\ Known(c) =>
            /\ ReadArgs(Target(c), Args(c)) = [ok |-> TRUE, request |-> Request(c)]
            /\ LET reply == Reply(Target(c), Request(c)) IN
                 /\ reply.ok \in BOOLEAN
                 /\ reply.ok =>
                      /\ reply.text \in Seq(Unit) /\ Len(reply.text) <= MaxSize
                      /\ LET read == ReadReply(c, reply.text) IN
                           /\ read.ok \in BOOLEAN
                           /\ read.ok => read.response = Response(Target(c), Request(c))

VARIABLES
  clientLong, serverLong,   \* rpclongconnection and rpcserverlongconnection
  phase,     \* the caller: "idle" (between calls), "sending", "size" or "body"
             \* (in RecvAll), "closed" (it has closed its end)
  out,       \* what SendAll has still to send
  in, want,  \* what RecvAll has received, and how much it was asked for
  toServer, toClient,   \* units under way
  buffer,    \* muduo's input buffer
  shut,      \* the provider has called conn->shutdown()
  log, served   \* as in RpcCalls

clientVars == <<phase, out, in, want, log>>
serverVars == <<buffer, shut, served>>
vars == <<clientLong, serverLong, clientVars, serverVars, toServer, toClient>>

Frame(c) == LengthText(Len(Header(c))) \o Header(c) \o Args(c)
ReplyFrame(text) == LengthText(Len(text)) \o text

\* The number that the first SizeUnits units of a text stand for: the one that
\* was written there; other units make some number, the largest to be definite.
SizeOf(text) ==
  LET length == SubSeq(text, 1, SizeUnits) IN
  IF \E n \in 0 .. MaxSize : length = LengthText(n)
    THEN CHOOSE n \in 0 .. MaxSize : length = LengthText(n)
    ELSE MaxSize

Init ==
  /\ clientLong \in BOOLEAN /\ serverLong \in BOOLEAN
  /\ phase = "idle"
  /\ out = <<>> /\ in = <<>> /\ want = 0
  /\ toServer = <<>> /\ toClient = <<>>
  /\ buffer = <<>> /\ shut = FALSE
  /\ log = <<>> /\ served = <<>>

-----------------------------------------------------------------------------
(* The caller.                                                             *)

Entry(c, outcome, response) ==
  [call |-> c, outcome |-> outcome, response |-> response]

Current == log[Len(log)].call

Settle(outcome, response) ==
  log' = [log EXCEPT ![Len(log)] = Entry(Current, outcome, response)]

\* CallMethod with the connection at hand: a new one for the first call, the
\* kept one afterwards.
Begin(c) ==
  /\ phase = "idle"
  /\ Len(log) < MaxCalls
  /\ log' = Append(log, Entry(c, "pending", <<>>))
  /\ phase' = "sending"
  /\ out' = Frame(c)
  /\ UNCHANGED <<clientLong, serverLong, in, want, toServer, toClient, serverVars>>

\* One round of SendAll.
SendAll(k) ==
  /\ phase = "sending"
  /\ toServer' = toServer \o SubSeq(out, 1, k)
  /\ out' = SubSeq(out, k + 1, Len(out))
  /\ IF k = Len(out) THEN phase' = "size" /\ want' = SizeUnits
                     ELSE UNCHANGED <<phase, want>>
  /\ UNCHANGED <<clientLong, serverLong, in, log, toClient, serverVars>>

\* CloseConnection(clientfd): what was under way to the caller is gone.
CloseConnection ==
  /\ phase' = "closed"
  /\ out' = <<>> /\ in' = <<>> /\ want' = 0
  /\ toClient' = <<>>

\* Slip used by mutant runs: a failed call leaves the connection as it is.
FailKeepsConnection(outcome) ==
  /\ Settle(outcome, <<>>)
  /\ phase' = "idle" /\ out' = <<>> /\ in' = <<>> /\ want' = 0
  /\ UNCHANGED toClient

Fail(outcome) == CloseConnection /\ Settle(outcome, <<>>)

\* The units received so far, after a recv of k more, and what remains.
Got(k) == in \o SubSeq(toClient, 1, k)
Rest(k) == SubSeq(toClient, k + 1, Len(toClient))

\* ParseFromArray and the return of a call whose reply is complete.
Finish(text, rest) ==
  LET read == ReadReply(Current, text) IN
  \/ ~read.ok /\ Fail("failed")
  \/ /\ read.ok
     /\ Settle("ok", <<read.response>>)
     /\ \/ /\ clientLong
           /\ phase' = "idle" /\ in' = <<>> /\ want' = 0
           /\ toClient' = rest
           /\ UNCHANGED out
        \/ ~clientLong /\ CloseConnection

\* Slip used by mutant runs: a recv that brings less than all is an error.
RecvPartFails(k) == Len(Got(k)) < want /\ Fail("failed")

\* One round of RecvAll, and what follows it when all it was asked for is there.
RecvPart(k) ==
  /\ Len(Got(k)) < want
  /\ in' = Got(k) /\ toClient' = Rest(k)
  /\ UNCHANGED <<phase, out, want, log>>

\* Slip used by mutant runs: an empty body is waited for as well.
RecvSizeThenBody(k) ==
  /\ phase = "size" /\ Len(Got(k)) = want
  /\ phase' = "body" /\ want' = SizeOf(Got(k))
  /\ in' = <<>> /\ toClient' = Rest(k)
  /\ UNCHANGED <<out, log>>

RecvSize(k) ==
  /\ phase = "size" /\ Len(Got(k)) = want
  /\ LET response_size == SizeOf(Got(k)) IN
       \/ response_size > MaxReply /\ Fail("failed")
       \/ response_size = 0 /\ Finish(<<>>, Rest(k))
       \/ /\ response_size \in 1 .. MaxReply
          /\ phase' = "body" /\ want' = response_size
          /\ in' = <<>> /\ toClient' = Rest(k)
          /\ UNCHANGED <<out, log>>

RecvBody(k) ==
  /\ phase = "body" /\ Len(Got(k)) = want
  /\ Finish(Got(k), Rest(k))

RecvAll(k) ==
  /\ phase \in {"size", "body"}
  /\ Len(Got(k)) <= want
  /\ RecvPart(k) \/ RecvSize(k) \/ RecvBody(k)
  /\ UNCHANGED <<clientLong, serverLong, toServer, serverVars>>

\* send or recv gives up after three seconds; recv only when nothing is there.
TimeOut ==
  /\ phase \in {"sending", "size", "body"}
  /\ phase # "sending" => toClient = <<>>
  /\ Fail("timeout")
  /\ UNCHANGED <<clientLong, serverLong, toServer, serverVars>>

\* recv returns 0: the provider has shut the connection down and all it sent
\* before has been read.
RecvEnd ==
  /\ phase \in {"size", "body"}
  /\ shut /\ toClient = <<>>
  /\ Fail("failed")
  /\ UNCHANGED <<clientLong, serverLong, toServer, serverVars>>

-----------------------------------------------------------------------------
(* The provider.                                                           *)

HasLength(b) == Len(b) >= SizeUnits
HasHeader(b) ==
  HasLength(b) /\ SizeOf(b) <= MaxHeader /\ Len(b) >= SizeUnits + SizeOf(b)
HeaderOf(b) == ReadHeader(SubSeq(b, SizeUnits + 1, SizeUnits + SizeOf(b)))

\* Slip used by mutant runs: the frame is counted without its length.
FrameSizeShort(b) == SizeOf(b) + HeaderOf(b).argsSize

FrameSize(b) == SizeUnits + SizeOf(b) + HeaderOf(b).argsSize

\* The three reasons to refuse what the buffer starts with.
Refused(b) ==
  \/ HasLength(b) /\ SizeOf(b) > MaxHeader
  \/ HasHeader(b) /\ ~HeaderOf(b).ok
  \/ HasHeader(b) /\ HeaderOf(b).ok /\ FrameSize(b) > MaxFrame

HasFrame(b) ==
  HasHeader(b) /\ ~Refused(b) /\ Len(b) >= FrameSize(b)

ArgsOf(b) ==
  ReadArgs(HeaderOf(b).target, SubSeq(b, SizeUnits + SizeOf(b) + 1, FrameSize(b)))

\* The service, the method and a request that parses.
CanServe(b) ==
  HasFrame(b) /\ HeaderOf(b).target \in Methods /\ ArgsOf(b).ok

\* SendRpcResponse.  muduo drops what is sent on a connection that is shut
\* down, and what reaches a closed socket is lost.
SendRpcResponse(reply) ==
  /\ toClient' = IF reply.ok /\ ~shut /\ phase # "closed"
                   THEN toClient \o ReplyFrame(reply.text) ELSE toClient
  /\ shut' = (shut \/ ~serverLong)

\* Slip used by mutant runs: the frame is read and not retrieved.
KeepFrame(b) == b

AfterFrame(b) == SubSeq(b, FrameSize(b) + 1, Len(b))

\* OnMessage on the input buffer b: one frame at most.
OnMessage(b) ==
  \/ /\ Refused(b)
     /\ buffer' = b /\ shut' = TRUE
     /\ UNCHANGED <<served, toClient>>
  \/ /\ ~Refused(b) /\ ~HasFrame(b)
     /\ buffer' = b
     /\ UNCHANGED <<shut, served, toClient>>
  \/ /\ HasFrame(b) /\ ~CanServe(b)
     /\ buffer' = AfterFrame(b)
     /\ UNCHANGED <<shut, served, toClient>>
  \/ /\ CanServe(b)
     /\ buffer' = AfterFrame(b)
     /\ served' = Append(served, [target  |-> HeaderOf(b).target,
                                  request |-> ArgsOf(b).request])
     /\ SendRpcResponse(Reply(HeaderOf(b).target, ArgsOf(b).request))

\* k units arrive and muduo calls OnMessage.
Arrive(k) ==
  /\ toServer' = SubSeq(toServer, k + 1, Len(toServer))
  /\ OnMessage(buffer \o SubSeq(toServer, 1, k))
  /\ UNCHANGED <<clientLong, serverLong, clientVars>>

-----------------------------------------------------------------------------
Send == \E k \in 1 .. Len(out) : SendAll(k)
Deliver == \E k \in 1 .. Len(toServer) : Arrive(k)
Receive == \E k \in 1 .. Len(toClient) : RecvAll(k)

Next ==
  \/ \E c \in Calls : Begin(c)
  \/ Send \/ Receive \/ RecvEnd \/ TimeOut
  \/ Deliver

(* What was sent arrives, and both sides go on as long as they can: there  *)
(* is no fairness on TimeOut, so a call may not count on one.              *)
Fairness ==
  WF_vars(Send) /\ WF_vars(Deliver) /\ WF_vars(Receive) /\ WF_vars(RecvEnd)

Spec == Init /\ [][Next]_vars /\ Fairness

-----------------------------------------------------------------------------
(* Properties.                                                             *)

\* Every variable has its type, and a RecvAll in progress still lacks
\* something: it never waits for a recv of nothing.
TypeOK ==
  /\ clientLong \in BOOLEAN /\ serverLong \in BOOLEAN /\ shut \in BOOLEAN
  /\ phase \in {"idle", "sending", "size", "body", "closed"}
  /\ want \in 0 .. MaxSize + SizeUnits
  /\ phase \in {"size", "body"} => Len(in) < want
  /\ Len(log) \in 0 .. MaxCalls
  /\ \A i \in DOMAIN log :
       /\ log[i].call \in Calls
       /\ log[i].outcome \in {"pending", "ok", "failed", "timeout"}

\* Between two calls the kept connection is empty at both ends and under way:
\* nothing of a call is left for the next one to read.
CleanBetweenCalls ==
  phase = "idle" =>
    /\ out = <<>> /\ in = <<>>
    /\ toServer = <<>> /\ buffer = <<>> /\ toClient = <<>>

\* OnMessage takes one frame per call and muduo calls it only when something
\* arrives, so a complete frame must never stay behind in the buffer
\* (rpcprovider.cc:141-250 has no loop): nobody would look at it again.
NoStuckFrame == ~HasFrame(buffer)

\* A request the provider refuses for its size, and an answer that cannot be
\* sent or not be read.
Unanswerable(c) ==
  \/ Len(Header(c)) > MaxHeader
  \/ Len(Frame(c)) > MaxFrame
  \/ Known(c) /\ LET reply == Reply(Target(c), Request(c))
                 IN \/ ~reply.ok
                    \/ Len(reply.text) > MaxReply
                    \/ ~ReadReply(c, reply.text).ok

\* However the stream is cut, a call that does not time out fails only if a
\* limit or its types forbid it, or if it uses a connection again that the
\* provider has shut down, because the two configurations disagree.
FailsForAReason ==
  \A i \in DOMAIN log :
    log[i].outcome = "failed" =>
      \/ Unanswerable(log[i].call)
      \/ clientLong /\ ~serverLong /\ i > 1

\* The connection keeps the promises of RpcCalls: each call is executed at
\* most once, on what the caller passed, and one that succeeds returns the
\* service's answer to it.
Promised == INSTANCE RpcCalls
KeepsPromises == Promised!Spec

\* The connection in messages.  A request is under way from the moment its last
\* unit is sent; a provider that has shut the connection down answers no more.
StageSeen == IF phase = "closed" THEN "closed" ELSE IF shut THEN "shut" ELSE "open"
PlaceSeen ==
  CASE phase = "sending" -> "send"
    [] phase \in {"size", "body"} -> phase
    [] OTHER -> "idle"
CallSeen == IF PlaceSeen = "idle" THEN 0 ELSE Len(log)
RequestSeen ==
  IF phase = "size" /\ ~shut /\ buffer \o toServer # <<>> THEN <<Len(log)>> ELSE <<>>
ReplySeen ==
  CASE phase = "size" /\ in \o toClient # <<>> ->
         << <<"size", Len(log)>>, <<"body", Len(log)>> >>
    [] phase = "body" -> << <<"body", Len(log)>> >>
    [] OTHER -> <<>>

InMessages == INSTANCE MessageConnection WITH
  CallId <- 1 .. MaxCalls, NoCall <- 0,
  stage <- StageSeen, place <- PlaceSeen, call <- CallSeen,
  request <- RequestSeen, reply <- ReplySeen

\* However frames are cut, at both ends the stream is one of whole messages: one
\* request per call, one reply to it, read by the call it answers, its length as
\* a length and its body as a body (mprpcchannel.cc:322-377,
\* rpcprovider.cc:141-281).
KeepsMessages == InMessages!Spec

\* A call that has not ended, and its caller waits for it.
Waiting(c) == log # <<>> /\ log[Len(log)] = Entry(c, "pending", <<>>)

\* Provider and caller never wait for each other: while a call that can be
\* answered waits, something is left to send or under way, or the connection
\* has ended and the caller will read that (mprpcchannel.cc:339-368 waits for
\* exactly as much as rpcprovider.cc:253-281 sends).
NoMutualWait ==
  \A c \in {d \in Calls : Known(d) /\ ~Unanswerable(d)} :
    Waiting(c) => out # <<>> \/ toServer # <<>> \/ toClient # <<>> \/ shut

\* Without the help of a timeout, every call to a published method that can be
\* answered ends.
CallEnds ==
  \A c \in {d \in Calls : Known(d) /\ ~Unanswerable(d)} :
    Waiting(c) ~> ~Waiting(c)
=============================================================================
