---------------------------- MODULE MCRpcFraming ----------------------------
(* TLC instance of RpcFraming: the texts are those of ProtoWire, the calls *)
(* those of the examples and a few that meet a limit, to a provider that   *)
(* has published the friend service and the order service.                 *)
EXTENDS RpcFraming, RpcMessages

CONSTANT MaxText   \* above it a message does not serialise

serviceMap ==
  NotifyService(NotifyService(<<>>, "FiendServiceRpc", FiendServiceRpc),
                "OrderServiceRPC", OrderServiceRPC)

\* A number of eight units makes a frame above MaxFrame, a service with a long
\* name a header above MaxHeader; the user service is elsewhere.  The caller of
\* OtherVersion was built with another response type.
LongNumber == [i \in 1 .. 8 |-> Byte("0")]
LongName == [LoginCall EXCEPT !.service = Text("User") \o Text("Service")]
OtherVersion == [CheckCall(Text("001")) EXCEPT !.returns = RegisterResponse]

MCCalls ==
  {RegisterCall, CheckCall(Text("001")), CheckCall(Text("003")),
   GetFriendsListCall, CheckCall(LongNumber), LongName, OtherVersion}

MCTarget(c) == TargetOf(c)
MCRequest(c) == c.request
MCMethods == Targets(serviceMap)
MCResponse(target, request) == ResponseTo(serviceMap, target, request)
MCHeader(c) == HeaderText(c)
MCArgs(c) == ArgsText(c)

\* What is read in each text, worked out once.
CallsKnown == {c \in MCCalls : TargetOf(c) \in MCMethods}
Headers == [t \in {HeaderText(c) : c \in MCCalls} |-> ParseHeader(t)]
Requests ==
  [tt \in {<<TargetOf(c), ArgsText(c)>> : c \in CallsKnown} |->
     ParseRequest(serviceMap, tt[1], tt[2])]
Replies ==
  [tr \in {<<TargetOf(c), c.request>> : c \in CallsKnown} |->
     ResponseText(serviceMap, tr[1], tr[2], MaxText)]
Responses ==
  [ct \in {<<c, Replies[<<TargetOf(c), c.request>>].text>> : c \in CallsKnown} |->
     ParseResponse(ct[1].returns, ct[2])]

\* Any other text would be a piece of one: it is not read.
Read(table, key) == IF key \in DOMAIN table THEN table[key] ELSE [ok |-> FALSE]
MCReadHeader(text) == Read(Headers, text)
MCReadArgs(target, text) == Read(Requests, <<target, text>>)
MCReply(target, request) == Replies[<<target, request>>]
MCReadReply(c, text) == Read(Responses, <<c, text>>)

MCUnit ==
  UNION {ToSet(HeaderText(c)) \cup ToSet(ArgsText(c)) : c \in MCCalls}
  \cup UNION {ToSet(MCReply(TargetOf(c), c.request).text) :
                c \in CallsKnown}

-----------------------------------------------------------------------------
(* ProtoWire against what the documentation of protobuf promises of it.    *)

Names == {<<>>, Text("a"), Text("a") \o Text("b")}
ResultCodes == [errcode : 0 .. 1, errmsg : Names]
Results == {<<>>} \cup {<<r>> : r \in ResultCodes}

\* Some messages of each type.
Messages ==
  {<<RpcHeader, m>> : m \in [service_name : Names, method_name : Names, args_size : 0 .. 1]}
  \cup {<<RegisterRequest, m>> : m \in [id : 0 .. 1, name : Names, pwd : Names]}
  \cup {<<RegisterResponse, m>> : m \in [result : Results, sucess : BOOLEAN]}
  \cup {<<GetFriendsListResponse, m>> :
          m \in [result : Results, friends : {<<>>} \cup {<<n>> : n \in Names}]}

\* Parsing gives back what was serialised.
ASSUME RoundTrip ==
  \A tm \in Messages : Parse(tm[1], Serialize(tm[1], tm[2])) = <<tm[2]>>

\* Two texts one after the other parse to their messages merged, and a copy is
\* equal to its source.
ASSUME MergeIsConcatenation ==
  \A tm, un \in Messages : tm[1] = un[1] =>
    /\ Parse(tm[1], Serialize(tm[1], tm[2]) \o Serialize(tm[1], un[2]))
         = <<Merge(tm[1], tm[2], un[2])>>
    /\ CopyFrom(tm[1], tm[2]) = tm[2]

\* A text that is cut does not parse, or it was cut between two fields.
ASSUME CutTextsAreNoticed ==
  \A tm \in Messages :
    LET text == Serialize(tm[1], tm[2]) IN
    \A k \in 0 .. Len(text) - 1 :
      LET read == Parse(tm[1], SubSeq(text, 1, k)) IN
      read = <<>> \/ Serialize(tm[1], read[1]) = SubSeq(text, 1, k)
=============================================================================
