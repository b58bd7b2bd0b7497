----------------------------- MODULE RpcMessages -----------------------------
(***************************************************************************)
(* The message types of this repository, the services of example/callee    *)
(* and the calls of example/caller, over ProtoWire.                        *)
(*                                                                         *)
(* A type below stands for its whole generated class: what Clear, the      *)
(* parser, the serialiser, ByteSizeLong, MergeFrom and CopyFrom do is what *)
(* the operators of ProtoWire do with the list of its fields.              *)
(***************************************************************************)
EXTENDS ProtoWire

\* src/rpcheader.proto
RpcHeader == <<Field("service_name", "bytes"), Field("method_name", "bytes"),
               Field("args_size", "uint")>>

\* example/user.proto; example/friend.proto has the same ResultCode
ResultCode == <<Field("errcode", "uint"), Field("errmsg", "bytes")>>

LoginRequest == <<Field("name", "bytes"), Field("pwd", "bytes")>>

LoginResponse == <<Member("result", ResultCode), Field("sucess", "bool")>>

RegisterRequest == <<Field("id", "uint"), Field("name", "bytes"), Field("pwd", "bytes")>>

RegisterResponse == <<Member("result", ResultCode), Field("sucess", "bool")>>

\* example/friend.proto
FriendResultCode == <<Field("errcode", "uint"), Field("errmsg", "bytes")>>

GetFriendsListRequest == <<Field("userid", "uint")>>

GetFriendsListResponse ==
  <<Member("result", FriendResultCode), Field("friends", "repeated")>>

\* example/checkOrder.proto
orderMessageRequest == <<Field("orderNumber", "bytes")>>

orderMessageResponse == <<Field("createTime", "bytes"), Field("price", "uint")>>

-----------------------------------------------------------------------------
(* Services: the types of each method, by GetRequestPrototype and          *)
(* GetResponsePrototype, and the handlers that CallMethod dispatches to.   *)

UserServiceRpc ==
  [Login    |-> [request |-> LoginRequest, response |-> LoginResponse],
   Register |-> [request |-> RegisterRequest, response |-> RegisterResponse]]

FiendServiceRpc ==
  [GetFriendsList |-> [request  |-> GetFriendsListRequest,
                       response |-> GetFriendsListResponse]]

OrderServiceRPC ==
  [check |-> [request |-> orderMessageRequest, response |-> orderMessageResponse]]

\* The text of a std::string: "" has no unit.
Text(string) == IF string = "" THEN <<>> ELSE <<Byte(string)>>

\* mutable_result()->set_errcode(0) and set_errmsg("").
WithoutError(response, type) ==
  LET r == Mutable(response, "result", type)
  IN Set(r, "result", <<Set(Set(r.result[1], "errcode", 0), "errmsg", Text(""))>>)

\* UserService::Login returns false to everyone.
Login(request) ==
  Set(WithoutError(Clear(LoginResponse), ResultCode), "sucess", FALSE)

\* UserService::Register returns true to everyone.
Register(request) ==
  Set(WithoutError(Clear(RegisterResponse), ResultCode), "sucess", TRUE)

\* FriendService::GetFriendsList gives everyone the same three friends.
GetFriendsList(request) ==
  LET ok  == WithoutError(Clear(GetFriendsListResponse), FriendResultCode)
      one == Add(ok, "friends", Text("gao yang"))
      two == Add(one, "friends", Text("liu hong"))
  IN Add(two, "friends", Text("wang shuo"))

\* The table that main() of orderservice.cc fills.
orderlist ==
  [n \in {"001", "002"} |->
     IF n = "001" THEN [createTime |-> "20260328", price |-> 500]
                  ELSE [createTime |-> "20260417", price |-> 150]]

\* OrderService::check: an unknown number gives the empty order, and so a
\* response in which every field has its default value: a text of size 0.
check(request) ==
  LET known == {n \in DOMAIN orderlist : Text(n) = request.orderNumber}
      order == IF known = {} THEN [createTime |-> "", price |-> 0]
               ELSE orderlist[CHOOSE n \in known : TRUE]
  IN Set(Set(Clear(orderMessageResponse), "createTime", Text(order.createTime)),
         "price", order.price)

\* service->CallMethod: the response the handler has filled when it runs done.
CallMethod(method, request) ==
  CASE method = "Login"          -> Login(request)
    [] method = "Register"       -> Register(request)
    [] method = "GetFriendsList" -> GetFriendsList(request)
    [] method = "check"          -> check(request)

-----------------------------------------------------------------------------
(* The calls of the example callers: what the stub hands to the channel,   *)
(* the names of the service and the method in the descriptor and the       *)
(* request and the response with their types.                              *)

LoginCall ==
  [service |-> Text("UserServiceRpc"), method |-> Text("Login"), type |-> LoginRequest,
   returns |-> LoginResponse,
   request |-> Set(Set(Clear(LoginRequest), "name", Text("zhang san")),
                   "pwd", Text("123456"))]

RegisterCall ==
  [service |-> Text("UserServiceRpc"), method |-> Text("Register"), type |-> RegisterRequest,
   returns |-> RegisterResponse,
   request |-> Set(Set(Set(Clear(RegisterRequest), "id", 2000),
                       "name", Text("mprpc")), "pwd", Text("666666"))]

GetFriendsListCall ==
  [service |-> Text("FiendServiceRpc"), method |-> Text("GetFriendsList"),
   type |-> GetFriendsListRequest, returns |-> GetFriendsListResponse,
   request |-> Set(Clear(GetFriendsListRequest), "userid", 1000)]

CheckCall(number) ==
  [service |-> Text("OrderServiceRPC"), method |-> Text("check"),
   type |-> orderMessageRequest, returns |-> orderMessageResponse,
   request |-> Set(Clear(orderMessageRequest), "orderNumber", number)]

-----------------------------------------------------------------------------
(* The texts of a call: what CallMethod makes of it and what OnMessage and  *)
(* SendRpcResponse read in it and answer.                                   *)

ArgsText(c) == Serialize(c.type, c.request)

HeaderText(c) ==
  Serialize(RpcHeader,
    Set(Set(Set(Clear(RpcHeader), "service_name", c.service),
            "method_name", c.method), "args_size", Len(ArgsText(c))))

TargetOf(c) == <<c.service, c.method>>

\* m_serviceMap, from the text of a service's name to its methods: insert
\* keeps the entry that is there.
NotifyService(serviceMap, name, service) ==
  serviceMap @@ (Text(name) :> service)

\* The targets that OnMessage finds.
Targets(serviceMap) ==
  UNION {{<<s, Text(m)>> : m \in DOMAIN serviceMap[s]} : s \in DOMAIN serviceMap}

MethodOf(serviceMap, target) ==
  CHOOSE m \in DOMAIN serviceMap[target[1]] : Text(m) = target[2]

ParseHeader(text) ==
  LET read == Parse(RpcHeader, text) IN
  IF read = <<>> THEN [ok |-> FALSE]
  ELSE [ok |-> TRUE,
        target |-> <<read[1].service_name, read[1].method_name>>,
        argsSize |-> read[1].args_size]

ParseRequest(serviceMap, target, text) ==
  LET read == Parse(serviceMap[target[1]][MethodOf(serviceMap, target)].request, text)
  IN IF read = <<>> THEN [ok |-> FALSE] ELSE [ok |-> TRUE, request |-> read[1]]

ResponseTo(serviceMap, target, request) ==
  CallMethod(MethodOf(serviceMap, target), request)

\* SerializeToString of the response; it fails above limit (2 GiB).
ResponseText(serviceMap, target, request, limit) ==
  LET type == serviceMap[target[1]][MethodOf(serviceMap, target)].response
      text == Serialize(type, ResponseTo(serviceMap, target, request))
  IN [ok |-> Len(text) <= limit, text |-> text]

\* ParseFromArray of a reply into the response of the type the stub passed.
ParseResponse(type, text) ==
  LET read == Parse(type, text)
  IN IF read = <<>> THEN [ok |-> FALSE] ELSE [ok |-> TRUE, response |-> read[1]]

=============================================================================
