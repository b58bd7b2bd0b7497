-------------------------- MODULE MessageConnection --------------------------
(***************************************************************************)
(* A TCP connection between a channel and a provider, in whole messages:   *)
(* what MprpcChannel takes a connection to be, and what RpcFraming makes   *)
(* of a stream of units.  One call at a time uses it.  A call sends one    *)
(* request; the provider answers it with the two parts of one reply, keeps *)
(* silent, or closes its end, which it may do at any time; the call reads  *)
(* the length, then the body, and both are those of the reply to its own   *)
(* request; a call that gives up closes the connection.                    *)
(***************************************************************************)
EXTENDS Sequences

CONSTANTS
  CallId,   \* what tells calls apart
  NoCall    \* not one of them

VARIABLES
  stage,     \* "closed", "open", or "shut": the provider has closed its end
  place,     \* what the call that uses the connection does: "send", "size",
             \* "body"; "idle" between calls
  call,      \* that call
  request,   \* the requests under way: one, or none
  reply      \* what is left of the reply: two parts, one, or none

vars == <<stage, place, call, request, reply>>

ReplyTo(id) == << <<"size", id>>, <<"body", id>> >>

Init ==
  /\ stage \in {"closed", "open"}
  /\ place = "idle" /\ call = NoCall
  /\ request = <<>> /\ reply = <<>>

-----------------------------------------------------------------------------
(* The caller.                                                             *)

Use(id) == place = "idle" /\ place' = "send" /\ call' = id

Open(id) ==
  /\ stage = "closed" /\ stage' = "open"
  /\ Use(id)
  /\ UNCHANGED <<request, reply>>

Begin(id) ==
  /\ stage # "closed"
  /\ Use(id)
  /\ UNCHANGED <<stage, request, reply>>

Send ==
  /\ place = "send" /\ place' = "size"
  /\ request' = IF stage = "open" THEN <<call>> ELSE <<>>
  /\ UNCHANGED <<stage, call, reply>>

RecvSize ==
  /\ place = "size" /\ place' = "body"
  /\ reply = ReplyTo(call) /\ reply' = Tail(reply)
  /\ UNCHANGED <<stage, call, request>>

\* The call has all of its reply.  There is no recv for a body of length 0.
RecvAll ==
  /\ \/ place = "size" /\ reply = ReplyTo(call)
     \/ place = "body" /\ reply = Tail(ReplyTo(call))
  /\ place' = "idle" /\ call' = NoCall /\ reply' = <<>>
  /\ UNCHANGED <<stage, request>>

Close ==
  /\ stage # "closed" /\ stage' = "closed"
  /\ place' = "idle" /\ call' = NoCall
  /\ request' = <<>> /\ reply' = <<>>

-----------------------------------------------------------------------------
(* The provider.                                                           *)

Answer ==
  /\ stage = "open" /\ stage' \in {"open", "shut"}
  /\ place = "size" /\ request = <<call>> /\ reply = <<>>
  /\ request' = <<>> /\ reply' = ReplyTo(call)
  /\ UNCHANGED <<place, call>>

KeepSilent ==
  /\ request # <<>> /\ request' = <<>>
  /\ UNCHANGED <<stage, place, call, reply>>

HangUp ==
  /\ stage = "open" /\ stage' = "shut"
  /\ request' = <<>>
  /\ UNCHANGED <<place, call, reply>>

-----------------------------------------------------------------------------
Next ==
  \/ \E id \in CallId : Open(id) \/ Begin(id)
  \/ Send \/ RecvSize \/ RecvAll \/ Close
  \/ Answer \/ KeepSilent \/ HangUp

Spec == Init /\ [][Next]_vars
=============================================================================
