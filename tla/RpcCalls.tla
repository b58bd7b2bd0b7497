------------------------------ MODULE RpcCalls ------------------------------
(***************************************************************************)
(* What one connection between a channel and a provider promises, without  *)
(* a word of bytes: calls are made one after the other; each is executed   *)
(* at most once, with the method and the request the caller passed; a call *)
(* that succeeds was executed and returns the service's answer to that     *)
(* very request; after a call that failed there are no more.  A call that  *)
(* failed may have been executed, or be executed later.                    *)
(***************************************************************************)
EXTENDS Naturals, Sequences

CONSTANTS
  Calls,            \* what callers hand to CallMethod
  Target(_),        \* the service and method of a call
  Request(_),       \* its request message
  Methods,          \* the targets the provider has published
  Response(_, _),   \* the answer of a method to a request
  MaxCalls          \* bound: calls made on the connection

VARIABLES
  log,      \* the calls made, in order: [call, outcome, response], where
            \* response has no or one message
  served    \* what the provider has executed, in order: [target, request]

vars == <<log, served>>

Entry(c, outcome, response) ==
  [call |-> c, outcome |-> outcome, response |-> response]

\* What executing a call means.
Asked(c) == [target |-> Target(c), request |-> Request(c)]

Init ==
  /\ log = <<>>
  /\ served = <<>>

Begin(c) ==
  /\ Len(log) < MaxCalls
  /\ log # <<>> => log[Len(log)].outcome = "ok"
  /\ log' = Append(log, Entry(c, "pending", <<>>))
  /\ UNCHANGED served

Serve ==
  /\ Len(served) < Len(log)
  /\ LET c == log[Len(served) + 1].call
     IN /\ Target(c) \in Methods
        /\ served' = Append(served, Asked(c))
  /\ UNCHANGED log

\* Only the last call can be pending.
Pending == log # <<>> /\ log[Len(log)].outcome = "pending"

Settle(outcome, response) ==
  log' = [log EXCEPT ![Len(log)] =
            Entry(log[Len(log)].call, outcome, response)]

Succeed ==
  /\ Pending
  /\ Len(served) = Len(log)
  /\ LET c == log[Len(log)].call
     IN Settle("ok", <<Response(Target(c), Request(c))>>)
  /\ UNCHANGED served

Fail ==
  /\ Pending
  /\ \E outcome \in {"failed", "timeout"} : Settle(outcome, <<>>)
  /\ UNCHANGED served

Next == (\E c \in Calls : Begin(c)) \/ Serve \/ Succeed \/ Fail

Spec == Init /\ [][Next]_vars
=============================================================================
