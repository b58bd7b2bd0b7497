--------------------------- MODULE BreakerCallers ---------------------------
(***************************************************************************)
(* One breaker and the threads inside MprpcChannel::CallMethod that share  *)
(* it (CircuitBreakerManager hands the same breaker to every call of a     *)
(* service.method).  Only the calls CallMethod makes to the breaker are    *)
(* kept: AllowRequest on entry, then one report when the outcome is known, *)
(* or no report at all on the two early returns for a request or a header  *)
(* that cannot be serialised (mprpcchannel.cc:111-115, 129-133).  Between  *)
(* the two, a call takes any time: connect() has no timeout and each recv  *)
(* may wait three seconds, so a call outlives the five seconds of an OPEN  *)
(* breaker.                                                                *)
(***************************************************************************)
EXTENDS CircuitBreaker, FiniteSets

CONSTANTS
  Callers,          \* threads that call one method
  Unserializable    \* those of them whose request may fail to serialise

ASSUME CallersAssumption == Unserializable \subseteq Callers

VARIABLES
  call,     \* per caller: "idle", "rejected" (by the breaker, and free to try
            \* again), "normal" (let through while CLOSED) or "probe" (let
            \* through as the probe of a half-open breaker)
  healthy   \* the providers of the method have recovered for good: from then
            \* on no call fails (environment, used by the liveness property)

vars == <<breakerVars, call, healthy>>

InFlight(c) == call[c] \in {"normal", "probe"}
Probes == {c \in Callers : call[c] = "probe"}

TypeOK ==
  /\ BreakerTypeOK
  /\ call \in [Callers -> {"idle", "rejected", "normal", "probe"}]
  /\ healthy \in BOOLEAN

Init ==
  /\ BreakerInit
  /\ call = [c \in Callers |-> "idle"]
  /\ healthy = FALSE

-----------------------------------------------------------------------------
\* AllowRequest returns true while CLOSED.
Enter(c) ==
  /\ ~InFlight(c)
  /\ Admit
  /\ call' = [call EXCEPT ![c] = "normal"]
  /\ UNCHANGED healthy

\* AllowRequest returns true and the call becomes the probe.
EnterAsProbe(c) ==
  /\ ~InFlight(c)
  /\ AdmitProbe
  /\ call' = [call EXCEPT ![c] = "probe"]
  /\ UNCHANGED healthy

\* AllowRequest returns false: CallMethod returns with the controller failed.
Rejected(c) ==
  /\ ~InFlight(c)
  /\ ~MayPass
  /\ call' = [call EXCEPT ![c] = "rejected"]
  /\ UNCHANGED <<breakerVars, healthy>>

\* SerializeToString fails: CallMethod returns and reports nothing.
SerializeFails(c) ==
  /\ c \in Unserializable
  /\ InFlight(c)
  /\ call' = [call EXCEPT ![c] = "idle"]
  /\ UNCHANGED <<breakerVars, healthy>>

Succeed(c) ==
  /\ InFlight(c)
  /\ OnSuccess
  /\ call' = [call EXCEPT ![c] = "idle"]
  /\ UNCHANGED healthy

Fail(c) ==
  /\ InFlight(c)
  /\ ~healthy
  /\ OnFailure
  /\ call' = [call EXCEPT ![c] = "idle"]
  /\ UNCHANGED healthy

ClockTick == Tick /\ UNCHANGED <<call, healthy>>

Recover ==
  /\ ~healthy
  /\ healthy' = TRUE
  /\ UNCHANGED <<breakerVars, call>>

AskBreaker(c) == Enter(c) \/ EnterAsProbe(c) \/ Rejected(c)
Return(c) == Succeed(c) \/ Fail(c) \/ SerializeFails(c)

Next ==
  \/ \E c \in Callers : AskBreaker(c) \/ Return(c)
  \/ ClockTick
  \/ Recover

(* The clock runs; a client calls in a loop (example/caller/                *)
(* callorderservice.cc:16-33); a call that was let through returns, since   *)
(* the kernel bounds connect() and the socket timeouts bound send and recv. *)
Fairness ==
  /\ WF_vars(ClockTick)
  /\ \A c \in Callers : WF_vars(AskBreaker(c)) /\ WF_vars(Return(c))

SafetySpec == Init /\ [][Next]_vars
Spec == SafetySpec /\ Fairness

-----------------------------------------------------------------------------
(* Properties.                                                             *)

\* The inductive invariant of the breaker under concurrent callers.
Inv == TypeOK /\ BreakerInv

\* A HALF_OPEN breaker refuses everyone (circuitbreaker.cc:42-45) until its
\* probe reports, so a probe must be in flight.  The one way to lose it is the
\* early return for a request that does not serialise
\* (mprpcchannel.cc:111-115, 129-133): then the caller it left is out of its
\* call and, like everyone, kept out.  No other order of reports of older
\* calls, openings and timeouts leaves a half-open breaker without its probe.
ProbeInFlight ==
  m_state = "HALF_OPEN" =>
    Probes # {} \/ \E c \in Unserializable : ~InFlight(c)

\* circuitbreaker.cc:39 says of HALF_OPEN that only one probe request is
\* allowed: no two calls that were let through as probes are in flight
\* together.
AtMostOneProbe ==
  m_state = "HALF_OPEN" => Cardinality(Probes) <= 1

\* A request is let through while the breaker is not CLOSED only at the end of
\* a full timeout counted from the last time it opened, and it takes the
\* breaker to HALF_OPEN: so each opening lets at most one request through
\* until someone reports (circuitbreaker.cc:22-49 with Open at 94-100).
OneAdmissionPerTimeout ==
  [][\A c \in Callers :
       (~InFlight(c) /\ InFlight(c)' /\ m_state # "CLOSED") =>
         /\ m_state = "OPEN" /\ openAge = OpenTimeout
         /\ m_state' = "HALF_OPEN"]_vars

\* The slot of the half-open breaker belongs to a call that will never report.
ProbeLost == m_state = "HALF_OPEN" /\ Probes = {}

\* Once the providers have recovered, the breaker ends CLOSED and stays so,
\* whatever calls were in flight and whatever state it was in, unless a probe
\* that did not serialise has left it HALF_OPEN for good.
RecoversForGood ==
  [](healthy => <>[](m_state = "CLOSED") \/ <>[]ProbeLost)

\* Once the providers have recovered, a rejected caller is let through again,
\* with the same exception.
RejectionEnds ==
  \A c \in Callers :
    [](healthy /\ call[c] = "rejected" => <>InFlight(c) \/ <>[]ProbeLost)

=============================================================================
