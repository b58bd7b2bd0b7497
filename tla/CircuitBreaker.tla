--------------------------- MODULE CircuitBreaker ---------------------------
(***************************************************************************)
(* CircuitBreaker of src/src/circuitbreaker.cc: the state of one breaker   *)
(* (there is one per "service.method") and its three operations.  Each     *)
(* operation runs under m_mutex from its first line to its last, so it is  *)
(* one step.  The module says nothing of who calls the operations:         *)
(* BreakerCallers adds the threads inside MprpcChannel::CallMethod, and    *)
(* MprpcChannel the whole of CallMethod.                                   *)
(*                                                                         *)
(* The steady clock is abstracted to openAge, the clock ticks since        *)
(* m_open_timestamp.  The code compares the elapsed time with              *)
(* m_open_timeout_ms in one place only, and only while OPEN, so the age    *)
(* advances while OPEN and stops at OpenTimeout: a finite clock that needs *)
(* no bound of the model's own.                                            *)
(***************************************************************************)
EXTENDS Naturals

CONSTANTS
  FailureThreshold,   \* m_failure_threshold; CircuitBreakerManager uses 3
  OpenTimeout         \* m_open_timeout_ms (5000) in clock ticks

ASSUME BreakerAssumption ==
  /\ FailureThreshold \in Nat \ {0}
  /\ OpenTimeout \in Nat \ {0}

VARIABLES
  m_state,                  \* CircuitState
  m_consecutive_failures,
  m_half_open_inflight,
  openAge                   \* ticks since m_open_timestamp, at most OpenTimeout

breakerVars == <<m_state, m_consecutive_failures, m_half_open_inflight, openAge>>

CircuitState == {"CLOSED", "OPEN", "HALF_OPEN"}

BreakerTypeOK ==
  /\ m_state \in CircuitState
  /\ m_consecutive_failures \in 0 .. FailureThreshold
  /\ m_half_open_inflight \in {0, 1}
  /\ openAge \in 0 .. OpenTimeout

BreakerInit ==
  /\ m_state = "CLOSED"
  /\ m_consecutive_failures = 0
  /\ m_half_open_inflight = 0
  /\ openAge = 0

-----------------------------------------------------------------------------
(* Slips used by the mutant runs only: each is a plausible edit of the     *)
(* operation whose name it extends.                                        *)

\* Open() without the last assignment: the slot of the old probe stays taken.
OpenKeepsSlot ==
  /\ m_state' = "OPEN"
  /\ openAge' = 0
  /\ UNCHANGED m_half_open_inflight

\* ">" instead of ">=".
TripsLate(failures) == failures > FailureThreshold

\* AllowRequest without the test of the elapsed time.
ProbeDueAtOnce == m_state = "OPEN"

\* OnSuccess without the last assignment: the counters are reset only.
OnSuccessKeepsState ==
  /\ m_consecutive_failures' = 0
  /\ m_half_open_inflight' = 0
  /\ UNCHANGED <<m_state, openAge>>

-----------------------------------------------------------------------------
(* AllowRequest.  MayPass is the boolean it returns; Admit and AdmitProbe  *)
(* are its effects when it returns true.  A refusal changes nothing.       *)

\* The request that is let through becomes the probe of a half-open breaker:
\* the timeout of an OPEN breaker has passed, or HALF_OPEN has a free slot.
ProbeDue ==
  \/ m_state = "OPEN" /\ openAge >= OpenTimeout
  \/ m_state = "HALF_OPEN" /\ m_half_open_inflight = 0

MayPass == m_state = "CLOSED" \/ ProbeDue

Admit == m_state = "CLOSED" /\ UNCHANGED breakerVars

TakeSlot ==
  /\ m_state' = "HALF_OPEN"
  /\ m_half_open_inflight' = 1
  /\ UNCHANGED <<m_consecutive_failures, openAge>>

AdmitProbe == ProbeDue /\ TakeSlot

-----------------------------------------------------------------------------
(* OnSuccess and OnFailure, called with the outcome of a request that was  *)
(* let through.  Neither asks which request reports, nor in which state    *)
(* the breaker was when it let that request through.                       *)

OnSuccess ==
  /\ m_state' = "CLOSED"
  /\ m_consecutive_failures' = 0
  /\ m_half_open_inflight' = 0
  /\ UNCHANGED openAge

Trips(failures) == failures >= FailureThreshold

Open ==
  /\ m_state' = "OPEN"
  /\ openAge' = 0
  /\ m_half_open_inflight' = 0

\* Slip used by mutant runs: OnFailure without its first branch.
OnFailureIgnoresProbe ==
  IF m_state = "CLOSED"
    THEN /\ m_consecutive_failures' = m_consecutive_failures + 1
         /\ IF Trips(m_consecutive_failures + 1)
              THEN Open
              ELSE UNCHANGED <<m_state, m_half_open_inflight, openAge>>
    ELSE UNCHANGED breakerVars

OnFailure ==
  \/ /\ m_state = "HALF_OPEN"
     /\ Open
     /\ UNCHANGED m_consecutive_failures
  \/ /\ m_state = "CLOSED"
     /\ m_consecutive_failures' = m_consecutive_failures + 1
     /\ IF Trips(m_consecutive_failures + 1)
          THEN Open
          ELSE UNCHANGED <<m_state, m_half_open_inflight, openAge>>
  \/ /\ m_state = "OPEN"
     /\ UNCHANGED breakerVars

\* The clock moves on by one tick.
Tick ==
  /\ m_state = "OPEN"
  /\ openAge < OpenTimeout
  /\ openAge' = openAge + 1
  /\ UNCHANGED <<m_state, m_consecutive_failures, m_half_open_inflight>>

-----------------------------------------------------------------------------
(* What the counters mean in each state.                                   *)

\* The half-open slot is taken exactly while the breaker is HALF_OPEN: no
\* state change leaves a slot behind, and the last branch of AllowRequest
\* (circuitbreaker.cc:47, HALF_OPEN with a free slot) is never reached.
SlotIffHalfOpen == m_state = "HALF_OPEN" <=> m_half_open_inflight = 1

\* A closed breaker has strictly fewer failures on its count than trip it, and
\* one that is not closed still carries the count that tripped it: neither
\* Open() nor a report that reaches an OPEN or HALF_OPEN breaker moves it
\* (circuitbreaker.cc:68-86, 94-100).
TrippedIffThreshold ==
  m_state = "CLOSED" <=> m_consecutive_failures < FailureThreshold

BreakerInv == BreakerTypeOK /\ SlotIffHalfOpen /\ TrippedIffThreshold

=============================================================================
