-------------------------- MODULE CircuitBreakerProofs ----------------------
(***************************************************************************)
(* Lemmas on the operations of the breaker alone: each keeps the breaker's *)
(* invariant, whoever calls it.  BreakerProofs and ChannelProofs use them. *)
(***************************************************************************)
EXTENDS CircuitBreaker, TLAPS

LEMMA BreakerInitInv == BreakerInit => BreakerInv
BY BreakerAssumption
   DEF BreakerInit, BreakerInv, BreakerTypeOK, SlotIffHalfOpen,
       TrippedIffThreshold, CircuitState

\* What Open() does to the invariant when the count has reached the threshold.
LEMMA OpenKeepsInv ==
  ASSUME BreakerInv, Open,
         m_consecutive_failures' \in 0 .. FailureThreshold,
         m_consecutive_failures' >= FailureThreshold
  PROVE  BreakerInv'
BY BreakerAssumption
   DEF Open, BreakerInv, BreakerTypeOK, SlotIffHalfOpen, TrippedIffThreshold,
       CircuitState

LEMMA AdmitProbeKeepsInv == BreakerInv /\ AdmitProbe => BreakerInv'
BY BreakerAssumption
   DEF AdmitProbe, ProbeDue, TakeSlot, BreakerInv, BreakerTypeOK,
       SlotIffHalfOpen, TrippedIffThreshold, CircuitState

LEMMA OnSuccessKeepsInv == BreakerInv /\ OnSuccess => BreakerInv'
BY BreakerAssumption
   DEF OnSuccess, BreakerInv, BreakerTypeOK, SlotIffHalfOpen,
       TrippedIffThreshold, CircuitState

\* A failure is counted only while CLOSED; the count that reaches the
\* threshold opens the breaker in the same step.
LEMMA OnFailureKeepsInv == BreakerInv /\ OnFailure => BreakerInv'
<1> SUFFICES ASSUME BreakerInv, OnFailure
             PROVE  BreakerInv'
  OBVIOUS
<1> USE BreakerAssumption
<1>1. m_consecutive_failures \in 0 .. FailureThreshold
  BY DEF BreakerInv, BreakerTypeOK
<1>2. CASE m_state = "HALF_OPEN" /\ Open /\ UNCHANGED m_consecutive_failures
  <2>1. m_consecutive_failures >= FailureThreshold
    BY <1>1, <1>2 DEF BreakerInv, TrippedIffThreshold
  <2> QED
    BY <1>1, <1>2, <2>1, OpenKeepsInv
<1>3. CASE /\ m_state = "CLOSED"
           /\ m_consecutive_failures' = m_consecutive_failures + 1
           /\ IF Trips(m_consecutive_failures + 1)
                THEN Open
                ELSE UNCHANGED <<m_state, m_half_open_inflight, openAge>>
  <2>1. m_consecutive_failures < FailureThreshold
    BY <1>3 DEF BreakerInv, TrippedIffThreshold
  <2>2. m_consecutive_failures' \in 0 .. FailureThreshold
    BY <1>1, <1>3, <2>1
  <2>3. CASE Trips(m_consecutive_failures + 1)
    BY <1>3, <2>2, <2>3, OpenKeepsInv DEF Trips
  <2>4. CASE ~Trips(m_consecutive_failures + 1)
    BY <1>1, <1>3, <2>2, <2>4
       DEF Trips, BreakerInv, BreakerTypeOK, SlotIffHalfOpen,
           TrippedIffThreshold
  <2> QED
    BY <2>3, <2>4
<1>4. CASE m_state = "OPEN" /\ UNCHANGED breakerVars
  BY <1>4 DEF breakerVars, BreakerInv, BreakerTypeOK, SlotIffHalfOpen,
              TrippedIffThreshold
<1> QED
  BY <1>2, <1>3, <1>4 DEF OnFailure

LEMMA TickKeepsInv == BreakerInv /\ Tick => BreakerInv'
BY BreakerAssumption
   DEF Tick, BreakerInv, BreakerTypeOK, SlotIffHalfOpen, TrippedIffThreshold

LEMMA UnchangedKeepsInv == BreakerInv /\ UNCHANGED breakerVars => BreakerInv'
BY DEF breakerVars, BreakerInv, BreakerTypeOK, SlotIffHalfOpen,
       TrippedIffThreshold

=============================================================================
