---------------------------- MODULE BreakerProofs ----------------------------
(***************************************************************************)
(* Theorems about BreakerCallers, for every set of callers, every failure  *)
(* threshold and every timeout.                                            *)
(***************************************************************************)
EXTENDS BreakerCallers, CircuitBreakerProofs, FiniteSetTheorems, TLAPS

-----------------------------------------------------------------------------
(* The inductive invariant under concurrent callers.                       *)

LEMMA InvInit == Init => Inv
<1> SUFFICES ASSUME Init
             PROVE  Inv
  OBVIOUS
<1>1. BreakerInv
  BY BreakerInitInv DEF Init
<1>2. TypeOK
  BY <1>1 DEF Init, TypeOK, BreakerInv
<1> QED
  BY <1>1, <1>2 DEF Inv

LEMMA InvStep == Inv /\ [Next]_vars => Inv'
<1> SUFFICES ASSUME Inv, [Next]_vars
             PROVE  Inv'
  OBVIOUS
<1>0. BreakerInv /\ TypeOK
  BY DEF Inv
<1>1. ASSUME NEW c \in Callers, AskBreaker(c)
      PROVE  BreakerInv' /\ TypeOK'
  <2>1. CASE Enter(c)
    BY <1>0, <2>1, UnchangedKeepsInv DEF Enter, Admit, TypeOK, BreakerInv
  <2>2. CASE EnterAsProbe(c)
    BY <1>0, <2>2, AdmitProbeKeepsInv DEF EnterAsProbe, TypeOK, BreakerInv
  <2>3. CASE Rejected(c)
    BY <1>0, <2>3, UnchangedKeepsInv DEF Rejected, TypeOK, BreakerInv
  <2> QED
    BY <1>1, <2>1, <2>2, <2>3 DEF AskBreaker
<1>2. ASSUME NEW c \in Callers, Return(c)
      PROVE  BreakerInv' /\ TypeOK'
  <2>1. CASE Succeed(c)
    BY <1>0, <2>1, OnSuccessKeepsInv DEF Succeed, TypeOK, BreakerInv
  <2>2. CASE Fail(c)
    BY <1>0, <2>2, OnFailureKeepsInv DEF Fail, TypeOK, BreakerInv
  <2>3. CASE SerializeFails(c)
    BY <1>0, <2>3, UnchangedKeepsInv DEF SerializeFails, TypeOK, BreakerInv
  <2> QED
    BY <1>2, <2>1, <2>2, <2>3 DEF Return
<1>3. CASE ClockTick
  BY <1>0, <1>3, TickKeepsInv DEF ClockTick, Inv, TypeOK, BreakerInv
<1>4. CASE Recover
  BY <1>0, <1>4, UnchangedKeepsInv DEF Recover, Inv, TypeOK, BreakerInv
<1>5. CASE UNCHANGED vars
  BY <1>0, <1>5, UnchangedKeepsInv DEF vars, Inv, TypeOK, BreakerInv
<1> QED
  BY <1>1, <1>2, <1>3, <1>4, <1>5 DEF Next, Inv

\* Type correctness, and what the counters of the breaker mean in each state,
\* in every interleaving of AllowRequest, OnSuccess and OnFailure.
THEOREM BreakerCorrect == SafetySpec => []Inv
BY InvInit, InvStep, PTL DEF SafetySpec

-----------------------------------------------------------------------------
(* What a step may let through.                                            *)

LEMMA AdmissionStep ==
  ASSUME Inv, [Next]_vars, NEW c \in Callers,
         ~InFlight(c), InFlight(c)', m_state # "CLOSED"
  PROVE  /\ m_state = "OPEN" /\ openAge = OpenTimeout
         /\ m_state' = "HALF_OPEN"
<1>1. PICK d \in Callers : AskBreaker(d)
  BY DEF Inv, TypeOK, InFlight, Next, vars, Return, Succeed, Fail,
         SerializeFails, ClockTick, Recover
<1>2. ~Admit
  BY DEF Admit
<1>3. CASE Rejected(d)
  BY <1>3 DEF Rejected, InFlight, Inv, TypeOK
<1>4. CASE EnterAsProbe(d)
  BY <1>4, BreakerAssumption
     DEF EnterAsProbe, AdmitProbe, ProbeDue, TakeSlot, Inv, BreakerInv,
         BreakerTypeOK, SlotIffHalfOpen
<1> QED
  BY <1>1, <1>2, <1>3, <1>4 DEF AskBreaker, Enter

\* A breaker that is not CLOSED lets a request through only at the end of a
\* full timeout, and half-opens in the same step.
THEOREM AdmissionsAreRationed == SafetySpec => OneAdmissionPerTimeout
<1>1. Inv /\ [Next]_vars =>
        [\A c \in Callers :
           (~InFlight(c) /\ InFlight(c)' /\ m_state # "CLOSED") =>
             /\ m_state = "OPEN" /\ openAge = OpenTimeout
             /\ m_state' = "HALF_OPEN"]_vars
  BY AdmissionStep
<1> QED
  BY <1>1, BreakerCorrect, PTL DEF SafetySpec, OneAdmissionPerTimeout

-----------------------------------------------------------------------------
(* Nobody is lost while the breaker is HALF_OPEN, except a probe that did   *)
(* not serialise.                                                          *)

LEMMA ProbeStep == Inv /\ ProbeInFlight /\ [Next]_vars => ProbeInFlight'
<1> SUFFICES ASSUME Inv, ProbeInFlight, [Next]_vars, m_state' = "HALF_OPEN"
             PROVE  Probes' # {} \/ \E c \in Unserializable : ~InFlight(c)'
  BY DEF ProbeInFlight, InFlight
<1> USE DEF Inv, TypeOK, Probes
<1>1. ASSUME NEW c \in Callers, AskBreaker(c)
      PROVE  Probes' # {} \/ \E u \in Unserializable : ~InFlight(u)'
  <2>1. CASE Enter(c)
    BY <2>1 DEF Enter, Admit, breakerVars
  <2>2. CASE EnterAsProbe(c)
    BY <2>2 DEF EnterAsProbe
  <2>3. CASE Rejected(c)
    <3>1. CASE Probes # {}
      <4>1. PICK p \in Callers : call[p] = "probe"
        BY <3>1
      <4> QED
        BY <2>3, <4>1 DEF Rejected, InFlight
    <3>2. CASE \E u \in Unserializable : ~InFlight(u)
      <4>1. PICK u \in Unserializable : ~InFlight(u)
        BY <3>2
      <4>2. ~InFlight(u)'
        BY <2>3, <4>1, CallersAssumption DEF Rejected, InFlight
      <4> QED
        BY <4>1, <4>2
    <3> QED
      BY <2>3, <3>1, <3>2 DEF Rejected, breakerVars, ProbeInFlight
  <2> QED
    BY <1>1, <2>1, <2>2, <2>3 DEF AskBreaker
<1>2. ASSUME NEW c \in Callers, Return(c)
      PROVE  \E u \in Unserializable : ~InFlight(u)'
  <2>1. CASE Succeed(c)
    BY <2>1 DEF Succeed, OnSuccess
  <2>2. CASE Fail(c)
    BY <2>2 DEF Fail, OnFailure, Open, breakerVars
  <2>3. CASE SerializeFails(c)
    BY <2>3 DEF SerializeFails, InFlight
  <2> QED
    BY <1>2, <2>1, <2>2, <2>3 DEF Return
<1>3. CASE ClockTick
  BY <1>3 DEF ClockTick, Tick
<1>4. CASE Recover
  BY <1>4 DEF Recover, breakerVars, ProbeInFlight, InFlight
<1>5. CASE UNCHANGED vars
  BY <1>5 DEF vars, breakerVars, ProbeInFlight, InFlight
<1> QED
  BY <1>1, <1>2, <1>3, <1>4, <1>5 DEF Next

\* A HALF_OPEN breaker has a probe in flight to report, unless a caller whose
\* request did not serialise took it away: no order of late reports, openings
\* and timeouts loses a probe.  Where every request serialises (Unserializable
\* is empty) the breaker is never half-open with no one to move it.
THEOREM HalfOpenHasProbe == SafetySpec => []ProbeInFlight
<1>1. Init => ProbeInFlight
  BY DEF Init, BreakerInit, ProbeInFlight
<1>2. Inv /\ ProbeInFlight /\ [Next]_vars => ProbeInFlight'
  BY ProbeStep
<1> QED
  BY <1>1, <1>2, BreakerCorrect, PTL DEF SafetySpec

-----------------------------------------------------------------------------
(* Calls that take no longer than the breaker stays OPEN.                    *)

\* The timeout of an OPEN breaker ends only after every call that was let
\* through before it opened.
OutlivesCalls ==
  openAge' = OpenTimeout /\ openAge # OpenTimeout => \A c \in Callers : ~InFlight(c)

\* An OPEN breaker whose timeout has passed has no call in flight, a HALF_OPEN
\* one no other than its probe.
AloneInv ==
  /\ m_state = "OPEN" /\ openAge = OpenTimeout => \A c \in Callers : ~InFlight(c)
  /\ m_state = "HALF_OPEN" => \A c, d \in Callers : InFlight(c) /\ InFlight(d) => c = d

LEMMA AloneStep ==
  ASSUME Inv, AloneInv, [Next]_vars, [OutlivesCalls]_vars PROVE AloneInv'
<1>1. /\ call \in [Callers -> {"idle", "rejected", "normal", "probe"}]
      /\ openAge \in 0 .. OpenTimeout /\ OpenTimeout \in Nat \ {0}
      /\ m_state = "HALF_OPEN" => m_half_open_inflight = 1
  BY BreakerAssumption DEF Inv, TypeOK, BreakerInv, BreakerTypeOK, SlotIffHalfOpen
<1>2. ASSUME NEW c \in Callers, Enter(c) PROVE AloneInv'
  BY <1>2 DEF Enter, Admit, breakerVars, AloneInv
<1>3. ASSUME NEW c \in Callers, EnterAsProbe(c) PROVE AloneInv'
  <2>1. m_state = "OPEN" /\ openAge = OpenTimeout /\ m_state' = "HALF_OPEN"
    BY <1>1, <1>3 DEF EnterAsProbe, AdmitProbe, ProbeDue, TakeSlot
  <2>2. \A d \in Callers \ {c} : ~InFlight(d)'
    BY <1>1, <1>3, <2>1 DEF EnterAsProbe, AloneInv, InFlight
  <2> QED
    BY <2>1, <2>2 DEF AloneInv
<1>4. ASSUME NEW c \in Callers, Rejected(c) \/ SerializeFails(c) PROVE AloneInv'
  <2>1. UNCHANGED breakerVars /\ \A d \in Callers : InFlight(d)' => InFlight(d)
    BY <1>1, <1>4 DEF Rejected, SerializeFails, InFlight
  <2> QED
    BY <2>1 DEF AloneInv, breakerVars
<1>5. ASSUME NEW c \in Callers, Succeed(c) PROVE AloneInv'
  BY <1>5 DEF Succeed, OnSuccess, AloneInv
<1>6. ASSUME NEW c \in Callers, Fail(c) PROVE AloneInv'
  <2>1. \A d \in Callers : InFlight(d)' => InFlight(d)
    BY <1>1, <1>6 DEF Fail, InFlight
  <2>2. CASE m_state = "OPEN"
    BY <1>6, <2>1, <2>2 DEF Fail, OnFailure, breakerVars, AloneInv
  <2>3. CASE m_state # "OPEN"
    <3>1. \/ m_state' = "OPEN" /\ openAge' = 0
          \/ m_state' = "CLOSED"
      BY <1>6, <2>3 DEF Fail, OnFailure, Open
    <3> QED
      BY <1>1, <3>1 DEF AloneInv
  <2> QED
    BY <2>2, <2>3
<1>7. CASE ClockTick
  <2>1. m_state = "OPEN" /\ m_state' = "OPEN" /\ openAge # OpenTimeout /\ call' = call
    BY <1>1, <1>7 DEF ClockTick, Tick
  <2>2. openAge' # openAge
    BY <1>1, <1>7 DEF ClockTick, Tick
  <2>3. OutlivesCalls
    BY <2>2 DEF vars, breakerVars
  <2> QED
    BY <2>1, <2>3 DEF AloneInv, OutlivesCalls, InFlight
<1>8. CASE UNCHANGED <<breakerVars, call>>
  BY <1>8 DEF AloneInv, breakerVars, InFlight
<1> QED
  BY <1>2, <1>3, <1>4, <1>5, <1>6, <1>7, <1>8 DEF Next, AskBreaker, Return, Recover, vars

LEMMA AloneMeansOne == AloneInv => AtMostOneProbe
<1> SUFFICES ASSUME AloneInv, m_state = "HALF_OPEN" PROVE Cardinality(Probes) <= 1
  BY DEF AtMostOneProbe
<1>1. CASE Probes = {}
  BY <1>1, FS_EmptySet
<1>2. CASE Probes # {}
  <2>1. PICK c \in Callers : call[c] = "probe"
    BY <1>2 DEF Probes
  <2>2. Probes = {c}
    BY <2>1 DEF Probes, AloneInv, InFlight
  <2> QED
    BY <2>2, FS_Singleton
<1> QED
  BY <1>1, <1>2

\* What circuitbreaker.cc:39 says of HALF_OPEN, one probe and no more, is true as
\* long as no call takes longer than the breaker stays OPEN: late reports are
\* the only way to a second probe.
THEOREM PunctualCallsProbeOnce ==
  SafetySpec /\ [][OutlivesCalls]_vars => []AtMostOneProbe
<1>1. Init => AloneInv
  BY DEF Init, BreakerInit, AloneInv
<1>2. Inv /\ AloneInv /\ [Next]_vars /\ [OutlivesCalls]_vars => AloneInv'
  BY AloneStep
<1> QED
  BY <1>1, <1>2, AloneMeansOne, BreakerCorrect, PTL DEF SafetySpec

=============================================================================
