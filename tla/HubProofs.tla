------------------------------ MODULE HubProofs ------------------------------
(***************************************************************************)
(* Proofs about SolisInverterHub, alone and beside routed writes: type     *)
(* correctness, the ownership of the polling objects, the refinement of    *)
(* PollerLease, the failover health check, and what a write falls back to. *)
(***************************************************************************)
EXTENDS RoutedWrite, TLAPS

-----------------------------------------------------------------------------
(* Facts about the operators that build the next value of ret.             *)

LEMMA StopOneType ==
  ASSUME NEW s \in RetrievalState
  PROVE  /\ StopOne(s) \in RetrievalState
         /\ StopOne(s).proto = s.proto
         /\ StopOne(s).stopped
         /\ ~StopOne(s).timers
  BY DEF StopOne, RetrievalState

LEMMA FinishedType ==
  ASSUME NEW s \in RetrievalState
  PROVE  /\ Finished(s) \in RetrievalState
         /\ Finished(s).proto = s.proto
         /\ Finished(s).stopped = s.stopped
         /\ Finished(s).timers = ~s.stopped
  BY DEF Finished, RetrievalState

\* Launching object r makes it live, without timers, and of protocol p; the
\* other objects are untouched.
LEMMA LaunchedFacts ==
  ASSUME NEW rs \in [Retrievals -> RetrievalState], NEW r \in Retrievals,
         NEW p \in Protocols
  PROVE  /\ Launched(rs, r, p) \in [Retrievals -> RetrievalState]
         /\ Launched(rs, r, p)[r].proto = p
         /\ ~Launched(rs, r, p)[r].stopped
         /\ ~Launched(rs, r, p)[r].timers
         /\ \A q \in Retrievals \ {r} : Launched(rs, r, p)[q] = rs[q]
  BY DEF Launched, RetrievalState, Collected

LEMMA HaltedFacts ==
  ASSUME NEW rs \in [Retrievals -> RetrievalState], NEW r \in Retrievals
  PROVE  /\ Halted(rs, r) \in [Retrievals -> RetrievalState]
         /\ Halted(rs, r)[r].stopped
         /\ ~Halted(rs, r)[r].timers
         /\ \A q \in Retrievals \ {r} : Halted(rs, r)[q] = rs[q]
  BY StopOneType DEF Halted

-----------------------------------------------------------------------------
(* Type correctness.                                                       *)

LEMMA StaleAfterNat == \A q \in Protocols : StaleAfter[q] \in Nat /\ 0 <= StaleAfter[q]
  BY StaleAfterAssumption

\* Stamping a success keeps the ages in range.
LEMMA AgeReset ==
  ASSUME age \in [Protocols -> Nat], \A q \in Protocols : age[q] <= StaleAfter[q],
         NEW p \in Protocols
  PROVE  /\ [age EXCEPT ![p] = 0] \in [Protocols -> Nat]
         /\ \A q \in Protocols : [age EXCEPT ![p] = 0][q] <= StaleAfter[q]
<1>1. [age EXCEPT ![p] = 0] \in [Protocols -> Nat]
  OBVIOUS
<1>2. ASSUME NEW q \in Protocols PROVE [age EXCEPT ![p] = 0][q] <= StaleAfter[q]
  <2>1. [age EXCEPT ![p] = 0][q] = IF q = p THEN 0 ELSE age[q]
    OBVIOUS
  <2>2. age[q] <= StaleAfter[q] /\ 0 <= StaleAfter[q]
    BY StaleAfterNat
  <2> QED BY <2>1, <2>2
<1> QED BY <1>1, <1>2

LEMMA RetrievalStepType ==
  ASSUME RetrievalTypeOK, NEW r \in Retrievals, RetrievalStep(r)
  PROVE  RetrievalTypeOK'
<1> USE StaleAfterAssumption DEF RetrievalTypeOK, transport
<1> DEFINE rec == ret[r]
<1>0. rec \in RetrievalState /\ Finished(rec) \in RetrievalState
  BY FinishedType
<1>a. ASSUME NEW p \in Protocols, CycleOutcome(p)
      PROVE  /\ age' \in [Protocols -> Nat]
             /\ \A q \in Protocols : age'[q] <= StaleAfter[q]
             /\ socket' \in BOOLEAN
  <2>1. CASE age' = [age EXCEPT ![p] = 0] /\ socket' = (IF p = "modbus" THEN TRUE ELSE socket)
    BY <2>1, AgeReset
  <2>2. CASE UNCHANGED age /\ (UNCHANGED socket \/ socket' = FALSE)
    BY <2>2
  <2> QED BY <1>a, <2>1, <2>2 DEF CycleOutcome
<1>b. \A t \in {"preparing", "first"} :
        [ret EXCEPT ![r].task = t] \in [Retrievals -> RetrievalState]
  BY <1>0 DEF RetrievalState
<1>c. \A b \in BOOLEAN : [ret EXCEPT ![r].busy = b] \in [Retrievals -> RetrievalState]
  BY <1>0 DEF RetrievalState
<1>d. [ret EXCEPT ![r] = Finished(@)] \in [Retrievals -> RetrievalState]
  BY <1>0
<1>e. ASSUME NEW t \in {"preparing", "first"}, NEW c \in BOOLEAN
      PROVE  [ret EXCEPT ![r] = IF c THEN Finished(@) ELSE [@ EXCEPT !.task = t]]
               \in [Retrievals -> RetrievalState]
  BY <1>0 DEF RetrievalState
<1>f. ret[r].stopped \in BOOLEAN
  BY <1>0 DEF RetrievalState
<1>g. ASSUME CloseStaleLink(r) PROVE ret' \in [Retrievals -> RetrievalState] /\ socket' \in BOOLEAN
  BY <1>g, <1>e, <1>f DEF CloseStaleLink
<1>1. CASE BeginModbus(r)
  BY <1>1, <1>b, <1>d, <1>e, <1>f, <1>g DEF BeginModbus
<1>2. CASE BeginCloud(r)
  BY <1>2, <1>b DEF BeginCloud
<1>3. CASE ConnectSucceeds(r)
  BY <1>3, <1>d DEF ConnectSucceeds
<1>4. CASE ConnectAbandoned(r)
  BY <1>4, <1>d DEF ConnectAbandoned
<1>5. CASE CloudPrepared(r)
  BY <1>5, <1>b, <1>d DEF CloudPrepared
<1>6. CASE FirstCycleEnds(r)
  BY <1>6, <1>a, <1>d, <1>0 DEF FirstCycleEnds, RetrievalState
<1>7. CASE FirstCycleFindsStaleLink(r)
  BY <1>7, <1>g DEF FirstCycleFindsStaleLink
<1>8. CASE TimerFires(r)
  BY <1>8, <1>c DEF TimerFires
<1>9. CASE CycleEnds(r)
  BY <1>9, <1>a, <1>c, <1>0 DEF CycleEnds, RetrievalState
<1>10. CASE Watchdog(r)
  BY <1>10 DEF Watchdog
<1> QED
  BY <1>1, <1>2, <1>3, <1>4, <1>5, <1>6, <1>7, <1>8, <1>9, <1>10 DEF RetrievalStep

LEMMA EnvironmentType ==
  ASSUME RetrievalTypeOK, Environment
  PROVE  RetrievalTypeOK'
<1> USE DEF RetrievalTypeOK, transport
<1>1. CASE HomeAssistantStarted
  <2>1. \A r \in Retrievals : [ret[r] EXCEPT !.task = "scheduled"] \in RetrievalState
    BY DEF RetrievalState
  <2> QED BY <1>1, <2>1 DEF HomeAssistantStarted
<1>2. ASSUME NEW p \in Protocols, FarEndChanges(p) PROVE RetrievalTypeOK'
  BY <1>2 DEF FarEndChanges
<1>3. CASE SocketChanges
  BY <1>3 DEF SocketChanges
<1>4. CASE ToggleConnection
  BY <1>4 DEF ToggleConnection
<1> QED BY <1>1, <1>2, <1>3, <1>4 DEF Environment

\* What a switch does, for any protocol it is asked for.
LEMMA SetActiveType ==
  ASSUME HubTypeOK, NEW p \in Protocols, SetActive(p)
  PROVE  /\ ret' \in [Retrievals -> RetrievalState]
         /\ current' \in Retrievals \union {NoRetrieval}
         /\ active' \in Protocols
         /\ dwell' \in 0..MinDwell
         /\ healthySince' \in (0..PrimaryRecovery) \union {NotHealthy}
         /\ sinceSetback' \in 0..PrimaryRecovery
<1> USE HubAssumption DEF HubTypeOK, RetrievalTypeOK
<1>1. StopCurrent \in [Retrievals -> RetrievalState]
  BY HaltedFacts DEF StopCurrent
<1>2. CASE p = active
  BY <1>2 DEF SetActive
<1>3. CASE p # active
  <2>1. PICK r \in Retrievals :
          /\ ret' = Launched(StopCurrent, r, p)
          /\ current' = r /\ active' = p /\ dwell' = 0
          /\ healthySince' = NotHealthy /\ sinceSetback' = 0
    BY <1>3 DEF SetActive
  <2> QED BY <2>1, <1>1, LaunchedFacts
<1> QED BY <1>2, <1>3

LEMMA TypeStep ==
  ASSUME HubTypeOK, [Next]_vars
  PROVE  HubTypeOK'
<1> USE HubAssumption, StaleAfterAssumption DEF HubTypeOK
<1>a. StopCurrent \in [Retrievals -> RetrievalState]
  BY HaltedFacts DEF StopCurrent, RetrievalTypeOK
<1>1. ASSUME NEW p \in SelectOptions, SelectEarly(p) PROVE HubTypeOK'
  BY <1>1, SetActiveType DEF SelectEarly, SelectOptions, transport, RetrievalTypeOK
<1>2. ASSUME NEW p \in SelectOptions, SelectOption(p) PROVE HubTypeOK'
  BY <1>2, SetActiveType DEF SelectOption, SelectOptions, transport, RetrievalTypeOK
<1>3. CASE HubStart
  <2>1. PICK r \in Retrievals : ret' = Launched(ret, r, active) /\ current' = r
    BY <1>3 DEF HubStart
  <2>2. ret' \in [Retrievals -> RetrievalState]
    BY <2>1, LaunchedFacts DEF RetrievalTypeOK
  <2> QED BY <1>3, <2>1, <2>2 DEF HubStart, transport, RetrievalTypeOK
<1>4. CASE HubStop
  BY <1>4, <1>a DEF HubStop, transport, RetrievalTypeOK
<1>5. CASE LeavePrimary
  <2>1. Other(FailoverPrimary) \in Protocols BY DEF Other, Protocols
  <2> QED BY <1>5, <2>1, SetActiveType DEF LeavePrimary, transport, RetrievalTypeOK
<1>6. ASSUME NEW t \in Ticks, StartProbe(t) PROVE HubTypeOK'
  BY <1>6 DEF StartProbe, retVars, RetrievalTypeOK
<1>7. ASSUME NEW t \in Ticks, ProbeSucceeds(t) PROVE HubTypeOK'
  <2> DEFINE since == IF healthySince = NotHealthy THEN 0 ELSE healthySince
  <2>1. since \in 0..PrimaryRecovery
    OBVIOUS
  <2>2. /\ ret' \in [Retrievals -> RetrievalState]
        /\ current' \in Retrievals \union {NoRetrieval}
        /\ active' \in Protocols
        /\ dwell' \in 0..MinDwell
        /\ healthySince' \in (0..PrimaryRecovery) \union {NotHealthy}
        /\ sinceSetback' \in 0..PrimaryRecovery
    <3>1. CASE SetActive(FailoverPrimary)
      BY <3>1, SetActiveType
    <3>2. CASE healthySince' = since /\ UNCHANGED <<ret, current, active, dwell, sinceSetback>>
      BY <3>2, <2>1 DEF RetrievalTypeOK
    <3> QED BY <1>7, <3>1, <3>2 DEF ProbeSucceeds
  <2>3. /\ age' \in [Protocols -> Nat] /\ \A q \in Protocols : age'[q] <= StaleAfter[q]
        /\ socket' \in BOOLEAN
    <3>1. CASE age' = [age EXCEPT !["modbus"] = 0] /\ socket' = TRUE
      <4>1. "modbus" \in Protocols BY DEF Protocols
      <4> QED BY <3>1, <4>1, AgeReset DEF RetrievalTypeOK
    <3>2. CASE UNCHANGED <<age, socket>>
      BY <3>2 DEF RetrievalTypeOK
    <3> QED BY <1>7, <3>1, <3>2 DEF ProbeSucceeds
  <2>4. tick' \in [Ticks -> [probing : BOOLEAN, dwell : 0..MinDwell]]
    BY <1>7 DEF ProbeSucceeds, IdleTick
  <2> QED BY <1>7, <2>2, <2>3, <2>4 DEF ProbeSucceeds, RetrievalTypeOK
<1>8. ASSUME NEW t \in Ticks, ProbeFails(t) PROVE HubTypeOK'
  <2>1. socket' \in BOOLEAN
    BY <1>8 DEF ProbeFails, RetrievalTypeOK
  <2>2. tick' \in [Ticks -> [probing : BOOLEAN, dwell : 0..MinDwell]]
    BY <1>8 DEF ProbeFails, IdleTick
  <2>3. healthySince' = NotHealthy /\ sinceSetback' = 0
        /\ UNCHANGED <<isRunning, enabled, up, age, ret, phase, active, current, dwell, healthTimer>>
    BY <1>8 DEF ProbeFails
  <2> QED BY <2>1, <2>2, <2>3 DEF RetrievalTypeOK
<1>9. CASE RetrievalNext /\ UNCHANGED hubVars
  BY <1>9, RetrievalStepType, EnvironmentType DEF RetrievalNext, hubVars
<1>10. CASE TimePasses
  BY <1>10 DEF TimePasses, RetrievalTypeOK
<1>11. CASE UNCHANGED vars
  BY <1>11 DEF vars, retVars, hubVars, RetrievalTypeOK
<1> QED
  BY <1>1, <1>2, <1>3, <1>4, <1>5, <1>6, <1>7, <1>8, <1>9, <1>10, <1>11
  DEF Next, HubStep, HealthCheck, EndProbe

LEMMA TypeInit == Init => HubTypeOK
<1> SUFFICES ASSUME Init PROVE HubTypeOK
  OBVIOUS
<1> USE HubAssumption, StaleAfterAssumption
<1>1. InitialActive \in Protocols
  <2>1. "modbus" \in Protocols /\ "cloud" \in Protocols BY DEF Protocols
  <2> QED BY <2>1 DEF InitialActive
<1>2. Collected \in RetrievalState
  BY DEF Collected, RetrievalState, Protocols
<1>3. RetrievalTypeOK
  <2>1. age \in [Protocols -> Nat] /\ \A p \in Protocols : age[p] <= StaleAfter[p]
    <3>1. age = [p \in Protocols |-> IF p = "modbus" THEN 0 ELSE StaleAfter[p]]
      BY DEF Init, RetrievalInit
    <3> QED BY <3>1, StaleAfterNat
  <2> QED BY <1>2, <2>1 DEF Init, RetrievalInit, RetrievalTypeOK
<1>4. IdleTick \in [probing : BOOLEAN, dwell : 0..MinDwell]
  BY DEF IdleTick
<1>5. MinDwell \in 0..MinDwell /\ 0 \in 0..PrimaryRecovery
  BY HubAssumption
<1> QED BY <1>1, <1>3, <1>4, <1>5 DEF Init, HubTypeOK

\* Every state of the hub and of its polling objects is well typed.
THEOREM TypeCorrect == Spec => []HubTypeOK
<1>1. HubTypeOK /\ [Next]_vars => HubTypeOK'
  BY TypeStep
<1> QED BY <1>1, TypeInit, PTL DEF Spec

-----------------------------------------------------------------------------
(* Ownership of the polling objects.                                       *)

\* Nothing is selected before async_start but the protocol the hub starts with.
NothingEarly == Mode = "both_manual" => EarlyOptions \subseteq {"modbus"}

\* Inductive: before async_start the hub holds nothing and checks no health;
\* timers belong to live objects; the only live object is the current one, of
\* the active protocol.
Ownership ==
  /\ phase = "setup" =>
       /\ current = NoRetrieval /\ active = InitialActive
       /\ ~healthTimer /\ \A t \in Ticks : ~tick[t].probing
  /\ \A r \in Retrievals : ret[r].timers => ~ret[r].stopped
  /\ NoOrphans
  /\ CurrentServesActive

\* No coroutine changes whose object is live, or its protocol; timers are only
\* registered for a live object.
LEMMA RetrievalStepOwnership ==
  ASSUME RetrievalTypeOK, NEW r \in Retrievals, RetrievalStep(r)
  PROVE  \A q \in Retrievals :
           /\ ret'[q].proto = ret[q].proto
           /\ ret'[q].stopped = ret[q].stopped
           /\ ret'[q].timers => ret[q].timers \/ ~ret[q].stopped
<1> USE DEF RetrievalTypeOK
<1>0. ret[r] \in RetrievalState
  OBVIOUS
<1>a. ASSUME ret' = [ret EXCEPT ![r] = Finished(@)]
      PROVE  \A q \in Retrievals :
               /\ ret'[q].proto = ret[q].proto
               /\ ret'[q].stopped = ret[q].stopped
               /\ ret'[q].timers => ret[q].timers \/ ~ret[q].stopped
  BY <1>a, <1>0, FinishedType
<1>b. ASSUME NEW s \in RetrievalState, s.proto = ret[r].proto,
             s.stopped = ret[r].stopped, s.timers = ret[r].timers,
             ret' = [ret EXCEPT ![r] = s]
      PROVE  \A q \in Retrievals :
               /\ ret'[q].proto = ret[q].proto
               /\ ret'[q].stopped = ret[q].stopped
               /\ ret'[q].timers => ret[q].timers \/ ~ret[q].stopped
  BY <1>b
<1>c. ASSUME NEW t \in {"preparing", "first"}
      PROVE  LET s == [ret[r] EXCEPT !.task = t] IN
             /\ s \in RetrievalState /\ s.proto = ret[r].proto
             /\ s.stopped = ret[r].stopped /\ s.timers = ret[r].timers
  BY <1>0 DEF RetrievalState
<1>d. ASSUME NEW b \in BOOLEAN
      PROVE  LET s == [ret[r] EXCEPT !.busy = b] IN
             /\ s \in RetrievalState /\ s.proto = ret[r].proto
             /\ s.stopped = ret[r].stopped /\ s.timers = ret[r].timers
  BY <1>0 DEF RetrievalState
<1>e. ASSUME ret' = [ret EXCEPT ![r].task = "preparing"]
             \/ ret' = [ret EXCEPT ![r].task = "first"]
      PROVE  \A q \in Retrievals :
               /\ ret'[q].proto = ret[q].proto
               /\ ret'[q].stopped = ret[q].stopped
               /\ ret'[q].timers => ret[q].timers \/ ~ret[q].stopped
  BY <1>e, <1>b, <1>c
<1>f. ASSUME CloseStaleLink(r)
      PROVE  \/ ret' = [ret EXCEPT ![r] = Finished(@)]
             \/ ret' = [ret EXCEPT ![r].task = "preparing"]
  BY <1>f DEF CloseStaleLink
<1>1. CASE BeginModbus(r)
  BY <1>1, <1>a, <1>e, <1>f DEF BeginModbus
<1>2. CASE BeginCloud(r)
  BY <1>2, <1>e DEF BeginCloud
<1>3. CASE ConnectSucceeds(r)
  BY <1>3, <1>a DEF ConnectSucceeds
<1>4. CASE ConnectAbandoned(r)
  BY <1>4, <1>a DEF ConnectAbandoned
<1>5. CASE CloudPrepared(r)
  BY <1>5, <1>a, <1>e DEF CloudPrepared
<1>6. CASE FirstCycleEnds(r)
  BY <1>6, <1>a DEF FirstCycleEnds
<1>7. CASE FirstCycleFindsStaleLink(r)
  BY <1>7, <1>a, <1>e, <1>f DEF FirstCycleFindsStaleLink
<1>8. CASE TimerFires(r)
  BY <1>8, <1>b, <1>d DEF TimerFires
<1>9. CASE CycleEnds(r)
  BY <1>9, <1>b, <1>d DEF CycleEnds
<1>10. CASE Watchdog(r)
  BY <1>10 DEF Watchdog
<1> QED
  BY <1>1, <1>2, <1>3, <1>4, <1>5, <1>6, <1>7, <1>8, <1>9, <1>10 DEF RetrievalStep

LEMMA EnvironmentOwnership ==
  ASSUME RetrievalTypeOK, Environment
  PROVE  \A q \in Retrievals :
           /\ ret'[q].proto = ret[q].proto
           /\ ret'[q].stopped = ret[q].stopped
           /\ ret'[q].timers = ret[q].timers
<1>1. CASE HomeAssistantStarted
  BY <1>1 DEF HomeAssistantStarted, RetrievalTypeOK, RetrievalState
<1>2. CASE UNCHANGED ret
  BY <1>2
<1> QED
  BY <1>1, <1>2 DEF Environment, FarEndChanges, SocketChanges, ToggleConnection

\* A switch leaves exactly one live object: the new one, without timers yet.
LEMMA SetActiveOwnership ==
  ASSUME HubTypeOK, Ownership, NEW p \in Protocols, SetActive(p)
  PROVE  /\ \A r \in Retrievals : ret'[r].timers => ~ret'[r].stopped
         /\ NoOrphans' /\ CurrentServesActive'
         /\ p # active => \A r \in Retrievals : ~ret'[r].timers
<1> USE HubAssumption DEF HubTypeOK, RetrievalTypeOK
<1>1. CASE p = active
  BY <1>1 DEF SetActive, Ownership, NoOrphans, CurrentServesActive
<1>2. CASE p # active
  <2>1. PICK r \in Retrievals :
          ret' = Launched(StopCurrent, r, p) /\ current' = r /\ active' = p
    BY <1>2 DEF SetActive
  <2>2. /\ StopCurrent \in [Retrievals -> RetrievalState]
        /\ \A q \in Retrievals : StopCurrent[q].stopped /\ ~StopCurrent[q].timers
    BY HaltedFacts DEF StopCurrent, Ownership, NoOrphans
  <2>3. /\ ret'[r].proto = p /\ ~ret'[r].stopped /\ ~ret'[r].timers
        /\ \A q \in Retrievals \ {r} : ret'[q].stopped /\ ~ret'[q].timers
    BY <2>1, <2>2, LaunchedFacts
  <2> QED BY <2>1, <2>3 DEF NoOrphans, CurrentServesActive
<1> QED BY <1>1, <1>2

LEMMA OwnershipStep ==
  ASSUME NothingEarly, HubTypeOK, Ownership, [Next]_vars
  PROVE  Ownership'
<1> USE HubAssumption DEF HubTypeOK
<1>a. IdleTick.probing = FALSE
  BY DEF IdleTick
<1>1. ASSUME NEW p \in SelectOptions, SelectEarly(p) PROVE Ownership'
  <2>1. p = active
    <3>1. Mode = "both_manual" /\ p \in EarlyOptions /\ phase = "setup"
      BY <1>1 DEF SelectEarly, SelectOptions
    <3>2. InitialActive = "modbus"
      BY <3>1 DEF InitialActive
    <3> QED BY <3>1, <3>2 DEF NothingEarly, Ownership
  <2>2. UNCHANGED <<ret, current, active, phase, healthTimer, tick>>
    BY <1>1, <2>1 DEF SelectEarly, SetActive
  <2> QED
    BY <2>2 DEF Ownership, NoOrphans, CurrentServesActive, InitialActive
<1>2. ASSUME NEW p \in SelectOptions, SelectOption(p) PROVE Ownership'
  <2>1. SetActive(p) /\ phase' = "running"
    BY <1>2 DEF SelectOption
  <2>2. p \in Protocols
    BY DEF SelectOptions
  <2> QED BY <2>1, <2>2, SetActiveOwnership DEF Ownership
<1>3. CASE HubStart
  <2>1. PICK r \in Retrievals : ret' = Launched(ret, r, active) /\ current' = r
    BY <1>3 DEF HubStart
  <2>2. \A q \in Retrievals : ret[q].stopped /\ ~ret[q].timers
    BY <1>3 DEF HubStart, Ownership, NoOrphans
  <2>3. /\ ret'[r].proto = active /\ ~ret'[r].stopped /\ ~ret'[r].timers
        /\ \A q \in Retrievals \ {r} : ret'[q].stopped /\ ~ret'[q].timers
    BY <2>1, <2>2, LaunchedFacts DEF RetrievalTypeOK
  <2>4. phase' = "running" /\ active' = active
    BY <1>3 DEF HubStart
  <2> QED BY <2>1, <2>3, <2>4 DEF Ownership, NoOrphans, CurrentServesActive
<1>4. CASE HubStop
  <2>1. \A q \in Retrievals : StopCurrent[q].stopped /\ ~StopCurrent[q].timers
    BY HaltedFacts DEF StopCurrent, Ownership, NoOrphans, RetrievalTypeOK
  <2> QED BY <1>4, <2>1 DEF HubStop, Ownership, NoOrphans, CurrentServesActive
<1>5. CASE LeavePrimary
  <2>1. Other(FailoverPrimary) \in Protocols BY DEF Other, Protocols
  <2>2. SetActive(Other(FailoverPrimary)) /\ phase' = phase /\ phase # "setup"
    BY <1>5 DEF LeavePrimary, Ownership
  <2> QED BY <2>1, <2>2, SetActiveOwnership DEF Ownership
<1>6. ASSUME NEW t \in Ticks, StartProbe(t) PROVE Ownership'
  <2>1. phase # "setup" /\ UNCHANGED <<ret, current, active, phase>>
    BY <1>6 DEF StartProbe, Ownership, retVars
  <2> QED BY <2>1 DEF Ownership, NoOrphans, CurrentServesActive
<1>7. ASSUME NEW t \in Ticks, ProbeSucceeds(t) PROVE Ownership'
  <2>1. phase # "setup" /\ phase' = phase
    BY <1>7 DEF ProbeSucceeds, Ownership
  <2>2. CASE SetActive(FailoverPrimary)
    BY <2>1, <2>2, SetActiveOwnership DEF Ownership
  <2>3. CASE UNCHANGED <<ret, current, active>>
    BY <2>1, <2>3 DEF Ownership, NoOrphans, CurrentServesActive
  <2> QED BY <1>7, <2>2, <2>3 DEF ProbeSucceeds
<1>8. ASSUME NEW t \in Ticks, ProbeFails(t) PROVE Ownership'
  <2>1. phase # "setup" /\ UNCHANGED <<ret, current, active, phase>>
    BY <1>8 DEF ProbeFails, Ownership
  <2> QED BY <2>1 DEF Ownership, NoOrphans, CurrentServesActive
<1>9. CASE RetrievalNext /\ UNCHANGED hubVars
  <2>1. UNCHANGED <<phase, active, current, healthTimer, tick>>
    BY <1>9 DEF hubVars
  <2>2. \A q \in Retrievals :
          /\ ret'[q].proto = ret[q].proto
          /\ ret'[q].stopped = ret[q].stopped
          /\ ret'[q].timers => ret[q].timers \/ ~ret[q].stopped
    BY <1>9, RetrievalStepOwnership, EnvironmentOwnership DEF RetrievalNext
  <2> QED
    BY <2>1, <2>2 DEF Ownership, NoOrphans, CurrentServesActive, InitialActive
<1>10. CASE TimePasses
  BY <1>10 DEF TimePasses, Ownership, NoOrphans, CurrentServesActive, InitialActive
<1>11. CASE UNCHANGED vars
  BY <1>11 DEF vars, retVars, hubVars, Ownership, NoOrphans, CurrentServesActive, InitialActive
<1> QED
  BY <1>1, <1>2, <1>3, <1>4, <1>5, <1>6, <1>7, <1>8, <1>9, <1>10, <1>11
  DEF Next, HubStep, HealthCheck, EndProbe

LEMMA OwnershipInit == Init => Ownership
  BY HubAssumption DEF Init, RetrievalInit, Collected, IdleTick, Ownership, NoOrphans, CurrentServesActive

LEMMA OwnershipInvariant ==
  ASSUME NothingEarly
  PROVE  Spec => [](HubTypeOK /\ Ownership)
<1>1. HubTypeOK /\ Ownership /\ [Next]_vars => Ownership'
  BY OwnershipStep
<1> QED BY <1>1, OwnershipInit, TypeCorrect, PTL DEF Spec

\* Every live polling object is the one the hub holds, unless a selection, by the
\* restore or a user, built one before async_start did.
THEOREM NoOrphansHolds ==
  ASSUME NothingEarly
  PROVE  Spec => []NoOrphans
<1>1. Ownership => NoOrphans BY DEF Ownership
<1> QED BY <1>1, OwnershipInvariant, PTL

\* The object the hub holds is live and of the active protocol.
THEOREM CurrentServesActiveHolds ==
  ASSUME NothingEarly
  PROVE  Spec => []CurrentServesActive
<1>1. Ownership => CurrentServesActive BY DEF Ownership
<1> QED BY <1>1, OwnershipInvariant, PTL

\* No interval timer of the standby protocol is ever registered.
THEOREM StandbyIdle ==
  ASSUME NothingEarly
  PROVE  Spec => []StandbyHasNoTimers
<1>1. Ownership => StandbyHasNoTimers
  BY HubAssumption DEF Ownership, NoOrphans, CurrentServesActive, StandbyHasNoTimers
<1> QED BY <1>1, OwnershipInvariant, PTL

-----------------------------------------------------------------------------
(* The hub implements PollerLease.                                         *)

\* The current object changes only in steps after which nobody has timers.
LEMMA HandoverHasNoHolder ==
  ASSUME NothingEarly, HubTypeOK, Ownership, [Next]_vars
  PROVE  current' = current \/ TimerHolders' = {}
<1> USE HubAssumption DEF HubTypeOK
<1>1. ASSUME NEW p \in Protocols, SetActive(p)
      PROVE  current' = current \/ TimerHolders' = {}
  <2>1. CASE p = active
    BY <1>1, <2>1 DEF SetActive
  <2>2. CASE p # active
    BY <1>1, <2>2, SetActiveOwnership DEF TimerHolders
  <2> QED BY <2>1, <2>2
<1>2. CASE HubStart
  <2>1. PICK r \in Retrievals : ret' = Launched(ret, r, active)
    BY <1>2 DEF HubStart
  <2>2. \A q \in Retrievals : ~ret[q].timers
    BY <1>2 DEF HubStart, Ownership, NoOrphans
  <2>3. /\ ~ret'[r].timers
        /\ \A q \in Retrievals \ {r} : ret'[q] = ret[q]
    BY <2>1, LaunchedFacts DEF RetrievalTypeOK
  <2> QED BY <2>2, <2>3 DEF TimerHolders
<1>3. CASE HubStop
  <2>1. \A q \in Retrievals : ~StopCurrent[q].timers
    BY HaltedFacts DEF StopCurrent, Ownership, NoOrphans, RetrievalTypeOK
  <2> QED BY <1>3, <2>1 DEF HubStop, TimerHolders
<1>4. CASE HealthCheck
  <2>1. Other(FailoverPrimary) \in Protocols BY DEF Other, Protocols
  <2>2. SetActive(FailoverPrimary) \/ SetActive(Other(FailoverPrimary)) \/ current' = current
    BY <1>4 DEF HealthCheck, LeavePrimary, StartProbe, EndProbe, ProbeSucceeds, ProbeFails
  <2> QED BY <1>1, <2>1, <2>2
<1>5. CASE RetrievalNext /\ UNCHANGED hubVars
  BY <1>5 DEF hubVars
<1>6. CASE TimePasses
  BY <1>6 DEF TimePasses
<1>7. CASE UNCHANGED vars
  BY <1>7 DEF vars, hubVars
<1>8. ASSUME NEW p \in SelectOptions, SelectEarly(p) \/ SelectOption(p)
      PROVE  current' = current \/ TimerHolders' = {}
  BY <1>1, <1>8 DEF SelectEarly, SelectOption, SelectOptions
<1> QED
  BY <1>2, <1>3, <1>4, <1>5, <1>6, <1>7, <1>8 DEF Next, HubStep

\* Only the current object can hold timers.
LEMMA HolderIsCurrent == Ownership => TimerHolders \subseteq {current}
  BY DEF Ownership, NoOrphans, TimerHolders

LEMMA LeaseStep ==
  ASSUME NothingEarly, HubTypeOK, Ownership, [Next]_vars
  PROVE  [Lease!Next]_TimerHolders
<1>1. TimerHolders \subseteq {current} /\ TimerHolders \subseteq Retrievals
  BY HolderIsCurrent DEF TimerHolders
<1>2. TimerHolders' \subseteq {current'} /\ TimerHolders' \subseteq Retrievals
  <2>1. Ownership' BY OwnershipStep
  <2> QED BY <2>1 DEF Ownership, NoOrphans, TimerHolders
<1>3. CASE TimerHolders' = {}
  BY <1>3 DEF Lease!Next, Lease!Revoke
<1>4. CASE current' = current /\ TimerHolders' # {}
  <2>1. TimerHolders' = {current} /\ current \in Retrievals
    BY <1>2, <1>4
  <2>2. CASE TimerHolders = {}
    <3>1. Lease!Grant(current)
      BY <2>1, <2>2 DEF Lease!Grant
    <3> QED BY <2>1, <3>1 DEF Lease!Next
  <2>3. CASE TimerHolders # {}
    BY <1>1, <2>1, <2>3
  <2> QED BY <2>2, <2>3
<1> QED BY <1>3, <1>4, HandoverHasNoHolder

\* Timers of two polling objects never coexist, nor change hands in one step.
THEOREM HubImplementsLease ==
  ASSUME NothingEarly
  PROVE  Spec => LeaseSpec
<1>1. Init => Lease!Init
  BY DEF Init, RetrievalInit, Collected, Lease!Init, TimerHolders
<1>2. HubTypeOK /\ Ownership /\ [Next]_vars => [Lease!Next]_TimerHolders
  BY LeaseStep
<1> QED BY <1>1, <1>2, OwnershipInvariant, PTL DEF Spec, LeaseSpec, Lease!Spec

-----------------------------------------------------------------------------
(* The health check of failover mode.                                      *)

\* Inductive: one health tick is in flight at a time and the dwell it measured
\* is not more than the present one; the recovery clock runs no longer than
\* the time since the last switch or failed probe.
HealthInv ==
  /\ \A t \in Ticks : tick[t].probing => tick[t].dwell <= dwell
  /\ \A t, u \in Ticks : tick[t].probing /\ tick[u].probing => t = u
  /\ healthySince # NotHealthy => healthySince <= sinceSetback

\* No step but a switch shortens the dwell, and a switch waits for it.
SwitchStep ==
  /\ active' # active => dwell >= MinDwell
  /\ active # FailoverPrimary /\ active' = FailoverPrimary => sinceSetback >= PrimaryRecovery

LEMMA SetActiveHealth ==
  ASSUME NEW p \in Protocols, SetActive(p)
  PROVE  \/ /\ p = active
            /\ UNCHANGED <<active, dwell, healthySince, sinceSetback>>
         \/ /\ active' = p /\ dwell' = 0
            /\ healthySince' = NotHealthy /\ sinceSetback' = 0
  BY DEF SetActive

LEMMA HealthStep ==
  ASSUME Mode = "both_failover", HubTypeOK, HealthInv, [Next]_vars
  PROVE  HealthInv' /\ SwitchStep
<1> USE HubAssumption DEF HubTypeOK
<1>a. UNCHANGED <<active, dwell, healthySince, sinceSetback, tick>>
        => HealthInv' /\ SwitchStep
  BY DEF HealthInv, SwitchStep
<1>b. IdleTick.probing = FALSE
  BY DEF IdleTick
<1>c. Other(FailoverPrimary) \in Protocols
  BY DEF Other, Protocols
<1>1. CASE LeavePrimary
  <2>1. /\ \A t \in Ticks : ~tick[t].probing
        /\ active = FailoverPrimary /\ dwell >= MinDwell /\ tick' = tick
        /\ SetActive(Other(FailoverPrimary))
    BY <1>1 DEF LeavePrimary, HealthTickRunning
  <2> QED
    BY <2>1, <1>c, SetActiveHealth DEF HealthInv, SwitchStep, Other
<1>2. ASSUME NEW t \in Ticks, StartProbe(t) PROVE HealthInv' /\ SwitchStep
  <2>1. /\ \A u \in Ticks : ~tick[u].probing
        /\ tick' = [tick EXCEPT ![t] = [probing |-> TRUE, dwell |-> dwell]]
        /\ UNCHANGED <<active, dwell, healthySince, sinceSetback>>
    BY <1>2 DEF StartProbe, HealthTickRunning
  <2>2. /\ tick'[t].dwell = dwell
        /\ \A u \in Ticks \ {t} : ~tick'[u].probing
    BY <2>1
  <2>3. dwell <= dwell
    OBVIOUS
  <2> QED BY <2>1, <2>2, <2>3 DEF HealthInv, SwitchStep
<1>3. ASSUME NEW t \in Ticks, ProbeSucceeds(t) PROVE HealthInv' /\ SwitchStep
  <2> DEFINE since == IF healthySince = NotHealthy THEN 0 ELSE healthySince
  <2>1. /\ tick[t].probing /\ tick' = [tick EXCEPT ![t] = IdleTick]
    BY <1>3 DEF ProbeSucceeds
  <2>2. \A u \in Ticks : ~tick'[u].probing
    BY <2>1, <1>b DEF HealthInv
  <2>3. since \in Nat /\ since <= sinceSetback
    BY DEF HealthInv
  <2>4. CASE /\ since >= PrimaryRecovery /\ tick[t].dwell >= MinDwell
             /\ SetActive(FailoverPrimary)
    <3>1. dwell >= MinDwell
      BY <2>1, <2>4 DEF HealthInv
    <3>2. sinceSetback >= PrimaryRecovery
      BY <2>3, <2>4
    <3>3. HealthInv'
      <4>1. CASE UNCHANGED <<active, dwell, healthySince, sinceSetback>>
        BY <4>1, <2>2 DEF HealthInv
      <4>2. CASE healthySince' = NotHealthy
        BY <4>2, <2>2 DEF HealthInv
      <4> QED BY <2>4, <4>1, <4>2, SetActiveHealth
    <3> QED BY <3>1, <3>2, <3>3 DEF SwitchStep
  <2>5. CASE healthySince' = since /\ UNCHANGED <<ret, current, active, dwell, sinceSetback>>
    BY <2>2, <2>3, <2>5 DEF HealthInv, SwitchStep
  <2> QED BY <1>3, <2>4, <2>5 DEF ProbeSucceeds
<1>4. ASSUME NEW t \in Ticks, ProbeFails(t) PROVE HealthInv' /\ SwitchStep
  <2>1. /\ tick[t].probing /\ tick' = [tick EXCEPT ![t] = IdleTick]
        /\ healthySince' = NotHealthy /\ active' = active
    BY <1>4 DEF ProbeFails
  <2>2. \A u \in Ticks : ~tick'[u].probing
    BY <2>1, <1>b DEF HealthInv
  <2> QED BY <2>1, <2>2 DEF HealthInv, SwitchStep
<1>5. CASE TimePasses
  <2>1. tick' = tick /\ active' = active
    BY <1>5 DEF TimePasses
  <2>2. dwell' \in Nat /\ dwell' >= dwell
    BY <1>5 DEF TimePasses
  <2>3. healthySince' # NotHealthy => healthySince' <= sinceSetback'
    BY <1>5 DEF TimePasses, HealthInv
  <2>4. \A t \in Ticks : tick[t].dwell \in Nat
    OBVIOUS
  <2> QED BY <2>1, <2>2, <2>3, <2>4 DEF HealthInv, SwitchStep
<1>6. CASE HubStart \/ HubStop
  BY <1>6, <1>a DEF HubStart, HubStop
<1>7. CASE RetrievalNext /\ UNCHANGED hubVars
  BY <1>7, <1>a DEF hubVars
<1>8. CASE UNCHANGED vars
  BY <1>8, <1>a DEF vars, hubVars
<1> QED
  BY <1>1, <1>2, <1>3, <1>4, <1>5, <1>6, <1>7, <1>8
  DEF Next, HubStep, HealthCheck, EndProbe, SelectEarly, SelectOption, SelectOptions

LEMMA HealthInvariant ==
  ASSUME Mode = "both_failover"
  PROVE  Spec => [](HubTypeOK /\ HealthInv)
<1>1. Init => HealthInv
  BY DEF Init, IdleTick, HealthInv
<1>2. HubTypeOK /\ HealthInv /\ [Next]_vars => HealthInv'
  BY HealthStep
<1> QED BY <1>1, <1>2, TypeCorrect, PTL DEF Spec

\* Anti-flap: two switches of the health check are MinDwell apart.
THEOREM DwellRespected ==
  ASSUME Mode = "both_failover"
  PROVE  Spec => MinDwellBetweenSwitches
<1>1. HubTypeOK /\ HealthInv /\ [Next]_vars => [active' # active => dwell >= MinDwell]_vars
  BY HealthStep DEF SwitchStep
<1> QED BY <1>1, HealthInvariant, PTL DEF Spec, MinDwellBetweenSwitches

\* The primary is used again only after a whole recovery period without a
\* switch or a failed probe.
THEOREM RecoveryRespected ==
  ASSUME Mode = "both_failover"
  PROVE  Spec => ReturnOnlyAfterRecovery
<1>1. HubTypeOK /\ HealthInv /\ [Next]_vars
        => [active # FailoverPrimary /\ active' = FailoverPrimary
              => sinceSetback >= PrimaryRecovery]_vars
  BY HealthStep DEF SwitchStep
<1> QED BY <1>1, HealthInvariant, PTL DEF Spec, ReturnOnlyAfterRecovery

-----------------------------------------------------------------------------
(* Routed writes.                                                          *)

\* An attempt on a protocol is, for the hub, nothing or a change of the socket.
LEMMA AttemptIsEnvironment ==
  ASSUME HubTypeOK, NEW p, AttemptSucceeds(p) \/ AttemptFails(p)
  PROVE  [Next]_vars
<1>1. socket \in BOOLEAN
  BY DEF HubTypeOK, RetrievalTypeOK
<1>2. UNCHANGED <<isRunning, enabled, up, age, ret, hubVars>>
  BY DEF AttemptSucceeds, AttemptFails
<1>3. CASE UNCHANGED socket
  BY <1>2, <1>3 DEF vars, retVars, transport
<1>4. CASE socket' # socket
  <2>1. /\ ~socket => "modbus" \in up
        /\ socket' = ~socket
    BY <1>1, <1>4 DEF AttemptSucceeds, AttemptFails
  <2>2. SocketChanges
    BY <1>2, <2>1 DEF SocketChanges
  <2> QED BY <1>2, <2>2 DEF Next, RetrievalNext, Environment
<1> QED BY <1>3, <1>4

LEMMA WriteStepOfHub ==
  ASSUME HubTypeOK, [WriteNext]_writeVars
  PROVE  [Next]_vars
<1>1. ASSUME NEW w \in Writes, WriteBegins(w) \/ WriteAnswered(w) PROVE [Next]_vars
  BY <1>1 DEF WriteBegins, WriteAnswered
<1>2. ASSUME NEW w \in Writes, FirstSucceeds(w) \/ FirstFails(w) \/ SecondEnds(w)
      PROVE  [Next]_vars
  BY <1>2, AttemptIsEnvironment DEF FirstSucceeds, FirstFails, SecondEnds
<1>3. CASE HubMoves
  BY <1>3 DEF HubMoves
<1>4. CASE UNCHANGED writeVars
  BY <1>4 DEF writeVars
<1> QED BY <1>1, <1>2, <1>3, <1>4 DEF WriteNext

\* Writes under way do nothing to the hub that its environment may not do anyway,
\* so whatever holds of the hub holds beside any number of writes.
THEOREM WritesLeaveHub == WriteSpec => Spec
<1>1. WriteInit => Init /\ HubTypeOK
  BY TypeInit DEF WriteInit
<1>2. HubTypeOK /\ [WriteNext]_writeVars => [Next]_vars /\ HubTypeOK'
  BY WriteStepOfHub, TypeStep
<1> QED BY <1>1, <1>2, PTL DEF WriteSpec, Spec

\* Inductive: as long as no switch overtakes the first attempt, it is an attempt
\* on the active protocol, and the second one is on the other.
WriteInv ==
  /\ write \in [Writes -> WriteState]
  /\ \A w \in Writes : write[w].pc = "first" /\ ~write[w].overtaken => write[w].first = active
  /\ FallbackUnlessOvertaken

LEMMA OtherFacts ==
  ASSUME NEW p \in Protocols
  PROVE  Other(p) \in Protocols /\ Other(p) # p
  BY DEF Other, Protocols

\* A step that changes one write and not the active protocol.
LEMMA OneWriteChanges ==
  ASSUME WriteInv, UNCHANGED active, NEW w \in Writes, NEW s \in WriteState,
         write' = [write EXCEPT ![w] = s],
         s.pc = "first" /\ ~s.overtaken => s.first = active,
         s.pc = "second" /\ ~s.overtaken => s.second # s.first
  PROVE  WriteInv'
  BY DEF WriteInv, FallbackUnlessOvertaken

LEMMA WriteStep ==
  ASSUME HubTypeOK, HubTypeOK', WriteInv, [WriteNext]_writeVars
  PROVE  WriteInv'
<1>a. active \in Protocols /\ active' \in Protocols
  BY DEF HubTypeOK
<1>b. \A w \in Writes : write[w] \in WriteState
  BY DEF WriteInv
<1>c. NewWrite \in WriteState /\ NewWrite.pc = "idle"
  BY DEF NewWrite, WriteState, Protocols
<1>1. ASSUME NEW w \in Writes, WriteBegins(w) PROVE WriteInv'
  <2> DEFINE s == [write[w] EXCEPT !.pc = "first", !.first = active]
  <2>1. s \in WriteState /\ s.pc = "first" /\ s.first = active
    BY <1>a, <1>b DEF WriteState
  <2>2. write' = [write EXCEPT ![w] = s] /\ UNCHANGED active
    BY <1>1, <1>b DEF WriteBegins, vars, hubVars, WriteInv, WriteState
  <2> HIDE DEF s
  <2> QED BY <2>1, <2>2, OneWriteChanges
<1>2. ASSUME NEW w \in Writes, NEW pc \in {"done", "failed"},
             write' = [write EXCEPT ![w].pc = pc], UNCHANGED active
      PROVE  WriteInv'
  <2> DEFINE s == [write[w] EXCEPT !.pc = pc]
  <2>1. s \in WriteState /\ s.pc = pc
    BY <1>b DEF WriteState
  <2>2. write' = [write EXCEPT ![w] = s]
    BY <1>2
  <2> HIDE DEF s
  <2> QED BY <1>2, <2>1, <2>2, OneWriteChanges
<1>3. \A p : AttemptSucceeds(p) \/ AttemptFails(p) => UNCHANGED active
  BY DEF AttemptSucceeds, AttemptFails, hubVars
<1>4. ASSUME NEW w \in Writes, FirstSucceeds(w) PROVE WriteInv'
  BY <1>2, <1>3, <1>4 DEF FirstSucceeds
<1>5. ASSUME NEW w \in Writes, FirstFails(w) PROVE WriteInv'
  <2>1. CASE write' = [write EXCEPT ![w].pc = "second", ![w].second = Other(active)]
    <3> DEFINE s == [write[w] EXCEPT !.pc = "second", !.second = Other(active)]
    <3>1. /\ s \in WriteState /\ s.pc = "second" /\ s.second = Other(active)
          /\ s.first = write[w].first /\ s.overtaken = write[w].overtaken
      BY <1>a, <1>b, OtherFacts DEF WriteState
    <3>2. write' = [write EXCEPT ![w] = s]
      BY <1>b, <2>1 DEF WriteInv, WriteState
    <3> HIDE DEF s
    <3>3. ~s.overtaken => s.second # s.first
      BY <1>a, <1>5, <3>1, OtherFacts DEF WriteInv, FirstFails
    <3> QED BY <1>3, <1>5, <3>1, <3>2, <3>3, OneWriteChanges DEF FirstFails
  <2>2. CASE write' = [write EXCEPT ![w].pc = "failed"]
    BY <1>2, <1>3, <1>5, <2>2 DEF FirstFails
  <2> QED BY <1>5, <2>1, <2>2 DEF FirstFails
<1>6. ASSUME NEW w \in Writes, SecondEnds(w) PROVE WriteInv'
  BY <1>2, <1>3, <1>6 DEF SecondEnds
<1>7. ASSUME NEW w \in Writes, WriteAnswered(w) PROVE WriteInv'
  BY <1>7, <1>c, OneWriteChanges DEF WriteAnswered, vars, hubVars
<1>8. CASE HubMoves
  <2> DEFINE after(w) == [write[w] EXCEPT !.overtaken =
                            @ \/ (write[w].pc = "first" /\ active' # active)]
  <2>1. ASSUME NEW w \in Writes
        PROVE  /\ after(w) \in WriteState /\ after(w).pc = write[w].pc
               /\ after(w).first = write[w].first /\ after(w).second = write[w].second
               /\ after(w).overtaken =
                    (write[w].overtaken \/ (write[w].pc = "first" /\ active' # active))
    BY <1>b DEF WriteState
  <2>2. write' = [w \in Writes |-> after(w)]
    BY <1>8 DEF HubMoves
  <2> HIDE DEF after
  <2> QED BY <2>1, <2>2 DEF WriteInv, FallbackUnlessOvertaken
<1>9. CASE UNCHANGED writeVars
  BY <1>9 DEF writeVars, vars, hubVars, WriteInv, FallbackUnlessOvertaken
<1> QED BY <1>1, <1>4, <1>5, <1>6, <1>7, <1>8, <1>9 DEF WriteNext

\* A write whose first attempt no switch overtook falls back to the protocol that
\* did not just fail, for any number of concurrent writes and switches.
THEOREM FallbackToOther == WriteSpec => []FallbackUnlessOvertaken
<1>1. WriteInit => WriteInv
  BY DEF WriteInit, WriteInv, FallbackUnlessOvertaken, NewWrite, WriteState, Protocols
<1>2. HubTypeOK /\ HubTypeOK' /\ WriteInv /\ [WriteNext]_writeVars => WriteInv'
  BY WriteStep
<1>3. WriteInv => FallbackUnlessOvertaken
  BY DEF WriteInv
<1> QED BY <1>1, <1>2, <1>3, TypeCorrect, WritesLeaveHub, PTL DEF WriteSpec

\* No interval timer of the standby protocol is ever registered, beside any
\* number of writes.
THEOREM StandbyIdleBesideWrites ==
  ASSUME NothingEarly
  PROVE  WriteSpec => []StandbyHasNoTimers
BY StandbyIdle, WritesLeaveHub, PTL
=============================================================================
