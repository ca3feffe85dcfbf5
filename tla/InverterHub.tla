----------------------------- MODULE InverterHub -----------------------------
(***************************************************************************)
(* SolisInverterHub: one inverter behind one or two transports.  The hub   *)
(* owns the polling objects of module Retrieval: it starts the active      *)
(* protocol's one, stops it and builds another on every switch, and in     *)
(* failover mode runs a periodic health check that leaves a dead primary   *)
(* and returns to it once it has probed healthy for a while.               *)
(*                                                                         *)
(* async_set_active never suspends (async_stop of a polling object has no  *)
(* await), so a switch is one step; the only suspension of the health tick *)
(* is the probe of the standby primary.  The clock unit is the health      *)
(* check interval (30 s).                                                  *)
(***************************************************************************)
EXTENDS Retrieval

CONSTANTS
  Mode,             (* "modbus_only", "cloud_only", "both_failover", "both_manual" *)
  FailoverPrimary,  (* the configured primary, used in failover mode               *)
  EarlyOptions,     (* options of the protocol select applied before async_start:
                       the one it restores, and those a user picks meanwhile       *)
  Ticks,            (* health-tick callbacks that may be in flight                 *)
  MinDwell,         (* MIN_DWELL_SECONDS                                           *)
  PrimaryRecovery,  (* PRIMARY_RECOVERY_SECONDS                                    *)
  NoRetrieval,      (* _retrieval is None                                          *)
  NotHealthy        (* _primary_healthy_since is None                              *)

Modes == {"modbus_only", "cloud_only", "both_failover", "both_manual"}

ASSUME HubAssumption ==
  /\ Mode \in Modes
  /\ FailoverPrimary \in Protocols
  /\ EarlyOptions \subseteq Protocols
  /\ MinDwell \in Nat \ {0}
  /\ PrimaryRecovery \in Nat \ {0}
  /\ NoRetrieval \notin Retrievals
  /\ NotHealthy \notin Nat

VARIABLES
  phase,         (* "setup" (platforms are forwarded), "running", "unloaded"  *)
  active,        (* _active_name                                              *)
  current,       (* _retrieval                                                *)
  dwell,         (* time since _last_switch, saturating at MinDwell           *)
  healthySince,  (* age of _primary_healthy_since, saturating, or NotHealthy  *)
  healthTimer,   (* the health check interval is registered                   *)
  tick,          (* tick[t]: a health tick suspended in its probe, and the    *)
                 (* dwell it measured before; _health_tick_running            *)
  sinceSetback   (* history: time since the last switch or failed probe       *)

hubVars == <<phase, active, current, dwell, healthySince, healthTimer, tick, sinceSetback>>
vars == <<retVars, hubVars>>

Other(p) == IF p = "modbus" THEN "cloud" ELSE "modbus"

Configured(p) ==
  CASE p = "modbus" -> Mode # "cloud_only"
    [] p = "cloud"  -> Mode # "modbus_only"

InitialActive ==
  CASE Mode = "cloud_only"    -> "cloud"
    [] Mode = "both_failover" -> FailoverPrimary
    [] OTHER                  -> "modbus"

IdleTick == [probing |-> FALSE, dwell |-> 0]

HubTypeOK ==
  /\ RetrievalTypeOK
  /\ phase \in {"setup", "running", "unloaded"}
  /\ active \in Protocols
  /\ current \in Retrievals \union {NoRetrieval}
  /\ dwell \in 0..MinDwell
  /\ healthySince \in (0..PrimaryRecovery) \union {NotHealthy}
  /\ healthTimer \in BOOLEAN
  /\ tick \in [Ticks -> [probing : BOOLEAN, dwell : 0..MinDwell]]
  /\ sinceSetback \in 0..PrimaryRecovery

Init ==
  /\ RetrievalInit
  /\ phase = "setup"
  /\ active = InitialActive
  /\ current = NoRetrieval
  /\ dwell = MinDwell            \* _last_switch = datetime.min
  /\ healthySince = NotHealthy
  /\ healthTimer = FALSE
  /\ tick = [t \in Ticks |-> IdleTick]
  /\ sinceSetback = 0

-----------------------------------------------------------------------------

\* Mutant of StopCurrent: the old polling object is dropped, not stopped.
DropCurrent == ret

StopCurrent == IF current = NoRetrieval THEN ret ELSE Halted(ret, current)

\* Mutant of SetActive: the object is built before the name changes.
SetActiveTooLate(p) ==
  IF p = active
  THEN UNCHANGED <<ret, current, active, dwell, healthySince, sinceSetback>>
  ELSE \E r \in Retrievals :
         /\ Unused(r)
         /\ ret' = Launched(StopCurrent, r, active)
         /\ current' = r /\ active' = p
         /\ dwell' = 0 /\ healthySince' = NotHealthy /\ sinceSetback' = 0

\* async_set_active(p): a no-op on the active protocol.
SetActive(p) ==
  IF p = active
  THEN UNCHANGED <<ret, current, active, dwell, healthySince, sinceSetback>>
  ELSE \E r \in Retrievals :
         /\ Unused(r)
         /\ ret' = Launched(StopCurrent, r, p)
         /\ current' = r
         /\ active' = p
         /\ dwell' = 0
         /\ healthySince' = NotHealthy
         /\ sinceSetback' = 0

\* The options of the protocol select, which only manual mode has.
SelectOptions == IF Mode = "both_manual" THEN Protocols ELSE {}

\* The protocol select is added while the platforms are forwarded, before
\* async_start: it applies the option it restores and takes those a user picks.
SelectEarly(p) ==
  /\ phase = "setup"
  /\ p \in EarlyOptions
  /\ SetActive(p)
  /\ UNCHANGED <<isRunning, enabled, transport, phase, healthTimer, tick>>

\* async_start builds a polling object whatever _retrieval already is.
HubStart ==
  /\ phase = "setup"
  /\ phase' = "running"
  /\ \E r \in Retrievals :
       /\ Unused(r)
       /\ ret' = Launched(ret, r, active)
       /\ current' = r
  /\ healthTimer' = (Mode = "both_failover")
  /\ UNCHANGED <<isRunning, enabled, transport, active, dwell, healthySince, tick, sinceSetback>>

\* The user picks an option of the protocol select of a running hub.
SelectOption(p) ==
  /\ phase = "running"
  /\ SetActive(p)
  /\ UNCHANGED <<isRunning, enabled, transport, phase, healthTimer, tick>>

\* Mutant of HubStop: the active name is cleared with the polling object.
HubStopClearsActive ==
  /\ phase = "running"
  /\ phase' = "unloaded"
  /\ healthTimer' = FALSE
  /\ ret' = StopCurrent
  /\ current' = NoRetrieval /\ active' = NoRetrieval
  /\ UNCHANGED <<isRunning, enabled, transport, dwell, healthySince, tick, sinceSetback>>

\* async_unload_entry: async_stop of the hub.  A health tick that is suspended
\* in its probe is not cancelled.
HubStop ==
  /\ phase = "running"
  /\ phase' = "unloaded"
  /\ healthTimer' = FALSE
  /\ ret' = StopCurrent
  /\ current' = NoRetrieval
  /\ UNCHANGED <<isRunning, enabled, transport, active, dwell, healthySince, tick, sinceSetback>>

-----------------------------------------------------------------------------
(* The health check.                                                       *)

HealthTickRunning == \E t \in Ticks : tick[t].probing

\* Mutant of LeavePrimary: no minimum dwell.
LeavePrimaryAtOnce ==
  /\ healthTimer /\ ~HealthTickRunning
  /\ active = FailoverPrimary
  /\ ~Healthy(active) /\ Configured(Other(FailoverPrimary))
  /\ SetActive(Other(FailoverPrimary))
  /\ UNCHANGED <<isRunning, enabled, transport, phase, healthTimer, tick>>

\* Mutant of LeavePrimary: the secondary is computed as the primary itself.
LeavePrimaryForItself ==
  /\ healthTimer /\ ~HealthTickRunning
  /\ active = FailoverPrimary
  /\ ~Healthy(active) /\ dwell >= MinDwell
  /\ SetActive(FailoverPrimary)
  /\ UNCHANGED <<isRunning, enabled, transport, phase, healthTimer, tick>>

\* On the primary: switch away when it is unhealthy and the dwell has passed.
LeavePrimary ==
  /\ healthTimer /\ ~HealthTickRunning
  /\ active = FailoverPrimary
  /\ ~Healthy(active) /\ dwell >= MinDwell /\ Configured(Other(FailoverPrimary))
  /\ SetActive(Other(FailoverPrimary))
  /\ UNCHANGED <<isRunning, enabled, transport, phase, healthTimer, tick>>

\* On the secondary: measure the dwell, then suspend in the probe.
StartProbe(t) ==
  /\ healthTimer /\ ~HealthTickRunning
  /\ active # FailoverPrimary
  /\ tick' = [tick EXCEPT ![t] = [probing |-> TRUE, dwell |-> dwell]]
  /\ UNCHANGED <<retVars, phase, active, current, dwell, healthySince, healthTimer, sinceSetback>>

\* Mutant of ProbeSucceeds: the recovery period starts anew at every probe.
ProbeSucceedsForgetful(t) ==
  /\ tick[t].probing
  /\ FailoverPrimary \in up
  /\ healthySince' = 0
  /\ tick' = [tick EXCEPT ![t] = IdleTick]
  /\ UNCHANGED <<retVars, phase, active, current, dwell, healthTimer, sinceSetback>>

\* The dwell is the one measured before the probe.
ProbeSucceeds(t) ==
  /\ tick[t].probing
  /\ FailoverPrimary \in up
  /\ LET since == IF healthySince = NotHealthy THEN 0 ELSE healthySince IN
       IF since >= PrimaryRecovery /\ tick[t].dwell >= MinDwell
       THEN SetActive(FailoverPrimary)
       ELSE /\ healthySince' = since
            /\ UNCHANGED <<ret, current, active, dwell, sinceSetback>>
  /\ IF FailoverPrimary = "modbus"
     THEN age' = [age EXCEPT !["modbus"] = 0] /\ socket' = TRUE
     ELSE UNCHANGED <<age, socket>>
  /\ tick' = [tick EXCEPT ![t] = IdleTick]
  /\ UNCHANGED <<isRunning, enabled, up, phase, healthTimer>>

\* Mutant of ProbeFails: a failed probe does not restart the recovery period.
ProbeFailsIgnored(t) ==
  /\ tick[t].probing
  /\ FailoverPrimary \notin up
  /\ sinceSetback' = 0
  /\ tick' = [tick EXCEPT ![t] = IdleTick]
  /\ UNCHANGED <<retVars, phase, active, current, dwell, healthySince, healthTimer>>

ProbeFails(t) ==
  /\ tick[t].probing
  /\ FailoverPrimary \notin up
  /\ healthySince' = NotHealthy
  /\ sinceSetback' = 0
  /\ \/ UNCHANGED socket
     \/ FailoverPrimary = "modbus" /\ socket' = FALSE
  /\ tick' = [tick EXCEPT ![t] = IdleTick]
  /\ UNCHANGED <<isRunning, enabled, up, age, ret, phase, active, current, dwell, healthTimer>>

\* One unit of time passes; every measured age saturates at the largest
\* threshold it is compared with.
TimePasses ==
  /\ age' = [p \in Protocols |-> IF age[p] < StaleAfter[p] THEN age[p] + 1 ELSE age[p]]
  /\ dwell' = IF dwell < MinDwell THEN dwell + 1 ELSE dwell
  /\ healthySince' = IF healthySince # NotHealthy /\ healthySince < PrimaryRecovery
                     THEN healthySince + 1 ELSE healthySince
  /\ sinceSetback' = IF sinceSetback < PrimaryRecovery THEN sinceSetback + 1 ELSE sinceSetback
  /\ UNCHANGED <<isRunning, enabled, up, socket, ret, phase, active, current, healthTimer, tick>>

-----------------------------------------------------------------------------

EndProbe(t) == ProbeSucceeds(t) \/ ProbeFails(t)

HealthCheck == LeavePrimary \/ \E t \in Ticks : StartProbe(t) \/ EndProbe(t)

HubStep ==
  \/ \E p \in SelectOptions : SelectEarly(p) \/ SelectOption(p)
  \/ HubStart \/ HubStop
  \/ HealthCheck

Next ==
  \/ HubStep
  \/ RetrievalNext /\ UNCHANGED hubVars
  \/ TimePasses

Spec == Init /\ [][Next]_vars

(***************************************************************************)
(* Home Assistant keeps running its event loop: coroutines make progress,  *)
(* timers fire and calls end by an answer or a timeout.  Users, unloads    *)
(* and the far ends owe nothing.                                           *)
(***************************************************************************)
Fairness ==
  /\ WF_vars(HomeAssistantStarted /\ UNCHANGED hubVars)
  /\ \A r \in Retrievals : WF_vars(RetrievalStep(r) /\ UNCHANGED hubVars)
  /\ WF_vars(HubStart)
  /\ WF_vars(LeavePrimary)
  /\ WF_vars(\E t \in Ticks : StartProbe(t))
  /\ \A t \in Ticks : WF_vars(EndProbe(t))
  /\ WF_vars(TimePasses)

FairSpec == Spec /\ Fairness

-----------------------------------------------------------------------------
(* Safety.                                                                 *)

\* The polling object the hub holds is live and is of the protocol that the
\* delegated surface (reads, writes, status) presents as active.
CurrentServesActive ==
  current # NoRetrieval => ret[current].proto = active /\ ~ret[current].stopped

\* Every polling object that was not stopped is the one the hub holds, so none
\* can be left polling with nobody able to stop it.
NoOrphans == \A r \in Retrievals : ~ret[r].stopped => r = current

\* Interval timers belong to the active protocol: the standby stays idle, even
\* when its polling object was stopped in the middle of connecting.
StandbyHasNoTimers == \A r \in Retrievals : ret[r].timers => ret[r].proto = active

\* Anti-flap: two protocol switches of the health check are MinDwell apart,
\* although the check measures the dwell before it suspends in the probe.
MinDwellBetweenSwitches == [][active' # active => dwell >= MinDwell]_vars

\* The hub returns to the primary only if it neither switched nor saw a probe
\* fail for the whole recovery period.
ReturnOnlyAfterRecovery ==
  [][active # FailoverPrimary /\ active' = FailoverPrimary
       => sinceSetback >= PrimaryRecovery]_vars

TimerHolders == {r \in Retrievals : ret[r].timers}

Lease == INSTANCE PollerLease WITH Pollers <- Retrievals, holders <- TimerHolders

\* The hub implements the lease: timers of two objects never coexist and never
\* change hands in one step.
LeaseSpec == Lease!Spec

-----------------------------------------------------------------------------
(* Liveness.                                                               *)

\* A primary that is down for good is left for good.
FailsOver ==
  <>[](phase = "running" /\ FailoverPrimary \notin up) => <>[](active # FailoverPrimary)

\* A primary that is back for good is used again, over and over if need be.
ReturnsToPrimary ==
  <>[](phase = "running" /\ FailoverPrimary \in up) => []<>(active = FailoverPrimary)

\* A stopped object goes quiet: its connect loop and cycles end.
StoppedGoesQuiet == \A r \in Retrievals : ret[r].stopped ~> Quiet(r)

-----------------------------------------------------------------------------
(* Claims of the documentation that the code does not keep.                *)

\* "start on HA startup, periodic timer, stop on unload"
StoppedOnUnload == phase = "unloaded" => \A r \in Retrievals : ~ret[r].timers
=============================================================================
