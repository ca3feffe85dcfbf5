------------------------------ MODULE Retrieval ------------------------------
(***************************************************************************)
(* The life of the polling objects an inverter hub builds: DataRetrieval   *)
(* (Modbus) and CloudDataRetrieval (SolisCloud).  Both start when Home     *)
(* Assistant runs, bring up their transport, run a first update cycle,     *)
(* register their interval timers and are stopped once, never restarted.   *)
(*                                                                         *)
(* Everything is an asyncio coroutine of one event loop, so a step here is *)
(* the code between two suspensions.  What a cycle reads is abstracted to  *)
(* whether the transport answered; the registers themselves are not here.  *)
(***************************************************************************)
EXTENDS Naturals

CONSTANTS
  Retrievals,   (* identities of the polling objects; a collected one is reused *)
  StaleAfter    (* StaleAfter[p]: clock units without a success before p counts *)
                (* as unhealthy (120 s for Modbus, 3 poll intervals for cloud)  *)

Protocols == {"modbus", "cloud"}

ASSUME StaleAfterAssumption == StaleAfter \in [Protocols -> Nat \ {0}]

VARIABLES
  isRunning,    (* hass.is_running                                         *)
  enabled,      (* controller.enabled, switched for both protocols at once *)
  up,           (* the protocols whose far end currently answers           *)
  socket,       (* pymodbus' client.connected                              *)
  age,          (* age[p]: time since the last success of p, saturating    *)
  ret           (* ret[r]: the state of polling object r                   *)

transport == <<up, socket, age>>
retVars == <<isRunning, enabled, up, socket, age, ret>>

(***************************************************************************)
(* task follows the poll_controller coroutine: it waits for the started    *)
(* event ("listening"), is created but has not run ("scheduled"), brings   *)
(* the transport up ("preparing"), runs the first cycle ("first") and has  *)
(* returned ("ended").  busy: a cycle started by a timer is in flight.     *)
(***************************************************************************)
RetrievalState ==
  [proto   : Protocols,
   task    : {"listening", "scheduled", "preparing", "first", "ended"},
   stopped : BOOLEAN,
   timers  : BOOLEAN,
   busy    : BOOLEAN]

\* An object that was stopped and has no coroutine left: nothing refers to it.
Collected == [proto |-> "modbus", task |-> "ended", stopped |-> TRUE,
              timers |-> FALSE, busy |-> FALSE]

RetrievalTypeOK ==
  /\ isRunning \in BOOLEAN
  /\ enabled \in BOOLEAN
  /\ up \in SUBSET Protocols
  /\ socket \in BOOLEAN
  /\ age \in [Protocols -> Nat]
  /\ \A p \in Protocols : age[p] <= StaleAfter[p]
  /\ ret \in [Retrievals -> RetrievalState]

RetrievalInit ==
  /\ isRunning \in BOOLEAN
  /\ enabled = TRUE
  /\ up \in SUBSET Protocols
  /\ socket = FALSE
  /\ age = [p \in Protocols |-> IF p = "modbus" THEN 0 ELSE StaleAfter[p]]
  /\ ret = [r \in Retrievals |-> Collected]

Healthy(p) == age[p] < StaleAfter[p]

Polling(r) == ret[r].task = "first" \/ ret[r].busy

Quiet(r) == ret[r].task = "ended" /\ ~ret[r].busy /\ ~ret[r].timers

Unused(r) == ret[r].stopped /\ Quiet(r)

-----------------------------------------------------------------------------
(* What the hub does to the objects.  These build the next value of ret.   *)

Launched(rs, r, p) ==
  [rs EXCEPT ![r] = [Collected EXCEPT
      !.proto = p, !.stopped = FALSE,
      !.task = IF isRunning THEN "scheduled" ELSE "listening"]]

\* Mutant of StopOne: the interval timers are forgotten.
StopOneKeepingTimers(s) ==
  [s EXCEPT !.stopped = TRUE,
            !.task = IF s.task = "listening" THEN "ended" ELSE @]

\* A pending startup listener is removed; timers are cancelled at once; a
\* coroutine that is under way is not cancelled, it only sees the flag.
StopOne(s) ==
  [s EXCEPT !.stopped = TRUE, !.timers = FALSE,
            !.task = IF s.task = "listening" THEN "ended" ELSE @]

Halted(rs, r) == [rs EXCEPT ![r] = StopOne(rs[r])]

\* Mutant of Finished: timers are registered without a look at _stopped.
FinishedUnchecked(s) == [s EXCEPT !.task = "ended", !.timers = TRUE]

\* poll_controller's last check before it registers the interval timers.
Finished(s) == [s EXCEPT !.task = "ended", !.timers = ~s.stopped]

-----------------------------------------------------------------------------
(* Steps of the coroutines.                                                *)

\* A read that succeeds stamps the controller; one that fails on a Modbus link
\* may close the client, and a read reconnects a closed client by itself.
CycleOutcome(p) ==
  \/ /\ p \in up
     /\ age' = [age EXCEPT ![p] = 0]
     /\ socket' = IF p = "modbus" THEN TRUE ELSE socket
  \/ /\ UNCHANGED age
     /\ \/ UNCHANGED socket
        \/ p = "modbus" /\ socket' = FALSE

\* The socket claims to be connected but reads stopped succeeding: it is closed
\* and the connect loop entered, whose condition tests _stopped first.
CloseStaleLink(r) ==
  /\ ~Healthy("modbus")
  /\ socket' = FALSE
  /\ ret' = [ret EXCEPT ![r] =
       IF @.stopped THEN Finished(@) ELSE [@ EXCEPT !.task = "preparing"]]

HomeAssistantStarted ==
  /\ ~isRunning
  /\ isRunning' = TRUE
  /\ ret' = [r \in Retrievals |->
               IF ret[r].task = "listening"
               THEN [ret[r] EXCEPT !.task = "scheduled"] ELSE ret[r]]
  /\ UNCHANGED <<enabled, transport>>

\* check_connection at its start: a connected client goes straight into the
\* first poll, with no look at _stopped (a disabled one has nothing to poll);
\* else the connect loop is entered unless the object was stopped already.
BeginModbus(r) ==
  /\ ret[r].task = "scheduled" /\ ret[r].proto = "modbus"
  /\ \/ /\ socket /\ enabled
        /\ ret' = [ret EXCEPT ![r].task = "first"]
        /\ UNCHANGED socket
     \/ /\ socket /\ ~enabled
        /\ ret' = [ret EXCEPT ![r] = Finished(@)]
        /\ UNCHANGED socket
     \/ /\ socket /\ ~enabled
        /\ CloseStaleLink(r)
     \/ /\ ~socket
        /\ ret' = [ret EXCEPT ![r] =
             IF @.stopped THEN Finished(@) ELSE [@ EXCEPT !.task = "preparing"]]
        /\ UNCHANGED socket
  /\ UNCHANGED <<isRunning, enabled, up, age>>

\* The sensors without a cloud mapping, the TOU V2 gate and the inverter id:
\* API calls whose failure is logged and otherwise ignored.
BeginCloud(r) ==
  /\ ret[r].task = "scheduled" /\ ret[r].proto = "cloud"
  /\ ret' = [ret EXCEPT ![r].task = "preparing"]
  /\ UNCHANGED <<isRunning, enabled, transport>>

\* The connect loop ends because the client connected, by this attempt or by
\* another user of it.  poll_controller then registers timers with no first poll.
ConnectSucceeds(r) ==
  /\ ret[r].task = "preparing" /\ ret[r].proto = "modbus"
  /\ socket \/ "modbus" \in up
  /\ socket' = TRUE
  /\ ret' = [ret EXCEPT ![r] = Finished(@)]
  /\ UNCHANGED <<isRunning, enabled, up, age>>

\* ... or because async_stop was called while an attempt failed or slept.
ConnectAbandoned(r) ==
  /\ ret[r].task = "preparing" /\ ret[r].proto = "modbus"
  /\ ret[r].stopped
  /\ ret' = [ret EXCEPT ![r] = Finished(@)]
  /\ UNCHANGED <<isRunning, enabled, transport>>

\* A disabled controller only publishes its status in the first cycle.
CloudPrepared(r) ==
  /\ ret[r].task = "preparing" /\ ret[r].proto = "cloud"
  /\ ret' = [ret EXCEPT ![r] =
       IF ~@.stopped /\ enabled THEN [@ EXCEPT !.task = "first"] ELSE Finished(@)]
  /\ UNCHANGED <<isRunning, enabled, transport>>

FirstCycleEnds(r) ==
  /\ ret[r].task = "first"
  /\ CycleOutcome(ret[r].proto)
  /\ ret' = [ret EXCEPT ![r] = Finished(@)]
  /\ UNCHANGED <<isRunning, enabled, up>>

FirstCycleFindsStaleLink(r) ==
  /\ ret[r].task = "first" /\ ret[r].proto = "modbus"
  /\ CloseStaleLink(r)
  /\ UNCHANGED <<isRunning, enabled, up, age>>

\* An interval timer fires; a cycle that is still running makes it skip.
TimerFires(r) ==
  /\ ret[r].timers /\ ~ret[r].busy
  /\ enabled
  /\ ret[r].proto = "modbus" => socket
  /\ ret' = [ret EXCEPT ![r].busy = TRUE]
  /\ UNCHANGED <<isRunning, enabled, transport>>

CycleEnds(r) ==
  /\ ret[r].busy
  /\ CycleOutcome(ret[r].proto)
  /\ ret' = [ret EXCEPT ![r].busy = FALSE]
  /\ UNCHANGED <<isRunning, enabled, up>>

\* The two-minute watchdog: close a half-open link, reconnect a closed one.
Watchdog(r) ==
  /\ ret[r].timers /\ ret[r].proto = "modbus"
  /\ \/ socket /\ ~Healthy("modbus") /\ socket' = FALSE
     \/ ~socket /\ "modbus" \in up /\ socket' = TRUE
  /\ UNCHANGED <<isRunning, enabled, up, age, ret>>

-----------------------------------------------------------------------------
(* The environment.                                                        *)

FarEndChanges(p) ==
  /\ up' = IF p \in up THEN up \ {p} ELSE up \union {p}
  /\ UNCHANGED <<isRunning, enabled, socket, age, ret>>

\* The peer drops the TCP connection, or a write or a service call connects.
SocketChanges ==
  /\ ~socket => "modbus" \in up
  /\ socket' = ~socket
  /\ UNCHANGED <<isRunning, enabled, up, age, ret>>

\* The connection switch entity, forwarded by the hub to both controllers.
ToggleConnection ==
  /\ enabled' = ~enabled
  /\ UNCHANGED <<isRunning, transport, ret>>

RetrievalStep(r) ==
  \/ BeginModbus(r) \/ BeginCloud(r)
  \/ ConnectSucceeds(r) \/ ConnectAbandoned(r) \/ CloudPrepared(r)
  \/ FirstCycleEnds(r) \/ FirstCycleFindsStaleLink(r)
  \/ TimerFires(r) \/ CycleEnds(r) \/ Watchdog(r)

Environment ==
  \/ HomeAssistantStarted
  \/ \E p \in Protocols : FarEndChanges(p)
  \/ SocketChanges
  \/ ToggleConnection

RetrievalNext == (\E r \in Retrievals : RetrievalStep(r)) \/ Environment
=============================================================================
