----------------------------- MODULE ModbusLink -----------------------------
(***************************************************************************)
(* One Modbus link (host:port or serial port) and the controllers of the   *)
(* inverters behind it: ModbusClientManager hands out one reference-       *)
(* counted pymodbus client with one asyncio lock and one inter-frame       *)
(* clock; ModbusController reads and writes under that lock; the config    *)
(* flow validates a new entry through a controller of its own.             *)
(*                                                                         *)
(* A step is the code between two suspensions, except that joining the     *)
(* line for a lock that is free and taking it are two steps here: nobody   *)
(* can overtake in between, since asyncio.Lock is first come, first        *)
(* served.  The clock unit is 50 ms.                                       *)
(***************************************************************************)
EXTENDS Naturals, Sequences, FiniteSets

CONSTANTS
  Controllers,     (* controllers of the link; a finished one is reused        *)
  Ops,             (* concurrent reads and writes                              *)
  ControllerOf,    (* the controller an operation goes through                 *)
  Clients,         (* pymodbus clients, each with its lock and inter-frame clock *)
  NoClient,        (* the manager has no entry for the link                    *)
  Validators,      (* the controllers that config flows build                  *)
  MaxAttempts      (* attempts of one config flow validation (5 in the code)   *)

Kinds == {"read", "write", "block"}

\* Mutant of Gap: a longer gap than the clocks of the link can tell.
GapTooLong(kind) == IF kind = "read" THEN 1 ELSE 3

\* 50 ms before a read, 100 ms before a write.
Gap(kind) == IF kind = "read" THEN 1 ELSE 2
MaxGap == 2

ASSUME LinkAssumption ==
  /\ ControllerOf \in [Ops -> Controllers]
  /\ NoClient \notin Clients
  /\ Validators \subseteq Controllers
  /\ MaxAttempts \in Nat \ {0}

VARIABLES
  registered,   (* the client in the manager's entry for the link, or NoClient    *)
  refs,         (* ref_count of that entry                                        *)
  lastRequest,  (* lastRequest[c]: age of last_modbus_request in the entry of c   *)
  conn,         (* conn[c]: "open", "lost" (pymodbus reconnects) or "closed"      *)
  line,         (* line[c]: the operations at the lock of c, the holder first     *)
  ctl,          (* ctl[k]: what controller k is for and the client it holds       *)
  op,           (* op[o]: where operation o stands                                *)
  surplus,      (* history: releases of the registered client by controllers that *)
                (* hold no reference to it                                        *)
  retried,      (* history: since the link was unused, a validation has released  *)
                (* what it did not hold any more                                  *)
  sinceFrame    (* history: age of the last request sent through client c         *)

manager == <<registered, refs, surplus, retried>>
vars == <<manager, lastRequest, conn, line, ctl, op, sinceFrame>>

Client(o) == ctl[ControllerOf[o]].client

\* "between": a poll has more blocks to read; nothing stops it on unload.
IdlePcs == {"idle", "between"}
HolderPcs == {"connecting", "spacing", "frame"}
Pcs == IdlePcs \union HolderPcs \union {"connectWait", "frameWait"}

OpState == [pc : Pcs, kind : Kinds, slot : Clients \union {NoClient}, due : 0..MaxGap]
CtlState ==
  [use : {"none", "entry", "flow", "gone"}, client : Clients \union {NoClient},
   attempts : 0..MaxAttempts]

IdleOp == [pc |-> "idle", kind |-> "read", slot |-> NoClient, due |-> 0]
NoCtl == [use |-> "none", client |-> NoClient, attempts |-> 0]

LinkTypeOK ==
  /\ registered \in Clients \union {NoClient}
  /\ refs \in Nat /\ surplus \in Nat /\ retried \in BOOLEAN
  /\ lastRequest \in [Clients -> 0..MaxGap]
  /\ conn \in [Clients -> {"open", "lost", "closed"}]
  /\ line \in [Clients -> Seq(Ops)]
  /\ ctl \in [Controllers -> CtlState]
  /\ op \in [Ops -> OpState]
  /\ sinceFrame \in [Clients -> 0..MaxGap]

Init ==
  /\ registered = NoClient /\ refs = 0
  /\ surplus = 0 /\ retried = FALSE
  /\ lastRequest = [c \in Clients |-> MaxGap]
  /\ conn = [c \in Clients |-> "closed"]
  /\ line = [c \in Clients |-> <<>>]
  /\ ctl = [k \in Controllers |-> NoCtl]
  /\ op = [o \in Ops |-> IdleOp]
  /\ sinceFrame = [c \in Clients |-> MaxGap]

OpsOf(k) == {o \in Ops : ControllerOf[o] = k}
AtRest(k) == \A o \in OpsOf(k) : op[o].pc = "idle"

\* The controllers that have taken a reference and not released it.
Holders ==
  {k \in Controllers : ctl[k].use = "entry" \/ (ctl[k].use = "flow" /\ ctl[k].attempts = 0)}

HoldersOf(c) == {k \in Holders : ctl[k].client = c}

-----------------------------------------------------------------------------
(* The client manager.                                                     *)

\* A client that is made gets an id that nobody holds and no connection uses
\* (whichever of them: ids only tell clients apart).
Free ==
  {c \in Clients : /\ conn[c] = "closed"
                   /\ \A k \in Controllers : ctl[k].client # c
                   /\ \A o \in Ops : op[o].slot # c}
NewClient == IF Free = {} THEN {} ELSE {CHOOSE c \in Free : TRUE}

\* get_tcp_client / get_serial_client, get_client_lock: controller k takes the
\* registered client or has a new one made.
Acquire(k, use) ==
  /\ retried' = (retried /\ Holders # {})
  /\ \/ /\ registered # NoClient
        /\ refs' = refs + 1
        /\ ctl' = [ctl EXCEPT ![k] = [use |-> use, client |-> registered, attempts |-> 0]]
        /\ UNCHANGED <<registered, surplus, lastRequest, sinceFrame>>
     \/ /\ registered = NoClient
        /\ \E c \in NewClient :
             /\ registered' = c /\ refs' = 1 /\ surplus' = 0
             /\ ctl' = [ctl EXCEPT ![k] = [use |-> use, client |-> c, attempts |-> 0]]
             /\ lastRequest' = [lastRequest EXCEPT ![c] = MaxGap]
             /\ sinceFrame' = [sinceFrame EXCEPT ![c] = MaxGap]

\* The code closes a client only while it reports a connection; one that was
\* lost keeps reconnecting.
Closed(c) == [conn EXCEPT ![c] = IF @ = "open" THEN "closed" ELSE @]

\* release_client, by the link's key: whatever client is registered now and
\* whether or not controller k holds a reference to it.
Release(k) ==
  IF registered # NoClient /\ refs <= 1
  THEN /\ conn' = Closed(registered)
       /\ registered' = NoClient /\ refs' = 0 /\ surplus' = 0
  ELSE /\ refs' = IF registered = NoClient THEN refs ELSE refs - 1
       /\ surplus' = IF registered = NoClient \/ k \in HoldersOf(registered)
                     THEN surplus ELSE surplus + 1
       /\ UNCHANGED <<conn, registered>>

SetupEntry(k) ==
  /\ k \notin Validators /\ ctl[k].use = "none"
  /\ Acquire(k, "entry")
  /\ UNCHANGED <<conn, line, op>>

\* The hub stops its polling object, which cancels no poll that is under way,
\* and releases the client.
UnloadEntry(k) ==
  /\ ctl[k].use = "entry"
  /\ Release(k)
  /\ ctl' = [ctl EXCEPT ![k].use = "gone"]
  /\ UNCHANGED <<retried, lastRequest, line, op, sinceFrame>>

\* Nothing refers to an unloaded controller once its last poll has ended.
Collect(k) ==
  /\ ctl[k].use = "gone" /\ AtRest(k)
  /\ ctl' = [ctl EXCEPT ![k] = NoCtl]
  /\ UNCHANGED <<manager, lastRequest, conn, line, op, sinceFrame>>

\* _validate_config takes one reference ...
FlowStarts(k) ==
  /\ k \in Validators /\ ctl[k].use = "none"
  /\ Acquire(k, "flow")
  /\ UNCHANGED <<conn, line, op>>

\* Mutant of FlowAttemptEnds: the attempt's client is not released.
FlowAttemptKeeps(k) ==
  /\ ctl[k].use = "flow" /\ AtRest(k)
  /\ ctl' = [ctl EXCEPT ![k] = NoCtl]
  /\ UNCHANGED <<manager, conn, lastRequest, line, op, sinceFrame>>

\* ... and releases one in the finally clause of every attempt, of which it
\* makes more on the client it has just released.
FlowAttemptEnds(k) ==
  /\ ctl[k].use = "flow" /\ AtRest(k)
  /\ Release(k)
  /\ retried' = (retried \/ ctl[k].attempts > 0)
  /\ \/ ctl' = [ctl EXCEPT ![k] = NoCtl]
     \/ /\ ctl[k].attempts + 1 < MaxAttempts
        /\ ctl' = [ctl EXCEPT ![k].attempts = @ + 1]
  /\ UNCHANGED <<lastRequest, line, op, sinceFrame>>

-----------------------------------------------------------------------------
(* Reads and writes of a controller.                                       *)

\* Leaves the lock, for good or to join its line again.
Leave(o, pc) ==
  LET c == Client(o)
      rest == Tail(line[c])
  IN /\ line' = [line EXCEPT ![c] = IF pc = "frameWait" THEN Append(rest, o) ELSE rest]
     /\ op' = [op EXCEPT ![o] = IF pc \in IdlePcs THEN [IdleOp EXCEPT !.pc = pc]
                                 ELSE [@ EXCEPT !.pc = pc]]

HasLock(o) == line[Client(o)] # <<>> /\ Head(line[Client(o)]) = o

\* connect() returns at once on an open client, else waits for the lock.
Begin(o, kind) ==
  LET k == ControllerOf[o] IN
  /\ \/ op[o].pc = "idle" /\ ctl[k].use = "entry"
     \/ op[o].pc = "idle" /\ ctl[k].use = "flow" /\ kind = "read"
     \/ op[o].pc = "between" /\ kind = "read"
  /\ line' = [line EXCEPT ![Client(o)] = Append(@, o)]
  /\ op' = [op EXCEPT ![o].kind = kind,
              ![o].pc = IF conn[Client(o)] = "open" THEN "frameWait" ELSE "connectWait"]
  /\ UNCHANGED <<manager, lastRequest, conn, ctl, sinceFrame>>

\* Another operation may have connected the client while this one waited.
TakesLockToConnect(o) ==
  /\ op[o].pc = "connectWait" /\ HasLock(o)
  /\ IF conn[Client(o)] = "open"
     THEN Leave(o, "frameWait")
     ELSE op' = [op EXCEPT ![o].pc = "connecting"] /\ UNCHANGED line
  /\ UNCHANGED <<manager, lastRequest, conn, ctl, sinceFrame>>

\* Reads and writes ignore what connect() returned and go on to the request;
\* the attempt of a config flow ends there.
ConnectEnds(o) ==
  /\ op[o].pc = "connecting"
  /\ \/ /\ conn' = [conn EXCEPT ![Client(o)] = "open"]
        /\ Leave(o, "frameWait")
     \/ /\ conn[Client(o)] # "open" /\ UNCHANGED conn
        /\ Leave(o, IF ctl[ControllerOf[o]].use = "flow" THEN "idle" ELSE "frameWait")
  /\ UNCHANGED <<manager, lastRequest, ctl, sinceFrame>>

\* The request goes out; on a client that is not open it raises at once.  An
\* exception leaves a client closed unless it hit a single-register write.
Sends(o) ==
  LET c == Client(o) IN
  /\ IF conn[c] = "open"
     THEN /\ sinceFrame' = [sinceFrame EXCEPT ![c] = IF c = registered THEN 0 ELSE @]
          /\ op' = [op EXCEPT ![o].pc = "frame", ![o].slot = NoClient]
          /\ UNCHANGED line
     ELSE /\ \/ Leave(o, "idle")
             \/ op[o].kind = "read" /\ Leave(o, "between")
          /\ UNCHANGED sinceFrame

\* Mutant of TakesLockToSend: the lock is not waited for.
SendsWithoutLock(o) ==
  /\ op[o].pc = "frameWait"
  /\ Sends(o)
  /\ UNCHANGED <<manager, lastRequest, conn, ctl>>

\* Mutant of TakesLockToSend: no wait between two frames.
TakesLockToSendAtOnce(o) ==
  /\ op[o].pc = "frameWait" /\ HasLock(o)
  /\ Sends(o)
  /\ UNCHANGED <<manager, lastRequest, conn, ctl>>

\* inter_frame_wait: the entry of the link is looked up by key; without one
\* there is no wait, else the rest of the gap is slept off.
TakesLockToSend(o) ==
  /\ op[o].pc = "frameWait" /\ HasLock(o)
  /\ IF registered # NoClient /\ lastRequest[registered] < Gap(op[o].kind)
     THEN /\ op' = [op EXCEPT ![o].pc = "spacing", ![o].slot = registered,
                      ![o].due = Gap(op[o].kind) - lastRequest[registered]]
          /\ UNCHANGED <<line, sinceFrame, lastRequest>>
     ELSE /\ Sends(o)
          /\ lastRequest' = IF registered = NoClient THEN lastRequest
                            ELSE [lastRequest EXCEPT ![registered] = 0]
  /\ UNCHANGED <<manager, conn, ctl>>

\* The timestamp goes to the entry that was looked up before the sleep.
SpacingOver(o) ==
  /\ op[o].pc = "spacing" /\ op[o].due = 0
  /\ lastRequest' = [lastRequest EXCEPT ![op[o].slot] = 0]
  /\ Sends(o)
  /\ UNCHANGED <<manager, conn, ctl>>

\* An answer, which may be a Modbus error: the client stays open.
Answered(o) ==
  /\ op[o].pc = "frame"
  /\ conn[Client(o)] = "open"
  /\ \/ Leave(o, "idle")
     \/ op[o].kind = "read" /\ Leave(o, "between")
  /\ UNCHANGED <<manager, lastRequest, conn, ctl, sinceFrame>>

\* Mutant of Raises: the lock is not given back when the request raises.
RaisesUnderLock(o) ==
  /\ op[o].pc = "frame"
  /\ op' = [op EXCEPT ![o] = IdleOp]
  /\ UNCHANGED <<manager, lastRequest, conn, line, ctl, sinceFrame>>

\* A timeout, which is all a dead device gives, or a lost connection.
Raises(o) ==
  /\ op[o].pc = "frame"
  /\ conn' = IF op[o].kind = "write" THEN conn ELSE Closed(Client(o))
  /\ \/ Leave(o, "idle")
     \/ op[o].kind = "read" /\ Leave(o, "between")
  /\ UNCHANGED <<manager, lastRequest, ctl, sinceFrame>>

\* The poll has read its last block.
PollEnds(o) ==
  /\ op[o].pc = "between"
  /\ op' = [op EXCEPT ![o] = IdleOp]
  /\ UNCHANGED <<manager, lastRequest, conn, line, ctl, sinceFrame>>

\* The stale-link watchdog of one inverter closes the client without the lock.
ForceClose(k) ==
  /\ ctl[k].use = "entry"
  /\ conn[ctl[k].client] = "open"
  /\ conn' = Closed(ctl[k].client)
  /\ UNCHANGED <<manager, lastRequest, line, ctl, op, sinceFrame>>

-----------------------------------------------------------------------------
(* The environment: the network and pymodbus' own reconnection.  Whether the *)
(* device answers is open at every connection and every request.            *)

LinkDrops(c) ==
  /\ conn[c] = "open"
  /\ conn' = [conn EXCEPT ![c] = "lost"]
  /\ UNCHANGED <<manager, lastRequest, line, ctl, op, sinceFrame>>

Reconnects(c) ==
  /\ conn[c] = "lost"
  /\ conn' = [conn EXCEPT ![c] = "open"]
  /\ UNCHANGED <<manager, lastRequest, line, ctl, op, sinceFrame>>

Older(age) == IF age < MaxGap THEN age + 1 ELSE age

TimePasses ==
  /\ lastRequest' = [c \in Clients |-> Older(lastRequest[c])]
  /\ sinceFrame' = [c \in Clients |-> Older(sinceFrame[c])]
  /\ op' = [o \in Ops |-> [op[o] EXCEPT !.due = IF @ > 0 THEN @ - 1 ELSE 0]]
  /\ UNCHANGED <<manager, conn, line, ctl>>

-----------------------------------------------------------------------------

OpStep(o) ==
  \/ TakesLockToConnect(o) \/ ConnectEnds(o) \/ TakesLockToSend(o)
  \/ SpacingOver(o) \/ Answered(o) \/ Raises(o)

ControllerStep(k) ==
  \/ SetupEntry(k) \/ UnloadEntry(k) \/ Collect(k)
  \/ FlowStarts(k) \/ FlowAttemptEnds(k) \/ ForceClose(k)

Next ==
  \/ \E k \in Controllers : ControllerStep(k)
  \/ \E o \in Ops : OpStep(o) \/ PollEnds(o) \/ \E kind \in Kinds : Begin(o, kind)
  \/ \E c \in Clients : LinkDrops(c) \/ Reconnects(c)
  \/ TimePasses

Spec == Init /\ [][Next]_vars

(***************************************************************************)
(* The event loop runs what is ready: a lock that is free is taken by the  *)
(* first in line, a sleep ends, and a request ends because pymodbus gives  *)
(* up after its timeouts.  Nobody is obliged to start an operation.        *)
(***************************************************************************)
FairSpec == Spec /\ WF_vars(TimePasses) /\ \A o \in Ops : WF_vars(OpStep(o))
-----------------------------------------------------------------------------
(* Properties.                                                             *)

\* Reference counting: a client stays registered as long as it is counted, and
\* its count is that of its holders less the releases by controllers that hold
\* none of its references.  Those start with a validation that makes a second
\* attempt: before, every holder is counted, and all share one client, its lock
\* and its clock; afterwards a client can go while entries use it.
EveryHolderIsCounted ==
  /\ registered = NoClient <=> refs = 0
  /\ refs + surplus = Cardinality(HoldersOf(registered))
  /\ ~retried => surplus = 0 /\ \A k \in Holders : ctl[k].client = registered

\* Of the requests sent through one client, one is outstanding at a time.
OneRequestPerClient ==
  \A o, p \in Ops :
    op[o].pc = "frame" /\ op[p].pc = "frame" /\ Client(o) = Client(p) => o = p

OnWire(c) == {o \in Ops : op[o].pc = "frame" /\ Client(o) = c}

NoRequest == [user |-> NoClient, kind |-> "none"]

Request(c) ==
  IF OnWire(c) = {} THEN NoRequest
  ELSE LET o == CHOOSE o \in OnWire(c) : TRUE IN [user |-> o, kind |-> op[o].kind]

Bus(c) == INSTANCE HalfDuplexBus
  WITH Users <- Ops, Nobody <- NoRequest, wire <- Request(c), quiet <- sinceFrame[c]

\* Through the client the manager hands out, requests neither overlap nor come
\* closer than their gap, whichever inverters, polls, writes, reconnections and
\* reloads are mixed.  A released client is not timed any more.
BusSpec ==
  /\ \A c \in Clients : Bus(c)!Init
  /\ [][\A c \in Clients :
         c = registered => [Bus(c)!Next]_<<Request(c), sinceFrame[c]>>]_vars

\* Nobody waits for the lock of a link forever, not even at a dead device.
OperationsEnd == \A o \in Ops : op[o].pc \notin IdlePcs ~> op[o].pc \in IdlePcs
=============================================================================
