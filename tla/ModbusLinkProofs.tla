--------------------------- MODULE ModbusLinkProofs ---------------------------
(***************************************************************************)
(* Proofs about a Modbus link, for any controllers, operations, clients,   *)
(* number of validation attempts and time of unloading.                    *)
(***************************************************************************)
EXTENDS ModbusLink, FiniteSetTheorems, TLAPS

\* Joining a line that somebody holds leaves the holder first.
LEMMA JoinKeepsHolder ==
  ASSUME NEW s \in Seq(Ops), NEW o \in Ops, s # <<>>
  PROVE  Append(s, o) \in Seq(Ops) /\ Append(s, o) # <<>> /\ Head(Append(s, o)) = Head(s)
  OBVIOUS

LEMMA ZeroAge == 0 \in 0..MaxGap
  BY DEF MaxGap

\* An operation under way belongs to a controller that holds a client; an
\* operation past a lock is first in the line of its client.
OwnersHaveClients ==
  \A k \in Controllers :
    /\ ctl[k].use = "none" => AtRest(k)
    /\ ctl[k].use # "none" => ctl[k].client \in Clients

HoldersAreFirst == \A o \in Ops : op[o].pc \in HolderPcs => HasLock(o)

LinkInv == LinkTypeOK /\ OwnersHaveClients /\ HoldersAreFirst

LEMMA LinkInvInit == Init => LinkInv
  <1>. SUFFICES ASSUME Init PROVE LinkInv
    OBVIOUS
  <1>1. ctl \in [Controllers -> CtlState]
    BY LinkAssumption DEF Init, NoCtl, CtlState
  <1>2. op \in [Ops -> OpState]
    BY DEF Init, IdleOp, OpState, Pcs, IdlePcs, HolderPcs, Kinds, MaxGap
  <1>3. line \in [Clients -> Seq(Ops)]
    BY DEF Init
  <1>7. retried \in BOOLEAN
    BY Zenon DEF Init
  <1>4. LinkTypeOK
    <2>1. refs \in Nat /\ surplus \in Nat
      BY DEF Init
    <2>. QED BY <1>1, <1>2, <1>3, <1>7, <2>1 DEF Init, LinkTypeOK, MaxGap
  <1>5. OwnersHaveClients
    BY DEF Init, OwnersHaveClients, AtRest, OpsOf, IdleOp, NoCtl
  <1>6. HoldersAreFirst
    BY DEF Init, HoldersAreFirst, IdleOp, HolderPcs
  <1>. QED BY <1>4, <1>5, <1>6 DEF LinkInv

LEMMA ClientOfActive ==
  ASSUME LinkInv, NEW o \in Ops, op[o].pc # "idle"
  PROVE  Client(o) \in Clients
  BY LinkAssumption DEF LinkInv, OwnersHaveClients, AtRest, OpsOf, Client

\* Leaving a lock that is held: the line stays a line, and no operation of the
\* same client is past its lock.
LEMMA LeaveStep ==
  ASSUME LinkInv, NEW o \in Ops, NEW pc \in IdlePcs \union {"frameWait"},
         op[o].pc # "idle", HasLock(o), Leave(o, pc), ctl' = ctl
  PROVE  /\ line' \in [Clients -> Seq(Ops)]
         /\ op' \in [Ops -> OpState]
         /\ OwnersHaveClients'
         /\ HoldersAreFirst'
  <1>. USE DEF LinkInv, LinkTypeOK
  <1>1. Client(o) \in Clients /\ line[Client(o)] \in Seq(Ops) /\ line[Client(o)] # <<>>
    BY ClientOfActive DEF HasLock
  <1>2. Tail(line[Client(o)]) \in Seq(Ops)
    BY <1>1
  <1>3. line' \in [Clients -> Seq(Ops)]
    BY <1>1, <1>2 DEF Leave
  <1>4. op' \in [Ops -> OpState]
    <2>1. CASE pc \in IdlePcs
      <3>1. [IdleOp EXCEPT !.pc = pc] \in OpState
        BY <2>1 DEF IdleOp, OpState, Pcs, IdlePcs, HolderPcs, Kinds, MaxGap
      <3>. QED BY <2>1, <3>1 DEF Leave
    <2>2. CASE pc = "frameWait"
      <3>1. [op[o] EXCEPT !.pc = pc] \in OpState
        BY <2>2 DEF OpState, Pcs
      <3>2. pc \notin IdlePcs
        BY <2>2 DEF IdlePcs
      <3>3. op' = [op EXCEPT ![o] = [op[o] EXCEPT !.pc = pc]]
        BY <3>2 DEF Leave
      <3>. QED BY <3>1, <3>3
    <2>. QED BY <2>1, <2>2
  <1>5. OwnersHaveClients'
    <2>. SUFFICES ASSUME NEW k \in Controllers
                  PROVE  /\ ctl[k].use = "none" => AtRest(k)'
                         /\ ctl[k].use # "none" => ctl[k].client \in Clients
      BY DEF OwnersHaveClients, AtRest
    <2>1. ctl[k].use = "none" => ControllerOf[o] # k
      BY DEF OwnersHaveClients, AtRest, OpsOf
    <2>. QED BY <2>1 DEF OwnersHaveClients, AtRest, OpsOf, Leave
  <1>6. HoldersAreFirst'
    <2>. SUFFICES ASSUME NEW p \in Ops, op'[p].pc \in HolderPcs PROVE HasLock(p)'
      BY DEF HoldersAreFirst
    <2>1. p # o
      BY DEF Leave, IdlePcs, HolderPcs, IdleOp
    <2>2. op'[p] = op[p]
      BY <2>1 DEF Leave
    <2>3. HasLock(p)
      BY <2>2 DEF HoldersAreFirst
    <2>4. Client(p) # Client(o)
      BY <2>1, <2>3 DEF HasLock
    <2>. QED BY <2>3, <2>4, <1>1 DEF Leave, HasLock, Client
  <1>. QED BY <1>3, <1>4, <1>5, <1>6

\* A step of an operation that keeps all lines and controllers and goes from one
\* place to another one, past its lock only if it is first.
LEMMA StayStep ==
  ASSUME LinkInv, NEW o \in Ops, op' \in [Ops -> OpState],
         \A p \in Ops \ {o} : op'[p].pc = op[p].pc,
         op'[o].pc \in HolderPcs => HasLock(o),
         op'[o].pc # "idle" => op[o].pc # "idle",
         UNCHANGED <<line, ctl>>
  PROVE  OwnersHaveClients' /\ HoldersAreFirst'
  <1>1. OwnersHaveClients'
    BY DEF LinkInv, OwnersHaveClients, AtRest, OpsOf
  <1>2. HoldersAreFirst'
    BY DEF LinkInv, HoldersAreFirst, HasLock, Client
  <1>. QED BY <1>1, <1>2

\* A client that is made is one that nobody uses.
LEMMA NewClientIsFree ==
  ASSUME NEW c \in NewClient
  PROVE  c \in Clients /\ \A k \in Controllers : ctl[k].client # c
  BY DEF NewClient, Free

\* Closing a client, and releasing the one of the manager.
LEMMA ClosedType ==
  ASSUME LinkInv, NEW c \in Clients
  PROVE  Closed(c) \in [Clients -> {"open", "lost", "closed"}]
  BY DEF LinkInv, LinkTypeOK, Closed

LEMMA ReleaseType ==
  ASSUME LinkInv, NEW k \in Controllers, Release(k)
  PROVE  /\ registered' \in Clients \union {NoClient}
         /\ refs' \in Nat /\ surplus' \in Nat
         /\ conn' \in [Clients -> {"open", "lost", "closed"}]
  <1>1. CASE registered # NoClient /\ refs <= 1
    BY <1>1, ClosedType DEF LinkInv, LinkTypeOK, Release
  <1>2. CASE ~(registered # NoClient /\ refs <= 1)
    BY <1>2 DEF LinkInv, LinkTypeOK, Release
  <1>. QED BY <1>1, <1>2

\* The operations of a controller that is set up, or that stops being used, are
\* not past any lock when its client changes.
LEMMA ControllerChange ==
  ASSUME LinkInv, NEW k \in Controllers, NEW new \in CtlState,
         ctl' = [ctl EXCEPT ![k] = new], UNCHANGED <<line, op>>,
         new.client = ctl[k].client \/ AtRest(k),
         new.use = "none" => AtRest(k),
         new.use # "none" => new.client \in Clients
  PROVE  /\ ctl' \in [Controllers -> CtlState]
         /\ OwnersHaveClients'
         /\ HoldersAreFirst'
  <1>. USE DEF LinkInv, LinkTypeOK
  <1>1. ctl' \in [Controllers -> CtlState]
    OBVIOUS
  <1>2. OwnersHaveClients'
    BY DEF OwnersHaveClients, AtRest, OpsOf
  <1>3. HoldersAreFirst'
    <2>. SUFFICES ASSUME NEW o \in Ops, op[o].pc \in HolderPcs PROVE HasLock(o)'
      BY DEF HoldersAreFirst
    <2>1. HasLock(o)
      BY DEF HoldersAreFirst
    <2>2. ControllerOf[o] = k => ~AtRest(k)
      BY DEF AtRest, OpsOf, HolderPcs
    <2>3. ctl'[ControllerOf[o]].client = ctl[ControllerOf[o]].client
      BY <2>2, LinkAssumption
    <2>. QED BY <2>1, <2>3 DEF HasLock, Client
  <1>. QED BY <1>1, <1>2, <1>3

LEMMA AcquireStep ==
  ASSUME LinkInv, NEW k \in Controllers, NEW use \in {"entry", "flow"},
         ctl[k].use = "none", Acquire(k, use), UNCHANGED <<conn, line, op>>
  PROVE  LinkInv'
  <1>. USE DEF LinkInv, LinkTypeOK
  <1>1. PICK c \in Clients :
          /\ registered' = c /\ refs' \in Nat /\ surplus' \in Nat
          /\ ctl' = [ctl EXCEPT ![k] = [use |-> use, client |-> c, attempts |-> 0]]
          /\ lastRequest' \in [Clients -> 0..MaxGap]
          /\ sinceFrame' \in [Clients -> 0..MaxGap]
    <2>1. CASE registered # NoClient
      BY <2>1 DEF Acquire
    <2>2. CASE registered = NoClient
      <3>1. PICK c \in Clients :
              /\ registered' = c /\ refs' = 1 /\ surplus' = 0
              /\ ctl' = [ctl EXCEPT ![k] = [use |-> use, client |-> c, attempts |-> 0]]
              /\ lastRequest' = [lastRequest EXCEPT ![c] = MaxGap]
              /\ sinceFrame' = [sinceFrame EXCEPT ![c] = MaxGap]
        BY <2>2, NewClientIsFree DEF Acquire
      <3>2. refs' \in Nat /\ surplus' \in Nat
        BY <3>1
      <3>3. lastRequest' \in [Clients -> 0..MaxGap] /\ sinceFrame' \in [Clients -> 0..MaxGap]
        BY <3>1 DEF MaxGap
      <3>. QED BY <3>1, <3>2, <3>3
    <2>. QED BY <2>1, <2>2
  <1>2. [use |-> use, client |-> c, attempts |-> 0] \in CtlState
    BY LinkAssumption DEF CtlState
  <1>3. AtRest(k)
    BY DEF OwnersHaveClients
  <1>4. ctl' \in [Controllers -> CtlState] /\ OwnersHaveClients' /\ HoldersAreFirst'
    BY <1>1, <1>2, <1>3, ControllerChange
  <1>5. retried' \in BOOLEAN
    BY DEF Acquire
  <1>. QED BY <1>1, <1>4, <1>5

\* Steps of a controller: setting up, unloading, validating, the watchdog.
LEMMA ControllerInv ==
  ASSUME LinkInv, NEW k \in Controllers, ControllerStep(k)
  PROVE  LinkInv'
  <1>. USE DEF LinkInv, LinkTypeOK
  <1>1. ASSUME SetupEntry(k) PROVE LinkInv'
    BY <1>1, AcquireStep DEF SetupEntry
  <1>2. ASSUME UnloadEntry(k) PROVE LinkInv'
    <2>. DEFINE new == [ctl[k] EXCEPT !.use = "gone"]
    <2>1. new \in CtlState /\ new.client = ctl[k].client /\ new.use = "gone"
      BY DEF CtlState
    <2>2. ctl[k].client \in Clients
      BY <1>2 DEF UnloadEntry, OwnersHaveClients
    <2>3. ctl' = [ctl EXCEPT ![k] = new]
      BY <1>2 DEF UnloadEntry
    <2>4. ctl' \in [Controllers -> CtlState] /\ OwnersHaveClients' /\ HoldersAreFirst'
      <3>. HIDE DEF new
      <3>. QED BY <1>2, <2>1, <2>2, <2>3, ControllerChange DEF UnloadEntry
    <2>. QED BY <1>2, <2>4, ReleaseType DEF UnloadEntry
  <1>3. ASSUME Collect(k) PROVE LinkInv'
    <2>1. NoCtl \in CtlState /\ NoCtl.use = "none"
      BY LinkAssumption DEF NoCtl, CtlState
    <2>2. ctl' \in [Controllers -> CtlState] /\ OwnersHaveClients' /\ HoldersAreFirst'
      BY <1>3, <2>1, ControllerChange DEF Collect
    <2>. QED BY <1>3, <2>2 DEF Collect, manager
  <1>4. ASSUME FlowStarts(k) PROVE LinkInv'
    BY <1>4, AcquireStep DEF FlowStarts
  <1>5. ASSUME FlowAttemptEnds(k) PROVE LinkInv'
    <2>1. PICK new \in CtlState :
            /\ ctl' = [ctl EXCEPT ![k] = new]
            /\ new.use # "none" => new.client = ctl[k].client
      <3>1. CASE ctl' = [ctl EXCEPT ![k] = NoCtl]
        <4>1. NoCtl \in CtlState /\ NoCtl.use = "none"
          BY LinkAssumption DEF NoCtl, CtlState
        <4>. QED BY <3>1, <4>1
      <3>2. CASE /\ ctl[k].attempts + 1 < MaxAttempts
                 /\ ctl' = [ctl EXCEPT ![k].attempts = @ + 1]
        <4>5. ctl[k] \in CtlState
          OBVIOUS
        <4>6. ctl[k].attempts + 1 \in 0..MaxAttempts
          BY <3>2, <4>5, LinkAssumption DEF CtlState
        <4>1. [ctl[k] EXCEPT !.attempts = @ + 1] \in CtlState
          BY <4>5, <4>6 DEF CtlState
        <4>2. ctl[k].use = "flow"
          BY <1>5 DEF FlowAttemptEnds
        <4>3. [ctl[k] EXCEPT !.attempts = @ + 1].client = ctl[k].client
              /\ [ctl[k] EXCEPT !.attempts = @ + 1].use = "flow"
          BY <4>2 DEF CtlState
        <4>4. ctl' = [ctl EXCEPT ![k] = [ctl[k] EXCEPT !.attempts = @ + 1]]
          BY <3>2
        <4>. QED BY <4>1, <4>3, <4>4
      <3>. QED BY <1>5, <3>1, <3>2 DEF FlowAttemptEnds
    <2>2. ctl[k].client \in Clients
      BY <1>5 DEF FlowAttemptEnds, OwnersHaveClients
    <2>3. ctl' \in [Controllers -> CtlState] /\ OwnersHaveClients' /\ HoldersAreFirst'
      BY <1>5, <2>1, <2>2, ControllerChange DEF FlowAttemptEnds
    <2>4. retried' \in BOOLEAN
      BY <1>5 DEF FlowAttemptEnds
    <2>. QED BY <1>5, <2>3, <2>4, ReleaseType DEF FlowAttemptEnds
  <1>6. ASSUME ForceClose(k) PROVE LinkInv'
    <2>1. ctl[k].client \in Clients
      BY <1>6 DEF ForceClose, OwnersHaveClients
    <2>2. conn' \in [Clients -> {"open", "lost", "closed"}]
      BY <1>6, <2>1, ClosedType DEF ForceClose
    <2>3. OwnersHaveClients' /\ HoldersAreFirst'
      BY <1>6 DEF ForceClose, OwnersHaveClients, HoldersAreFirst, AtRest, HasLock, Client
    <2>. QED BY <1>6, <2>2, <2>3 DEF ForceClose, manager
  <1>. QED BY <1>1, <1>2, <1>3, <1>4, <1>5, <1>6 DEF ControllerStep

\* The request goes out, or raises at once and gives the lock back.
LEMMA SendsStep ==
  ASSUME LinkInv, NEW o \in Ops, op[o].pc \in {"frameWait", "spacing"}, HasLock(o),
         Sends(o), ctl' = ctl
  PROVE  /\ line' \in [Clients -> Seq(Ops)]
         /\ op' \in [Ops -> OpState]
         /\ sinceFrame' \in [Clients -> 0..MaxGap]
         /\ OwnersHaveClients'
         /\ HoldersAreFirst'
  <1>. USE DEF LinkInv, LinkTypeOK
  <1>1. CASE conn[Client(o)] = "open"
    <2>1. [op[o] EXCEPT !.pc = "frame", !.slot = NoClient] \in OpState
      BY DEF OpState, Pcs, HolderPcs
    <2>2. op' = [op EXCEPT ![o] = [op[o] EXCEPT !.pc = "frame", !.slot = NoClient]] /\ line' = line
      BY <1>1 DEF Sends
    <2>3. op' \in [Ops -> OpState]
      BY <2>1, <2>2
    <2>4. op'[o].pc = "frame" /\ \A p \in Ops \ {o} : op'[p].pc = op[p].pc
      BY <2>2 DEF OpState
    <2>5. OwnersHaveClients' /\ HoldersAreFirst'
      BY <2>2, <2>3, <2>4, StayStep
    <2>6. \/ sinceFrame' = [sinceFrame EXCEPT ![Client(o)] = 0]
          \/ sinceFrame' = sinceFrame
      BY <1>1 DEF Sends
    <2>7. sinceFrame' \in [Clients -> 0..MaxGap]
      BY <2>6, ZeroAge, sinceFrame \in [Clients -> 0..MaxGap]
    <2>. QED BY <2>2, <2>3, <2>5, <2>7
  <1>2. CASE conn[Client(o)] # "open"
    <2>1. PICK pc \in IdlePcs : Leave(o, pc)
      BY <1>2 DEF Sends, IdlePcs
    <2>. QED BY <1>2, <2>1, LeaveStep DEF Sends
  <1>. QED BY <1>1, <1>2

\* Steps of an operation: it joins the line, takes the lock, connects, waits out
\* the gap, sends, and leaves when it is answered or an exception is raised.
LEMMA BeginInv ==
  ASSUME LinkInv, NEW o \in Ops, NEW kind \in Kinds, Begin(o, kind)
  PROVE  LinkInv'
  <1>. USE DEF LinkInv, LinkTypeOK
  <1>. DEFINE pc == IF conn[Client(o)] = "open" THEN "frameWait" ELSE "connectWait"
  <1>1. Client(o) \in Clients
    <2>1. CASE op[o].pc = "idle"
      BY <2>1, LinkAssumption DEF Begin, Client, OwnersHaveClients
    <2>2. CASE op[o].pc # "idle"
      BY <2>2, ClientOfActive
    <2>. QED BY <2>1, <2>2
  <1>2. line' = [line EXCEPT ![Client(o)] = Append(line[Client(o)], o)]
    BY DEF Begin
  <1>3. line' \in [Clients -> Seq(Ops)]
    BY <1>1, <1>2
  <1>4. op' = [op EXCEPT ![o] = [op[o] EXCEPT !.kind = kind, !.pc = pc]]
    BY DEF Begin
  <1>5. [op[o] EXCEPT !.kind = kind, !.pc = pc] \in OpState
    BY DEF OpState, Pcs
  <1>6. op' \in [Ops -> OpState]
    BY <1>4, <1>5
  <1>7. op'[o].pc \notin HolderPcs /\ \A p \in Ops \ {o} : op'[p] = op[p]
    BY <1>4 DEF OpState, HolderPcs
  <1>8. OwnersHaveClients'
    <2>1. \A k \in Controllers : ctl[k].use = "none" => ControllerOf[o] # k
      BY DEF Begin, OwnersHaveClients, AtRest, OpsOf
    <2>. QED BY <1>7, <2>1 DEF Begin, OwnersHaveClients, AtRest, OpsOf
  <1>9. HoldersAreFirst'
    <2>. SUFFICES ASSUME NEW p \in Ops, op'[p].pc \in HolderPcs PROVE HasLock(p)'
      BY DEF HoldersAreFirst
    <2>1. p # o /\ HasLock(p)
      BY <1>7 DEF HoldersAreFirst
    <2>2. Client(p)' = Client(p) /\ Client(p) \in Clients
      BY <2>1, <1>7, ClientOfActive DEF Begin, Client, HolderPcs
    <2>3. CASE Client(p) = Client(o)
      <3>1. line[Client(o)] \in Seq(Ops) /\ line[Client(o)] # <<>>
        BY <1>1, <2>1, <2>3 DEF HasLock
      <3>2. line'[Client(p)] = Append(line[Client(o)], o)
        BY <1>1, <1>2, <2>3
      <3>. QED BY <2>1, <2>2, <2>3, <3>1, <3>2, JoinKeepsHolder DEF HasLock
    <2>4. CASE Client(p) # Client(o)
      BY <1>2, <2>1, <2>2, <2>4 DEF HasLock
    <2>. QED BY <2>3, <2>4
  <1>. QED BY <1>3, <1>6, <1>8, <1>9 DEF Begin, manager

LEMMA ConnectInv ==
  ASSUME LinkInv, NEW o \in Ops, TakesLockToConnect(o) \/ ConnectEnds(o)
  PROVE  LinkInv'
  <1>. USE DEF LinkInv, LinkTypeOK
  <1>1. CASE TakesLockToConnect(o)
    <2>1. CASE conn[Client(o)] = "open"
      BY <1>1, <2>1, LeaveStep DEF TakesLockToConnect, manager
    <2>2. CASE conn[Client(o)] # "open"
      <3>1. op' = [op EXCEPT ![o] = [op[o] EXCEPT !.pc = "connecting"]] /\ line' = line
        BY <1>1, <2>2 DEF TakesLockToConnect
      <3>2. [op[o] EXCEPT !.pc = "connecting"] \in OpState
        BY DEF OpState, Pcs, HolderPcs
      <3>3. op' \in [Ops -> OpState]
        BY <3>1, <3>2
      <3>4. op'[o].pc = "connecting" /\ \A p \in Ops \ {o} : op'[p].pc = op[p].pc
        BY <3>1 DEF OpState
      <3>5. OwnersHaveClients' /\ HoldersAreFirst'
        BY <1>1, <3>1, <3>3, <3>4, StayStep DEF TakesLockToConnect
      <3>. QED BY <1>1, <3>1, <3>3, <3>5 DEF TakesLockToConnect, manager
    <2>. QED BY <2>1, <2>2
  <1>2. CASE ConnectEnds(o)
    <2>1. HasLock(o) /\ op[o].pc # "idle"
      BY <1>2 DEF ConnectEnds, HoldersAreFirst, HolderPcs
    <2>2. PICK pc \in IdlePcs \union {"frameWait"} : Leave(o, pc)
      BY <1>2 DEF ConnectEnds, IdlePcs
    <2>3. conn' \in [Clients -> {"open", "lost", "closed"}]
      BY <1>2 DEF ConnectEnds
    <2>. QED BY <1>2, <2>1, <2>2, <2>3, LeaveStep DEF ConnectEnds, manager
  <1>. QED BY <1>1, <1>2

LEMMA TransmitInv ==
  ASSUME LinkInv, NEW o \in Ops, TakesLockToSend(o) \/ SpacingOver(o)
  PROVE  LinkInv'
  <1>. USE DEF LinkInv, LinkTypeOK
  <1>1. CASE TakesLockToSend(o)
    <2>1. CASE registered # NoClient /\ lastRequest[registered] < Gap(op[o].kind)
      <3>. DEFINE due == Gap(op[o].kind) - lastRequest[registered]
      <3>1. op' = [op EXCEPT ![o] =
                     [op[o] EXCEPT !.pc = "spacing", !.slot = registered, !.due = due]]
        BY <1>1, <2>1 DEF TakesLockToSend
      <3>2. lastRequest[registered] \in 0..MaxGap
        BY <2>1
      <3>3. due \in 0..MaxGap
        BY <2>1, <3>2 DEF Gap, MaxGap
      <3>4. [op[o] EXCEPT !.pc = "spacing", !.slot = registered, !.due = due] \in OpState
        <4>. HIDE DEF due
        <4>. QED BY <3>3 DEF OpState, Pcs, HolderPcs
      <3>5. op' \in [Ops -> OpState]
        BY <3>1, <3>4
      <3>6. op'[o].pc = "spacing" /\ \A p \in Ops \ {o} : op'[p].pc = op[p].pc
        BY <3>1 DEF OpState
      <3>7. UNCHANGED <<line, ctl, lastRequest, sinceFrame>>
        BY <1>1, <2>1 DEF TakesLockToSend
      <3>8. OwnersHaveClients' /\ HoldersAreFirst'
        BY <1>1, <3>5, <3>6, <3>7, StayStep DEF TakesLockToSend
      <3>. QED BY <1>1, <3>5, <3>7, <3>8 DEF TakesLockToSend, manager
    <2>2. CASE ~(registered # NoClient /\ lastRequest[registered] < Gap(op[o].kind))
      <3>1. Sends(o) /\ op[o].pc = "frameWait" /\ HasLock(o) /\ ctl' = ctl
        BY <1>1, <2>2 DEF TakesLockToSend
      <3>2. lastRequest' = lastRequest \/ lastRequest' = [lastRequest EXCEPT ![registered] = 0]
        BY <1>1, <2>2 DEF TakesLockToSend
      <3>3. lastRequest' \in [Clients -> 0..MaxGap]
        BY <3>2, ZeroAge
      <3>. QED BY <1>1, <3>1, <3>3, SendsStep DEF TakesLockToSend, manager
    <2>. QED BY <2>1, <2>2
  <1>2. CASE SpacingOver(o)
    <2>1. Sends(o) /\ op[o].pc = "spacing" /\ HasLock(o) /\ ctl' = ctl
      BY <1>2 DEF SpacingOver, HoldersAreFirst, HolderPcs
    <2>2. lastRequest' = [lastRequest EXCEPT ![op[o].slot] = 0]
      BY <1>2 DEF SpacingOver
    <2>3. lastRequest' \in [Clients -> 0..MaxGap]
      BY <2>2, ZeroAge
    <2>. QED BY <1>2, <2>1, <2>3, SendsStep DEF SpacingOver, manager
  <1>. QED BY <1>1, <1>2

LEMMA EndInv ==
  ASSUME LinkInv, NEW o \in Ops, Answered(o) \/ Raises(o) \/ PollEnds(o)
  PROVE  LinkInv'
  <1>. USE DEF LinkInv, LinkTypeOK
  <1>1. CASE Answered(o) \/ Raises(o)
    <2>1. HasLock(o) /\ op[o].pc # "idle" /\ ctl' = ctl
      BY <1>1 DEF Answered, Raises, HoldersAreFirst, HolderPcs
    <2>2. PICK pc \in IdlePcs \union {"frameWait"} : Leave(o, pc)
      BY <1>1 DEF Answered, Raises, IdlePcs
    <2>3. conn' \in [Clients -> {"open", "lost", "closed"}]
      BY <1>1, <2>1, ClientOfActive, ClosedType DEF Answered, Raises
    <2>4. /\ line' \in [Clients -> Seq(Ops)] /\ op' \in [Ops -> OpState]
          /\ OwnersHaveClients' /\ HoldersAreFirst'
      BY <2>1, <2>2, LeaveStep
    <2>. QED BY <1>1, <2>3, <2>4 DEF Answered, Raises, manager
  <1>2. CASE PollEnds(o)
    <2>1. op' = [op EXCEPT ![o] = IdleOp] /\ UNCHANGED <<line, ctl>>
      BY <1>2 DEF PollEnds
    <2>2. IdleOp \in OpState
      BY DEF IdleOp, OpState, Pcs, IdlePcs, HolderPcs, Kinds, MaxGap
    <2>3. op' \in [Ops -> OpState]
      BY <2>1, <2>2
    <2>4. op'[o].pc = "idle" /\ \A p \in Ops \ {o} : op'[p].pc = op[p].pc
      BY <2>1 DEF IdleOp
    <2>5. OwnersHaveClients' /\ HoldersAreFirst'
      BY <2>1, <2>3, <2>4, StayStep DEF HolderPcs
    <2>. QED BY <1>2, <2>3, <2>5 DEF PollEnds, manager
  <1>. QED BY <1>1, <1>2

LEMMA EnvironmentInv ==
  ASSUME LinkInv, TimePasses \/ \E c \in Clients : LinkDrops(c) \/ Reconnects(c)
  PROVE  LinkInv'
  <1>. USE DEF LinkInv, LinkTypeOK
  <1>1. CASE \E c \in Clients : LinkDrops(c) \/ Reconnects(c)
    <2>1. UNCHANGED <<line, ctl, op>>
      BY <1>1 DEF LinkDrops, Reconnects
    <2>2. OwnersHaveClients' /\ HoldersAreFirst'
      BY <2>1 DEF OwnersHaveClients, HoldersAreFirst, AtRest, HasLock, Client
    <2>. QED BY <1>1, <2>2 DEF LinkDrops, Reconnects, manager
  <1>2. CASE TimePasses
    <2>1. op' = [o \in Ops |-> [op[o] EXCEPT !.due = IF @ > 0 THEN @ - 1 ELSE 0]]
      BY <1>2 DEF TimePasses
    <2>2. ASSUME NEW o \in Ops
          PROVE  op'[o] \in OpState /\ op'[o].pc = op[o].pc
      <3>. DEFINE due == IF op[o].due > 0 THEN op[o].due - 1 ELSE 0
      <3>1. op[o] \in OpState
        OBVIOUS
      <3>2. due \in 0..MaxGap
        BY <3>1 DEF OpState, MaxGap
      <3>3. op'[o] = [op[o] EXCEPT !.due = due]
        BY <2>1
      <3>. HIDE DEF due
      <3>. QED BY <3>1, <3>2, <3>3 DEF OpState
    <2>3. op' \in [Ops -> OpState]
      BY <2>1, <2>2
    <2>4. \A age \in 0..MaxGap : Older(age) \in 0..MaxGap
      BY DEF Older, MaxGap
    <2>5. lastRequest' \in [Clients -> 0..MaxGap] /\ sinceFrame' \in [Clients -> 0..MaxGap]
      BY <1>2, <2>4 DEF TimePasses
    <2>6. UNCHANGED <<line, ctl>>
      BY <1>2 DEF TimePasses
    <2>7. OwnersHaveClients' /\ HoldersAreFirst'
      BY <2>2, <2>6 DEF OwnersHaveClients, HoldersAreFirst, AtRest, OpsOf, HasLock, Client
    <2>. QED BY <1>2, <2>3, <2>5, <2>7 DEF TimePasses, manager
  <1>. QED BY <1>1, <1>2

LEMMA LinkInvStep == LinkInv /\ [Next]_vars => LinkInv'
  <1>. SUFFICES ASSUME LinkInv, [Next]_vars PROVE LinkInv'
    OBVIOUS
  <1>1. ASSUME NEW k \in Controllers, ControllerStep(k) PROVE LinkInv'
    BY <1>1, ControllerInv
  <1>2. ASSUME NEW o \in Ops, OpStep(o) \/ PollEnds(o) PROVE LinkInv'
    BY <1>2, ConnectInv, TransmitInv, EndInv DEF OpStep
  <1>3. ASSUME NEW o \in Ops, NEW kind \in Kinds, Begin(o, kind) PROVE LinkInv'
    BY <1>3, BeginInv
  <1>4. CASE TimePasses \/ \E c \in Clients : LinkDrops(c) \/ Reconnects(c)
    BY <1>4, EnvironmentInv
  <1>5. CASE UNCHANGED vars
    BY <1>5 DEF vars, manager, LinkInv, LinkTypeOK, OwnersHaveClients, HoldersAreFirst,
                AtRest, HasLock, Client
  <1>. QED BY <1>1, <1>2, <1>3, <1>4, <1>5 DEF Next

LEMMA LinkInvAlways == Spec => []LinkInv
  BY LinkInvInit, LinkInvStep, PTL DEF Spec

-----------------------------------------------------------------------------

\* Every variable of the link stays in its domain: the lines hold operations
\* only, a wait between two frames never exceeds the longest gap.
THEOREM LinkTypeCorrect == Spec => []LinkTypeOK
  <1>1. LinkInv => LinkTypeOK
    BY DEF LinkInv
  <1>. QED BY <1>1, LinkInvAlways, PTL

\* Of the requests through one pymodbus client one is outstanding at a time,
\* whatever polls, writes, validations, reloads and forced closes overlap: the
\* sender of each is the one first in line for the client's only lock.
THEOREM ClientSerial == Spec => []OneRequestPerClient
  <1>1. LinkInv => OneRequestPerClient
    BY DEF LinkInv, HoldersAreFirst, HolderPcs, HasLock, OneRequestPerClient
  <1>. QED BY <1>1, LinkInvAlways, PTL

-----------------------------------------------------------------------------
(* The gaps of the registered client, and the refinement of HalfDuplexBus. *)

\* The clock of the registered client never runs ahead of its last frame, and an
\* operation that sleeps off the gap on that client will wake after it.
GapKept ==
  /\ registered # NoClient => lastRequest[registered] <= sinceFrame[registered]
  /\ \A o \in Ops :
       op[o].pc = "spacing" /\ Client(o) = registered =>
         /\ op[o].slot = registered
         /\ sinceFrame[registered] + op[o].due >= Gap(op[o].kind)

\* Two operations past their locks are at locks of different clients.
LEMMA HoldersDiffer ==
  ASSUME LinkInv, NEW o \in Ops, NEW p \in Ops, o # p, HasLock(o), op[p].pc \in HolderPcs
  PROVE  Client(o) # Client(p)
  BY DEF LinkInv, HoldersAreFirst, HasLock

LEMMA GapKeptInit == Init => GapKept
  BY DEF Init, GapKept, IdleOp

LEMMA GapKeptAcquire ==
  ASSUME LinkInv, GapKept, NEW k \in Controllers, NEW use \in {"entry", "flow"},
         ctl[k].use = "none", Acquire(k, use), op' = op
  PROVE  GapKept'
  <1>. USE DEF LinkInv, LinkTypeOK
  <1>1. \A o \in Ops : op[o].pc = "spacing" => ControllerOf[o] # k /\ Client(o)' = Client(o)
    BY LinkAssumption DEF OwnersHaveClients, AtRest, OpsOf, Acquire, Client
  <1>2. CASE registered # NoClient
    BY <1>1, <1>2 DEF GapKept, Acquire
  <1>3. CASE registered = NoClient
    <2>1. PICK c \in Clients :
            /\ \A j \in Controllers : ctl[j].client # c
            /\ registered' = c
            /\ lastRequest' = [lastRequest EXCEPT ![c] = MaxGap]
            /\ sinceFrame' = [sinceFrame EXCEPT ![c] = MaxGap]
      BY <1>3, NewClientIsFree DEF Acquire
    <2>2. \A o \in Ops : op[o].pc = "spacing" => Client(o)' # c
      BY <1>1, <2>1, LinkAssumption DEF Client
    <2>3. lastRequest'[c] <= sinceFrame'[c]
      BY <2>1 DEF MaxGap
    <2>. QED BY <2>1, <2>2, <2>3 DEF GapKept
  <1>. QED BY <1>2, <1>3

\* Who releases a client keeps it as long as it has operations under way.
LEMMA ReleaseKeepsClients ==
  ASSUME LinkInv, NEW k \in Controllers, UnloadEntry(k) \/ FlowAttemptEnds(k),
         NEW o \in Ops, op[o].pc # "idle"
  PROVE  Client(o)' = Client(o)
  <1>. USE DEF LinkInv, LinkTypeOK
  <1>1. ControllerOf[o] \in Controllers /\ ctl[k] \in CtlState
    BY LinkAssumption
  <1>2. CASE UnloadEntry(k)
    <2>1. ctl' = [ctl EXCEPT ![k] = [ctl[k] EXCEPT !.use = "gone"]]
      BY <1>2 DEF UnloadEntry
    <2>2. [ctl[k] EXCEPT !.use = "gone"].client = ctl[k].client
      BY <1>1 DEF CtlState
    <2>. QED BY <1>1, <2>1, <2>2 DEF Client
  <1>3. CASE FlowAttemptEnds(k)
    <2>1. ControllerOf[o] # k
      BY <1>3 DEF FlowAttemptEnds, AtRest, OpsOf
    <2>. QED BY <1>1, <1>3, <2>1 DEF FlowAttemptEnds, Client
  <1>. QED BY <1>2, <1>3

LEMMA GapKeptController ==
  ASSUME LinkInv, GapKept, NEW k \in Controllers, ControllerStep(k)
  PROVE  GapKept'
  <1>. USE DEF LinkInv, LinkTypeOK
  <1>1. CASE SetupEntry(k) \/ FlowStarts(k)
    BY <1>1, GapKeptAcquire DEF SetupEntry, FlowStarts
  <1>2. CASE UnloadEntry(k) \/ FlowAttemptEnds(k)
    <2>1. registered' \in {registered, NoClient} /\ UNCHANGED <<lastRequest, sinceFrame, op>>
      BY <1>2 DEF UnloadEntry, FlowAttemptEnds, Release
    <2>2. \A o \in Ops : op[o].pc = "spacing" => Client(o)' = Client(o)
      BY <1>2, ReleaseKeepsClients
    <2>3. \A o \in Ops : op[o].pc = "spacing" => Client(o) # NoClient
      BY ClientOfActive, LinkAssumption
    <2>. QED BY <2>1, <2>2, <2>3 DEF GapKept
  <1>3. CASE Collect(k)
    <2>1. \A o \in Ops : op[o].pc = "spacing" => Client(o)' = Client(o)
      BY <1>3, LinkAssumption DEF Collect, AtRest, OpsOf, Client
    <2>. QED BY <1>3, <2>1 DEF Collect, manager, GapKept
  <1>4. CASE ForceClose(k)
    BY <1>4 DEF ForceClose, manager, GapKept, Client
  <1>. QED BY <1>1, <1>2, <1>3, <1>4 DEF ControllerStep

\* Steps that send nothing and put nobody to sleep.
LEMMA GapKeptStay ==
  ASSUME GapKept, UNCHANGED <<registered, lastRequest, sinceFrame, ctl>>,
         \A p \in Ops : op'[p].pc = "spacing" => op'[p] = op[p]
  PROVE  GapKept'
  BY DEF GapKept, Client

\* After a lock was left the operation does not sleep any more.
LEMMA LeaveWakes ==
  ASSUME LinkInv, NEW o \in Ops, NEW pc \in IdlePcs \union {"frameWait"}, Leave(o, pc)
  PROVE  op'[o].pc = pc /\ \A p \in Ops \ {o} : op'[p] = op[p]
  <1>1. CASE pc \in IdlePcs
    <2>1. op' = [op EXCEPT ![o] = [IdleOp EXCEPT !.pc = pc]]
      BY <1>1 DEF Leave
    <2>2. [IdleOp EXCEPT !.pc = pc].pc = pc
      BY DEF IdleOp
    <2>. QED BY <2>1, <2>2 DEF LinkInv, LinkTypeOK
  <1>2. CASE pc \notin IdlePcs
    <2>1. op' = [op EXCEPT ![o] = [op[o] EXCEPT !.pc = pc]]
      BY <1>2 DEF Leave
    <2>. QED BY <2>1 DEF LinkInv, LinkTypeOK, OpState
  <1>. QED BY <1>1, <1>2

\* What a send does: either the frame is on the wire and its client's age is 0,
\* or nothing was sent and the operation is done or between two blocks.
LEMMA SendsEffect ==
  ASSUME LinkInv, NEW o \in Ops, Sends(o)
  PROVE  /\ \A p \in Ops \ {o} : op'[p] = op[p]
         /\ \/ /\ op'[o] = [op[o] EXCEPT !.pc = "frame", !.slot = NoClient]
               /\ sinceFrame' = IF Client(o) = registered
                                THEN [sinceFrame EXCEPT ![Client(o)] = 0] ELSE sinceFrame
            \/ op'[o].pc \in IdlePcs /\ sinceFrame' = sinceFrame
  <1>1. CASE conn[Client(o)] = "open"
    BY <1>1 DEF Sends, LinkInv, LinkTypeOK
  <1>2. CASE conn[Client(o)] # "open"
    <2>1. PICK pc \in IdlePcs : Leave(o, pc)
      BY <1>2 DEF Sends, IdlePcs
    <2>. QED BY <1>2, <2>1, LeaveWakes DEF Sends
  <1>. QED BY <1>1, <1>2

LEMMA GapKeptSend ==
  ASSUME LinkInv, GapKept, NEW o \in Ops, HasLock(o), Sends(o), ctl' = ctl,
         registered' = registered, op[o].pc \in {"frameWait", "spacing"},
         \/ lastRequest' = (IF registered = NoClient THEN lastRequest
                            ELSE [lastRequest EXCEPT ![registered] = 0])
         \/ op[o].pc = "spacing" /\ lastRequest' = [lastRequest EXCEPT ![op[o].slot] = 0]
  PROVE  GapKept'
  <1>. USE DEF LinkInv, LinkTypeOK
  <1>1. \A p \in Ops : Client(p)' = Client(p) /\ Client(p) \in Clients \union {NoClient}
    BY LinkAssumption DEF Client, CtlState
  <1>2. op'[o].pc # "spacing" /\ \A p \in Ops \ {o} : op'[p] = op[p]
    <2>1. /\ \A p \in Ops \ {o} : op'[p] = op[p]
          /\ \/ op'[o] = [op[o] EXCEPT !.pc = "frame", !.slot = NoClient]
             \/ op'[o].pc \in IdlePcs
      BY SendsEffect
    <2>2. op[o] \in OpState
      OBVIOUS
    <2>3. [op[o] EXCEPT !.pc = "frame", !.slot = NoClient].pc = "frame"
      BY <2>2 DEF OpState
    <2>. QED BY <2>1, <2>3 DEF IdlePcs
  <1>3. \A p \in Ops \ {o} : op[p].pc = "spacing" => Client(p) # Client(o)
    BY HoldersDiffer DEF HolderPcs
  <1>4. sinceFrame' = sinceFrame \/ sinceFrame' = [sinceFrame EXCEPT ![Client(o)] = 0]
    BY SendsEffect
  <1>5. ASSUME NEW p \in Ops, op'[p].pc = "spacing", Client(p)' = registered'
        PROVE  /\ op'[p].slot = registered'
               /\ sinceFrame'[registered'] + op'[p].due >= Gap(op'[p].kind)
    <2>1. p # o /\ op'[p] = op[p] /\ Client(p) = registered /\ Client(o) # registered
      BY <1>1, <1>2, <1>3, <1>5
    <2>2. sinceFrame'[registered] = sinceFrame[registered]
      <3>1. Client(o) \in Clients /\ registered \in Clients
        BY <1>5, <2>1, ClientOfActive
      <3>. QED BY <1>4, <2>1, <3>1
    <2>. QED BY <1>5, <2>1, <2>2 DEF GapKept
  <1>6. ASSUME registered' # NoClient
        PROVE  lastRequest'[registered'] <= sinceFrame'[registered']
    <2>1. registered \in Clients /\ lastRequest[registered] <= sinceFrame[registered]
      BY <1>6 DEF GapKept
    <2>2. CASE Client(o) = registered
      <3>1. lastRequest' = [lastRequest EXCEPT ![registered] = 0]
        BY <1>6, <2>2 DEF GapKept
      <3>2. lastRequest'[registered] = 0 /\ sinceFrame'[registered] \in Nat
        <4>1. lastRequest'[registered] = 0
          BY <2>1, <3>1
        <4>2. sinceFrame[registered] \in Nat
          BY <2>1 DEF MaxGap
        <4>3. sinceFrame'[registered] \in {0, sinceFrame[registered]}
          BY <1>4, <2>1, <2>2
        <4>. QED BY <4>1, <4>2, <4>3
      <3>. QED BY <2>1, <3>2
    <2>3. CASE Client(o) # registered
      <3>1. sinceFrame'[registered] = sinceFrame[registered] /\ sinceFrame[registered] \in Nat
        BY <1>1, <1>4, <2>1, <2>3
      <3>2. lastRequest'[registered] \in {0, lastRequest[registered]}
        BY <2>1
      <3>. QED BY <2>1, <3>1, <3>2
    <2>. QED BY <2>2, <2>3
  <1>. QED BY <1>5, <1>6 DEF GapKept

LEMMA GapKeptOp ==
  ASSUME LinkInv, GapKept, NEW o \in Ops, OpStep(o) \/ PollEnds(o)
  PROVE  GapKept'
  <1>. USE DEF LinkInv, LinkTypeOK
  <1>1. CASE TakesLockToConnect(o) \/ ConnectEnds(o) \/ Answered(o) \/ Raises(o) \/ PollEnds(o)
    <2>1. UNCHANGED <<registered, lastRequest, sinceFrame, ctl>>
      BY <1>1 DEF TakesLockToConnect, ConnectEnds, Answered, Raises, PollEnds, manager
    <2>2. /\ \A p \in Ops \ {o} : op'[p] = op[p]
          /\ op'[o].pc # "spacing"
      <3>1. CASE \E pc \in IdlePcs \union {"frameWait"} : Leave(o, pc)
        BY <3>1, LeaveWakes DEF IdlePcs
      <3>2. CASE op' = [op EXCEPT ![o].pc = "connecting"] \/ op' = [op EXCEPT ![o] = IdleOp]
        BY <3>2 DEF IdleOp, OpState
      <3>. QED BY <1>1, <3>1, <3>2 DEF TakesLockToConnect, ConnectEnds, Answered, Raises,
                                        PollEnds, IdlePcs
    <2>. QED BY <2>1, <2>2, GapKeptStay
  <1>2. CASE TakesLockToSend(o)
    <2>1. CASE registered # NoClient /\ lastRequest[registered] < Gap(op[o].kind)
      <3>1. /\ op' = [op EXCEPT ![o] = [op[o] EXCEPT !.pc = "spacing", !.slot = registered,
                                         !.due = Gap(op[o].kind) - lastRequest[registered]]]
            /\ UNCHANGED <<registered, lastRequest, sinceFrame, ctl>>
        BY <1>2, <2>1 DEF TakesLockToSend, manager
      <3>2. /\ op'[o].slot = registered /\ op'[o].kind = op[o].kind
            /\ op'[o].due = Gap(op[o].kind) - lastRequest[registered]
            /\ \A p \in Ops \ {o} : op'[p] = op[p]
        BY <3>1 DEF OpState
      <3>3. sinceFrame[registered] + op'[o].due >= Gap(op[o].kind)
        BY <2>1, <3>2 DEF GapKept, Gap
      <3>. QED BY <3>1, <3>2, <3>3 DEF GapKept, Client
    <2>2. CASE ~(registered # NoClient /\ lastRequest[registered] < Gap(op[o].kind))
      BY <1>2, <2>2, GapKeptSend DEF TakesLockToSend, manager
    <2>. QED BY <2>1, <2>2
  <1>3. CASE SpacingOver(o)
    BY <1>3, GapKeptSend DEF SpacingOver, manager, HoldersAreFirst, HolderPcs
  <1>. QED BY <1>1, <1>2, <1>3 DEF OpStep

LEMMA GapKeptTime == LinkInv /\ GapKept /\ TimePasses => GapKept'
  <1>. SUFFICES ASSUME LinkInv, GapKept, TimePasses PROVE GapKept'
    OBVIOUS
  <1>. USE DEF LinkInv, LinkTypeOK
  <1>1. \A p \in Ops : /\ op'[p] = [op[p] EXCEPT !.due = IF op[p].due > 0 THEN op[p].due - 1 ELSE 0]
                       /\ Client(p)' = Client(p)
    BY DEF TimePasses, Client
  <1>2. \A c \in Clients : /\ lastRequest'[c] = Older(lastRequest[c])
                           /\ sinceFrame'[c] = Older(sinceFrame[c])
    BY DEF TimePasses
  <1>3. registered' = registered
    BY DEF TimePasses, manager
  <1>4. registered # NoClient => lastRequest'[registered] <= sinceFrame'[registered]
    <2>1. ASSUME registered # NoClient
          PROVE  lastRequest'[registered] <= sinceFrame'[registered]
      <3>1. /\ lastRequest[registered] \in 0..2 /\ sinceFrame[registered] \in 0..2
            /\ lastRequest[registered] <= sinceFrame[registered]
            /\ registered \in Clients
        BY <2>1 DEF GapKept, MaxGap
      <3>. QED BY <1>2, <3>1 DEF Older, MaxGap
    <2>. QED BY <2>1
  <1>5. ASSUME NEW p \in Ops, op'[p].pc = "spacing", Client(p)' = registered'
        PROVE  /\ op'[p].slot = registered'
               /\ sinceFrame'[registered'] + op'[p].due >= Gap(op'[p].kind)
    <2>1. /\ op'[p].slot = op[p].slot /\ op'[p].kind = op[p].kind /\ op'[p].pc = op[p].pc
          /\ op'[p].due = IF op[p].due > 0 THEN op[p].due - 1 ELSE 0
          /\ op[p].due \in 0..MaxGap
      BY <1>1 DEF OpState
    <2>2. op[p].pc = "spacing" /\ Client(p) = registered /\ registered \in Clients
      <3>1. op[p].pc = "spacing" /\ Client(p) = registered
        BY <1>1, <1>3, <1>5, <2>1
      <3>. QED BY <3>1, ClientOfActive
    <2>3. /\ op[p].slot = registered
          /\ sinceFrame[registered] + op[p].due >= Gap(op[p].kind)
          /\ sinceFrame[registered] \in 0..2 /\ op[p].due \in 0..2
          /\ sinceFrame'[registered] = Older(sinceFrame[registered])
      BY <1>2, <2>1, <2>2 DEF GapKept, MaxGap
    <2>. QED BY <1>3, <2>1, <2>3 DEF Older, MaxGap, Gap
  <1>. QED BY <1>3, <1>4, <1>5 DEF GapKept

LEMMA GapKeptStep == LinkInv /\ GapKept /\ [Next]_vars => GapKept'
  <1>. SUFFICES ASSUME LinkInv, GapKept, [Next]_vars PROVE GapKept'
    OBVIOUS
  <1>1. ASSUME NEW k \in Controllers, ControllerStep(k) PROVE GapKept'
    BY <1>1, GapKeptController
  <1>2. ASSUME NEW o \in Ops, OpStep(o) \/ PollEnds(o) PROVE GapKept'
    BY <1>2, GapKeptOp
  <1>3. ASSUME NEW o \in Ops, NEW kind \in Kinds, Begin(o, kind) PROVE GapKept'
    <2>1. \A p \in Ops : op'[p].pc = "spacing" => op'[p] = op[p]
      BY <1>3 DEF Begin, LinkInv, LinkTypeOK, OpState
    <2>. QED BY <1>3, <2>1, GapKeptStay DEF Begin, manager
  <1>4. CASE \E c \in Clients : LinkDrops(c) \/ Reconnects(c)
    BY <1>4, GapKeptStay DEF LinkDrops, Reconnects, manager
  <1>5. CASE UNCHANGED vars
    BY <1>5, GapKeptStay DEF vars, manager
  <1>. QED BY <1>1, <1>2, <1>3, <1>4, <1>5, GapKeptTime DEF Next

LEMMA GapKeptAlways == Spec => [](LinkInv /\ GapKept)
  <1>1. Init => LinkInv /\ GapKept
    BY LinkInvInit, GapKeptInit
  <1>2. LinkInv /\ GapKept /\ [Next]_vars => (LinkInv /\ GapKept)'
    BY LinkInvStep, GapKeptStep
  <1>. QED BY <1>1, <1>2, PTL DEF Spec

\* An operation whose request is outstanding has the wire of its client alone.
LEMMA AloneOnWire ==
  ASSUME LinkInv, NEW o \in Ops, HasLock(o), op[o].pc \in HolderPcs \union {"frameWait"}
  PROVE  OnWire(Client(o)) = IF op[o].pc = "frame" THEN {o} ELSE {}
  BY HoldersDiffer DEF OnWire, HolderPcs

\* A step that leaves the requests of client c and its age alone is a stutter.
LEMMA WireSame ==
  ASSUME NEW c \in Clients, sinceFrame'[c] = sinceFrame[c], OnWire(c)' = OnWire(c),
         \A p \in OnWire(c) : op'[p].kind = op[p].kind
  PROVE  UNCHANGED <<Request(c), sinceFrame[c]>>
  <1>2. CASE OnWire(c) = {}
    BY <1>2 DEF Request, NoRequest
  <1>3. CASE OnWire(c) # {}
    <2>. DEFINE o == CHOOSE o \in OnWire(c) : TRUE
    <2>1. o \in OnWire(c)
      BY <1>3
    <2>2. op'[o].kind = op[o].kind
      BY <2>1
    <2>3. Request(c) = [user |-> o, kind |-> op[o].kind]
      BY <1>3 DEF Request
    <2>4. Request(c)' = [user |-> o, kind |-> op'[o].kind]
      BY <1>3 DEF Request
    <2>. QED BY <2>2, <2>3, <2>4
  <1>. QED BY <1>2, <1>3

\* An answer: the only request on the wire of its client ends.
LEMMA BusAnswer ==
  ASSUME LinkInv, NEW c \in Clients, NEW o \in Ops, Answered(o) \/ Raises(o)
  PROVE  Bus(c)!Answer \/ UNCHANGED <<Request(c), sinceFrame[c]>>
  <1>. USE DEF LinkInv, LinkTypeOK
  <1>1. PICK pc \in IdlePcs : Leave(o, pc)
    BY DEF Answered, Raises, IdlePcs
  <1>2. op'[o].pc = pc /\ \A p \in Ops \ {o} : op'[p] = op[p]
    BY <1>1, LeaveWakes
  <1>3. UNCHANGED <<ctl, sinceFrame>> /\ op[o].pc = "frame"
    BY DEF Answered, Raises
  <1>4. \A p \in Ops : Client(p)' = Client(p)
    BY <1>3 DEF Client
  <1>5. CASE Client(o) # c
    <2>2. OnWire(c)' = OnWire(c) /\ o \notin OnWire(c)
      BY <1>2, <1>4, <1>5 DEF OnWire
    <2>3. \A p \in OnWire(c) : op'[p] = op[p]
      BY <1>2, <2>2 DEF OnWire
    <2>. QED BY <1>3, <2>2, <2>3, WireSame
  <1>6. CASE Client(o) = c
    <2>1. HasLock(o)
      BY <1>3 DEF HoldersAreFirst, HolderPcs
    <2>2. OnWire(c) = {o}
      BY <1>3, <1>6, <2>1, AloneOnWire DEF HolderPcs
    <2>3. OnWire(c)' = {}
      BY <1>1, <1>2, <1>4, <2>2 DEF OnWire, IdlePcs
    <2>4. Request(c) = [user |-> o, kind |-> op[o].kind] /\ op[o].kind \in Kinds
      BY <2>2 DEF Request, OpState
    <2>5. Request(c)' = NoRequest
      BY <2>3 DEF Request
    <2>6. Request(c) # NoRequest
      BY <2>4 DEF NoRequest, Kinds
    <2>. QED BY <1>3, <2>5, <2>6 DEF Bus!Answer
  <1>. QED BY <1>5, <1>6

\* A send: the wire of the client was free and its gap is over.
LEMMA BusSend ==
  ASSUME LinkInv, NEW c \in Clients, c = registered, NEW o \in Ops, HasLock(o), Sends(o),
         ctl' = ctl, op[o].pc \in {"frameWait", "spacing"},
         Client(o) = c => sinceFrame[c] >= Gap(op[o].kind)
  PROVE  (\E u \in Ops, kind \in Kinds : Bus(c)!Send(u, kind))
           \/ UNCHANGED <<Request(c), sinceFrame[c]>>
  <1>. USE DEF LinkInv, LinkTypeOK
  <1>1. \A p \in Ops : Client(p)' = Client(p)
    BY DEF Client
  <1>2. \A p \in Ops \ {o} : op'[p] = op[p]
    BY SendsEffect
  <1>3. o \notin OnWire(c)
    BY DEF OnWire
  <1>4. CASE /\ op'[o] = [op[o] EXCEPT !.pc = "frame", !.slot = NoClient]
             /\ sinceFrame' = [sinceFrame EXCEPT ![Client(o)] = 0]
             /\ Client(o) = c
    <2>1. OnWire(c) = {}
      BY <1>4, AloneOnWire DEF HolderPcs
    <2>2. op'[o].pc = "frame" /\ op'[o].kind = op[o].kind /\ op[o].kind \in Kinds
      BY <1>4 DEF OpState
    <2>3. OnWire(c)' = {o}
      <3>1. \A p \in Ops \ {o} : ~(op'[p].pc = "frame" /\ Client(p)' = c)
        BY <1>1, <1>2, <2>1 DEF OnWire
      <3>2. Client(o)' = c
        BY <1>1, <1>4
      <3>. QED BY <2>2, <3>1, <3>2 DEF OnWire
    <2>4. Request(c) = NoRequest
      BY <2>1 DEF Request
    <2>5. Request(c)' = [user |-> o, kind |-> op[o].kind]
      BY <2>2, <2>3 DEF Request
    <2>6. sinceFrame'[c] = 0
      BY <1>4
    <2>7. Bus(c)!Send(o, op[o].kind)
      BY <1>4, <2>4, <2>5, <2>6 DEF Bus!Send
    <2>. QED BY <2>2, <2>7
  <1>5. CASE /\ op'[o] = [op[o] EXCEPT !.pc = "frame", !.slot = NoClient]
             /\ sinceFrame' = sinceFrame
             /\ Client(o) # c
    <2>1. OnWire(c)' = OnWire(c)
      BY <1>1, <1>2, <1>3, <1>5 DEF OnWire
    <2>2. \A p \in OnWire(c) : op'[p] = op[p]
      BY <1>2, <1>3 DEF OnWire
    <2>. QED BY <1>5, <2>1, <2>2, WireSame
  <1>6. CASE op'[o].pc \in IdlePcs /\ sinceFrame' = sinceFrame
    <2>1. OnWire(c)' = OnWire(c)
      BY <1>1, <1>2, <1>3, <1>6 DEF OnWire, IdlePcs
    <2>2. \A p \in OnWire(c) : op'[p] = op[p]
      BY <1>2, <1>3 DEF OnWire
    <2>. QED BY <1>6, <2>1, <2>2, WireSame
  <1>. QED BY <1>4, <1>5, <1>6, SendsEffect

\* Steps at which no request starts or ends on a client that is handed out.
LEMMA BusStay ==
  ASSUME NEW c \in Clients, UNCHANGED <<ctl, sinceFrame>>,
         \A p \in Ops : \/ op'[p] = op[p]
                        \/ op[p].pc # "frame" /\ op'[p].pc # "frame"
  PROVE  UNCHANGED <<Request(c), sinceFrame[c]>>
  <1>1. OnWire(c)' = OnWire(c) /\ \A p \in OnWire(c) : op'[p] = op[p]
    BY DEF OnWire, Client
  <1>. QED BY <1>1, WireSame

LEMMA BusController ==
  ASSUME LinkInv, NEW c \in Clients, c = registered, NEW k \in Controllers, ControllerStep(k)
  PROVE  UNCHANGED <<Request(c), sinceFrame[c]>>
  <1>. USE DEF LinkInv, LinkTypeOK
  <1>1. op' = op /\ sinceFrame' = sinceFrame
    BY LinkAssumption DEF ControllerStep, SetupEntry, FlowStarts, Acquire, UnloadEntry,
         FlowAttemptEnds, Collect, ForceClose
  <1>2. \A p \in Ops : op[p].pc = "frame" => Client(p)' = Client(p)
    <2>1. CASE ctl' = ctl
      BY <2>1 DEF Client
    <2>2. CASE SetupEntry(k) \/ FlowStarts(k) \/ Collect(k)
      <3>1. /\ ctl[k].use = "none" \/ AtRest(k)
            /\ \A j \in Controllers \ {k} : ctl'[j] = ctl[j]
        BY <2>2 DEF SetupEntry, FlowStarts, Collect, Acquire
      <3>2. \A p \in Ops : op[p].pc = "frame" => ControllerOf[p] # k
        BY <3>1 DEF OwnersHaveClients, AtRest, OpsOf
      <3>. QED BY <3>1, <3>2, LinkAssumption DEF Client
    <2>3. CASE UnloadEntry(k) \/ FlowAttemptEnds(k)
      BY <2>3, ReleaseKeepsClients
    <2>. QED BY <2>1, <2>2, <2>3 DEF ControllerStep, ForceClose
  <1>3. \A p \in Ops : Client(p)' = c /\ op[p].pc = "frame" <=> Client(p) = c /\ op[p].pc = "frame"
    BY <1>2
  <1>4. OnWire(c)' = OnWire(c)
    BY <1>1, <1>3 DEF OnWire
  <1>. QED BY <1>1, <1>4, WireSame

LEMMA BusTime ==
  ASSUME LinkInv, NEW c \in Clients, TimePasses
  PROVE  Bus(c)!Wait \/ UNCHANGED <<Request(c), sinceFrame[c]>>
  <1>. USE DEF LinkInv, LinkTypeOK
  <1>1. \A p \in Ops : op'[p].pc = op[p].pc /\ op'[p].kind = op[p].kind /\ Client(p)' = Client(p)
    BY DEF TimePasses, Client, OpState
  <1>2. OnWire(c)' = OnWire(c)
    BY <1>1 DEF OnWire
  <1>3. UNCHANGED Request(c)
    <2>1. \A p \in OnWire(c) : op'[p].kind = op[p].kind
      BY <1>1 DEF OnWire
    <2>2. CASE OnWire(c) = {}
      BY <1>2, <2>2 DEF Request, NoRequest
    <2>3. CASE OnWire(c) # {}
      BY <1>2, <2>1, <2>3 DEF Request
    <2>. QED BY <2>2, <2>3
  <1>4. sinceFrame'[c] = Older(sinceFrame[c]) /\ sinceFrame[c] \in 0..2
    BY DEF TimePasses, MaxGap
  <1>5. sinceFrame'[c] = sinceFrame[c] \/ sinceFrame'[c] \in (sinceFrame[c] + 1)..MaxGap
    BY <1>4 DEF Older, MaxGap
  <1>. QED BY <1>3, <1>5 DEF Bus!Wait

LEMMA BusOp ==
  ASSUME LinkInv, GapKept, NEW c \in Clients, c = registered, NEW o \in Ops,
         OpStep(o) \/ PollEnds(o)
  PROVE  [Bus(c)!Next]_<<Request(c), sinceFrame[c]>>
  <1>. USE DEF LinkInv, LinkTypeOK
  <1>1. CASE TakesLockToConnect(o) \/ ConnectEnds(o) \/ PollEnds(o)
    <2>1. op[o].pc # "frame" /\ UNCHANGED <<ctl, sinceFrame>>
      BY <1>1 DEF TakesLockToConnect, ConnectEnds, PollEnds
    <2>2. op'[o].pc # "frame" /\ \A p \in Ops \ {o} : op'[p] = op[p]
      <3>1. CASE \E pc \in IdlePcs \union {"frameWait"} : Leave(o, pc)
        BY <3>1, LeaveWakes DEF IdlePcs
      <3>2. CASE op' = [op EXCEPT ![o].pc = "connecting"] \/ op' = [op EXCEPT ![o] = IdleOp]
        BY <3>2 DEF IdleOp, OpState
      <3>. QED BY <1>1, <3>1, <3>2 DEF TakesLockToConnect, ConnectEnds, PollEnds, IdlePcs
    <2>. QED BY <2>1, <2>2, BusStay
  <1>2. CASE Answered(o) \/ Raises(o)
    BY <1>2, BusAnswer DEF Bus!Next
  <1>3. CASE TakesLockToSend(o) /\ lastRequest[registered] < Gap(op[o].kind)
    <2>1. /\ op[o].pc = "frameWait" /\ UNCHANGED <<ctl, sinceFrame>>
          /\ op'[o].pc = "spacing" /\ \A p \in Ops \ {o} : op'[p] = op[p]
      BY <1>3, LinkAssumption DEF TakesLockToSend, OpState
    <2>. QED BY <2>1, BusStay
  <1>4. CASE TakesLockToSend(o) /\ ~(lastRequest[registered] < Gap(op[o].kind))
    <2>1. op[o].pc = "frameWait" /\ HasLock(o) /\ Sends(o) /\ ctl' = ctl
      BY <1>4 DEF TakesLockToSend
    <2>2. sinceFrame[c] >= Gap(op[o].kind)
      <3>1. registered # NoClient /\ Gap(op[o].kind) \in {1, 2}
        BY LinkAssumption DEF Gap
      <3>2. /\ lastRequest[c] \in 0..2 /\ sinceFrame[c] \in 0..2
            /\ lastRequest[c] <= sinceFrame[c]
        BY <3>1 DEF GapKept, MaxGap
      <3>. QED BY <1>4, <3>1, <3>2
    <2>. QED BY <2>1, <2>2, BusSend DEF Bus!Next
  <1>5. CASE SpacingOver(o)
    <2>1. op[o].pc = "spacing" /\ op[o].due = 0 /\ HasLock(o) /\ Sends(o) /\ ctl' = ctl
      BY <1>5 DEF SpacingOver, HoldersAreFirst, HolderPcs
    <2>2. Client(o) = c => sinceFrame[c] >= Gap(op[o].kind)
      BY <2>1 DEF GapKept, Gap, MaxGap
    <2>. QED BY <2>1, <2>2, BusSend DEF Bus!Next
  <1>. QED BY <1>1, <1>2, <1>3, <1>4, <1>5 DEF OpStep

LEMMA BusStep ==
  LinkInv /\ GapKept /\ [Next]_vars =>
    \A c \in Clients : c = registered => [Bus(c)!Next]_<<Request(c), sinceFrame[c]>>
  <1>. SUFFICES ASSUME LinkInv, GapKept, [Next]_vars, NEW c \in Clients, c = registered
                PROVE  [Bus(c)!Next]_<<Request(c), sinceFrame[c]>>
    OBVIOUS
  <1>1. ASSUME NEW k \in Controllers, ControllerStep(k)
        PROVE  [Bus(c)!Next]_<<Request(c), sinceFrame[c]>>
    BY <1>1, BusController
  <1>2. ASSUME NEW o \in Ops, OpStep(o) \/ PollEnds(o)
        PROVE  [Bus(c)!Next]_<<Request(c), sinceFrame[c]>>
    BY <1>2, BusOp
  <1>3. ASSUME NEW o \in Ops, NEW kind \in Kinds, Begin(o, kind)
        PROVE  [Bus(c)!Next]_<<Request(c), sinceFrame[c]>>
    <2>1. op[o].pc # "frame" /\ op'[o].pc # "frame" /\ \A p \in Ops \ {o} : op'[p] = op[p]
      BY <1>3 DEF Begin, LinkInv, LinkTypeOK, OpState
    <2>. QED BY <1>3, <2>1, BusStay DEF Begin
  <1>4. CASE \E d \in Clients : LinkDrops(d) \/ Reconnects(d)
    BY <1>4, BusStay DEF LinkDrops, Reconnects
  <1>5. CASE TimePasses
    BY <1>5, BusTime DEF Bus!Next
  <1>6. CASE UNCHANGED vars
    BY <1>6, BusStay DEF vars
  <1>. QED BY <1>1, <1>2, <1>3, <1>4, <1>5, <1>6 DEF Next

\* Through the client the manager hands out, requests never overlap and never
\* come closer than their gap: the link implements HalfDuplexBus on it, with any
\* number of inverters, clients and operations, through reconnections, forced
\* closes, reloads and validations.
THEOREM LinkImplementsBus == Spec => BusSpec
  <1>1. Init => \A c \in Clients : Bus(c)!Init
    <2>. SUFFICES ASSUME Init, NEW c \in Clients PROVE Bus(c)!Init
      OBVIOUS
    <2>1. OnWire(c) = {} /\ sinceFrame[c] = MaxGap
      BY DEF Init, OnWire, IdleOp
    <2>. QED BY <2>1 DEF Request, Bus!Init
  <1>. QED BY <1>1, BusStep, GapKeptAlways, PTL DEF Spec, BusSpec
-----------------------------------------------------------------------------
(* The reference count.                                                    *)

\* What makes the count inductive: only finitely many controllers hold a
\* reference at a time.
Counted == IsFiniteSet(Holders) /\ EveryHolderIsCounted

LEMMA HolderHasClient ==
  ASSUME LinkInv, NEW k \in Holders
  PROVE  k \in Controllers /\ ctl[k].client \in Clients /\ ctl[k].client # NoClient
  BY LinkAssumption DEF LinkInv, OwnersHaveClients, Holders

LEMMA HoldersOfFinite ==
  ASSUME IsFiniteSet(Holders), NEW c
  PROVE  IsFiniteSet(HoldersOf(c)) /\ Cardinality(HoldersOf(c)) \in Nat
  BY FS_Subset, FS_CardinalityType DEF HoldersOf

\* Nobody holds the manager's client only when there is none.
LEMMA RegisteredIsHeld ==
  ASSUME LinkInv, Counted, registered # NoClient
  PROVE  HoldersOf(registered) # {}
  <1>1. refs \in Nat /\ surplus \in Nat /\ refs # 0
    BY DEF LinkInv, LinkTypeOK, Counted, EveryHolderIsCounted
  <1>2. refs + surplus = Cardinality(HoldersOf(registered))
    BY DEF Counted, EveryHolderIsCounted
  <1>3. Cardinality(HoldersOf(registered)) # 0
    BY <1>1, <1>2
  <1>. QED BY <1>3, FS_EmptySet

LEMMA CountedAcquire ==
  ASSUME LinkInv, Counted, NEW k \in Controllers, NEW use \in {"entry", "flow"},
         ctl[k].use = "none", Acquire(k, use)
  PROVE  Counted'
  <1>. USE DEF LinkInv, LinkTypeOK
  <1>1. /\ ctl'[k] = [use |-> use, client |-> registered', attempts |-> 0]
        /\ \A j \in Controllers \ {k} : ctl'[j] = ctl[j]
    BY DEF Acquire
  <1>2. k \notin Holders /\ Holders' = Holders \union {k}
    BY <1>1 DEF Holders
  <1>3. IsFiniteSet(Holders)'
    BY <1>2, FS_AddElement DEF Counted
  <1>4. retried' = (retried /\ Holders # {})
    BY DEF Acquire
  <1>5. CASE registered # NoClient
    <2>1. registered' = registered /\ refs' = refs + 1 /\ surplus' = surplus
      BY <1>5 DEF Acquire
    <2>2. HoldersOf(registered)' = HoldersOf(registered) \union {k}
      BY <1>1, <1>2, <2>1, HolderHasClient DEF HoldersOf
    <2>3. k \notin HoldersOf(registered)
      BY <1>2 DEF HoldersOf
    <2>4. Cardinality(HoldersOf(registered))' = Cardinality(HoldersOf(registered)) + 1
      BY <2>2, <2>3, HoldersOfFinite, FS_AddElement DEF Counted
    <2>5. Holders # {}
      BY <1>5, RegisteredIsHeld DEF HoldersOf
    <2>6. refs + surplus = Cardinality(HoldersOf(registered)) /\ refs \in Nat /\ surplus \in Nat
      BY DEF Counted, EveryHolderIsCounted
    <2>7. (refs + surplus = Cardinality(HoldersOf(registered)))'
      BY <2>1, <2>4, <2>6
    <2>8. refs' # 0 /\ registered' # NoClient
      BY <1>5, <2>1, <2>6
    <2>9. ASSUME ~retried'
          PROVE  surplus' = 0 /\ \A j \in Holders' : ctl'[j].client = registered'
      <3>1. surplus = 0 /\ \A j \in Holders : ctl[j].client = registered
        BY <1>4, <2>5, <2>9 DEF Counted, EveryHolderIsCounted
      <3>. QED BY <1>1, <1>2, <2>1, <3>1, HolderHasClient
    <2>. QED BY <1>3, <2>7, <2>8, <2>9 DEF Counted, EveryHolderIsCounted
  <1>6. CASE registered = NoClient
    <2>1. /\ registered' \in NewClient
          /\ refs' = 1 /\ surplus' = 0
      BY <1>6 DEF Acquire
    <2>2. registered' \in Clients /\ \A j \in Controllers : ctl[j].client # registered'
      BY <2>1, NewClientIsFree
    <2>3. HoldersOf(registered)' = {k}
      BY <1>1, <1>2, <2>2, HolderHasClient DEF HoldersOf
    <2>4. Cardinality(HoldersOf(registered))' = 1
      BY <2>3, FS_Singleton
    <2>5. ASSUME ~retried' PROVE Holders = {}
      <3>1. CASE ~retried
        BY <1>6, <3>1, HolderHasClient DEF Counted, EveryHolderIsCounted
      <3>. QED BY <1>4, <2>5, <3>1
    <2>6. ~retried' => \A j \in Holders' : ctl'[j].client = registered'
      BY <1>1, <1>2, <2>5
    <2>7. registered' # NoClient
      BY <2>2, LinkAssumption
    <2>. QED BY <1>3, <2>1, <2>4, <2>6, <2>7 DEF Counted, EveryHolderIsCounted
  <1>. QED BY <1>5, <1>6

LEMMA CountedRelease ==
  ASSUME LinkInv, Counted, NEW k \in Controllers, Release(k),
         \A j \in Controllers \ {k} : ctl'[j] = ctl[j],
         Holders' = Holders \ {k},
         ~retried' => ~retried /\ k \in Holders
  PROVE  Counted'
  <1>. USE DEF LinkInv, LinkTypeOK
  <1>1. IsFiniteSet(Holders)'
    BY FS_RemoveElement DEF Counted
  <1>2. refs + surplus = Cardinality(HoldersOf(registered)) /\ refs \in Nat /\ surplus \in Nat
    BY DEF Counted, EveryHolderIsCounted
  <1>3. \A j \in Holders' : j \in Holders /\ ctl'[j] = ctl[j] /\ ctl[j].client # NoClient
    BY HolderHasClient
  <1>4. HoldersOf(registered)' = {j \in Holders \ {k} : ctl[j].client = registered'}
    BY <1>3 DEF HoldersOf
  <1>5. ASSUME ~retried'
        PROVE  surplus = 0 /\ k \in Holders /\ \A j \in Holders : ctl[j].client = registered
    BY <1>5 DEF Counted, EveryHolderIsCounted
  <1>6. CASE registered = NoClient
    <2>1. UNCHANGED <<registered, refs, surplus>>
      BY <1>6 DEF Release
    <2>2. HoldersOf(registered)' = HoldersOf(registered)
      BY <1>3, <1>4, <1>6, <2>1, HolderHasClient DEF HoldersOf
    <2>3. ~retried' => surplus' = 0 /\ \A j \in Holders' : ctl'[j].client = registered'
      BY <1>3, <1>5, <2>1
    <2>. QED BY <1>1, <1>2, <2>1, <2>2, <2>3 DEF Counted, EveryHolderIsCounted
  <1>7. CASE registered # NoClient /\ refs <= 1
    <2>1. registered' = NoClient /\ refs' = 0 /\ surplus' = 0
      BY <1>7 DEF Release
    <2>2. HoldersOf(registered)' = {}
      BY <1>3, <1>4, <2>1
    <2>3. Cardinality(HoldersOf(registered))' = 0
      BY <2>2, FS_EmptySet
    <2>4. ASSUME ~retried' PROVE Holders' = {}
      <3>1. HoldersOf(registered) = Holders
        BY <1>5, <2>4 DEF HoldersOf
      <3>2. Cardinality(Holders) <= 1 /\ k \in Holders
        BY <1>2, <1>5, <1>7, <2>4, <3>1
      <3>3. Cardinality(Holders') = Cardinality(Holders) - 1 /\ Cardinality(Holders') \in Nat
            /\ Cardinality(Holders) \in Nat
        BY <1>1, <3>2, FS_RemoveElement, FS_CardinalityType DEF Counted
      <3>4. Cardinality(Holders') = 0
        BY <3>2, <3>3
      <3>. QED BY <1>1, <3>4, FS_EmptySet
    <2>. QED BY <1>1, <2>1, <2>3, <2>4 DEF Counted, EveryHolderIsCounted
  <1>8. CASE registered # NoClient /\ ~(refs <= 1)
    <2>1. /\ registered' = registered /\ refs' = refs - 1
          /\ surplus' = IF k \in HoldersOf(registered) THEN surplus ELSE surplus + 1
      BY <1>8 DEF Release
    <2>2. HoldersOf(registered)' = HoldersOf(registered) \ {k}
      BY <1>4, <2>1 DEF HoldersOf
    <2>3. (refs + surplus = Cardinality(HoldersOf(registered)))'
      <3>1. CASE k \in HoldersOf(registered)
        <4>1. Cardinality(HoldersOf(registered))' = Cardinality(HoldersOf(registered)) - 1
          BY <2>2, <3>1, HoldersOfFinite, FS_RemoveElement DEF Counted
        <4>. QED BY <1>2, <2>1, <3>1, <4>1
      <3>2. CASE k \notin HoldersOf(registered)
        <4>1. HoldersOf(registered)' = HoldersOf(registered)
          BY <2>2, <3>2
        <4>. QED BY <1>2, <2>1, <3>2, <4>1
      <3>. QED BY <3>1, <3>2
    <2>4. ~retried' => surplus' = 0 /\ \A j \in Holders' : ctl'[j].client = registered'
      BY <1>3, <1>5, <2>1 DEF HoldersOf
    <2>5. refs' # 0
      BY <1>2, <1>8, <2>1
    <2>. QED BY <1>1, <1>8, <2>1, <2>3, <2>4, <2>5 DEF Counted, EveryHolderIsCounted
  <1>. QED BY <1>6, <1>7, <1>8

LEMMA CountedStep ==
  ASSUME LinkInv, Counted, [Next]_vars
  PROVE  Counted'
  <1>. USE DEF LinkInv, LinkTypeOK
  <1>1. CASE \E k \in Controllers : SetupEntry(k) \/ FlowStarts(k)
    BY <1>1, CountedAcquire DEF SetupEntry, FlowStarts
  <1>2. ASSUME NEW k \in Controllers, UnloadEntry(k) PROVE Counted'
    <2>1. /\ k \in Holders /\ retried' = retried /\ Release(k)
          /\ ctl'[k].use = "gone" /\ \A j \in Controllers \ {k} : ctl'[j] = ctl[j]
      BY <1>2 DEF UnloadEntry, Holders, CtlState
    <2>2. Holders' = Holders \ {k}
      BY <2>1 DEF Holders
    <2>. QED BY <2>1, <2>2, CountedRelease
  <1>3. ASSUME NEW k \in Controllers, FlowAttemptEnds(k) PROVE Counted'
    <2>1. /\ ctl[k].use = "flow" /\ Release(k) /\ ctl[k].attempts \in Nat
          /\ retried' = (retried \/ ctl[k].attempts > 0)
          /\ \A j \in Controllers \ {k} : ctl'[j] = ctl[j]
      BY <1>3, LinkAssumption DEF FlowAttemptEnds, CtlState
    <2>2. ctl'[k].use = "none" \/ (ctl'[k].use = "flow" /\ ctl'[k].attempts = ctl[k].attempts + 1)
      <3>1. CASE ctl' = [ctl EXCEPT ![k] = NoCtl]
        BY <3>1 DEF NoCtl
      <3>2. CASE ctl' = [ctl EXCEPT ![k].attempts = @ + 1]
        <4>1. ctl[k] \in CtlState
          OBVIOUS
        <4>2. ctl'[k] = [ctl[k] EXCEPT !.attempts = ctl[k].attempts + 1]
          BY <3>2
        <4>. QED BY <2>1, <4>1, <4>2 DEF CtlState
      <3>. QED BY <1>3, <3>1, <3>2 DEF FlowAttemptEnds
    <2>3. k \notin Holders'
      BY <2>1, <2>2 DEF Holders
    <2>4. Holders' = Holders \ {k}
      BY <2>1, <2>3 DEF Holders
    <2>5. ~retried' => ~retried /\ k \in Holders
      <3>. SUFFICES ASSUME ~retried' PROVE ~retried /\ k \in Holders
        OBVIOUS
      <3>1. ~retried /\ ~(ctl[k].attempts > 0)
        BY <2>1, Zenon
      <3>2. ctl[k].attempts = 0
        BY <2>1, <3>1
      <3>. QED BY <2>1, <3>1, <3>2 DEF Holders
    <2>. QED BY <2>1, <2>4, <2>5, CountedRelease
  <1>4. ASSUME NEW k \in Controllers, Collect(k) PROVE Counted'
    <2>1. ctl[k].use = "gone" /\ ctl'[k].use = "none"
          /\ \A j \in Controllers \ {k} : ctl'[j] = ctl[j]
      BY <1>4 DEF Collect, NoCtl
    <2>2. Holders' = Holders /\ \A j \in Holders : ctl'[j] = ctl[j]
      BY <2>1 DEF Holders
    <2>3. UNCHANGED manager
      BY <1>4 DEF Collect
    <2>4. HoldersOf(registered)' = HoldersOf(registered)
      BY <2>2, <2>3 DEF HoldersOf, manager
    <2>. QED BY <2>2, <2>3, <2>4 DEF manager, Counted, EveryHolderIsCounted
  <1>5. CASE UNCHANGED <<manager, ctl>>
    <2>1. Holders' = Holders /\ HoldersOf(registered)' = HoldersOf(registered)
      BY <1>5 DEF manager, Holders, HoldersOf
    <2>. QED BY <1>5, <2>1 DEF manager, Counted, EveryHolderIsCounted
  <1>6. UNCHANGED <<manager, ctl>> \/ \E k \in Controllers :
          SetupEntry(k) \/ FlowStarts(k) \/ UnloadEntry(k) \/ FlowAttemptEnds(k) \/ Collect(k)
    BY DEF Next, vars, ControllerStep, OpStep, ForceClose, TakesLockToConnect, ConnectEnds,
           TakesLockToSend, SpacingOver, Answered, Raises, PollEnds, Begin,
           LinkDrops, Reconnects, TimePasses
  <1>. QED BY <1>1, <1>2, <1>3, <1>4, <1>5, <1>6

\* The manager's count of a client is that of its holders less the releases by
\* controllers that hold none of its references, which only start with a second
\* attempt of a validation, for any number of controllers and attempts and
\* whatever is set up, unloaded in mid-poll, reloaded or validated.
THEOREM HoldersCounted == Spec => []EveryHolderIsCounted
  <1>1. Init => LinkInv /\ Counted
    <2>. SUFFICES ASSUME Init PROVE Counted
      BY LinkInvInit
    <2>1. Holders = {} /\ HoldersOf(registered) = {}
      BY DEF Init, Holders, HoldersOf, NoCtl
    <2>2. IsFiniteSet(Holders) /\ Cardinality(HoldersOf(registered)) = 0
      BY <2>1, FS_EmptySet
    <2>. QED BY <2>1, <2>2 DEF Init, Counted, EveryHolderIsCounted
  <1>2. LinkInv /\ Counted /\ [Next]_vars => (LinkInv /\ Counted)'
    BY LinkInvStep, CountedStep
  <1>3. LinkInv /\ Counted => EveryHolderIsCounted
    BY DEF Counted
  <1>. QED BY <1>1, <1>2, <1>3, PTL DEF Spec
=============================================================================
