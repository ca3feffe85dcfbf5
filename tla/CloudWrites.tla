----------------------------- MODULE CloudWrites -----------------------------
(***************************************************************************)
(* SolisCloudController's writes beside CloudDataRetrieval's polls, for    *)
(* one control CID.  A CID packs one or more registers in one value, so a  *)
(* write of some of them composes the full value first.  An accepted write *)
(* is shown at once, marked pending and read back twice by a delayed       *)
(* verify task, since the cloud reports what the inverter does only later. *)
(*                                                                         *)
(* A step is the code between two suspensions.  The read of the old value  *)
(* before the control call changes no state and is part of waiting for it. *)
(***************************************************************************)
EXTENDS Naturals

CONSTANTS
  Registers,     (* the registers of the CID                                  *)
  Values,        (* register words                                            *)
  Calls,         (* concurrent write calls                                    *)
  Verifies,      (* verify tasks that may exist at a time                     *)
  Polls,         (* polling objects that may have a cycle in flight           *)
  None           (* no value: not cached, not written, not answered           *)

ASSUME CloudAssumption == None \notin Values

VARIABLES
  loaded,    (* the config entry is loaded                                    *)
  device,    (* the inverter's settings                                       *)
  cloud,     (* what the SolisCloud API reports, which lags behind the device *)
  cache,     (* the shared register cache                                     *)
  pending,   (* the CID's registers are in _pending_write_registers           *)
  call,      (* call[w]: a write call and what it is about to send            *)
  verify,    (* verify[v]: a delayed verify task; its field alone is history:
                 no other task of the CID has existed beside it               *)
  poll       (* poll[p]: what the API answered to an update cycle in flight   *)

vars == <<loaded, device, cloud, cache, pending, call, verify, poll>>

Words == [Registers -> Values]
Maybe == Values \union {None}

IdleCall == [pc |-> "idle", set |-> [r \in Registers |-> None], words |-> [r \in Registers |-> None]]
IdleVerify == [pc |-> "idle", words |-> None, actual |-> None, alone |-> TRUE]

CloudTypeOK ==
  /\ loaded \in BOOLEAN
  /\ device \in Words /\ cloud \in Words
  /\ cache \in [Registers -> Maybe]
  /\ pending \in BOOLEAN
  /\ call \in [Calls -> [pc : {"idle", "compose", "control"},
                         set : [Registers -> Maybe], words : [Registers -> Maybe]]]
  /\ verify \in [Verifies -> [pc : {"idle", "first", "second"},
                              words : Words \union {None}, actual : Words \union {None},
                              alone : BOOLEAN]]
  /\ poll \in [Polls -> Words \union {None}]

Init ==
  /\ loaded = TRUE
  /\ device \in Words /\ cloud = device
  /\ cache \in {device, [r \in Registers |-> None]}
  /\ pending = FALSE
  /\ call = [w \in Calls |-> IdleCall]
  /\ verify = [v \in Verifies |-> IdleVerify]
  /\ poll = [p \in Polls |-> None]

Active(v) == verify[v].pc # "idle"

-----------------------------------------------------------------------------
(* Writes.                                                                 *)

\* Mutant of Spliced: the registers that are not set are left out.
SplicedSetOnly(set, current) == set

\* The full value of the CID: what is set, and the current words elsewhere.
Spliced(set, current) == [r \in Registers |-> IF set[r] = None THEN current[r] ELSE set[r]]

\* A write of all registers is sent as it is; a write of some of them is
\* composed from the cache or, when the cache lacks a register, after a read.
RequestWrite(w, set) ==
  /\ loaded
  /\ call[w].pc = "idle"
  /\ \E r \in Registers : set[r] # None
  /\ call' = [call EXCEPT ![w] =
       IF (\A r \in Registers : set[r] # None) \/ (\A r \in Registers : cache[r] # None)
       THEN [pc |-> "control", set |-> set, words |-> Spliced(set, cache)]
       ELSE [IdleCall EXCEPT !.pc = "compose", !.set = set]]
  /\ UNCHANGED <<loaded, device, cloud, cache, pending, verify, poll>>

\* The read for the composition, or its failure, which raises.
Compose(w) ==
  /\ call[w].pc = "compose"
  /\ \/ call' = [call EXCEPT ![w].pc = "control", ![w].words = Spliced(call[w].set, cloud)]
     \/ call' = [call EXCEPT ![w] = IdleCall]
  /\ UNCHANGED <<loaded, device, cloud, cache, pending, verify, poll>>

\* The cloud accepts the command, which may still not stick on the inverter.
\* The cache shows it, the registers are pending and a verify task starts.
ControlAccepted(w) ==
  /\ call[w].pc = "control"
  /\ device' \in {call[w].words, device}
  /\ cache' = call[w].words
  /\ pending' = TRUE
  /\ \E v \in Verifies :
       /\ ~Active(v)
       /\ verify' = [u \in Verifies |->
            IF u = v THEN [pc |-> "first", words |-> call[w].words, actual |-> None,
                           alone |-> \A x \in Verifies : ~Active(x)]
            ELSE IF Active(u) THEN [verify[u] EXCEPT !.alone = FALSE] ELSE verify[u]]
  /\ call' = [call EXCEPT ![w] = IdleCall]
  /\ UNCHANGED <<loaded, cloud, poll>>

\* The call raises: refused, or carried out and the answer was lost.
ControlFails(w) ==
  /\ call[w].pc = "control"
  /\ device' \in {device, call[w].words}
  /\ call' = [call EXCEPT ![w] = IdleCall]
  /\ UNCHANGED <<loaded, cloud, cache, pending, verify, poll>>

-----------------------------------------------------------------------------
(* The verify task: two reads, a delay before each.                        *)

\* The finally clause clears the registers of the CID, whoever marked them.
Ends(v) ==
  /\ verify' = [verify EXCEPT ![v] = IdleVerify]
  /\ pending' = FALSE

FirstRead(v) ==
  /\ verify[v].pc = "first"
  /\ \/ cloud = verify[v].words /\ Ends(v)
     \/ /\ cloud # verify[v].words
        /\ verify' = [verify EXCEPT ![v].pc = "second", ![v].actual = cloud]
        /\ UNCHANGED pending
     \/ /\ verify' = [verify EXCEPT ![v].pc = "second"]   \* the read failed
        /\ UNCHANGED pending
  /\ UNCHANGED <<loaded, device, cloud, cache, call, poll>>

\* Mutant of SecondRead: a failed read leaves the task without its cleanup.
SecondReadNoCleanup(v) ==
  /\ verify[v].pc = "second"
  /\ \/ /\ cache' = cloud
        /\ Ends(v)
     \/ /\ verify' = [verify EXCEPT ![v] = IdleVerify]
        /\ UNCHANGED <<cache, pending>>
  /\ UNCHANGED <<loaded, device, cloud, call, poll>>

\* A mismatch restores what the last read that was answered reported.
SecondRead(v) ==
  /\ verify[v].pc = "second"
  /\ \/ cloud = verify[v].words /\ UNCHANGED cache
     \/ cloud # verify[v].words /\ cache' = cloud
     \/ verify[v].actual # None /\ cache' = verify[v].actual
     \/ UNCHANGED cache       \* failed and nothing to restore, or not decodable
  /\ Ends(v)
  /\ UNCHANGED <<loaded, device, cloud, call, poll>>

-----------------------------------------------------------------------------
(* Polls.                                                                  *)

\* The API answers the batch read of the control CIDs ...
PollAnswered(p) ==
  /\ loaded /\ poll[p] = None
  /\ poll' = [poll EXCEPT ![p] = cloud]
  /\ UNCHANGED <<loaded, device, cloud, cache, pending, call, verify>>

\* Mutant of PollLands: pending writes are not looked at.
PollStomps(p) ==
  /\ poll[p] # None
  /\ cache' = poll[p]
  /\ poll' = [poll EXCEPT ![p] = None]
  /\ UNCHANGED <<loaded, device, cloud, pending, call, verify>>

\* ... and once the whole batch is in, the cycle publishes what is not pending.
PollLands(p) ==
  /\ poll[p] # None
  /\ cache' = IF pending THEN cache ELSE poll[p]
  /\ poll' = [poll EXCEPT ![p] = None]
  /\ UNCHANGED <<loaded, device, cloud, pending, call, verify>>

\* A later request of the batch fails, or the answer lacks the CID.
PollFails(p) ==
  /\ poll[p] # None
  /\ poll' = [poll EXCEPT ![p] = None]
  /\ UNCHANGED <<loaded, device, cloud, cache, pending, call, verify>>

-----------------------------------------------------------------------------
(* Unloading and the environment.                                          *)

\* close_connection cancels the verify tasks; a write that is still awaited and
\* a poll in flight are not cancelled.
Unload ==
  /\ loaded
  /\ loaded' = FALSE
  /\ verify' = [v \in Verifies |-> IdleVerify]
  /\ pending' = FALSE
  /\ UNCHANGED <<device, cloud, cache, call, poll>>

CloudCatchesUp ==
  /\ cloud' = device
  /\ UNCHANGED <<loaded, device, cache, pending, call, verify, poll>>

\* The inverter is also set at its panel or by the vendor's app.
DeviceChanges ==
  /\ device' \in Words
  /\ UNCHANGED <<loaded, cloud, cache, pending, call, verify, poll>>

VerifyStep(v) == FirstRead(v) \/ SecondRead(v)

Next ==
  \/ \E w \in Calls :
       \/ \E set \in [Registers -> Maybe] : RequestWrite(w, set)
       \/ Compose(w) \/ ControlAccepted(w) \/ ControlFails(w)
  \/ \E v \in Verifies : VerifyStep(v)
  \/ \E p \in Polls : PollAnswered(p) \/ PollLands(p) \/ PollFails(p)
  \/ Unload \/ CloudCatchesUp \/ DeviceChanges

Spec == Init /\ [][Next]_vars

(***************************************************************************)
(* Timers fire and the cloud catches up; the API may fail again and again  *)
(* but not for every poll.                                                 *)
(***************************************************************************)
FairSpec ==
  /\ Spec
  /\ WF_vars(CloudCatchesUp)
  /\ \A v \in Verifies : WF_vars(VerifyStep(v))
  /\ \A p \in Polls : WF_vars(PollAnswered(p)) /\ SF_vars(PollLands(p))

-----------------------------------------------------------------------------
(* Properties.                                                             *)

\* Registers are pending only while some verify task will clear them: a mark
\* left behind would keep every later poll from updating them.
PendingHasVerify == pending => \E v \in Verifies : Active(v)

\* A poll that lands inside a verify window leaves the written value alone, also
\* when it was answered before the write, unless the window overlaps another one
\* of the CID: the tasks share their marks, and the first to end clears them.
PollRespectsVerify ==
  [][\A p \in Polls : /\ poll[p] # None /\ poll'[p] = None
                      /\ \E v \in Verifies : Active(v) /\ verify[v].alone
       => UNCHANGED cache]_vars

\* Once nothing is written any more, the cache comes to show the inverter's
\* settings and keeps showing them, whatever was shown on the way.
CacheConverges ==
  \A d \in Words :
    <>[](loaded /\ device = d /\ \A w \in Calls : call[w].pc = "idle") => <>[](cache = d)
=============================================================================
