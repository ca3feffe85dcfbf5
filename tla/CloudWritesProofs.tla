-------------------------- MODULE CloudWritesProofs --------------------------
(***************************************************************************)
(* Proofs about cloud writes, for any registers, values, calls and tasks.  *)
(***************************************************************************)
EXTENDS CloudWrites, TLAPS

\* A call that is about to send has a full value of words to send.
SendsWords == \A w \in Calls : call[w].pc = "control" => call[w].words \in Words

\* The composed value is made of words if all registers are set or known.
LEMMA SplicedWords ==
  ASSUME NEW set \in [Registers -> Maybe], NEW current \in [Registers -> Maybe],
         \/ \A r \in Registers : set[r] # None
         \/ \A r \in Registers : current[r] # None
  PROVE  Spliced(set, current) \in Words
  BY DEF Spliced, Words, Maybe

LEMMA WordsAreMaybe == Words \subseteq [Registers -> Maybe]
  BY DEF Words, Maybe

\* A call that goes on to send full is a call.
LEMMA Composed ==
  ASSUME NEW rec \in [pc : {"idle", "compose", "control"},
                      set : [Registers -> Maybe], words : [Registers -> Maybe]],
         NEW full \in [Registers -> Maybe]
  PROVE  [rec EXCEPT !.pc = "control", !.words = full]
           \in [pc : {"idle", "compose", "control"},
               set : [Registers -> Maybe], words : [Registers -> Maybe]]
  OBVIOUS

CloudInv == CloudTypeOK /\ SendsWords

LEMMA CloudInvInit == Init => CloudInv
  <1>. SUFFICES ASSUME Init PROVE CloudInv
    OBVIOUS
  <1>1. device \in [Registers -> Maybe]
    BY WordsAreMaybe DEF Init
  <1>2. CloudTypeOK
    BY <1>1 DEF Init, CloudTypeOK, IdleCall, IdleVerify, Maybe
  <1>3. SendsWords
    BY DEF Init, SendsWords, IdleCall
  <1>. QED BY <1>2, <1>3 DEF CloudInv

LEMMA CloudInvStep == CloudInv /\ [Next]_vars => CloudInv'
  <1>. SUFFICES ASSUME CloudInv, [Next]_vars PROVE CloudInv'
    OBVIOUS
  <1>. USE DEF CloudInv, CloudTypeOK, SendsWords
  <1>1. ASSUME NEW w \in Calls, NEW set \in [Registers -> Maybe], RequestWrite(w, set)
        PROVE  CloudInv'
    <2>1. CASE (\A r \in Registers : set[r] # None) \/ (\A r \in Registers : cache[r] # None)
      <3>1. Spliced(set, cache) \in Words
        BY <2>1, SplicedWords
      <3>2. Spliced(set, cache) \in [Registers -> Maybe]
        BY <3>1, WordsAreMaybe
      <3>. QED BY <1>1, <2>1, <3>1, <3>2 DEF RequestWrite
    <2>2. CASE ~((\A r \in Registers : set[r] # None) \/ (\A r \in Registers : cache[r] # None))
      BY <1>1, <2>2 DEF RequestWrite, IdleCall, Maybe
    <2>. QED BY <2>1, <2>2
  <1>2. ASSUME NEW w \in Calls, Compose(w) PROVE CloudInv'
    <2>1. \A r \in Registers : cloud[r] # None
      BY CloudAssumption DEF Words
    <2>2. Spliced(call[w].set, cloud) \in Words
      BY <2>1, SplicedWords, WordsAreMaybe
    <2>3. Spliced(call[w].set, cloud) \in [Registers -> Maybe]
      BY <2>2, WordsAreMaybe
    <2>4. CASE call' = [call EXCEPT ![w].pc = "control", ![w].words = Spliced(call[w].set, cloud)]
      <3>1. call'[w].words \in Words
        BY <2>2, <2>4
      <3>2. \A u \in Calls \ {w} : call'[u] = call[u]
        BY <2>4
      <3>3. SendsWords'
        BY <1>2, <3>1, <3>2 DEF Compose
      <3>4. call' \in [Calls -> [pc : {"idle", "compose", "control"},
                               set : [Registers -> Maybe], words : [Registers -> Maybe]]]
        <4>1. call' = [call EXCEPT ![w] = [call[w] EXCEPT !.pc = "control",
                                             !.words = Spliced(call[w].set, cloud)]]
          BY <2>4
        <4> QED BY <2>3, <4>1, Composed
      <3>. QED BY <1>2, <3>3, <3>4 DEF Compose
    <2>5. CASE call' = [call EXCEPT ![w] = IdleCall]
      BY <1>2, <2>5 DEF Compose, IdleCall, Maybe
    <2>. QED BY <1>2, <2>4, <2>5 DEF Compose
  <1>3. ASSUME NEW w \in Calls, ControlAccepted(w) PROVE CloudInv'
    <2>1. call[w].words \in Words /\ call[w].words \in [Registers -> Maybe]
      BY <1>3, WordsAreMaybe DEF ControlAccepted
    <2>2. device' \in Words /\ cache' \in [Registers -> Maybe]
      BY <1>3, <2>1 DEF ControlAccepted
    <2>3. verify' \in [Verifies -> [pc : {"idle", "first", "second"},
                              words : Words \union {None}, actual : Words \union {None},
                              alone : BOOLEAN]]
      <3>1. PICK v \in Verifies :
              verify' = [u \in Verifies |->
                IF u = v THEN [pc |-> "first", words |-> call[w].words, actual |-> None,
                               alone |-> \A x \in Verifies : ~Active(x)]
                ELSE IF Active(u) THEN [verify[u] EXCEPT !.alone = FALSE] ELSE verify[u]]
        BY <1>3 DEF ControlAccepted
      <3>2. PICK solo \in BOOLEAN : solo = \A x \in Verifies : ~Active(x)
        OBVIOUS
      <3>3. verify'[v] = [pc |-> "first", words |-> call[w].words, actual |-> None, alone |-> solo]
        BY <3>1, <3>2, Zenon
      <3>4. \A u \in Verifies \ {v} :
              verify'[u] = [verify[u] EXCEPT !.alone = FALSE] \/ verify'[u] = verify[u]
        BY <3>1
      <3>5. ASSUME NEW u \in Verifies
            PROVE  verify'[u] \in [pc : {"idle", "first", "second"}, words : Words \union {None},
                                  actual : Words \union {None}, alone : BOOLEAN]
        <4>1. CASE u = v
          <5>1. [pc |-> "first", words |-> call[w].words, actual |-> None, alone |-> solo]
                  \in [pc : {"idle", "first", "second"}, words : Words \union {None},
                       actual : Words \union {None}, alone : BOOLEAN]
            BY <2>1
          <5>. QED BY <3>3, <4>1, <5>1, Zenon
        <4>2. CASE u # v
          <5>1. verify[u] \in [pc : {"idle", "first", "second"}, words : Words \union {None},
                               actual : Words \union {None}, alone : BOOLEAN]
            OBVIOUS
          <5>2. [verify[u] EXCEPT !.alone = FALSE]
                  \in [pc : {"idle", "first", "second"}, words : Words \union {None},
                       actual : Words \union {None}, alone : BOOLEAN]
            BY <5>1
          <5>. QED BY <3>4, <4>2, <5>1, <5>2, Zenon
        <4>. QED BY <4>1, <4>2
      <3>6. verify' = [u \in Verifies |-> verify'[u]]
        BY <3>1, Zenon
      <3>. QED BY <3>5, <3>6
    <2>. QED BY <1>3, <2>2, <2>3 DEF ControlAccepted, IdleCall, Maybe
  <1>4. ASSUME NEW w \in Calls, ControlFails(w) PROVE CloudInv'
    <2>1. device' \in Words
      BY <1>4 DEF ControlFails
    <2>. QED BY <1>4, <2>1 DEF ControlFails, IdleCall, Maybe
  <1>5. ASSUME NEW v \in Verifies, FirstRead(v) PROVE CloudInv'
    <2>1. CASE verify' = [verify EXCEPT ![v] = IdleVerify] /\ pending' = FALSE
      BY <1>5, <2>1 DEF FirstRead, IdleVerify
    <2>2. CASE verify' = [verify EXCEPT ![v].pc = "second", ![v].actual = cloud] /\ UNCHANGED pending
      BY <1>5, <2>2 DEF FirstRead
    <2>3. CASE verify' = [verify EXCEPT ![v].pc = "second"] /\ UNCHANGED pending
      BY <1>5, <2>3 DEF FirstRead
    <2>. QED BY <1>5, <2>1, <2>2, <2>3 DEF FirstRead, Ends
  <1>6. ASSUME NEW v \in Verifies, SecondRead(v) PROVE CloudInv'
    <2>1. cache' \in [Registers -> Maybe]
      BY <1>6, WordsAreMaybe DEF SecondRead
    <2>. QED BY <1>6, <2>1 DEF SecondRead, Ends, IdleVerify
  <1>7. ASSUME NEW p \in Polls, PollAnswered(p) \/ PollLands(p) \/ PollFails(p) PROVE CloudInv'
    <2>1. cache' \in [Registers -> Maybe]
      BY <1>7, WordsAreMaybe DEF PollAnswered, PollLands, PollFails
    <2>. QED BY <1>7, <2>1 DEF PollAnswered, PollLands, PollFails
  <1>8. CASE Unload
    BY <1>8 DEF Unload, IdleVerify
  <1>9. CASE CloudCatchesUp \/ DeviceChanges
    BY <1>9 DEF CloudCatchesUp, DeviceChanges
  <1>10. CASE UNCHANGED vars
    BY <1>10 DEF vars
  <1>. QED
    BY <1>1, <1>2, <1>3, <1>4, <1>5, <1>6, <1>7, <1>8, <1>9, <1>10 DEF Next, VerifyStep

\* Type correctness of the cloud write path.
THEOREM CloudTypeCorrect == Spec => []CloudTypeOK
  <1>1. CloudInv => CloudTypeOK
    BY DEF CloudInv
  <1>. QED BY CloudInvInit, CloudInvStep, <1>1, PTL DEF Spec

\* No mark in _pending_write_registers outlives the tasks that clear it, for any
\* number of overlapping writes, failed reads and an unload at any time.
THEOREM NoMarkLeftBehind == Spec => []PendingHasVerify
  <1>1. Init => PendingHasVerify
    BY DEF Init, PendingHasVerify
  <1>2. CloudTypeOK /\ PendingHasVerify /\ [Next]_vars => PendingHasVerify'
    <2>. SUFFICES ASSUME CloudTypeOK, PendingHasVerify, [Next]_vars, pending'
                  PROVE  \E v \in Verifies : Active(v)'
      BY DEF PendingHasVerify
    <2>. USE DEF CloudTypeOK, PendingHasVerify, Active
    <2>1. ASSUME NEW w \in Calls, ControlAccepted(w) PROVE \E v \in Verifies : Active(v)'
      <3>1. PICK v \in Verifies : verify'[v].pc = "first"
        BY <2>1 DEF ControlAccepted
      <3>. QED BY <3>1
    <2>2. ASSUME NEW v \in Verifies, FirstRead(v) PROVE \E u \in Verifies : Active(u)'
      <3>1. verify' = [verify EXCEPT ![v].pc = "second", ![v].actual = cloud]
              \/ verify' = [verify EXCEPT ![v].pc = "second"]
        BY <2>2 DEF FirstRead, Ends
      <3>2. verify'[v].pc = "second"
        BY <3>1
      <3>. QED BY <3>2
    <2>3. ASSUME NEW v \in Verifies, SecondRead(v) PROVE FALSE
      BY <2>3 DEF SecondRead, Ends
    <2>4. CASE Unload
      BY <2>4 DEF Unload
    <2>5. CASE UNCHANGED <<pending, verify>>
      BY <2>5
    <2>. QED
      BY <2>1, <2>2, <2>3, <2>4, <2>5
      DEF Next, VerifyStep, RequestWrite, Compose, ControlFails, PollAnswered, PollLands,
          PollFails, CloudCatchesUp, DeviceChanges, vars
  <1>. QED BY <1>1, <1>2, CloudTypeCorrect, PTL DEF Spec

-----------------------------------------------------------------------------
(* Polls beside a verify window that overlaps no other.                    *)

\* A task that has been the only one of its CID is still the only one, and its marks
\* are still there: no other task was there to clear them.
AloneHoldsMark ==
  \A v \in Verifies : Active(v) /\ verify[v].alone =>
    pending /\ \A u \in Verifies \ {v} : ~Active(u)

LEMMA AloneHoldsMarkStep ==
  ASSUME CloudTypeOK, AloneHoldsMark, [Next]_vars
  PROVE  AloneHoldsMark'
<1> DEFINE Lone(v, state, mark) ==
      state[v].pc # "idle" /\ state[v].alone =>
        mark /\ \A u \in Verifies \ {v} : state[u].pc = "idle"
<1>1. \A v \in Verifies : Lone(v, verify, pending)
  BY DEF AloneHoldsMark, Active
<1>2. SUFFICES \A v \in Verifies : Lone(v, verify', pending')
  BY DEF AloneHoldsMark, Active
<1>3. ASSUME NEW w \in Calls, ControlAccepted(w)
      PROVE  \A v \in Verifies : Lone(v, verify', pending')
  <2>1. PICK v \in Verifies :
          /\ ~Active(v)
          /\ verify' = [u \in Verifies |->
               IF u = v THEN [pc |-> "first", words |-> call[w].words, actual |-> None,
                              alone |-> \A x \in Verifies : ~Active(x)]
               ELSE IF Active(u) THEN [verify[u] EXCEPT !.alone = FALSE] ELSE verify[u]]
    BY <1>3 DEF ControlAccepted
  <2>2. PICK solo \in BOOLEAN : solo = \A x \in Verifies : ~Active(x)
    OBVIOUS
  <2>3. verify'[v].alone = solo
    <3>1. verify'[v] = [pc |-> "first", words |-> call[w].words, actual |-> None, alone |-> solo]
      BY <2>1, <2>2, Zenon
    <3> QED BY <3>1
  <2>4. ASSUME NEW u \in Verifies \ {v}
        PROVE  IF verify[u].pc = "idle" THEN verify'[u].pc = "idle" ELSE ~verify'[u].alone
    BY <2>1 DEF Active, CloudTypeOK
  <2>5. pending'
    BY <1>3 DEF ControlAccepted
  <2> QED BY <2>2, <2>3, <2>4, <2>5 DEF Active
<1>4. ASSUME NEW v \in Verifies, Ends(v), verify[v].pc # "idle"
      PROVE  \A x \in Verifies : Lone(x, verify', pending')
  <2>1. verify'[v].pc = "idle" /\ \A u \in Verifies \ {v} : verify'[u] = verify[u]
    BY <1>4 DEF Ends, IdleVerify, CloudTypeOK
  <2> QED BY <1>1, <1>4, <2>1
<1>5. ASSUME NEW v \in Verifies, verify[v].pc = "first", UNCHANGED pending,
             \/ verify' = [verify EXCEPT ![v].pc = "second", ![v].actual = cloud]
             \/ verify' = [verify EXCEPT ![v].pc = "second"]
      PROVE  \A x \in Verifies : Lone(x, verify', pending')
  <2>1. /\ verify'[v].pc = "second" /\ verify'[v].alone = verify[v].alone
        /\ \A u \in Verifies \ {v} : verify'[u] = verify[u]
    BY <1>5 DEF CloudTypeOK
  <2> QED BY <1>1, <1>5, <2>1
<1>6. CASE \E v \in Verifies : VerifyStep(v)
  <2>1. PICK v \in Verifies : FirstRead(v) \/ SecondRead(v)
    BY <1>6 DEF VerifyStep
  <2>2. CASE FirstRead(v)
    BY <1>4, <1>5, <2>2 DEF FirstRead
  <2>3. CASE SecondRead(v)
    BY <1>4, <2>3 DEF SecondRead
  <2> QED BY <2>1, <2>2, <2>3
<1>7. CASE Unload
  BY <1>7 DEF Unload, IdleVerify
<1>8. CASE UNCHANGED <<pending, verify>>
  BY <1>1, <1>8
<1> QED
  BY <1>3, <1>6, <1>7, <1>8
  DEF Next, RequestWrite, Compose, ControlFails, PollAnswered, PollLands, PollFails,
      CloudCatchesUp, DeviceChanges, vars

\* The step of a poll that ends.
LEMMA LandingKeepsCache ==
  ASSUME CloudTypeOK, AloneHoldsMark, [Next]_vars, NEW p \in Polls,
         poll[p] # None, poll'[p] = None, NEW v \in Verifies, Active(v), verify[v].alone
  PROVE  UNCHANGED cache
<1>1. pending
  BY DEF AloneHoldsMark
<1>2. CASE \E q \in Polls : PollAnswered(q) \/ PollLands(q) \/ PollFails(q)
  <2>1. PICK q \in Polls : PollAnswered(q) \/ PollLands(q) \/ PollFails(q)
    BY <1>2
  <2>2. CASE PollAnswered(q)
    BY <2>2 DEF PollAnswered
  <2>3. CASE PollLands(q)
    BY <1>1, <2>3 DEF PollLands
  <2>4. CASE PollFails(q)
    BY <2>4 DEF PollFails
  <2> QED BY <2>1, <2>2, <2>3, <2>4
<1>3. CASE UNCHANGED poll
  BY <1>3
<1> QED
  BY <1>2, <1>3
  DEF Next, RequestWrite, Compose, ControlAccepted, ControlFails, VerifyStep, FirstRead,
      SecondRead, Unload, CloudCatchesUp, DeviceChanges, vars

\* No poll, whenever it was answered, brings the old value back inside the verify window
\* of a write, as long as no other write of the CID overlaps it.
THEOREM PollsKeptOut == Spec => PollRespectsVerify
<1> DEFINE Respects ==
      \A p \in Polls : /\ poll[p] # None /\ poll'[p] = None
                       /\ \E v \in Verifies : Active(v) /\ verify[v].alone
        => UNCHANGED cache
<1>1. Init => AloneHoldsMark
  BY DEF Init, AloneHoldsMark, Active, IdleVerify
<1>2. CloudTypeOK /\ AloneHoldsMark /\ [Next]_vars => AloneHoldsMark'
  BY AloneHoldsMarkStep
<1>3. CloudTypeOK /\ AloneHoldsMark /\ [Next]_vars => [Respects]_vars
  BY LandingKeepsCache
<1> HIDE DEF Respects
<1>4. Spec => [][Respects]_vars
  BY <1>1, <1>2, <1>3, CloudTypeCorrect, PTL DEF Spec
<1> QED BY <1>4 DEF PollRespectsVerify, Respects
=============================================================================
