---------------------------- MODULE CloudApiProofs ----------------------------
(***************************************************************************)
(* Proofs about the SolisCloud API client, for any number of calls,        *)
(* attempts and events.                                                    *)
(***************************************************************************)
EXTENDS CloudApi, SequenceTheorems, TLAPS

CallState ==
  [pc : {"idle", "queued", "slot", "flight", "body", "backoff"}, stage : {"login", "main"},
   attempt : Nat, sent : Nat, again : BOOLEAN, login : BOOLEAN,
   earlier : SUBSET Controls, overtaken : BOOLEAN, trouble : BOOLEAN]

ApiTypeOK ==
  /\ lock \in Calls \union {Nobody}
  /\ queue \in Seq(Calls)
  /\ call \in [Calls -> CallState]
  /\ token \in Nat /\ issued \in Nat

-----------------------------------------------------------------------------
(* The inductive invariant.                                                *)

Holding == {"slot", "flight", "body", "backoff"}

\* A request is made by the holder of the lock.
LockInv == \A c \in Calls : call[c].pc \in Holding => lock = c

\* The spacing has passed when the client thinks so, or a request was cancelled.
SpacingInv == slot => quiet \/ aborted

\* A request carries the present token, since only the holder of the lock changes
\* it, and a call that has logged in a second time waits with a token that is
\* accepted.
TokenInv ==
  \A c \in Calls :
    /\ UnderWay(c) /\ call[c].stage = "main" => call[c].sent = token
    /\ Busy(c) /\ call[c].stage = "main" /\ call[c].again /\ ~call[c].trouble
         => token \in accepted

\* Who waits is in the queue, once.
QueueInv ==
  /\ \A i \in DOMAIN queue : call[queue[i]].pc = "queued"
  /\ \A i, j \in DOMAIN queue : queue[i] = queue[j] => i = j
  /\ \A c \in Calls : call[c].pc = "queued" => \E i \in DOMAIN queue : queue[i] = c

Before(d, c) == \E i, j \in DOMAIN queue : i < j /\ queue[i] = d /\ queue[j] = c

\* A control that has not logged in is ahead of those called after it.
OrderInv ==
  /\ \A c \in Calls : Busy(c) /\ call[c].stage = "login" => call[c].login
  /\ \A c \in Calls : \A d \in call[c].earlier :
       /\ Busy(d)
       /\ ~call[d].login => call[c].pc = "queued" /\ (lock = d \/ Before(d, c))

ApiInv ==
  /\ ApiTypeOK /\ LockInv /\ SpacingInv /\ TokenInv /\ QueueInv /\ OrderInv
  /\ CallOrderKept

-----------------------------------------------------------------------------
(* What the helpers return.                                                *)

LEMMA IdleFacts == Idle \in CallState /\ Idle.pc = "idle" /\ Idle.earlier = {} /\ Idle.overtaken = FALSE
  BY DEF Idle, CallState, NoToken

LEMMA EnteringFacts ==
  ASSUME NEW rec \in CallState, NEW expired \in BOOLEAN
  PROVE  /\ Entering(rec, expired) \in CallState
         /\ Entering(rec, expired).pc = "queued"
         /\ Entering(rec, expired).stage = IF expired THEN "login" ELSE "main"
         /\ Entering(rec, expired).login = (rec.login \/ expired)
         /\ Entering(rec, expired).earlier = rec.earlier
         /\ Entering(rec, expired).again = rec.again
         /\ Entering(rec, expired).trouble = rec.trouble
         /\ Entering(rec, expired).overtaken = rec.overtaken
  BY DEF Entering, CallState

LEMMA WithoutFacts ==
  ASSUME NEW c \in Calls, NEW recs \in [Calls -> CallState]
  PROVE  /\ Without(c, recs) \in [Calls -> CallState]
         /\ Without(c, recs)[c] = Idle
         /\ \A d \in Calls \ {c} :
              Without(c, recs)[d] = [recs[d] EXCEPT !.earlier = recs[d].earlier \ {c}]
<1>1. \A d \in Calls : recs[d].earlier \ {c} \in SUBSET Controls
  BY DEF CallState
<1>2. \A d \in Calls : [recs[d] EXCEPT !.earlier = recs[d].earlier \ {c}] \in CallState
  BY <1>1 DEF CallState
<1> QED BY <1>2, IdleFacts DEF Without

LEMMA CarriedOutFacts ==
  ASSUME ApiTypeOK, NEW c \in Calls
  PROVE  /\ CarriedOut(c) \in [Calls -> CallState]
         /\ \A d \in Calls :
              CarriedOut(c)[d] = [call[d] EXCEPT !.overtaken = call[d].overtaken \/ d \in call[c].earlier]
<1>1. \A d \in Calls :
        [call[d] EXCEPT !.overtaken = call[d].overtaken \/ d \in call[c].earlier] \in CallState
  BY DEF ApiTypeOK, CallState
<1> QED BY <1>1 DEF CarriedOut

LEMMA RemoveAtFacts ==
  ASSUME NEW S, NEW s \in Seq(S), NEW i \in 1..Len(s)
  PROVE  /\ RemoveAt(s, i) \in Seq(S)
         /\ Len(RemoveAt(s, i)) = Len(s) - 1
         /\ \A j \in 1..Len(s) - 1 : RemoveAt(s, i)[j] = IF j < i THEN s[j] ELSE s[j + 1]
<1>1. Len(s) \in Nat /\ \A j \in 1..Len(s) : s[j] \in S
  BY LenProperties, ElementOfSeq
<1>2. /\ SubSeq(s, 1, i - 1) \in Seq(S) /\ Len(SubSeq(s, 1, i - 1)) = i - 1
      /\ \A j \in 1..i - 1 : SubSeq(s, 1, i - 1)[j] = s[j]
  BY <1>1, SubSeqProperties
<1>3. /\ SubSeq(s, i + 1, Len(s)) \in Seq(S) /\ Len(SubSeq(s, i + 1, Len(s))) = Len(s) - i
      /\ \A j \in 1..Len(s) - i : SubSeq(s, i + 1, Len(s))[j] = s[i + j]
  BY <1>1, SubSeqProperties
<1> DEFINE front == SubSeq(s, 1, i - 1)
           back == SubSeq(s, i + 1, Len(s))
<1>4. /\ front \o back \in Seq(S) /\ Len(front \o back) = Len(front) + Len(back)
      /\ \A j \in 1..Len(front) + Len(back) :
           (front \o back)[j] = IF j <= Len(front) THEN front[j] ELSE back[j - Len(front)]
  BY <1>2, <1>3, ConcatProperties
<1>5. RemoveAt(s, i) = front \o back
  BY DEF RemoveAt
<1> HIDE DEF front, back
<1>6. Len(front) = i - 1 /\ Len(back) = Len(s) - i
  BY <1>2, <1>3 DEF front, back
<1>7. ASSUME NEW j \in 1..Len(s) - 1
      PROVE  RemoveAt(s, i)[j] = IF j < i THEN s[j] ELSE s[j + 1]
  <2>1. CASE j < i
    <3>1. front[j] = s[j]
      BY <1>2, <2>1 DEF front
    <3> QED BY <1>1, <1>4, <1>5, <1>6, <2>1, <3>1
  <2>2. CASE j >= i
    <3>1. back[j - (i - 1)] = s[i + (j - (i - 1))]
      BY <1>1, <1>3, <2>2 DEF back
    <3> QED BY <1>1, <1>4, <1>5, <1>6, <2>2, <3>1
  <2> QED BY <1>1, <2>1, <2>2
<1>8. RemoveAt(s, i) \in Seq(S) /\ Len(RemoveAt(s, i)) = Len(s) - 1
  <2>1. RemoveAt(s, i) \in Seq(S) /\ Len(RemoveAt(s, i)) = Len(front) + Len(back)
    BY <1>4, <1>5
  <2>2. Len(front) + Len(back) = Len(s) - 1
    BY <1>1, <1>6
  <2> QED BY <2>1, <2>2
<1> QED BY <1>7, <1>8
-----------------------------------------------------------------------------
(* The queue.                                                              *)

\* A call joins the queue behind all who wait.
LEMMA Joining ==
  ASSUME ApiTypeOK, QueueInv, NEW c \in Calls, call[c].pc # "queued",
         queue' = Append(queue, c), call'[c].pc = "queued",
         \A d \in Calls \ {c} : call'[d].pc = call[d].pc
  PROVE  /\ queue' \in Seq(Calls) /\ QueueInv'
         /\ \A d, e \in Calls : Before(d, e) => Before(d, e)'
         /\ \A d \in Calls : call[d].pc = "queued" => Before(d, c)'
<1>1. /\ Len(queue) \in Nat /\ DOMAIN queue = 1..Len(queue)
      /\ \A i \in 1..Len(queue) : queue[i] \in Calls
  BY LenProperties, ElementOfSeq DEF ApiTypeOK
<1>2. /\ queue' \in Seq(Calls) /\ Len(queue') = Len(queue) + 1
      /\ \A i \in 1..Len(queue) : queue'[i] = queue[i]
      /\ queue'[Len(queue) + 1] = c
  BY AppendProperties DEF ApiTypeOK
<1>3. DOMAIN queue' = 1..Len(queue) + 1
  BY <1>2, LenProperties
<1>4. \A i \in 1..Len(queue) : queue[i] # c
  BY <1>1 DEF QueueInv
<1>5. QueueInv'
  <2>1. \A i \in DOMAIN queue' : call'[queue'[i]].pc = "queued"
    BY <1>1, <1>2, <1>3, <1>4 DEF QueueInv
  <2>2. \A i, j \in DOMAIN queue' : queue'[i] = queue'[j] => i = j
    BY <1>1, <1>2, <1>3, <1>4 DEF QueueInv
  <2>3. ASSUME NEW d \in Calls, call'[d].pc = "queued"
        PROVE  \E i \in DOMAIN queue' : queue'[i] = d
    <3>1. CASE d = c
      BY <1>1, <1>2, <1>3, <3>1
    <3>2. CASE d # c
      BY <1>1, <1>2, <1>3, <2>3, <3>2 DEF QueueInv
    <3> QED BY <3>1, <3>2
  <2> QED BY <2>1, <2>2, <2>3 DEF QueueInv
<1>6. \A d, e \in Calls : Before(d, e) => Before(d, e)'
  BY <1>1, <1>2, <1>3 DEF Before
<1>7. ASSUME NEW d \in Calls, call[d].pc = "queued" PROVE Before(d, c)'
  <2>1. PICK i \in 1..Len(queue) : queue[i] = d
    BY <1>1, <1>7 DEF QueueInv
  <2> QED BY <1>1, <1>2, <1>3, <2>1 DEF Before
<1> QED BY <1>2, <1>5, <1>6, <1>7

\* Who leaves the queue does so without changing the order of the others.
LEMMA Leaving ==
  ASSUME ApiTypeOK, QueueInv, NEW c \in Calls, NEW k \in DOMAIN queue, queue[k] = c,
         queue' = RemoveAt(queue, k), call'[c].pc # "queued",
         \A d \in Calls \ {c} : call'[d].pc = call[d].pc
  PROVE  /\ queue' \in Seq(Calls) /\ QueueInv'
         /\ \A d, e \in Calls \ {c} : Before(d, e) => Before(d, e)'
<1>1. /\ Len(queue) \in Nat /\ DOMAIN queue = 1..Len(queue)
      /\ \A i \in 1..Len(queue) : queue[i] \in Calls
  BY LenProperties, ElementOfSeq DEF ApiTypeOK
<1>2. /\ queue' \in Seq(Calls) /\ Len(queue') = Len(queue) - 1
      /\ \A i \in 1..Len(queue) - 1 : queue'[i] = IF i < k THEN queue[i] ELSE queue[i + 1]
  BY <1>1, RemoveAtFacts DEF ApiTypeOK
<1>3. DOMAIN queue' = 1..Len(queue) - 1
  BY <1>2, LenProperties
<1> DEFINE old(i) == IF i < k THEN i ELSE i + 1
<1>4. \A i \in DOMAIN queue' : old(i) \in DOMAIN queue /\ queue'[i] = queue[old(i)] /\ old(i) # k
  BY <1>1, <1>2, <1>3
<1>5. \A i, j \in DOMAIN queue' : old(i) = old(j) => i = j
  BY <1>1, <1>3
<1>6. \A i, j \in DOMAIN queue : i < j /\ i # k /\ j # k =>
        \E m, n \in DOMAIN queue' : m < n /\ queue'[m] = queue[i] /\ queue'[n] = queue[j]
  <2> SUFFICES ASSUME NEW i \in DOMAIN queue, NEW j \in DOMAIN queue, i < j, i # k, j # k
               PROVE  \E m, n \in DOMAIN queue' : m < n /\ queue'[m] = queue[i] /\ queue'[n] = queue[j]
    OBVIOUS
  <2> DEFINE m == IF i < k THEN i ELSE i - 1
             n == IF j < k THEN j ELSE j - 1
  <2>1. m \in DOMAIN queue' /\ n \in DOMAIN queue' /\ m < n
    BY <1>1, <1>3
  <2>2. queue'[m] = queue[i] /\ queue'[n] = queue[j]
    BY <1>1, <1>2, <1>3, <2>1
  <2> QED BY <2>1, <2>2
<1>7. \A i \in DOMAIN queue : i # k => \E m \in DOMAIN queue' : queue'[m] = queue[i]
  <2> SUFFICES ASSUME NEW i \in DOMAIN queue, i # k
               PROVE  \E m \in DOMAIN queue' : queue'[m] = queue[i]
    OBVIOUS
  <2> DEFINE m == IF i < k THEN i ELSE i - 1
  <2>1. m \in DOMAIN queue'
    BY <1>1, <1>3
  <2>2. queue'[m] = queue[i]
    BY <1>1, <1>2, <1>3, <2>1
  <2> QED BY <2>1, <2>2
<1> HIDE DEF old
<1>8. QueueInv'
  <2>1. \A i \in DOMAIN queue' : call'[queue'[i]].pc = "queued"
    BY <1>1, <1>4 DEF QueueInv
  <2>2. \A i, j \in DOMAIN queue' : queue'[i] = queue'[j] => i = j
    BY <1>4, <1>5 DEF QueueInv
  <2>3. ASSUME NEW d \in Calls, call'[d].pc = "queued"
        PROVE  \E i \in DOMAIN queue' : queue'[i] = d
    BY <1>7, <2>3 DEF QueueInv
  <2> QED BY <2>1, <2>2, <2>3 DEF QueueInv
<1>9. \A d, e \in Calls \ {c} : Before(d, e) => Before(d, e)'
  BY <1>6 DEF Before
<1> QED BY <1>2, <1>8, <1>9

\* The head of the queue takes the lock: nobody was before it.
LEMMA HeadLeaving ==
  ASSUME ApiTypeOK, QueueInv, NEW c \in Calls, queue # <<>>, c = Head(queue),
         queue' = Tail(queue), call'[c].pc # "queued",
         \A d \in Calls \ {c} : call'[d].pc = call[d].pc
  PROVE  /\ queue' \in Seq(Calls) /\ QueueInv'
         /\ \A d, e \in Calls \ {c} : Before(d, e) => Before(d, e)'
         /\ \A d \in Calls : ~Before(d, c)
         /\ call[c].pc = "queued"
<1>1. /\ Len(queue) \in Nat \ {0} /\ DOMAIN queue = 1..Len(queue)
      /\ \A i \in 1..Len(queue) : queue[i] \in Calls
  BY LenProperties, ElementOfSeq, EmptySeq DEF ApiTypeOK
<1>2. c = queue[1] /\ call[c].pc = "queued"
  BY <1>1 DEF QueueInv
<1>3. /\ queue' \in Seq(Calls) /\ Len(queue') = Len(queue) - 1
      /\ \A i \in 1..Len(queue') : queue'[i] = queue[i + 1]
  BY HeadTailProperties DEF ApiTypeOK
<1>4. DOMAIN queue' = 1..Len(queue) - 1
  BY <1>3, LenProperties
<1>5. QueueInv'
  <2>1. \A i \in DOMAIN queue' : call'[queue'[i]].pc = "queued"
    BY <1>1, <1>2, <1>3, <1>4 DEF QueueInv
  <2>2. \A i, j \in DOMAIN queue' : queue'[i] = queue'[j] => i = j
    BY <1>1, <1>3, <1>4 DEF QueueInv
  <2>3. ASSUME NEW d \in Calls, call'[d].pc = "queued"
        PROVE  \E i \in DOMAIN queue' : queue'[i] = d
    <3>1. PICK i \in 2..Len(queue) : queue[i] = d
      BY <1>1, <1>2, <2>3 DEF QueueInv
    <3>2. i - 1 \in DOMAIN queue' /\ queue'[i - 1] = d
      BY <1>1, <1>3, <1>4, <3>1
    <3> QED BY <3>2
  <2> QED BY <2>1, <2>2, <2>3 DEF QueueInv
<1>6. ASSUME NEW d \in Calls \ {c}, NEW e \in Calls \ {c}, Before(d, e) PROVE Before(d, e)'
  <2>1. PICK i, j \in 2..Len(queue) : i < j /\ queue[i] = d /\ queue[j] = e
    BY <1>1, <1>2, <1>6 DEF Before
  <2>2. /\ i - 1 \in DOMAIN queue' /\ j - 1 \in DOMAIN queue' /\ i - 1 < j - 1
        /\ queue'[i - 1] = d /\ queue'[j - 1] = e
    BY <1>1, <1>3, <1>4, <2>1
  <2> QED BY <2>2 DEF Before
<1>7. \A d \in Calls : ~Before(d, c)
  BY <1>1, <1>2 DEF Before, QueueInv
<1> QED BY <1>2, <1>3, <1>5, <1>6, <1>7
-----------------------------------------------------------------------------
(* Every step preserves the invariant.  The parts that speak of the lock,  *)
(* of tokens and of the order are preserved for simple reasons once it is  *)
(* known how the records of the calls have changed.                        *)

LEMMA InitInv == Init => ApiInv
<1> SUFFICES ASSUME Init PROVE ApiInv
  OBVIOUS
<1>1. \A c \in Calls : call[c] = Idle
  BY DEF Init
<1>2. ApiTypeOK
  BY IdleFacts DEF Init, ApiTypeOK, NoToken
<1>3. LockInv /\ SpacingInv /\ TokenInv /\ CallOrderKept
  BY <1>1 DEF Init, LockInv, SpacingInv, TokenInv, CallOrderKept, Holding, UnderWay, Busy, Idle
<1>4. QueueInv /\ OrderInv
  BY <1>1 DEF Init, QueueInv, OrderInv, Busy, Idle
<1> QED BY <1>2, <1>3, <1>4 DEF ApiInv

LEMMA StartsInv == ASSUME ApiInv, NEW c \in Calls, Starts(c) PROVE ApiInv'
<1> USE DEF ApiInv
<1> DEFINE rec == [Idle EXCEPT !.earlier = {d \in Controls : Busy(d)}]
<1>1. rec \in CallState /\ rec.again = FALSE /\ rec.login = FALSE /\ rec.overtaken = FALSE
      /\ rec.earlier = {d \in Controls : Busy(d)}
  BY IdleFacts DEF CallState, Idle
<1>2. Expired \in BOOLEAN
  BY DEF Expired
<1>3. call' = [call EXCEPT ![c] = Entering(rec, Expired)]
  BY DEF Starts
<1> HIDE DEF rec
<1>4. /\ call' \in [Calls -> CallState]
      /\ \A d \in Calls \ {c} : call'[d] = call[d]
      /\ call'[c] = Entering(rec, Expired)
  BY <1>1, <1>2, <1>3, EnteringFacts DEF ApiTypeOK
<1>5. /\ call'[c].pc = "queued" /\ call'[c].again = FALSE /\ call'[c].overtaken = FALSE
      /\ call'[c].stage = "login" => call'[c].login
      /\ call'[c].earlier = {d \in Controls : Busy(d)}
  BY <1>1, <1>2, <1>4, EnteringFacts
<1>6. call[c].pc = "idle"
  BY DEF Starts, Busy
<1>7. /\ queue' \in Seq(Calls) /\ QueueInv'
      /\ \A d, e \in Calls : Before(d, e) => Before(d, e)'
      /\ \A d \in Calls : call[d].pc = "queued" => Before(d, c)'
  BY <1>4, <1>5, <1>6, Joining DEF Starts
<1>8. UNCHANGED <<lock, token, fresh, slot, issued, accepted, up, quiet, aborted>>
  BY DEF Starts, outside
<1>9. ApiTypeOK' /\ LockInv' /\ SpacingInv'
  BY <1>4, <1>5, <1>7, <1>8 DEF ApiTypeOK, LockInv, Holding, SpacingInv
<1>10. TokenInv'
  BY <1>4, <1>5, <1>8 DEF TokenInv, UnderWay, Busy
<1>11. OrderInv'
  <2>1. ASSUME NEW d \in call'[c].earlier
        PROVE  Busy(d)' /\ (lock' = d \/ Before(d, c)')
    <3>1. d \in Calls /\ d # c /\ Busy(d)
      BY <1>5, <1>6, <2>1, ApiAssumption DEF Busy
    <3>2. CASE call[d].pc \in Holding
      BY <1>4, <1>8, <3>1, <3>2 DEF LockInv, Busy
    <3>3. CASE call[d].pc = "queued"
      BY <1>4, <1>7, <3>1, <3>3 DEF Busy
    <3> QED BY <3>1, <3>2, <3>3 DEF Holding, Busy, ApiTypeOK, CallState
  <2>2. ASSUME NEW e \in Calls \ {c}, NEW d \in call'[e].earlier
        PROVE  /\ Busy(d)'
               /\ ~call'[d].login => call'[e].pc = "queued" /\ (lock' = d \/ Before(d, e)')
    <3>1. d \in Calls /\ d \in call[e].earlier
      BY <1>4, <2>2, ApiAssumption DEF ApiTypeOK, CallState
    <3>2. Busy(d) /\ d # c
      BY <1>6, <3>1 DEF OrderInv, Busy
    <3> QED BY <1>4, <1>7, <1>8, <2>2, <3>1, <3>2 DEF OrderInv, Busy
  <2>3. \A e \in Calls : Busy(e)' /\ call'[e].stage = "login" => call'[e].login
    BY <1>4, <1>5 DEF OrderInv, Busy
  <2> QED BY <1>5, <2>1, <2>2, <2>3 DEF OrderInv
<1>12. CallOrderKept'
  BY <1>4, <1>5 DEF CallOrderKept
<1> QED BY <1>7, <1>9, <1>10, <1>11, <1>12
\* The head of the queue takes the lock.
LEMMA TakesLockInv == ASSUME ApiInv, NEW c \in Calls, TakesLock(c) PROVE ApiInv'
<1> USE DEF ApiInv
<1>1. /\ call' \in [Calls -> CallState]
      /\ call'[c] = [call[c] EXCEPT !.pc = "slot"]
      /\ \A d \in Calls \ {c} : call'[d] = call[d]
  <2>1. call' = [call EXCEPT ![c] = [call[c] EXCEPT !.pc = "slot"]]
    BY DEF TakesLock, ApiTypeOK
  <2>2. [call[c] EXCEPT !.pc = "slot"] \in CallState
    BY DEF ApiTypeOK, CallState
  <2> QED BY <2>1, <2>2 DEF ApiTypeOK
<1>2. /\ call'[c].pc = "slot" /\ call'[c].stage = call[c].stage /\ call'[c].again = call[c].again
      /\ call'[c].login = call[c].login /\ call'[c].earlier = call[c].earlier
      /\ call'[c].trouble = call[c].trouble /\ call'[c].overtaken = call[c].overtaken
  BY <1>1 DEF ApiTypeOK, CallState
<1>3. /\ queue' \in Seq(Calls) /\ QueueInv'
      /\ \A d, e \in Calls \ {c} : Before(d, e) => Before(d, e)'
      /\ \A d \in Calls : ~Before(d, c)
      /\ call[c].pc = "queued"
  BY <1>1, <1>2, HeadLeaving DEF TakesLock
<1>4. /\ lock = Nobody /\ lock' = c
      /\ UNCHANGED <<token, slot, issued, accepted, quiet, aborted>>
  BY DEF TakesLock, outside
<1>5. \A d \in Calls : call[d].pc \notin Holding
  BY <1>4, ApiAssumption DEF LockInv
<1>6. ApiTypeOK' /\ LockInv' /\ SpacingInv'
  BY <1>1, <1>2, <1>3, <1>4, <1>5 DEF ApiTypeOK, LockInv, SpacingInv
<1>7. TokenInv'
  BY <1>1, <1>2, <1>3, <1>4 DEF TokenInv, UnderWay, Busy
<1>8. CallOrderKept'
  BY <1>1, <1>2 DEF CallOrderKept
<1>9. OrderInv'
  <2>1. \A d \in Calls : call'[d].login = call[d].login /\ call'[d].earlier = call[d].earlier
                         /\ (Busy(d)' <=> Busy(d))
    BY <1>1, <1>2, <1>3 DEF Busy
  <2>2. ASSUME NEW d \in call[c].earlier PROVE call[d].login
    BY <1>3, <1>4, <2>2, ApiAssumption DEF OrderInv, ApiTypeOK, CallState
  <2>3. ASSUME NEW e \in Calls \ {c}, NEW d \in call[e].earlier, ~call[d].login
        PROVE  call'[e].pc = "queued" /\ (lock' = d \/ Before(d, e)')
    BY <1>1, <1>3, <1>4, <2>3, ApiAssumption DEF OrderInv, ApiTypeOK, CallState
  <2>4. \A d \in Calls : call'[d].stage = call[d].stage
    BY <1>1, <1>2
  <2>5. \A e \in Calls : \A d \in call[e].earlier : d \in Calls
    BY ApiAssumption DEF ApiTypeOK, CallState
  <2> QED BY <2>1, <2>2, <2>3, <2>4, <2>5 DEF OrderInv
<1> QED BY <1>3, <1>6, <1>7, <1>8, <1>9

\* What most steps leave of every record.
Kept(old, new) ==
  /\ new.stage = old.stage /\ new.again = old.again /\ new.login = old.login
  /\ new.earlier \subseteq old.earlier
  /\ old.trouble => new.trouble
  /\ new.overtaken => new.login

Parts == ApiTypeOK /\ LockInv /\ TokenInv /\ QueueInv /\ OrderInv /\ CallOrderKept

\* The holder of the lock goes on with its request.
LEMMA Continuing ==
  ASSUME ApiInv, NEW c \in Calls, call[c].pc \in Holding,
         UNCHANGED <<lock, queue, token, issued, accepted>>,
         call' \in [Calls -> CallState], call'[c].pc \in Holding,
         UnderWay(c)' /\ call[c].stage = "main" => call'[c].sent = token,
         \A d \in Calls \ {c} : call'[d].pc = call[d].pc /\ call'[d].sent = call[d].sent,
         \A d \in Calls : Kept(call[d], call'[d])
  PROVE  Parts'
<1> USE DEF ApiInv
<1>1. \A d \in Calls : (Busy(d)' <=> Busy(d)) /\ (call'[d].pc = "queued" <=> call[d].pc = "queued")
  BY DEF Busy, Holding
<1>2. ApiTypeOK' /\ LockInv' /\ CallOrderKept'
  BY DEF ApiTypeOK, LockInv, CallOrderKept, Kept
<1>3. \A i \in DOMAIN queue : queue[i] \in Calls
  BY LenProperties, ElementOfSeq DEF ApiTypeOK
<1>4. QueueInv'
  BY <1>1, <1>3 DEF QueueInv
<1>5. TokenInv'
  BY <1>1 DEF TokenInv, UnderWay, Kept
<1>6. \A d, e \in Calls : Before(d, e)' <=> Before(d, e)
  BY DEF Before
<1>7. \A e \in Calls : \A d \in call'[e].earlier : d \in Calls /\ d \in call[e].earlier
  BY ApiAssumption DEF ApiTypeOK, CallState, Kept
<1>8. OrderInv'
  BY <1>1, <1>6, <1>7 DEF OrderInv, Kept
<1> QED BY <1>2, <1>4, <1>5, <1>8 DEF Parts

\* A call ends, whether it holds the lock or waits for it, and the others forget it.
LEMMA Ending ==
  ASSUME ApiInv, NEW c \in Calls, NEW recs \in [Calls -> CallState],
         call' = Without(c, recs), lock' = IF lock = c THEN Nobody ELSE lock,
         UNCHANGED <<token, issued, accepted>>,
         queue' \in Seq(Calls), QueueInv',
         \A d, e \in Calls \ {c} : Before(d, e) => Before(d, e)',
         \A d \in Calls : recs[d].pc = call[d].pc /\ recs[d].sent = call[d].sent,
         \A d \in Calls : Kept(call[d], recs[d])
  PROVE  Parts'
<1> USE DEF ApiInv
<1>1. /\ call' \in [Calls -> CallState] /\ call'[c] = Idle
      /\ \A d \in Calls \ {c} : call'[d] = [recs[d] EXCEPT !.earlier = recs[d].earlier \ {c}]
  BY WithoutFacts
<1>2. \A d \in Calls \ {c} :
        /\ call'[d].pc = call[d].pc /\ call'[d].sent = call[d].sent
        /\ Kept(call[d], call'[d]) /\ c \notin call'[d].earlier
  BY <1>1 DEF CallState, Kept
<1>3. call'[c].pc = "idle" /\ call'[c].earlier = {} /\ ~call'[c].overtaken
  BY <1>1, IdleFacts
<1>4. ApiTypeOK' /\ LockInv' /\ CallOrderKept'
  <2>1. ApiTypeOK'
    BY <1>1 DEF ApiTypeOK
  <2>2. LockInv'
    BY <1>2, <1>3 DEF LockInv, Holding
  <2>3. CallOrderKept'
    BY <1>2, <1>3 DEF CallOrderKept, Kept
  <2> QED BY <2>1, <2>2, <2>3
<1>5. TokenInv'
  BY <1>2, <1>3 DEF TokenInv, UnderWay, Busy, Kept
<1>6. OrderInv'
  <2>1. ASSUME NEW e \in Calls, NEW d \in call'[e].earlier
        PROVE  /\ e # c /\ d \in Calls \ {c} /\ d \in call[e].earlier
    BY <1>1, <1>2, <1>3, <2>1, ApiAssumption DEF CallState, Kept
  <2>2. ASSUME NEW e \in Calls, NEW d \in call'[e].earlier
        PROVE  /\ Busy(d)'
               /\ ~call'[d].login => call'[e].pc = "queued" /\ (lock' = d \/ Before(d, e)')
    BY <1>2, <2>1, <2>2 DEF OrderInv, Busy, Kept
  <2>3. \A e \in Calls : Busy(e)' /\ call'[e].stage = "login" => call'[e].login
    BY <1>2, <1>3 DEF OrderInv, Busy, Kept
  <2> QED BY <2>2, <2>3 DEF OrderInv
<1> QED BY <1>4, <1>5, <1>6 DEF Parts

\* The holder of the lock ends, and the queue stays as it is.
LEMMA HolderEnding ==
  ASSUME ApiInv, NEW c \in Calls, call[c].pc \in Holding, NEW recs \in [Calls -> CallState],
         call' = Without(c, recs), lock' = Nobody, UNCHANGED <<queue, token, issued, accepted>>,
         \A d \in Calls : recs[d].pc = call[d].pc /\ recs[d].sent = call[d].sent,
         \A d \in Calls : Kept(call[d], recs[d])
  PROVE  Parts'
<1> USE DEF ApiInv
<1>1. lock = c
  BY DEF LockInv
<1>2. \A d \in Calls : call'[d].pc = "queued" <=> call[d].pc = "queued"
  <2>1. call'[c].pc = "idle" /\ call[c].pc # "queued"
    BY WithoutFacts, IdleFacts DEF Holding
  <2>2. ASSUME NEW d \in Calls \ {c} PROVE call'[d].pc = call[d].pc
    <3>1. call'[d] = [recs[d] EXCEPT !.earlier = recs[d].earlier \ {c}] /\ recs[d] \in CallState
      BY WithoutFacts
    <3> QED BY <3>1 DEF CallState
  <2> QED BY <2>1, <2>2
<1>3. \A i \in DOMAIN queue : queue[i] \in Calls
  BY LenProperties, ElementOfSeq DEF ApiTypeOK
<1>4. queue' \in Seq(Calls) /\ QueueInv' /\ \A d, e \in Calls \ {c} : Before(d, e) => Before(d, e)'
  BY <1>2, <1>3 DEF ApiTypeOK, QueueInv, Before
<1> QED BY <1>1, <1>4, Ending

\* The holder of the lock queues again, for its own request after a login or for
\* another login: what it waits with from now on is said of every call at once.
LEMMA Requeueing ==
  ASSUME ApiInv, NEW c \in Calls, call[c].pc \in Holding,
         lock' = Nobody, queue' = Append(queue, c), token' \in Nat, issued' \in Nat,
         call' \in [Calls -> CallState],
         call'[c].pc = "queued", call'[c].login, call'[c].earlier = call[c].earlier,
         \A d \in Calls \ {c} : call'[d].pc = call[d].pc /\ Kept(call[d], call'[d]),
         \A d \in Calls :
           (Busy(d) /\ call[d].stage = "main" /\ call[d].again /\ ~call[d].trouble)'
             => token' \in accepted'
  PROVE  Parts'
<1> USE DEF ApiInv
<1>1. lock = c /\ call[c].pc # "queued"
  BY DEF LockInv, Holding
<1>2. \A d \in Calls : call'[d].pc \notin Holding
  BY <1>1 DEF LockInv, Holding
<1>3. /\ queue' \in Seq(Calls) /\ QueueInv'
      /\ \A d, e \in Calls : Before(d, e) => Before(d, e)'
  BY <1>1, Joining
<1>4. ApiTypeOK' /\ LockInv' /\ CallOrderKept'
  BY <1>2, <1>3 DEF ApiTypeOK, LockInv, CallOrderKept, Kept
<1>5. TokenInv'
  BY <1>2 DEF TokenInv, UnderWay, Holding
<1>6. OrderInv'
  <2>1. \A d \in Calls : Busy(d) => Busy(d)'
    BY DEF Busy
  <2>2. \A e \in Calls : call'[e].earlier \subseteq call[e].earlier
    BY DEF Kept
  <2>3. ASSUME NEW e \in Calls, NEW d \in call'[e].earlier, ~call'[d].login
        PROVE  call'[e].pc = "queued" /\ Before(d, e)'
    <3>1. d \in Calls /\ d \in call[e].earlier /\ d # c /\ ~call[d].login
      BY <2>2, <2>3, ApiAssumption DEF ApiTypeOK, CallState, Kept
    <3> QED BY <1>1, <1>3, <3>1 DEF OrderInv
  <2>4. \A e \in Calls : \A d \in call'[e].earlier : Busy(d)'
    BY <2>1, <2>2, ApiAssumption DEF OrderInv, ApiTypeOK, CallState
  <2>5. \A e \in Calls : Busy(e)' /\ call'[e].stage = "login" => call'[e].login
    BY DEF OrderInv, Busy, Kept
  <2> QED BY <2>3, <2>4, <2>5 DEF OrderInv
<1> QED BY <1>3, <1>4, <1>5, <1>6 DEF Parts

LEMMA CallKept == ApiInv => \A d \in Calls : Kept(call[d], call[d])
  BY DEF ApiInv, CallOrderKept, Kept

\* Those overtaken by a control under way have logged in, or they would hold the
\* lock or be ahead of it in the queue.
LEMMA CarriedOutKept ==
  ASSUME ApiInv, NEW c \in Calls, UnderWay(c)
  PROVE  /\ CarriedOut(c) \in [Calls -> CallState]
         /\ \A d \in Calls :
              /\ CarriedOut(c)[d].pc = call[d].pc /\ CarriedOut(c)[d].sent = call[d].sent
              /\ Kept(call[d], CarriedOut(c)[d])
<1> USE DEF ApiInv
<1>1. \A d \in call[c].earlier : call[d].login
  BY DEF OrderInv, UnderWay
<1>2. ASSUME NEW d \in Calls
      PROVE  /\ CarriedOut(c)[d].pc = call[d].pc /\ CarriedOut(c)[d].sent = call[d].sent
             /\ Kept(call[d], CarriedOut(c)[d])
  <2> DEFINE o == call[d].overtaken \/ d \in call[c].earlier
  <2>1. CarriedOut(c)[d] = [call[d] EXCEPT !.overtaken = o] /\ call[d] \in CallState
    BY CarriedOutFacts DEF ApiTypeOK
  <2>2. o => call[d].login
    BY <1>1 DEF CallOrderKept
  <2> HIDE DEF o
  <2> QED BY <2>1, <2>2 DEF CallState, Kept
<1> QED BY <1>2, CarriedOutFacts

LEMMA SpacingKept ==
  ASSUME ApiInv, SetsTime \/ UNCHANGED <<slot, quiet, aborted>> PROVE SpacingInv'
  BY DEF ApiInv, SpacingInv, SetsTime

LEMMA Assembled == Parts' /\ SpacingInv' => ApiInv'
  BY DEF Parts, ApiInv

LEMMA SendsInv == ASSUME ApiInv, NEW c \in Calls, Sends(c) PROVE ApiInv'
<1> USE DEF ApiInv
<1> DEFINE carried == IF call[c].stage = "login" THEN NoToken ELSE token
           rec == [call[c] EXCEPT !.pc = "flight", !.attempt = call[c].attempt + 1, !.sent = carried]
<1>1. call' = [call EXCEPT ![c] = rec]
  BY DEF Sends, ApiTypeOK
<1>2. carried \in Nat /\ call[c].pc \in Holding
  BY DEF ApiTypeOK, NoToken, Sends, Holding
<1> HIDE DEF carried
<1>3. /\ rec \in CallState /\ rec.pc = "flight" /\ rec.sent = carried
      /\ Kept(call[c], rec)
  <2>1. call[c] \in CallState /\ call[c].attempt + 1 \in Nat /\ Kept(call[c], call[c])
    BY CallKept DEF ApiTypeOK, CallState
  <2>2. rec \in CallState /\ rec.pc = "flight" /\ rec.sent = carried
    BY <1>2, <2>1 DEF CallState
  <2>3. Kept(call[c], rec)
    BY <2>1 DEF CallState, Kept
  <2> QED BY <2>2, <2>3
<1> HIDE DEF rec
<1>4. /\ call' \in [Calls -> CallState] /\ call'[c] = rec
      /\ \A d \in Calls \ {c} : call'[d] = call[d]
  BY <1>1, <1>3 DEF ApiTypeOK
<1>5. UNCHANGED <<lock, queue, token, issued, accepted, slot, quiet, aborted>>
  BY DEF Sends, client, outside
<1>6. call[c].stage = "main" => carried = token
  BY DEF carried
<1>7. Parts'
  BY <1>2, <1>3, <1>4, <1>5, <1>6, Continuing, CallKept DEF Holding
<1> QED BY <1>5, <1>7, SpacingKept, Assembled

LEMMA HeadersInv == ASSUME ApiInv, NEW c \in Calls, Headers(c) PROVE ApiInv'
<1> USE DEF ApiInv
<1> DEFINE rec == [call[c] EXCEPT !.pc = "body"]
<1>1. call' = [call EXCEPT ![c] = rec] /\ call[c].pc = "flight"
  BY DEF Headers, ApiTypeOK
<1>2. rec \in CallState /\ rec.pc = "body" /\ rec.sent = call[c].sent /\ Kept(call[c], rec)
  <2>1. call[c] \in CallState /\ Kept(call[c], call[c])
    BY CallKept DEF ApiTypeOK
  <2> QED BY <2>1 DEF CallState, Kept
<1> HIDE DEF rec
<1>3. /\ call' \in [Calls -> CallState] /\ call'[c] = rec
      /\ \A d \in Calls \ {c} : call'[d] = call[d]
  BY <1>1, <1>2 DEF ApiTypeOK
<1>4. UNCHANGED <<lock, queue, token, issued, accepted, aborted>> /\ SetsTime
  BY DEF Headers, outside
<1>5. call[c].stage = "main" => call'[c].sent = token
  BY <1>1, <1>2, <1>3 DEF TokenInv, UnderWay
<1>6. Parts'
  BY <1>1, <1>2, <1>3, <1>4, <1>5, Continuing, CallKept DEF Holding
<1> QED BY <1>4, <1>6, SpacingKept, Assembled

LEMMA LoggedInInv == ASSUME ApiInv, NEW c \in Calls, LoggedIn(c) PROVE ApiInv'
<1> USE DEF ApiInv
<1>1. call[c] \in CallState /\ call[c].pc = "body" /\ call[c].login
  BY DEF LoggedIn, InBody, ApiTypeOK, OrderInv, Busy
<1>2. call' = [call EXCEPT ![c] = Entering(call[c], FALSE)]
  BY DEF LoggedIn
<1>3. /\ call' \in [Calls -> CallState]
      /\ call'[c].pc = "queued" /\ call'[c].login /\ call'[c].earlier = call[c].earlier
      /\ \A d \in Calls \ {c} : call'[d] = call[d]
  <2> DEFINE rec == Entering(call[c], FALSE)
  <2>1. rec \in CallState /\ rec.pc = "queued" /\ rec.login /\ rec.earlier = call[c].earlier
    BY <1>1, EnteringFacts
  <2> HIDE DEF rec
  <2> QED BY <1>2, <2>1 DEF ApiTypeOK, rec
<1>4. token' \in Nat /\ issued' \in Nat /\ token' \in accepted'
  BY DEF LoggedIn, ApiTypeOK
<1>5. lock' = Nobody /\ queue' = Append(queue, c) /\ UNCHANGED <<slot, quiet, aborted>>
  BY DEF LoggedIn
<1>6. call[c].pc \in Holding
  BY <1>1 DEF Holding
<1>7. Parts'
  BY <1>3, <1>4, <1>5, <1>6, Requeueing, CallKept
<1> QED BY <1>5, <1>7, SpacingKept, Assembled

\* The call ends with the answer, whether or not a control was carried out.
LEMMA ReturnsInv ==
  ASSUME ApiInv, NEW c \in Calls, ReadAnswered(c) \/ Refused(c) \/ ControlAccepted(c)
  PROVE  ApiInv'
<1>1. /\ UnderWay(c) /\ UNCHANGED <<token, issued, accepted, aborted>>
      /\ SetsTime \/ UNCHANGED <<slot, quiet>>
      /\ Returns(c, call) \/ Returns(c, CarriedOut(c))
  BY DEF ReadAnswered, Refused, ControlAccepted, UnderWay, InBody, outside
<1>2. call[c].pc \in Holding
  BY <1>1 DEF UnderWay, Holding
<1>3. call \in [Calls -> CallState]
  BY DEF ApiInv, ApiTypeOK
<1>4. Parts'
  BY <1>1, <1>2, <1>3, HolderEnding, CallKept, CarriedOutKept DEF Returns
<1> QED BY <1>1, <1>4, SpacingKept, Assembled

LEMMA TokenRefusedInv == ASSUME ApiInv, NEW c \in Calls, TokenRefused(c) PROVE ApiInv'
<1> USE DEF ApiInv
<1> DEFINE mark(d) == call[d].trouble \/ (Busy(d) /\ TokenAccepted(c))
           marked == [d \in Calls |-> [call[d] EXCEPT !.trouble = mark(d)]]
<1>1. /\ call[c].pc = "body" /\ call[c].stage = "main" /\ lock' = Nobody
      /\ UNCHANGED <<issued, accepted, slot, quiet, aborted>>
  BY DEF TokenRefused, InBody, outside
<1>2. \A d \in Calls : mark(d) \in BOOLEAN /\ call[d] \in CallState
  BY DEF Busy, TokenAccepted, ApiTypeOK, CallState
<1>3. IF call[c].again
      THEN call' = Without(c, marked) /\ UNCHANGED <<queue, token, fresh>>
      ELSE /\ DropsToken /\ queue' = Append(queue, c)
           /\ call' = [marked EXCEPT ![c] =
                Entering([marked[c] EXCEPT !.again = TRUE, !.trouble = FALSE], Expired')]
  BY DEF TokenRefused
<1>4. ASSUME NEW d \in Calls
      PROVE  /\ marked[d] \in CallState /\ marked[d].trouble = mark(d)
             /\ marked[d].pc = call[d].pc /\ marked[d].sent = call[d].sent
             /\ Kept(call[d], marked[d])
  <2>1. marked[d] = [call[d] EXCEPT !.trouble = mark(d)] /\ (call[d].trouble => mark(d))
    OBVIOUS
  <2> HIDE DEF mark, marked
  <2> QED BY <1>2, <2>1 DEF CallState, Kept, CallOrderKept
<1>5. marked \in [Calls -> CallState]
  BY <1>4
<1> HIDE DEF marked
<1>6. call[c].pc \in Holding
  BY <1>1 DEF Holding
<1>7. CASE call[c].again
  <2>1. call' = Without(c, marked) /\ UNCHANGED <<queue, token>>
    BY <1>3, <1>7
  <2>2. Parts'
    BY <1>1, <1>4, <1>5, <1>6, <2>1, HolderEnding
  <2> QED BY <1>1, <2>2, SpacingKept, Assembled
<1>8. CASE ~call[c].again
  <2> DEFINE rec == [marked[c] EXCEPT !.again = TRUE, !.trouble = FALSE]
  <2>1. /\ token' = NoToken /\ queue' = Append(queue, c)
        /\ call' = [marked EXCEPT ![c] = Entering(rec, TRUE)]
    <3>1. Expired' = TRUE
      BY <1>3, <1>8 DEF DropsToken, Expired
    <3> QED BY <1>3, <1>8, <3>1 DEF DropsToken
  <2>2. rec \in CallState /\ rec.earlier = marked[c].earlier
    BY <1>4 DEF CallState
  <2> HIDE DEF rec
  <2> DEFINE new == Entering(rec, TRUE)
  <2>3. /\ new \in CallState /\ new.pc = "queued" /\ new.login /\ new.stage = "login"
        /\ new.earlier = rec.earlier
    BY <2>2, EnteringFacts
  <2>4. call' = [marked EXCEPT ![c] = new]
    BY <2>1
  <2> HIDE DEF new
  <2>5. /\ call' \in [Calls -> CallState] /\ call'[c] = new
        /\ \A d \in Calls \ {c} : call'[d] = marked[d]
    BY <1>5, <2>3, <2>4
  <2>6. marked[c].earlier = call[c].earlier
    <3>1. marked[c] = [call[c] EXCEPT !.trouble = mark(c)]
      BY DEF marked
    <3> QED BY <1>2, <3>1 DEF CallState
  <2>7. /\ call'[c].pc = "queued" /\ call'[c].login /\ call'[c].earlier = call[c].earlier
        /\ call'[c].stage = "login"
    BY <2>2, <2>5, <2>6, <2>3
  <2>8. ASSUME NEW d \in Calls,
               (Busy(d) /\ call[d].stage = "main" /\ call[d].again /\ ~call[d].trouble)'
        PROVE  FALSE
    <3>1. d # c /\ call'[d] = marked[d]
      BY <2>5, <2>7, <2>8
    <3>2. Busy(d) /\ call[d].stage = "main" /\ call[d].again /\ ~mark(d)
      BY <1>4, <2>8, <3>1 DEF Busy, Kept
    <3>3. token \in accepted /\ ~TokenAccepted(c)
      BY <3>2 DEF TokenInv
    <3> QED BY <1>1, <3>3 DEF TokenInv, UnderWay, TokenAccepted
  <2>9. token' \in Nat /\ issued' \in Nat
    BY <1>1, <2>1 DEF ApiTypeOK, NoToken
  <2>10. \A d \in Calls \ {c} : call'[d].pc = call[d].pc /\ Kept(call[d], call'[d])
    BY <1>4, <2>5
  <2>11. Parts'
    BY <1>1, <1>6, <2>1, <2>5, <2>7, <2>8, <2>9, <2>10, Requeueing
  <2> QED BY <1>1, <2>11, SpacingKept, Assembled
<1> QED BY <1>7, <1>8

\* The pause and giving up, whether or not the request was carried out.
LEMMA SentAgainParts ==
  ASSUME ApiInv, NEW c \in Calls, UnderWay(c), NEW seen \in [Calls -> CallState],
         \A d \in Calls : seen[d].pc = call[d].pc /\ seen[d].sent = call[d].sent,
         \A d \in Calls : Kept(call[d], seen[d]),
         SentAgain(c, seen), UNCHANGED <<token, issued, accepted>>
  PROVE  Parts'
<1>1. call[c].pc \in Holding
  BY DEF UnderWay, Holding
<1>2. CASE call[c].attempt < MaxAttempts
  <2>1. call' = [seen EXCEPT ![c] = [seen[c] EXCEPT !.pc = "backoff"]] /\ UNCHANGED <<lock, queue>>
    BY <1>2 DEF SentAgain
  <2> DEFINE rec == [seen[c] EXCEPT !.pc = "backoff"]
  <2>2. rec \in CallState /\ rec.pc = "backoff" /\ Kept(call[c], rec)
    BY DEF CallState, Kept
  <2> HIDE DEF rec
  <2>3. /\ call' \in [Calls -> CallState] /\ call'[c] = rec
        /\ \A d \in Calls \ {c} : call'[d] = seen[d]
    BY <2>1, <2>2 DEF rec
  <2>4. call'[c].pc = "backoff" /\ ~UnderWay(c)'
    BY <2>2, <2>3 DEF UnderWay
  <2> QED BY <1>1, <2>1, <2>2, <2>3, <2>4, Continuing DEF Holding
<1>3. CASE ~(call[c].attempt < MaxAttempts)
  BY <1>1, <1>3, HolderEnding DEF SentAgain, Returns
<1> QED BY <1>2, <1>3

LEMMA UnansweredInv == ASSUME ApiInv, NEW c \in Calls, Unanswered(c) PROVE ApiInv'
<1>1. /\ UnderWay(c) /\ UNCHANGED <<token, issued, accepted>> /\ SetsTime
      /\ SentAgain(c, call) \/ SentAgain(c, CarriedOut(c))
  BY DEF Unanswered, outside
<1>2. call \in [Calls -> CallState]
  BY DEF ApiInv, ApiTypeOK
<1>3. Parts'
  BY <1>1, <1>2, SentAgainParts, CarriedOutKept, CallKept
<1> QED BY <1>1, <1>3, SpacingKept, Assembled

LEMMA PauseOverInv == ASSUME ApiInv, NEW c \in Calls, PauseOver(c) PROVE ApiInv'
<1> USE DEF ApiInv
<1> DEFINE rec == [call[c] EXCEPT !.pc = "slot"]
<1>1. call' = [call EXCEPT ![c] = rec]
  BY DEF PauseOver, ApiTypeOK
<1>2. /\ call[c].pc \in Holding
      /\ UNCHANGED <<lock, queue, token, issued, accepted, slot, quiet, aborted>>
  BY DEF PauseOver, Holding, client, outside
<1>3. rec \in CallState /\ rec.pc = "slot" /\ Kept(call[c], rec)
  BY DEF ApiTypeOK, CallState, Kept, CallOrderKept
<1> HIDE DEF rec
<1>4. /\ call' \in [Calls -> CallState] /\ call'[c] = rec
      /\ \A d \in Calls \ {c} : call'[d] = call[d]
  BY <1>1, <1>3 DEF ApiTypeOK
<1>5. Parts'
  BY <1>2, <1>3, <1>4, Continuing, CallKept DEF Holding, UnderWay
<1> QED BY <1>2, <1>5, SpacingKept, Assembled

LEMMA CancelledInv == ASSUME ApiInv, NEW c \in Calls, Cancelled(c) PROVE ApiInv'
<1> USE DEF ApiInv
<1>1. /\ Busy(c) /\ LeavesQueue(c) /\ call' = Without(c, call)
      /\ lock' = IF lock = c THEN Nobody ELSE lock
      /\ UNCHANGED <<token, issued, accepted>>
  BY DEF Cancelled, outside
<1>2. SpacingInv'
  BY DEF SpacingInv, Cancelled
<1>3. CASE call[c].pc = "queued"
  <2>1. PICK k \in DOMAIN queue : queue[k] = c /\ queue' = RemoveAt(queue, k)
    BY <1>1, <1>3 DEF LeavesQueue
  <2>2. call'[c].pc = "idle"
    BY <1>1, WithoutFacts, IdleFacts DEF ApiTypeOK
  <2>3. ASSUME NEW d \in Calls \ {c} PROVE call'[d].pc = call[d].pc
    <3>1. call'[d] = [call[d] EXCEPT !.earlier = call[d].earlier \ {c}] /\ call[d] \in CallState
      BY <1>1, WithoutFacts DEF ApiTypeOK
    <3> QED BY <3>1 DEF CallState
  <2>4. /\ queue' \in Seq(Calls) /\ QueueInv'
        /\ \A d, e \in Calls \ {c} : Before(d, e) => Before(d, e)'
    BY <2>1, <2>2, <2>3, Leaving
  <2>5. Parts'
    BY <1>1, <2>4, Ending, CallKept DEF ApiTypeOK
  <2> QED BY <1>2, <2>5, Assembled
<1>4. CASE call[c].pc # "queued"
  <2>1. call[c].pc \in Holding
    BY <1>1, <1>4 DEF Busy, Holding, ApiTypeOK, CallState
  <2>2. lock' = Nobody /\ UNCHANGED queue
    BY <1>1, <1>4, <2>1 DEF LockInv, LeavesQueue
  <2>3. Parts'
    BY <1>1, <2>1, <2>2, HolderEnding, CallKept DEF ApiTypeOK
  <2> QED BY <1>2, <2>3, Assembled
<1> QED BY <1>3, <1>4

\* Time passes, and the service fails or answers again.
LEMMA OutsideInv ==
  ASSUME ApiInv, SpacingOver \/ TokenExpires \/ ServiceFails \/ ServiceBack \/ UNCHANGED vars
  PROVE  ApiInv'
<1> USE DEF ApiInv
<1>1. UNCHANGED <<lock, queue, call, token, issued, accepted>>
  BY DEF SpacingOver, TokenExpires, ServiceFails, ServiceBack, vars, client, outside
<1>2. SpacingInv'
  BY DEF SpacingInv, SpacingOver, TokenExpires, ServiceFails, ServiceBack, vars, client, outside
<1>3. ApiTypeOK' /\ LockInv' /\ CallOrderKept'
  BY <1>1 DEF ApiTypeOK, LockInv, CallOrderKept
<1>4. TokenInv'
  BY <1>1 DEF TokenInv, UnderWay, Busy
<1>5. QueueInv' /\ OrderInv'
  BY <1>1 DEF QueueInv, OrderInv, Busy, Before
<1> QED BY <1>2, <1>3, <1>4, <1>5

LEMMA TokensWithdrawnInv == ASSUME ApiInv, TokensWithdrawn PROVE ApiInv'
<1> USE DEF ApiInv
<1>1. /\ UNCHANGED <<lock, queue, token, slot, issued, quiet, aborted>>
      /\ call' = [c \in Calls |-> [call[c] EXCEPT !.trouble = Busy(c)]]
  BY DEF TokensWithdrawn, client
<1>2. ASSUME NEW c \in Calls
      PROVE  /\ call'[c] \in CallState /\ call'[c].trouble = Busy(c)
             /\ call'[c].pc = call[c].pc /\ call'[c].sent = call[c].sent
             /\ call'[c].stage = call[c].stage /\ call'[c].login = call[c].login
             /\ call'[c].earlier = call[c].earlier /\ call'[c].overtaken = call[c].overtaken
  <2>1. call'[c] = [call[c] EXCEPT !.trouble = Busy(c)] /\ call[c] \in CallState /\ Busy(c) \in BOOLEAN
    BY <1>1 DEF ApiTypeOK, Busy
  <2> QED BY <2>1 DEF CallState
<1>3. call' \in [Calls -> CallState]
  BY <1>1, <1>2
<1>4. ApiTypeOK' /\ LockInv' /\ CallOrderKept' /\ SpacingInv'
  BY <1>1, <1>2, <1>3 DEF ApiTypeOK, LockInv, CallOrderKept, SpacingInv
<1>5. TokenInv'
  BY <1>1, <1>2 DEF TokenInv, UnderWay, Busy
<1>6. \A i \in DOMAIN queue : queue[i] \in Calls
  BY LenProperties, ElementOfSeq DEF ApiTypeOK
<1>7. QueueInv'
  BY <1>1, <1>2, <1>6 DEF QueueInv
<1>8. \A e \in Calls : \A d \in call[e].earlier : d \in Calls
  BY ApiAssumption DEF ApiTypeOK, CallState
<1>9. OrderInv'
  <2>1. \A d, e \in Calls : Before(d, e)' <=> Before(d, e)
    BY <1>1 DEF Before
  <2>2. \A d \in Calls : Busy(d)' <=> Busy(d)
    BY <1>2 DEF Busy
  <2> QED BY <1>1, <1>2, <1>8, <2>1, <2>2 DEF OrderInv
<1> QED BY <1>4, <1>5, <1>7, <1>9

LEMMA StepInv == ApiInv /\ [Next]_vars => ApiInv'
<1> SUFFICES ASSUME ApiInv, [Next]_vars PROVE ApiInv'
  OBVIOUS
<1>1. ASSUME NEW c \in Calls, Starts(c) PROVE ApiInv'
  BY <1>1, StartsInv
<1>2. ASSUME NEW c \in Calls, TakesLock(c) PROVE ApiInv'
  BY <1>2, TakesLockInv
<1>3. ASSUME NEW c \in Calls, Sends(c) PROVE ApiInv'
  BY <1>3, SendsInv
<1>4. ASSUME NEW c \in Calls, LoggedIn(c) PROVE ApiInv'
  BY <1>4, LoggedInInv
<1>5. ASSUME NEW c \in Calls, Headers(c) PROVE ApiInv'
  BY <1>5, HeadersInv
<1>6. ASSUME NEW c \in Calls, ReadAnswered(c) \/ Refused(c) \/ ControlAccepted(c)
      PROVE  ApiInv'
  BY <1>6, ReturnsInv
<1>7. ASSUME NEW c \in Calls, TokenRefused(c) PROVE ApiInv'
  BY <1>7, TokenRefusedInv
<1>8. ASSUME NEW c \in Calls, Unanswered(c) PROVE ApiInv'
  BY <1>8, UnansweredInv
<1>9. ASSUME NEW c \in Calls, PauseOver(c) PROVE ApiInv'
  BY <1>9, PauseOverInv
<1>10. ASSUME NEW c \in Calls, Cancelled(c) PROVE ApiInv'
  BY <1>10, CancelledInv
<1>11. ASSUME TokensWithdrawn PROVE ApiInv'
  BY <1>11, TokensWithdrawnInv
<1>12. ASSUME SpacingOver \/ TokenExpires \/ ServiceFails \/ ServiceBack \/ UNCHANGED vars
       PROVE  ApiInv'
  BY <1>12, OutsideInv
<1> QED
  BY <1>1, <1>2, <1>3, <1>4, <1>5, <1>6, <1>7, <1>8, <1>9, <1>10, <1>11, <1>12 DEF Next

LEMMA ApiInvariant == Spec => []ApiInv
  BY InitInv, StepInv, PTL DEF Spec

\* No other step puts a request on the wire.
LEMMA OnlySendsSends ==
  ASSUME ApiInv, Next, NEW c \in Calls, call[c].pc # "flight", call'[c].pc = "flight"
  PROVE  Sends(c)
<1> USE DEF ApiInv
<1>0. call \in [Calls -> CallState] /\ call[c] \in CallState
  BY DEF ApiTypeOK
<1>1. ASSUME NEW e \in Calls, NEW recs \in [Calls -> CallState], recs[c].pc # "flight",
             call' = Without(e, recs)
      PROVE  FALSE
  <2>1. CASE c = e
    BY <1>1, <2>1, WithoutFacts, IdleFacts
  <2>2. CASE c # e
    <3>1. call'[c] = [recs[c] EXCEPT !.earlier = recs[c].earlier \ {e}] /\ recs[c] \in CallState
      BY <1>1, <2>2, WithoutFacts
    <3> QED BY <1>1, <3>1 DEF CallState
  <2> QED BY <2>1, <2>2
<1>2. ASSUME NEW e \in Calls, NEW recs \in [Calls -> CallState], recs[c].pc # "flight",
             NEW rec \in CallState, rec.pc # "flight", call' = [recs EXCEPT ![e] = rec]
      PROVE  FALSE
  BY <1>2
<1>3. ASSUME NEW e \in Calls, NEW expired \in BOOLEAN, NEW old \in CallState,
             NEW recs \in [Calls -> CallState], recs[c].pc # "flight",
             call' = [recs EXCEPT ![e] = Entering(old, expired)]
      PROVE  FALSE
  BY <1>2, <1>3, EnteringFacts
<1>4. ASSUME NEW e \in Calls, Starts(e) PROVE FALSE
  <2> DEFINE old == [Idle EXCEPT !.earlier = {d \in Controls : Busy(d)}]
  <2>1. old \in CallState
    BY IdleFacts DEF CallState
  <2>2. call' = [call EXCEPT ![e] = Entering(old, Expired)] /\ Expired \in BOOLEAN
    BY <1>4 DEF Starts, Expired
  <2> HIDE DEF old
  <2> QED BY <1>0, <1>3, <2>1, <2>2
<1>5. ASSUME NEW e \in Calls, TakesLock(e) \/ PauseOver(e) PROVE FALSE
  <2> DEFINE rec == [call[e] EXCEPT !.pc = "slot"]
  <2>1. call' = [call EXCEPT ![e] = rec]
    BY <1>0, <1>5 DEF TakesLock, PauseOver
  <2>2. rec \in CallState /\ rec.pc # "flight"
    BY <1>0 DEF CallState
  <2> HIDE DEF rec
  <2> QED BY <1>0, <1>2, <2>1, <2>2
<1>6. ASSUME NEW e \in Calls, Sends(e) PROVE Sends(c)
  <2>1. c # e => call'[c] = call[c]
    BY <1>0, <1>6 DEF Sends
  <2> QED BY <1>6, <2>1
<1>7. ASSUME NEW e \in Calls, LoggedIn(e) PROVE FALSE
  BY <1>0, <1>3, <1>7 DEF LoggedIn
<1>8. \A e \in Calls : UnderWay(e) =>
        CarriedOut(e) \in [Calls -> CallState] /\ CarriedOut(e)[c].pc # "flight"
  BY CarriedOutKept
<1>9. ASSUME NEW e \in Calls, ReadAnswered(e) \/ Refused(e) \/ ControlAccepted(e) \/ Cancelled(e)
      PROVE  FALSE
  <2>1. \/ call' = Without(e, call)
        \/ UnderWay(e) /\ call' = Without(e, CarriedOut(e))
    BY <1>9 DEF ReadAnswered, Refused, ControlAccepted, Cancelled, Returns, UnderWay, InBody
  <2> QED BY <1>0, <1>1, <1>8, <2>1
<1>10. ASSUME NEW e \in Calls, Headers(e) PROVE FALSE
  <2> DEFINE rec == [call[e] EXCEPT !.pc = "body"]
  <2>1. call' = [call EXCEPT ![e] = rec]
    BY <1>0, <1>10 DEF Headers
  <2>2. rec \in CallState /\ rec.pc # "flight"
    BY <1>0 DEF CallState
  <2> HIDE DEF rec
  <2> QED BY <1>0, <1>2, <2>1, <2>2
<1>11. ASSUME NEW e \in Calls, TokenRefused(e) PROVE FALSE
  <2> DEFINE mark(d) == call[d].trouble \/ (Busy(d) /\ TokenAccepted(e))
             marked == [d \in Calls |-> [call[d] EXCEPT !.trouble = mark(d)]]
             old == [marked[e] EXCEPT !.again = TRUE, !.trouble = FALSE]
  <2>1. \A d \in Calls : mark(d) \in BOOLEAN
    BY <1>0 DEF Busy, TokenAccepted, CallState
  <2>2. marked \in [Calls -> CallState] /\ marked[c].pc # "flight"
    <3> HIDE DEF mark
    <3> QED BY <1>0, <2>1 DEF CallState
  <2>3. call' = Without(e, marked) \/ call' = [marked EXCEPT ![e] = Entering(old, Expired')]
    BY <1>11 DEF TokenRefused
  <2>4. Expired' \in BOOLEAN
    BY DEF Expired
  <2> HIDE DEF marked
  <2>5. old \in CallState
    BY <2>2 DEF CallState
  <2> HIDE DEF old
  <2> QED BY <1>1, <1>3, <2>2, <2>3, <2>4, <2>5
<1>12. ASSUME NEW e \in Calls, Unanswered(e) PROVE FALSE
  <2>1. PICK seen \in {call, CarriedOut(e)} : SentAgain(e, seen)
    BY <1>12 DEF Unanswered
  <2>2. seen \in [Calls -> CallState] /\ seen[c].pc # "flight"
    BY <1>0, <1>8, <1>12, <2>1 DEF Unanswered
  <2> DEFINE rec == [seen[e] EXCEPT !.pc = "backoff"]
  <2>3. rec \in CallState /\ rec.pc # "flight"
    BY <2>2 DEF CallState
  <2>4. call' = [seen EXCEPT ![e] = rec] \/ call' = Without(e, seen)
    BY <2>1, <2>2 DEF SentAgain, Returns
  <2> HIDE DEF rec
  <2> QED BY <1>1, <1>2, <2>2, <2>3, <2>4
<1>13. ASSUME TokensWithdrawn PROVE FALSE
  <2>1. call'[c] = [call[c] EXCEPT !.trouble = Busy(c)]
    BY <1>13 DEF TokensWithdrawn
  <2> QED BY <1>0, <2>1 DEF CallState
<1>14. ASSUME SpacingOver \/ TokenExpires \/ ServiceFails \/ ServiceBack PROVE FALSE
  BY <1>14 DEF SpacingOver, TokenExpires, ServiceFails, ServiceBack
<1> QED
  BY <1>4, <1>5, <1>6, <1>7, <1>9, <1>10, <1>11, <1>12, <1>13, <1>14 DEF Next

-----------------------------------------------------------------------------
(* The theorems.                                                           *)

\* However calls, logins, repetitions and cancellations interleave, a control that
\* has not had to log in is carried out before every control called after it.
THEOREM ControlsInOrder == Spec => []CallOrderKept
  BY ApiInvariant, PTL DEF ApiInv

\* The request after a second login carries a token the service accepts unless the
\* service has taken one back since: no other call can drop the token in between.
THEOREM SecondLoginAccepted == Spec => []SecondLoginHelps
<1>1. ApiInv => SecondLoginHelps
  BY DEF ApiInv, TokenInv, SecondLoginHelps, UnderWay, Busy, TokenAccepted
<1> QED BY <1>1, ApiInvariant, PTL

\* A request leaves only when no other is under way, its body included, and the
\* spacing has passed since the headers of the last response or the last failure, or
\* a request was cancelled before its headers came.
THEOREM RequestsSpaced == Spec => SpacedUnlessCancelled
<1> DEFINE Spaced ==
      \A c \in Calls :
        call[c].pc # "flight" /\ call'[c].pc = "flight" =>
          /\ \A d \in Calls : ~UnderWay(d)
          /\ quiet \/ aborted
<1>1. ASSUME ApiInv, [Next]_vars PROVE [Spaced]_vars
  <2>1. CASE UNCHANGED vars
    BY <2>1
  <2>2. CASE Next
    <3> SUFFICES ASSUME NEW c \in Calls, call[c].pc # "flight", call'[c].pc = "flight"
                 PROVE  (\A d \in Calls : ~UnderWay(d)) /\ (quiet \/ aborted)
      OBVIOUS
    <3>1. Sends(c)
      BY <1>1, <2>2, OnlySendsSends
    <3>2. lock = c /\ slot /\ call[c].pc = "slot"
      BY <3>1 DEF Sends
    <3> QED BY <1>1, <3>2 DEF ApiInv, LockInv, SpacingInv, Holding, UnderWay
  <2> QED BY <1>1, <2>1, <2>2
<1> HIDE DEF Spaced
<1>2. Spec => [][Spaced]_vars
  BY <1>1, ApiInvariant, PTL DEF Spec
<1> QED BY <1>2 DEF Spaced, SpacedUnlessCancelled

=============================================================================
