--------------------------- MODULE BitRegisterProofs ---------------------------
(***************************************************************************)
(* Proofs about BitRegister, for all registers, switches and conflicts and *)
(* any number of concurrent calls, polls, switches of protocol and         *)
(* failures: a switch touches no bit but its own and those it conflicts    *)
(* with, and what is acknowledged has been carried out.                    *)
(***************************************************************************)
EXTENDS BitRegister, TLAPS

Writing == {"modbus", "oldread", "control"}

CallRec ==
  [pc : {"idle"} \union Writing, on : BOOLEAN, want : SUBSET Bits, todo : SUBSET Bits,
   old : SUBSET Bits, fell : BOOLEAN, began : SUBSET Bits, acknowledged : BOOLEAN,
   undisturbed : BOOLEAN]

VerifyRec == [want : SUBSET Bits, left : {1, 2}, actual : (SUBSET Bits) \union {None}]

TypesInv ==
  /\ scenario \in Scenarios
  /\ device \in SUBSET Bits /\ report \in SUBSET Bits /\ cache \in (SUBSET Bits) \union {None}
  /\ active \in Protocols
  /\ call \in [Calls -> CallRec]
  /\ verifies \subseteq VerifyRec
  /\ poll \in [bits : SUBSET Bits, observed : SUBSET Bits] \union {None}

\* What a switch wants is what the device held with that switch turned.
Aimed(w, rec) == w \in Switches => rec.want = Toggled(w, rec.on, rec.began)

\* The device is on its way from what it held to what is wanted.
Between(rec, dev) == Differing(dev, rec.want) \subseteq Differing(rec.began, rec.want)

\* What is still to be sent is what the old value lacks, and nothing is forgotten.
Sound(w, rec, dev) ==
  /\ rec.pc # "idle" => ~rec.acknowledged
  /\ rec.pc \in Writing /\ rec.undisturbed => Aimed(w, rec) /\ Between(rec, dev)
  /\ rec.pc = "control" /\ scenario.kind # "whole" /\ rec.undisturbed =>
       /\ rec.todo = Differing(rec.old, rec.want)
       /\ Differing(dev, rec.want) \subseteq rec.todo
       /\ rec.todo \subseteq Differing(rec.began, rec.want)

CallsInv == \A w \in Calls : Sound(w, call[w], device)

BitInv == TypesInv /\ CallsInv

-----------------------------------------------------------------------------
(* Register values.                                                        *)

LEMMA ScenarioFacts ==
  ASSUME TypesInv
  PROVE  /\ scenario.bit \in [Calls -> Bits \union {None}] /\ None \notin Bits
         /\ scenario.conflicts \in [Bits -> SUBSET Bits]
         /\ \A b \in Bits : b \notin scenario.conflicts[b]
         /\ scenario.states \subseteq SUBSET Bits
         /\ \A w \in Switches : w \in Calls /\ scenario.bit[w] \in Bits
  BY BitAssumption DEF TypesInv, Bits, Switches

\* Turning a switch changes its own bit and its conflicts, and leads to what was
\* asked for.
LEMMA ToggledFacts ==
  ASSUME TypesInv, NEW w \in Switches, NEW on \in BOOLEAN, NEW base \in SUBSET Bits
  PROVE  /\ Toggled(w, on, base) \in SUBSET Bits
         /\ Differing(base, Toggled(w, on, base))
              \subseteq {scenario.bit[w]} \union scenario.conflicts[scenario.bit[w]]
         /\ IsOn(w, Toggled(w, on, base)) = on
         /\ on => scenario.conflicts[scenario.bit[w]] \intersect Toggled(w, on, base) = {}
<1> DEFINE b == scenario.bit[w]
           cleared == IF on THEN base \ scenario.conflicts[b] ELSE base
           new == Toggled(w, on, base)
<1>1. b \in Bits /\ scenario.conflicts[b] \subseteq Bits /\ b \notin scenario.conflicts[b]
  BY ScenarioFacts
<1>2. new = IF Flag(w, on) THEN cleared \union {b} ELSE cleared \ {b}
  BY DEF Toggled
<1>3. Flag(w, on) \in BOOLEAN /\ Flag(w, Flag(w, on)) = on
  BY DEF Flag
<1>4. b \in new <=> Flag(w, on)
  BY <1>2
<1>5. IsOn(w, new) = on
  <2>1. IsOn(w, new) = Flag(w, b \in new)
    BY DEF IsOn
  <2>2. (b \in new) = Flag(w, on)
    BY <1>3, <1>4
  <2> QED BY <1>3, <2>1, <2>2
<1>6. cleared \subseteq base /\ base \ cleared \subseteq scenario.conflicts[b]
  OBVIOUS
<1>7. on => scenario.conflicts[b] \intersect cleared = {}
  OBVIOUS
<1> HIDE DEF cleared
<1>8. new \subseteq cleared \union {b} /\ cleared \subseteq new \union {b}
  BY <1>2
<1>9. new \in SUBSET Bits /\ Differing(base, new) \subseteq {b} \union scenario.conflicts[b]
  BY <1>1, <1>6, <1>8 DEF Differing
<1>10. on => scenario.conflicts[b] \intersect new = {}
  BY <1>1, <1>7, <1>8
<1> QED BY <1>5, <1>9, <1>10

LEMMA DifferingFacts ==
  ASSUME NEW u, NEW v, NEW x
  PROVE  /\ Differing(u, u) = {}
         /\ Differing(u, v) = {} => u = v
         /\ Differing(u, v) \subseteq Differing(u, x) \union Differing(v, x)
  BY DEF Differing

\* Setting one bit as it is wanted.
LEMMA WithFacts ==
  ASSUME NEW v \in SUBSET Bits, NEW want \in SUBSET Bits, NEW b
  PROVE  /\ With(v, b, b \in want) \in SUBSET Bits
         /\ Differing(With(v, b, b \in want), want) = Differing(v, want) \ {b}
  BY DEF With, Differing

-----------------------------------------------------------------------------
(* What a step of a call comes to.                                         *)

\* The others see that the device changed, if it did.
Bystanders(w) ==
  \A x \in Calls \ {w} :
    call'[x] = IF call[x].pc = "idle" THEN IdleCall
               ELSE [call[x] EXCEPT !.undisturbed = @ /\ device' = device]

Outcome(w, rec) ==
  /\ device' \in SUBSET Bits /\ cache' \in (SUBSET Bits) \union {None}
  /\ DOMAIN call' = Calls /\ Bystanders(w)
  /\ call' = [x \in Calls |-> call'[x]]
  /\ call'[w] \in CallRec /\ Sound(w, call'[w], device')
  /\ call'[w].undisturbed => rec.undisturbed /\ Between(rec, device')
  /\ call'[w].undisturbed /\ call'[w].acknowledged => device' = rec.want

\* A call that is about to send, with the device at value.
Ready(w, rec, value) ==
  /\ rec \in CallRec /\ ~rec.acknowledged /\ value \in SUBSET Bits
  /\ rec.undisturbed => Aimed(w, rec) /\ Between(rec, value)

LEMMA GoesFacts ==
  ASSUME NEW w \in Calls, NEW rec, NEW value, Goes(w, rec, value)
  PROVE  /\ device' = value /\ call'[w] = rec
         /\ DOMAIN call' = Calls /\ call' = [x \in Calls |-> call'[x]] /\ Bystanders(w)
  BY DEF Goes, Bystanders

LEMMA ReturnsOutcome ==
  ASSUME TypesInv, NEW w \in Calls, NEW rec \in CallRec, NEW value \in SUBSET Bits,
         NEW c \in (SUBSET Bits) \union {None}, NEW sh, NEW ack \in BOOLEAN,
         rec.undisturbed => Between(rec, value),
         rec.undisturbed /\ ack => value = rec.want,
         Returns(w, rec, value, c, sh, ack)
  PROVE  Outcome(w, rec)
<1> DEFINE new == [IdleCall EXCEPT !.undisturbed = rec.undisturbed, !.acknowledged = ack]
<1>1. cache' = c /\ Goes(w, new, value)
  BY DEF Returns
<1>2. /\ new \in CallRec /\ new.pc = "idle" /\ new.undisturbed = rec.undisturbed
      /\ new.acknowledged = ack
  BY DEF CallRec, IdleCall
<1> HIDE DEF new
<1>3. /\ device' = value /\ call'[w] = new
      /\ DOMAIN call' = Calls /\ call' = [x \in Calls |-> call'[x]] /\ Bystanders(w)
  BY <1>1, GoesFacts
<1>4. Sound(w, new, value)
  BY <1>2 DEF Sound, Writing
<1> QED BY <1>1, <1>2, <1>3, <1>4 DEF Outcome

LEMMA WaitsOutcome ==
  ASSUME TypesInv, NEW w \in Calls, NEW rec, NEW new \in CallRec, NEW value \in SUBSET Bits,
         Sound(w, new, value), ~new.acknowledged,
         new.undisturbed => rec.undisturbed /\ Between(rec, value),
         Waits(w, new, value)
  PROVE  Outcome(w, rec)
<1>1. cache' = cache /\ Goes(w, new, value)
  BY DEF Waits
<1>2. /\ device' = value /\ call'[w] = new
      /\ DOMAIN call' = Calls /\ call' = [x \in Calls |-> call'[x]] /\ Bystanders(w)
  BY <1>1, GoesFacts
<1> QED BY <1>1, <1>2 DEF Outcome, TypesInv

LEMMA SendsBitsOutcome ==
  ASSUME TypesInv, NEW w \in Calls, NEW rec, NEW value, Ready(w, rec, value),
         NEW v \in SUBSET Bits, SendsBits(w, rec, v, value)
  PROVE  Outcome(w, rec)
<1> DEFINE new == [rec EXCEPT !.undisturbed = @ /\ Current(rec, v, value)]
           next == [new EXCEPT !.pc = "control", !.todo = Differing(v, rec.want), !.old = v]
<1>1. rec \in CallRec /\ ~rec.acknowledged /\ value \in SUBSET Bits /\ rec.want \in SUBSET Bits
  BY DEF Ready, CallRec
<1>2. /\ new \in CallRec /\ new.want = rec.want /\ new.began = rec.began /\ new.on = rec.on
      /\ new.undisturbed = (rec.undisturbed /\ Current(rec, v, value)) /\ ~new.acknowledged
  BY <1>1 DEF CallRec
<1>3. new.undisturbed =>
        /\ rec.undisturbed /\ Aimed(w, rec) /\ Between(rec, value)
        /\ Differing(value, rec.want) \subseteq Differing(v, rec.want)
        /\ Differing(v, rec.want) \subseteq Differing(rec.began, rec.want)
  BY <1>2 DEF Ready, Current, Between
<1>4. CASE v = rec.want
  <2>1. Returns(w, new, value, new.want, Notified(new.want), TRUE)
    BY <1>4 DEF SendsBits, Acknowledged
  <2> HIDE DEF new
  <2>2. new.undisturbed => value = new.want
    BY <1>2, <1>3, <1>4 DEF Differing
  <2>3. new.undisturbed => Between(new, value)
    BY <1>2, <1>3 DEF Between
  <2>4. Outcome(w, new)
    BY <1>1, <1>2, <2>1, <2>2, <2>3, ReturnsOutcome
  <2> QED BY <1>2, <2>4 DEF Outcome, Between
<1>5. CASE v # rec.want
  <2>1. Waits(w, next, value)
    BY <1>5 DEF SendsBits
  <2>2. Differing(v, rec.want) \in SUBSET Bits
    BY <1>1 DEF Differing
  <2> HIDE DEF new
  <2>3. /\ next \in CallRec /\ next.pc = "control" /\ next.want = rec.want /\ next.on = rec.on
        /\ next.began = rec.began /\ next.todo = Differing(v, rec.want) /\ next.old = v
        /\ next.undisturbed = new.undisturbed /\ ~next.acknowledged
    BY <1>2, <2>2 DEF CallRec, Writing
  <2> HIDE DEF next
  <2>4. Sound(w, next, value)
    BY <1>3, <2>3 DEF Sound, Aimed, Between
  <2>5. next.undisturbed => rec.undisturbed /\ Between(rec, value)
    BY <1>3, <2>3
  <2> QED BY <1>1, <2>1, <2>3, <2>4, <2>5, WaitsOutcome
<1> QED BY <1>4, <1>5

LEMMA SendsOutcome ==
  ASSUME TypesInv, NEW w \in Calls, NEW rec, NEW value, Ready(w, rec, value), NEW p,
         p = "cloud" => scenario.kind \in {"whole", "bits"}, p \in Protocols,
         Sends(w, rec, p, value)
  PROVE  Outcome(w, rec)
<1>1. rec \in CallRec /\ ~rec.acknowledged /\ value \in SUBSET Bits
  BY DEF Ready
<1>2. ASSUME NEW pc \in Writing, pc = "control" => scenario.kind = "whole",
             Waits(w, [rec EXCEPT !.pc = pc], value)
      PROVE  Outcome(w, rec)
  <2> DEFINE next == [rec EXCEPT !.pc = pc]
  <2>1. /\ next \in CallRec /\ next.pc = pc /\ next.want = rec.want /\ next.on = rec.on
        /\ next.began = rec.began /\ next.undisturbed = rec.undisturbed /\ ~next.acknowledged
    BY <1>1 DEF CallRec
  <2>2. Waits(w, next, value)
    BY <1>2
  <2> HIDE DEF next
  <2>3. Sound(w, next, value)
    BY <1>2, <2>1 DEF Sound, Aimed, Between, Ready, Writing
  <2>4. next.undisturbed => rec.undisturbed /\ Between(rec, value)
    BY <2>1 DEF Ready
  <2> QED BY <1>1, <2>1, <2>2, <2>3, <2>4, WaitsOutcome
<1>3. CASE p = "modbus"
  BY <1>2, <1>3 DEF Sends, Writing
<1>4. CASE p = "cloud" /\ scenario.kind = "whole"
  BY <1>2, <1>4 DEF Sends, Writing
<1>5. CASE p = "cloud" /\ scenario.kind = "bits" /\ cache = None
  BY <1>2, <1>5 DEF Sends, Writing
<1>6. CASE p = "cloud" /\ scenario.kind = "bits" /\ cache # None
  <2>1. SendsBits(w, rec, cache, value) /\ cache \in SUBSET Bits
    BY <1>6 DEF Sends, TypesInv
  <2> QED BY <2>1, SendsBitsOutcome
<1> QED BY <1>3, <1>4, <1>5, <1>6 DEF Protocols

LEMMA Kinds ==
  ASSUME TypesInv
  PROVE  scenario.kind \in {"whole", "bits", "local"}
BY BitAssumption DEF TypesInv

LEMMA FallsBackOutcome ==
  ASSUME TypesInv, NEW w \in Calls, NEW rec, NEW value, Ready(w, rec, value),
         FallsBack(w, rec, value)
  PROVE  Outcome(w, rec)
<1> DEFINE p == Other(active)
           next == [rec EXCEPT !.fell = TRUE]
<1>1. rec \in CallRec /\ value \in SUBSET Bits /\ cache \in (SUBSET Bits) \union {None}
  BY DEF Ready, TypesInv
<1>2. CASE rec.fell \/ p \notin linked \/ ~Sendable(p)
  <2>1. Returns(w, rec, value, cache, shown, FALSE)
    BY <1>2 DEF FallsBack, Raises
  <2> QED BY <1>1, <2>1, ReturnsOutcome DEF Ready
<1>3. CASE ~(rec.fell \/ p \notin linked \/ ~Sendable(p))
  <2>1. p \in Protocols /\ (p = "cloud" => scenario.kind \in {"whole", "bits"})
    BY <1>3, Kinds DEF TypesInv, Protocols, Other, Sendable
  <2>2. Sends(w, next, p, value)
    BY <1>3 DEF FallsBack
  <2>3. /\ next \in CallRec /\ next.want = rec.want /\ next.on = rec.on /\ next.began = rec.began
        /\ next.undisturbed = rec.undisturbed /\ next.acknowledged = rec.acknowledged
    BY <1>1 DEF CallRec
  <2> HIDE DEF next, p
  <2>4. Ready(w, next, value)
    BY <2>3 DEF Ready, Aimed, Between
  <2>5. Outcome(w, next)
    BY <1>1, <2>1, <2>2, <2>4, SendsOutcome
  <2> QED BY <2>3, <2>5 DEF Outcome, Between
<1> QED BY <1>2, <1>3

LEMMA RoutedOutcome ==
  ASSUME TypesInv, NEW w \in Calls, NEW rec, Ready(w, rec, device), Routed(w, rec)
  PROVE  Outcome(w, rec)
<1>1. CASE Sendable(active)
  <2>1. active \in Protocols /\ (active = "cloud" => scenario.kind \in {"whole", "bits"})
    BY <1>1, Kinds DEF TypesInv, Sendable
  <2>2. Sends(w, rec, active, device)
    BY <1>1 DEF Routed
  <2> QED BY <2>1, <2>2, SendsOutcome
<1>2. CASE ~Sendable(active)
  BY <1>2, FallsBackOutcome DEF Routed
<1> QED BY <1>1, <1>2

\* What the steps of the next-state relation need: BitInv again, and the two properties.
Taken(w) ==
  /\ device' \in SUBSET Bits /\ cache' \in (SUBSET Bits) \union {None}
  /\ DOMAIN call' = Calls /\ Bystanders(w)
  /\ call' = [x \in Calls |-> call'[x]]
  /\ call'[w] \in CallRec /\ Sound(w, call'[w], device')
  /\ call[w].pc # "idle" /\ call'[w].undisturbed =>
       /\ w \in Switches =>
            Differing(device, device')
              \subseteq {scenario.bit[w]} \union scenario.conflicts[scenario.bit[w]]
       /\ call'[w].acknowledged =>
            IF w \in Switches
            THEN /\ IsOn(w, device') = call[w].on
                 /\ call[w].on => scenario.conflicts[scenario.bit[w]] \intersect device' = {}
            ELSE device' = call[w].want

LEMMA OutcomeTaken ==
  ASSUME TypesInv, NEW w \in Calls, NEW rec \in CallRec, Outcome(w, rec),
         rec.undisturbed => Aimed(w, rec) /\ Between(rec, device),
         call[w].pc # "idle" => rec.on = call[w].on /\ (w \notin Switches => rec.want = call[w].want)
  PROVE  Taken(w)
<1> SUFFICES ASSUME call[w].pc # "idle", call'[w].undisturbed
             PROVE  /\ w \in Switches =>
                         Differing(device, device')
                           \subseteq {scenario.bit[w]} \union scenario.conflicts[scenario.bit[w]]
                    /\ call'[w].acknowledged =>
                         IF w \in Switches
                         THEN /\ IsOn(w, device') = call[w].on
                              /\ call[w].on =>
                                   scenario.conflicts[scenario.bit[w]] \intersect device' = {}
                         ELSE device' = call[w].want
  BY DEF Outcome, Taken
<1>1. Between(rec, device) /\ Between(rec, device') /\ Aimed(w, rec)
  BY DEF Outcome
<1>2. call'[w].acknowledged => device' = rec.want
  BY DEF Outcome
<1>3. CASE w \in Switches
  <2>1. rec.on \in BOOLEAN /\ rec.began \in SUBSET Bits /\ rec.want = Toggled(w, rec.on, rec.began)
    BY <1>1, <1>3 DEF CallRec, Aimed
  <2>2. /\ Differing(rec.began, rec.want)
             \subseteq {scenario.bit[w]} \union scenario.conflicts[scenario.bit[w]]
        /\ IsOn(w, rec.want) = rec.on
        /\ rec.on => scenario.conflicts[scenario.bit[w]] \intersect rec.want = {}
    BY <1>3, <2>1, ToggledFacts
  <2>3. Differing(device, device') \subseteq Differing(device, rec.want) \union Differing(device', rec.want)
    BY DifferingFacts
  <2> QED BY <1>1, <1>2, <1>3, <2>2, <2>3 DEF Between
<1>4. CASE w \notin Switches
  BY <1>2, <1>4
<1> QED BY <1>3, <1>4

LEMMA DecidesTaken ==
  ASSUME TypesInv, NEW w \in Switches, NEW rec \in CallRec, ~rec.acknowledged,
         NEW base \in SUBSET Bits,
         rec.undisturbed => rec.began = device /\ base = device,
         call[w].pc # "idle" => rec.on = call[w].on,
         Decides(w, rec, base)
  PROVE  Taken(w)
<1> DEFINE new == [rec EXCEPT !.want = Toggled(w, rec.on, base)]
<1>1. /\ w \in Calls /\ rec.on \in BOOLEAN /\ device \in SUBSET Bits
      /\ cache \in (SUBSET Bits) \union {None}
  BY ScenarioFacts DEF CallRec, TypesInv
<1>2. Toggled(w, rec.on, base) \in SUBSET Bits
  BY <1>1, ToggledFacts
<1>3. /\ new \in CallRec /\ new.want = Toggled(w, rec.on, base) /\ new.on = rec.on
      /\ new.began = rec.began /\ new.undisturbed = rec.undisturbed /\ ~new.acknowledged
  BY <1>2 DEF CallRec
<1>4. \/ Routed(w, new)
      \/ Returns(w, new, device, cache, [shown EXCEPT ![w] = rec.on], FALSE)
  BY DEF Decides
<1> HIDE DEF new
<1>5. new.undisturbed => Aimed(w, new) /\ Between(new, device)
  BY <1>3 DEF Aimed, Between
<1>6. Ready(w, new, device)
  BY <1>1, <1>3, <1>5 DEF Ready
<1>7. CASE Routed(w, new)
  BY <1>1, <1>6, <1>7, RoutedOutcome, <1>3, <1>5, OutcomeTaken
<1>8. CASE Returns(w, new, device, cache, [shown EXCEPT ![w] = rec.on], FALSE)
  <2>1. Outcome(w, new)
    BY <1>1, <1>3, <1>5, <1>8, ReturnsOutcome
  <2> QED BY <1>1, <1>3, <1>5, <2>1, OutcomeTaken
<1> QED BY <1>4, <1>7, <1>8

-----------------------------------------------------------------------------
(* The steps of calls.                                                     *)

LEMMA CallFacts ==
  ASSUME BitInv, NEW w \in Calls
  PROVE  /\ call[w] \in CallRec /\ Sound(w, call[w], device)
         /\ device \in SUBSET Bits /\ report \in SUBSET Bits
         /\ cache \in (SUBSET Bits) \union {None}
         /\ w \in Switches => scenario.bit[w] \in Bits
<1>1. None \notin Bits
  BY ScenarioFacts DEF BitInv
<1> QED BY <1>1, ScenarioFacts DEF BitInv, TypesInv, CallsInv

\* The record of a new call.
LEMMA MadeFacts ==
  ASSUME TypesInv
  PROVE  /\ Made \in CallRec /\ Made.pc = "idle" /\ Made.began = device /\ ~Made.acknowledged
         /\ Made.undisturbed => cache \in {None, device}
<1> DEFINE und == cache \in {None, device}
<1>1. Made = [IdleCall EXCEPT !.began = device, !.undisturbed = und] /\ und \in BOOLEAN
  BY DEF Made
<1>2. und => cache \in {None, device}
  OBVIOUS
<1> HIDE DEF und
<1> QED BY <1>1, <1>2 DEF TypesInv, CallRec, IdleCall

LEMMA NewToggle ==
  ASSUME TypesInv, NEW on \in BOOLEAN, NEW rec, rec = [Made EXCEPT !.on = on]
  PROVE  /\ rec \in CallRec /\ rec.on = on /\ rec.began = device /\ ~rec.acknowledged
         /\ rec.undisturbed => cache \in {None, device}
BY MadeFacts DEF CallRec

LEMMA NewWrite ==
  ASSUME TypesInv, NEW want \in SUBSET Bits, NEW rec, rec = [Made EXCEPT !.want = want]
  PROVE  rec \in CallRec /\ rec.want = want /\ rec.began = device /\ ~rec.acknowledged
BY MadeFacts DEF CallRec

\* A call that raises without having touched the device.
LEMMA RaisesTaken ==
  ASSUME TypesInv, NEW w \in Calls, NEW rec \in CallRec, Raises(w, rec, device)
  PROVE  Taken(w)
<1> DEFINE new == [IdleCall EXCEPT !.undisturbed = rec.undisturbed, !.acknowledged = FALSE]
<1>1. cache' = cache /\ Goes(w, new, device)
  BY DEF Raises, Returns
<1>2. new \in CallRec /\ new.pc = "idle" /\ ~new.acknowledged
  BY DEF CallRec, IdleCall
<1> HIDE DEF new
<1>3. /\ device' = device /\ call'[w] = new
      /\ DOMAIN call' = Calls /\ call' = [x \in Calls |-> call'[x]] /\ Bystanders(w)
  BY <1>1, GoesFacts
<1>4. Sound(w, new, device) /\ Differing(device, device) = {}
  BY <1>2, DifferingFacts DEF Sound, Writing
<1> QED BY <1>1, <1>2, <1>3, <1>4 DEF Taken, TypesInv

LEMMA ToggleTaken ==
  ASSUME BitInv, NEW w \in Calls, Toggle(w)
  PROVE  Taken(w)
<1>1. w \in Switches /\ call[w].pc = "idle" /\ TypesInv
  BY DEF Toggle, BitInv
<1>2. ASSUME NEW on \in BOOLEAN, cache # None, Decides(w, [Made EXCEPT !.on = on], cache)
      PROVE  Taken(w)
  <2> DEFINE rec == [Made EXCEPT !.on = on]
  <2>1. /\ rec \in CallRec /\ rec.on = on /\ rec.began = device /\ ~rec.acknowledged
        /\ rec.undisturbed => cache \in {None, device}
    BY <1>1, NewToggle
  <2>2. Decides(w, rec, cache)
    BY <1>2
  <2> HIDE DEF rec
  <2>3. cache \in SUBSET Bits
    BY <1>2, CallFacts
  <2> QED BY <1>1, <1>2, <2>1, <2>2, <2>3, DecidesTaken
<1>3. CASE cache = None /\ Raises(w, Made, device)
  BY <1>1, <1>3, MadeFacts, RaisesTaken
<1> QED BY <1>2, <1>3 DEF Toggle

LEMMA WriteWholeTaken ==
  ASSUME BitInv, NEW w \in Calls, WriteWhole(w)
  PROVE  Taken(w)
<1>1. w \notin Switches /\ call[w].pc = "idle"
  BY DEF WriteWhole
<1>2. PICK v \in scenario.states : Routed(w, [Made EXCEPT !.want = v])
  BY DEF WriteWhole
<1> DEFINE rec == [Made EXCEPT !.want = v]
<1>3. TypesInv
  BY DEF BitInv
<1>4. v \in SUBSET Bits
  BY <1>3, ScenarioFacts
<1>5. Routed(w, rec)
  BY <1>2
<1>6. rec \in CallRec /\ rec.want = v /\ rec.began = device /\ ~rec.acknowledged
  BY <1>3, <1>4, NewWrite
<1> HIDE DEF rec
<1>7. Aimed(w, rec) /\ Between(rec, device)
  BY <1>1, <1>6 DEF Aimed, Between
<1>8. Ready(w, rec, device)
  BY <1>6, <1>7, CallFacts DEF Ready
<1>9. Outcome(w, rec)
  BY <1>3, <1>5, <1>8, CallFacts, RoutedOutcome
<1> QED BY <1>1, <1>3, <1>6, <1>7, <1>9, OutcomeTaken

LEMMA BitfieldFacts ==
  ASSUME TypesInv, NEW observed
  PROVE  Bitfield(observed) \in SUBSET Bits
BY DEF TypesInv, Bitfield

LEMMA ModbusTaken ==
  ASSUME BitInv, NEW w \in Calls, ModbusWritten(w) \/ ModbusFails(w)
  PROVE  Taken(w)
<1>1. call[w].pc = "modbus" /\ TypesInv /\ call[w] \in CallRec /\ Sound(w, call[w], device)
  BY CallFacts DEF ModbusWritten, ModbusFails, BitInv
<1>2. ~call[w].acknowledged /\ (call[w].undisturbed => Aimed(w, call[w]) /\ Between(call[w], device))
  BY <1>1 DEF Sound, Writing
<1>3. /\ call[w].want \in SUBSET Bits /\ device \in SUBSET Bits
      /\ call[w].undisturbed => Between(call[w], call[w].want)
  BY <1>1, CallFacts DEF CallRec, Between, Differing
<1>4. CASE ModbusWritten(w)
  <2>1. Returns(w, call[w], call[w].want, call[w].want, Notified(call[w].want), TRUE)
    BY <1>4 DEF ModbusWritten, Acknowledged
  <2>2. Outcome(w, call[w])
    BY <1>1, <1>3, <2>1, ReturnsOutcome
  <2> QED BY <1>1, <1>2, <2>2, OutcomeTaken
<1>5. CASE ModbusFails(w)
  <2>1. PICK value \in {device, call[w].want} : FallsBack(w, call[w], value)
    BY <1>5 DEF ModbusFails
  <2>2. Ready(w, call[w], value)
    BY <1>1, <1>2, <1>3 DEF Ready
  <2>3. Outcome(w, call[w])
    BY <1>1, <2>1, <2>2, FallsBackOutcome
  <2> QED BY <1>1, <1>2, <2>3, OutcomeTaken
<1> QED BY <1>4, <1>5

LEMMA OldValueTaken ==
  ASSUME BitInv, NEW w \in Calls, OldValueRead(w) \/ OldValueReadFails(w)
  PROVE  Taken(w)
<1>1. /\ call[w].pc = "oldread" /\ TypesInv /\ call[w] \in CallRec /\ Sound(w, call[w], device)
      /\ device \in SUBSET Bits /\ cache \in (SUBSET Bits) \union {None}
  BY CallFacts DEF OldValueRead, OldValueReadFails, BitInv
<1>2. ~call[w].acknowledged /\ (call[w].undisturbed => Aimed(w, call[w]) /\ Between(call[w], device))
  BY <1>1 DEF Sound, Writing
<1>3. Ready(w, call[w], device)
  BY <1>1, <1>2 DEF Ready
<1>4. Outcome(w, call[w])
  <2>1. CASE OldValueRead(w)
    <3>1. PICK observed \in SUBSET Bits :
            SendsBits(w, call[w], Bitfield(observed), device)
      BY <2>1 DEF OldValueRead
    <3> QED BY <1>1, <1>3, <3>1, BitfieldFacts, SendsBitsOutcome
  <2>2. CASE OldValueReadFails(w)
    BY <1>1, <1>3, <2>2, FallsBackOutcome DEF OldValueReadFails
  <2> QED BY <2>1, <2>2
<1> QED BY <1>1, <1>2, <1>4, OutcomeTaken

LEMMA CloudDoneOutcome ==
  ASSUME TypesInv, NEW w \in Calls, NEW rec \in CallRec, NEW value \in SUBSET Bits,
         rec.undisturbed => Between(rec, value) /\ value = rec.want,
         CloudDone(w, rec, value)
  PROVE  Outcome(w, rec) /\ verifies' \subseteq VerifyRec
<1>1. Returns(w, rec, value, rec.want, Notified(rec.want), TRUE) /\ rec.want \in SUBSET Bits
  BY DEF CloudDone, Acknowledged, CallRec
<1>2. [want |-> rec.want, left |-> 2, actual |-> None] \in VerifyRec
  BY <1>1 DEF VerifyRec
<1>3. verifies' \subseteq VerifyRec
  BY <1>2 DEF CloudDone, TypesInv
<1> QED BY <1>1, <1>3, ReturnsOutcome

\* Each TOU call sets one of the bits that are still to be sent, whichever of the two
\* values the service sets it in.
LEMMA ControlAcceptedTaken ==
  ASSUME BitInv, NEW w \in Calls, ControlAccepted(w)
  PROVE  Taken(w) /\ verifies' \subseteq VerifyRec
<1>1. /\ call[w].pc = "control" /\ TypesInv /\ call[w] \in CallRec /\ Sound(w, call[w], device)
      /\ device \in SUBSET Bits /\ cache \in (SUBSET Bits) \union {None}
      /\ call[w].want \in SUBSET Bits /\ call[w].old \in SUBSET Bits
      /\ call[w].todo \in SUBSET Bits
  BY CallFacts DEF ControlAccepted, BitInv, CallRec
<1>2. ~call[w].acknowledged /\ (call[w].undisturbed => Aimed(w, call[w]) /\ Between(call[w], device))
  BY <1>1 DEF Sound, Writing
<1>3. CASE scenario.kind = "whole"
  <2>1. CloudDone(w, call[w], call[w].want)
    BY <1>3 DEF ControlAccepted
  <2>2. call[w].undisturbed => Between(call[w], call[w].want)
    BY DEF Between, Differing
  <2>3. Outcome(w, call[w]) /\ verifies' \subseteq VerifyRec
    BY <1>1, <2>1, <2>2, CloudDoneOutcome
  <2> QED BY <1>1, <1>2, <2>3, OutcomeTaken
<1>4. CASE scenario.kind # "whole"
  <2> DEFINE b == NextBit(call[w])
             want == call[w].want
             rec == Advanced(call[w], b)
  <2>1. PICK value \in {With(device, b, b \in rec.want), With(call[w].old, b, b \in rec.want)} :
          IF rec.todo = {} THEN CloudDone(w, rec, value)
          ELSE Waits(w, rec, value) /\ UNCHANGED <<pending, verifies>>
    BY <1>4 DEF ControlAccepted
  <2>2. /\ With(device, b, b \in want) \in SUBSET Bits
        /\ Differing(With(device, b, b \in want), want) = Differing(device, want) \ {b}
        /\ With(call[w].old, b, b \in want) \in SUBSET Bits
        /\ Differing(With(call[w].old, b, b \in want), want) = Differing(call[w].old, want) \ {b}
    <3> HIDE DEF b
    <3>1. ASSUME NEW v \in SUBSET Bits
          PROVE  /\ With(v, b, b \in want) \in SUBSET Bits
                 /\ Differing(With(v, b, b \in want), want) = Differing(v, want) \ {b}
      BY <1>1, WithFacts
    <3> QED BY <1>1, <3>1
  <2>3. /\ rec \in CallRec /\ rec.pc = "control" /\ rec.want = want /\ rec.on = call[w].on
        /\ rec.began = call[w].began /\ rec.undisturbed = call[w].undisturbed
        /\ ~rec.acknowledged /\ rec.todo = call[w].todo \ {b}
        /\ rec.old = With(call[w].old, b, b \in want)
    BY <1>1, <1>2, <2>2 DEF CallRec, Advanced
  <2> HIDE DEF rec, b
  <2>4. value \in SUBSET Bits
    BY <2>1, <2>2, <2>3
  <2>5. call[w].undisturbed =>
          /\ call[w].todo = Differing(call[w].old, want)
          /\ Differing(device, want) \subseteq call[w].todo
          /\ call[w].todo \subseteq Differing(call[w].began, want)
    BY <1>1, <1>4 DEF Sound
  <2>6. rec.undisturbed =>
          /\ rec.todo = Differing(rec.old, rec.want)
          /\ Differing(value, rec.want) \subseteq rec.todo
          /\ rec.todo \subseteq Differing(rec.began, rec.want)
    BY <2>1, <2>2, <2>3, <2>5
  <2>7. rec.undisturbed => Between(rec, value) /\ Between(rec, device) /\ Aimed(w, rec)
    BY <1>2, <2>3, <2>6 DEF Between, Aimed
  <2>8. CASE rec.todo = {} /\ CloudDone(w, rec, value)
    <3>1. rec.undisturbed => value = rec.want
      BY <2>6, <2>8, DifferingFacts
    <3>2. Outcome(w, rec) /\ verifies' \subseteq VerifyRec
      BY <1>1, <2>3, <2>4, <2>7, <2>8, <3>1, CloudDoneOutcome
    <3> QED BY <1>1, <2>3, <2>7, <3>2, OutcomeTaken
  <2>9. CASE Waits(w, rec, value) /\ verifies' = verifies
    <3>1. Sound(w, rec, value)
      BY <2>3, <2>6, <2>7 DEF Sound
    <3>2. Outcome(w, rec)
      BY <1>1, <2>3, <2>4, <2>7, <2>9, <3>1, WaitsOutcome
    <3>3. Taken(w)
      BY <1>1, <2>3, <2>7, <3>2, OutcomeTaken
    <3> QED BY <1>1, <2>9, <3>3 DEF TypesInv
  <2>10. \/ rec.todo = {} /\ CloudDone(w, rec, value)
         \/ Waits(w, rec, value) /\ verifies' = verifies
    BY <2>1
  <2> QED BY <2>8, <2>9, <2>10
<1> QED BY <1>3, <1>4

LEMMA ControlFailsTaken ==
  ASSUME BitInv, NEW w \in Calls, ControlFails(w)
  PROVE  Taken(w)
<1>1. /\ call[w].pc = "control" /\ TypesInv /\ call[w] \in CallRec /\ Sound(w, call[w], device)
      /\ device \in SUBSET Bits
  BY CallFacts DEF ControlFails, BitInv
<1>2. ~call[w].acknowledged /\ (call[w].undisturbed => Aimed(w, call[w]) /\ Between(call[w], device))
  BY <1>1 DEF Sound, Writing
<1>3. Ready(w, call[w], device)
  BY <1>1, <1>2 DEF Ready
<1>4. Outcome(w, call[w])
  BY <1>1, <1>3, FallsBackOutcome DEF ControlFails
<1> QED BY <1>1, <1>2, <1>4, OutcomeTaken

-----------------------------------------------------------------------------
(* Every step.                                                             *)

\* A step beside the calls: none has a part in it, but the front panel disturbs all.
Beside ==
  /\ device' \in SUBSET Bits /\ cache' \in (SUBSET Bits) \union {None}
  /\ \/ device' = device /\ call' = call
     \/ call' = [w \in Calls |-> IF call[w].pc = "idle" THEN IdleCall
                               ELSE [call[w] EXCEPT !.undisturbed = FALSE]]

Others == [bits : SUBSET Bits, observed : SUBSET Bits] \union {None}

Frame ==
  /\ scenario' = scenario /\ report' \in SUBSET Bits /\ active' \in Protocols
  /\ verifies' \subseteq VerifyRec /\ poll' \in Others

LEMMA VerifyStep ==
  ASSUME BitInv, NEW v \in verifies, VerifyRead(v)
  PROVE  Frame /\ Beside
<1>1. TypesInv /\ v \in VerifyRec /\ v.actual \in (SUBSET Bits) \union {None}
  BY DEF BitInv, TypesInv, VerifyRec
<1>2. PICK observed \in (SUBSET Bits) \union {None} :
        LET failed == observed = None \/ (scenario.kind = "whole" /\ observed # Bits)
            actual == IF failed THEN v.actual ELSE Bitfield(observed)
            ended == (~failed /\ actual = v.want) \/ v.left = 1
        IN /\ IF ended /\ actual \notin {None, v.want} THEN Shows(actual) ELSE UNCHANGED <<cache, shown>>
           /\ verifies' = (verifies \ {v}) \union
                            (IF ended THEN {} ELSE {[v EXCEPT !.left = 1, !.actual = actual]})
  BY DEF VerifyRead
<1> DEFINE failed == observed = None \/ (scenario.kind = "whole" /\ observed # Bits)
           actual == IF failed THEN v.actual ELSE Bitfield(observed)
           ended == (~failed /\ actual = v.want) \/ v.left = 1
           next == [v EXCEPT !.left = 1, !.actual = actual]
<1>3. actual \in (SUBSET Bits) \union {None}
  BY <1>1, BitfieldFacts
<1>4. /\ cache' \in {cache, actual} /\ (cache' # cache => actual # None)
      /\ verifies' \subseteq verifies \union {next}
  BY <1>2 DEF Shows
<1> HIDE DEF actual
<1>5. next \in VerifyRec
  BY <1>1, <1>3 DEF VerifyRec
<1> HIDE DEF next
<1>6. /\ scenario' = scenario /\ device' = device /\ report' = report /\ active' = active
      /\ call' = call /\ poll' = poll
  BY DEF VerifyRead, world
<1> QED BY <1>1, <1>3, <1>4, <1>5, <1>6 DEF TypesInv, Frame, Beside, Others

LEMMA PollStep ==
  ASSUME BitInv, ModbusPoll \/ CloudPollAnswered \/ CloudPollLands
  PROVE  Frame /\ Beside
<1>1. TypesInv
  BY DEF BitInv
<1>2. CASE ModbusPoll
  BY <1>1, <1>2 DEF ModbusPoll, Shows, world, TypesInv, Frame, Beside, Others
<1>3. CASE CloudPollAnswered
  <2>1. PICK observed \in SUBSET Bits : poll' = [bits |-> Bitfield(observed), observed |-> observed]
    BY <1>3 DEF CloudPollAnswered
  <2>2. poll' \in Others
    BY <1>1, <2>1, BitfieldFacts DEF Others
  <2> QED BY <1>1, <1>3, <2>2 DEF CloudPollAnswered, world, TypesInv, Frame, Beside
<1>4. CASE CloudPollLands
  <2>1. poll \in [bits : SUBSET Bits, observed : SUBSET Bits] /\ poll' = None
    BY <1>1, <1>4 DEF CloudPollLands, TypesInv
  <2>2. Merged \in (SUBSET Bits) \union {None}
    BY <1>1, <2>1 DEF Merged, TypesInv
  <2>3. cache' \in {cache, Merged}
    BY <1>4 DEF CloudPollLands, Shows
  <2>4. /\ scenario' = scenario /\ device' = device /\ report' = report /\ active' = active
        /\ call' = call /\ verifies' = verifies
    BY <1>4 DEF CloudPollLands, world
  <2> QED BY <1>1, <2>1, <2>2, <2>3, <2>4 DEF TypesInv, Frame, Beside, Others
<1> QED BY <1>2, <1>3, <1>4

LEMMA OutsideStep ==
  ASSUME BitInv,
         CloudCatchesUp \/ DeviceChanges \/ HubSwitches \/ Disconnects \/ Connects \/ UNCHANGED vars
  PROVE  Frame /\ Beside
<1>1. TypesInv
  BY DEF BitInv
<1>2. CASE DeviceChanges
  <2>1. device' \in SUBSET Bits
    BY <1>1, <1>2, ScenarioFacts DEF DeviceChanges
  <2>2. call' = [w \in Calls |-> IF call[w].pc = "idle" THEN IdleCall
                               ELSE [call[w] EXCEPT !.undisturbed = FALSE]]
    BY <1>2 DEF DeviceChanges
  <2> QED BY <1>1, <1>2, <2>1, <2>2 DEF DeviceChanges, TypesInv, Frame, Beside, Others
<1>3. CASE CloudCatchesUp
  BY <1>1, <1>3 DEF CloudCatchesUp, TypesInv, Frame, Beside, Others
<1>4. CASE HubSwitches \/ Disconnects \/ Connects \/ UNCHANGED vars
  <2>1. /\ scenario' = scenario /\ device' = device /\ report' = report /\ cache' = cache
        /\ call' = call /\ verifies' = verifies /\ poll' = poll
    BY <1>4 DEF HubSwitches, Disconnects, Connects, vars, world
  <2>2. active' \in Protocols
    BY <1>1, <1>4 DEF HubSwitches, Disconnects, Connects, vars, TypesInv, Other, Protocols
  <2> QED BY <1>1, <2>1, <2>2 DEF TypesInv, Frame, Beside, Others
<1> QED BY <1>2, <1>3, <1>4

LEMMA CallStep ==
  ASSUME BitInv, NEW w \in Calls,
         \/ Toggle(w) \/ WriteWhole(w)
         \/ ModbusWritten(w) \/ ModbusFails(w) \/ OldValueRead(w) \/ OldValueReadFails(w)
         \/ ControlAccepted(w) \/ ControlFails(w)
  PROVE  Frame /\ Taken(w)
<1>1. TypesInv
  BY DEF BitInv
<1>2. Taken(w) /\ (ControlAccepted(w) => verifies' \subseteq VerifyRec)
  BY ToggleTaken, WriteWholeTaken, ModbusTaken, OldValueTaken,
     ControlAcceptedTaken, ControlFailsTaken
<1>3. /\ scenario' = scenario /\ report' = report /\ active' = active /\ poll' = poll
      /\ verifies' = verifies \/ ControlAccepted(w)
  BY DEF Toggle, WriteWhole, ModbusWritten, ModbusFails, OldValueRead,
         OldValueReadFails, ControlAccepted, ControlFails
<1> QED BY <1>1, <1>2, <1>3 DEF TypesInv, Frame, Others

LEMMA Steps ==
  ASSUME BitInv, [Next]_vars
  PROVE  Frame /\ (Beside \/ \E w \in Calls : Taken(w))
<1>1. CASE \E v \in verifies : VerifyRead(v)
  BY <1>1, VerifyStep
<1>2. CASE ModbusPoll \/ CloudPollAnswered \/ CloudPollLands
  BY <1>2, PollStep
<1>3. CASE \/ CloudCatchesUp \/ DeviceChanges \/ HubSwitches \/ Disconnects \/ Connects
           \/ UNCHANGED vars
  BY <1>3, OutsideStep
<1>4. ASSUME NEW w \in Calls,
             \/ Toggle(w) \/ WriteWhole(w)
             \/ ModbusWritten(w) \/ ModbusFails(w) \/ OldValueRead(w) \/ OldValueReadFails(w)
             \/ ControlAccepted(w) \/ ControlFails(w)
      PROVE  Frame /\ \E x \in Calls : Taken(x)
  BY <1>4, CallStep
<1> QED BY <1>1, <1>2, <1>3, <1>4 DEF Next

-----------------------------------------------------------------------------
(* The invariant.                                                          *)

LEMMA IdleSound ==
  ASSUME TypesInv, NEW w, NEW dev
  PROVE  IdleCall \in CallRec /\ Sound(w, IdleCall, dev)
BY DEF IdleCall, CallRec, Sound, Writing

\* A call that has been disturbed promises nothing any more.
LEMMA DisturbedSound ==
  ASSUME NEW w, NEW rec \in CallRec, NEW dev, Sound(w, rec, dev), rec.pc # "idle",
         NEW dev2, NEW same \in BOOLEAN, same => dev2 = dev,
         NEW new, new = [rec EXCEPT !.undisturbed = @ /\ same]
  PROVE  /\ new \in CallRec /\ Sound(w, new, dev2) /\ new.acknowledged = rec.acknowledged
         /\ new.undisturbed = (rec.undisturbed /\ same)
<1>1. /\ new \in CallRec /\ new.pc = rec.pc /\ new.on = rec.on /\ new.want = rec.want
      /\ new.todo = rec.todo /\ new.old = rec.old /\ new.began = rec.began
      /\ new.acknowledged = rec.acknowledged /\ new.undisturbed = (rec.undisturbed /\ same)
  BY DEF CallRec
<1>2. Sound(w, new, dev2)
  BY <1>1 DEF Sound, Aimed, Between
<1> QED BY <1>1, <1>2

\* A call that does not step itself.
LEMMA BystanderKept ==
  ASSUME BitInv, NEW w \in Calls, NEW same \in BOOLEAN, same => device' = device,
         call'[w] = IF call[w].pc = "idle" THEN IdleCall
                    ELSE [call[w] EXCEPT !.undisturbed = @ /\ same]
  PROVE  /\ call'[w] \in CallRec /\ Sound(w, call'[w], device')
         /\ call[w].pc # "idle" => ~call'[w].acknowledged /\ (call'[w].undisturbed => device' = device)
<1>1. TypesInv /\ call[w] \in CallRec /\ Sound(w, call[w], device)
  BY CallFacts DEF BitInv
<1>2. CASE call[w].pc = "idle"
  BY <1>1, <1>2, IdleSound
<1>3. CASE call[w].pc # "idle"
  <2>1. ~call[w].acknowledged
    BY <1>1, <1>3 DEF Sound
  <2> QED BY <1>1, <1>3, <2>1, DisturbedSound
<1> QED BY <1>2, <1>3

LEMMA Kept ==
  ASSUME BitInv, Beside \/ \E w \in Calls : Taken(w)
  PROVE  /\ device' \in SUBSET Bits /\ cache' \in (SUBSET Bits) \union {None}
         /\ call' \in [Calls -> CallRec]
         /\ \A w \in Calls :
              /\ Sound(w, call'[w], device')
              /\ \/ Taken(w)
                 \/ call'[w] = call[w]
                 \/ call[w].pc # "idle" =>
                      ~call'[w].acknowledged /\ (call'[w].undisturbed => device' = device)
<1>1. CASE device' = device /\ call' = call /\ Beside
  BY <1>1, CallFacts DEF Beside, BitInv, TypesInv
<1>2. CASE /\ Beside
           /\ call' = [w \in Calls |-> IF call[w].pc = "idle" THEN IdleCall
                                     ELSE [call[w] EXCEPT !.undisturbed = FALSE]]
  <2>1. ASSUME NEW w \in Calls
        PROVE  /\ call'[w] \in CallRec /\ Sound(w, call'[w], device')
               /\ call[w].pc # "idle" =>
                    ~call'[w].acknowledged /\ (call'[w].undisturbed => device' = device)
    <3>1. [call[w] EXCEPT !.undisturbed = FALSE] = [call[w] EXCEPT !.undisturbed = @ /\ FALSE]
      OBVIOUS
    <3>2. call'[w] = IF call[w].pc = "idle" THEN IdleCall
                     ELSE [call[w] EXCEPT !.undisturbed = @ /\ FALSE]
      BY <1>2, <3>1
    <3> QED BY <3>2, BystanderKept
  <2> QED BY <1>2, <2>1 DEF Beside
<1>3. ASSUME NEW w \in Calls, Taken(w)
      PROVE  /\ device' \in SUBSET Bits /\ cache' \in (SUBSET Bits) \union {None}
             /\ call' \in [Calls -> CallRec]
             /\ \A x \in Calls :
                  /\ Sound(x, call'[x], device')
                  /\ \/ Taken(x)
                     \/ call[x].pc # "idle" =>
                          ~call'[x].acknowledged /\ (call'[x].undisturbed => device' = device)
  <2>1. ASSUME NEW x \in Calls, x # w
        PROVE  /\ call'[x] \in CallRec /\ Sound(x, call'[x], device')
               /\ call[x].pc # "idle" =>
                    ~call'[x].acknowledged /\ (call'[x].undisturbed => device' = device)
    <3> DEFINE same == device' = device
    <3>1. same \in BOOLEAN /\ (same => device' = device)
      OBVIOUS
    <3>2. call'[x] = IF call[x].pc = "idle" THEN IdleCall
                     ELSE [call[x] EXCEPT !.undisturbed = @ /\ same]
      BY <1>3, <2>1 DEF Taken, Bystanders
    <3> HIDE DEF same
    <3> QED BY <3>1, <3>2, BystanderKept
  <2>2. call'[w] \in CallRec /\ Sound(w, call'[w], device') /\ call' = [x \in Calls |-> call'[x]]
    BY <1>3 DEF Taken
  <2> QED BY <1>3, <2>1, <2>2 DEF Taken
<1> QED BY <1>1, <1>2, <1>3 DEF Beside

LEMMA SameScenario ==
  ASSUME scenario' = scenario
  PROVE  /\ Bits' = Bits /\ Switches' = Switches /\ CallRec' = CallRec /\ VerifyRec' = VerifyRec
         /\ \A w \in Calls : Sound(w, call'[w], device') => Sound(w, call[w], device)'
BY DEF Bits, Switches, CallRec, VerifyRec, Sound, Aimed, Between, Toggled, Flag, Differing

LEMMA Initial ==
  ASSUME Init
  PROVE  BitInv
<1>1. TypesInv
  <2>1. scenario \in Scenarios /\ device \in scenario.states /\ cache \in {None, device}
    BY DEF Init
  <2>2. device \in SUBSET Bits
    BY <2>1, BitAssumption DEF Bits
  <2>3. IdleCall \in CallRec
    BY DEF IdleCall, CallRec
  <2> QED BY <2>1, <2>2, <2>3 DEF Init, TypesInv
<1>2. ASSUME NEW w \in Calls
      PROVE  Sound(w, call[w], device)
  BY <1>1, IdleSound DEF Init
<1> QED BY <1>1, <1>2 DEF BitInv, CallsInv

LEMMA Preserved ==
  ASSUME BitInv, [Next]_vars
  PROVE  BitInv'
<1>1. Frame /\ (Beside \/ \E w \in Calls : Taken(w))
  BY Steps
<1>2. /\ device' \in SUBSET Bits /\ cache' \in (SUBSET Bits) \union {None}
      /\ call' \in [Calls -> CallRec] /\ \A w \in Calls : Sound(w, call'[w], device')
  BY <1>1, Kept
<1>3. scenario' = scenario
  BY <1>1 DEF Frame
<1>4. TypesInv'
  BY <1>1, <1>2, <1>3, SameScenario DEF BitInv, TypesInv, Frame, Others
<1>5. CallsInv'
  BY <1>2, <1>3, SameScenario DEF CallsInv
<1> QED BY <1>4, <1>5 DEF BitInv

\* In every behaviour a call that is under way, unless disturbed, is on a way that leads
\* from what the device held when it was made to what was asked for, and what is still
\* to be sent makes up for what the device lacks.
THEOREM BitsAimed == Spec => []BitInv
<1>1. Init => BitInv
  BY Initial
<1>2. BitInv /\ [Next]_vars => BitInv'
  BY Preserved
<1> QED BY <1>1, <1>2, PTL DEF Spec

\* The two properties, for one step.
LEMMA StepKeepsAndApplies ==
  ASSUME BitInv, [Next]_vars, NEW w \in Calls, call[w].pc # "idle", call'[w].undisturbed
  PROVE  /\ w \in Switches /\ call'[w] # call[w] =>
              Differing(device, device')
                \subseteq {scenario.bit[w]} \union scenario.conflicts[scenario.bit[w]]
         /\ call'[w].acknowledged =>
              IF w \in Switches
              THEN /\ IsOn(w, device') = call[w].on
                   /\ call[w].on => scenario.conflicts[scenario.bit[w]] \intersect device' = {}
              ELSE device' = call[w].want
<1>1. \/ Taken(w)
      \/ call'[w] = call[w]
      \/ ~call'[w].acknowledged /\ (call'[w].undisturbed => device' = device)
  BY Steps, Kept
<1>2. CASE Taken(w)
  BY <1>2 DEF Taken
<1>3. CASE call'[w] = call[w]
  BY <1>3, CallFacts DEF Sound
<1>4. CASE ~call'[w].acknowledged /\ device' = device
  BY <1>4, DifferingFacts
<1> QED BY <1>1, <1>2, <1>3, <1>4

\* No switch ever changes a bit that is neither its own nor one it conflicts with, by
\* either protocol, whatever part of it fails and across a fallback, unless disturbed.
THEOREM BystandersKept == Spec => OthersKept
<1> DEFINE Kept1 ==
      \A s \in Switches :
        call[s].pc # "idle" /\ call'[s] # call[s] /\ call'[s].undisturbed =>
          Differing(device, device')
            \subseteq {scenario.bit[s]} \union scenario.conflicts[scenario.bit[s]]
<1>1. BitInv /\ [Next]_vars => [Kept1]_vars
  <2> SUFFICES ASSUME BitInv, [Next]_vars
               PROVE  Kept1
    OBVIOUS
  <2> QED BY StepKeepsAndApplies, ScenarioFacts DEF BitInv
<1> HIDE DEF Kept1
<1>2. Spec => [][Kept1]_vars
  BY <1>1, BitsAimed, PTL DEF Spec
<1> QED BY <1>2 DEF OthersKept, Kept1

\* What is acknowledged, and was not disturbed, has been carried out in full.
THEOREM AcknowledgedApplied == Spec => WritesApplied
<1> DEFINE Applied1 ==
      \A w \in Calls :
        call[w].pc # "idle" /\ call'[w].acknowledged /\ call'[w].undisturbed =>
          IF w \in Switches
          THEN /\ IsOn(w, device') = call[w].on
               /\ call[w].on => scenario.conflicts[scenario.bit[w]] \intersect device' = {}
          ELSE device' = call[w].want
<1>1. BitInv /\ [Next]_vars => [Applied1]_vars
  <2> SUFFICES ASSUME BitInv, [Next]_vars
               PROVE  Applied1
    OBVIOUS
  <2> QED BY StepKeepsAndApplies
<1> HIDE DEF Applied1
<1>2. Spec => [][Applied1]_vars
  BY <1>1, BitsAimed, PTL DEF Spec
<1> QED BY <1>2 DEF WritesApplied, Applied1
=============================================================================
