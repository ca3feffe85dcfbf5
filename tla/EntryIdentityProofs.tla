-------------------------- MODULE EntryIdentityProofs --------------------------
(***************************************************************************)
(* Proofs about entries and the entity registry, for any number of         *)
(* entries, serials, keys and events.                                      *)
(***************************************************************************)
EXTENDS EntryIdentity, WellFoundedInduction, TLAPS

Uids ==
  [kind : {"old"}, name : Entries, key : Keys]
    \union [kind : {"dict"}, name : Editions, key : Keys]
    \union [kind : {"new"}, name : Serials, key : Keys]

Records == [uid : Uids, owner : Entries, created : Nat \ {0}]

EntryState ==
  [phase : {"absent", "unloaded", "setting", "loaded", "refused", "failed"}, version : 2..4,
   unique : Serials \union {NoSerial}, serial : Serials \union {NoSerial}, featured : BOOLEAN,
   using : Serials \union {NoSerial}, built : BOOLEAN, reload : BOOLEAN, moved : BOOLEAN]

IdentityTypeOK ==
  /\ entry \in [Entries -> EntryState]
  /\ registry \in SUBSET Records
  /\ made \in Nat
  /\ seen \in SUBSET (Entries \X Keys \X (Nat \ {0}))

-----------------------------------------------------------------------------
(* The inductive invariant.                                                *)

\* The registry has one entity of an ID.
Distinct(reg) == \A r, x \in reg : r.uid = x.uid => r = x

\* Entities with an old ID are the first ones of the entry the ID names.
OldFirst(reg) ==
  \A r \in reg : r.uid.kind = "old" => r.uid = Old(r.owner, r.uid.key) /\ r.created = 1

\* The entities of an entry whose inverter has not been replaced have IDs it can
\* migrate, or those made from its serial.
OwnersInv ==
  \A r \in registry :
    /\ Present(r.owner)
    /\ r.uid.kind = "new" /\ ~entry[r.owner].moved => r.uid.name = entry[r.owner].serial

\* Every entity is remembered; what is remembered is of entries there are.
SeenInv ==
  /\ \A r \in registry : <<r.owner, r.uid.key, r.created>> \in seen
  /\ \A t \in seen : Present(t[1])

\* What shows that an entity of e as old as c is still there: it has its old ID, or an
\* older one has the new ID.
Shown(x, e, k, c) ==
  \/ x.uid = New(entry[e].serial, k) /\ x.created <= c
  \/ x.uid = Old(e, k) /\ x.created = c
  \/ x.uid.kind = "dict" /\ x.owner = e /\ x.uid.key = k /\ x.created = c

ShownInv ==
  \A t \in seen : ~entry[t[1]].moved => \E x \in registry : Shown(x, t[1], t[2], t[3])

\* The set-up has read the serial the entry still has, and leaves no ID made from a
\* definition.
UsingInv ==
  \A e \in Entries :
    /\ entry[e].phase \in {"setting", "loaded"} =>
         /\ entry[e].using \in Serials
         /\ ~entry[e].moved => entry[e].using = entry[e].serial
    /\ entry[e].phase = "loaded" => \A r \in registry : r.uid.kind = "dict" => r.owner # e

IdentityInv ==
  /\ IdentityTypeOK /\ UniqueSerials
  /\ Distinct(registry) /\ OldFirst(registry)
  /\ OwnersInv /\ SeenInv /\ ShownInv /\ UsingInv

-----------------------------------------------------------------------------
(* Lemmas about the migrations.                                            *)

LEMMA UidFacts ==
  \A u \in Uids :
    /\ u.kind \in {"old", "dict", "new"} /\ u.key \in Keys
    /\ u.kind = "old" => u.name \in Entries
    /\ u.kind = "new" => u.name \in Serials
    /\ \A s, k : u = New(s, k) <=> u.kind = "new" /\ u.name = s /\ u.key = k
    /\ \A e, k : u = Old(e, k) <=> u.kind = "old" /\ u.name = e /\ u.key = k
  BY DEF Uids, New, Old

LEMMA NewFacts ==
  ASSUME NEW s \in Serials, NEW k \in Keys
  PROVE  New(s, k) \in Uids /\ New(s, k).kind = "new" /\ New(s, k).name = s /\ New(s, k).key = k
  BY DEF Uids, New

\* An entity that gets another ID.
LEMMA Renamed ==
  ASSUME NEW r \in Records, NEW u \in Uids
  PROVE  LET x == [r EXCEPT !.uid = u]
         IN x \in Records /\ x.uid = u /\ x.owner = r.owner /\ x.created = r.created
  BY DEF Records

LEMMA RecordFacts ==
  ASSUME NEW r \in Records, NEW x \in Records
  PROVE  /\ r.uid \in Uids /\ r.owner \in Entries /\ r.created \in Nat \ {0}
         /\ r.uid = x.uid /\ r.owner = x.owner /\ r.created = x.created => r = x
  BY DEF Records

\* Some of any entities is the oldest.
LEMMA Oldest ==
  ASSUME NEW S \in SUBSET Records, S # {}
  PROVE  \E r \in S : \A x \in S : r.created <= x.created
<1> DEFINE ages == {r.created : r \in S}
<1>1. ages \in SUBSET Nat /\ ages # {}
  BY DEF Records
<1>2. \E n \in ages : \A m \in ages : ~(<<m, n>> \in OpToRel(<, Nat))
  BY <1>1, NatLessThanWellFounded, WFMin
<1>3. OpToRel(<, Nat) = {ss \in Nat \X Nat : ss[1] < ss[2]}
  BY DEF OpToRel
<1>4. PICK n \in ages : \A m \in ages : n <= m
  <2> HIDE DEF ages
  <2>1. \A n, m \in Nat : ~(<<m, n>> \in {ss \in Nat \X Nat : ss[1] < ss[2]}) => n <= m
    OBVIOUS
  <2> QED BY <1>1, <1>2, <1>3, <2>1
<1> QED BY <1>4

\* What the two migrations have in common: the entities of e that get a new ID keep
\* their owner and age, and those that disappear leave an older one with the new ID.
Migrated(new, reg, e, s) ==
  /\ new \in SUBSET Records /\ Distinct(new)
  /\ \A r \in new :
       \/ r \in reg
       \/ /\ r.uid = New(s, r.uid.key) /\ r.owner = e
          /\ \E x \in reg : x.owner = e /\ x.uid.key = r.uid.key /\ x.created = r.created
  /\ \A x \in reg :
       \/ x \in new
       \/ \E y \in new :
            /\ y.uid = New(s, x.uid.key) /\ y.created <= x.created
            /\ \/ x.uid = y.uid
               \/ x.uid = Old(e, x.uid.key)
               \/ x.uid.kind = "dict" /\ x.owner = e

LEMMA SerialMigration ==
  ASSUME NEW reg \in SUBSET Records, Distinct(reg), OldFirst(reg),
         NEW e \in Entries, NEW s \in Serials
  PROVE  Migrated(SerialMigrated(reg, e, s), reg, e, s)
<1> DEFINE taken == {k \in Enabled(entry[e].featured) \ Numbers : \E r \in reg : r.uid = Old(e, k)}
           left == {r \in reg : \A k \in taken : r.uid # New(s, k)}
           renamed(r) == \E k \in taken : r.uid = Old(e, k)
           image(r) == IF renamed(r) THEN [r EXCEPT !.uid = New(s, r.uid.key)] ELSE r
           new == {image(r) : r \in left}
<1>1. SerialMigrated(reg, e, s) = new
  BY DEF SerialMigrated
<1>2. taken \subseteq Keys
  BY DEF Enabled
<1>3. ASSUME NEW r \in reg
      PROVE  /\ image(r) \in Records /\ image(r).owner = r.owner /\ image(r).created = r.created
             /\ image(r).uid = IF renamed(r) THEN New(s, r.uid.key) ELSE r.uid
             /\ ~renamed(r) => image(r) = r
  <2>1. r.uid.key \in Keys /\ New(s, r.uid.key) \in Uids
    BY UidFacts, RecordFacts, NewFacts
  <2> QED BY <2>1, Renamed
<1>4. ASSUME NEW r \in reg, renamed(r)
      PROVE  /\ r.uid = Old(e, r.uid.key) /\ r.uid.key \in taken /\ r.owner = e /\ r.created = 1
             /\ r \in left
  <2>1. PICK k \in taken : r.uid = Old(e, k)
    BY <1>4
  <2>2. r.uid.kind = "old" /\ r.uid.name = e /\ r.uid.key = k
    BY <2>1, UidFacts, RecordFacts
  <2>3. r.uid = Old(r.owner, r.uid.key) /\ r.created = 1
    BY <2>2 DEF OldFirst
  <2>4. r.owner = e
    BY <2>2, <2>3, UidFacts, RecordFacts
  <2>5. r \in left
    BY <2>2, UidFacts, RecordFacts
  <2> QED BY <2>1, <2>2, <2>3, <2>4, <2>5
<1> HIDE DEF taken, image, renamed
<1>5. new \in SUBSET Records
  BY <1>3
<1>6. Distinct(new)
  <2> SUFFICES ASSUME NEW r \in left, NEW x \in left, image(r).uid = image(x).uid
               PROVE  image(r) = image(x)
    BY DEF Distinct
  <2>1. CASE renamed(r) /\ renamed(x)
    <3>1. r.uid.key = x.uid.key
      BY <1>3, <2>1, UidFacts, RecordFacts, NewFacts
    <3>2. r.uid = x.uid
      BY <1>4, <2>1, <3>1
    <3> QED BY <3>2 DEF Distinct
  <2>2. CASE ~renamed(r) /\ ~renamed(x)
    BY <1>3, <2>2 DEF Distinct
  <2>3. CASE renamed(r) /\ ~renamed(x)
    BY <1>3, <1>4, <2>3
  <2>4. CASE ~renamed(r) /\ renamed(x)
    BY <1>3, <1>4, <2>4
  <2> QED BY <2>1, <2>2, <2>3, <2>4
<1>7. ASSUME NEW r \in new
      PROVE  \/ r \in reg
             \/ /\ r.uid = New(s, r.uid.key) /\ r.owner = e
                /\ \E x \in reg : x.owner = e /\ x.uid.key = r.uid.key /\ x.created = r.created
  <2>1. PICK x \in left : r = image(x)
    OBVIOUS
  <2>2. CASE renamed(x)
    <3>1. r.uid = New(s, x.uid.key) /\ r.owner = e /\ r.created = x.created /\ x.owner = e
      BY <1>3, <1>4, <2>1, <2>2
    <3>2. r.uid.key = x.uid.key
      BY <3>1, UidFacts, RecordFacts, NewFacts
    <3> QED BY <3>1, <3>2
  <2>3. CASE ~renamed(x)
    BY <1>3, <2>1, <2>3
  <2> QED BY <2>2, <2>3
<1>8. ASSUME NEW x \in reg
      PROVE  \/ x \in new
             \/ \E y \in new :
                  /\ y.uid = New(s, x.uid.key) /\ y.created <= x.created
                  /\ \/ x.uid = y.uid
                     \/ x.uid = Old(e, x.uid.key)
                     \/ x.uid.kind = "dict" /\ x.owner = e
  <2>1. CASE x \notin left
    <3>1. PICK k \in taken : x.uid = New(s, k)
      BY <2>1
    <3>2. PICK r \in reg : r.uid = Old(e, k) /\ renamed(r)
      BY <3>1 DEF taken, renamed
    <3>3. r.uid.key = k /\ x.uid.key = k
      BY <3>1, <3>2, UidFacts, RecordFacts
    <3>4. image(r) \in new /\ image(r).uid = New(s, k) /\ image(r).created = 1
      BY <1>3, <1>4, <3>2, <3>3
    <3>5. 1 <= x.created
      BY RecordFacts
    <3> QED BY <3>1, <3>3, <3>4, <3>5
  <2>2. CASE x \in left /\ renamed(x)
    <3>1. image(x) \in new /\ image(x).uid = New(s, x.uid.key) /\ image(x).created = x.created
      BY <1>3, <2>2
    <3>2. x.created <= x.created
      BY RecordFacts
    <3> QED BY <1>4, <2>2, <3>1, <3>2
  <2>3. CASE x \in left /\ ~renamed(x)
    BY <1>3, <2>3
  <2> QED BY <2>1, <2>2, <2>3
<1> HIDE DEF new
<1> QED BY <1>1, <1>5, <1>6, <1>7, <1>8 DEF Migrated

LEMMA DictMigration ==
  ASSUME NEW reg \in SUBSET Records, Distinct(reg), NEW e \in Entries, NEW s \in Serials
  PROVE  /\ Migrated(DictMigrated(reg, e, s), reg, e, s)
         /\ \A r \in DictMigrated(reg, e, s) : r.uid.kind = "dict" => r.owner # e
<1> DEFINE legacy(k) == {r \in reg : r.uid.kind = "dict" /\ r.owner = e /\ r.uid.key = k}
           all(k) == legacy(k) \union {r \in reg : r.uid = New(s, k)}
           keep(k) == CHOOSE r \in all(k) : \A x \in all(k) : r.created <= x.created
           found == {k \in Keys : legacy(k) # {}}
           moved(k) == [keep(k) EXCEPT !.uid = New(s, k)]
           gone == UNION {all(k) : k \in found}
           new == (reg \ gone) \union {moved(k) : k \in found}
<1>1. DictMigrated(reg, e, s) = new
  BY DEF DictMigrated
<1>2. ASSUME NEW k, NEW r \in all(k)
      PROVE  /\ r \in reg /\ r.uid.key = k
             /\ r.uid = New(s, k) \/ (r.uid.kind = "dict" /\ r.owner = e)
  BY UidFacts, RecordFacts
<1>3. ASSUME NEW k \in found
      PROVE  keep(k) \in all(k) /\ \A x \in all(k) : keep(k).created <= x.created
  <2>1. all(k) \in SUBSET Records /\ all(k) # {}
    OBVIOUS
  <2>2. \E r \in all(k) : \A x \in all(k) : r.created <= x.created
    <3> HIDE DEF all
    <3> QED BY <2>1, Oldest
  <2> HIDE DEF all
  <2> QED BY <2>2
<1>4. \A r \in reg : r.uid.kind = "dict" /\ r.owner = e => r.uid.key \in found /\ r \in all(r.uid.key)
  BY UidFacts, RecordFacts
<1>5. \A r \in reg : \A k : r.uid = New(s, k) => r \in all(k)
  OBVIOUS
<1> HIDE DEF legacy, all, keep, found
<1>6. found \subseteq Keys
  BY DEF found
<1>7. ASSUME NEW k \in found
      PROVE  /\ moved(k) \in Records /\ moved(k).uid = New(s, k)
             /\ moved(k).uid.key = k /\ moved(k).uid.kind = "new"
             /\ moved(k).owner = keep(k).owner /\ moved(k).created = keep(k).created
             /\ keep(k) \in reg /\ keep(k).uid.key = k
             /\ keep(k).uid = New(s, k) \/ keep(k).owner = e
  <2>1. keep(k) \in Records /\ New(s, k) \in Uids
    BY <1>2, <1>3, <1>6, NewFacts
  <2> QED BY <1>2, <1>3, <1>6, <2>1, Renamed, NewFacts
<1> HIDE DEF moved
<1>8. new \in SUBSET Records
  BY <1>7
<1>9. Distinct(new)
  <2> SUFFICES ASSUME NEW r \in new, NEW x \in new, r.uid = x.uid PROVE r = x
    BY DEF Distinct
  <2>1. ASSUME NEW y \in reg \ gone, NEW k \in found, y.uid = moved(k).uid PROVE FALSE
    BY <1>5, <1>7, <2>1
  <2>2. ASSUME NEW j \in found, NEW k \in found, moved(j).uid = moved(k).uid PROVE j = k
    BY <1>7, <2>2
  <2> QED BY <2>1, <2>2 DEF Distinct
<1>10. ASSUME NEW r \in new
       PROVE  \/ r \in reg
              \/ /\ r.uid = New(s, r.uid.key) /\ r.owner = e
                 /\ \E x \in reg : x.owner = e /\ x.uid.key = r.uid.key /\ x.created = r.created
  <2>1. CASE r \in reg
    BY <2>1
  <2>2. CASE r \notin reg
    <3>1. PICK k \in found : r = moved(k)
      BY <2>2
    <3>2. CASE keep(k).uid = New(s, k)
      BY <1>7, <3>1, <3>2, RecordFacts
    <3>3. CASE keep(k).owner = e
      BY <1>7, <3>1, <3>3
    <3> QED BY <1>7, <3>2, <3>3
  <2> QED BY <2>1, <2>2
<1>11. ASSUME NEW x \in reg
       PROVE  \/ x \in new
              \/ \E y \in new :
                   /\ y.uid = New(s, x.uid.key) /\ y.created <= x.created
                   /\ \/ x.uid = y.uid
                      \/ x.uid = Old(e, x.uid.key)
                      \/ x.uid.kind = "dict" /\ x.owner = e
  <2>1. CASE x \notin gone
    BY <2>1
  <2>2. CASE x \in gone
    <3>1. PICK k \in found : x \in all(k)
      BY <2>2
    <3>2. moved(k) \in new
      OBVIOUS
    <3>3. moved(k).created <= x.created
      BY <1>3, <1>7, <3>1
    <3> QED BY <1>2, <1>7, <3>1, <3>2, <3>3
  <2> QED BY <2>1, <2>2
<1>12. ASSUME NEW r \in new, r.uid.kind = "dict" PROVE r.owner # e
  BY <1>4, <1>7, <1>12
<1> HIDE DEF new
<1> QED BY <1>1, <1>8, <1>9, <1>10, <1>11, <1>12 DEF Migrated

\* The platforms change the owner of the IDs made from the serial, and add some.
LEMMA AddedFacts ==
  ASSUME NEW reg \in SUBSET Records, Distinct(reg), made \in Nat,
         NEW e \in Entries, NEW s \in Serials
  PROVE  LET new == Added(reg, e, s)
         IN /\ new \in SUBSET Records /\ Distinct(new)
            /\ \A r \in new : r \in reg \/ (r.owner = e /\ r.uid.kind = "new" /\ r.uid.name = s)
            /\ \A x \in reg : \E r \in new :
                 r.uid = x.uid /\ r.created = x.created /\ (r.uid.kind # "new" => r.owner = x.owner)
<1> DEFINE provided == \E d \in Entries \ {e} : entry[d].phase = "loaded" /\ entry[d].using = s
           ids == {New(s, k) : k \in Built(e)}
           missing == {uid \in ids : \A r \in reg : r.uid # uid}
           image(r) == IF r.uid \in ids /\ ~provided THEN [r EXCEPT !.owner = e] ELSE r
           added(uid) == Record(uid, e, made + 1)
           new == {image(r) : r \in reg} \union {added(uid) : uid \in missing}
<1>1. Added(reg, e, s) = new
  BY DEF Added
<1>2. \A uid \in ids : uid \in Uids /\ uid.kind = "new" /\ uid.name = s
  BY NewFacts DEF Built, Enabled
<1> HIDE DEF ids, provided
<1>3. ASSUME NEW r \in reg
      PROVE  /\ image(r) \in Records /\ image(r).uid = r.uid /\ image(r).created = r.created
             /\ image(r) # r => image(r).owner = e /\ r.uid \in ids
  BY DEF Records
<1>4. ASSUME NEW uid \in missing
      PROVE  /\ added(uid) \in Records /\ added(uid).uid = uid /\ added(uid).owner = e
             /\ uid \in ids /\ \A r \in reg : r.uid # uid
  BY <1>2 DEF Records, Record
<1> HIDE DEF missing, image, added
<1>5. new \in SUBSET Records
  BY <1>3, <1>4
<1>6. Distinct(new)
  BY <1>3, <1>4 DEF Distinct
<1>7. \A r \in new : r \in reg \/ (r.owner = e /\ r.uid.kind = "new" /\ r.uid.name = s)
  BY <1>2, <1>3, <1>4
<1>8. ASSUME NEW x \in reg
      PROVE  \E r \in new :
               r.uid = x.uid /\ r.created = x.created /\ (r.uid.kind # "new" => r.owner = x.owner)
  BY <1>2, <1>3
<1> HIDE DEF new
<1> QED BY <1>1, <1>5, <1>6, <1>7, <1>8
-----------------------------------------------------------------------------
(* What a migration leaves of the invariant.                               *)

LEMMA TupleFacts ==
  ASSUME IdentityTypeOK, NEW t \in seen
  PROVE  /\ t[1] \in Entries /\ t[2] \in Keys /\ t[3] \in Nat \ {0}
         /\ t = <<t[1], t[2], t[3]>>
  BY DEF IdentityTypeOK

LEMMA MigratedParts ==
  ASSUME IdentityInv, NEW e \in Entries, NEW s \in Serials, NEW new,
         Migrated(new, registry, e, s),
         ~entry[e].moved => entry[e].serial = s
  PROVE  /\ new \in SUBSET Records /\ Distinct(new) /\ OldFirst(new)
         /\ \A r \in new :
              /\ Present(r.owner)
              /\ r.uid.kind = "new" /\ ~entry[r.owner].moved => r.uid.name = entry[r.owner].serial
              /\ <<r.owner, r.uid.key, r.created>> \in seen
              /\ r.uid.kind = "dict" => r \in registry
         /\ \A t \in seen : ~entry[t[1]].moved => \E x \in new : Shown(x, t[1], t[2], t[3])
<1> USE DEF IdentityInv
<1>1. new \in SUBSET Records /\ Distinct(new) /\ registry \in SUBSET Records
  BY DEF Migrated, IdentityTypeOK
<1>2. ASSUME NEW r \in new, r \notin registry
      PROVE  /\ r.uid.kind = "new" /\ r.uid.name = s /\ r.owner = e
             /\ \E x \in registry : x.owner = e /\ x.uid.key = r.uid.key /\ x.created = r.created
  <2>1. /\ r.uid = New(s, r.uid.key) /\ r.owner = e
        /\ \E x \in registry : x.owner = e /\ x.uid.key = r.uid.key /\ x.created = r.created
    BY <1>2 DEF Migrated
  <2> QED BY <1>1, <2>1, RecordFacts, UidFacts
<1>3. OldFirst(new)
  BY <1>2 DEF OldFirst
<1>4. ASSUME NEW r \in new
      PROVE  /\ Present(r.owner)
             /\ r.uid.kind = "new" /\ ~entry[r.owner].moved => r.uid.name = entry[r.owner].serial
             /\ <<r.owner, r.uid.key, r.created>> \in seen
             /\ r.uid.kind = "dict" => r \in registry
  <2>1. CASE r \in registry
    BY <2>1 DEF OwnersInv, SeenInv
  <2>2. CASE r \notin registry
    <3>1. PICK x \in registry : x.owner = e /\ x.uid.key = r.uid.key /\ x.created = r.created
      BY <1>2, <2>2
    <3>2. r.uid.kind = "new" /\ r.uid.name = s /\ r.owner = e
      BY <1>2, <2>2
    <3>3. <<r.owner, r.uid.key, r.created>> \in seen
      BY <3>1, <3>2 DEF SeenInv
    <3>4. Present(r.owner)
      BY <3>1, <3>2 DEF OwnersInv
    <3> QED BY <3>2, <3>3, <3>4
  <2> QED BY <2>1, <2>2
<1>5. ASSUME NEW t \in seen, ~entry[t[1]].moved PROVE \E x \in new : Shown(x, t[1], t[2], t[3])
  <2> DEFINE d == t[1]
             k == t[2]
             c == t[3]
  <2>1. d \in Entries /\ k \in Keys /\ c \in Nat \ {0}
    BY TupleFacts
  <2>2. PICK x \in registry : Shown(x, d, k, c)
    BY <1>5 DEF ShownInv
  <2>3. ~entry[d].moved
    BY <1>5
  <2> HIDE DEF d, k, c
  <2>4. x.uid \in Uids /\ x.uid.key = k /\ x.created <= c /\ x.created \in Nat
    BY <1>1, <2>1, <2>2, RecordFacts, UidFacts DEF Shown
  <2>5. CASE x \in new
    BY <2>2, <2>5 DEF d, k, c
  <2>6. CASE x \notin new
    <3>1. PICK y \in new :
            /\ y.uid = New(s, k) /\ y.created <= x.created
            /\ x.uid = y.uid \/ x.uid = Old(e, k) \/ (x.uid.kind = "dict" /\ x.owner = e)
      BY <2>4, <2>6 DEF Migrated
    <3>2. y.created <= c
      BY <1>1, <2>1, <2>4, <3>1, RecordFacts
    <3>3. s = entry[d].serial
      <4>1. CASE x.uid = y.uid
        <5>1. x.uid.kind = "new" /\ x.uid.name = s
          BY <2>4, <3>1, <4>1, UidFacts
        <5>2. x.uid = New(entry[d].serial, k)
          BY <2>2, <2>4, <5>1, UidFacts DEF Shown
        <5> QED BY <2>4, <5>1, <5>2, UidFacts
      <4>2. CASE x.uid = Old(e, k)
        <5>1. x.uid.kind = "old" /\ x.uid.name = e
          BY <2>4, <4>2, UidFacts
        <5>2. x.uid = Old(d, k)
          BY <2>2, <2>4, <5>1, UidFacts DEF Shown
        <5>3. d = e
          BY <2>4, <5>1, <5>2, UidFacts
        <5> QED BY <2>3, <5>3
      <4>3. CASE x.uid.kind = "dict" /\ x.owner = e
        <5>1. d = e
          BY <2>2, <2>4, <4>3, UidFacts DEF Shown
        <5> QED BY <2>3, <5>1
      <4> QED BY <3>1, <4>1, <4>2, <4>3
    <3> QED BY <3>1, <3>2, <3>3 DEF Shown, d, k, c
  <2> QED BY <2>5, <2>6
<1> QED BY <1>1, <1>3, <1>4, <1>5

\* An entity shows itself.
LEMMA SelfShown ==
  ASSUME NEW r \in Records, OldFirst({r}),
         r.uid.kind = "new" => r.uid.name = entry[r.owner].serial
  PROVE  Shown(r, r.owner, r.uid.key, r.created)
<1>1. r.uid \in Uids /\ r.created <= r.created
  BY RecordFacts
<1>2. CASE r.uid.kind = "new"
  BY <1>1, <1>2, UidFacts DEF Shown
<1>3. CASE r.uid.kind = "old"
  BY <1>3 DEF OldFirst, Shown
<1>4. CASE r.uid.kind = "dict"
  BY <1>4 DEF Shown
<1> QED BY <1>1, <1>2, <1>3, <1>4, UidFacts

LEMMA AbsentFacts ==
  /\ Absent \in EntryState /\ Absent.phase = "absent" /\ Absent.unique = NoSerial
  /\ ~Absent.moved
  BY DEF Absent, EntryState

\* An entry of an old version, and a new one.
LEMMA LegacyEntry ==
  ASSUME NEW s \in Serials \union {NoSerial}, NEW f \in BOOLEAN, NEW v \in 2..4
  PROVE  LET x == [Absent EXCEPT !.phase = "unloaded", !.version = v, !.serial = s, !.featured = f]
         IN x \in EntryState /\ x.phase = "unloaded"
<1> DEFINE x(rec) == [rec EXCEPT !.phase = "unloaded", !.version = v, !.serial = s, !.featured = f]
<1>1. \A rec \in EntryState : x(rec) \in EntryState /\ x(rec).phase = "unloaded"
  BY DEF EntryState
<1> HIDE DEF x
<1>2. x(Absent) \in EntryState /\ x(Absent).phase = "unloaded"
  BY <1>1, AbsentFacts
<1> QED BY <1>2 DEF x

LEMMA FreshEntry ==
  ASSUME NEW s \in Serials, NEW f \in BOOLEAN
  PROVE  LET x == [Absent EXCEPT !.phase = "unloaded", !.unique = s, !.serial = s, !.featured = f]
         IN x \in EntryState /\ x.phase = "unloaded" /\ x.unique = s
<1> DEFINE x(rec) == [rec EXCEPT !.phase = "unloaded", !.unique = s, !.serial = s, !.featured = f]
<1>1. \A rec \in EntryState : x(rec) \in EntryState /\ x(rec).phase = "unloaded" /\ x(rec).unique = s
  BY DEF EntryState
<1> HIDE DEF x
<1>2. x(Absent) \in EntryState /\ x(Absent).phase = "unloaded" /\ x(Absent).unique = s
  BY <1>1, AbsentFacts
<1> QED BY <1>2 DEF x

LEMMA NotLoadedEntry ==
  ASSUME NEW rec \in EntryState,
         NEW x \in {[rec EXCEPT !.phase = "refused"], [rec EXCEPT !.phase = "failed", !.version = 4]}
  PROVE  /\ x \in EntryState /\ x.phase \in {"refused", "failed"}
         /\ x.serial = rec.serial /\ x.moved = rec.moved /\ x.unique = rec.unique
<1>1. CASE x = [rec EXCEPT !.phase = "refused"]
  BY <1>1 DEF EntryState
<1>2. CASE x = [rec EXCEPT !.phase = "failed", !.version = 4]
  <2>1. 4 \in 2..4
    OBVIOUS
  <2> QED BY <1>2, <2>1 DEF EntryState
<1> QED BY <1>1, <1>2

\* Entries change, the registry does not.
LEMMA EntriesChange ==
  ASSUME IdentityInv, UNCHANGED <<registry, seen, made>>, entry' \in [Entries -> EntryState],
         \A e \in Entries : Present(e) =>
           /\ Present(e)'
           /\ ~entry'[e].moved => ~entry[e].moved /\ entry[e].serial \in {NoSerial, entry'[e].serial},
         \A e \in Entries :
           /\ entry'[e].phase \in {"setting", "loaded"} =>
                entry'[e].using \in Serials /\ (~entry'[e].moved => entry'[e].using = entry'[e].serial)
           /\ entry'[e].phase = "loaded" => entry[e].phase = "loaded",
         UniqueSerials'
  PROVE  IdentityInv'
<1> USE DEF IdentityInv
<1>1. IdentityTypeOK'
  BY DEF IdentityTypeOK
<1>2. \A r \in registry : r.uid \in Uids /\ r.owner \in Entries
  BY RecordFacts DEF IdentityTypeOK
<1>3. OwnersInv'
  BY <1>2, UidFacts, IdentityAssumption DEF OwnersInv
<1>4. SeenInv'
  BY TupleFacts DEF SeenInv
<1>5. ShownInv'
  <2> SUFFICES ASSUME NEW t \in seen, ~entry'[t[1]].moved
               PROVE  \E x \in registry : Shown(x, t[1], t[2], t[3])'
    BY DEF ShownInv
  <2>1. t[1] \in Entries /\ Present(t[1])
    BY TupleFacts DEF SeenInv
  <2>2. ~entry[t[1]].moved /\ entry[t[1]].serial \in {NoSerial, entry'[t[1]].serial}
    BY <2>1
  <2>3. PICK x \in registry : Shown(x, t[1], t[2], t[3])
    BY <2>2 DEF ShownInv
  <2>4. x.uid # New(NoSerial, t[2])
    BY <1>2, UidFacts, IdentityAssumption
  <2> QED BY <2>2, <2>3, <2>4 DEF Shown
<1>6. UsingInv'
  BY DEF UsingInv
<1> QED BY <1>1, <1>3, <1>4, <1>5, <1>6 DEF OldFirst, Distinct

-----------------------------------------------------------------------------
(* Every step preserves the invariant.                                     *)

LEMMA InitInv == Init => IdentityInv
<1> SUFFICES ASSUME Init PROVE IdentityInv
  OBVIOUS
<1>1. PICK v \in 2..4, s \in Serials \union {NoSerial}, f \in BOOLEAN :
        entry = [e \in Entries |-> IF e # Legacy THEN Absent ELSE
          [Absent EXCEPT !.phase = "unloaded", !.version = v, !.serial = s, !.featured = f]]
  BY DEF Init
<1>2. /\ entry \in [Entries -> EntryState]
      /\ \A e \in Entries :
           /\ entry[e].phase \in {"absent", "unloaded"} /\ (Present(e) <=> e = Legacy)
  <2> DEFINE legacy == [Absent EXCEPT !.phase = "unloaded", !.version = v, !.serial = s, !.featured = f]
  <2>1. legacy \in EntryState /\ legacy.phase = "unloaded"
    BY LegacyEntry
  <2>2. entry = [e \in Entries |-> IF e # Legacy THEN Absent ELSE legacy]
    BY <1>1
  <2> HIDE DEF legacy
  <2> QED BY <2>1, <2>2, AbsentFacts DEF Present
<1>3. ASSUME NEW r \in registry
      PROVE  /\ r \in Records /\ r.owner = Legacy
             /\ \/ r.uid = Old(Legacy, r.uid.key) /\ r.created = 1 /\ r.uid.kind = "old"
                \/ r.uid.kind = "dict" /\ r.created = 1 + r.uid.name
  <2>1. \/ \E k \in Keys : r = Record(Old(Legacy, k), Legacy, 1)
        \/ \E n \in Editions, k \in Keys : r = Record(Dict(n, k), Legacy, 1 + n)
    BY DEF Init, LegacyRegistries
  <2> QED BY <2>1, IdentityAssumption DEF Records, Uids, Record, Old, Dict, Editions
<1>4. seen = {<<r.owner, r.uid.key, r.created>> : r \in registry} /\ made = 3
  BY DEF Init
<1>5. IdentityTypeOK
  BY <1>2, <1>3, <1>4, RecordFacts, UidFacts DEF IdentityTypeOK
<1>6. UniqueSerials
  BY <1>2 DEF UniqueSerials
<1>7. Distinct(registry)
  <2> SUFFICES ASSUME NEW r \in registry, NEW x \in registry, r.uid = x.uid PROVE r = x
    BY DEF Distinct
  <2>1. r.owner = x.owner /\ r.created = x.created
    BY <1>3
  <2> QED BY <1>3, <2>1, RecordFacts
<1>8. OldFirst(registry)
  BY <1>3 DEF OldFirst
<1>9. OwnersInv
  BY <1>2, <1>3, IdentityAssumption DEF OwnersInv
<1>10. SeenInv
  BY <1>2, <1>3, <1>4, IdentityAssumption DEF SeenInv
<1>11. ShownInv
  BY <1>3, <1>4, SelfShown, <1>8 DEF ShownInv, OldFirst
<1>12. UsingInv
  BY <1>2 DEF UsingInv
<1> QED BY <1>5, <1>6, <1>7, <1>8, <1>9, <1>10, <1>11, <1>12 DEF IdentityInv

LEMMA LoadsInv == ASSUME IdentityInv, NEW e \in Entries, Loads(e) PROVE IdentityInv'
<1> USE DEF IdentityInv
<1> DEFINE s == entry[e].serial
           rec == entry[e]
<1>1. rec \in EntryState /\ rec.phase = "unloaded"
  BY DEF IdentityTypeOK, Loads
<1>2. CASE s = NoSerial
  <2>1. UNCHANGED registry /\ made' = made
    BY <1>2 DEF Loads
  <2>2. PICK new \in {[rec EXCEPT !.phase = "refused"], [rec EXCEPT !.phase = "failed", !.version = 4]} :
          entry' = [entry EXCEPT ![e] = new]
    BY <1>2 DEF Loads
  <2>3. /\ new \in EntryState /\ new.phase \in {"refused", "failed"} /\ new.serial = rec.serial
        /\ new.moved = rec.moved /\ new.unique = rec.unique
    BY <1>1, NotLoadedEntry
  <2> HIDE DEF rec
  <2>4. /\ entry' \in [Entries -> EntryState] /\ entry'[e] = new
        /\ \A d \in Entries \ {e} : entry'[d] = entry[d]
    BY <2>2, <2>3 DEF IdentityTypeOK
  <2>5. seen' = seen
    BY <2>1 DEF Loads, Seen, SeenInv
  <2>6. UniqueSerials'
    BY <1>1, <2>3, <2>4 DEF UniqueSerials, Present, rec
  <2>7. \A d \in Entries : Present(d) =>
          /\ Present(d)'
          /\ ~entry'[d].moved => ~entry[d].moved /\ entry[d].serial \in {NoSerial, entry'[d].serial}
    BY <2>3, <2>4 DEF Present, rec
  <2>8. \A d \in Entries :
          /\ entry'[d].phase \in {"setting", "loaded"} =>
               entry'[d].using \in Serials /\ (~entry'[d].moved => entry'[d].using = entry'[d].serial)
          /\ entry'[d].phase = "loaded" => entry[d].phase = "loaded"
    BY <2>3, <2>4 DEF UsingInv
  <2> QED BY <2>1, <2>4, <2>5, <2>6, <2>7, <2>8, EntriesChange
<1>3. CASE s # NoSerial
  <2>1. s \in Serials
    BY <1>1, <1>3 DEF EntryState
  <2> DEFINE u == UniqueId(e, s)
             new == [rec EXCEPT !.phase = "setting", !.version = 4, !.unique = u,
                                !.using = s, !.built = rec.featured]
  <2>2. /\ registry' = SerialMigrated(registry, e, s) \/ registry' = registry
        /\ entry' = [entry EXCEPT ![e] = new] /\ made' = made
    BY <1>3 DEF Loads
  <2>3. u \in Serials \union {NoSerial}
    BY <1>1, <2>1 DEF UniqueId, EntryState
  <2>4. /\ new \in EntryState /\ new.phase = "setting" /\ new.serial = s /\ new.moved = rec.moved
        /\ new.using = s /\ new.unique = u
    <3>1. rec.serial = s
      OBVIOUS
    <3> HIDE DEF rec, s, u
    <3>2. 4 \in 2..4
      OBVIOUS
    <3> QED BY <1>1, <2>1, <2>3, <3>1, <3>2 DEF EntryState
  <2> HIDE DEF new, rec
  <2>5. /\ entry' \in [Entries -> EntryState] /\ entry'[e] = new
        /\ \A d \in Entries \ {e} : entry'[d] = entry[d]
    BY <2>2, <2>4 DEF IdentityTypeOK
  <2>6. \A d \in Entries : /\ Present(d)' <=> Present(d)
                           /\ entry'[d].serial = entry[d].serial /\ entry'[d].moved = entry[d].moved
    BY <1>1, <2>4, <2>5 DEF Present, rec
  <2>7. Migrated(registry', registry, e, s)
    <3>1. Migrated(registry, registry, e, s)
      BY DEF Migrated, IdentityTypeOK
    <3>2. Migrated(SerialMigrated(registry, e, s), registry, e, s)
      BY <2>1, SerialMigration DEF IdentityTypeOK
    <3> QED BY <2>2, <3>1, <3>2
  <2>8. /\ registry' \in SUBSET Records /\ Distinct(registry') /\ OldFirst(registry')
        /\ \A r \in registry' :
             /\ Present(r.owner)
             /\ r.uid.kind = "new" /\ ~entry[r.owner].moved => r.uid.name = entry[r.owner].serial
             /\ <<r.owner, r.uid.key, r.created>> \in seen
             /\ r.uid.kind = "dict" => r \in registry
        /\ \A t \in seen : ~entry[t[1]].moved => \E x \in registry' : Shown(x, t[1], t[2], t[3])
    BY <2>1, <2>7, MigratedParts
  <2>9. seen' = seen
    BY <2>8 DEF Loads, Seen
  <2>10. \A r \in registry' : r.owner \in Entries
    BY <2>8, RecordFacts
  <2>11. IdentityTypeOK'
    BY <2>2, <2>5, <2>8, <2>9 DEF IdentityTypeOK
  <2>12. OwnersInv'
    BY <2>6, <2>8, <2>10 DEF OwnersInv
  <2>13. SeenInv'
    BY <2>6, <2>8, <2>9, TupleFacts DEF SeenInv
  <2>14. ShownInv'
    <3> SUFFICES ASSUME NEW t \in seen, ~entry'[t[1]].moved
                 PROVE  \E x \in registry' : Shown(x, t[1], t[2], t[3])'
      BY <2>9 DEF ShownInv
    <3>1. t[1] \in Entries
      BY TupleFacts
    <3>2. PICK x \in registry' : Shown(x, t[1], t[2], t[3])
      BY <2>6, <2>8, <3>1
    <3> QED BY <2>6, <3>1, <3>2 DEF Shown
  <2>15. UsingInv'
    BY <2>1, <2>4, <2>5, <2>8 DEF UsingInv
  <2>16. UniqueSerials'
    BY <2>1, <2>4, <2>5, <2>6 DEF UniqueSerials, UniqueId
  <2> QED BY <2>8, <2>11, <2>12, <2>13, <2>14, <2>15, <2>16
<1> QED BY <1>2, <1>3

LEMMA SetUpInv == ASSUME IdentityInv, NEW e \in Entries, SetUp(e) PROVE IdentityInv'
<1> USE DEF IdentityInv
<1> DEFINE s == entry[e].using
           mid == DictMigrated(registry, e, s)
           new == [entry[e] EXCEPT !.phase = "loaded"]
<1>1. entry[e] \in EntryState /\ entry[e].phase = "setting" /\ s \in Serials
  BY DEF IdentityTypeOK, SetUp, UsingInv
<1>2. ~entry[e].moved => entry[e].serial = s
  BY <1>1 DEF UsingInv
<1>3. registry \in SUBSET Records /\ made \in Nat
  BY DEF IdentityTypeOK
<1>4. Migrated(mid, registry, e, s) /\ \A r \in mid : r.uid.kind = "dict" => r.owner # e
  BY <1>1, <1>3, DictMigration
<1>5. registry' = Added(mid, e, s)
  BY DEF SetUp
<1>6. entry' = [entry EXCEPT ![e] = new]
  BY DEF SetUp, IdentityTypeOK
<1>7. /\ new \in EntryState /\ new.phase = "loaded" /\ new.serial = entry[e].serial
      /\ new.moved = entry[e].moved /\ new.using = s /\ new.unique = entry[e].unique
  BY <1>1 DEF EntryState
<1>8. made' \in Nat
  BY <1>3 DEF SetUp
<1> HIDE DEF s, mid, new
<1>9. /\ entry' \in [Entries -> EntryState] /\ entry'[e] = new
      /\ \A d \in Entries \ {e} : entry'[d] = entry[d]
  BY <1>6, <1>7 DEF IdentityTypeOK
<1>10. \A d \in Entries :
         /\ Present(d)' <=> Present(d)
         /\ entry'[d].serial = entry[d].serial /\ entry'[d].moved = entry[d].moved
         /\ entry'[d].unique = entry[d].unique
  BY <1>1, <1>7, <1>9 DEF Present
<1>11. /\ mid \in SUBSET Records /\ Distinct(mid) /\ OldFirst(mid)
       /\ \A r \in mid :
            /\ Present(r.owner)
            /\ r.uid.kind = "new" /\ ~entry[r.owner].moved => r.uid.name = entry[r.owner].serial
            /\ <<r.owner, r.uid.key, r.created>> \in seen
            /\ r.uid.kind = "dict" => r \in registry
       /\ \A t \in seen : ~entry[t[1]].moved => \E x \in mid : Shown(x, t[1], t[2], t[3])
  BY <1>1, <1>2, <1>4, MigratedParts
<1>12. /\ registry' \in SUBSET Records /\ Distinct(registry')
       /\ \A r \in registry' : r \in mid \/ (r.owner = e /\ r.uid.kind = "new" /\ r.uid.name = s)
       /\ \A x \in mid : \E r \in registry' :
            r.uid = x.uid /\ r.created = x.created /\ (r.uid.kind # "new" => r.owner = x.owner)
  BY <1>1, <1>3, <1>5, <1>11, AddedFacts
<1>13. OldFirst(registry')
  BY <1>11, <1>12 DEF OldFirst
<1>14. \A r \in registry' :
         /\ r \in Records /\ r.owner \in Entries /\ r.uid \in Uids /\ Present(r.owner)
         /\ r.uid.kind = "new" /\ ~entry[r.owner].moved => r.uid.name = entry[r.owner].serial
  BY <1>1, <1>2, <1>11, <1>12, RecordFacts DEF Present
<1>15. seen' = seen \union {<<r.owner, r.uid.key, r.created>> : r \in registry'}
  BY DEF SetUp, Seen
<1>16. IdentityTypeOK'
  <2>1. \A r \in registry' : <<r.owner, r.uid.key, r.created>> \in Entries \X Keys \X (Nat \ {0})
    BY <1>12, RecordFacts, UidFacts
  <2> QED BY <1>8, <1>9, <1>12, <1>15, <2>1 DEF IdentityTypeOK
<1>17. OwnersInv'
  BY <1>10, <1>14 DEF OwnersInv
<1>18. SeenInv'
  BY <1>10, <1>14, <1>15, TupleFacts DEF SeenInv
<1>19. ShownInv'
  <2> SUFFICES ASSUME NEW t \in seen', ~entry'[t[1]].moved
               PROVE  \E x \in registry' : Shown(x, t[1], t[2], t[3])'
    BY DEF ShownInv
  <2>1. CASE t \in seen
    <3>1. t[1] \in Entries
      BY <2>1, TupleFacts
    <3>2. PICK x \in mid : Shown(x, t[1], t[2], t[3])
      BY <1>10, <1>11, <2>1, <3>1
    <3>3. PICK r \in registry' :
            r.uid = x.uid /\ r.created = x.created /\ (r.uid.kind # "new" => r.owner = x.owner)
      BY <1>12
    <3>4. Shown(r, t[1], t[2], t[3])
      BY <3>2, <3>3 DEF Shown
    <3> QED BY <1>10, <3>1, <3>4 DEF Shown
  <2>2. CASE t \notin seen
    <3>1. PICK r \in registry' : t = <<r.owner, r.uid.key, r.created>>
      BY <1>15, <2>2
    <3>2. r.owner \in Entries /\ ~entry[r.owner].moved
      BY <1>10, <1>14, <3>1
    <3>3. Shown(r, r.owner, r.uid.key, r.created)
      BY <1>13, <1>14, <3>2, SelfShown DEF OldFirst
    <3> QED BY <1>10, <3>1, <3>2, <3>3 DEF Shown
  <2> QED BY <2>1, <2>2
<1>20. UsingInv'
  <2>1. \A r \in registry' : r.uid.kind = "dict" => r \in registry /\ r.owner # e
    BY <1>4, <1>11, <1>12
  <2> QED BY <1>1, <1>2, <1>7, <1>9, <2>1 DEF UsingInv
<1>21. UniqueSerials'
  BY <1>10 DEF UniqueSerials
<1> QED BY <1>12, <1>13, <1>16, <1>17, <1>18, <1>19, <1>20, <1>21

\* An entry is unloaded or changed by the user, all are by a restart.
LEMMA EntryStepsInv ==
  ASSUME IdentityInv, (\E e \in Entries : Reloads(e) \/ Reconfigures(e)) \/ Restarts
  PROVE  IdentityInv'
<1> USE DEF IdentityInv
<1>1. UNCHANGED <<registry, seen, made>>
  BY DEF Reloads, Reconfigures, Restarts
<1>2. /\ entry' \in [Entries -> EntryState]
      /\ \A d \in Entries :
           /\ (Present(d)' <=> Present(d)) /\ entry'[d].unique = entry[d].unique
           /\ entry'[d].using = entry[d].using
           /\ entry'[d].phase \in {"setting", "loaded"} => entry'[d].phase = entry[d].phase
           /\ ~entry'[d].moved => ~entry[d].moved /\ entry[d].serial \in {NoSerial, entry'[d].serial}
  <2>1. ASSUME NEW e \in Entries, Reloads(e) PROVE <1>2!:
    <3> DEFINE new == [entry[e] EXCEPT !.phase = "unloaded", !.reload = FALSE]
    <3>1. entry' = [entry EXCEPT ![e] = new]
      BY <2>1 DEF Reloads, IdentityTypeOK
    <3>2. entry[e] \in EntryState /\ entry[e].phase # "absent"
      BY <2>1 DEF Reloads, IdentityTypeOK
    <3>3. /\ new \in EntryState /\ new.phase = "unloaded" /\ new.unique = entry[e].unique
          /\ new.using = entry[e].using /\ new.moved = entry[e].moved /\ new.serial = entry[e].serial
      BY <3>2 DEF EntryState
    <3> HIDE DEF new
    <3>4. /\ entry' \in [Entries -> EntryState] /\ entry'[e] = new
          /\ \A d \in Entries \ {e} : entry'[d] = entry[d]
      BY <3>1, <3>3 DEF IdentityTypeOK
    <3> QED BY <3>2, <3>3, <3>4 DEF Present
  <2>2. ASSUME NEW e \in Entries, Reconfigures(e) PROVE <1>2!:
    <3>1. PICK s \in Serials, f \in BOOLEAN :
            entry' = [entry EXCEPT ![e] =
              [entry[e] EXCEPT !.serial = s, !.featured = f, !.reload = TRUE,
                        !.moved = entry[e].moved \/ entry[e].serial \notin {NoSerial, s}]]
      BY <2>2 DEF Reconfigures, IdentityTypeOK
    <3> DEFINE away == entry[e].moved \/ entry[e].serial \notin {NoSerial, s}
               new == [entry[e] EXCEPT !.serial = s, !.featured = f, !.reload = TRUE, !.moved = away]
    <3>2. entry[e] \in EntryState
      BY DEF IdentityTypeOK
    <3>3. away \in BOOLEAN
      BY <3>2 DEF EntryState
    <3>4. entry' = [entry EXCEPT ![e] = new]
      BY <3>1
    <3> HIDE DEF away
    <3>5. /\ new \in EntryState /\ new.phase = entry[e].phase /\ new.unique = entry[e].unique
          /\ new.using = entry[e].using /\ new.moved = away /\ new.serial = s
      BY <3>2, <3>3 DEF EntryState
    <3> HIDE DEF new
    <3>6. /\ entry' \in [Entries -> EntryState] /\ entry'[e] = new
          /\ \A d \in Entries \ {e} : entry'[d] = entry[d]
      BY <3>4, <3>5 DEF IdentityTypeOK
    <3> QED BY <3>5, <3>6 DEF Present, away
  <2>3. ASSUME Restarts PROVE <1>2!:
    <3> DEFINE new(d) == IF Present(d) THEN [entry[d] EXCEPT !.phase = "unloaded", !.reload = FALSE]
                         ELSE entry[d]
    <3>1. entry' = [d \in Entries |-> new(d)]
      BY <2>3 DEF Restarts
    <3>2. ASSUME NEW d \in Entries
          PROVE  /\ new(d) \in EntryState /\ new(d).unique = entry[d].unique
                 /\ new(d).using = entry[d].using /\ new(d).moved = entry[d].moved
                 /\ new(d).serial = entry[d].serial
                 /\ new(d).phase \in {"absent", "unloaded"}
                 /\ new(d).phase # "absent" <=> Present(d)
      BY DEF IdentityTypeOK, EntryState, Present
    <3> HIDE DEF new
    <3> QED BY <3>1, <3>2 DEF Present
  <2> QED BY <2>1, <2>2, <2>3
<1>3. UniqueSerials'
  BY <1>2 DEF UniqueSerials
<1>4. \A d \in Entries :
        /\ entry'[d].phase \in {"setting", "loaded"} =>
             entry'[d].using \in Serials /\ (~entry'[d].moved => entry'[d].using = entry'[d].serial)
        /\ entry'[d].phase = "loaded" => entry[d].phase = "loaded"
  BY <1>2, IdentityAssumption DEF UsingInv
<1> QED BY <1>1, <1>2, <1>3, <1>4, EntriesChange

LEMMA AddsEntryInv == ASSUME IdentityInv, NEW e \in Entries, AddsEntry(e) PROVE IdentityInv'
<1> USE DEF IdentityInv
<1>1. PICK s \in Serials, f \in BOOLEAN :
        /\ \A d \in Entries : Present(d) => entry[d].unique # s
        /\ entry' = [entry EXCEPT ![e] =
             [Absent EXCEPT !.phase = "unloaded", !.unique = s, !.serial = s, !.featured = f]]
  BY DEF AddsEntry
<1> DEFINE new == [Absent EXCEPT !.phase = "unloaded", !.unique = s, !.serial = s, !.featured = f]
<1>2. new \in EntryState /\ new.phase = "unloaded" /\ new.unique = s
  BY FreshEntry
<1> HIDE DEF new
<1>3. /\ entry' \in [Entries -> EntryState] /\ entry'[e] = new
      /\ \A d \in Entries \ {e} : entry'[d] = entry[d]
  BY <1>1, <1>2 DEF IdentityTypeOK, new
<1>4. UNCHANGED <<registry, seen, made>> /\ ~Present(e)
  BY DEF AddsEntry
<1>5. UniqueSerials'
  BY <1>1, <1>2, <1>3 DEF UniqueSerials, Present
<1>6. \A d \in Entries : Present(d) => d # e
  BY <1>4
<1>7. \A d \in Entries : Present(d) =>
        /\ Present(d)'
        /\ ~entry'[d].moved => ~entry[d].moved /\ entry[d].serial \in {NoSerial, entry'[d].serial}
  BY <1>3, <1>6 DEF Present
<1>8. \A d \in Entries :
        /\ entry'[d].phase \in {"setting", "loaded"} =>
             entry'[d].using \in Serials /\ (~entry'[d].moved => entry'[d].using = entry'[d].serial)
        /\ entry'[d].phase = "loaded" => entry[d].phase = "loaded"
  BY <1>2, <1>3 DEF UsingInv
<1> QED BY <1>3, <1>4, <1>5, <1>7, <1>8, EntriesChange

\* Entities are removed, and with them what is remembered of their keys.
LEMMA ForgettingInv ==
  ASSUME IdentityInv, NEW gone \in SUBSET Entries, registry' \subseteq registry, made' = made,
         Forgets(gone), entry' \in [Entries -> EntryState],
         \A e \in Entries \ gone : entry'[e] = entry[e],
         \A r \in registry' : r.owner \notin gone,
         \A e \in gone : entry'[e].phase = "absent"
  PROVE  IdentityInv'
<1> USE DEF IdentityInv
<1>1. registry \in SUBSET Records
  BY DEF IdentityTypeOK
<1>2. seen' \subseteq seen
  BY DEF Forgets, SeenInv
<1>3. \A r \in registry' : /\ r \in Records /\ r.owner \in Entries \ gone /\ r.uid \in Uids
                           /\ <<r.owner, r.uid.key, r.created>> \in seen'
  BY <1>1, RecordFacts DEF Forgets
<1>4. IdentityTypeOK'
  BY <1>2 DEF IdentityTypeOK
<1>5. UniqueSerials'
  BY DEF UniqueSerials, Present
<1>6. Distinct(registry') /\ OldFirst(registry')
  BY DEF Distinct, OldFirst
<1>7. OwnersInv'
  BY <1>3 DEF OwnersInv, Present
<1>8. \A t \in seen' : t[1] \in Entries \ gone
  BY <1>2, <1>3, TupleFacts DEF Forgets
<1>9. SeenInv'
  BY <1>2, <1>3, <1>8 DEF SeenInv, Present
<1>10. ShownInv'
  <2> SUFFICES ASSUME NEW t \in seen', ~entry'[t[1]].moved
               PROVE  \E x \in registry' : Shown(x, t[1], t[2], t[3])'
    BY DEF ShownInv
  <2>1. t \in seen /\ entry'[t[1]] = entry[t[1]] /\ t[1] \in Entries /\ ~entry[t[1]].moved
    BY <1>2, <1>8
  <2>2. CASE \E r \in registry' : t = <<r.owner, r.uid.key, r.created>>
    <3>1. PICK r \in registry' : t = <<r.owner, r.uid.key, r.created>>
      BY <2>2
    <3>2. Shown(r, r.owner, r.uid.key, r.created)
      BY <1>3, <1>6, <2>1, <3>1, SelfShown DEF OldFirst, OwnersInv
    <3> QED BY <2>1, <3>1, <3>2 DEF Shown
  <2>3. CASE \A r \in registry \ registry' : r.uid.key # t[2]
    <3>1. PICK x \in registry : Shown(x, t[1], t[2], t[3])
      BY <2>1 DEF ShownInv
    <3>2. x.uid.key = t[2]
      BY <1>1, <3>1, RecordFacts, UidFacts DEF Shown
    <3> QED BY <2>1, <2>3, <3>1, <3>2 DEF Shown
  <2> QED BY <2>2, <2>3 DEF Forgets
<1>11. UsingInv'
  BY DEF UsingInv
<1> QED BY <1>4, <1>5, <1>6, <1>7, <1>9, <1>10, <1>11

LEMMA RemovalsInv ==
  ASSUME IdentityInv,
         (\E e \in Entries : RemovesEntry(e)) \/ (\E r \in registry : DeletesEntity(r))
  PROVE  IdentityInv'
<1>1. entry \in [Entries -> EntryState] /\ Absent \in EntryState /\ Absent.phase = "absent"
  BY DEF IdentityInv, IdentityTypeOK, Absent, EntryState
<1>2. ASSUME NEW e \in Entries, RemovesEntry(e) PROVE IdentityInv'
  BY <1>1, <1>2, ForgettingInv DEF RemovesEntry
<1>3. ASSUME NEW r \in registry, DeletesEntity(r) PROVE IdentityInv'
  BY <1>1, <1>3, ForgettingInv DEF DeletesEntity
<1> QED BY <1>2, <1>3

LEMMA StepInv == IdentityInv /\ [Next]_vars => IdentityInv'
<1>1. ASSUME IdentityInv, UNCHANGED vars PROVE IdentityInv'
  BY <1>1 DEF vars, IdentityInv, IdentityTypeOK, UniqueSerials, Distinct, OldFirst, OwnersInv,
              SeenInv, ShownInv, Shown, UsingInv, Present
<1> QED BY <1>1, LoadsInv, SetUpInv, EntryStepsInv, AddsEntryInv, RemovalsInv DEF Next

LEMMA IdentityInvariant == Spec => []IdentityInv
  BY InitInv, StepInv, PTL DEF Spec

-----------------------------------------------------------------------------
(* The theorems.                                                           *)

\* Whatever is added, reconfigured, removed and migrated, the IDs of entries differ.
THEOREM SerialsUnique == Spec => []UniqueSerials
  BY IdentityInvariant, PTL DEF IdentityInv

\* The entity of a sensor or number is the oldest one there was: what is older has
\* taken the new ID in a migration, for IDs are distinct, or still has its old one.
THEOREM OldestEntityKept == Spec => []OldestKept
<1>1. ASSUME IdentityInv PROVE OldestKept
  <2> USE <1>1 DEF IdentityInv
  <2> SUFFICES ASSUME NEW e \in Entries, entry[e].phase = "loaded", ~entry[e].moved,
                      NEW r \in registry, NEW k \in Built(e), r.uid = New(entry[e].using, k),
                      NEW t \in seen, t[1] = e, t[2] = k, t[3] < r.created
               PROVE  \E x \in registry : x.uid = Old(e, k) /\ x.created = t[3]
    BY DEF OldestKept
  <2>1. entry[e].using = entry[e].serial /\ \A x \in registry : x.uid.kind = "dict" => x.owner # e
    BY DEF UsingInv
  <2>2. PICK x \in registry : Shown(x, e, k, t[3])
    BY DEF ShownInv
  <2>3. ~(x.uid.kind = "dict" /\ x.owner = e)
    BY <2>1
  <2>4. x.uid # r.uid \/ ~(x.created <= t[3])
    <3>1. r.created \in Nat /\ t[3] \in Nat
      BY TupleFacts, RecordFacts DEF IdentityTypeOK
    <3> QED BY <3>1 DEF Distinct
  <2> QED BY <2>1, <2>2, <2>3, <2>4 DEF Shown
<1> QED BY <1>1, IdentityInvariant, PTL

=============================================================================
