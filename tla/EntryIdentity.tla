----------------------------- MODULE EntryIdentity -----------------------------
(***************************************************************************)
(* How config entries and their entities come to be identified by the      *)
(* inverter's serial: the migrations run when an entry is loaded            *)
(* (async_migrate_entry, async_setup_entry, async_migrate_to_serial_ids,    *)
(* migrate_dict_unique_ids), beside flows that add and reconfigure entries. *)
(*                                                                         *)
(* A step is the code between two suspensions; the stagger and the          *)
(* platforms' set-up are the suspensions of async_setup_entry.              *)
(***************************************************************************)
EXTENDS Naturals, FiniteSets, FiniteSetsExt

CONSTANTS
  Entries, Serials, NoSerial,
  Keys,         (* the 'unique' keys of entity definitions                   *)
  Numbers,      (* those of number entities; the others are sensors          *)
  Optional,     (* those whose group needs a feature                         *)
  Legacy,       (* the entry set up by an old version                        *)
  MaxEvents     (* how often a user does something                           *)

ASSUME IdentityAssumption ==
  /\ Legacy \in Entries /\ Serials # {} /\ NoSerial \notin Serials
  /\ Numbers \union Optional \subseteq Keys /\ MaxEvents \in Nat

VARIABLES
  entry,      (* entry[e]: a config entry                                    *)
  registry,   (* the entity registry                                         *)
  made,       (* created_at of the newest registry entry                     *)
  events,
  seen,       (* history: <<entry, key, created>> of every registry entry    *)
  deleted     (* history: unique IDs the user has deleted                    *)

vars == <<entry, registry, made, events, seen, deleted>>

\* Unique IDs.  Before serials they held the host or the identification of the entry,
\* here the entry itself; some versions put the repr of a definition there.
Old(e, k) == [kind |-> "old", name |-> e, key |-> k]
Dict(n, k) == [kind |-> "dict", name |-> n, key |-> k]
New(s, k) == [kind |-> "new", name |-> s, key |-> k]

Editions == 1..2

Record(uid, owner, created) == [uid |-> uid, owner |-> owner, created |-> created]

\* A legacy entry may have entities of all ages, the oldest under its old ID.
LegacyRegistries ==
  SUBSET ({Record(Old(Legacy, k), Legacy, 1) : k \in Keys}
            \union {Record(Dict(n, k), Legacy, 1 + n) : n \in Editions, k \in Keys})

Absent == [phase |-> "absent", version |-> 4, unique |-> NoSerial, serial |-> NoSerial,
           featured |-> TRUE, using |-> NoSerial, built |-> TRUE, reload |-> FALSE, moved |-> FALSE]

Init ==
  /\ \E v \in 2..4, s \in Serials \union {NoSerial}, f \in BOOLEAN :
       entry = [e \in Entries |-> IF e # Legacy THEN Absent ELSE
                  [Absent EXCEPT !.phase = "unloaded", !.version = v, !.serial = s, !.featured = f]]
  /\ registry \in LegacyRegistries
  /\ made = 3 /\ events = 0 /\ deleted = {}
  /\ seen = {<<r.owner, r.uid.key, r.created>> : r \in registry}

Present(e) == entry[e].phase # "absent"
Enabled(featured) == {k \in Keys : k \notin Optional \/ featured}

\* The set-up uses the configuration it has read at its start.
Built(e) == Enabled(entry[e].built)

Seen == seen' = seen \union {<<r.owner, r.uid.key, r.created>> : r \in registry'}
\* What was kept before a user's deletion no longer counts.
Forgets(gone) ==
  seen' = {<<r.owner, r.uid.key, r.created>> : r \in registry'}
    \union {t \in seen : t[1] \notin gone /\ \A r \in registry \ registry' : r.uid.key # t[2]}
Event == events < MaxEvents /\ events' = events + 1

-----------------------------------------------------------------------------
(* Loading an entry.                                                       *)

\* async_migrate_to_serial_ids: sensors of enabled groups keep their old entity; one
\* that already has the new ID is removed.
SerialMigrated(reg, e, s) ==
  LET taken == {k \in Enabled(entry[e].featured) \ Numbers : \E r \in reg : r.uid = Old(e, k)}
      left == {r \in reg : \A k \in taken : r.uid # New(s, k)}
  IN {IF \E k \in taken : r.uid = Old(e, k) THEN [r EXCEPT !.uid = New(s, @.key)] ELSE r : r \in left}

\* Mutant of UniqueId: no look at the other entries.
UniqueIdUnchecked(e, s) == s

\* The entry takes the serial as its ID unless another entry has it.
UniqueId(e, s) ==
  IF \E d \in Entries \ {e} : Present(d) /\ entry[d].unique = s THEN entry[e].unique ELSE s

\* async_migrate_entry refuses an old entry without a serial, async_setup_entry any;
\* an entry whose ID is not its serial is migrated by either.
Loads(e) ==
  /\ entry[e].phase = "unloaded"
  /\ LET s == entry[e].serial
         rec == entry[e]
     IN IF s = NoSerial
        THEN /\ entry' = [entry EXCEPT ![e] =
                  IF rec.version <= 2 THEN [rec EXCEPT !.phase = "refused"]
                  ELSE [rec EXCEPT !.phase = "failed", !.version = 4]]
             /\ UNCHANGED registry
        ELSE /\ registry' = IF rec.version <= 2 \/ rec.unique # s
                            THEN SerialMigrated(registry, e, s) ELSE registry
             /\ entry' = [entry EXCEPT ![e] =
                  [rec EXCEPT !.phase = "setting", !.version = 4, !.unique = UniqueId(e, s),
                            !.using = s, !.built = rec.featured]]
  /\ Seen /\ UNCHANGED <<made, events, deleted>>

\* Mutant of DictMigrated: the newest is kept.
DictMigratedToNewest(reg, e, s) ==
  LET legacy(k) == {r \in reg : r.uid.kind = "dict" /\ r.owner = e /\ r.uid.key = k}
      all(k) == legacy(k) \union {r \in reg : r.uid = New(s, k)}
      newest(k) == CHOOSE r \in all(k) : \A x \in all(k) : x.created <= r.created
      found == {k \in Keys : legacy(k) # {}}
  IN (reg \ UNION {all(k) : k \in found}) \union {[newest(k) EXCEPT !.uid = New(s, k)] : k \in found}

\* migrate_dict_unique_ids: of the entry's IDs made from a definition with this key,
\* and the new one if it exists, the oldest is kept.
DictMigrated(reg, e, s) ==
  LET legacy(k) == {r \in reg : r.uid.kind = "dict" /\ r.owner = e /\ r.uid.key = k}
      all(k) == legacy(k) \union {r \in reg : r.uid = New(s, k)}
      keep(k) == CHOOSE r \in all(k) : \A x \in all(k) : r.created <= x.created
      found == {k \in Keys : legacy(k) # {}}
  IN (reg \ UNION {all(k) : k \in found}) \union {[keep(k) EXCEPT !.uid = New(s, k)] : k \in found}

\* The platforms add their entities; those another loaded entry provides stay its own.
Added(reg, e, s) ==
  LET provided == \E d \in Entries \ {e} : entry[d].phase = "loaded" /\ entry[d].using = s
      ids == {New(s, k) : k \in Built(e)}
      missing == {uid \in ids : \A r \in reg : r.uid # uid}
  IN {IF r.uid \in ids /\ ~provided THEN [r EXCEPT !.owner = e] ELSE r : r \in reg}
       \union {Record(uid, e, made + 1) : uid \in missing}

SetUp(e) ==
  /\ entry[e].phase = "setting"
  /\ registry' = Added(DictMigrated(registry, e, entry[e].using), e, entry[e].using)
  /\ made' = IF \E r \in registry' : r.created > made THEN made + 1 ELSE made
  /\ entry' = [entry EXCEPT ![e].phase = "loaded"]
  /\ Seen /\ UNCHANGED <<events, deleted>>

Reloads(e) ==
  /\ entry[e].reload /\ entry[e].phase \in {"loaded", "failed"}
  /\ entry' = [entry EXCEPT ![e].phase = "unloaded", ![e].reload = FALSE]
  /\ UNCHANGED <<registry, made, events, seen, deleted>>

-----------------------------------------------------------------------------
(* Flows and the user.                                                     *)

\* async_step_reconfigure does not look at other entries; the validation may replace
\* the serial by the one the device reports.
Reconfigures(e) ==
  /\ Present(e) /\ Event
  /\ \E s \in Serials, f \in BOOLEAN :
       /\ <<s, f>> # <<entry[e].serial, entry[e].featured>>
       /\ entry' = [entry EXCEPT ![e] =
            [entry[e] EXCEPT !.serial = s, !.featured = f, !.reload = TRUE,
                             !.moved = @ \/ entry[e].serial \notin {NoSerial, s}]]
  /\ UNCHANGED <<registry, made, seen, deleted>>

\* A config flow ends: it aborts when an entry has the serial as its ID.
AddsEntry(e) ==
  /\ ~Present(e) /\ Event
  /\ \E s \in Serials, f \in BOOLEAN :
       /\ \A d \in Entries : Present(d) => entry[d].unique # s
       /\ entry' = [entry EXCEPT ![e] =
            [Absent EXCEPT !.phase = "unloaded", !.unique = s, !.serial = s, !.featured = f]]
  /\ UNCHANGED <<registry, made, seen, deleted>>

RemovesEntry(e) ==
  /\ Present(e) /\ entry[e].phase # "setting" /\ Event
  /\ entry' = [entry EXCEPT ![e] = Absent]
  /\ registry' = {r \in registry : r.owner # e}
  /\ Forgets({e})
  /\ UNCHANGED <<made, deleted>>

\* The user deletes an entity.
DeletesEntity(r) ==
  /\ Event
  /\ registry' = registry \ {r}
  /\ Forgets({})
  /\ deleted' = deleted \union {r.uid}
  /\ UNCHANGED <<entry, made>>

\* Home Assistant restarts; every entry is loaded anew.
Restarts ==
  /\ Event
  /\ entry' = [e \in Entries |-> IF Present(e) THEN [entry[e] EXCEPT !.phase = "unloaded", !.reload = FALSE]
                                 ELSE entry[e]]
  /\ UNCHANGED <<registry, made, seen, deleted>>

Next ==
  \/ \E e \in Entries :
       \/ Loads(e) \/ SetUp(e) \/ Reloads(e)
       \/ Reconfigures(e) \/ AddsEntry(e) \/ RemovesEntry(e)
  \/ \E r \in registry : DeletesEntity(r)
  \/ Restarts

Spec == Init /\ [][Next]_vars

-----------------------------------------------------------------------------

\* No two entries have the same ID, whichever of them are added, reconfigured and
\* migrated in what order.
UniqueSerials ==
  \A d, e \in Entries :
    Present(d) /\ Present(e) /\ d # e /\ entry[d].unique \in Serials => entry[d].unique # entry[e].unique

\* A loaded entry shows each of its sensors and numbers by the oldest entity it has
\* had, with its history, although duplicates come and go, unless the inverter was
\* replaced or the entity still has an old ID (see OldRenamedAfterRestart).
OldestKept ==
  \A e \in Entries :
    entry[e].phase = "loaded" /\ ~entry[e].moved =>
      \A r \in registry : \A k \in Built(e) : r.uid = New(entry[e].using, k) =>
        \A t \in seen : t[1] = e /\ t[2] = k /\ t[3] < r.created =>
          \E x \in registry : x.uid = Old(e, k) /\ x.created = t[3]

\* "Delete the new (duplicate) entities and restart: the migration will try to rename
\* the old entities again" (docs/source/migration.md): a loaded entry has not made a
\* deleted entity anew while the old one is there.
OldRenamedAfterRestart ==
  \A e \in Entries :
    entry[e].phase = "loaded" =>
      \A k \in Built(e) \ Numbers :
        LET uid == New(entry[e].using, k)
        IN uid \in deleted /\ (\E r \in registry : r.uid = uid)
             => \A r \in registry : r.uid # Old(e, k)
=============================================================================
