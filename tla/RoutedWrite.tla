----------------------------- MODULE RoutedWrite -----------------------------
(***************************************************************************)
(* SolisInverterHub._routed_write beside the hub's own steps: a write goes *)
(* to the active protocol and, when that raises, to the other one if the   *)
(* entry has two and the other one is connected.  The write suspends in    *)
(* the protocol's call, so the hub may switch protocols under it.          *)
(***************************************************************************)
EXTENDS InverterHub

CONSTANT Writes   (* concurrent entity writes and service calls *)

VARIABLE write    (* write[w]: where write w stands and what it tried *)

writeVars == <<vars, write>>

\* overtaken is history: the hub switched while the first attempt was awaited.
WriteState ==
  [pc : {"idle", "first", "second", "done", "failed"},
   first : Protocols, second : Protocols, overtaken : BOOLEAN]

NewWrite == [pc |-> "idle", first |-> "modbus", second |-> "modbus", overtaken |-> FALSE]

WriteInit == Init /\ write = [w \in Writes |-> NewWrite]

WriteTypeOK == HubTypeOK /\ write \in [Writes -> WriteState]

WriteBegins(w) ==
  /\ phase = "running" /\ write[w].pc = "idle"
  /\ write' = [write EXCEPT ![w].pc = "first", ![w].first = active]
  /\ UNCHANGED vars

\* A Modbus write connects the client if needed and leaves the age alone.
AttemptSucceeds(p) ==
  /\ p \in up
  /\ socket' = IF p = "modbus" THEN TRUE ELSE socket
  /\ UNCHANGED <<isRunning, enabled, up, age, ret, hubVars>>

\* Any protocol may refuse (no control CID, a Modbus error, a timeout); a
\* Modbus block write that raised closes the client.
AttemptFails(p) ==
  /\ \/ UNCHANGED socket
     \/ p = "modbus" /\ socket' = FALSE
  /\ UNCHANGED <<isRunning, enabled, up, age, ret, hubVars>>

FirstSucceeds(w) ==
  /\ write[w].pc = "first"
  /\ AttemptSucceeds(write[w].first)
  /\ write' = [write EXCEPT ![w].pc = "done"]

\* Mutant of FirstFails: the write is retried on the active protocol itself.
FirstFailsRetriesActive(w) ==
  /\ write[w].pc = "first"
  /\ AttemptFails(write[w].first)
  /\ write' = [write EXCEPT ![w].pc = "second", ![w].second = active]

\* The other protocol is computed from the protocol that is active now.
FirstFails(w) ==
  /\ write[w].pc = "first"
  /\ AttemptFails(write[w].first)
  /\ LET other == Other(active)
         otherConnected == IF other = "modbus" THEN socket' ELSE Healthy("cloud")
     IN IF Mode \in {"both_failover", "both_manual"} /\ otherConnected
        THEN write' = [write EXCEPT ![w].pc = "second", ![w].second = other]
        ELSE write' = [write EXCEPT ![w].pc = "failed"]

SecondEnds(w) ==
  /\ write[w].pc = "second"
  /\ \/ /\ AttemptSucceeds(write[w].second)
        /\ write' = [write EXCEPT ![w].pc = "done"]
     \/ /\ AttemptFails(write[w].second)
        /\ write' = [write EXCEPT ![w].pc = "failed"]

\* The caller is answered; the same entity may write again.
WriteAnswered(w) ==
  /\ write[w].pc \in {"done", "failed"}
  /\ write' = [write EXCEPT ![w] = NewWrite]
  /\ UNCHANGED vars

HubMoves ==
  /\ Next
  /\ write' = [w \in Writes |->
       [write[w] EXCEPT !.overtaken =
          @ \/ (write[w].pc = "first" /\ active' # active)]]

WriteNext ==
  \/ \E w \in Writes :
       WriteBegins(w) \/ FirstSucceeds(w) \/ FirstFails(w) \/ SecondEnds(w) \/ WriteAnswered(w)
  \/ HubMoves

WriteSpec == WriteInit /\ [][WriteNext]_writeVars

-----------------------------------------------------------------------------

\* A write whose first attempt no switch overtook falls back to the protocol
\* that did not just fail.
FallbackUnlessOvertaken ==
  \A w \in Writes :
    write[w].pc = "second" /\ ~write[w].overtaken => write[w].second # write[w].first
=============================================================================
