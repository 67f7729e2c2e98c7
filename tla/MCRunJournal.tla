---------------------------- MODULE MCRunJournal ----------------------------
(***************************************************************************)
(* A small instance of RunJournal: one turn with every kind of event that  *)
(* moves a snapshot, keyed and keyless.                                    *)
(***************************************************************************)
EXTENDS RunRebuild

CONSTANTS a1, n1, n2

Keyless(evs)     == {[ev |-> e, name |-> NoKey] : e \in evs}
Keyed(evs, name) == {[ev |-> e, name |-> name] : e \in evs}

EveryRequest ==
    Keyless({Ev("planned"), Ev("checkpoint"), Ev("progress"), Ev("repair"),
             Ev("verification_started"), Ev("approval_required"),
             FlagEv("approval_resolved", "yes"), FlagEv("approval_resolved", "no"),
             FlagEv("verification", "yes"), FlagEv("verification", "no"),
             ToolEv("tool_completed", a1), Ev("blocked"), Ev("completed")})
    \cup Keyed({ToolEv("tool_started", a1)}, n1)
    \cup Keyed({FlagEv("completed", "yes"), Ev("cancelled"), FlagEv("failed", "yes")}, n2)
=============================================================================
