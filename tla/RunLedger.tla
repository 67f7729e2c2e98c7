----------------------------- MODULE RunLedger ------------------------------
(***************************************************************************)
(* What the runtime promises of a turn's journal to everything built on    *)
(* it: a snapshot per turn and the set of idempotency keys already spent.  *)
(* A keyed request is spent at most once, and a terminal turn never moves  *)
(* again.  RunJournal, which keeps the whole event log, implements this    *)
(* module; ToolJournal and AgentRuntime are written over it.               *)
(***************************************************************************)
EXTENDS RunReducer

CONSTANTS
    Turn,         \* turn identities (uuid4 in the code, so never reused)
    Name,         \* what distinguishes the idempotency keys within one turn
    NoKey         \* an event appended without a key is never deduplicated

VARIABLES
    snapshot,     \* turns.snapshot_json: the materialized state of each turn
    keys          \* the idempotency keys of the events table

ledgerVars == <<snapshot, keys>>

Key == Turn \X Name

ASSUME KeyAssumption == NoKey \notin Key /\ NoTurn \notin Snapshot

LedgerTypeOK ==
    /\ snapshot \in [Turn -> Snapshot \cup {NoTurn}]
    /\ keys \subseteq Key

LedgerInit ==
    /\ snapshot = [t \in Turn |-> NoTurn]
    /\ keys = {}

Started(t) == snapshot[t] # NoTurn
Live(t)    == Started(t) /\ ~Terminal(snapshot[t])

-----------------------------------------------------------------------------
\* start_turn: a key that was spent returns the turn it was spent on.
Start(t, key) ==
    /\ ~Started(t)
    /\ key \notin keys
    /\ snapshot' = [snapshot EXCEPT ![t] = InitialSnapshot]
    /\ keys' = keys \cup {key}

\* append_event raises InvalidTransition and rolls back.
Refused(t, ev, key) == key \notin keys /\ Rejected(snapshot[t], ev)

\* append_event, when it does not raise: a spent key changes nothing.
Append(t, ev, key) ==
    /\ Started(t)
    /\ ~Refused(t, ev, key)
    /\ IF key \in keys
       THEN UNCHANGED ledgerVars
       ELSE /\ snapshot' = [snapshot EXCEPT ![t] = Reduce(@, ev)]
            /\ keys' = keys \cup ({key} \ {NoKey})

LedgerNext ==
    \E t \in Turn :
        \/ \E n \in Name : Start(t, <<t, n>>)
        \/ \E ev \in Event, n \in Name : Append(t, ev, <<t, n>>)
        \/ \E ev \in Event : Append(t, ev, NoKey)

LedgerSpec == LedgerInit /\ [][LedgerNext]_ledgerVars

=============================================================================
