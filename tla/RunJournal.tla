----------------------------- MODULE RunJournal -----------------------------
(***************************************************************************)
(* The event store of the runtime: the turn transactions of                *)
(* runtime/store.py.  Every transaction is one SQLite BEGIN IMMEDIATE ..   *)
(* COMMIT, so each is one action, whoever calls it: threads, processes, or *)
(* a caller that repeats a request whose answer it lost in a crash.        *)
(*                                                                         *)
(* Three things are written together and must agree: the append-only log,  *)
(* the turn's projection (snapshot and last sequence), and one checkpoint  *)
(* per event.  The session row keeps the status of the last writer.        *)
(***************************************************************************)
EXTENDS RunReducer, Sequences, FiniteSets

CONSTANTS
    Turn, Name, NoKey,
    Session,      \* sessions of the database
    NoSession,    \* the session of a turn that was never started
    Offered,      \* the requests callers make: records [ev, name]
    MaxEvents     \* bound on the length of one turn's log

VARIABLES
    events,       \* events: the log of each turn
    projection,   \* turns.snapshot_json: [snap, last_sequence] of each turn
    checkpoints,  \* checkpoints: the snapshot after each event of each turn
    sessionOf,    \* turns.session_id
    sessions      \* sessions.status

vars == <<events, projection, checkpoints, sessionOf, sessions>>

Key == Turn \X Name

ASSUME OfferedAssumption ==
    /\ Offered \subseteq [ev : Event, name : Name \cup {NoKey}]
    /\ NoKey \notin Name /\ NoKey \notin Key
    /\ NoSession \notin Session
    /\ MaxEvents \in Nat
    /\ NoTurn \notin Snapshot /\ NoTurn \notin [snap : Snapshot, last_sequence : Nat]

Entry == [ev : Event, seq : Nat, key : Key \cup {NoKey}]

TypeOK ==
    /\ events \in [Turn -> Seq(Entry)]
    /\ projection \in [Turn -> [snap : Snapshot, last_sequence : Nat] \cup {NoTurn}]
    /\ checkpoints \in [Turn -> Seq(Snapshot)]
    /\ sessionOf \in [Turn -> Session \cup {NoSession}]
    /\ sessions \in [Session -> {"absent", "active", "complete"}]

Started(t) == projection[t] # NoTurn

\* Mutated form: the duplicate check looks at nothing.
KeysOfNothing(log) == {}

\* The idempotency_key column is UNIQUE over every turn and session.
KeysOf(log) == {log[i].key : i \in DOMAIN log} \ {NoKey}
SpentKeys   == UNION {KeysOf(events[t]) : t \in Turn}

KeyFor(t, name) == IF name = NoKey THEN NoKey ELSE <<t, name>>

-----------------------------------------------------------------------------
\* Mutated form: the projection is not written with its event.
AppendEventAlone(t, ev, key) ==
    LET seq == projection[t].last_sequence + 1 IN
    /\ Started(t)
    /\ key \notin SpentKeys
    /\ ~Rejected(projection[t].snap, ev)
    /\ seq <= MaxEvents
    /\ events' = [events EXCEPT ![t] =
           Append(@, [ev |-> ev, seq |-> seq, key |-> key])]
    /\ UNCHANGED <<projection, checkpoints, sessionOf, sessions>>

Init ==
    /\ events = [t \in Turn |-> <<>>]
    /\ projection = [t \in Turn |-> NoTurn]
    /\ checkpoints = [t \in Turn |-> <<>>]
    /\ sessionOf = [t \in Turn |-> NoSession]
    /\ sessions = [s \in Session |-> "absent"]

SessionStatus(snap) == IF Terminal(snap) THEN "complete" ELSE "active"

\* start_turn. The session row is inserted or left as it is: starting a turn in
\* a session that is "complete" does not make it "active".
StartTurn(s, t, name) ==
    /\ ~Started(t)
    /\ KeyFor(t, name) \notin SpentKeys
    /\ events' = [events EXCEPT ![t] =
           <<[ev |-> Ev("accepted"), seq |-> 1, key |-> KeyFor(t, name)]>>]
    /\ projection' = [projection EXCEPT ![t] =
           [snap |-> InitialSnapshot, last_sequence |-> 1]]
    /\ checkpoints' = [checkpoints EXCEPT ![t] = <<InitialSnapshot>>]
    /\ sessionOf' = [sessionOf EXCEPT ![t] = s]
    /\ sessions' = [sessions EXCEPT ![s] = IF @ = "absent" THEN "active" ELSE @]

\* append_event on a key that was spent: the stored event is returned.
AppendDuplicate(t, ev, key) ==
    /\ Started(t)
    /\ key \in SpentKeys
    /\ UNCHANGED vars

\* append_event when the reducer raises: the transaction is rolled back.
AppendRejected(t, ev, key) ==
    /\ Started(t)
    /\ key \notin SpentKeys
    /\ Rejected(projection[t].snap, ev)
    /\ UNCHANGED vars

\* append_event: the log, the projection, the checkpoint and the session row.
AppendEvent(t, ev, key) ==
    LET seq     == projection[t].last_sequence + 1
        updated == Reduce(projection[t].snap, ev)
    IN
    /\ Started(t)
    /\ key \notin SpentKeys
    /\ ~Rejected(projection[t].snap, ev)
    /\ seq <= MaxEvents
    /\ events' = [events EXCEPT ![t] =
           Append(@, [ev |-> ev, seq |-> seq, key |-> key])]
    /\ projection' = [projection EXCEPT ![t] =
           [snap |-> updated, last_sequence |-> seq]]
    /\ checkpoints' = [checkpoints EXCEPT ![t] = Append(@, updated)]
    /\ sessions' = [sessions EXCEPT ![sessionOf[t]] = SessionStatus(updated)]
    /\ UNCHANGED sessionOf

Next ==
    \/ \E s \in Session, t \in Turn, n \in Name : StartTurn(s, t, n)
    \/ \E t \in Turn, r \in Offered :
          \/ AppendDuplicate(t, r.ev, KeyFor(t, r.name))
          \/ AppendRejected(t, r.ev, KeyFor(t, r.name))
          \/ AppendEvent(t, r.ev, KeyFor(t, r.name))

Spec == Init /\ [][Next]_vars

-----------------------------------------------------------------------------
\* Properties

\* The log has no gap, and what the database shows of a turn is what replaying
\* its log gives: each checkpoint is the one before it reduced by its event,
\* and the projection is the last of them (append_event writes all three).
ProjectionIsReplay ==
    \A t \in Turn : Started(t) =>
        /\ Len(events[t]) = projection[t].last_sequence
        /\ Len(checkpoints[t]) = projection[t].last_sequence
        /\ checkpoints[t][1] = InitialSnapshot
        /\ \A i \in 2..Len(events[t]) :
              /\ events[t][i].seq = i
              /\ checkpoints[t][i] = Reduce(checkpoints[t][i - 1], events[t][i].ev)
        /\ projection[t].snap = checkpoints[t][Len(checkpoints[t])]

\* A request repeated by a caller that lost the answer is recorded once: no two
\* rows of the whole database carry the same idempotency key.
KeySpentOnce ==
    \A t, u \in Turn : \A i \in DOMAIN events[t], j \in DOMAIN events[u] :
        (events[t][i].key = events[u][j].key /\ events[t][i].key # NoKey)
            => t = u /\ i = j

\* Only the last row of a log can end its turn: the reducer lets nothing follow
\* a terminal phase, however the appends of two writers interleave.
NothingAfterTheEnd ==
    \A t \in Turn : \A i \in 1..(Len(checkpoints[t]) - 1) :
        ~Terminal(checkpoints[t][i])

LastVerdict(log) ==
    LET verdicts == {i \in DOMAIN log : log[i].ev.kind = "verification"} IN
    IF verdicts = {} THEN "no"
    ELSE log[CHOOSE i \in verdicts : \A j \in verdicts : j <= i].ev.flag

\* A turn is completed only on evidence: either the completing event itself says
\* validated, or it is silent and the last verification in the log passed.
CompletedOnEvidence ==
    \A t \in Turn : (Started(t) /\ projection[t].snap.phase = "completed") =>
        LET last == events[t][Len(events[t])].ev IN
        last.flag = "yes" \/ (last.flag = "absent" /\ LastVerdict(events[t]) = "yes")

Unfinished(log) ==
    {a \in Attempt : \E i \in DOMAIN log :
        /\ log[i].ev.kind = "tool_started" /\ log[i].ev.attempt = a
        /\ \A j \in (i + 1)..Len(log) :
              log[j].ev.kind = "tool_completed" => log[j].ev.attempt # a}

\* The attempts a turn shows as open are those its log started and did not
\* finish, until completion clears them.
OpenAttemptsAreUnfinished ==
    \A t \in Turn : Started(t) =>
        projection[t].snap.open_tool_attempts =
            IF projection[t].snap.phase = "completed" THEN {} ELSE Unfinished(events[t])

\* A turn that ended is final: no transaction rewrites its log, its projection
\* or its checkpoints (reducer.py: "a completed turn cannot silently resume").
EndedTurnIsFinal ==
    [][\A t \in Turn : (Started(t) /\ Terminal(projection[t].snap)) =>
          /\ events'[t] = events[t]
          /\ projection'[t] = projection[t]
          /\ checkpoints'[t] = checkpoints[t]]_vars

\* The store implements the ledger that the rest of the runtime relies on.
SnapshotOf == [t \in Turn |-> IF Started(t) THEN projection[t].snap ELSE NoTurn]

Ledger == INSTANCE RunLedger WITH snapshot <- SnapshotOf, keys <- SpentKeys

LedgerSpec == Ledger!LedgerSpec
=============================================================================
