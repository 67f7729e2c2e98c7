--------------------------- MODULE RunJournalProofs --------------------------
(***************************************************************************)
(* For every set of turns, sessions, keys and offered requests, and for    *)
(* logs of any length: the store is well typed, its three tables agree,    *)
(* no idempotency key is spent twice, an ended turn is final, a completed  *)
(* one rests on evidence, the open attempts of a projection are those the  *)
(* log leaves unfinished, every log replays to its projection, and the     *)
(* store implements the ledger that the rest of the runtime relies on.     *)
(***************************************************************************)
EXTENDS RunRebuild, SequenceTheorems, TLAPS

-----------------------------------------------------------------------------
\* The reducer

LEMMA InitialSnapshotType == InitialSnapshot \in Snapshot
  BY DEF InitialSnapshot, Snapshot, Phase, TerminalPhase, Status

\* Whatever the event, the reducer returns a snapshot.
LEMMA ReduceType ==
  ASSUME NEW snap \in Snapshot, NEW ev \in Event
  PROVE  Reduce(snap, ev) \in Snapshot
  <1>1. ev.kind \in Kind
    BY DEF Event
  <1>2. ({ev.attempt} \ {NoAttempt}) \subseteq Attempt
    BY DEF Event
  <1>3. ASSUME ev.kind \in {"tool_started", "tool_completed"} PROVE WithTool(snap, ev) \in Snapshot
    BY <1>2, <1>3 DEF WithTool, Snapshot, Phase
  <1>4. WithApproval(snap, ev) \in Snapshot /\ WithVerdict(snap, ev) \in Snapshot
    BY DEF WithApproval, WithVerdict, Given, Snapshot, Phase, TerminalPhase, Status
  <1>5. ASSUME ev.kind \in TerminalPhase PROVE WithEnd(snap, ev) \in Snapshot
    BY <1>5 DEF WithEnd, Snapshot, Phase, TerminalPhase, Status
  <1>6. CASE ev.kind \in {"tool_started", "tool_completed", "approval_required",
                         "approval_resolved", "verification"} \cup TerminalPhase
    BY <1>3, <1>4, <1>5, <1>6 DEF Reduce, TerminalPhase
  <1>7. QED
    BY <1>1, <1>6 DEF Reduce, Kind, TerminalPhase, Snapshot, Phase

\* Only a completing event completes a turn, and only when it carries the
\* evidence or the snapshot already does (the reducer's own guard).
LEMMA CompletesOnlyValidated ==
  ASSUME NEW snap \in Snapshot, NEW ev \in Event,
         ~Rejected(snap, ev), Reduce(snap, ev).phase = "completed"
  PROVE  /\ ev.kind = "completed"
         /\ Given(ev.flag, snap.validated)
  <1>1. snap.phase \in Phase /\ snap.phase \notin TerminalPhase
    BY DEF Rejected, Terminal, Snapshot
  <1>2. ev.kind \in Kind
    BY DEF Event
  <1>3. ev.kind = "completed"
    BY <1>1, <1>2 DEF Reduce, WithTool, WithApproval, WithVerdict, WithEnd,
                      Snapshot, Phase, TerminalPhase, Kind
  <1>4. QED
    BY <1>3 DEF Rejected

-----------------------------------------------------------------------------

LEMMA OfferedType ==
  ASSUME NEW t \in Turn, NEW r \in Offered
  PROVE  r.ev \in Event /\ KeyFor(t, r.name) \in Key \cup {NoKey}
  BY OfferedAssumption DEF KeyFor, Key

LEMMA StartKeyType ==
  ASSUME NEW t \in Turn, NEW n \in Name
  PROVE  KeyFor(t, n) \in Key
  BY OfferedAssumption DEF KeyFor, Key

LEMMA AcceptedType == Ev("accepted") \in Event
  BY DEF Ev, Event, Kind, Flag

LEMMA StartedType ==
  ASSUME TypeOK, NEW t \in Turn, Started(t)
  PROVE  /\ projection[t] \in [snap : Snapshot, last_sequence : Nat]
         /\ projection[t].snap \in Snapshot
         /\ projection[t].last_sequence \in Nat
  BY DEF TypeOK, Started

-----------------------------------------------------------------------------
\* Type correctness

LEMMA InitTypeOK == Init => TypeOK
  BY DEF Init, TypeOK

LEMMA NextTypeOK == TypeOK /\ [Next]_vars => TypeOK'
  <1> SUFFICES ASSUME TypeOK, [Next]_vars
               PROVE  TypeOK'
    OBVIOUS
  <1>1. ASSUME NEW s \in Session, NEW t \in Turn, NEW n \in Name, StartTurn(s, t, n)
        PROVE  TypeOK'
    <2>1. [ev |-> Ev("accepted"), seq |-> 1, key |-> KeyFor(t, n)] \in Entry
      BY AcceptedType, StartKeyType DEF Entry
    <2>2. InitialSnapshot \in Snapshot
      BY InitialSnapshotType
    <2>3. QED
      BY <1>1, <2>1, <2>2 DEF StartTurn, TypeOK
  <1>2. ASSUME NEW t \in Turn, NEW r \in Offered,
               AppendEvent(t, r.ev, KeyFor(t, r.name))
        PROVE  TypeOK'
    <2> DEFINE snap == projection[t].snap
               seq  == projection[t].last_sequence + 1
    <2>1. snap \in Snapshot /\ seq \in Nat
      BY <1>2, StartedType DEF AppendEvent
    <2>2. Reduce(snap, r.ev) \in Snapshot
      BY <2>1, OfferedType, ReduceType
    <2>3. [ev |-> r.ev, seq |-> seq, key |-> KeyFor(t, r.name)] \in Entry
      BY <2>1, OfferedType DEF Entry
    <2>4. events' \in [Turn -> Seq(Entry)]
      BY <1>2, <2>3 DEF AppendEvent, TypeOK
    <2>5. projection' \in [Turn -> [snap : Snapshot, last_sequence : Nat] \cup {NoTurn}]
      BY <1>2, <2>1, <2>2 DEF AppendEvent, TypeOK
    <2>6. checkpoints' \in [Turn -> Seq(Snapshot)]
      BY <1>2, <2>2 DEF AppendEvent, TypeOK
    <2>7. sessions' \in [Session -> {"absent", "active", "complete"}]
      BY <1>2 DEF AppendEvent, SessionStatus, TypeOK
    <2>8. QED
      BY <1>2, <2>4, <2>5, <2>6, <2>7 DEF AppendEvent, TypeOK
  <1>3. CASE UNCHANGED vars
    BY <1>3 DEF vars, TypeOK
  <1>4. QED
    BY <1>1, <1>2, <1>3 DEF Next, AppendDuplicate, AppendRejected

\* The store is well typed.
THEOREM JournalTypeCorrect == Spec => []TypeOK
  BY InitTypeOK, NextTypeOK, PTL DEF Spec

-----------------------------------------------------------------------------
\* Every transaction that changes anything is one of two

LEMMA StepsOfTheStore ==
  ASSUME [Next]_vars
  PROVE  \/ \E s \in Session, t \in Turn, n \in Name : StartTurn(s, t, n)
         \/ \E t \in Turn, r \in Offered : AppendEvent(t, r.ev, KeyFor(t, r.name))
         \/ UNCHANGED vars
  BY DEF Next, AppendDuplicate, AppendRejected

-----------------------------------------------------------------------------
\* An ended turn is final

LEMMA NextKeepsEndedTurns ==
  ASSUME TypeOK, [Next]_vars, NEW t \in Turn, Started(t), Terminal(projection[t].snap)
  PROVE  /\ events'[t] = events[t]
         /\ projection'[t] = projection[t]
         /\ checkpoints'[t] = checkpoints[t]
  <1>1. ASSUME NEW s \in Session, NEW u \in Turn, NEW n \in Name, StartTurn(s, u, n)
        PROVE  u # t
    BY <1>1 DEF StartTurn
  <1>2. ASSUME NEW u \in Turn, NEW r \in Offered,
               AppendEvent(u, r.ev, KeyFor(u, r.name))
        PROVE  u # t
    BY <1>2 DEF AppendEvent, Rejected
  <1>3. QED
    BY <1>1, <1>2, StepsOfTheStore DEF StartTurn, AppendEvent, vars, TypeOK

\* No transaction, whoever offers it, rewrites anything of a turn that ended.
THEOREM EndedTurnsAreFinal == Spec => EndedTurnIsFinal
  <1>1. TypeOK /\ [Next]_vars =>
          [\A t \in Turn : (Started(t) /\ Terminal(projection[t].snap)) =>
              /\ events'[t] = events[t]
              /\ projection'[t] = projection[t]
              /\ checkpoints'[t] = checkpoints[t]]_vars
    BY NextKeepsEndedTurns
  <1>2. QED
    BY JournalTypeCorrect, <1>1, PTL DEF Spec, EndedTurnIsFinal

-----------------------------------------------------------------------------
\* The three tables agree

\* The log, the projection and the checkpoints of one turn.
Agree(t) ==
    /\ Len(events[t]) = projection[t].last_sequence
    /\ Len(checkpoints[t]) = projection[t].last_sequence
    /\ checkpoints[t][1] = InitialSnapshot
    /\ \A i \in 2..Len(events[t]) :
          /\ events[t][i].seq = i
          /\ checkpoints[t][i] = Reduce(checkpoints[t][i - 1], events[t][i].ev)
    /\ projection[t].snap = checkpoints[t][Len(checkpoints[t])]

\* What ProjectionIsReplay needs to be inductive: a started turn has a first
\* event, a turn that was not started has none.
AgreeInv ==
    \A t \in Turn :
        /\ Started(t) => projection[t].last_sequence >= 1 /\ Agree(t)
        /\ ~Started(t) => events[t] = <<>>

LEMMA InitAgree == Init => AgreeInv
  BY DEF Init, AgreeInv, Started

LEMMA NextAgree == TypeOK /\ AgreeInv /\ [Next]_vars => AgreeInv'
  <1> SUFFICES ASSUME TypeOK, AgreeInv, [Next]_vars, NEW t \in Turn
               PROVE  /\ Started(t)' => projection'[t].last_sequence >= 1 /\ Agree(t)'
                      /\ ~Started(t)' => events'[t] = <<>>
    BY DEF AgreeInv
  <1>1. ASSUME NEW s \in Session, NEW u \in Turn, NEW n \in Name, StartTurn(s, u, n)
        PROVE  /\ Started(t)' => projection'[t].last_sequence >= 1 /\ Agree(t)'
               /\ ~Started(t)' => events'[t] = <<>>
    <2>1. CASE u = t
      <3>1. /\ events'[t] = <<[ev |-> Ev("accepted"), seq |-> 1, key |-> KeyFor(t, n)]>>
            /\ projection'[t] = [snap |-> InitialSnapshot, last_sequence |-> 1]
            /\ checkpoints'[t] = <<InitialSnapshot>>
        BY <1>1, <2>1 DEF StartTurn, TypeOK
      <3>2. projection'[t] # NoTurn
        BY <3>1, InitialSnapshotType, OfferedAssumption
      <3>3. QED
        BY <3>1, <3>2 DEF Agree, Started
    <2>2. CASE u # t
      BY <1>1, <2>2 DEF StartTurn, AgreeInv, Agree, Started, TypeOK
    <2>3. QED
      BY <2>1, <2>2
  <1>2. ASSUME NEW u \in Turn, NEW r \in Offered,
               AppendEvent(u, r.ev, KeyFor(u, r.name))
        PROVE  /\ Started(t)' => projection'[t].last_sequence >= 1 /\ Agree(t)'
               /\ ~Started(t)' => events'[t] = <<>>
    <2>1. CASE u = t
      <3> DEFINE seq   == projection[t].last_sequence + 1
                 snap  == projection[t].snap
                 entry == [ev |-> r.ev, seq |-> seq, key |-> KeyFor(t, r.name)]
      <3>1. /\ events'[t] = Append(events[t], entry)
            /\ projection'[t] = [snap |-> Reduce(snap, r.ev), last_sequence |-> seq]
            /\ checkpoints'[t] = Append(checkpoints[t], Reduce(snap, r.ev))
        BY <1>2, <2>1 DEF AppendEvent, TypeOK
      <3>2. Started(t) /\ seq \in Nat /\ seq >= 2 /\ Agree(t)
        BY <1>2, <2>1, StartedType DEF AppendEvent, AgreeInv
      <3>3. events[t] \in Seq(Entry) /\ checkpoints[t] \in Seq(Snapshot)
        BY DEF TypeOK
      <3>4. Len(events[t]) = seq - 1 /\ Len(checkpoints[t]) = seq - 1
        BY <3>2, StartedType DEF Agree
      <3>a. entry \in Entry /\ Reduce(snap, r.ev) \in Snapshot
        BY <3>2, StartedType, OfferedType, ReduceType DEF Entry
      <3>5. Len(events'[t]) = seq /\ Len(checkpoints'[t]) = seq
        <4>1. Len(events'[t]) = Len(events[t]) + 1
          BY <3>1, <3>3, <3>a, AppendProperties
        <4>2. Len(checkpoints'[t]) = Len(checkpoints[t]) + 1
          BY <3>1, <3>3, <3>a, AppendProperties
        <4>3. QED
          BY <3>2, <3>4, <4>1, <4>2
      <3>6. /\ events'[t][seq] = entry
            /\ checkpoints'[t][seq] = Reduce(snap, r.ev)
            /\ \A i \in 1..(seq - 1) : /\ events'[t][i] = events[t][i]
                                       /\ checkpoints'[t][i] = checkpoints[t][i]
        <4>1. /\ events'[t][Len(events[t]) + 1] = entry
              /\ \A i \in 1..Len(events[t]) : events'[t][i] = events[t][i]
          BY <3>1, <3>3, <3>a, AppendProperties
        <4>2. /\ checkpoints'[t][Len(checkpoints[t]) + 1] = Reduce(snap, r.ev)
              /\ \A i \in 1..Len(checkpoints[t]) : checkpoints'[t][i] = checkpoints[t][i]
          BY <3>1, <3>3, <3>a, AppendProperties
        <4>3. QED
          BY <3>2, <3>4, <4>1, <4>2
      <3>7. checkpoints'[t][1] = InitialSnapshot
        BY <3>2, <3>6 DEF Agree
      <3>8. ASSUME NEW i \in 2..seq
            PROVE  /\ events'[t][i].seq = i
                   /\ checkpoints'[t][i] = Reduce(checkpoints'[t][i - 1], events'[t][i].ev)
        <4>1. CASE i = seq
          <5>1. seq - 1 \in 1..(seq - 1)
            BY <3>2
          <5>2. snap = checkpoints[t][seq - 1]
            BY <3>2, <3>4 DEF Agree
          <5>3. QED
            BY <3>6, <4>1, <5>1, <5>2
        <4>2. CASE i < seq
          <5>1. i \in 2..Len(events[t]) /\ i \in 1..(seq - 1) /\ i - 1 \in 1..(seq - 1)
            BY <3>2, <3>4, <4>2
          <5>2. QED
            BY <3>2, <3>6, <5>1 DEF Agree
        <4>3. QED
          BY <3>2, <4>1, <4>2
      <3>9. projection'[t] # NoTurn
        BY <3>1, <3>2, StartedType, OfferedType, ReduceType, OfferedAssumption
      <3>10. Agree(t)'
        <4>1. projection'[t].last_sequence = seq /\ projection'[t].snap = Reduce(snap, r.ev)
          BY <3>1
        <4>2. QED
          BY <3>5, <3>6, <3>7, <3>8, <4>1 DEF Agree
      <3>11. QED
        BY <3>1, <3>2, <3>9, <3>10 DEF Started
    <2>2. CASE u # t
      BY <1>2, <2>2 DEF AppendEvent, AgreeInv, Agree, Started, TypeOK
    <2>3. QED
      BY <2>1, <2>2
  <1>3. CASE UNCHANGED vars
    BY <1>3 DEF vars, AgreeInv, Agree, Started
  <1>4. QED
    BY <1>1, <1>2, <1>3, StepsOfTheStore

\* What the database shows of a turn is what replaying its log gives, whatever
\* transactions were committed, refused or repeated.
THEOREM ProjectionReplays == Spec => []ProjectionIsReplay
  <1>1. AgreeInv => ProjectionIsReplay
    BY DEF AgreeInv, Agree, ProjectionIsReplay
  <1>2. QED
    BY InitTypeOK, NextTypeOK, InitAgree, NextAgree, <1>1, PTL DEF Spec

-----------------------------------------------------------------------------
\* No key is spent twice

\* Two rows of the database with the same key are the same row.
LEMMA InitKeys == Init => KeySpentOnce
  BY DEF Init, KeySpentOnce

LEMMA NextKeys == TypeOK /\ AgreeInv /\ KeySpentOnce /\ [Next]_vars => KeySpentOnce'
  <1> SUFFICES ASSUME TypeOK, AgreeInv, KeySpentOnce, [Next]_vars
               PROVE  KeySpentOnce'
    OBVIOUS
  <1>1. ASSUME NEW t \in Turn, NEW entry,
               entry \in Entry, events'[t] = Append(events[t], entry),
               \A u \in Turn \ {t} : events'[u] = events[u],
               entry.key \notin SpentKeys
        PROVE  KeySpentOnce'
    <2> SUFFICES ASSUME NEW u \in Turn, NEW v \in Turn,
                        NEW i \in DOMAIN events'[u], NEW j \in DOMAIN events'[v],
                        events'[u][i].key = events'[v][j].key,
                        events'[u][i].key # NoKey
                 PROVE  u = v /\ i = j
      BY DEF KeySpentOnce
    <2>1. \A w \in Turn : events[w] \in Seq(Entry)
      BY DEF TypeOK
    <2> DEFINE Old(w, k) == k \in DOMAIN events[w] /\ events'[w][k] = events[w][k]
               New(w, k) == w = t /\ k = Len(events[t]) + 1 /\ events'[w][k] = entry
    <2>2. \A w \in Turn : \A k \in DOMAIN events'[w] : Old(w, k) \/ New(w, k)
      <3>1. ASSUME NEW k \in DOMAIN events'[t]
            PROVE  Old(t, k) \/ New(t, k)
        <4>1. k \in 1..Len(events[t]) + 1 /\ DOMAIN events[t] = 1..Len(events[t])
          BY <1>1, <2>1, AppendProperties
        <4>2. /\ events'[t][Len(events[t]) + 1] = entry
              /\ \A i1 \in 1..Len(events[t]) : events'[t][i1] = events[t][i1]
          BY <1>1, <2>1, AppendProperties
        <4>3. QED
          BY <2>1, <4>1, <4>2
      <3>2. \A w \in Turn \ {t} : \A k \in DOMAIN events'[w] : Old(w, k)
        BY <1>1
      <3>3. QED
        BY <3>1, <3>2
    <2>3. \A w \in Turn : \A k \in DOMAIN events'[w] :
             Old(w, k) /\ events'[w][k].key # NoKey => events'[w][k].key \in SpentKeys
      BY DEF SpentKeys, KeysOf
    <2>4. CASE Old(u, i) /\ Old(v, j)
      BY <2>4 DEF KeySpentOnce
    <2>5. CASE New(u, i) /\ New(v, j)
      BY <2>5
    <2>6. CASE Old(u, i) /\ New(v, j)
      BY <1>1, <2>3, <2>6
    <2>7. CASE New(u, i) /\ Old(v, j)
      BY <1>1, <2>3, <2>7
    <2>8. QED
      BY <2>2, <2>4, <2>5, <2>6, <2>7
  <1>2. ASSUME NEW s \in Session, NEW t \in Turn, NEW n \in Name, StartTurn(s, t, n)
        PROVE  KeySpentOnce'
    <2> DEFINE entry == [ev |-> Ev("accepted"), seq |-> 1, key |-> KeyFor(t, n)]
    <2>1. events[t] = <<>>
      BY <1>2 DEF StartTurn, AgreeInv
    <2>2. events'[t] = Append(events[t], entry)
      BY <1>2, <2>1 DEF StartTurn, TypeOK
    <2>3. \A u \in Turn \ {t} : events'[u] = events[u]
      BY <1>2 DEF StartTurn, TypeOK
    <2>4. entry \in Entry /\ entry.key \notin SpentKeys
      BY <1>2, AcceptedType, StartKeyType DEF StartTurn, Entry
    <2>5. QED
      BY <1>1, <2>2, <2>3, <2>4
  <1>3. ASSUME NEW t \in Turn, NEW r \in Offered,
               AppendEvent(t, r.ev, KeyFor(t, r.name))
        PROVE  KeySpentOnce'
    <2> DEFINE entry == [ev |-> r.ev, seq |-> projection[t].last_sequence + 1,
                         key |-> KeyFor(t, r.name)]
    <2>1. events'[t] = Append(events[t], entry)
      BY <1>3 DEF AppendEvent, TypeOK
    <2>2. \A u \in Turn \ {t} : events'[u] = events[u]
      BY <1>3 DEF AppendEvent, TypeOK
    <2>3. entry \in Entry /\ entry.key \notin SpentKeys
      BY <1>3, StartedType, OfferedType DEF AppendEvent, Entry
    <2>4. QED
      BY <1>1, <2>1, <2>2, <2>3
  <1>4. CASE UNCHANGED vars
    BY <1>4 DEF vars, KeySpentOnce
  <1>5. QED
    BY <1>2, <1>3, <1>4, StepsOfTheStore

\* However callers repeat and interleave their keyed requests, a key is on one
\* row of one turn at most.
THEOREM KeysAreSpentOnce == Spec => []KeySpentOnce
  BY InitTypeOK, NextTypeOK, InitAgree, NextAgree, InitKeys, NextKeys, PTL DEF Spec

-----------------------------------------------------------------------------
\* Nothing follows a terminal row

LEMMA InitNothingAfter == Init => NothingAfterTheEnd
  BY DEF Init, NothingAfterTheEnd

LEMMA NextNothingAfter ==
  TypeOK /\ AgreeInv /\ NothingAfterTheEnd /\ [Next]_vars => NothingAfterTheEnd'
  <1> SUFFICES ASSUME TypeOK, AgreeInv, NothingAfterTheEnd, [Next]_vars, NEW t \in Turn,
                      NEW i \in 1..(Len(checkpoints'[t]) - 1)
               PROVE  ~Terminal(checkpoints'[t][i])
    BY DEF NothingAfterTheEnd
  <1>1. ASSUME NEW s \in Session, NEW u \in Turn, NEW n \in Name, StartTurn(s, u, n)
        PROVE  ~Terminal(checkpoints'[t][i])
    <2>1. CASE u = t
      <3>1. checkpoints'[t] = <<InitialSnapshot>>
        BY <1>1, <2>1 DEF StartTurn, TypeOK
      <3>2. QED
        BY <3>1
    <2>2. CASE u # t
      BY <1>1, <2>2 DEF StartTurn, TypeOK, NothingAfterTheEnd
    <2>3. QED
      BY <2>1, <2>2
  <1>2. ASSUME NEW u \in Turn, NEW r \in Offered,
               AppendEvent(u, r.ev, KeyFor(u, r.name))
        PROVE  ~Terminal(checkpoints'[t][i])
    <2>1. CASE u = t
      <3> DEFINE updated == Reduce(projection[t].snap, r.ev)
                 log     == checkpoints[t]
      <3>1. checkpoints'[t] = Append(log, updated) /\ Started(t) /\ ~Terminal(projection[t].snap)
        BY <1>2, <2>1 DEF AppendEvent, TypeOK, Rejected
      <3>2. log \in Seq(Snapshot) /\ updated \in Snapshot
        BY <3>1, StartedType, OfferedType, ReduceType DEF TypeOK
      <3>3. Len(log) >= 1 /\ log[Len(log)] = projection[t].snap
        BY <3>1, StartedType DEF AgreeInv, Agree
      <3>4. i \in 1..Len(log) /\ checkpoints'[t][i] = log[i]
        BY <3>1, <3>2, AppendProperties, LenProperties
      <3>5. CASE i = Len(log)
        BY <3>1, <3>3, <3>4, <3>5
      <3>6. CASE i \in 1..(Len(log) - 1)
        BY <3>4, <3>6 DEF NothingAfterTheEnd
      <3>7. QED
        BY <3>2, <3>4, <3>5, <3>6, LenProperties
    <2>2. CASE u # t
      BY <1>2, <2>2 DEF AppendEvent, TypeOK, NothingAfterTheEnd
    <2>3. QED
      BY <2>1, <2>2
  <1>3. CASE UNCHANGED vars
    BY <1>3 DEF vars, NothingAfterTheEnd
  <1>4. QED
    BY <1>1, <1>2, <1>3, StepsOfTheStore

\* Only the last row of a log can end its turn.
THEOREM NothingFollowsTheEnd == Spec => []NothingAfterTheEnd
  BY InitTypeOK, NextTypeOK, InitAgree, NextAgree, InitNothingAfter, NextNothingAfter,
     PTL DEF Spec

-----------------------------------------------------------------------------
\* The store implements the ledger

\* The instance of the ledger has the reducer's definitions under its own names.
LEMMA LedgerReducer ==
  ASSUME NEW snap, NEW ev
  PROVE  /\ Ledger!Event = Event
         /\ Ledger!InitialSnapshot = InitialSnapshot
         /\ Ledger!Rejected(snap, ev) <=> Rejected(snap, ev)
         /\ Ledger!Reduce(snap, ev) = Reduce(snap, ev)
  <1>1. Ledger!Event = Event
    BY DEF Ledger!Event, Ledger!Kind, Ledger!Flag, Event, Kind, Flag
  <1>2. Ledger!InitialSnapshot = InitialSnapshot
    BY DEF Ledger!InitialSnapshot, InitialSnapshot
  <1>3. Ledger!Rejected(snap, ev) <=> Rejected(snap, ev)
    BY DEF Ledger!Rejected, Ledger!Terminal, Ledger!TerminalPhase, Ledger!Given,
           Rejected, Terminal, TerminalPhase, Given
  <1>4. Ledger!Reduce(snap, ev) = Reduce(snap, ev)
    BY DEF Ledger!Reduce, Ledger!WithTool, Ledger!WithApproval, Ledger!WithVerdict,
           Ledger!WithEnd, Ledger!Given, Ledger!TerminalPhase,
           Reduce, WithTool, WithApproval, WithVerdict, WithEnd, Given, TerminalPhase
  <1>5. QED
    BY <1>1, <1>2, <1>3, <1>4

LEMMA SpentKeysGrow ==
  ASSUME TypeOK, NEW t \in Turn, NEW entry \in Entry,
         events'[t] = Append(events[t], entry),
         \A u \in Turn \ {t} : events'[u] = events[u]
  PROVE  SpentKeys' = SpentKeys \cup ({entry.key} \ {NoKey})
  <1>1. \A u \in Turn : events[u] \in Seq(Entry)
    BY DEF TypeOK
  <1>2. KeysOf(events'[t]) = KeysOf(events[t]) \cup ({entry.key} \ {NoKey})
    <2>1. /\ DOMAIN events[t] = 1..Len(events[t])
          /\ DOMAIN events'[t] = 1..(Len(events[t]) + 1)
          /\ events'[t][Len(events[t]) + 1] = entry
          /\ \A i \in 1..Len(events[t]) : events'[t][i] = events[t][i]
          /\ Len(events[t]) \in Nat
      BY <1>1, AppendProperties, LenProperties
    <2>2. QED
      BY <2>1 DEF KeysOf
  <1>3. \A u \in Turn \ {t} : KeysOf(events'[u]) = KeysOf(events[u])
    OBVIOUS
  <1>4. SpentKeys' = UNION {KeysOf(events'[u]) : u \in Turn}
    BY DEF SpentKeys, KeysOf
  <1>5. QED
    BY <1>2, <1>3, <1>4 DEF SpentKeys

LEMMA StartIsLedgerStart ==
  ASSUME TypeOK, AgreeInv, NEW s \in Session, NEW t \in Turn, NEW n \in Name,
         StartTurn(s, t, n)
  PROVE  Ledger!Start(t, <<t, n>>)
  <1> DEFINE entry == [ev |-> Ev("accepted"), seq |-> 1, key |-> KeyFor(t, n)]
  <1>1. KeyFor(t, n) = <<t, n>> /\ <<t, n>> # NoKey
    BY OfferedAssumption DEF KeyFor, Key
  <1>2. events'[t] = Append(events[t], entry) /\ \A u \in Turn \ {t} : events'[u] = events[u]
    BY DEF StartTurn, TypeOK, AgreeInv
  <1>3. SpentKeys' = SpentKeys \cup {<<t, n>>}
    <2>1. entry \in Entry
      BY AcceptedType, StartKeyType DEF Entry
    <2>2. QED
      BY <1>1, <1>2, <2>1, SpentKeysGrow
  <1>4. SnapshotOf' = [SnapshotOf EXCEPT ![t] = InitialSnapshot]
    <2>1. projection'[t] = [snap |-> InitialSnapshot, last_sequence |-> 1]
      BY DEF StartTurn, TypeOK
    <2>2. projection'[t] # NoTurn
      BY <2>1, InitialSnapshotType, OfferedAssumption
    <2>3. \A u \in Turn \ {t} : projection'[u] = projection[u]
      BY DEF StartTurn, TypeOK
    <2>4. \A u \in Turn :
             SnapshotOf'[u] = [SnapshotOf EXCEPT ![t] = InitialSnapshot][u]
      BY <2>1, <2>2, <2>3 DEF SnapshotOf, Started
    <2>5. QED
      BY <2>4 DEF SnapshotOf
  <1>5. SnapshotOf[t] = NoTurn /\ <<t, n>> \notin SpentKeys
    BY <1>1 DEF StartTurn, SnapshotOf
  <1>6. QED
    BY <1>3, <1>4, <1>5, LedgerReducer DEF Ledger!Start, Ledger!Started

LEMMA AppendIsLedgerAppend ==
  ASSUME TypeOK, NEW t \in Turn, NEW r \in Offered,
         AppendEvent(t, r.ev, KeyFor(t, r.name))
  PROVE  Ledger!Append(t, r.ev, KeyFor(t, r.name))
  <1> DEFINE key     == KeyFor(t, r.name)
             updated == Reduce(projection[t].snap, r.ev)
             entry   == [ev |-> r.ev, seq |-> projection[t].last_sequence + 1, key |-> key]
  <1>1. /\ Started(t) /\ key \notin SpentKeys
        /\ ~Rejected(projection[t].snap, r.ev)
    BY DEF AppendEvent
  <1>2. events'[t] = Append(events[t], entry) /\ \A u \in Turn \ {t} : events'[u] = events[u]
    BY DEF AppendEvent, TypeOK
  <1>3. SpentKeys' = SpentKeys \cup ({key} \ {NoKey})
    <2>1. entry \in Entry
      BY <1>1, StartedType, OfferedType DEF Entry
    <2>2. QED
      BY <1>2, <2>1, SpentKeysGrow
  <1>4. SnapshotOf[t] = projection[t].snap /\ SnapshotOf[t] # NoTurn
    BY <1>1, StartedType, OfferedAssumption DEF SnapshotOf
  <1>5. SnapshotOf' = [SnapshotOf EXCEPT ![t] = updated]
    <2>1. projection'[t] = [snap |-> updated,
                            last_sequence |-> projection[t].last_sequence + 1]
      BY DEF AppendEvent, TypeOK
    <2>2. projection'[t] # NoTurn
      BY <1>1, <2>1, StartedType, OfferedType, ReduceType, OfferedAssumption
    <2>3. \A u \in Turn \ {t} : projection'[u] = projection[u]
      BY DEF AppendEvent, TypeOK
    <2>4. \A u \in Turn :
             SnapshotOf'[u] = [SnapshotOf EXCEPT ![t] = updated][u]
      BY <2>1, <2>2, <2>3 DEF SnapshotOf, Started
    <2>5. QED
      BY <2>4 DEF SnapshotOf
  <1>6. QED
    BY <1>1, <1>3, <1>4, <1>5, LedgerReducer
       DEF Ledger!Append, Ledger!Refused, Ledger!Started

LEMMA StepIsLedgerStep ==
  TypeOK /\ AgreeInv /\ [Next]_vars => [Ledger!LedgerNext]_Ledger!ledgerVars
  <1> SUFFICES ASSUME TypeOK, AgreeInv, [Next]_vars
               PROVE  [Ledger!LedgerNext]_Ledger!ledgerVars
    OBVIOUS
  <1>1. ASSUME NEW s \in Session, NEW t \in Turn, NEW n \in Name, StartTurn(s, t, n)
        PROVE  Ledger!LedgerNext
    BY <1>1, StartIsLedgerStart DEF Ledger!LedgerNext
  <1>2. ASSUME NEW t \in Turn, NEW r \in Offered,
               AppendEvent(t, r.ev, KeyFor(t, r.name))
        PROVE  Ledger!LedgerNext
    <2>1. Ledger!Append(t, r.ev, KeyFor(t, r.name)) /\ r.ev \in Event
      BY <1>2, AppendIsLedgerAppend, OfferedType
    <2>2. CASE r.name = NoKey
      BY <2>1, <2>2, LedgerReducer DEF KeyFor, Ledger!LedgerNext
    <2>3. CASE r.name # NoKey
      <3>1. r.name \in Name /\ KeyFor(t, r.name) = <<t, r.name>>
        BY <2>3, OfferedAssumption DEF KeyFor
      <3>2. QED
        BY <2>1, <3>1, LedgerReducer DEF Ledger!LedgerNext
    <2>4. QED
      BY <2>2, <2>3
  <1>3. CASE UNCHANGED vars
    BY <1>3 DEF vars, Ledger!ledgerVars, SnapshotOf, Started, SpentKeys, KeysOf
  <1>4. QED
    BY <1>1, <1>2, <1>3, StepsOfTheStore

LEMMA InitIsLedgerInit == Init => Ledger!LedgerInit
  BY DEF Init, Ledger!LedgerInit, SnapshotOf, Started, SpentKeys, KeysOf

\* Every behaviour of the event store is a behaviour of the ledger: starting a
\* turn and appending an event are single steps there, a duplicate or a refused
\* append is none.
THEOREM StoreImplementsLedger == Spec => LedgerSpec
  BY InitTypeOK, NextTypeOK, InitAgree, NextAgree, InitIsLedgerInit, StepIsLedgerStep,
     PTL DEF Spec, LedgerSpec, Ledger!LedgerSpec

-----------------------------------------------------------------------------
\* Completion rests on evidence

IsVerdict(entry) == entry.ev.kind = "verification"

\* The snapshot is validated exactly if the latest verification of the log passed.
ShowsVerdict(log, snap) ==
    \/ (\A i \in DOMAIN log : ~IsVerdict(log[i])) /\ ~snap.validated
    \/ \E i \in DOMAIN log :
          /\ IsVerdict(log[i])
          /\ \A j \in DOMAIN log : IsVerdict(log[j]) => j <= i
          /\ snap.validated <=> log[i].ev.flag = "yes"

ClosedOnEvidence(log) ==
    LET last == log[Len(log)].ev IN
    last.flag = "yes" \/ (last.flag = "absent" /\ LastVerdict(log) = "yes")

\* What CompletedOnEvidence needs to be inductive: as long as a turn is not
\* completed, its snapshot shows the latest verdict.
EvidenceInv ==
    \A t \in Turn : Started(t) =>
        IF projection[t].snap.phase = "completed" THEN ClosedOnEvidence(events[t])
        ELSE ShowsVerdict(events[t], projection[t].snap)

\* The verdict of the log is the flag of its latest verification.
LEMMA LatestVerdict ==
  ASSUME NEW log \in Seq(Entry), NEW i \in DOMAIN log, IsVerdict(log[i]),
         \A j \in DOMAIN log : IsVerdict(log[j]) => j <= i
  PROVE  LastVerdict(log) = log[i].ev.flag
  <1> DEFINE verdicts == {j \in DOMAIN log : log[j].ev.kind = "verification"}
             latest   == CHOOSE k \in verdicts : \A j \in verdicts : j <= k
  <1>1. i \in verdicts /\ \A j \in verdicts : j <= i
    BY DEF IsVerdict
  <1>2. latest \in verdicts /\ \A j \in verdicts : j <= latest
    BY <1>1
  <1>3. latest = i
    <2>1. i <= latest /\ latest <= i
      BY <1>1, <1>2
    <2>2. i \in Int /\ latest \in Int
      BY <1>1, <1>2, LenProperties
    <2>3. QED
      BY <2>1, <2>2
  <1>4. LastVerdict(log) = log[latest].ev.flag
    BY <1>1 DEF LastVerdict
  <1>5. QED
    BY <1>3, <1>4

\* Only a verification, or the completion itself, moves what a snapshot shows.
LEMMA ReduceValidated ==
  ASSUME NEW snap \in Snapshot, NEW ev \in Event, ~Rejected(snap, ev)
  PROVE  /\ Reduce(snap, ev).phase = "completed" <=> ev.kind = "completed"
         /\ ev.kind = "verification" => (Reduce(snap, ev).validated <=> ev.flag = "yes")
         /\ ev.kind \notin {"verification", "completed"} =>
               Reduce(snap, ev).validated = snap.validated
  <1>1. ev.kind \in Kind /\ snap.phase \notin TerminalPhase /\ ev.flag \in Flag
    BY DEF Event, Rejected, Terminal
  <1>2. snap = [phase |-> snap.phase, status |-> snap.status,
                pending_action |-> snap.pending_action,
                open_tool_attempts |-> snap.open_tool_attempts,
                validated |-> snap.validated]
    BY DEF Snapshot
  <1>3. CASE ev.kind \in {"tool_started", "tool_completed"}
    BY <1>1, <1>2, <1>3 DEF Reduce, WithTool, TerminalPhase
  <1>4. CASE ev.kind \in {"approval_required", "approval_resolved"}
    BY <1>1, <1>2, <1>4 DEF Reduce, WithApproval, TerminalPhase
  <1>5. CASE ev.kind = "verification"
    BY <1>1, <1>2, <1>5 DEF Reduce, WithVerdict, Given, TerminalPhase
  <1>6. CASE ev.kind \in TerminalPhase
    BY <1>1, <1>2, <1>6 DEF Reduce, WithEnd, TerminalPhase
  <1>7. CASE ev.kind \in {"planning_started", "planned", "verification_started", "repair",
                          "checkpoint", "progress", "todo_board", "accepted"}
    BY <1>1, <1>2, <1>7 DEF Reduce, TerminalPhase
  <1>8. QED
    BY <1>1, <1>3, <1>4, <1>5, <1>6, <1>7 DEF Kind, TerminalPhase

\* What the row appended to a log tells of it.
LEMMA Appended ==
  ASSUME NEW log \in Seq(Entry), NEW entry \in Entry
  PROVE  /\ DOMAIN log = 1..Len(log) /\ Len(log) \in Nat
         /\ DOMAIN Append(log, entry) = 1..(Len(log) + 1)
         /\ Len(Append(log, entry)) = Len(log) + 1
         /\ Append(log, entry)[Len(log) + 1] = entry
         /\ \A i \in 1..Len(log) : Append(log, entry)[i] = log[i]
  BY AppendProperties, LenProperties

LEMMA AppendShowsVerdict ==
  ASSUME NEW log \in Seq(Entry), NEW snap \in Snapshot, NEW entry \in Entry,
         ShowsVerdict(log, snap), ~Rejected(snap, entry.ev),
         entry.ev.kind # "completed"
  PROVE  ShowsVerdict(Append(log, entry), Reduce(snap, entry.ev))
  <1> DEFINE next == Append(log, entry)
             n    == Len(log) + 1
             to   == Reduce(snap, entry.ev)
  <1>1. /\ DOMAIN log = 1..Len(log) /\ Len(log) \in Nat
        /\ DOMAIN next = 1..n
        /\ next[n] = entry
        /\ \A i \in 1..Len(log) : next[i] = log[i]
    BY Appended
  <1>2. entry.ev \in Event
    BY DEF Entry
  <1>3. /\ entry.ev.kind = "verification" => (to.validated <=> entry.ev.flag = "yes")
        /\ entry.ev.kind # "verification" => to.validated = snap.validated
    BY <1>2, ReduceValidated
  <1> SUFFICES ShowsVerdict(next, to)
    OBVIOUS
  <1> HIDE DEF next, to
  <1>4. CASE IsVerdict(entry)
    <2>1. n \in DOMAIN next /\ \A j \in DOMAIN next : j <= n
      BY <1>1
    <2>2. QED
      BY <1>1, <1>3, <1>4, <2>1 DEF ShowsVerdict, IsVerdict
  <1>5. CASE ~IsVerdict(entry)
    <2>1. to.validated = snap.validated
      BY <1>3, <1>5 DEF IsVerdict
    <2>2. \A j \in DOMAIN next : IsVerdict(next[j]) => j \in DOMAIN log
      BY <1>1, <1>5
    <2>3. CASE (\A i \in DOMAIN log : ~IsVerdict(log[i])) /\ ~snap.validated
      <3>1. \A i \in DOMAIN next : ~IsVerdict(next[i])
        BY <1>1, <2>2, <2>3
      <3>2. QED
        BY <2>1, <2>3, <3>1 DEF ShowsVerdict
    <2>4. ASSUME NEW i \in DOMAIN log, IsVerdict(log[i]),
                 \A j \in DOMAIN log : IsVerdict(log[j]) => j <= i,
                 snap.validated <=> log[i].ev.flag = "yes"
          PROVE  ShowsVerdict(next, to)
      <3>1. i \in DOMAIN next /\ next[i] = log[i]
        BY <1>1
      <3>2. \A j \in DOMAIN next : IsVerdict(next[j]) => j <= i
        BY <1>1, <2>2, <2>4
      <3>3. QED
        BY <2>1, <2>4, <3>1, <3>2 DEF ShowsVerdict
    <2>5. QED
      BY <2>3, <2>4 DEF ShowsVerdict
  <1>6. QED
    BY <1>4, <1>5

\* A turn that the reducer lets complete closes on evidence.
LEMMA CompletionHasEvidence ==
  ASSUME NEW log \in Seq(Entry), NEW snap \in Snapshot, NEW entry \in Entry,
         ShowsVerdict(log, snap), ~Rejected(snap, entry.ev),
         entry.ev.kind = "completed"
  PROVE  ClosedOnEvidence(Append(log, entry))
  <1> DEFINE next == Append(log, entry)
  <1>1. /\ DOMAIN log = 1..Len(log) /\ Len(log) \in Nat
        /\ DOMAIN next = 1..(Len(log) + 1)
        /\ Len(next) = Len(log) + 1
        /\ next[Len(log) + 1] = entry
        /\ \A i \in 1..Len(log) : next[i] = log[i]
    BY Appended
  <1>2. entry.ev \in Event /\ next \in Seq(Entry)
    BY AppendProperties DEF Entry
  <1>3. Reduce(snap, entry.ev).phase = "completed"
    BY <1>2, ReduceValidated
  <1>4. Given(entry.ev.flag, snap.validated)
    BY <1>2, <1>3, CompletesOnlyValidated
  <1> HIDE DEF next
  <1>5. CASE entry.ev.flag = "yes"
    BY <1>1, <1>5 DEF ClosedOnEvidence, next
  <1>6. CASE entry.ev.flag # "yes"
    <2>1. entry.ev.flag = "absent" /\ snap.validated
      BY <1>4, <1>6 DEF Given
    <2>2. PICK i \in DOMAIN log :
                 /\ IsVerdict(log[i]) /\ log[i].ev.flag = "yes"
                 /\ \A j \in DOMAIN log : IsVerdict(log[j]) => j <= i
      BY <2>1 DEF ShowsVerdict
    <2>3. i \in DOMAIN next /\ next[i] = log[i]
      BY <1>1
    <2>4. \A j \in DOMAIN next : IsVerdict(next[j]) => j <= i
      BY <1>1, <2>2 DEF IsVerdict
    <2>5. LastVerdict(next) = "yes"
      BY <1>2, <2>2, <2>3, <2>4, LatestVerdict
    <2>6. QED
      BY <1>1, <2>1, <2>5 DEF ClosedOnEvidence, next
  <1>7. QED
    BY <1>5, <1>6

LEMMA InitEvidence == Init => EvidenceInv
  BY DEF Init, EvidenceInv, Started

\* What an appended event does to the row of its turn.
LEMMA AppendedRow ==
  ASSUME TypeOK, NEW t \in Turn, NEW r \in Offered,
         AppendEvent(t, r.ev, KeyFor(t, r.name))
  PROVE  \E entry \in Entry :
            /\ entry.ev = r.ev
            /\ Started(t) /\ ~Rejected(projection[t].snap, entry.ev)
            /\ events'[t] = Append(events[t], entry)
            /\ projection'[t].snap = Reduce(projection[t].snap, entry.ev)
            /\ \A u \in Turn \ {t} : events'[u] = events[u] /\ projection'[u] = projection[u]
  <1> DEFINE entry == [ev |-> r.ev, seq |-> projection[t].last_sequence + 1,
                       key |-> KeyFor(t, r.name)]
  <1>1. entry \in Entry
    BY StartedType, OfferedType DEF AppendEvent, Entry
  <1>2. QED
    BY <1>1 DEF AppendEvent, TypeOK

LEMMA StartedRow ==
  ASSUME TypeOK, NEW s \in Session, NEW t \in Turn, NEW n \in Name, StartTurn(s, t, n)
  PROVE  /\ events'[t] = <<[ev |-> Ev("accepted"), seq |-> 1, key |-> KeyFor(t, n)]>>
         /\ projection'[t] = [snap |-> InitialSnapshot, last_sequence |-> 1]
         /\ \A u \in Turn \ {t} : events'[u] = events[u] /\ projection'[u] = projection[u]
  BY DEF StartTurn, TypeOK

LEMMA NextEvidence == TypeOK /\ EvidenceInv /\ [Next]_vars => EvidenceInv'
  <1> DEFINE Shown(t) == IF projection[t].snap.phase = "completed"
                         THEN ClosedOnEvidence(events[t])
                         ELSE ShowsVerdict(events[t], projection[t].snap)
  <1> SUFFICES ASSUME TypeOK, EvidenceInv, [Next]_vars, NEW t \in Turn, Started(t)'
               PROVE  Shown(t)'
    BY DEF EvidenceInv
  <1>1. ASSUME NEW s \in Session, NEW u \in Turn, NEW n \in Name, StartTurn(s, u, n)
        PROVE  Shown(t)'
    <2>1. CASE u = t
      <3> DEFINE first == [ev |-> Ev("accepted"), seq |-> 1, key |-> KeyFor(t, n)]
      <3>1. events'[t] = <<first>> /\ projection'[t].snap = InitialSnapshot
        BY <1>1, <2>1, StartedRow
      <3>2. first.ev.kind = "accepted"
        BY DEF Ev
      <3> HIDE DEF first
      <3>3. \A i \in DOMAIN events'[t] : events'[t][i] = first
        BY <3>1
      <3>4. ShowsVerdict(events'[t], projection'[t].snap)
        BY <3>1, <3>2, <3>3 DEF ShowsVerdict, IsVerdict, InitialSnapshot
      <3>5. projection'[t].snap.phase # "completed"
        BY <3>1 DEF InitialSnapshot
      <3>6. QED
        BY <3>4, <3>5
    <2>2. CASE u # t
      <3>1. events'[t] = events[t] /\ projection'[t] = projection[t]
        BY <1>1, <2>2, StartedRow
      <3>2. QED
        BY <3>1 DEF EvidenceInv, Started
    <2>3. QED
      BY <2>1, <2>2
  <1>2. ASSUME NEW u \in Turn, NEW r \in Offered,
               AppendEvent(u, r.ev, KeyFor(u, r.name))
        PROVE  Shown(t)'
    <2>1. PICK entry \in Entry :
             /\ Started(u) /\ ~Rejected(projection[u].snap, entry.ev)
             /\ events'[u] = Append(events[u], entry)
             /\ projection'[u].snap = Reduce(projection[u].snap, entry.ev)
             /\ \A v \in Turn \ {u} : events'[v] = events[v] /\ projection'[v] = projection[v]
      BY <1>2, AppendedRow
    <2>2. CASE u = t
      <3>1. projection[t].snap \in Snapshot /\ events[t] \in Seq(Entry) /\ entry.ev \in Event
        BY <2>1, <2>2, StartedType DEF TypeOK, Entry
      <3>2. projection[t].snap.phase # "completed"
        BY <2>1, <2>2 DEF Rejected, Terminal, TerminalPhase
      <3>3. ShowsVerdict(events[t], projection[t].snap)
        BY <2>1, <2>2, <3>2 DEF EvidenceInv
      <3>4. projection'[t].snap.phase = "completed" <=> entry.ev.kind = "completed"
        BY <2>1, <2>2, <3>1, ReduceValidated
      <3>5. CASE entry.ev.kind = "completed"
        BY <2>1, <2>2, <3>1, <3>3, <3>4, <3>5, CompletionHasEvidence
      <3>6. CASE entry.ev.kind # "completed"
        BY <2>1, <2>2, <3>1, <3>3, <3>4, <3>6, AppendShowsVerdict
      <3>7. QED
        BY <3>5, <3>6
    <2>3. CASE u # t
      <3>1. events'[t] = events[t] /\ projection'[t] = projection[t]
        BY <2>1, <2>3
      <3>2. QED
        BY <3>1 DEF EvidenceInv, Started
    <2>4. QED
      BY <2>2, <2>3
  <1>3. CASE UNCHANGED vars
    BY <1>3 DEF vars, EvidenceInv, Started
  <1>4. QED
    BY <1>1, <1>2, <1>3, StepsOfTheStore

\* Whatever callers offer, and however verifications, repairs and completions of
\* several writers interleave, a turn is completed by an event that carries its own
\* verdict, or after a latest verification that passed.
THEOREM CompletionIsOnEvidence == Spec => []CompletedOnEvidence
  <1>1. EvidenceInv => CompletedOnEvidence
    BY DEF EvidenceInv, CompletedOnEvidence, ClosedOnEvidence
  <1>2. QED
    BY InitTypeOK, NextTypeOK, InitEvidence, NextEvidence, <1>1, PTL DEF Spec

-----------------------------------------------------------------------------
\* Open attempts are the unfinished ones

\* What an event does to the open attempts of a turn it does not complete.
LEMMA ReduceOpens ==
  ASSUME NEW snap \in Snapshot, NEW ev \in Event, ev.kind # "completed"
  PROVE  Reduce(snap, ev).open_tool_attempts =
            IF ev.kind = "tool_started"
            THEN snap.open_tool_attempts \cup ({ev.attempt} \ {NoAttempt})
            ELSE IF ev.kind = "tool_completed"
            THEN snap.open_tool_attempts \ {ev.attempt}
            ELSE snap.open_tool_attempts
  <1>1. ev.kind \in Kind
    BY DEF Event
  <1>2. snap = [phase |-> snap.phase, status |-> snap.status,
                pending_action |-> snap.pending_action,
                open_tool_attempts |-> snap.open_tool_attempts,
                validated |-> snap.validated]
    BY DEF Snapshot
  <1>3. CASE ev.kind \in {"tool_started", "tool_completed"}
    BY <1>1, <1>2, <1>3 DEF Reduce, WithTool, TerminalPhase
  <1>4. CASE ev.kind \in {"approval_required", "approval_resolved"}
    BY <1>1, <1>2, <1>4 DEF Reduce, WithApproval, TerminalPhase
  <1>5. CASE ev.kind = "verification"
    BY <1>1, <1>2, <1>5 DEF Reduce, WithVerdict, Given, TerminalPhase
  <1>6. CASE ev.kind \in TerminalPhase
    BY <1>1, <1>2, <1>6 DEF Reduce, WithEnd, TerminalPhase
  <1>7. CASE ev.kind \in {"planning_started", "planned", "verification_started", "repair",
                          "checkpoint", "progress", "todo_board", "accepted"}
    BY <1>1, <1>2, <1>7 DEF Reduce, TerminalPhase
  <1>8. QED
    BY <1>1, <1>3, <1>4, <1>5, <1>6, <1>7 DEF Kind, TerminalPhase

\* What a row does to the unfinished attempts of the log it is appended to.
LEMMA AppendUnfinished ==
  ASSUME NEW log \in Seq(Entry), NEW entry \in Entry
  PROVE  Unfinished(Append(log, entry)) =
            IF entry.ev.kind = "tool_started"
            THEN Unfinished(log) \cup ({entry.ev.attempt} \ {NoAttempt})
            ELSE IF entry.ev.kind = "tool_completed"
            THEN Unfinished(log) \ {entry.ev.attempt}
            ELSE Unfinished(log)
  <1> DEFINE next == Append(log, entry)
             n    == Len(log) + 1
  <1>1. /\ DOMAIN log = 1..Len(log) /\ Len(log) \in Nat
        /\ DOMAIN next = 1..n
        /\ Len(next) = n
        /\ next[n] = entry
        /\ \A i \in 1..Len(log) : next[i] = log[i]
    BY Appended
  <1>2. entry.ev.attempt \in Attempt \cup {NoAttempt} /\ NoAttempt \notin Attempt
    BY AttemptAssumption DEF Entry, Event
  <1> HIDE DEF next
  <1>3. ASSUME NEW a \in Attempt
        PROVE  a \in Unfinished(next) <=>
                 \/ entry.ev.kind = "tool_started" /\ entry.ev.attempt = a
                 \/ /\ a \in Unfinished(log)
                    /\ entry.ev.kind = "tool_completed" => entry.ev.attempt # a
    <2> DEFINE Leaves(l, i, m) ==
                 \A j \in (i + 1)..m : l[j].ev.kind = "tool_completed" => l[j].ev.attempt # a
               Starts(l, i) == l[i].ev.kind = "tool_started" /\ l[i].ev.attempt = a
    <2>1. a \in Unfinished(next) <=> \E i \in 1..n : Starts(next, i) /\ Leaves(next, i, n)
      BY <1>1 DEF Unfinished
    <2>2. a \in Unfinished(log) <=>
             \E i \in 1..Len(log) : Starts(log, i) /\ Leaves(log, i, Len(log))
      BY <1>1 DEF Unfinished
    <2>3. Starts(next, n) <=> entry.ev.kind = "tool_started" /\ entry.ev.attempt = a
      BY <1>1
    <2>4. Leaves(next, n, n)
      BY <1>1
    <2>5. ASSUME NEW i \in 1..Len(log)
          PROVE  /\ Starts(next, i) <=> Starts(log, i)
                 /\ Leaves(next, i, n) <=>
                       /\ Leaves(log, i, Len(log))
                       /\ entry.ev.kind = "tool_completed" => entry.ev.attempt # a
      <3>1. \A j \in (i + 1)..Len(log) : j \in 1..Len(log) /\ j \in (i + 1)..n
        BY <1>1
      <3>2. n \in (i + 1)..n /\ \A j \in (i + 1)..n : j = n \/ j \in (i + 1)..Len(log)
        BY <1>1
      <3>3. QED
        BY <1>1, <3>1, <3>2
    <2>6. n \in 1..n /\ \A i \in 1..n : i = n \/ i \in 1..Len(log)
      BY <1>1
    <2>7. \A i \in 1..Len(log) : i \in 1..n
      BY <1>1
    <2> HIDE DEF Leaves, Starts
    <2>8. QED
      BY <2>1, <2>2, <2>3, <2>4, <2>5, <2>6, <2>7
  <1>4. Unfinished(next) \subseteq Attempt /\ Unfinished(log) \subseteq Attempt
    BY DEF Unfinished
  <1>5. entry.ev.kind = "tool_started" => entry.ev.kind # "tool_completed"
    OBVIOUS
  <1>6. CASE entry.ev.kind = "tool_started"
    BY <1>2, <1>3, <1>4, <1>5, <1>6 DEF next
  <1>7. CASE entry.ev.kind = "tool_completed"
    BY <1>2, <1>3, <1>4, <1>7 DEF next
  <1>8. CASE entry.ev.kind \notin {"tool_started", "tool_completed"}
    BY <1>2, <1>3, <1>4, <1>8 DEF next
  <1>9. QED
    BY <1>6, <1>7, <1>8

LEMMA CompletionCloses ==
  ASSUME NEW snap \in Snapshot, NEW ev \in Event, ev.kind = "completed"
  PROVE  Reduce(snap, ev).open_tool_attempts = {} /\ Reduce(snap, ev).phase = "completed"
  BY DEF Reduce, WithEnd, TerminalPhase, Snapshot

LEMMA InitOpen == Init => OpenAttemptsAreUnfinished
  BY DEF Init, OpenAttemptsAreUnfinished, Started

LEMMA NextOpen ==
  TypeOK /\ OpenAttemptsAreUnfinished /\ [Next]_vars => OpenAttemptsAreUnfinished'
  <1> DEFINE Open(t) == projection[t].snap.open_tool_attempts =
                           IF projection[t].snap.phase = "completed" THEN {}
                           ELSE Unfinished(events[t])
  <1> SUFFICES ASSUME TypeOK, OpenAttemptsAreUnfinished, [Next]_vars,
                      NEW t \in Turn, Started(t)'
               PROVE  Open(t)'
    BY DEF OpenAttemptsAreUnfinished
  <1>1. ASSUME NEW s \in Session, NEW u \in Turn, NEW n \in Name, StartTurn(s, u, n)
        PROVE  Open(t)'
    <2>1. CASE u = t
      <3> DEFINE first == [ev |-> Ev("accepted"), seq |-> 1, key |-> KeyFor(t, n)]
      <3>1. events'[t] = <<first>> /\ projection'[t].snap = InitialSnapshot
        BY <1>1, <2>1, StartedRow
      <3>2. first.ev.kind = "accepted"
        BY DEF Ev
      <3> HIDE DEF first
      <3>3. \A i \in DOMAIN events'[t] : events'[t][i] = first
        BY <3>1
      <3>4. Unfinished(events'[t]) = {}
        BY <3>2, <3>3 DEF Unfinished
      <3>5. QED
        BY <3>1, <3>4 DEF InitialSnapshot
    <2>2. CASE u # t
      <3>1. events'[t] = events[t] /\ projection'[t] = projection[t]
        BY <1>1, <2>2, StartedRow
      <3>2. QED
        BY <3>1 DEF OpenAttemptsAreUnfinished, Started
    <2>3. QED
      BY <2>1, <2>2
  <1>2. ASSUME NEW u \in Turn, NEW r \in Offered,
               AppendEvent(u, r.ev, KeyFor(u, r.name))
        PROVE  Open(t)'
    <2>1. PICK entry \in Entry :
             /\ Started(u) /\ ~Rejected(projection[u].snap, entry.ev)
             /\ events'[u] = Append(events[u], entry)
             /\ projection'[u].snap = Reduce(projection[u].snap, entry.ev)
             /\ \A v \in Turn \ {u} : events'[v] = events[v] /\ projection'[v] = projection[v]
      BY <1>2, AppendedRow
    <2>2. CASE u = t
      <3>1. projection[t].snap \in Snapshot /\ events[t] \in Seq(Entry) /\ entry.ev \in Event
        BY <2>1, <2>2, StartedType DEF TypeOK, Entry
      <3>2. projection[t].snap.phase # "completed"
        BY <2>1, <2>2 DEF Rejected, Terminal, TerminalPhase
      <3>3. projection[t].snap.open_tool_attempts = Unfinished(events[t])
        BY <2>1, <2>2, <3>2 DEF OpenAttemptsAreUnfinished
      <3>4. CASE entry.ev.kind = "completed"
        BY <2>1, <2>2, <3>1, <3>4, CompletionCloses
      <3>5. CASE entry.ev.kind # "completed"
        <4>1. projection'[t].snap.phase # "completed"
          BY <2>1, <2>2, <3>1, <3>5, ReduceValidated
        <4>2. projection'[t].snap.open_tool_attempts =
                 Reduce(projection[t].snap, entry.ev).open_tool_attempts
          BY <2>1, <2>2
        <4>3. Unfinished(events'[t]) = Unfinished(Append(events[t], entry))
          BY <2>1, <2>2
        <4>4. Unfinished(Append(events[t], entry)) =
                 IF entry.ev.kind = "tool_started"
                 THEN Unfinished(events[t]) \cup ({entry.ev.attempt} \ {NoAttempt})
                 ELSE IF entry.ev.kind = "tool_completed"
                 THEN Unfinished(events[t]) \ {entry.ev.attempt}
                 ELSE Unfinished(events[t])
          BY <3>1, AppendUnfinished
        <4>5. Reduce(projection[t].snap, entry.ev).open_tool_attempts =
                 Unfinished(Append(events[t], entry))
          BY <3>1, <3>3, <3>5, <4>4, ReduceOpens
        <4>6. QED
          BY <4>1, <4>2, <4>3, <4>5
      <3>6. QED
        BY <3>4, <3>5
    <2>3. CASE u # t
      <3>1. events'[t] = events[t] /\ projection'[t] = projection[t]
        BY <2>1, <2>3
      <3>2. QED
        BY <3>1 DEF OpenAttemptsAreUnfinished, Started
    <2>4. QED
      BY <2>2, <2>3
  <1>3. CASE UNCHANGED vars
    BY <1>3 DEF vars, OpenAttemptsAreUnfinished, Started
  <1>4. QED
    BY <1>1, <1>2, <1>3, StepsOfTheStore

\* The attempts a snapshot shows as open are at all times those its log started
\* and did not finish: nothing is dropped or kept by an append in between.
THEOREM OpenAttemptsAreTheLogs == Spec => []OpenAttemptsAreUnfinished
  BY InitTypeOK, NextTypeOK, InitOpen, NextOpen, PTL DEF Spec

-----------------------------------------------------------------------------
\* Rebuilding a projection from its log

\* f replays the log: the equation by which Snapshots is defined.
Replays(f, log) ==
    f = [i \in DOMAIN log |->
           IF i = 1 THEN InitialSnapshot ELSE Reduce(f[i - 1], log[i].ev)]

\* The checkpoints are the one replay of the log, and no row of it is refused.
\* That no other function replays it is kept by induction over the appends.
OneReplay(t) ==
    /\ Replays(checkpoints[t], events[t])
    /\ \A f : Replays(f, events[t]) => f = checkpoints[t]
    /\ \A i \in 2..Len(events[t]) : ~Rejected(checkpoints[t][i - 1], events[t][i].ev)

ReplayInv ==
    \A t \in Turn :
        /\ Started(t) => OneReplay(t)
        /\ ~Started(t) => sessionOf[t] = NoSession

LEMMA InitReplay == Init => ReplayInv
  BY DEF Init, ReplayInv, Started

\* The one replay of a log is extended by an appended row to the one of the new log.
LEMMA AppendReplays ==
  ASSUME NEW log \in Seq(Entry), NEW snaps \in Seq(Snapshot), Len(log) = Len(snaps),
         Len(log) >= 1, NEW entry \in Entry,
         Reduce(snaps[Len(snaps)], entry.ev) \in Snapshot,
         Replays(snaps, log), \A f : Replays(f, log) => f = snaps
  PROVE  LET next == Append(log, entry)
             more == Append(snaps, Reduce(snaps[Len(snaps)], entry.ev))
         IN  Replays(more, next) /\ \A f : Replays(f, next) => f = more
  <1> DEFINE n    == Len(log) + 1
             last == Reduce(snaps[Len(snaps)], entry.ev)
             next == Append(log, entry)
             more == Append(snaps, last)
  <1>1. /\ DOMAIN log = 1..Len(log) /\ Len(log) \in Nat
        /\ DOMAIN next = 1..n
        /\ next[n] = entry
        /\ \A i \in 1..Len(log) : next[i] = log[i]
    BY Appended
  <1>2. /\ DOMAIN snaps = 1..Len(log)
        /\ more \in Seq(Snapshot)
        /\ DOMAIN more = 1..n
        /\ more[n] = last
        /\ \A i \in 1..Len(log) : more[i] = snaps[i]
    BY AppendProperties, LenProperties
  <1>3. \A i \in 1..n : i = n \/ i \in 1..Len(log)
    BY <1>1
  <1>4. \A i \in 1..n : i # 1 => i - 1 \in 1..Len(log)
    BY <1>1
  <1>5. \A i \in 1..Len(log) : i \in 1..n
    BY <1>1
  <1>6. last = Reduce(snaps[n - 1], entry.ev) /\ n # 1 /\ n - 1 = Len(log)
    BY <1>1
  <1>7. \A i \in 1..Len(log) :
           snaps[i] = IF i = 1 THEN InitialSnapshot ELSE Reduce(snaps[i - 1], log[i].ev)
    BY <1>1 DEF Replays
  <1> SUFFICES Replays(more, next) /\ \A f : Replays(f, next) => f = more
    OBVIOUS
  <1> HIDE DEF next, more, last, n
  <1>8. Replays(more, next)
    <2>1. ASSUME NEW i \in 1..n
          PROVE  more[i] = IF i = 1 THEN InitialSnapshot ELSE Reduce(more[i - 1], next[i].ev)
      <3>1. CASE i = n
        BY <1>1, <1>2, <1>4, <1>6, <3>1
      <3>2. CASE i \in 1..Len(log)
        BY <1>1, <1>2, <1>4, <1>7, <3>2
      <3>3. QED
        BY <1>3, <3>1, <3>2
    <2>2. more = [i \in 1..n |-> more[i]]
      BY <1>2
    <2>3. QED
      BY <1>1, <2>1, <2>2 DEF Replays
  <1>9. ASSUME NEW f, Replays(f, next)
        PROVE  f = more
    <2>1. /\ f = [i \in 1..n |-> f[i]]
          /\ \A i \in 1..n :
                f[i] = IF i = 1 THEN InitialSnapshot ELSE Reduce(f[i - 1], next[i].ev)
      BY <1>1, <1>9 DEF Replays
    <2> DEFINE g == [i \in 1..Len(log) |-> f[i]]
    <2>2. ASSUME NEW i \in 1..Len(log)
          PROVE  g[i] = IF i = 1 THEN InitialSnapshot ELSE Reduce(g[i - 1], log[i].ev)
      <3>1. i # 1 => i - 1 \in 1..Len(log)
        BY <1>4, <1>5
      <3>2. f[i] = IF i = 1 THEN InitialSnapshot ELSE Reduce(f[i - 1], log[i].ev)
        BY <1>1, <1>5, <2>1
      <3>3. QED
        BY <3>1, <3>2
    <2>3. g = [i \in DOMAIN log |->
                  IF i = 1 THEN InitialSnapshot ELSE Reduce(g[i - 1], log[i].ev)]
      <3>1. g = [i \in DOMAIN log |-> g[i]]
        BY <1>1
      <3> HIDE DEF g
      <3>2. QED
        BY <1>1, <2>2, <3>1
    <2>4. g = snaps
      BY <2>3 DEF Replays
    <2>5. \A i \in 1..Len(log) : f[i] = snaps[i]
      BY <2>4
    <2>6. f[n] = last
      <3>1. n \in 1..n /\ n - 1 \in 1..Len(log)
        BY <1>1, <1>4, <1>6 DEF n
      <3>2. QED
        BY <1>1, <1>6, <2>1, <2>5, <3>1
    <2>7. \A i \in 1..n : f[i] = more[i]
      BY <1>2, <1>3, <2>5, <2>6
    <2>8. more = [i \in 1..n |-> more[i]]
      BY <1>2
    <2>9. QED
      BY <2>1, <2>7, <2>8
  <1>10. QED
    BY <1>8, <1>9

LEMMA NextReplay == TypeOK /\ AgreeInv /\ ReplayInv /\ [Next]_vars => ReplayInv'
  <1> SUFFICES ASSUME TypeOK, AgreeInv, ReplayInv, [Next]_vars, NEW t \in Turn
               PROVE  /\ Started(t)' => OneReplay(t)'
                      /\ ~Started(t)' => sessionOf'[t] = NoSession
    BY DEF ReplayInv
  <1>1. ASSUME NEW s \in Session, NEW u \in Turn, NEW n \in Name, StartTurn(s, u, n)
        PROVE  /\ Started(t)' => OneReplay(t)'
               /\ ~Started(t)' => sessionOf'[t] = NoSession
    <2>1. CASE u = t
      <3> DEFINE first == [ev |-> Ev("accepted"), seq |-> 1, key |-> KeyFor(t, n)]
      <3>1. events'[t] = <<first>> /\ checkpoints'[t] = <<InitialSnapshot>>
        BY <1>1, <2>1 DEF StartTurn, TypeOK
      <3>2. Started(t)'
        <4>1. projection'[t] = [snap |-> InitialSnapshot, last_sequence |-> 1]
          BY <1>1, <2>1, StartedRow
        <4>2. QED
          BY <4>1, InitialSnapshotType, OfferedAssumption DEF Started
      <3>3. DOMAIN events'[t] = {1} /\ Len(events'[t]) = 1
        BY <3>1
      <3>4. \A f : Replays(f, events'[t]) <=> f = [i \in {1} |-> InitialSnapshot]
        BY <3>3 DEF Replays
      <3>5. checkpoints'[t] = [i \in {1} |-> InitialSnapshot]
        BY <3>1
      <3>6. QED
        BY <3>2, <3>3, <3>4, <3>5 DEF OneReplay
    <2>2. CASE u # t
      <3>1. /\ events'[t] = events[t] /\ projection'[t] = projection[t]
            /\ checkpoints'[t] = checkpoints[t] /\ sessionOf'[t] = sessionOf[t]
        BY <1>1, <2>2 DEF StartTurn, TypeOK
      <3>2. QED
        BY <3>1 DEF ReplayInv, OneReplay, Started
    <2>3. QED
      BY <2>1, <2>2
  <1>2. ASSUME NEW u \in Turn, NEW r \in Offered,
               AppendEvent(u, r.ev, KeyFor(u, r.name))
        PROVE  /\ Started(t)' => OneReplay(t)'
               /\ ~Started(t)' => sessionOf'[t] = NoSession
    <2>1. CASE u = t
      <3>1. PICK entry \in Entry :
               /\ entry.ev = r.ev
               /\ Started(t) /\ ~Rejected(projection[t].snap, entry.ev)
               /\ events'[t] = Append(events[t], entry)
               /\ projection'[t].snap = Reduce(projection[t].snap, entry.ev)
        BY <1>2, <2>1, AppendedRow
      <3>2. PICK log \in Seq(Entry) : log = events[t]
        BY DEF TypeOK
      <3>3. PICK snaps \in Seq(Snapshot) : snaps = checkpoints[t]
        BY DEF TypeOK
      <3>4. /\ Len(log) = Len(snaps) /\ Len(log) >= 1
            /\ projection[t].snap = snaps[Len(snaps)]
        BY <3>1, <3>2, <3>3 DEF AgreeInv, Agree
      <3>5. Reduce(snaps[Len(snaps)], entry.ev) \in Snapshot
        <4>1. entry.ev \in Event /\ projection[t].snap \in Snapshot
          BY <3>1, StartedType DEF Entry
        <4>2. QED
          BY <3>4, <4>1, ReduceType
      <3>6. checkpoints'[t] = Append(snaps, Reduce(snaps[Len(snaps)], entry.ev))
        BY <1>2, <2>1, <3>1, <3>3, <3>4 DEF AppendEvent, TypeOK
      <3>7. /\ Replays(snaps, log) /\ \A f : Replays(f, log) => f = snaps
            /\ \A i \in 2..Len(log) : ~Rejected(snaps[i - 1], log[i].ev)
        BY <3>1, <3>2, <3>3 DEF ReplayInv, OneReplay
      <3> DEFINE next == Append(log, entry)
                 more == Append(snaps, Reduce(snaps[Len(snaps)], entry.ev))
      <3>8. Replays(more, next) /\ \A f : Replays(f, next) => f = more
        BY <3>4, <3>5, <3>7, AppendReplays
      <3>9. /\ Len(log) \in Nat /\ Len(next) = Len(log) + 1
            /\ next[Len(log) + 1] = entry
            /\ \A i \in 1..Len(log) : next[i] = log[i] /\ more[i] = snaps[i]
        BY <3>4, <3>5, Appended, AppendProperties
      <3> HIDE DEF next, more
      <3>10. ASSUME NEW i \in 2..Len(next)
             PROVE  ~Rejected(more[i - 1], next[i].ev)
        <4>1. CASE i = Len(log) + 1
          BY <3>1, <3>4, <3>9, <4>1
        <4>2. CASE i # Len(log) + 1
          <5>1. i \in 2..Len(log) /\ i \in 1..Len(log) /\ i - 1 \in 1..Len(log)
            BY <3>9, <4>2
          <5>2. QED
            BY <3>7, <3>9, <5>1
        <4>3. QED
          BY <4>1, <4>2
      <3>11. events'[t] = next /\ checkpoints'[t] = more
        BY <3>1, <3>2, <3>6 DEF next, more
      <3>12. OneReplay(t)'
        BY <3>8, <3>10, <3>11 DEF OneReplay
      <3>13. Started(t)'
        <4>1. projection'[t] \in [snap : Snapshot, last_sequence : Nat]
          <5>1. projection'[t] = [snap |-> Reduce(projection[t].snap, r.ev),
                                  last_sequence |-> projection[t].last_sequence + 1]
            BY <1>2, <2>1 DEF AppendEvent, TypeOK
          <5>2. QED
            BY <3>1, <3>4, <3>5, <5>1, StartedType
        <4>2. QED
          BY <4>1, OfferedAssumption DEF Started
      <3>14. QED
        BY <3>12, <3>13
    <2>2. CASE u # t
      <3>1. /\ events'[t] = events[t] /\ projection'[t] = projection[t]
            /\ checkpoints'[t] = checkpoints[t] /\ sessionOf'[t] = sessionOf[t]
        BY <1>2, <2>2 DEF AppendEvent, TypeOK
      <3>2. QED
        BY <3>1 DEF ReplayInv, OneReplay, Started
    <2>3. QED
      BY <2>1, <2>2
  <1>3. CASE UNCHANGED vars
    BY <1>3 DEF vars, ReplayInv, OneReplay, Started
  <1>4. QED
    BY <1>1, <1>2, <1>3, StepsOfTheStore

\* Replaying the log from nothing gives the checkpoints.
LEMMA SnapshotsAreCheckpoints ==
  ASSUME NEW t \in Turn, OneReplay(t)
  PROVE  Snapshots(events[t]) = checkpoints[t]
  <1>1. Replays(Snapshots(events[t]), events[t])
    BY DEF Snapshots, OneReplay, Replays
  <1>2. QED
    BY <1>1 DEF OneReplay

LEMMA ReplayInvReplayable == ReplayInv => LogsAreReplayable
  BY SnapshotsAreCheckpoints DEF ReplayInv, OneReplay, LogsAreReplayable, Replayable

\* A rebuild writes the projection that is there.
LEMMA RebuildIsStutter ==
  ASSUME TypeOK, AgreeInv, ReplayInv, NEW s \in Session, Rebuild(s)
  PROVE  UNCHANGED vars
  <1>1. ASSUME NEW t \in Turn, sessionOf[t] = s
        PROVE  [projection[t] EXCEPT !.snap = Replay(events[t])] = projection[t]
    <2>1. Started(t)
      BY <1>1, OfferedAssumption DEF ReplayInv
    <2>2. Replay(events[t]) = projection[t].snap
      BY <2>1, SnapshotsAreCheckpoints DEF ReplayInv, AgreeInv, Agree, Replay
    <2>3. QED
      BY <2>1, <2>2, StartedType
  <1>2. projection' = projection
    <2>1. projection' = [t \in Turn |-> projection[t]]
      BY <1>1 DEF Rebuild
    <2>2. QED
      BY <2>1 DEF TypeOK
  <1>3. QED
    BY <1>2 DEF Rebuild, vars

LEMMA RebuildStep == TypeOK /\ AgreeInv /\ ReplayInv /\ [RebuildNext]_vars => [Next]_vars
  BY RebuildIsStutter DEF RebuildNext

\* A rebuild of the projections from their logs changes nothing: a store that is
\* rebuilt at any time behaves as one that never is, so that every theorem above
\* holds of it as well.
THEOREM RebuildsChangeNothing == RebuildSpec => Spec
  <1> DEFINE Inv == TypeOK /\ AgreeInv /\ ReplayInv
  <1>1. Init => Inv
    BY InitTypeOK, InitAgree, InitReplay
  <1>2. Inv /\ [RebuildNext]_vars => Inv' /\ [Next]_vars
    BY RebuildStep, NextTypeOK, NextAgree, NextReplay
  <1> HIDE DEF Inv
  <1>3. QED
    BY <1>1, <1>2, PTL DEF RebuildSpec, Spec

\* Every log that append_event wrote can be replayed, whatever was refused or
\* repeated while it was written, and however often it was rebuilt.
THEOREM EveryLogReplays == RebuildSpec => []LogsAreReplayable
  <1>1. Spec => []LogsAreReplayable
    BY InitTypeOK, NextTypeOK, InitAgree, NextAgree, InitReplay, NextReplay,
       ReplayInvReplayable, PTL DEF Spec
  <1>2. QED
    BY <1>1, RebuildsChangeNothing, PTL
=============================================================================
