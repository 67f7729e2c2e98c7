-------------------------- MODULE ToolJournalProofs -------------------------
(***************************************************************************)
(* For every set of turns, operations, calls, workers and processes: the   *)
(* tool journal is well typed, an external mutation takes effect at most   *)
(* once per turn, whatever crashes, deadlines and retries do, a stored     *)
(* result stands for an effect that happened, and a running call is among  *)
(* those that the snapshot of its turn shows open.                         *)
(***************************************************************************)
EXTENDS ToolJournal, TLAPS

-----------------------------------------------------------------------------
\* The reducer

LEMMA InitialSnapshotType == InitialSnapshot \in Snapshot
  BY DEF InitialSnapshot, Snapshot, Phase, TerminalPhase, Status

\* Whatever the event, the reducer returns a snapshot.
LEMMA ReduceType ==
  ASSUME NEW snap \in Snapshot, NEW ev \in Event
  PROVE  Reduce(snap, ev) \in Snapshot
  <1>1. ev.kind \in Kind
    BY DEF Event
  <1>2. ({ev.attempt} \ {NoAttempt}) \subseteq Attempt
    BY DEF Event
  <1>3. ASSUME ev.kind \in {"tool_started", "tool_completed"} PROVE WithTool(snap, ev) \in Snapshot
    BY <1>2, <1>3 DEF WithTool, Snapshot, Phase
  <1>4. WithApproval(snap, ev) \in Snapshot /\ WithVerdict(snap, ev) \in Snapshot
    BY DEF WithApproval, WithVerdict, Given, Snapshot, Phase, TerminalPhase, Status
  <1>5. ASSUME ev.kind \in TerminalPhase PROVE WithEnd(snap, ev) \in Snapshot
    BY <1>5 DEF WithEnd, Snapshot, Phase, TerminalPhase, Status
  <1>6. CASE ev.kind \in {"tool_started", "tool_completed", "approval_required",
                         "approval_resolved", "verification"} \cup TerminalPhase
    BY <1>3, <1>4, <1>5, <1>6 DEF Reduce, TerminalPhase
  <1>7. QED
    BY <1>1, <1>6 DEF Reduce, Kind, TerminalPhase, Snapshot, Phase

-----------------------------------------------------------------------------
\* The ledger

LEMMA KeyType ==
  ASSUME NEW a \in Attempt
  PROVE  /\ TurnOf(a) \in Turn
         /\ SideOf(a) \in Side
         /\ <<TurnOf(a), StartName(a)>> \in Key
         /\ <<TurnOf(a), CompleteName(a)>> \in Key
  BY ToolAssumption DEF TurnOf, SideOf, StartName, CompleteName, Key

LEMMA TurnKeyType ==
  ASSUME NEW t \in Turn
  PROVE  <<t, AcceptedName>> \in Key /\ <<t, TerminalName>> \in Key
  BY ToolAssumption DEF AcceptedName, TerminalName, Key

LEMMA AttemptOfType ==
  ASSUME NEW c \in Call
  PROVE  /\ AttemptOf(c) \in Attempt /\ TurnOf(AttemptOf(c)) = c.turn
         /\ External(AttemptOf(c)) => AttemptOf(c)[3] = NoCall
  BY ToolAssumption DEF AttemptOf, Call, TurnOf, External, SideOf

\* Appending any event keeps the ledger well typed.
LEMMA AppendType ==
  ASSUME LedgerTypeOK, NEW t \in Turn, NEW ev \in Event, NEW key \in Key,
         Append(t, ev, key)
  PROVE  LedgerTypeOK'
  <1>1. CASE key \in keys
    BY <1>1 DEF Append, LedgerTypeOK, ledgerVars
  <1>2. CASE key \notin keys
    <2>1. snapshot[t] \in Snapshot
      BY DEF Append, Started, LedgerTypeOK
    <2>2. Reduce(snapshot[t], ev) \in Snapshot
      BY <2>1, ReduceType
    <2>3. snapshot' = [snapshot EXCEPT ![t] = Reduce(snapshot[t], ev)]
      BY <1>2 DEF Append
    <2>4. keys' \subseteq Key
      BY <1>2 DEF Append, LedgerTypeOK
    <2>5. QED
      BY <2>2, <2>3, <2>4 DEF LedgerTypeOK
  <1>3. QED
    BY <1>1, <1>2

LEMMA ToolEventType ==
  ASSUME NEW a \in Attempt
  PROVE  /\ ToolEv("tool_started", a) \in Event
         /\ ToolEv("tool_completed", a) \in Event
  BY DEF ToolEv, Event, Kind, Flag

LEMMA TerminalEventType == TerminalEvent \subseteq Event
  BY DEF TerminalEvent, Ev, FlagEv, Event, Kind, Flag

-----------------------------------------------------------------------------
\* Type correctness

LEMMA IdleType == Idle \in WorkerState
  BY DEF Idle, WorkerState, Pc

LEMMA CountedType ==
  ASSUME NEW n \in 0..MaxEffects
  PROVE  Counted(n) \in 0..MaxEffects
  BY ToolAssumption DEF Counted

\* The typing facts the step proofs need, with idle workers carrying no attempt.
TypeInv == ToolTypeOK /\ IdleIsEmpty

LEMMA BusyWorkerType ==
  ASSUME TypeInv, NEW w \in Worker, Busy(w)
  PROVE  worker[w].attempt \in Attempt
  BY AttemptAssumption DEF TypeInv, ToolTypeOK, IdleIsEmpty, WorkerState

LEMMA ResidueType ==
  ASSUME TypeInv, NEW ws \in SUBSET Worker
  PROVE  Residue(ws) \subseteq Attempt
  <1>1. SUFFICES ASSUME NEW w \in ws, worker[w].pc = "running"
                 PROVE  worker[w].attempt \in Attempt
    BY DEF Residue
  <1>2. Busy(w)
    BY <1>1 DEF Busy
  <1>3. QED
    BY <1>2, BusyWorkerType

LEMMA InitTypeInv == Init => TypeInv
  BY AttemptAssumption, ToolAssumption, IdleType
     DEF Init, LedgerInit, TypeInv, ToolTypeOK, LedgerTypeOK, IdleIsEmpty, Busy, Idle

LEMMA NextTypeInv == TypeInv /\ [Next]_vars => TypeInv'
  <1> SUFFICES ASSUME TypeInv, [Next]_vars
               PROVE  TypeInv'
    OBVIOUS
  <1> USE DEF TypeInv, ToolTypeOK
  <1>1. ASSUME NEW t \in Turn, AcceptTurn(t)
        PROVE  TypeInv'
    <2>1. LedgerTypeOK'
      BY <1>1, TurnKeyType, InitialSnapshotType DEF AcceptTurn, Start, LedgerTypeOK
    <2>2. QED
      BY <1>1, <2>1 DEF AcceptTurn, toolVars, IdleIsEmpty, Busy
  <1>2. ASSUME NEW t \in Turn, EndTurn(t)
        PROVE  TypeInv'
    <2>1. PICK ev \in TerminalEvent : Append(t, ev, <<t, TerminalName>>)
      BY <1>2 DEF EndTurn
    <2>2. LedgerTypeOK'
      BY <2>1, TerminalEventType, TurnKeyType, AppendType
    <2>3. QED
      BY <1>2, <2>2 DEF EndTurn, toolVars, IdleIsEmpty, Busy
  <1>3. ASSUME NEW w \in Worker, NEW c \in Call, Begin(w, c)
        PROVE  TypeInv'
    <2>1. AttemptOf(c) \in Attempt
      BY AttemptOfType
    <2>2. attempts' \in [Attempt -> AttemptState \cup {"absent"}]
      BY <1>3, <2>1 DEF Begin, AttemptState, InsertedState
    <2>3. worker' = [worker EXCEPT ![w] = Taking(AttemptOf(c))]
      BY <1>3 DEF Begin
    <2>4. worker' \in [Worker -> WorkerState]
      BY <2>1, <2>3 DEF Taking, WorkerState, Pc
    <2>5. IdleIsEmpty'
      BY <2>1, <2>3, AttemptAssumption DEF IdleIsEmpty, Busy, Taking
    <2>6. QED
      BY <1>3, <2>2, <2>4, <2>5 DEF Begin, LedgerTypeOK
  <1>4. ASSUME NEW w \in Worker, NEW c \in Call, Answer(w, c)
        PROVE  TypeInv'
    BY <1>4 DEF Answer, vars, LedgerTypeOK, IdleIsEmpty, Busy
  <1>5. ASSUME NEW w \in Worker, LogStart(w)
        PROVE  TypeInv'
    <2>1. worker[w].attempt \in Attempt
      BY <1>5, BusyWorkerType DEF LogStart, Busy
    <2>2. LedgerTypeOK'
      BY <1>5, <2>1, KeyType, ToolEventType, AppendType DEF LogStart
    <2>3. worker' \in [Worker -> WorkerState]
      BY <1>5 DEF LogStart, WorkerState, Pc
    <2>4. IdleIsEmpty'
      BY <1>5 DEF LogStart, IdleIsEmpty, Busy
    <2>5. QED
      BY <1>5, <2>2, <2>3, <2>4 DEF LogStart
  <1>6. ASSUME NEW w \in Worker, LogStartRefused(w)
        PROVE  TypeInv'
    <2>1. worker' = [worker EXCEPT ![w] = Idle]
      BY <1>6 DEF LogStartRefused
    <2>2. IdleIsEmpty' /\ worker' \in [Worker -> WorkerState]
      BY <2>1, IdleType DEF IdleIsEmpty, Busy, Idle
    <2>3. QED
      BY <1>6, <2>2 DEF LogStartRefused, LedgerTypeOK
  <1>7. ASSUME NEW w \in Worker, Hit(w)
        PROVE  TypeInv'
    <2>1. effects' \in [Attempt -> 0..MaxEffects]
      BY <1>7, CountedType DEF Hit
    <2>2. worker' \in [Worker -> WorkerState]
      BY <1>7 DEF Hit, WorkerState
    <2>3. QED
      BY <1>7, <2>1, <2>2 DEF Hit, LedgerTypeOK, IdleIsEmpty, Busy
  <1>8. ASSUME NEW w \in Worker, Return(w) \/ Fail(w)
        PROVE  TypeInv'
    <2>1. worker' \in [Worker -> WorkerState]
      <3>1. \A ok \in BOOLEAN : Returned(w, ok) \in WorkerState
        BY DEF Returned, WorkerState, Pc
      <3>2. QED
        BY <1>8, <3>1 DEF Return, Fail
    <2>2. IdleIsEmpty'
      <3>1. CASE Return(w)
        BY <3>1 DEF Return, Returned, IdleIsEmpty, Busy
      <3>2. CASE Fail(w)
        BY <3>2 DEF Fail, Returned, IdleIsEmpty, Busy
      <3>3. QED
        BY <1>8, <3>1, <3>2
    <2>3. late' \subseteq Attempt
      BY <1>8, ResidueType DEF Return, Fail
    <2>4. QED
      BY <1>8, <2>1, <2>2, <2>3 DEF Return, Fail, LedgerTypeOK
  <1>9. ASSUME NEW w \in Worker, Settle(w)
        PROVE  TypeInv'
    <2>1. attempts' \in [Attempt -> AttemptState \cup {"absent"}]
      BY <1>9 DEF Settle, Outcome, AttemptState
    <2>2. worker' \in [Worker -> WorkerState]
      BY <1>9 DEF Settle, WorkerState, Pc
    <2>3. IdleIsEmpty'
      BY <1>9 DEF Settle, IdleIsEmpty, Busy
    <2>4. QED
      BY <1>9, <2>1, <2>2, <2>3 DEF Settle, LedgerTypeOK
  <1>10. ASSUME NEW w \in Worker, LogDone(w)
         PROVE  TypeInv'
    <2>1. worker[w].attempt \in Attempt
      BY <1>10, BusyWorkerType DEF LogDone, Busy
    <2>2. LedgerTypeOK'
      BY <1>10, <2>1, KeyType, ToolEventType, AppendType
         DEF LogDone, ledgerVars, LedgerTypeOK
    <2>3. worker' = [worker EXCEPT ![w] = Idle]
      BY <1>10 DEF LogDone
    <2>4. IdleIsEmpty' /\ worker' \in [Worker -> WorkerState]
      BY <2>3, IdleType DEF IdleIsEmpty, Busy, Idle
    <2>5. QED
      BY <1>10, <2>2, <2>4 DEF LogDone
  <1>11. ASSUME NEW w \in Worker, Abandon(w)
         PROVE  TypeInv'
    <2>1. worker' = [worker EXCEPT ![w] = Idle]
      BY <1>11 DEF Abandon
    <2>2. IdleIsEmpty' /\ worker' \in [Worker -> WorkerState]
      BY <2>1, IdleType DEF IdleIsEmpty, Busy, Idle
    <2>3. late' \subseteq Attempt
      BY <1>11, ResidueType DEF Abandon
    <2>4. QED
      BY <1>11, <2>2, <2>3 DEF Abandon, LedgerTypeOK
  <1>12. ASSUME NEW h \in Host, Crash(h)
         PROVE  TypeInv'
    <2>1. \A w \in Worker : worker'[w] = Idle \/ worker'[w] = worker[w]
      BY <1>12 DEF Crash
    <2>2. worker' \in [Worker -> WorkerState]
      BY <1>12, IdleType DEF Crash
    <2>3. IdleIsEmpty'
      BY <2>1 DEF IdleIsEmpty, Busy, Idle
    <2>4. late' \subseteq Attempt
      BY <1>12, ResidueType DEF Crash
    <2>5. QED
      BY <1>12, <2>2, <2>3, <2>4 DEF Crash, LedgerTypeOK
  <1>13. ASSUME NEW a \in Attempt, LateHit(a) \/ LateLoss(a)
         PROVE  TypeInv'
    <2>1. effects' \in [Attempt -> 0..MaxEffects]
      BY <1>13, CountedType DEF LateHit, LateLoss
    <2>2. QED
      BY <1>13, <2>1 DEF LateHit, LateLoss, LedgerTypeOK, IdleIsEmpty, Busy
  <1>14. ASSUME NEW h \in Host, NEW s \in Session, Survey(h, s)
         PROVE  TypeInv'
    BY <1>14 DEF Survey, LedgerTypeOK, IdleIsEmpty, Busy
  <1>15. ASSUME NEW h \in Host, NEW a \in Attempt, Reconcile(h, a)
         PROVE  TypeInv'
    <2>1. attempts' \in [Attempt -> AttemptState \cup {"absent"}]
      BY <1>15 DEF Reconcile, Reconciled, AttemptState
    <2>2. QED
      BY <1>15, <2>1 DEF Reconcile, LedgerTypeOK, IdleIsEmpty, Busy
  <1>16. CASE UNCHANGED vars
    BY <1>16 DEF vars, LedgerTypeOK, IdleIsEmpty, Busy
  <1>17. QED
    BY <1>1, <1>2, <1>3, <1>4, <1>5, <1>6, <1>7, <1>8, <1>9, <1>10, <1>11, <1>12, <1>13,
       <1>14, <1>15, <1>16 DEF Next, WorkerStep

\* The tool journal is well typed.
THEOREM ToolTypeCorrect == Spec => []ToolTypeOK
  <1>1. TypeInv => ToolTypeOK
    BY DEF TypeInv
  <1>2. QED
    BY InitTypeInv, NextTypeInv, <1>1, PTL DEF Spec

-----------------------------------------------------------------------------
\* An external mutation takes effect at most once

\* The steps of a worker, field by field: it keeps its attempt, or goes idle.
Others(w) == \A v \in Worker \ {w} : worker'[v] = worker[v]

Now(w, pc, hit, ok) ==
    /\ Others(w)
    /\ worker'[w].attempt = worker[w].attempt
    /\ worker'[w].pc = pc /\ worker'[w].hit = hit /\ worker'[w].ok = ok

LEMMA StepFields ==
  ASSUME TypeInv, NEW w \in Worker
  PROVE  /\ LogStart(w) => Now(w, "running", worker[w].hit, worker[w].ok)
         /\ Hit(w)      => Now(w, "running", TRUE, worker[w].ok)
         /\ Return(w)   => Now(w, "returned", worker[w].hit, TRUE)
         /\ Fail(w)     => Now(w, "returned", worker[w].hit, FALSE)
         /\ Settle(w)   => Now(w, "settled", worker[w].hit, worker[w].ok)
  <1> USE DEF TypeInv, ToolTypeOK, WorkerState, Now, Others
  <1>1. LogStart(w) => Now(w, "running", worker[w].hit, worker[w].ok)
    BY DEF LogStart
  <1>2. Hit(w) => Now(w, "running", TRUE, worker[w].ok)
    BY DEF Hit
  <1>3. Return(w) => Now(w, "returned", worker[w].hit, TRUE)
    BY DEF Return, Returned
  <1>4. Fail(w) => Now(w, "returned", worker[w].hit, FALSE)
    BY DEF Fail, Returned
  <1>5. Settle(w) => Now(w, "settled", worker[w].hit, worker[w].ok)
    BY DEF Settle
  <1>6. QED
    BY <1>1, <1>2, <1>3, <1>4, <1>5

\* An attempt that a step does not touch keeps its invariant, and so does one
\* that the step only takes workers away from.
LEMMA Untouched ==
  ASSUME TypeInv, TypeInv', NEW a \in Attempt, OneEffect(a),
         \A v \in Worker : \/ worker'[v] = worker[v]
                           \/ worker'[v].attempt # a,
         attempts'[a] = attempts[a], effects'[a] = effects[a],
         a \in late' => a \in late,
         \A h \in Host : a \in found'[h] => a \in found[h] \/ attempts[a] = "in_progress"
  PROVE  OneEffect(a)'
  <1>1. OnIt(a)' \subseteq OnIt(a) /\ About(a)' \subseteq About(a)
    BY DEF OnIt, About, Busy
  <1>2. \A v \in OnIt(a)' : worker'[v] = worker[v]
    BY DEF OnIt
  <1>3. UnbegunIsUntouched(a)' /\ SoleWorker(a)'
    BY <1>1 DEF OneEffect, UnbegunIsUntouched, SoleWorker
  <1>4. EffectStillOpen(a)'
    BY <1>1, <1>2 DEF OneEffect, EffectStillOpen, About
  <1>5. RowFollowsWorker(a)'
    BY <1>1, <1>2 DEF OneEffect, RowFollowsWorker
  <1>6. OneRowPerMutation(a)' /\ FoundIsBegun(a)'
    BY DEF OneEffect, OneRowPerMutation, FoundIsBegun
  <1>7. QED
    BY <1>3, <1>4, <1>5, <1>6 DEF OneEffect

\* The steps of one worker: each touches the attempt it works on, and no other.
LEMMA WorkerKeepsOneEffect ==
  ASSUME TypeInv, TypeInv', NEW w \in Worker, WorkerStep(w) \/ Abandon(w),
         NEW a \in Attempt, External(a), OneEffect(a)
  PROVE  OneEffect(a)'
  <1> DEFINE b == worker[w].attempt
  <1> USE DEF OneEffect, OneRowPerMutation, FoundIsBegun, UnbegunIsUntouched, SoleWorker,
              EffectStillOpen, RowFollowsWorker, About, OnIt, Busy
  <1>1. CASE LogStart(w)
    <2>1. Now(w, "running", worker[w].hit, worker[w].ok) /\ worker[w].pc = "before"
      BY <1>1, StepFields DEF LogStart
    <2>2. QED
      BY <1>1, <2>1 DEF LogStart, Now, Others
  <1>2. CASE LogStartRefused(w)
    BY <1>2, Untouched, AttemptAssumption
       DEF LogStartRefused, TypeInv, ToolTypeOK, Idle
  <1>3. CASE Hit(w)
    <2>1. Now(w, "running", TRUE, worker[w].ok) /\ worker[w].pc = "running"
      BY <1>3, StepFields DEF Hit
    <2>2. CASE a # b
      BY <1>3, <2>1, <2>2, Untouched DEF Hit, Now, Others, TypeInv, ToolTypeOK
    <2>3. CASE a = b
      <3>1. effects[a] = 0 /\ effects'[a] = 1
        BY <1>3, <2>3, ToolAssumption DEF Hit, Counted, TypeInv, ToolTypeOK
      <3>2. a \notin late
        BY <1>3, <2>3 DEF Hit
      <3>3. QED
        BY <1>3, <2>1, <2>3, <3>1, <3>2 DEF Hit, Now, Others
    <2>4. QED
      BY <2>2, <2>3
  <1>4. CASE Return(w)
    <2>1. Now(w, "returned", worker[w].hit, TRUE) /\ worker[w].pc = "running"
      BY <1>4, StepFields DEF Return
    <2>2. attempts' = attempts /\ effects' = effects /\ late' = late /\ found' = found
      BY <1>4 DEF Return
    <2>3. CASE a # b
      BY <2>1, <2>2, <2>3, Untouched DEF Now, Others
    <2>4. CASE a = b
      <3>1. w \in About(a) /\ a \notin late
        BY <2>1, <2>4
      <3>2. QED
        BY <2>1, <2>2, <2>4, <3>1 DEF Now, Others
    <2>5. QED
      BY <2>3, <2>4
  <1>5. CASE Fail(w)
    <2>1. Now(w, "returned", worker[w].hit, FALSE) /\ worker[w].pc = "running"
      BY <1>5, StepFields DEF Fail
    <2>2. a \in late' => a \in late \/ (a = b /\ ~worker[w].hit)
      BY <1>5 DEF Fail, Residue
    <2>3. attempts' = attempts /\ effects' = effects /\ found' = found
      BY <1>5 DEF Fail
    <2>4. CASE a # b
      BY <2>1, <2>2, <2>3, <2>4, Untouched DEF Now, Others
    <2>5. CASE a = b
      BY <2>1, <2>2, <2>3, <2>5 DEF Now, Others
    <2>6. QED
      BY <2>4, <2>5
  <1>6. CASE Settle(w)
    <2>1. /\ Now(w, "settled", worker[w].hit, worker[w].ok)
          /\ worker[w].pc = "returned"
      BY <1>6, StepFields DEF Settle
    <2>2. CASE a # b
      BY <1>6, <2>1, <2>2, Untouched DEF Settle, Now, Others, TypeInv, ToolTypeOK
    <2>3. CASE a = b
      <3>1. attempts'[a] = Outcome(w)
        BY <1>6, <2>3 DEF Settle, TypeInv, ToolTypeOK
      <3>2. QED
        BY <1>6, <2>1, <2>3, <3>1 DEF Settle, Outcome, Now, Others
    <2>4. QED
      BY <2>2, <2>3
  <1>7. CASE LogDone(w)
    BY <1>7, Untouched, AttemptAssumption DEF LogDone, TypeInv, ToolTypeOK, Idle
  <1>8. CASE Abandon(w)
    <2>1. Others(w) /\ worker'[w] = Idle /\ worker[w].pc = "running"
      BY <1>8 DEF Abandon, Others, TypeInv, ToolTypeOK
    <2>2. a \in late' => a \in late \/ (a = b /\ ~worker[w].hit)
      BY <1>8 DEF Abandon, Residue
    <2>3. QED
      BY <1>8, <2>1, <2>2, AttemptAssumption DEF Abandon, Others, Idle
  <1>9. QED
    BY <1>1, <1>2, <1>3, <1>4, <1>5, <1>6, <1>7, <1>8 DEF WorkerStep

LEMMA InitExternal == Init => ExternalInv
  BY InitTypeInv, AttemptAssumption
     DEF Init, TypeInv, ExternalInv, OneEffect, OneRowPerMutation, FoundIsBegun,
         UnbegunIsUntouched, SoleWorker, EffectStillOpen, RowFollowsWorker, About, OnIt,
         Busy, Idle

LEMMA NextExternal == TypeInv /\ TypeInv' /\ ExternalInv /\ [Next]_vars => ExternalInv'
  <1> SUFFICES ASSUME TypeInv, TypeInv', ExternalInv, [Next]_vars,
                      NEW a \in Attempt, External(a), OneEffect(a)
               PROVE  OneEffect(a)'
    BY DEF ExternalInv, TypeInv, External, SideOf
  <1>1. ASSUME NEW t \in Turn, AcceptTurn(t) \/ EndTurn(t)
        PROVE  OneEffect(a)'
    BY <1>1, Untouched DEF AcceptTurn, EndTurn, toolVars
  <1>2. ASSUME NEW w \in Worker, NEW c \in Call, Begin(w, c)
        PROVE  OneEffect(a)'
    <2>1. /\ worker[w].attempt = NoAttempt
          /\ worker'[w] = Taking(AttemptOf(c)) /\ Others(w)
      BY <1>2 DEF Begin, Others, TypeInv, ToolTypeOK, IdleIsEmpty
    <2>2. CASE a # AttemptOf(c)
      BY <1>2, <2>1, <2>2, Untouched, AttemptOfType, AttemptAssumption
         DEF Begin, Others, Taking, TypeInv, ToolTypeOK
    <2>3. CASE a = AttemptOf(c)
      <3>1. attempts[a] = "absent"
        BY <1>2, <2>3 DEF Begin, MayRun, OneEffect, RowFollowsWorker, External
      <3>2. OnIt(a) = {} /\ a \notin late /\ effects[a] = 0
        BY <3>1 DEF OneEffect, UnbegunIsUntouched
      <3>3. attempts'[a] = "in_progress"
        BY <1>2, <2>3, <3>1 DEF Begin, InsertedState, TypeInv, ToolTypeOK
      <3>4. OnIt(a)' = {w}
        BY <2>1, <2>3, <3>2 DEF OnIt, Busy, Others, Taking
      <3>5. QED
        BY <1>2, <2>1, <2>3, <3>2, <3>3, <3>4, AttemptOfType
           DEF Begin, Taking, OneEffect, OneRowPerMutation, FoundIsBegun,
               UnbegunIsUntouched, SoleWorker, EffectStillOpen, RowFollowsWorker, About
    <2>4. QED
      BY <2>2, <2>3
  <1>3. ASSUME NEW w \in Worker, NEW c \in Call, Answer(w, c)
        PROVE  OneEffect(a)'
    BY <1>3, Untouched DEF Answer, vars
  <1>4. ASSUME NEW w \in Worker, WorkerStep(w) \/ Abandon(w)
        PROVE  OneEffect(a)'
    BY <1>4, WorkerKeepsOneEffect
  <1>5. ASSUME NEW h \in Host, Crash(h)
        PROVE  OneEffect(a)'
    <2> DEFINE dead == {w \in Worker : HostOf[w] = h /\ Busy(w)}
    <2>1. \A v \in Worker : worker'[v] = IF v \in dead THEN Idle ELSE worker[v]
      BY <1>5 DEF Crash
    <2>2. CASE a \in late' /\ a \notin late
      <3>1. PICK w \in dead : /\ worker[w].pc = "running" /\ ~worker[w].hit
                              /\ worker[w].attempt = a
        BY <1>5, <2>2 DEF Crash, Residue
      <3>2. w \in About(a) /\ effects[a] = 0
        BY <3>1 DEF About, OnIt, Busy, OneEffect, EffectStillOpen
      <3>3. OnIt(a)' = {}
        BY <2>1, <3>1, <3>2, AttemptAssumption
           DEF OnIt, About, OneEffect, SoleWorker, Busy, Idle
      <3>4. QED
        BY <1>5, <2>2, <3>2, <3>3
           DEF Crash, OneEffect, OneRowPerMutation, FoundIsBegun,
               UnbegunIsUntouched, SoleWorker, EffectStillOpen, RowFollowsWorker, About
    <2>3. CASE ~(a \in late' /\ a \notin late)
      BY <1>5, <2>1, <2>3, Untouched, AttemptAssumption DEF Crash, Idle
    <2>4. QED
      BY <2>2, <2>3
  <1>6. ASSUME NEW b \in Attempt, LateHit(b) \/ LateLoss(b)
        PROVE  OneEffect(a)'
    <2>1. CASE a = b /\ LateHit(b)
      <3>1. effects[a] = 0 /\ effects'[a] = 1 /\ a \notin late' /\ About(a) = {}
        BY <2>1, ToolAssumption
           DEF LateHit, Counted, TypeInv, ToolTypeOK, OneEffect, EffectStillOpen
      <3>2. QED
        BY <2>1, <3>1
           DEF LateHit, OneEffect, OneRowPerMutation, FoundIsBegun,
               UnbegunIsUntouched, SoleWorker, EffectStillOpen, RowFollowsWorker, About, OnIt, Busy
    <2>2. CASE ~(a = b /\ LateHit(b))
      BY <1>6, <2>2, Untouched DEF LateHit, LateLoss, TypeInv, ToolTypeOK
    <2>3. QED
      BY <2>1, <2>2
  <1>7. ASSUME NEW h \in Host, NEW s \in Session, Survey(h, s)
        PROVE  OneEffect(a)'
    BY <1>7, Untouched DEF Survey
  <1>8. ASSUME NEW h \in Host, NEW b \in Attempt, Reconcile(h, b)
        PROVE  OneEffect(a)'
    <2>1. attempts'[a] = attempts[a] \/ attempts'[a] = "uncertain"
      BY <1>8 DEF Reconcile, Reconciled, External, TypeInv, ToolTypeOK
    <2>2. \A g \in Host : found'[g] \subseteq found[g]
      BY <1>8 DEF Reconcile, TypeInv, ToolTypeOK
    <2>3. attempts'[a] # attempts[a] => attempts[a] # "absent"
      BY <1>8 DEF Reconcile, OneEffect, FoundIsBegun, TypeInv, ToolTypeOK
    <2>4. QED
      BY <1>8, <2>1, <2>2, <2>3
         DEF Reconcile, OneEffect, OneRowPerMutation, FoundIsBegun, UnbegunIsUntouched,
             SoleWorker, EffectStillOpen, RowFollowsWorker, About, OnIt, Busy
  <1>9. CASE UNCHANGED vars
    BY <1>9, Untouched DEF vars
  <1>10. QED
    BY <1>1, <1>2, <1>3, <1>4, <1>5, <1>6, <1>7, <1>8, <1>9 DEF Next

\* The inductive invariant holds of every behaviour.
THEOREM ExternalInvariant == Spec => []ExternalInv
  BY InitTypeInv, NextTypeInv, InitExternal, NextExternal, PTL DEF Spec

\* However often a turn asks for an external mutation, and whatever crashes,
\* deadlines, late answers and reconciliations come between, it takes effect at
\* most once.
THEOREM ExternalTakesEffectOnce == Spec => []ExternalAtMostOnce
  <1>1. ToolTypeOK /\ ExternalInv => ExternalAtMostOnce
    <2> SUFFICES ASSUME ToolTypeOK, ExternalInv, NEW a \in Attempt, External(a)
                 PROVE  /\ effects[a] <= 1
                        /\ \A b \in Attempt :
                              (Equal(a, b) /\ effects[a] > 0 /\ effects[b] > 0) => a = b
      BY DEF ExternalAtMostOnce
    <2>1. effects[a] <= 1
      BY DEF ExternalInv, OneEffect
    <2>2. ASSUME NEW b \in Attempt, External(b), effects[b] > 0
          PROVE  b[3] = NoCall
      BY <2>2 DEF ExternalInv, OneEffect, OneRowPerMutation, UnbegunIsUntouched
    <2>3. ASSUME NEW b \in Attempt, Equal(a, b), effects[a] > 0, effects[b] > 0
          PROVE  a = b
      <3>1. External(b)
        BY <2>3 DEF Equal, External, SideOf
      <3>2. a[3] = b[3]
        BY <2>2, <2>3, <3>1
      <3>3. QED
        BY <2>3, <3>2, ToolAssumption DEF Equal, TurnOf
    <2>4. QED
      BY <2>1, <2>3
  <1>2. QED
    BY ExternalInvariant, ToolTypeCorrect, <1>1, PTL

\* A pending external effect is always one the journal shows as open or failed.
THEOREM ExternalStaysVisible == Spec => []PendingEffectIsVisible
  <1>1. ExternalInv => PendingEffectIsVisible
    BY DEF ExternalInv, PendingEffectIsVisible, OneEffect, RowFollowsWorker
  <1>2. QED
    BY ExternalInvariant, <1>1, PTL

-----------------------------------------------------------------------------
\* A stored result is that of a run that took effect

\* What CompletedTookEffect needs to be inductive: a call that took effect is
\* counted, and only such a call returns well.
EffectInv ==
    /\ \A w \in Worker : worker[w].ok => worker[w].hit
    /\ \A w \in Worker : worker[w].hit => Busy(w) /\ effects[worker[w].attempt] >= 1
    /\ CompletedTookEffect

LEMMA InitEffect == Init => EffectInv
  BY DEF Init, EffectInv, CompletedTookEffect, Idle

\* Effects are only counted up; a worker stays as it was, is fresh or idle, or
\* goes on with its attempt, having hit it if it says so.
LEMMA EffectKept ==
  ASSUME TypeInv, TypeInv', EffectInv,
         \A a \in Attempt : effects'[a] >= effects[a],
         \A a \in Attempt : attempts'[a] = "completed" =>
            attempts[a] = "completed" \/ effects[a] >= 1,
         \A v \in Worker :
            \/ worker'[v] = worker[v]
            \/ ~worker'[v].hit /\ ~worker'[v].ok
            \/ /\ worker'[v].attempt = worker[v].attempt /\ Busy(v)'
               /\ worker'[v].hit => worker[v].hit \/ effects'[worker[v].attempt] >= 1
               /\ worker'[v].ok => worker'[v].hit
  PROVE  EffectInv'
  <1>1. \A a \in Attempt : effects[a] \in Nat /\ effects'[a] \in Nat
    BY ToolAssumption DEF TypeInv, ToolTypeOK
  <1>2. ASSUME NEW w \in Worker
        PROVE  /\ worker'[w].ok => worker'[w].hit
               /\ worker'[w].hit => Busy(w)' /\ effects'[worker'[w].attempt] >= 1
    <2>1. CASE worker'[w] = worker[w]
      <3>1. Busy(w) => worker[w].attempt \in Attempt
        BY BusyWorkerType
      <3>2. QED
        BY <1>1, <2>1, <3>1 DEF EffectInv, Busy
    <2>2. CASE ~worker'[w].hit /\ ~worker'[w].ok
      BY <2>2
    <2>3. CASE /\ worker'[w].attempt = worker[w].attempt /\ Busy(w)'
               /\ worker'[w].hit => worker[w].hit \/ effects'[worker[w].attempt] >= 1
               /\ worker'[w].ok => worker'[w].hit
      <3>1. Busy(w) => worker[w].attempt \in Attempt
        BY BusyWorkerType
      <3>2. QED
        BY <1>1, <2>3, <3>1 DEF EffectInv
    <2>4. QED
      BY <2>1, <2>2, <2>3
  <1>3. CompletedTookEffect'
    BY <1>1 DEF EffectInv, CompletedTookEffect
  <1>4. QED
    BY <1>2, <1>3 DEF EffectInv

LEMMA CountedGrows ==
  ASSUME NEW n \in 0..MaxEffects
  PROVE  Counted(n) >= n /\ Counted(n) >= 1
  BY ToolAssumption DEF Counted

LEMMA NextEffect == TypeInv /\ TypeInv' /\ EffectInv /\ [Next]_vars => EffectInv'
  <1> SUFFICES ASSUME TypeInv, TypeInv', EffectInv, [Next]_vars
               PROVE  EffectInv'
    OBVIOUS
  <1>0. \A a \in Attempt : effects[a] \in 0..MaxEffects /\ effects[a] \in Nat /\ effects[a] >= effects[a]
    BY ToolAssumption DEF TypeInv, ToolTypeOK
  <1>1. ASSUME NEW t \in Turn, AcceptTurn(t) \/ EndTurn(t)
        PROVE  EffectInv'
    BY <1>0, <1>1, EffectKept DEF AcceptTurn, EndTurn, toolVars
  <1>2. ASSUME NEW w \in Worker, NEW c \in Call, Begin(w, c)
        PROVE  EffectInv'
    <2>1. worker' = [worker EXCEPT ![w] = Taking(AttemptOf(c))]
      BY <1>2 DEF Begin
    <2>2. \A v \in Worker : worker'[v] = worker[v] \/ (~worker'[v].hit /\ ~worker'[v].ok)
      BY <2>1 DEF Taking, TypeInv, ToolTypeOK
    <2>3. \A a \in Attempt : attempts'[a] = "completed" => attempts[a] = "completed"
      BY <1>2 DEF Begin, InsertedState, TypeInv, ToolTypeOK
    <2>4. effects' = effects
      BY <1>2 DEF Begin
    <2>5. QED
      BY <1>0, <2>2, <2>3, <2>4, EffectKept
  <1>3. ASSUME NEW w \in Worker, NEW c \in Call, Answer(w, c)
        PROVE  EffectInv'
    BY <1>0, <1>3, EffectKept DEF Answer, vars
  <1>4. ASSUME NEW w \in Worker, LogStart(w)
        PROVE  EffectInv'
    <2>1. Now(w, "running", worker[w].hit, worker[w].ok)
      BY <1>4, StepFields
    <2>2. attempts' = attempts /\ effects' = effects
      BY <1>4 DEF LogStart
    <2>3. QED
      BY <1>0, <2>1, <2>2, EffectKept DEF Now, Others, Busy, EffectInv
  <1>5. ASSUME NEW w \in Worker, LogStartRefused(w) \/ LogDone(w) \/ Abandon(w)
        PROVE  EffectInv'
    <2>1. worker' = [worker EXCEPT ![w] = Idle] /\ attempts' = attempts /\ effects' = effects
      BY <1>5 DEF LogStartRefused, LogDone, Abandon
    <2>2. \A v \in Worker : worker'[v] = worker[v] \/ (~worker'[v].hit /\ ~worker'[v].ok)
      BY <2>1 DEF Idle, TypeInv, ToolTypeOK
    <2>3. QED
      BY <1>0, <2>1, <2>2, EffectKept
  <1>6. ASSUME NEW w \in Worker, Hit(w)
        PROVE  EffectInv'
    <2>1. Now(w, "running", TRUE, worker[w].ok)
      BY <1>6, StepFields
    <2>2. worker[w].attempt \in Attempt
      BY <1>6, BusyWorkerType DEF Hit, Busy
    <2>3. /\ effects' = [effects EXCEPT ![worker[w].attempt] = Counted(@)]
          /\ attempts' = attempts
      BY <1>6 DEF Hit
    <2>4. /\ effects'[worker[w].attempt] >= 1
          /\ \A a \in Attempt : effects'[a] >= effects[a]
      BY <1>0, <2>2, <2>3, CountedGrows DEF TypeInv, ToolTypeOK
    <2>5. QED
      BY <2>1, <2>3, <2>4, EffectKept DEF Now, Others, Busy
  <1>7. ASSUME NEW w \in Worker, Return(w)
        PROVE  EffectInv'
    <2>1. Now(w, "returned", worker[w].hit, TRUE) /\ worker[w].hit
      BY <1>7, StepFields DEF Return
    <2>2. attempts' = attempts /\ effects' = effects
      BY <1>7 DEF Return
    <2>3. QED
      BY <1>0, <2>1, <2>2, EffectKept DEF Now, Others, Busy
  <1>8. ASSUME NEW w \in Worker, Fail(w)
        PROVE  EffectInv'
    <2>1. Now(w, "returned", worker[w].hit, FALSE)
      BY <1>8, StepFields
    <2>2. attempts' = attempts /\ effects' = effects
      BY <1>8 DEF Fail
    <2>3. QED
      BY <1>0, <2>1, <2>2, EffectKept DEF Now, Others, Busy
  <1>9. ASSUME NEW w \in Worker, Settle(w)
        PROVE  EffectInv'
    <2>1. Now(w, "settled", worker[w].hit, worker[w].ok)
      BY <1>9, StepFields
    <2>2. /\ attempts' = [attempts EXCEPT ![worker[w].attempt] = Outcome(w)]
          /\ effects' = effects
      BY <1>9 DEF Settle
    <2>3. \A a \in Attempt : attempts'[a] = "completed" =>
             attempts[a] = "completed" \/ effects[a] >= 1
      BY <2>2 DEF Outcome, EffectInv, TypeInv, ToolTypeOK
    <2>4. QED
      BY <1>0, <2>1, <2>2, <2>3, EffectKept DEF Now, Others, Busy, EffectInv
  <1>10. ASSUME NEW h \in Host, Crash(h)
         PROVE  EffectInv'
    <2>1. \A v \in Worker : worker'[v] = worker[v] \/ (~worker'[v].hit /\ ~worker'[v].ok)
      BY <1>10 DEF Crash, Idle
    <2>2. attempts' = attempts /\ effects' = effects
      BY <1>10 DEF Crash
    <2>3. QED
      BY <1>0, <2>1, <2>2, EffectKept
  <1>11. ASSUME NEW b \in Attempt, LateHit(b) \/ LateLoss(b)
         PROVE  EffectInv'
    <2>1. \A a \in Attempt : effects'[a] >= effects[a]
      BY <1>0, <1>11, CountedGrows DEF LateHit, LateLoss, TypeInv, ToolTypeOK
    <2>2. attempts' = attempts /\ worker' = worker
      BY <1>11 DEF LateHit, LateLoss
    <2>3. QED
      BY <2>1, <2>2, EffectKept
  <1>12. ASSUME NEW h \in Host, NEW s \in Session, Survey(h, s)
         PROVE  EffectInv'
    BY <1>0, <1>12, EffectKept DEF Survey
  <1>13. ASSUME NEW h \in Host, NEW b \in Attempt, Reconcile(h, b)
         PROVE  EffectInv'
    <2>1. \A a \in Attempt : attempts'[a] = "completed" => attempts[a] = "completed"
      BY <1>13 DEF Reconcile, Reconciled, TypeInv, ToolTypeOK
    <2>2. effects' = effects /\ worker' = worker
      BY <1>13 DEF Reconcile
    <2>3. QED
      BY <1>0, <2>1, <2>2, EffectKept
  <1>14. CASE UNCHANGED vars
    BY <1>0, <1>14, EffectKept DEF vars
  <1>15. QED
    BY <1>1, <1>2, <1>3, <1>4, <1>5, <1>6, <1>7, <1>8, <1>9, <1>10, <1>11, <1>12, <1>13,
       <1>14 DEF Next, WorkerStep

\* A result that before() replays instead of running the tool is the result of a
\* run that took effect, whatever else crashed, timed out or was reconciled.
THEOREM StoredResultTookEffect == Spec => []CompletedTookEffect
  <1>1. EffectInv => CompletedTookEffect
    BY DEF EffectInv
  <1>2. QED
    BY InitTypeInv, NextTypeInv, InitEffect, NextEffect, <1>1, PTL DEF Spec

-----------------------------------------------------------------------------
\* A call that runs is shown

StartKey(a)    == <<TurnOf(a), StartName(a)>>
CompleteKey(a) == <<TurnOf(a), CompleteName(a)>>

Begun(a)  == attempts[a] # "absent"
Closed(a) == attempts[a] \notin {"absent", "in_progress"}

OpenIn(t) == snapshot[t].open_tool_attempts

\* No worker is on a row that is not there, and the row of an attempt is closed
\* before its completion is logged.
RowsOfWorkers ==
    /\ \A w \in Worker : Busy(w) => Begun(worker[w].attempt)
    /\ \A w \in Worker : worker[w].pc = "settled" => Closed(worker[w].attempt)

RunningIsLogged ==
    \A w \in Worker : worker[w].pc = "running" => StartKey(worker[w].attempt) \in keys

CompletionsAreClosed == \A a \in Attempt : CompleteKey(a) \in keys => Closed(a)

\* Between the two events of an attempt a live turn shows it.
StartsAreShown ==
    \A a \in Attempt : StartKey(a) \in keys =>
        /\ Started(TurnOf(a))
        /\ (CompleteKey(a) \notin keys /\ Live(TurnOf(a))) => a \in OpenIn(TurnOf(a))

\* What RunningCallIsShown needs to be inductive.
ShownInv == RowsOfWorkers /\ RunningIsLogged /\ CompletionsAreClosed /\ StartsAreShown

LEMMA ToolKeyType ==
  ASSUME NEW a \in Attempt
  PROVE  StartKey(a) \in Key /\ CompleteKey(a) \in Key
  BY KeyType DEF StartKey, CompleteKey

\* Every key is spent by one kind of event of one attempt, and none by a turn's own.
LEMMA KeysDiffer ==
  ASSUME NEW a \in Attempt, NEW b \in Attempt, NEW t \in Turn
  PROVE  /\ StartKey(a) = StartKey(b) => a = b
         /\ CompleteKey(a) = CompleteKey(b) => a = b
         /\ StartKey(a) # CompleteKey(b)
         /\ <<t, AcceptedName>> \notin {StartKey(a), CompleteKey(a)}
         /\ <<t, TerminalName>> \notin {StartKey(a), CompleteKey(a)}
  BY DEF StartKey, CompleteKey, StartName, CompleteName, AcceptedName, TerminalName

LEMMA ToolReduce ==
  ASSUME NEW snap \in Snapshot, NEW a \in Attempt
  PROVE  /\ Reduce(snap, ToolEv("tool_started", a)).open_tool_attempts =
               snap.open_tool_attempts \cup {a}
         /\ Reduce(snap, ToolEv("tool_completed", a)).open_tool_attempts =
               snap.open_tool_attempts \ {a}
  BY AttemptAssumption DEF Reduce, WithTool, ToolEv, TerminalPhase, Snapshot

\* What an append does to the ledger: the turns it does not name stay as they are,
\* and none comes to life.
LEMMA LedgerAppend ==
  ASSUME LedgerTypeOK, NEW t \in Turn, NEW ev \in Event, NEW key \in Key,
         Append(t, ev, key)
  PROVE  /\ keys' = keys \cup {key}
         /\ Started(t)
         /\ \A u \in Turn \ {t} : snapshot'[u] = snapshot[u]
         /\ key \in keys => snapshot' = snapshot
         /\ key \notin keys => snapshot'[t] = Reduce(snapshot[t], ev)
         /\ \A u \in Turn : Started(u) => Started(u)'
         /\ \A u \in Turn : Live(u)' => Live(u)
  <1>1. Started(t) /\ snapshot[t] \in Snapshot /\ key # NoKey
    BY KeyAssumption DEF Append, Started, LedgerTypeOK
  <1>2. Reduce(snapshot[t], ev) \in Snapshot
    BY <1>1, ReduceType
  <1>3. CASE key \in keys
    BY <1>1, <1>3 DEF Append, ledgerVars, Live, Started
  <1>4. CASE key \notin keys
    <2>1. snapshot' = [snapshot EXCEPT ![t] = Reduce(snapshot[t], ev)]
      BY <1>4 DEF Append
    <2>2. keys' = keys \cup {key}
      BY <1>1, <1>4 DEF Append
    <2>3. ~Terminal(snapshot[t])
      BY <1>4 DEF Append, Refused, Rejected
    <2>4. snapshot'[t] # NoTurn
      BY <1>2, <2>1, KeyAssumption DEF LedgerTypeOK
    <2>5. QED
      BY <1>1, <1>4, <2>1, <2>2, <2>3, <2>4 DEF Live, Started, LedgerTypeOK
  <1>5. QED
    BY <1>3, <1>4

LEMMA TerminalEventEnds ==
  ASSUME NEW snap \in Snapshot, NEW ev \in TerminalEvent
  PROVE  Terminal(Reduce(snap, ev))
  BY DEF TerminalEvent, Ev, FlagEv, Reduce, WithEnd, Terminal, TerminalPhase, Snapshot

LEMMA InitShown == Init => ShownInv
  BY DEF Init, LedgerInit, ShownInv, RowsOfWorkers, RunningIsLogged, CompletionsAreClosed,
         StartsAreShown, Busy, Idle

RowsOnlyClose ==
    \A a \in Attempt : (Begun(a) => Begun(a)') /\ (Closed(a) => Closed(a)')

LEMMA RowsKept ==
  ASSUME TypeInv, RowsOfWorkers, RowsOnlyClose,
         \A v \in Worker :
            \/ worker'[v] = worker[v] \/ worker'[v].pc = "idle"
            \/ \E b \in Attempt : /\ worker'[v].attempt = b
                                  /\ Begun(b)'
                                  /\ worker'[v].pc = "settled" => Closed(b)'
                                  /\ worker'[v].pc = "running" => StartKey(b) \in keys',
         RunningIsLogged, keys \subseteq keys'
  PROVE  RowsOfWorkers' /\ RunningIsLogged'
  <1>1. ASSUME NEW w \in Worker
        PROVE  /\ Busy(w)' => attempts'[worker'[w].attempt] # "absent"
               /\ worker'[w].pc = "settled" =>
                     attempts'[worker'[w].attempt] \notin {"absent", "in_progress"}
               /\ worker'[w].pc = "running" => StartKey(worker'[w].attempt) \in keys'
    <2>1. CASE worker'[w] = worker[w]
      <3>1. Busy(w) => worker[w].attempt \in Attempt
        BY BusyWorkerType
      <3>2. worker[w].pc = "settled" => Busy(w)
        BY DEF Busy
      <3>3. QED
        BY <2>1, <3>1, <3>2 DEF RowsOfWorkers, RowsOnlyClose, RunningIsLogged, Busy, Begun, Closed
    <2>2. CASE worker'[w].pc = "idle"
      BY <2>2 DEF Busy
    <2>3. CASE \E b \in Attempt : /\ worker'[w].attempt = b
                                  /\ Begun(b)'
                                  /\ worker'[w].pc = "settled" => Closed(b)'
                                  /\ worker'[w].pc = "running" => StartKey(b) \in keys'
      BY <2>3 DEF Begun, Closed
    <2>4. QED
      BY <2>1, <2>2, <2>3
  <1>2. QED
    BY <1>1 DEF RowsOfWorkers, RunningIsLogged, Begun, Closed

\* A step that leaves the ledger alone and opens no row again.
LEMMA LedgerKept ==
  ASSUME TypeInv, ShownInv, UNCHANGED <<snapshot, keys>>, RowsOnlyClose,
         \A v \in Worker :
            \/ worker'[v] = worker[v] \/ worker'[v].pc = "idle"
            \/ \E b \in Attempt : /\ worker'[v].attempt = b
                                  /\ Begun(b)'
                                  /\ worker'[v].pc = "settled" => Closed(b)'
                                  /\ worker'[v].pc = "running" => StartKey(b) \in keys'
  PROVE  ShownInv'
  <1>1. RowsOfWorkers' /\ RunningIsLogged'
    BY RowsKept DEF ShownInv
  <1>2. CompletionsAreClosed' /\ StartsAreShown'
    BY DEF ShownInv, CompletionsAreClosed, StartsAreShown, RowsOnlyClose, Started, Live, OpenIn
  <1>3. QED
    BY <1>1, <1>2 DEF ShownInv

\* A step that touches no row and appends to the ledger.
LEMMA RowsAlone ==
  ASSUME TypeInv, ShownInv, UNCHANGED attempts, keys \subseteq keys',
         \A v \in Worker :
            \/ worker'[v] = worker[v] \/ worker'[v].pc = "idle"
            \/ \E b \in Attempt : /\ worker'[v].attempt = b
                                  /\ Begun(b)
                                  /\ worker'[v].pc # "settled"
                                  /\ worker'[v].pc = "running" => StartKey(b) \in keys'
  PROVE  RowsOfWorkers' /\ RunningIsLogged'
  <1>1. RowsOnlyClose
    BY DEF RowsOnlyClose, Begun, Closed
  <1>2. QED
    BY <1>1, RowsKept DEF ShownInv, Begun, Closed

LEMMA TurnStepShown ==
  ASSUME TypeInv, ShownInv, NEW t \in Turn, AcceptTurn(t) \/ EndTurn(t)
  PROVE  ShownInv'
  <1>0. UNCHANGED <<attempts, worker>>
    BY DEF AcceptTurn, EndTurn, toolVars
  <1>1. CASE AcceptTurn(t)
    <2>1. /\ ~Started(t)
          /\ keys' = keys \cup {<<t, AcceptedName>>}
          /\ \A u \in Turn \ {t} : snapshot'[u] = snapshot[u]
      BY <1>1 DEF AcceptTurn, Start, TypeInv, ToolTypeOK, LedgerTypeOK
    <2>2. RowsOfWorkers' /\ RunningIsLogged'
      BY <1>0, <2>1, RowsAlone
    <2>3. CompletionsAreClosed'
      BY <1>0, <2>1, KeysDiffer DEF ShownInv, CompletionsAreClosed, Closed
    <2>4. ASSUME NEW a \in Attempt, StartKey(a) \in keys'
          PROVE  /\ Started(TurnOf(a))'
                 /\ (CompleteKey(a) \notin keys' /\ Live(TurnOf(a))') => a \in OpenIn(TurnOf(a))'
      <3>1. StartKey(a) \in keys
        BY <2>1, <2>4, KeysDiffer
      <3>2. TurnOf(a) \in Turn \ {t}
        BY <2>1, <3>1, KeyType DEF ShownInv, StartsAreShown
      <3>3. QED
        BY <2>1, <3>1, <3>2 DEF ShownInv, StartsAreShown, Started, Live, OpenIn
    <2>5. QED
      BY <2>2, <2>3, <2>4 DEF ShownInv, StartsAreShown
  <1>2. CASE EndTurn(t)
    <2> DEFINE key == <<t, TerminalName>>
    <2>1. PICK ev \in TerminalEvent : Append(t, ev, key)
      BY <1>2 DEF EndTurn
    <2>2. /\ keys' = keys \cup {key}
          /\ Started(t)
          /\ \A u \in Turn \ {t} : snapshot'[u] = snapshot[u]
          /\ key \in keys => snapshot' = snapshot
          /\ key \notin keys => snapshot'[t] = Reduce(snapshot[t], ev)
          /\ \A u \in Turn : Started(u) => Started(u)'
      BY <2>1, TerminalEventType, TurnKeyType, LedgerAppend DEF TypeInv, ToolTypeOK
    <2>3. RowsOfWorkers' /\ RunningIsLogged'
      BY <1>0, <2>2, RowsAlone
    <2>4. CompletionsAreClosed'
      BY <1>0, <2>2, KeysDiffer DEF ShownInv, CompletionsAreClosed, Closed
    <2>5. ASSUME NEW a \in Attempt, StartKey(a) \in keys'
          PROVE  /\ Started(TurnOf(a))'
                 /\ (CompleteKey(a) \notin keys' /\ Live(TurnOf(a))') => a \in OpenIn(TurnOf(a))'
      <3>1. StartKey(a) \in keys /\ TurnOf(a) \in Turn
        BY <2>2, <2>5, KeysDiffer, KeyType
      <3>2. Started(TurnOf(a))'
        BY <2>2, <3>1 DEF ShownInv, StartsAreShown
      <3>3. CASE TurnOf(a) = t /\ key \notin keys
        <4>1. snapshot[t] \in Snapshot
          BY <2>2 DEF Started, TypeInv, ToolTypeOK, LedgerTypeOK
        <4>2. ~Live(TurnOf(a))'
          BY <2>2, <3>3, <4>1, TerminalEventEnds DEF Live
        <4>3. QED
          BY <3>2, <4>2
      <3>4. CASE TurnOf(a) # t \/ key \in keys
        <4>1. snapshot'[TurnOf(a)] = snapshot[TurnOf(a)]
          BY <2>2, <3>1, <3>4
        <4>2. QED
          BY <2>2, <3>1, <4>1 DEF ShownInv, StartsAreShown, Started, Live, OpenIn
      <3>5. QED
        BY <3>3, <3>4
    <2>6. QED
      BY <2>3, <2>4, <2>5 DEF ShownInv, StartsAreShown
  <1>3. QED
    BY <1>1, <1>2

LEMMA LogStartShown ==
  ASSUME TypeInv, ShownInv, NEW w \in Worker, LogStart(w)
  PROVE  ShownInv'
  <1>1. PICK a \in Attempt : a = worker[w].attempt
    BY BusyWorkerType DEF LogStart, Busy
  <1> DEFINE t == TurnOf(a)
  <1>2. Append(t, ToolEv("tool_started", a), StartKey(a)) /\ attempts' = attempts
    BY <1>1 DEF LogStart, StartKey
  <1>3. /\ keys' = keys \cup {StartKey(a)}
        /\ Started(t) /\ t \in Turn
        /\ \A u \in Turn \ {t} : snapshot'[u] = snapshot[u]
        /\ StartKey(a) \in keys => snapshot' = snapshot
        /\ StartKey(a) \notin keys =>
              snapshot'[t] = Reduce(snapshot[t], ToolEv("tool_started", a))
        /\ \A u \in Turn : Started(u) => Started(u)'
        /\ \A u \in Turn : Live(u)' => Live(u)
    BY <1>2, KeyType, ToolKeyType, ToolEventType, LedgerAppend DEF TypeInv, ToolTypeOK
  <1>4. RowsOfWorkers' /\ RunningIsLogged'
    <2>1. Begun(a)
      BY <1>1 DEF LogStart, ShownInv, RowsOfWorkers, Busy
    <2>2. Now(w, "running", worker[w].hit, worker[w].ok)
      BY StepFields
    <2>3. keys \subseteq keys' /\ StartKey(a) \in keys'
      BY <1>3
    <2>4. QED
      BY <1>1, <1>2, <2>1, <2>2, <2>3, RowsAlone DEF Now, Others
  <1>5. CompletionsAreClosed'
    BY <1>2, <1>3, KeysDiffer DEF ShownInv, CompletionsAreClosed, Closed
  <1>6. ASSUME NEW b \in Attempt, StartKey(b) \in keys'
        PROVE  /\ Started(TurnOf(b))'
               /\ (CompleteKey(b) \notin keys' /\ Live(TurnOf(b))') => b \in OpenIn(TurnOf(b))'
    <2>1. b = a \/ StartKey(b) \in keys
      BY <1>3, <1>6, KeysDiffer
    <2>2. Started(TurnOf(b)) /\ TurnOf(b) \in Turn
      BY <1>3, <2>1, KeyType DEF ShownInv, StartsAreShown
    <2>3. SUFFICES ASSUME CompleteKey(b) \notin keys', Live(TurnOf(b))'
                   PROVE  b \in OpenIn(TurnOf(b))'
      BY <1>3, <2>2
    <2>4. CompleteKey(b) \notin keys /\ Live(TurnOf(b))
      BY <1>3, <2>2, <2>3
    <2>5. StartKey(b) \in keys => b \in OpenIn(TurnOf(b))
      BY <2>4 DEF ShownInv, StartsAreShown
    <2>6. CASE TurnOf(b) # t \/ StartKey(a) \in keys
      BY <1>3, <2>1, <2>2, <2>5, <2>6 DEF OpenIn
    <2>7. CASE TurnOf(b) = t /\ StartKey(a) \notin keys
      <3>1. snapshot[t] \in Snapshot
        BY <1>3 DEF Started, TypeInv, ToolTypeOK, LedgerTypeOK
      <3>2. OpenIn(t)' = OpenIn(t) \cup {a}
        BY <1>3, <2>7, <3>1, ToolReduce DEF OpenIn
      <3>3. QED
        BY <2>1, <2>5, <2>7, <3>2
    <2>8. QED
      BY <2>6, <2>7
  <1>7. QED
    BY <1>4, <1>5, <1>6 DEF ShownInv, StartsAreShown

LEMMA LogDoneShown ==
  ASSUME TypeInv, ShownInv, NEW w \in Worker, LogDone(w)
  PROVE  ShownInv'
  <1>1. PICK a \in Attempt : a = worker[w].attempt
    BY BusyWorkerType DEF LogDone, Busy
  <1> DEFINE t == TurnOf(a)
  <1>2. attempts' = attempts /\ worker' = [worker EXCEPT ![w] = Idle]
    BY DEF LogDone
  <1>3. \A v \in Worker : worker'[v] = worker[v] \/ worker'[v].pc = "idle"
    BY <1>2 DEF Idle, TypeInv, ToolTypeOK
  <1>4. CASE UNCHANGED <<snapshot, keys>>
    <2>1. RowsOnlyClose
      BY <1>2 DEF RowsOnlyClose, Begun, Closed
    <2>2. QED
      BY <1>3, <1>4, <2>1, LedgerKept
  <1>5. CASE Append(t, ToolEv("tool_completed", a), CompleteKey(a))
    <2>1. /\ keys' = keys \cup {CompleteKey(a)}
          /\ Started(t) /\ t \in Turn
          /\ \A u \in Turn \ {t} : snapshot'[u] = snapshot[u]
          /\ CompleteKey(a) \in keys => snapshot' = snapshot
          /\ CompleteKey(a) \notin keys =>
                snapshot'[t] = Reduce(snapshot[t], ToolEv("tool_completed", a))
          /\ \A u \in Turn : Started(u) => Started(u)'
          /\ \A u \in Turn : Live(u)' => Live(u)
      BY <1>5, KeyType, ToolKeyType, ToolEventType, LedgerAppend DEF TypeInv, ToolTypeOK
    <2>2. RowsOfWorkers' /\ RunningIsLogged'
      BY <1>2, <1>3, <2>1, RowsAlone
    <2>3. CompletionsAreClosed'
      <3>1. Closed(a)
        BY <1>1 DEF LogDone, ShownInv, RowsOfWorkers
      <3>2. QED
        BY <1>2, <2>1, <3>1, KeysDiffer DEF ShownInv, CompletionsAreClosed, Closed
    <2>4. ASSUME NEW b \in Attempt, StartKey(b) \in keys'
          PROVE  /\ Started(TurnOf(b))'
                 /\ (CompleteKey(b) \notin keys' /\ Live(TurnOf(b))') => b \in OpenIn(TurnOf(b))'
      <3>1. StartKey(b) \in keys /\ TurnOf(b) \in Turn /\ Started(TurnOf(b))
        BY <2>1, <2>4, KeysDiffer, KeyType DEF ShownInv, StartsAreShown
      <3>2. SUFFICES ASSUME CompleteKey(b) \notin keys', Live(TurnOf(b))'
                     PROVE  b \in OpenIn(TurnOf(b))'
        BY <2>1, <3>1
      <3>3. b # a /\ b \in OpenIn(TurnOf(b))
        BY <2>1, <3>1, <3>2 DEF ShownInv, StartsAreShown
      <3>4. CASE TurnOf(b) # t \/ CompleteKey(a) \in keys
        BY <2>1, <3>1, <3>3, <3>4 DEF OpenIn
      <3>5. CASE TurnOf(b) = t /\ CompleteKey(a) \notin keys
        <4>1. snapshot[t] \in Snapshot
          BY <2>1 DEF Started, TypeInv, ToolTypeOK, LedgerTypeOK
        <4>2. OpenIn(t)' = OpenIn(t) \ {a}
          BY <2>1, <3>5, <4>1, ToolReduce DEF OpenIn
        <4>3. QED
          BY <3>3, <3>5, <4>2
      <3>6. QED
        BY <3>4, <3>5
    <2>5. QED
      BY <2>2, <2>3, <2>4 DEF ShownInv, StartsAreShown
  <1>6. QED
    BY <1>1, <1>4, <1>5 DEF LogDone, CompleteKey, ledgerVars

LEMMA NextShown == TypeInv /\ ShownInv /\ [Next]_vars => ShownInv'
  <1> SUFFICES ASSUME TypeInv, ShownInv, [Next]_vars
               PROVE  ShownInv'
    OBVIOUS
  <1>0. attempts' = attempts => RowsOnlyClose
    BY DEF RowsOnlyClose, Begun, Closed
  <1>1. ASSUME NEW t \in Turn, AcceptTurn(t) \/ EndTurn(t)
        PROVE  ShownInv'
    BY <1>1, TurnStepShown
  <1>2. ASSUME NEW w \in Worker, NEW c \in Call, Begin(w, c)
        PROVE  ShownInv'
    <2>1. PICK b \in Attempt : b = AttemptOf(c)
      BY AttemptOfType
    <2>2. /\ worker' = [worker EXCEPT ![w] = Taking(b)]
          /\ attempts' = [attempts EXCEPT ![b] = IF @ = "absent" THEN InsertedState ELSE @]
          /\ UNCHANGED <<snapshot, keys>>
      BY <1>2, <2>1 DEF Begin
    <2>3. RowsOnlyClose /\ Begun(b)'
      BY <2>2 DEF RowsOnlyClose, Begun, Closed, InsertedState, TypeInv, ToolTypeOK
    <2>4. \A v \in Worker : \/ worker'[v] = worker[v]
                            \/ worker'[v].attempt = b /\ worker'[v].pc = "before"
      BY <2>2 DEF Taking, TypeInv, ToolTypeOK
    <2>5. QED
      BY <2>2, <2>3, <2>4, LedgerKept
  <1>3. ASSUME NEW w \in Worker, NEW c \in Call, Answer(w, c)
        PROVE  ShownInv'
    BY <1>0, <1>3, LedgerKept DEF Answer, vars
  <1>4. ASSUME NEW w \in Worker, LogStart(w) \/ LogDone(w)
        PROVE  ShownInv'
    BY <1>4, LogStartShown, LogDoneShown
  <1>5. ASSUME NEW w \in Worker, LogStartRefused(w) \/ Abandon(w)
        PROVE  ShownInv'
    <2>1. /\ worker' = [worker EXCEPT ![w] = Idle]
          /\ UNCHANGED <<attempts, snapshot, keys>>
      BY <1>5 DEF LogStartRefused, Abandon
    <2>2. \A v \in Worker : worker'[v] = worker[v] \/ worker'[v].pc = "idle"
      BY <2>1 DEF Idle, TypeInv, ToolTypeOK
    <2>3. QED
      BY <1>0, <2>1, <2>2, LedgerKept
  <1>6. ASSUME NEW w \in Worker, Hit(w) \/ Return(w) \/ Fail(w)
        PROVE  ShownInv'
    <2>1. PICK b \in Attempt : b = worker[w].attempt
      BY <1>6, BusyWorkerType DEF Hit, Return, Fail, Busy
    <2>2. UNCHANGED <<attempts, snapshot, keys>> /\ worker[w].pc = "running"
      BY <1>6 DEF Hit, Return, Fail
    <2>3. /\ worker'[w].attempt = b
          /\ worker'[w].pc \in {"running", "returned"}
          /\ \A v \in Worker \ {w} : worker'[v] = worker[v]
      BY <1>6, <2>1, StepFields DEF Now, Others
    <2>4. Begun(b) /\ StartKey(b) \in keys
      BY <2>1, <2>2 DEF ShownInv, RowsOfWorkers, RunningIsLogged, Busy
    <2>5. QED
      BY <1>0, <2>2, <2>3, <2>4, LedgerKept DEF Begun
  <1>7. ASSUME NEW w \in Worker, Settle(w)
        PROVE  ShownInv'
    <2>1. PICK b \in Attempt : b = worker[w].attempt
      BY <1>7, BusyWorkerType DEF Settle, Busy
    <2>2. /\ attempts' = [attempts EXCEPT ![b] = Outcome(w)]
          /\ UNCHANGED <<snapshot, keys>>
      BY <1>7, <2>1 DEF Settle
    <2>3. RowsOnlyClose /\ Begun(b)' /\ Closed(b)'
      BY <2>2 DEF RowsOnlyClose, Begun, Closed, Outcome, TypeInv, ToolTypeOK
    <2>4. /\ worker'[w].attempt = b
          /\ worker'[w].pc = "settled"
          /\ \A v \in Worker \ {w} : worker'[v] = worker[v]
      BY <1>7, <2>1, StepFields DEF Now, Others
    <2>5. QED
      BY <2>2, <2>3, <2>4, LedgerKept
  <1>8. ASSUME NEW h \in Host, Crash(h)
        PROVE  ShownInv'
    <2>1. UNCHANGED <<attempts, snapshot, keys>>
      BY <1>8 DEF Crash
    <2>2. \A v \in Worker : worker'[v] = worker[v] \/ worker'[v].pc = "idle"
      BY <1>8 DEF Crash, Idle
    <2>3. QED
      BY <1>0, <2>1, <2>2, LedgerKept
  <1>9. ASSUME NEW b \in Attempt, LateHit(b) \/ LateLoss(b)
        PROVE  ShownInv'
    BY <1>0, <1>9, LedgerKept DEF LateHit, LateLoss
  <1>10. ASSUME NEW h \in Host, NEW s \in Session, Survey(h, s)
         PROVE  ShownInv'
    BY <1>0, <1>10, LedgerKept DEF Survey
  <1>11. ASSUME NEW h \in Host, NEW b \in Attempt, Reconcile(h, b)
         PROVE  ShownInv'
    <2>1. /\ attempts' = [attempts EXCEPT ![b] = Reconciled(b)]
          /\ UNCHANGED <<snapshot, keys, worker>>
      BY <1>11 DEF Reconcile
    <2>2. RowsOnlyClose
      BY <2>1 DEF RowsOnlyClose, Begun, Closed, Reconciled, TypeInv, ToolTypeOK
    <2>3. QED
      BY <2>1, <2>2, LedgerKept
  <1>12. CASE UNCHANGED vars
    BY <1>0, <1>12, LedgerKept DEF vars
  <1>13. QED
    BY <1>1, <1>2, <1>3, <1>4, <1>5, <1>6, <1>7, <1>8, <1>9, <1>10, <1>11, <1>12
       DEF Next, WorkerStep

\* A call that runs for the first time in a live turn is among the attempts that the
\* turn shows as open, whatever other calls start, end and crash around it.
THEOREM RunningCallsAreShown == Spec => []RunningCallIsShown
  <1>1. TypeInv /\ ShownInv => RunningCallIsShown
    <2> SUFFICES ASSUME TypeInv, ShownInv, NEW w \in Worker, worker[w].pc = "running",
                        attempts[worker[w].attempt] = "in_progress",
                        Live(TurnOf(worker[w].attempt))
                 PROVE  worker[w].attempt \in OpenIn(TurnOf(worker[w].attempt))
      BY DEF RunningCallIsShown, OpenIn
    <2>1. PICK a \in Attempt : a = worker[w].attempt
      BY BusyWorkerType DEF Busy
    <2>2. StartKey(a) \in keys /\ CompleteKey(a) \notin keys
      BY <2>1 DEF ShownInv, RunningIsLogged, CompletionsAreClosed, Closed
    <2>3. QED
      BY <2>1, <2>2 DEF ShownInv, StartsAreShown
  <1>2. QED
    BY InitTypeInv, NextTypeInv, InitShown, NextShown, <1>1, PTL DEF Spec
=============================================================================
