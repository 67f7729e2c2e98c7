----------------------------- MODULE ToolJournal ----------------------------
(***************************************************************************)
(* Durable tool attempts: what stands between a model that asks for a tool *)
(* call and the effect of that call on the world.                          *)
(*                                                                         *)
(* A router call (harness/router.py, _call_tool_journaled) runs            *)
(*    ToolJournal.before -> the tool -> ToolJournal.after                  *)
(* and each of the two journal steps is itself two database transactions:  *)
(* the attempt row, then the turn's event.  A worker below is one router   *)
(* call in flight; a process may hold several (free tools run in           *)
(* parallel), two processes may share the database, a process may die      *)
(* between any two steps, and a call that was given up (deadline,          *)
(* cancellation, death of the process) may still take effect later.        *)
(***************************************************************************)
EXTENDS RunLedger

CONSTANTS
    Session, SessionOf,   \* the session each turn belongs to
    Op,                   \* a tool together with its arguments
    SideEffect,           \* classify_side_effect of each operation
    CallId, NoCall,       \* the model's tool call ids
    Worker, Host, HostOf, \* router calls in flight, and their processes
    MaxEffects            \* effects are counted up to this bound

Side == {"read", "mutation", "external_mutation"}

Call == [turn : Turn, op : Op, id : CallId]

\* begin_tool_attempt's idempotency key. A read is one attempt per call id; a
\* mutation is one attempt per turn, tool and arguments.
AttemptOf(c) ==
    IF SideEffect[c.op] = "read" THEN <<c.turn, c.op, c.id>> ELSE <<c.turn, c.op, NoCall>>

TurnOf(a) == a[1]
SideOf(a) == SideEffect[a[2]]

\* Mutated form: the start of every attempt of a turn spends the same key.
StartNameShared(a) == <<"tool-start", NoAttempt>>

\* The names of the ledger keys used here: tool-start:{attempt}, and so on.
StartName(a)    == <<"tool-start", a>>
CompleteName(a) == <<"tool-complete", a>>
TerminalName    == <<"terminal", NoAttempt>>
AcceptedName    == <<"turn", NoAttempt>>

ASSUME ToolAssumption ==
    /\ SessionOf \in [Turn -> Session]
    /\ SideEffect \in [Op -> Side]
    /\ HostOf \in [Worker -> Host]
    /\ Attempt = Turn \X Op \X (CallId \cup {NoCall})
    /\ NoCall \notin CallId
    /\ Name = {"tool-start", "tool-complete", "terminal", "turn", "mirror"}
                 \X (Attempt \cup {NoAttempt})
    /\ MaxEffects \in Nat /\ MaxEffects >= 2

VARIABLES
    attempts,     \* tool_attempts.state, "absent" before the row is inserted
    worker,       \* the router calls in flight
    effects,      \* history: how often each attempt touched the world
    late,         \* calls given up whose effect may still happen
    found         \* rows that reconcile_inflight selected and is about to update

toolVars == <<attempts, worker, effects, late, found>>
vars     == <<snapshot, keys, attempts, worker, effects, late, found>>

AttemptState == {"in_progress", "completed", "failed", "retryable", "uncertain"}

Pc == {"idle", "before", "running", "returned", "settled"}

Idle == [pc |-> "idle", attempt |-> NoAttempt, hit |-> FALSE, ok |-> FALSE]

Taking(a) == [pc |-> "before", attempt |-> a, hit |-> FALSE, ok |-> FALSE]

WorkerState ==
    [pc : Pc, attempt : Attempt \cup {NoAttempt},
     hit : BOOLEAN,                       \* did the call take effect
     ok : BOOLEAN]                        \* did it return without an error

ToolTypeOK ==
    /\ LedgerTypeOK
    /\ attempts \in [Attempt -> AttemptState \cup {"absent"}]
    /\ worker \in [Worker -> WorkerState]
    /\ effects \in [Attempt -> 0..MaxEffects]
    /\ late \subseteq Attempt
    /\ found \in [Host -> SUBSET Attempt]

Busy(w) == worker[w].pc # "idle"

\* before(), after() and reconcile_inflight are plain code on the event loop of
\* their process: nothing else of that process runs between their transactions.
LoopFree(h) ==
    /\ found[h] = {}
    /\ \A v \in Worker : HostOf[v] = h => worker[v].pc \notin {"before", "settled"}

Init ==
    /\ LedgerInit
    /\ attempts = [a \in Attempt |-> "absent"]
    /\ worker = [w \in Worker |-> Idle]
    /\ effects = [a \in Attempt |-> 0]
    /\ late = {}
    /\ found = [h \in Host |-> {}]

-----------------------------------------------------------------------------
\* The turn around the calls

\* A turn is accepted, and some other event ends it.
AcceptTurn(t) == Start(t, <<t, AcceptedName>>) /\ UNCHANGED toolVars

TerminalEvent == {Ev("blocked"), Ev("cancelled"), Ev("failed"), FlagEv("completed", "yes")}

EndTurn(t) ==
    /\ Live(t)
    /\ \E ev \in TerminalEvent : Append(t, ev, <<t, TerminalName>>)
    /\ UNCHANGED toolVars

-----------------------------------------------------------------------------
\* One router call

\* Mutated form: whatever failed is tried again.
MayRunAgain(a) ==
    \/ attempts[a] \in {"absent", "retryable", "failed"}
    \/ attempts[a] = "in_progress" /\ SideOf(a) = "read"

\* before() lets the call through; otherwise it answers with the stored result
\* (completed) or with a DENIED text (uncertain, in progress, failed external).
MayRun(a) ==
    \/ attempts[a] \in {"absent", "retryable"}
    \/ attempts[a] = "failed" /\ SideOf(a) # "external_mutation"
    \/ attempts[a] = "in_progress" /\ SideOf(a) = "read"

InsertedState == "in_progress"

\* begin_tool_attempt: insert the row, or find it and leave its state alone.
Begin(w, c) ==
    LET a == AttemptOf(c) IN
    /\ ~Busy(w) /\ LoopFree(HostOf[w])
    /\ Started(c.turn)
    /\ MayRun(a)
    /\ attempts' = [attempts EXCEPT ![a] = IF @ = "absent" THEN InsertedState ELSE @]
    /\ worker' = [worker EXCEPT ![w] = Taking(a)]
    /\ UNCHANGED <<snapshot, keys, effects, late, found>>

\* begin_tool_attempt found a row that before() answers from.
Answer(w, c) ==
    /\ ~Busy(w) /\ LoopFree(HostOf[w])
    /\ Started(c.turn)
    /\ ~MayRun(AttemptOf(c))
    /\ UNCHANGED vars

\* The TOOL_STARTED event was appended (or its key was spent by an earlier run).
LogStart(w) ==
    LET a == worker[w].attempt IN
    /\ worker[w].pc = "before"
    /\ Append(TurnOf(a), ToolEv("tool_started", a), <<TurnOf(a), StartName(a)>>)
    /\ worker' = [worker EXCEPT ![w].pc = "running"]
    /\ UNCHANGED <<attempts, effects, late, found>>

\* TOOL_STARTED was refused: the call answers "ERROR: runtime journal failed
\* before" and the row inserted by begin_tool_attempt stays in progress.
LogStartRefused(w) ==
    LET a == worker[w].attempt IN
    /\ worker[w].pc = "before"
    /\ Refused(TurnOf(a), ToolEv("tool_started", a), <<TurnOf(a), StartName(a)>>)
    /\ worker' = [worker EXCEPT ![w] = Idle]
    /\ UNCHANGED <<snapshot, keys, attempts, effects, late, found>>

Counted(n) == IF n < MaxEffects THEN n + 1 ELSE n

\* The tool takes effect.
Hit(w) ==
    LET a == worker[w].attempt IN
    /\ worker[w].pc = "running" /\ ~worker[w].hit
    /\ effects' = [effects EXCEPT ![a] = Counted(@)]
    /\ worker' = [worker EXCEPT ![w].hit = TRUE]
    /\ UNCHANGED <<snapshot, keys, attempts, late, found>>

Returned(w, ok) ==
    [pc |-> "returned", attempt |-> worker[w].attempt, hit |-> worker[w].hit, ok |-> ok]

\* _call_tool returns the tool's own text.
Return(w) ==
    /\ worker[w].pc = "running" /\ worker[w].hit
    /\ worker' = [worker EXCEPT ![w] = Returned(w, TRUE)]
    /\ UNCHANGED <<snapshot, keys, attempts, effects, late, found>>

\* What a call that stops waiting may leave behind: a thread the cancelled task
\* cannot stop (asyncio.to_thread) or a request already on the wire.
Residue(ws) ==
    {worker[w].attempt : w \in {v \in ws : worker[v].pc = "running" /\ ~worker[v].hit}}

\* _call_tool returns an ERROR: the tool raised, the deadline passed or the turn
\* was cancelled.
Fail(w) ==
    /\ worker[w].pc = "running"
    /\ worker' = [worker EXCEPT ![w] = Returned(w, FALSE)]
    /\ \E left \in SUBSET Residue({w}) : late' = late \cup left
    /\ UNCHANGED <<snapshot, keys, attempts, effects, found>>

\* Mutated form: complete_tool_attempt reports every result as completed.
OutcomeAlwaysGood(w) == "completed"

\* complete_tool_attempt: FAILED when the result starts with ERROR or DENIED.
Outcome(w) == IF worker[w].ok THEN "completed" ELSE "failed"

\* after(), first transaction: the row, whatever state it is in by now.
Settle(w) ==
    /\ worker[w].pc = "returned" /\ LoopFree(HostOf[w])
    /\ attempts' = [attempts EXCEPT ![worker[w].attempt] = Outcome(w)]
    /\ worker' = [worker EXCEPT ![w].pc = "settled"]
    /\ UNCHANGED <<snapshot, keys, effects, late, found>>

\* after(), second transaction: TOOL_COMPLETED, or an error appended to the text.
LogDone(w) ==
    LET a   == worker[w].attempt
        ev  == ToolEv("tool_completed", a)
        key == <<TurnOf(a), CompleteName(a)>>
    IN
    /\ worker[w].pc = "settled"
    /\ \/ Append(TurnOf(a), ev, key)
       \/ Refused(TurnOf(a), ev, key) /\ UNCHANGED ledgerVars
    /\ worker' = [worker EXCEPT ![w] = Idle]
    /\ UNCHANGED <<attempts, effects, late, found>>

-----------------------------------------------------------------------------
\* What goes wrong

\* Task.cancel reaches the router inside the tool: after() is never called.
Abandon(w) ==
    /\ worker[w].pc = "running"
    /\ worker' = [worker EXCEPT ![w] = Idle]
    /\ \E left \in SUBSET Residue({w}) : late' = late \cup left
    /\ UNCHANGED <<snapshot, keys, attempts, effects, found>>

\* A process dies between any two steps of its calls.
Crash(h) ==
    LET dead == {w \in Worker : HostOf[w] = h /\ Busy(w)} IN
    /\ dead # {} \/ found[h] # {}
    /\ worker' = [w \in Worker |-> IF w \in dead THEN Idle ELSE worker[w]]
    /\ found' = [found EXCEPT ![h] = {}]
    /\ \E left \in SUBSET Residue(dead) : late' = late \cup left
    /\ UNCHANGED <<snapshot, keys, attempts, effects>>

\* A call that was given up takes effect after all, or never does.
LateHit(a) ==
    /\ a \in late
    /\ late' = late \ {a}
    /\ effects' = [effects EXCEPT ![a] = Counted(@)]
    /\ UNCHANGED <<snapshot, keys, attempts, worker, found>>

LateLoss(a) ==
    /\ a \in late
    /\ late' = late \ {a}
    /\ UNCHANGED <<snapshot, keys, attempts, worker, effects, found>>

\* Mutated form: whatever was interrupted is retried.
ReconciledRetry(a) == "retryable"

Reconciled(a) == IF SideOf(a) = "read" THEN "retryable" ELSE "uncertain"

\* reconcile_inflight, at the start of every execution of a turn of session s:
\* a SELECT, then one UPDATE per row in autocommit mode. Neither asks whether the
\* call in progress is alive, and the UPDATE does not look at the state again.
Survey(h, s) ==
    LET open == {a \in Attempt : SessionOf[TurnOf(a)] = s /\ attempts[a] = "in_progress"} IN
    /\ LoopFree(h)
    /\ open # {}
    /\ found' = [found EXCEPT ![h] = open]
    /\ UNCHANGED <<snapshot, keys, attempts, worker, effects, late>>

Reconcile(h, a) ==
    /\ a \in found[h]
    /\ attempts' = [attempts EXCEPT ![a] = Reconciled(a)]
    /\ found' = [found EXCEPT ![h] = @ \ {a}]
    /\ UNCHANGED <<snapshot, keys, worker, effects, late>>

-----------------------------------------------------------------------------
WorkerStep(w) ==
    \/ LogStart(w) \/ LogStartRefused(w)
    \/ Hit(w) \/ Return(w) \/ Fail(w)
    \/ Settle(w) \/ LogDone(w)

Next ==
    \/ \E t \in Turn : AcceptTurn(t) \/ EndTurn(t)
    \/ \E w \in Worker, c \in Call : Begin(w, c) \/ Answer(w, c)
    \/ \E w \in Worker : WorkerStep(w) \/ Abandon(w)
    \/ \E h \in Host : Crash(h) \/ \E s \in Session : Survey(h, s)
    \/ \E a \in Attempt : LateHit(a) \/ LateLoss(a) \/ \E h \in Host : Reconcile(h, a)

Spec == Init /\ [][Next]_vars

-----------------------------------------------------------------------------
\* Properties

External(a) == SideOf(a) = "external_mutation"
Mutates(a)  == SideOf(a) # "read"

OnIt(a)    == {w \in Worker : Busy(w) /\ worker[w].attempt = a}
About(a)   == {w \in OnIt(a) : worker[w].pc \in {"before", "running"}}
Running(a) == {w \in OnIt(a) : worker[w].pc = "running"}

Equal(a, b) == TurnOf(a) = TurnOf(b) /\ a[2] = b[2]

\* An external mutation (a message sent, a key pressed, a memory changed) asked
\* for any number of times in a turn, under any call ids, by any process, through
\* crashes, deadlines and late answers, takes effect at most once.
ExternalAtMostOnce ==
    \A a \in Attempt : External(a) =>
        /\ effects[a] <= 1
        /\ \A b \in Attempt : (Equal(a, b) /\ effects[a] > 0 /\ effects[b] > 0) => a = b

\* The journal never loses sight of an external mutation that may still take
\* effect: while it is about to run, running, or left behind by a deadline or a
\* crash, its row never reads completed, retryable or absent.
PendingEffectIsVisible ==
    \A a \in Attempt : External(a) =>
        /\ About(a) # {} => attempts[a] \in {"in_progress", "uncertain"}
        /\ a \in late => attempts[a] \in {"in_progress", "uncertain", "failed"}

\* A stored result that before() replays instead of running the tool is the
\* result of a run that took effect.
CompletedTookEffect ==
    \A a \in Attempt : attempts[a] = "completed" => effects[a] >= 1

\* What the turn shows: a call that runs for the first time (its row is in
\* progress) in a live turn is among the turn's open attempts, whatever other
\* calls start, end and crash around it.
RunningCallIsShown ==
    \A w \in Worker :
        LET a == worker[w].attempt IN
        (worker[w].pc = "running" /\ attempts[a] = "in_progress" /\ Live(TurnOf(a)))
            => a \in snapshot[TurnOf(a)].open_tool_attempts

\* The inductive invariant behind the first two: the worker that inserted the
\* row of an external mutation is the only one ever to take it up, and until the
\* effect happens exactly one of that worker and its residue can still cause it.
IdleIsEmpty == \A w \in Worker : ~Busy(w) <=> worker[w].attempt = NoAttempt

OneRowPerMutation(a) == a[3] # NoCall => attempts[a] = "absent"

FoundIsBegun(a) == \A h \in Host : a \in found[h] => attempts[a] # "absent"

UnbegunIsUntouched(a) ==
    attempts[a] = "absent" => OnIt(a) = {} /\ a \notin late /\ effects[a] = 0

SoleWorker(a) == \A v, w \in OnIt(a) : v = w

EffectStillOpen(a) ==
    /\ \A w \in About(a) : ~worker[w].hit => effects[a] = 0
    /\ a \in late => effects[a] = 0 /\ About(a) = {}

RowFollowsWorker(a) ==
    /\ attempts[a] # "retryable"
    /\ About(a) # {} => attempts[a] \in {"in_progress", "uncertain"}
    /\ \A w \in OnIt(a) : worker[w].ok => a \notin late
    /\ a \in late => attempts[a] \in {"in_progress", "uncertain", "failed"}

OneEffect(a) ==
    /\ OneRowPerMutation(a)
    /\ FoundIsBegun(a)
    /\ UnbegunIsUntouched(a)
    /\ SoleWorker(a)
    /\ EffectStillOpen(a)
    /\ RowFollowsWorker(a)
    /\ effects[a] <= 1

ExternalInv == IdleIsEmpty /\ \A a \in Attempt : External(a) => OneEffect(a)
=============================================================================
