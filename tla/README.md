# kageha: a verification project for the durable agent runtime

kageha is a Python agent framework. A user message becomes a *turn*; a turn is
executed by a model/tool loop; everything the turn does is journalled in a
SQLite database (`runtime/store.py`), so that a crash, a second process, a
repeated request or a late answer leaves a state the next execution can read.
`docs/ARCHITECTURE.md` sums the promise up as "Idempotent", "Crash-recoverable"
and "Resume from any checkpoint". Around it stand a controller that designs,
loops and verifies, a guard that stops a model that runs in circles, a gate that
asks a human before anything risky, an app server that carries questions and
answers, background jobs, a messaging channel and a memory. This directory
states what each of them promises step by step and checks it: TLA+ modules
translated from the code, TLC configurations for small instances, and TLAPS
proofs for all instances.

Paths below are relative to `src/kageha/` of the repository, `docs/` and `tests/`
to its root.

Contents: 1 inventory, 2 what is hard, 3 modules and how they map to the code,
4 runs, 5 bounds, 6 fairness, 7 proofs, 8 what is not modelled, 9 divergences,
10 plan.

## 1. Inventory

| Part | State it keeps | Operations | Talks to | Correct when |
|---|---|---|---|---|
| Run store: `runtime/store.py`, `reducer.py`, `types.py` | SQLite tables sessions, turns, events, checkpoints, tool_attempts, channel_messages, approvals | start_turn, append_event, rebuild, begin/complete_tool_attempt, reconcile_inflight, enqueue/claim/finish_channel_message, record_approval | everything below; shared by threads and processes | a key is spent once; projection, log and checkpoints agree; completion rests on evidence; an ended turn is final |
| Tool journal: `runtime/journal.py` | none of its own (rows of the store) | before, after | router, store | an external mutation takes effect at most once per turn and its row never hides one that may still happen |
| Router: `harness/router.py`, `tool_deadlines.py` | the calls in flight | execute_tool_calls, _call_tool_journaled, deadlines, cancellation | controller, approval gate, tools | a call that is given up leaves a row that says so |
| Runtime engine: `runtime/engine.py` | handles (turn -> asyncio task), callbacks | submit, resume, cancel, close, _execute, event mirroring | store, controller, channels, app server | every accepted turn is executed until it ends; what an execution reports is what the journal says |
| Controller, design: `loop/controller.py`, `mode_policy.py`, `goal_card.py` | the files of a workspace: plan.json, plan.md, flags, goal_card.json | choose the mode, clarify, design, ask for Build, build | models, approval gate | a plan is built only when a human approved what is built |
| Controller, loop: `loop/controller.py`, `stop_rules.py`, `adaptive.py`, `task_state.py`, `verifier.py` | conversation, task_state.json, counters of repairs | model call, tool calls, verify, repair, replan, stop | router, models, verifier | success rests on a verdict of this turn; repairs are bounded; evidence is of this turn |
| Tool guard: `loop/tool_guardrails.py` | counters and a history of calls, per turn | before_call, after_call, the watch after a compaction | controller | a model that runs in circles is stopped |
| Approval gate: `harness/approvals.py` | permission of the process, allow list, grants, audit | require and its kinds, scopes of answers, denial | router, tools, app server, channels | nothing risky runs without a human's word that covers it; one question at a time |
| App server and chat stream: `app_server.py`, `webui/server.py` | threads: last turn, pending question, handle | thread/turn, approve, cancel; the polling stream | engine, gate | a question on the screen waits; a stream shows its turn; a request is answered |
| Channels: `runtime/channels.py`, `channels/` | channel_messages, per-identity locks, Telegram offset | register_inbound, process, enqueue_outbound, claim_outbound, finish_outbound | store, engine | a message starts one turn; what is acknowledged was sent; no update blocks the rest |
| Async jobs: `project/async_jobs.py`, `job_worker.py` | one JSON file per job, a completion marker | enqueue, start, run, cancel, notify | detached processes, engine | success is earned; a cancelled job stays cancelled |
| Memory: `memory/` | claims, episodes and jobs in SQLite, indexes | remember, correct, forget, recall, capture, promote, prune, consolidate | controller, threads of any process | what the user said stands; a job that is done was learned |
| Validators and providers: `runtime/validators.py`, `providers.py`, `verification/` | evidence of a turn | validate, reports | engine | a verdict covers every required check |
| Supervisor and daemon: `runtime/supervisor.py`, `daemon/` | state.json, process ids | start, stop, restart, status, schedule | operating system | one process per service; its recorded state follows the process |
| Agents, specs, contract: `agents/`, `specs/`, `contract/` | task graphs, spec files | sub-agents, pipelines | controller | a task runs after those it depends on |
| Knowledge, research, context, MCP | stores of notes, indexes, sessions of servers | read, write, call | controller | (outside the runtime) |
| Models: `models/` | routes, usage | complete, stream, fall back | controller | (outside the runtime) |
| Chat and terminal UI: `chat/`, `native/` | prompt state | REPL, interrupt handling | engine | (outside the runtime) |
| Browser, sandboxes and tools: `harness/` | processes, pages | tool bodies | router | (outside the runtime) |

How they interact: a caller (chat, app server, channel, job) asks the engine for
a turn; the engine inserts it in the store and runs one asyncio task for it; the
task reconciles what earlier executions left, runs the controller and appends
the terminal event. The controller reads the files its session left, designs a
plan or not, and loops: it calls the model, screens the calls with the guard and
hands them to the router; the router asks the approval gate, then the tool
journal before and after each call; the journal writes the attempt's row and the
turn's event. A question leaves a call waiting for a human whom the app server
reaches through a chat's one slot for questions; the stream of the chat learns
of it by polling. After a turn the memory captures it and a thread learns from
it. Processes share the store, the memory and the files of jobs, plans and
allowed actions: SQLite's transactions are atomic and files are not, and
everything between two transactions, or two writes, can be interleaved or cut
off by a crash.

## 2. Behaviours that are hard

* Two executions of one turn (a resume of a live turn, two processes over one
  database) interleave transaction by transaction.
* A process may die between the row of a tool attempt, its event, its effect and
  the row of its result; the next execution knows only the rows.
* A deadline or a cancellation ends the wait for a tool, not the tool: a thread
  or a request on the wire may still take effect.
* A snapshot is read in one transaction and acted upon in a later one.
* An answer races the patience of the approver, the deadline of the tool that
  asks and the cancellation of the turn; grants outlive the question they answer.
* A stream finds its turn by polling what its chat shows, which others rewrite.
* Plans, flags, goals and tool results of one turn are read by the next, of
  another mode and with another ask.
* Counters of failures, repairs and equal calls reset each other.
* A job's file is loaded, changed and rewritten whole by processes that know
  nothing of each other, and a signal ends one of them anywhere.
* A claim is read once and then written row by row, while users, workers and
  sweeps do the same; a worker dies with its process and its job runs again.
* Telegram delivers again what a dead listener handled; a claim of an outbound
  row outlives the process that made it; an acknowledgement follows a send whose
  answer may be lost.

`PROJECT.json` lists each hazard at its line, with the properties about it.

## 3. Modules

Each action is one atomic step of the code: one transaction, one access to a
file, or the code between two awaits where nothing else of the process runs.
Four groups of modules stand for four parts that meet through what is named in
the interface of each: the journal (store, tool calls, executions, channel), the
gate and its server, the controller with its guard, and the two stores of
background work (jobs, memory).

**RunReducer** (`runtime/reducer.py`, `types.py`): the pure transition function
of a turn's snapshot. `Rejected` is the set of transitions that raise
InvalidTransition, `Reduce` the new snapshot. Texts, plans and costs are left
out; payloads keep the one truth value the reducer reads.

**RunLedger**: the abstract specification of the store, and the interface the
other modules are written over: a snapshot per turn and the set of spent
idempotency keys. `Start`, `Append`, `Refused` are start_turn and append_event as
their callers see them.

**RunJournal** (`runtime/store.py`): the detailed store: log, projection,
checkpoints, sessions, with the UNIQUE column as `SpentKeys`. It implements
RunLedger under the mapping `snapshot <- SnapshotOf, keys <- SpentKeys`
(`LedgerSpec`, checked and proved).

**RunRebuild**: RunJournal with `RuntimeStore.rebuild`, the repair transaction
that replays the logs of a session over its projections. It is a module of its
own because the replay is a recursive function, about which nothing can be proved
by the installed provers; `journal_one_turn` checks every store property with it.

**ToolJournal** (`runtime/journal.py`, the router's `_call_tool_journaled`,
reconcile_inflight): a worker is one router call in flight, with the pc `before`
(row written, event not), `running`, `returned`, `settled` (result row written,
event not). `Hit` is the effect on the world; `late` holds calls that were given
up and may still hit. `Survey` and `Reconcile` are reconcile_inflight's SELECT
and its UPDATEs, one autocommit each.

**AgentRuntime** (`runtime/engine.py`, with what app_server.py, chat/interrupt.py
and the controller do to it): an executor is one call of `_execute`. Its pc
follows the code: `created` (task made), `reconciled`, `running` (inside
controller.run), `calling`, `asking`, `returned`, `checking`, `checked`,
`deciding`, `raising`, `closing` (finally). `looked` is resume between its query
and start_turn. A verdict is recorded under the key of the turn, or, when the
controller has made a report, under one of its own (`Verdict`). A tool call is coarse here, its inner steps are ToolJournal's.

**ChannelListener** (`channels/telegram.py`, `channels/runtime.py`,
`runtime/channels.py`, the channel_messages part of the store): Telegram, the
listener with its in-memory offset, the deduplication of inbound messages and the
outbound queue. A turn is one step that answers with a reply or an error;
AgentRuntime has its inside.

**ApprovalGate** (`harness/approvals.py`, with the batches of the router and the
rounds of a plan in the controller): a gate per request, calls of four kinds
(asked by the router, by the tool's body, for an escape of the sandbox, for a
plan), the permissions of the process, the allow list, and `said`, the history
of what humans granted. `Become` takes a call on, `Require` is the fast part of
`require`, `Ask` takes the gate's lock and puts the question, `Decide`, `Reply`
and `TimeOut` settle it, `Hear` is what the caller does with the outcome, `Drop`
a deadline or cancellation that takes the caller away.

**AppServer** (`app_server.py`, the chat stream of `webui/server.py`), which
EXTENDS ApprovalGate: the dictionaries of a chat (the turn it shows, its handle,
its pending question), the threads of HTTP requests that remember, clear, submit
and poll, and the steps of the gates joined to the journal the stream reads. A
request whose execution has ended returns with a result (`Return`), after which its
stream looks at the journal once more (`Drain`), or with an error (`ReturnRaises`),
on which the stream ends as it is. It implements ApprovalGate's `GateSpec` (checked and proved).

**TurnDesign** (`loop/controller.py`, `mode_policy.py`, `goal_card.py`,
`chat/turn_manager.py`): a message of some mode enters with the workspace earlier
turns left; goals are started, resumed or kept; a plan is clarified, designed or
revised, shown, and waits for Build or does not. `files` is the workspace:
flags, goal card, plan.json and plan.md, which the human may edit.

**TurnLoop**, which EXTENDS TurnDesign: `StartLoop`, the top of a step,
the model's answer or failure, a call and its result, the verification gate
(`Passes`, `Verified`, `Contracted`, `Rejected`), `decide_control` (`Decision`),
`StopRules.evaluate` (`Evaluate`) and the end of the turn. `memory` is
task_state.json, which the next turn starts from.

**ToolGuard** (`loop/tool_guardrails.py` in the controller's loop of calls): a
batch is screened whole, then its results are observed in order. `guard` has the
counters and the history, `window` the watch after a compaction.

**AsyncJobs** (`project/async_jobs.py`, `job_worker.py`): the server, the worker
and two cancellers over one file. `Open` empties it and `Write` fills it, a load
between the two finds no record; `fresh`, `lost`, `blind`, `crashed`, `killed`
and `asked` are history the properties name their exceptions by.

**MemoryClaims** (`memory/store.py`, `mutations.py`, `capture.py`,
`consolidate.py`, `recall.py`): the table of claims. An operation (`Remember`,
`Correct`, `Forget`, `Dispute`, `Promote`, a part of a sweep) reads the table in
one step and decides on a plan of writes; `Look`, `Write` and `Raise` carry the
plan out, one transaction each, and the unique index may refuse one. `word` is
history: what the user asked last to remember of a claim, a repetition included, and
did not take back. A repetition leaves the row that is there as it is, so
`WordSaidAgain` counts it only where that row stands by itself.

**MemoryLearning** (`memory/service.py`, the jobs of `memory/store.py`), which
EXTENDS MemoryClaims: `Capture` makes a turn's job, `Take`, `Learn`, `Finish` and
`Fail` are a worker, `Recover` puts back jobs that have been processing for
long, the job of a slow worker among them, and `Die` ends a worker's process.

MC modules give constants their values. RunJournalProofs (with the theorems of
RunReducer and RunRebuild), ToolJournalProofs, AgentRuntimeProofs,
ChannelListenerProofs, ApprovalGateProofs (with AppServer's), ControllerProofs
(ToolGuard, TurnDesign and TurnLoop), MemoryLearningProofs and AsyncJobsProofs hold
the theorems. Definitions
called "Mutated form" are used by no specification: each states a plausible bug,
and replacing the definition after it by it makes TLC find the property
`PROJECT.json` pairs with it violated.

## 4. Runs

| Run | Asks | Shows |
|---|---|---|
| journal_one_turn | every event kind, any order, repeated keys, a rebuild at any moment | `ProjectionIsReplay`, `CompletedOnEvidence`, `OpenAttemptsAreUnfinished`, `EndedTurnIsFinal`, `LogsAreReplayable`, `LedgerSpec` |
| tool_calls | two processes, one turn, an external mutation and a read asked for again and again | `ExternalAtMostOnce`, `PendingEffectIsVisible`, `CompletedTookEffect`, `RunningCallIsShown` |
| runtime_alone | one executor with every outcome, answer, verdict, cancellation and crash | `ResultAgreesWithTurn`, `CompletedTurnIsSettled`, and that an execution ends its turn (`EngagedTurnEnds`) |
| runtime_shared | two processes execute one turn, step by step | `LiveTurnIsAttended` |
| channel_listener | redelivery, an edit, failed downloads and sends, stale claims, a crash | `OneTurnPerMessage`, `OutboxIsAccounted`, `QuietListenerSettles`, `EveryUpdateIsTaken` |
| approval_gate | two requests, calls of every kind, answers of every scope, time-outs, drops | `OneQuestionPerGate`, `RiskyCallIsAuthorised` |
| app_server | two requests of one chat, a stream, cancellations, executions that raise, late answers | `ShownQuestionWaits`, `StreamShowsItsTurn`, `EveryQuestionIsShown`, `EveryRequestIsAnswered`, and that it implements the gates (`GateSpec`) |
| turn_loop | two turns of a session in any modes, every verdict, edits of the plan, cancellation | `OnlyApprovedPlansAreBuilt`, `SuccessIsGated`, `RepairIsBounded`, `EvidenceIsFresh`, `DesktopSuccessIsProven` |
| turn_regate | the same session | a plan that is built under the approval of another (section 9, expected violation of `FreshPlanAwaitsBuild`) |
| tool_guard | any calls in batches, fetches of one page, a tool that does not exist | `EndlessCallingIsStopped`, `PageIsNotRefetched` |
| async_jobs | worker, server and two cancellers on one file, crashes and signals anywhere | `JobTypeOK`, `SuccessIsEarned`, `CancelIsForgottenByRaceOnly`, `AbandonedByRaceOnly`, `AttachFindsTheTurn` |
| memory | a session, a worker and sweeps on one claim, deaths, jobs put back | `DoneIsLearned`, `UserWordStands`, `ContradictionIsNotSettled` |

Each component has one type invariant, and all are proved: `TypeOK`, `ToolTypeOK`,
`RuntimeTypeOK`, `ChannelTypeOK`, `GateTypeOK`, `AppTypeOK`, `GuardTypeOK`,
`LoopTypeOK` (with `DesignTypeOK`), `JobTypeOK` and `MemoryTypeOK`. They hold in the
instances too and are left out of most runs, which ask what could be wrong.

Some of the properties are shaped by what the code does not promise. The
exceptions are part of the statements and each is a way to fail that section 9
describes: a lost or torn write of a job's file, a question of a chat whose slot
another request overwrote, a stream that ends with an error, a promotion that was cut
short, a repetition that renews nothing.

## 5. Bounds

* Journal: one turn with 5 events. A snapshot has ten phases and three flags,
  and every pair of kinds that matters (verdict then completion, start then
  completion, end then anything) fits in four events; the theorems cover all
  lengths and any number of turns that share the key column.
* Tools: two workers in two processes are what exclusion, overlap and "the other
  process reconciles meanwhile" need; a read is retried in every way a local
  mutation is. Effects are counted to 2, one more than may happen. The theorems
  on external mutations cover any number of turns, calls and processes.
* Runtime: one turn, two executors for overlap. An attempt per side, one external
  and one local, since they differ in reconciliation only. The theorems cover any
  number.
* Channel: four updates: a message, one of another chat (whose rows must not be
  claimed), an edit of the first, a second message of the first chat (whose reply
  meets the rows the first left). Replies have no part, two parts or two equal
  parts; the listener dies once. After a second death the queue and Telegram are
  in states that one death can produce, with more stale rows.
* Gate: two requests, so that grants of the process reach another gate, a call of
  each kind, three actions. A plan is asked for once here and twice in
  app_server; the theorems cover the code's four.
* App server: two requests of one chat, for one slot and one handle; one of them
  is streamed, one call each; two turns; answers of three scopes.
* Turn: two turns, since what a turn leaves meets the next; an ask and the prompt
  of /build; one goal and one defect (the counters tell a defect that recurs from
  one that changes by a choice); three steps, two repairs of each kind, and two
  kept results, so that results are trimmed within a turn and between turns.
* Guard: every limit is small and different from its neighbours, so that each
  detector fires before some other and after another; two reads of one page with
  equal roles (symmetry), a command, an unknown tool. Batches of two: a batch is
  what lets a call pass a screen before the result of its twin. The theorems cover
  any limits.
* Jobs: two cancellers, so that a cancellation can undo another; a crash of server
  and worker at any step.
* Memory: one claim with two values, which is what contradictions are about; three
  records; two turns, of which the first shows what a verifier found and a hint of
  what the user may ask to remember, and the second what the user said; one worker
  that dies once and whose job may be put back at any time; jobs are tried twice.
  A dispute over several recalled claims needs a second claim; the same properties
  were checked once on such an instance (a third content under a second claim, 3.9
  million states).
* Nothing is constrained: bounds are guards (`MaxEvents`, `MaxUpdates`,
  `MaxCrashes`, `MaxTurns`, `MaxRecords`, `MaxDeaths`, and `MaxEffects`, which
  saturates).

## 6. Fairness

Three runs have liveness properties.

* runtime_alone: `Proceed` (the code of `_execute` outside the controller, a tool
  call's return, reading an answer) is weakly fair because the event loop runs
  ready tasks, tools have deadlines (`harness/tool_deadlines.py`), and SQLite
  transactions end. `Finish` (controller.run returns or raises) is strongly fair:
  calls and questions disable it again and again, and the loop's step cap lets
  them recur only so often. Humans are not fair, so `EngagedTurnEnds` excepts an
  execution that waits for an answer, and nothing makes a crashed turn be resumed.
* channel_listener: `Listen`, the loop of the adapter, is weakly fair: each of its
  calls has a timeout or raises. Which way a call ends is not fair. Arrivals and
  crashes are not fair; crashes are bounded.
* app_server: the polling threads (`Follow`, `Poll`, `Drain`), and the steps by
  which a submitted turn begins, its calls proceed, it ends and its request
  returns, are weakly fair: HTTP threads sleep 0.15 s between polls and the event
  loop runs ready tasks. That the approver's patience ends (a `wait_for` of 600 s)
  is a hypothesis of the property (`PatienceEnds`). Clients are not fair: nobody
  has to answer or cancel.

## 7. Proofs

TLAPS proves these for every value of the constants that satisfies the named
assumptions, which TLC evaluates in the runs. None is about liveness.

* **RunJournalProofs**. `CompletesOnlyValidated` is about the reducer alone.
  `JournalTypeCorrect`, then `AgreeInv` (log, checkpoints and projection have one
  length, their entries are linked by `Reduce`), from which `ProjectionReplays`;
  `KeysAreSpentOnce` needs it, since the new row's sequence must be the next one.
  `NothingFollowsTheEnd` and `EndedTurnsAreFinal` rest on the reducer refusing
  whatever follows an end. `CompletionIsOnEvidence` needs more than the last event:
  `EvidenceInv` says that the flags of the projection are those of the last verdict
  in the log, and that a log that is closed as completed ended on evidence.
  `OpenAttemptsAreTheLogs` ties the running attempts of the projection to the
  starts in the log that nothing finished, by kind and attempt. `RebuildsChangeNothing`
  and `EveryLogReplays` are about replays without unfolding one: a replay is a
  sequence of snapshots linked by `Reduce`, at most one fits a log (`OneReplay`),
  and the checkpoints are one, so that a rebuild is a stutter.
  `StoreImplementsLedger` is the refinement: each store transaction is a `Start`
  or an `Append` of the ledger or a stutter (`StartIsLedgerStart`,
  `AppendIsLedgerAppend`).
* **ToolJournalProofs**: `ToolTypeCorrect` and `ExternalInvariant`, then
  `ExternalTakesEffectOnce` and `ExternalStaysVisible`. "At most one effect" is
  not inductive: a step could hit twice if two workers held the attempt, or a
  worker and a residue. `ExternalInv` says that a row is taken up by the worker
  that inserted it and no other, that until the effect exactly one of that worker
  and its residue can cause it, and which states the row has meanwhile.
  `StoredResultTookEffect` is about calls of every kind: whoever is about to store a
  result has seen the effect (`EffectInv`). `RunningCallsAreShown` is about four
  things a call leaves behind one after the other, its row, its start in the log,
  its result and its completion: `ShownInv` says for each of the worker's places
  which of them are there.
* **AgentRuntimeProofs**: `RuntimeTypeCorrect`, `KeyedTurnsEnded`,
  `LiveTurnsAreAttended`, all from `RuntimeInv`: types, a spent terminal key
  means an ended turn, what each executor knows of its turn at each pc (`ExecOK`:
  past `Decide` with nothing to end, the turn has ended), and the attendance
  itself. Each action is put in one of four classes by what it does to its
  executor (it stays on its turn, leaves it, takes one up, looks for one), and one
  lemma per class and one for the ledger's growth (`Grows`) carry the invariant.
  `ResultAgreesWithTurn` and `CompletedTurnIsSettled` are false with two executors
  on one turn, which resuming a live turn brings about: the second may complete
  what the first reports as failed. `ResultsAgreeApart` and
  `CompletedTurnsAreSettledApart` state them as long as no turn ever had two
  executors at a time (`[]TurnsAreApart`), from `ApartInv`: what the one executor
  has found on its way (`PathOK`) and what the turn shows of it (`TurnOK`).
  `LoneExecutorIsApart` is the case of the run, where the hypothesis holds by
  itself: one executor, any turns and attempts.
* **ChannelListenerProofs**: `MessagesAreAnsweredOnce`. That a message had at most
  one turn says nothing of the one about to run; `AnswerInv` adds that turns were
  run for registered messages only, and that the message at pc `turn` is
  registered and had none, which `Register` gives it. `OutboxAccounts` counts: each
  row the listener acknowledges was preceded by a message sent (`DeliveriesAreCounted`),
  and a claim that nobody holds was left by a death (`OrphansAreCounted`), since the
  listener holds the row of the part it delivers (`ClaimIsHeld`).
  `QuietListenersSettle` is about a history without faults: the updates come in
  order, each message taken or registered has its turn or is about to, and the
  parts a reply has still to send are as many as its rows not delivered
  (`QuietInv`). That `claim_outbound` takes the oldest row that is ready is a
  least-number principle, from the library's well-founded minimum. `ChannelTypes`
  adds that nothing is known before it came and that keys are spent once (`TypeInv`).
* **ApprovalGateProofs**: `GateTypes`; `QuestionsAreSerialised` and
  `RiskIsAuthorised` from `GateInv`. One question at a time is about who holds the
  gate's lock: a call that asks or was told holds it, and a lock is held by such a
  call. That a running risky call is authorised is about what its grant was: a
  standing grant is on a list or a permission only because a human said so
  (`said`), and outlives his word in no other way. `ScreensShowWhatWaits` follows
  from `ScreenInv` over AppServer: the slot of a chat names a call of that chat
  whose question is open. `ServerImplementsGates` is the refinement: every step of
  the server is a step of one gate, or leaves the gates alone; that a cancellation
  answers the question on the screen is a gate step because `ScreenInv` says that
  this question waits. `ServerTypes` and `StreamsShowTheirTurns` come from
  `ServerInv`: what a stream follows and where it is in the journal, for each of the
  turns that a chat may have shown before or since; the theorem is about streams that
  end with a result.
* **ControllerProofs**, first ToolGuard: `GuardTypes`; `CallingIsStopped` and
  `PagesAreNotRefetched`.
  How long a turn goes on is bounded by how many results differed from the ones
  before (`CallingInv`: while nothing was halted the streak is below its limit and
  no more results were observed than the differing ones times the limit, plus the
  streak; after a halt only the rest of a batch is). `PageInv` counts the fetches of
  a page against its counter and the queue.
  Then TurnDesign and TurnLoop: `LoopTypes`; `OnlyApprovedPlansAct` from `PlanInv` (a
  plan that is approved or built was granted, and a plan that is asked for is the
  one shown); `RepairsAreBounded` from `StepInv` (a step that is weighed comes after
  fewer repairs than steps and finds both counters below their caps); `GatesSeeFreshEvidence` from
  `EvidenceInv` (results of earlier turns lie before the index where the turn's own
  begin, also after a trim); `SuccessesAreGated` and `DesktopSuccessesAreProven` from
  `SuccessInv` and `GoalInv` (goals passed before belong to the ask; a running step
  whose goals are all validated was kept by the gate or claims to be done). One lemma
  covers the local steps, one the calls and one the gate.
* **MemoryLearningProofs**: `MemoryTypes`, `FinishedJobsAreLearned` and
  `UsersWordStands` from `LearnInv` (`MemoryIsKept`). Between a decision and its
  last write the table may have become another one, so the invariant is about
  plans: each planned write still finds its rows (`Sound`: a record's id is its
  own and unused, a row to change is there), and would leave the user's word alone,
  unless its claim was written meanwhile, which makes the word a history of nothing
  (`LeavesWord`). A repetition may make a word of a row after a plan was decided, so
  `LeavesWord` is about every value of the user's that is the newest of its claim,
  whether it is the word yet or not. The word is such a value (`WordIsNewest`): that is
  why a collapse keeps it and a verifier's finding, which may only touch rows that are
  not the user's, cannot move it. For the jobs, what a
  worker's turn has shown is known, planned or left to do, unless its last write was
  refused (`Whole`); it finishes when nothing is planned and nothing left. One lemma
  per operation shows that its plan is sound; `Wrote` carries all plans over a write.
  `ContradictionsAreNotSettled` is about the same plans: neither a row nor a planned
  record of a turn confirms what met a contradiction in it (`RowsAreFair`,
  `PlansAreFair`), and a contradiction is met in a turn that one worker has or had, who
  does not come back to it (`DisputesAreClosed`), since evidence shows each content
  once (`LeftOnce`).
* **AsyncJobsProofs**: `JobTypes`, `SuccessesAreEarned`, `CancelsAreKept`,
  `TurnsAreFound` and `JobsAreLeftByRaceOnly`. The record in the file and the copies
  the processes hold may all differ, so each invariant is about all of them. A success
  in any of them is the turn's, and whoever has decided the end holds a record that
  says so (`EarnInv`). Unless a write undid another, a cancellation is in the file and
  in every copy that is up to date (`Kept`), and so are the turn and the worker's
  process while the worker awaits its turn (`TurnIsBound`). Before the worker looks at
  the job only a cancellation changes its status (`Unlooked`), and if nothing was lost,
  torn or killed, a job that its server and its worker have left has ended and the
  server will not write otherwise (`Left`).

The assumptions on constants are named in the modules that declare them: limits
are natural numbers, a reply is a sequence of its own parts and never the apology,
a turn shows each content once, "nothing" is none of the turns. They say what the
code's values are and exclude no behaviour of it.

Only model-checked: `EngagedTurnEnds`, `EveryUpdateIsTaken`, `EveryQuestionIsShown`
and `EveryRequestIsAnswered`, which are liveness under fairness, and the
counterexample to `FreshPlanAwaitsBuild`. Where a theorem about data would need an
induction (a replay, the oldest row of a queue), the proof goes through an invariant
that links each entry to the next, or through a minimum, as said above.

## 8. What is not modelled

`PROJECT.json` lists every component with its status. Not modelled, with the
reason:

* *Models, prompts, texts.* What a model answers, what a message says and what a
  verifier finds are choices; planner, clarifier, monitor and the extraction of
  claims by a model are functions of texts.
* *Tool bodies, browser, sandboxes, MCP clients, the circuit breaker.* Drivers of
  external processes; the tool journal sees them as effects.
* *Validators, providers, policies.* Functions of files and the environment;
  their verdict is a choice of AgentRuntime and TurnLoop. Scheduler and
  RecoveryPolicy are pure functions of their arguments.
* *Supervisor and daemon.* Process ids and a state file shared by commands;
  ChannelListener takes the single listener from its lock.
* *The "dream" of consolidation* (`memory/dream.py`), off by default: confirmed rows
  that a model calls near duplicates of others are superseded. *The quarantine of texts
  that look like prompt injections* (`memory/mutations.py:74`): such a memory is written
  as quarantined, and replaces the value of its claim as an assistant's guess does.
* *User interfaces*: presentation of what the journal holds. *Knowledge, research,
  context, skills*: stores ranked by scores.

Of the modelled components: schema migration, the approvals table (an audit
record), reap_expired_tool_attempt (no caller), inject (a message appended to a
list the controller polls), TurnRequest.idempotency_key (no caller sets it),
updates of users who are not allowed, the binding of a chat to a session, two
processes that write the allow list at once, the askers of the terminal and of a
channel, deletion of a chat, research and compaction in the controller, the
indexes and scopes of the memory and its import of rules.

## 9. Divergences

Shown by a run, *turn_regate*: "Fresh Plan design must re-gate Build — never
reuse a prior plan_approved.flag from an earlier turn in this session"
(`loop/controller.py:721`). The flag is cleared only for a turn that was handed in
as fresh, the runtime hands in later full turns as not fresh
(`runtime/engine.py:399`), and the controller decides that a different ask is a
fresh one after that (`controller.py:1275`): the new plan is built at once.

Found while modelling; the models have the behaviour, the properties name it as
an exception or are about what holds in spite of it.

*Journal and runtime*

* append_event returns the stored event for a spent key before it asks the
  reducer, so the retry of an attempt passes `before` and runs its tool in a turn
  that has ended (`runtime/journal.py:328`).
* reconcile_inflight marks every row in progress of the session, not only
  interrupted ones: resuming a live turn starts a second execution, which marks
  the first one's running call and blocks the turn (`engine.py:155`).
* `before` inserts the row, then appends TOOL_STARTED; when the turn ended
  meanwhile the event is refused and the row stays in progress. The next turn of
  the session is blocked for a call that never began (`journal.py:329`).
* An external mutation of uncertain outcome is to block its turn
  (`tests/test_runtime_platform.py`); the row is marked and the turn blocked in two
  transactions, and after a crash between them the next resume finds nothing in
  progress and may complete the turn. It blocks only the first execution after it
  anyway (`engine.py:230`).
* The retry of a failed local mutation runs under a row that still reads failed,
  so a crash then leaves nothing for reconcile_inflight to mark (`store.py:971`),
  and two such retries may overlap (`journal.py:319`).
* A row completed between reconciliation's SELECT and UPDATE becomes uncertain
  (`store.py:988`).
* The comment of `harness/tool_deadlines.py:16` relies on a watchdog that has no
  caller.
* A handle cancelled before its task's first step leaves its turn live and itself
  registered (`engine.py:75`); close() succeeds while a second execution of a turn
  runs (`engine.py:609`); a resumed execution without a report verifies under a spent
  key, so its verdict is not recorded (`engine.py:424`, `539`).
* The session row shows the turn that last wrote an event, not the newest.

*Channel*

* A row is acknowledged when some message of its chat was sent, which need not be
  its own: after a failed send or a crash the next reply claims the old row, sends
  its own part and acknowledges the old one.
* Inbound keys are not scoped to a chat (`store.py:1137`), and Telegram's ids are
  unique per chat only; a message registered before the listener dies is never
  answered; a crashed turn that is not its session's newest cannot be resumed
  (`store.py:757`).

*Gate and app server*

* Two requests of one chat overwrite and clear the one slot for a pending question
  (`ShownQuestionWaits` holds all the same: what is shown waits), and the handle
  of a chat is replaced and popped by whichever of them submits or returns.
* A grant "for the rest of this chat" (`approvals.py:52`) is of the process.
* The question of a tool's body ends with the tool's deadline of 120 s while its
  approver waits 600 s. A routed call later in a batch asks again after a
  cancellation answered the first.
* Cancelling a turn that waits for an answer ends it denied, not cancelled
  (`app_server.py:552`); an approve after the question was decided answers ok.
* Approvals by a standing permission leave no resolution in the journal; saving the
  allow list overwrites what other gates added.
* The model is told "Adjust and retry" after a suggestion (`approvals.py:285`),
  which blocks the turn (`engine.py:333`): the next question raises.
* A stream does not follow a resumed turn that is the one its chat showed before.
* An execution that raises is answered with an error, and `stream_chat` ends on that
  without the last look at the journal that follows a result
  (`engine.py:592`, `webui/server.py:2901`): the terminal event of the turn may go
  unseen.

*Controller and guard*

* "/build" may design again, where `docs/USAGE.md:40` has it execute the plan
  (`cli.py:1248`, `chat/repl.py:407`).
* An error of the model ends as a success when an earlier answer of the turn is at
  hand: the ERROR path (`controller.py:2232`) asks for a final that is preset.
* Tool results are trimmed to sixty while the index where the turn's own begin
  stays; failures of earlier turns stay as well; a cancellation loses to a question
  or a halt of the same step; a message injected after the last step's top is lost.
* A failed follow-up on the desktop passes where comments say it is proven
  (`controller.py:2805`, `2835`).
* The ping-pong detector is described "with stable results"
  (`tool_guardrails.py:955`) and compares calls only; the check of a page before a
  call never fires, for the result of the call counts first.

*Jobs*

* A load before a cancellation and a save after it run the job to success; a save
  of the worker after a cancellation and the SIGTERM after that leave a job running
  for ever, as a crash does; the durable turn of a killed worker stays live.
* A load between the open and the write of a save finds no job: the worker gives
  up, or a cancellation is refused.

*Memory*

* "Equal-authority contradictions are quarantined rather than silently choosing one
  side" (`memory/capture.py:490`): when a promotion was cut short after the old side
  was quarantined, or its job is done twice, the next one finds no contradiction
  and confirms one side.
* An assistant's `memory_remember` makes a candidate ("Assistant guesses stay
  candidates", `memory_tools.py:97`) and yet replaces the value a user confirmed,
  by a rule about "an explicit user-authored memory" (`mutations.py:128`).
* Repeating a value whose row exists, or correcting a row to the same words, returns
  the old row with its old date and role (`mutations.py:90`, `131`,
  `store.py:370`). A collapse orders by that date (`consolidate.py:133`): when a newer
  value was confirmed in between, it keeps that one and supersedes what the user said
  last. A verifier's row that the user repeats stays a verifier's.
* Forgetting or replacing a claim raises IntegrityError when a row of the same
  content is in the target state already: forgetting a thing twice in its life, or
  going back and forth between two values.
* The near-duplicate collapse ignores authority; a correction of a candidate can confirm
  a second value of a claim; a job that is late confirms again what the user has
  forgotten meanwhile; a late fail_job puts a job back that is done; a job whose
  worker dies every time is tried for ever, since attempts are looked at by fail_job
  only.

Read in the code of parts not modelled: a service that is slow to stop keeps its
pid, so that restart says it is running already, and two starts at once orphan one
process (`runtime/supervisor.py`); a time-out between the header and the body of an
MCP message shifts every later one (`mcp/`).

## 10. Plan

1. **Supervisor**: the state file against processes; **MCP**: a session of
   requests and late answers over a pipe.
2. **ChannelQueue**: an abstract at-least-once outbox with WhatsApp as its second
   user.
3. The controller discharges the assumption on `Finish` of AgentRuntime: a loop of
   at most so many steps as the abstract specification of TurnLoop.
4. A second claim and a second worker in the memory run; liveness of its jobs under
   fair workers and an opened memory.
5. Proofs: that ToolJournal implements the coarse calls of AgentRuntime, and the
   controller's loop the assumption on `Finish` of item 3; that every listener which
   keeps its claims implements the outbox of item 2.
