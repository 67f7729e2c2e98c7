---------------------------- MODULE AgentRuntime ----------------------------
(***************************************************************************)
(* AgentRuntime of runtime/engine.py: who executes a turn, and how a turn  *)
(* ends.  An executor is one call of _execute: it reconciles the session's *)
(* tool attempts, runs the loop controller (whose tool calls, approvals    *)
(* and mirrored events reach the journal), verifies the result and appends *)
(* the turn's terminal event.                                              *)
(*                                                                         *)
(* Executors of one process share an event loop, so their code between two *)
(* awaits is not interleaved; processes share only the database.  A tool   *)
(* call is coarse here (its row and its event are written together): the   *)
(* steps inside one are ToolJournal's.  Reads are left out, and so is      *)
(* TurnRequest.idempotency_key, which no caller of the repository sets.    *)
(***************************************************************************)
EXTENDS RunLedger

CONSTANTS
    Session, SessionOf,            \* the session each turn belongs to
    Executor, NoExecutor,          \* calls of _execute
    Host, HostOf,                  \* the processes they run in
    Side,                          \* the mutations a controller calls
    Mirrored,                      \* the events it mirrors to the journal
    Outcome,                       \* the results it has
    Answer                         \* the answers humans give

AnySide    == {"mutation", "external_mutation"}
AnyOutcome == {"success", "unvalidated", "cancelled", "error"}
AnyAnswer  == {"approved", "widened", "denied", "suggested"}

\* One attempt per turn and side.
TurnOf(a)   == a[1]
External(a) == a[2] = "external_mutation"

StartName(a)     == <<"tool-start", TurnOf(a), a[2]>>
CompleteName(a)  == <<"tool-complete", TurnOf(a), a[2]>>

MirrorName(ev)   == <<"mirror", ev.kind, ev.flag>>
AcceptedName     == <<"turn">>
TerminalName     == <<"terminal">>
BlockName        == <<"reconciliation">>
LocalName        == <<"local-reconciliation">>
CheckName        == <<"deterministic:start">>
VerdictName      == <<"deterministic:result">>

ASSUME RuntimeAssumption ==
    /\ SessionOf \in [Turn -> Session]
    /\ HostOf \in [Executor -> Host]
    /\ NoExecutor \notin Executor
    /\ NoTurn \notin Turn
    /\ Side \subseteq AnySide /\ Outcome \subseteq AnyOutcome /\ Answer \subseteq AnyAnswer
    /\ Attempt = Turn \X Side
    /\ Mirrored \subseteq [kind : Kind \ (TerminalPhase \cup {"accepted", "approval_resolved"}),
                           attempt : {NoAttempt}, flag : Flag]
    /\ Name = ({"tool-start", "tool-complete"} \X Turn \X Side)
                \cup {MirrorName(ev) : ev \in Mirrored}
                \cup {AcceptedName, TerminalName, BlockName, LocalName, CheckName, VerdictName}

VARIABLES
    rows,         \* tool_attempts.state of each mutation
    latest,       \* the newest turn of each session (turns.created_at)
    exec,         \* the executors
    handles,      \* AgentRuntime._handles of each process
    closed,       \* AgentRuntime._closed of each process
    crashed,      \* history: turns whose executor died with its process
    dropped       \* history: turns whose task was cancelled before its first step

runtimeVars == <<rows, latest, exec, handles, closed, crashed, dropped>>
vars == <<snapshot, keys, rows, latest, exec, handles, closed, crashed, dropped>>

Row == {"absent", "in_progress", "settled", "uncertain"}

\* "looked" .. "closing" without the four that await something: plain code,
\* during which nothing else of the process runs.
Awaiting == {"idle", "created", "running", "calling", "asking"}
Pc == Awaiting \cup {"looked", "reconciled", "returned", "checking", "checked",
                     "deciding", "raising", "closing"}

Idle == [pc |-> "idle", turn |-> NoTurn, found |-> {}, call |-> NoAttempt,
         reply |-> "none", cancelled |-> FALSE, outcome |-> "none"]

\* A created task: its handle is registered, its coroutine has not begun.
Created(t) == [Idle EXCEPT !.pc = "created", !.turn = t]

ExecState ==
    [pc : Pc, turn : Turn \cup {NoTurn},
     found : SUBSET Attempt,                \* what reconcile_inflight marked uncertain
     call : Attempt \cup {NoAttempt},       \* the tool call in progress
     reply : AnyAnswer \cup {"none"},          \* the human's answer, not yet read
     cancelled : BOOLEAN,                   \* the controller's cancel_event
     outcome : AnyOutcome \cup {"none"}]       \* of the result or of the exception

RuntimeTypeOK ==
    /\ LedgerTypeOK
    /\ rows \in [Attempt -> Row]
    /\ latest \in [Session -> Turn \cup {NoTurn}]
    /\ exec \in [Executor -> ExecState]
    /\ handles \in [Host -> [Turn -> Executor \cup {NoExecutor}]]
    /\ closed \in [Host -> BOOLEAN]
    /\ crashed \subseteq Turn /\ dropped \subseteq Turn

Init ==
    /\ LedgerInit
    /\ rows = [a \in Attempt |-> "absent"]
    /\ latest = [s \in Session |-> NoTurn]
    /\ exec = [x \in Executor |-> Idle]
    /\ handles = [h \in Host |-> [t \in Turn |-> NoExecutor]]
    /\ closed = [h \in Host |-> FALSE]
    /\ crashed = {} /\ dropped = {}

\* The event loop of x's process is free to run x's next step.
LoopFree(x) ==
    \A y \in Executor \ {x} : HostOf[y] = HostOf[x] => exec[y].pc \in Awaiting

At(x, pc) == exec[x].pc = pc /\ LoopFree(x) /\ ~closed[HostOf[x]]

Put(x, state) == exec' = [exec EXCEPT ![x] = state]

\* x goes on at pc, out of the controller, with an outcome.
Reach(x, pc, outcome) ==
    Put(x, [pc |-> pc, turn |-> exec[x].turn, found |-> {}, call |-> NoAttempt,
            reply |-> "none", cancelled |-> exec[x].cancelled, outcome |-> outcome])

\* append_event from _execute: the transition, or InvalidTransition.
Writes(x, ev, name) == Append(exec[x].turn, ev, <<exec[x].turn, name>>)
Raises(x, ev, name) ==
    Refused(exec[x].turn, ev, <<exec[x].turn, name>>) /\ UNCHANGED ledgerVars

\* The same with a key of a fresh uuid, which is never spent.
WritesFresh(x, ev) == Append(exec[x].turn, ev, NoKey)
RaisesFresh(x, ev) == Refused(exec[x].turn, ev, NoKey) /\ UNCHANGED ledgerVars

-----------------------------------------------------------------------------
\* Starting an execution

Fresh(t) == ~Started(t) /\ \A y \in Executor : exec[y].turn # t

\* submit: a turn, a handle and a task.
Submit(x, t) ==
    /\ At(x, "idle") /\ Fresh(t)
    /\ Start(t, <<t, AcceptedName>>)
    /\ latest' = [latest EXCEPT ![SessionOf[t]] = t]
    /\ handles' = [handles EXCEPT ![HostOf[x]][t] = x]
    /\ Put(x, Created(t))
    /\ UNCHANGED <<rows, closed, crashed, dropped>>

\* resume, when latest_incomplete finds a turn: a second handle of that turn
\* takes the place of the first one, whether or not the turn is being executed.
ResumeLive(x, s) ==
    LET t == latest[s] IN
    /\ At(x, "idle")
    /\ t # NoTurn /\ Live(t)
    /\ handles' = [handles EXCEPT ![HostOf[x]][t] = x]
    /\ Put(x, Created(t))
    /\ UNCHANGED <<snapshot, keys, rows, latest, closed, crashed, dropped>>

\* resume, when it finds none: a new turn t is started in a second transaction.
ResumeLook(x, t) ==
    LET last == latest[SessionOf[t]] IN
    /\ At(x, "idle") /\ Fresh(t)
    /\ last # NoTurn => ~Live(last)
    /\ Put(x, [Created(t) EXCEPT !.pc = "looked"])
    /\ UNCHANGED <<snapshot, keys, rows, latest, handles, closed, crashed, dropped>>

ResumeStart(x) ==
    LET t == exec[x].turn IN
    /\ At(x, "looked")
    /\ Start(t, <<t, AcceptedName>>)
    /\ latest' = [latest EXCEPT ![SessionOf[t]] = t]
    /\ handles' = [handles EXCEPT ![HostOf[x]][t] = x]
    /\ Put(x, Created(t))
    /\ UNCHANGED <<rows, closed, crashed, dropped>>

-----------------------------------------------------------------------------
\* _execute, up to the controller

\* Mutated form: the wrong state is selected.
InterruptedUncertain(t) ==
    {a \in Attempt : rows[a] = "uncertain" /\ SessionOf[TurnOf(a)] = SessionOf[t]}

\* The rows reconcile_inflight selects: all that the session has in progress.
Interrupted(t) ==
    {a \in Attempt : rows[a] = "in_progress" /\ SessionOf[TurnOf(a)] = SessionOf[t]}

Reconcile(x) ==
    LET found == Interrupted(exec[x].turn) IN
    /\ At(x, "created")
    /\ rows' = [a \in Attempt |-> IF a \in found THEN "uncertain" ELSE rows[a]]
    /\ Put(x, [Created(exec[x].turn) EXCEPT !.pc = "reconciled", !.found = found])
    /\ UNCHANGED <<snapshot, keys, latest, handles, closed, crashed, dropped>>

FoundExternal(x) == {a \in exec[x].found : External(a)}

\* Interrupted local mutations leave a checkpoint. This code is before the try:
\* an InvalidTransition ends the task and leaves its handle registered.
NoteLocal(x) ==
    /\ At(x, "reconciled") /\ exec[x].found # FoundExternal(x)
    /\ \/ /\ Writes(x, Ev("checkpoint"), LocalName)
          /\ Put(x, [exec[x] EXCEPT !.found = FoundExternal(x)])
       \/ /\ Raises(x, Ev("checkpoint"), LocalName)
          /\ Put(x, Idle)
    /\ UNCHANGED <<rows, latest, handles, closed, crashed, dropped>>

BlockEvent == FlagEv("blocked", "yes")

\* Interrupted external mutations block the turn and end the execution.
Block(x) ==
    LET h == HostOf[x]  t == exec[x].turn IN
    /\ At(x, "reconciled") /\ exec[x].found = FoundExternal(x) /\ exec[x].found # {}
    /\ \/ /\ Writes(x, BlockEvent, BlockName)
          /\ handles' = [handles EXCEPT ![h][t] = NoExecutor]
       \/ /\ Raises(x, BlockEvent, BlockName)
          /\ UNCHANGED handles
    /\ Put(x, Idle)
    /\ UNCHANGED <<rows, latest, closed, crashed, dropped>>

\* controller.run begins.
Enter(x) ==
    /\ At(x, "reconciled") /\ exec[x].found = {}
    /\ Put(x, [exec[x] EXCEPT !.pc = "running"])
    /\ UNCHANGED <<snapshot, keys, rows, latest, handles, closed, crashed, dropped>>

-----------------------------------------------------------------------------
\* The controller at work

\* _mirror_controller_event: nothing once the turn ended, and an event equal to
\* one mirrored before is lost to its key.
Mirror(x, ev) ==
    /\ At(x, "running")
    /\ Live(exec[x].turn)
    /\ Writes(x, ev, MirrorName(ev))
    /\ UNCHANGED runtimeVars

\* A mutation begins: its row, and TOOL_STARTED. Refused, the call is answered
\* with an error and its row stays in progress.
StartCall(x, a) ==
    /\ At(x, "running") /\ TurnOf(a) = exec[x].turn
    /\ rows[a] = "absent"
    /\ rows' = [rows EXCEPT ![a] = "in_progress"]
    /\ \/ /\ Writes(x, ToolEv("tool_started", a), StartName(a))
          /\ Put(x, [exec[x] EXCEPT !.pc = "calling", !.call = a])
       \/ /\ Raises(x, ToolEv("tool_started", a), StartName(a))
          /\ UNCHANGED exec
    /\ UNCHANGED <<latest, handles, closed, crashed, dropped>>

EndCall(x) ==
    LET a == exec[x].call IN
    /\ At(x, "calling")
    /\ rows' = [rows EXCEPT ![a] = "settled"]
    /\ \/ Writes(x, ToolEv("tool_completed", a), CompleteName(a))
       \/ Raises(x, ToolEv("tool_completed", a), CompleteName(a))
    /\ Put(x, [exec[x] EXCEPT !.pc = "running", !.call = NoAttempt])
    /\ UNCHANGED <<latest, handles, closed, crashed, dropped>>

\* approval_audit "pending", and the approver waits for the human.
Ask(x) ==
    /\ At(x, "running")
    /\ \/ WritesFresh(x, Ev("approval_required")) /\ Put(x, [exec[x] EXCEPT !.pc = "asking"])
       \/ RaisesFresh(x, Ev("approval_required")) /\ Reach(x, "raising", "error")
    /\ UNCHANGED <<rows, latest, handles, closed, crashed, dropped>>

\* thread/approve: the first answer counts.
Reply(x, answer) ==
    /\ At(x, "asking") /\ exec[x].reply = "none"
    /\ Put(x, [exec[x] EXCEPT !.reply = answer])
    /\ UNCHANGED <<snapshot, keys, rows, latest, handles, closed, crashed, dropped>>

\* The answers approval_audit reports; approved_session and approved_full
\* ("widened") are recorded in the approvals table only.
Reported == {"approved", "denied", "suggested"}

Resolved(answer) == FlagEv("approval_resolved", IF answer = "approved" THEN "yes" ELSE "no")

\* The controller reads the answer and goes on.
Hear(x) ==
    LET reply == exec[x].reply
        heard == [exec[x] EXCEPT !.pc = "running", !.reply = "none"]
    IN
    /\ At(x, "asking") /\ reply # "none"
    /\ \/ reply \notin Reported /\ Put(x, heard) /\ UNCHANGED ledgerVars
       \/ reply \in Reported /\ WritesFresh(x, Resolved(reply)) /\ Put(x, heard)
       \/ reply \in Reported /\ RaisesFresh(x, Resolved(reply)) /\ Reach(x, "raising", "error")
    /\ UNCHANGED <<rows, latest, handles, closed, crashed, dropped>>

\* controller.run returns, or raises.
Return(x) ==
    /\ At(x, "running")
    /\ \E outcome \in Outcome :
          /\ outcome = "cancelled" => exec[x].cancelled
          /\ Reach(x, "returned", outcome)
    /\ UNCHANGED <<snapshot, keys, rows, latest, handles, closed, crashed, dropped>>

ControllerRaises(x) ==
    /\ At(x, "running")
    /\ Reach(x, "raising", "error")
    /\ UNCHANGED <<snapshot, keys, rows, latest, handles, closed, crashed, dropped>>

-----------------------------------------------------------------------------
\* _execute, after the controller

\* VERIFICATION_STARTED; an InvalidTransition here and below is caught.
Check(x) ==
    LET ev == Ev("verification_started") IN
    /\ At(x, "returned")
    /\ \/ Writes(x, ev, CheckName) /\ Reach(x, "checking", exec[x].outcome)
       \/ Raises(x, ev, CheckName) /\ Reach(x, "raising", "error")
    /\ UNCHANGED <<rows, latest, handles, closed, crashed, dropped>>

\* VERIFICATION, of a result with a report (whose id is fresh) or without one.
Verdict(x) ==
    LET ev == FlagEv("verification", IF exec[x].outcome = "success" THEN "yes" ELSE "no") IN
    /\ At(x, "checking")
    /\ \/ /\ Writes(x, ev, VerdictName) \/ WritesFresh(x, ev)
          /\ Reach(x, "checked", exec[x].outcome)
       \/ /\ Raises(x, ev, VerdictName) \/ RaisesFresh(x, ev)
          /\ Reach(x, "raising", "error")
    /\ UNCHANGED <<rows, latest, handles, closed, crashed, dropped>>

\* Mutated form: a cancelled turn is taken for one that ended.
StillOpenUnlessCancelled(x) == Live(exec[x].turn) /\ ~exec[x].cancelled

\* get_snapshot: has the turn ended already?
StillOpen(x) == Live(exec[x].turn)

\* Before the terminal event: "checked" on the way of a result, "raising" on the
\* way of an exception.
Decide(x) ==
    /\ At(x, "checked") \/ At(x, "raising")
    /\ Reach(x, IF StillOpen(x) THEN "deciding" ELSE "closing", exec[x].outcome)
    /\ UNCHANGED <<snapshot, keys, rows, latest, handles, closed, crashed, dropped>>

\* Mutated form: the verified and the unverified result are swapped.
EndEventSwapped(outcome) ==
    CASE outcome = "success"     -> FlagEv("failed", "yes")
      [] outcome = "unvalidated" -> FlagEv("completed", "yes")
      [] outcome = "cancelled"   -> Ev("cancelled")
      [] OTHER                   -> Ev("failed")

\* The terminal event. A result with status "success" that did not validate
\* fails the turn, and its payload says "success" (flag "yes").
EndEvent(outcome) ==
    CASE outcome = "success"     -> FlagEv("completed", "yes")
      [] outcome = "unvalidated" -> FlagEv("failed", "yes")
      [] outcome = "cancelled"   -> Ev("cancelled")
      [] OTHER                   -> Ev("failed")

End(x) ==
    /\ At(x, "deciding")
    /\ \/ Writes(x, EndEvent(exec[x].outcome), TerminalName)
          /\ Reach(x, "closing", exec[x].outcome)
       \/ Raises(x, EndEvent(exec[x].outcome), TerminalName)
          /\ Reach(x, "raising", "error")
    /\ UNCHANGED <<rows, latest, handles, closed, crashed, dropped>>

\* finally: whatever handle the turn has by now is removed.
Leave(x) ==
    LET h == HostOf[x]  t == exec[x].turn IN
    /\ At(x, "closing")
    /\ handles' = [handles EXCEPT ![h][t] = NoExecutor]
    /\ Put(x, Idle)
    /\ UNCHANGED <<snapshot, keys, rows, latest, closed, crashed, dropped>>

-----------------------------------------------------------------------------
\* Cancelling, closing, crashing

\* RunHandle.cancel with a controller; thread/cancel and the terminal's Ctrl+C
\* also answer a waiting approval with a denial.
Cancel(x) ==
    /\ exec[x].pc \in {"running", "calling", "asking"} /\ At(x, exec[x].pc)
    /\ Put(x, [exec[x] EXCEPT !.cancelled = TRUE,
                              !.reply = IF exec[x].pc = "asking" /\ @ = "none"
                                        THEN "denied" ELSE @])
    /\ UNCHANGED <<snapshot, keys, rows, latest, handles, closed, crashed, dropped>>

\* RunHandle.cancel without one cancels the task, and a task cancelled before its
\* first step never runs any of _execute.
CancelUnbegun(x) ==
    /\ At(x, "created")
    /\ Put(x, Idle)
    /\ dropped' = dropped \cup {exec[x].turn}
    /\ UNCHANGED <<snapshot, keys, rows, latest, handles, closed, crashed>>

\* A second Ctrl+C cancels the task inside the controller: CancelledError.
ForceCancel(x) ==
    /\ exec[x].pc \in {"running", "calling", "asking"} /\ At(x, exec[x].pc)
    /\ Reach(x, "raising", "cancelled")
    /\ UNCHANGED <<snapshot, keys, rows, latest, handles, closed, crashed, dropped>>

Quiet(h) == \A t \in Turn : handles[h][t] = NoExecutor

\* close() refuses while a handle is registered.
Close(h) ==
    /\ ~closed[h] /\ Quiet(h)
    /\ \A x \in Executor : HostOf[x] = h => exec[x].pc \in Awaiting
    /\ closed' = [closed EXCEPT ![h] = TRUE]
    /\ UNCHANGED <<snapshot, keys, rows, latest, exec, handles, crashed, dropped>>

\* The process dies or exits between any two steps, and another takes its place.
Crash(h) ==
    LET dead == {x \in Executor : HostOf[x] = h /\ exec[x].pc # "idle"} IN
    /\ dead # {} \/ closed[h] \/ ~Quiet(h)
    /\ exec' = [x \in Executor |-> IF x \in dead THEN Idle ELSE exec[x]]
    /\ handles' = [handles EXCEPT ![h] = [t \in Turn |-> NoExecutor]]
    /\ closed' = [closed EXCEPT ![h] = FALSE]
    /\ crashed' = crashed \cup {t \in Turn : Started(t) /\ \E x \in dead : exec[x].turn = t}
    /\ UNCHANGED <<snapshot, keys, rows, latest, dropped>>

-----------------------------------------------------------------------------
Begin(x) ==
    \/ \E t \in Turn : Submit(x, t) \/ ResumeLook(x, t)
    \/ \E s \in Session : ResumeLive(x, s)

\* What the process does by itself, and what the controller chooses to do.
Proceed(x) ==
    \/ ResumeStart(x) \/ Reconcile(x) \/ NoteLocal(x) \/ Block(x) \/ Enter(x)
    \/ EndCall(x) \/ Hear(x)
    \/ Check(x) \/ Verdict(x) \/ Decide(x) \/ End(x) \/ Leave(x)

Finish(x) == Return(x) \/ ControllerRaises(x)

Work(x) ==
    \/ \E ev \in Mirrored : Mirror(x, ev)
    \/ \E a \in Attempt : StartCall(x, a)
    \/ Ask(x)

Interfere(x) ==
    \/ \E answer \in Answer : Reply(x, answer)
    \/ Cancel(x) \/ CancelUnbegun(x) \/ ForceCancel(x)

Next ==
    \/ \E x \in Executor : Begin(x) \/ Proceed(x) \/ Finish(x) \/ Work(x) \/ Interfere(x)
    \/ \E h \in Host : Close(h) \/ Crash(h)

Spec == Init /\ [][Next]_vars

\* The event loop runs every ready task, tool calls have deadlines, and
\* controller.run is bounded by its step cap: it returns, however often it calls
\* tools before. Nothing makes a human answer or a turn be resumed.
Fairness == \A x \in Executor : WF_vars(Proceed(x)) /\ SF_vars(Finish(x))

FairSpec == Spec /\ Fairness

-----------------------------------------------------------------------------
\* Properties

Attended(t) == \E x \in Executor : exec[x].turn = t /\ exec[x].pc \notin {"idle", "looked"}

\* A turn that has not ended is being executed, unless its process died or its
\* task was cancelled before its first step: however executions of the session
\* overlap, reconcile, are denied, cancelled or refused by the journal, the last
\* one to leave a turn leaves it ended (_execute's try, except and finally).
LiveTurnIsAttended ==
    \A t \in Turn : Live(t) => Attended(t) \/ t \in crashed \cup dropped

\* A keyed end is an end: a turn whose terminal or reconciliation key is spent
\* has ended, so a later execution that repeats the key cannot believe it ended
\* a turn that is still live; and nobody leaves _execute from a live turn.
EndsAreKeyed ==
    /\ \A t \in Turn : ({<<t, TerminalName>>, <<t, BlockName>>} \cap keys # {})
                          => Started(t) /\ Terminal(snapshot[t])
    /\ \A x \in Executor : exec[x].pc = "closing" => ~Live(exec[x].turn)

\* What an execution says of its turn is what the journal says of it: a verified
\* result belongs to a completed turn and any other end to a turn that is not
\* completed, as long as no earlier execution of the turn was lost (RunResult
\* against RunSnapshot).
ResultAgreesWithTurn ==
    \A x \in Executor : (exec[x].pc = "closing" /\ exec[x].turn \notin crashed) =>
        (exec[x].outcome = "success" <=> snapshot[exec[x].turn].phase = "completed")

\* A completed turn left no mutation in progress: each one it began was finished
\* or was marked uncertain by a later execution (reconcile_inflight), however
\* often the turn crashed, was resumed and was refused on its way.
CompletedTurnIsSettled ==
    \A a \in Attempt : rows[a] = "in_progress"
        => ~Started(TurnOf(a)) \/ snapshot[TurnOf(a)].phase # "completed"

\* An execution that entered the controller ends its turn, or its process dies,
\* or it waits for a human.
EngagedTurnEnds ==
    \A x \in Executor, t \in Turn :
        (exec[x].pc = "running" /\ exec[x].turn = t)
            ~> (~Live(t) \/ t \in crashed \/ exec[x].pc = "asking")
=============================================================================
