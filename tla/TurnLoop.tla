------------------------------ MODULE TurnLoop ------------------------------
(***************************************************************************)
(* The loop of LoopController.run (loop/controller.py) over the turns of a *)
(* session: what the model answers and which tools it calls, the gate that *)
(* verifies it, adaptive.decide_control, StopRules.evaluate, and what      *)
(* task_state.json keeps from one turn to the next.                        *)
(*                                                                         *)
(* The model, the verifier and the monitor may answer anything their code  *)
(* accepts.  A batch of calls is one call here.  Each gate and the stop    *)
(* rules after it are one step: what they await reads nothing of the loop. *)
(***************************************************************************)
EXTENDS TurnDesign, Sequences, Functions

CONSTANTS
    Defect,         \* what a verifier can find wrong
    NoDefect,
    MaxSteps,       \* steps of one turn
    MonitorEvery,   \* a full turn is verified every so many steps
    NoProgressLimit,
    MaxSameRepair,
    MaxTotalRepair,
    KeptResults     \* tool results that a session keeps (the code's 60)

ASSUME LoopAssumption ==
    /\ NoDefect \notin Defect
    /\ {MaxSteps, MonitorEvery, NoProgressLimit, MaxSameRepair, MaxTotalRepair,
        KeptResults} \subseteq Nat \ {0}

VARIABLES
    loop,           \* the local variables of the turn's loop
    memory,         \* task_state.json: tool results, where the turn's begin, failures
    cancelled       \* the turn's cancel event

loopVars == <<loop, memory, cancelled>>
vars == <<designVars, loopVars>>

\* What a call brought: an error, some result, or a verified act on the desktop.
Kind == {"failed", "plain", "proof"}

\* A result of an earlier turn, whatever it was.
Result == Kind \cup {"old"}
Verdict == {"pass", "repair", "fail", "unknown"}
Early == {"no", "computer", "browser"}

LoopTypeOK ==
    /\ DesignTypeOK
    /\ loop \in [at : {"off", "top", "thinking", "acted", "asking", "out"},
                 step : 0..MaxSteps, desktop : BOOLEAN,
                 done : BOOLEAN, called : BOOLEAN, early : Early, open : BOOLEAN,
                 same : 0..MaxSameRepair, total : 0..MaxTotalRepair,
                 sig : Defect \cup {NoDefect}, sigAt : 0..Goals,
                 stagnant : 0..NoProgressLimit, best : 0..Goals, continued : BOOLEAN,
                 final : Status, repairs : 0..MaxSteps, gated : BOOLEAN,
                 broken : BOOLEAN]
    /\ memory \in [results : Seq(Result), start : 0..KeptResults, scarred : BOOLEAN]
    /\ Len(memory.results) <= KeptResults
    /\ cancelled \in BOOLEAN

\* `open`: the last verdict left a defect open.  `repairs`, `gated` and `broken` are
\* history: the repairs asked for, whether this step had a gate, and whether the
\* model's call failed.
NoLoop ==
    [at |-> "off", step |-> 0, desktop |-> FALSE,
     done |-> FALSE, called |-> FALSE, early |-> "no", open |-> FALSE, same |-> 0, total |-> 0,
     sig |-> NoDefect, sigAt |-> 0, stagnant |-> 0, best |-> 0, continued |-> FALSE,
     final |-> "none", repairs |-> 0, gated |-> FALSE, broken |-> FALSE]

LoopInit ==
    /\ DesignInit /\ loop = NoLoop /\ cancelled = FALSE
    /\ memory = [results |-> <<>>, start |-> 0, scarred |-> FALSE]

-----------------------------------------------------------------------------
\* One step of the loop up to its gate

\* The loop reads no more of the turn's design than this.
Looping == [NoTurn EXCEPT !.pc = "looping", !.ask = turn.ask, !.full = turn.full,
                          !.sparse = turn.sparse, !.depth = turn.depth, !.kept = turn.kept]

\* Mutated form: the results of earlier turns count for this one.
StartLoopOverOld ==
    /\ turn.pc = "acting"
    /\ \E desktop \in BOOLEAN :
           loop' = [NoLoop EXCEPT !.at = "top", !.step = 1, !.desktop = desktop,
                                  !.best = files.passed]
    /\ turn' = Looping /\ UNCHANGED <<files, turns, granted, memory, cancelled>>

\* begin_turn.  Whether the task is one for the desktop, and not answered by looking
\* something up, is a choice of the model.
StartLoop ==
    /\ turn.pc = "acting"
    /\ \E desktop \in BOOLEAN :
           loop' = [NoLoop EXCEPT !.at = "top", !.step = 1, !.desktop = desktop,
                                  !.best = files.passed]
    /\ memory' = [memory EXCEPT !.start = Len(memory.results)]
    /\ turn' = Looping /\ UNCHANGED <<files, turns, granted, cancelled>>

\* The tool results that the gate looks at.
Visible == SubSeq(memory.results, memory.start + 1, Len(memory.results))

Seen(kind) == kind \in Range(Visible)

Out(status) == [loop EXCEPT !.at = "out", !.final = status]

Top ==
    /\ loop.at = "top"
    /\ loop' = IF cancelled THEN Out("cancelled")
               ELSE [loop EXCEPT !.at = "thinking"]
    /\ UNCHANGED <<designVars, memory, cancelled>>

CancelledCall ==
    /\ loop.at = "thinking" /\ cancelled /\ loop' = Out("cancelled")
    /\ UNCHANGED <<designVars, memory, cancelled>>

\* The call fails, also when it is tried again: `final` is what it was set to
\* before the loop.
ModelFails ==
    /\ loop.at = "thinking"
    /\ loop' = [Out("success") EXCEPT !.broken = TRUE]
    /\ UNCHANGED <<designVars, memory, cancelled>>

\* An answer for the user claims to be done; anything else is not listened to.
Reply ==
    /\ loop.at = "thinking"
    /\ \E done \in BOOLEAN : loop' = [loop EXCEPT !.at = "acted", !.done = done]
    /\ UNCHANGED <<designVars, memory, cancelled>>

\* record_tool
Recorded(kind) ==
    LET all == Append(memory.results, kind)
        n   == Len(all)
    IN  [memory EXCEPT
            !.results = IF n > KeptResults THEN SubSeq(all, n - KeptResults + 1, n) ELSE all,
            !.scarred = @ \/ kind = "failed"]

\* The calls run; one of them may leave the escalation flag.
CallTools(kind) ==
    /\ loop.at = "thinking" /\ memory' = Recorded(kind)
    /\ loop' = [loop EXCEPT !.at = "acted", !.called = TRUE]
    /\ \E e \in BOOLEAN : files' = [files EXCEPT !.escalate = @ \/ e]
    /\ UNCHANGED <<turn, turns, granted, cancelled>>

\* ask_human, or the guard stops the turn (ToolGuard).
CallStops(kind) ==
    /\ loop.at = "thinking" /\ memory' = Recorded(kind) /\ loop' = Out("ask_user")
    /\ UNCHANGED <<designVars, cancelled>>

\* A screenshot or a reading that is the answer already: all goals are passed.
StopsEarly(kind, early) ==
    /\ loop.at = "thinking" /\ memory' = Recorded(kind)
    /\ early = "computer" => kind = "proof"
    /\ early = "browser" => kind # "failed"
    /\ loop' = [loop EXCEPT !.at = "acted", !.called = TRUE, !.done = TRUE, !.early = early]
    /\ files' = [files EXCEPT !.passed = Goals]
    /\ UNCHANGED <<turn, turns, granted, cancelled>>

-----------------------------------------------------------------------------
\* The gate

Gate == IF turn.sparse THEN loop.done ELSE loop.step % MonitorEvery = 0 \/ loop.done

Passes == {[passed |-> Goals, verdict |-> "pass", defect |-> NoDefect]}

\* Mutated form: any result is proof enough of a task on the desktop.
ProvenByAnything == TRUE

\* A follow-up claims to be done: an answer is enough, but not for the desktop.
Proven == loop.desktop => loop.early = "computer" \/ Seen("proof")

\* The answers of verify_adaptive: at full depth the model's, corrected where a
\* critical defect or missing test runs contradict it; at light depth by rules.
Verified ==
    CASE turn.depth = "none"  -> Passes
      [] turn.depth = "light" ->
            Passes \cup {[passed |-> files.passed, verdict |-> "unknown", defect |-> NoDefect]}
      [] turn.depth = "full"  ->
            {v \in [passed : 0..Goals, verdict : Verdict, defect : Defect \cup {NoDefect}] :
                v.verdict = "unknown" => v.defect = NoDefect}

\* The contract of a full turn can add a defect to the verdict.
Faulted(v, d) == [v EXCEPT !.verdict = IF @ = "fail" THEN @ ELSE "repair", !.defect = d]

Contracted(vs) ==
    IF ~turn.full THEN vs
    ELSE vs \cup {Faulted(v, d) : v \in {w \in vs : w.defect = NoDefect}, d \in Defect}

\* The deterministic check of a follow-up or an early stop, unless a call failed.
Rejected == {[passed |-> files.passed, verdict |-> "repair", defect |-> d] : d \in Defect}

Judged ==
    IF (~turn.full \/ loop.early # "no") /\ ~Seen("failed")
    THEN IF Proven THEN Passes ELSE Rejected
    ELSE Contracted(Verified)

\* Boxes that are ticked in todo.md pass goals too.
Ticked(vs) == UNION {{[v EXCEPT !.passed = p] : p \in v.passed..Goals} : v \in vs}

\* TaskState.validated_ok
Open(v) == v.verdict # "pass" /\ v.defect # NoDefect

ValidatedOk(passed, open) == passed = Goals /\ ~open

\* decide_control; no turn has stages, so none is blocked or advanced.  A failure
\* of any turn of the session steers.
Decision(v) ==
    IF ValidatedOk(v.passed, Open(v)) THEN {"stop_success"}
    ELSE IF v.verdict = "repair" /\ v.defect # NoDefect THEN {"repair"}
    ELSE IF v.verdict = "fail" THEN {"replan"}
    ELSE IF memory.scarred THEN {"replan", "retry", "continue"} ELSE {"continue"}

\* The counters of a decision: repairs of the same defect with no goal gained, and
\* all repairs of the turn.
Counted(v, d) ==
    LET again == v.defect = loop.sig /\ v.passed <= loop.sigAt IN
    CASE d = "repair" -> [loop EXCEPT
             !.total = @ + 1, !.repairs = @ + 1,
             !.same = IF again THEN @ + 1 ELSE 1,
             !.sig = v.defect, !.sigAt = IF again THEN @ ELSE v.passed]
      [] d = "replan"       -> [loop EXCEPT !.same = 0]
      [] d = "stop_success" -> [loop EXCEPT !.same = 0, !.total = 0]
      [] OTHER              -> loop

\* Steps without progress: a step that calls tools is never one.
Moved(l, passed, escalate) ==
    IF escalate THEN [l EXCEPT !.stagnant = NoProgressLimit]
    ELSE IF passed <= l.best /\ ~l.called
    THEN [l EXCEPT !.stagnant = IF @ < NoProgressLimit THEN @ + 1 ELSE @]
    ELSE [l EXCEPT !.stagnant = 0, !.best = passed]

\* Mutated form: only repairs of the same defect are capped.
EvaluateSameOnly(l, passed, broke) ==
    IF cancelled THEN "cancelled"
    ELSE IF l.same >= MaxSameRepair THEN "ask_user"
    ELSE IF ValidatedOk(passed, l.open) THEN "success"
    ELSE IF l.step >= MaxSteps THEN "max_steps" ELSE IF broke THEN "budget" ELSE "none"

\* StopRules.evaluate, in its order: a turn that asked for its last repair never
\* has validated work.
Evaluate(l, passed, broke) ==
    IF cancelled THEN "cancelled"
    ELSE IF l.same >= MaxSameRepair \/ l.total >= MaxTotalRepair THEN "ask_user"
    ELSE IF ValidatedOk(passed, l.open) THEN "success"
    ELSE IF l.step >= MaxSteps THEN "max_steps"
    ELSE IF broke THEN "budget"
    ELSE IF l.stagnant >= NoProgressLimit THEN "no_progress"
    ELSE "none"

NextStep(l) == [l EXCEPT !.at = "top", !.step = @ + 1, !.done = FALSE, !.called = FALSE,
                         !.early = "no", !.gated = FALSE]

\* The rest of a step: on to the next one, out of the loop, or, once, a question
\* whether to go on.
Weigh(l, passed, broke) ==
    LET end == Evaluate(l, passed, broke) IN
    loop' = CASE end = "none" -> NextStep(l)
              [] end = "no_progress" /\ ~l.continued -> [l EXCEPT !.at = "asking"]
              [] OTHER -> [l EXCEPT !.at = "out", !.final = end]

\* The budget may run out in any step; the monitor of a full turn may escalate.
PassBy ==
    /\ loop.at = "acted" /\ ~Gate
    /\ \E broke \in BOOLEAN : Weigh(Moved(loop, files.passed, FALSE), files.passed, broke)
    /\ UNCHANGED <<designVars, memory, cancelled>>

Judge ==
    /\ loop.at = "acted" /\ Gate
    /\ \E v \in Ticked(Judged), escalate, broke \in BOOLEAN : \E d \in Decision(v) :
        LET l == [Counted(v, d) EXCEPT !.open = Open(v), !.gated = TRUE] IN
        /\ escalate => turn.full
        /\ Weigh(Moved(l, v.passed, escalate), v.passed, broke)
        /\ files' = [files EXCEPT !.passed = v.passed]
    /\ UNCHANGED <<turn, turns, granted, memory, cancelled>>

\* _hitl_continue: the answer to "no progress".
Continue(yes) ==
    /\ loop.at = "asking"
    /\ loop' = IF yes
               THEN [NextStep(loop) EXCEPT !.stagnant = 0, !.continued = TRUE]
               ELSE Out("no_progress")
    /\ UNCHANGED <<designVars, memory, cancelled>>

\* The files of the turn are written; an export that fails is an error.
Finish ==
    /\ turn.pc = "looping" /\ loop.at = "out"
    /\ \E status \in {loop.final, "error"} : turn' = Ended(status)
    /\ loop' = NoLoop /\ cancelled' = FALSE
    /\ memory' = [memory EXCEPT !.results = [n \in DOMAIN @ |-> "old"]]
    /\ UNCHANGED <<files, turns, granted>>

\* RunHandle.cancel, at any moment of a turn.
Cancel ==
    /\ ~Idle /\ ~cancelled /\ loop.at # "out" /\ cancelled' = TRUE
    /\ UNCHANGED <<designVars, loop, memory>>

-----------------------------------------------------------------------------

Begin ==
    /\ \E m \in Messages, q, h \in BOOLEAN : Enter(m, q, h)
    /\ cancelled' = FALSE /\ UNCHANGED <<loop, memory>>

Other ==
    /\ (\E mode \in Mode : SwitchMode(mode)) \/ DesignStep \/ Answered \/ SaveDesign
    /\ UNCHANGED loopVars

\* A proof counts for a task on the desktop only.
Brought == IF loop.desktop THEN Kind ELSE Kind \ {"proof"}

Acts ==
    \/ \E kind \in Brought : CallTools(kind) \/ CallStops(kind)
    \/ \E kind \in Brought, early \in Early \ {"no"} : StopsEarly(kind, early)
    \/ Reply \/ ModelFails \/ CancelledCall

Next ==
    \/ Begin \/ Other \/ StartLoop \/ Top \/ Acts \/ PassBy \/ Judge
    \/ \E yes \in BOOLEAN : Continue(yes)
    \/ Finish \/ Cancel

Spec == LoopInit /\ [][Next]_vars

-----------------------------------------------------------------------------

\* The turn is about to end as a success.
Succeeded == loop.at = "out" /\ loop.final = "success"

\* A turn that ends in success was verified in its last step, and not cancelled
\* before its verdict was weighed: goals that passed for another ask, or in an
\* earlier step, do not end it.  Only the very same ask, taken up again, may end on
\* the goals it passed before.
SuccessIsGated ==
    Succeeded /\ ~loop.broken =>
        ~cancelled /\ (loop.gated \/ (turn.kept /\ files.task = turn.ask))

\* Whatever the plan, the replanning and the questions: a turn asks for at most
\* MaxTotalRepair repairs before a human is asked.
RepairIsBounded == loop.repairs <= MaxTotalRepair

\* What a gate takes for evidence are results of this turn.
EvidenceIsFresh == loop.at # "off" => ~Seen("old")

\* A follow-up on the desktop ends in success on a verified act of this turn only,
\* as long as no call of it is known to have failed.
DesktopSuccessIsProven ==
    Succeeded /\ ~turn.full /\ loop.desktop /\ ~loop.broken
        => {"failed", "proof"} \cap Range(memory.results) # {}
=============================================================================
