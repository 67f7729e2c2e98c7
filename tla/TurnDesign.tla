----------------------------- MODULE TurnDesign -----------------------------
(***************************************************************************)
(* LoopController.run (loop/controller.py) up to its loop: which mode a    *)
(* message runs in, which goals and plan the turn starts from, and whether *)
(* a plan waits for Build.  The turns of one session follow each other and *)
(* share the files of its workspace (loop/mode_policy.py).                 *)
(*                                                                         *)
(* A message is read by its client first: a slash in it wins over the mode *)
(* chosen in the client, that over the flag of the session.  Whether it is *)
(* a question, is vague or is much work is a choice of the model: the code *)
(* decides it by keywords.  The mode "goal" stands for "multitask" too.    *)
(***************************************************************************)
EXTENDS FiniteSetsExt, Integers

CONSTANTS
    Objective,      \* what messages ask for
    BuildPrompt,    \* the objective of /build ("Execute the approved plan.")
    Clarified,      \* an objective with the answer to a question folded in
    NoTask,
    Messages,       \* the messages offered
    Goals,          \* how many goals a card has
    MaxRounds,      \* how often one turn asks for Build (the code's 4)
    MaxTurns        \* bound: turns of the session

Mode == {"normal", "plan", "goal"}

Message ==
    [ask : Objective, slash : Mode \cup {"none"}, chip : Mode \cup {"none"},
     full : BOOLEAN, build : BOOLEAN]

ASSUME DesignAssumption ==
    /\ BuildPrompt \in Objective /\ Messages \subseteq Message
    /\ Clarified \notin Objective /\ NoTask \notin Objective \cup {Clarified}
    /\ Goals \in Nat \ {0} /\ MaxRounds \in Nat \ {0} /\ MaxTurns \in Nat

Task == Objective \cup {Clarified}

VARIABLES
    files,          \* the workspace: flags, goal_card.json, plan.json, plan.md
    turn,           \* the turn in progress, or the last one
    turns,          \* how many turns were begun
    granted         \* history: a human asked for Build or approved a plan

designVars == <<files, turn, turns, granted>>

\* plan.md: a "drafted" text nobody has seen, the "current" one the human saw
\* or wrote last, or one "superseded" by a revision or by the human's edits.
Text == {"none", "drafted", "current", "superseded"}

\* plan.json: the plan of plan.md, a plan "behind" it, a plan never written to
\* plan.md ("unseen"), or the one-step plan of a follow-up ("stub").
Json == {"none", "same", "behind", "unseen", "stub"}

Pc == {"idle", "entered", "designed", "asking", "acting", "looping", "ended"}

Status == {"none", "success", "error", "cancelled", "ask_user", "max_steps", "budget",
           "no_progress", "awaiting_clarify", "awaiting_plan_approval"}

DesignTypeOK ==
    /\ files \in [mode : Mode \cup {"none"}, escalate : BOOLEAN, approved : BOOLEAN,
                  clarify : BOOLEAN, task : Task \cup {NoTask}, passed : 0..Goals,
                  text : Text, json : Json]
    /\ turn \in [pc : Pc, ask : Task \cup {NoTask}, agent : Mode, full : BOOLEAN,
                 fresh : BOOLEAN, build : BOOLEAN, sparse : BOOLEAN,
                 depth : {"none", "light", "full"}, round : 0..MaxRounds,
                 yes : BOOLEAN, built : Text, kept : BOOLEAN, status : Status]
    /\ turns \in 0..MaxTurns /\ granted \in BOOLEAN

NoTurn ==
    [pc |-> "idle", ask |-> NoTask, agent |-> "normal", full |-> FALSE, fresh |-> TRUE,
     build |-> FALSE, sparse |-> TRUE, depth |-> "none", round |-> 0,
     yes |-> FALSE, built |-> "none", kept |-> FALSE, status |-> "none"]

DesignInit ==
    /\ files = [mode |-> "none", escalate |-> FALSE, approved |-> FALSE, clarify |-> FALSE,
                task |-> NoTask, passed |-> 0, text |-> "none", json |-> "none"]
    /\ turn = NoTurn /\ turns = 0 /\ granted = FALSE

Idle == turn.pc \in {"idle", "ended"}

Ended(status) == [NoTurn EXCEPT !.pc = "ended", !.status = status]

-----------------------------------------------------------------------------
\* The mode of a turn

\* prefer_agent_mode, in the client.
Explicit(m) ==
    IF m.slash # "none" THEN m.slash
    ELSE IF m.chip # "none" THEN m.chip
    ELSE IF files.mode # "none" THEN files.mode ELSE "normal"

\* AgentRuntime._execute: only a full turn of a session that has had one goes on
\* with its plan and goals.
FreshTurn(m) == ~(turns > 0 /\ (Explicit(m) # "normal" \/ m.full))

\* A slash with nothing after it sets the mode of the next message.
SwitchMode(mode) ==
    /\ Idle
    /\ files' = [files EXCEPT !.mode = IF mode = "normal" THEN "none" ELSE mode]
    /\ UNCHANGED <<turn, turns, granted>>

\* The escalation that a tool left for this turn; Normal chosen in the client
\* wins over it, a /normal in the message does not.
Escalates(m) == files.escalate /\ ~(Explicit(m) = "normal" /\ m.slash = "none")

Agent(m, question) ==
    IF Explicit(m) = "goal" /\ question THEN (IF Escalates(m) THEN "plan" ELSE "normal")
    ELSE IF Escalates(m) /\ Explicit(m) = "normal" THEN "plan"
    ELSE Explicit(m)

\* How much is verified, and how often: a follow-up is checked when it claims to
\* be done, a plan or a goal never by nothing.
Cadence(agent, full) ==
    {c \in [sparse : BOOLEAN, depth : {"none", "light", "full"}] :
        /\ ~full => c.sparse /\ c.depth # "full"
        /\ agent # "normal" => ~c.sparse /\ c.depth # "none"}

\* A new turn of message m. `question`: goal_qa_misfit, a Goal that only asks;
\* `heavy`: a Normal message that is much work runs the full loop.
Enter(m, question, heavy) ==
    LET agent == Agent(m, question)
        asked == Explicit(m) = "goal" /\ question /\ ~Escalates(m)
        full  == \/ agent # "normal"
                 \/ ~asked /\ (Explicit(m) # "normal" \/ m.full \/ heavy)
    IN
    /\ Idle /\ turns < MaxTurns /\ turns' = turns + 1
    /\ \E c \in Cadence(agent, full) :
           turn' = [NoTurn EXCEPT
               !.pc = "entered", !.ask = m.ask, !.agent = agent, !.full = full,
               !.fresh = FreshTurn(m), !.build = m.build,
               !.sparse = c.sparse, !.depth = c.depth]
    /\ files' = [files EXCEPT
           !.mode = "none", !.escalate = FALSE,
           !.approved = @ /\ ~(FreshTurn(m) /\ Explicit(m) = "plan")]
    /\ granted' = (granted \/ m.build)

\* The desktop is not ready for a task that needs it: the turn ends here.
Unready ==
    /\ turn.pc = "entered" /\ turn' = Ended("error")
    /\ UNCHANGED <<files, turns, granted>>

-----------------------------------------------------------------------------
\* The goals and the plan of a turn

\* Mutated form: a goal card is taken over whatever it is for.
OtherAskIgnored == FALSE

OtherAsk == files.task # turn.ask

Resumes == ~turn.fresh /\ files.task # NoTask

\* A card of goals for this turn, none passed yet.
NewGoals(f, json) == [f EXCEPT !.task = turn.ask, !.passed = 0, !.json = json]

\* A follow-up, or another ask on a resumed turn that needs no Build.
StartFollowup ==
    /\ turn.pc = "entered"
    /\ ~turn.full \/ (Resumes /\ OtherAsk /\ turn.agent # "plan")
    /\ files' = NewGoals(files, "stub")
    /\ turn' = [turn EXCEPT !.pc = "designed", !.fresh = TRUE]
    /\ UNCHANGED <<turns, granted>>

\* write_plan_artifact of a plan that was loaded: what the human wrote since is
\* lost.  A follow-up's plan is replaced by a new one first.
Rewritten(f) ==
    [f EXCEPT !.text = CASE f.json = "same"   -> f.text
                         [] f.json = "behind" -> "superseded"
                         [] OTHER             -> "drafted",
              !.json = IF f.json = "stub" THEN "stub" ELSE "same"]

\* The same ask again: plan and goals are loaded, with what passed before.
StartResumed ==
    /\ turn.pc = "entered" /\ turn.full /\ Resumes /\ ~OtherAsk
    /\ files' = IF turn.agent = "plan" THEN Rewritten(files) ELSE files
    /\ turn' = [turn EXCEPT !.pc = "designed", !.kept = files.passed > 0]
    /\ UNCHANGED <<turns, granted>>

Plans == turn.pc = "entered" /\ turn.full /\ (~Resumes \/ (OtherAsk /\ turn.agent = "plan"))

\* "Follow-up while plan.md awaits Build": no question and no research.
Revising ==
    /\ turn.agent = "plan" /\ ~files.approved /\ files.text # "none"
    /\ turn.ask # BuildPrompt /\ ~turn.build

\* Whether the plan may be preceded by a question: the answer to the last one was
\* not enough, or the objective is vague.
MayClarify ==
    /\ turn.agent = "plan" /\ turn.ask # BuildPrompt
    /\ files.clarify \/ (~files.approved /\ ~Revising)

\* The question is left for the next message, which answers it.
Clarify ==
    /\ Plans /\ MayClarify
    /\ files' = [files EXCEPT !.clarify = TRUE]
    /\ turn' = Ended("awaiting_clarify")
    /\ UNCHANGED <<turns, granted>>

\* make_plan and make_adaptive_plan. The ask becomes the clarified one when the
\* message answers a question, or one is asked at the terminal at once.
Design(answered) ==
    LET ask == IF answered THEN Clarified ELSE turn.ask IN
    /\ Plans
    /\ answered \/ ~(turn.agent = "plan" /\ files.clarify)
    /\ answered => turn.agent = "plan" /\ (files.clarify \/ MayClarify)
    /\ files' = [NewGoals(files, "unseen") EXCEPT
           !.task = ask, !.clarify = IF turn.agent = "plan" THEN FALSE ELSE @,
           !.json = IF turn.agent = "plan" THEN "same" ELSE "unseen",
           !.text = IF turn.agent = "plan" THEN "drafted" ELSE @]
    /\ turn' = [turn EXCEPT !.pc = "designed", !.ask = ask, !.fresh = TRUE]
    /\ UNCHANGED <<turns, granted>>

-----------------------------------------------------------------------------
\* The gate before Build

Gated == turn.agent = "plan" /\ ~files.approved

\* Mutated form: the plan in memory is built, not the one on disk.
OnDiskIgnored == [files EXCEPT !.json = "same", !.approved = TRUE,
                               !.text = IF files.json = "behind" THEN "superseded" ELSE @]

\* _reload_plan_from_disk and mark_plan_approved: plan.md is what is built.
OnDisk == [files EXCEPT !.json = "same", !.approved = TRUE]

Build ==
    /\ files' = OnDisk
    /\ turn' = [turn EXCEPT !.pc = "acting", !.built = files'.text]

\* Nothing to wait for: no plan mode, a build that was asked for, or a flag that
\* an earlier turn left.
Proceed ==
    /\ turn.pc = "designed" /\ (~Gated \/ turn.build)
    /\ IF turn.agent = "plan" THEN Build
       ELSE turn' = [turn EXCEPT !.pc = "acting"] /\ UNCHANGED files
    /\ UNCHANGED <<turns, granted>>

\* The plan is shown and Build asked for (ApprovalGate: a call of kind "plan").
AskBuild ==
    /\ turn.pc = "designed" /\ Gated /\ ~turn.build
    /\ turn' = [turn EXCEPT !.pc = "asking", !.round = 1]
    /\ files' = [files EXCEPT !.text = "current"]
    /\ UNCHANGED <<turns, granted>>

Approve ==
    /\ turn.pc = "asking" /\ files' = OnDisk
    /\ turn' = [turn EXCEPT !.pc = "acting", !.yes = TRUE, !.built = files'.text]
    /\ granted' = TRUE /\ UNCHANGED turns

\* A revised plan replaces plan.md and is shown; plan.json keeps the old one.
Suggest ==
    /\ turn.pc = "asking" /\ turn.round < MaxRounds
    /\ turn' = [turn EXCEPT !.round = @ + 1]
    /\ files' = [files EXCEPT !.text = "current", !.json = "behind"]
    /\ UNCHANGED <<turns, granted>>

\* No, no answer in time, or a suggestion too many.
Deny ==
    /\ turn.pc = "asking" /\ turn' = Ended("awaiting_plan_approval")
    /\ files' = [files EXCEPT !.approved = FALSE]
    /\ UNCHANGED <<turns, granted>>

\* The human saves plan.md (_save_session_design): locked after Build.
SaveDesign ==
    /\ files.text # "none" /\ ~files.approved
    /\ files' = [files EXCEPT !.text = "current", !.json = IF @ = "same" THEN "behind" ELSE @]
    /\ UNCHANGED <<turn, turns, granted>>

DesignStep ==
    \/ Unready \/ StartFollowup \/ StartResumed \/ Clarify \/ \E a \in BOOLEAN : Design(a)
    \/ Proceed \/ AskBuild

Answered == Approve \/ Suggest \/ Deny

DesignNext ==
    \/ \E m \in Messages, q, h \in BOOLEAN : Enter(m, q, h)
    \/ \E mode \in Mode : SwitchMode(mode)
    \/ DesignStep \/ Answered \/ SaveDesign

-----------------------------------------------------------------------------

\* No turn in Plan mode acts before a human asked for Build or approved a plan, and
\* a plan that a human approved is built as it stands in plan.md at that moment:
\* neither a plan it was revised from nor the text before the human's edits.
OnlyApprovedPlansAreBuilt ==
    turn.pc = "acting" /\ turn.agent = "plan" =>
        granted /\ (turn.yes => turn.built = "current")

\* controller.py:721, "Fresh Plan design must re-gate Build": a turn that designs
\* its plan afresh and was not itself a Build acts on a human's approval given in
\* this turn, not on the flag that an earlier turn left.
FreshPlanAwaitsBuild ==
    turn.pc = "acting" /\ turn.agent = "plan" /\ turn.fresh /\ ~turn.build => turn.yes
=============================================================================
