----------------------------- MODULE RunReducer -----------------------------
(***************************************************************************)
(* The pure state transitions of one agent turn: runtime/reducer.py over   *)
(* the types of runtime/types.py.  A turn's snapshot is what the runtime   *)
(* database keeps of it; an event is one row of its journal.               *)
(*                                                                         *)
(* A snapshot keeps the fields that some guard or some caller reads; plan  *)
(* text, goals, artifacts, costs and error texts are left out.  An event   *)
(* keeps its kind, the tool attempt it names (if any) and the one truth    *)
(* value its payload may carry: `approved' of an approval, `validated' of  *)
(* a verification or of a completion, the engine's own status of an end    *)
(* ("absent" when the payload has none).                                   *)
(***************************************************************************)
EXTENDS Naturals

CONSTANTS
    Attempt,      \* identities of tool attempts
    NoAttempt,    \* the attempt of an event that names none
    NoTurn        \* the snapshot of a turn that was never started

ASSUME AttemptAssumption == NoAttempt \notin Attempt

TerminalPhase == {"blocked", "cancelled", "failed", "completed"}

Phase == TerminalPhase \cup
    {"accepted", "planning", "executing", "waiting_approval", "verifying", "repairing"}

Kind ==
    {"accepted", "planning_started", "planned", "tool_started", "tool_completed",
     "approval_required", "approval_resolved", "verification_started", "verification",
     "repair", "checkpoint", "progress", "todo_board", "blocked", "cancelled",
     "completed", "failed"}

Flag == {"yes", "no", "absent"}

Event == [kind : Kind, attempt : Attempt \cup {NoAttempt}, flag : Flag]

Ev(kind)           == [kind |-> kind, attempt |-> NoAttempt, flag |-> "absent"]
FlagEv(kind, flag) == [kind |-> kind, attempt |-> NoAttempt, flag |-> flag]
ToolEv(kind, a)    == [kind |-> kind, attempt |-> a, flag |-> "absent"]

Status == {"running", "denied", "blocked", "reconciliation_required", "cancelled",
           "success", "error"}

Snapshot ==
    [phase              : Phase,
     status             : Status,
     pending_action     : BOOLEAN,           \* is a pending action named
     open_tool_attempts : SUBSET Attempt,
     validated          : BOOLEAN]

Terminal(snap) == snap.phase \in TerminalPhase

\* The truth value a payload gives, or the one read when it gives none.
Given(flag, default) == IF flag = "absent" THEN default ELSE flag = "yes"

InitialSnapshot ==
    [phase |-> "accepted", status |-> "running", pending_action |-> FALSE,
     open_tool_attempts |-> {}, validated |-> FALSE]

\* Mutated forms: the reducer without its terminal guard, and without its
\* evidence guard.
RejectedWithoutTerminal(snap, ev) ==
    ev.kind = "accepted" \/ (ev.kind = "completed" /\ ~Given(ev.flag, snap.validated))
RejectedWithoutEvidence(snap, ev) == Terminal(snap) \/ ev.kind = "accepted"

\* The transitions the reducer refuses with InvalidTransition.
Rejected(snap, ev) ==
    \/ Terminal(snap)
    \/ ev.kind = "accepted"
    \/ ev.kind = "completed" /\ ~Given(ev.flag, snap.validated)

\* Mutated form: a completion that forgets to close its attempt.
WithToolLeftOpen(snap, ev) ==
    [snap EXCEPT !.phase = "executing",
                 !.open_tool_attempts = @ \cup ({ev.attempt} \ {NoAttempt})]

WithTool(snap, ev) ==
    CASE ev.kind = "tool_started" ->
           [snap EXCEPT !.phase = "executing",
                        !.open_tool_attempts = @ \cup ({ev.attempt} \ {NoAttempt})]
      [] ev.kind = "tool_completed" ->
           [snap EXCEPT !.phase = "executing",
                        !.open_tool_attempts = @ \ {ev.attempt}]

WithApproval(snap, ev) ==
    CASE ev.kind = "approval_required" ->
           [snap EXCEPT !.phase = "waiting_approval", !.pending_action = TRUE]
      [] ev.kind = "approval_resolved" /\ ev.flag = "yes" ->
           [snap EXCEPT !.phase = "executing", !.pending_action = FALSE]
      [] OTHER ->
           [snap EXCEPT !.phase = "blocked", !.status = "denied"]

WithVerdict(snap, ev) ==
    LET passed == Given(ev.flag, FALSE) IN
    [snap EXCEPT !.validated = passed,
                 !.phase = IF passed THEN "executing" ELSE "repairing"]

\* A blocked event and a failed one record the status of their payload: of the engine's
\* ("yes") it is "reconciliation_required" and "success", the latter when the controller
\* said success and the evidence did not validate (engine.py).
WithEnd(snap, ev) ==
    CASE ev.kind = "blocked"   ->
           [snap EXCEPT !.phase = "blocked",
                        !.status = IF ev.flag = "yes" THEN "reconciliation_required"
                                   ELSE "blocked"]
      [] ev.kind = "cancelled" -> [snap EXCEPT !.phase = "cancelled", !.status = "cancelled"]
      [] ev.kind = "completed" ->
           [snap EXCEPT !.phase = "completed", !.status = "success",
                        !.validated = TRUE, !.open_tool_attempts = {}]
      [] ev.kind = "failed" ->
           [snap EXCEPT !.phase = "failed",
                        !.status = IF ev.flag = "yes" THEN "success" ELSE "error"]

\* reduce_event on an event that is next in sequence and not rejected.
Reduce(snap, ev) ==
    CASE ev.kind = "planning_started" -> [snap EXCEPT !.phase = "planning"]
      [] ev.kind = "planned" -> [snap EXCEPT !.phase = "executing"]
      [] ev.kind = "verification_started" -> [snap EXCEPT !.phase = "verifying"]
      [] ev.kind \in {"tool_started", "tool_completed"} -> WithTool(snap, ev)
      [] ev.kind \in {"approval_required", "approval_resolved"} -> WithApproval(snap, ev)
      [] ev.kind = "verification" -> WithVerdict(snap, ev)
      [] ev.kind = "repair" ->
           [snap EXCEPT !.phase = "repairing", !.pending_action = TRUE]
      [] ev.kind = "checkpoint" -> [snap EXCEPT !.pending_action = FALSE]
      [] ev.kind \in TerminalPhase -> WithEnd(snap, ev)
      [] OTHER -> snap                       \* progress and todo_board

=============================================================================
