---------------------------- MODULE ApprovalGate ----------------------------
(***************************************************************************)
(* The approval gate (harness/approvals.py): whether a risky call may go   *)
(* ahead, and on whose word.  Each request that is executed has a gate of  *)
(* its own; the grants of the process and the file of allowed actions      *)
(* outlive them.  AppServer asks the questions and delivers the answers.   *)
(*                                                                         *)
(* A call is "routed" when the router asks before it calls the tool,       *)
(* "inner" when the tool asks from its body, "escape" when it asks to      *)
(* leave the sandbox, and "plan" when the controller asks to build a plan. *)
(* Actions take `live`: whether the journal still accepts events of the    *)
(* turn, for the audit of the gate writes them (runtime/engine.py).        *)
(***************************************************************************)
EXTENDS FiniteSetsExt, Integers

CONSTANTS
    Request, Call,
    OwnerOf,         \* the request a call belongs to
    KindOf,          \* its kind
    Action,          \* what is asked for: the keys of the allow list
    ActionOf,        \* the action of each call
    Attended,        \* the requests whose gate has an approver
    AutoApproved,    \* the requests made with auto_approve
    MaxRounds,       \* how often a plan is asked for (the code's 4)
    NoCall

ASSUME GateAssumption ==
    /\ OwnerOf \in [Call -> Request] /\ ActionOf \in [Call -> Action]
    /\ KindOf \in [Call -> {"routed", "inner", "escape", "plan"}]
    /\ Attended \subseteq Request /\ AutoApproved \subseteq Request
    /\ MaxRounds \in Nat \ {0} /\ NoCall \notin Call

VARIABLES
    permission,      \* _PROCESS_PERMISSIONS: "ask", "session" or "full"
    allowfile,       \* approvals_allowlist.json
    gate,            \* the gate of each request
    call,            \* what each call has come to
    said             \* history: what humans granted

gateVars == <<permission, allowfile, gate, call, said>>

Permission == {"ask", "session", "full"}

Yes    == {"once", "session", "full"}
No     == {"no", "suggest"}
Answer == Yes \cup No

\* "dropped": the question was abandoned; "raised": it could not be put or heard.
CallPc == {"idle", "queued", "asking", "granted", "finished", "denied", "dropped", "raised"}

\* What a call was granted on.
Basis == {"none", "answer", "auto", "listed", "full"}

InProgress == {"queued", "asking", "granted"}

\* The waiter of a question: no waiter, no answer yet, or an answer.
Waiter == {"none", "open"} \cup Answer

GateTypeOK ==
    /\ permission \in Permission
    /\ allowfile \subseteq Action
    /\ gate \in [Request -> [open : BOOLEAN, auto : BOOLEAN, full : BOOLEAN,
                             allow : SUBSET Action, holder : Call \cup {NoCall}]]
    /\ call \in [Call -> [pc : CallPc, waiter : Waiter, basis : Basis, round : 0..MaxRounds]]
    /\ said \subseteq Yes \X (Call \cup {NoCall})

NoGate == [open |-> FALSE, auto |-> FALSE, full |-> FALSE, allow |-> {}, holder |-> NoCall]

GateInit ==
    /\ permission = "ask" /\ allowfile = {}
    /\ gate = [r \in Request |-> NoGate]
    /\ call = [c \in Call |-> [pc |-> "idle", waiter |-> "none", basis |-> "none", round |-> 0]]
    /\ said = {}

GateOf(c) == gate[OwnerOf[c]]

At(c, pc) == call[c].pc = pc

CallsOf(r) == {c \in Call : OwnerOf[c] = r}

-----------------------------------------------------------------------------
\* apply_permission_scope, from the user interface or from an answer.
SetPermission(p) ==
    /\ permission' = p
    /\ said' = said \cup (({p} \cap Yes) \X {NoCall})
    /\ UNCHANGED <<allowfile, gate, call>>

\* ApprovalGate.__init__: a gate inherits the grants of the process.
OpenGate(r) ==
    /\ ~gate[r].open
    /\ gate' = [gate EXCEPT ![r] =
           [open |-> TRUE, auto |-> r \in AutoApproved \/ permission # "ask",
            full |-> permission = "full", allow |-> allowfile, holder |-> NoCall]]
    /\ UNCHANGED <<permission, allowfile, call, said>>

Become(c, pc) == call' = [call EXCEPT ![c].pc = pc, ![c].waiter = "none"]

GrantedOn(c, basis) == call' = [call EXCEPT ![c].pc = "granted", ![c].basis = basis]

\* execute_tool_calls: calls that need no serialisation run together, the
\* routed ones one by one after them; a plan is asked for between batches.
MayBegin(c) ==
    \A d \in CallsOf(OwnerOf[c]) \ {c} :
        KindOf[c] \in {"routed", "plan"} \/ KindOf[d] \in {"routed", "plan"}
            => call[d].pc \notin InProgress

\* require, require_explicit and require_host_escape up to the lock of the gate.
Require(c) ==
    /\ At(c, "idle") /\ GateOf(c).open /\ MayBegin(c)
    /\ IF KindOf[c] = "escape" /\ GateOf(c).full
       THEN GrantedOn(c, "full")
       ELSE Become(c, "queued")
    /\ UNCHANGED <<permission, allowfile, gate, said>>

\* Mutated form: a standing grant answers for calls of every kind.
StandingForAll(c) ==
    IF GateOf(c).auto THEN "auto"
    ELSE IF ActionOf[c] \in GateOf(c).allow THEN "listed"
    ELSE "none"

\* A standing grant: auto_approve, or an action that was approved before. It
\* never answers for a plan or for an escape.
Standing(c) ==
    IF KindOf[c] \in {"plan", "escape"} THEN "none"
    ELSE IF GateOf(c).auto THEN "auto"
    ELSE IF ActionOf[c] \in GateOf(c).allow THEN "listed"
    ELSE "none"

\* Mutated form: the lock is not taken.
GateFreeAlways(c) == At(c, "queued")

GateFree(c) == At(c, "queued") /\ GateOf(c).holder = NoCall

Pass(c) ==
    /\ GateFree(c) /\ Standing(c) # "none"
    /\ GrantedOn(c, Standing(c))
    /\ UNCHANGED <<permission, allowfile, gate, said>>

\* Nobody to ask, or the turn has ended: its journal refuses the question.
CannotAsk(c, live) ==
    /\ GateFree(c) /\ Standing(c) = "none"
    /\ ~(OwnerOf[c] \in Attended /\ live)
    /\ Become(c, IF OwnerOf[c] \in Attended THEN "raised" ELSE "denied")
    /\ UNCHANGED <<permission, allowfile, gate, said>>

\* _ask: the question is put, under the lock, and a waiter registered.
Ask(c, live) ==
    /\ GateFree(c) /\ Standing(c) = "none"
    /\ OwnerOf[c] \in Attended /\ live
    /\ call' = [call EXCEPT ![c].pc = "asking", ![c].waiter = "open", ![c].round = @ + 1]
    /\ gate' = [gate EXCEPT ![OwnerOf[c]].holder = c]
    /\ UNCHANGED <<permission, allowfile, said>>

\* An answer, or the end of the approver's patience (answer "no").
Decide(c, answer) ==
    /\ At(c, "asking") /\ call[c].waiter = "open"
    /\ call' = [call EXCEPT ![c].waiter = answer]

Reply(c, answer) ==
    /\ Decide(c, answer)
    /\ said' = said \cup (({answer} \cap Yes) \X {c})
    /\ UNCHANGED <<permission, allowfile, gate>>

TimeOut(c) ==
    /\ Decide(c, "no")
    /\ UNCHANGED <<permission, allowfile, gate, said>>

\* The answers of which the journal is told (approval_audit): a wider grant is
\* recorded in the table of approvals only.
Told(answer) == answer \in {"once", "no", "suggest"}

\* Only approved tool actions enter the allow list, and only by a plain yes.
Listed(c, answer) == answer = "once" /\ KindOf[c] \in {"routed", "inner"}

\* _apply_outcome_scope, and the actions that the answer lists.
Scoped(g, answer, actions) ==
    [g EXCEPT !.holder = NoCall, !.auto = @ \/ answer \in {"session", "full"},
              !.full = @ \/ answer = "full", !.allow = @ \cup actions]

\* A suggestion makes the controller ask for the plan again, MaxRounds times in all.
Again(c, answer) ==
    KindOf[c] = "plan" /\ answer = "suggest" /\ call[c].round < MaxRounds

\* _ask goes on with the answer: the scope is applied first, then the journal
\* told, then the action listed; when the journal refuses, the call raises.
Hear(c, live) ==
    LET answer  == call[c].waiter
        r       == OwnerOf[c]
        heard   == live \/ ~Told(answer)
        actions == IF heard /\ Listed(c, answer) THEN {ActionOf[c]} ELSE {}
    IN
    /\ At(c, "asking") /\ answer \in Answer
    /\ permission' = IF answer \in {"session", "full"} THEN answer ELSE permission
    /\ gate' = [gate EXCEPT ![r] = Scoped(@, answer, actions)]
    /\ allowfile' = IF actions = {} THEN allowfile ELSE gate[r].allow \cup actions
    /\ call' = [call EXCEPT
           ![c].waiter = "none",
           ![c].basis = IF heard /\ answer \in Yes THEN "answer" ELSE @,
           ![c].pc = IF ~heard THEN "raised"
                     ELSE IF answer \in Yes THEN "granted"
                     ELSE IF Again(c, answer) THEN "queued" ELSE "denied"]
    /\ UNCHANGED said

\* The tool is given up, by its deadline or a cancellation, while its body asks:
\* the waiter is removed and the lock released, and nobody is told.
Drop(c) ==
    /\ KindOf[c] \in {"inner", "escape"} /\ call[c].pc \in {"queued", "asking"}
    /\ Become(c, "dropped")
    /\ gate' = [gate EXCEPT ![OwnerOf[c]].holder = IF @ = c THEN NoCall ELSE @]
    /\ UNCHANGED <<permission, allowfile, said>>

\* The tool ran, or a plan is built.
Finish(c) ==
    /\ At(c, "granted") /\ Become(c, "finished")
    /\ UNCHANGED <<permission, allowfile, gate, said>>

\* The gates by themselves: their turns may end, and be cancelled, at any moment.
GateNext ==
    \/ \E p \in Permission : SetPermission(p)
    \/ \E r \in Request : OpenGate(r)
    \/ \E c \in Call : Require(c) \/ Pass(c) \/ TimeOut(c) \/ Drop(c) \/ Finish(c)
    \/ \E c \in Call, answer \in Answer : Reply(c, answer)
    \/ \E c \in Call, live \in BOOLEAN : CannotAsk(c, live) \/ Ask(c, live) \/ Hear(c, live)

GateSpec == GateInit /\ [][GateNext]_gateVars

-----------------------------------------------------------------------------
\* Properties

\* "Serialize human prompts so parallel tools cannot interleave HITL"
\* (ApprovalGate.require): a request has at most one question open, and it is
\* the one that holds the lock.
OneQuestionPerGate ==
    \A c \in Call : At(c, "asking") => GateOf(c).holder = c

\* Nothing risky runs without a human's word for it: a yes to this question, a
\* yes to an earlier question about the same action, a wider grant in answer to
\* another question or by the permission mode, or a request made with
\* auto_approve. A plan and an escape are covered by no standing grant but a
\* full one for the escape.
GrantedWide(scopes) ==
    \E p \in said : p[1] \in scopes

RiskyCallIsAuthorised ==
    \A c \in Call : call[c].pc \in {"granted", "finished"} =>
        CASE call[c].basis = "answer" -> \E a \in Yes : <<a, c>> \in said
          [] call[c].basis = "listed" ->
                \E d \in Call : ActionOf[d] = ActionOf[c] /\ <<"once", d>> \in said
          [] call[c].basis = "auto"   ->
                /\ KindOf[c] \in {"routed", "inner"}
                /\ OwnerOf[c] \in AutoApproved \/ GrantedWide({"session", "full"})
          [] call[c].basis = "full"   -> KindOf[c] = "escape" /\ GrantedWide({"full"})
          [] OTHER -> FALSE
=============================================================================
