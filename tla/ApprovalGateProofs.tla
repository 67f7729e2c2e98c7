------------------------- MODULE ApprovalGateProofs -------------------------
(***************************************************************************)
(* The approval gates, for any requests, calls, actions, approvers and     *)
(* number of rounds: their types, that the questions of a gate are         *)
(* serialised, and that nothing risky runs without a human's word.  Then   *)
(* the app server, for any chats and turns: that it is an implementation   *)
(* of the gates, that a question on the screen of a chat is one that waits *)
(* there, its types, and that a stream shows its turn to the end.          *)
(***************************************************************************)
EXTENDS AppServer, SequenceTheorems, TLAPS

-----------------------------------------------------------------------------
\* The inductive invariant of the gates

\* A call that has left its start has a gate, and gates stay open.
GatesAreOpen == \A c \in Call : ~At(c, "idle") => GateOf(c).open

\* A call that waits for the lock has rounds left.
RoundsLeft ==
    \A c \in Call :
        /\ At(c, "idle") => call[c].round = 0
        /\ At(c, "queued") => call[c].round < MaxRounds

\* A waiter is registered exactly while the question is open, and a yes in it was said.
WaitersAsk ==
    \A c \in Call :
        /\ At(c, "asking") <=> call[c].waiter # "none"
        /\ call[c].waiter \in Yes => <<call[c].waiter, c>> \in said

ListedBySaying(a) == \E d \in Call : ActionOf[d] = a /\ <<"once", d>> \in said

\* Every standing grant, in the process, in the file or in a gate, goes back to
\* what a human said or the request came with.
StandingIsSaid ==
    /\ permission # "ask" => GrantedWide({"session", "full"})
    /\ permission = "full" => GrantedWide({"full"})
    /\ \A a \in allowfile : ListedBySaying(a)
    /\ \A r \in Request :
          /\ gate[r].auto => r \in AutoApproved \/ GrantedWide({"session", "full"})
          /\ gate[r].full => GrantedWide({"full"})
          /\ \A a \in gate[r].allow : ListedBySaying(a)

\* What a grant of call c on each basis rests on.
Warranted(c) ==
    CASE call[c].basis = "answer" -> \E a \in Yes : <<a, c>> \in said
      [] call[c].basis = "listed" -> ListedBySaying(ActionOf[c])
      [] call[c].basis = "auto"   ->
            /\ KindOf[c] \in {"routed", "inner"}
            /\ OwnerOf[c] \in AutoApproved \/ GrantedWide({"session", "full"})
      [] call[c].basis = "full"   -> KindOf[c] = "escape" /\ GrantedWide({"full"})
      [] OTHER -> FALSE

Granted(c) == call[c].pc \in {"granted", "finished"}

AllWarranted == \A c \in Call : Granted(c) => Warranted(c)

GateInv ==
    /\ GateTypeOK /\ GatesAreOpen /\ RoundsLeft /\ OneQuestionPerGate
    /\ WaitersAsk /\ StandingIsSaid /\ AllWarranted

LEMMA InitGate == GateInit => GateInv
  BY GateAssumption
  DEF GateInit, GateInv, GateTypeOK, GatesAreOpen, RoundsLeft, OneQuestionPerGate, WaitersAsk,
      StandingIsSaid, AllWarranted, Granted, NoGate, At, GateOf, Permission, CallPc, Waiter,
      Basis, Yes

\* Saying more keeps every warrant.
LEMMA MoreIsSaid ==
    ASSUME said \subseteq said'
    PROVE  /\ \A scopes : GrantedWide(scopes) => GrantedWide(scopes)'
           /\ \A a : ListedBySaying(a) => ListedBySaying(a)'
           /\ \A c \in Call : Warranted(c) /\ call'[c].basis = call[c].basis => Warranted(c)'
  BY DEF GrantedWide, ListedBySaying, Warranted

LEMMA SetPermissionKeeps ==
    ASSUME GateInv, NEW p \in Permission, SetPermission(p) PROVE GateInv'
<1>1. said \subseteq said' /\ said' \subseteq Yes \X (Call \cup {NoCall})
    BY DEF SetPermission, GateInv, GateTypeOK
<1>2. p \in Yes => <<p, NoCall>> \in said'
    BY DEF SetPermission
<1>3. permission' = p /\ UNCHANGED <<allowfile, gate, call>>
    BY DEF SetPermission
<1>4. StandingIsSaid'
    <2>1. p # "ask" => GrantedWide({"session", "full"})'
        BY <1>2 DEF GrantedWide, Yes, Permission
    <2>2. p = "full" => GrantedWide({"full"})'
        BY <1>2 DEF GrantedWide, Yes
    <2> QED BY <1>1, <1>3, <2>1, <2>2, MoreIsSaid DEF StandingIsSaid, GateInv
<1>5. AllWarranted'
    BY <1>1, <1>3, MoreIsSaid DEF AllWarranted, Granted, GateInv
<1> QED
    BY <1>1, <1>3, <1>4, <1>5
    DEF GateInv, GateTypeOK, GatesAreOpen, RoundsLeft, OneQuestionPerGate, WaitersAsk, At, GateOf

LEMMA OpenGateKeeps ==
    ASSUME GateInv, NEW r \in Request, OpenGate(r) PROVE GateInv'
<1>1. /\ gate' = [gate EXCEPT ![r] =
              [open |-> TRUE, auto |-> r \in AutoApproved \/ permission # "ask",
               full |-> permission = "full", allow |-> allowfile, holder |-> NoCall]]
      /\ ~gate[r].open /\ UNCHANGED <<permission, allowfile, call, said>>
    BY DEF OpenGate
<1>2. \A c \in Call : OwnerOf[c] = r => At(c, "idle")
    BY <1>1 DEF GateInv, GatesAreOpen, GateOf
<1>3. GateTypeOK'
    BY <1>1 DEF GateInv, GateTypeOK
<1>4. \A q \in Request \ {r} : gate'[q] = gate[q]
    BY <1>1 DEF GateInv, GateTypeOK
<1>5. gate'[r] = [open |-> TRUE, auto |-> r \in AutoApproved \/ permission # "ask",
                  full |-> permission = "full", allow |-> allowfile, holder |-> NoCall]
    BY <1>1 DEF GateInv, GateTypeOK
<1>6. GatesAreOpen' /\ OneQuestionPerGate'
    BY <1>1, <1>2, <1>4, <1>5, GateAssumption
    DEF GateInv, GatesAreOpen, OneQuestionPerGate, At, GateOf
<1>7. StandingIsSaid'
    <2>1. /\ permission' = permission /\ allowfile' = allowfile /\ said' = said
          /\ \A scopes : GrantedWide(scopes)' <=> GrantedWide(scopes)
          /\ \A a : ListedBySaying(a)' <=> ListedBySaying(a)
        BY <1>1 DEF GrantedWide, ListedBySaying
    <2>2. ASSUME NEW q \in Request
          PROVE  /\ gate'[q].auto => q \in AutoApproved \/ GrantedWide({"session", "full"})
                 /\ gate'[q].full => GrantedWide({"full"})
                 /\ \A a \in gate'[q].allow : ListedBySaying(a)
        <3>1. CASE q = r
            <4>1. gate'[r].auto = (r \in AutoApproved \/ permission # "ask")
                BY <1>5
            <4>2. gate'[r].full = (permission = "full") /\ gate'[r].allow = allowfile
                BY <1>5
            <4> QED BY <3>1, <4>1, <4>2, Zenon DEF GateInv, StandingIsSaid
        <3>2. CASE q # r
            BY <3>2, <1>4 DEF GateInv, StandingIsSaid
        <3> QED BY <3>1, <3>2
    <2> QED BY <2>1, <2>2 DEF GateInv, StandingIsSaid
<1>8. RoundsLeft' /\ WaitersAsk' /\ AllWarranted'
    BY <1>1 DEF GateInv, RoundsLeft, WaitersAsk, AllWarranted, Granted, Warranted, At,
                GrantedWide, ListedBySaying
<1> QED BY <1>3, <1>6, <1>7, <1>8 DEF GateInv

State == [pc : CallPc, waiter : Waiter, basis : Basis, round : 0..MaxRounds]

\* The grants that stand, and what was said for them.
StandingOK ==
    /\ permission \in Permission
    /\ allowfile \subseteq Action
    /\ gate \in [Request -> [open : BOOLEAN, auto : BOOLEAN, full : BOOLEAN,
                             allow : SUBSET Action, holder : Call \cup {NoCall}]]
    /\ said \subseteq Yes \X (Call \cup {NoCall})
    /\ StandingIsSaid

\* What one call may become, for the invariant to go on holding.
Sound(c) ==
    /\ ~At(c, "idle") /\ GateOf(c).open
    /\ At(c, "queued") => call[c].round < MaxRounds
    /\ At(c, "asking") <=> call[c].waiter # "none"
    /\ call[c].waiter \in Yes => <<call[c].waiter, c>> \in said
    /\ At(c, "asking") => GateOf(c).holder = c
    /\ Granted(c) => Warranted(c)

\* A step of one call: the invariant follows from what becomes of that call, of the
\* standing grants and of the locks of the other calls.
LEMMA CallKeeps ==
    ASSUME GateInv, NEW c \in Call, NEW one \in State, call' = [call EXCEPT ![c] = one],
           StandingOK', Sound(c)', said \subseteq said',
           \A r \in Request : gate[r].open => gate'[r].open,
           \A d \in Call \ {c} : At(d, "asking") => GateOf(d)'.holder = d
    PROVE  GateInv'
<1>1. /\ call \in [Call -> State] /\ call'[c] = one
      /\ \A d \in Call \ {c} : call'[d] = call[d]
    BY DEF GateInv, GateTypeOK, State
<1>2. GateTypeOK'
    BY <1>1 DEF GateTypeOK, StandingOK, State
<1>3. GatesAreOpen'
    BY <1>1, GateAssumption DEF GateInv, GatesAreOpen, Sound, At, GateOf
<1>4. RoundsLeft' /\ WaitersAsk'
    BY <1>1 DEF GateInv, RoundsLeft, WaitersAsk, Sound, At
<1>5. OneQuestionPerGate'
    BY <1>1 DEF OneQuestionPerGate, Sound, At
<1>6. AllWarranted'
    <2>1. \A d \in Call \ {c} : Granted(d) => Warranted(d)'
        BY <1>1, MoreIsSaid DEF GateInv, AllWarranted
    <2> QED BY <1>1, <2>1 DEF AllWarranted, Granted, Sound
<1> QED BY <1>2, <1>3, <1>4, <1>5, <1>6 DEF GateInv, StandingOK

\* Nothing is granted by a step that leaves the grants alone but for the locks.
LEMMA LocksOnly ==
    ASSUME GateInv, UNCHANGED <<permission, allowfile, said>>,
           gate' \in [Request -> [open : BOOLEAN, auto : BOOLEAN, full : BOOLEAN,
                                  allow : SUBSET Action, holder : Call \cup {NoCall}]],
           \A r \in Request : /\ gate'[r].auto = gate[r].auto /\ gate'[r].full = gate[r].full
                              /\ gate'[r].allow = gate[r].allow
    PROVE  StandingOK'
  BY DEF GateInv, GateTypeOK, StandingOK, StandingIsSaid, GrantedWide, ListedBySaying

LEMMA QuietKeeps ==
    ASSUME GateInv, NEW c \in Call, NEW one \in State, call' = [call EXCEPT ![c] = one],
           UNCHANGED <<permission, allowfile, gate, said>>, Sound(c)'
    PROVE  GateInv'
<1>1. StandingOK' /\ said \subseteq said'
    BY LocksOnly DEF GateInv, GateTypeOK
<1>2. /\ \A r \in Request : gate[r].open => gate'[r].open
      /\ \A d \in Call \ {c} : At(d, "asking") => GateOf(d)'.holder = d
    BY DEF GateInv, OneQuestionPerGate, GateOf
<1> QED BY <1>1, <1>2, CallKeeps

LEMMA StateOf == ASSUME GateInv, NEW c \in Call PROVE call[c] \in State
  BY DEF GateInv, GateTypeOK, State

LEMMA BecomeOne ==
    ASSUME GateInv, NEW c \in Call, NEW pc \in CallPc, Become(c, pc)
    PROVE  \E one \in State :
               /\ call' = [call EXCEPT ![c] = one] /\ call'[c] = one
               /\ one = [call[c] EXCEPT !.pc = pc, !.waiter = "none"]
<1> DEFINE one == [call[c] EXCEPT !.pc = pc, !.waiter = "none"]
<1>1. call[c] \in State /\ call \in [Call -> State]
    BY StateOf DEF GateInv, GateTypeOK, State
<1>2. one \in State
    BY <1>1 DEF State, Waiter
<1>3. call' = [call EXCEPT ![c] = one]
    BY <1>1 DEF Become
<1> QED BY <1>1, <1>2, <1>3

LEMMA GrantedOne ==
    ASSUME GateInv, NEW c \in Call, NEW basis \in Basis, GrantedOn(c, basis)
    PROVE  \E one \in State :
               /\ call' = [call EXCEPT ![c] = one] /\ call'[c] = one
               /\ one = [call[c] EXCEPT !.pc = "granted", !.basis = basis]
<1> DEFINE one == [call[c] EXCEPT !.pc = "granted", !.basis = basis]
<1>1. call[c] \in State /\ call \in [Call -> State]
    BY StateOf DEF GateInv, GateTypeOK, State
<1>2. one \in State
    BY <1>1 DEF State, CallPc
<1>3. call' = [call EXCEPT ![c] = one]
    BY <1>1 DEF GrantedOn
<1> QED BY <1>1, <1>2, <1>3

\* A call becomes something that is neither open nor granted.
LEMMA BecomeKeeps ==
    ASSUME GateInv, NEW c \in Call, NEW pc \in {"queued", "denied", "dropped", "raised"},
           Become(c, pc), UNCHANGED <<permission, allowfile, gate, said>>,
           GateOf(c).open, pc = "queued" => call[c].round < MaxRounds
    PROVE  GateInv'
<1>1. PICK one \in State :
          /\ call' = [call EXCEPT ![c] = one] /\ call'[c] = one
          /\ one = [call[c] EXCEPT !.pc = pc, !.waiter = "none"]
    <2>1. pc \in CallPc
        BY DEF CallPc
    <2> QED BY <2>1, BecomeOne, Zenon
<1>2. one.pc = pc /\ one.waiter = "none" /\ one.round = call[c].round
    BY <1>1, StateOf DEF State
<1>3. Sound(c)'
    <2>1. ~At(c, "idle")' /\ ~At(c, "asking")' /\ ~Granted(c)' /\ call'[c].waiter = "none"
        BY <1>1, <1>2 DEF At, Granted
    <2>2. At(c, "queued")' => call'[c].round < MaxRounds
        BY <1>1, <1>2 DEF At
    <2>3. GateOf(c)'.open
        BY DEF GateOf
    <2> QED BY <2>1, <2>2, <2>3 DEF Sound, Yes
<1> QED BY <1>1, <1>3, QuietKeeps

\* A call is granted without a question, on a standing grant that warrants it.
LEMMA GrantKeeps ==
    ASSUME GateInv, NEW c \in Call, NEW basis \in Basis \ {"none", "answer"},
           GrantedOn(c, basis), UNCHANGED <<permission, allowfile, gate, said>>,
           ~At(c, "asking"), GateOf(c).open,
           basis = "listed" => ActionOf[c] \in GateOf(c).allow,
           basis = "auto" => KindOf[c] \in {"routed", "inner"} /\ GateOf(c).auto,
           basis = "full" => KindOf[c] = "escape" /\ GateOf(c).full
    PROVE  GateInv'
<1>1. PICK one \in State :
          /\ call' = [call EXCEPT ![c] = one] /\ call'[c] = one
          /\ one = [call[c] EXCEPT !.pc = "granted", !.basis = basis]
    BY GrantedOne
<1>2. one.pc = "granted" /\ one.waiter = call[c].waiter /\ one.basis = basis
    BY <1>1, StateOf DEF State
<1>3. call[c].waiter = "none"
    BY DEF GateInv, WaitersAsk
<1>4. OwnerOf[c] \in Request
    BY GateAssumption
<1>5. /\ basis = "listed" => ListedBySaying(ActionOf[c])
      /\ basis = "auto" => OwnerOf[c] \in AutoApproved \/ GrantedWide({"session", "full"})
      /\ basis = "full" => GrantedWide({"full"})
    BY <1>4 DEF GateInv, StandingIsSaid, GateOf
<1>6. Warranted(c)'
    <2>1. /\ ListedBySaying(ActionOf[c])' <=> ListedBySaying(ActionOf[c])
          /\ \A scopes : GrantedWide(scopes)' <=> GrantedWide(scopes)
        BY DEF ListedBySaying, GrantedWide
    <2> QED BY <1>1, <1>2, <1>5, <2>1 DEF Warranted, Basis
<1>7. Sound(c)'
    BY <1>1, <1>2, <1>3, <1>6 DEF Sound, At, GateOf, Yes
<1> QED BY <1>1, <1>7, QuietKeeps

LEMMA RequireKeeps ==
    ASSUME GateInv, NEW c \in Call, Require(c) PROVE GateInv'
<1>1. /\ At(c, "idle") /\ GateOf(c).open /\ UNCHANGED <<permission, allowfile, gate, said>>
      /\ call[c].round = 0 /\ 0 < MaxRounds
    BY GateAssumption DEF Require, GateInv, RoundsLeft
<1>2. CASE KindOf[c] = "escape" /\ GateOf(c).full
    <2>1. GrantedOn(c, "full")
        BY <1>2, Zenon DEF Require
    <2> QED BY <1>1, <1>2, <2>1, GrantKeeps DEF Basis, At
<1>3. CASE ~(KindOf[c] = "escape" /\ GateOf(c).full)
    <2>1. Become(c, "queued")
        BY <1>3, Zenon DEF Require
    <2> QED BY <1>1, <2>1, BecomeKeeps
<1> QED BY <1>2, <1>3

LEMMA PassKeeps ==
    ASSUME GateInv, NEW c \in Call, Pass(c) PROVE GateInv'
<1>1. /\ At(c, "queued") /\ Standing(c) # "none" /\ GrantedOn(c, Standing(c))
      /\ UNCHANGED <<permission, allowfile, gate, said>>
    BY DEF Pass, GateFree
<1>2. ~At(c, "asking") /\ GateOf(c).open
    BY <1>1 DEF GateInv, GatesAreOpen, At
<1>3. KindOf[c] \in {"routed", "inner"}
    BY <1>1, GateAssumption DEF Standing
<1>4. \/ Standing(c) = "auto" /\ GateOf(c).auto
      \/ Standing(c) = "listed" /\ ActionOf[c] \in GateOf(c).allow
    BY <1>1, Zenon DEF Standing
<1>5. Standing(c) \in Basis \ {"none", "answer"}
    BY <1>4 DEF Basis
<1> QED BY <1>1, <1>2, <1>3, <1>4, <1>5, GrantKeeps

LEMMA CannotAskKeeps ==
    ASSUME GateInv, NEW c \in Call, NEW live \in BOOLEAN, CannotAsk(c, live) PROVE GateInv'
<1>1. /\ At(c, "queued") /\ UNCHANGED <<permission, allowfile, gate, said>>
      /\ \E pc \in {"raised", "denied"} : Become(c, pc)
    BY DEF CannotAsk, GateFree
<1>2. GateOf(c).open
    BY <1>1 DEF GateInv, GatesAreOpen, At
<1> QED BY <1>1, <1>2, BecomeKeeps

LEMMA FinishKeeps ==
    ASSUME GateInv, NEW c \in Call, Finish(c) PROVE GateInv'
<1>1. /\ At(c, "granted") /\ Become(c, "finished")
      /\ UNCHANGED <<permission, allowfile, gate, said>>
    BY DEF Finish
<1>2. PICK one \in State :
          /\ call' = [call EXCEPT ![c] = one] /\ call'[c] = one
          /\ one = [call[c] EXCEPT !.pc = "finished", !.waiter = "none"]
    <2>1. "finished" \in CallPc
        BY DEF CallPc
    <2> QED BY <1>1, <2>1, BecomeOne, Zenon
<1>3. one.pc = "finished" /\ one.waiter = "none" /\ one.basis = call[c].basis
    BY <1>2, StateOf DEF State
<1>4. Warranted(c)'
    BY <1>1, <1>2, <1>3, MoreIsSaid DEF GateInv, AllWarranted, Granted, At
<1>5. GateOf(c)'.open
    BY <1>1 DEF GateInv, GatesAreOpen, At, GateOf
<1>6. Sound(c)'
    BY <1>2, <1>3, <1>4, <1>5 DEF Sound, At, Yes
<1> QED BY <1>1, <1>2, <1>6, QuietKeeps

\* An answer and the end of the patience.
LEMMA DecideKeeps ==
    ASSUME GateInv, NEW c \in Call, NEW answer \in Answer, Decide(c, answer),
           said \subseteq said', said' \subseteq Yes \X (Call \cup {NoCall}),
           answer \in Yes => <<answer, c>> \in said',
           UNCHANGED <<permission, allowfile, gate>>
    PROVE  GateInv'
<1> DEFINE one == [call[c] EXCEPT !.waiter = answer]
<1>1. call[c] \in State /\ call \in [Call -> State] /\ At(c, "asking")
    BY StateOf DEF GateInv, GateTypeOK, State, Decide
<1>2. one \in State
    BY <1>1 DEF State, Waiter
<1>3. call' = [call EXCEPT ![c] = one] /\ call'[c] = one
    BY <1>1 DEF Decide
<1>4. one.pc = "asking" /\ one.waiter = answer /\ answer # "none"
    BY <1>1 DEF State, At, Answer, Yes, No
<1>5. StandingOK'
    BY MoreIsSaid DEF GateInv, GateTypeOK, StandingOK, StandingIsSaid
<1>6. \A d \in Call : At(d, "asking") => GateOf(d)'.holder = d
    BY DEF GateInv, OneQuestionPerGate, GateOf
<1>7. GateOf(c)'.open
    BY <1>1 DEF GateInv, GatesAreOpen, At, GateOf
<1>8. Sound(c)'
    BY <1>1, <1>3, <1>4, <1>6, <1>7 DEF Sound, At, Granted
<1>9. \A r \in Request : gate[r].open => gate'[r].open
    OBVIOUS
<1> HIDE DEF one
<1> QED BY <1>2, <1>3, <1>5, <1>6, <1>8, <1>9, CallKeeps

LEMMA ReplyKeeps ==
    ASSUME GateInv, NEW c \in Call, NEW answer \in Answer, Reply(c, answer) PROVE GateInv'
<1>1. said' = said \cup (({answer} \cap Yes) \X {c})
    BY DEF Reply
<1>2. said' \subseteq Yes \X (Call \cup {NoCall}) /\ said \subseteq said'
    BY <1>1 DEF GateInv, GateTypeOK
<1>3. answer \in Yes => <<answer, c>> \in said'
    BY <1>1
<1> QED BY <1>2, <1>3, DecideKeeps DEF Reply

LEMMA TimeOutKeeps ==
    ASSUME GateInv, NEW c \in Call, TimeOut(c) PROVE GateInv'
  BY DecideKeeps DEF TimeOut, Answer, Yes, No, GateInv, GateTypeOK

LEMMA AskKeeps ==
    ASSUME GateInv, NEW c \in Call, NEW live \in BOOLEAN, Ask(c, live) PROVE GateInv'
<1> DEFINE one == [call[c] EXCEPT !.pc = "asking", !.waiter = "open", !.round = @ + 1]
           r == OwnerOf[c]
<1>1. /\ At(c, "queued") /\ gate[r].holder = NoCall /\ r \in Request
      /\ call' = [call EXCEPT ![c] = one] /\ gate' = [gate EXCEPT ![r].holder = c]
      /\ UNCHANGED <<permission, allowfile, said>>
    <2>1. /\ At(c, "queued") /\ gate[r].holder = NoCall
          /\ gate' = [gate EXCEPT ![r].holder = c] /\ UNCHANGED <<permission, allowfile, said>>
        BY DEF Ask, GateFree, GateOf
    <2>2. r \in Request
        BY GateAssumption
    <2>3. call \in [Call -> State]
        BY DEF GateInv, GateTypeOK, State
    <2>4. call' = [call EXCEPT ![c] = one]
        BY <2>3 DEF Ask
    <2> QED BY <2>1, <2>2, <2>4
<1>2. call[c] \in State /\ call \in [Call -> State] /\ call[c].round < MaxRounds
    BY <1>1, StateOf DEF GateInv, GateTypeOK, State, RoundsLeft
<1>3. one \in State /\ one.pc = "asking" /\ one.waiter = "open"
    <2>1. call[c].round + 1 \in 0..MaxRounds
        BY <1>2, GateAssumption DEF State
    <2> QED BY <1>2, <2>1 DEF State, CallPc, Waiter
<1>4. call'[c] = one
    BY <1>1, <1>2
<1>5. /\ gate' \in [Request -> [open : BOOLEAN, auto : BOOLEAN, full : BOOLEAN,
                                allow : SUBSET Action, holder : Call \cup {NoCall}]]
      /\ \A q \in Request : /\ gate'[q].auto = gate[q].auto /\ gate'[q].full = gate[q].full
                            /\ gate'[q].allow = gate[q].allow /\ gate'[q].open = gate[q].open
      /\ \A q \in Request \ {r} : gate'[q] = gate[q]
      /\ gate'[r].holder = c
    BY <1>1 DEF GateInv, GateTypeOK
<1>6. \A d \in Call \ {c} : At(d, "asking") => OwnerOf[d] # r
    BY <1>1, GateAssumption DEF GateInv, OneQuestionPerGate, GateOf
<1>7. \A d \in Call \ {c} : At(d, "asking") => GateOf(d)'.holder = d
    BY <1>5, <1>6, GateAssumption DEF GateInv, OneQuestionPerGate, GateOf
<1>8. StandingOK'
    BY <1>1, <1>5, LocksOnly
<1>9. Sound(c)'
    <2>1. GateOf(c)'.open /\ GateOf(c)'.holder = c
        BY <1>1, <1>5 DEF GateInv, GatesAreOpen, At, GateOf
    <2>2. ~At(c, "idle")' /\ At(c, "asking")' /\ ~At(c, "queued")' /\ ~Granted(c)'
        BY <1>3, <1>4 DEF At, Granted
    <2> QED BY <1>3, <1>4, <2>1, <2>2 DEF Sound, Yes
<1>10. said \subseteq said' /\ \A q \in Request : gate[q].open => gate'[q].open
    BY <1>1, <1>5
<1> HIDE DEF one, r
<1> QED BY <1>1, <1>3, <1>7, <1>8, <1>9, <1>10, CallKeeps

LEMMA DropKeeps ==
    ASSUME GateInv, NEW c \in Call, Drop(c) PROVE GateInv'
<1> DEFINE r == OwnerOf[c]
<1>1. /\ call[c].pc \in {"queued", "asking"} /\ Become(c, "dropped") /\ r \in Request
      /\ gate' = [gate EXCEPT ![r].holder = IF @ = c THEN NoCall ELSE @]
      /\ UNCHANGED <<permission, allowfile, said>>
    BY GateAssumption DEF Drop
<1>2. PICK one \in State :
          /\ call' = [call EXCEPT ![c] = one] /\ call'[c] = one
          /\ one = [call[c] EXCEPT !.pc = "dropped", !.waiter = "none"]
    <2>1. "dropped" \in CallPc
        BY DEF CallPc
    <2> QED BY <1>1, <2>1, BecomeOne, Zenon
<1>3. one.pc = "dropped" /\ one.waiter = "none"
    BY <1>2, StateOf DEF State
<1>4. /\ gate' \in [Request -> [open : BOOLEAN, auto : BOOLEAN, full : BOOLEAN,
                                allow : SUBSET Action, holder : Call \cup {NoCall}]]
      /\ \A q \in Request : /\ gate'[q].auto = gate[q].auto /\ gate'[q].full = gate[q].full
                            /\ gate'[q].allow = gate[q].allow /\ gate'[q].open = gate[q].open
                            /\ gate[q].holder # c => gate'[q].holder = gate[q].holder
    BY <1>1 DEF GateInv, GateTypeOK
<1>5. \A d \in Call \ {c} : At(d, "asking") => GateOf(d)'.holder = d
    BY <1>4, GateAssumption DEF GateInv, OneQuestionPerGate, GateOf
<1>6. StandingOK'
    BY <1>1, <1>4, LocksOnly
<1>7. Sound(c)'
    <2>1. GateOf(c)'.open
        BY <1>1, <1>4 DEF GateInv, GatesAreOpen, At, GateOf
    <2>2. ~At(c, "idle")' /\ ~At(c, "asking")' /\ ~At(c, "queued")' /\ ~Granted(c)'
        BY <1>2, <1>3 DEF At, Granted
    <2> QED BY <1>2, <1>3, <2>1, <2>2 DEF Sound, Yes
<1>8. said \subseteq said' /\ \A q \in Request : gate[q].open => gate'[q].open
    BY <1>1, <1>4
<1> QED BY <1>2, <1>5, <1>6, <1>7, <1>8, CallKeeps

LEMMA HearKeeps ==
    ASSUME GateInv, NEW c \in Call, NEW live \in BOOLEAN, Hear(c, live) PROVE GateInv'
<1> DEFINE answer  == call[c].waiter
           r       == OwnerOf[c]
           heard   == live \/ ~Told(answer)
           actions == IF heard /\ Listed(c, answer) THEN {ActionOf[c]} ELSE {}
           basis   == IF heard /\ answer \in Yes THEN "answer" ELSE call[c].basis
           pc      == IF ~heard THEN "raised"
                      ELSE IF answer \in Yes THEN "granted"
                      ELSE IF Again(c, answer) THEN "queued" ELSE "denied"
           one     == [call[c] EXCEPT !.waiter = "none", !.basis = basis, !.pc = pc]
<1>1. /\ At(c, "asking") /\ answer \in Answer /\ UNCHANGED said
      /\ permission' = IF answer \in {"session", "full"} THEN answer ELSE permission
      /\ gate' = [gate EXCEPT ![r] = Scoped(@, answer, actions)]
      /\ allowfile' = IF actions = {} THEN allowfile ELSE gate[r].allow \cup actions
    BY DEF Hear
<1>2. call[c] \in State /\ call \in [Call -> State] /\ r \in Request /\ ActionOf[c] \in Action
    BY StateOf, GateAssumption DEF GateInv, GateTypeOK, State
<1>3. call' = [call EXCEPT ![c] = one]
    BY <1>2 DEF Hear
<1>4. pc \in {"raised", "granted", "queued", "denied"} /\ basis \in {"answer", call[c].basis}
    OBVIOUS
<1>5. pc = "granted" => basis = "answer" /\ answer \in Yes
    OBVIOUS
<1>6. pc = "queued" => call[c].round < MaxRounds
    BY DEF Again
<1>7. answer \in Yes => <<answer, c>> \in said
    BY DEF GateInv, WaitersAsk
<1>8. actions \subseteq Action /\ \A a \in actions : ListedBySaying(a)
    <2>1. CASE heard /\ Listed(c, answer)
        <3>1. actions = {ActionOf[c]}
            BY <2>1, Zenon
        <3>2. <<"once", c>> \in said
            BY <1>7, <2>1 DEF Listed, Yes
        <3> HIDE DEF actions
        <3> QED BY <1>2, <3>1, <3>2 DEF ListedBySaying
    <2>2. CASE ~(heard /\ Listed(c, answer))
        <3>1. actions = {}
            BY <2>2, Zenon
        <3> QED BY <3>1
    <2> QED BY <2>1, <2>2
<1> HIDE DEF pc, basis, actions, heard
<1>9. /\ one \in State /\ one.pc = pc /\ one.waiter = "none" /\ one.basis = basis
      /\ one.round = call[c].round
    BY <1>2, <1>4 DEF State, CallPc, Waiter, Basis
<1>10. call'[c] = one
    BY <1>2, <1>3
<1> HIDE DEF one, answer
<1>11. /\ gate' \in [Request -> [open : BOOLEAN, auto : BOOLEAN, full : BOOLEAN,
                                allow : SUBSET Action, holder : Call \cup {NoCall}]]
       /\ \A q \in Request \ {r} : gate'[q] = gate[q]
       /\ gate'[r].open = gate[r].open /\ gate'[r].allow = gate[r].allow \cup actions
       /\ gate'[r].auto = (gate[r].auto \/ answer \in {"session", "full"})
       /\ gate'[r].full = (gate[r].full \/ answer = "full")
    <2> DEFINE auto == gate[r].auto \/ answer \in {"session", "full"}
               full == gate[r].full \/ answer = "full"
               g    == [open |-> gate[r].open, auto |-> auto, full |-> full,
                        allow |-> gate[r].allow \cup actions, holder |-> NoCall]
               Gate == [open : BOOLEAN, auto : BOOLEAN, full : BOOLEAN,
                        allow : SUBSET Action, holder : Call \cup {NoCall}]
    <2>1. gate \in [Request -> Gate] /\ gate[r] \in Gate
        BY <1>2 DEF GateInv, GateTypeOK
    <2>2. auto \in BOOLEAN /\ full \in BOOLEAN
        OBVIOUS
    <2>3. Scoped(gate[r], answer, actions) =
              [gate[r] EXCEPT !.holder = NoCall, !.auto = auto, !.full = full,
                              !.allow = gate[r].allow \cup actions]
        BY DEF Scoped
    <2> HIDE DEF auto, full
    <2>4. Scoped(gate[r], answer, actions) = g /\ g \in Gate
        BY <1>8, <2>1, <2>2, <2>3
    <2>5. gate' = [gate EXCEPT ![r] = g]
        BY <1>1, <2>4
    <2> QED BY <1>2, <2>1, <2>4, <2>5 DEF auto, full
<1>12. \A d \in Call \ {c} : At(d, "asking") => GateOf(d)'.holder = d
    <2>1. \A d \in Call \ {c} : At(d, "asking") => OwnerOf[d] # r
        BY <1>1 DEF GateInv, OneQuestionPerGate, GateOf
    <2> QED BY <1>11, <2>1, GateAssumption DEF GateInv, OneQuestionPerGate, GateOf
<1>13. StandingOK'
    <2>1. /\ \A scopes : GrantedWide(scopes)' <=> GrantedWide(scopes)
          /\ \A a : ListedBySaying(a)' <=> ListedBySaying(a)
        BY <1>1 DEF GrantedWide, ListedBySaying
    <2>2. /\ answer \in {"session", "full"} => GrantedWide({"session", "full"})
          /\ answer = "full" => GrantedWide({"full"})
        BY <1>7 DEF GrantedWide, Yes
    <2>3. permission' \in Permission /\ allowfile' \subseteq Action /\ said' = said
        BY <1>1, <1>2, <1>8 DEF GateInv, GateTypeOK, Permission
    <2>4. /\ permission' # "ask" => GrantedWide({"session", "full"})
          /\ permission' = "full" => GrantedWide({"full"})
        BY <1>1, <2>2 DEF GateInv, StandingIsSaid
    <2>5. \A a \in allowfile' : ListedBySaying(a)
        BY <1>1, <1>2, <1>8 DEF GateInv, StandingIsSaid
    <2>6. ASSUME NEW q \in Request
          PROVE  /\ gate'[q].auto => q \in AutoApproved \/ GrantedWide({"session", "full"})
                 /\ gate'[q].full => GrantedWide({"full"})
                 /\ \A a \in gate'[q].allow : ListedBySaying(a)
        <3>1. CASE q = r
            BY <3>1, <1>8, <1>11, <2>2 DEF GateInv, StandingIsSaid
        <3>2. CASE q # r
            BY <3>2, <1>11 DEF GateInv, StandingIsSaid
        <3> QED BY <3>1, <3>2
    <2>7. StandingIsSaid'
        BY <2>1, <2>4, <2>5, <2>6 DEF StandingIsSaid
    <2> QED BY <1>11, <2>3, <2>7 DEF StandingOK, GateInv, GateTypeOK
<1>14. Sound(c)'
    <2>1. GateOf(c)'.open
        BY <1>1, <1>11 DEF GateInv, GatesAreOpen, At, GateOf
    <2>2. Warranted(c)' \/ pc # "granted"
        BY <1>1, <1>5, <1>7, <1>9, <1>10 DEF Warranted
    <2>3. call'[c].pc = pc /\ call'[c].waiter = "none" /\ call'[c].round = call[c].round
        BY <1>9, <1>10
    <2> QED BY <1>4, <1>6, <2>1, <2>2, <2>3 DEF Sound, At, Granted, Yes
<1>15. said \subseteq said' /\ \A q \in Request : gate[q].open => gate'[q].open
    BY <1>1, <1>11
<1> QED BY <1>3, <1>9, <1>12, <1>13, <1>14, <1>15, CallKeeps

LEMMA GateStep == GateInv /\ [GateNext]_gateVars => GateInv'
<1> SUFFICES ASSUME GateInv, [GateNext]_gateVars PROVE GateInv'
    OBVIOUS
<1>1. ASSUME NEW p \in Permission, SetPermission(p) PROVE GateInv'
    BY <1>1, SetPermissionKeeps
<1>2. ASSUME NEW r \in Request, OpenGate(r) PROVE GateInv'
    BY <1>2, OpenGateKeeps
<1>3. ASSUME NEW c \in Call, Require(c) \/ Pass(c) \/ TimeOut(c) \/ Drop(c) \/ Finish(c)
      PROVE  GateInv'
    BY <1>3, RequireKeeps, PassKeeps, TimeOutKeeps, DropKeeps, FinishKeeps
<1>4. ASSUME NEW c \in Call, NEW answer \in Answer, Reply(c, answer) PROVE GateInv'
    BY <1>4, ReplyKeeps
<1>5. ASSUME NEW c \in Call, NEW live \in BOOLEAN,
             CannotAsk(c, live) \/ Ask(c, live) \/ Hear(c, live)
      PROVE  GateInv'
    BY <1>5, CannotAskKeeps, AskKeeps, HearKeeps
<1>6. CASE UNCHANGED gateVars
    <2>1. /\ permission' = permission /\ allowfile' = allowfile /\ gate' = gate
          /\ call' = call /\ said' = said
        BY <1>6 DEF gateVars
    <2>2. AllWarranted'
        BY <2>1, MoreIsSaid DEF GateInv, AllWarranted, Granted
    <2>3. StandingIsSaid'
        BY <2>1 DEF GateInv, StandingIsSaid, GrantedWide, ListedBySaying
    <2> QED BY <2>1, <2>2, <2>3
        DEF GateInv, GateTypeOK, GatesAreOpen, RoundsLeft, OneQuestionPerGate, WaitersAsk, At,
            GateOf
<1> QED BY <1>1, <1>2, <1>3, <1>4, <1>5, <1>6 DEF GateNext

\* The invariant of the gates by themselves, whatever the turns around them do.
THEOREM GateInvariance == GateSpec => []GateInv
<1>1. GateInit => GateInv
    BY InitGate
<1>2. GateInv /\ [GateNext]_gateVars => GateInv'
    BY GateStep
<1> QED BY <1>1, <1>2, PTL DEF GateSpec

\* Types: no plan is asked for more often than the rounds allow.
THEOREM GateTypes == GateSpec => []GateTypeOK
<1>1. GateInv => GateTypeOK
    BY DEF GateInv
<1> QED BY <1>1, GateInvariance, PTL

\* ApprovalGate.require: the questions of a gate are serialised.
THEOREM QuestionsAreSerialised == GateSpec => []OneQuestionPerGate
<1>1. GateInv => OneQuestionPerGate
    BY DEF GateInv
<1> QED BY <1>1, GateInvariance, PTL

\* Nothing risky runs without a human's word for it, however questions, answers,
\* deadlines, permission changes and the ends of turns interleave.
THEOREM RiskIsAuthorised == GateSpec => []RiskyCallIsAuthorised
<1>1. GateInv => RiskyCallIsAuthorised
    BY DEF GateInv, AllWarranted, RiskyCallIsAuthorised, Granted, Warranted, ListedBySaying
<1> QED BY <1>1, GateInvariance, PTL

-----------------------------------------------------------------------------
\* The app server over the gates

\* The dictionaries of the chats, and that a pending question is one of a call.
ThreadShape == DOMAIN thread = Thread /\ \A h \in Thread : "slot" \in DOMAIN thread[h]

SlotsOK == \A h \in Thread : thread[h].slot \in Call \cup {None}

ScreenInv == GateInv /\ ThreadShape /\ SlotsOK /\ ShownQuestionWaits

LEMMA InitScreen == Init => ScreenInv
  BY InitGate DEF Init, ScreenInv, ThreadShape, SlotsOK, ShownQuestionWaits

\* A step that leaves the slots alone leaves the screens alone.
SameSlots == ThreadShape' /\ \A h \in Thread : thread'[h].slot = thread[h].slot

LEMMA OthersAreAlone ==
    ASSUME GateInv, NEW c \in Call,
           \/ \E pc \in CallPc : Become(c, pc)
           \/ \E basis \in Basis : GrantedOn(c, basis)
           \/ \E answer \in Answer : Decide(c, answer)
           \/ \E live \in BOOLEAN : Ask(c, live) \/ Hear(c, live)
    PROVE  \A d \in Call \ {c} : call'[d] = call[d]
  BY DEF GateInv, GateTypeOK, Become, GrantedOn, Decide, Ask, Hear

\* A step of call c: no screen may go on showing it unless it still waits.
LEMMA ShownKeeps ==
    ASSUME ScreenInv, NEW c \in Call, \A d \in Call \ {c} : call'[d] = call[d],
           \A h \in Thread :
               \/ thread'[h].slot = None
               \/ thread'[h].slot = thread[h].slot /\ thread[h].slot # c
               \/ /\ thread'[h].slot = c /\ ThreadOf[OwnerOf[c]] = h
                  /\ At(c, "asking")' /\ call'[c].waiter # "none"
    PROVE  ShownQuestionWaits'
  BY DEF ScreenInv, SlotsOK, ShownQuestionWaits, At

\* A call that does not wait is on no screen.
LEMMA UnaskedIsUnshown ==
    ASSUME ScreenInv, NEW c \in Call, ~At(c, "asking")
    PROVE  \A h \in Thread : thread[h].slot # None => thread[h].slot # c
  BY DEF ScreenInv, ShownQuestionWaits

\* A step that moves neither a screen nor a call that waits.
LEMMA QuietScreen ==
    ASSUME ScreenInv, SameSlots, UNCHANGED call PROVE ShownQuestionWaits'
  BY DEF ScreenInv, SameSlots, ShownQuestionWaits, At

\* An answer to a question leaves it on the screen.
LEMMA DecideShown ==
    ASSUME ScreenInv, SameSlots, NEW c \in Call, NEW answer \in Answer, Decide(c, answer)
    PROVE  ShownQuestionWaits'
<1>1. \A d \in Call \ {c} : call'[d] = call[d]
    BY OthersAreAlone DEF ScreenInv
<1>2. At(c, "asking")' /\ call'[c].waiter # "none"
    BY DEF Decide, At, ScreenInv, GateInv, GateTypeOK, Answer, Yes, No
<1>3. \A h \in Thread : thread[h].slot = c /\ c # None => ThreadOf[OwnerOf[c]] = h
    BY DEF ScreenInv, ShownQuestionWaits
<1> QED BY <1>1, <1>2, <1>3, ShownKeeps DEF SameSlots

\* The threads of requests and the event loop rewrite other fields of a chat.
LEMMA SlotStays ==
    ASSUME ThreadShape, NEW h \in Thread, NEW x, NEW y,
           \/ thread' = [thread EXCEPT ![h].prev = x, ![h].turn = y]
           \/ thread' = [thread EXCEPT ![h].handle = x, ![h].turn = y]
           \/ thread' = [thread EXCEPT ![h].handle = x]
    PROVE  SameSlots
<1>1. DOMAIN thread' = Thread /\ \A g \in Thread \ {h} : thread'[g] = thread[g]
    BY DEF ThreadShape
<1>2. \/ thread'[h] = [[thread[h] EXCEPT !.prev = x] EXCEPT !.turn = y]
      \/ thread'[h] = [[thread[h] EXCEPT !.handle = x] EXCEPT !.turn = y]
      \/ thread'[h] = [thread[h] EXCEPT !.handle = x]
    BY DEF ThreadShape
<1>3. "slot" \in DOMAIN thread'[h] /\ thread'[h].slot = thread[h].slot
    BY <1>2 DEF ThreadShape
<1> QED BY <1>1, <1>3 DEF SameSlots, ThreadShape

LEMMA NoSlotMoves == ASSUME ThreadShape, UNCHANGED thread PROVE SameSlots
  BY DEF ThreadShape, SameSlots

\* The HTTP threads touch neither calls nor gates.
LEMMA StreamScreen ==
    ASSUME ScreenInv, NEW r \in Request, Stream(r)
    PROVE  SameSlots /\ UNCHANGED gateVars
<1>1. UNCHANGED gateVars
    BY DEF Stream, Capture, Prepare, Follow, Poll, Drain
<1>2. CASE Prepare(r)
    <2>1. ThreadOf[r] \in Thread
        BY AppAssumption
    <2> QED BY <1>1, <1>2, <2>1, SlotStays DEF Prepare, ScreenInv
<1>3. CASE UNCHANGED thread
    BY <1>1, <1>3, NoSlotMoves DEF ScreenInv
<1> QED BY <1>2, <1>3 DEF Stream, Capture, Follow, Poll, Drain

LEMMA ExecuteScreen ==
    ASSUME ScreenInv, NEW r \in Request, Execute(r)
    PROVE  /\ SameSlots /\ UNCHANGED call
           /\ UNCHANGED gateVars \/ OpenGate(r)
<1>1. UNCHANGED gateVars \/ OpenGate(r)
    BY DEF Execute, Submit, SubmitRaises, Begin, End, Return, ReturnRaises
<1>2. UNCHANGED call
    BY <1>1 DEF gateVars, OpenGate
<1>3. SameSlots
    <2>1. ThreadOf[r] \in Thread
        BY AppAssumption
    <2>2. CASE Submit(r)
        BY <2>1, <2>2, SlotStays DEF Submit, ScreenInv
    <2>3. CASE Return(r)
        BY <2>1, <2>3, SlotStays DEF Return, ScreenInv
    <2>4. CASE ReturnRaises(r)
        BY <2>1, <2>4, SlotStays DEF ReturnRaises, ScreenInv
    <2>5. CASE UNCHANGED thread
        BY <2>5, NoSlotMoves DEF ScreenInv
    <2> QED BY <2>2, <2>3, <2>4, <2>5 DEF Execute, SubmitRaises, Begin, End
<1> QED BY <1>1, <1>2, <1>3

LEMMA SlotSet ==
    ASSUME ThreadShape, NEW h \in Thread, NEW s, thread' = [thread EXCEPT ![h].slot = s]
    PROVE  /\ ThreadShape' /\ thread'[h].slot = s
           /\ \A g \in Thread \ {h} : thread'[g].slot = thread[g].slot
<1>1. /\ DOMAIN thread' = Thread /\ \A g \in Thread \ {h} : thread'[g] = thread[g]
      /\ thread'[h] = [thread[h] EXCEPT !.slot = s]
    BY DEF ThreadShape
<1>2. "slot" \in DOMAIN thread'[h] /\ thread'[h].slot = s
    BY <1>1 DEF ThreadShape
<1> QED BY <1>1, <1>2 DEF ThreadShape

LEMMA PutQuestionScreen ==
    ASSUME ScreenInv, NEW c \in Call, PutQuestion(c)
    PROVE  /\ ThreadShape' /\ SlotsOK' /\ ShownQuestionWaits'
           /\ Ask(c, TRUE)
<1> DEFINE h == ThreadOf[OwnerOf[c]]
<1>1. /\ Ask(c, Live(c)) /\ Live(c) /\ thread' = [thread EXCEPT ![h].slot = c] /\ h \in Thread
    BY GateAssumption, AppAssumption DEF PutQuestion, Ask
<1>2. Ask(c, TRUE)
    BY <1>1 DEF Ask
<1>3. /\ ThreadShape' /\ thread'[h].slot = c
      /\ \A g \in Thread \ {h} : thread'[g].slot = thread[g].slot
    BY <1>1, SlotSet DEF ScreenInv
<1>4. \A d \in Call \ {c} : call'[d] = call[d]
    BY <1>2, OthersAreAlone DEF ScreenInv
<1>5. At(c, "asking")' /\ call'[c].waiter # "none"
    BY <1>2 DEF Ask, At, ScreenInv, GateInv, GateTypeOK
<1>6. ~At(c, "asking")
    BY <1>2 DEF Ask, GateFree, At
<1>7. \A g \in Thread \ {h} : thread[g].slot # None => thread[g].slot # c
    BY <1>6, UnaskedIsUnshown
<1>8. SlotsOK'
    BY <1>3 DEF SlotsOK, ScreenInv
<1> HIDE DEF h
<1>9. \A g \in Thread :
          \/ thread'[g].slot = None
          \/ thread'[g].slot = thread[g].slot /\ thread[g].slot # c
          \/ thread'[g].slot = c /\ g = h
    BY <1>3, <1>7
<1> QED BY <1>2, <1>3, <1>4, <1>5, <1>8, <1>9, ShownKeeps DEF h

\* The finally clause of the approver.
LEMMA UnshownScreen ==
    ASSUME ScreenInv, NEW c \in Call, Unshown(c), \A d \in Call \ {c} : call'[d] = call[d]
    PROVE  ThreadShape' /\ SlotsOK' /\ ShownQuestionWaits'
<1> DEFINE h == ThreadOf[OwnerOf[c]]
           s == IF thread[h].slot = c THEN None ELSE thread[h].slot
<1>1. h \in Thread
    BY GateAssumption, AppAssumption
<1>2. thread' = [thread EXCEPT ![h].slot = s]
    BY <1>1 DEF Unshown, ScreenInv, ThreadShape
<1>3. s \in {None, thread[h].slot} /\ (s = None \/ s # c)
    OBVIOUS
<1> HIDE DEF s, h
<1>4. /\ ThreadShape' /\ thread'[h].slot = s
      /\ \A g \in Thread \ {h} : thread'[g].slot = thread[g].slot
    BY <1>1, <1>2, SlotSet DEF ScreenInv
<1>5. SlotsOK'
    BY <1>1, <1>3, <1>4 DEF SlotsOK, ScreenInv
<1>6. \A g \in Thread \ {h} : thread[g].slot # None => thread[g].slot # c
    BY DEF ScreenInv, ShownQuestionWaits, h
<1>7. \A g \in Thread :
          thread'[g].slot = None \/ (thread'[g].slot = thread[g].slot /\ thread[g].slot # c)
    BY <1>3, <1>4, <1>6
<1> QED BY <1>4, <1>5, <1>7, ShownKeeps

LEMMA HearScreen ==
    ASSUME ScreenInv, NEW c \in Call, HearAnswer(c)
    PROVE  /\ ThreadShape' /\ SlotsOK' /\ ShownQuestionWaits'
           /\ \E live \in BOOLEAN : Hear(c, live)
<1>1. Hear(c, Live(c)) /\ Unshown(c)
    BY DEF HearAnswer
<1>2. \E live \in BOOLEAN : Hear(c, live)
    <2>1. Live(c) \in BOOLEAN
        BY DEF Live
    <2> QED BY <1>1, <2>1
<1>3. \A d \in Call \ {c} : call'[d] = call[d]
    BY <1>2, OthersAreAlone DEF ScreenInv
<1> QED BY <1>1, <1>2, <1>3, UnshownScreen

LEMMA DropScreen ==
    ASSUME ScreenInv, NEW c \in Call, DropQuestion(c)
    PROVE  /\ ThreadShape' /\ SlotsOK' /\ ShownQuestionWaits'
           /\ Drop(c)
<1>1. Drop(c) /\ Unshown(c) /\ Become(c, "dropped")
    BY DEF DropQuestion, Drop
<1>2. \A d \in Call \ {c} : call'[d] = call[d]
    BY <1>1, OthersAreAlone DEF ScreenInv, CallPc
<1> QED BY <1>1, <1>2, UnshownScreen

LEMMA QuietStepScreen ==
    ASSUME ScreenInv, NEW c \in Call, QuietStep(c)
    PROVE  /\ ThreadShape' /\ SlotsOK' /\ ShownQuestionWaits'
           /\ Require(c) \/ Pass(c) \/ Finish(c) \/ \E live \in BOOLEAN : CannotAsk(c, live)
<1>1. UNCHANGED thread /\ SameSlots
    BY NoSlotMoves DEF QuietStep, appVars, ScreenInv
<1>2. Require(c) \/ Pass(c) \/ Finish(c) \/ \E live \in BOOLEAN : CannotAsk(c, live)
    <2>1. Live(c) \in BOOLEAN
        BY DEF Live
    <2> QED BY <2>1 DEF QuietStep
<1>3. ~At(c, "asking")
    BY <1>2 DEF Require, Pass, Finish, CannotAsk, GateFree, At
<1>4. \/ \E pc \in {"queued", "finished", "raised", "denied"} : Become(c, pc)
      \/ \E basis \in {"full", "auto", "listed", "none"} : GrantedOn(c, basis)
    BY <1>2, Zenon DEF Require, Pass, Finish, CannotAsk, Standing
<1>5. \A d \in Call \ {c} : call'[d] = call[d]
    <2>1. \/ \E pc \in CallPc : Become(c, pc)
          \/ \E basis \in Basis : GrantedOn(c, basis)
        BY <1>4 DEF CallPc, Basis
    <2> QED BY <2>1, OthersAreAlone DEF ScreenInv
<1>6. ShownQuestionWaits'
    BY <1>1, <1>3, <1>5, UnaskedIsUnshown, ShownKeeps
<1> QED BY <1>1, <1>2, <1>6 DEF SameSlots, SlotsOK, ScreenInv

\* A cancellation ends the wait of the question on the screen, and answers no other.
LEMMA UnblockedTimesOut ==
    ASSUME ScreenInv, NEW h \in Thread, call' = Unblocked(h),
           UNCHANGED <<permission, allowfile, gate, said>>
    PROVE  UNCHANGED gateVars \/ \E c \in Call : TimeOut(c)
<1> DEFINE c == thread[h].slot
<1>1. CASE c # None /\ call[c].waiter = "open"
    <2>1. c \in Call
        BY <1>1 DEF ScreenInv, SlotsOK
    <2>2. At(c, "asking")
        BY <1>1, <2>1 DEF ScreenInv, GateInv, WaitersAsk
    <2>3. call' = [call EXCEPT ![c].waiter = "no"]
        BY <1>1 DEF Unblocked
    <2>4. TimeOut(c)
        BY <1>1, <2>2, <2>3 DEF TimeOut, Decide
    <2> QED BY <2>1, <2>4
<1>2. CASE ~(c # None /\ call[c].waiter = "open")
    <2>1. call' = call
        BY <1>2 DEF Unblocked
    <2> QED BY <2>1 DEF gateVars
<1> QED BY <1>1, <1>2

LEMMA UnblockedScreen ==
    ASSUME ScreenInv, SameSlots, UNCHANGED gateVars \/ \E c \in Call : TimeOut(c)
    PROVE  ShownQuestionWaits'
<1>1. CASE UNCHANGED gateVars
    BY <1>1, QuietScreen DEF gateVars
<1>2. ASSUME NEW c \in Call, TimeOut(c) PROVE ShownQuestionWaits'
    BY <1>2, DecideShown DEF TimeOut, Answer, No
<1> QED BY <1>1, <1>2

\* Approve and Patience.
LEMMA DecideScreen ==
    ASSUME ScreenInv, NEW c \in Call, NEW answer \in Answer, Decide(c, answer), UNCHANGED thread
    PROVE  ThreadShape' /\ SlotsOK' /\ ShownQuestionWaits'
<1>1. SameSlots
    BY NoSlotMoves DEF ScreenInv
<1> QED BY <1>1, DecideShown DEF SameSlots, SlotsOK, ScreenInv

LEMMA CancelScreen ==
    ASSUME ScreenInv, NEW h \in Thread, Cancel(h) \/ CancelUnbegun(h)
    PROVE  /\ ThreadShape' /\ SlotsOK' /\ ShownQuestionWaits'
           /\ UNCHANGED gateVars \/ \E c \in Call : TimeOut(c)
<1>1. UNCHANGED gateVars \/ \E c \in Call : TimeOut(c)
    BY UnblockedTimesOut DEF Cancel, CancelUnbegun
<1>2. SameSlots
    <2>1. CASE CancelUnbegun(h)
        <3>1. thread' = [thread EXCEPT ![h].handle = None]
            BY <2>1 DEF CancelUnbegun
        <3> QED BY <3>1, SlotStays DEF ScreenInv
    <2>2. CASE Cancel(h)
        BY <2>2, NoSlotMoves DEF Cancel, appVars, ScreenInv
    <2> QED BY <2>1, <2>2
<1> QED BY <1>1, <1>2, UnblockedScreen DEF SameSlots, SlotsOK, ScreenInv

\* Every step of the server is a step of the gates, or leaves them alone, and
\* keeps the screens.
LEMMA ServerStep ==
    ASSUME ScreenInv, [Next]_vars
    PROVE  /\ ThreadShape' /\ SlotsOK' /\ ShownQuestionWaits'
           /\ GateNext \/ UNCHANGED gateVars
<1> DEFINE Goal == /\ ThreadShape' /\ SlotsOK' /\ ShownQuestionWaits'
                   /\ GateNext \/ UNCHANGED gateVars
<1>1. ASSUME SameSlots, UNCHANGED call PROVE ThreadShape' /\ SlotsOK' /\ ShownQuestionWaits'
    BY <1>1, QuietScreen DEF SameSlots, SlotsOK, ScreenInv
<1>2. ASSUME NEW r \in Request, Stream(r) PROVE Goal
    BY <1>1, <1>2, StreamScreen DEF gateVars
<1>3. ASSUME NEW r \in Request, Execute(r) PROVE Goal
    BY <1>1, <1>3, ExecuteScreen DEF GateNext
<1>4. ASSUME NEW c \in Call, CallStep(c) PROVE Goal
    <2>1. CASE PutQuestion(c)
        BY <2>1, PutQuestionScreen DEF GateNext
    <2>2. CASE HearAnswer(c)
        BY <2>2, HearScreen DEF GateNext
    <2>3. CASE DropQuestion(c)
        BY <2>3, DropScreen DEF GateNext
    <2>4. CASE QuietStep(c)
        BY <2>4, QuietStepScreen DEF GateNext
    <2> QED BY <1>4, <2>1, <2>2, <2>3, <2>4 DEF CallStep
<1>5. ASSUME NEW c \in Call, Patience(c) PROVE Goal
    <2>1. TimeOut(c) /\ UNCHANGED thread
        BY <1>5 DEF Patience, appVars
    <2>2. ThreadShape' /\ SlotsOK' /\ ShownQuestionWaits'
        BY <2>1, DecideScreen DEF TimeOut, Answer, No
    <2> QED BY <2>1, <2>2 DEF GateNext
<1>6. ASSUME NEW c \in Call, NEW answer \in Offered, Approve(c, answer) PROVE Goal
    <2>1. Reply(c, answer) /\ UNCHANGED thread /\ answer \in Answer
        BY <1>6, AppAssumption DEF Approve, appVars
    <2>2. ThreadShape' /\ SlotsOK' /\ ShownQuestionWaits'
        BY <2>1, DecideScreen DEF Reply
    <2> QED BY <2>1, <2>2 DEF GateNext
<1>7. ASSUME NEW h \in Thread, Cancel(h) \/ CancelUnbegun(h) PROVE Goal
    BY <1>7, CancelScreen DEF GateNext
<1>8. CASE UNCHANGED vars
    <2>1. UNCHANGED gateVars /\ UNCHANGED thread
        BY <1>8 DEF vars, gateVars
    <2> QED BY <1>1, <2>1, NoSlotMoves DEF ScreenInv, gateVars
<1> QED BY <1>2, <1>3, <1>4, <1>5, <1>6, <1>7, <1>8 DEF Next, Client

LEMMA ScreenInvariance == Spec => []ScreenInv
<1>1. Init => ScreenInv
    BY InitScreen
<1>2. ScreenInv /\ [Next]_vars => ScreenInv'
    <2> SUFFICES ASSUME ScreenInv, [Next]_vars PROVE ScreenInv'
        OBVIOUS
    <2>1. [GateNext]_gateVars /\ ThreadShape' /\ SlotsOK' /\ ShownQuestionWaits'
        BY ServerStep
    <2> QED BY <2>1, GateStep DEF ScreenInv
<1> QED BY <1>1, <1>2, PTL DEF Spec

\* _make_web_approver, thread/approve, thread/cancel: a question on the screen of
\* a chat waits there for an answer, through any interleaving of the requests,
\* the turns and the clients.
THEOREM ScreensShowWhatWaits == Spec => []ShownQuestionWaits
<1>1. ScreenInv => ShownQuestionWaits
    BY DEF ScreenInv
<1> QED BY <1>1, ScreenInvariance, PTL

\* The app server implements the gates: what is proved of them holds of it.
THEOREM ServerImplementsGates == Spec => GateSpec
<1>1. Init => GateInit
    BY DEF Init
<1>2. ScreenInv /\ [Next]_vars => [GateNext]_gateVars
    BY ServerStep
<1> QED BY <1>1, <1>2, ScreenInvariance, PTL DEF Spec, GateSpec

\* So nothing risky runs in the server without a human's word for it.
COROLLARY ServerAsksForRisk == Spec => []RiskyCallIsAuthorised
  BY ServerImplementsGates, RiskIsAuthorised, PTL

-----------------------------------------------------------------------------
\* What a stream has shown

\* A question in a journal is one of a call.
Noted == {e \in Event : e.kind = "required" => e.call \in Call}

Turned == [thread : Thread, over : BOOLEAN, log : Seq(Noted)]

\* What a request and a chat know, when the turns are numbered by D.
Asked(D) ==
    [pc : ReqPc, turn : D \cup {None}, shared : BOOLEAN, prev : D \cup {None},
     follows : D \cup {None}, upto : Nat, shown : SUBSET Call]

Chatted(D) ==
    [turn : D \cup {None}, prev : D \cup {None}, handle : Request \cup {None},
     slot : Call \cup {None}]

TurnsOK(ts) == ts \in Seq(Turned) /\ Len(ts) <= MaxTurns

\* No turn is forgotten, no journal shrinks, and that of a turn that is over stays.
Grown(ts, us) ==
    /\ DOMAIN ts \subseteq DOMAIN us
    /\ \A t \in DOMAIN ts :
          /\ ts[t].over => us[t] = ts[t]
          /\ Len(ts[t].log) <= Len(us[t].log)

HasTurn == {"submitted", "running", "ended", "answered", "done"}

HasEnded == {"ended", "answered", "done"}

\* Where a request is, of its turn and the one it follows: a request that was
\* executed has a turn, over when the execution has ended; a stream that is done has
\* shown it to its end.
AskedOK(r, s, ts) ==
    /\ IF s.follows = None THEN s.upto = 0 ELSE s.upto <= Len(ts[s.follows].log)
    /\ s.pc \in HasTurn => s.turn \in DOMAIN ts
    /\ s.pc \in HasEnded => ts[s.turn].over
    /\ (r \in Streaming /\ s.pc = "done" /\ s.turn # s.prev) =>
           s.follows = s.turn /\ s.upto = Len(ts[s.turn].log)

ServerInv ==
    /\ TurnsOK(turns)
    /\ req \in [Request -> Asked(DOMAIN turns)]
    /\ \A r \in Request : AskedOK(r, req[r], turns)
    /\ thread \in [Thread -> Chatted(DOMAIN turns)]

LEMMA InitServer == Init => ServerInv
<1> SUFFICES ASSUME Init PROVE ServerInv
    OBVIOUS
<1>1. turns = <<>> /\ turns \in Seq(Turned) /\ Len(turns) = 0
    BY EmptySeq DEF Init
<1>2. TurnsOK(turns)
    BY <1>1, AppAssumption DEF TurnsOK
<1>3. req \in [Request -> Asked(DOMAIN turns)]
    BY DEF Init, Asked, ReqPc
<1>4. \A r \in Request : AskedOK(r, req[r], turns)
    BY DEF Init, AskedOK, HasTurn, HasEnded
<1>5. thread \in [Thread -> Chatted(DOMAIN turns)]
    BY DEF Init, Chatted
<1> QED BY <1>2, <1>3, <1>4, <1>5 DEF ServerInv

\* Nothing that was known of a request or a chat is lost as the turns grow.
LEMMA GrownKeeps ==
    ASSUME NEW ts, NEW us, TurnsOK(ts), TurnsOK(us), Grown(ts, us), NEW r,
           NEW s \in Asked(DOMAIN ts), AskedOK(r, s, ts)
    PROVE  s \in Asked(DOMAIN us) /\ AskedOK(r, s, us)
<1>1. s \in Asked(DOMAIN us)
    BY DEF Grown, Asked
<1>2. ASSUME s.follows # None PROVE s.upto <= Len(us[s.follows].log)
    <2>1. s.follows \in DOMAIN ts /\ s.follows \in DOMAIN us /\ s.upto \in Nat
        BY <1>2 DEF Asked, Grown
    <2>2. ts[s.follows] \in Turned /\ us[s.follows] \in Turned
        BY <2>1, ElementOfSeq DEF TurnsOK
    <2>3. Len(ts[s.follows].log) \in Nat /\ Len(us[s.follows].log) \in Nat
        BY <2>2, LenProperties DEF Turned
    <2> QED BY <1>2, <2>1, <2>3 DEF AskedOK, Grown
<1>3. ASSUME s.pc \in HasEnded PROVE us[s.turn] = ts[s.turn]
    BY <1>3 DEF AskedOK, Grown, HasEnded, HasTurn
<1>4. s.pc = "done" => s.pc \in HasEnded
    BY DEF HasEnded
<1> QED BY <1>1, <1>2, <1>3, <1>4 DEF AskedOK, Grown

LEMMA GrownChat ==
    ASSUME NEW ts, NEW us, Grown(ts, us), NEW s \in Chatted(DOMAIN ts)
    PROVE  s \in Chatted(DOMAIN us)
  BY DEF Grown, Chatted

LEMMA GrownSame == ASSUME NEW ts PROVE Grown(ts, ts)
<1>1. \A t \in DOMAIN ts : Len(ts[t].log) <= Len(ts[t].log)
    OBVIOUS
<1> QED BY <1>1 DEF Grown

\* A step that lets the turns grow, and of the requests changes one.
LEMMA OneRequest ==
    ASSUME ServerInv, TurnsOK(turns)', Grown(turns, turns'), NEW r \in Request, NEW s,
           req' = [req EXCEPT ![r] = s], s \in Asked(DOMAIN turns'), AskedOK(r, s, turns')
    PROVE  /\ req' \in [Request -> Asked(DOMAIN turns')]
           /\ \A q \in Request : AskedOK(q, req'[q], turns')
<1>1. \A q \in Request : req[q] \in Asked(DOMAIN turns') /\ AskedOK(q, req[q], turns')
    BY GrownKeeps DEF ServerInv, TurnsOK
<1>2. req' \in [Request -> Asked(DOMAIN turns')]
    BY <1>1 DEF ServerInv
<1>3. \A q \in Request : req'[q] = IF q = r THEN s ELSE req[q]
    BY DEF ServerInv
<1> QED BY <1>1, <1>2, <1>3

\* ... and one that changes no request.
LEMMA NoRequest ==
    ASSUME ServerInv, TurnsOK(turns)', Grown(turns, turns'), UNCHANGED req
    PROVE  /\ req' \in [Request -> Asked(DOMAIN turns')]
           /\ \A q \in Request : AskedOK(q, req'[q], turns')
<1>1. \A q \in Request : req[q] \in Asked(DOMAIN turns') /\ AskedOK(q, req[q], turns')
    BY GrownKeeps DEF ServerInv, TurnsOK
<1> QED BY <1>1 DEF ServerInv

LEMMA ChatsKeep ==
    ASSUME ServerInv, Grown(turns, turns'), UNCHANGED thread
    PROVE  thread' \in [Thread -> Chatted(DOMAIN turns')]
  BY GrownChat DEF ServerInv

LEMMA TurnsStay ==
    ASSUME ServerInv, UNCHANGED turns
    PROVE  TurnsOK(turns)' /\ Grown(turns, turns') /\ DOMAIN turns' = DOMAIN turns
  BY GrownSame DEF ServerInv, TurnsOK

\* An event is written to the journal of a turn that is not over.
LEMMA LoggedGrows ==
    ASSUME ServerInv, NEW t \in DOMAIN turns, ~turns[t].over, NEW e \in Noted, NEW over \in BOOLEAN,
           Logged(t, e, over)
    PROVE  TurnsOK(turns)' /\ Grown(turns, turns') /\ (over => turns'[t].over)
<1>1. turns \in Seq(Turned) /\ turns[t] \in Turned /\ Len(turns) <= MaxTurns
    BY ElementOfSeq DEF ServerInv, TurnsOK
<1> DEFINE new == [thread |-> turns[t].thread, over |-> over, log |-> Append(turns[t].log, e)]
<1>2. /\ Append(turns[t].log, e) \in Seq(Noted)
      /\ Len(Append(turns[t].log, e)) = Len(turns[t].log) + 1
    BY <1>1, AppendProperties DEF Turned
<1>3. new \in Turned
    BY <1>1, <1>2 DEF Turned
<1>4. turns' = [turns EXCEPT ![t] = new]
    <2>1. turns' = [turns EXCEPT ![t].log = Append(turns[t].log, e), ![t].over = over]
        BY <1>1 DEF Logged
    <2>2. ASSUME NEW old \in Turned, NEW log
          PROVE  [[old EXCEPT !.log = log] EXCEPT !.over = over] =
                     [thread |-> old.thread, over |-> over, log |-> log]
        <3>1. old = [thread |-> old.thread, over |-> old.over, log |-> old.log]
            BY DEF Turned
        <3>2. PICK mid : mid = [old EXCEPT !.log = log]
            OBVIOUS
        <3>3. mid = [thread |-> old.thread, over |-> old.over, log |-> log]
            BY <3>1, <3>2
        <3>4. [mid EXCEPT !.over = over] = [thread |-> old.thread, over |-> over, log |-> log]
            BY <3>3
        <3> QED BY <3>2, <3>4
    <2>3. [[turns[t] EXCEPT !.log = Append(turns[t].log, e)] EXCEPT !.over = over] = new
        BY <1>1, <2>2
    <2> QED BY <2>1, <2>3
<1>5. Len(new.log) = Len(turns[t].log) + 1 /\ new.over = over
    BY <1>2
<1> HIDE DEF new
<1>6. /\ turns' \in Seq(Turned) /\ Len(turns') = Len(turns) /\ DOMAIN turns' = DOMAIN turns
      /\ turns'[t] = new /\ \A u \in DOMAIN turns \ {t} : turns'[u] = turns[u]
    BY <1>1, <1>3, <1>4, ExceptSeq
<1>7. \A u \in DOMAIN turns : Len(turns[u].log) \in Nat
    BY <1>1, ElementOfSeq, LenProperties DEF Turned
<1>8. \A u \in DOMAIN turns : Len(turns[u].log) <= Len(turns'[u].log)
    BY <1>5, <1>6, <1>7
<1> QED BY <1>1, <1>5, <1>6, <1>8 DEF TurnsOK, Grown

LEMMA TurnBegins ==
    ASSUME ServerInv, NEW h \in Thread, Len(turns) + 1 <= MaxTurns,
           turns' = Append(turns, [thread |-> h, over |-> FALSE, log |-> <<Ev("accepted", NoCall)>>])
    PROVE  TurnsOK(turns)' /\ Grown(turns, turns') /\ Len(turns) + 1 \in DOMAIN turns'
<1> DEFINE new == [thread |-> h, over |-> FALSE, log |-> <<Ev("accepted", NoCall)>>]
<1>1. Ev("accepted", NoCall) \in Noted
    BY DEF Ev, Noted, Event
<1>2. <<Ev("accepted", NoCall)>> \in Seq(Noted)
    BY <1>1
<1>3. new \in Turned
    BY <1>2 DEF Turned
<1> HIDE DEF new
<1>4. turns \in Seq(Turned) /\ turns' = Append(turns, new)
    BY DEF ServerInv, TurnsOK, new
<1>5. /\ turns' \in Seq(Turned) /\ Len(turns') = Len(turns) + 1
      /\ \A i \in 1..Len(turns) : turns'[i] = turns[i]
    BY <1>3, <1>4, AppendProperties
<1>6. DOMAIN turns = 1..Len(turns) /\ DOMAIN turns' = 1..Len(turns') /\ Len(turns) \in Nat
    BY <1>4, <1>5, LenProperties
<1>7. \A u \in DOMAIN turns : Len(turns[u].log) <= Len(turns'[u].log)
    BY <1>5, <1>6, <1>4, ElementOfSeq, LenProperties DEF Turned
<1> QED BY <1>5, <1>6, <1>7 DEF TurnsOK, Grown

\* The questions in the rest of a journal are of calls.
LEMMA NewsAreCalls ==
    ASSUME NEW log \in Seq(Noted), NEW from \in Nat
    PROVE  Questions(SubSeq(log, from + 1, Len(log))) \subseteq Call
<1>1. Len(log) \in Nat /\ \A i \in (from + 1)..Len(log) : log[i] \in Noted
    BY ElementOfSeq, LenProperties
<1>2. SubSeq(log, from + 1, Len(log)) \in Seq(Noted)
    BY <1>1, SubSeqProperties
<1>3. \A i \in DOMAIN SubSeq(log, from + 1, Len(log)) : SubSeq(log, from + 1, Len(log))[i] \in Noted
    BY <1>2, ElementOfSeq
<1> QED BY <1>3 DEF Questions, Noted

\* _emit_turn_events leaves the stream at the end of the turn.
LEMMA EmittedType ==
    ASSUME ServerInv, NEW r \in Request, NEW t \in DOMAIN turns
    PROVE  /\ Emitted(req[r], t) \in Asked(DOMAIN turns)
           /\ Emitted(req[r], t).follows = t
           /\ Emitted(req[r], t).upto = Len(turns[t].log)
           /\ \A f \in {"pc", "turn", "prev"} : Emitted(req[r], t)[f] = req[r][f]
<1>1. req[r] \in Asked(DOMAIN turns) /\ turns[t].log \in Seq(Noted)
    <2>1. turns \in Seq(Turned) /\ req[r] \in Asked(DOMAIN turns)
        BY DEF ServerInv, TurnsOK
    <2>2. turns[t] \in Turned
        BY <2>1, ElementOfSeq
    <2> QED BY <2>1, <2>2 DEF Turned
<1> DEFINE from == IF req[r].follows = t THEN req[r].upto ELSE 0
           told == Questions(SubSeq(turns[t].log, from + 1, Len(turns[t].log)))
<1>2. from \in Nat
    BY <1>1 DEF Asked
<1>3. told \subseteq Call
    BY <1>1, <1>2, NewsAreCalls
<1>4. Len(turns[t].log) \in Nat
    BY <1>1, LenProperties
<1>5. Emitted(req[r], t) =
        [req[r] EXCEPT !.follows = t, !.upto = Len(turns[t].log), !.shown = req[r].shown \cup told]
    BY DEF Emitted
<1> HIDE DEF told
<1> QED BY <1>1, <1>3, <1>4, <1>5 DEF Asked

LEMMA ServerParts ==
    ASSUME ServerInv, NEW r \in Request
    PROVE  /\ req[r] \in Asked(DOMAIN turns) /\ AskedOK(r, req[r], turns)
           /\ ThreadOf[r] \in Thread /\ thread[ThreadOf[r]] \in Chatted(DOMAIN turns)
           /\ None \notin DOMAIN turns
<1>1. turns \in Seq(Turned)
    BY DEF ServerInv, TurnsOK
<1>2. DOMAIN turns = 1..Len(turns) /\ Len(turns) \in Nat
    BY <1>1, LenProperties
<1>3. None \notin DOMAIN turns
    BY <1>2, AppAssumption
<1> QED BY <1>3, AppAssumption DEF ServerInv

\* A request that moves on but is not executed: nothing is claimed of its turn yet.
LEMMA MovesBefore ==
    ASSUME ServerInv, NEW r \in Request, NEW pc \in ReqPc \ HasTurn,
           NEW prev \in DOMAIN turns \cup {None}, UNCHANGED turns,
           req' = [req EXCEPT ![r].pc = pc, ![r].prev = prev]
    PROVE  /\ req' \in [Request -> Asked(DOMAIN turns')]
           /\ \A q \in Request : AskedOK(q, req'[q], turns')
<1>1. req[r] \in Asked(DOMAIN turns) /\ AskedOK(r, req[r], turns)
    BY ServerParts
<1>2. PICK s : s = [[req[r] EXCEPT !.pc = pc] EXCEPT !.prev = prev]
    OBVIOUS
<1>3. s \in Asked(DOMAIN turns) /\ s.pc = pc /\ s.follows = req[r].follows /\ s.upto = req[r].upto
    BY <1>1, <1>2 DEF Asked
<1>4. AskedOK(r, s, turns)
    BY <1>1, <1>3 DEF AskedOK, HasTurn, HasEnded
<1>5. req' = [req EXCEPT ![r] = s]
    BY <1>2
<1> QED BY <1>3, <1>4, <1>5, OneRequest, TurnsStay

LEMMA PrepareServer ==
    ASSUME ServerInv, NEW r \in Request, Capture(r) \/ Prepare(r)
    PROVE  ServerInv'
<1>1. UNCHANGED turns
    BY DEF Capture, Prepare
<1>2. TurnsOK(turns)' /\ Grown(turns, turns') /\ DOMAIN turns' = DOMAIN turns
    BY <1>1, TurnsStay
<1>3. PICK h : h = ThreadOf[r]
    OBVIOUS
<1>4. h \in Thread /\ thread[h] \in Chatted(DOMAIN turns) /\ req[r] \in Asked(DOMAIN turns)
    BY <1>3, ServerParts
<1>5. thread[h].turn \in DOMAIN turns \cup {None} /\ thread[h].prev \in DOMAIN turns \cup {None}
    BY <1>4 DEF Chatted
<1>6. CASE Capture(r)
    <2>1. "captured" \in ReqPc \ HasTurn
        BY DEF ReqPc, HasTurn
    <2>2. req' = [req EXCEPT ![r].pc = "captured", ![r].prev = thread[h].turn] /\ UNCHANGED thread
        BY <1>3, <1>6 DEF Capture
    <2> QED BY <1>1, <1>2, <1>5, <2>1, <2>2, MovesBefore, ChatsKeep DEF ServerInv
<1>7. CASE Prepare(r)
    <2>1. PICK stash : stash = IF thread[h].turn # None THEN thread[h].turn ELSE thread[h].prev
        OBVIOUS
    <2>2. PICK prev : prev = IF req[r].prev = None /\ r \in Streaming THEN stash ELSE req[r].prev
        OBVIOUS
    <2>3. /\ thread' = [thread EXCEPT ![h].prev = stash, ![h].turn = None]
          /\ req' = [req EXCEPT ![r].pc = "prepared", ![r].prev = prev]
        BY <1>3, <1>4, <1>7, <2>1, <2>2 DEF Prepare, ServerInv
    <2>4. stash \in DOMAIN turns \cup {None} /\ prev \in DOMAIN turns \cup {None}
        BY <1>4, <1>5, <2>1, <2>2 DEF Asked
    <2>5. "prepared" \in ReqPc \ HasTurn
        BY DEF ReqPc, HasTurn
    <2>6. thread' \in [Thread -> Chatted(DOMAIN turns')]
        BY <1>2, <1>4, <2>3, <2>4 DEF ServerInv, Chatted
    <2> QED BY <1>1, <1>2, <2>3, <2>4, <2>5, <2>6, MovesBefore DEF ServerInv
<1> QED BY <1>6, <1>7

LEMMA PollServer ==
    ASSUME ServerInv, NEW r \in Request, Follow(r) \/ Poll(r)
    PROVE  ServerInv'
<1>1. UNCHANGED turns /\ UNCHANGED thread /\ req[r].pc \notin {"answered", "done"}
    BY DEF Follow, Poll, Polling
<1>2. TurnsOK(turns)' /\ Grown(turns, turns') /\ DOMAIN turns' = DOMAIN turns
    BY <1>1, TurnsStay
<1>3. PICK h : h = ThreadOf[r]
    OBVIOUS
<1>4. /\ h \in Thread /\ thread[h] \in Chatted(DOMAIN turns)
      /\ req[r] \in Asked(DOMAIN turns) /\ AskedOK(r, req[r], turns) /\ None \notin DOMAIN turns
    BY <1>3, ServerParts
<1>5. ASSUME NEW s \in Asked(DOMAIN turns), req' = [req EXCEPT ![r] = s],
             s.pc = req[r].pc, s.turn = req[r].turn, s.prev = req[r].prev,
             IF s.follows = None THEN s.upto = 0 ELSE s.upto <= Len(turns[s.follows].log)
      PROVE  ServerInv'
    <2>1. AskedOK(r, s, turns)
        BY <1>1, <1>4, <1>5 DEF AskedOK
    <2> QED BY <1>1, <1>2, <1>5, <2>1, OneRequest, ChatsKeep DEF ServerInv
<1>6. CASE Follow(r)
    <2>1. PICK t : t = thread[h].turn
        OBVIOUS
    <2>2. t \in DOMAIN turns /\ req[r].follows = None /\ req[r].upto = 0
        BY <1>3, <1>4, <1>6, <2>1 DEF Follow, Candidate, Chatted, AskedOK
    <2>3. PICK s : s = [req[r] EXCEPT !.follows = t]
        OBVIOUS
    <2>4. req' = [req EXCEPT ![r] = s]
        BY <1>3, <1>6, <2>1, <2>3 DEF Follow
    <2>5. /\ s \in Asked(DOMAIN turns) /\ s.follows = t /\ s.upto = 0
          /\ s.pc = req[r].pc /\ s.turn = req[r].turn /\ s.prev = req[r].prev
        BY <1>4, <2>2, <2>3 DEF Asked
    <2>6. 0 <= Len(turns[t].log)
        <3>1. turns[t] \in Turned
            BY <2>2, ElementOfSeq DEF ServerInv, TurnsOK
        <3> QED BY <3>1, LenProperties DEF Turned
    <2> QED BY <1>4, <1>5, <2>2, <2>4, <2>5, <2>6
<1>7. CASE Poll(r)
    <2>1. PICK e : e = IF req[r].follows = None THEN req[r] ELSE Emitted(req[r], req[r].follows)
        OBVIOUS
    <2>2. /\ e \in Asked(DOMAIN turns) /\ e.pc = req[r].pc /\ e.turn = req[r].turn
          /\ e.prev = req[r].prev
          /\ IF e.follows = None THEN e.upto = 0 ELSE e.upto <= Len(turns[e.follows].log)
        <3>1. CASE req[r].follows = None
            BY <1>4, <2>1, <3>1 DEF AskedOK
        <3>2. CASE req[r].follows # None
            <4>1. PICK t \in DOMAIN turns : t = req[r].follows
                BY <1>4, <3>2 DEF Asked
            <4>2. /\ e \in Asked(DOMAIN turns) /\ e.follows = t /\ e.upto = Len(turns[t].log)
                  /\ e.pc = req[r].pc /\ e.turn = req[r].turn /\ e.prev = req[r].prev
                BY <2>1, <3>2, <4>1, EmittedType
            <4>3. Len(turns[t].log) <= Len(turns[t].log)
                BY GrownSame DEF Grown
            <4> QED BY <1>4, <4>2, <4>3
        <3> QED BY <3>1, <3>2
    <2>3. PICK shown : shown = IF thread[h].slot = None THEN e.shown ELSE e.shown \cup {thread[h].slot}
        OBVIOUS
    <2>4. shown \subseteq Call
        BY <1>4, <2>2, <2>3 DEF Asked, Chatted
    <2>5. PICK s : s = [e EXCEPT !.shown = shown]
        OBVIOUS
    <2>6. req' = [req EXCEPT ![r] = s]
        BY <1>3, <1>7, <2>1, <2>3, <2>5 DEF Poll
    <2>7. /\ s \in Asked(DOMAIN turns) /\ s.follows = e.follows /\ s.upto = e.upto
          /\ s.pc = req[r].pc /\ s.turn = req[r].turn /\ s.prev = req[r].prev
        BY <2>2, <2>4, <2>5 DEF Asked
    <2> QED BY <1>5, <2>2, <2>6, <2>7
<1> QED BY <1>6, <1>7

\* The last look at the journal: what follows of it is what StreamShowsItsTurn asks.
LEMMA DrainServer ==
    ASSUME ServerInv, NEW r \in Request, Drain(r)
    PROVE  ServerInv'
<1>1. UNCHANGED turns /\ UNCHANGED thread /\ req[r].pc = "answered"
    BY DEF Drain, Is
<1>2. TurnsOK(turns)' /\ Grown(turns, turns') /\ DOMAIN turns' = DOMAIN turns
    BY <1>1, TurnsStay
<1>3. req[r] \in Asked(DOMAIN turns) /\ AskedOK(r, req[r], turns) /\ None \notin DOMAIN turns
    BY ServerParts
<1>4. req[r].turn \in DOMAIN turns /\ turns[req[r].turn].over
    BY <1>1, <1>3 DEF AskedOK, HasTurn, HasEnded
<1>5. PICK t : t = LastTurn(r)
    OBVIOUS
<1>a. t \in DOMAIN turns \cup {None}
    BY <1>3, <1>4, <1>5, ServerParts DEF LastTurn, Candidate, Chatted, Asked
<1>b. req[r].turn # req[r].prev => t = req[r].turn
    BY <1>5 DEF LastTurn
<1>6. PICK e : e = IF t = None \/ r \notin Streaming THEN req[r] ELSE Emitted(req[r], t)
    OBVIOUS
<1>7. /\ e \in Asked(DOMAIN turns) /\ e.turn = req[r].turn /\ e.prev = req[r].prev
      /\ IF e.follows = None THEN e.upto = 0 ELSE e.upto <= Len(turns[e.follows].log)
      /\ (r \in Streaming /\ e.turn # e.prev) =>
             e.follows = e.turn /\ e.upto = Len(turns[e.turn].log)
    <2>1. CASE t = None \/ r \notin Streaming
        BY <1>3, <1>4, <1>b, <1>6, <2>1 DEF AskedOK
    <2>2. CASE ~(t = None \/ r \notin Streaming)
        <3>1. t \in DOMAIN turns
            BY <1>a, <2>2
        <3>2. /\ e \in Asked(DOMAIN turns) /\ e.follows = t /\ e.upto = Len(turns[t].log)
              /\ e.turn = req[r].turn /\ e.prev = req[r].prev
            BY <1>6, <2>2, <3>1, EmittedType
        <3>3. Len(turns[t].log) <= Len(turns[t].log)
            BY <3>1, GrownSame DEF Grown
        <3> QED BY <1>3, <1>b, <3>1, <3>2, <3>3
    <2> QED BY <2>1, <2>2
<1>8. PICK s : s = [e EXCEPT !.pc = "done"]
    OBVIOUS
<1>9. /\ s \in Asked(DOMAIN turns) /\ s.pc = "done" /\ s.turn = e.turn /\ s.prev = e.prev
      /\ s.follows = e.follows /\ s.upto = e.upto
    BY <1>7, <1>8 DEF Asked, ReqPc
<1>10. req' = [req EXCEPT ![r] = s]
    BY <1>5, <1>6, <1>8 DEF Drain
<1>11. AskedOK(r, s, turns)
    BY <1>4, <1>7, <1>9 DEF AskedOK
<1> QED BY <1>1, <1>2, <1>9, <1>10, <1>11, OneRequest, ChatsKeep DEF ServerInv

\* thread/turn takes up the turn that has not ended, or begins one.
LEMMA SubmitServer ==
    ASSUME ServerInv, NEW r \in Request, Submit(r)
    PROVE  ServerInv'
<1>1. PICK h : h = ThreadOf[r]
    OBVIOUS
<1>2. /\ h \in Thread /\ thread[h] \in Chatted(DOMAIN turns)
      /\ req[r] \in Asked(DOMAIN turns) /\ AskedOK(r, req[r], turns) /\ None \notin DOMAIN turns
    BY <1>1, ServerParts
<1>3. PICK t : t = IF Incomplete(h) THEN Newest(h) ELSE Len(turns) + 1
    OBVIOUS
<1>4. /\ req[r].pc = "prepared" /\ t <= MaxTurns
      /\ turns' = IF Incomplete(h) THEN turns
                  ELSE Append(turns, [thread |-> h, over |-> FALSE,
                                      log |-> <<Ev("accepted", NoCall)>>])
      /\ thread' = [thread EXCEPT ![h].handle = r, ![h].turn = t]
    BY <1>1, <1>3 DEF Submit, Is
<1>5. TurnsOK(turns)' /\ Grown(turns, turns') /\ t \in DOMAIN turns'
    <2>1. CASE Incomplete(h)
        <3>1. Newest(h) \in DOMAIN turns
            BY <2>1 DEF Incomplete, Newest
        <3> QED BY <1>3, <1>4, <2>1, <3>1, TurnsStay
    <2>2. CASE ~Incomplete(h)
        BY <1>2, <1>3, <1>4, <2>2, TurnBegins
    <2> QED BY <2>1, <2>2
<1>6. thread' \in [Thread -> Chatted(DOMAIN turns')]
    <2>1. thread \in [Thread -> Chatted(DOMAIN turns')]
        BY <1>5, GrownChat DEF ServerInv
    <2> QED BY <1>2, <1>4, <1>5, <2>1 DEF Chatted
<1>7. PICK busy : busy = Executing(h)
    OBVIOUS
<1>8. PICK s : s = [req[r] EXCEPT !.pc = "submitted", !.turn = t, !.shared = busy # {}]
    OBVIOUS
<1>9. req' = [q \in Request |->
          IF q = r THEN s ELSE IF q \in busy THEN [req[q] EXCEPT !.shared = TRUE] ELSE req[q]]
    BY <1>1, <1>3, <1>7, <1>8, Zenon DEF Submit
<1>10. \A q \in Request : req[q] \in Asked(DOMAIN turns') /\ AskedOK(q, req[q], turns')
    BY <1>5, GrownKeeps DEF ServerInv, TurnsOK
<1>11. s \in Asked(DOMAIN turns') /\ AskedOK(r, s, turns')
    <2>1. /\ s \in Asked(DOMAIN turns') /\ s.pc = "submitted" /\ s.turn = t
          /\ s.follows = req[r].follows /\ s.upto = req[r].upto
        BY <1>5, <1>8, <1>10 DEF Asked, ReqPc
    <2> QED BY <1>5, <1>10, <2>1 DEF AskedOK, HasEnded
<1>12. ASSUME NEW q \in Request
       PROVE  LET o == [req[q] EXCEPT !.shared = TRUE]
              IN  o \in Asked(DOMAIN turns') /\ AskedOK(q, o, turns')
    <2>1. PICK o : o = [req[q] EXCEPT !.shared = TRUE]
        OBVIOUS
    <2>2. /\ o \in Asked(DOMAIN turns') /\ o.pc = req[q].pc /\ o.turn = req[q].turn
          /\ o.prev = req[q].prev /\ o.follows = req[q].follows /\ o.upto = req[q].upto
        BY <1>10, <2>1 DEF Asked
    <2>3. AskedOK(q, o, turns')
        BY <1>10, <2>2 DEF AskedOK
    <2> QED BY <2>1, <2>2, <2>3
<1>13. req' \in [Request -> Asked(DOMAIN turns')]
    BY <1>9, <1>10, <1>11, <1>12
<1>14. \A q \in Request : AskedOK(q, req'[q], turns')
    BY <1>9, <1>10, <1>11, <1>12
<1> QED BY <1>5, <1>6, <1>13, <1>14 DEF ServerInv

\* A request that only goes from one place to the next.
LEMMA MovesOn ==
    ASSUME ServerInv, TurnsOK(turns)', Grown(turns, turns'), NEW r \in Request, NEW pc \in ReqPc,
           req' = [req EXCEPT ![r].pc = pc], pc # "done",
           pc \in HasTurn => req[r].pc \in HasTurn,
           pc \in HasEnded => turns'[req[r].turn].over
    PROVE  /\ req' \in [Request -> Asked(DOMAIN turns')]
           /\ \A q \in Request : AskedOK(q, req'[q], turns')
<1>1. req[r] \in Asked(DOMAIN turns') /\ AskedOK(r, req[r], turns')
    BY GrownKeeps DEF ServerInv, TurnsOK
<1>2. PICK s : s = [req[r] EXCEPT !.pc = pc]
    OBVIOUS
<1>3. /\ s \in Asked(DOMAIN turns') /\ s.pc = pc /\ s.turn = req[r].turn
      /\ s.follows = req[r].follows /\ s.upto = req[r].upto
    BY <1>1, <1>2 DEF Asked
<1>4. AskedOK(r, s, turns')
    BY <1>1, <1>3 DEF AskedOK
<1>5. req' = [req EXCEPT ![r] = s]
    BY <1>2
<1> QED BY <1>3, <1>4, <1>5, OneRequest

LEMMA ExecuteServer ==
    ASSUME ServerInv, NEW r \in Request, Execute(r)
    PROVE  ServerInv'
<1>1. /\ ThreadOf[r] \in Thread /\ req[r] \in Asked(DOMAIN turns) /\ AskedOK(r, req[r], turns)
    BY ServerParts
<1>2. UNCHANGED turns => TurnsOK(turns)' /\ Grown(turns, turns')
    BY TurnsStay
<1>3. {"failed", "running", "ended", "answered"} \subseteq ReqPc
    BY DEF ReqPc
<1>4. CASE SubmitRaises(r)
    <2>1. UNCHANGED turns /\ UNCHANGED thread /\ req' = [req EXCEPT ![r].pc = "failed"]
        BY <1>4 DEF SubmitRaises, Go
    <2>2. "failed" \notin HasTurn /\ "failed" \notin HasEnded
        BY DEF HasTurn, HasEnded
    <2> QED BY <1>2, <1>3, <2>1, <2>2, MovesOn, ChatsKeep DEF ServerInv
<1>5. CASE Begin(r)
    <2>1. /\ UNCHANGED turns /\ UNCHANGED thread /\ req[r].pc = "submitted"
          /\ req' = [req EXCEPT ![r].pc = "running"]
        BY <1>5 DEF Begin, Go, Is
    <2>2. "submitted" \in HasTurn /\ "running" \notin HasEnded
        BY DEF HasTurn, HasEnded
    <2> QED BY <1>2, <1>3, <2>1, <2>2, MovesOn, ChatsKeep DEF ServerInv
<1>6. CASE End(r)
    <2>1. PICK t : t = req[r].turn
        OBVIOUS
    <2>2. /\ UNCHANGED thread /\ req[r].pc = "running" /\ req' = [req EXCEPT ![r].pc = "ended"]
          /\ IF turns[t].over THEN UNCHANGED turns ELSE Logged(t, Ev("end", NoCall), TRUE)
        BY <1>6, <2>1 DEF End, Go, Is
    <2>3. req[r].pc \in HasTurn
        BY <2>2 DEF HasTurn
    <2>4. t \in DOMAIN turns
        BY <1>1, <2>1, <2>3 DEF AskedOK
    <2>5. TurnsOK(turns)' /\ Grown(turns, turns') /\ turns'[t].over
        <3>1. CASE turns[t].over
            BY <1>2, <2>2, <3>1
        <3>2. CASE ~turns[t].over
            <4>1. Ev("end", NoCall) \in Noted
                BY DEF Ev, Noted, Event
            <4>2. Logged(t, Ev("end", NoCall), TRUE)
                BY <2>2, <3>2
            <4> QED BY <2>4, <3>2, <4>1, <4>2, LoggedGrows
        <3> QED BY <3>1, <3>2
    <2> QED BY <1>3, <2>1, <2>2, <2>3, <2>5, MovesOn, ChatsKeep DEF ServerInv
<1>7. CASE Return(r)
    <2>1. PICK h : h = ThreadOf[r]
        OBVIOUS
    <2>2. /\ UNCHANGED turns /\ req[r].pc = "ended" /\ req' = [req EXCEPT ![r].pc = "answered"]
          /\ thread' = [thread EXCEPT ![h].handle = None, ![h].turn = req[r].turn]
        BY <1>7, <2>1 DEF Return, Heard, Go, Is
    <2>3. req[r].pc \in HasTurn /\ req[r].pc \in HasEnded
        BY <2>2 DEF HasTurn, HasEnded
    <2>4. turns'[req[r].turn].over /\ req[r].turn \in DOMAIN turns
        BY <1>1, <2>2, <2>3 DEF AskedOK
    <2>5. thread' \in [Thread -> Chatted(DOMAIN turns')]
        BY <1>1, <2>1, <2>2, <2>4 DEF ServerInv, Chatted
    <2> QED BY <1>2, <1>3, <2>2, <2>3, <2>4, <2>5, MovesOn DEF ServerInv
<1>8. CASE ReturnRaises(r)
    <2>1. /\ UNCHANGED turns /\ req' = [req EXCEPT ![r].pc = "failed"]
          /\ thread' = [thread EXCEPT ![ThreadOf[r]].handle = None]
        BY <1>8 DEF ReturnRaises, Go
    <2>2. "failed" \notin HasTurn /\ "failed" \notin HasEnded
        BY DEF HasTurn, HasEnded
    <2>3. TurnsOK(turns)' /\ Grown(turns, turns') /\ DOMAIN turns' = DOMAIN turns
        BY <2>1, TurnsStay
    <2>4. thread' \in [Thread -> Chatted(DOMAIN turns')]
        BY <1>1, <2>1, <2>3 DEF ServerInv, Chatted
    <2> QED BY <1>3, <2>1, <2>2, <2>3, <2>4, MovesOn DEF ServerInv
<1> QED BY <1>4, <1>5, <1>6, <1>7, <1>8, SubmitServer DEF Execute

LEMMA SlotServer ==
    ASSUME ServerInv, NEW us, Grown(turns, us), NEW h \in Thread, NEW slot \in Call \cup {None},
           thread' = [thread EXCEPT ![h].slot = slot]
    PROVE  thread' \in [Thread -> Chatted(DOMAIN us)]
<1>1. thread \in [Thread -> Chatted(DOMAIN us)]
    BY GrownChat DEF ServerInv
<1> QED BY <1>1 DEF Chatted

\* A call writes to the journal of its turn while that is live.
LEMMA LiveGrows ==
    ASSUME ServerInv, NEW c \in Call, NEW kind \in {"required", "resolved"}, NEW over \in BOOLEAN,
           Live(c), Logged(TurnOf(c), Ev(kind, c), over)
    PROVE  TurnsOK(turns)' /\ Grown(turns, turns')
<1>1. PICK t : t = TurnOf(c)
    OBVIOUS
<1>2. t \in DOMAIN turns /\ ~turns[t].over
    <2>1. OwnerOf[c] \in Request
        BY GateAssumption
    <2>2. req[OwnerOf[c]] \in Asked(DOMAIN turns)
        BY <2>1 DEF ServerInv
    <2> QED BY <1>1, <2>2 DEF Live, TurnOf, Asked
<1>3. Ev(kind, c) \in Noted
    BY DEF Ev, Noted, Event
<1> QED BY <1>1, <1>2, <1>3, LoggedGrows

LEMMA UnshownServer ==
    ASSUME ServerInv, NEW us, Grown(turns, us), NEW c \in Call, Unshown(c)
    PROVE  thread' \in [Thread -> Chatted(DOMAIN us)]
<1>1. PICK h : h = ThreadOf[OwnerOf[c]]
    OBVIOUS
<1>2. h \in Thread /\ thread[h].slot \in Call \cup {None}
    BY <1>1, GateAssumption, AppAssumption DEF ServerInv, Chatted
<1>3. PICK slot : slot = IF thread[h].slot = c THEN None ELSE thread[h].slot
    OBVIOUS
<1>4. slot \in Call \cup {None} /\ thread' = [thread EXCEPT ![h].slot = slot]
    BY <1>1, <1>2, <1>3 DEF Unshown, ServerInv
<1> QED BY <1>2, <1>4, SlotServer

LEMMA CallServer ==
    ASSUME ServerInv, NEW c \in Call, CallStep(c)
    PROVE  ServerInv'
<1>1. UNCHANGED req
    BY DEF CallStep, PutQuestion, HearAnswer, DropQuestion, QuietStep, appVars
<1>2. UNCHANGED turns => TurnsOK(turns)' /\ Grown(turns, turns')
    BY TurnsStay
<1>3. CASE PutQuestion(c)
    <2>1. PICK h : h = ThreadOf[OwnerOf[c]]
        OBVIOUS
    <2>2. /\ h \in Thread /\ thread' = [thread EXCEPT ![h].slot = c]
          /\ Live(c) /\ Logged(TurnOf(c), Ev("required", c), FALSE)
        BY <1>3, <2>1, GateAssumption, AppAssumption DEF PutQuestion, Ask
    <2>3. TurnsOK(turns)' /\ Grown(turns, turns')
        BY <2>2, LiveGrows
    <2>4. thread' \in [Thread -> Chatted(DOMAIN turns')]
        BY <2>2, <2>3, SlotServer
    <2> QED BY <1>1, <2>3, <2>4, NoRequest DEF ServerInv
<1>4. CASE HearAnswer(c)
    <2>1. PICK answer : answer = call[c].waiter
        OBVIOUS
    <2>2. /\ Unshown(c)
          /\ IF Live(c) /\ Told(answer)
             THEN Logged(TurnOf(c), Ev("resolved", c), answer \in No) ELSE UNCHANGED turns
        BY <1>4, <2>1 DEF HearAnswer
    <2>3. TurnsOK(turns)' /\ Grown(turns, turns')
        <3>1. (answer \in No) \in BOOLEAN
            OBVIOUS
        <3>2. CASE Live(c) /\ Told(answer)
            <4>1. Logged(TurnOf(c), Ev("resolved", c), answer \in No) /\ Live(c)
                BY <2>2, <3>2
            <4> QED BY <3>1, <4>1, LiveGrows
        <3>3. CASE ~(Live(c) /\ Told(answer))
            BY <1>2, <2>2, <3>3
        <3> QED BY <3>2, <3>3
    <2>4. thread' \in [Thread -> Chatted(DOMAIN turns')]
        BY <2>2, <2>3, UnshownServer
    <2> QED BY <1>1, <2>3, <2>4, NoRequest DEF ServerInv
<1>5. CASE DropQuestion(c)
    <2>1. TurnsOK(turns)' /\ Grown(turns, turns') /\ Unshown(c)
        BY <1>2, <1>5 DEF DropQuestion
    <2>2. thread' \in [Thread -> Chatted(DOMAIN turns')]
        BY <2>1, UnshownServer
    <2> QED BY <1>1, <2>1, <2>2, NoRequest DEF ServerInv
<1>6. CASE QuietStep(c)
    <2>1. UNCHANGED turns /\ UNCHANGED thread
        BY <1>6 DEF QuietStep, appVars
    <2> QED BY <1>1, <1>2, <2>1, NoRequest, ChatsKeep DEF ServerInv
<1> QED BY <1>3, <1>4, <1>5, <1>6 DEF CallStep

LEMMA NothingServer == ASSUME ServerInv, UNCHANGED appVars PROVE ServerInv'
<1>1. UNCHANGED turns /\ UNCHANGED req /\ UNCHANGED thread
    BY DEF appVars
<1> QED BY <1>1, TurnsStay, NoRequest, ChatsKeep DEF ServerInv

LEMMA CancelServer ==
    ASSUME ServerInv, NEW h \in Thread, CancelUnbegun(h)
    PROVE  ServerInv'
<1>1. PICK r : r = thread[h].handle
    OBVIOUS
<1>2. /\ r # None /\ req' = [req EXCEPT ![r].pc = "failed"] /\ UNCHANGED turns
      /\ thread' = [thread EXCEPT ![h].handle = None]
    BY <1>1 DEF CancelUnbegun, Go
<1>3. r \in Request
    BY <1>1, <1>2 DEF ServerInv, Chatted
<1>4. "failed" \in ReqPc /\ "failed" \notin HasTurn /\ "failed" \notin HasEnded
    BY DEF ReqPc, HasTurn, HasEnded
<1>5. TurnsOK(turns)' /\ Grown(turns, turns') /\ DOMAIN turns' = DOMAIN turns
    BY <1>2, TurnsStay
<1>6. thread' \in [Thread -> Chatted(DOMAIN turns')]
    BY <1>2, <1>5 DEF ServerInv, Chatted
<1> QED BY <1>2, <1>3, <1>4, <1>5, <1>6, MovesOn DEF ServerInv

LEMMA NextServer == ServerInv /\ [Next]_vars => ServerInv'
<1> SUFFICES ASSUME ServerInv, [Next]_vars PROVE ServerInv'
    OBVIOUS
<1>1. ASSUME NEW r \in Request, Stream(r) PROVE ServerInv'
    BY <1>1, PrepareServer, PollServer, DrainServer DEF Stream
<1>2. ASSUME NEW r \in Request, Execute(r) PROVE ServerInv'
    BY <1>2, ExecuteServer
<1>3. ASSUME NEW c \in Call, CallStep(c) \/ Patience(c) PROVE ServerInv'
    BY <1>3, CallServer, NothingServer DEF Patience
<1>4. ASSUME NEW c \in Call, NEW answer \in Offered, Approve(c, answer) PROVE ServerInv'
    BY <1>4, NothingServer DEF Approve
<1>5. ASSUME NEW h \in Thread, Cancel(h) \/ CancelUnbegun(h) PROVE ServerInv'
    <2>1. Cancel(h) => UNCHANGED appVars
        BY DEF Cancel, appVars
    <2> QED BY <1>5, <2>1, CancelServer, NothingServer
<1>6. CASE UNCHANGED vars
    BY <1>6, NothingServer DEF vars, appVars
<1> QED BY <1>1, <1>2, <1>3, <1>4, <1>5, <1>6 DEF Next, Client

LEMMA ServerInvariance == Spec => []ServerInv
  BY InitServer, NextServer, PTL DEF Spec

\* The dictionaries of the server have their types: no request and no chat names a
\* turn that was not started, and no stream is past the end of a journal.
THEOREM ServerTypes == Spec => []AppTypeOK
<1>1. ASSUME ServerInv PROVE AppTypeOK
    <2>1. Len(turns) <= MaxTurns /\ turns \in Seq(Turned)
        BY <1>1 DEF ServerInv, TurnsOK
    <2>2. ASSUME NEW t \in DOMAIN turns
          PROVE  /\ turns[t].thread \in Thread /\ turns[t].over \in BOOLEAN
                 /\ \A i \in DOMAIN turns[t].log : turns[t].log[i] \in Event
        <3>1. turns[t] \in Turned
            BY <2>1, ElementOfSeq
        <3>2. turns[t].log \in Seq(Noted)
            BY <3>1 DEF Turned
        <3>3. \A i \in DOMAIN turns[t].log : turns[t].log[i] \in Noted
            BY <3>2, ElementOfSeq
        <3> QED BY <3>1, <3>3 DEF Turned, Noted
    <2>3. /\ req \in [Request -> Asked(DOMAIN turns)] /\ thread \in [Thread -> Chatted(DOMAIN turns)]
          /\ \A r \in Request : req[r].follows # None =>
                 req[r].upto <= Len(turns[req[r].follows].log)
        BY <1>1 DEF ServerInv, AskedOK
    <2> QED BY <2>1, <2>2, <2>3 DEF AppTypeOK, Asked, Chatted, Turn
<1> QED BY <1>1, ServerInvariance, PTL

\* stream_chat, _emit_turn_events: a stream that ends with a result has shown every
\* event of its turn, whatever the other requests of the chat made it follow
\* meanwhile, unless the turn is the one its chat showed before. A stream whose
\* request is answered with an error (ReturnRaises) is not done but failed: it ends
\* without a last look, and nothing is claimed of it.
THEOREM StreamsShowTheirTurns == Spec => []StreamShowsItsTurn
<1>1. ServerInv => StreamShowsItsTurn
    BY DEF ServerInv, AskedOK, StreamShowsItsTurn, Is, HasEnded
<1> QED BY <1>1, ServerInvariance, PTL
=============================================================================
