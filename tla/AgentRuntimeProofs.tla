------------------------- MODULE AgentRuntimeProofs -------------------------
(***************************************************************************)
(* For every set of turns, sessions, executors and processes, and every    *)
(* controller: the runtime is well typed, a spent end key means an ended   *)
(* turn, and a turn that has not ended is being executed unless an         *)
(* execution of it was lost.  As long as no two executors hold one turn,   *)
(* an execution says of its turn what the journal says, and a completed    *)
(* turn leaves no mutation in progress.                                    *)
(*                                                                         *)
(* A step changes one executor.  It stays with its turn, leaves it, takes  *)
(* one up or looks for one: each action is put into one of these classes,  *)
(* and each class is shown to preserve the inductive invariant once.  The  *)
(* last part adds, per turn, the path of the one executor that holds it.   *)
(***************************************************************************)
EXTENDS AgentRuntime, TLAPS

-----------------------------------------------------------------------------
\* The reducer

LEMMA InitialSnapshotType == InitialSnapshot \in Snapshot
  BY DEF InitialSnapshot, Snapshot, Phase, TerminalPhase, Status

\* Whatever the event, the reducer returns a snapshot.
LEMMA ReduceType ==
  ASSUME NEW snap \in Snapshot, NEW ev \in Event
  PROVE  Reduce(snap, ev) \in Snapshot
  <1>1. ev.kind \in Kind
    BY DEF Event
  <1>2. ({ev.attempt} \ {NoAttempt}) \subseteq Attempt
    BY DEF Event
  <1>3. ASSUME ev.kind \in {"tool_started", "tool_completed"} PROVE WithTool(snap, ev) \in Snapshot
    BY <1>2, <1>3 DEF WithTool, Snapshot, Phase
  <1>4. WithApproval(snap, ev) \in Snapshot /\ WithVerdict(snap, ev) \in Snapshot
    BY DEF WithApproval, WithVerdict, Given, Snapshot, Phase, TerminalPhase, Status
  <1>5. ASSUME ev.kind \in TerminalPhase PROVE WithEnd(snap, ev) \in Snapshot
    BY <1>5 DEF WithEnd, Snapshot, Phase, TerminalPhase, Status
  <1>6. CASE ev.kind \in {"tool_started", "tool_completed", "approval_required",
                         "approval_resolved", "verification"} \cup TerminalPhase
    BY <1>3, <1>4, <1>5, <1>6 DEF Reduce, TerminalPhase
  <1>7. QED
    BY <1>1, <1>6 DEF Reduce, Kind, TerminalPhase, Snapshot, Phase

-----------------------------------------------------------------------------

Ended(t) == Started(t) /\ Terminal(snapshot[t])

EndKeys(t) == {<<t, TerminalName>>, <<t, BlockName>>}

KeyedEnds == \A t \in Turn : EndKeys(t) \cap keys # {} => Ended(t)

\* What is true of one executor: outside idle it has a turn, which is started
\* unless it was only looked for, and it leaves no turn live.
ExecOK(x) ==
    /\ exec[x] \in ExecState
    /\ exec[x].pc # "idle" => exec[x].turn \in Turn
    /\ exec[x].pc \notin {"idle", "looked"} => Started(exec[x].turn)
    /\ exec[x].pc = "calling" => exec[x].call \in Attempt
    /\ exec[x].pc = "closing" => ~Live(exec[x].turn)

\* The inductive invariant.
RuntimeInv ==
    /\ RuntimeTypeOK
    /\ KeyedEnds
    /\ \A x \in Executor : ExecOK(x)
    /\ LiveTurnIsAttended

-----------------------------------------------------------------------------
\* The ledger

LEMMA NameType ==
  /\ \A a \in Attempt : /\ TurnOf(a) \in Turn
                        /\ StartName(a) \in Name /\ CompleteName(a) \in Name
  /\ \A ev \in Mirrored : MirrorName(ev) \in Name
  /\ {AcceptedName, TerminalName, BlockName, LocalName, CheckName, VerdictName} \subseteq Name
  BY RuntimeAssumption DEF TurnOf, StartName, CompleteName

\* The names of the other keys are not those of the ends.
LEMMA NameApart ==
  /\ \A a \in Attempt : {StartName(a), CompleteName(a)} \cap {TerminalName, BlockName} = {}
  /\ \A ev \in Mirrored : MirrorName(ev) \notin {TerminalName, BlockName}
  /\ {AcceptedName, LocalName, CheckName, VerdictName} \cap {TerminalName, BlockName} = {}
  <1> USE DEF StartName, CompleteName, MirrorName, AcceptedName, TerminalName, BlockName,
              LocalName, CheckName, VerdictName
  <1>1. \A a \in Attempt : {StartName(a), CompleteName(a)} \cap {TerminalName, BlockName} = {}
    OBVIOUS
  <1>2. \A ev \in Mirrored : MirrorName(ev) \notin {TerminalName, BlockName}
    OBVIOUS
  <1>3. {AcceptedName, LocalName, CheckName, VerdictName} \cap {TerminalName, BlockName} = {}
    OBVIOUS
  <1>4. QED
    BY <1>1, <1>2, <1>3

LEMMA EventType ==
  /\ \A a \in Attempt : /\ ToolEv("tool_started", a) \in Event
                        /\ ToolEv("tool_completed", a) \in Event
  /\ Mirrored \subseteq Event
  /\ {Ev("checkpoint"), Ev("approval_required"), Ev("verification_started"), BlockEvent}
        \subseteq Event
  /\ \A answer : Resolved(answer) \in Event
  /\ \A flag \in Flag : FlagEv("verification", flag) \in Event
  BY RuntimeAssumption DEF ToolEv, Ev, FlagEv, Event, Kind, Flag, Resolved, BlockEvent

LEMMA EndEventType ==
  ASSUME NEW outcome
  PROVE  EndEvent(outcome) \in Event /\ EndEvent(outcome).kind \in TerminalPhase
  BY DEF EndEvent, Ev, FlagEv, Event, Kind, Flag, TerminalPhase

\* A terminal event ends a turn.
LEMMA EndingEnds ==
  ASSUME NEW snap \in Snapshot, NEW ev \in Event, ev.kind \in TerminalPhase
  PROVE  Terminal(Reduce(snap, ev))
  <1>1. Reduce(snap, ev) = WithEnd(snap, ev)
    BY DEF Reduce, TerminalPhase
  <1>2. WithEnd(snap, ev).phase = ev.kind
    BY DEF WithEnd, TerminalPhase, Snapshot
  <1>3. QED
    BY <1>1, <1>2 DEF Terminal

\* What a step does to the ledger, as far as the invariant sees: it stays well
\* typed and keyed, a started turn stays started and an ended one ended, and only
\* a turn in started may come to life.
Grows(started) ==
    /\ LedgerTypeOK'
    /\ KeyedEnds'
    /\ \A t \in Turn : (Started(t) => Started(t)') /\ (Ended(t) => Ended(t)')
    /\ \A t \in Turn \ started : Live(t)' => Live(t)

LEMMA NothingGrows ==
  ASSUME LedgerTypeOK, KeyedEnds, UNCHANGED ledgerVars
  PROVE  Grows({})
  BY DEF Grows, LedgerTypeOK, KeyedEnds, Ended, Live, Started, ledgerVars

LEMMA StartGrows ==
  ASSUME LedgerTypeOK, KeyedEnds, NEW t \in Turn, Start(t, <<t, AcceptedName>>)
  PROVE  Grows({t}) /\ Started(t)'
  <1>1. <<t, AcceptedName>> \in Key
    BY NameType DEF Key
  <1>2. snapshot' = [snapshot EXCEPT ![t] = InitialSnapshot] /\ ~Started(t)
    BY DEF Start
  <1>3. \A u \in Turn \ {t} : snapshot'[u] = snapshot[u]
    BY <1>2 DEF LedgerTypeOK
  <1>4. snapshot'[t] = InitialSnapshot /\ InitialSnapshot # NoTurn
    BY <1>2, InitialSnapshotType, KeyAssumption DEF LedgerTypeOK
  <1>5. LedgerTypeOK'
    BY <1>1, <1>2, InitialSnapshotType DEF Start, LedgerTypeOK
  <1>6. \A u \in Turn : EndKeys(u) \cap keys' \subseteq EndKeys(u) \cap keys
    <2>1. AcceptedName # TerminalName /\ AcceptedName # BlockName
      BY NameApart
    <2>2. \A u \in Turn : <<t, AcceptedName>> \notin EndKeys(u)
      BY <2>1 DEF EndKeys
    <2>3. QED
      BY <2>2 DEF Start
  <1>7. \A u \in Turn : (Started(u) => Started(u)') /\ (Ended(u) => Ended(u)')
    BY <1>2, <1>3, <1>4 DEF Started, Ended
  <1>8. \A u \in Turn \ {t} : Live(u)' => Live(u)
    BY <1>3 DEF Live, Started
  <1>9. QED
    BY <1>4, <1>5, <1>6, <1>7, <1>8 DEF Grows, KeyedEnds, Started

LEMMA AppendType ==
  ASSUME LedgerTypeOK, NEW t \in Turn, NEW ev \in Event, NEW key \in Key \cup {NoKey},
         Append(t, ev, key)
  PROVE  LedgerTypeOK'
  <1>1. CASE key \in keys
    BY <1>1 DEF Append, LedgerTypeOK, ledgerVars
  <1>2. CASE key \notin keys
    <2>1. Reduce(snapshot[t], ev) \in Snapshot
      BY ReduceType DEF Append, Started, LedgerTypeOK
    <2>2. snapshot' = [snapshot EXCEPT ![t] = Reduce(snapshot[t], ev)]
      BY <1>2 DEF Append
    <2>3. keys' \subseteq Key
      BY <1>2 DEF Append, LedgerTypeOK
    <2>4. QED
      BY <2>1, <2>2, <2>3 DEF LedgerTypeOK
  <1>3. QED
    BY <1>1, <1>2

\* An event appended with any key but an end key, or a terminal event with it.
LEMMA AppendGrows ==
  ASSUME LedgerTypeOK, KeyedEnds, NEW t \in Turn, NEW ev \in Event,
         NEW key \in Key \cup {NoKey}, Append(t, ev, key),
         (\A u \in Turn : key \notin EndKeys(u))
            \/ (key \in EndKeys(t) /\ ev.kind \in TerminalPhase)
  PROVE  Grows({})
  <1>1. CASE key \in keys
    <2>1. UNCHANGED ledgerVars
      BY <1>1 DEF Append
    <2>2. QED
      BY <2>1, NothingGrows
  <1>2. CASE key \notin keys
    <2>1. /\ snapshot' = [snapshot EXCEPT ![t] = Reduce(snapshot[t], ev)]
          /\ keys' = keys \cup ({key} \ {NoKey})
          /\ Live(t)
      BY <1>2 DEF Append, Refused, Rejected, Live
    <2>2. Reduce(snapshot[t], ev) \in Snapshot /\ snapshot[t] \in Snapshot
      BY <2>1, ReduceType DEF Live, Started, LedgerTypeOK
    <2>3. snapshot'[t] = Reduce(snapshot[t], ev) /\ Started(t)'
      BY <2>1, <2>2, KeyAssumption DEF LedgerTypeOK, Started
    <2>4. \A u \in Turn \ {t} : snapshot'[u] = snapshot[u]
      BY <2>1 DEF LedgerTypeOK
    <2>5. \A u \in Turn : (Started(u) => Started(u)') /\ (Ended(u) => Ended(u)')
      BY <2>1, <2>3, <2>4 DEF Started, Ended, Live
    <2>6. \A u \in Turn : Live(u)' => Live(u)
      BY <2>1, <2>4 DEF Live, Started
    <2>7. KeyedEnds'
      <3>1. CASE \A u \in Turn : key \notin EndKeys(u)
        <4>1. \A u \in Turn : EndKeys(u) \cap keys' \subseteq EndKeys(u) \cap keys
          BY <2>1, <3>1
        <4>2. QED
          BY <4>1, <2>5 DEF KeyedEnds
      <3>2. CASE key \in EndKeys(t) /\ ev.kind \in TerminalPhase
        <4>1. Ended(t)'
          BY <2>2, <2>3, <3>2, EndingEnds DEF Ended
        <4>2. \A u \in Turn \ {t} : EndKeys(u) \cap keys' \subseteq EndKeys(u) \cap keys
          BY <2>1, <3>2 DEF EndKeys
        <4>3. QED
          BY <4>1, <4>2, <2>5 DEF KeyedEnds
      <3>3. QED
        BY <3>1, <3>2
    <2>8. QED
      BY <2>5, <2>6, <2>7, AppendType DEF Grows
  <1>3. QED
    BY <1>1, <1>2

-----------------------------------------------------------------------------
\* The appends of _execute

LEMMA WritesGrows ==
  ASSUME LedgerTypeOK, KeyedEnds, NEW x \in Executor, ExecOK(x), exec[x].turn \in Turn,
         NEW ev \in Event, NEW name \in Name, Writes(x, ev, name),
         name \notin {TerminalName, BlockName} \/ ev.kind \in TerminalPhase
  PROVE  Grows({})
  <1> DEFINE t == exec[x].turn
             key == <<t, name>>
  <1>1. key \in Key
    BY DEF Key
  <1>2. CASE name \notin {TerminalName, BlockName}
    <2>1. \A u \in Turn : key \notin EndKeys(u)
      BY <1>2 DEF EndKeys
    <2>2. QED
      BY <1>1, <2>1, AppendGrows DEF Writes
  <1>3. CASE name \in {TerminalName, BlockName} /\ ev.kind \in TerminalPhase
    <2>1. key \in EndKeys(t)
      BY <1>3 DEF EndKeys
    <2>2. QED
      BY <1>1, <1>3, <2>1, AppendGrows DEF Writes
  <1>4. QED
    BY <1>2, <1>3

LEMMA WritesFreshGrows ==
  ASSUME LedgerTypeOK, KeyedEnds, NEW x \in Executor, exec[x].turn \in Turn,
         NEW ev \in Event, WritesFresh(x, ev)
  PROVE  Grows({})
  <1>1. \A u \in Turn : NoKey \notin EndKeys(u)
    BY NameType, KeyAssumption DEF EndKeys, Key
  <1>2. QED
    BY <1>1, AppendGrows DEF WritesFresh

\* Only an event that completes a turn is refused by a live turn: the others are
\* refused because the turn has ended.
LEMMA RefusedEnded ==
  ASSUME NEW t \in Turn, Started(t), NEW ev, NEW key, Refused(t, ev, key),
         ev.kind \notin {"accepted", "completed"}
  PROVE  Ended(t)
  BY DEF Refused, Rejected, Ended

-----------------------------------------------------------------------------
\* The classes of steps

Others(x) ==
    /\ exec' \in [Executor -> ExecState]
    /\ \A y \in Executor \ {x} : exec'[y] = exec[y]

\* x stays with its turn.
Stays(x) ==
    /\ Grows({})
    /\ Others(x) /\ ExecOK(x)'
    /\ exec'[x].turn = exec[x].turn
    /\ {exec[x].pc, exec'[x].pc} \cap {"idle", "looked"} = {}

\* x leaves its turn ended, or its first step was never run.
Leaves(x) ==
    /\ Grows({})
    /\ Others(x) /\ exec'[x] = Idle
    /\ \A t \in Turn : t = exec[x].turn => Ended(t)' \/ t \in dropped'

\* x takes a turn up, which it may start.
TakesUp(x) ==
    /\ \E t \in Turn : Grows({t}) /\ exec'[x].turn = t
    /\ Others(x) /\ ExecOK(x)'
    /\ exec[x].pc \in {"idle", "looked"} /\ exec'[x].pc = "created"

\* x looks for a turn.
Looks(x) ==
    /\ Grows({})
    /\ Others(x) /\ ExecOK(x)'
    /\ exec[x].pc = "idle" /\ exec'[x].pc = "looked"

Classed(x) ==
    /\ crashed \subseteq crashed' /\ dropped \subseteq dropped'
    /\ Stays(x) \/ Leaves(x) \/ TakesUp(x) \/ Looks(x)

\* Executors that a step leaves alone keep what is true of them.
LEMMA OthersOK ==
  ASSUME NEW y \in Executor, ExecOK(y), exec'[y] = exec[y], NEW started \in SUBSET Turn,
         Grows(started),
         exec[y].pc = "closing" => exec[y].turn \notin started \/ Started(exec[y].turn)
  PROVE  ExecOK(y)'
  <1> DEFINE t == exec[y].turn
  <1>1. exec[y].pc \notin {"idle", "looked"} => t \in Turn /\ Started(t)'
    BY DEF ExecOK, Grows
  <1>2. exec[y].pc = "closing" => Ended(t)
    BY DEF ExecOK, Ended, Live
  <1>3. exec[y].pc = "closing" => Ended(t)'
    BY <1>1, <1>2 DEF Grows
  <1>4. QED
    BY <1>1, <1>3 DEF ExecOK, Ended, Live, Started

LEMMA IdleOK == \A x \in Executor : exec'[x] = Idle => ExecOK(x)'
  BY DEF Idle, ExecOK, ExecState, Pc, Awaiting

LEMMA ClassKeepsExec ==
  ASSUME NEW x \in Executor, Classed(x), \A y \in Executor : ExecOK(y)
  PROVE  \A y \in Executor : ExecOK(y)'
  <1>1. PICK started \in SUBSET Turn : Grows(started)
    BY DEF Classed, Stays, Leaves, TakesUp, Looks, ExecOK
  <1>2. \A y \in Executor \ {x} : exec'[y] = exec[y]
    BY DEF Classed, Stays, Leaves, TakesUp, Looks, Others
  <1>3. \A y \in Executor \ {x} : ExecOK(y)'
    BY <1>1, <1>2, OthersOK DEF ExecOK
  <1>4. ExecOK(x)'
    BY IdleOK DEF Classed, Stays, Leaves, TakesUp, Looks
  <1>5. QED
    BY <1>3, <1>4

LEMMA ClassKeepsAttended ==
  ASSUME NEW x \in Executor, Classed(x), LiveTurnIsAttended
  PROVE  LiveTurnIsAttended'
  <1>1. SUFFICES ASSUME NEW t \in Turn, Live(t)', t \notin crashed' \cup dropped'
                 PROVE  Attended(t)'
    BY DEF LiveTurnIsAttended
  <1>2. t \notin crashed \cup dropped
    BY <1>1 DEF Classed
  <1>3. ~Ended(t)'
    BY <1>1 DEF Ended, Live
  <1>4. Others(x)
    BY DEF Classed, Stays, Leaves, TakesUp, Looks
  <1>5. CASE TakesUp(x) /\ t = exec'[x].turn
    BY <1>5 DEF TakesUp, Attended
  <1>6. CASE ~(TakesUp(x) /\ t = exec'[x].turn)
    <2>1. Live(t)
      BY <1>1, <1>6 DEF Classed, Stays, Leaves, TakesUp, Looks, Grows
    <2>2. PICK y \in Executor : exec[y].turn = t /\ exec[y].pc \notin {"idle", "looked"}
      BY <1>2, <2>1 DEF LiveTurnIsAttended, Attended
    <2>3. CASE y # x
      BY <1>4, <2>2, <2>3 DEF Others, Attended
    <2>4. CASE y = x
      <3>1. Stays(x) \/ Leaves(x)
        BY <2>2, <2>4 DEF Classed, TakesUp, Looks
      <3>2. ~Leaves(x)
        BY <1>1, <1>3, <2>2, <2>4 DEF Leaves
      <3>3. QED
        BY <2>2, <2>4, <3>1, <3>2 DEF Stays, Attended
    <2>5. QED
      BY <2>3, <2>4
  <1>7. QED
    BY <1>5, <1>6

\* What is written without looking at the ledger or at an executor.
RestOK ==
    /\ rows \in [Attempt -> Row]
    /\ latest \in [Session -> Turn \cup {NoTurn}]
    /\ handles \in [Host -> [Turn -> Executor \cup {NoExecutor}]]
    /\ closed \in [Host -> BOOLEAN]
    /\ crashed \subseteq Turn /\ dropped \subseteq Turn

Good(x) == Classed(x) /\ RestOK'

LEMMA GoodKeepsInv ==
  ASSUME RuntimeInv, NEW x \in Executor, Good(x)
  PROVE  RuntimeInv'
  <1>1. LedgerTypeOK' /\ KeyedEnds' /\ Others(x)
    BY DEF Good, Classed, Stays, Leaves, TakesUp, Looks, Grows
  <1>2. RuntimeTypeOK'
    BY <1>1 DEF Good, RestOK, RuntimeTypeOK, Others
  <1>3. QED
    BY <1>1, <1>2, ClassKeepsExec, ClassKeepsAttended DEF RuntimeInv, Good

\* The executor's new state, in the words of its class.
LEMMA PutStays ==
  ASSUME RuntimeInv, NEW x \in Executor, NEW state \in ExecState, Put(x, state), Grows({}),
         {exec[x].pc, state.pc} \cap {"idle", "looked"} = {},
         state.turn = exec[x].turn,
         state.pc = "calling" => state.call \in Attempt,
         \A t \in Turn : (t = exec[x].turn /\ state.pc = "closing") => ~Live(t)',
         crashed \subseteq crashed', dropped \subseteq dropped'
  PROVE  Classed(x)
  <1>1. Others(x) /\ exec'[x] = state
    BY DEF Put, Others, RuntimeInv, RuntimeTypeOK
  <1>2. exec[x].turn \in Turn /\ Started(exec[x].turn)
    BY DEF RuntimeInv, ExecOK
  <1>3. \A t \in Turn : t = exec[x].turn => Started(t)'
    BY <1>2 DEF Grows
  <1>4. ExecOK(x)'
    BY <1>1, <1>2, <1>3 DEF ExecOK, Live, Started
  <1>5. QED
    BY <1>1, <1>4 DEF Classed, Stays

LEMMA IdleType == Idle \in ExecState
  BY DEF Idle, ExecState, Pc, Awaiting

LEMMA PutLeaves ==
  ASSUME RuntimeInv, NEW x \in Executor, Put(x, Idle), Grows({}),
         \A t \in Turn : t = exec[x].turn => Ended(t)' \/ t \in dropped',
         crashed \subseteq crashed', dropped \subseteq dropped'
  PROVE  Classed(x)
  <1>1. Others(x) /\ exec'[x] = Idle
    BY IdleType DEF Put, Others, RuntimeInv, RuntimeTypeOK
  <1>2. QED
    BY <1>1 DEF Classed, Leaves

LEMMA CreatedType ==
  ASSUME NEW t \in Turn
  PROVE  Created(t) \in ExecState /\ Created(t).pc = "created" /\ Created(t).turn = t
  BY DEF Created, Idle, ExecState, Pc, Awaiting

LEMMA LookedType ==
  ASSUME NEW t \in Turn, NEW state, state = [Created(t) EXCEPT !.pc = "looked"]
  PROVE  state \in ExecState /\ state.pc = "looked" /\ state.turn = t
  BY DEF Created, Idle, ExecState, Pc, Awaiting

LEMMA PutTakesUp ==
  ASSUME RuntimeInv, NEW x \in Executor, NEW t \in Turn, Put(x, Created(t)), Grows({t}),
         Started(t)', exec[x].pc \in {"idle", "looked"},
         crashed \subseteq crashed', dropped \subseteq dropped'
  PROVE  Classed(x)
  <1>1. Others(x) /\ exec'[x] = Created(t)
    BY CreatedType DEF Put, Others, RuntimeInv, RuntimeTypeOK
  <1>2. exec'[x] \in ExecState /\ exec'[x].pc = "created" /\ exec'[x].turn = t
    BY <1>1, CreatedType
  <1>3. ExecOK(x)'
    BY <1>2 DEF ExecOK, Started
  <1>4. QED
    BY <1>1, <1>2, <1>3 DEF Classed, TakesUp

LEMMA ReachStays ==
  ASSUME RuntimeInv, NEW x \in Executor, NEW pc \in Pc \ {"idle", "looked", "calling"},
         NEW outcome \in AnyOutcome \cup {"none"}, Reach(x, pc, outcome), Grows({}),
         exec[x].pc \notin {"idle", "looked"},
         \A t \in Turn : (t = exec[x].turn /\ pc = "closing") => ~Live(t)',
         crashed \subseteq crashed', dropped \subseteq dropped'
  PROVE  Classed(x)
  <1> DEFINE state == [pc |-> pc, turn |-> exec[x].turn, found |-> {}, call |-> NoAttempt,
                       reply |-> "none", cancelled |-> exec[x].cancelled,
                       outcome |-> outcome]
  <1>1. state \in ExecState
    BY DEF RuntimeInv, RuntimeTypeOK, ExecState
  <1>2. Put(x, state)
    BY DEF Reach
  <1>3. QED
    BY <1>1, <1>2, PutStays

-----------------------------------------------------------------------------
\* The steps of an executor

\* What every step proof needs of the executor that takes it.
LEMMA ExecFacts ==
  ASSUME RuntimeInv, NEW x \in Executor
  PROVE  /\ LedgerTypeOK /\ KeyedEnds /\ ExecOK(x) /\ RestOK
         /\ exec[x] \in ExecState
         /\ exec[x].pc # "idle" => exec[x].turn \in Turn
         /\ exec[x].pc \notin {"idle", "looked"} => Started(exec[x].turn)
         /\ HostOf[x] \in Host
  BY RuntimeAssumption DEF RuntimeInv, RuntimeTypeOK, RestOK, ExecOK

LEMMA BeginGood ==
  ASSUME RuntimeInv, NEW x \in Executor, Begin(x) \/ ResumeStart(x)
  PROVE  Good(x)
  <1>1. ASSUME NEW t \in Turn, Start(t, <<t, AcceptedName>>), Put(x, Created(t)),
               exec[x].pc \in {"idle", "looked"},
               latest' = [latest EXCEPT ![SessionOf[t]] = t],
               handles' = [handles EXCEPT ![HostOf[x]][t] = x],
               UNCHANGED <<rows, closed, crashed, dropped>>
        PROVE  Good(x)
    <2>1. Classed(x)
      BY <1>1, ExecFacts, StartGrows, PutTakesUp
    <2>2. RestOK'
      BY <1>1, ExecFacts DEF RestOK
    <2>3. QED
      BY <2>1, <2>2 DEF Good
  <1>2. ASSUME NEW t \in Turn, Submit(x, t)
        PROVE  Good(x)
    BY <1>1, <1>2 DEF Submit, At
  <1>3. ASSUME NEW t \in Turn, ResumeLook(x, t)
        PROVE  Good(x)
    <2>1. Grows({}) /\ RestOK'
      BY <1>3, ExecFacts, NothingGrows DEF ResumeLook, ledgerVars, RestOK
    <2>2. PICK state : state = [Created(t) EXCEPT !.pc = "looked"] /\ Put(x, state)
      BY <1>3 DEF ResumeLook
    <2>3. state \in ExecState /\ state.pc = "looked" /\ state.turn = t
      BY <2>2, LookedType
    <2>4. Others(x) /\ exec'[x] = state
      BY <2>2, <2>3 DEF Put, Others, RuntimeInv, RuntimeTypeOK
    <2>5. ExecOK(x)'
      BY <2>3, <2>4 DEF ExecOK
    <2>6. QED
      BY <1>3, <2>1, <2>3, <2>4, <2>5 DEF ResumeLook, At, Good, Classed, Looks
  <1>4. ASSUME NEW s \in Session, ResumeLive(x, s)
        PROVE  Good(x)
    <2>1. PICK t \in Turn : t = latest[s] /\ Started(t)
      BY <1>4, ExecFacts DEF ResumeLive, RestOK, Live
    <2>2. Grows({})
      BY <1>4, ExecFacts, NothingGrows DEF ResumeLive, ledgerVars
    <2>3. Grows({t}) /\ Started(t)'
      BY <2>1, <2>2 DEF Grows
    <2>4. Classed(x)
      BY <1>4, <2>1, <2>3, PutTakesUp DEF ResumeLive, At
    <2>5. RestOK'
      BY <1>4, <2>1, ExecFacts DEF ResumeLive, RestOK
    <2>6. QED
      BY <2>4, <2>5 DEF Good
  <1>5. CASE ResumeStart(x)
    <2>1. exec[x].pc = "looked" /\ exec[x].turn \in Turn
      BY <1>5, ExecFacts DEF ResumeStart, At
    <2>2. QED
      BY <1>1, <1>5, <2>1 DEF ResumeStart
  <1>6. QED
    BY <1>2, <1>3, <1>4, <1>5 DEF Begin

\* Before the controller: an execution goes on, or leaves its turn ended.
LEMMA ReconcileGood ==
  ASSUME RuntimeInv, NEW x \in Executor, Reconcile(x)
  PROVE  Good(x)
  <1> DEFINE t == exec[x].turn
             found == Interrupted(t)
  <1>1. t \in Turn /\ exec[x].pc = "created"
    BY ExecFacts DEF Reconcile, At
  <1>2. found \in SUBSET Attempt
    BY DEF Interrupted
  <1>3. PICK state : /\ state = [Created(t) EXCEPT !.pc = "reconciled", !.found = found]
                     /\ Put(x, state)
    BY DEF Reconcile
  <1>4. state \in ExecState /\ state.pc = "reconciled" /\ state.turn = t
    BY <1>1, <1>2, <1>3 DEF Created, Idle, ExecState, Pc, Awaiting
  <1>5. Grows({})
    BY ExecFacts, NothingGrows DEF Reconcile, ledgerVars
  <1>6. Classed(x)
    BY <1>1, <1>3, <1>4, <1>5, PutStays DEF Reconcile
  <1>7. rows' \in [Attempt -> Row]
    BY ExecFacts DEF Reconcile, RestOK, Row
  <1>8. RestOK'
    BY <1>7, ExecFacts DEF Reconcile, RestOK
  <1>9. QED
    BY <1>6, <1>8 DEF Good

LEMMA NoteLocalGood ==
  ASSUME RuntimeInv, NEW x \in Executor, NoteLocal(x)
  PROVE  Good(x)
  <1> DEFINE t == exec[x].turn
             ev == Ev("checkpoint")
             state == [exec[x] EXCEPT !.found = FoundExternal(x)]
  <1>1. t \in Turn /\ Started(t) /\ exec[x].pc = "reconciled"
    BY ExecFacts DEF NoteLocal, At
  <1>2. RestOK' /\ crashed' = crashed /\ dropped' = dropped
    BY ExecFacts DEF NoteLocal, RestOK
  <1>3. CASE Writes(x, ev, LocalName) /\ Put(x, state)
    <2>1. LocalName \in Name /\ LocalName \notin {TerminalName, BlockName} /\ ev \in Event
      BY NameType, NameApart, EventType
    <2>2. Grows({})
      BY <1>1, <1>3, <2>1, ExecFacts, WritesGrows
    <2>3. FoundExternal(x) \subseteq Attempt
      BY ExecFacts DEF FoundExternal, ExecState
    <2>4. state \in ExecState /\ state.pc = "reconciled" /\ state.turn = t
      BY <1>1, <2>3, ExecFacts DEF ExecState
    <2>5. Classed(x)
      BY <1>1, <1>2, <1>3, <2>2, <2>4, PutStays
    <2>6. QED
      BY <1>2, <2>5 DEF Good
  <1>4. CASE Raises(x, ev, LocalName) /\ Put(x, Idle)
    <2>1. Grows({}) /\ UNCHANGED ledgerVars
      BY <1>4, ExecFacts, NothingGrows DEF Raises
    <2>2. Ended(t)
      BY <1>1, <1>4, RefusedEnded DEF Raises, Ev
    <2>3. \A u \in Turn : u = t => Ended(u)'
      BY <2>1, <2>2 DEF Grows
    <2>4. Classed(x)
      BY <1>2, <1>4, <2>1, <2>3, PutLeaves
    <2>5. QED
      BY <1>2, <2>4 DEF Good
  <1>5. QED
    BY <1>3, <1>4 DEF NoteLocal

\* A turn whose end is written has ended, also when its key was spent before.
LEMMA EndWrites ==
  ASSUME RuntimeInv, NEW x \in Executor, exec[x].pc \notin {"idle", "looked"},
         NEW name \in {TerminalName, BlockName}, NEW ev \in Event, ev.kind \in TerminalPhase,
         Writes(x, ev, name)
  PROVE  Grows({}) /\ \A t \in Turn : t = exec[x].turn => Ended(t)'
  <1> DEFINE t == exec[x].turn
             key == <<t, name>>
  <1>1. t \in Turn /\ Started(t) /\ name \in Name
    BY ExecFacts, NameType
  <1>2. Grows({})
    BY <1>1, ExecFacts, WritesGrows
  <1>3. CASE key \in keys
    <2>1. Ended(t)
      BY <1>1, <1>3, ExecFacts DEF KeyedEnds, EndKeys
    <2>2. QED
      BY <1>1, <1>2, <2>1 DEF Grows
  <1>4. CASE key \notin keys
    <2>1. snapshot' = [snapshot EXCEPT ![t] = Reduce(snapshot[t], ev)]
      BY <1>4 DEF Writes, Append
    <2>2. snapshot[t] \in Snapshot
      BY <1>1, ExecFacts DEF LedgerTypeOK, Started
    <2>3. Terminal(Reduce(snapshot[t], ev)) /\ Reduce(snapshot[t], ev) # NoTurn
      BY <2>2, EndingEnds, ReduceType, KeyAssumption
    <2>4. snapshot'[t] = Reduce(snapshot[t], ev)
      BY <1>1, <2>1, ExecFacts DEF LedgerTypeOK
    <2>5. QED
      BY <1>2, <2>3, <2>4 DEF Ended, Started
  <1>5. QED
    BY <1>3, <1>4

LEMMA BlockGood ==
  ASSUME RuntimeInv, NEW x \in Executor, Block(x)
  PROVE  Good(x)
  <1> DEFINE t == exec[x].turn
  <1>1. t \in Turn /\ Started(t) /\ exec[x].pc = "reconciled"
    BY ExecFacts DEF Block, At
  <1>2. /\ Put(x, Idle)
        /\ UNCHANGED <<rows, latest, closed, crashed, dropped>>
    BY DEF Block
  <1>3. BlockEvent \in Event /\ BlockEvent.kind \in TerminalPhase
    BY EventType DEF BlockEvent, FlagEv, TerminalPhase
  <1>5. Grows({}) /\ \A u \in Turn : u = t => Ended(u)'
    <2>1. CASE Writes(x, BlockEvent, BlockName)
      BY <1>1, <1>3, <2>1, EndWrites
    <2>2. CASE Raises(x, BlockEvent, BlockName)
      <3>1. Grows({})
        BY <2>2, ExecFacts, NothingGrows DEF Raises
      <3>2. Ended(t)
        BY <1>1, <2>2, RefusedEnded DEF Raises, BlockEvent, FlagEv
      <3>3. QED
        BY <3>1, <3>2 DEF Grows
    <2>3. QED
      BY <2>1, <2>2 DEF Block
  <1>6. Classed(x)
    BY <1>2, <1>5, PutLeaves
  <1>7. handles' \in [Host -> [Turn -> Executor \cup {NoExecutor}]]
    <2>1. CASE handles' = handles
      BY <2>1, ExecFacts DEF RestOK
    <2>2. CASE handles' = [handles EXCEPT ![HostOf[x]][t] = NoExecutor]
      BY <2>2, ExecFacts DEF RestOK
    <2>3. QED
      BY <2>1, <2>2 DEF Block
  <1>8. RestOK'
    BY <1>2, <1>7, ExecFacts DEF RestOK
  <1>9. QED
    BY <1>6, <1>8 DEF Good

\* The controller at work: every step stays with the turn.
LEMMA WorkGood ==
  ASSUME RuntimeInv, NEW x \in Executor, Enter(x) \/ Work(x) \/ EndCall(x)
  PROVE  Good(x)
  <1> DEFINE t == exec[x].turn
  <1>1. CASE Enter(x)
    <2> DEFINE state == [exec[x] EXCEPT !.pc = "running"]
    <2>1. Grows({}) /\ RestOK' /\ exec[x].pc = "reconciled"
      BY <1>1, ExecFacts, NothingGrows DEF Enter, At, ledgerVars, RestOK
    <2>2. state \in ExecState /\ state.pc = "running" /\ state.turn = t
      BY ExecFacts DEF ExecState, Pc, Awaiting
    <2>3. Classed(x)
      BY <1>1, <2>1, <2>2, PutStays DEF Enter
    <2>4. QED
      BY <2>1, <2>3 DEF Good
  <1>2. ASSUME NEW ev \in Mirrored, Mirror(x, ev)
        PROVE  Good(x)
    <2>1. exec[x].pc = "running" /\ t \in Turn /\ Started(t)
      BY <1>2, ExecFacts DEF Mirror, At
    <2>2. /\ ev \in Event
          /\ MirrorName(ev) \in Name /\ MirrorName(ev) \notin {TerminalName, BlockName}
      BY NameType, NameApart, EventType
    <2>3. Grows({})
      BY <1>2, <2>1, <2>2, ExecFacts, WritesGrows DEF Mirror
    <2>4. UNCHANGED runtimeVars
      BY <1>2 DEF Mirror
    <2>5. Put(x, exec[x]) /\ RestOK'
      BY <2>4, ExecFacts DEF Put, runtimeVars, RestOK, RuntimeInv, RuntimeTypeOK
    <2>6. Classed(x)
      BY <2>1, <2>3, <2>4, <2>5, ExecFacts, PutStays DEF runtimeVars
    <2>7. QED
      BY <2>5, <2>6 DEF Good
  <1>3. ASSUME NEW a \in Attempt, StartCall(x, a)
        PROVE  Good(x)
    <2> DEFINE ev == ToolEv("tool_started", a)
               state == [exec[x] EXCEPT !.pc = "calling", !.call = a]
    <2>1. exec[x].pc = "running" /\ t \in Turn /\ Started(t)
      BY <1>3, ExecFacts DEF StartCall, At
    <2>2. /\ ev \in Event
          /\ StartName(a) \in Name /\ StartName(a) \notin {TerminalName, BlockName}
      BY NameType, NameApart, EventType
    <2>3. RestOK' /\ crashed' = crashed /\ dropped' = dropped
      BY <1>3, ExecFacts DEF StartCall, RestOK, Row
    <2>4. CASE Writes(x, ev, StartName(a)) /\ Put(x, state)
      <3>1. Grows({})
        BY <2>1, <2>2, <2>4, ExecFacts, WritesGrows
      <3>2. state \in ExecState /\ state.pc = "calling" /\ state.turn = t /\ state.call = a
        BY ExecFacts DEF ExecState, Pc, Awaiting
      <3>3. QED
        BY <2>1, <2>3, <2>4, <3>1, <3>2, PutStays DEF Good
    <2>5. CASE Raises(x, ev, StartName(a)) /\ exec' = exec
      <3>1. Grows({})
        BY <2>5, ExecFacts, NothingGrows DEF Raises
      <3>2. Put(x, exec[x])
        BY <2>5 DEF Put, RuntimeInv, RuntimeTypeOK
      <3>3. QED
        BY <2>1, <2>3, <3>1, <3>2, ExecFacts, PutStays DEF Good
    <2>6. QED
      BY <1>3, <2>4, <2>5 DEF StartCall
  <1>4. CASE EndCall(x)
    <2> DEFINE a == exec[x].call
               ev == ToolEv("tool_completed", a)
               state == [exec[x] EXCEPT !.pc = "running", !.call = NoAttempt]
    <2>1. exec[x].pc = "calling" /\ t \in Turn /\ Started(t) /\ a \in Attempt
      BY <1>4, ExecFacts DEF EndCall, At, ExecOK
    <2>2. /\ ev \in Event
          /\ CompleteName(a) \in Name /\ CompleteName(a) \notin {TerminalName, BlockName}
      BY <2>1, NameType, NameApart, EventType
    <2>3. Grows({})
      <3>1. CASE Writes(x, ev, CompleteName(a))
        BY <2>1, <2>2, <3>1, ExecFacts, WritesGrows
      <3>2. CASE Raises(x, ev, CompleteName(a))
        BY <3>2, ExecFacts, NothingGrows DEF Raises
      <3>3. QED
        BY <1>4, <3>1, <3>2 DEF EndCall
    <2>4. RestOK' /\ crashed' = crashed /\ dropped' = dropped
      BY <1>4, <2>1, ExecFacts DEF EndCall, RestOK, Row
    <2>5. state \in ExecState /\ state.pc = "running" /\ state.turn = t
      BY ExecFacts DEF ExecState, Pc, Awaiting
    <2>6. Put(x, state)
      BY <1>4 DEF EndCall
    <2>7. QED
      BY <2>1, <2>3, <2>4, <2>5, <2>6, PutStays DEF Good
  <1>5. CASE Ask(x)
    <2> DEFINE ev == Ev("approval_required")
               state == [exec[x] EXCEPT !.pc = "asking"]
    <2>1. exec[x].pc = "running" /\ t \in Turn /\ Started(t) /\ ev \in Event
      BY <1>5, ExecFacts, EventType DEF Ask, At
    <2>2. RestOK' /\ crashed' = crashed /\ dropped' = dropped
      BY <1>5, ExecFacts DEF Ask, RestOK
    <2>3. CASE WritesFresh(x, ev) /\ Put(x, state)
      <3>1. Grows({})
        BY <2>1, <2>3, ExecFacts, WritesFreshGrows
      <3>2. state \in ExecState /\ state.pc = "asking" /\ state.turn = t
        BY ExecFacts DEF ExecState, Pc, Awaiting
      <3>3. QED
        BY <2>1, <2>2, <2>3, <3>1, <3>2, PutStays DEF Good
    <2>4. CASE RaisesFresh(x, ev) /\ Reach(x, "raising", "error")
      <3>1. Grows({})
        BY <2>4, ExecFacts, NothingGrows DEF RaisesFresh
      <3>2. QED
        BY <2>1, <2>2, <2>4, <3>1, ReachStays DEF Good, Pc, AnyOutcome
    <2>5. QED
      BY <1>5, <2>3, <2>4 DEF Ask
  <1>6. QED
    BY <1>1, <1>2, <1>3, <1>4, <1>5 DEF Work

\* Humans.
LEMMA HumanGood ==
  ASSUME RuntimeInv, NEW x \in Executor, Hear(x) \/ Interfere(x)
  PROVE  Good(x)
  <1> DEFINE t == exec[x].turn
  <1>1. ASSUME NEW answer \in Answer, Reply(x, answer)
        PROVE  Good(x)
    <2> DEFINE state == [exec[x] EXCEPT !.reply = answer]
    <2>1. Grows({}) /\ RestOK' /\ exec[x].pc = "asking"
      BY <1>1, ExecFacts, NothingGrows DEF Reply, At, ledgerVars, RestOK
    <2>2. state \in ExecState /\ state.pc = "asking" /\ state.turn = t
      BY <2>1, ExecFacts, RuntimeAssumption DEF ExecState
    <2>3. QED
      BY <1>1, <2>1, <2>2, PutStays DEF Reply, Good
  <1>2. CASE Hear(x)
    <2> DEFINE ev == Resolved(exec[x].reply)
               state == [exec[x] EXCEPT !.pc = "running", !.reply = "none"]
    <2>1. exec[x].pc = "asking" /\ t \in Turn /\ Started(t) /\ ev \in Event
      BY <1>2, ExecFacts, EventType DEF Hear, At
    <2>2. RestOK' /\ crashed' = crashed /\ dropped' = dropped
      BY <1>2, ExecFacts DEF Hear, RestOK
    <2>3. state \in ExecState /\ state.pc = "running" /\ state.turn = t
      BY ExecFacts DEF ExecState, Pc, Awaiting
    <2>4. CASE Put(x, state) /\ (UNCHANGED ledgerVars \/ WritesFresh(x, ev))
      <3>1. Grows({})
        BY <2>1, <2>4, ExecFacts, NothingGrows, WritesFreshGrows
      <3>2. QED
        BY <2>1, <2>2, <2>3, <2>4, <3>1, PutStays DEF Good
    <2>5. CASE RaisesFresh(x, ev) /\ Reach(x, "raising", "error")
      <3>1. Grows({})
        BY <2>5, ExecFacts, NothingGrows DEF RaisesFresh
      <3>2. QED
        BY <2>1, <2>2, <2>5, <3>1, ReachStays DEF Good, Pc, AnyOutcome
    <2>6. QED
      BY <1>2, <2>4, <2>5 DEF Hear
  <1>3. CASE Cancel(x)
    <2>1. /\ Grows({}) /\ RestOK' /\ exec[x].pc \in {"running", "calling", "asking"}
          /\ crashed' = crashed /\ dropped' = dropped
      BY <1>3, ExecFacts, NothingGrows DEF Cancel, ledgerVars, RestOK
    <2>2. PICK reply \in AnyAnswer \cup {"none"} :
             Put(x, [exec[x] EXCEPT !.cancelled = TRUE, !.reply = reply])
      BY <1>3, ExecFacts DEF Cancel, ExecState, AnyAnswer
    <2> DEFINE state == [exec[x] EXCEPT !.cancelled = TRUE, !.reply = reply]
    <2>3. /\ state \in ExecState /\ state.pc = exec[x].pc /\ state.turn = t
          /\ state.call = exec[x].call
      BY ExecFacts DEF ExecState
    <2>4. exec[x].pc = "calling" => exec[x].call \in Attempt
      BY ExecFacts DEF ExecOK
    <2>5. Classed(x)
      BY <2>1, <2>2, <2>3, <2>4, PutStays
    <2>6. QED
      BY <2>1, <2>5 DEF Good
  <1>4. CASE CancelUnbegun(x)
    <2>1. Grows({}) /\ crashed' = crashed /\ dropped' = dropped \cup {t} /\ t \in Turn
      BY <1>4, ExecFacts, NothingGrows DEF CancelUnbegun, At, ledgerVars
    <2>2. Classed(x)
      BY <1>4, <2>1, PutLeaves DEF CancelUnbegun
    <2>3. RestOK'
      BY <1>4, <2>1, ExecFacts DEF CancelUnbegun, RestOK
    <2>4. QED
      BY <2>2, <2>3 DEF Good
  <1>5. CASE ForceCancel(x)
    <2>1. /\ Grows({}) /\ RestOK' /\ exec[x].pc \in {"running", "calling", "asking"}
          /\ crashed' = crashed /\ dropped' = dropped
      BY <1>5, ExecFacts, NothingGrows DEF ForceCancel, ledgerVars, RestOK
    <2>2. QED
      BY <1>5, <2>1, ReachStays DEF ForceCancel, Good, Pc, AnyOutcome
  <1>6. QED
    BY <1>1, <1>2, <1>3, <1>4, <1>5 DEF Interfere

\* After the controller.
LEMMA ReturnGood ==
  ASSUME RuntimeInv, NEW x \in Executor, Finish(x)
  PROVE  Good(x)
  <1>1. /\ Grows({}) /\ RestOK' /\ exec[x].pc = "running"
        /\ crashed' = crashed /\ dropped' = dropped
    BY ExecFacts, NothingGrows DEF Finish, Return, ControllerRaises, At, ledgerVars, RestOK
  <1>2. PICK pc \in {"returned", "raising"}, outcome \in AnyOutcome : Reach(x, pc, outcome)
    BY RuntimeAssumption DEF Finish, Return, ControllerRaises, AnyOutcome
  <1>3. QED
    BY <1>1, <1>2, ReachStays DEF Good, Pc

LEMMA VerifyGood ==
  ASSUME RuntimeInv, NEW x \in Executor, Check(x) \/ Verdict(x)
  PROVE  Good(x)
  <1> DEFINE t == exec[x].turn
             verdict == FlagEv("verification", IF exec[x].outcome = "success" THEN "yes" ELSE "no")
  <1>1. /\ exec[x].pc \in {"returned", "checking"} /\ t \in Turn /\ Started(t)
        /\ exec[x].outcome \in AnyOutcome \cup {"none"}
    BY ExecFacts DEF Check, Verdict, At, ExecState
  <1>2. RestOK' /\ crashed' = crashed /\ dropped' = dropped
    BY ExecFacts DEF Check, Verdict, RestOK
  <1>3. PICK ev \in {Ev("verification_started"), verdict}, name \in {CheckName, VerdictName},
             pc \in {"checking", "checked"} :
          \/ (Writes(x, ev, name) \/ WritesFresh(x, ev)) /\ Reach(x, pc, exec[x].outcome)
          \/ (Raises(x, ev, name) \/ RaisesFresh(x, ev)) /\ Reach(x, "raising", "error")
    BY DEF Check, Verdict
  <1>4. ev \in Event /\ name \in Name /\ name \notin {TerminalName, BlockName}
    BY EventType, NameType, NameApart DEF Flag
  <1>5. CASE (Writes(x, ev, name) \/ WritesFresh(x, ev)) /\ Reach(x, pc, exec[x].outcome)
    <2>1. Grows({})
      BY <1>1, <1>4, <1>5, ExecFacts, WritesGrows, WritesFreshGrows
    <2>2. QED
      BY <1>1, <1>2, <1>5, <2>1, ReachStays DEF Good, Pc
  <1>6. CASE (Raises(x, ev, name) \/ RaisesFresh(x, ev)) /\ Reach(x, "raising", "error")
    <2>1. Grows({})
      BY <1>6, ExecFacts, NothingGrows DEF Raises, RaisesFresh
    <2>2. QED
      BY <1>1, <1>2, <1>6, <2>1, ReachStays DEF Good, Pc, AnyOutcome
  <1>7. QED
    BY <1>3, <1>5, <1>6

LEMMA EndGood ==
  ASSUME RuntimeInv, NEW x \in Executor, Decide(x) \/ End(x) \/ Leave(x)
  PROVE  Good(x)
  <1> DEFINE t == exec[x].turn
             outcome == exec[x].outcome
  <1>1. /\ exec[x].pc \in {"checked", "raising", "deciding", "closing"}
        /\ t \in Turn /\ Started(t) /\ outcome \in AnyOutcome \cup {"none"}
    BY ExecFacts DEF Decide, End, Leave, At, ExecState
  <1>2. CASE Decide(x)
    <2>1. Grows({}) /\ RestOK' /\ crashed' = crashed /\ dropped' = dropped
      BY <1>2, ExecFacts, NothingGrows DEF Decide, ledgerVars, RestOK
    <2>2. CASE StillOpen(x) /\ Reach(x, "deciding", outcome)
      BY <1>1, <2>1, <2>2, ReachStays DEF Good, Pc
    <2>3. CASE ~StillOpen(x) /\ Reach(x, "closing", outcome)
      <3>1. Ended(t)
        BY <1>1, <2>3 DEF StillOpen, Live, Ended
      <3>2. \A u \in Turn : u = t => ~Live(u)'
        BY <2>1, <3>1 DEF Grows, Ended, Live
      <3>3. QED
        BY <1>1, <2>1, <2>3, <3>2, ReachStays DEF Good, Pc
    <2>4. QED
      BY <1>2, <2>2, <2>3 DEF Decide
  <1>3. CASE End(x)
    <2> DEFINE ev == EndEvent(outcome)
    <2>1. RestOK' /\ crashed' = crashed /\ dropped' = dropped
      BY <1>3, ExecFacts DEF End, RestOK
    <2>2. ev \in Event /\ ev.kind \in TerminalPhase
      BY EndEventType
    <2>3. CASE Writes(x, ev, TerminalName) /\ Reach(x, "closing", outcome)
      <3>1. Grows({}) /\ \A u \in Turn : u = t => Ended(u)'
        BY <1>1, <2>2, <2>3, EndWrites
      <3>2. \A u \in Turn : u = t => ~Live(u)'
        BY <3>1 DEF Ended, Live
      <3>3. QED
        BY <1>1, <2>1, <2>3, <3>1, <3>2, ReachStays DEF Good, Pc
    <2>4. CASE Raises(x, ev, TerminalName) /\ Reach(x, "raising", "error")
      <3>1. Grows({})
        BY <2>4, ExecFacts, NothingGrows DEF Raises
      <3>2. QED
        BY <1>1, <2>1, <2>4, <3>1, ReachStays DEF Good, Pc, AnyOutcome
    <2>5. QED
      BY <1>3, <2>3, <2>4 DEF End
  <1>4. CASE Leave(x)
    <2>1. Grows({}) /\ exec[x].pc = "closing" /\ crashed' = crashed /\ dropped' = dropped
      BY <1>4, ExecFacts, NothingGrows DEF Leave, At, ledgerVars
    <2>2. Ended(t)
      BY <1>1, <2>1, ExecFacts DEF ExecOK, Live, Ended
    <2>3. \A u \in Turn : u = t => Ended(u)'
      BY <2>1, <2>2 DEF Grows
    <2>4. Classed(x)
      BY <1>4, <2>1, <2>3, PutLeaves DEF Leave
    <2>5. RestOK'
      BY <1>1, <1>4, ExecFacts DEF Leave, RestOK
    <2>6. QED
      BY <2>4, <2>5 DEF Good
  <1>5. QED
    BY <1>2, <1>3, <1>4

-----------------------------------------------------------------------------
\* The steps of a process

LEMMA CloseKeepsInv ==
  ASSUME RuntimeInv, NEW h \in Host, Close(h)
  PROVE  RuntimeInv'
  BY DEF RuntimeInv, Close, RuntimeTypeOK, LedgerTypeOK, KeyedEnds, Ended, Started, Live,
         ExecOK, LiveTurnIsAttended, Attended

LEMMA CrashKeepsInv ==
  ASSUME RuntimeInv, NEW h \in Host, Crash(h)
  PROVE  RuntimeInv'
  <1> DEFINE dead == {x \in Executor : HostOf[x] = h /\ exec[x].pc # "idle"}
  <1>1. /\ exec' = [x \in Executor |-> IF x \in dead THEN Idle ELSE exec[x]]
        /\ crashed' = crashed \cup {t \in Turn : Started(t) /\ \E x \in dead : exec[x].turn = t}
        /\ UNCHANGED ledgerVars /\ dropped' = dropped
    BY DEF Crash, ledgerVars
  <1>2. LedgerTypeOK /\ KeyedEnds /\ RestOK
    BY DEF RuntimeInv, RuntimeTypeOK, RestOK
  <1>3. Grows({})
    BY <1>1, <1>2, NothingGrows
  <1>4. RestOK'
    BY <1>2, RuntimeAssumption DEF Crash, RestOK
  <1>5. \A x \in Executor : ExecOK(x)'
    <2>1. ASSUME NEW x \in Executor
          PROVE  ExecOK(x)'
      <3>1. CASE x \in dead
        BY <1>1, <3>1, IdleOK
      <3>2. CASE x \notin dead
        BY <1>1, <1>3, <3>2, OthersOK DEF RuntimeInv
      <3>3. QED
        BY <3>1, <3>2
    <2>2. QED
      BY <2>1
  <1>6. exec' \in [Executor -> ExecState]
    BY <1>1, <1>5 DEF ExecOK
  <1>7. LiveTurnIsAttended'
    <2>1. SUFFICES ASSUME NEW t \in Turn, Live(t)', t \notin crashed' \cup dropped'
                   PROVE  Attended(t)'
      BY DEF LiveTurnIsAttended
    <2>2. Live(t) /\ Started(t) /\ t \notin crashed \cup dropped
      BY <1>1, <2>1 DEF Live, Started, ledgerVars
    <2>3. PICK y \in Executor : exec[y].turn = t /\ exec[y].pc \notin {"idle", "looked"}
      BY <2>2 DEF RuntimeInv, LiveTurnIsAttended, Attended
    <2>4. y \notin dead
      BY <1>1, <2>1, <2>2, <2>3
    <2>5. QED
      BY <1>1, <2>3, <2>4 DEF Attended
  <1>8. QED
    BY <1>3, <1>4, <1>5, <1>6, <1>7 DEF RuntimeInv, RuntimeTypeOK, RestOK, Grows

-----------------------------------------------------------------------------
\* The theorems

LEMMA InitRuntimeInv == Init => RuntimeInv
  <1> SUFFICES ASSUME Init
               PROVE  RuntimeInv
    OBVIOUS
  <1>1. RuntimeTypeOK
    BY IdleType DEF Init, LedgerInit, RuntimeTypeOK, LedgerTypeOK, Row
  <1>2. KeyedEnds /\ LiveTurnIsAttended
    BY DEF Init, LedgerInit, KeyedEnds, EndKeys, LiveTurnIsAttended, Live, Started
  <1>3. \A x \in Executor : ExecOK(x)
    BY IdleType DEF Init, ExecOK, Idle
  <1>4. QED
    BY <1>1, <1>2, <1>3 DEF RuntimeInv

LEMMA NextRuntimeInv == RuntimeInv /\ [Next]_vars => RuntimeInv'
  <1> SUFFICES ASSUME RuntimeInv, [Next]_vars
               PROVE  RuntimeInv'
    OBVIOUS
  <1>1. ASSUME NEW x \in Executor,
               Begin(x) \/ Proceed(x) \/ Finish(x) \/ Work(x) \/ Interfere(x)
        PROVE  RuntimeInv'
    <2>1. Good(x)
      BY <1>1, BeginGood, ReconcileGood, NoteLocalGood, BlockGood, WorkGood, HumanGood,
         ReturnGood, VerifyGood, EndGood DEF Proceed
    <2>2. QED
      BY <2>1, GoodKeepsInv
  <1>2. ASSUME NEW h \in Host, Close(h) \/ Crash(h)
        PROVE  RuntimeInv'
    BY <1>2, CloseKeepsInv, CrashKeepsInv
  <1>3. CASE UNCHANGED vars
    BY <1>3 DEF vars, RuntimeInv, RuntimeTypeOK, LedgerTypeOK, KeyedEnds, Ended, Started,
                Live, ExecOK, LiveTurnIsAttended, Attended
  <1>4. QED
    BY <1>1, <1>2, <1>3 DEF Next

\* The runtime is well typed, however many executors and processes there are.
THEOREM RuntimeTypeCorrect == Spec => []RuntimeTypeOK
  <1>1. RuntimeInv => RuntimeTypeOK
    BY DEF RuntimeInv
  <1>2. QED
    BY InitRuntimeInv, NextRuntimeInv, <1>1, PTL DEF Spec

\* A spent terminal or reconciliation key means an ended turn, and nobody leaves
\* _execute from a live turn.
THEOREM KeyedTurnsEnded == Spec => []EndsAreKeyed
  <1>1. RuntimeInv => EndsAreKeyed
    BY DEF RuntimeInv, EndsAreKeyed, KeyedEnds, EndKeys, Ended, ExecOK
  <1>2. QED
    BY InitRuntimeInv, NextRuntimeInv, <1>1, PTL DEF Spec

\* A live turn is being executed, unless an execution of it was lost: whatever
\* the executions of a turn do to each other, the last one to leave it ends it.
THEOREM LiveTurnsAreAttended == Spec => []LiveTurnIsAttended
  <1>1. RuntimeInv => LiveTurnIsAttended
    BY DEF RuntimeInv
  <1>2. QED
    BY InitRuntimeInv, NextRuntimeInv, <1>1, PTL DEF Spec


-----------------------------------------------------------------------------
\* Turns that are executed one execution at a time: what an execution says of
\* its turn, and the mutations that a completed turn leaves behind.

Holds(x, t) == exec[x].turn = t /\ exec[x].pc \notin {"idle", "looked"}

\* No two executors hold one turn.  Executions of a session, its tool attempts
\* and its reconciliations may overlap, processes may die, and a turn may be
\* resumed by anyone once its executor is gone.
TurnsAreApart ==
    \A t \in Turn, x, y \in Executor : Holds(x, t) /\ Holds(y, t) => x = y

Completed(t)   == Started(t) /\ snapshot[t].phase = "completed"
Spent(t, name) == <<t, name>> \in keys

\* Before the verification of the result.
Early == {"created", "reconciled", "running", "calling", "asking", "returned"}

\* The path of x through its turn: only its terminal event completes the turn,
\* and the keys of the verification are spent by x or by an executor that died.
PathOK(x, t) ==
    LET pc == exec[x].pc  success == exec[x].outcome = "success" IN
    /\ pc # "closing" => ~Completed(t)
    /\ pc = "raising" => ~success
    /\ pc = "deciding" => Live(t)
    /\ pc = "calling" => TurnOf(exec[x].call) = t
    /\ t \notin crashed =>
          /\ pc \in Early => ~Spent(t, CheckName)
          /\ pc \in Early \cup {"checking"} => ~Spent(t, VerdictName)
          /\ pc \in {"checking", "checked"} => Live(t)
          /\ pc = "closing" => (success <=> Completed(t))

\* A mutation of t that is in progress is the one x calls, or was interrupted
\* and x has yet to reconcile it, or x is not going to complete the turn.
Excused(x, t, a) ==
    \/ exec[x].pc = "created"
    \/ exec[x].pc = "calling" /\ exec[x].call = a
    \/ Ended(t)
    \/ exec[x].pc \in {"raising", "deciding", "closing"} /\ exec[x].outcome # "success"

InProgress(t) == {a \in Attempt : TurnOf(a) = t /\ rows[a] = "in_progress"}

TurnOK(t) ==
    /\ ~Started(t) => /\ \A n \in Name : ~Spent(t, n)
                      /\ \A a \in Attempt : TurnOf(a) = t => rows[a] = "absent"
    /\ InProgress(t) # {} => ~Completed(t)
    /\ \A x \in Executor : Holds(x, t) =>
          PathOK(x, t) /\ \A a \in InProgress(t) : Excused(x, t, a)
    /\ (Live(t) /\ t \notin crashed /\ \A x \in Executor : ~Holds(x, t))
          => ~Spent(t, CheckName) /\ ~Spent(t, VerdictName)

ApartInv == RuntimeInv /\ \A t \in Turn : TurnOK(t)

\* What x does in a step is about turn t only, but for the rows it reconciles.
About(x, t) ==
    /\ \A y \in Executor \ {x} : exec'[y] = exec[y]
    /\ \A u \in Turn \ {t} :
          /\ ~Holds(x, u) /\ ~Holds(x, u)'
          /\ snapshot'[u] = snapshot[u]
          /\ \A n \in Name : <<u, n>> \in keys' <=> <<u, n>> \in keys
    /\ \A a \in Attempt : TurnOf(a) # t =>
          rows'[a] = rows[a] \/ (rows[a] = "in_progress" /\ rows'[a] = "uncertain")
    /\ crashed' = crashed

LEMMA OtherTurnsKept ==
  ASSUME NEW x \in Executor, NEW t, About(x, t), NEW u \in Turn \ {t}, TurnOK(u)
  PROVE  TurnOK(u)'
  <1>1. /\ snapshot'[u] = snapshot[u] /\ crashed' = crashed
        /\ \A n \in Name : <<u, n>> \in keys' <=> <<u, n>> \in keys
        /\ ~Holds(x, u) /\ ~Holds(x, u)'
    BY DEF About
  <1>2. \A y \in Executor \ {x} : exec'[y] = exec[y]
    BY DEF About
  <1>3. /\ Started(u)' = Started(u) /\ Live(u)' = Live(u) /\ Completed(u)' = Completed(u)
        /\ Ended(u)' = Ended(u)
    BY <1>1 DEF Started, Live, Completed, Ended
  <1>4. /\ \A n \in Name : Spent(u, n)' = Spent(u, n)
        /\ Spent(u, CheckName)' = Spent(u, CheckName)
        /\ Spent(u, VerdictName)' = Spent(u, VerdictName)
    BY <1>1, NameType DEF Spent
  <1>5. InProgress(u)' \subseteq InProgress(u)
    BY DEF About, InProgress
  <1>6. ~Started(u) => \A a \in Attempt : TurnOf(a) = u => rows'[a] = "absent"
    BY DEF About, TurnOK
  <1>7. \A y \in Executor : Holds(y, u)' <=> Holds(y, u)
    BY <1>1, <1>2 DEF Holds
  <1>8. ASSUME NEW y \in Executor, Holds(y, u)'
        PROVE  PathOK(y, u)' /\ \A a \in InProgress(u)' : Excused(y, u, a)'
    <2>1. exec'[y] = exec[y] /\ Holds(y, u)
      BY <1>1, <1>2, <1>7, <1>8
    <2>2. PathOK(y, u)'
      BY <1>1, <1>3, <1>4, <2>1 DEF TurnOK, PathOK
    <2>3. \A a \in InProgress(u)' : Excused(y, u, a)'
      BY <1>3, <1>5, <2>1 DEF TurnOK, Excused
    <2>4. QED
      BY <2>2, <2>3
  <1>9. QED
    BY <1>1, <1>3, <1>4, <1>5, <1>6, <1>7, <1>8 DEF TurnOK

\* The turn x holds after the step, alone.
LEMMA HeldTurnKept ==
  ASSUME NEW x \in Executor, NEW t \in Turn, TurnsAreApart', Holds(x, t)', Started(t)',
         PathOK(x, t)', \A a \in InProgress(t)' : Excused(x, t, a)',
         InProgress(t)' # {} => ~Completed(t)'
  PROVE  TurnOK(t)'
  <1>1. \A y \in Executor : Holds(y, t)' => y = x
    BY DEF TurnsAreApart
  <1>2. QED
    BY <1>1 DEF TurnOK

\* The turn x left, alone: it has ended, or no verification of it was begun.
LEMMA LeftTurnKept ==
  ASSUME NEW x \in Executor, NEW t \in Turn, TurnsAreApart, Holds(x, t), About(x, t),
         exec'[x] = Idle, Started(t)', InProgress(t)' # {} => ~Completed(t)',
         Ended(t)' \/ t \in crashed \/ (~Spent(t, CheckName)' /\ ~Spent(t, VerdictName)')
  PROVE  TurnOK(t)'
  <1>1. \A y \in Executor : ~Holds(y, t)'
    BY DEF TurnsAreApart, Holds, About, Idle
  <1>2. ~Live(t)' \/ t \in crashed' \/ (~Spent(t, CheckName)' /\ ~Spent(t, VerdictName)')
    BY DEF About, Ended, Live
  <1>3. QED
    BY <1>1, <1>2 DEF TurnOK


\* What an append by x says about the ledger of other turns and of its own.
LEMMA AppendAbout ==
  ASSUME LedgerTypeOK, NEW t \in Turn, NEW ev \in Event, NEW key, Append(t, ev, key),
         key = NoKey \/ \E n \in Name : key = <<t, n>>
  PROVE  /\ \A u \in Turn \ {t} :
               /\ snapshot'[u] = snapshot[u]
               /\ \A n \in Name : <<u, n>> \in keys' <=> <<u, n>> \in keys
         /\ keys' \subseteq keys \cup {key}
         /\ \/ key \in keys /\ UNCHANGED ledgerVars
            \/ key \notin keys /\ Live(t) /\ snapshot'[t] = Reduce(snapshot[t], ev)
  <1>1. \A u \in Turn \ {t}, n \in Name : <<u, n>> \notin {key} \ {NoKey}
    BY DEF Key
  <1>2. CASE key \in keys
    BY <1>2 DEF Append, ledgerVars
  <1>3. CASE key \notin keys
    <2>1. /\ snapshot' = [snapshot EXCEPT ![t] = Reduce(snapshot[t], ev)]
          /\ keys' = keys \cup ({key} \ {NoKey})
          /\ Live(t)
      BY <1>3 DEF Append, Refused, Rejected, Live
    <2>2. QED
      BY <1>1, <1>3, <2>1 DEF LedgerTypeOK
  <1>4. QED
    BY <1>2, <1>3

\* Only a completion completes a turn.
LEMMA ReduceCompletes ==
  ASSUME NEW snap \in Snapshot, NEW ev \in Event,
         ev.kind # "completed", Reduce(snap, ev).phase = "completed"
  PROVE  snap.phase = "completed"
  <1>1. CASE ev.kind \in TerminalPhase
    <2>1. Reduce(snap, ev) = WithEnd(snap, ev)
      BY <1>1 DEF Reduce, TerminalPhase
    <2>2. WithEnd(snap, ev).phase = ev.kind
      BY <1>1 DEF WithEnd, TerminalPhase, Snapshot
    <2>3. QED
      BY <2>1, <2>2
  <1>2. CASE ev.kind \in {"tool_started", "tool_completed"}
    <2>1. Reduce(snap, ev) = WithTool(snap, ev)
      BY <1>2 DEF Reduce, TerminalPhase
    <2>2. WithTool(snap, ev).phase = "executing"
      BY <1>2 DEF WithTool, Snapshot
    <2>3. QED
      BY <2>1, <2>2
  <1>3. CASE ev.kind \in {"approval_required", "approval_resolved"}
    <2>1. Reduce(snap, ev) = WithApproval(snap, ev)
      BY <1>3 DEF Reduce, TerminalPhase
    <2>2. WithApproval(snap, ev).phase \in {"waiting_approval", "executing", "blocked"}
      BY <1>3 DEF WithApproval, Snapshot
    <2>3. QED
      BY <2>1, <2>2
  <1>4. CASE ev.kind = "verification"
    <2>1. Reduce(snap, ev) = WithVerdict(snap, ev)
      BY <1>4 DEF Reduce, TerminalPhase
    <2>2. WithVerdict(snap, ev).phase \in {"executing", "repairing"}
      BY DEF WithVerdict, Snapshot
    <2>3. QED
      BY <2>1, <2>2
  <1>5. CASE ev.kind \in {"planning_started", "planned", "verification_started", "repair",
                          "checkpoint", "accepted", "progress", "todo_board"}
    BY <1>5 DEF Reduce, Snapshot, TerminalPhase
  <1>6. QED
    BY <1>1, <1>2, <1>3, <1>4, <1>5 DEF Event, Kind, TerminalPhase

LEMMA AppendCompletes ==
  ASSUME LedgerTypeOK, NEW t \in Turn, NEW ev \in Event, NEW key, Append(t, ev, key),
         key = NoKey \/ (\E n \in Name : key = <<t, n>>),
         ev.kind # "completed", ~Completed(t)
  PROVE  ~Completed(t)'
  <1>1. CASE key \in keys
    BY <1>1 DEF Append, ledgerVars, Completed, Started
  <1>2. CASE key \notin keys
    <2>1. snapshot'[t] = Reduce(snapshot[t], ev) /\ Live(t)
      BY <1>2, AppendAbout
    <2>2. snapshot[t] \in Snapshot
      BY <2>1 DEF Live, Started, LedgerTypeOK
    <2>3. QED
      BY <2>1, <2>2, ReduceCompletes DEF Completed, Live
  <1>3. QED
    BY <1>1, <1>2

\* The keys of the verification are no other keys.
LEMMA VerificationApart ==
  /\ \A a \in Attempt : {StartName(a), CompleteName(a)} \cap {CheckName, VerdictName} = {}
  /\ \A ev \in Mirrored : MirrorName(ev) \notin {CheckName, VerdictName}
  /\ {AcceptedName, LocalName, TerminalName, BlockName} \cap {CheckName, VerdictName} = {}
  /\ CheckName # VerdictName
  <1> USE DEF StartName, CompleteName, MirrorName, AcceptedName, TerminalName, BlockName,
              LocalName, CheckName, VerdictName
  <1>1. \A a \in Attempt : {StartName(a), CompleteName(a)} \cap {CheckName, VerdictName} = {}
    OBVIOUS
  <1>2. \A ev \in Mirrored : MirrorName(ev) \notin {CheckName, VerdictName}
    OBVIOUS
  <1>3. /\ {AcceptedName, LocalName, TerminalName, BlockName} \cap {CheckName, VerdictName} = {}
        /\ CheckName # VerdictName
    OBVIOUS
  <1>4. QED
    BY <1>1, <1>2, <1>3

\* The ledger of a step before the verification: x, at turn t, appends an event
\* that completes nothing and spends no key of the verification, or none.
Unverified(t) ==
    /\ \A u \in Turn \ {t} :
          /\ snapshot'[u] = snapshot[u]
          /\ \A n \in Name : <<u, n>> \in keys' <=> <<u, n>> \in keys
    /\ ~Completed(t) => ~Completed(t)'
    /\ Spent(t, CheckName)' => Spent(t, CheckName)
    /\ Spent(t, VerdictName)' => Spent(t, VerdictName)

LEMMA NothingUnverified ==
  ASSUME NEW t, UNCHANGED ledgerVars
  PROVE  Unverified(t)
  BY DEF Unverified, ledgerVars, Completed, Started, Spent

LEMMA WritesUnverified ==
  ASSUME LedgerTypeOK, NEW x \in Executor, exec[x].turn \in Turn,
         NEW ev \in Event, ev.kind # "completed",
         NEW name \in Name \ {CheckName, VerdictName}, Writes(x, ev, name)
  PROVE  Unverified(exec[x].turn)
  <1>1. PICK t \in Turn : t = exec[x].turn
    OBVIOUS
  <1>2. PICK key : key = <<t, name>>
    OBVIOUS
  <1>3. Append(t, ev, key)
    BY <1>1, <1>2 DEF Writes
  <1>4. keys' \subseteq keys \cup {key} /\ (~Completed(t) => ~Completed(t)')
    BY <1>2, <1>3, AppendAbout, AppendCompletes
  <1>5. /\ Spent(t, CheckName)' => Spent(t, CheckName)
        /\ Spent(t, VerdictName)' => Spent(t, VerdictName)
    BY <1>2, <1>4 DEF Spent
  <1>6. Unverified(t)
    BY <1>2, <1>3, <1>4, <1>5, AppendAbout DEF Unverified
  <1>7. QED
    BY <1>1, <1>6

LEMMA WritesFreshUnverified ==
  ASSUME LedgerTypeOK, NEW x \in Executor, exec[x].turn \in Turn,
         NEW ev \in Event, ev.kind # "completed", WritesFresh(x, ev)
  PROVE  Unverified(exec[x].turn)
  <1>1. PICK t \in Turn : t = exec[x].turn
    OBVIOUS
  <1>2. Append(t, ev, NoKey)
    BY <1>1 DEF WritesFresh
  <1>3. keys' \subseteq keys \cup {NoKey} /\ (~Completed(t) => ~Completed(t)')
    BY <1>2, AppendAbout, AppendCompletes
  <1>4. <<t, CheckName>> # NoKey /\ <<t, VerdictName>> # NoKey
    BY NameType, KeyAssumption DEF Key
  <1>5. /\ Spent(t, CheckName)' => Spent(t, CheckName)
        /\ Spent(t, VerdictName)' => Spent(t, VerdictName)
    BY <1>3, <1>4 DEF Spent
  <1>6. Unverified(t)
    BY <1>2, <1>3, <1>5, AppendAbout DEF Unverified
  <1>7. QED
    BY <1>1, <1>6


\* A step of x within its turn t, before the verification: it is well classed,
\* and the mutations in progress after it are excused.
EarlyStep(x, t) ==
    /\ Holds(x, t) /\ exec[x].pc \in Early
    /\ Grows({}) /\ Others(x) /\ Unverified(t)
    /\ exec'[x].turn = t
    /\ exec'[x].pc \in (Early \ {"created"}) \cup {"raising"}
    /\ exec'[x].pc = "raising" => exec'[x].outcome # "success"
    /\ exec'[x].pc = "calling" => TurnOf(exec'[x].call) = t
    /\ crashed' = crashed
    /\ \A a \in Attempt : TurnOf(a) # t =>
          rows'[a] = rows[a] \/ (rows[a] = "in_progress" /\ rows'[a] = "uncertain")
    /\ \A a \in InProgress(t)' : Excused(x, t, a)'

LEMMA EarlyKept ==
  ASSUME ApartInv, TurnsAreApart', NEW x \in Executor, NEW t \in Turn, EarlyStep(x, t)
  PROVE  \A u \in Turn : TurnOK(u)'
  <1>1. PathOK(x, t) /\ Started(t)
    BY DEF ApartInv, TurnOK, EarlyStep, RuntimeInv, ExecOK, Holds
  <1>2. exec[x].pc \notin {"closing", "idle", "looked"} /\ ~Completed(t)
    BY <1>1 DEF EarlyStep, Early, PathOK
  <1>3. ~Completed(t)' /\ Started(t)'
    BY <1>1, <1>2 DEF EarlyStep, Unverified, Grows
  <1>4. Holds(x, t)'
    BY DEF EarlyStep, Holds, Early
  <1>5. About(x, t)
    <2>1. \A u \in Turn \ {t} : ~Holds(x, u) /\ ~Holds(x, u)'
      BY DEF EarlyStep, Holds
    <2>2. QED
      BY <2>1 DEF EarlyStep, Others, Unverified, About
  <1>6. PathOK(x, t)'
    <2>1. t \notin crashed' =>
             /\ exec'[x].pc \in Early => ~Spent(t, CheckName)'
             /\ exec'[x].pc \in Early \cup {"checking"} => ~Spent(t, VerdictName)'
      BY <1>1, <1>2 DEF EarlyStep, PathOK, Unverified
    <2>2. exec'[x].pc \notin {"checking", "checked", "closing", "deciding"}
      BY DEF EarlyStep, Early
    <2>3. QED
      BY <1>3, <2>1, <2>2 DEF EarlyStep, PathOK
  <1>7. TurnOK(t)'
    BY <1>3, <1>4, <1>6, HeldTurnKept DEF EarlyStep
  <1>8. QED
    BY <1>5, <1>7, OtherTurnsKept DEF ApartInv

\* Where x is not calling, what is in progress in its turn stays excused.
LEMMA StillExcused ==
  ASSUME ApartInv, NEW x \in Executor, NEW t \in Turn, Holds(x, t), Grows({}),
         exec[x].pc \in Early \ {"created", "calling"},
         NEW a \in InProgress(t)
  PROVE  Ended(t)'
  <1>1. Excused(x, t, a)
    BY DEF ApartInv, TurnOK
  <1>2. Ended(t)
    BY <1>1 DEF Excused, Early
  <1>3. QED
    BY <1>2 DEF Grows

\* A step of x that stays with its turn, or enters it from created.
LEMMA StaysFacts ==
  ASSUME RuntimeInv, RuntimeInv', NEW x \in Executor, Good(x),
         exec[x].pc \notin {"idle", "looked"}, exec'[x].pc # "idle"
  PROVE  /\ exec[x].turn \in Turn /\ Holds(x, exec[x].turn)
         /\ Grows({}) /\ Others(x)
         /\ exec'[x].turn = exec[x].turn
  <1>1. Stays(x)
    BY DEF Good, Classed, Leaves, TakesUp, Looks, Idle
  <1>2. QED
    BY <1>1, ExecFacts DEF Stays, Holds

\* Such a step that leaves the rows and the call alone.
LEMMA QuietKept ==
  ASSUME ApartInv, RuntimeInv', TurnsAreApart', NEW x \in Executor, Good(x),
         NEW t \in Turn, t = exec[x].turn,
         exec[x].pc \in Early \ {"created"}, Unverified(t), rows' = rows, crashed' = crashed,
         exec'[x].pc \in (Early \ {"created"}) \cup {"raising"},
         exec'[x].pc = "raising" => exec'[x].outcome # "success",
         exec'[x].pc = "calling" => exec[x].pc = "calling",
         exec[x].pc = "calling" => \/ exec'[x].pc = "raising"
                                   \/ exec'[x].pc = "calling" /\ exec'[x].call = exec[x].call
  PROVE  \A u \in Turn : TurnOK(u)'
  <1>1. RuntimeInv /\ exec[x].pc \notin {"idle", "looked"} /\ exec'[x].pc # "idle"
    BY DEF ApartInv, Early
  <1>2. Holds(x, t) /\ Grows({}) /\ Others(x) /\ exec'[x].turn = t
    BY <1>1, StaysFacts
  <1>3. PathOK(x, t) /\ \A a \in InProgress(t) : Excused(x, t, a)
    BY <1>2 DEF ApartInv, TurnOK
  <1>4. exec'[x].pc = "calling" => TurnOf(exec'[x].call) = t
    BY <1>3 DEF PathOK
  <1>5. ASSUME NEW a \in InProgress(t)'
        PROVE  Excused(x, t, a)'
    <2>1. a \in InProgress(t)
      BY <1>5 DEF InProgress
    <2>2. CASE exec[x].pc = "calling"
      <3>1. exec[x].call = a \/ Ended(t)
        BY <1>3, <2>1, <2>2 DEF Excused
      <3>2. exec[x].call = a \/ Ended(t)'
        BY <1>2, <3>1 DEF Grows
      <3>3. QED
        BY <2>2, <3>2 DEF Excused
    <2>3. CASE exec[x].pc # "calling"
      BY <1>2, <2>1, <2>3, StillExcused DEF Excused
    <2>4. QED
      BY <2>2, <2>3
  <1>6. EarlyStep(x, t)
    BY <1>2, <1>4, <1>5 DEF EarlyStep
  <1>7. QED
    BY <1>6, EarlyKept

\* The controller at work, without its calls.
LEMMA QuietActions ==
  ASSUME ApartInv, RuntimeInv', TurnsAreApart', NEW x \in Executor,
         \/ Enter(x) \/ Ask(x) \/ Hear(x) \/ Cancel(x) \/ ForceCancel(x) \/ Finish(x)
         \/ \E ev \in Mirrored : Mirror(x, ev)
         \/ \E answer \in Answer : Reply(x, answer)
  PROVE  \A u \in Turn : TurnOK(u)'
  <1>1. RuntimeInv /\ Good(x)
    BY WorkGood, HumanGood, ReturnGood DEF ApartInv, Interfere, Work
  <1>2. /\ exec[x].pc \in Early \ {"created"} /\ exec[x].pc \notin {"idle", "looked"}
        /\ exec \in [Executor -> ExecState] /\ LedgerTypeOK
    BY <1>1 DEF Enter, Mirror, Ask, Hear, Cancel, ForceCancel, Finish, Return,
       ControllerRaises, Reply, At, Early, RuntimeInv, RuntimeTypeOK
  <1>3. PICK t \in Turn : t = exec[x].turn
    BY <1>1, <1>2, ExecFacts
  <1>4. rows' = rows /\ crashed' = crashed
    BY DEF Enter, Mirror, Ask, Hear, Cancel, ForceCancel, Finish, Return,
       ControllerRaises, Reply, runtimeVars
  <1>5. Unverified(t)
    <2>1. CASE \E ev \in Mirrored : Mirror(x, ev)
      <3>1. PICK ev \in Mirrored : Mirror(x, ev)
        BY <2>1
      <3>2. /\ ev \in Event /\ ev.kind # "completed"
            /\ MirrorName(ev) \in Name \ {CheckName, VerdictName}
        BY EventType, NameType, VerificationApart, RuntimeAssumption DEF TerminalPhase
      <3>3. QED
        BY <1>2, <1>3, <3>1, <3>2, WritesUnverified DEF Mirror
    <2>2. CASE Ask(x)
      <3>1. Ev("approval_required") \in Event /\ Ev("approval_required").kind # "completed"
        BY EventType DEF Ev
      <3>2. QED
        BY <1>2, <1>3, <2>2, <3>1, WritesFreshUnverified, NothingUnverified
           DEF Ask, RaisesFresh
    <2>3. CASE Hear(x)
      <3>1. PICK ev \in Event : ev = Resolved(exec[x].reply) /\ ev.kind # "completed"
        BY EventType DEF Resolved, FlagEv
      <3>2. UNCHANGED ledgerVars \/ WritesFresh(x, ev)
        BY <2>3, <3>1 DEF Hear, RaisesFresh
      <3>3. QED
        BY <1>2, <1>3, <3>1, <3>2, WritesFreshUnverified, NothingUnverified
    <2>4. CASE \/ Enter(x) \/ Cancel(x) \/ ForceCancel(x) \/ Finish(x)
               \/ \E answer \in Answer : Reply(x, answer)
      <3>1. UNCHANGED ledgerVars
        BY <2>4 DEF Enter, Cancel, ForceCancel, Finish, Return, ControllerRaises, Reply,
           ledgerVars
      <3>2. QED
        BY <3>1, NothingUnverified
    <2>5. QED
      BY <2>1, <2>2, <2>3, <2>4
  <1>6. /\ exec'[x].pc \in (Early \ {"created"}) \cup {"raising"}
        /\ exec'[x].pc = "raising" => exec'[x].outcome # "success"
        /\ exec'[x].pc = "calling" => exec[x].pc = "calling"
        /\ exec[x].pc = "calling" => \/ exec'[x].pc = "raising"
                                     \/ exec'[x].pc = "calling" /\ exec'[x].call = exec[x].call
    <2>1. CASE Enter(x) \/ Ask(x) \/ Hear(x)
      <3>1. exec[x] \in ExecState /\ exec[x].pc # "calling"
        BY <1>2, <2>1 DEF Enter, Ask, Hear, At
      <3>2. CASE Enter(x)
        BY <1>2, <3>1, <3>2 DEF Enter, Put, Early, ExecState
      <3>3. CASE Ask(x)
        BY <1>2, <3>1, <3>3 DEF Ask, Put, Reach, Early, ExecState
      <3>4. CASE Hear(x)
        <4>1. \/ exec'[x].pc = "running"
              \/ exec'[x].pc = "raising" /\ exec'[x].outcome = "error"
          <5>1. \/ Put(x, [exec[x] EXCEPT !.pc = "running", !.reply = "none"])
                \/ Reach(x, "raising", "error")
            BY <3>4 DEF Hear
          <5>2. CASE Put(x, [exec[x] EXCEPT !.pc = "running", !.reply = "none"])
            BY <1>2, <3>1, <5>2 DEF Put, ExecState
          <5>3. CASE Reach(x, "raising", "error")
            BY <1>2, <5>3 DEF Reach, Put
          <5>4. QED
            BY <5>1, <5>2, <5>3
        <4>2. QED
          BY <3>1, <4>1 DEF Early
      <3>5. QED
        BY <2>1, <3>2, <3>3, <3>4
    <2>2. CASE Cancel(x) \/ ForceCancel(x)
      <3>1. CASE Cancel(x)
        <4>1. PICK reply : Put(x, [exec[x] EXCEPT !.cancelled = TRUE, !.reply = reply])
          BY <3>1 DEF Cancel
        <4>2. exec'[x].pc = exec[x].pc /\ exec'[x].call = exec[x].call
          BY <1>2, <4>1 DEF Put, ExecState
        <4>3. QED
          BY <1>2, <4>2 DEF Early
      <3>2. CASE ForceCancel(x)
        BY <1>2, <3>2 DEF ForceCancel, Put, Reach
      <3>3. QED
        BY <2>2, <3>1, <3>2
    <2>3. CASE Finish(x)
      BY <1>2, <2>3 DEF Finish, Return, ControllerRaises, At, Put, Reach, Early
    <2>4. CASE \E ev \in Mirrored : Mirror(x, ev)
      BY <2>4 DEF Mirror, At, runtimeVars, Early
    <2>5. CASE \E answer \in Answer : Reply(x, answer)
      BY <1>2, <2>5 DEF Reply, At, Put, Early, ExecState
    <2>6. QED
      BY <2>1, <2>2, <2>3, <2>4, <2>5
  <1>7. QED
    BY <1>1, <1>2, <1>3, <1>4, <1>5, <1>6, QuietKept

\* The calls of the controller.
LEMMA CallsKept ==
  ASSUME ApartInv, RuntimeInv', TurnsAreApart', NEW x \in Executor,
         EndCall(x) \/ \E a \in Attempt : StartCall(x, a)
  PROVE  \A u \in Turn : TurnOK(u)'
  <1>1. RuntimeInv /\ Good(x)
    BY WorkGood DEF ApartInv, Work
  <1>2. /\ exec[x].pc \in {"running", "calling"} /\ exec[x] \in ExecState
        /\ exec \in [Executor -> ExecState] /\ LedgerTypeOK /\ rows \in [Attempt -> Row]
    BY <1>1 DEF EndCall, StartCall, At, RuntimeInv, RuntimeTypeOK
  <1>3. PICK t \in Turn : t = exec[x].turn
    BY <1>1, <1>2, ExecFacts
  <1>4. Holds(x, t) /\ PathOK(x, t) /\ Started(t)
    BY <1>1, <1>2, <1>3, ExecFacts DEF Holds, ApartInv, TurnOK
  <1>5. ASSUME NEW a \in Attempt, StartCall(x, a)
        PROVE  \A u \in Turn : TurnOK(u)'
    <2>1. /\ exec[x].pc = "running" /\ TurnOf(a) = t /\ crashed' = crashed
          /\ rows' = [rows EXCEPT ![a] = "in_progress"]
      BY <1>3, <1>5 DEF StartCall, At
    <2>2. PICK ev \in Event : ev = ToolEv("tool_started", a) /\ ev.kind = "tool_started"
      BY EventType DEF ToolEv
    <2>3. StartName(a) \in Name \ {CheckName, VerdictName}
      BY NameType, VerificationApart
    <2>4. ASSUME NEW b \in InProgress(t)', b # a
          PROVE  b \in InProgress(t)
      BY <1>2, <2>1, <2>4 DEF InProgress
    <2>5. CASE /\ Writes(x, ev, StartName(a))
               /\ Put(x, [exec[x] EXCEPT !.pc = "calling", !.call = a])
      <3>1. exec'[x].pc = "calling" /\ exec'[x].call = a /\ exec'[x].turn = t
        BY <1>2, <1>3, <2>5 DEF Put, ExecState
      <3>2. Grows({}) /\ Others(x)
        BY <1>1, <2>1, <3>1, StaysFacts
      <3>3. \A b \in InProgress(t)' : Excused(x, t, b)'
        BY <1>4, <2>1, <2>4, <3>1, <3>2, StillExcused DEF Excused, Early
      <3>4. Unverified(t)
        BY <1>2, <1>3, <2>2, <2>3, <2>5, WritesUnverified
      <3>5. EarlyStep(x, t)
        BY <1>2, <1>4, <2>1, <3>1, <3>2, <3>3, <3>4 DEF EarlyStep, Early
      <3>6. QED
        BY <3>5, EarlyKept
    <2>6. CASE Raises(x, ev, StartName(a)) /\ exec' = exec
      <3>1. exec'[x].pc = "running" /\ exec'[x].turn = t
        BY <1>3, <2>1, <2>6
      <3>2. Grows({}) /\ Others(x)
        BY <1>1, <2>1, <3>1, StaysFacts
      <3>3. Ended(t)
        BY <1>3, <1>4, <2>2, <2>6, RefusedEnded DEF Raises
      <3>4. \A b \in InProgress(t)' : Excused(x, t, b)'
        BY <3>2, <3>3 DEF Excused, Grows
      <3>5. Unverified(t)
        BY <2>6, NothingUnverified DEF Raises
      <3>6. EarlyStep(x, t)
        BY <1>2, <1>4, <2>1, <3>1, <3>2, <3>4, <3>5 DEF EarlyStep, Early
      <3>7. QED
        BY <3>6, EarlyKept
    <2>7. QED
      BY <1>5, <2>2, <2>5, <2>6 DEF StartCall
  <1>6. CASE EndCall(x)
    <2>1. PICK a \in Attempt : a = exec[x].call /\ TurnOf(a) = t
      BY <1>1, <1>3, <1>4, <1>6, ExecFacts DEF EndCall, At, ExecOK, PathOK
    <2>2. /\ exec[x].pc = "calling" /\ crashed' = crashed
          /\ rows' = [rows EXCEPT ![a] = "settled"]
      BY <1>6, <2>1 DEF EndCall, At
    <2>3. exec'[x].pc = "running" /\ exec'[x].turn = t
      BY <1>2, <1>3, <1>6 DEF EndCall, Put, ExecState
    <2>4. Grows({}) /\ Others(x)
      BY <1>1, <2>2, <2>3, StaysFacts
    <2>5. PICK ev \in Event : ev = ToolEv("tool_completed", a) /\ ev.kind = "tool_completed"
      BY EventType DEF ToolEv
    <2>6. Unverified(t)
      <3>1. CompleteName(a) \in Name \ {CheckName, VerdictName}
        BY NameType, VerificationApart
      <3>2. Writes(x, ev, CompleteName(a)) \/ UNCHANGED ledgerVars
        BY <1>6, <2>1, <2>5 DEF EndCall, Raises
      <3>3. QED
        BY <1>2, <1>3, <2>5, <3>1, <3>2, WritesUnverified, NothingUnverified
    <2>7. \A b \in InProgress(t)' : Excused(x, t, b)'
      <3>1. SUFFICES ASSUME NEW b \in InProgress(t)'
                     PROVE  Ended(t)'
        BY DEF Excused
      <3>2. b \in InProgress(t) /\ b # a
        BY <1>2, <2>2 DEF InProgress
      <3>3. Ended(t)
        BY <1>4, <2>1, <2>2, <3>2 DEF ApartInv, TurnOK, Excused
      <3>4. QED
        BY <2>4, <3>3 DEF Grows
    <2>8. EarlyStep(x, t)
      BY <1>2, <1>4, <2>1, <2>2, <2>3, <2>4, <2>6, <2>7 DEF EarlyStep, Early
    <2>9. QED
      BY <2>8, EarlyKept
  <1>7. QED
    BY <1>5, <1>6

\* Before the controller.
LEMMA EnteringKept ==
  ASSUME ApartInv, RuntimeInv', TurnsAreApart, TurnsAreApart', NEW x \in Executor,
         Reconcile(x) \/ NoteLocal(x) \/ Block(x) \/ CancelUnbegun(x)
  PROVE  \A u \in Turn : TurnOK(u)'
  <1>1. RuntimeInv /\ Good(x)
    BY ReconcileGood, NoteLocalGood, BlockGood, HumanGood DEF ApartInv, Interfere
  <1>2. /\ exec[x].pc \in {"created", "reconciled"} /\ exec[x] \in ExecState
        /\ exec \in [Executor -> ExecState] /\ LedgerTypeOK /\ rows \in [Attempt -> Row]
    BY <1>1 DEF Reconcile, NoteLocal, Block, CancelUnbegun, At, RuntimeInv, RuntimeTypeOK
  <1>3. PICK t \in Turn : t = exec[x].turn
    BY <1>1, <1>2, ExecFacts
  <1>4. Holds(x, t) /\ PathOK(x, t) /\ Started(t) /\ ~Completed(t)
    BY <1>1, <1>2, <1>3, ExecFacts DEF Holds, ApartInv, TurnOK, PathOK
  <1>5. CASE Reconcile(x)
    <2>1. PICK found \in SUBSET Attempt :
             /\ found = {a \in Attempt : rows[a] = "in_progress"
                                            /\ SessionOf[TurnOf(a)] = SessionOf[t]}
             /\ rows' = [a \in Attempt |-> IF a \in found THEN "uncertain" ELSE rows[a]]
             /\ Put(x, [Created(t) EXCEPT !.pc = "reconciled", !.found = found])
      BY <1>3, <1>5 DEF Reconcile, Interrupted
    <2>2. exec'[x].pc = "reconciled" /\ exec'[x].turn = t
      BY <1>2, <1>3, <2>1 DEF Put, Created, Idle
    <2>3. Grows({}) /\ Others(x)
      BY <1>1, <1>2, <2>2, StaysFacts
    <2>4. InProgress(t)' = {}
      BY <1>2, <2>1 DEF InProgress
    <2>5. \A a \in Attempt : rows'[a] = rows[a] \/ (rows[a] = "in_progress" /\ rows'[a] = "uncertain")
      BY <1>2, <2>1
    <2>6. Unverified(t) /\ crashed' = crashed
      BY <1>5, NothingUnverified DEF Reconcile, ledgerVars
    <2>7. EarlyStep(x, t)
      BY <1>2, <1>4, <2>2, <2>3, <2>4, <2>5, <2>6 DEF EarlyStep, Early
    <2>8. QED
      BY <2>7, EarlyKept
  <1>6. CASE NoteLocal(x) /\ exec' # [exec EXCEPT ![x] = Idle]
    <2>1. Put(x, [exec[x] EXCEPT !.found = FoundExternal(x)])
      BY <1>6 DEF NoteLocal, Put
    <2>2. exec'[x].pc = exec[x].pc /\ exec'[x].call = exec[x].call /\ exec[x].pc = "reconciled"
      BY <1>2, <1>6, <2>1 DEF NoteLocal, At, Put, ExecState
    <2>3. Unverified(t)
      <3>1. LocalName \in Name \ {CheckName, VerdictName}
        BY NameType, VerificationApart
      <3>2. Ev("checkpoint") \in Event /\ Ev("checkpoint").kind # "completed"
        BY EventType DEF Ev
      <3>3. Writes(x, Ev("checkpoint"), LocalName) \/ UNCHANGED ledgerVars
        BY <1>6 DEF NoteLocal, Raises
      <3>4. QED
        BY <1>2, <1>3, <3>1, <3>2, <3>3, WritesUnverified, NothingUnverified
    <2>4. rows' = rows /\ crashed' = crashed
      BY <1>6 DEF NoteLocal
    <2>5. QED
      BY <1>1, <1>3, <2>2, <2>3, <2>4, QuietKept DEF Early
  <1>7. CASE exec' = [exec EXCEPT ![x] = Idle]
    <2>1. exec'[x] = Idle /\ \A y \in Executor \ {x} : exec'[y] = exec[y]
      BY <1>2, <1>7
    <2>2. rows' = rows /\ crashed' = crashed
      BY <1>7, <2>1, <1>2 DEF Reconcile, NoteLocal, Block, CancelUnbegun, Put, Created, Idle
    <2>3. Unverified(t)
      <3>1. BlockName \in Name \ {CheckName, VerdictName}
        BY NameType, VerificationApart
      <3>2. BlockEvent \in Event /\ BlockEvent.kind # "completed"
        BY EventType DEF BlockEvent, FlagEv
      <3>3. Ev("checkpoint") \in Event /\ Ev("checkpoint").kind # "completed"
        BY EventType DEF Ev
      <3>4. LocalName \in Name \ {CheckName, VerdictName}
        BY NameType, VerificationApart
      <3>5. \/ UNCHANGED ledgerVars
            \/ Writes(x, BlockEvent, BlockName)
            \/ Writes(x, Ev("checkpoint"), LocalName)
        BY DEF Reconcile, NoteLocal, Block, CancelUnbegun, Raises, ledgerVars
      <3>6. QED
        BY <1>2, <1>3, <3>1, <3>2, <3>3, <3>4, <3>5, WritesUnverified, NothingUnverified
    <2>4. Grows({})
      BY <1>1, <2>1 DEF Good, Classed, Stays, Leaves, TakesUp, Looks, ExecOK, Idle
    <2>5. About(x, t)
      <3>1. \A u \in Turn \ {t} : ~Holds(x, u) /\ ~Holds(x, u)'
        BY <1>3, <2>1 DEF Holds, Idle
      <3>2. QED
        BY <2>1, <2>2, <2>3, <3>1 DEF About, Unverified
    <2>6. Started(t)' /\ ~Completed(t)'
      BY <1>4, <2>3, <2>4 DEF Grows, Unverified
    <2>7. t \in crashed \/ (~Spent(t, CheckName)' /\ ~Spent(t, VerdictName)')
      BY <1>2, <1>4, <2>3 DEF PathOK, Unverified, Early
    <2>8. TurnOK(t)'
      BY <1>4, <2>1, <2>5, <2>6, <2>7, LeftTurnKept
    <2>9. QED
      BY <2>5, <2>8, OtherTurnsKept DEF ApartInv
  <1>8. QED
    BY <1>5, <1>6, <1>7 DEF Block, CancelUnbegun, Put


\* An append of x, by name, in the words the verification needs.
LEMMA WritesFacts ==
  ASSUME LedgerTypeOK, NEW x \in Executor, NEW t \in Turn, t = exec[x].turn,
         NEW ev \in Event, NEW name \in Name, Writes(x, ev, name)
  PROVE  /\ \A u \in Turn \ {t} :
               /\ snapshot'[u] = snapshot[u]
               /\ \A n \in Name : <<u, n>> \in keys' <=> <<u, n>> \in keys
         /\ \A n \in Name \ {name} : Spent(t, n)' => Spent(t, n)
         /\ \/ Spent(t, name) /\ UNCHANGED ledgerVars
            \/ Live(t) /\ snapshot'[t] = Reduce(snapshot[t], ev) /\ snapshot[t] \in Snapshot
  <1>1. PICK key : key = <<t, name>>
    OBVIOUS
  <1>2. Append(t, ev, key)
    BY <1>1 DEF Writes
  <1>3. keys' \subseteq keys \cup {key}
    BY <1>1, <1>2, AppendAbout
  <1>4. \A n \in Name \ {name} : Spent(t, n)' => Spent(t, n)
    BY <1>1, <1>3 DEF Spent
  <1>5. \/ Spent(t, name) /\ UNCHANGED ledgerVars
        \/ Live(t) /\ snapshot'[t] = Reduce(snapshot[t], ev)
    BY <1>1, <1>2, AppendAbout DEF Spent
  <1>6. QED
    BY <1>1, <1>2, <1>4, <1>5, AppendAbout DEF Live, Started, LedgerTypeOK

\* The same of a verification, which is written under a key of its own or a fresh one.
LEMMA VerdictFacts ==
  ASSUME LedgerTypeOK, NEW x \in Executor, NEW t \in Turn, t = exec[x].turn,
         NEW ev \in Event, NEW name \in Name, Writes(x, ev, name) \/ WritesFresh(x, ev)
  PROVE  /\ \A u \in Turn \ {t} :
               /\ snapshot'[u] = snapshot[u]
               /\ \A n \in Name : <<u, n>> \in keys' <=> <<u, n>> \in keys
         /\ \A n \in Name \ {name} : Spent(t, n)' => Spent(t, n)
         /\ \/ Spent(t, name) /\ UNCHANGED ledgerVars
            \/ Live(t) /\ snapshot'[t] = Reduce(snapshot[t], ev) /\ snapshot[t] \in Snapshot
  <1>1. CASE Writes(x, ev, name)
    BY <1>1, WritesFacts
  <1>2. CASE WritesFresh(x, ev)
    <2>1. Append(t, ev, NoKey)
      BY <1>2 DEF WritesFresh
    <2>2. keys' \subseteq keys \cup {NoKey} /\ \A n \in Name : <<t, n>> # NoKey
      BY <2>1, AppendAbout, KeyAssumption DEF Key
    <2>3. \A n \in Name : Spent(t, n)' => Spent(t, n)
      BY <2>2 DEF Spent
    <2>4. Live(t) /\ snapshot'[t] = Reduce(snapshot[t], ev)
      BY <2>1, AppendAbout, KeyAssumption DEF LedgerTypeOK
    <2>5. QED
      BY <2>1, <2>3, <2>4, AppendAbout DEF Live, Started, LedgerTypeOK
  <1>3. QED
    BY <1>1, <1>2


\* A step of x within its turn, after the controller: no call, no row.
LateStep(x, t) ==
    /\ Holds(x, t)
    /\ Grows({}) /\ Others(x)
    /\ exec'[x].turn = t /\ Holds(x, t)'
    /\ \A u \in Turn \ {t} :
          /\ snapshot'[u] = snapshot[u]
          /\ \A n \in Name : <<u, n>> \in keys' <=> <<u, n>> \in keys
    /\ rows' = rows /\ crashed' = crashed

\* Its mutations in progress: none, unless the turn has ended or x fails it.
LEMMA LateKept ==
  ASSUME ApartInv, TurnsAreApart', NEW x \in Executor, NEW t \in Turn, LateStep(x, t),
         PathOK(x, t)',
         \/ InProgress(t) = {}
         \/ Ended(t)' /\ ~Completed(t)'
         \/ /\ exec'[x].pc \in {"raising", "deciding", "closing"}
            /\ exec'[x].outcome # "success" /\ ~Completed(t)'
  PROVE  \A u \in Turn : TurnOK(u)'
  <1>1. Started(t)'
    BY DEF ApartInv, RuntimeInv, ExecOK, LateStep, Holds, Grows
  <1>2. InProgress(t)' = InProgress(t)
    BY DEF LateStep, InProgress
  <1>3. /\ \A a \in InProgress(t)' : Excused(x, t, a)'
        /\ InProgress(t)' # {} => ~Completed(t)'
    BY <1>2 DEF Excused
  <1>4. TurnOK(t)'
    BY <1>1, <1>3, HeldTurnKept DEF LateStep
  <1>5. About(x, t)
    <2>1. \A u \in Turn \ {t} : ~Holds(x, u) /\ ~Holds(x, u)'
      BY DEF LateStep, Holds
    <2>2. QED
      BY <2>1 DEF LateStep, Others, About
  <1>6. QED
    BY <1>4, <1>5, OtherTurnsKept DEF ApartInv

LEMMA VerifyKept ==
  ASSUME ApartInv, RuntimeInv', TurnsAreApart', NEW x \in Executor, Check(x) \/ Verdict(x)
  PROVE  \A u \in Turn : TurnOK(u)'
  <1>1. RuntimeInv /\ Good(x)
    BY VerifyGood DEF ApartInv
  <1>2. /\ exec[x].pc \in {"returned", "checking"} /\ exec[x] \in ExecState
        /\ exec \in [Executor -> ExecState] /\ LedgerTypeOK
        /\ rows' = rows /\ crashed' = crashed
    BY <1>1 DEF Check, Verdict, At, RuntimeInv, RuntimeTypeOK
  <1>3. PICK t \in Turn : t = exec[x].turn
    BY <1>1, <1>2, ExecFacts
  <1>4. /\ Holds(x, t) /\ PathOK(x, t) /\ Started(t) /\ ~Completed(t)
        /\ \A a \in InProgress(t) : Ended(t)
    BY <1>1, <1>2, <1>3, ExecFacts DEF Holds, ApartInv, TurnOK, PathOK, Excused
  <1>5. PICK ev \in Event, name \in {CheckName, VerdictName} :
          /\ ev.kind \in {"verification_started", "verification"}
          /\ name = IF exec[x].pc = "returned" THEN CheckName ELSE VerdictName
          /\ \/ /\ Writes(x, ev, name) \/ WritesFresh(x, ev)
                /\ Reach(x, IF exec[x].pc = "returned" THEN "checking" ELSE "checked",
                         exec[x].outcome)
             \/ (Raises(x, ev, name) \/ RaisesFresh(x, ev)) /\ Reach(x, "raising", "error")
    <2>1. CASE Check(x)
      <3>1. Ev("verification_started") \in Event
        BY EventType
      <3>2. QED
        BY <2>1, <3>1 DEF Check, At, Ev
    <2>2. CASE Verdict(x)
      <3>1. PICK flag \in Flag : flag = IF exec[x].outcome = "success" THEN "yes" ELSE "no"
        BY DEF Flag
      <3>2. FlagEv("verification", flag) \in Event
        BY EventType
      <3>3. QED
        BY <2>2, <3>1, <3>2 DEF Verdict, At, FlagEv
    <2>3. QED
      BY <2>1, <2>2
  <1>6. name \in Name
    BY NameType
  <1>7. CASE (Raises(x, ev, name) \/ RaisesFresh(x, ev)) /\ Reach(x, "raising", "error")
    <2>1. exec'[x].pc = "raising" /\ exec'[x].outcome = "error" /\ exec'[x].turn = t
      BY <1>2, <1>3, <1>7 DEF Reach, Put
    <2>2. UNCHANGED ledgerVars /\ Grows({}) /\ Others(x)
      BY <1>1, <1>2, <1>7, <2>1, StaysFacts DEF Raises, RaisesFresh
    <2>3. Holds(x, t)' /\ LateStep(x, t)
      BY <1>2, <1>4, <2>1, <2>2 DEF LateStep, Holds, ledgerVars
    <2>4. ~Completed(t)'
      BY <1>4, <2>2 DEF Completed, Started, ledgerVars
    <2>5. PathOK(x, t)'
      BY <2>1, <2>4 DEF PathOK, Early
    <2>6. QED
      BY <2>1, <2>3, <2>4, <2>5, LateKept
  <1>8. CASE /\ Writes(x, ev, name) \/ WritesFresh(x, ev)
             /\ Reach(x, IF exec[x].pc = "returned" THEN "checking" ELSE "checked",
                      exec[x].outcome)
    <2>1. /\ exec'[x].pc = IF exec[x].pc = "returned" THEN "checking" ELSE "checked"
          /\ exec'[x].turn = t
      BY <1>2, <1>3, <1>8 DEF Reach, Put
    <2>2. Grows({}) /\ Others(x)
      BY <1>1, <1>2, <2>1, StaysFacts
    <2>3. LateStep(x, t)
      BY <1>2, <1>3, <1>4, <1>6, <1>8, <2>1, <2>2, VerdictFacts DEF LateStep, Holds
    <2>4. ~Completed(t)' /\ (Live(t)' \/ t \in crashed) /\ (Ended(t) => Ended(t)')
      <3>1. CASE Spent(t, name) /\ UNCHANGED ledgerVars
        <4>1. t \in crashed
          BY <1>2, <1>4, <1>5, <3>1 DEF PathOK, Early
        <4>2. QED
          BY <1>4, <3>1, <4>1 DEF Completed, Started, Ended, ledgerVars
      <3>2. CASE Live(t) /\ snapshot'[t] = Reduce(snapshot[t], ev) /\ snapshot[t] \in Snapshot
        <4>1. Reduce(snapshot[t], ev).phase \in {"verifying", "executing", "repairing"}
          <5>1. CASE ev.kind = "verification_started"
            BY <3>2, <5>1 DEF Reduce, Snapshot, TerminalPhase
          <5>2. CASE ev.kind = "verification"
            <6>1. Reduce(snapshot[t], ev) = WithVerdict(snapshot[t], ev)
              BY <5>2 DEF Reduce, TerminalPhase
            <6>2. QED
              BY <3>2, <6>1 DEF WithVerdict, Snapshot
          <5>3. QED
            BY <1>5, <5>1, <5>2
        <4>2. Started(t)'
          BY <1>4, <2>2 DEF Grows
        <4>3. QED
          BY <3>2, <4>1, <4>2 DEF Completed, Live, Terminal, TerminalPhase, Ended
      <3>3. QED
        BY <1>3, <1>2, <1>6, <1>8, <3>1, <3>2, VerdictFacts
    <2>5. PathOK(x, t)'
      <3>1. exec'[x].pc = "checking" => (Spent(t, VerdictName)' => Spent(t, VerdictName))
        BY <1>2, <1>3, <1>5, <1>6, <1>8, <2>1, VerdictFacts, VerificationApart, NameType
      <3>2. (exec'[x].pc = "checking" /\ t \notin crashed) => ~Spent(t, VerdictName)
        BY <1>2, <1>4, <2>1 DEF PathOK, Early
      <3>3. QED
        BY <1>2, <2>1, <2>4, <3>1, <3>2 DEF PathOK, Early
    <2>6. InProgress(t) = {} \/ (Ended(t)' /\ ~Completed(t)')
      BY <1>4, <2>4
    <2>7. QED
      BY <2>3, <2>5, <2>6, LateKept
  <1>9. QED
    BY <1>5, <1>7, <1>8


\* The event that completes a turn, and the events that end it otherwise.
LEMMA EndCompletes ==
  ASSUME NEW snap \in Snapshot, NEW outcome
  PROVE  Reduce(snap, EndEvent(outcome)).phase = "completed" <=> outcome = "success"
  <1>1. EndEvent(outcome).kind \in TerminalPhase
    BY EndEventType
  <1>2. Reduce(snap, EndEvent(outcome)) = WithEnd(snap, EndEvent(outcome))
    BY <1>1 DEF Reduce, TerminalPhase
  <1>3. EndEvent(outcome).kind = "completed" <=> outcome = "success"
    BY DEF EndEvent, FlagEv, Ev
  <1>4. \A ev : ev.kind \in TerminalPhase => WithEnd(snap, ev).phase = ev.kind
    BY DEF WithEnd, TerminalPhase, Snapshot
  <1>5. QED
    BY <1>1, <1>2, <1>3, <1>4

LEMMA EndKept ==
  ASSUME ApartInv, RuntimeInv', TurnsAreApart, TurnsAreApart', NEW x \in Executor,
         Decide(x) \/ End(x) \/ Leave(x)
  PROVE  \A u \in Turn : TurnOK(u)'
  <1>1. RuntimeInv /\ Good(x)
    BY EndGood DEF ApartInv
  <1>2. /\ exec[x].pc \in {"checked", "raising", "deciding", "closing"}
        /\ exec[x] \in ExecState /\ exec \in [Executor -> ExecState] /\ LedgerTypeOK
        /\ rows' = rows /\ crashed' = crashed
    BY <1>1 DEF Decide, End, Leave, At, RuntimeInv, RuntimeTypeOK
  <1>3. PICK t \in Turn : t = exec[x].turn
    BY <1>1, <1>2, ExecFacts
  <1>4. /\ Holds(x, t) /\ PathOK(x, t) /\ Started(t)
        /\ InProgress(t) # {} => ~Completed(t)
        /\ InProgress(t) # {} => \/ Ended(t)
                                 \/ exec[x].pc # "checked" /\ exec[x].outcome # "success"
    BY <1>1, <1>2, <1>3, ExecFacts DEF Holds, ApartInv, TurnOK, Excused
  <1>5. CASE Decide(x)
    <2>1. /\ exec'[x].pc = IF Live(t) THEN "deciding" ELSE "closing"
          /\ exec'[x].turn = t /\ exec'[x].outcome = exec[x].outcome
          /\ UNCHANGED ledgerVars /\ exec[x].pc \in {"checked", "raising"}
      BY <1>2, <1>3, <1>5 DEF Decide, StillOpen, Reach, Put, At, ledgerVars
    <2>2. Grows({}) /\ Others(x)
      BY <1>1, <1>2, <2>1, StaysFacts
    <2>3. LateStep(x, t)
      BY <1>2, <1>4, <2>1, <2>2 DEF LateStep, Holds, ledgerVars
    <2>4. /\ Completed(t)' = Completed(t) /\ Live(t)' = Live(t) /\ Ended(t)' = Ended(t)
          /\ ~Completed(t)
      BY <1>2, <1>4, <2>1 DEF Completed, Live, Started, Ended, PathOK, ledgerVars
    <2>5. PathOK(x, t)'
      <3>1. exec'[x].pc = "deciding" => Live(t)'
        BY <2>1, <2>4
      <3>2. (t \notin crashed' /\ exec'[x].pc = "closing") => exec'[x].outcome # "success"
        BY <1>2, <1>4, <2>1 DEF PathOK
      <3>3. QED
        BY <2>1, <2>4, <3>1, <3>2 DEF PathOK, Early
    <2>6. QED
      BY <1>4, <2>1, <2>3, <2>4, <2>5, LateKept
  <1>6. CASE End(x)
    <2>1. PICK outcome \in AnyOutcome \cup {"none"}, ev \in Event :
             outcome = exec[x].outcome /\ ev = EndEvent(outcome) /\ ev.kind \in TerminalPhase
      BY <1>2, EndEventType DEF ExecState
    <2>2. Live(t) /\ exec[x].pc = "deciding" /\ TerminalName \in Name
      BY <1>4, <1>6, NameType DEF End, At, PathOK
    <2>3. CASE Writes(x, ev, TerminalName) /\ Reach(x, "closing", outcome)
      <3>1. exec'[x].pc = "closing" /\ exec'[x].turn = t /\ exec'[x].outcome = outcome
        BY <1>2, <1>3, <2>3 DEF Reach, Put
      <3>2. Grows({}) /\ Others(x) /\ Ended(t)'
        BY <1>1, <1>2, <1>3, <2>1, <2>3, <3>1, StaysFacts, EndWrites
      <3>3. LateStep(x, t)
        BY <1>2, <1>3, <1>4, <2>2, <2>3, <3>1, <3>2, WritesFacts DEF LateStep, Holds
      <3>4. snapshot'[t] = Reduce(snapshot[t], ev) /\ snapshot[t] \in Snapshot
        <4>1. ~Spent(t, TerminalName)
          BY <1>1, <2>2 DEF RuntimeInv, KeyedEnds, EndKeys, Ended, Live, Spent
        <4>2. QED
          BY <1>2, <1>3, <2>2, <2>3, <4>1, WritesFacts
      <3>5. Completed(t)' <=> outcome = "success"
        BY <2>1, <3>2, <3>4, EndCompletes DEF Completed, Ended
      <3>6. PathOK(x, t)'
        BY <3>1, <3>5 DEF PathOK, Early
      <3>7. InProgress(t) = {} \/ (Ended(t)' /\ ~Completed(t)')
        BY <1>4, <2>1, <2>2, <3>2, <3>5 DEF Live, Ended
      <3>8. QED
        BY <3>3, <3>6, <3>7, LateKept
    <2>4. CASE Raises(x, ev, TerminalName) /\ Reach(x, "raising", "error")
      <3>1. exec'[x].pc = "raising" /\ exec'[x].turn = t /\ exec'[x].outcome = "error"
        BY <1>2, <1>3, <2>4 DEF Reach, Put
      <3>2. Grows({}) /\ Others(x) /\ UNCHANGED ledgerVars
        BY <1>1, <1>2, <2>4, <3>1, StaysFacts DEF Raises
      <3>3. LateStep(x, t)
        BY <1>2, <1>4, <3>1, <3>2 DEF LateStep, Holds, ledgerVars
      <3>4. ~Completed(t)'
        BY <1>4, <2>2, <3>2 DEF PathOK, Completed, Started, ledgerVars
      <3>5. PathOK(x, t)'
        BY <3>1, <3>4 DEF PathOK, Early
      <3>6. QED
        BY <3>1, <3>3, <3>4, <3>5, LateKept
    <2>5. QED
      BY <1>6, <2>1, <2>3, <2>4 DEF End
  <1>7. CASE Leave(x)
    <2>1. /\ exec'[x] = Idle /\ \A y \in Executor \ {x} : exec'[y] = exec[y]
          /\ UNCHANGED ledgerVars /\ exec[x].pc = "closing"
      BY <1>2, <1>7 DEF Leave, Put, At, ledgerVars
    <2>2. About(x, t)
      <3>1. \A u \in Turn \ {t} : ~Holds(x, u) /\ ~Holds(x, u)'
        BY <1>3, <2>1 DEF Holds, Idle
      <3>2. QED
        BY <1>2, <2>1, <3>1 DEF About, ledgerVars
    <2>3. /\ Ended(t)' /\ Started(t)' /\ Completed(t)' = Completed(t)
          /\ InProgress(t)' = InProgress(t)
      BY <1>1, <1>2, <1>3, <1>4, <2>1, ExecFacts
         DEF ExecOK, Live, Ended, Started, Completed, InProgress, ledgerVars
    <2>4. TurnOK(t)'
      BY <1>4, <2>1, <2>2, <2>3, LeftTurnKept
    <2>5. QED
      BY <2>2, <2>4, OtherTurnsKept DEF ApartInv
  <1>8. QED
    BY <1>5, <1>6, <1>7


\* Taking a turn up: it is started now, or nobody held it.
LEMMA BeginKept ==
  ASSUME ApartInv, RuntimeInv', TurnsAreApart, TurnsAreApart', NEW x \in Executor,
         Begin(x) \/ ResumeStart(x)
  PROVE  \A u \in Turn : TurnOK(u)'
  <1>1. RuntimeInv /\ LedgerTypeOK /\ exec \in [Executor -> ExecState]
        /\ rows' = rows /\ crashed' = crashed
    BY DEF ApartInv, RuntimeInv, RuntimeTypeOK, Begin, Submit, ResumeLook, ResumeLive,
       ResumeStart
  <1>2. exec[x].pc \in {"idle", "looked"} /\ \A t \in Turn : ~Holds(x, t)
    BY DEF Begin, Submit, ResumeLook, ResumeLive, ResumeStart, At, Holds
  <1>3. ASSUME NEW t \in Turn, Start(t, <<t, AcceptedName>>), Put(x, Created(t))
        PROVE  \A u \in Turn : TurnOK(u)'
    <2>1. exec'[x] = Created(t) /\ \A y \in Executor \ {x} : exec'[y] = exec[y]
      BY <1>1, <1>3 DEF Put
    <2>2. exec'[x].pc = "created" /\ exec'[x].turn = t
      BY <2>1, CreatedType
    <2>3. /\ snapshot' = [snapshot EXCEPT ![t] = InitialSnapshot]
          /\ keys' = keys \cup {<<t, AcceptedName>>} /\ ~Started(t)
      BY <1>3 DEF Start
    <2>4. About(x, t)
      <3>1. \A u \in Turn \ {t} : ~Holds(x, u) /\ ~Holds(x, u)'
        BY <1>2, <2>2 DEF Holds
      <3>2. QED
        BY <1>1, <2>1, <2>3, <3>1 DEF About, LedgerTypeOK
    <2>5. Holds(x, t)'
      BY <2>2 DEF Holds
    <2>6. Started(t)' /\ ~Completed(t)'
      BY <1>1, <2>3, InitialSnapshotType, KeyAssumption
         DEF LedgerTypeOK, Started, Completed, InitialSnapshot
    <2>7. ~Spent(t, CheckName)' /\ ~Spent(t, VerdictName)'
      <3>1. ~Spent(t, CheckName) /\ ~Spent(t, VerdictName)
        BY <2>3, NameType DEF ApartInv, TurnOK
      <3>2. QED
        BY <2>3, <3>1, VerificationApart DEF Spent
    <2>8. PathOK(x, t)'
      BY <2>2, <2>6, <2>7 DEF PathOK
    <2>9. TurnOK(t)'
      BY <2>2, <2>5, <2>6, <2>8, HeldTurnKept DEF Excused
    <2>10. QED
      BY <2>4, <2>9, OtherTurnsKept DEF ApartInv
  <1>4. ASSUME NEW t \in Turn, ResumeLook(x, t)
        PROVE  \A u \in Turn : TurnOK(u)'
    <2>1. PICK state : /\ state = [Created(t) EXCEPT !.pc = "looked"]
                       /\ Put(x, state)
      BY <1>4 DEF ResumeLook
    <2>2. /\ exec'[x].pc = "looked" /\ \A y \in Executor \ {x} : exec'[y] = exec[y]
          /\ UNCHANGED ledgerVars
      BY <1>1, <1>4, <2>1, LookedType DEF Put, ResumeLook, ledgerVars
    <2>3. \A u \in Turn : ~Holds(x, u)'
      BY <2>2 DEF Holds
    <2>4. \A w : w \notin Turn => About(x, w)
      BY <1>1, <1>2, <2>2, <2>3 DEF About, ledgerVars
    <2>5. QED
      BY <2>4, OtherTurnsKept, RuntimeAssumption DEF ApartInv
  <1>5. ASSUME NEW s \in Session, ResumeLive(x, s)
        PROVE  \A u \in Turn : TurnOK(u)'
    <2>1. PICK t \in Turn : t = latest[s] /\ Live(t) /\ Put(x, Created(t))
      BY <1>1, <1>5 DEF ResumeLive, RuntimeInv, RuntimeTypeOK
    <2>2. /\ exec'[x] = Created(t) /\ \A y \in Executor \ {x} : exec'[y] = exec[y]
          /\ UNCHANGED ledgerVars
      BY <1>1, <1>5, <2>1 DEF Put, ResumeLive, ledgerVars
    <2>3. exec'[x].pc = "created" /\ exec'[x].turn = t
      BY <2>2, CreatedType
    <2>4. Holds(x, t)'
      BY <2>3 DEF Holds
    <2>5. About(x, t)
      <3>1. \A u \in Turn \ {t} : ~Holds(x, u) /\ ~Holds(x, u)'
        BY <1>2, <2>3 DEF Holds
      <3>2. QED
        BY <1>1, <2>2, <3>1 DEF About, ledgerVars
    <2>6. Started(t)' /\ ~Completed(t)'
      BY <2>1, <2>2 DEF Live, Started, Completed, Terminal, TerminalPhase, ledgerVars
    <2>7. \A y \in Executor : ~Holds(y, t)
      <3>1. \A y \in Executor \ {x} : ~Holds(y, t)'
        BY <2>4 DEF TurnsAreApart
      <3>2. \A y \in Executor \ {x} : Holds(y, t)' = Holds(y, t)
        BY <2>2 DEF Holds
      <3>3. QED
        BY <1>2, <3>1, <3>2
    <2>8. t \notin crashed' => ~Spent(t, CheckName)' /\ ~Spent(t, VerdictName)'
      BY <1>1, <2>1, <2>2, <2>7 DEF ApartInv, TurnOK, Spent, ledgerVars
    <2>9. PathOK(x, t)'
      BY <2>3, <2>6, <2>8 DEF PathOK
    <2>10. TurnOK(t)'
      BY <2>3, <2>4, <2>6, <2>9, HeldTurnKept DEF Excused
    <2>11. QED
      BY <2>5, <2>10, OtherTurnsKept DEF ApartInv
  <1>6. CASE ResumeStart(x)
    <2>1. exec[x].turn \in Turn
      BY <1>1, <1>6, ExecFacts DEF ResumeStart, At
    <2>2. QED
      BY <1>3, <1>6, <2>1 DEF ResumeStart
  <1>7. QED
    BY <1>3, <1>4, <1>5, <1>6 DEF Begin, Submit

\* A step that touches no ledger, row or executor.
LEMMA NothingKeepsApart ==
  ASSUME ApartInv, UNCHANGED ledgerVars, rows' = rows, exec' = exec, crashed' = crashed
  PROVE  \A u \in Turn : TurnOK(u)'
  <1>1. SUFFICES ASSUME NEW t \in Turn
                 PROVE  TurnOK(t)'
    OBVIOUS
  <1>2. /\ Started(t)' = Started(t) /\ Live(t)' = Live(t) /\ Completed(t)' = Completed(t)
        /\ Ended(t)' = Ended(t) /\ InProgress(t)' = InProgress(t)
        /\ \A n : Spent(t, n)' = Spent(t, n)
        /\ \A y \in Executor : Holds(y, t)' = Holds(y, t)
    BY DEF Started, Live, Completed, Ended, InProgress, Spent, Holds, ledgerVars
  <1>3. ASSUME NEW y \in Executor, Holds(y, t)
        PROVE  PathOK(y, t)' /\ \A a \in InProgress(t) : Excused(y, t, a)'
    <2>1. PathOK(y, t) /\ \A a \in InProgress(t) : Excused(y, t, a)
      BY <1>3 DEF ApartInv, TurnOK
    <2>2. PathOK(y, t)'
      BY <1>2, <2>1 DEF PathOK, Spent, ledgerVars
    <2>3. QED
      BY <1>2, <2>1, <2>2 DEF Excused
  <1>4. TurnOK(t)
    BY DEF ApartInv
  <1>5. QED
    BY <1>2, <1>3, <1>4 DEF TurnOK, Spent, ledgerVars

\* The turns of a process that dies are known to be crashed.
LEMMA CrashKeepsApart ==
  ASSUME ApartInv, NEW h \in Host, Crash(h)
  PROVE  \A u \in Turn : TurnOK(u)'
  <1> DEFINE dead == {x \in Executor : HostOf[x] = h /\ exec[x].pc # "idle"}
  <1>1. /\ exec' = [x \in Executor |-> IF x \in dead THEN Idle ELSE exec[x]]
        /\ crashed' = crashed \cup {t \in Turn : Started(t) /\ \E x \in dead : exec[x].turn = t}
        /\ UNCHANGED ledgerVars /\ rows' = rows
    BY DEF Crash, ledgerVars
  <1>2. SUFFICES ASSUME NEW t \in Turn
                 PROVE  TurnOK(t)'
    OBVIOUS
  <1>3. /\ Started(t)' = Started(t) /\ Live(t)' = Live(t) /\ Completed(t)' = Completed(t)
        /\ Ended(t)' = Ended(t) /\ InProgress(t)' = InProgress(t)
        /\ \A n : Spent(t, n)' = Spent(t, n)
    BY <1>1 DEF Started, Live, Completed, Ended, InProgress, Spent, ledgerVars
  <1>4. ASSUME NEW y \in Executor, Holds(y, t)'
        PROVE  PathOK(y, t)' /\ \A a \in InProgress(t)' : Excused(y, t, a)'
    <2>1. exec'[y] = exec[y] /\ Holds(y, t)
      BY <1>1, <1>4 DEF Holds, Idle
    <2>2. PathOK(y, t) /\ \A a \in InProgress(t) : Excused(y, t, a)
      BY <2>1 DEF ApartInv, TurnOK
    <2>3. t \notin crashed' => t \notin crashed
      BY <1>1
    <2>4. PathOK(y, t)'
      BY <1>1, <1>3, <2>1, <2>2, <2>3 DEF PathOK, Spent, ledgerVars
    <2>5. \A a \in InProgress(t)' : Excused(y, t, a)'
      BY <1>3, <2>1, <2>2 DEF Excused
    <2>6. QED
      BY <2>4, <2>5
  <1>5. (Live(t)' /\ t \notin crashed' /\ \A y \in Executor : ~Holds(y, t)')
            => t \notin crashed /\ \A y \in Executor : ~Holds(y, t)
    <2>1. SUFFICES ASSUME Live(t), t \notin crashed', NEW y \in Executor, Holds(y, t)
                   PROVE  Holds(y, t)'
      BY <1>1, <1>3
    <2>2. y \notin dead
      BY <1>1, <2>1 DEF Holds, Live
    <2>3. QED
      BY <1>1, <2>1, <2>2 DEF Holds
  <1>6. ~Started(t)' => /\ \A n \in Name : ~Spent(t, n)'
                        /\ \A a \in Attempt : TurnOf(a) = t => rows'[a] = "absent"
    BY <1>1, <1>3 DEF ApartInv, TurnOK
  <1>7. InProgress(t)' # {} => ~Completed(t)'
    BY <1>3 DEF ApartInv, TurnOK
  <1>8. (Live(t)' /\ t \notin crashed' /\ \A y \in Executor : ~Holds(y, t)')
            => ~Spent(t, CheckName)' /\ ~Spent(t, VerdictName)'
    BY <1>3, <1>5 DEF ApartInv, TurnOK
  <1>9. QED
    BY <1>4, <1>6, <1>7, <1>8 DEF TurnOK

LEMMA InitApartInv == Init => ApartInv
  <1> SUFFICES ASSUME Init
               PROVE  ApartInv
    OBVIOUS
  <1>1. RuntimeInv
    BY InitRuntimeInv
  <1>2. \A t \in Turn : TurnOK(t)
    BY DEF Init, LedgerInit, TurnOK, Started, Live, Spent, InProgress, Holds, Idle
  <1>3. QED
    BY <1>1, <1>2 DEF ApartInv

LEMMA NextApartInv ==
  ApartInv /\ TurnsAreApart /\ TurnsAreApart' /\ [Next]_vars => ApartInv'
  <1> SUFFICES ASSUME ApartInv, TurnsAreApart, TurnsAreApart', [Next]_vars
               PROVE  ApartInv'
    OBVIOUS
  <1>1. RuntimeInv'
    BY NextRuntimeInv DEF ApartInv
  <1>2. ASSUME NEW x \in Executor,
               Begin(x) \/ Proceed(x) \/ Finish(x) \/ Work(x) \/ Interfere(x)
        PROVE  \A u \in Turn : TurnOK(u)'
    BY <1>1, <1>2, BeginKept, EnteringKept, QuietActions, CallsKept, VerifyKept, EndKept
       DEF Proceed, Work, Interfere
  <1>3. ASSUME NEW h \in Host, Close(h) \/ Crash(h)
        PROVE  \A u \in Turn : TurnOK(u)'
    BY <1>3, NothingKeepsApart, CrashKeepsApart DEF Close, ledgerVars
  <1>4. ASSUME UNCHANGED vars
        PROVE  \A u \in Turn : TurnOK(u)'
    BY <1>4, NothingKeepsApart DEF vars, ledgerVars
  <1>5. QED
    BY <1>1, <1>2, <1>3, <1>4 DEF Next, ApartInv

\* As long as no two executors hold one turn, an execution that was not preceded
\* by a crash says of its turn what the journal says: a verified result is a
\* completed turn, and any other end is not. With two executors on one turn the
\* second one may complete what the first reports as failed.
THEOREM ResultsAgreeApart == Spec /\ []TurnsAreApart => []ResultAgreesWithTurn
  <1>1. ApartInv => ResultAgreesWithTurn
    <2>1. SUFFICES ASSUME ApartInv, NEW x \in Executor,
                          exec[x].pc = "closing", exec[x].turn \notin crashed
                   PROVE  exec[x].outcome = "success"
                             <=> snapshot[exec[x].turn].phase = "completed"
      BY DEF ResultAgreesWithTurn
    <2>2. exec[x].turn \in Turn /\ Started(exec[x].turn)
      BY <2>1 DEF ApartInv, RuntimeInv, ExecOK
    <2>3. PICK t \in Turn : t = exec[x].turn
      BY <2>2
    <2>4. PathOK(x, t)
      BY <2>1, <2>3 DEF ApartInv, TurnOK, Holds
    <2>5. QED
      BY <2>1, <2>2, <2>3, <2>4 DEF PathOK, Completed
  <1>2. QED
    BY InitApartInv, NextApartInv, <1>1, PTL DEF Spec

\* Under the same hypothesis a completed turn leaves no mutation in progress,
\* over any number of crashes, resumptions and refused calls.
THEOREM CompletedTurnsAreSettledApart ==
  Spec /\ []TurnsAreApart => []CompletedTurnIsSettled
  <1>1. ApartInv => CompletedTurnIsSettled
    <2>1. SUFFICES ASSUME ApartInv, NEW a \in Attempt, rows[a] = "in_progress",
                          Started(TurnOf(a))
                   PROVE  snapshot[TurnOf(a)].phase # "completed"
      BY DEF CompletedTurnIsSettled
    <2>2. PICK t \in Turn : t = TurnOf(a)
      BY NameType
    <2>3. a \in InProgress(t)
      BY <2>1, <2>2 DEF InProgress
    <2>4. QED
      BY <2>1, <2>2, <2>3 DEF ApartInv, TurnOK, Completed
  <1>2. QED
    BY InitApartInv, NextApartInv, <1>1, PTL DEF Spec

\* One executor is never in its own way.
THEOREM LoneExecutorIsApart ==
  (\A x, y \in Executor : x = y)
      => (Spec => [](ResultAgreesWithTurn /\ CompletedTurnIsSettled))
  <1> SUFFICES ASSUME \A x, y \in Executor : x = y
               PROVE  Spec => [](ResultAgreesWithTurn /\ CompletedTurnIsSettled)
    OBVIOUS
  <1>1. TurnsAreApart
    BY DEF TurnsAreApart
  <1>2. QED
    BY <1>1, ResultsAgreeApart, CompletedTurnsAreSettledApart, PTL
=============================================================================
