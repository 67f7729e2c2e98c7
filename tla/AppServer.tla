----------------------------- MODULE AppServer ------------------------------
(***************************************************************************)
(* The app server and the web interface over it (app_server.py, the chat   *)
(* stream of webui/server.py), with the approval gates of the turns they   *)
(* start.                                                                  *)
(*                                                                         *)
(* A request is one POST of the chat stream: an HTTP thread remembers the  *)
(* turn its chat showed, clears it, submits thread/turn to the event loop, *)
(* and polls until the answer is there.  The loop runs the turn, whose     *)
(* calls may ask; a client answers or cancels at any moment.  A chat shows *)
(* one turn, one handle and one pending question: dictionaries that every  *)
(* request of the chat rewrites.                                           *)
(*                                                                         *)
(* The execution of a turn is coarse: AgentRuntime has its inside.  Of its *)
(* journal only the events that the gate writes, the first and the last    *)
(* are kept.                                                               *)
(***************************************************************************)
EXTENDS ApprovalGate, SequencesExt

CONSTANTS
    Thread,          \* the chats; each has one session
    ThreadOf,        \* the chat of each request
    Offered,         \* the answers clients give
    Streaming,       \* the requests that are streamed (POST /api/chat just waits)
    MaxTurns,        \* bound on turns
    None

ASSUME AppAssumption ==
    /\ ThreadOf \in [Request -> Thread] /\ Offered \subseteq Answer /\ Streaming \subseteq Request
    /\ MaxTurns \in Nat /\ None \notin Nat

VARIABLES
    turns,           \* the turns in the order they were started
    req,             \* the requests: where each is, and what its thread knows
    thread           \* AppServer.threads and _handles, by chat

appVars == <<turns, req, thread>>
vars    == <<permission, allowfile, gate, call, said, turns, req, thread>>

ReqPc == {"new", "captured", "prepared", "submitted", "running", "ended",
          "answered", "done", "failed"}

Event == [kind : {"accepted", "required", "resolved", "end"}, call : Call \cup {NoCall}]

Turn == DOMAIN turns \cup {None}

AppTypeOK ==
    /\ Len(turns) <= MaxTurns
    /\ \A t \in DOMAIN turns :
          /\ turns[t].thread \in Thread /\ turns[t].over \in BOOLEAN
          /\ \A i \in DOMAIN turns[t].log : turns[t].log[i] \in Event
    /\ req \in [Request -> [pc : ReqPc, turn : Turn, shared : BOOLEAN, prev : Turn,
                            follows : Turn, upto : Nat, shown : SUBSET Call]]
    /\ \A r \in Request : req[r].follows # None => req[r].upto <= Len(turns[req[r].follows].log)
    /\ thread \in [Thread -> [turn : Turn, prev : Turn,
                              handle : Request \cup {None}, slot : Call \cup {None}]]

Init ==
    /\ GateInit
    /\ turns = <<>>
    /\ req = [r \in Request |-> [pc |-> "new", turn |-> None, shared |-> FALSE,
                                 prev |-> None, follows |-> None, upto |-> 0, shown |-> {}]]
    /\ thread = [h \in Thread |-> [turn |-> None, prev |-> None, handle |-> None,
                                   slot |-> None]]

Is(r, pc) == req[r].pc = pc

Go(r, pc) == req' = [req EXCEPT ![r].pc = pc]

\* The turn of a chat's session, if any, that has not ended; only the newest is
\* looked at (latest_incomplete).
IsNewest(h, t) ==
    /\ turns[t].thread = h
    /\ \A u \in DOMAIN turns : turns[u].thread = h => u <= t

Newest(h) == CHOOSE t \in DOMAIN turns : IsNewest(h, t)

Incomplete(h) == \E t \in DOMAIN turns : IsNewest(h, t) /\ ~turns[t].over

TurnOf(c) == req[OwnerOf[c]].turn

Live(c) == TurnOf(c) # None /\ ~turns[TurnOf(c)].over

Ev(kind, c) == [kind |-> kind, call |-> c]

Logged(t, ev, over) ==
    turns' = [turns EXCEPT ![t].log = Append(@, ev), ![t].over = @ \/ over]

\* The requests of a chat that are executed now.
Executing(h) == {r \in Request : ThreadOf[r] = h /\ req[r].pc \in {"submitted", "running", "ended"}}

-----------------------------------------------------------------------------
\* The HTTP thread of a request

\* stream_chat reads which turn the chat shows.
Capture(r) ==
    /\ Is(r, "new") /\ r \in Streaming
    /\ req' = [req EXCEPT ![r].pc = "captured", ![r].prev = thread[ThreadOf[r]].turn]
    /\ UNCHANGED <<gateVars, turns, thread>>

\* _prepare_chat stashes that turn and clears it; when the thread had read
\* nothing, it takes the stash.
Prepare(r) ==
    LET h     == ThreadOf[r]
        stash == IF thread[h].turn # None THEN thread[h].turn ELSE thread[h].prev
    IN
    /\ Is(r, IF r \in Streaming THEN "captured" ELSE "new")
    /\ thread' = [thread EXCEPT ![h].prev = stash, ![h].turn = None]
    /\ req' = [req EXCEPT ![r].pc = "prepared",
                          ![r].prev = IF @ = None /\ r \in Streaming THEN stash ELSE @]
    /\ UNCHANGED <<gateVars, turns>>

\* A turn the chat shows that it did not show before this request.
Candidate(r) ==
    LET t == thread[ThreadOf[r]].turn IN t # None /\ t # req[r].prev

Polling(r) == r \in Streaming /\ req[r].pc \in {"prepared", "submitted", "running", "ended"}

Follow(r) ==
    /\ Polling(r) /\ req[r].follows = None /\ Candidate(r)
    /\ req' = [req EXCEPT ![r].follows = thread[ThreadOf[r]].turn]
    /\ UNCHANGED <<gateVars, turns, thread>>

Questions(events) == {events[i].call : i \in {j \in DOMAIN events : events[j].kind = "required"}}

\* _emit_turn_events: the events after the last one shown.
Emitted(s, t) ==
    LET from == IF s.follows = t THEN s.upto ELSE 0
        news == SubSeq(turns[t].log, from + 1, Len(turns[t].log))
    IN
    [s EXCEPT !.follows = t, !.upto = Len(turns[t].log), !.shown = @ \cup Questions(news)]

\* Mutated form: the pending question of the chat is not looked at.
PollLogOnly(r) ==
    /\ Polling(r) /\ req[r].follows # None
    /\ req' = [req EXCEPT ![r] = Emitted(@, @.follows)]
    /\ req' # req
    /\ UNCHANGED <<gateVars, turns, thread>>

\* One round of the loop of stream_chat: the news of the turn it follows, and
\* the pending question of the chat.
Poll(r) ==
    LET s    == IF req[r].follows = None THEN req[r] ELSE Emitted(req[r], req[r].follows)
        slot == thread[ThreadOf[r]].slot
    IN
    /\ Polling(r)
    /\ req' = [req EXCEPT ![r] =
           [s EXCEPT !.shown = IF slot = None THEN @ ELSE @ \cup {slot}]]
    /\ req' # req
    /\ UNCHANGED <<gateVars, turns, thread>>

\* Mutated form: the answer is sent without a last look at the journal.
DrainNothing(r) ==
    /\ Is(r, "answered")
    /\ Go(r, "done")
    /\ UNCHANGED <<gateVars, turns, thread>>

\* The turn of an answer that is a result. For the one that the chat showed before it is
\* the one that the stream follows, or that the chat shows by now.
LastTurn(r) ==
    IF req[r].turn # req[r].prev THEN req[r].turn
    ELSE IF req[r].follows = None /\ Candidate(r) THEN thread[ThreadOf[r]].turn
    ELSE req[r].follows

\* The answer is there, and is a result: what is left of the events of its turn is shown
\* first, but for a turn the chat showed before.
Drain(r) ==
    LET t == LastTurn(r) IN
    /\ Is(r, "answered")
    /\ req' = [req EXCEPT ![r] =
           [(IF t = None \/ r \notin Streaming THEN @ ELSE Emitted(@, t)) EXCEPT !.pc = "done"]]
    /\ UNCHANGED <<gateVars, turns, thread>>

-----------------------------------------------------------------------------
\* The event loop: thread/turn and the execution

\* thread/turn up to its wait: the newest turn of the session is taken up if it
\* has not ended, else a turn is started; the chat shows it.
Submit(r) ==
    LET h == ThreadOf[r]
        t == IF Incomplete(h) THEN Newest(h) ELSE Len(turns) + 1
    IN
    /\ Is(r, "prepared")
    /\ t <= MaxTurns
    /\ turns' = IF Incomplete(h) THEN turns
                ELSE Append(turns, [thread |-> h, over |-> FALSE,
                                    log |-> <<Ev("accepted", NoCall)>>])
    /\ thread' = [thread EXCEPT ![h].handle = r, ![h].turn = t]
    /\ req' = [q \in Request |->
           IF q = r THEN [req[r] EXCEPT !.pc = "submitted", !.turn = t,
                                        !.shared = Executing(h) # {}]
           ELSE IF q \in Executing(h) THEN [req[q] EXCEPT !.shared = TRUE]
           ELSE req[q]]
    /\ UNCHANGED <<gateVars>>

\* thread/turn may raise before it has a handle.
SubmitRaises(r) ==
    /\ Is(r, "prepared") /\ Go(r, "failed")
    /\ UNCHANGED <<gateVars, turns, thread>>

\* The task begins: the controller is made, and its gate.
Begin(r) ==
    /\ Is(r, "submitted")
    /\ OpenGate(r) /\ Go(r, "running")
    /\ UNCHANGED <<turns, thread>>

\* The controller returns or raises, and the turn is ended, if nothing ended it before.
End(r) ==
    LET t == req[r].turn IN
    /\ Is(r, "running") /\ \A c \in CallsOf(r) : call[c].pc \notin InProgress
    /\ Go(r, "ended")
    /\ IF turns[t].over THEN UNCHANGED turns ELSE Logged(t, Ev("end", NoCall), TRUE)
    /\ UNCHANGED <<gateVars, thread>>

\* Mutated form: a request whose handle another one replaced hears of no end.
HeardHeld(r) == Is(r, "ended") /\ thread[ThreadOf[r]].handle = r

\* The wait of thread/turn is over, whatever handle the chat has by now.
Heard(r) == Is(r, "ended")

\* thread/turn goes on after its wait with a result: that handle is removed, and the
\* chat shows the turn again.
Return(r) ==
    LET h == ThreadOf[r] IN
    /\ Heard(r) /\ Go(r, "answered")
    /\ thread' = [thread EXCEPT ![h].handle = None, ![h].turn = req[r].turn]
    /\ UNCHANGED <<gateVars, turns>>

\* ... or the execution raised, or what follows it raises (capture_turn): the handle is
\* removed, the chat shows whatever turn it shows, and the answer is an error, on which
\* a stream ends without a last look at the journal.
ReturnRaises(r) ==
    /\ Heard(r) /\ Go(r, "failed")
    /\ thread' = [thread EXCEPT ![ThreadOf[r]].handle = None]
    /\ UNCHANGED <<gateVars, turns>>

-----------------------------------------------------------------------------
\* The calls of a turn

\* The approver registers its waiter and shows the question as that of its chat.
PutQuestion(c) ==
    /\ Ask(c, Live(c))
    /\ Logged(TurnOf(c), Ev("required", c), FALSE)
    /\ thread' = [thread EXCEPT ![ThreadOf[OwnerOf[c]]].slot = c]
    /\ UNCHANGED <<req>>

\* Mutated form: only the path of an answer clears the question.
UnshownWhenDecided(c) ==
    thread' = [thread EXCEPT ![ThreadOf[OwnerOf[c]]].slot =
                  IF @ = c /\ call[c].waiter \in Answer THEN None ELSE @]

\* The finally clause of the approver: the question goes if it is still shown.
Unshown(c) ==
    thread' = [thread EXCEPT ![ThreadOf[OwnerOf[c]]].slot = IF @ = c THEN None ELSE @]

HearAnswer(c) ==
    LET answer == call[c].waiter IN
    /\ Hear(c, Live(c))
    /\ Unshown(c)
    /\ IF Live(c) /\ Told(answer)
       THEN Logged(TurnOf(c), Ev("resolved", c), answer \in No)
       ELSE UNCHANGED turns
    /\ UNCHANGED <<req>>

DropQuestion(c) ==
    /\ Drop(c) /\ Unshown(c)
    /\ UNCHANGED <<turns, req>>

QuietStep(c) ==
    /\ Require(c) \/ Pass(c) \/ CannotAsk(c, Live(c)) \/ Finish(c)
    /\ UNCHANGED appVars

CallStep(c) == PutQuestion(c) \/ HearAnswer(c) \/ DropQuestion(c) \/ QuietStep(c)

-----------------------------------------------------------------------------
\* Clients

\* thread/approve. A question nobody waits for any more is an error, and one
\* that is decided keeps its first answer.
Approve(c, answer) ==
    /\ Reply(c, answer)
    /\ UNCHANGED appVars

Patience(c) ==
    /\ TimeOut(c)
    /\ UNCHANGED appVars

\* Mutated form: a question that was answered is answered once more.
UnblockedAnyway(h) ==
    LET c == thread[h].slot IN
    IF c # None THEN [call EXCEPT ![c].waiter = "no"] ELSE call

\* What a cancellation answers: the question the chat shows.
Unblocked(h) ==
    LET c == thread[h].slot IN
    IF c # None /\ call[c].waiter = "open" THEN [call EXCEPT ![c].waiter = "no"] ELSE call

\* thread/cancel, of a turn that has its controller or of no turn: the controller
\* will see it, which End and Drop allow at any time, and the question is answered.
Cancel(h) ==
    LET r == thread[h].handle IN
    /\ r # None => req[r].pc # "submitted"
    /\ call' = Unblocked(h) /\ call' # call
    /\ UNCHANGED <<permission, allowfile, gate, said, appVars>>

\* thread/cancel before the task's first step: the task never runs, the turn
\* stays as it is, and the request fails.
CancelUnbegun(h) ==
    LET r == thread[h].handle IN
    /\ r # None /\ req[r].pc = "submitted"
    /\ Go(r, "failed")
    /\ thread' = [thread EXCEPT ![h].handle = None]
    /\ call' = Unblocked(h)
    /\ UNCHANGED <<permission, allowfile, gate, said, turns>>

Client ==
    \/ \E c \in Call, answer \in Offered : Approve(c, answer)
    \/ \E h \in Thread : Cancel(h) \/ CancelUnbegun(h)

Stream(r) == Capture(r) \/ Prepare(r) \/ Follow(r) \/ Poll(r) \/ Drain(r)

Execute(r) ==
    Submit(r) \/ SubmitRaises(r) \/ Begin(r) \/ End(r) \/ Return(r) \/ ReturnRaises(r)

Settled == \A r \in Request : req[r].pc \in {"done", "failed"}

Next ==
    \/ \E r \in Request : Stream(r) \/ Execute(r)
    \/ \E c \in Call : CallStep(c) \/ Patience(c)
    \/ Client
    \/ Settled /\ UNCHANGED vars

Spec == Init /\ [][Next]_vars

\* The loop runs ready tasks and a stream polls until it is answered. Tools end. A
\* turn ends some time if no call of it is in progress; that a cancelled tool is
\* given up is the same fairness.
FairSpec ==
    /\ Spec
    /\ \A r \in Request :
          /\ WF_vars(Follow(r) \/ Poll(r) \/ Drain(r))
          /\ WF_vars(Begin(r) \/ End(r) \/ Return(r) \/ ReturnRaises(r))
    /\ \A c \in Call : WF_vars(CallStep(c) /\ call'[c].pc # "dropped")

\* An unanswered question ends with the patience of its approver.
PatienceEnds == \A c \in Call : WF_vars(Patience(c))

-----------------------------------------------------------------------------
\* Properties

\* The question a chat shows is one that waits, of a request of that chat: no
\* path out of a question leaves it on the screen.
ShownQuestionWaits ==
    \A h \in Thread : thread[h].slot # None =>
        LET c == thread[h].slot IN
        At(c, "asking") /\ call[c].waiter # "none" /\ ThreadOf[OwnerOf[c]] = h

\* A stream that ends with a result has shown every event of its turn, the last one
\* included, unless the turn is the one the chat showed before. One that ends with an
\* error (ReturnRaises) promises nothing of its turn: it has not looked once more.
StreamShowsItsTurn ==
    \A r \in Request : (r \in Streaming /\ Is(r, "done") /\ req[r].turn # req[r].prev) =>
        /\ req[r].follows = req[r].turn
        /\ req[r].upto = Len(turns[req[r].turn].log)
        /\ turns[req[r].turn].over

\* A question is shown by the stream of its request unless a client answers it,
\* or its tool is given up, before: by the journal or, when the stream does not
\* follow the turn, by the pending question of the chat. It need not wait for the
\* end of the approver's patience. A request that shares its chat with another one
\* may lose the pending question to it, and a stream that does not follow the turn
\* then never shows it.
EveryQuestionIsShown ==
    \A c \in Call :
        LET r == OwnerOf[c] IN
        (At(c, "asking") /\ r \in Streaming)
            ~> (c \in req[r].shown \/ ~At(c, "asking") \/ req[r].shared)

\* Whatever clients do, a request that was submitted is answered: neither a
\* question nobody hears of, nor the other requests of its chat, keep it.
EveryRequestIsAnswered ==
    PatienceEnds =>
        \A r \in Request : Is(r, "submitted") ~> (Is(r, "done") \/ Is(r, "failed"))
=============================================================================
