----------------------------- MODULE ToolGuard -----------------------------
(***************************************************************************)
(* ToolCallGuardrailController and PostCheckpointGuard                     *)
(* (loop/tool_guardrails.py) in the loop that asks them: the calls of one  *)
(* answer of the model are all screened (before_call) before any of them   *)
(* runs, then each result is observed (after_call) in the order of the     *)
(* calls.  A turn is stopped after the batch in which a guard said so.     *)
(*                                                                         *)
(* Only what stops is modelled: warnings and steers are words in a result. *)
(* A call is a tool with its arguments (ToolCallSignature), an outcome is  *)
(* the hash of a result.                                                   *)
(***************************************************************************)
EXTENDS FiniteSetsExt, SequencesExt

CONSTANTS
    Call, ToolOf,           \* the calls a model makes, and the tool of each
    UrlOf, NoUrl,           \* the page a call fetches
    Idempotent,             \* tools that only read
    Outcome,                \* what a tool that exists can answer
    Failed, Unknown,        \* the outcomes that are failures; "unknown tool"
    Undeclared,             \* tools that do not exist
    HardStop,               \* whether the guards stop anything
    MaxBatch,               \* calls in one answer of the model
    ExactBlock, SameToolHalt, NoProgressBlock, UrlBlock, UnknownBlock,
    StagnantWarn, StagnantHalt, BreakerWarn, BreakerHalt, PingPongHalt, HistorySize,
    Window, WindowAbort     \* PostCheckpointGuard

Tool == Range(ToolOf)

Url == Range(UrlOf) \ {NoUrl}

ASSUME GuardAssumption ==
    /\ DOMAIN ToolOf = Call /\ DOMAIN UrlOf = Call
    /\ Failed \subseteq Outcome /\ Unknown \notin Outcome
    /\ Undeclared \subseteq Tool /\ Idempotent \subseteq Tool
    /\ HardStop \in BOOLEAN
    /\ {MaxBatch, ExactBlock, SameToolHalt, NoProgressBlock, UrlBlock, UnknownBlock,
        StagnantWarn, StagnantHalt, BreakerWarn, BreakerHalt, PingPongHalt, HistorySize,
        Window, WindowAbort}
           \subseteq Nat \ {0}

VARIABLES
    guard,      \* the counters of the turn
    window,     \* PostCheckpointGuard: observations left, and those made
    queue,      \* calls of the batch that were let through and not yet observed
    halted,     \* guardrail_halt: the turn ends with the batch, with a question
    ran,        \* history: the results of the turn so far
    fetched     \* history: how often a page was really fetched

guardVars == <<guard, window, queue, halted, ran, fetched>>

Triple == Call \X (Outcome \cup {Unknown})

NoRepeat == [of |-> Unknown, times |-> 0]

GuardInit ==
    /\ guard = [exact |-> [c \in Call |-> 0], same |-> [t \in Tool |-> 0],
                repeat |-> [c \in Call |-> NoRepeat], urls |-> [u \in Url |-> 0],
                unknown |-> 0, streak |-> 0, seen |-> {}, history |-> <<>>]
    /\ window = [left |-> 0, made |-> <<>>]
    /\ queue = <<>> /\ halted = FALSE
    /\ ran = 0 /\ fetched = [u \in Url |-> 0]

\* `_history` keeps at least four entries.
Kept == Max({4, HistorySize})

Repeat == [of : Outcome \cup {Unknown}, times : Nat]

Counters == [exact : [Call -> Nat], same : [Tool -> Nat], repeat : [Call -> Repeat],
             urls : [Url -> Nat], unknown : Nat, streak : Nat,
             seen : SUBSET Triple, history : Seq(Triple)]

GuardTypeOK ==
    /\ guard \in Counters
    /\ Len(guard.history) <= Kept
    /\ window \in [left : 0..Window, made : Seq(Triple)]
    /\ Len(window.made) + window.left <= Window
    /\ queue \in Seq(Call) /\ Len(queue) <= MaxBatch
    /\ halted \in BOOLEAN /\ ran \in Nat /\ fetched \in [Url -> Nat]

-----------------------------------------------------------------------------
\* before_call

\* What the screening refuses: a call that the results so far speak against.
Blocked(c) ==
    /\ HardStop
    /\ \/ guard.unknown >= UnknownBlock
       \/ guard.streak >= StagnantHalt
       \/ guard.exact[c] >= ExactBlock
       \/ UrlOf[c] # NoUrl /\ guard.urls[UrlOf[c]] >= UrlBlock
       \/ ToolOf[c] \in Idempotent /\ guard.repeat[c].times >= NoProgressBlock

\* The model answers with at most MaxBatch calls: those that pass, in their order,
\* and perhaps others that are blocked, which stop the turn once the former have run.
Screen(passed, refused) ==
    /\ queue = <<>> /\ ~halted
    /\ \A n \in DOMAIN passed : ~Blocked(passed[n])
    /\ IF refused THEN Len(passed) < MaxBatch /\ \E c \in Call : Blocked(c)
                  ELSE passed # <<>>
    /\ queue' = passed /\ halted' = refused
    /\ UNCHANGED <<guard, window, ran, fetched>>

-----------------------------------------------------------------------------
\* after_call

Fails(o) == o \in Failed

\* A read that returns once more what it returned before.
Again(c, o) == IF guard.repeat[c].of = o THEN guard.repeat[c].times + 1 ELSE 1

\* What counts as progress: a write that worked, or a read with a result it did
\* not have the last time.
Progress(c, o) ==
    o # Unknown /\ ~Fails(o) /\ (ToolOf[c] \in Idempotent => Again(c, o) = 1)

\* One more fetch of the page of a call, if it has one.
Fetched(c, counts) ==
    IF UrlOf[c] = NoUrl THEN counts ELSE [counts EXCEPT ![UrlOf[c]] = @ + 1]

\* Mutated form: a fetch that failed is not counted against its page.
TalliedIfFetched(c, o) ==
    IF o = Unknown THEN [guard EXCEPT !.unknown = @ + 1]
    ELSE [guard EXCEPT
             !.unknown = 0,
             !.exact[c] = IF Fails(o) THEN @ + 1 ELSE 0,
             !.same[ToolOf[c]] = IF Fails(o) THEN @ + 1 ELSE 0,
             !.repeat[c] = IF Fails(o) \/ ToolOf[c] \notin Idempotent THEN NoRepeat
                           ELSE [of |-> o, times |-> Again(c, o)],
             !.urls = IF Fails(o) THEN @ ELSE Fetched(c, @)]

\* The counters of one tool, one call and one page; an unknown tool only counts
\* as that.
Tallied(c, o) ==
    IF o = Unknown THEN [guard EXCEPT !.unknown = @ + 1]
    ELSE [guard EXCEPT
             !.unknown = 0,
             !.exact[c] = IF Fails(o) THEN @ + 1 ELSE 0,
             !.same[ToolOf[c]] = IF Fails(o) THEN @ + 1 ELSE 0,
             !.repeat[c] = IF Fails(o) \/ ToolOf[c] \notin Idempotent THEN NoRepeat
                           ELSE [of |-> o, times |-> Again(c, o)],
             !.urls = Fetched(c, @)]

\* Mutated form: progress ends the streak also when its outcome is an old one.
RememberedAnyProgress(g, c, o) ==
    [g EXCEPT !.history = LET h == Append(@, <<c, o>>) IN
                          IF Len(h) > Kept THEN Tail(h) ELSE h,
              !.streak = IF Progress(c, o) THEN 0 ELSE @ + 1,
              !.seen = @ \cup {<<c, o>>}]

\* _observe_history: the rolling history, and the streak that only progress with
\* an outcome not seen before in the turn ends.
Remembered(g, c, o) ==
    [g EXCEPT !.history = LET h == Append(@, <<c, o>>) IN
                          IF Len(h) > Kept THEN Tail(h) ELSE h,
              !.streak = IF Progress(c, o) /\ <<c, o>> \notin g.seen THEN 0 ELSE @ + 1,
              !.seen = @ \cup {<<c, o>>}]

\* _ping_pong_streak: how long two calls have alternated, whatever they returned.
Alternates(h, n) ==
    LET last == Len(h) IN
    /\ n <= last /\ h[last][1] # h[last - 1][1]
    /\ \A k \in 0..(n - 1) : h[last - k][1] = h[last - (k % 2)][1]

PingPong(h) == PingPongHalt <= Len(h) /\ Len(h) >= 4 /\ Alternates(h, Max({4, PingPongHalt}))

Identical(h) == Cardinality({n \in DOMAIN h : h[n] = h[Len(h)]})

\* The result of call c stops the turn.  A warning of the streak or of the breaker
\* returns before the detectors that come after it.
Stops(g, c, o) ==
    /\ HardStop
    /\ \/ o = Unknown /\ g.unknown >= UnknownBlock
       \/ Fails(o) /\ g.same[ToolOf[c]] >= SameToolHalt
       \/ ToolOf[c] \in Idempotent /\ o # Unknown /\ g.repeat[c].times >= NoProgressBlock
       \/ o # Unknown /\ UrlOf[c] # NoUrl /\ g.urls[UrlOf[c]] >= UrlBlock
       \/ g.streak >= StagnantHalt
       \/ g.streak < StagnantWarn /\ Identical(g.history) >= BreakerHalt
       \/ g.streak < StagnantWarn /\ Identical(g.history) < BreakerWarn /\ PingPong(g.history)

\* PostCheckpointGuard.observe, while it is armed.
Watched(c, o) ==
    IF window.left = 0 THEN window
    ELSE [left |-> window.left - 1, made |-> Append(window.made, <<c, o>>)]

Aborts(w, c, o) ==
    /\ window.left > 0
    /\ Cardinality({n \in DOMAIN w.made : w.made[n] = <<c, o>>}) >= Max({2, WindowAbort})

Observe(o) ==
    LET c == Head(queue)
        g == Remembered(Tallied(c, o), c, o)
        w == Watched(c, o)
    IN
    /\ queue # <<>> /\ (o = Unknown <=> ToolOf[c] \in Undeclared)
    /\ guard' = g /\ window' = w /\ queue' = Tail(queue)
    /\ halted' = (halted \/ Stops(g, c, o) \/ Aborts(w, c, o))
    /\ ran' = ran + 1 /\ fetched' = IF o = Unknown THEN fetched ELSE Fetched(c, fetched)

-----------------------------------------------------------------------------

\* Between two answers the history of the chat may be compacted: arm().
Checkpoint ==
    /\ queue = <<>> /\ ~halted /\ window # [left |-> Window, made |-> <<>>]
    /\ window' = [left |-> Window, made |-> <<>>]
    /\ UNCHANGED <<guard, queue, halted, ran, fetched>>

Batch == UNION {[1..n -> Call] : n \in 0..MaxBatch}

Calls == \E passed \in Batch, refused \in BOOLEAN : Screen(passed, refused)

Results == \E o \in Outcome \cup {Unknown} : Observe(o)

GuardNext == Calls \/ Results \/ Checkpoint

GuardSpec == GuardInit /\ [][GuardNext]_guardVars

-----------------------------------------------------------------------------

\* Whatever a model calls, and however it mixes its calls, a turn whose tools have
\* only so many answers is stopped: the results are bounded by those that differ,
\* the streak between two of them and the rest of the batch that reached it.
EndlessCallingIsStopped ==
    HardStop => ran <= (Cardinality(guard.seen) + 1) * StagnantHalt + MaxBatch - 1

\* A page is fetched no more often than its limit and one batch, screened before
\* any of its calls ran, allow: also when its fetches fail, differ in their other
\* arguments, or alternate with other work.
PageIsNotRefetched ==
    HardStop => \A u \in Url : fetched[u] <= UrlBlock + MaxBatch - 1
=============================================================================
