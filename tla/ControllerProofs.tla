-------------------------- MODULE ControllerProofs --------------------------
(***************************************************************************)
(* The controller of a turn.  Its guards (ToolGuard), for any calls, tools,*)
(* pages, outcomes and limits: endless calling is stopped, and a page is   *)
(* not fetched over and over.  Its design and its loop (TurnDesign and     *)
(* TurnLoop), for any messages, defects, goals and limits: what is built   *)
(* was approved, success was verified in the step it is claimed in and on  *)
(* evidence of this turn, and repairs are bounded.                         *)
(*                                                                         *)
(* Guards and loop keep their state apart: their specifications share      *)
(* nothing but this module.                                                *)
(***************************************************************************)
EXTENDS ToolGuard, TurnLoop, FiniteSetTheorems, SequenceTheorems, TLAPS

-----------------------------------------------------------------------------
\* What the assumptions say, arithmetic and sequences

LEMMA LimitsAreNat ==
    /\ MaxBatch \in Nat \ {0} /\ ExactBlock \in Nat \ {0} /\ SameToolHalt \in Nat \ {0}
    /\ NoProgressBlock \in Nat \ {0} /\ UrlBlock \in Nat \ {0} /\ UnknownBlock \in Nat \ {0}
    /\ StagnantWarn \in Nat \ {0} /\ StagnantHalt \in Nat \ {0} /\ BreakerWarn \in Nat \ {0}
    /\ BreakerHalt \in Nat \ {0} /\ PingPongHalt \in Nat \ {0} /\ HistorySize \in Nat \ {0}
    /\ Window \in Nat \ {0} /\ WindowAbort \in Nat \ {0}
  BY GuardAssumption DEF GuardAssumption

LEMMA ToolsAndPages ==
    ASSUME NEW c \in Call
    PROVE  ToolOf[c] \in Tool /\ (UrlOf[c] # NoUrl => UrlOf[c] \in Url)
  BY GuardAssumption DEF GuardAssumption, Tool, Url, Range

LEMMA MaxOfTwo ==
    ASSUME NEW a \in Int, NEW b \in Int
    PROVE  Max({a, b}) \in {a, b} /\ Max({a, b}) >= a /\ Max({a, b}) >= b
  BY DEF Max

LEMMA KeptIsNat == Kept \in Nat \ {0}
  <1>1. 4 \in Int /\ HistorySize \in Int
    BY LimitsAreNat
  <1>2. Max({4, HistorySize}) \in {4, HistorySize}
    BY <1>1, MaxOfTwo
  <1>3. QED
    BY <1>2, LimitsAreNat DEF Kept

\* Products of naturals, as far as they are needed.
LEMMA OneMore ==
    ASSUME NEW n \in Nat, NEW k \in Nat
    PROVE  n * k \in Nat /\ (n + 1) * k = n * k + k
  OBVIOUS

LEMMA NoLess ==
    ASSUME NEW m \in Nat, NEW n \in Nat, NEW k \in Nat, m = n \/ m = n + 1
    PROVE  n * k <= m * k
  BY OneMore

LEMMA BatchIsSequence ==
    ASSUME NEW s \in Batch
    PROVE  s \in Seq(Call) /\ Len(s) <= MaxBatch
  <1>1. PICK n \in 0..MaxBatch : s \in [1..n -> Call]
    BY DEF Batch
  <1>2. QED
    BY <1>1, LimitsAreNat

LEMMA Rolled ==
    ASSUME NEW S, NEW h \in Seq(S), NEW x \in S, NEW k \in Nat \ {0}, Len(h) <= k
    PROVE  LET r == IF Len(Append(h, x)) > k THEN Tail(Append(h, x)) ELSE Append(h, x)
           IN  r \in Seq(S) /\ Len(r) <= k
  OBVIOUS

-----------------------------------------------------------------------------
\* The counters after a result

LEMMA FetchedType ==
    ASSUME NEW c \in Call, NEW counts \in [Url -> Nat]
    PROVE  Fetched(c, counts) \in [Url -> Nat]
  BY ToolsAndPages DEF Fetched

LEMMA FetchedPage ==
    ASSUME NEW c \in Call, NEW counts \in [Url -> Nat], NEW u \in Url
    PROVE  Fetched(c, counts)[u] = IF UrlOf[c] = u THEN counts[u] + 1 ELSE counts[u]
  BY DEF Fetched, Url

\* Updates of the record of the counters, whatever the types of its fields.
LEMMA RecordOfCounters ==
    ASSUME NEW E, NEW S, NEW R, NEW U, NEW N, NEW K, NEW M, NEW H,
           NEW g \in [exact : E, same : S, repeat : R, urls : U, unknown : N,
                      streak : K, seen : M, history : H],
           NEW e \in E, NEW s \in S, NEW r \in R, NEW u \in U, NEW n \in N,
           NEW k \in K, NEW m \in M, NEW h \in H
    PROVE  LET a == [g EXCEPT !.unknown = n, !.exact = e, !.same = s, !.repeat = r, !.urls = u]
               b == [g EXCEPT !.unknown = n]
               d == [g EXCEPT !.history = h, !.streak = k, !.seen = m]
           IN  /\ a \in [exact : E, same : S, repeat : R, urls : U, unknown : N,
                          streak : K, seen : M, history : H]
               /\ a.streak = g.streak /\ a.seen = g.seen /\ a.history = g.history /\ a.urls = u
               /\ b \in [exact : E, same : S, repeat : R, urls : U, unknown : N,
                          streak : K, seen : M, history : H]
               /\ b.streak = g.streak /\ b.seen = g.seen /\ b.history = g.history
               /\ b.urls = g.urls
               /\ d \in [exact : E, same : S, repeat : R, urls : U, unknown : N,
                          streak : K, seen : M, history : H]
               /\ d.streak = k /\ d.seen = m /\ d.history = h /\ d.urls = g.urls
  OBVIOUS

LEMMA FieldsOfCounters ==
    ASSUME NEW g \in Counters
    PROVE  /\ g.exact \in [Call -> Nat] /\ g.same \in [Tool -> Nat]
           /\ g.repeat \in [Call -> Repeat] /\ g.urls \in [Url -> Nat] /\ g.unknown \in Nat
           /\ g.streak \in Nat /\ g.seen \subseteq Triple /\ g.history \in Seq(Triple)
  BY DEF Counters

\* The three updates, by name.
TallyOf(g, n, e, s, r, u) ==
    [g EXCEPT !.unknown = n, !.exact = e, !.same = s, !.repeat = r, !.urls = u]
UnknownOf(g, n) == [g EXCEPT !.unknown = n]
MemoryOf(g, h, k, m) == [g EXCEPT !.history = h, !.streak = k, !.seen = m]

LEMMA Tally ==
    ASSUME NEW g \in Counters, NEW e \in [Call -> Nat], NEW s \in [Tool -> Nat],
           NEW r \in [Call -> Repeat], NEW u \in [Url -> Nat], NEW n \in Nat
    PROVE  LET a == TallyOf(g, n, e, s, r, u)
           IN  /\ a \in Counters /\ a.streak = g.streak /\ a.seen = g.seen
               /\ a.history = g.history /\ a.urls = u
  <1>1. g.streak \in Nat /\ g.seen \in SUBSET Triple /\ g.history \in Seq(Triple)
    BY FieldsOfCounters
  <1>2. QED
    BY <1>1, RecordOfCounters DEF Counters, TallyOf

LEMMA TallyUnknown ==
    ASSUME NEW g \in Counters, NEW n \in Nat
    PROVE  LET b == UnknownOf(g, n)
           IN  /\ b \in Counters /\ b.streak = g.streak /\ b.seen = g.seen
               /\ b.history = g.history /\ b.urls = g.urls
  <1>1. /\ g.exact \in [Call -> Nat] /\ g.same \in [Tool -> Nat]
        /\ g.repeat \in [Call -> Repeat] /\ g.urls \in [Url -> Nat]
        /\ g.streak \in Nat /\ g.seen \in SUBSET Triple /\ g.history \in Seq(Triple)
    BY FieldsOfCounters
  <1>2. QED
    BY <1>1, RecordOfCounters DEF Counters, UnknownOf

LEMMA Remember ==
    ASSUME NEW g \in Counters, NEW k \in Nat, NEW m \in SUBSET Triple, NEW h \in Seq(Triple)
    PROVE  LET d == MemoryOf(g, h, k, m)
           IN  /\ d \in Counters /\ d.streak = k /\ d.seen = m
               /\ d.history = h /\ d.urls = g.urls
  <1>1. /\ g.exact \in [Call -> Nat] /\ g.same \in [Tool -> Nat]
        /\ g.repeat \in [Call -> Repeat] /\ g.urls \in [Url -> Nat] /\ g.unknown \in Nat
    BY FieldsOfCounters
  <1>2. QED
    BY <1>1, RecordOfCounters DEF Counters, MemoryOf

LEMMA TalliedShape ==
    ASSUME GuardTypeOK, NEW c \in Call, NEW o \in Outcome \cup {Unknown}
    PROVE  /\ Tallied(c, o) \in Counters
           /\ Tallied(c, o).streak = guard.streak
           /\ Tallied(c, o).seen = guard.seen
           /\ Tallied(c, o).history = guard.history
           /\ Tallied(c, o).urls = IF o = Unknown THEN guard.urls ELSE Fetched(c, guard.urls)
  <1> DEFINE exact == [guard.exact EXCEPT ![c] = IF Fails(o) THEN @ + 1 ELSE 0]
             same == [guard.same EXCEPT ![ToolOf[c]] = IF Fails(o) THEN @ + 1 ELSE 0]
             last == IF Fails(o) \/ ToolOf[c] \notin Idempotent THEN NoRepeat
                     ELSE [of |-> o, times |-> Again(c, o)]
             repeat == [guard.repeat EXCEPT ![c] = last]
             urls == Fetched(c, guard.urls)
  <1>1. /\ guard \in Counters /\ guard.exact \in [Call -> Nat] /\ guard.same \in [Tool -> Nat]
        /\ guard.repeat \in [Call -> Repeat] /\ guard.urls \in [Url -> Nat] /\ guard.unknown \in Nat
    BY DEF GuardTypeOK, Counters
  <1>2. CASE o = Unknown
    <2>1. Tallied(c, o) = UnknownOf(guard, guard.unknown + 1)
      BY <1>2 DEF Tallied, UnknownOf
    <2>2. QED
      <3>1. guard.unknown + 1 \in Nat
        BY <1>1
      <3> DEFINE b == UnknownOf(guard, guard.unknown + 1)
      <3>2. /\ b \in Counters /\ b.streak = guard.streak /\ b.seen = guard.seen
            /\ b.history = guard.history /\ b.urls = guard.urls
        BY <1>1, <3>1, TallyUnknown
      <3> HIDE DEF b
      <3>3. Tallied(c, o) = b
        BY <2>1 DEF b
      <3>4. QED
        BY <1>2, <3>2, <3>3
  <1>3. CASE o # Unknown
    <2>1. Tallied(c, o) = TallyOf(guard, 0, exact, same, repeat, urls)
      BY <1>1, <1>3 DEF Tallied, TallyOf, Counters
    <2>2. exact \in [Call -> Nat] /\ same \in [Tool -> Nat] /\ urls \in [Url -> Nat]
      BY <1>1, ToolsAndPages, FetchedType
    <2>3. last \in Repeat
      BY <1>1 DEF Again, Repeat, NoRepeat
    <2>4. repeat \in [Call -> Repeat]
      BY <1>1, <2>3
    <2> HIDE DEF exact, same, repeat, urls
    <2>5. /\ Tallied(c, o) \in Counters /\ Tallied(c, o).streak = guard.streak
          /\ Tallied(c, o).seen = guard.seen /\ Tallied(c, o).history = guard.history
          /\ Tallied(c, o).urls = urls
      <3>1. 0 \in Nat
        OBVIOUS
      <3> DEFINE a == TallyOf(guard, 0, exact, same, repeat, urls)
      <3>2. /\ a \in Counters /\ a.streak = guard.streak /\ a.seen = guard.seen
            /\ a.history = guard.history /\ a.urls = urls
        <4>1. guard \in Counters
          BY <1>1
        <4>2. QED
          BY <2>2, <2>4, <3>1, <4>1, Tally
      <3> HIDE DEF a
      <3>3. Tallied(c, o) = a
        BY <2>1 DEF a
      <3>4. QED
        BY <3>2, <3>3
    <2>6. QED
      BY <1>3, <2>5 DEF urls
  <1>4. QED
    BY <1>2, <1>3

LEMMA RememberedShape ==
    ASSUME GuardTypeOK, NEW c \in Call, NEW o \in Outcome \cup {Unknown}
    PROVE  LET g == Remembered(Tallied(c, o), c, o) IN
           /\ g \in Counters
           /\ Len(g.history) <= Kept
           /\ g.seen = guard.seen \cup {<<c, o>>}
           /\ \/ g.streak = guard.streak + 1
              \/ (g.streak = 0 /\ <<c, o>> \notin guard.seen)
           /\ g.urls = IF o = Unknown THEN guard.urls ELSE Fetched(c, guard.urls)
  <1> DEFINE t == Tallied(c, o)
             h == Append(t.history, <<c, o>>)
             r == IF Len(h) > Kept THEN Tail(h) ELSE h
             k == IF Progress(c, o) /\ <<c, o>> \notin t.seen THEN 0 ELSE t.streak + 1
             s == t.seen \cup {<<c, o>>}
  <1>1. /\ t \in Counters
        /\ t.streak = guard.streak /\ t.seen = guard.seen /\ t.history = guard.history
        /\ t.urls = IF o = Unknown THEN guard.urls ELSE Fetched(c, guard.urls)
    BY TalliedShape
  <1>2. <<c, o>> \in Triple
    BY DEF Triple
  <1>3. t.history \in Seq(Triple) /\ Len(t.history) <= Kept /\ t.seen \subseteq Triple
    BY <1>1 DEF GuardTypeOK, Counters
  <1>4. r \in Seq(Triple) /\ Len(r) <= Kept
    BY <1>2, <1>3, KeptIsNat, Rolled
  <1>5. Remembered(t, c, o) = MemoryOf(t, r, k, s)
    BY DEF Remembered, MemoryOf
  <1>6. t.streak \in Nat
    BY <1>1 DEF Counters
  <1>7. /\ k \in Nat
        /\ k = t.streak + 1 \/ (k = 0 /\ <<c, o>> \notin t.seen)
    BY <1>6
  <1>8. s \subseteq Triple /\ s = guard.seen \cup {<<c, o>>}
    BY <1>1, <1>2, <1>3
  <1> HIDE DEF t, r, k, s
  <1>9. QED
    <2> DEFINE g == Remembered(t, c, o)
    <2>1. g \in Counters
      BY <1>1, <1>4, <1>5, <1>7, <1>8, Remember
    <2>2. g.history = r /\ g.streak = k /\ g.seen = s /\ g.urls = t.urls
      BY <1>1, <1>4, <1>5, <1>7, <1>8, Remember
    <2> HIDE DEF g
    <2>3. /\ g \in Counters /\ Len(g.history) <= Kept /\ g.seen = guard.seen \cup {<<c, o>>}
          /\ g.streak = t.streak + 1 \/ (g.streak = 0 /\ <<c, o>> \notin guard.seen)
          /\ g.urls = IF o = Unknown THEN guard.urls ELSE Fetched(c, guard.urls)
      BY <1>1, <1>4, <1>7, <1>8, <2>1, <2>2
    <2>4. g.streak = guard.streak + 1 \/ (g.streak = 0 /\ <<c, o>> \notin guard.seen)
      BY <1>1, <2>3, Zenon
    <2>5. QED
      BY <2>3, <2>4, Zenon DEF g, t

-----------------------------------------------------------------------------
\* Types

LEMMA InitTypes == GuardInit => GuardTypeOK
  <1> SUFFICES ASSUME GuardInit PROVE GuardTypeOK
    OBVIOUS
  <1>1. NoRepeat \in Repeat
    BY DEF NoRepeat, Repeat
  <1>2. guard \in Counters
    BY <1>1 DEF GuardInit, Counters
  <1>3. guard.history = <<>> /\ window.made = <<>> /\ window.left = 0
    BY DEF GuardInit
  <1>4. QED
    <2>1. Len(guard.history) <= Kept
      BY <1>3, KeptIsNat
    <2>2. window \in [left : 0..Window, made : Seq(Triple)]
      BY LimitsAreNat DEF GuardInit
    <2>3. Len(window.made) + window.left <= Window
      BY <1>3, LimitsAreNat
    <2>4. queue \in Seq(Call) /\ Len(queue) <= MaxBatch
      BY LimitsAreNat DEF GuardInit
    <2>5. QED
      BY <1>2, <2>1, <2>2, <2>3, <2>4 DEF GuardInit, GuardTypeOK

LEMMA ScreenTypes ==
    ASSUME GuardTypeOK, NEW passed \in Batch, NEW refused \in BOOLEAN, Screen(passed, refused)
    PROVE  GuardTypeOK'
  BY BatchIsSequence DEF GuardTypeOK, Screen

LEMMA WatchedType ==
    ASSUME GuardTypeOK, NEW c \in Call, NEW o \in Outcome \cup {Unknown}
    PROVE  /\ Watched(c, o) \in [left : 0..Window, made : Seq(Triple)]
           /\ Len(Watched(c, o).made) + Watched(c, o).left <= Window
  <1>1. <<c, o>> \in Triple
    BY DEF Triple
  <1>2. QED
    BY <1>1, LimitsAreNat DEF Watched, GuardTypeOK

LEMMA ObserveTypes ==
    ASSUME GuardTypeOK, NEW o \in Outcome \cup {Unknown}, Observe(o)
    PROVE  GuardTypeOK'
  <1> DEFINE c == Head(queue)
  <1>1. c \in Call /\ Tail(queue) \in Seq(Call) /\ Len(Tail(queue)) = Len(queue) - 1
    BY DEF Observe, GuardTypeOK
  <1>2. /\ guard' = Remembered(Tallied(c, o), c, o) /\ window' = Watched(c, o)
        /\ queue' = Tail(queue) /\ halted' \in BOOLEAN /\ ran' = ran + 1
        /\ fetched' = IF o = Unknown THEN fetched ELSE Fetched(c, fetched)
    BY DEF Observe, GuardTypeOK
  <1> HIDE DEF c
  <1>3. fetched' \in [Url -> Nat]
    BY <1>1, <1>2, FetchedType DEF GuardTypeOK
  <1>4. QED
    <2>1. guard' \in Counters /\ Len(guard'.history) <= Kept
      BY <1>1, <1>2, RememberedShape
    <2>2. window' \in [left : 0..Window, made : Seq(Triple)]
          /\ Len(window'.made) + window'.left <= Window
      BY <1>1, <1>2, WatchedType
    <2>3. QED
      BY <1>1, <1>2, <1>3, <2>1, <2>2, LimitsAreNat DEF GuardTypeOK

LEMMA CheckpointTypes == GuardTypeOK /\ Checkpoint => GuardTypeOK'
  BY LimitsAreNat DEF GuardTypeOK, Checkpoint

LEMMA StepTypes == GuardTypeOK /\ [GuardNext]_guardVars => GuardTypeOK'
  <1> SUFFICES ASSUME GuardTypeOK, [GuardNext]_guardVars PROVE GuardTypeOK'
    OBVIOUS
  <1>1. CASE Calls
    BY <1>1, ScreenTypes DEF Calls
  <1>2. CASE Results
    BY <1>2, ObserveTypes DEF Results
  <1>3. CASE Checkpoint
    BY <1>3, CheckpointTypes
  <1>4. CASE UNCHANGED guardVars
    BY <1>4 DEF GuardTypeOK, guardVars
  <1>5. QED
    BY <1>1, <1>2, <1>3, <1>4 DEF GuardNext

\* The counters, the history of at most Kept results and the window of the guard
\* after a compaction keep their bounds through any calls and results.
THEOREM GuardTypes == GuardSpec => []GuardTypeOK
  <1>1. GuardInit => GuardTypeOK
    BY InitTypes
  <1>2. GuardTypeOK /\ [GuardNext]_guardVars => GuardTypeOK'
    BY StepTypes
  <1>3. QED
    BY <1>1, <1>2, PTL DEF GuardSpec

-----------------------------------------------------------------------------
\* Endless calling

Differing == Cardinality(guard.seen)

\* While nothing has stopped the turn the streak is short, and each outcome that
\* differs ended at most one streak.  Once it is stopped, what is left of its batch
\* runs and nothing else.
CallingInv ==
    /\ IsFiniteSet(guard.seen)
    /\ HardStop /\ ~halted =>
          guard.streak < StagnantHalt /\ ran <= Differing * StagnantHalt + guard.streak
    /\ HardStop /\ halted =>
          ran + Len(queue) <= (Differing + 1) * StagnantHalt + MaxBatch - 1

LEMMA InitCalling == GuardInit => CallingInv
  <1> SUFFICES ASSUME GuardInit PROVE CallingInv
    OBVIOUS
  <1>1. guard.seen = {} /\ guard.streak = 0 /\ ran = 0 /\ ~halted
    BY DEF GuardInit
  <1>2. IsFiniteSet({}) /\ Cardinality({}) = 0
    BY FS_EmptySet
  <1>3. QED
    BY <1>1, <1>2, LimitsAreNat DEF CallingInv, Differing

LEMMA ScreenCalling ==
    ASSUME GuardTypeOK, CallingInv, NEW passed \in Batch, NEW refused \in BOOLEAN,
           Screen(passed, refused)
    PROVE  CallingInv'
  <1>1. Differing \in Nat /\ Differing' = Differing
    BY FS_CardinalityType DEF CallingInv, Differing, Screen
  <1>2. /\ guard' = guard /\ ran' = ran /\ ~halted /\ halted' = refused /\ queue' = passed
        /\ refused => Len(passed) < MaxBatch
    BY DEF Screen
  <1>3. Len(passed) \in Nat
    BY BatchIsSequence
  <1>4. CASE ~refused
    BY <1>1, <1>2, <1>4 DEF CallingInv
  <1>5. CASE refused
    <2> SUFFICES ASSUME HardStop
                 PROVE  ran + Len(passed) <= (Differing + 1) * StagnantHalt + MaxBatch - 1
      BY <1>1, <1>2, <1>5 DEF CallingInv
    <2>1. ran <= Differing * StagnantHalt + StagnantHalt - 1
      BY <1>1, <1>2, LimitsAreNat, OneMore, FieldsOfCounters DEF CallingInv, GuardTypeOK
    <2>2. (Differing + 1) * StagnantHalt = Differing * StagnantHalt + StagnantHalt
      BY <1>1, LimitsAreNat, OneMore
    <2>3. Differing * StagnantHalt \in Nat
      BY <1>1, LimitsAreNat, OneMore
    <2> DEFINE d == Differing * StagnantHalt
    <2>4. ran <= d + StagnantHalt - 1 /\ (Differing + 1) * StagnantHalt = d + StagnantHalt
          /\ d \in Nat
      BY <2>1, <2>2, <2>3
    <2> HIDE DEF d
    <2>5. ran + Len(passed) <= d + StagnantHalt + MaxBatch - 1
      BY <1>2, <1>3, <1>5, <2>4, LimitsAreNat DEF GuardTypeOK
    <2>6. QED
      BY <2>4, <2>5
  <1>6. QED
    BY <1>4, <1>5

LEMMA ObserveCalling ==
    ASSUME GuardTypeOK, CallingInv, NEW o \in Outcome \cup {Unknown}, Observe(o)
    PROVE  CallingInv'
  <1> DEFINE c == Head(queue)
             g == Remembered(Tallied(c, o), c, o)
             n == Cardinality(g.seen)
  <1>1. c \in Call /\ Len(queue) \in Nat \ {0} /\ Len(queue') = Len(queue) - 1
    BY DEF Observe, GuardTypeOK
  <1>2. /\ guard' = g /\ ran' = ran + 1 /\ (halted => halted')
        /\ HardStop /\ ~halted' => ~(g.streak >= StagnantHalt)
    BY DEF Observe, Stops
  <1>3. /\ g.seen = guard.seen \cup {<<c, o>>} /\ g.streak \in Nat
        /\ \/ g.streak = guard.streak + 1
           \/ (g.streak = 0 /\ <<c, o>> \notin guard.seen)
    <2> HIDE DEF c
    <2>1. QED
      <3>1. g.seen = guard.seen \cup {<<c, o>>} /\ g \in Counters
        BY <1>1, RememberedShape
      <3>2. g.streak = guard.streak + 1 \/ (g.streak = 0 /\ <<c, o>> \notin guard.seen)
        BY <1>1, RememberedShape, Zenon
      <3>3. g.streak \in Nat
        BY <3>1, FieldsOfCounters
      <3>4. QED
        BY <3>1, <3>2, <3>3
  <1> HIDE DEF c, g
  <1>4. /\ IsFiniteSet(g.seen) /\ Differing \in Nat
        /\ n = Differing \/ n = Differing + 1
        /\ <<c, o>> \notin guard.seen => n = Differing + 1
    <2>1. IsFiniteSet(guard.seen) /\ Differing \in Nat
      BY FS_CardinalityType DEF CallingInv, Differing
    <2>2. /\ IsFiniteSet(guard.seen \cup {<<c, o>>})
          /\ Cardinality(guard.seen \cup {<<c, o>>}) =
                IF <<c, o>> \in guard.seen THEN Differing ELSE Differing + 1
      BY <2>1, FS_AddElement DEF Differing
    <2>3. QED
      BY <1>3, <2>1, <2>2
  <1>5. Differing' = n
    BY <1>2 DEF Differing
  <1> HIDE DEF n
  <1>6. /\ Differing * StagnantHalt \in Nat /\ n * StagnantHalt \in Nat
        /\ Differing * StagnantHalt <= n * StagnantHalt
        /\ (Differing + 1) * StagnantHalt = Differing * StagnantHalt + StagnantHalt
        /\ (n + 1) * StagnantHalt = n * StagnantHalt + StagnantHalt
        /\ n = Differing + 1 => n * StagnantHalt = Differing * StagnantHalt + StagnantHalt
    BY <1>4, LimitsAreNat, OneMore, NoLess
  <1> DEFINE d == Differing * StagnantHalt
             e == n * StagnantHalt
  <1>7. /\ HardStop /\ ~halted => guard.streak < StagnantHalt /\ ran <= d + guard.streak
        /\ HardStop /\ halted => ran + Len(queue) <= d + StagnantHalt + MaxBatch - 1
    BY <1>6 DEF CallingInv
  <1>8. /\ d \in Nat /\ e \in Nat /\ d <= e
        /\ n = Differing + 1 => e = d + StagnantHalt
    BY <1>6
  <1> HIDE DEF d, e
  <1>9. /\ ran \in Nat /\ guard.streak \in Nat /\ StagnantHalt \in Nat \ {0}
        /\ MaxBatch \in Nat \ {0} /\ Len(queue) <= MaxBatch
    BY LimitsAreNat, FieldsOfCounters DEF GuardTypeOK
  <1>10. HardStop /\ ~halted' => g.streak < StagnantHalt /\ ran + 1 <= e + g.streak
    <2> SUFFICES ASSUME HardStop, ~halted'
                 PROVE  g.streak < StagnantHalt /\ ran + 1 <= e + g.streak
      OBVIOUS
    <2>1. ~halted /\ g.streak < StagnantHalt
      BY <1>2, <1>3, <1>9
    <2>2. guard.streak < StagnantHalt /\ ran <= d + guard.streak
      BY <1>7, <2>1
    <2>3. CASE g.streak = guard.streak + 1
      BY <1>8, <1>9, <2>1, <2>2, <2>3
    <2>4. CASE g.streak = 0 /\ n = Differing + 1
      BY <1>8, <1>9, <2>1, <2>2, <2>4
    <2>5. QED
      BY <1>3, <1>4, <2>3, <2>4
  <1>11. HardStop /\ halted' =>
            ran + 1 + (Len(queue) - 1) <= e + StagnantHalt + MaxBatch - 1
    BY <1>1, <1>2, <1>3, <1>7, <1>8, <1>9
  <1>12. QED
    BY <1>1, <1>2, <1>4, <1>5, <1>6, <1>10, <1>11 DEF CallingInv, e

LEMMA StepCalling == GuardTypeOK /\ CallingInv /\ [GuardNext]_guardVars => CallingInv'
  <1> SUFFICES ASSUME GuardTypeOK, CallingInv, [GuardNext]_guardVars PROVE CallingInv'
    OBVIOUS
  <1>1. CASE Calls
    BY <1>1, ScreenCalling DEF Calls
  <1>2. CASE Results
    BY <1>2, ObserveCalling DEF Results
  <1>3. CASE Checkpoint
    BY <1>3 DEF CallingInv, Differing, Checkpoint
  <1>4. CASE UNCHANGED guardVars
    BY <1>4 DEF CallingInv, Differing, guardVars
  <1>5. QED
    BY <1>1, <1>2, <1>3, <1>4 DEF GuardNext

LEMMA CallingIsBounded == GuardTypeOK /\ CallingInv => EndlessCallingIsStopped
  <1> SUFFICES ASSUME GuardTypeOK, CallingInv, HardStop
               PROVE  ran <= (Differing + 1) * StagnantHalt + MaxBatch - 1
    BY DEF EndlessCallingIsStopped, Differing
  <1>1. Differing \in Nat
    BY FS_CardinalityType DEF CallingInv, Differing
  <1>2. /\ Differing * StagnantHalt \in Nat
        /\ (Differing + 1) * StagnantHalt = Differing * StagnantHalt + StagnantHalt
    BY <1>1, LimitsAreNat, OneMore
  <1>3. ran \in Nat /\ Len(queue) \in Nat /\ guard.streak \in Nat
    BY FieldsOfCounters DEF GuardTypeOK
  <1>4. QED
    BY <1>2, <1>3, LimitsAreNat DEF CallingInv, GuardTypeOK

\* Whatever the model calls, a turn is stopped after a number of results that those
\* of them which differ bound.
THEOREM CallingIsStopped == GuardSpec => []EndlessCallingIsStopped
  <1>1. GuardInit => GuardTypeOK /\ CallingInv
    BY InitTypes, InitCalling
  <1>2. GuardTypeOK /\ CallingInv /\ [GuardNext]_guardVars => (GuardTypeOK /\ CallingInv)'
    BY StepTypes, StepCalling
  <1>3. GuardTypeOK /\ CallingInv => EndlessCallingIsStopped
    BY CallingIsBounded
  <1>4. QED
    BY <1>1, <1>2, <1>3, PTL DEF GuardSpec

-----------------------------------------------------------------------------
\* One page

\* The guard counts each fetch, and stops the turn at the last that it allows.
PageInv ==
    /\ fetched = guard.urls
    /\ HardStop => \A u \in Url :
          IF halted THEN fetched[u] + Len(queue) <= UrlBlock + MaxBatch - 1
                    ELSE fetched[u] < UrlBlock

LEMMA InitPage == GuardInit => PageInv
  BY LimitsAreNat DEF GuardInit, PageInv

LEMMA ScreenPage ==
    ASSUME GuardTypeOK, PageInv, NEW passed \in Batch, NEW refused \in BOOLEAN,
           Screen(passed, refused)
    PROVE  PageInv'
  <1>1. /\ guard' = guard /\ fetched' = fetched /\ ~halted /\ halted' = refused
        /\ queue' = passed
        /\ refused => Len(passed) < MaxBatch
    BY DEF Screen
  <1>2. Len(passed) \in Nat /\ \A u \in Url : fetched[u] \in Nat
    BY BatchIsSequence DEF GuardTypeOK
  <1>3. QED
    <2>1. CASE refused
      <3>1. \A u \in Url : HardStop => fetched[u] < UrlBlock
        BY <1>1 DEF PageInv
      <3>2. \A u \in Url : HardStop => fetched[u] + Len(passed) <= UrlBlock + MaxBatch - 1
        BY <1>1, <1>2, <2>1, <3>1, LimitsAreNat
      <3>3. QED
        BY <1>1, <2>1, <3>2 DEF PageInv
    <2>2. CASE ~refused
      BY <1>1, <1>2, <2>2, LimitsAreNat DEF PageInv
    <2>3. QED
      BY <2>1, <2>2

LEMMA ObservePage ==
    ASSUME GuardTypeOK, PageInv, NEW o \in Outcome \cup {Unknown}, Observe(o)
    PROVE  PageInv'
  <1> DEFINE c == Head(queue)
             g == Remembered(Tallied(c, o), c, o)
  <1>1. c \in Call /\ Len(queue) \in Nat \ {0} /\ Len(queue') = Len(queue) - 1
    BY DEF Observe, GuardTypeOK
  <1>2. /\ guard' = g /\ fetched' = (IF o = Unknown THEN fetched ELSE Fetched(c, fetched))
        /\ halted => halted'
        /\ HardStop /\ ~halted' /\ o # Unknown /\ UrlOf[c] # NoUrl => ~(g.urls[UrlOf[c]] >= UrlBlock)
    BY DEF Observe, Stops
  <1>3. g.urls = IF o = Unknown THEN guard.urls ELSE Fetched(c, guard.urls)
    <2> HIDE DEF c
    <2>1. QED
      BY <1>1, RememberedShape
  <1> HIDE DEF c, g
  <1>4. guard'.urls = fetched' /\ fetched' \in [Url -> Nat]
    BY <1>1, <1>2, <1>3, FetchedType DEF PageInv, GuardTypeOK
  <1>5. ASSUME HardStop, NEW u \in Url
        PROVE  IF halted' THEN fetched'[u] + Len(queue') <= UrlBlock + MaxBatch - 1
                          ELSE fetched'[u] < UrlBlock
    <2>1. \/ fetched'[u] = fetched[u]
          \/ fetched'[u] = fetched[u] + 1 /\ o # Unknown /\ UrlOf[c] = u
      <3>1. fetched \in [Url -> Nat]
        BY DEF GuardTypeOK
      <3>2. o # Unknown => fetched'[u] = IF UrlOf[c] = u THEN fetched[u] + 1 ELSE fetched[u]
        BY <1>1, <1>2, <3>1, FetchedPage
      <3>3. QED
        BY <1>2, <3>2
    <2>2. u # NoUrl /\ fetched[u] \in Nat /\ fetched'[u] \in Nat
      BY <1>4 DEF Url, GuardTypeOK
    <2>3. Len(queue) <= MaxBatch /\ MaxBatch \in Nat \ {0} /\ UrlBlock \in Nat \ {0}
      BY LimitsAreNat DEF GuardTypeOK
    <2>4. CASE halted'
      BY <1>1, <1>5, <2>1, <2>2, <2>3, <2>4 DEF PageInv
    <2>5. CASE ~halted'
      <3>1. ~halted /\ fetched[u] < UrlBlock
        BY <1>2, <1>5, <2>5 DEF PageInv
      <3>2. fetched'[u] = fetched[u] + 1 => ~(fetched'[u] >= UrlBlock)
        BY <1>2, <1>4, <1>5, <2>1, <2>2, <2>5, <3>1
      <3>3. QED
        BY <2>1, <2>2, <2>3, <2>5, <3>1, <3>2
    <2>6. QED
      BY <2>4, <2>5
  <1>6. QED
    BY <1>4, <1>5 DEF PageInv

LEMMA StepPage == GuardTypeOK /\ PageInv /\ [GuardNext]_guardVars => PageInv'
  <1> SUFFICES ASSUME GuardTypeOK, PageInv, [GuardNext]_guardVars PROVE PageInv'
    OBVIOUS
  <1>1. CASE Calls
    BY <1>1, ScreenPage DEF Calls
  <1>2. CASE Results
    BY <1>2, ObservePage DEF Results
  <1>3. CASE Checkpoint
    BY <1>3 DEF PageInv, Checkpoint
  <1>4. CASE UNCHANGED guardVars
    BY <1>4 DEF PageInv, guardVars
  <1>5. QED
    BY <1>1, <1>2, <1>3, <1>4 DEF GuardNext

\* A page is fetched no more often than its limit and one batch allow.
THEOREM PagesAreNotRefetched == GuardSpec => []PageIsNotRefetched
  <1>1. GuardInit => GuardTypeOK /\ PageInv
    BY InitTypes, InitPage
  <1>2. GuardTypeOK /\ PageInv /\ [GuardNext]_guardVars => (GuardTypeOK /\ PageInv)'
    BY StepTypes, StepPage
  <1>3. GuardTypeOK /\ PageInv => PageIsNotRefetched
    <2> SUFFICES ASSUME GuardTypeOK, PageInv, HardStop, NEW u \in Url
                 PROVE  fetched[u] <= UrlBlock + MaxBatch - 1
      BY DEF PageIsNotRefetched
    <2>1. fetched[u] \in Nat /\ Len(queue) \in Nat
      BY DEF GuardTypeOK
    <2>2. QED
      BY <2>1, LimitsAreNat DEF PageInv
  <1>4. QED
    BY <1>1, <1>2, <1>3, PTL DEF GuardSpec

-----------------------------------------------------------------------------
\* The design of a turn

FileSet ==
    [mode : Mode \cup {"none"}, escalate : BOOLEAN, approved : BOOLEAN,
     clarify : BOOLEAN, task : Task \cup {NoTask}, passed : 0..Goals,
     text : Text, json : Json]

TurnSet ==
    [pc : Pc, ask : Task \cup {NoTask}, agent : Mode, full : BOOLEAN,
     fresh : BOOLEAN, build : BOOLEAN, sparse : BOOLEAN,
     depth : {"none", "light", "full"}, round : 0..MaxRounds,
     yes : BOOLEAN, built : Text, kept : BOOLEAN, status : Status]

LEMMA DesignType ==
    DesignTypeOK <=> /\ files \in FileSet /\ turn \in TurnSet
                     /\ turns \in 0..MaxTurns /\ granted \in BOOLEAN
  BY DEF DesignTypeOK, FileSet, TurnSet

Designed == {"designed", "asking", "acting"}

\* What a human has granted, and what of the plan.
PlanInv ==
    /\ files.approved \/ turn.build => granted
    /\ turn.pc = "asking" => files.text = "current"
    /\ turn.yes => turn.pc = "acting" /\ turn.built = "current"
    /\ turn.pc = "acting" /\ turn.agent = "plan" => granted

\* Goals that passed before a turn are those of its own ask.
GoalInv ==
    /\ turn.kept => turn.full
    /\ turn.pc = "entered" => ~turn.kept
    /\ turn.pc \in Designed \cup {"looping"} /\ turn.kept => files.task = turn.ask
    /\ turn.pc \in Designed /\ files.passed > 0 => turn.kept

DesignInv == DesignTypeOK /\ PlanInv /\ GoalInv

LEMMA NoTurnType == NoTurn \in TurnSet
  BY DesignAssumption DEF NoTurn, TurnSet, Pc, Mode, Text, Status

LEMMA EndedType ==
    ASSUME NEW status \in Status
    PROVE  /\ Ended(status) \in TurnSet /\ Ended(status).pc = "ended"
           /\ ~Ended(status).build /\ ~Ended(status).yes /\ ~Ended(status).kept
  BY NoTurnType DEF Ended, NoTurn, TurnSet, Pc

LEMMA InitDesign == DesignInit => DesignInv
<1> SUFFICES ASSUME DesignInit PROVE DesignInv
    OBVIOUS
<1>1. files \in FileSet
    BY DesignAssumption DEF DesignInit, FileSet, Text, Json
<1>2. turns \in 0..MaxTurns /\ granted \in BOOLEAN /\ turn \in TurnSet
    <2>1. 0 \in 0..MaxTurns
        BY DesignAssumption
    <2> QED BY <2>1, NoTurnType DEF DesignInit
<1>3. DesignTypeOK
    BY <1>1, <1>2, DesignType
<1> QED BY <1>3 DEF DesignInit, DesignInv, PlanInv, GoalInv, NoTurn, Designed

\* A turn that ends leaves at most less of what a human granted.
LEMMA EndDesign ==
    ASSUME DesignInv, NEW status \in Status, turn' = Ended(status), files' \in FileSet,
           files'.approved => files.approved, UNCHANGED <<turns, granted>>
    PROVE  DesignInv'
<1>1. DesignTypeOK'
    BY EndedType, DesignType DEF DesignInv, DesignTypeOK, FileSet, TurnSet
<1> QED BY <1>1, EndedType DEF DesignInv, PlanInv, GoalInv, Designed

\* A turn goes on.
LEMMA GoesDesign ==
    ASSUME DesignInv, NEW t \in TurnSet, NEW f \in FileSet, turn' = t, files' = f,
           granted' \in BOOLEAN, granted => granted', turns' \in 0..MaxTurns,
           t.build => granted', t.kept => t.full,
           f.approved => granted', t.pc = "asking" => f.text = "current",
           t.yes => t.pc = "acting" /\ t.built = "current",
           t.pc = "acting" /\ t.agent = "plan" => granted',
           t.pc = "entered" => ~t.kept,
           t.pc \in Designed \cup {"looping"} /\ t.kept => f.task = t.ask,
           t.pc \in Designed /\ f.passed > 0 => t.kept
    PROVE  DesignInv'
<1>1. DesignTypeOK'
    BY DesignType DEF DesignInv, DesignTypeOK, FileSet, TurnSet
<1> QED BY <1>1 DEF DesignInv, PlanInv, GoalInv

LEMMA DesignTypes ==
    ASSUME DesignInv
    PROVE  /\ files \in FileSet /\ turn \in TurnSet
           /\ granted \in BOOLEAN /\ turns \in 0..MaxTurns
  BY DesignType DEF DesignInv

\* The plan on disk is what is approved and built.
LEMMA OnDiskType ==
    ASSUME DesignInv
    PROVE  /\ OnDisk \in FileSet /\ OnDisk.approved /\ OnDisk.text = files.text
           /\ OnDisk.task = files.task /\ OnDisk.passed = files.passed
  BY DesignTypes DEF OnDisk, FileSet, Json

LEMMA ProceedDesign == ASSUME DesignInv, Proceed PROVE DesignInv'
<1>1. files \in FileSet /\ turn \in TurnSet /\ granted \in BOOLEAN /\ turns \in 0..MaxTurns
    BY DesignTypes
<1>2. CASE turn.agent = "plan"
    <2>1. files' = OnDisk /\ turn' = [turn EXCEPT !.pc = "acting", !.built = OnDisk.text]
        BY <1>2 DEF Proceed, Build
    <2>2. PICK t : t = [turn EXCEPT !.pc = "acting", !.built = OnDisk.text]
        OBVIOUS
    <2>3. OnDisk.text \in Text
        BY <1>1, OnDiskType DEF FileSet
    <2>4. /\ t \in TurnSet /\ t.pc = "acting" /\ t.build = turn.build /\ t.kept = turn.kept
          /\ t.full = turn.full /\ t.yes = turn.yes /\ t.ask = turn.ask
        BY <1>1, <2>2, <2>3 DEF TurnSet, Pc
    <2>5. turn.pc = "designed" /\ granted /\ UNCHANGED <<turns, granted>>
        BY <1>2 DEF Proceed, Gated, DesignInv, PlanInv
    <2>6. ~turn.yes
        BY <2>5 DEF DesignInv, PlanInv
    <2>7. GoalInv
        BY DEF DesignInv
    <2> QED BY <1>1, <2>1, <2>2, <2>4, <2>5, <2>6, <2>7, OnDiskType, GoesDesign DEF GoalInv, Designed
<1>3. CASE turn.agent # "plan"
    <2>1. turn' = [turn EXCEPT !.pc = "acting"] /\ turn.pc = "designed" /\ UNCHANGED <<files, turns, granted>>
        BY <1>3 DEF Proceed
    <2>2. turn' \in TurnSet
        BY <1>1, <2>1 DEF TurnSet, Pc
    <2>3. /\ turn'.pc = "acting" /\ turn'.build = turn.build /\ turn'.kept = turn.kept
          /\ turn'.full = turn.full /\ turn'.yes = turn.yes /\ turn'.ask = turn.ask
          /\ turn'.agent = turn.agent
        BY <1>1, <2>1 DEF TurnSet
    <2> QED BY <1>1, <1>3, <2>1, <2>2, <2>3, GoesDesign DEF DesignInv, PlanInv, GoalInv, Designed
<1> QED BY <1>2, <1>3

LEMMA AskDesign == ASSUME DesignInv, AskBuild PROVE DesignInv'
<1>1. files \in FileSet /\ turn \in TurnSet /\ granted \in BOOLEAN /\ turns \in 0..MaxTurns
    BY DesignTypes
<1>2. PICK t, f : t = [turn EXCEPT !.pc = "asking", !.round = 1] /\ f = [files EXCEPT !.text = "current"]
    OBVIOUS
<1>3. 1 \in 0..MaxRounds
    BY DesignAssumption
<1>6. t \in TurnSet
    BY <1>1, <1>2, <1>3 DEF TurnSet, Pc
<1>7. /\ t.pc = "asking" /\ t.build = turn.build /\ t.kept = turn.kept
      /\ t.full = turn.full /\ t.yes = turn.yes /\ t.ask = turn.ask
    BY <1>1, <1>2 DEF TurnSet
<1>4. /\ f \in FileSet /\ f.text = "current" /\ f.task = files.task /\ f.passed = files.passed
      /\ f.approved = files.approved
    BY <1>1, <1>2 DEF FileSet, Text
<1>5. turn' = t /\ files' = f /\ UNCHANGED <<turns, granted>> /\ turn.pc = "designed"
    BY <1>2 DEF AskBuild
<1> QED BY <1>1, <1>4, <1>5, <1>6, <1>7, GoesDesign DEF DesignInv, PlanInv, GoalInv, Designed

LEMMA ApproveDesign == ASSUME DesignInv, Approve PROVE DesignInv'
<1>1. files \in FileSet /\ turn \in TurnSet /\ granted \in BOOLEAN /\ turns \in 0..MaxTurns
    BY DesignTypes
<1>2. PICK t : t = [turn EXCEPT !.pc = "acting", !.yes = TRUE, !.built = OnDisk.text]
    OBVIOUS
<1>3. OnDisk.text \in Text
    BY <1>1, OnDiskType DEF FileSet
<1>4. /\ t \in TurnSet /\ t.pc = "acting" /\ t.build = turn.build /\ t.kept = turn.kept
      /\ t.full = turn.full /\ t.ask = turn.ask /\ t.built = OnDisk.text
    BY <1>1, <1>2, <1>3 DEF TurnSet, Pc
<1>5. turn' = t /\ files' = OnDisk /\ granted' = TRUE /\ UNCHANGED turns /\ turn.pc = "asking"
    BY <1>2 DEF Approve
<1>6. OnDisk.text = "current"
    BY <1>5, OnDiskType DEF DesignInv, PlanInv
<1> QED BY <1>1, <1>4, <1>5, <1>6, OnDiskType, GoesDesign DEF DesignInv, GoalInv, Designed

LEMMA SuggestDesign == ASSUME DesignInv, Suggest PROVE DesignInv'
<1>1. files \in FileSet /\ turn \in TurnSet /\ granted \in BOOLEAN /\ turns \in 0..MaxTurns
    BY DesignTypes
<1>2. PICK t, f : /\ t = [turn EXCEPT !.round = @ + 1]
                  /\ f = [files EXCEPT !.text = "current", !.json = "behind"]
    OBVIOUS
<1>3. turn' = t /\ files' = f /\ UNCHANGED <<turns, granted>> /\ turn.pc = "asking" /\ turn.round < MaxRounds
    BY <1>2 DEF Suggest
<1>4. /\ t \in TurnSet /\ t.pc = "asking" /\ t.build = turn.build /\ t.kept = turn.kept
      /\ t.full = turn.full /\ t.yes = turn.yes /\ t.ask = turn.ask
    BY <1>1, <1>2, <1>3, DesignAssumption DEF TurnSet
<1>5. /\ f \in FileSet /\ f.text = "current" /\ f.task = files.task /\ f.passed = files.passed
      /\ f.approved = files.approved
    BY <1>1, <1>2 DEF FileSet, Text, Json
<1> QED BY <1>1, <1>3, <1>4, <1>5, GoesDesign DEF DesignInv, PlanInv, GoalInv, Designed

LEMMA DenyDesign == ASSUME DesignInv, Deny PROVE DesignInv'
<1>1. files \in FileSet
    BY DesignTypes
<1>2. files' = [files EXCEPT !.approved = FALSE] /\ turn' = Ended("awaiting_plan_approval")
      /\ UNCHANGED <<turns, granted>>
    BY DEF Deny
<1>3. files' \in FileSet /\ ~files'.approved
    BY <1>1, <1>2 DEF FileSet
<1> QED BY <1>2, <1>3, EndDesign DEF Status

\* What concerns the plan.md and the next message only.
LEMMA FilesDesign ==
    ASSUME DesignInv, NEW f \in FileSet, files' = f, UNCHANGED <<turn, turns, granted>>,
           f.approved = files.approved, f.task = files.task, f.passed = files.passed,
           f.text \in {files.text, "current"}
    PROVE  DesignInv'
<1>1. turn \in TurnSet /\ granted \in BOOLEAN /\ turns \in 0..MaxTurns
    BY DesignTypes
<1> QED BY <1>1, GoesDesign DEF DesignInv, PlanInv, GoalInv

LEMMA SaveDesignDesign == ASSUME DesignInv, SaveDesign PROVE DesignInv'
<1>1. files \in FileSet
    BY DesignTypes
<1>2. PICK f : f = [files EXCEPT !.text = "current", !.json = IF @ = "same" THEN "behind" ELSE @]
    OBVIOUS
<1>3. /\ f \in FileSet /\ f.text = "current" /\ f.task = files.task /\ f.passed = files.passed
      /\ f.approved = files.approved
    BY <1>1, <1>2 DEF FileSet, Text, Json
<1> QED BY <1>2, <1>3, FilesDesign DEF SaveDesign

LEMMA SwitchDesign == ASSUME DesignInv, NEW mode \in Mode, SwitchMode(mode) PROVE DesignInv'
<1>1. files \in FileSet
    BY DesignTypes
<1>2. PICK f : f = [files EXCEPT !.mode = IF mode = "normal" THEN "none" ELSE mode]
    OBVIOUS
<1>3. /\ f \in FileSet /\ f.text = files.text /\ f.task = files.task /\ f.passed = files.passed
      /\ f.approved = files.approved
    BY <1>1, <1>2 DEF FileSet
<1> QED BY <1>2, <1>3, FilesDesign DEF SwitchMode

LEMMA UnreadyDesign == ASSUME DesignInv, Unready PROVE DesignInv'
  BY DesignTypes, EndDesign DEF Unready, Status

LEMMA ClarifyDesign == ASSUME DesignInv, Clarify PROVE DesignInv'
<1>1. files \in FileSet
    BY DesignTypes
<1>2. files' = [files EXCEPT !.clarify = TRUE] /\ turn' = Ended("awaiting_clarify")
      /\ UNCHANGED <<turns, granted>>
    BY DEF Clarify
<1>3. files' \in FileSet /\ files'.approved = files.approved
    BY <1>1, <1>2 DEF FileSet
<1> QED BY <1>2, <1>3, EndDesign DEF Status

LEMMA NewGoalsType ==
    ASSUME DesignInv, NEW json \in Json
    PROVE  /\ NewGoals(files, json) \in FileSet /\ NewGoals(files, json).task = turn.ask
           /\ NewGoals(files, json).passed = 0 /\ NewGoals(files, json).approved = files.approved
<1>1. files \in FileSet /\ 0 \in 0..Goals /\ turn.ask \in Task \cup {NoTask}
    BY DesignTypes, DesignAssumption DEF TurnSet
<1> QED BY <1>1 DEF NewGoals, FileSet

LEMMA FollowupDesign == ASSUME DesignInv, StartFollowup PROVE DesignInv'
<1>1. turn \in TurnSet /\ granted \in BOOLEAN /\ turns \in 0..MaxTurns
    BY DesignTypes
<1>2. PICK t, f : t = [turn EXCEPT !.pc = "designed", !.fresh = TRUE] /\ f = NewGoals(files, "stub")
    OBVIOUS
<1>3. t \in TurnSet
    BY <1>1, <1>2 DEF TurnSet, Pc
<1>4. /\ t.pc = "designed" /\ t.build = turn.build /\ t.kept = turn.kept /\ t.full = turn.full
      /\ t.yes = turn.yes /\ t.ask = turn.ask
    BY <1>1, <1>2 DEF TurnSet
<1>5. f \in FileSet /\ f.task = turn.ask /\ f.passed = 0 /\ f.approved = files.approved
    BY <1>2, NewGoalsType DEF Json
<1>6. turn' = t /\ files' = f /\ UNCHANGED <<turns, granted>> /\ turn.pc = "entered"
    BY <1>2 DEF StartFollowup
<1> QED BY <1>1, <1>3, <1>4, <1>5, <1>6, GoesDesign DEF DesignInv, PlanInv, GoalInv, Designed

LEMMA RewrittenType ==
    ASSUME NEW f \in FileSet
    PROVE  /\ Rewritten(f) \in FileSet /\ Rewritten(f).task = f.task
           /\ Rewritten(f).passed = f.passed /\ Rewritten(f).approved = f.approved
<1>1. PICK text \in Text : text = CASE f.json = "same"   -> f.text
                                    [] f.json = "behind" -> "superseded"
                                    [] OTHER             -> "drafted"
    BY DEF FileSet, Text
<1>2. PICK json \in Json : json = IF f.json = "stub" THEN "stub" ELSE "same"
    BY DEF Json
<1>3. Rewritten(f) = [f EXCEPT !.text = text, !.json = json]
    BY <1>1, <1>2 DEF Rewritten, FileSet
<1> QED BY <1>3 DEF FileSet

LEMMA ResumedDesign == ASSUME DesignInv, StartResumed PROVE DesignInv'
<1>1. files \in FileSet /\ turn \in TurnSet /\ granted \in BOOLEAN /\ turns \in 0..MaxTurns
    BY DesignTypes
<1>2. PICK t : t = [turn EXCEPT !.pc = "designed", !.kept = files.passed > 0]
    OBVIOUS
<1>3. PICK kept \in BOOLEAN : kept = (files.passed > 0)
    <2>1. (files.passed > 0) \in BOOLEAN
        OBVIOUS
    <2> QED BY <2>1
<1>4. t = [turn EXCEPT !.pc = "designed", !.kept = kept]
    BY <1>2, <1>3
<1>5. t \in TurnSet
    BY <1>1, <1>4 DEF TurnSet, Pc
<1>6. /\ t.pc = "designed" /\ t.build = turn.build /\ t.kept = kept /\ t.full = turn.full
      /\ t.yes = turn.yes /\ t.ask = turn.ask
    BY <1>1, <1>4 DEF TurnSet
<1>7. /\ files' \in FileSet /\ files'.task = files.task /\ files'.passed = files.passed
      /\ files'.approved = files.approved
    BY <1>1, RewrittenType DEF StartResumed
<1>8. turn' = t /\ UNCHANGED <<turns, granted>> /\ turn.pc = "entered" /\ turn.full /\ files.task = turn.ask
    BY <1>2 DEF StartResumed, OtherAsk
<1> QED BY <1>1, <1>3, <1>5, <1>6, <1>7, <1>8, GoesDesign DEF DesignInv, PlanInv, GoalInv, Designed

LEMMA DesignDesign ==
    ASSUME DesignInv, NEW answered \in BOOLEAN, Design(answered) PROVE DesignInv'
<1>1. files \in FileSet /\ turn \in TurnSet /\ granted \in BOOLEAN /\ turns \in 0..MaxTurns
    BY DesignTypes
<1>2. PICK ask \in Task \cup {NoTask} : ask = IF answered THEN Clarified ELSE turn.ask
    BY <1>1 DEF Task, TurnSet
<1>3. PICK g : g = NewGoals(files, "unseen")
    OBVIOUS
<1>4. g \in FileSet /\ g.passed = 0 /\ g.approved = files.approved
    BY <1>3, NewGoalsType DEF Json
<1>5. PICK clarify \in BOOLEAN, json \in Json, text \in Text :
          /\ clarify = IF turn.agent = "plan" THEN FALSE ELSE g.clarify
          /\ json = IF turn.agent = "plan" THEN "same" ELSE "unseen"
          /\ text = IF turn.agent = "plan" THEN "drafted" ELSE g.text
    BY <1>4 DEF FileSet, Json, Text
<1>6. PICK f : f = [g EXCEPT !.task = ask, !.clarify = clarify, !.json = json, !.text = text]
    OBVIOUS
<1>7. f \in FileSet /\ f.passed = 0 /\ f.approved = files.approved /\ f.task = ask
    BY <1>4, <1>6 DEF FileSet
<1>8. PICK t : t = [turn EXCEPT !.pc = "designed", !.ask = ask, !.fresh = TRUE]
    OBVIOUS
<1>9. t \in TurnSet
    BY <1>1, <1>8 DEF TurnSet, Pc
<1>10. /\ t.pc = "designed" /\ t.build = turn.build /\ t.kept = turn.kept /\ t.full = turn.full
       /\ t.yes = turn.yes /\ t.ask = ask
    BY <1>1, <1>8 DEF TurnSet
<1>11. turn' = t /\ UNCHANGED <<turns, granted>> /\ turn.pc = "entered"
    BY <1>2, <1>8 DEF Design, Plans
<1>12. files' = f
    BY <1>2, <1>3, <1>4, <1>5, <1>6 DEF Design, FileSet
<1> QED BY <1>1, <1>7, <1>9, <1>10, <1>11, <1>12, GoesDesign DEF DesignInv, PlanInv, GoalInv, Designed

LEMMA AgentType ==
    ASSUME NEW m \in Message, NEW question \in BOOLEAN, DesignInv
    PROVE  Agent(m, question) \in Mode
<1>1. files \in FileSet
    BY DesignTypes
<1> QED BY <1>1 DEF Agent, Explicit, Message, FileSet, Mode

LEMMA EnterDesign ==
    ASSUME DesignInv, NEW m \in Messages, NEW question \in BOOLEAN, NEW heavy \in BOOLEAN,
           Enter(m, question, heavy)
    PROVE  DesignInv' /\ turn'.pc = "entered"
<1>1. files \in FileSet /\ turn \in TurnSet /\ granted \in BOOLEAN /\ turns \in 0..MaxTurns
    BY DesignTypes
<1>2. m \in Message /\ m.build \in BOOLEAN /\ m.ask \in Task /\ m.full \in BOOLEAN
    BY DesignAssumption DEF Message, Task
<1>3. PICK agent \in Mode : agent = Agent(m, question)
    BY <1>2, AgentType
<1>4. PICK full \in BOOLEAN, fresh \in BOOLEAN :
          /\ full = \/ agent # "normal"
                    \/ ~(Explicit(m) = "goal" /\ question /\ ~Escalates(m))
                          /\ (Explicit(m) # "normal" \/ m.full \/ heavy)
          /\ fresh = FreshTurn(m)
    BY DEF FreshTurn
<1>5. PICK c \in Cadence(agent, full) :
          turn' = [NoTurn EXCEPT
               !.pc = "entered", !.ask = m.ask, !.agent = agent, !.full = full,
               !.fresh = fresh, !.build = m.build,
               !.sparse = c.sparse, !.depth = c.depth]
    BY <1>3, <1>4 DEF Enter
<1>6. c.sparse \in BOOLEAN /\ c.depth \in {"none", "light", "full"}
    BY DEF Cadence
<1>7. turn' = [pc |-> "entered", ask |-> m.ask, agent |-> agent, full |-> full, fresh |-> fresh,
               build |-> m.build, sparse |-> c.sparse, depth |-> c.depth, round |-> 0,
               yes |-> FALSE, built |-> "none", kept |-> FALSE, status |-> "none"]
    BY <1>5 DEF NoTurn
<1>8. 0 \in 0..MaxRounds
    BY DesignAssumption
<1>9. turn' \in TurnSet
    BY <1>2, <1>6, <1>7, <1>8 DEF TurnSet, Pc, Text, Status
<1>10. /\ turn'.pc = "entered" /\ turn'.build = m.build /\ ~turn'.kept /\ ~turn'.yes
       /\ turn'.ask = m.ask
    BY <1>7
<1>11. PICK approved \in BOOLEAN :
           /\ approved = (files.approved /\ ~(fresh /\ Explicit(m) = "plan"))
           /\ files' = [files EXCEPT !.mode = "none", !.escalate = FALSE, !.approved = approved]
    <2>1. PICK approved \in BOOLEAN : approved = (files.approved /\ ~(fresh /\ Explicit(m) = "plan"))
        OBVIOUS
    <2> QED BY <1>1, <1>4, <2>1 DEF Enter, FileSet
<1>12. files' \in FileSet /\ files'.approved = approved
    BY <1>1, <1>11 DEF FileSet
<1>13. /\ granted' = (granted \/ m.build) /\ turns' \in 0..MaxTurns
    BY <1>1, DesignAssumption DEF Enter
<1>14. files'.approved => granted'
    BY <1>11, <1>12, <1>13 DEF DesignInv, PlanInv
<1>15. DesignInv'
    BY <1>2, <1>9, <1>10, <1>12, <1>13, <1>14, GoesDesign DEF Designed
<1> QED BY <1>2, <1>10, <1>15

LEMMA StepDesign ==
    ASSUME DesignInv, (\E mode \in Mode : SwitchMode(mode)) \/ DesignStep \/ Answered \/ SaveDesign
    PROVE  DesignInv'
  BY SwitchDesign, UnreadyDesign, FollowupDesign, ResumedDesign, ClarifyDesign, DesignDesign,
     ProceedDesign, AskDesign, ApproveDesign, SuggestDesign, DenyDesign, SaveDesignDesign
     DEF DesignStep, Answered

\* What these steps leave alone while the loop runs, and where they leave the turn.
LEMMA StepAside ==
    ASSUME DesignInv, (\E mode \in Mode : SwitchMode(mode)) \/ DesignStep \/ Answered \/ SaveDesign
    PROVE  /\ turn'.pc = "looping" <=> turn.pc = "looping"
           /\ turn.pc = "looping" =>
                  /\ UNCHANGED turn
                  /\ files'.passed = files.passed /\ files'.task = files.task
<1>1. files \in FileSet /\ turn \in TurnSet
    BY DesignTypes
<1>2. \A status \in Status : Ended(status).pc = "ended"
    BY EndedType
<1>3. CASE \E mode \in Mode : SwitchMode(mode)
    BY <1>1, <1>3 DEF SwitchMode, Idle
<1>4. CASE SaveDesign
    <2>1. UNCHANGED turn /\ files' = [files EXCEPT !.text = "current", !.json = IF @ = "same" THEN "behind" ELSE @]
        BY <1>4 DEF SaveDesign
    <2> QED BY <1>1, <2>1 DEF FileSet
<1>5. CASE DesignStep
    <2>1. turn.pc \in {"entered", "designed"}
        BY <1>5 DEF DesignStep, Unready, StartFollowup, StartResumed, Clarify, Design, Plans, Proceed, AskBuild
    <2>2. turn'.pc \in {"ended", "designed", "acting", "asking"}
        BY <1>1, <1>2, <1>5
           DEF DesignStep, Unready, StartFollowup, StartResumed, Clarify, Design, Plans, Proceed,
               AskBuild, Build, TurnSet, Status
    <2> QED BY <2>1, <2>2
<1>6. CASE Answered
    <2>1. turn.pc = "asking"
        BY <1>6 DEF Answered, Approve, Suggest, Deny
    <2>2. turn'.pc \in {"ended", "acting", "asking"}
        BY <1>1, <1>2, <1>6 DEF Answered, Approve, Suggest, Deny, TurnSet, Status
    <2> QED BY <2>1, <2>2
<1> QED BY <1>3, <1>4, <1>5, <1>6

-----------------------------------------------------------------------------
\* The loop: its types, and how often it repairs

LoopSet ==
    [at : {"off", "top", "thinking", "acted", "asking", "out"},
     step : 0..MaxSteps, desktop : BOOLEAN,
     done : BOOLEAN, called : BOOLEAN, early : Early, open : BOOLEAN,
     same : 0..MaxSameRepair, total : 0..MaxTotalRepair,
     sig : Defect \cup {NoDefect}, sigAt : 0..Goals,
     stagnant : 0..NoProgressLimit, best : 0..Goals, continued : BOOLEAN,
     final : Status, repairs : 0..MaxSteps, gated : BOOLEAN,
     broken : BOOLEAN]

MemorySet == [results : Seq(Result), start : 0..KeptResults, scarred : BOOLEAN]

LEMMA LoopType ==
    LoopTypeOK <=> /\ DesignTypeOK /\ loop \in LoopSet /\ memory \in MemorySet
                   /\ Len(memory.results) <= KeptResults /\ cancelled \in BOOLEAN
  BY DEF LoopTypeOK, LoopSet, MemorySet

Running == loop.at \in {"top", "thinking", "acted", "asking"}

\* The counters, and what has passed, of a step that is to be weighed.
StepInv ==
    /\ turn.pc = "looping" <=> loop.at # "off"
    /\ loop.at = "off" => loop.repairs = 0
    /\ Running => /\ loop.same < MaxSameRepair /\ loop.total < MaxTotalRepair
                  /\ loop.repairs = loop.total
    /\ loop.at \in {"top", "thinking", "acted"} => loop.repairs < loop.step
    /\ loop.at = "asking" => loop.repairs <= loop.step /\ loop.step < MaxSteps
    /\ loop.repairs <= MaxTotalRepair

LoopInv == LoopTypeOK /\ DesignInv /\ StepInv

LEMMA NoLoopType == NoLoop \in LoopSet
<1>1. 0 \in 0..MaxSteps /\ 0 \in 0..MaxSameRepair /\ 0 \in 0..MaxTotalRepair /\ 0 \in 0..Goals
      /\ 0 \in 0..NoProgressLimit
    BY DesignAssumption, LoopAssumption
<1> QED BY <1>1 DEF NoLoop, LoopSet, Early, Status

\* Only its place and its outcome change.
Left(l, status) == [l EXCEPT !.at = "out", !.final = status]

LEMMA OutType ==
    ASSUME NEW l \in LoopSet, NEW status \in Status
    PROVE  /\ Left(l, status) \in LoopSet
           /\ Left(l, status).at = "out" /\ Left(l, status).final = status
           /\ Left(l, status).step = l.step /\ Left(l, status).same = l.same
           /\ Left(l, status).total = l.total /\ Left(l, status).repairs = l.repairs
           /\ Left(l, status).open = l.open /\ Left(l, status).desktop = l.desktop
           /\ Left(l, status).broken = l.broken /\ Left(l, status).early = l.early
           /\ Left(l, status).gated = l.gated /\ Left(l, status).done = l.done
<1>1. PICK o : o = Left(l, status)
    OBVIOUS
<1>2. o \in LoopSet
    BY <1>1 DEF Left, LoopSet
<1>3. /\ o.at = "out" /\ o.final = status
      /\ o.step = l.step /\ o.same = l.same /\ o.total = l.total /\ o.repairs = l.repairs
      /\ o.open = l.open /\ o.desktop = l.desktop /\ o.broken = l.broken
      /\ o.early = l.early /\ o.gated = l.gated /\ o.done = l.done
    BY <1>1 DEF Left, LoopSet
<1> QED BY <1>1, <1>2, <1>3

LEMMA NextStepType ==
    ASSUME NEW l \in LoopSet, l.step < MaxSteps
    PROVE  /\ NextStep(l) \in LoopSet
           /\ NextStep(l).at = "top" /\ NextStep(l).step = l.step + 1 /\ NextStep(l).early = "no"
           /\ NextStep(l).same = l.same /\ NextStep(l).total = l.total
           /\ NextStep(l).repairs = l.repairs /\ NextStep(l).open = l.open
           /\ NextStep(l).desktop = l.desktop /\ NextStep(l).broken = l.broken
<1>1. l.step + 1 \in 0..MaxSteps /\ l.step \in Nat
    BY LoopAssumption DEF LoopSet
<1>2. PICK o : o = NextStep(l)
    OBVIOUS
<1>3. PICK next \in 0..MaxSteps : next = l.step + 1
    BY <1>1
<1>4. o = [l EXCEPT !.at = "top", !.step = next, !.done = FALSE, !.called = FALSE,
                    !.early = "no", !.gated = FALSE]
    BY <1>2, <1>3 DEF NextStep, LoopSet
<1>5. o \in LoopSet
    BY <1>4 DEF LoopSet, Early
<1>6. /\ o.at = "top" /\ o.step = next /\ o.early = "no" /\ o.same = l.same /\ o.total = l.total
      /\ o.repairs = l.repairs /\ o.open = l.open /\ o.desktop = l.desktop /\ o.broken = l.broken
    BY <1>4 DEF LoopSet
<1> QED BY <1>2, <1>3, <1>5, <1>6

\* The answers of the gate.
VerdictSet == [passed : 0..Goals, verdict : Verdict, defect : Defect \cup {NoDefect}]

LEMMA VerifiedType == ASSUME LoopTypeOK PROVE Verified \subseteq VerdictSet
<1>1. files.passed \in 0..Goals /\ Goals \in 0..Goals /\ turn.depth \in {"none", "light", "full"}
    BY DesignType, DesignAssumption DEF LoopTypeOK, FileSet, TurnSet
<1>2. Passes \subseteq VerdictSet
    BY <1>1 DEF Passes, VerdictSet, Verdict
<1>3. {[passed |-> files.passed, verdict |-> "unknown", defect |-> NoDefect]} \subseteq VerdictSet
    BY <1>1 DEF VerdictSet, Verdict
<1> QED BY <1>1, <1>2, <1>3 DEF Verified, VerdictSet

LEMMA JudgedType == ASSUME LoopTypeOK PROVE Judged \subseteq VerdictSet
<1>1. files.passed \in 0..Goals /\ Goals \in 0..Goals
    BY DesignType, DesignAssumption DEF LoopTypeOK, FileSet
<1>2. Passes \subseteq VerdictSet
    BY <1>1 DEF Passes, VerdictSet, Verdict
<1>3. Rejected \subseteq VerdictSet
    BY <1>1 DEF Rejected, VerdictSet, Verdict
<1>4. Contracted(Verified) \subseteq VerdictSet
    <2> SUFFICES ASSUME NEW x \in Contracted(Verified) PROVE x \in VerdictSet
        OBVIOUS
    <2>1. CASE x \in Verified
        BY <2>1, VerifiedType
    <2>2. CASE x \notin Verified
        <3>1. PICK v \in {w \in Verified : w.defect = NoDefect}, d \in Defect : x = Faulted(v, d)
            BY <2>2 DEF Contracted
        <3>2. v \in VerdictSet
            BY VerifiedType
        <3>3. PICK verdict \in Verdict : verdict = IF v.verdict = "fail" THEN v.verdict ELSE "repair"
            BY <3>2 DEF VerdictSet, Verdict
        <3>4. x = [v EXCEPT !.verdict = verdict, !.defect = d]
            BY <3>1, <3>2, <3>3 DEF Faulted, VerdictSet
        <3> QED BY <3>2, <3>4 DEF VerdictSet
    <2> QED BY <2>1, <2>2
<1> QED BY <1>2, <1>3, <1>4 DEF Judged

LEMMA TickedType ==
    ASSUME LoopTypeOK, NEW v \in Ticked(Judged)
    PROVE  /\ v \in VerdictSet
           /\ \E w \in Judged : v.verdict = w.verdict /\ v.defect = w.defect
<1>1. PICK w \in Judged : \E p \in w.passed..Goals : v = [w EXCEPT !.passed = p]
    BY DEF Ticked
<1>4. PICK p \in w.passed..Goals : v = [w EXCEPT !.passed = p]
    BY <1>1
<1>2. w \in VerdictSet
    BY JudgedType
<1>3. p \in 0..Goals
    BY <1>2, DesignAssumption DEF VerdictSet
<1> QED BY <1>2, <1>3, <1>4 DEF VerdictSet

\* What a decision counts.
LEMMA CountedType ==
    ASSUME LoopInv, loop.at = "acted", NEW v \in VerdictSet, NEW d \in Decision(v)
    PROVE  /\ Counted(v, d) \in LoopSet
           /\ Counted(v, d).at = "acted" /\ Counted(v, d).step = loop.step
           /\ Counted(v, d).desktop = loop.desktop /\ Counted(v, d).broken = loop.broken
           /\ Counted(v, d).early = loop.early /\ Counted(v, d).best = loop.best
           /\ Counted(v, d).repairs <= loop.step /\ Counted(v, d).repairs <= MaxTotalRepair
           /\ ~ValidatedOk(v.passed, Open(v)) => Counted(v, d).repairs = Counted(v, d).total
<1>1. /\ loop \in LoopSet /\ loop.same < MaxSameRepair /\ loop.total < MaxTotalRepair
      /\ loop.repairs = loop.total /\ loop.repairs < loop.step
      /\ MaxSameRepair \in Nat /\ MaxTotalRepair \in Nat /\ MaxSteps \in Nat
    BY LoopType, LoopAssumption DEF LoopInv, StepInv, Running
<1>2. /\ loop.total + 1 \in 0..MaxTotalRepair /\ loop.repairs + 1 \in 0..MaxSteps
      /\ loop.same + 1 \in 0..MaxSameRepair /\ 1 \in 0..MaxSameRepair /\ 0 \in 0..MaxSameRepair
      /\ 0 \in 0..MaxTotalRepair /\ loop.step \in Nat /\ loop.repairs \in Nat
    BY <1>1 DEF LoopSet
<1>3. CASE d = "repair"
    <2>1. PICK total \in 0..MaxTotalRepair, repairs \in 0..MaxSteps :
              total = loop.total + 1 /\ repairs = loop.repairs + 1
        BY <1>2
    <2>2. PICK same \in 0..MaxSameRepair, sigAt \in 0..Goals :
              LET again == v.defect = loop.sig /\ v.passed <= loop.sigAt IN
              /\ same = IF again THEN loop.same + 1 ELSE 1
              /\ sigAt = IF again THEN loop.sigAt ELSE v.passed
        BY <1>1, <1>2 DEF LoopSet, VerdictSet
    <2>3. PICK l : l = [loop EXCEPT !.total = total, !.repairs = repairs, !.same = same,
                                    !.sig = v.defect, !.sigAt = sigAt]
        OBVIOUS
    <2>4. l \in LoopSet
        BY <1>1, <2>3 DEF LoopSet, VerdictSet
    <2>5. /\ l.at = loop.at /\ l.step = loop.step /\ l.desktop = loop.desktop
          /\ l.broken = loop.broken /\ l.early = loop.early /\ l.best = loop.best
          /\ l.repairs = repairs /\ l.total = total
        BY <1>1, <2>3 DEF LoopSet
    <2>6. Counted(v, d) = l
        BY <1>1, <1>3, <2>1, <2>2, <2>3 DEF Counted, LoopSet
    <2> QED BY <1>1, <1>2, <2>1, <2>4, <2>5, <2>6
<1>4. CASE d = "replan"
    <2>1. PICK l : l = [loop EXCEPT !.same = 0]
        OBVIOUS
    <2>2. l \in LoopSet
        BY <1>1, <1>2, <2>1 DEF LoopSet
    <2>3. /\ l.at = loop.at /\ l.step = loop.step /\ l.desktop = loop.desktop
          /\ l.broken = loop.broken /\ l.early = loop.early /\ l.best = loop.best
          /\ l.repairs = loop.repairs /\ l.total = loop.total
        BY <1>1, <2>1 DEF LoopSet
    <2>4. Counted(v, d) = l
        BY <1>4, <2>1 DEF Counted
    <2> QED BY <1>1, <1>2, <2>2, <2>3, <2>4
<1>5. CASE d = "stop_success"
    <2>1. PICK l : l = [loop EXCEPT !.same = 0, !.total = 0]
        OBVIOUS
    <2>2. l \in LoopSet
        BY <1>1, <1>2, <2>1 DEF LoopSet
    <2>3. /\ l.at = loop.at /\ l.step = loop.step /\ l.desktop = loop.desktop
          /\ l.broken = loop.broken /\ l.early = loop.early /\ l.best = loop.best
          /\ l.repairs = loop.repairs
        BY <1>1, <2>1 DEF LoopSet
    <2>4. Counted(v, d) = l
        BY <1>5, <2>1 DEF Counted
    <2>5. ValidatedOk(v.passed, Open(v))
        BY <1>5 DEF Decision
    <2> QED BY <1>1, <1>2, <2>2, <2>3, <2>4, <2>5
<1>6. CASE d \notin {"repair", "replan", "stop_success"}
    <2>1. Counted(v, d) = loop
        BY <1>6 DEF Counted
    <2> QED BY <1>1, <1>2, <2>1
<1> QED BY <1>3, <1>4, <1>5, <1>6

LEMMA MovedType ==
    ASSUME NEW l \in LoopSet, NEW passed \in 0..Goals, NEW escalate \in BOOLEAN
    PROVE  LET o == Moved(l, passed, escalate) IN
           /\ o \in LoopSet /\ o.at = l.at /\ o.step = l.step /\ o.same = l.same
           /\ o.total = l.total /\ o.repairs = l.repairs /\ o.open = l.open
           /\ o.desktop = l.desktop /\ o.broken = l.broken /\ o.early = l.early
           /\ o.gated = l.gated
<1>1. PICK stagnant \in 0..NoProgressLimit, best \in 0..Goals :
          Moved(l, passed, escalate) = [l EXCEPT !.stagnant = stagnant, !.best = best]
    <2>1. /\ l.stagnant \in 0..NoProgressLimit /\ l.best \in 0..Goals /\ NoProgressLimit \in Nat
          /\ 0 \in 0..NoProgressLimit /\ NoProgressLimit \in 0..NoProgressLimit
        BY LoopAssumption DEF LoopSet
    <2>2. l = [l EXCEPT !.best = l.best]
        BY DEF LoopSet
    <2>3. PICK next \in 0..NoProgressLimit :
              next = IF l.stagnant < NoProgressLimit THEN l.stagnant + 1 ELSE l.stagnant
        BY <2>1
    <2>4. CASE escalate
        <3>1. Moved(l, passed, escalate) = [l EXCEPT !.stagnant = NoProgressLimit, !.best = l.best]
            BY <2>4 DEF Moved, LoopSet
        <3> QED BY <2>1, <3>1
    <2>5. CASE ~escalate /\ passed <= l.best /\ ~l.called
        <3>1. Moved(l, passed, escalate) = [l EXCEPT !.stagnant = next, !.best = l.best]
            BY <2>3, <2>5 DEF Moved, LoopSet
        <3> QED BY <2>1, <3>1
    <2>6. CASE ~escalate /\ ~(passed <= l.best /\ ~l.called)
        <3>1. Moved(l, passed, escalate) = [l EXCEPT !.stagnant = 0, !.best = passed]
            BY <2>6 DEF Moved
        <3> QED BY <2>1, <3>1
    <2> QED BY <2>4, <2>5, <2>6
<1>2. PICK o : o = [l EXCEPT !.stagnant = stagnant, !.best = best]
    OBVIOUS
<1>3. o \in LoopSet
    BY <1>2 DEF LoopSet
<1>4. /\ o.at = l.at /\ o.step = l.step /\ o.same = l.same
      /\ o.total = l.total /\ o.repairs = l.repairs /\ o.open = l.open
      /\ o.desktop = l.desktop /\ o.broken = l.broken /\ o.early = l.early
      /\ o.gated = l.gated
    BY <1>2 DEF LoopSet
<1> QED BY <1>1, <1>2, <1>3, <1>4

\* A step that was judged ends: on to the next one, with the human, or out of the loop.
LEMMA WeighType ==
    ASSUME LoopTypeOK, NEW l \in LoopSet, l.at = "acted", NEW passed \in 0..Goals,
           NEW broke \in BOOLEAN, Weigh(l, passed, broke)
    PROVE  /\ loop' \in LoopSet /\ loop'.at \in {"top", "asking", "out"}
           /\ loop'.at # "out" =>
                  /\ l.same < MaxSameRepair /\ l.total < MaxTotalRepair /\ l.step < MaxSteps
                  /\ ~ValidatedOk(passed, l.open)
           /\ loop'.at = "top" => loop'.step = l.step + 1 /\ loop'.early = "no"
           /\ loop'.at # "top" => loop'.step = l.step /\ loop'.early = l.early
           /\ loop'.at # "top" => loop'.gated = l.gated
           /\ loop'.same = l.same /\ loop'.total = l.total /\ loop'.repairs = l.repairs
           /\ loop'.open = l.open /\ loop'.desktop = l.desktop /\ loop'.broken = l.broken
           /\ loop'.at = "out" /\ loop'.final = "success" =>
                  ~cancelled /\ ValidatedOk(passed, l.open)
<1>1. PICK end : end = Evaluate(l, passed, broke)
    OBVIOUS
<1>2. /\ end \in Status
      /\ end \in {"none", "no_progress"} =>
             /\ ~(l.same >= MaxSameRepair) /\ ~(l.total >= MaxTotalRepair) /\ ~(l.step >= MaxSteps)
             /\ ~ValidatedOk(passed, l.open)
      /\ end = "success" => ~cancelled /\ ValidatedOk(passed, l.open)
    BY <1>1 DEF Evaluate, Status
<1>3. /\ MaxSameRepair \in Nat /\ MaxTotalRepair \in Nat /\ MaxSteps \in Nat
      /\ l.same \in Nat /\ l.total \in Nat /\ l.step \in Nat
    BY LoopAssumption DEF LoopSet
<1>4. end \in {"none", "no_progress"} =>
          l.same < MaxSameRepair /\ l.total < MaxTotalRepair /\ l.step < MaxSteps
    BY <1>2, <1>3
<1>5. CASE end = "none"
    <2>1. loop' = NextStep(l)
        BY <1>1, <1>5 DEF Weigh
    <2> QED BY <1>2, <1>4, <1>5, <2>1, NextStepType
<1>6. CASE end = "no_progress" /\ ~l.continued
    <2>1. loop' = [l EXCEPT !.at = "asking"]
        BY <1>1, <1>6 DEF Weigh
    <2>2. loop' \in LoopSet
        BY <2>1 DEF LoopSet
    <2>3. /\ loop'.at = "asking" /\ loop'.step = l.step /\ loop'.same = l.same
          /\ loop'.total = l.total /\ loop'.repairs = l.repairs /\ loop'.open = l.open
          /\ loop'.desktop = l.desktop /\ loop'.broken = l.broken /\ loop'.early = l.early
          /\ loop'.gated = l.gated
        BY <2>1 DEF LoopSet
    <2> QED BY <1>2, <1>4, <1>6, <2>2, <2>3
<1>7. CASE ~(end = "none" \/ (end = "no_progress" /\ ~l.continued))
    <2>1. loop' = Left(l, end)
        BY <1>1, <1>7 DEF Weigh, Left
    <2> QED BY <1>2, <2>1, OutType
<1> QED BY <1>5, <1>6, <1>7

\* The step that a verdict or its absence ends.
LEMMA PassByFacts ==
    ASSUME LoopInv, PassBy
    PROVE  /\ \E broke \in BOOLEAN, l \in LoopSet :
                  /\ l.at = "acted" /\ Weigh(l, files.passed, broke)
                  /\ l.step = loop.step /\ l.same = loop.same /\ l.total = loop.total
                  /\ l.repairs = loop.repairs /\ l.open = loop.open
                  /\ l.desktop = loop.desktop /\ l.broken = loop.broken /\ l.early = loop.early
           /\ loop.at = "acted" /\ ~loop.done /\ UNCHANGED <<designVars, memory, cancelled>>
<1>1. loop \in LoopSet /\ files.passed \in 0..Goals
    BY LoopType, DesignType DEF LoopInv, LoopTypeOK, FileSet
<1>2. PICK broke \in BOOLEAN : Weigh(Moved(loop, files.passed, FALSE), files.passed, broke)
    BY DEF PassBy
<1>3. PICK l : l = Moved(loop, files.passed, FALSE)
    OBVIOUS
<1>4. /\ l \in LoopSet /\ l.at = loop.at /\ l.step = loop.step /\ l.same = loop.same
      /\ l.total = loop.total /\ l.repairs = loop.repairs /\ l.open = loop.open
      /\ l.desktop = loop.desktop /\ l.broken = loop.broken /\ l.early = loop.early
    BY <1>1, <1>3, MovedType
<1>5. loop.at = "acted" /\ ~Gate /\ UNCHANGED <<designVars, memory, cancelled>>
    BY DEF PassBy
<1>6. ~loop.done
    BY <1>5 DEF Gate
<1> QED BY <1>2, <1>3, <1>4, <1>5, <1>6

LEMMA JudgeFacts ==
    ASSUME LoopInv, Judge
    PROVE  /\ \E v \in Ticked(Judged), broke \in BOOLEAN, l \in LoopSet :
                  /\ l.at = "acted" /\ Weigh(l, v.passed, broke)
                  /\ v \in VerdictSet /\ files' = [files EXCEPT !.passed = v.passed]
                  /\ l.open = Open(v) /\ l.gated
                  /\ l.step = loop.step /\ l.desktop = loop.desktop
                  /\ l.broken = loop.broken /\ l.early = loop.early
                  /\ l.repairs <= loop.step /\ l.repairs <= MaxTotalRepair
                  /\ ~ValidatedOk(v.passed, l.open) => l.repairs = l.total
           /\ loop.at = "acted" /\ UNCHANGED <<turn, turns, granted, memory, cancelled>>
<1>1. loop.at = "acted" /\ UNCHANGED <<turn, turns, granted, memory, cancelled>>
    BY DEF Judge
<1>2. PICK v \in Ticked(Judged), escalate \in BOOLEAN, broke \in BOOLEAN : \E d \in Decision(v) :
          /\ Weigh(Moved([Counted(v, d) EXCEPT !.open = Open(v), !.gated = TRUE], v.passed, escalate),
                   v.passed, broke)
          /\ files' = [files EXCEPT !.passed = v.passed]
    BY DEF Judge
<1>3. PICK d \in Decision(v) :
          /\ Weigh(Moved([Counted(v, d) EXCEPT !.open = Open(v), !.gated = TRUE], v.passed, escalate),
                   v.passed, broke)
          /\ files' = [files EXCEPT !.passed = v.passed]
    BY <1>2
<1>4. v \in VerdictSet /\ v.passed \in 0..Goals
    BY TickedType DEF LoopInv, VerdictSet
<1>5. PICK c : c = Counted(v, d)
    OBVIOUS
<1>6. /\ c \in LoopSet /\ c.at = "acted" /\ c.step = loop.step /\ c.desktop = loop.desktop
      /\ c.broken = loop.broken /\ c.early = loop.early
      /\ c.repairs <= loop.step /\ c.repairs <= MaxTotalRepair
      /\ ~ValidatedOk(v.passed, Open(v)) => c.repairs = c.total
    BY <1>1, <1>4, <1>5, CountedType
<1>7. PICK open \in BOOLEAN : open = Open(v)
    BY DEF Open
<1>8. PICK j : j = [c EXCEPT !.open = open, !.gated = TRUE]
    OBVIOUS
<1>9. j \in LoopSet
    BY <1>6, <1>8 DEF LoopSet
<1>10. /\ j.at = "acted" /\ j.step = loop.step /\ j.desktop = loop.desktop
       /\ j.broken = loop.broken /\ j.early = loop.early /\ j.open = open /\ j.gated
       /\ j.repairs = c.repairs /\ j.total = c.total
    BY <1>6, <1>8 DEF LoopSet
<1>11. PICK l : l = Moved(j, v.passed, escalate)
    OBVIOUS
<1>12. /\ l \in LoopSet /\ l.at = j.at /\ l.step = j.step /\ l.total = j.total
       /\ l.repairs = j.repairs /\ l.open = j.open /\ l.desktop = j.desktop
       /\ l.broken = j.broken /\ l.early = j.early /\ l.gated = j.gated
    BY <1>4, <1>9, <1>11, MovedType
<1>13. Weigh(l, v.passed, broke)
    BY <1>3, <1>5, <1>7, <1>8, <1>11
<1>14. /\ l.at = "acted" /\ l.open = Open(v) /\ l.gated
       /\ l.step = loop.step /\ l.desktop = loop.desktop
       /\ l.broken = loop.broken /\ l.early = loop.early
       /\ l.repairs <= loop.step /\ l.repairs <= MaxTotalRepair
       /\ ~ValidatedOk(v.passed, l.open) => l.repairs = l.total
    BY <1>6, <1>7, <1>10, <1>12
<1> QED BY <1>1, <1>3, <1>4, <1>12, <1>13, <1>14

-----------------------------------------------------------------------------
\* What a turn has earned

\* The results of earlier turns are those before its own, and a screenshot that ends
\* a turn early is among its own.
EvidenceInv ==
    /\ loop.at # "off" =>
           \A n \in DOMAIN memory.results : memory.results[n] = "old" => n <= memory.start
    /\ loop.at \in {"top", "thinking"} => loop.early = "no"
    /\ loop.early = "computer" => "proof" \in Range(memory.results)

\* A step that goes on has nothing to show for, unless it claims to be done: the
\* goals are then weighed by its gate.
SuccessInv ==
    /\ Running /\ ValidatedOk(files.passed, loop.open) =>
           turn.kept \/ (loop.at = "acted" /\ loop.done)
    /\ Succeeded /\ ~loop.broken => ~cancelled /\ (loop.gated \/ turn.kept)
    /\ DesktopSuccessIsProven

Inv == LoopInv /\ EvidenceInv /\ SuccessInv

LEMMA InvTypes ==
    ASSUME Inv
    PROVE  /\ files \in FileSet /\ turn \in TurnSet /\ loop \in LoopSet /\ memory \in MemorySet
           /\ Len(memory.results) <= KeptResults /\ cancelled \in BOOLEAN
           /\ DesignInv /\ DesignTypeOK /\ StepInv
  BY LoopType, DesignType DEF Inv, LoopInv

LEMMA InitInv == LoopInit => Inv
<1> SUFFICES ASSUME LoopInit PROVE Inv
    OBVIOUS
<1>1. memory \in MemorySet /\ Len(memory.results) = 0 /\ memory.results = <<>>
    BY LoopAssumption DEF LoopInit, MemorySet
<1>2. /\ loop.at = "off" /\ loop.repairs = 0 /\ loop.early = "no" /\ loop \in LoopSet
      /\ turn.pc = "idle"
    BY NoLoopType DEF LoopInit, NoLoop, DesignInit, NoTurn
<1>3. DesignInv /\ DesignTypeOK /\ cancelled \in BOOLEAN
    BY InitDesign DEF LoopInit, DesignInv
<1>4. 0 <= MaxTotalRepair /\ 0 <= KeptResults
    BY LoopAssumption
<1>5. LoopTypeOK
    BY <1>1, <1>2, <1>3, <1>4, LoopType
<1>6. StepInv
    BY <1>2, <1>4 DEF StepInv, Running
<1> QED BY <1>1, <1>2, <1>3, <1>5, <1>6
        DEF Inv, LoopInv, EvidenceInv, SuccessInv, Running, Succeeded, DesktopSuccessIsProven

\* What a step of the loop needs to keep of the types.
LEMMA TypesStay ==
    ASSUME DesignInv', loop' \in LoopSet, memory' \in MemorySet,
           Len(memory'.results) <= KeptResults, cancelled' \in BOOLEAN
    PROVE  LoopTypeOK'
  BY LoopType DEF LoopTypeOK, LoopSet, MemorySet, DesignInv

\* The files change while the loop runs: goals pass, a tool asks for a plan.
LEMMA LoopingDesign ==
    ASSUME DesignInv, turn.pc = "looping", UNCHANGED <<turn, turns, granted>>,
           NEW f \in FileSet, files' = f, f.approved = files.approved, f.task = files.task
    PROVE  DesignInv'
<1>1. turn \in TurnSet /\ granted \in BOOLEAN /\ turns \in 0..MaxTurns
    BY DesignTypes
<1> QED BY <1>1, GoesDesign DEF DesignInv, PlanInv, GoalInv, Designed

LEMMA SameDesign == ASSUME DesignInv, UNCHANGED designVars PROVE DesignInv'
  BY DEF DesignInv, DesignTypeOK, PlanInv, GoalInv, designVars

\* A step inside the loop that neither calls a tool nor judges.
LEMMA LocalInv ==
    ASSUME Inv, loop.at \in {"top", "thinking", "asking"}, UNCHANGED <<designVars, memory, cancelled>>,
           NEW l \in LoopSet, loop' = l, l.at \in {"top", "thinking", "acted", "out"},
           l.same = loop.same, l.total = loop.total, l.repairs = loop.repairs, l.open = loop.open,
           l.early \in {loop.early, "no"},
           l.at \in {"top", "thinking"} => l.early = "no",
           l.at # "out" => l.repairs < l.step,
           l.at = "out" /\ l.final = "success" => l.broken
    PROVE  Inv'
<1>1. UNCHANGED <<files, turn, turns, granted, memory, cancelled>>
    BY DEF designVars
<1>2. DesignInv' /\ LoopTypeOK'
    BY <1>1, InvTypes, SameDesign, TypesStay
<1>3. StepInv'
    BY <1>1, InvTypes DEF StepInv, Running
<1>4. EvidenceInv'
    BY <1>1 DEF Inv, EvidenceInv
<1>5. SuccessInv'
    BY <1>1 DEF Inv, SuccessInv, Running, Succeeded, DesktopSuccessIsProven, ValidatedOk
<1> QED BY <1>2, <1>3, <1>4, <1>5 DEF Inv, LoopInv

LEMMA LocalSteps ==
    ASSUME Inv, Top \/ CancelledCall \/ ModelFails \/ Reply \/ \E yes \in BOOLEAN : Continue(yes)
    PROVE  Inv'
<1>1. loop \in LoopSet /\ StepInv
    BY InvTypes
<1>2. /\ UNCHANGED <<designVars, memory, cancelled>> /\ loop.at \in {"top", "thinking", "asking"}
      /\ loop.at \in {"top", "thinking"} => loop.early = "no" /\ loop.repairs < loop.step
      /\ loop.at = "asking" => loop.repairs <= loop.step /\ loop.step < MaxSteps
    BY <1>1 DEF Top, CancelledCall, ModelFails, Reply, Continue, StepInv, Inv, EvidenceInv
<1>3. ASSUME NEW status \in Status, loop' = Out(status), status # "success" PROVE Inv'
    <2>1. PICK o : o = Left(loop, status)
        OBVIOUS
    <2>3. loop' = o
        BY <1>3, <2>1 DEF Out, Left
    <2>2. /\ o \in LoopSet /\ o.at = "out" /\ o.final = status /\ o.same = loop.same
          /\ o.total = loop.total /\ o.repairs = loop.repairs /\ o.open = loop.open
          /\ o.early = loop.early
        BY <1>1, <2>1, OutType
    <2> QED BY <1>2, <1>3, <2>2, <2>3, LocalInv
<1>4. CASE Top
    <2>1. CASE loop' = Out("cancelled")
        BY <1>3, <2>1 DEF Status
    <2>2. CASE loop' = [loop EXCEPT !.at = "thinking"]
        <3>1. PICK l : l = [loop EXCEPT !.at = "thinking"]
            OBVIOUS
        <3>2. l \in LoopSet
            BY <1>1, <3>1 DEF LoopSet
        <3>3. /\ l.at = "thinking" /\ l.same = loop.same /\ l.total = loop.total
              /\ l.repairs = loop.repairs /\ l.open = loop.open /\ l.early = loop.early
              /\ l.step = loop.step
            BY <1>1, <3>1 DEF LoopSet
        <3>4. loop.at = "top"
            BY <1>4 DEF Top
        <3> QED BY <1>2, <2>2, <3>1, <3>2, <3>3, <3>4, LocalInv
    <2> QED BY <1>4, <2>1, <2>2 DEF Top
<1>5. CASE CancelledCall
    BY <1>3, <1>5 DEF CancelledCall, Status
<1>6. CASE ModelFails
    <2>1. PICK o : o = Left(loop, "success")
        OBVIOUS
    <2>2. /\ o \in LoopSet /\ o.at = "out" /\ o.same = loop.same /\ o.total = loop.total
          /\ o.repairs = loop.repairs /\ o.open = loop.open /\ o.early = loop.early
        BY <1>1, <2>1, OutType DEF Status
    <2>3. PICK l : l = [o EXCEPT !.broken = TRUE]
        OBVIOUS
    <2>4. l \in LoopSet
        BY <2>2, <2>3 DEF LoopSet
    <2>5. /\ l.at = "out" /\ l.same = loop.same /\ l.total = loop.total /\ l.broken
          /\ l.repairs = loop.repairs /\ l.open = loop.open /\ l.early = loop.early
        BY <2>2, <2>3 DEF LoopSet
    <2>6. loop' = l
        BY <1>6, <2>1, <2>3 DEF ModelFails, Out, Left
    <2> QED BY <1>2, <2>4, <2>5, <2>6, LocalInv
<1>7. CASE Reply
    <2>1. PICK done \in BOOLEAN : loop' = [loop EXCEPT !.at = "acted", !.done = done]
        BY <1>7 DEF Reply
    <2>2. PICK l : l = [loop EXCEPT !.at = "acted", !.done = done]
        OBVIOUS
    <2>3. l \in LoopSet
        BY <1>1, <2>2 DEF LoopSet
    <2>4. /\ l.at = "acted" /\ l.same = loop.same /\ l.total = loop.total
          /\ l.repairs = loop.repairs /\ l.open = loop.open /\ l.early = loop.early
          /\ l.step = loop.step
        BY <1>1, <2>2 DEF LoopSet
    <2>5. loop.at = "thinking"
        BY <1>7 DEF Reply
    <2> QED BY <1>2, <2>1, <2>2, <2>3, <2>4, <2>5, LocalInv
<1>8. ASSUME NEW yes \in BOOLEAN, Continue(yes) PROVE Inv'
    <2>1. CASE loop' = Out("no_progress")
        BY <1>3, <2>1 DEF Status
    <2>2. CASE loop' = [NextStep(loop) EXCEPT !.stagnant = 0, !.continued = TRUE]
        <3>1. loop.at = "asking"
            BY <1>8 DEF Continue
        <3>2. PICK n : n = NextStep(loop)
            OBVIOUS
        <3>3. /\ n \in LoopSet /\ n.at = "top" /\ n.step = loop.step + 1 /\ n.early = "no"
              /\ n.same = loop.same /\ n.total = loop.total /\ n.repairs = loop.repairs
              /\ n.open = loop.open
            BY <1>1, <1>2, <3>1, <3>2, NextStepType
        <3>4. PICK l : l = [n EXCEPT !.stagnant = 0, !.continued = TRUE]
            OBVIOUS
        <3>5. 0 \in 0..NoProgressLimit
            BY LoopAssumption
        <3>6. l \in LoopSet
            BY <3>3, <3>4, <3>5 DEF LoopSet
        <3>7. /\ l.at = "top" /\ l.step = loop.step + 1 /\ l.early = "no"
              /\ l.same = loop.same /\ l.total = loop.total /\ l.repairs = loop.repairs
              /\ l.open = loop.open
            BY <3>3, <3>4 DEF LoopSet
        <3>8. loop.step \in Nat /\ loop.repairs \in Nat
            BY <1>1 DEF LoopSet
        <3>9. l.repairs < l.step
            BY <1>2, <3>1, <3>7, <3>8
        <3>10. loop' = l
            BY <2>2, <3>2, <3>4
        <3> QED BY <1>2, <3>6, <3>7, <3>9, <3>10, LocalInv
    <2> QED BY <1>8, <2>1, <2>2 DEF Continue
<1> QED BY <1>4, <1>5, <1>6, <1>7, <1>8

-----------------------------------------------------------------------------
\* The calls

\* A result is added at the end; the oldest one is dropped when there are too many.
LEMMA RecordedFacts ==
    ASSUME Inv, loop.at # "off", NEW kind \in Kind
    PROVE  /\ Recorded(kind) \in MemorySet /\ Len(Recorded(kind).results) <= KeptResults
           /\ Recorded(kind).start = memory.start
           /\ kind \in Range(Recorded(kind).results)
           /\ \A n \in DOMAIN Recorded(kind).results :
                  Recorded(kind).results[n] = "old" => n <= memory.start
<1>1. /\ memory \in MemorySet /\ Len(memory.results) <= KeptResults
      /\ \A n \in DOMAIN memory.results : memory.results[n] = "old" => n <= memory.start
    BY InvTypes DEF Inv, EvidenceInv
<1>2. PICK rs : rs = memory.results
    OBVIOUS
<1>3. rs \in Seq(Result) /\ Len(rs) \in Nat /\ DOMAIN rs = 1..Len(rs) /\ memory.start \in Nat
    <2>1. rs \in Seq(Result) /\ memory.start \in Nat
        BY <1>1, <1>2 DEF MemorySet
    <2> QED BY <2>1, LenProperties
<1>4. kind \in Result /\ kind # "old"
    BY DEF Result, Kind
<1>5. PICK all : all = Append(rs, kind)
    OBVIOUS
<1>6. /\ all \in Seq(Result) /\ Len(all) = Len(rs) + 1 /\ all[Len(rs) + 1] = kind
      /\ \A n \in 1..Len(rs) : all[n] = rs[n]
    BY <1>3, <1>4, <1>5, AppendProperties
<1>7. KeptResults \in Nat /\ KeptResults >= 1
    BY LoopAssumption
<1>8. PICK kept : kept = IF Len(all) > KeptResults
                         THEN SubSeq(all, Len(all) - KeptResults + 1, Len(all)) ELSE all
    OBVIOUS
<1>9. PICK scarred \in BOOLEAN : scarred = (memory.scarred \/ kind = "failed")
    OBVIOUS
<1>10. Recorded(kind) = [memory EXCEPT !.results = kept, !.scarred = scarred]
    BY <1>1, <1>2, <1>5, <1>8, <1>9 DEF Recorded, MemorySet
<1>11. /\ kept \in Seq(Result) /\ Len(kept) <= KeptResults /\ kind \in Range(kept)
       /\ \A n \in DOMAIN kept : kept[n] = "old" => n <= memory.start
    <2>1. CASE Len(all) <= KeptResults
        <3>1. kept = all
            BY <1>3, <1>6, <1>7, <1>8, <2>1
        <3>2. DOMAIN all = 1..Len(rs) + 1
            BY <1>6, LenProperties
        <3>3. kind \in Range(all)
            BY <1>3, <1>6, <3>2 DEF Range
        <3>4. ASSUME NEW n \in DOMAIN all, all[n] = "old" PROVE n <= memory.start
            BY <1>1, <1>2, <1>3, <1>4, <1>6, <3>2, <3>4
        <3> QED BY <1>6, <2>1, <3>1, <3>3, <3>4
    <2>2. CASE Len(all) > KeptResults
        <3>1. Len(rs) = KeptResults /\ Len(all) = KeptResults + 1
            BY <1>1, <1>2, <1>3, <1>6, <1>7, <2>2
        <3>2. kept = SubSeq(all, 2, KeptResults + 1)
            BY <1>7, <1>8, <2>2, <3>1
        <3>3. \A n \in 2..KeptResults + 1 : all[n] \in Result
            BY <1>6, <3>1, ElementOfSeq
        <3>4. /\ kept \in Seq(Result) /\ Len(kept) = KeptResults
              /\ \A n \in 1..KeptResults : kept[n] = all[n + 1]
            BY <1>6, <1>7, <3>1, <3>2, SubSeqProperties
        <3>5. DOMAIN kept = 1..KeptResults
            BY <3>4, LenProperties
        <3>6. KeptResults \in DOMAIN kept /\ kept[KeptResults] = kind
            BY <1>6, <1>7, <3>1, <3>4, <3>5
        <3>7. kind \in Range(kept)
            BY <3>6 DEF Range
        <3>8. ASSUME NEW n \in DOMAIN kept, kept[n] = "old" PROVE n <= memory.start
            <4>1. n \in 1..KeptResults /\ all[n + 1] = "old"
                BY <3>4, <3>5, <3>8
            <4>2. n + 1 # KeptResults + 1
                BY <1>4, <1>6, <3>1, <4>1
            <4>3. n + 1 \in 1..Len(rs)
                BY <1>7, <3>1, <4>1, <4>2
            <4>4. rs[n + 1] = "old"
                BY <1>6, <4>1, <4>3
            <4>5. n + 1 <= memory.start
                BY <1>1, <1>2, <1>3, <4>3, <4>4
            <4> QED BY <1>3, <1>7, <4>1, <4>5
        <3> QED BY <1>7, <3>4, <3>7, <3>8
    <2> QED BY <1>3, <1>6, <1>7, <2>1, <2>2
<1>12. PICK m : m = [memory EXCEPT !.results = kept, !.scarred = scarred]
    OBVIOUS
<1>13. m \in MemorySet
    BY <1>1, <1>9, <1>11, <1>12 DEF MemorySet
<1>14. m.results = kept /\ m.start = memory.start
    BY <1>1, <1>12 DEF MemorySet
<1> QED BY <1>10, <1>11, <1>12, <1>13, <1>14

\* A call was made: what remains to be shown is about the loop alone.
LEMMA CallInv ==
    ASSUME Inv, loop.at = "thinking", NEW kind \in Kind, memory' = Recorded(kind),
           UNCHANGED <<turn, turns, granted, cancelled>>,
           NEW f \in FileSet, files' = f, f.approved = files.approved, f.task = files.task,
           NEW l \in LoopSet, loop' = l, l.at \in {"acted", "out"},
           l.same = loop.same, l.total = loop.total, l.repairs = loop.repairs,
           l.open = loop.open, l.step = loop.step,
           l.early = "computer" => kind = "proof",
           l.at = "acted" => f.passed = files.passed \/ l.done,
           l.at = "out" => l.final # "success"
    PROVE  Inv'
<1>1. PICK m : m = Recorded(kind)
    OBVIOUS
<1>2. /\ m \in MemorySet /\ Len(m.results) <= KeptResults /\ m.start = memory.start
      /\ kind \in Range(m.results)
      /\ \A n \in DOMAIN m.results : m.results[n] = "old" => n <= m.start
    BY <1>1, RecordedFacts
<1>3. memory' = m
    BY <1>1
<1>4. turn.pc = "looping"
    BY InvTypes DEF StepInv
<1>5. DesignInv'
    BY <1>4, InvTypes, LoopingDesign
<1>6. cancelled' \in BOOLEAN
    BY InvTypes
<1>7. LoopTypeOK'
    BY <1>2, <1>3, <1>5, <1>6, TypesStay
<1>8. StepInv'
    BY InvTypes DEF StepInv, Running
<1>9. EvidenceInv'
    BY <1>2, <1>3 DEF EvidenceInv
<1>10. SuccessInv'
    BY DEF Inv, SuccessInv, Running, Succeeded, DesktopSuccessIsProven, ValidatedOk
<1> QED BY <1>5, <1>7, <1>8, <1>9, <1>10 DEF Inv, LoopInv

LEMMA BroughtKind == Brought \subseteq Kind
  BY DEF Brought, Kind

LEMMA CallsInv ==
    ASSUME Inv, NEW kind \in Brought, CallTools(kind) \/ CallStops(kind)
    PROVE  Inv'
<1>1. loop \in LoopSet /\ files \in FileSet /\ kind \in Kind
    BY InvTypes, BroughtKind
<1>2. loop.at = "thinking" => loop.early = "no"
    BY DEF Inv, EvidenceInv
<1>3. CASE CallTools(kind)
    <2>1. PICK e \in BOOLEAN : files' = [files EXCEPT !.escalate = @ \/ e]
        BY <1>3 DEF CallTools
    <2>2. PICK escalate \in BOOLEAN : escalate = (files.escalate \/ e)
        OBVIOUS
    <2>3. PICK f : f = [files EXCEPT !.escalate = escalate]
        OBVIOUS
    <2>4. f \in FileSet /\ f.approved = files.approved /\ f.task = files.task /\ f.passed = files.passed
        BY <1>1, <2>3 DEF FileSet
    <2>5. files' = f
        BY <1>1, <2>1, <2>2, <2>3 DEF FileSet
    <2>6. PICK l : l = [loop EXCEPT !.at = "acted", !.called = TRUE]
        OBVIOUS
    <2>7. l \in LoopSet
        BY <1>1, <2>6 DEF LoopSet
    <2>8. /\ l.at = "acted" /\ l.same = loop.same /\ l.total = loop.total
          /\ l.repairs = loop.repairs /\ l.open = loop.open /\ l.step = loop.step
          /\ l.early = loop.early
        BY <1>1, <2>6 DEF LoopSet
    <2>9. /\ loop.at = "thinking" /\ memory' = Recorded(kind) /\ loop' = l
          /\ UNCHANGED <<turn, turns, granted, cancelled>>
        BY <1>3, <2>6 DEF CallTools
    <2> QED BY <1>1, <1>2, <2>4, <2>5, <2>7, <2>8, <2>9, CallInv
<1>4. CASE CallStops(kind)
    <2>1. PICK l : l = Left(loop, "ask_user")
        OBVIOUS
    <2>2. /\ l \in LoopSet /\ l.at = "out" /\ l.final = "ask_user" /\ l.same = loop.same
          /\ l.total = loop.total /\ l.repairs = loop.repairs /\ l.open = loop.open
          /\ l.step = loop.step /\ l.early = loop.early
        BY <1>1, <2>1, OutType DEF Status
    <2>3. /\ loop.at = "thinking" /\ memory' = Recorded(kind) /\ loop' = l
          /\ UNCHANGED <<files, turn, turns, granted, cancelled>>
        BY <1>4, <2>1 DEF CallStops, Out, Left, designVars
    <2> QED BY <1>1, <1>2, <2>2, <2>3, CallInv
<1> QED BY <1>3, <1>4

LEMMA StopsEarlyInv ==
    ASSUME Inv, NEW kind \in Brought, NEW early \in Early \ {"no"}, StopsEarly(kind, early)
    PROVE  Inv'
<1>1. loop \in LoopSet /\ files \in FileSet /\ kind \in Kind /\ Goals \in 0..Goals
    BY InvTypes, BroughtKind, DesignAssumption
<1>2. PICK f : f = [files EXCEPT !.passed = Goals]
    OBVIOUS
<1>3. f \in FileSet /\ f.approved = files.approved /\ f.task = files.task
    BY <1>1, <1>2 DEF FileSet
<1>4. PICK l : l = [loop EXCEPT !.at = "acted", !.called = TRUE, !.done = TRUE, !.early = early]
    OBVIOUS
<1>5. l \in LoopSet
    BY <1>1, <1>4 DEF LoopSet
<1>6. /\ l.at = "acted" /\ l.same = loop.same /\ l.total = loop.total /\ l.done
      /\ l.repairs = loop.repairs /\ l.open = loop.open /\ l.step = loop.step
      /\ l.early = early
    BY <1>1, <1>4 DEF LoopSet
<1>7. /\ loop.at = "thinking" /\ memory' = Recorded(kind) /\ loop' = l /\ files' = f
      /\ UNCHANGED <<turn, turns, granted, cancelled>> /\ (early = "computer" => kind = "proof")
    BY <1>2, <1>4 DEF StopsEarly
<1> QED BY <1>1, <1>3, <1>5, <1>6, <1>7, CallInv

-----------------------------------------------------------------------------
\* The gate

LEMMA PassByInv == ASSUME Inv, PassBy PROVE Inv'
<1>1. /\ files \in FileSet /\ files.passed \in 0..Goals /\ turn \in TurnSet /\ memory \in MemorySet
      /\ Len(memory.results) <= KeptResults /\ cancelled \in BOOLEAN /\ DesignInv /\ LoopInv
      /\ LoopTypeOK /\ StepInv /\ loop \in LoopSet
    BY InvTypes DEF FileSet, Inv, LoopInv
<1>2. PICK broke \in BOOLEAN, l \in LoopSet :
          /\ l.at = "acted" /\ Weigh(l, files.passed, broke)
          /\ l.step = loop.step /\ l.same = loop.same /\ l.total = loop.total
          /\ l.repairs = loop.repairs /\ l.open = loop.open
          /\ l.desktop = loop.desktop /\ l.broken = loop.broken /\ l.early = loop.early
    BY <1>1, PassByFacts
<1>3. /\ loop.at = "acted" /\ ~loop.done
      /\ UNCHANGED <<files, turn, turns, granted, memory, cancelled>>
    BY <1>1, PassByFacts DEF designVars
<1>4. PICK n : n = loop'
    OBVIOUS
<1>5. /\ n \in LoopSet /\ n.at \in {"top", "asking", "out"}
      /\ n.at # "out" =>
             /\ l.same < MaxSameRepair /\ l.total < MaxTotalRepair /\ l.step < MaxSteps
             /\ ~ValidatedOk(files.passed, l.open)
      /\ n.at = "top" => n.step = l.step + 1 /\ n.early = "no"
      /\ n.at # "top" => n.step = l.step /\ n.early = l.early
      /\ n.same = l.same /\ n.total = l.total /\ n.repairs = l.repairs
      /\ n.open = l.open /\ n.desktop = l.desktop /\ n.broken = l.broken
      /\ n.at = "out" /\ n.final = "success" =>
             ~cancelled /\ ValidatedOk(files.passed, l.open)
    BY <1>1, <1>2, <1>4, WeighType
<1>6. DesignInv'
    BY <1>1, <1>3, SameDesign DEF designVars
<1>7. LoopTypeOK'
    BY <1>1, <1>3, <1>4, <1>5, <1>6, TypesStay
<1>8. loop.repairs \in Nat /\ loop.step \in Nat /\ MaxTotalRepair \in Nat
    BY <1>1, LoopAssumption DEF LoopSet
<1>9. StepInv'
    BY <1>1, <1>2, <1>3, <1>4, <1>5, <1>8 DEF StepInv, Running
<1>10. EvidenceInv'
    BY <1>2, <1>3, <1>4, <1>5 DEF Inv, EvidenceInv
<1>11. ValidatedOk(files.passed, loop.open) => turn.kept /\ turn.full
    BY <1>1, <1>3 DEF Inv, SuccessInv, Running, DesignInv, GoalInv
<1>12. SuccessInv'
    BY <1>2, <1>3, <1>4, <1>5, <1>11
       DEF SuccessInv, Running, Succeeded, DesktopSuccessIsProven, ValidatedOk
<1> QED BY <1>6, <1>7, <1>9, <1>10, <1>12 DEF Inv, LoopInv

\* What the gate looks at are the results after the turn's start.
LEMMA VisibleFacts ==
    ASSUME Inv, NEW n \in DOMAIN Visible
    PROVE  /\ memory.start + n \in DOMAIN memory.results /\ memory.start \in Nat
           /\ n \in Nat /\ n >= 1 /\ Visible[n] = memory.results[memory.start + n]
<1>1. PICK rs, s : rs = memory.results /\ s = memory.start
    OBVIOUS
<1>2. rs \in Seq(Result) /\ s \in Nat /\ Len(rs) \in Nat /\ DOMAIN rs = 1..Len(rs)
    <2>1. rs \in Seq(Result) /\ s \in Nat
        BY <1>1, InvTypes DEF MemorySet
    <2> QED BY <2>1, LenProperties
<1>3. PICK vis : vis = SubSeq(rs, s + 1, Len(rs))
    OBVIOUS
<1>4. \A i \in s + 1..Len(rs) : rs[i] \in Result
    BY <1>2, ElementOfSeq
<1>5. /\ vis \in Seq(Result)
      /\ Len(vis) = IF s + 1 <= Len(rs) THEN Len(rs) - s ELSE 0
      /\ \A i \in 1..Len(rs) - s : vis[i] = rs[s + i]
    BY <1>2, <1>3, <1>4, SubSeqProperties
<1>6. Visible = vis /\ DOMAIN vis = 1..Len(vis)
    BY <1>1, <1>3, <1>5, LenProperties DEF Visible
<1>7. n \in 1..Len(vis)
    BY <1>6
<1>8. s + 1 <= Len(rs)
    BY <1>5, <1>7
<1>9. n \in 1..Len(rs) - s
    BY <1>5, <1>7, <1>8
<1>10. s + n \in DOMAIN rs
    BY <1>2, <1>9
<1> QED BY <1>1, <1>2, <1>5, <1>6, <1>9, <1>10

\* Without a failed call in sight, a follow-up on the desktop passes its check on
\* a verified act only.
LEMMA JudgedOnProof ==
    ASSUME Inv, loop.at = "acted", ~turn.full, loop.desktop, NEW v \in Ticked(Judged), ~Open(v)
    PROVE  {"failed", "proof"} \cap Range(memory.results) # {}
<1>1. memory.results \in Seq(Result) /\ memory.start \in Nat
    BY InvTypes DEF MemorySet
<1>2. Range(Visible) \subseteq Range(memory.results)
    BY VisibleFacts DEF Range
<1>3. CASE Seen("failed")
    BY <1>2, <1>3 DEF Seen
<1>4. CASE ~Seen("failed") /\ Proven
    <2>1. CASE loop.early = "computer"
        BY <2>1 DEF Inv, EvidenceInv
    <2>2. CASE Seen("proof")
        BY <1>2, <2>2 DEF Seen
    <2> QED BY <1>4, <2>1, <2>2 DEF Proven
<1>5. CASE ~Seen("failed") /\ ~Proven
    <2>1. PICK w \in Judged : v.verdict = w.verdict /\ v.defect = w.defect
        BY TickedType DEF Inv, LoopInv
    <2>2. PICK d \in Defect : w = [passed |-> files.passed, verdict |-> "repair", defect |-> d]
        BY <1>5, <2>1 DEF Judged, Rejected
    <2>3. Open(v)
        BY <2>1, <2>2, LoopAssumption DEF Open
    <2> QED BY <2>3
<1> QED BY <1>3, <1>4, <1>5

LEMMA JudgeInv == ASSUME Inv, Judge PROVE Inv'
<1>1. /\ files \in FileSet /\ turn \in TurnSet /\ memory \in MemorySet
      /\ Len(memory.results) <= KeptResults /\ cancelled \in BOOLEAN /\ DesignInv /\ LoopInv
      /\ LoopTypeOK /\ StepInv /\ loop \in LoopSet
    BY InvTypes DEF Inv, LoopInv
<1>2. PICK v \in Ticked(Judged) : \E broke \in BOOLEAN, l \in LoopSet :
          /\ l.at = "acted" /\ Weigh(l, v.passed, broke)
          /\ v \in VerdictSet /\ files' = [files EXCEPT !.passed = v.passed]
          /\ l.open = Open(v) /\ l.gated
          /\ l.step = loop.step /\ l.desktop = loop.desktop
          /\ l.broken = loop.broken /\ l.early = loop.early
          /\ l.repairs <= loop.step /\ l.repairs <= MaxTotalRepair
          /\ ~ValidatedOk(v.passed, l.open) => l.repairs = l.total
    BY <1>1, JudgeFacts
<1>3. PICK broke \in BOOLEAN, l \in LoopSet :
          /\ l.at = "acted" /\ Weigh(l, v.passed, broke)
          /\ v \in VerdictSet /\ files' = [files EXCEPT !.passed = v.passed]
          /\ l.open = Open(v) /\ l.gated
          /\ l.step = loop.step /\ l.desktop = loop.desktop
          /\ l.broken = loop.broken /\ l.early = loop.early
          /\ l.repairs <= loop.step /\ l.repairs <= MaxTotalRepair
          /\ ~ValidatedOk(v.passed, l.open) => l.repairs = l.total
    BY <1>2
<1>4. loop.at = "acted" /\ UNCHANGED <<turn, turns, granted, memory, cancelled>>
    BY <1>1, JudgeFacts
<1>5. PICK n : n = loop'
    OBVIOUS
<1>6. v.passed \in 0..Goals
    BY <1>3 DEF VerdictSet
<1>7. /\ n \in LoopSet /\ n.at \in {"top", "asking", "out"}
      /\ n.at # "out" =>
             /\ l.same < MaxSameRepair /\ l.total < MaxTotalRepair /\ l.step < MaxSteps
             /\ ~ValidatedOk(v.passed, l.open)
      /\ n.at = "top" => n.step = l.step + 1 /\ n.early = "no"
      /\ n.at # "top" => n.step = l.step /\ n.early = l.early /\ n.gated = l.gated
      /\ n.same = l.same /\ n.total = l.total /\ n.repairs = l.repairs
      /\ n.open = l.open /\ n.desktop = l.desktop /\ n.broken = l.broken
      /\ n.at = "out" /\ n.final = "success" =>
             ~cancelled /\ ValidatedOk(v.passed, l.open)
    BY <1>1, <1>3, <1>5, <1>6, WeighType
<1>8. PICK f : f = [files EXCEPT !.passed = v.passed]
    OBVIOUS
<1>9. /\ f \in FileSet /\ f.approved = files.approved /\ f.task = files.task
      /\ f.passed = v.passed
    BY <1>1, <1>6, <1>8 DEF FileSet
<1>10. turn.pc = "looping"
    BY <1>1, <1>4 DEF StepInv
<1>11. DesignInv'
    BY <1>1, <1>3, <1>4, <1>8, <1>9, <1>10, LoopingDesign
<1>12. LoopTypeOK'
    BY <1>1, <1>4, <1>5, <1>7, <1>11, TypesStay
<1>13. l.repairs \in Nat /\ loop.step \in Nat /\ MaxTotalRepair \in Nat
    BY <1>1, <1>3, LoopAssumption DEF LoopSet
<1>14. StepInv'
    <2>1. /\ n.at # "out" => n.repairs = n.total
          /\ n.at = "top" => n.repairs < n.step
          /\ n.at # "top" => n.repairs <= n.step
          /\ n.repairs <= MaxTotalRepair
        <3>1. l.repairs <= loop.step /\ l.step = loop.step /\ l.repairs <= MaxTotalRepair
            BY <1>3
        <3>2. n.repairs = l.repairs /\ n.total = l.total
            BY <1>7
        <3>3. n.at # "out" => n.repairs = n.total
            BY <1>3, <1>7
        <3>4. n.at = "top" => n.step = loop.step + 1
            BY <1>7, <3>1
        <3>5. n.at # "top" => n.step = loop.step
            BY <1>7, <3>1
        <3> QED BY <1>13, <3>1, <3>2, <3>3, <3>4, <3>5
    <2>2. turn'.pc = "looping"
        BY <1>4, <1>10
    <2>3. n.at # "out" => n.same < MaxSameRepair /\ n.total < MaxTotalRepair
        BY <1>7
    <2>4. n.at = "asking" => n.step < MaxSteps
        BY <1>7
    <2> QED BY <1>5, <1>7, <2>1, <2>2, <2>3, <2>4 DEF StepInv, Running
<1>15. EvidenceInv'
    BY <1>3, <1>4, <1>5, <1>7 DEF Inv, EvidenceInv
<1>16. ASSUME Succeeded' PROVE ~cancelled /\ ~Open(v) /\ loop'.gated
    BY <1>3, <1>5, <1>7, <1>16 DEF Succeeded, ValidatedOk
<1>17. DesktopSuccessIsProven'
    BY <1>3, <1>4, <1>5, <1>7, <1>16, JudgedOnProof DEF DesktopSuccessIsProven
<1>18. Running' => ~ValidatedOk(files'.passed, loop'.open)
    BY <1>3, <1>5, <1>7, <1>8, <1>9 DEF Running
<1>19. SuccessInv'
    BY <1>4, <1>16, <1>17, <1>18 DEF SuccessInv
<1> QED BY <1>11, <1>12, <1>14, <1>15, <1>19 DEF Inv, LoopInv

-----------------------------------------------------------------------------
\* The turn around its loop

LEMMA StartLoopInv == ASSUME Inv, StartLoop PROVE Inv'
<1>1. /\ files \in FileSet /\ files.passed \in 0..Goals /\ turn \in TurnSet /\ memory \in MemorySet
      /\ Len(memory.results) <= KeptResults /\ cancelled \in BOOLEAN /\ DesignInv /\ StepInv
      /\ granted \in BOOLEAN /\ turns \in 0..MaxTurns
    BY InvTypes, DesignTypes DEF FileSet
<1>2. PICK desktop \in BOOLEAN :
          loop' = [NoLoop EXCEPT !.at = "top", !.step = 1, !.desktop = desktop, !.best = files.passed]
    BY DEF StartLoop
<1>3. /\ turn.pc = "acting" /\ UNCHANGED <<files, turns, granted, cancelled>>
      /\ memory' = [memory EXCEPT !.start = Len(memory.results)] /\ turn' = Looping
    BY DEF StartLoop
<1>4. PICK t : t = Looping
    OBVIOUS
<1>5. t \in TurnSet
    BY <1>1, <1>4, NoTurnType DEF Looping, TurnSet, Pc
<1>6. /\ t.pc = "looping" /\ ~t.build /\ ~t.yes /\ t.kept = turn.kept /\ t.full = turn.full
      /\ t.ask = turn.ask
    BY <1>4, NoTurnType DEF Looping, NoTurn
<1>7. DesignInv'
    BY <1>1, <1>3, <1>4, <1>5, <1>6, GoesDesign DEF DesignInv, PlanInv, GoalInv, Designed
<1>8. PICK l : l = [NoLoop EXCEPT !.at = "top", !.step = 1, !.desktop = desktop, !.best = files.passed]
    OBVIOUS
<1>9. l \in LoopSet
    <2>1. 1 \in 0..MaxSteps
        BY LoopAssumption
    <2> QED BY <1>1, <1>8, <2>1, NoLoopType DEF LoopSet
<1>10. /\ l.at = "top" /\ l.step = 1 /\ l.early = "no" /\ l.same = 0 /\ l.total = 0
       /\ l.repairs = 0 /\ ~l.open
    BY <1>8 DEF NoLoop
<1>11. loop' = l
    BY <1>2, <1>8
<1>12. PICK rs : rs = memory.results
    OBVIOUS
<1>13. rs \in Seq(Result) /\ Len(rs) \in 0..KeptResults /\ DOMAIN rs = 1..Len(rs)
    <2>1. rs \in Seq(Result)
        BY <1>1, <1>12 DEF MemorySet
    <2> QED BY <1>1, <1>12, <2>1, LenProperties, LoopAssumption
<1>14. PICK m : m = [memory EXCEPT !.start = Len(rs)]
    OBVIOUS
<1>15. m \in MemorySet
    BY <1>1, <1>13, <1>14 DEF MemorySet
<1>16. m.results = rs /\ m.start = Len(rs)
    BY <1>1, <1>12, <1>14 DEF MemorySet
<1>17. memory' = m
    BY <1>3, <1>12, <1>14
<1>18. LoopTypeOK'
    BY <1>1, <1>3, <1>7, <1>9, <1>11, <1>12, <1>15, <1>16, <1>17, TypesStay
<1>19. StepInv'
    BY <1>3, <1>4, <1>6, <1>10, <1>11, LoopAssumption DEF StepInv, Running
<1>20. EvidenceInv'
    BY <1>10, <1>11, <1>13, <1>16, <1>17 DEF EvidenceInv
<1>21. files.passed = Goals => turn.kept
    BY <1>1, <1>3, DesignAssumption DEF DesignInv, GoalInv, Designed
<1>22. SuccessInv'
    BY <1>3, <1>4, <1>6, <1>10, <1>11, <1>21
       DEF SuccessInv, Running, Succeeded, DesktopSuccessIsProven, ValidatedOk
<1> QED BY <1>7, <1>18, <1>19, <1>20, <1>22 DEF Inv, LoopInv

LEMMA FinishInv == ASSUME Inv, Finish PROVE Inv'
<1>1. /\ files \in FileSet /\ memory \in MemorySet /\ loop \in LoopSet
      /\ Len(memory.results) <= KeptResults /\ DesignInv
    BY InvTypes
<1>2. loop.final \in Status /\ "error" \in Status
    BY <1>1 DEF LoopSet, Status
<1>3. PICK status \in Status : turn' = Ended(status)
    BY <1>2 DEF Finish
<1>4. /\ loop' = NoLoop /\ cancelled' = FALSE /\ UNCHANGED <<files, turns, granted>>
      /\ memory' = [memory EXCEPT !.results = [n \in DOMAIN memory.results |-> "old"]]
    BY <1>1 DEF Finish, MemorySet
<1>5. DesignInv' /\ turn'.pc = "ended"
    BY <1>1, <1>3, <1>4, EndDesign, EndedType
<1>6. PICK old : old = [n \in DOMAIN memory.results |-> "old"]
    OBVIOUS
<1>7. old \in Seq(Result) /\ Len(old) = Len(memory.results)
    <2>1. PICK rs : rs = memory.results
        OBVIOUS
    <2>2. Len(rs) \in Nat /\ DOMAIN rs = 1..Len(rs)
        BY <1>1, <2>1, LenProperties DEF MemorySet
    <2>3. old = [n \in 1..Len(rs) |-> "old"]
        BY <1>6, <2>1, <2>2
    <2> QED BY <2>1, <2>2, <2>3 DEF Result
<1>8. PICK m : m = [memory EXCEPT !.results = old]
    OBVIOUS
<1>9. m \in MemorySet
    BY <1>1, <1>7, <1>8 DEF MemorySet
<1>10. m.results = old
    BY <1>1, <1>8 DEF MemorySet
<1>11. memory' = m
    BY <1>4, <1>6, <1>8
<1>12. NoLoop.at = "off" /\ NoLoop.early = "no" /\ NoLoop.repairs = 0
    BY DEF NoLoop
<1>13. LoopTypeOK'
    BY <1>1, <1>4, <1>5, <1>7, <1>9, <1>10, <1>11, NoLoopType, TypesStay
<1>14. StepInv'
    BY <1>4, <1>5, <1>12, LoopAssumption DEF StepInv, Running
<1>15. EvidenceInv' /\ SuccessInv'
    BY <1>4, <1>12 DEF EvidenceInv, SuccessInv, Running, Succeeded, DesktopSuccessIsProven
<1> QED BY <1>5, <1>13, <1>14, <1>15 DEF Inv, LoopInv

LEMMA CancelInv == ASSUME Inv, Cancel PROVE Inv'
<1>1. /\ cancelled' = TRUE /\ loop.at # "out"
      /\ UNCHANGED <<files, turn, turns, granted, loop, memory>>
    BY DEF Cancel, designVars
<1>2. DesignInv' /\ LoopTypeOK'
    BY <1>1, InvTypes, SameDesign, TypesStay DEF designVars
<1>3. StepInv'
    BY <1>1, InvTypes DEF StepInv, Running
<1>4. EvidenceInv'
    BY <1>1 DEF Inv, EvidenceInv
<1>5. SuccessInv'
    BY <1>1 DEF Inv, SuccessInv, Running, Succeeded, DesktopSuccessIsProven, ValidatedOk
<1> QED BY <1>2, <1>3, <1>4, <1>5 DEF Inv, LoopInv

\* Between the loops of two turns.
LEMMA AsideInv ==
    ASSUME Inv, DesignInv', UNCHANGED <<loop, memory>>, cancelled' \in {cancelled, FALSE},
           turn'.pc = "looping" <=> turn.pc = "looping",
           turn.pc = "looping" => UNCHANGED <<turn, cancelled>> /\ files'.passed = files.passed
    PROVE  Inv'
<1>1. LoopTypeOK'
    BY InvTypes, TypesStay
<1>2. StepInv'
    BY InvTypes DEF StepInv, Running
<1>3. EvidenceInv'
    BY DEF Inv, EvidenceInv
<1>4. loop.at # "off" => turn.pc = "looping"
    BY InvTypes DEF StepInv
<1>5. SuccessInv'
    BY <1>4 DEF Inv, SuccessInv, Running, Succeeded, DesktopSuccessIsProven, ValidatedOk
<1> QED BY <1>1, <1>2, <1>3, <1>5 DEF Inv, LoopInv

LEMMA AroundInv == ASSUME Inv, Begin \/ Other PROVE Inv'
<1>1. DesignInv
    BY InvTypes
<1>2. CASE Begin
    <2>1. PICK m \in Messages, q \in BOOLEAN, h \in BOOLEAN : Enter(m, q, h)
        BY <1>2 DEF Begin
    <2>2. Idle
        BY <2>1 DEF Enter
    <2>3. DesignInv' /\ turn'.pc = "entered"
        BY <1>1, <2>1, EnterDesign
    <2> QED BY <1>2, <2>2, <2>3, AsideInv DEF Begin, Idle
<1>3. CASE Other
    <2>1. UNCHANGED <<loop, memory, cancelled>>
        BY <1>3 DEF Other, loopVars
    <2>2. (\E mode \in Mode : SwitchMode(mode)) \/ DesignStep \/ Answered \/ SaveDesign
        BY <1>3 DEF Other
    <2> QED BY <1>1, <2>1, <2>2, StepDesign, StepAside, AsideInv
<1> QED BY <1>2, <1>3

LEMMA NextInv == ASSUME Inv, [Next]_vars PROVE Inv'
<1>1. CASE Next
    BY <1>1, AroundInv, StartLoopInv, LocalSteps, CallsInv, StopsEarlyInv, PassByInv, JudgeInv,
       FinishInv, CancelInv
       DEF Next, Acts
<1>2. CASE UNCHANGED vars
    <2>1. UNCHANGED <<files, turn, turns, granted, loop, memory, cancelled>>
        BY <1>2 DEF vars, designVars, loopVars
    <2>2. DesignInv'
        BY <2>1, InvTypes, SameDesign DEF designVars
    <2> QED BY <2>1, <2>2, AsideInv
<1> QED BY <1>1, <1>2

LEMMA Invariant == Spec => []Inv
  BY InitInv, NextInv, PTL DEF Spec

-----------------------------------------------------------------------------

\* The files, the turn and the variables of its loop have their types: the counters
\* stay within the limits of StopRules, and a session keeps at most KeptResults
\* results.
THEOREM LoopTypes == Spec => []LoopTypeOK
<1>1. Inv => LoopTypeOK
    BY DEF Inv, LoopInv
<1> QED BY <1>1, Invariant, PTL

\* No turn in Plan mode acts before a human asked for Build or approved a plan, and
\* what is built is plan.md as the human last saw or wrote it (the gate of
\* LoopController.run and _reload_plan_from_disk).
THEOREM OnlyApprovedPlansAct == Spec => []OnlyApprovedPlansAreBuilt
<1>1. Inv => OnlyApprovedPlansAreBuilt
    BY DEF Inv, LoopInv, DesignInv, PlanInv, OnlyApprovedPlansAreBuilt
<1> QED BY <1>1, Invariant, PTL

\* Whatever the model, the verifier and the monitor answer, a turn that ends in
\* success was verified in its last step and not cancelled before, or took up the
\* very same ask whose goals had passed (decide_control and StopRules.evaluate).
THEOREM SuccessesAreGated == Spec => []SuccessIsGated
<1>1. Inv => SuccessIsGated
    <2> SUFFICES ASSUME Inv, Succeeded, ~loop.broken
                 PROVE  ~cancelled /\ (loop.gated \/ (turn.kept /\ files.task = turn.ask))
        BY DEF SuccessIsGated
    <2>1. ~cancelled /\ (loop.gated \/ turn.kept)
        BY DEF Inv, SuccessInv
    <2>2. turn.pc = "looping"
        BY InvTypes DEF StepInv, Succeeded
    <2>3. turn.kept => files.task = turn.ask
        BY <2>2, InvTypes DEF DesignInv, GoalInv
    <2> QED BY <2>1, <2>3
<1> QED BY <1>1, Invariant, PTL

\* A turn asks for at most MaxTotalRepair repairs before a human is asked, however
\* its plans and questions come between them (decide_control's counters).
THEOREM RepairsAreBounded == Spec => []RepairIsBounded
<1>1. Inv => RepairIsBounded
    BY InvTypes DEF StepInv, RepairIsBounded
<1> QED BY <1>1, Invariant, PTL

\* The gate never takes a result of an earlier turn for evidence of this one, also
\* after the oldest results were dropped (begin_turn and record_tool).
THEOREM GatesSeeFreshEvidence == Spec => []EvidenceIsFresh
<1>1. Inv => EvidenceIsFresh
    <2> SUFFICES ASSUME Inv, loop.at # "off", Seen("old") PROVE FALSE
        BY DEF EvidenceIsFresh
    <2>1. PICK n \in DOMAIN Visible : Visible[n] = "old"
        BY DEF Seen, Range
    <2>2. /\ memory.start + n \in DOMAIN memory.results /\ memory.start \in Nat
          /\ n \in Nat /\ n >= 1 /\ memory.results[memory.start + n] = "old"
        BY <2>1, VisibleFacts
    <2>3. memory.start + n <= memory.start
        BY <2>2 DEF Inv, EvidenceInv
    <2> QED BY <2>2, <2>3
<1> QED BY <1>1, Invariant, PTL

\* A follow-up on the desktop ends in success on a verified act only, as long as no
\* call is known to have failed (the deterministic check of a follow-up's gate).
THEOREM DesktopSuccessesAreProven == Spec => []DesktopSuccessIsProven
<1>1. Inv => DesktopSuccessIsProven
    BY DEF Inv, SuccessInv
<1> QED BY <1>1, Invariant, PTL
=============================================================================
