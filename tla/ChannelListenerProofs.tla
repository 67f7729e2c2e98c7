------------------------ MODULE ChannelListenerProofs -----------------------
(***************************************************************************)
(* For any updates, chats, message ids, replies and number of deaths of    *)
(* the listener: a message starts at most one turn (AnswerInv); the        *)
(* accounts of the outbound queue add up (OutboxInv: the listener holds    *)
(* the row of the part it delivers, and each claim that nobody holds was   *)
(* left by a death); as long as nothing failed, an idle listener has       *)
(* nothing left to answer or to deliver (QuietInv, which adds that the     *)
(* updates come in order and that a reply has a part to send for each of   *)
(* its rows that is not delivered); and the types (TypeInv).               *)
(***************************************************************************)
EXTENDS ChannelListener, SequenceTheorems, FiniteSetTheorems, WellFoundedInduction, TLAPS

-----------------------------------------------------------------------------
\* The part of the type invariant that the first argument rests on.  The queues of a
\* reply and the outbound rows play no part in it.

Shape ==
    listener = [pc |-> listener.pc, offset |-> listener.offset, batch |-> listener.batch,
                update |-> listener.update, queueing |-> listener.queueing,
                sending |-> listener.sending, row |-> listener.row]

ListenerOK ==
    /\ Shape
    /\ listener.pc \in Pc
    /\ listener.offset \in Nat
    /\ listener.batch \in Seq(Update)
    /\ listener.pc # "idle" => listener.update \in Update

CountersOK ==
    /\ arrived \in 0..MaxUpdates
    /\ confirmed \in Nat
    /\ turns \in [Update -> Nat]

Alike(u, v) == MessageIdOf[u] = MessageIdOf[v]

\* A turn was run for registered messages only, and once for each of them.
TurnsAreRegistered ==
    \A u \in Update : turns[u] # 0 => turns[u] = 1 /\ MessageIdOf[u] \in inbound

TurnsDiffer ==
    \A u, v \in Update : (turns[u] # 0 /\ turns[v] # 0 /\ Alike(u, v)) => u = v

\* The message whose turn is about to run is registered and had none.
AboutToAnswer ==
    listener.pc = "turn" =>
        /\ MessageIdOf[listener.update] \in inbound
        /\ \A v \in Update : Alike(listener.update, v) => turns[v] = 0

AnswerInv ==
    ListenerOK /\ CountersOK /\ TurnsAreRegistered /\ TurnsDiffer /\ AboutToAnswer

-----------------------------------------------------------------------------
LEMMA MaxOfTwo ==
    ASSUME NEW a \in Int, NEW b \in Int
    PROVE  Max({a, b}) \in {a, b} /\ Max({a, b}) >= a /\ Max({a, b}) >= b
  BY DEF Max

LEMMA InitAnswer == Init => AnswerInv
  BY ChannelAssumption
  DEF Init, AnswerInv, ListenerOK, Shape, CountersOK, TurnsAreRegistered, TurnsDiffer,
      AboutToAnswer, Started, Pc

\* A step that registers nothing and runs no turn keeps the invariant, as long as
\* it leaves the listener sound and about to run no turn it was not about to run.
LEMMA QuietStep ==
    ASSUME AnswerInv, ListenerOK', CountersOK', UNCHANGED <<inbound, turns>>,
           listener'.pc = "turn" => listener.pc = "turn" /\ listener'.update = listener.update
    PROVE  AnswerInv'
  BY DEF AnswerInv, TurnsAreRegistered, TurnsDiffer, AboutToAnswer, Alike

LEMMA PollKeeps == AnswerInv /\ Poll => AnswerInv'
<1> SUFFICES ASSUME AnswerInv, Poll PROVE AnswerInv'
    OBVIOUS
<1> DEFINE forgotten == Max({confirmed, listener.offset - 1})
           batch     == [i \in 1..(arrived - forgotten) |-> forgotten + i]
<1>1. confirmed \in Nat /\ listener.offset \in Nat /\ arrived \in 0..MaxUpdates
    BY DEF AnswerInv, ListenerOK, CountersOK
<1>2. forgotten \in Nat
    <2>1. confirmed \in Int /\ listener.offset - 1 \in Int
        BY <1>1
    <2>2. forgotten \in {confirmed, listener.offset - 1} /\ forgotten >= confirmed
        BY <2>1, MaxOfTwo, Zenon
    <2> QED BY <1>1, <2>2
<1>3. batch \in Seq(Update)
    <2>1. PICK n \in Nat : 1..(arrived - forgotten) = 1..n
        <3>1. CASE arrived >= forgotten
            BY <3>1, <1>1, <1>2
        <3>2. CASE arrived < forgotten
            <4>1. 1..(arrived - forgotten) = 1..0
                BY <3>2, <1>1, <1>2
            <4> QED BY <4>1
        <3> QED BY <3>1, <3>2, <1>1, <1>2
    <2>2. \A i \in 1..(arrived - forgotten) : forgotten + i \in Update
        BY <1>1, <1>2, ChannelAssumption DEF Update
    <2>3. batch \in [1..n -> Update]
        BY <2>1, <2>2
    <2> HIDE DEF batch
    <2> QED BY <2>3, SeqDef, Zenon
<1>4. /\ listener' = [listener EXCEPT !.batch = batch]
      /\ confirmed' = forgotten
      /\ UNCHANGED <<arrived, inbound, turns>>
    BY DEF Poll
<1> HIDE DEF forgotten, batch
<1>5. ListenerOK'
    BY <1>3, <1>4 DEF AnswerInv, ListenerOK, Shape, Pc
<1>6. CountersOK'
    BY <1>2, <1>4 DEF AnswerInv, CountersOK
<1> QED BY <1>4, <1>5, <1>6, QuietStep DEF AnswerInv, ListenerOK, Shape

LEMMA TakeKeeps == AnswerInv /\ Take => AnswerInv'
<1> SUFFICES ASSUME AnswerInv, Take PROVE AnswerInv'
    OBVIOUS
<1> DEFINE u == Head(listener.batch)
<1>1. listener.batch \in Seq(Update) /\ listener.batch # <<>> /\ listener.offset \in Nat
    BY DEF AnswerInv, ListenerOK, Take
<1>2. u \in Update /\ Tail(listener.batch) \in Seq(Update)
    BY <1>1
<1>3. NextOffset(u) \in Nat
    <2>1. u + 1 \in Int /\ u + 1 \in Nat /\ listener.offset \in Int
        BY <1>1, <1>2 DEF Update
    <2>2. NextOffset(u) \in {listener.offset, u + 1}
        BY <2>1, MaxOfTwo, Zenon DEF NextOffset
    <2> QED BY <1>1, <2>1, <2>2
<1>4. /\ listener' = [listener EXCEPT !.pc = "taken", !.update = u,
                                     !.batch = Tail(listener.batch), !.offset = NextOffset(u)]
      /\ UNCHANGED <<arrived, confirmed, inbound, turns>>
    BY DEF Take
<1> HIDE DEF u
<1>5. ListenerOK'
    BY <1>2, <1>3, <1>4 DEF AnswerInv, ListenerOK, Shape, Pc
<1>6. listener'.pc = "taken"
    BY <1>4 DEF AnswerInv, ListenerOK, Shape
<1>7. CountersOK'
    BY <1>4 DEF AnswerInv, CountersOK
<1> QED BY <1>4, <1>5, <1>6, <1>7, QuietStep

LEMMA RegisterKeeps == AnswerInv /\ Register => AnswerInv'
<1> SUFFICES ASSUME AnswerInv, Register PROVE AnswerInv'
    OBVIOUS
<1> DEFINE u == listener.update
<1>1. /\ listener.pc = "taken" /\ u \in Update
      /\ inbound' = inbound \cup {MessageIdOf[u]}
      /\ listener' = [listener EXCEPT !.pc = IF Known(u) THEN "idle" ELSE "turn"]
      /\ UNCHANGED <<arrived, confirmed, turns>>
    BY DEF Register, AnswerInv, ListenerOK
<1>2. /\ listener'.update = u
      /\ listener'.pc = IF Known(u) THEN "idle" ELSE "turn"
    BY <1>1 DEF AnswerInv, ListenerOK, Shape
<1>3. ListenerOK'
    BY <1>1 DEF AnswerInv, ListenerOK, Shape, Pc
<1>4. CountersOK' /\ TurnsDiffer'
    BY <1>1 DEF AnswerInv, CountersOK, TurnsDiffer, Alike
<1>5. TurnsAreRegistered'
    BY <1>1 DEF AnswerInv, TurnsAreRegistered
<1>6. AboutToAnswer'
    <2> SUFFICES ASSUME ~Known(u), listener'.pc = "turn" PROVE AboutToAnswer'
        BY <1>2 DEF AboutToAnswer
    <2>1. MessageIdOf[u] \notin inbound
        BY DEF Known
    <2>2. \A v \in Update : Alike(u, v) => turns[v] = 0
        BY <2>1 DEF AnswerInv, TurnsAreRegistered, Alike
    <2> QED BY <1>1, <1>2, <2>2 DEF AboutToAnswer, Alike
<1> QED BY <1>3, <1>4, <1>5, <1>6 DEF AnswerInv

LEMMA TurnKeeps == AnswerInv /\ Turn => AnswerInv'
<1> SUFFICES ASSUME AnswerInv, Turn PROVE AnswerInv'
    OBVIOUS
<1> DEFINE u == listener.update
<1>1. /\ listener.pc = "turn" /\ u \in Update
      /\ turns' = [turns EXCEPT ![u] = @ + 1]
      /\ UNCHANGED <<arrived, confirmed, inbound>>
    BY DEF Turn, AnswerInv, ListenerOK
<1>2. ListenerOK' /\ listener'.pc = "replying"
    BY DEF Turn, AnswerInv, ListenerOK, Shape, Pc
<1>3. MessageIdOf[u] \in inbound /\ \A v \in Update : Alike(u, v) => turns[v] = 0
    BY <1>1 DEF AnswerInv, AboutToAnswer
<1>4. turns \in [Update -> Nat]
    BY DEF AnswerInv, CountersOK
<1>5. turns[u] = 0
    BY <1>1, <1>3 DEF Alike
<1>6. turns'[u] = 1 /\ \A v \in Update \ {u} : turns'[v] = turns[v]
    BY <1>1, <1>4, <1>5
<1>7. CountersOK'
    BY <1>1, <1>4 DEF AnswerInv, CountersOK
<1>8. TurnsAreRegistered'
    BY <1>1, <1>3, <1>6 DEF AnswerInv, TurnsAreRegistered
<1>9. TurnsDiffer'
    BY <1>3, <1>6 DEF AnswerInv, TurnsDiffer, Alike
<1> QED BY <1>2, <1>7, <1>8, <1>9 DEF AnswerInv, AboutToAnswer

\* The rest of the loop, Telegram, time and crashes.
LEMMA OthersKeep ==
    ASSUME AnswerInv,
           \/ Arrive \/ Lose \/ Queue \/ Claim \/ Send \/ SendFails
           \/ Acknowledge \/ Release \/ Done \/ Crash
           \/ (\E i \in DOMAIN outbound : Age(i) \/ Ripen(i)) \/ UNCHANGED vars
    PROVE  AnswerInv'
<1> USE DEF AnswerInv, ListenerOK, CountersOK, Shape, Pc
<1>0. ASSUME listener' = GivenUp PROVE ListenerOK' /\ listener'.pc = "idle"
    <2>1. <<>> \in Seq(Update)
        OBVIOUS
    <2> QED BY <1>0, <2>1 DEF GivenUp
<1>1. CASE Arrive
    BY <1>1, QuietStep, ChannelAssumption DEF Arrive
<1>2. CASE Lose
    BY <1>0, <1>2, QuietStep DEF Lose
<1>3. CASE Queue
    BY <1>3, QuietStep DEF Queue
<1>4. CASE Claim
    BY <1>4, QuietStep DEF Claim
<1>5. CASE Send
    BY <1>5, QuietStep DEF Send
<1>6. CASE SendFails
    BY <1>6, QuietStep DEF SendFails
<1>7. CASE Acknowledge
    BY <1>7, QuietStep DEF Acknowledge
<1>8. CASE Release
    BY <1>0, <1>8, QuietStep DEF Release
<1>9. CASE Done
    BY <1>0, <1>9, QuietStep DEF Done
<1>10. CASE Crash
    BY <1>10, QuietStep DEF Crash, Started
<1>11. CASE \E i \in DOMAIN outbound : Age(i) \/ Ripen(i)
    BY <1>11, QuietStep DEF Age, Ripen
<1>12. CASE UNCHANGED vars
    BY <1>12, QuietStep DEF vars
<1> QED BY <1>1, <1>2, <1>3, <1>4, <1>5, <1>6, <1>7, <1>8, <1>9, <1>10, <1>11, <1>12

LEMMA NextAnswer == AnswerInv /\ [Next]_vars => AnswerInv'
  BY PollKeeps, TakeKeeps, RegisterKeeps, TurnKeeps, OthersKeep DEF Next, Listen

\* "Duplicate inbound events are ignored before starting an agent turn"
\* (CHANNELS.md): however often Telegram delivers a message, edits of it included,
\* and however often the listener dies and starts anew, it starts one turn.
THEOREM MessagesAreAnsweredOnce == Spec => []OneTurnPerMessage
<1>1. AnswerInv => OneTurnPerMessage
    BY DEF AnswerInv, CountersOK, TurnsAreRegistered, TurnsDiffer, OneTurnPerMessage, Alike
<1> QED BY <1>1, InitAnswer, NextAnswer, PTL DEF Spec

-----------------------------------------------------------------------------
\* The least-number principle, and what it says of the oldest row that is ready.

Below == {ss \in Nat \X Nat : ss[1] < ss[2]}

LEMMA BelowIsWellFounded == IsWellFoundedOn(Below, Nat)
  BY NatLessThanWellFounded DEF OpToRel, Below

LEMMA MinOfSet ==
    ASSUME NEW I \in SUBSET Nat, I # {}
    PROVE  Min(I) \in I /\ \A y \in I : Min(I) <= y
<1>1. PICK x \in I : \A y \in I : <<y, x>> \notin Below
    BY BelowIsWellFounded, WFMin
<1>2. \A y \in I : ~(y < x)
    BY <1>1 DEF Below
<1>3. \A y \in I : x <= y
    BY <1>2
<1> QED BY <1>1, <1>3 DEF Min

-----------------------------------------------------------------------------
\* The accounts of the queue.

MessageId == {MessageIdOf[u] : u \in Update}

Text == {Apology} \cup UNION {Range(reply) : reply \in Reply}

OutRow == [key : MessageId \X Text, chat : Chat, text : Text, status : Status]

Delivered(c) == {i \in Rows({"delivered"}) : outbound[i].chat = c}

\* The message that is sent and not yet acknowledged.
Owed(c) == IF listener.pc = "sent" /\ ListenerChat = c THEN 1 ELSE 0

\* The claims that nobody holds.
Orphans == Rows({"processing", "stale"}) \ {listener.row}

OutboxTypeOK ==
    /\ outbound \in Seq(OutRow)
    /\ listener.queueing \in Seq(Text) /\ listener.sending \in Seq(Text)
    /\ sent \in [Chat -> Nat]
    /\ crashes \in Nat

\* The listener holds the row of the part it delivers, if there is one, and no
\* other: it is claimed for this chat.
ClaimIsHeld ==
    /\ listener.pc \notin {"claimed", "sent", "failed"} => listener.row = 0
    /\ listener.row # 0 => /\ listener.row \in DOMAIN outbound
                           /\ outbound[listener.row].status = "processing"
                           /\ outbound[listener.row].chat = ListenerChat
    /\ listener.pc \in {"claimed", "sent", "failed"} => listener.sending # <<>>

DeliveriesAreCounted == \A c \in Chat : Cardinality(Delivered(c)) + Owed(c) <= sent[c]

OrphansAreCounted == Cardinality(Orphans) <= crashes

OutboxInv == OutboxTypeOK /\ ClaimIsHeld /\ DeliveriesAreCounted /\ OrphansAreCounted

LEMMA RowsFinite ==
    ASSUME outbound \in Seq(OutRow)
    PROVE  /\ DOMAIN outbound = 1..Len(outbound) /\ Len(outbound) \in Nat
           /\ \A status : IsFiniteSet(Rows(status)) /\ Rows(status) \subseteq DOMAIN outbound
           /\ \A c : IsFiniteSet(Delivered(c))
           /\ IsFiniteSet(Orphans)
<1>1. DOMAIN outbound = 1..Len(outbound) /\ Len(outbound) \in Nat
    BY LenProperties
<1>2. IsFiniteSet(DOMAIN outbound)
    BY <1>1, FS_Interval
<1>3. \A status : Rows(status) \in SUBSET (DOMAIN outbound)
    BY DEF Rows
<1>4. \A status : IsFiniteSet(Rows(status))
    BY <1>2, <1>3, FS_Subset
<1>5. \A c : Delivered(c) \in SUBSET Rows({"delivered"})
    BY DEF Delivered
<1>6. Orphans \in SUBSET Rows({"processing", "stale"})
    BY DEF Orphans
<1> QED BY <1>1, <1>3, <1>4, <1>5, <1>6, FS_Subset

\* One element more is at most one more.
LEMMA AtMostOneMore ==
    ASSUME NEW S, IsFiniteSet(S), NEW x, NEW T, T \subseteq S \cup {x}
    PROVE  /\ Cardinality(T) \in Nat /\ Cardinality(S) \in Nat
           /\ Cardinality(T) <= Cardinality(S) + 1
<1>1. IsFiniteSet(S \cup {x}) /\ Cardinality(S \cup {x}) <= Cardinality(S) + 1
    <2>1. Cardinality(S) \in Nat
        BY FS_CardinalityType
    <2> QED BY <2>1, FS_AddElement
<1>2. IsFiniteSet(T) /\ Cardinality(T) <= Cardinality(S \cup {x})
    BY <1>1, FS_Subset
<1>3. Cardinality(T) \in Nat /\ Cardinality(S) \in Nat /\ Cardinality(S \cup {x}) \in Nat
    BY <1>1, <1>2, FS_CardinalityType
<1> QED BY <1>1, <1>2, <1>3

LEMMA NoMore ==
    ASSUME NEW S, IsFiniteSet(S), NEW T, T \subseteq S
    PROVE  /\ Cardinality(T) \in Nat /\ Cardinality(S) \in Nat
           /\ Cardinality(T) <= Cardinality(S)
<1>1. IsFiniteSet(T) /\ Cardinality(T) <= Cardinality(S)
    BY FS_Subset
<1> QED BY <1>1, FS_CardinalityType

\* A step that delivers nothing, claims nothing and owes nothing.
LEMMA AccountsKept ==
    ASSUME OutboxInv, ListenerOK', sent' = sent, crashes' = crashes, listener'.pc # "sent",
           \A c \in Chat : Delivered(c)' \subseteq Delivered(c),
           Orphans' \subseteq Orphans
    PROVE  DeliveriesAreCounted' /\ OrphansAreCounted'
<1>1. DeliveriesAreCounted'
    <2> SUFFICES ASSUME NEW c \in Chat
                 PROVE  Cardinality(Delivered(c)') + Owed(c)' <= sent[c]
        BY DEF DeliveriesAreCounted
    <2>1. /\ Cardinality(Delivered(c)') \in Nat /\ Cardinality(Delivered(c)) \in Nat
          /\ Cardinality(Delivered(c)') <= Cardinality(Delivered(c))
        BY RowsFinite, NoMore DEF OutboxInv, OutboxTypeOK
    <2>2. Owed(c)' = 0 /\ Owed(c) \in Nat /\ sent[c] \in Nat
        BY DEF Owed, OutboxInv, OutboxTypeOK
    <2>3. Cardinality(Delivered(c)) + Owed(c) <= sent[c]
        BY DEF OutboxInv, DeliveriesAreCounted
    <2> HIDE DEF Owed
    <2> QED BY <2>1, <2>2, <2>3
<1>2. OrphansAreCounted'
    <2>1. /\ Cardinality(Orphans') \in Nat /\ Cardinality(Orphans) \in Nat
          /\ Cardinality(Orphans') <= Cardinality(Orphans)
        BY RowsFinite, NoMore DEF OutboxInv, OutboxTypeOK
    <2>2. crashes \in Nat /\ Cardinality(Orphans) <= crashes
        BY DEF OutboxInv, OutboxTypeOK, OrphansAreCounted
    <2> QED BY <2>1, <2>2 DEF OrphansAreCounted
<1> QED BY <1>1, <1>2

LEMMA InitOutbox == Init => OutboxInv
<1> SUFFICES ASSUME Init PROVE OutboxInv
    OBVIOUS
<1>1. Rows({"delivered"}) = {} /\ Rows({"processing", "stale"}) = {}
    BY DEF Init, Rows
<1>2. (\A c : Delivered(c) = {}) /\ Orphans = {}
    BY <1>1 DEF Delivered, Orphans
<1>3. Cardinality({}) = 0
    BY FS_EmptySet
<1>4. listener.pc = "idle" /\ listener.row = 0 /\ listener.queueing = <<>> /\ listener.sending = <<>>
    BY DEF Init, Started
<1>5. OutboxTypeOK
    <2>1. <<>> \in Seq(OutRow) /\ <<>> \in Seq(Text)
        OBVIOUS
    <2>2. sent = [c \in Chat |-> 0] /\ crashes = 0 /\ outbound = <<>>
        BY DEF Init
    <2> QED BY <1>4, <2>1, <2>2 DEF OutboxTypeOK
<1>6. DeliveriesAreCounted
    <2>1. \A c \in Chat : Cardinality(Delivered(c)) = 0 /\ Owed(c) = 0 /\ sent[c] = 0
        BY <1>2, <1>3, <1>4 DEF Owed, Init
    <2> QED BY <2>1 DEF DeliveriesAreCounted
<1>7. OrphansAreCounted
    BY <1>2, <1>3 DEF OrphansAreCounted, Init
<1>8. ClaimIsHeld
    BY <1>4 DEF ClaimIsHeld
<1> QED BY <1>5, <1>6, <1>7, <1>8 DEF OutboxInv

\* Steps without the queue: the listener holds no row, before and after.
LEMMA PlainOutbox ==
    ASSUME OutboxInv, ListenerOK', UNCHANGED <<outbound, sent, crashes>>,
           listener.row = 0, listener'.row = 0,
           listener'.pc \notin {"claimed", "sent", "failed"},
           listener'.queueing \in Seq(Text), listener'.sending \in Seq(Text)
    PROVE  OutboxInv'
<1>1. OutboxTypeOK'
    BY DEF OutboxInv, OutboxTypeOK
<1>2. ClaimIsHeld'
    BY DEF ClaimIsHeld
<1>3. (\A c \in Chat : Delivered(c)' \subseteq Delivered(c)) /\ Orphans' \subseteq Orphans
    BY DEF Delivered, Orphans, Rows
<1> QED BY <1>1, <1>2, <1>3, AccountsKept DEF OutboxInv

LEMMA SameOutbox ==
    ASSUME OutboxInv, UNCHANGED <<outbound, sent, crashes, listener>>
    PROVE  OutboxInv'
<1>1. OutboxTypeOK' /\ ClaimIsHeld'
    BY ChannelAssumption DEF OutboxInv, OutboxTypeOK, ClaimIsHeld, ListenerChat
<1>2. /\ \A c \in Chat : Delivered(c)' = Delivered(c) /\ Owed(c)' = Owed(c)
      /\ Orphans' = Orphans
    BY DEF Delivered, Orphans, Rows, Owed, ListenerChat
<1>3. DeliveriesAreCounted' /\ OrphansAreCounted'
    BY <1>2 DEF OutboxInv, DeliveriesAreCounted, OrphansAreCounted
<1> QED BY <1>1, <1>3 DEF OutboxInv

LEMMA RepliesAreTexts ==
    /\ \A reply \in Reply : reply \in Seq(Text)
    /\ <<Apology>> \in Seq(Text) /\ <<>> \in Seq(Text)
<1>1. ASSUME NEW reply \in Reply
      PROVE  reply \in Seq(Text)
    <2>1. reply \in Seq(Range(reply)) /\ Range(reply) \subseteq Text
        BY ChannelAssumption DEF Text
    <2> QED BY <2>1, SeqMonotonic
<1>2. Apology \in Text
    BY DEF Text
<1> QED BY <1>1, <1>2

LEMMA PlainSteps ==
    ASSUME AnswerInv, AnswerInv', OutboxInv,
           Poll \/ Take \/ Lose \/ Register \/ Turn \/ Done
    PROVE  OutboxInv'
<1>1. /\ UNCHANGED <<outbound, sent, crashes>>
      /\ listener.pc \in {"idle", "taken", "turn", "replying"}
    BY DEF Poll, Take, Lose, Register, Turn, Done
<1>2. Shape /\ listener.row = 0
      /\ listener.queueing \in Seq(Text) /\ listener.sending \in Seq(Text)
    BY <1>1 DEF AnswerInv, ListenerOK, OutboxInv, ClaimIsHeld, OutboxTypeOK
<1>3. CASE Poll \/ Take \/ Register
    <2>1. /\ listener'.row = 0 /\ listener'.pc \in {"idle", "taken", "turn"}
          /\ listener'.queueing = listener.queueing /\ listener'.sending = listener.sending
        <3>1. CASE Poll
            <4>1. PICK batch : listener' = [listener EXCEPT !.batch = batch]
                BY <3>1 DEF Poll
            <4> QED BY <1>2, <3>1, <4>1 DEF Poll, Shape
        <3>2. CASE Take
            <4>1. PICK batch, offset, update :
                     listener' = [listener EXCEPT !.pc = "taken", !.update = update,
                                                  !.batch = batch, !.offset = offset]
                BY <3>2 DEF Take
            <4> QED BY <1>2, <4>1 DEF Shape
        <3>3. CASE Register
            <4>1. PICK pc \in {"idle", "turn"} : listener' = [listener EXCEPT !.pc = pc]
                BY <3>3 DEF Register
            <4> QED BY <1>2, <4>1 DEF Shape
        <3> QED BY <1>3, <3>1, <3>2, <3>3
    <2> QED BY <1>1, <1>2, <2>1, PlainOutbox DEF AnswerInv
<1>4. CASE Turn
    <2>1. PICK queueing \in Seq(Text), sending \in Seq(Text) :
             listener' = [listener EXCEPT !.pc = "replying", !.queueing = queueing,
                                          !.sending = sending]
        <3>1. ASSUME NEW reply \in Reply,
                     listener' = [listener EXCEPT !.pc = "replying", !.queueing = reply,
                                                  !.sending = reply]
              PROVE  \E queueing \in Seq(Text), sending \in Seq(Text) :
                        listener' = [listener EXCEPT !.pc = "replying", !.queueing = queueing,
                                                     !.sending = sending]
            BY <3>1, RepliesAreTexts
        <3>2. CASE listener' = [listener EXCEPT !.pc = "replying", !.sending = <<Apology>>]
            <4>1. listener' = [listener EXCEPT !.pc = "replying",
                                 !.queueing = listener.queueing, !.sending = <<Apology>>]
                BY <1>2, <3>2 DEF Shape
            <4> QED BY <1>2, <4>1, RepliesAreTexts
        <3> QED BY <1>4, <3>1, <3>2 DEF Turn
    <2>2. /\ listener'.row = 0 /\ listener'.pc = "replying"
          /\ listener'.queueing = queueing /\ listener'.sending = sending
        BY <1>2, <2>1 DEF Shape
    <2> QED BY <1>1, <1>2, <2>2, PlainOutbox DEF AnswerInv
<1>5. CASE Lose \/ Done
    <2>1. /\ listener'.row = 0 /\ listener'.pc = "idle"
          /\ listener'.queueing \in Seq(Text) /\ listener'.sending \in Seq(Text)
        <3>1. listener' = GivenUp \/ listener' = [listener EXCEPT !.pc = "idle"]
            BY <1>5 DEF Lose, Done
        <3> QED BY <1>2, <3>1, RepliesAreTexts DEF GivenUp, Shape
    <2> QED BY <1>1, <1>2, <2>1, PlainOutbox DEF AnswerInv
<1> QED BY <1>3, <1>4, <1>5

\* The listener dies with at most one claim.
LEMMA CrashOutbox == OutboxInv /\ Crash => OutboxInv'
<1> SUFFICES ASSUME OutboxInv, Crash PROVE OutboxInv'
    OBVIOUS
<1>1. /\ UNCHANGED <<outbound, sent>> /\ crashes' = crashes + 1
      /\ listener' = Started
    BY DEF Crash
<1>2. /\ listener'.pc = "idle" /\ listener'.row = 0
      /\ listener'.queueing = <<>> /\ listener'.sending = <<>>
    BY <1>1 DEF Started
<1>3. OutboxTypeOK' /\ ClaimIsHeld'
    BY <1>1, <1>2, RepliesAreTexts DEF OutboxInv, OutboxTypeOK, ClaimIsHeld
<1>4. DeliveriesAreCounted'
    <2>1. \A c \in Chat : Delivered(c)' = Delivered(c) /\ Owed(c)' = 0 /\ Owed(c) \in {0, 1}
        BY <1>1, <1>2 DEF Delivered, Rows, Owed
    <2>2. \A c \in Chat : Cardinality(Delivered(c)) \in Nat /\ sent[c] \in Nat
        BY RowsFinite, FS_CardinalityType DEF OutboxInv, OutboxTypeOK
    <2>3. \A c \in Chat : Cardinality(Delivered(c)) + Owed(c) <= sent[c]
        BY DEF OutboxInv, DeliveriesAreCounted
    <2>4. \A c \in Chat : Cardinality(Delivered(c)) <= sent[c]
        BY <2>1, <2>2, <2>3
    <2>5. \A c \in Chat : Cardinality(Delivered(c)) + 0 <= sent[c]
        BY <2>2, <2>4
    <2> QED BY <1>1, <2>1, <2>5 DEF DeliveriesAreCounted
<1>5. OrphansAreCounted'
    <2>1. Orphans' \subseteq Orphans \cup {listener.row}
        BY <1>1 DEF Orphans, Rows
    <2>2. /\ Cardinality(Orphans') \in Nat /\ Cardinality(Orphans) \in Nat
          /\ Cardinality(Orphans') <= Cardinality(Orphans) + 1
        BY <2>1, RowsFinite, AtMostOneMore DEF OutboxInv, OutboxTypeOK
    <2>3. crashes \in Nat /\ Cardinality(Orphans) <= crashes
        BY DEF OutboxInv, OutboxTypeOK, OrphansAreCounted
    <2> QED BY <1>1, <2>2, <2>3 DEF OrphansAreCounted
<1> QED BY <1>3, <1>4, <1>5 DEF OutboxInv

\* The rows after a mark: nothing changes but the status of one.
LEMMA RowMarked ==
    ASSUME outbound \in Seq(OutRow), NEW i \in DOMAIN outbound, NEW status \in Status,
           outbound' = [outbound EXCEPT ![i].status = status]
    PROVE  /\ outbound' \in Seq(OutRow)
           /\ DOMAIN outbound' = DOMAIN outbound
           /\ outbound'[i].status = status
           /\ \A j \in DOMAIN outbound \ {i} : outbound'[j] = outbound[j]
           /\ \A j \in DOMAIN outbound :
                 /\ outbound'[j].chat = outbound[j].chat /\ outbound'[j].text = outbound[j].text
                 /\ outbound'[j].key = outbound[j].key
<1>1. DOMAIN outbound = 1..Len(outbound) /\ Len(outbound) \in Nat
    BY LenProperties
<1>2. PICK row : row = [outbound[i] EXCEPT !.status = status]
    OBVIOUS
<1>3. outbound[i] \in OutRow
    BY <1>1, ElementOfSeq
<1>4. /\ row \in OutRow /\ row.status = status
      /\ row.chat = outbound[i].chat /\ row.text = outbound[i].text
      /\ row.key = outbound[i].key
    BY <1>2, <1>3 DEF OutRow
<1>5. outbound' = [outbound EXCEPT ![i] = row]
    BY <1>2
<1>6. /\ outbound' \in Seq(OutRow) /\ Len(outbound') = Len(outbound)
      /\ \A j \in 1..Len(outbound) : outbound'[j] = IF j = i THEN row ELSE outbound[j]
    BY <1>1, <1>4, <1>5, ExceptSeq
<1>7. DOMAIN outbound' = 1..Len(outbound')
    BY <1>6, LenProperties
<1> QED BY <1>1, <1>4, <1>6, <1>7

\* A claim: stale rows are recovered, and the row it takes was ready.
LEMMA ClaimFacts ==
    ASSUME outbound \in Seq(OutRow), Shape, Claim
    PROVE  /\ outbound' \in Seq(OutRow)
           /\ DOMAIN outbound' = DOMAIN outbound
           /\ \A j \in DOMAIN outbound :
                 /\ outbound'[j].chat = outbound[j].chat /\ outbound'[j].text = outbound[j].text
                 /\ outbound'[j].key = outbound[j].key
           /\ \A j \in DOMAIN outbound \ {listener'.row} :
                 outbound'[j].status = IF outbound[j].status = "stale" THEN "pending"
                                       ELSE outbound[j].status
           /\ listener'.row = 0 =>
                 \A j \in DOMAIN outbound :
                    ~(outbound[j].status = "pending" /\ outbound[j].chat = ListenerChat)
           /\ listener'.row # 0 =>
                 /\ listener'.row \in DOMAIN outbound
                 /\ outbound[listener'.row].status \in {"pending", "stale"}
                 /\ outbound[listener'.row].chat = ListenerChat
                 /\ outbound'[listener'.row].status = "processing"
           /\ listener' = [listener EXCEPT !.pc = "claimed", !.row = listener'.row]
<1>1. DOMAIN outbound = 1..Len(outbound) /\ Len(outbound) \in Nat /\ 0 \notin DOMAIN outbound
    BY LenProperties
<1>2. PICK n \in Nat : n = Len(outbound)
    BY <1>1
<1>3. PICK rows : rows = [i \in DOMAIN outbound |->
                             IF outbound[i].status = "stale"
                             THEN [outbound[i] EXCEPT !.status = "pending"] ELSE outbound[i]]
    OBVIOUS
<1>4. \A i \in DOMAIN outbound :
         /\ rows[i] \in OutRow
         /\ rows[i].chat = outbound[i].chat /\ rows[i].text = outbound[i].text
         /\ rows[i].key = outbound[i].key
         /\ rows[i].status = IF outbound[i].status = "stale" THEN "pending"
                             ELSE outbound[i].status
    <2>1. ASSUME NEW i \in DOMAIN outbound
          PROVE  /\ rows[i] \in OutRow
                 /\ rows[i].chat = outbound[i].chat /\ rows[i].text = outbound[i].text
                 /\ rows[i].key = outbound[i].key
                 /\ rows[i].status = IF outbound[i].status = "stale" THEN "pending"
                                     ELSE outbound[i].status
        <3>1. outbound[i] \in OutRow
            BY <1>1, ElementOfSeq
        <3> QED BY <1>3, <3>1 DEF OutRow, Status
    <2> QED BY <2>1
<1>5. rows \in Seq(OutRow) /\ Len(rows) = n
    <2>1. rows \in [1..n -> OutRow]
        BY <1>1, <1>2, <1>3, <1>4
    <2>2. rows \in Seq(OutRow)
        BY <2>1, SeqDef
    <2> QED BY <2>1, <2>2, LenProperties
<1>6. PICK ready \in SUBSET Nat : ready = {i \in 1..Len(rows) : Ready(rows[i])}
    <2>1. {i \in 1..Len(rows) : Ready(rows[i])} \in SUBSET Nat
        BY <1>2, <1>5
    <2> QED BY <2>1
<1>7. PICK r : r = IF ready # {} THEN Min(ready) ELSE 0
    OBVIOUS
<1>8. r = SelectInSeq(rows, Ready)
    BY <1>6, <1>7 DEF SelectInSeq
<1>9. /\ outbound' = IF r = 0 THEN rows ELSE [rows EXCEPT ![r].status = "processing"]
      /\ listener' = [listener EXCEPT !.pc = "claimed", !.row = r]
    BY <1>3, <1>8 DEF Claim
<1>10. listener'.row = r
    BY <1>9 DEF Shape
<1>11. ready # {} => r \in ready
    BY <1>7, MinOfSet
<1>12. 0 \notin ready
    BY <1>6
<1>13. CASE ready = {}
    <2>1. r = 0 /\ outbound' = rows
        BY <1>7, <1>9, <1>13
    <2>2. \A j \in DOMAIN outbound : ~Ready(rows[j])
        BY <1>1, <1>2, <1>5, <1>6, <1>13
    <2>3. DOMAIN outbound' = DOMAIN outbound /\ outbound' \in Seq(OutRow)
        BY <1>3, <1>5, <2>1
    <2>4. \A j \in DOMAIN outbound :
             ~(outbound[j].status = "pending" /\ outbound[j].chat = ListenerChat)
        BY <1>4, <2>2 DEF Ready
    <2> QED BY <1>4, <1>9, <1>10, <2>1, <2>3, <2>4
<1>14. CASE ready # {}
    <2>1. r \in 1..n /\ r # 0 /\ Ready(rows[r])
        BY <1>5, <1>6, <1>11, <1>12, <1>14
    <2>2. PICK row : row = [rows[r] EXCEPT !.status = "processing"]
        OBVIOUS
    <2>3. /\ row \in OutRow /\ row.status = "processing"
          /\ row.chat = rows[r].chat /\ row.text = rows[r].text
          /\ row.key = rows[r].key
        BY <1>1, <1>2, <1>4, <2>1, <2>2 DEF OutRow, Status
    <2>4. outbound' = [rows EXCEPT ![r] = row]
        BY <1>9, <2>1, <2>2
    <2>5. /\ outbound' \in Seq(OutRow) /\ Len(outbound') = n
          /\ \A j \in 1..n : outbound'[j] = IF j = r THEN row ELSE rows[j]
        BY <1>5, <2>1, <2>3, <2>4, ExceptSeq
    <2>6. DOMAIN outbound' = DOMAIN outbound
        BY <1>1, <1>2, <2>5, LenProperties
    <2>7. outbound[r].status \in {"pending", "stale"} /\ outbound[r].chat = ListenerChat
        BY <1>1, <1>2, <1>4, <2>1 DEF Ready
    <2>8. outbound'[r] = row /\ \A j \in DOMAIN outbound \ {r} : outbound'[j] = rows[j]
        BY <1>1, <1>2, <2>1, <2>5
    <2> QED BY <1>1, <1>2, <1>4, <1>9, <1>10, <2>1, <2>3, <2>5, <2>6, <2>7, <2>8
<1> QED BY <1>13, <1>14

\* The steps of a delivery.
LEMMA QueueOutbox == AnswerInv /\ AnswerInv' /\ OutboxInv /\ Queue => OutboxInv'
<1> SUFFICES ASSUME AnswerInv, AnswerInv', OutboxInv, Queue PROVE OutboxInv'
    OBVIOUS
<1>1. PICK text, key, row :
         /\ text = Head(listener.queueing) /\ key = <<MessageIdOf[listener.update], text>>
         /\ row = [key |-> key, chat |-> ListenerChat, text |-> text, status |-> "pending"]
         /\ outbound' = IF Queued(key) THEN outbound ELSE Append(outbound, row)
         /\ listener.pc = "replying" /\ listener.queueing # <<>>
         /\ listener' = [listener EXCEPT !.queueing = Tail(listener.queueing)]
         /\ UNCHANGED <<sent, crashes>>
    BY DEF Queue, NewStatus
<1>2. /\ Shape /\ outbound \in Seq(OutRow) /\ listener.queueing \in Seq(Text)
      /\ listener.update \in Update
    BY <1>1 DEF AnswerInv, ListenerOK, OutboxInv, OutboxTypeOK
<1>3. text \in Text /\ Tail(listener.queueing) \in Seq(Text)
    BY <1>1, <1>2, HeadTailProperties
<1>4. /\ listener'.pc = "replying" /\ listener'.row = listener.row
      /\ listener'.queueing \in Seq(Text) /\ listener'.sending = listener.sending
    BY <1>1, <1>2, <1>3 DEF Shape
<1>5. ListenerChat \in Chat
    BY <1>2, ChannelAssumption DEF ListenerChat
<1>6. row \in OutRow /\ row.status = "pending"
    <2>1. MessageIdOf[listener.update] \in MessageId
        BY <1>2 DEF MessageId
    <2> QED BY <1>1, <1>3, <1>5, <2>1 DEF OutRow, Status
<1>7. /\ outbound' \in Seq(OutRow)
      /\ \A j \in DOMAIN outbound' :
            \/ j \in DOMAIN outbound /\ outbound'[j] = outbound[j]
            \/ outbound'[j].status = "pending"
    <2>1. CASE outbound' = outbound
        BY <1>2, <2>1
    <2>2. CASE outbound' = Append(outbound, row)
        <3>1. /\ outbound' \in Seq(OutRow) /\ Len(outbound') = Len(outbound) + 1
              /\ \A j \in 1..Len(outbound) : outbound'[j] = outbound[j]
              /\ outbound'[Len(outbound) + 1] = row
            BY <1>2, <1>6, <2>2, AppendProperties
        <3>2. /\ DOMAIN outbound = 1..Len(outbound) /\ Len(outbound) \in Nat
              /\ DOMAIN outbound' = 1..Len(outbound')
            BY <1>2, <3>1, LenProperties
        <3>3. \A j \in DOMAIN outbound' : j \in DOMAIN outbound \/ j = Len(outbound) + 1
            BY <3>1, <3>2
        <3> QED BY <1>6, <3>1, <3>2, <3>3
    <2> QED BY <1>1, <2>1, <2>2
<1>8. OutboxTypeOK' /\ ClaimIsHeld'
    BY <1>1, <1>4, <1>7 DEF OutboxInv, OutboxTypeOK, ClaimIsHeld
<1>9. (\A c \in Chat : Delivered(c)' \subseteq Delivered(c)) /\ Orphans' \subseteq Orphans
    BY <1>4, <1>7 DEF Delivered, Orphans, Rows
<1> QED BY <1>1, <1>4, <1>8, <1>9, AccountsKept DEF OutboxInv, AnswerInv

LEMMA ClaimOutbox == AnswerInv /\ AnswerInv' /\ OutboxInv /\ Claim => OutboxInv'
<1> SUFFICES ASSUME AnswerInv, AnswerInv', OutboxInv, Claim PROVE OutboxInv'
    OBVIOUS
<1>1. /\ Shape /\ outbound \in Seq(OutRow)
      /\ listener.pc = "replying" /\ listener.sending # <<>>
      /\ UNCHANGED <<sent, crashes>>
    BY DEF Claim, AnswerInv, ListenerOK, OutboxInv, OutboxTypeOK
<1>2. PICK r : r = listener'.row
    OBVIOUS
<1>3. /\ outbound' \in Seq(OutRow) /\ DOMAIN outbound' = DOMAIN outbound
      /\ \A j \in DOMAIN outbound : outbound'[j].chat = outbound[j].chat
      /\ \A j \in DOMAIN outbound \ {r} :
            outbound'[j].status = IF outbound[j].status = "stale" THEN "pending"
                                  ELSE outbound[j].status
      /\ r # 0 => /\ r \in DOMAIN outbound /\ outbound'[r].status = "processing"
                  /\ outbound[r].chat = ListenerChat
      /\ listener' = [listener EXCEPT !.pc = "claimed", !.row = r]
    BY <1>1, <1>2, ClaimFacts
<1>4. /\ listener'.pc = "claimed" /\ listener'.row = r /\ listener'.update = listener.update
      /\ listener'.queueing = listener.queueing /\ listener'.sending = listener.sending
    BY <1>1, <1>3 DEF Shape
<1>5. listener.row = 0
    BY <1>1 DEF OutboxInv, ClaimIsHeld
<1>6. OutboxTypeOK'
    BY <1>1, <1>3, <1>4 DEF OutboxInv, OutboxTypeOK
<1>7. ClaimIsHeld'
    BY <1>1, <1>3, <1>4 DEF ClaimIsHeld, ListenerChat
<1>8. \A c \in Chat : Delivered(c)' \subseteq Delivered(c)
    BY <1>3, RowsFinite DEF Delivered, Rows, OutboxInv, OutboxTypeOK
<1>9. Orphans' \subseteq Orphans
    <2>1. 0 \notin DOMAIN outbound
        BY <1>1, RowsFinite
    <2> QED BY <1>3, <1>4, <1>5, <2>1 DEF Orphans, Rows
<1> QED BY <1>1, <1>4, <1>6, <1>7, <1>8, <1>9, AccountsKept DEF OutboxInv, AnswerInv

LEMMA SendOutbox ==
    ASSUME AnswerInv, AnswerInv', OutboxInv, Send \/ SendFails
    PROVE  OutboxInv'
<1>1. /\ Shape /\ listener.pc = "claimed" /\ UNCHANGED <<outbound, crashes>>
      /\ listener.update \in Update
    BY DEF Send, SendFails, AnswerInv, ListenerOK
<1>2. PICK c \in Chat : c = ListenerChat
    BY <1>1, ChannelAssumption DEF ListenerChat
<1>3. /\ listener' = [listener EXCEPT !.pc = listener'.pc]
      /\ \/ listener'.pc = "sent" /\ sent' = [sent EXCEPT ![c] = @ + 1]
         \/ listener'.pc = "failed" /\ (sent' = sent \/ sent' = [sent EXCEPT ![c] = @ + 1])
    BY <1>1, <1>2 DEF Send, SendFails, Receives, Shape
<1>4. /\ listener'.row = listener.row /\ listener'.update = listener.update
      /\ listener'.queueing = listener.queueing /\ listener'.sending = listener.sending
    BY <1>1, <1>3 DEF Shape
<1>5. sent \in [Chat -> Nat]
    BY DEF OutboxInv, OutboxTypeOK
<1>6. OutboxTypeOK'
    BY <1>1, <1>3, <1>4, <1>5 DEF OutboxInv, OutboxTypeOK
<1>7. ClaimIsHeld'
    BY <1>1, <1>3, <1>4 DEF OutboxInv, ClaimIsHeld, ListenerChat
<1>8. OrphansAreCounted'
    BY <1>1, <1>4 DEF OutboxInv, OrphansAreCounted, Orphans, Rows
<1>9. DeliveriesAreCounted'
    <2> SUFFICES ASSUME NEW d \in Chat
                 PROVE  Cardinality(Delivered(d)') + Owed(d)' <= sent'[d]
        BY DEF DeliveriesAreCounted
    <2>1. Delivered(d)' = Delivered(d)
        BY <1>1 DEF Delivered, Rows
    <2>2. Cardinality(Delivered(d)) \in Nat
        BY RowsFinite, FS_CardinalityType DEF OutboxInv, OutboxTypeOK
    <2>3. Owed(d) = 0 /\ Cardinality(Delivered(d)) + Owed(d) <= sent[d]
        BY <1>1 DEF Owed, OutboxInv, DeliveriesAreCounted
    <2>4. /\ Owed(d)' \in {0, 1} /\ sent'[d] \in Nat /\ sent'[d] >= sent[d]
          /\ Owed(d)' = 1 => sent'[d] = sent[d] + 1
        BY <1>2, <1>3, <1>4, <1>5 DEF Owed, ListenerChat
    <2> HIDE DEF Owed
    <2> QED BY <1>5, <2>1, <2>2, <2>3, <2>4
<1> QED BY <1>6, <1>7, <1>8, <1>9 DEF OutboxInv

LEMMA AcknowledgeOutbox == AnswerInv /\ AnswerInv' /\ OutboxInv /\ Acknowledge => OutboxInv'
<1> SUFFICES ASSUME AnswerInv, AnswerInv', OutboxInv, Acknowledge PROVE OutboxInv'
    OBVIOUS
<1>1. /\ Shape /\ listener.pc = "sent" /\ UNCHANGED <<sent, crashes>>
      /\ outbound' = Marked("delivered")
      /\ listener' = [listener EXCEPT !.pc = "replying", !.sending = Tail(listener.sending),
                                      !.row = 0]
    BY DEF Acknowledge, AnswerInv, ListenerOK
<1>2. /\ outbound \in Seq(OutRow) /\ listener.sending \in Seq(Text) /\ listener.sending # <<>>
      /\ sent \in [Chat -> Nat] /\ crashes \in Nat
      /\ listener.row # 0 => /\ listener.row \in DOMAIN outbound
                             /\ outbound[listener.row].status = "processing"
                             /\ outbound[listener.row].chat = ListenerChat
    BY <1>1 DEF OutboxInv, OutboxTypeOK, ClaimIsHeld
<1>3. /\ listener'.pc = "replying" /\ listener'.row = 0
      /\ listener'.queueing = listener.queueing /\ listener'.sending \in Seq(Text)
    BY <1>1, <1>2, HeadTailProperties DEF Shape
<1>4. /\ outbound' \in Seq(OutRow) /\ DOMAIN outbound' = DOMAIN outbound
      /\ \A j \in DOMAIN outbound : outbound'[j].chat = outbound[j].chat
      /\ \A j \in DOMAIN outbound \ {listener.row} : outbound'[j] = outbound[j]
      /\ listener.row # 0 => outbound'[listener.row].status = "delivered"
    <2>1. CASE listener.row = 0
        BY <1>1, <1>2, <2>1 DEF Marked
    <2>2. CASE listener.row # 0
        <3>1. outbound' = [outbound EXCEPT ![listener.row].status = "delivered"]
            BY <1>1, <2>2 DEF Marked
        <3>2. PICK i \in DOMAIN outbound : i = listener.row
            BY <1>2, <2>2
        <3>3. outbound' = [outbound EXCEPT ![i].status = "delivered"] /\ "delivered" \in Status
            BY <3>1, <3>2 DEF Status
        <3> QED BY <1>2, <3>2, <3>3, RowMarked
    <2> QED BY <2>1, <2>2
<1>5. OutboxTypeOK' /\ ClaimIsHeld'
    BY <1>1, <1>3, <1>4 DEF OutboxInv, OutboxTypeOK, ClaimIsHeld
<1>6. OrphansAreCounted'
    <2>1. Orphans' \subseteq Orphans
        BY <1>3, <1>4 DEF Orphans, Rows
    <2>2. /\ Cardinality(Orphans') \in Nat /\ Cardinality(Orphans) \in Nat
          /\ Cardinality(Orphans') <= Cardinality(Orphans)
        BY <1>2, <2>1, RowsFinite, NoMore
    <2>3. Cardinality(Orphans) <= crashes
        BY DEF OutboxInv, OrphansAreCounted
    <2> QED BY <1>1, <1>2, <2>2, <2>3 DEF OrphansAreCounted
<1>7. DeliveriesAreCounted'
    <2> SUFFICES ASSUME NEW d \in Chat
                 PROVE  Cardinality(Delivered(d)') + Owed(d)' <= sent[d]
        BY <1>1 DEF DeliveriesAreCounted
    <2>1. Owed(d)' = 0
        BY <1>3 DEF Owed
    <2>2. Cardinality(Delivered(d)) + Owed(d) <= sent[d] /\ sent[d] \in Nat
        BY <1>2 DEF OutboxInv, DeliveriesAreCounted
    <2>3. CASE d = ListenerChat
        <3>1. Delivered(d)' \subseteq Delivered(d) \cup {listener.row}
            BY <1>4 DEF Delivered, Rows
        <3>2. /\ Cardinality(Delivered(d)') \in Nat /\ Cardinality(Delivered(d)) \in Nat
              /\ Cardinality(Delivered(d)') <= Cardinality(Delivered(d)) + 1
            BY <1>2, <3>1, RowsFinite, AtMostOneMore
        <3>3. Owed(d) = 1
            BY <1>1, <2>3 DEF Owed
        <3> QED BY <2>1, <2>2, <3>2, <3>3
    <2>4. CASE d # ListenerChat
        <3>1. Delivered(d)' \subseteq Delivered(d)
            BY <1>2, <1>4, <2>4, RowsFinite DEF Delivered, Rows
        <3>2. /\ Cardinality(Delivered(d)') \in Nat /\ Cardinality(Delivered(d)) \in Nat
              /\ Cardinality(Delivered(d)') <= Cardinality(Delivered(d))
            BY <1>2, <3>1, RowsFinite, NoMore
        <3>3. Owed(d) = 0
            BY <2>4 DEF Owed
        <3> QED BY <2>1, <2>2, <3>2, <3>3
    <2> QED BY <2>3, <2>4
<1> QED BY <1>5, <1>6, <1>7 DEF OutboxInv

LEMMA ReleaseOutbox == AnswerInv /\ AnswerInv' /\ OutboxInv /\ Release => OutboxInv'
<1> SUFFICES ASSUME AnswerInv, AnswerInv', OutboxInv, Release PROVE OutboxInv'
    OBVIOUS
<1>1. /\ Shape /\ listener.pc = "failed" /\ UNCHANGED <<sent, crashes>>
      /\ outbound' = Marked("waiting") /\ listener' = GivenUp
    BY DEF Release, ReleasedStatus, AnswerInv, ListenerOK
<1>2. /\ outbound \in Seq(OutRow)
      /\ listener.row # 0 => /\ listener.row \in DOMAIN outbound
                             /\ outbound[listener.row].status = "processing"
    BY DEF OutboxInv, OutboxTypeOK, ClaimIsHeld
<1>3. /\ listener'.pc = "idle" /\ listener'.row = 0
      /\ listener'.queueing = <<>> /\ listener'.sending = <<>>
    BY <1>1 DEF GivenUp, Shape
<1>4. /\ outbound' \in Seq(OutRow) /\ DOMAIN outbound' = DOMAIN outbound
      /\ \A j \in DOMAIN outbound \ {listener.row} : outbound'[j] = outbound[j]
      /\ listener.row # 0 => outbound'[listener.row].status = "waiting"
    <2>1. CASE listener.row = 0
        BY <1>1, <1>2, <2>1 DEF Marked
    <2>2. CASE listener.row # 0
        <3>1. outbound' = [outbound EXCEPT ![listener.row].status = "waiting"]
            BY <1>1, <2>2 DEF Marked
        <3>2. PICK i \in DOMAIN outbound : i = listener.row
            BY <1>2, <2>2
        <3>3. outbound' = [outbound EXCEPT ![i].status = "waiting"] /\ "waiting" \in Status
            BY <3>1, <3>2 DEF Status
        <3> QED BY <1>2, <3>2, <3>3, RowMarked
    <2> QED BY <2>1, <2>2
<1>5. OutboxTypeOK' /\ ClaimIsHeld'
    BY <1>1, <1>3, <1>4, RepliesAreTexts DEF OutboxInv, OutboxTypeOK, ClaimIsHeld
<1>6. 0 \notin DOMAIN outbound
    BY <1>2, RowsFinite
<1>7. (\A c \in Chat : Delivered(c)' \subseteq Delivered(c)) /\ Orphans' \subseteq Orphans
    BY <1>2, <1>3, <1>4, <1>6 DEF Delivered, Orphans, Rows
<1> QED BY <1>1, <1>3, <1>5, <1>7, AccountsKept DEF OutboxInv, AnswerInv

\* A claim that nobody holds goes stale, a released row becomes available again.
LEMMA TimeOutbox ==
    ASSUME OutboxInv, NEW i \in DOMAIN outbound, Age(i) \/ Ripen(i)
    PROVE  OutboxInv'
<1>1. PICK status \in {"stale", "pending"} :
         /\ outbound' = [outbound EXCEPT ![i].status = status]
         /\ \/ status = "stale" /\ outbound[i].status = "processing" /\ i # listener.row
            \/ status = "pending" /\ outbound[i].status = "waiting"
    BY DEF Age, Ripen
<1>2. UNCHANGED <<listener, sent, crashes>>
    BY DEF Age, Ripen
<1>3. outbound \in Seq(OutRow) /\ status \in Status
    BY DEF OutboxInv, OutboxTypeOK, Status
<1>4. /\ outbound' \in Seq(OutRow) /\ DOMAIN outbound' = DOMAIN outbound
      /\ outbound'[i].status = status
      /\ \A j \in DOMAIN outbound \ {i} : outbound'[j] = outbound[j]
    BY <1>1, <1>3, RowMarked
<1>5. i # listener.row
    BY <1>1 DEF OutboxInv, ClaimIsHeld
<1>6. OutboxTypeOK'
    BY <1>2, <1>4 DEF OutboxInv, OutboxTypeOK
<1>7. ClaimIsHeld'
    BY <1>2, <1>4, <1>5 DEF OutboxInv, ClaimIsHeld, ListenerChat
<1>8. (\A c \in Chat : Delivered(c)' \subseteq Delivered(c)) /\ Orphans' \subseteq Orphans
    BY <1>1, <1>2, <1>4 DEF Delivered, Orphans, Rows
<1>9. DeliveriesAreCounted'
    <2> SUFFICES ASSUME NEW c \in Chat
                 PROVE  Cardinality(Delivered(c)') + Owed(c)' <= sent[c]
        BY <1>2 DEF DeliveriesAreCounted
    <2>1. /\ Cardinality(Delivered(c)') \in Nat /\ Cardinality(Delivered(c)) \in Nat
          /\ Cardinality(Delivered(c)') <= Cardinality(Delivered(c))
        BY <1>3, <1>8, RowsFinite, NoMore
    <2>2. Owed(c)' = Owed(c) /\ Owed(c) \in Nat /\ sent[c] \in Nat
        BY <1>2 DEF Owed, ListenerChat, OutboxInv, OutboxTypeOK
    <2>3. Cardinality(Delivered(c)) + Owed(c) <= sent[c]
        BY DEF OutboxInv, DeliveriesAreCounted
    <2> HIDE DEF Owed
    <2> QED BY <2>1, <2>2, <2>3
<1>10. OrphansAreCounted'
    <2>1. /\ Cardinality(Orphans') \in Nat /\ Cardinality(Orphans) \in Nat
          /\ Cardinality(Orphans') <= Cardinality(Orphans)
        BY <1>3, <1>8, RowsFinite, NoMore
    <2>2. crashes \in Nat /\ Cardinality(Orphans) <= crashes
        BY DEF OutboxInv, OutboxTypeOK, OrphansAreCounted
    <2> QED BY <1>2, <2>1, <2>2 DEF OrphansAreCounted
<1> QED BY <1>6, <1>7, <1>9, <1>10 DEF OutboxInv

LEMMA NextOutbox == AnswerInv /\ AnswerInv' /\ OutboxInv /\ [Next]_vars => OutboxInv'
<1> SUFFICES ASSUME AnswerInv, AnswerInv', OutboxInv, [Next]_vars PROVE OutboxInv'
    OBVIOUS
<1>1. CASE Arrive \/ UNCHANGED vars
    <2>1. UNCHANGED <<outbound, sent, crashes, listener>>
        BY <1>1 DEF Arrive, vars
    <2> QED BY <2>1, SameOutbox
<1>2. CASE Poll \/ Take \/ Lose \/ Register \/ Turn \/ Done
    BY <1>2, PlainSteps
<1>3. CASE Crash
    BY <1>3, CrashOutbox
<1>4. CASE Queue
    BY <1>4, QueueOutbox
<1>5. CASE Claim
    BY <1>5, ClaimOutbox
<1>6. CASE Send \/ SendFails
    BY <1>6, SendOutbox
<1>7. CASE Acknowledge
    BY <1>7, AcknowledgeOutbox
<1>8. CASE Release
    BY <1>8, ReleaseOutbox
<1>9. ASSUME NEW i \in DOMAIN outbound, Age(i) \/ Ripen(i)
      PROVE  OutboxInv'
    BY <1>9, TimeOutbox
<1> QED BY <1>1, <1>2, <1>3, <1>4, <1>5, <1>6, <1>7, <1>8, <1>9 DEF Next, Listen

LEMMA Accounted == OutboxInv => OutboxIsAccounted
<1> SUFFICES ASSUME OutboxInv PROVE OutboxIsAccounted
    OBVIOUS
<1>1. ASSUME NEW c \in Chat
      PROVE  Cardinality({i \in Rows({"delivered"}) : outbound[i].chat = c}) <= sent[c]
    <2>1. Cardinality(Delivered(c)) \in Nat /\ Owed(c) \in Nat /\ sent[c] \in Nat
        BY RowsFinite, FS_CardinalityType DEF OutboxInv, OutboxTypeOK, Owed
    <2>2. Cardinality(Delivered(c)) + Owed(c) <= sent[c]
        BY DEF OutboxInv, DeliveriesAreCounted
    <2>3. Cardinality(Delivered(c)) <= sent[c]
        <3> HIDE DEF Owed
        <3> QED BY <2>1, <2>2
    <2> QED BY <2>3 DEF Delivered
<1>2. Cardinality(Rows({"processing", "stale"}) \ {listener.row}) <= crashes
    BY DEF OutboxInv, OrphansAreCounted, Orphans
<1> QED BY <1>1, <1>2 DEF OutboxIsAccounted

\* However claims fail, go stale, are taken over or are made for another text
\* (ChannelStore.claim_outbound, finish_outbound): no chat has more acknowledged rows
\* than it received messages, and every claim but the listener's own was left by one
\* of its deaths.
THEOREM OutboxAccounts == Spec => []OutboxIsAccounted
<1>1. AnswerInv /\ OutboxInv /\ [Next]_vars => AnswerInv' /\ OutboxInv'
    BY NextAnswer, NextOutbox
<1> QED BY <1>1, InitAnswer, InitOutbox, Accounted, PTL DEF Spec

-----------------------------------------------------------------------------
\* What holds as long as nothing failed.

\* The next update, as far as the listener knows.
First == IF listener.offset = 0 THEN 1 ELSE listener.offset

UpdatesInOrder ==
    /\ listener.pc # "failed"
    /\ confirmed < First
    /\ \A i \in 1..Len(listener.batch) : listener.batch[i] = First + i - 1

HasTurn(m) == \E v \in Update : MessageIdOf[v] = m /\ turns[v] = 1

\* Each message that was taken or registered has its turn, or is about to.
MessagesHaveTurns ==
    /\ \A u \in Update : u < listener.offset =>
          \/ HasTurn(MessageIdOf[u])
          \/ u = listener.update /\ listener.pc \in {"taken", "turn"}
    /\ \A m \in inbound :
          HasTurn(m) \/ (listener.pc = "turn" /\ m = MessageIdOf[listener.update])

Busy == {"replying", "claimed", "sent"}

Heard(i) == <<outbound[i].chat, outbound[i].text>> \in heard

NothingIsLeft ==
    listener.pc \notin Busy =>
        /\ listener.queueing = <<>> /\ listener.sending = <<>>
        /\ \A i \in DOMAIN outbound : outbound[i].status = "delivered" /\ Heard(i)

\* A row that is not delivered or was not received is one of this reply, and its
\* text is still to be sent.
Underway(i) ==
    /\ \/ outbound[i].status \in {"pending", "delivered"}
       \/ outbound[i].status = "processing" /\ i = listener.row
    /\ outbound[i].status # "delivered" => outbound[i].chat = ListenerChat
    /\ Heard(i) \/ (outbound[i].chat = ListenerChat
                       /\ outbound[i].text \in Range(listener.sending))

\* The part whose row is claimed already.
InHand == IF listener.pc = "replying" THEN 0 ELSE 1

\* There is a part to send for each row to claim and each part to queue.
PartsSuffice ==
    Cardinality(Rows({"pending"})) + Len(listener.queueing) + InHand <= Len(listener.sending)

ReplyIsUnderway ==
    listener.pc \in Busy =>
        /\ Range(listener.queueing) \subseteq Range(listener.sending)
        /\ \A i \in DOMAIN outbound : Underway(i)
        /\ PartsSuffice
        /\ listener.pc # "replying" => listener.queueing = <<>>
        /\ listener.pc = "sent" => <<ListenerChat, Head(listener.sending)>> \in heard

Calm == UpdatesInOrder /\ MessagesHaveTurns /\ NothingIsLeft /\ ReplyIsUnderway

QuietInv == ~faulty => Calm

LEMMA InitQuiet == Init => QuietInv
<1> SUFFICES ASSUME Init PROVE Calm
    BY DEF QuietInv
<1>1. /\ listener.pc = "idle" /\ listener.offset = 0 /\ listener.batch = <<>>
      /\ listener.queueing = <<>> /\ listener.sending = <<>>
    BY DEF Init, Started
<1>2. UpdatesInOrder
    <2>1. First = 1 /\ confirmed = 0
        BY <1>1 DEF First, Init
    <2> QED BY <1>1, <2>1 DEF UpdatesInOrder
<1>3. MessagesHaveTurns
    BY <1>1, ChannelAssumption DEF MessagesHaveTurns, Init, Update
<1>4. NothingIsLeft /\ ReplyIsUnderway
    BY <1>1 DEF NothingIsLeft, ReplyIsUnderway, Init, Busy
<1> QED BY <1>2, <1>3, <1>4 DEF Calm

QuietDone == Done /\ listener' = [listener EXCEPT !.pc = "idle"]

\* The steps that can be taken while nothing fails: no claim is old, nothing waits.
LEMMA QuietSteps ==
    ASSUME Calm, OutboxInv, [Next]_vars, ~faulty, ~faulty'
    PROVE  \/ UNCHANGED <<confirmed, inbound, outbound, listener, turns, heard>>
           \/ Poll \/ Take \/ Register \/ Turn
           \/ Queue \/ Claim \/ Send \/ Acknowledge \/ QuietDone
<1>1. CASE UNCHANGED vars \/ Arrive
    BY <1>1 DEF vars, Arrive
<1>2. CASE Release
    BY <1>2 DEF Release, Calm, UpdatesInOrder
<1>3. CASE Lose \/ SendFails \/ Crash
    BY <1>3 DEF Lose, SendFails, Crash
<1>4. ASSUME NEW i \in DOMAIN outbound, Age(i) \/ Ripen(i)
      PROVE  FALSE
    <2>1. \/ outbound[i].status = "processing" /\ i # listener.row
          \/ outbound[i].status = "waiting"
        BY <1>4 DEF Age, Ripen
    <2>2. outbound[i].status # "delivered"
        BY <2>1
    <2>3. listener.pc \in Busy
        BY <2>2 DEF Calm, NothingIsLeft
    <2>4. Underway(i)
        BY <2>3 DEF Calm, ReplyIsUnderway
    <2> QED BY <2>1, <2>4 DEF Underway
<1>5. CASE Done
    BY <1>5 DEF Done, QuietDone
<1> QED BY <1>1, <1>2, <1>3, <1>4, <1>5 DEF Next, Listen

\* What these steps leave alone.
LEMMA QuietEffects ==
    ASSUME AnswerInv
    PROVE  /\ (Register \/ Turn \/ Queue \/ Claim \/ Send \/ Acknowledge \/ QuietDone) =>
                 /\ listener'.offset = listener.offset /\ listener'.batch = listener.batch
                 /\ listener'.update = listener.update /\ listener'.pc # "failed"
                 /\ confirmed' = confirmed
           /\ (Poll \/ Take \/ Register) =>
                 /\ listener'.queueing = listener.queueing /\ listener'.sending = listener.sending
                 /\ listener.pc \notin Busy /\ listener'.pc \notin Busy
                 /\ UNCHANGED <<outbound, heard>>
           /\ (Queue \/ Claim \/ Send \/ Acknowledge \/ QuietDone) =>
                 /\ listener.pc \in Busy /\ listener'.pc \notin {"taken", "turn"}
                 /\ UNCHANGED <<turns, inbound>>
<1>1. Shape
    BY DEF AnswerInv, ListenerOK
<1>2. ASSUME Poll \/ Take \/ Register
      PROVE  /\ listener'.queueing = listener.queueing /\ listener'.sending = listener.sending
             /\ listener.pc \in {"idle", "taken"} /\ listener'.pc \in {"idle", "taken", "turn"}
             /\ UNCHANGED <<outbound, heard>>
    <2>1. CASE Poll
        <3>1. PICK batch : listener' = [listener EXCEPT !.batch = batch]
            BY <2>1 DEF Poll
        <3> QED BY <1>1, <2>1, <3>1 DEF Poll, Shape
    <2>2. CASE Take
        <3>1. PICK batch, offset, update :
                 listener' = [listener EXCEPT !.pc = "taken", !.update = update,
                                              !.batch = batch, !.offset = offset]
            BY <2>2 DEF Take
        <3> QED BY <1>1, <2>2, <3>1 DEF Take, Shape
    <2>3. CASE Register
        <3>1. PICK pc \in {"idle", "turn"} : listener' = [listener EXCEPT !.pc = pc]
            BY <2>3 DEF Register
        <3> QED BY <1>1, <2>3, <3>1 DEF Register, Shape
    <2> QED BY <1>2, <2>1, <2>2, <2>3
<1>3. ASSUME Queue \/ Claim \/ Send \/ Acknowledge \/ QuietDone
      PROVE  /\ listener'.offset = listener.offset /\ listener'.batch = listener.batch
             /\ listener'.update = listener.update
             /\ listener.pc \in Busy /\ listener'.pc \in Busy \cup {"idle"}
             /\ UNCHANGED <<confirmed, turns, inbound>>
    <2>1. /\ listener'.offset = listener.offset /\ listener'.batch = listener.batch
          /\ listener'.update = listener.update /\ listener'.pc \in Busy \cup {"idle"}
        <3>1. CASE Queue
            <4>1. listener' = [listener EXCEPT !.queueing = Tail(@)] /\ listener.pc = "replying"
                BY <3>1 DEF Queue
            <4> QED BY <1>1, <4>1 DEF Shape, Busy
        <3>2. CASE Claim
            <4>1. PICK row : listener' = [listener EXCEPT !.pc = "claimed", !.row = row]
                BY <3>2 DEF Claim
            <4> QED BY <1>1, <4>1 DEF Shape, Busy
        <3>3. CASE Send \/ QuietDone
            <4>1. PICK pc \in {"sent", "idle"} : listener' = [listener EXCEPT !.pc = pc]
                BY <3>3 DEF Send, QuietDone
            <4> QED BY <1>1, <4>1 DEF Shape, Busy
        <3>4. CASE Acknowledge
            <4>1. listener' = [listener EXCEPT !.pc = "replying", !.sending = Tail(@), !.row = 0]
                BY <3>4 DEF Acknowledge
            <4> QED BY <1>1, <4>1 DEF Shape, Busy
        <3> QED BY <1>3, <3>1, <3>2, <3>3, <3>4
    <2>2. listener.pc \in Busy /\ UNCHANGED <<confirmed, turns, inbound>>
        BY <1>3 DEF Queue, Claim, Send, Acknowledge, QuietDone, Done, Busy
    <2> QED BY <2>1, <2>2
<1>4. ASSUME Register \/ Turn
      PROVE  /\ listener'.offset = listener.offset /\ listener'.batch = listener.batch
             /\ listener'.update = listener.update /\ listener'.pc # "failed"
             /\ confirmed' = confirmed
    <2>1. CASE Register
        <3>1. PICK pc \in {"idle", "turn"} : listener' = [listener EXCEPT !.pc = pc]
            BY <2>1 DEF Register
        <3> QED BY <1>1, <2>1, <3>1 DEF Register, Shape
    <2>2. CASE Turn
        <3>1. \/ \E reply \in Reply :
                    listener' = [listener EXCEPT !.pc = "replying", !.queueing = reply,
                                                 !.sending = reply]
              \/ listener' = [listener EXCEPT !.pc = "replying", !.sending = <<Apology>>]
            BY <2>2 DEF Turn
        <3>2. confirmed' = confirmed
            BY <2>2 DEF Turn
        <3> QED BY <1>1, <3>1, <3>2 DEF Shape
    <2> QED BY <1>4, <2>1, <2>2
<1> QED BY <1>2, <1>3, <1>4 DEF Busy

\* The update that is taken is the next one.
LEMMA TakeEffects ==
    ASSUME AnswerInv, UpdatesInOrder, Take
    PROVE  /\ First \in Nat /\ First > 0
           /\ listener'.pc = "taken" /\ listener'.update = First /\ listener'.offset = First + 1
           /\ listener'.batch = Tail(listener.batch) /\ listener.batch # <<>>
           /\ confirmed' = confirmed
<1>0. /\ Shape /\ listener.offset \in Nat /\ listener.batch \in Seq(Update) /\ First \in Nat
    BY DEF AnswerInv, ListenerOK, First
<1>1. PICK u : u = Head(listener.batch)
    OBVIOUS
<1>2. /\ listener' = [listener EXCEPT !.pc = "taken", !.update = u,
                         !.batch = Tail(listener.batch), !.offset = NextOffset(u)]
      /\ listener.batch # <<>> /\ confirmed' = confirmed
    BY <1>1 DEF Take
<1>3. u = First /\ u \in Nat /\ First > 0
    <2>1. Len(listener.batch) \in Nat /\ Len(listener.batch) > 0
        BY <1>0, <1>2, EmptySeq, LenProperties
    <2>2. listener.batch[1] = First + 1 - 1 /\ u = listener.batch[1]
        BY <1>0, <1>1, <1>2, <2>1, HeadTailProperties DEF UpdatesInOrder
    <2> QED BY <1>0, <2>2 DEF First
<1>4. NextOffset(u) = First + 1
    <2>1. NextOffset(u) \in {listener.offset, u + 1} /\ NextOffset(u) >= u + 1
        <3>1. listener.offset \in Int /\ u + 1 \in Int
            BY <1>0, <1>3
        <3> QED BY <3>1, MaxOfTwo DEF NextOffset
    <2> HIDE DEF NextOffset
    <2> QED BY <1>0, <1>3, <2>1 DEF First
<1> QED BY <1>0, <1>2, <1>3, <1>4 DEF Shape

LEMMA OrderKept ==
    ASSUME AnswerInv, AnswerInv', UpdatesInOrder,
           \/ UNCHANGED <<confirmed, listener>>
           \/ Poll \/ Take \/ Register \/ Turn
           \/ Queue \/ Claim \/ Send \/ Acknowledge \/ QuietDone
    PROVE  UpdatesInOrder'
<1>1. /\ Shape /\ listener.offset \in Nat /\ listener.batch \in Seq(Update)
      /\ confirmed \in Nat /\ arrived \in Nat /\ First \in Nat
    BY DEF AnswerInv, ListenerOK, CountersOK, First
<1>2. CASE \/ UNCHANGED <<confirmed, listener>>
           \/ Register \/ Turn \/ Queue \/ Claim \/ Send \/ Acknowledge \/ QuietDone
    <2>1. /\ listener'.offset = listener.offset /\ listener'.batch = listener.batch
          /\ listener'.pc # "failed" /\ confirmed' = confirmed
        BY <1>2, QuietEffects DEF UpdatesInOrder
    <2> QED BY <2>1 DEF UpdatesInOrder, First
<1>3. CASE Poll
    <2>1. PICK forgotten : forgotten = Max({confirmed, listener.offset - 1})
        OBVIOUS
    <2>2. forgotten = First - 1
        <3>1. forgotten \in {confirmed, listener.offset - 1}
              /\ forgotten >= confirmed /\ forgotten >= listener.offset - 1
            <4>1. confirmed \in Int /\ listener.offset - 1 \in Int
                BY <1>1
            <4> QED BY <2>1, <4>1, MaxOfTwo
        <3> QED BY <1>1, <3>1 DEF UpdatesInOrder, First
    <2>3. PICK batch : batch = [i \in 1..(arrived - forgotten) |-> forgotten + i]
        OBVIOUS
    <2>4. confirmed' = forgotten /\ listener' = [listener EXCEPT !.batch = batch]
        BY <1>3, <2>1, <2>3 DEF Poll
    <2>5. /\ listener'.pc = listener.pc /\ listener'.offset = listener.offset
          /\ listener'.batch = batch
        BY <1>1, <2>4 DEF Shape
    <2>6. \A i \in 1..Len(batch) : batch[i] = First + i - 1
        <3>1. batch \in Seq(Update)
            BY <2>5 DEF AnswerInv, ListenerOK
        <3>2. DOMAIN batch = 1..Len(batch)
            BY <3>1, LenProperties
        <3>3. DOMAIN batch = 1..(arrived - forgotten)
            BY <2>3
        <3>4. \A i \in 1..(arrived - forgotten) : batch[i] = forgotten + i
            BY <2>3
        <3>5. \A i \in 1..Len(batch) : batch[i] = forgotten + i
            BY <3>2, <3>3, <3>4
        <3> QED BY <1>1, <2>2, <3>1, <3>5, LenProperties
    <2>7. First' = First
        BY <2>5 DEF First
    <2> QED BY <1>1, <2>2, <2>4, <2>5, <2>6, <2>7 DEF UpdatesInOrder
<1>4. CASE Take
    <2>1. /\ listener'.pc = "taken" /\ listener'.offset = First + 1 /\ confirmed' = confirmed
          /\ listener'.batch = Tail(listener.batch) /\ listener.batch # <<>>
        BY <1>4, TakeEffects
    <2>2. First' = First + 1
        BY <1>1, <2>1 DEF First
    <2>3. \A i \in 1..Len(Tail(listener.batch)) :
              Tail(listener.batch)[i] = (First + 1) + i - 1
        <3>1. /\ Len(Tail(listener.batch)) = Len(listener.batch) - 1
              /\ Len(listener.batch) \in Nat
              /\ \A i \in 1..Len(Tail(listener.batch)) :
                    Tail(listener.batch)[i] = listener.batch[i + 1]
            BY <1>1, <2>1, HeadTailProperties, LenProperties
        <3>2. \A i \in 1..Len(listener.batch) : listener.batch[i] = First + i - 1
            BY DEF UpdatesInOrder
        <3>3. ASSUME NEW i \in 1..Len(Tail(listener.batch))
              PROVE  Tail(listener.batch)[i] = (First + 1) + i - 1
            <4>1. i + 1 \in 1..Len(listener.batch) /\ i \in Nat
                BY <3>1, <3>3
            <4>2. Tail(listener.batch)[i] = First + (i + 1) - 1
                BY <3>1, <3>2, <3>3, <4>1
            <4> QED BY <1>1, <4>1, <4>2
        <3> QED BY <3>3
    <2> QED BY <1>1, <2>1, <2>2, <2>3 DEF UpdatesInOrder
<1> QED BY <1>2, <1>3, <1>4

LEMMA TurnsKept ==
    ASSUME AnswerInv, UpdatesInOrder, MessagesHaveTurns,
           \/ UNCHANGED <<inbound, turns, listener>>
           \/ Poll \/ Take \/ Register \/ Turn
           \/ Queue \/ Claim \/ Send \/ Acknowledge \/ QuietDone
    PROVE  MessagesHaveTurns'
<1>1. /\ Shape /\ listener.offset \in Nat /\ First \in Nat
      /\ listener.pc # "idle" => listener.update \in Update
      /\ turns \in [Update -> Nat]
    BY DEF AnswerInv, ListenerOK, CountersOK, First
<1>2. CASE \/ UNCHANGED <<inbound, turns, listener>>
           \/ Poll \/ Queue \/ Claim \/ Send \/ Acknowledge \/ QuietDone
    <2>1. /\ listener'.offset = listener.offset /\ listener'.update = listener.update
          /\ listener'.pc = listener.pc
             \/ (listener.pc \notin {"taken", "turn"} /\ listener'.pc \notin {"taken", "turn"})
          /\ UNCHANGED <<inbound, turns>>
        <3>1. CASE Poll
            <4>1. PICK batch : listener' = [listener EXCEPT !.batch = batch]
                BY <3>1 DEF Poll
            <4> QED BY <1>1, <3>1, <4>1 DEF Poll, Shape
        <3>2. CASE Queue \/ Claim \/ Send \/ Acknowledge \/ QuietDone
            BY <3>2, QuietEffects DEF Busy
        <3> QED BY <1>2, <3>1, <3>2
    <2> QED BY <2>1 DEF MessagesHaveTurns, HasTurn
<1>3. CASE Take
    <2>1. /\ First > 0 /\ listener'.pc = "taken" /\ listener'.update = First
          /\ listener'.offset = First + 1
        BY <1>3, TakeEffects
    <2>2. listener.pc = "idle" /\ UNCHANGED <<inbound, turns>>
        BY <1>3 DEF Take
    <2>3. ASSUME NEW u \in Update, u < First + 1
          PROVE  HasTurn(MessageIdOf[u]) \/ u = First
        <3>1. u \in Nat /\ u > 0
            BY ChannelAssumption DEF Update
        <3>2. u = First \/ u < listener.offset
            BY <1>1, <2>3, <3>1 DEF First
        <3> QED BY <2>2, <3>2 DEF MessagesHaveTurns
    <2>4. \A m : HasTurn(m)' = HasTurn(m)
        BY <2>2 DEF HasTurn
    <2> QED BY <2>1, <2>2, <2>3, <2>4 DEF MessagesHaveTurns
<1>4. CASE Register
    <2>1. PICK m : m = MessageIdOf[listener.update]
        OBVIOUS
    <2>2. /\ listener.pc = "taken" /\ inbound' = inbound \cup {m} /\ turns' = turns
          /\ listener' = [listener EXCEPT !.pc = IF m \in inbound THEN "idle" ELSE "turn"]
        BY <1>4, <2>1 DEF Register, Known
    <2>3. /\ listener'.pc = IF m \in inbound THEN "idle" ELSE "turn"
          /\ listener'.offset = listener.offset /\ listener'.update = listener.update
        BY <1>1, <2>2 DEF Shape
    <2>4. \A n : HasTurn(n)' = HasTurn(n)
        BY <2>2 DEF HasTurn
    <2>5. \A n \in inbound : HasTurn(n)
        BY <2>2 DEF MessagesHaveTurns
    <2>6. \A u \in Update : u < listener.offset =>
              HasTurn(MessageIdOf[u]) \/ u = listener.update
        BY DEF MessagesHaveTurns
    <2>7. CASE m \in inbound
        BY <2>1, <2>2, <2>3, <2>4, <2>5, <2>6, <2>7 DEF MessagesHaveTurns
    <2>8. CASE m \notin inbound
        BY <2>1, <2>2, <2>3, <2>4, <2>5, <2>6, <2>8 DEF MessagesHaveTurns
    <2> QED BY <2>7, <2>8
<1>5. CASE Turn
    <2>1. PICK u \in Update : u = listener.update
        BY <1>1, <1>5 DEF Turn
    <2>2. /\ listener.pc = "turn" /\ inbound' = inbound
          /\ turns' = [turns EXCEPT ![u] = @ + 1]
        BY <1>5, <2>1 DEF Turn
    <2>3. listener'.offset = listener.offset
        BY <1>5, QuietEffects
    <2>4. turns[u] = 0
        BY <2>1, <2>2 DEF AnswerInv, AboutToAnswer, Alike
    <2>5. HasTurn(MessageIdOf[u])'
        BY <1>1, <2>1, <2>2, <2>4 DEF HasTurn
    <2>6. \A m : HasTurn(m) => HasTurn(m)'
        BY <1>1, <2>2, <2>4 DEF HasTurn
    <2> QED BY <2>1, <2>2, <2>3, <2>5, <2>6 DEF MessagesHaveTurns
<1> QED BY <1>2, <1>3, <1>4, <1>5

LEMMA RangeFacts ==
    ASSUME NEW S, NEW s \in Seq(S), s # <<>>
    PROVE  /\ Head(s) \in Range(s) /\ Range(Tail(s)) \subseteq Range(s)
           /\ Range(s) \subseteq Range(Tail(s)) \cup {Head(s)}
           /\ Tail(s) \in Seq(S) /\ Len(Tail(s)) = Len(s) - 1 /\ Len(s) \in Nat /\ Len(s) >= 1
<1>1. /\ Tail(s) \in Seq(S) /\ Len(Tail(s)) = Len(s) - 1 /\ Head(s) = s[1]
      /\ \A i \in 1..Len(Tail(s)) : Tail(s)[i] = s[i + 1]
    BY HeadTailProperties
<1>2. /\ DOMAIN s = 1..Len(s) /\ Len(s) \in Nat /\ Len(s) # 0
      /\ DOMAIN Tail(s) = 1..Len(Tail(s))
    BY <1>1, LenProperties, EmptySeq
<1>3. 1 \in DOMAIN s /\ \A i \in DOMAIN Tail(s) : i + 1 \in DOMAIN s /\ Tail(s)[i] = s[i + 1]
    BY <1>1, <1>2
<1>4. \A i \in DOMAIN s : i = 1 \/ (i - 1 \in DOMAIN Tail(s) /\ Tail(s)[i - 1] = s[i])
    BY <1>1, <1>2
<1>5. Head(s) \in Range(s) /\ Range(Tail(s)) \subseteq Range(s)
    BY <1>1, <1>3 DEF Range
<1>6. Range(s) \subseteq Range(Tail(s)) \cup {Head(s)}
    <2>1. ASSUME NEW i \in DOMAIN s
          PROVE  s[i] \in Range(Tail(s)) \cup {Head(s)}
        BY <1>1, <1>4 DEF Range
    <2> QED BY <2>1 DEF Range
<1> QED BY <1>1, <1>2, <1>5, <1>6

LEMMA EmptyRange == Range(<<>>) = {}
  BY DEF Range

LEMMA PendingCount ==
    ASSUME OutboxInv
    PROVE  /\ IsFiniteSet(Rows({"pending"})) /\ Cardinality(Rows({"pending"})) \in Nat
           /\ Len(listener.queueing) \in Nat /\ Len(listener.sending) \in Nat
           /\ InHand \in {0, 1}
<1>1. /\ outbound \in Seq(OutRow)
      /\ listener.queueing \in Seq(Text) /\ listener.sending \in Seq(Text)
    BY DEF OutboxInv, OutboxTypeOK
<1> QED BY <1>1, RowsFinite, FS_CardinalityType, LenProperties DEF InHand

LEMMA ReplyEnds == 
    ASSUME AnswerInv, OutboxInv, ReplyIsUnderway, QuietDone
    PROVE  NothingIsLeft' /\ ReplyIsUnderway'
<1>1. /\ listener.pc = "replying" /\ listener.queueing = <<>> /\ listener.sending = <<>>
      /\ listener' = [listener EXCEPT !.pc = "idle"] /\ UNCHANGED <<outbound, heard>>
      /\ Shape
    BY DEF QuietDone, Done, AnswerInv, ListenerOK
<1>2. /\ listener'.pc = "idle"
      /\ listener'.queueing = <<>> /\ listener'.sending = <<>>
    BY <1>1 DEF Shape
<1>3. Rows({"pending"}) = {}
    <2>1. PartsSuffice
        BY <1>1 DEF ReplyIsUnderway, Busy
    <2>2. Cardinality(Rows({"pending"})) = 0
        <3>1. Len(listener.queueing) = 0 /\ Len(listener.sending) = 0 /\ InHand = 0
            BY <1>1, EmptySeq DEF InHand
        <3> QED BY <2>1, <3>1, PendingCount DEF PartsSuffice
    <2> QED BY <2>2, PendingCount, FS_EmptySet
<1>4. ASSUME NEW i \in DOMAIN outbound
      PROVE  outbound[i].status = "delivered" /\ Heard(i)
    <2>1. Underway(i)
        BY <1>1 DEF ReplyIsUnderway, Busy
    <2>2. listener.row = 0 /\ i # 0
        BY <1>1, RowsFinite DEF OutboxInv, OutboxTypeOK, ClaimIsHeld
    <2>3. outbound[i].status # "pending"
        BY <1>3 DEF Rows
    <2> QED BY <1>1, <2>1, <2>2, <2>3, EmptyRange DEF Underway
<1>5. \A i \in DOMAIN outbound' : outbound'[i].status = "delivered" /\ Heard(i)'
    BY <1>1, <1>4 DEF Heard
<1> QED BY <1>2, <1>5 DEF NothingIsLeft, ReplyIsUnderway, Busy

LEMMA ReplyStarts ==
    ASSUME AnswerInv, OutboxInv, OutboxInv', NothingIsLeft, Turn
    PROVE  NothingIsLeft' /\ ReplyIsUnderway'
<1>1. /\ listener.pc = "turn" /\ Shape /\ UNCHANGED <<outbound, heard>>
      /\ \/ \E reply \in Reply :
              listener' = [listener EXCEPT !.pc = "replying", !.queueing = reply,
                                           !.sending = reply]
         \/ listener' = [listener EXCEPT !.pc = "replying", !.sending = <<Apology>>]
    BY DEF Turn, AnswerInv, ListenerOK
<1>2. /\ listener.queueing = <<>>
      /\ \A i \in DOMAIN outbound : outbound[i].status = "delivered" /\ Heard(i)
    BY <1>1 DEF NothingIsLeft, Busy
<1>3. /\ listener'.pc = "replying"
      /\ \/ listener'.queueing = listener'.sending
         \/ listener'.queueing = <<>>
    BY <1>1, <1>2 DEF Shape
<1>4. \A i \in DOMAIN outbound' : Underway(i)'
    BY <1>1, <1>2 DEF Underway, Heard
<1>5. PartsSuffice'
    <2>1. Rows({"pending"})' = {}
        BY <1>1, <1>2 DEF Rows
    <2>2. Cardinality(Rows({"pending"})') = 0 /\ InHand' = 0
        BY <1>3, <2>1, FS_EmptySet DEF InHand
    <2>3. Len(listener'.queueing) \in Nat /\ Len(listener'.sending) \in Nat
        BY PendingCount DEF OutboxInv, OutboxTypeOK
    <2>4. Len(listener'.queueing) <= Len(listener'.sending)
        BY <1>3, <2>3, EmptySeq
    <2> QED BY <2>2, <2>3, <2>4 DEF PartsSuffice
<1> QED BY <1>3, <1>4, <1>5, EmptyRange DEF NothingIsLeft, ReplyIsUnderway, Busy

LEMMA QueueQuiet ==
    ASSUME AnswerInv, OutboxInv, OutboxInv', ReplyIsUnderway, Queue
    PROVE  NothingIsLeft' /\ ReplyIsUnderway'
<1>1. PICK text, key, row :
         /\ text = Head(listener.queueing) /\ key = <<MessageIdOf[listener.update], text>>
         /\ row = [key |-> key, chat |-> ListenerChat, text |-> text, status |-> "pending"]
         /\ outbound' = IF Queued(key) THEN outbound ELSE Append(outbound, row)
         /\ listener.pc = "replying" /\ listener.queueing # <<>>
         /\ listener' = [listener EXCEPT !.queueing = Tail(listener.queueing)]
         /\ heard' = heard
    BY DEF Queue, NewStatus
<1>2. /\ Shape /\ outbound \in Seq(OutRow) /\ listener.queueing \in Seq(Text)
    BY DEF AnswerInv, ListenerOK, OutboxInv, OutboxTypeOK
<1>3. /\ listener'.pc = "replying" /\ listener'.row = listener.row
      /\ listener'.update = listener.update
      /\ listener'.queueing = Tail(listener.queueing) /\ listener'.sending = listener.sending
    BY <1>1, <1>2 DEF Shape
<1>4. /\ Range(listener.queueing) \subseteq Range(listener.sending)
      /\ \A i \in DOMAIN outbound : Underway(i)
      /\ PartsSuffice
    BY <1>1 DEF ReplyIsUnderway, Busy
<1>5. /\ text \in Range(listener.sending)
      /\ Range(listener'.queueing) \subseteq Range(listener'.sending)
      /\ Len(listener'.queueing) = Len(listener.queueing) - 1 /\ Len(listener.queueing) \in Nat
    <2>1. /\ Head(listener.queueing) \in Range(listener.queueing)
          /\ Range(Tail(listener.queueing)) \subseteq Range(listener.queueing)
          /\ Len(Tail(listener.queueing)) = Len(listener.queueing) - 1
          /\ Len(listener.queueing) \in Nat
        BY <1>1, <1>2, RangeFacts
    <2> QED BY <1>1, <1>3, <1>4, <2>1
<1>6. /\ \A j \in DOMAIN outbound' :
            \/ j \in DOMAIN outbound /\ outbound'[j] = outbound[j]
            \/ j = Len(outbound) + 1 /\ outbound'[j] = row
    <2>1. CASE outbound' = outbound
        BY <2>1
    <2>2. CASE outbound' = Append(outbound, row)
        <3>1. /\ Len(outbound') = Len(outbound) + 1
              /\ \A j \in 1..Len(outbound) : outbound'[j] = outbound[j]
              /\ outbound'[Len(outbound) + 1] = row
              /\ DOMAIN outbound' = 1..(Len(outbound) + 1)
              /\ DOMAIN outbound = 1..Len(outbound) /\ Len(outbound) \in Nat
            BY <1>2, <2>2
        <3>2. \A j \in DOMAIN outbound' : j \in DOMAIN outbound \/ j = Len(outbound) + 1
            BY <3>1
        <3> QED BY <3>1, <3>2
    <2> QED BY <1>1, <2>1, <2>2
<1>7. \A i \in DOMAIN outbound' : Underway(i)'
    <2>1. ASSUME NEW i \in DOMAIN outbound', i \in DOMAIN outbound, outbound'[i] = outbound[i]
          PROVE  Underway(i)'
        BY <1>1, <1>3, <1>4, <2>1 DEF Underway, Heard, ListenerChat
    <2>2. ASSUME NEW i \in DOMAIN outbound', outbound'[i] = row
          PROVE  Underway(i)'
        <3>1. /\ outbound'[i].status = "pending" /\ outbound'[i].chat = ListenerChat
              /\ outbound'[i].text = text
            BY <1>1, <2>2
        <3> QED BY <1>3, <1>5, <3>1 DEF Underway, ListenerChat
    <2> QED BY <1>6, <2>1, <2>2
<1>8. PartsSuffice'
    <2>1. Rows({"pending"})' \subseteq Rows({"pending"}) \cup {Len(outbound) + 1}
        BY <1>6 DEF Rows
    <2>2. Cardinality(Rows({"pending"})') \in Nat
          /\ Cardinality(Rows({"pending"})') <= Cardinality(Rows({"pending"})) + 1
        BY <2>1, PendingCount, AtMostOneMore
    <2>3. InHand' = 0 /\ InHand = 0
        BY <1>1, <1>3 DEF InHand
    <2> QED BY <1>3, <1>4, <1>5, <2>2, <2>3, PendingCount DEF PartsSuffice
<1> QED BY <1>3, <1>4, <1>5, <1>7, <1>8 DEF NothingIsLeft, ReplyIsUnderway, Busy

LEMMA ClaimQuiet ==
    ASSUME AnswerInv, OutboxInv, OutboxInv', ReplyIsUnderway, Claim
    PROVE  NothingIsLeft' /\ ReplyIsUnderway'
<1>1. /\ Shape /\ outbound \in Seq(OutRow) /\ listener.pc = "replying" /\ heard' = heard
      /\ listener.queueing = <<>> /\ listener.sending # <<>> /\ listener.sending \in Seq(Text)
    BY DEF Claim, AnswerInv, ListenerOK, OutboxInv, OutboxTypeOK
<1>2. PICK r : r = listener'.row
    OBVIOUS
<1>3. /\ DOMAIN outbound' = DOMAIN outbound
      /\ \A j \in DOMAIN outbound :
            outbound'[j].chat = outbound[j].chat /\ outbound'[j].text = outbound[j].text
      /\ \A j \in DOMAIN outbound \ {r} :
            outbound'[j].status = IF outbound[j].status = "stale" THEN "pending"
                                  ELSE outbound[j].status
      /\ r = 0 => \A j \in DOMAIN outbound :
                     ~(outbound[j].status = "pending" /\ outbound[j].chat = ListenerChat)
      /\ r # 0 => /\ r \in DOMAIN outbound /\ outbound'[r].status = "processing"
                  /\ outbound[r].status \in {"pending", "stale"}
                  /\ outbound[r].chat = ListenerChat
      /\ listener' = [listener EXCEPT !.pc = "claimed", !.row = r]
    BY <1>1, <1>2, ClaimFacts
<1>4. /\ listener'.pc = "claimed" /\ listener'.row = r /\ listener'.update = listener.update
      /\ listener'.queueing = listener.queueing /\ listener'.sending = listener.sending
    BY <1>1, <1>3 DEF Shape
<1>5. /\ \A i \in DOMAIN outbound : Underway(i)
      /\ Range(listener.queueing) \subseteq Range(listener.sending)
      /\ PartsSuffice /\ listener.row = 0 /\ 0 \notin DOMAIN outbound
    BY <1>1, RowsFinite DEF ReplyIsUnderway, Busy, OutboxInv, ClaimIsHeld
<1>6. \A j \in DOMAIN outbound : outbound[j].status \in {"pending", "delivered"}
    BY <1>5 DEF Underway
<1>7. \A j \in DOMAIN outbound \ {r} : outbound'[j].status = outbound[j].status
    BY <1>3, <1>6
<1>8. \A i \in DOMAIN outbound' : Underway(i)'
    <2>1. ASSUME NEW i \in DOMAIN outbound \ {r}
          PROVE  Underway(i)'
        BY <1>1, <1>3, <1>4, <1>5, <1>6, <1>7 DEF Underway, Heard, ListenerChat
    <2>2. ASSUME r \in DOMAIN outbound
          PROVE  Underway(r)'
        BY <1>1, <1>3, <1>4, <1>5, <2>2 DEF Underway, Heard, ListenerChat
    <2> QED BY <1>3, <2>1, <2>2
<1>9. PartsSuffice'
    <2>1. /\ Len(listener.queueing) = 0 /\ Len(listener.sending) \in Nat
          /\ Len(listener.sending) >= 1 /\ InHand = 0 /\ InHand' = 1
        BY <1>1, <1>4, RangeFacts, EmptySeq DEF InHand
    <2>2. CASE r = 0
        <3>1. Rows({"pending"})' = {}
            BY <1>3, <1>5, <1>6, <1>7, <2>2 DEF Rows, Underway
        <3>2. Cardinality(Rows({"pending"})') = 0
            BY <3>1, FS_EmptySet
        <3> QED BY <1>4, <2>1, <3>2 DEF PartsSuffice
    <2>3. CASE r # 0
        <3>1. r \in Rows({"pending"})
            BY <1>3, <1>6, <2>3 DEF Rows
        <3>2. Rows({"pending"})' = Rows({"pending"}) \ {r}
            BY <1>3, <1>7, <2>3 DEF Rows
        <3>3. Cardinality(Rows({"pending"})') = Cardinality(Rows({"pending"})) - 1
            BY <3>1, <3>2, PendingCount, FS_RemoveElement
        <3> QED BY <1>4, <1>5, <2>1, <3>3, PendingCount DEF PartsSuffice
    <2> QED BY <2>2, <2>3
<1> QED BY <1>1, <1>4, <1>5, <1>8, <1>9 DEF NothingIsLeft, ReplyIsUnderway, Busy

LEMMA SendQuiet ==
    ASSUME AnswerInv, OutboxInv, OutboxInv', ReplyIsUnderway, Send
    PROVE  NothingIsLeft' /\ ReplyIsUnderway'
<1>1. /\ Shape /\ listener.pc = "claimed" /\ outbound' = outbound
      /\ listener' = [listener EXCEPT !.pc = "sent"]
      /\ heard' = heard \cup {<<ListenerChat, Head(listener.sending)>>}
    BY DEF Send, Receives, AnswerInv, ListenerOK
<1>2. /\ listener'.pc = "sent" /\ listener'.row = listener.row
      /\ listener'.update = listener.update
      /\ listener'.queueing = listener.queueing /\ listener'.sending = listener.sending
    BY <1>1 DEF Shape
<1>3. \A i \in DOMAIN outbound' : Underway(i)'
    BY <1>1, <1>2 DEF ReplyIsUnderway, Busy, Underway, Heard, ListenerChat
<1>4. PartsSuffice'
    <2>1. Rows({"pending"})' = Rows({"pending"}) /\ InHand' = InHand
        BY <1>1, <1>2 DEF Rows, InHand
    <2> QED BY <1>1, <1>2, <2>1 DEF ReplyIsUnderway, Busy, PartsSuffice
<1>5. ListenerChat' = ListenerChat
    BY <1>2 DEF ListenerChat
<1> QED BY <1>1, <1>2, <1>3, <1>4, <1>5 DEF NothingIsLeft, ReplyIsUnderway, Busy

LEMMA AcknowledgeQuiet ==
    ASSUME AnswerInv, OutboxInv, OutboxInv', ReplyIsUnderway, Acknowledge
    PROVE  NothingIsLeft' /\ ReplyIsUnderway'
<1>1. /\ Shape /\ listener.pc = "sent" /\ heard' = heard
      /\ outbound' = Marked("delivered")
      /\ listener' = [listener EXCEPT !.pc = "replying", !.sending = Tail(listener.sending),
                                      !.row = 0]
    BY DEF Acknowledge, AnswerInv, ListenerOK
<1>2. /\ outbound \in Seq(OutRow) /\ listener.sending \in Seq(Text) /\ listener.sending # <<>>
      /\ listener.row # 0 => listener.row \in DOMAIN outbound
    BY <1>1 DEF OutboxInv, OutboxTypeOK, ClaimIsHeld
<1>3. /\ listener'.pc = "replying" /\ listener'.row = 0 /\ listener'.update = listener.update
      /\ listener'.queueing = listener.queueing /\ listener'.sending = Tail(listener.sending)
    BY <1>1 DEF Shape
<1>4. /\ listener.queueing = <<>> /\ PartsSuffice
      /\ <<ListenerChat, Head(listener.sending)>> \in heard
      /\ \A i \in DOMAIN outbound : Underway(i)
    BY <1>1 DEF ReplyIsUnderway, Busy
<1>5. /\ DOMAIN outbound' = DOMAIN outbound
      /\ \A j \in DOMAIN outbound :
            outbound'[j].chat = outbound[j].chat /\ outbound'[j].text = outbound[j].text
      /\ \A j \in DOMAIN outbound \ {listener.row} : outbound'[j] = outbound[j]
      /\ listener.row # 0 => outbound'[listener.row].status = "delivered"
    <2>1. CASE listener.row = 0
        BY <1>1, <1>2, <2>1 DEF Marked
    <2>2. CASE listener.row # 0
        <3>1. outbound' = [outbound EXCEPT ![listener.row].status = "delivered"]
            BY <1>1, <2>2 DEF Marked
        <3>2. PICK i \in DOMAIN outbound : i = listener.row
            BY <1>2, <2>2
        <3>3. outbound' = [outbound EXCEPT ![i].status = "delivered"] /\ "delivered" \in Status
            BY <3>1, <3>2 DEF Status
        <3> QED BY <1>2, <3>2, <3>3, RowMarked
    <2> QED BY <2>1, <2>2
<1>6. ASSUME NEW i \in DOMAIN outbound
      PROVE  Underway(i)'
    <2>1. /\ outbound'[i].chat = outbound[i].chat /\ outbound'[i].text = outbound[i].text
          /\ outbound'[i].status \in {outbound[i].status, "delivered"}
          /\ outbound'[i].status = "processing" => i # listener.row
        BY <1>2, <1>5
    <2>2. Heard(i)' \/ (outbound[i].chat = ListenerChat
                          /\ outbound[i].text \in Range(Tail(listener.sending)))
        <3>1. Range(listener.sending) \subseteq
                  Range(Tail(listener.sending)) \cup {Head(listener.sending)}
            BY <1>2, RangeFacts
        <3>2. <<outbound[i].chat, outbound[i].text>> \in heard
              \/ (outbound[i].chat = ListenerChat /\ outbound[i].text \in Range(listener.sending))
            BY <1>4 DEF Underway, Heard
        <3>3. Heard(i)' <=> <<outbound[i].chat, outbound[i].text>> \in heard
            BY <1>1, <2>1 DEF Heard
        <3> QED BY <1>4, <3>1, <3>2, <3>3
    <2>3. /\ outbound'[i].status \in {"pending", "delivered"}
          /\ outbound'[i].status # "delivered" => outbound[i].chat = ListenerChat
        BY <1>4, <2>1 DEF Underway
    <2> QED BY <1>3, <2>1, <2>2, <2>3 DEF Underway, ListenerChat
<1>7. PartsSuffice'
    <2>1. Rows({"pending"})' \subseteq Rows({"pending"})
        BY <1>2, <1>5 DEF Rows
    <2>2. /\ Cardinality(Rows({"pending"})') \in Nat
          /\ Cardinality(Rows({"pending"})') <= Cardinality(Rows({"pending"}))
        BY <2>1, PendingCount, NoMore
    <2>3. /\ Len(listener'.sending) = Len(listener.sending) - 1
          /\ InHand = 1 /\ InHand' = 0
        BY <1>1, <1>2, <1>3, RangeFacts DEF InHand
    <2> QED BY <1>3, <1>4, <2>2, <2>3, PendingCount DEF PartsSuffice
<1> QED BY <1>3, <1>4, <1>5, <1>6, <1>7, EmptyRange DEF NothingIsLeft, ReplyIsUnderway, Busy

LEMMA ReplyKept ==
    ASSUME AnswerInv, OutboxInv, OutboxInv', NothingIsLeft, ReplyIsUnderway,
           \/ UNCHANGED <<outbound, listener, heard>>
           \/ Poll \/ Take \/ Register \/ Turn
           \/ Queue \/ Claim \/ Send \/ Acknowledge \/ QuietDone
    PROVE  NothingIsLeft' /\ ReplyIsUnderway'
<1>1. CASE UNCHANGED <<outbound, listener, heard>>
    <2>1. Rows({"pending"})' = Rows({"pending"})
        BY <1>1 DEF Rows
    <2> QED BY <1>1, <2>1 DEF NothingIsLeft, ReplyIsUnderway, Underway, Heard, ListenerChat,
                             PartsSuffice, InHand
<1>2. CASE Poll \/ Take \/ Register
    <2>1. /\ listener'.queueing = listener.queueing /\ listener'.sending = listener.sending
          /\ listener.pc \notin Busy /\ listener'.pc \notin Busy
          /\ UNCHANGED <<outbound, heard>>
        BY <1>2, QuietEffects
    <2> QED BY <2>1 DEF NothingIsLeft, ReplyIsUnderway, Heard
<1> QED BY <1>1, <1>2, ReplyStarts, QueueQuiet, ClaimQuiet, SendQuiet, AcknowledgeQuiet,
           ReplyEnds

LEMMA NextQuiet ==
    AnswerInv /\ AnswerInv' /\ OutboxInv /\ OutboxInv' /\ QuietInv /\ [Next]_vars => QuietInv'
<1> SUFFICES ASSUME AnswerInv, AnswerInv', OutboxInv, OutboxInv', QuietInv, [Next]_vars, ~faulty'
             PROVE  Calm'
    BY DEF QuietInv
<1>1. ~faulty
    BY DEF Next, Listen, Arrive, Poll, Take, Lose, Register, Turn, Queue, Claim, Send, SendFails,
           Acknowledge, Release, Done, Crash, Age, Ripen, vars
<1>2. Calm
    BY <1>1 DEF QuietInv
<1>3. \/ UNCHANGED <<confirmed, inbound, outbound, listener, turns, heard>>
      \/ Poll \/ Take \/ Register \/ Turn
      \/ Queue \/ Claim \/ Send \/ Acknowledge \/ QuietDone
    BY <1>1, <1>2, QuietSteps
<1>4. UpdatesInOrder /\ MessagesHaveTurns /\ NothingIsLeft /\ ReplyIsUnderway
    BY <1>2 DEF Calm
<1>5. UpdatesInOrder'
    BY <1>3, <1>4, OrderKept
<1>6. MessagesHaveTurns'
    BY <1>3, <1>4, TurnsKept
<1>7. NothingIsLeft' /\ ReplyIsUnderway'
    BY <1>3, <1>4, ReplyKept
<1> QED BY <1>5, <1>6, <1>7 DEF Calm

LEMMA Settles == QuietInv => QuietListenerSettles
<1> SUFFICES ASSUME QuietInv, ~faulty, listener.pc = "idle"
             PROVE  /\ \A u \in Update : u < listener.offset =>
                          \E v \in Update : MessageIdOf[v] = MessageIdOf[u] /\ turns[v] = 1
                    /\ \A i \in DOMAIN outbound :
                          /\ outbound[i].status = "delivered"
                          /\ <<outbound[i].chat, outbound[i].text>> \in heard
    BY DEF QuietListenerSettles
<1>1. Calm
    BY DEF QuietInv
<1>2. \A u \in Update : u < listener.offset => HasTurn(MessageIdOf[u])
    BY <1>1 DEF Calm, MessagesHaveTurns
<1>3. \A i \in DOMAIN outbound : outbound[i].status = "delivered" /\ Heard(i)
    BY <1>1 DEF Calm, NothingIsLeft, Busy
<1> QED BY <1>2, <1>3 DEF HasTurn, Heard

\* As long as no call failed and the listener did not die, an idle listener has run
\* the turn of each message it took, and each row it queued is delivered and was
\* received, although a claim takes the oldest row and the loop sends its own part
\* (TelegramAdapter._send_reply).
THEOREM QuietListenersSettle == Spec => []QuietListenerSettles
<1>1. AnswerInv /\ OutboxInv /\ QuietInv /\ [Next]_vars => AnswerInv' /\ OutboxInv' /\ QuietInv'
    BY NextAnswer, NextOutbox, NextQuiet
<1> QED BY <1>1, InitAnswer, InitOutbox, InitQuiet, Settles, PTL DEF Spec


-----------------------------------------------------------------------------
\* The whole type invariant.  The listener knows of no update that did not come yet,
\* and what it queues are parts of replies, each of a message once.

Part == UNION {Range(reply) : reply \in Reply}

BoundsOK ==
    /\ confirmed <= arrived
    /\ listener.offset <= arrived + 1
    /\ \A i \in 1..Len(listener.batch) : listener.batch[i] <= arrived
    /\ listener.update \in Update \cup {0}
    /\ inbound \subseteq MessageId
    /\ crashes <= MaxCrashes

PartsOK ==
    /\ listener.queueing \in Seq(Part)
    /\ \A i \in DOMAIN outbound : outbound[i].text \in Part
    /\ \A i, j \in DOMAIN outbound : outbound[i].key = outbound[j].key => i = j

TypeInv == BoundsOK /\ PartsOK

LEMMA InitChannel == Init => TypeInv
<1> SUFFICES ASSUME Init PROVE TypeInv
    OBVIOUS
<1>1. /\ listener.offset = 0 /\ listener.batch = <<>> /\ listener.update = 0
      /\ listener.queueing = <<>> /\ outbound = <<>> /\ inbound = {}
      /\ arrived = 0 /\ confirmed = 0 /\ crashes = 0
    BY DEF Init, Started
<1>2. BoundsOK
    BY <1>1, ChannelAssumption DEF BoundsOK
<1>3. PartsOK
    BY <1>1 DEF PartsOK
<1> QED BY <1>2, <1>3 DEF TypeInv

\* Steps that take nothing from Telegram.
LEMMA BoundsKept ==
    ASSUME AnswerInv, AnswerInv', BoundsOK,
           arrived' >= arrived, confirmed' = confirmed,
           listener'.offset \in {listener.offset, 0},
           listener'.batch \in {listener.batch, <<>>},
           listener'.update \in {listener.update, 0},
           inbound' \subseteq MessageId, crashes' <= MaxCrashes
    PROVE  BoundsOK'
<1>1. /\ arrived \in Nat /\ arrived' \in Nat /\ confirmed \in Nat /\ listener.offset \in Nat
      /\ listener.batch \in Seq(Update)
    BY ChannelAssumption DEF AnswerInv, ListenerOK, CountersOK
<1>2. confirmed' <= arrived' /\ listener'.offset <= arrived' + 1
    BY <1>1 DEF BoundsOK
<1>3. \A i \in 1..Len(listener'.batch) : listener'.batch[i] <= arrived'
    <2>1. CASE listener'.batch = <<>>
        BY <2>1
    <2>2. CASE listener'.batch = listener.batch
        <3> SUFFICES ASSUME NEW i \in 1..Len(listener.batch)
                     PROVE  listener.batch[i] <= arrived'
            BY <2>2
        <3>1. listener.batch[i] \in Update /\ listener.batch[i] <= arrived
            BY <1>1, ElementOfSeq DEF BoundsOK
        <3> QED BY <1>1, <3>1 DEF Update
    <2> QED BY <2>1, <2>2
<1> QED BY <1>2, <1>3 DEF BoundsOK, MessageId

LEMMA PollBounds == AnswerInv /\ BoundsOK /\ Poll => BoundsOK'
<1> SUFFICES ASSUME AnswerInv, BoundsOK, Poll PROVE BoundsOK'
    OBVIOUS
<1> DEFINE forgotten == Max({confirmed, listener.offset - 1})
           batch     == [i \in 1..(arrived - forgotten) |-> forgotten + i]
<1>1. Shape /\ confirmed \in Nat /\ listener.offset \in Nat /\ arrived \in Nat
    BY ChannelAssumption DEF AnswerInv, ListenerOK, CountersOK
<1>2. forgotten \in Nat /\ forgotten <= arrived
    <2>1. confirmed \in Int /\ listener.offset - 1 \in Int
        BY <1>1
    <2>2. forgotten \in {confirmed, listener.offset - 1} /\ forgotten >= confirmed
        BY <2>1, MaxOfTwo, Zenon
    <2> QED BY <1>1, <2>2 DEF BoundsOK
<1>3. /\ listener' = [listener EXCEPT !.batch = batch] /\ confirmed' = forgotten
      /\ UNCHANGED <<arrived, inbound, crashes>>
    BY DEF Poll
<1>4. PICK n \in Nat : n = arrived - forgotten
    BY <1>1, <1>2
<1>5. Len(batch) = n /\ \A i \in 1..n : batch[i] <= arrived
    <2>1. batch = [i \in 1..n |-> forgotten + i]
        BY <1>4
    <2>2. \A i \in 1..n : forgotten + i \in Nat
        BY <1>2
    <2>3. Len(batch) = n
        <3>1. batch \in [1..n -> Nat]
            BY <2>1, <2>2
        <3> HIDE DEF batch
        <3>2. batch \in Seq(Nat)
            BY <3>1, SeqDef
        <3> QED BY <1>4, <3>1, <3>2, LenProperties
    <2>4. \A i \in 1..n : batch[i] = forgotten + i
        BY <2>1
    <2> HIDE DEF batch
    <2>5. \A i \in 1..n : forgotten + i <= arrived
        BY <1>1, <1>2, <1>4
    <2> QED BY <2>3, <2>4, <2>5
<1> HIDE DEF forgotten, batch
<1>6. /\ listener'.batch = batch /\ listener'.offset = listener.offset
      /\ listener'.update = listener.update
    BY <1>1, <1>3 DEF Shape
<1> QED BY <1>2, <1>3, <1>5, <1>6 DEF BoundsOK, MessageId

LEMMA TakeBounds == AnswerInv /\ BoundsOK /\ Take => BoundsOK'
<1> SUFFICES ASSUME AnswerInv, BoundsOK, Take PROVE BoundsOK'
    OBVIOUS
<1>1. /\ Shape /\ listener.batch \in Seq(Update) /\ listener.batch # <<>>
      /\ listener.offset \in Nat /\ arrived \in Nat
    BY ChannelAssumption DEF AnswerInv, ListenerOK, CountersOK, Take
<1>2. PICK u, offset : u = Head(listener.batch) /\ offset = NextOffset(u)
    OBVIOUS
<1>3. /\ listener' = [listener EXCEPT !.pc = "taken", !.update = u,
                                      !.batch = Tail(listener.batch), !.offset = offset]
      /\ UNCHANGED <<arrived, confirmed, inbound, crashes>>
    BY <1>2 DEF Take
<1>4. /\ u \in Update /\ u = listener.batch[1] /\ 1 \in 1..Len(listener.batch)
      /\ Len(Tail(listener.batch)) = Len(listener.batch) - 1 /\ Len(listener.batch) \in Nat
      /\ \A i \in 1..Len(Tail(listener.batch)) : Tail(listener.batch)[i] = listener.batch[i + 1]
    BY <1>1, <1>2, HeadTailProperties, LenProperties
<1>5. u <= arrived /\ u \in Nat
    BY <1>4 DEF BoundsOK, Update
<1>6. offset <= arrived + 1
    <2>1. u + 1 \in Int /\ listener.offset \in Int
        BY <1>1, <1>5
    <2>2. offset \in {listener.offset, u + 1}
        BY <1>2, <2>1, MaxOfTwo, Zenon DEF NextOffset
    <2> QED BY <1>1, <1>5, <2>2 DEF BoundsOK
<1>7. \A i \in 1..Len(Tail(listener.batch)) : Tail(listener.batch)[i] <= arrived
    <2> SUFFICES ASSUME NEW i \in 1..Len(Tail(listener.batch))
                 PROVE  Tail(listener.batch)[i] <= arrived
        OBVIOUS
    <2>1. i + 1 \in 1..Len(listener.batch)
        BY <1>4
    <2> QED BY <1>4, <2>1 DEF BoundsOK
<1>8. /\ listener'.batch = Tail(listener.batch) /\ listener'.offset = offset
      /\ listener'.update = u
    BY <1>1, <1>3 DEF Shape
<1> QED BY <1>3, <1>4, <1>6, <1>7, <1>8 DEF BoundsOK, MessageId


LEMMA OtherBounds ==
    ASSUME AnswerInv, AnswerInv', OutboxInv, BoundsOK, [Next]_vars, ~Poll, ~Take
    PROVE  BoundsOK'
<1>1. Shape /\ arrived \in Nat /\ crashes <= MaxCrashes /\ inbound \subseteq MessageId
    BY ChannelAssumption DEF AnswerInv, ListenerOK, CountersOK, BoundsOK
<1> USE DEF Shape
<1>2. CASE Arrive \/ UNCHANGED vars \/ \E i \in DOMAIN outbound : Age(i) \/ Ripen(i)
    <2>1. UNCHANGED <<listener, confirmed, inbound, crashes>> /\ arrived' >= arrived
        BY <1>1, <1>2 DEF Arrive, vars, Age, Ripen
    <2> QED BY <1>1, <2>1, BoundsKept
<1>3. CASE Crash
    <2>1. UNCHANGED <<arrived, confirmed, inbound>> /\ arrived' >= arrived
        BY <1>1, <1>3 DEF Crash
    <2>2. crashes' <= MaxCrashes
        <3>1. crashes' = crashes + 1 /\ crashes < MaxCrashes
            BY <1>3 DEF Crash
        <3>2. crashes \in Nat /\ MaxCrashes \in Nat
            BY ChannelAssumption DEF OutboxInv, OutboxTypeOK
        <3> QED BY <3>1, <3>2
    <2>3. listener'.offset = 0 /\ listener'.batch = <<>> /\ listener'.update = 0
        BY <1>3 DEF Crash, Started
    <2> QED BY <1>1, <2>1, <2>2, <2>3, BoundsKept
<1>4. CASE Register
    <2>1. PICK pc \in {"idle", "turn"} : listener' = [listener EXCEPT !.pc = pc]
        BY <1>4 DEF Register
    <2>2. inbound' = inbound \cup {MessageIdOf[listener.update]} /\ listener.update \in Update
        BY <1>4 DEF Register, AnswerInv, ListenerOK
    <2>3. inbound' \subseteq MessageId
        BY <1>1, <2>2 DEF MessageId
    <2>4. UNCHANGED <<arrived, confirmed, crashes>> /\ arrived' >= arrived
        BY <1>1, <1>4 DEF Register
    <2>5. /\ listener'.offset = listener.offset /\ listener'.batch = listener.batch
          /\ listener'.update = listener.update
        BY <1>1, <2>1
    <2> QED BY <1>1, <2>3, <2>4, <2>5, BoundsKept
<1>5. CASE Lose \/ Turn \/ Queue \/ Claim \/ Send \/ SendFails \/ Acknowledge \/ Release \/ Done
    <2>1. UNCHANGED <<arrived, confirmed, inbound, crashes>> /\ arrived' >= arrived
        <3>1. Lose \/ Turn \/ Queue \/ Done => UNCHANGED <<arrived, confirmed, inbound, crashes>>
            BY DEF Lose, Turn, Queue, Done
        <3>2. Claim \/ Send \/ SendFails => UNCHANGED <<arrived, confirmed, inbound, crashes>>
            BY DEF Claim, Send, SendFails
        <3>3. Acknowledge \/ Release => UNCHANGED <<arrived, confirmed, inbound, crashes>>
            BY DEF Acknowledge, Release
        <3>4. UNCHANGED <<arrived, confirmed, inbound, crashes>>
            BY <1>5, <3>1, <3>2, <3>3
        <3> QED BY <1>1, <3>4
    <2>2. /\ listener'.offset = listener.offset /\ listener'.update = listener.update
          /\ listener'.batch \in {listener.batch, <<>>}
        <3>1. CASE listener' = GivenUp
            BY <1>1, <3>1 DEF GivenUp
        <3>2. CASE \E pc : listener' = [listener EXCEPT !.pc = pc]
            BY <1>1, <3>2
        <3>3. CASE \E queueing, sending :
                      listener' = [listener EXCEPT !.pc = "replying", !.queueing = queueing,
                                                   !.sending = sending]
            BY <1>1, <3>3
        <3>4. CASE listener' = [listener EXCEPT !.pc = "replying", !.sending = <<Apology>>]
            BY <1>1, <3>4
        <3>5. CASE \E queueing : listener' = [listener EXCEPT !.queueing = queueing]
            BY <1>1, <3>5
        <3>6. CASE \E row : listener' = [listener EXCEPT !.pc = "claimed", !.row = row]
            BY <1>1, <3>6
        <3>7. CASE \E sending :
                      listener' = [listener EXCEPT !.pc = "replying", !.sending = sending,
                                                   !.row = 0]
            BY <1>1, <3>7
        <3>8. Lose \/ Release \/ Done => listener' = GivenUp
                                         \/ \E pc : listener' = [listener EXCEPT !.pc = pc]
            BY DEF Lose, Release, Done
        <3>9. Send \/ SendFails => \E pc : listener' = [listener EXCEPT !.pc = pc]
            BY DEF Send, SendFails
        <3>10. Turn => \/ \E queueing, sending :
                             listener' = [listener EXCEPT !.pc = "replying",
                                            !.queueing = queueing, !.sending = sending]
                       \/ listener' = [listener EXCEPT !.pc = "replying", !.sending = <<Apology>>]
            BY DEF Turn
        <3>11. Queue => \E queueing : listener' = [listener EXCEPT !.queueing = queueing]
            BY DEF Queue
        <3>12. Claim => \E row : listener' = [listener EXCEPT !.pc = "claimed", !.row = row]
            BY DEF Claim
        <3>13. Acknowledge => \E sending : listener' = [listener EXCEPT !.pc = "replying",
                                                          !.sending = sending, !.row = 0]
            BY DEF Acknowledge
        <3> QED BY <1>5, <3>1, <3>2, <3>3, <3>4, <3>5, <3>6, <3>7, <3>8, <3>9, <3>10, <3>11,
                   <3>12, <3>13
    <2> QED BY <1>1, <2>1, <2>2, BoundsKept
<1> QED BY <1>2, <1>3, <1>4, <1>5 DEF Next, Listen

\* Steps that add no row.
LEMMA PartsKept ==
    ASSUME PartsOK, listener'.queueing \in Seq(Part), DOMAIN outbound' = DOMAIN outbound,
           \A i \in DOMAIN outbound :
              outbound'[i].text = outbound[i].text /\ outbound'[i].key = outbound[i].key
    PROVE  PartsOK'
  BY DEF PartsOK, Part

LEMMA QueueParts == AnswerInv /\ OutboxInv /\ PartsOK /\ Queue => PartsOK'
<1> SUFFICES ASSUME AnswerInv, OutboxInv, PartsOK, Queue PROVE PartsOK'
    OBVIOUS
<1>1. PICK text, key, row :
         /\ text = Head(listener.queueing) /\ key = <<MessageIdOf[listener.update], text>>
         /\ row = [key |-> key, chat |-> ListenerChat, text |-> text, status |-> "pending"]
         /\ outbound' = IF Queued(key) THEN outbound ELSE Append(outbound, row)
         /\ listener.queueing # <<>>
         /\ listener' = [listener EXCEPT !.queueing = Tail(listener.queueing)]
    BY DEF Queue, NewStatus
<1>2. /\ Shape /\ outbound \in Seq(OutRow) /\ listener.queueing \in Seq(Part)
    BY DEF AnswerInv, ListenerOK, OutboxInv, OutboxTypeOK, PartsOK
<1>3. text \in Part /\ listener'.queueing \in Seq(Part)
    <2>1. text \in Part /\ Tail(listener.queueing) \in Seq(Part)
        BY <1>1, <1>2, HeadTailProperties
    <2> QED BY <1>1, <1>2, <2>1 DEF Shape
<1>4. CASE outbound' = outbound
    BY <1>3, <1>4, PartsKept
<1>5. CASE ~Queued(key) /\ outbound' = Append(outbound, row)
    <2>1. /\ Len(outbound') = Len(outbound) + 1
          /\ \A j \in 1..Len(outbound) : outbound'[j] = outbound[j]
          /\ outbound'[Len(outbound) + 1] = row
          /\ DOMAIN outbound' = 1..Len(outbound')
        <3>1. Append(outbound, row) \in Seq(OutRow \cup {row})
            BY <1>2
        <3> QED BY <1>2, <1>5, <3>1, AppendProperties, LenProperties
    <2>2. DOMAIN outbound = 1..Len(outbound) /\ Len(outbound) \in Nat
        BY <1>2, LenProperties
    <2>3. \A j \in DOMAIN outbound' : j \in DOMAIN outbound \/ j = Len(outbound) + 1
        BY <2>1, <2>2
    <2>4. row.text = text /\ row.key = key
        BY <1>1
    <2>5. \A i \in DOMAIN outbound' : outbound'[i].text \in Part
        BY <1>3, <2>1, <2>2, <2>3, <2>4 DEF PartsOK
    <2>6. \A i \in DOMAIN outbound : outbound[i].key # key
        BY <1>5 DEF Queued
    <2>7. \A i, j \in DOMAIN outbound' : outbound'[i].key = outbound'[j].key => i = j
        BY <2>1, <2>2, <2>3, <2>4, <2>6 DEF PartsOK
    <2> QED BY <1>3, <2>5, <2>7 DEF PartsOK, Part
<1> QED BY <1>1, <1>4, <1>5

LEMMA RepliesHaveParts == \A reply \in Reply : reply \in Seq(Part)
<1> SUFFICES ASSUME NEW reply \in Reply PROVE reply \in Seq(Part)
    OBVIOUS
<1>1. reply \in Seq(Range(reply)) /\ Range(reply) \subseteq Part
    BY ChannelAssumption DEF Part
<1> QED BY <1>1, SeqMonotonic

LEMMA OtherParts ==
    ASSUME AnswerInv, OutboxInv, PartsOK, [Next]_vars, ~Queue
    PROVE  PartsOK'
<1>1. /\ Shape /\ outbound \in Seq(OutRow) /\ listener.queueing \in Seq(Part)
      /\ <<>> \in Seq(Part)
    BY DEF AnswerInv, ListenerOK, OutboxInv, OutboxTypeOK, PartsOK
<1>2. ASSUME outbound' = outbound, listener'.queueing \in Seq(Part)
      PROVE  PartsOK'
    BY <1>2, PartsKept
<1>3. listener' = GivenUp \/ listener' = Started => listener'.queueing \in Seq(Part)
    <2>1. GivenUp.queueing = <<>> /\ Started.queueing = <<>>
        BY <1>1 DEF GivenUp, Started, Shape
    <2> QED BY <1>1, <2>1
<1>4. (\E pc : listener' = [listener EXCEPT !.pc = pc]) => listener'.queueing \in Seq(Part)
    BY <1>1 DEF Shape
<1>5. CASE Arrive \/ UNCHANGED vars
    BY <1>1, <1>2, <1>5 DEF Arrive, vars
<1>6. CASE Crash \/ Lose \/ Done
    BY <1>2, <1>3, <1>4, <1>6 DEF Crash, Lose, Done
<1>7. CASE Poll \/ Take \/ Register
    BY <1>1, <1>2, <1>7, QuietEffects
<1>8. CASE Turn
    <2>1. \/ \E reply \in Reply :
                listener' = [listener EXCEPT !.pc = "replying", !.queueing = reply,
                                             !.sending = reply]
          \/ listener' = [listener EXCEPT !.pc = "replying", !.sending = <<Apology>>]
        BY <1>8 DEF Turn
    <2>2. listener'.queueing \in Seq(Part)
        BY <1>1, <2>1, RepliesHaveParts DEF Shape
    <2> QED BY <1>2, <1>8, <2>2 DEF Turn
<1>9. CASE Claim
    <2>1. /\ DOMAIN outbound' = DOMAIN outbound
          /\ \A i \in DOMAIN outbound :
                outbound'[i].text = outbound[i].text /\ outbound'[i].key = outbound[i].key
          /\ listener' = [listener EXCEPT !.pc = "claimed", !.row = listener'.row]
        BY <1>1, <1>9, ClaimFacts
    <2>2. listener'.queueing = listener.queueing
        BY <1>1, <2>1 DEF Shape
    <2> QED BY <1>1, <2>1, <2>2, PartsKept
<1>10. CASE Send \/ SendFails
    BY <1>2, <1>4, <1>10 DEF Send, SendFails
<1>11. CASE Acknowledge \/ Release
    <2>1. PICK status \in Status : outbound' = Marked(status)
        BY <1>11 DEF Acknowledge, Release, ReleasedStatus, Status
    <2>2. listener.row \in DOMAIN outbound \cup {0}
        BY DEF OutboxInv, ClaimIsHeld
    <2>3. /\ DOMAIN outbound' = DOMAIN outbound
          /\ \A i \in DOMAIN outbound :
                outbound'[i].text = outbound[i].text /\ outbound'[i].key = outbound[i].key
        <3>1. CASE listener.row = 0
            BY <2>1, <3>1 DEF Marked
        <3>2. CASE listener.row # 0
            <4>1. outbound' = [outbound EXCEPT ![listener.row].status = status]
                BY <2>1, <3>2 DEF Marked
            <4>2. listener.row \in DOMAIN outbound
                BY <2>2, <3>2
            <4> QED BY <1>1, <4>1, <4>2, RowMarked
        <3> QED BY <3>1, <3>2
    <2>4. listener'.queueing \in Seq(Part)
        <3>1. \/ listener' = GivenUp
              \/ \E sending : listener' = [listener EXCEPT !.pc = "replying",
                                             !.sending = sending, !.row = 0]
            BY <1>11 DEF Acknowledge, Release
        <3> QED BY <1>1, <1>3, <3>1 DEF Shape
    <2> QED BY <2>3, <2>4, PartsKept
<1>12. ASSUME NEW i \in DOMAIN outbound, Age(i) \/ Ripen(i)
       PROVE  PartsOK'
    <2>1. PICK status \in {"stale", "pending"} :
             outbound' = [outbound EXCEPT ![i].status = status] /\ listener' = listener
        BY <1>12 DEF Age, Ripen
    <2>2. /\ DOMAIN outbound' = DOMAIN outbound
          /\ \A j \in DOMAIN outbound :
                outbound'[j].text = outbound[j].text /\ outbound'[j].key = outbound[j].key
        BY <1>1, <2>1, RowMarked DEF Status
    <2> QED BY <1>1, <2>1, <2>2, PartsKept
<1> QED BY <1>5, <1>6, <1>7, <1>8, <1>9, <1>10, <1>11, <1>12 DEF Next, Listen

LEMMA NextChannel ==
    AnswerInv /\ AnswerInv' /\ OutboxInv /\ TypeInv /\ [Next]_vars => TypeInv'
  BY PollBounds, TakeBounds, OtherBounds, QueueParts, OtherParts DEF TypeInv

LEMMA ChannelTyped == AnswerInv /\ OutboxInv /\ TypeInv => ChannelTypeOK
<1> SUFFICES ASSUME AnswerInv, OutboxInv, TypeInv PROVE ChannelTypeOK
    OBVIOUS
<1>1. /\ arrived \in 0..MaxUpdates /\ confirmed \in Nat /\ confirmed <= arrived
      /\ listener.pc \in Pc /\ listener.offset \in Nat /\ listener.offset <= arrived + 1
      /\ crashes \in Nat /\ crashes <= MaxCrashes
    BY DEF AnswerInv, ListenerOK, CountersOK, OutboxInv, OutboxTypeOK, TypeInv, BoundsOK
<1>2. confirmed \in 0..arrived /\ listener.offset \in 0..(MaxUpdates + 1)
      /\ crashes \in 0..MaxCrashes
    BY <1>1, ChannelAssumption
<1>3. /\ inbound \subseteq {MessageIdOf[u] : u \in Update}
      /\ listener.update \in Update \cup {0} /\ listener.row \in DOMAIN outbound \cup {0}
    BY DEF TypeInv, BoundsOK, MessageId, OutboxInv, ClaimIsHeld
<1>4. ASSUME NEW i \in DOMAIN outbound
      PROVE  /\ outbound[i].status \in Status /\ outbound[i].chat \in Chat
             /\ \E reply \in Reply : outbound[i].text \in Range(reply)
             /\ \A j \in DOMAIN outbound : outbound[j].key = outbound[i].key => i = j
    <2>1. outbound \in Seq(OutRow) /\ DOMAIN outbound = 1..Len(outbound)
        BY LenProperties DEF OutboxInv, OutboxTypeOK
    <2>2. outbound[i] \in OutRow
        BY <2>1, ElementOfSeq
    <2>3. outbound[i].text \in Part
        BY DEF TypeInv, PartsOK
    <2> QED BY <2>2, <2>3 DEF OutRow, Part, TypeInv, PartsOK
<1> QED BY <1>1, <1>2, <1>3, <1>4 DEF ChannelTypeOK

\* Telegram's offset, the tables of ChannelStore and the listener's memory keep their
\* types, whatever is lost, redelivered or left by a death: the listener asks for no
\* update that did not come yet, the rows are parts of replies, a row's key is its own
\* (enqueue_channel_message's dedup key), and a claim the listener holds is a row.
THEOREM ChannelTypes == Spec => []ChannelTypeOK
<1>1. AnswerInv /\ OutboxInv /\ TypeInv /\ [Next]_vars => AnswerInv' /\ OutboxInv' /\ TypeInv'
    BY NextAnswer, NextOutbox, NextChannel
<1> QED BY <1>1, InitAnswer, InitOutbox, InitChannel, ChannelTyped, PTL DEF Spec
=============================================================================
