------------------------ MODULE MemoryLearningProofs ------------------------
(***************************************************************************)
(* The memory, for any contents, claims, agents, turns and records: its    *)
(* types, that the user's word stands, that a job which is done was        *)
(* learned, and that a claim contradicted by an unanswered one is not      *)
(* settled.                                                                *)
(***************************************************************************)
EXTENDS MemoryLearning, FiniteSetTheorems, SequenceTheorems, TLAPS

-----------------------------------------------------------------------------
\* The invariant of the claims

Maker(s) == s.do # "set"

\* What a planned write finds in the table: a record's id is reserved and its row not
\* yet there; a row that is changed is there, and not confirmed by that.
Sound(s) ==
    /\ IF Maker(s) THEN s.id <= made /\ memories[s.id] = NoRow
                   ELSE memories[s.id] # NoRow /\ s.state # "confirmed"
    /\ s.do = "swap" => memories[s.old] # NoRow /\ memories[s.old].claim = s.row.claim

Denying == {"forget", "dispute", "evidence", "guess", "twins", "unused"}

\* What a planned write leaves of the word of its claim k, decided on `stale` claims: of
\* a word that is the newest value and the user's, whether it was said before the plan
\* was made or, by a repetition, after it.
LeavesWord(doing, s, k, stale) ==
    \/ doing \in Denying
    \/ /\ doing = "remember" /\ Maker(s)
       /\ s.row.role = "user" /\ s.row.state = "confirmed"
       /\ k \in stale \/ \A j \in Active(k) : j < s.id
    \/ /\ doing = "inference" /\ ~Maker(s) /\ memories[s.id].role # "user"
    \/ /\ doing = "inference" /\ s.do \in {"seek", "add"}
       /\ s.row.state # "confirmed" \/ k \in stale \/ Active(k) = {}
    \/ /\ doing = "collapse" /\ ~Maker(s)
       /\ k \in stale \/ s.id \notin Newest(Active(k))
    \/ /\ doing \in {"candidates", "age"} /\ ~Maker(s) /\ memories[s.id].state # "confirmed"

Elems(p) == {p[n] : n \in DOMAIN p}

AtMostOne(p) == \A m, n \in DOMAIN p : Maker(p[m]) /\ Maker(p[n]) => m = n

Planned(a) == Elems(op[a].plan)

PlansAreSound ==
    \A a \in Agent : \A s \in Planned(a) :
        Sound(s) /\ LeavesWord(op[a].doing, s, ClaimIn(s), op[a].stale)

\* A plan makes one record at most, and no two plans the same.
OneMaker == \A a \in Agent : AtMostOne(op[a].plan)

OwnIds ==
    \A a, b \in Agent : \A s \in Planned(a), r \in Planned(b) :
        Maker(s) /\ Maker(r) /\ s.id = r.id => a = b

MadeRows == \A i \in Id : memories[i] # NoRow => i <= made

ShownRows == \A i \in shown : memories[i] # NoRow

\* The word of a claim is its newest value, and the user's.
WordIsNewest ==
    \A k \in Claim : word[k] # NoWord =>
        \E i \in Newest(Active(k)) : memories[i].content = word[k] /\ memories[i].role = "user"

ClaimInv ==
    /\ MemoryTypeOK /\ MadeRows /\ ShownRows
    /\ PlansAreSound /\ OneMaker /\ OwnIds /\ WordIsNewest

-----------------------------------------------------------------------------
\* The invariant of the jobs

Shown == [content : Content, role : Role, firm : BOOLEAN]

Known(c) == \E i \in Id : memories[i] # NoRow /\ memories[i].content = c

Coming(w, c) == \E s \in Planned(w) : Maker(s) /\ s.row.content = c

Left(w, c) == \E n \in DOMAIN work[w].left : work[w].left[n].content = c

\* What a worker has not failed with is known, or will be.
Whole(w) ==
    work[w].turn \in Verified /\ op[w].doing # "raised" =>
        \A n \in DOMAIN Evidence[work[w].turn] :
            LET c == Evidence[work[w].turn][n].content IN Known(c) \/ Coming(w, c) \/ Left(w, c)

\* A worker that has a job only promotes.
Promotes(w) ==
    Has(w) => /\ op[w].doing \in {"idle", "raised", "evidence", "inference"}
              /\ op[w].plan # <<>> => op[w].doing \in {"evidence", "inference"}

WorkIsWhole == \A w \in Worker : Whole(w) /\ Promotes(w)

LearnTypes ==
    /\ job \in [Turn -> [status : {"none", "pending", "processing", "done", "failed"},
                         attempts : Nat]]
    /\ work \in [Worker -> [turn : Turn \cup {NoTurn}, attempts : Nat,
                            left : Seq(Shown)]]

LearnInv == ClaimInv /\ LearnTypes /\ WorkIsWhole /\ DoneIsLearned

-----------------------------------------------------------------------------
\* Steps and plans

LEMMA Assumptions ==
    /\ \A c \in Content : ClaimOf[c] \in Claim
    /\ NoWord \notin Content /\ MaxRecords \in Nat /\ NoTurn \notin Turn
    /\ Worker \subseteq Agent /\ User \subseteq Agent /\ User \cap Worker = {}
    /\ Verified \subseteq Turn /\ Said \subseteq Content
    /\ Evidence \in [Turn -> Seq([content : Content, role : Role, firm : BOOLEAN])]
  BY ClaimAssumption, LearningAssumption DEF ClaimAssumption, LearningAssumption

LEMMA RowsAreThere ==
    ASSUME NEW r \in Row
    PROVE  r # NoRow /\ r.content \in Content /\ r.claim \in Claim /\ r.state \in State
              /\ r.role \in Role
  <1>1. r.content \in Content /\ r.claim \in Claim /\ r.state \in State /\ r.role \in Role
    BY DEF Row
  <1>2. NoRow.state \notin State
    BY DEF NoRow, State
  <1>3. QED
    BY <1>1, <1>2

LEMMA StepFields ==
    ASSUME NEW s \in Step
    PROVE  /\ s.id \in Id /\ s.do \in {"set", "seek", "add", "swap"}
           /\ ~Maker(s) => s.state \in State
           /\ Maker(s) => s.row \in Row
           /\ s.do = "swap" => s.old \in Id
  BY DEF Step, Maker

LEMMA SetsMade ==
    ASSUME NEW i \in Id, NEW st \in State
    PROVE  SetTo(i, st) \in Step /\ ~Maker(SetTo(i, st))
  <1>1. SetTo(i, st) \in [do : {"set"}, id : Id, state : State]
    BY DEF SetTo
  <1>2. QED
    BY <1>1 DEF Step, Maker, SetTo

LEMMA StepsMade ==
    ASSUME NEW i \in Id, NEW j \in Id, NEW r \in Row
    PROVE  /\ Seek(i, r) \in Step /\ Maker(Seek(i, r))
           /\ Add(i, r) \in Step /\ Maker(Add(i, r))
           /\ Swap(j, i, r) \in Step /\ Maker(Swap(j, i, r))
  <1>2. Seek(i, r) \in [do : {"seek", "add"}, id : Id, row : Row]
    BY DEF Seek
  <1>3. Add(i, r) \in [do : {"seek", "add"}, id : Id, row : Row]
    BY DEF Add
  <1>4. Swap(j, i, r) \in [do : {"swap"}, id : Id, row : Row, old : Id]
    BY DEF Swap
  <1>5. QED
    BY <1>2, <1>3, <1>4 DEF Step, Maker, Seek, Add, Swap

LEMMA Single ==
    ASSUME NEW s \in Step
    PROVE  <<s>> \in Seq(Step) /\ Elems(<<s>>) = {s} /\ AtMostOne(<<s>>) /\ <<s>> # <<>>
  <1>1. <<s>> \in Seq(Step) /\ DOMAIN <<s>> = {1} /\ <<s>>[1] = s
    OBVIOUS
  <1>2. QED
    BY <1>1 DEF Elems, AtMostOne

LEMMA Nothing ==
    <<>> \in Seq(Step) /\ Elems(<<>>) = {} /\ AtMostOne(<<>>)
  BY DEF Elems, AtMostOne

LEMMA HeadAndTail ==
    ASSUME NEW p \in Seq(Step), p # <<>>
    PROVE  /\ Head(p) \in Step /\ Head(p) \in Elems(p)
           /\ Tail(p) \in Seq(Step) /\ Elems(p) = {Head(p)} \cup Elems(Tail(p))
           /\ AtMostOne(p) => AtMostOne(Tail(p))
           /\ AtMostOne(p) /\ Maker(Head(p)) => \A s \in Elems(Tail(p)) : ~Maker(s)
  <1> DEFINE t == Tail(p)
  <1>1. /\ Len(p) \in Nat \ {0} /\ DOMAIN p = 1..Len(p) /\ Head(p) = p[1] /\ p[1] \in Step
        /\ t \in Seq(Step) /\ DOMAIN t = 1..(Len(p) - 1)
        /\ \A n \in DOMAIN t : t[n] = p[n + 1] /\ n + 1 \in DOMAIN p /\ n + 1 # 1
    OBVIOUS
  <1>2. Elems(p) = {Head(p)} \cup Elems(t)
    <2>1. Elems(p) \subseteq {Head(p)} \cup Elems(t)
      <3>1. SUFFICES ASSUME NEW n \in DOMAIN p PROVE p[n] \in {Head(p)} \cup Elems(t)
        BY DEF Elems
      <3>2. CASE n = 1
        BY <3>2, <1>1
      <3>3. CASE n # 1
        <4>1. n - 1 \in DOMAIN t /\ p[n] = t[n - 1]
          BY <3>3, <1>1
        <4>2. QED
          BY <4>1 DEF Elems
      <3>4. QED
        BY <3>2, <3>3
    <2>2. \A n \in DOMAIN t : t[n] \in Elems(p)
      BY <1>1 DEF Elems
    <2>3. Head(p) \in Elems(p)
      BY <1>1 DEF Elems
    <2>4. QED
      BY <2>1, <2>2, <2>3 DEF Elems
  <1>3. ASSUME AtMostOne(p) PROVE AtMostOne(t)
    <2>1. SUFFICES ASSUME NEW m \in DOMAIN t, NEW n \in DOMAIN t, Maker(t[m]), Maker(t[n])
                   PROVE  m = n
      BY DEF AtMostOne
    <2>2. m + 1 = n + 1
      BY <2>1, <1>1, <1>3 DEF AtMostOne
    <2>3. QED
      BY <2>2, <1>1
  <1>4. ASSUME AtMostOne(p), Maker(Head(p)), NEW n \in DOMAIN t PROVE ~Maker(t[n])
    BY <1>1, <1>4 DEF AtMostOne
  <1>5. QED
    BY <1>1, <1>2, <1>3, <1>4 DEF Elems

LEMMA InFront ==
    ASSUME NEW s \in Step, NEW p \in Seq(Step)
    PROVE  LET q == <<s>> \o p
           IN  /\ q \in Seq(Step) /\ Elems(q) = {s} \cup Elems(p) /\ q # <<>>
               /\ AtMostOne(p) /\ (Maker(s) => \A r \in Elems(p) : ~Maker(r)) => AtMostOne(q)
  <1> DEFINE q == <<s>> \o p
  <1>1. /\ q \in Seq(Step) /\ q # <<>> /\ Len(p) \in Nat
        /\ DOMAIN p = 1..Len(p) /\ DOMAIN q = 1..(Len(p) + 1)
        /\ q[1] = s /\ \A n \in DOMAIN p : q[n + 1] = p[n]
    OBVIOUS
  <1>2. \A n \in DOMAIN q : n # 1 => n - 1 \in DOMAIN p /\ q[n] = p[n - 1]
    BY <1>1
  <1>3. Elems(q) = {s} \cup Elems(p)
    <2>1. \A n \in DOMAIN q : q[n] \in {s} \cup Elems(p)
      BY <1>1, <1>2 DEF Elems
    <2>2. \A n \in DOMAIN p : p[n] \in Elems(q)
      <3>1. SUFFICES ASSUME NEW n \in DOMAIN p PROVE p[n] \in Elems(q)
        OBVIOUS
      <3>2. n + 1 \in DOMAIN q
        BY <1>1
      <3>3. QED
        BY <1>1, <3>2 DEF Elems
    <2>3. s \in Elems(q)
      <3>1. 1 \in DOMAIN q
        BY <1>1
      <3>2. QED
        BY <1>1, <3>1 DEF Elems
    <2>4. QED
      BY <2>1, <2>2, <2>3 DEF Elems
  <1>4. ASSUME AtMostOne(p), Maker(s) => \A r \in Elems(p) : ~Maker(r)
        PROVE  AtMostOne(q)
    <2>1. SUFFICES ASSUME NEW m \in DOMAIN q, NEW n \in DOMAIN q, Maker(q[m]), Maker(q[n])
                   PROVE  m = n
      BY DEF AtMostOne
    <2>2. CASE m = 1 \/ n = 1
      BY <2>1, <2>2, <1>1, <1>2, <1>4 DEF Elems
    <2>3. CASE m # 1 /\ n # 1
      <3>1. m - 1 = n - 1
        BY <2>1, <2>3, <1>2, <1>4 DEF AtMostOne
      <3>2. QED
        BY <3>1, <1>1
    <2>4. QED
      BY <2>2, <2>3
  <1>5. QED
    BY <1>1, <1>3, <1>4

LEMMA InBack ==
    ASSUME NEW p \in Seq(Step), NEW s \in Step, \A r \in Elems(p) : ~Maker(r)
    PROVE  LET q == p \o <<s>>
           IN  q \in Seq(Step) /\ Elems(q) = Elems(p) \cup {s} /\ q # <<>> /\ AtMostOne(q)
  <1> DEFINE q == p \o <<s>>
  <1>1. /\ q \in Seq(Step) /\ q # <<>> /\ Len(p) \in Nat
        /\ DOMAIN p = 1..Len(p) /\ DOMAIN q = 1..(Len(p) + 1)
        /\ q[Len(p) + 1] = s /\ \A n \in DOMAIN p : q[n] = p[n]
    OBVIOUS
  <1>2. \A n \in DOMAIN q : n # Len(p) + 1 => n \in DOMAIN p /\ q[n] = p[n]
    BY <1>1
  <1>3. Elems(q) = Elems(p) \cup {s}
    <2>1. \A n \in DOMAIN q : q[n] \in Elems(p) \cup {s}
      BY <1>1, <1>2 DEF Elems
    <2>2. \A n \in DOMAIN p : p[n] \in Elems(q)
      <3>1. SUFFICES ASSUME NEW n \in DOMAIN p PROVE p[n] \in Elems(q)
        OBVIOUS
      <3>2. n \in DOMAIN q
        BY <1>1
      <3>3. QED
        BY <1>1, <3>2 DEF Elems
    <2>3. s \in Elems(q)
      <3>1. Len(p) + 1 \in DOMAIN q
        BY <1>1
      <3>2. QED
        BY <1>1, <3>1 DEF Elems
    <2>4. QED
      BY <2>1, <2>2, <2>3 DEF Elems
  <1>4. \A n \in DOMAIN q : Maker(q[n]) => n = Len(p) + 1
    BY <1>2 DEF Elems
  <1>5. QED
    BY <1>1, <1>3, <1>4 DEF AtMostOne

\* A plan that sets the state of rows.
LEMMA SetAllPlans ==
    ASSUME NEW ids \in SUBSET Id, NEW st \in State, NEW p \in SetAll(ids, st)
    PROVE  /\ p \in Seq(Step) /\ AtMostOne(p)
           /\ \A s \in Elems(p) : \E i \in ids : s = SetTo(i, st)
           /\ \A s \in Elems(p) : ~Maker(s)
  <1>1. PICK q \in SetToSeqs(ids) : p = [n \in DOMAIN q |-> SetTo(q[n], st)]
    BY DEF SetAll
  <1>2. Cardinality(ids) \in Nat
    <2>1. IsFiniteSet(Id)
      BY FS_Interval, Assumptions DEF Id
    <2>2. QED
      BY <2>1, FS_Subset, FS_CardinalityType
  <1>3. q \in [1..Cardinality(ids) -> ids]
    BY <1>1 DEF SetToSeqs
  <1>4. \A n \in DOMAIN p : q[n] \in ids /\ p[n] = SetTo(q[n], st) /\ p[n] \in Step /\ ~Maker(p[n])
    BY <1>1, <1>2, <1>3, SetsMade
  <1>5. p \in [1..Cardinality(ids) -> Step]
    BY <1>1, <1>3, <1>4
  <1>6. QED
    BY <1>2, <1>4, <1>5 DEF Elems, AtMostOne

-----------------------------------------------------------------------------
\* What agents plan

Op == [doing : Doing, plan : Seq(Step), stale : SUBSET Claim]

LEMMA SameWord ==
    ASSUME ClaimInv, UNCHANGED <<memories, word>>
    PROVE  word' \in [Claim -> Content \cup {NoWord}] /\ WordIsNewest'
  BY DEF ClaimInv, MemoryTypeOK, WordIsNewest, Active, In, Newest

\* A repetition makes a word of the newest value only.
LEMMA RepeatedWord ==
    ASSUME ClaimInv, UNCHANGED memories, NEW k \in Claim, NEW c \in Content,
           word' = WordSaidAgain(k, c)
    PROVE  word' \in [Claim -> Content \cup {NoWord}] /\ WordIsNewest'
  <1>1. word \in [Claim -> Content \cup {NoWord}] /\ NoWord \notin Content
    BY Assumptions DEF ClaimInv, MemoryTypeOK
  <1> DEFINE stands == \E i \in Newest(Active(k)) :
                          memories[i].content = c /\ memories[i].role = "user"
  <1>2. word' = [word EXCEPT ![k] = IF stands THEN c ELSE NoWord]
    BY DEF WordSaidAgain
  <1>3. word' \in [Claim -> Content \cup {NoWord}]
    BY <1>1, <1>2
  <1>4. ASSUME NEW j \in Claim, word'[j] # NoWord
        PROVE  \E i \in Newest(Active(j)) : memories[i].content = word'[j] /\ memories[i].role = "user"
    <2>1. CASE j = k
      BY <2>1, <1>1, <1>2, <1>4
    <2>2. CASE j # k
      BY <2>2, <1>1, <1>2, <1>4 DEF ClaimInv, WordIsNewest
    <2>3. QED
      BY <2>1, <2>2
  <1> HIDE DEF stands
  <1>5. QED
    BY <1>3, <1>4 DEF WordIsNewest, Newest, Active, In

\* An agent changes its plan, and the table stays.
LEMMA Replanned ==
    ASSUME ClaimInv, NEW a \in Agent, NEW e \in Op, op' = [op EXCEPT ![a] = e],
           UNCHANGED memories, word' \in [Claim -> Content \cup {NoWord}], WordIsNewest',
           made' \in Nat, made <= made', made' <= MaxRecords,
           shown' \subseteq Id, ShownRows', AtMostOne(e.plan),
           \A s \in Elems(e.plan) :
              /\ Sound(s)' /\ LeavesWord(e.doing, s, ClaimIn(s), e.stale)
              /\ Maker(s) => s.id > made \/ \E r \in Planned(a) : Maker(r) /\ r.id = s.id
    PROVE  ClaimInv'
  <1> USE Assumptions
  <1>0. made \in Nat /\ op \in [Agent -> Op]
    BY DEF ClaimInv, MemoryTypeOK, Op
  <1>1. MemoryTypeOK'
    BY <1>0 DEF ClaimInv, MemoryTypeOK, Op
  <1>2. MadeRows' /\ WordIsNewest'
    <2>1. \A i \in Id : i \in Nat
      BY DEF Id
    <2>2. MadeRows'
      BY <1>0, <2>1 DEF ClaimInv, MadeRows
    <2>3. QED
      BY <2>2
  <1>3. op'[a] = e /\ \A b \in Agent : b # a => op'[b] = op[b]
    BY <1>0
  <1>4. Planned(a)' = Elems(e.plan) /\ \A b \in Agent : b # a => Planned(b)' = Planned(b)
    BY <1>3 DEF Planned
  <1>5. \A b \in Agent : \A s \in Planned(b) : s \in Step /\ s.id \in Nat
    <2>1. SUFFICES ASSUME NEW b \in Agent, NEW s \in Planned(b) PROVE s \in Step /\ s.id \in Nat
      OBVIOUS
    <2>2. op[b].plan \in Seq(Step)
      BY <1>0 DEF Op
    <2>3. s \in Step
      BY <2>2 DEF Planned, Elems
    <2>4. QED
      BY <2>3, StepFields DEF Id
  <1>6. PlansAreSound'
    <2>1. SUFFICES ASSUME NEW b \in Agent, NEW s \in Planned(b)'
                   PROVE  Sound(s)' /\ LeavesWord(op[b].doing, s, ClaimIn(s), op[b].stale)'
      BY DEF PlansAreSound
    <2>2. CASE b = a
      BY <2>2, <1>3, <1>4 DEF LeavesWord, ClaimIn, Active, In, Newest
    <2>3. CASE b # a
      <3>1. /\ s \in Planned(b) /\ op'[b] = op[b]
            /\ Sound(s) /\ LeavesWord(op[b].doing, s, ClaimIn(s), op[b].stale)
        BY <2>3, <1>3, <1>4 DEF ClaimInv, PlansAreSound
      <3>2. Sound(s)'
        BY <3>1, <1>0, <1>5 DEF Sound
      <3>3. QED
        BY <3>1, <3>2 DEF LeavesWord, ClaimIn, Active, In, Newest
    <2>4. QED
      BY <2>2, <2>3
  <1>7. OneMaker'
    BY <1>3 DEF ClaimInv, OneMaker
  <1>8. OwnIds'
    <2>1. SUFFICES ASSUME NEW b \in Agent, b # a, NEW s \in Elems(e.plan), NEW r \in Planned(b),
                          Maker(s), Maker(r), s.id = r.id
                   PROVE  FALSE
      BY <1>4 DEF ClaimInv, OwnIds
    <2>2. r.id <= made
      BY <2>1 DEF ClaimInv, PlansAreSound, Sound
    <2>3. ~(s.id > made)
      BY <2>1, <2>2, <1>0, <1>5
    <2>4. PICK q \in Planned(a) : Maker(q) /\ q.id = r.id
      BY <2>1, <2>3
    <2>5. QED
      BY <2>1, <2>4 DEF ClaimInv, OwnIds
  <1>9. QED
    BY <1>1, <1>2, <1>6, <1>7, <1>8 DEF ClaimInv

LEMMA Emptied ==
    ASSUME ClaimInv, NEW a \in Agent, NEW e \in Op, e.plan = <<>>,
           op' = [op EXCEPT ![a] = e], UNCHANGED <<memories, made, shown, word>>
    PROVE  ClaimInv'
  <1>1. made \in Nat /\ made <= MaxRecords /\ shown \subseteq Id
    BY Assumptions DEF ClaimInv, MemoryTypeOK
  <1>2. made' \in Nat /\ made <= made' /\ made' <= MaxRecords /\ shown' \subseteq Id
    BY <1>1
  <1>3. ShownRows'
    BY DEF ClaimInv, ShownRows
  <1>4. AtMostOne(e.plan) /\ Elems(e.plan) = {}
    BY Nothing
  <1>5. QED
    BY <1>2, <1>3, <1>4, SameWord, Replanned

LEMMA RestIsOp ==
    Rest \in Op /\ Rest.plan = <<>> /\ [Rest EXCEPT !.doing = "raised"] \in Op
        /\ [Rest EXCEPT !.doing = "raised"].plan = <<>>
        /\ Rest.doing = "idle" /\ [Rest EXCEPT !.doing = "raised"].doing = "raised"
  BY Nothing DEF Rest, Op, Doing

LEMMA Decided ==
    ASSUME ClaimInv, NEW a \in Agent, NEW doing \in Doing, NEW plan \in Seq(Step),
           Decide(a, doing, plan), UNCHANGED <<memories, shown, word>>,
           made' \in Nat, made <= made', made' <= MaxRecords, AtMostOne(plan),
           \A s \in Elems(plan) :
              Sound(s)' /\ LeavesWord(doing, s, ClaimIn(s), {}) /\ (Maker(s) => s.id > made)
    PROVE  ClaimInv'
  <1> DEFINE e == IF plan = <<>> /\ Done(doing) = "idle" THEN Rest
                  ELSE [doing |-> doing, plan |-> plan, stale |-> {}]
  <1>1. e \in Op /\ e.plan = plan /\ op' = [op EXCEPT ![a] = e]
    BY RestIsOp DEF Decide, Op
  <1>2. \A s \in Elems(e.plan) : e.doing = doing /\ e.stale = {}
    BY <1>1, Nothing
  <1>3. shown' \subseteq Id /\ ShownRows'
    BY DEF ClaimInv, ShownRows, MemoryTypeOK
  <1> HIDE DEF e
  <1>4. QED
    BY <1>1, <1>2, <1>3, SameWord, Replanned

LEMMA OnwardFields ==
    ASSUME NEW a \in Agent, op[a] \in Op, NEW plan \in Seq(Step)
    PROVE  LET e == Onward(a, plan)
           IN  /\ e \in Op /\ e.plan = plan
               /\ plan # <<>> => e.doing = op[a].doing /\ e.stale = op[a].stale
  BY RestIsOp DEF Onward, Op

LEMMA Heads ==
    ASSUME ClaimInv, NEW a \in Agent, op[a].plan # <<>>
    PROVE  LET s == Head(op[a].plan)
               p == Tail(op[a].plan)
           IN  /\ op[a] \in Op /\ s \in Step /\ p \in Seq(Step)
               /\ Planned(a) = {s} \cup Elems(p)
               /\ AtMostOne(p) /\ (Maker(s) => \A r \in Elems(p) : ~Maker(r))
               /\ Sound(s) /\ LeavesWord(op[a].doing, s, ClaimIn(s), op[a].stale)
  <1>1. op[a] \in Op /\ op[a].plan \in Seq(Step) /\ AtMostOne(op[a].plan)
    BY DEF ClaimInv, MemoryTypeOK, OneMaker, Op
  <1>2. QED
    BY <1>1, HeadAndTail DEF ClaimInv, PlansAreSound, Planned

LEMMA Looked ==
    ASSUME ClaimInv, NEW a \in Agent, Look(a)
    PROVE  ClaimInv'
  <1> DEFINE s == Head(op[a].plan)
             r == Add(s.id, s.row)
             q == Tail(op[a].plan)
             p == (IF Exists(s) THEN <<>> ELSE <<r>>) \o q
             e == Onward(a, p)
  <1>1. op[a].plan # <<>> /\ s.do = "seek" /\ op' = [op EXCEPT ![a] = e]
    BY DEF Look
  <1>2. /\ op[a] \in Op /\ s \in Step /\ q \in Seq(Step)
        /\ Planned(a) = {s} \cup Elems(q)
        /\ AtMostOne(q) /\ (Maker(s) => \A x \in Elems(q) : ~Maker(x))
        /\ Sound(s) /\ LeavesWord(op[a].doing, s, ClaimIn(s), op[a].stale)
    BY <1>1, Heads
  <1>3. Maker(s) /\ s.id \in Id /\ s.row \in Row
    BY <1>1, <1>2, StepFields DEF Maker
  <1>4. /\ r \in Step /\ Maker(r) /\ r.id = s.id /\ r.row = s.row /\ r.do = "add"
    BY <1>3, StepsMade DEF Add
  <1>5. p \in Seq(Step) /\ AtMostOne(p) /\ Elems(p) \subseteq {r} \cup Elems(q)
    <2>1. CASE Exists(s)
      <3>1. p = q
        BY <2>1, <1>2
      <3>2. QED
        BY <3>1, <1>2
    <2>2. CASE ~Exists(s)
      <3>1. p = <<r>> \o q
        BY <2>2
      <3>2. QED
        BY <3>1, <1>2, <1>3, <1>4, InFront
    <2>3. QED
      BY <2>1, <2>2
  <1>6. ASSUME NEW x, x = r
        PROVE  Sound(x)' /\ LeavesWord(op[a].doing, x, ClaimIn(x), op[a].stale)
    <2> HIDE DEF r, s
    <2>1. memories' = memories /\ made' = made
      BY DEF Look
    <2>2. Sound(x)'
      BY <1>2, <1>3, <1>4, <1>6, <2>1 DEF Sound
    <2>3. ClaimIn(x) = ClaimIn(s)
      BY <1>1, <1>4, <1>6 DEF ClaimIn
    <2>4. QED
      BY <1>1, <1>2, <1>3, <1>4, <1>6, <2>2, <2>3 DEF LeavesWord
  <1>7. \A x \in Elems(q) : Sound(x)' /\ LeavesWord(op[a].doing, x, ClaimIn(x), op[a].stale)
    BY <1>2 DEF ClaimInv, PlansAreSound, Sound, Look
  <1>8. e \in Op /\ e.plan = p /\ (p # <<>> => e.doing = op[a].doing /\ e.stale = op[a].stale)
    BY <1>2, <1>5, OnwardFields
  <1>9. \A x \in Elems(e.plan) :
           /\ Sound(x)' /\ LeavesWord(e.doing, x, ClaimIn(x), e.stale)
           /\ Maker(x) => x.id > made \/ \E y \in Planned(a) : Maker(y) /\ y.id = x.id
    <2>1. SUFFICES ASSUME NEW x \in Elems(p)
                   PROVE  /\ Sound(x)' /\ LeavesWord(op[a].doing, x, ClaimIn(x), op[a].stale)
                          /\ Maker(x) => \E y \in Planned(a) : Maker(y) /\ y.id = x.id
      BY <1>8, Nothing
    <2>2. x = r \/ x \in Elems(q)
      BY <1>5
    <2> HIDE DEF r, s, q
    <2>3. QED
      BY <2>2, <1>2, <1>3, <1>4, <1>6, <1>7
  <1>10. /\ made' \in Nat /\ made <= made' /\ made' <= MaxRecords /\ shown' \subseteq Id /\ ShownRows'
    BY Assumptions DEF ClaimInv, MemoryTypeOK, ShownRows, Look
  <1>11. UNCHANGED memories /\ word' \in [Claim -> Content \cup {NoWord}] /\ WordIsNewest'
    <2>1. CASE word' = word
      BY <2>1, SameWord DEF Look
    <2>2. CASE word' # word
      <3>1. word' = WordSaidAgain(s.row.claim, s.row.content) /\ UNCHANGED memories
        BY <2>2 DEF Look
      <3>2. s.row.claim \in Claim /\ s.row.content \in Content
        BY <1>3, RowsAreThere
      <3>3. QED
        BY <3>1, <3>2, RepeatedWord
    <2>3. QED
      BY <2>1, <2>2
  <1> HIDE DEF e, p
  <1>12. QED
    BY <1>1, <1>5, <1>8, <1>9, <1>10, <1>11, Replanned

LEMMA Raised ==
    ASSUME ClaimInv, NEW a \in Agent, Raise(a)
    PROVE  ClaimInv'
  BY RestIsOp, Emptied DEF Raise, Rest

LEMMA Recalled ==
    ASSUME ClaimInv, NEW ks \in Query, Recall(ks)
    PROVE  ClaimInv'
  <1>1. shown' \subseteq Id /\ \A i \in shown' : memories[i].state = "confirmed"
    BY DEF Recall, Active, In
  <1>2. NoRow.state # "confirmed"
    BY DEF NoRow
  <1>3. ShownRows' /\ MemoryTypeOK'
    BY <1>1, <1>2 DEF ClaimInv, MemoryTypeOK, ShownRows, Recall
  <1>4. QED
    BY <1>3 DEF ClaimInv, Recall, MadeRows, PlansAreSound, OneMaker, OwnIds, WordIsNewest, Planned,
                Sound, LeavesWord, ClaimIn, Active, In, Newest

-----------------------------------------------------------------------------
\* What a write leaves

LEMMA ActiveRows ==
    ASSUME MemoryTypeOK, NEW k, NEW i \in Active(k)
    PROVE  i \in Id /\ i \in Nat /\ memories[i] # NoRow /\ memories[i] \in Row
              /\ memories[i].state = "confirmed" /\ memories[i].claim = k
  <1>1. i \in Id /\ memories[i].state = "confirmed" /\ memories[i].claim = k
    BY DEF Active, In
  <1>2. memories[i] # NoRow
    BY <1>1 DEF NoRow
  <1>3. QED
    BY <1>1, <1>2 DEF MemoryTypeOK, Id

\* The table after the write of a sound step s: rows stay, none is confirmed but a new
\* one, and only rows of the claim are another.
LEMMA Rewritten ==
    ASSUME ClaimInv, NEW s \in Step, s.do # "seek", Sound(s), memories' = Written(memories, s)
    PROVE  /\ memories' \in [Id -> Row \cup {NoRow}] /\ ClaimIn(s) \in Claim
           /\ \A i \in Id : memories[i] # NoRow =>
                 /\ memories'[i] # NoRow /\ memories'[i].content = memories[i].content
                 /\ memories'[i].claim = memories[i].claim /\ memories'[i].role = memories[i].role
                 /\ memories'[i].turn = memories[i].turn
                 /\ memories'[i].state = "confirmed" => memories[i].state = "confirmed"
           /\ \A i \in Id : memories'[i] # memories[i] =>
                 memories'[i].claim = ClaimIn(s) /\ (i # s.id => Maker(s))
           /\ \A i \in Id : memories[i] = NoRow /\ memories'[i] # NoRow => Maker(s) /\ i = s.id
           /\ Maker(s) => memories'[s.id] = s.row /\ memories[s.id] = NoRow
           /\ ~Maker(s) => memories'[s.id].state # "confirmed"
  <1>1. memories \in [Id -> Row \cup {NoRow}]
    BY DEF ClaimInv, MemoryTypeOK
  <1>2. \A r \in Row, st \in State :
           /\ [r EXCEPT !.state = st] \in Row /\ [r EXCEPT !.state = st].state = st
           /\ [r EXCEPT !.state = st].content = r.content /\ [r EXCEPT !.state = st].claim = r.claim
           /\ [r EXCEPT !.state = st].role = r.role /\ [r EXCEPT !.state = st].turn = r.turn
    BY DEF Row
  <1>3. s.id \in Id /\ s.do \in {"set", "add", "swap"}
    BY StepFields
  <1>4. "superseded" \in State /\ "superseded" # "confirmed"
    BY DEF State
  <1>5. CASE s.do = "set"
    <2>1. /\ ~Maker(s) /\ s.state \in State /\ memories[s.id] \in Row /\ s.state # "confirmed"
          /\ ClaimIn(s) = memories[s.id].claim
      BY <1>1, <1>3, <1>5, StepFields DEF Maker, Sound, ClaimIn
    <2>2. memories' = [memories EXCEPT ![s.id] = [memories[s.id] EXCEPT !.state = s.state]]
      BY <1>5 DEF Written
    <2>3. /\ memories'[s.id] = [memories[s.id] EXCEPT !.state = s.state]
          /\ \A i \in Id : i # s.id => memories'[i] = memories[i]
      BY <1>1, <1>3, <2>2
    <2>4. memories' \in [Id -> Row \cup {NoRow}]
      <3>1. [memories[s.id] EXCEPT !.state = s.state] \in Row
        BY <1>2, <2>1
      <3>2. QED
        BY <1>1, <3>1, <2>2
    <2>5. memories'[s.id] \in Row /\ memories'[s.id].state = s.state
             /\ memories'[s.id].content = memories[s.id].content
             /\ memories'[s.id].claim = memories[s.id].claim
             /\ memories'[s.id].role = memories[s.id].role
             /\ memories'[s.id].turn = memories[s.id].turn
      BY <1>2, <2>1, <2>3
    <2>6. QED
      BY <2>1, <2>3, <2>4, <2>5, <1>3, RowsAreThere
  <1>6. CASE s.do = "add"
    <2>1. Maker(s) /\ s.row \in Row /\ memories[s.id] = NoRow /\ ClaimIn(s) = s.row.claim
      BY <1>6, StepFields DEF Maker, Sound, ClaimIn
    <2>2. memories' = [memories EXCEPT ![s.id] = s.row]
      BY <1>6 DEF Written
    <2>3. /\ memories'[s.id] = s.row
          /\ \A i \in Id : i # s.id => memories'[i] = memories[i]
      BY <1>1, <1>3, <2>2
    <2>4. memories' \in [Id -> Row \cup {NoRow}]
      BY <1>1, <2>1, <2>2
    <2>5. QED
      BY <2>1, <2>3, <2>4, <1>3, RowsAreThere
  <1>7. CASE s.do = "swap"
    <2>1. /\ Maker(s) /\ s.row \in Row /\ memories[s.id] = NoRow /\ ClaimIn(s) = s.row.claim
          /\ s.old \in Id /\ memories[s.old] \in Row /\ memories[s.old].claim = s.row.claim
      BY <1>1, <1>7, StepFields DEF Maker, Sound, ClaimIn
    <2>2. s.old # s.id
      BY <2>1, RowsAreThere
    <2>3. memories' = [[memories EXCEPT ![s.id] = s.row] EXCEPT
                          ![s.old] = [memories[s.old] EXCEPT !.state = "superseded"]]
      BY <1>1, <1>3, <1>7, <2>1, <2>2 DEF Written
    <2>4. /\ memories'[s.id] = s.row
          /\ memories'[s.old] = [memories[s.old] EXCEPT !.state = "superseded"]
          /\ \A i \in Id : i # s.id /\ i # s.old => memories'[i] = memories[i]
      BY <1>1, <1>3, <2>1, <2>2, <2>3
    <2>5. memories' \in [Id -> Row \cup {NoRow}]
      BY <1>1, <1>2, <1>4, <2>1, <2>3
    <2>6. memories'[s.old] \in Row /\ memories'[s.old].state = "superseded"
             /\ memories'[s.old].content = memories[s.old].content
             /\ memories'[s.old].claim = memories[s.old].claim
             /\ memories'[s.old].role = memories[s.old].role
             /\ memories'[s.old].turn = memories[s.old].turn
      BY <1>2, <1>4, <2>1, <2>4
    <2>7. QED
      BY <2>1, <2>2, <2>4, <2>5, <2>6, <1>3, <1>4, RowsAreThere
  <1>8. QED
    BY <1>3, <1>5, <1>6, <1>7

LEMMA OthersStay ==
    ASSUME ClaimInv, NEW s \in Step, s.do # "seek", Sound(s), memories' = Written(memories, s),
           NEW k, k # ClaimIn(s)
    PROVE  Active(k)' = Active(k) /\ \A i \in Active(k) : memories'[i] = memories[i]
  <1>1. /\ \A i \in Id : memories[i] # NoRow => memories'[i].claim = memories[i].claim
        /\ \A i \in Id : memories'[i] # memories[i] => memories'[i].claim = ClaimIn(s)
    BY Rewritten
  <1>2. \A i \in Active(k) : memories'[i] = memories[i]
    BY <1>1, ActiveRows DEF ClaimInv
  <1>3. \A i \in Active(k)' : memories'[i] = memories[i]
    BY <1>1 DEF Active, In
  <1>4. QED
    BY <1>2, <1>3 DEF Active, In

LEMMA NoNewRows ==
    ASSUME ClaimInv, NEW s \in Step, s.do # "seek", Sound(s), memories' = Written(memories, s),
           NEW k, ~Maker(s) \/ s.row.state # "confirmed"
    PROVE  Active(k)' \subseteq Active(k)
  <1>1. SUFFICES ASSUME NEW i \in Active(k)' PROVE i \in Active(k)
    OBVIOUS
  <1>2. i \in Id /\ memories'[i].state = "confirmed" /\ memories'[i].claim = k
    BY DEF Active, In
  <1>3. memories'[i] # NoRow
    BY <1>2 DEF NoRow
  <1>4. memories[i] # NoRow
    BY <1>2, <1>3, Rewritten
  <1>5. QED
    BY <1>2, <1>4, Rewritten DEF Active, In

\* A newest row that is not written stays the newest.
LEMMA NewestStays ==
    ASSUME ClaimInv, NEW s \in Step, s.do # "seek", Sound(s), memories' = Written(memories, s),
           NEW k, NEW j \in Newest(Active(k)),
           (~Maker(s) /\ s.id # j) \/ (s.do = "add" /\ s.row.state # "confirmed")
    PROVE  j \in Newest(Active(k)') /\ memories'[j] = memories[j]
  <1>1. j \in Active(k) /\ \A i \in Active(k) : i <= j
    BY DEF Newest
  <1>2. j \in Id /\ memories[j] # NoRow
    BY <1>1, ActiveRows DEF ClaimInv
  <1>3. memories'[j] = memories[j]
    <2>1. CASE ~Maker(s)
      BY <2>1, <1>2, Rewritten DEF Maker
    <2>2. CASE s.do = "add"
      <3>1. memories \in [Id -> Row \cup {NoRow}] /\ Maker(s) /\ s.id # j
        BY <2>2, <1>2 DEF ClaimInv, MemoryTypeOK, Sound, Maker
      <3>2. QED
        BY <2>2, <1>2, <3>1, StepFields DEF Written
    <2>3. QED
      BY <2>1, <2>2 DEF Maker
  <1>4. Active(k)' \subseteq Active(k)
    BY NoNewRows DEF Maker
  <1>5. j \in Active(k)'
    BY <1>1, <1>3 DEF Active, In
  <1>6. QED
    BY <1>1, <1>3, <1>4, <1>5 DEF Newest

\* What step x, still to be taken, leaves of the word is not disturbed by the write of s:
\* by another agent (which makes x stale, if x is about the same claim), or by its own.
LEMMA StillLeaves ==
    ASSUME ClaimInv, NEW s \in Step, s.do # "seek", Sound(s), memories' = Written(memories, s),
           NEW x \in Step, Sound(x), NEW doing, NEW stale, NEW new,
           LeavesWord(doing, x, ClaimIn(x), stale), stale \subseteq new,
           ClaimIn(x) = ClaimIn(s) =>
              \/ ClaimIn(s) \in new
              \/ LeavesWord(doing, s, ClaimIn(s), stale) /\ (Maker(s) => ~Maker(x))
    PROVE  LeavesWord(doing, x, ClaimIn(x), new)'
  <1>1. x.id \in Id /\ (Maker(x) => x.row \in Row) /\ (~Maker(x) => memories[x.id] # NoRow)
    BY StepFields DEF Sound
  <1>2. PICK k : k = ClaimIn(x) /\ k = ClaimIn(x)'
    BY <1>1, Rewritten DEF ClaimIn, Maker
  <1>3. ~Maker(x) => /\ memories'[x.id].role = memories[x.id].role
                     /\ memories[x.id].state # "confirmed" => memories'[x.id].state # "confirmed"
    BY <1>1, Rewritten
  <1>4. CASE k # ClaimIn(s)
    <2>1. Active(k)' = Active(k)
      BY <1>2, <1>4, OthersStay
    <2>2. Newest(Active(k)') = Newest(Active(k))
      BY <2>1 DEF Newest
    <2>3. QED
      BY <1>2, <1>3, <2>1, <2>2 DEF LeavesWord, Newest
  <1>5. CASE k = ClaimIn(s) /\ k \in new
    BY <1>2, <1>3, <1>5 DEF LeavesWord
  <1>6. CASE k = ClaimIn(s) /\ k \notin new
    <2>1. k \notin stale /\ LeavesWord(doing, s, k, stale) /\ (Maker(s) => ~Maker(x))
      BY <1>2, <1>6
    <2>2. ~Maker(s) => Active(k)' \subseteq Active(k)
      BY <1>2, NoNewRows
    <2>3. CASE doing = "collapse"
      <3>1. ~Maker(s) /\ s.id \notin Newest(Active(k))
        BY <2>1, <2>3 DEF LeavesWord, Denying
      <3>2. ~Maker(x) /\ x.id \notin Newest(Active(k))
        BY <1>2, <2>1, <2>3 DEF LeavesWord, Denying
      <3>3. ASSUME x.id \in Newest(Active(k)') PROVE FALSE
        <4>1. x.id \in Active(k) /\ \A i \in Active(k)' : i <= x.id
          BY <2>2, <3>1, <3>3 DEF Newest
        <4>2. \A i \in Active(k) : i = s.id \/ i \in Active(k)'
          <5>1. SUFFICES ASSUME NEW i \in Active(k), i # s.id PROVE i \in Active(k)'
            OBVIOUS
          <5>2. i \in Id /\ memories[i].state = "confirmed" /\ memories[i].claim = k
            BY DEF Active, In
          <5>3. memories'[i] = memories[i]
            BY <3>1, <5>1, <5>2, Rewritten
          <5>4. QED
            BY <5>2, <5>3 DEF Active, In
        <4>3. \A i \in Active(k) : i \in Nat
          BY ActiveRows DEF ClaimInv
        <4>4. PICK j \in Active(k) : ~(j <= x.id)
          BY <3>2, <4>1 DEF Newest
        <4>5. j = s.id
          BY <4>1, <4>2, <4>4
        <4>6. \A i \in Active(k) : i <= j
          BY <4>1, <4>2, <4>3, <4>4, <4>5
        <4>7. QED
          BY <3>1, <4>4, <4>5, <4>6 DEF Newest
      <3>4. QED
        BY <1>2, <2>3, <3>2, <3>3 DEF LeavesWord
    <2>4. CASE doing # "collapse"
      BY <1>2, <1>3, <2>1, <2>2, <2>4 DEF LeavesWord, Denying, Maker
    <2>5. QED
      BY <2>3, <2>4
  <1>7. QED
    BY <1>4, <1>5, <1>6

\* The word of the claim after the write of a step that leaves it.
LEMMA WordStays ==
    ASSUME ClaimInv, NEW a \in Agent, NEW s \in Step, s.do # "seek", Sound(s),
           memories' = Written(memories, s), ClaimIn(s) \in Claim,
           LeavesWord(op[a].doing, s, ClaimIn(s), op[a].stale),
           word' = [word EXCEPT ![ClaimIn(s)] = WordAfter(a, s)]
    PROVE  WordIsNewest'
  <1> DEFINE k == ClaimIn(s)
             doing == op[a].doing
  <1>1. SUFFICES ASSUME NEW c \in Claim, word'[c] # NoWord
                 PROVE  \E i \in Newest(Active(c)') :
                           memories'[i].content = word'[c] /\ memories'[i].role = "user"
    BY DEF WordIsNewest, Newest, Active, In
  <1>2. word \in [Claim -> Content \cup {NoWord}]
    BY DEF ClaimInv, MemoryTypeOK
  <1>3. word[c] # NoWord =>
           \E i \in Newest(Active(c)) : memories[i].content = word[c] /\ memories[i].role = "user"
    BY DEF ClaimInv, WordIsNewest
  <1>4. CASE c # k
    <2>1. word'[c] = word[c] /\ Active(c)' = Active(c)
      BY <1>2, <1>4, OthersStay
    <2>2. \A i \in Active(c) : memories'[i] = memories[i]
      BY <1>4, OthersStay
    <2>3. QED
      BY <1>1, <1>3, <2>1, <2>2 DEF Newest
  <1>5. CASE c = k /\ doing = "remember" /\ Maker(s)
    <2>1. /\ s.row.role = "user" /\ s.row.state = "confirmed" /\ s.row.claim = c
          /\ c \notin op[a].stale /\ word'[c] = s.row.content
          /\ \A j \in Active(c) : j < s.id
      BY <1>1, <1>2, <1>5 DEF WordAfter, LeavesWord, Denying, Maker, ClaimIn
    <2>2. s.id \in Id /\ s.id \in Nat /\ memories'[s.id] = s.row
      BY <1>5, StepFields, Rewritten DEF Id
    <2>3. s.id \in Active(c)'
      BY <2>1, <2>2 DEF Active, In
    <2>4. \A i \in Active(c)' : i = s.id \/ i \in Active(c)
      <3>1. SUFFICES ASSUME NEW i \in Active(c)', i # s.id PROVE i \in Active(c)
        OBVIOUS
      <3>2. i \in Id /\ memories'[i].state = "confirmed" /\ memories'[i].claim = c
        BY DEF Active, In
      <3>3. memories'[i] # NoRow
        BY <3>2 DEF NoRow
      <3>4. memories[i] # NoRow
        BY <3>1, <3>2, <3>3, Rewritten
      <3>5. QED
        BY <3>2, <3>4, Rewritten DEF Active, In
    <2>5. s.id \in Newest(Active(c)')
      <3>1. \A i \in Active(c) : i <= s.id
        BY <2>1, <2>2, ActiveRows DEF ClaimInv
      <3>2. QED
        BY <2>2, <2>3, <2>4, <3>1 DEF Newest
    <2>6. QED
      BY <2>1, <2>2, <2>5
  <1>6. CASE c = k /\ ~(doing = "remember" /\ Maker(s))
    <2>1. c \notin op[a].stale /\ word'[c] = word[c] /\ doing \notin Denying
      BY <1>1, <1>2, <1>6 DEF WordAfter, Denying, Maker
    <2>2. PICK i \in Newest(Active(c)) : memories[i].content = word[c] /\ memories[i].role = "user"
      BY <1>1, <1>3, <2>1
    <2>3. i \in Active(c) /\ memories[i].state = "confirmed"
      BY <2>2, ActiveRows DEF Newest, ClaimInv
    <2>4. (~Maker(s) /\ s.id # i) \/ (s.do = "add" /\ s.row.state # "confirmed")
      <3>1. CASE doing = "inference"
        BY <1>6, <2>1, <2>2, <2>3, <3>1 DEF LeavesWord, Maker, Denying
      <3>2. CASE doing = "collapse"
        BY <1>6, <2>1, <2>2, <3>2 DEF LeavesWord, Denying
      <3>3. CASE doing \in {"candidates", "age"}
        BY <1>6, <2>1, <2>3, <3>3 DEF LeavesWord
      <3>4. QED
        BY <1>6, <2>1, <3>1, <3>2, <3>3 DEF LeavesWord
    <2>5. i \in Newest(Active(c)') /\ memories'[i] = memories[i]
      BY <2>2, <2>4, NewestStays
    <2>6. QED
      BY <2>1, <2>2, <2>5
  <1>7. QED
    BY <1>4, <1>5, <1>6

LEMMA Wrote ==
    ASSUME ClaimInv, NEW a \in Agent, Write(a)
    PROVE  ClaimInv'
  <1>0. PICK s : s = Head(op[a].plan)
    OBVIOUS
  <1>1. PICK q : q = Tail(op[a].plan)
    OBVIOUS
  <1>2. PICK k : k = ClaimIn(s)
    OBVIOUS
  <1>3. /\ op[a].plan # <<>> /\ s.do # "seek" /\ memories' = Written(memories, s)
        /\ op' = [b \in Agent |-> IF b = a THEN Onward(a, q)
                                  ELSE IF op[b].plan = <<>> THEN op[b]
                                  ELSE [op[b] EXCEPT !.stale = op[b].stale \cup {k}]]
        /\ word' = [word EXCEPT ![k] = WordAfter(a, s)]
        /\ made' = made /\ shown' = shown
    BY <1>0, <1>1, <1>2 DEF Write
  <1>4. /\ op[a] \in Op /\ s \in Step /\ q \in Seq(Step) /\ Planned(a) = {s} \cup Elems(q)
        /\ AtMostOne(q) /\ (Maker(s) => \A r \in Elems(q) : ~Maker(r))
        /\ Sound(s) /\ LeavesWord(op[a].doing, s, k, op[a].stale)
    BY <1>0, <1>1, <1>2, <1>3, Heads
  <1>5. k \in Claim /\ memories' \in [Id -> Row \cup {NoRow}]
    BY <1>2, <1>3, <1>4, Rewritten
  <1>6. op \in [Agent -> Op] /\ made \in Nat /\ made <= MaxRecords /\ shown \subseteq Id
           /\ word \in [Claim -> Content \cup {NoWord}]
    BY Assumptions DEF ClaimInv, MemoryTypeOK, Op
  <1>7. op'[a] \in Op /\ op'[a].plan = q
           /\ (q # <<>> => op'[a].doing = op[a].doing /\ op'[a].stale = op[a].stale)
    BY <1>3, <1>4, OnwardFields
  <1>8. \A b \in Agent : b # a =>
           /\ op'[b] \in Op /\ op'[b].plan = op[b].plan /\ op'[b].doing = op[b].doing
           /\ op[b].plan # <<>> => op'[b].stale = op[b].stale \cup {k}
    BY <1>3, <1>5, <1>6 DEF Op
  <1>9. WordAfter(a, s) \in Content \cup {NoWord}
    <2>1. s.do # "set" => s.row.content \in Content
      BY <1>4, StepFields, RowsAreThere DEF Maker
    <2>2. QED
      BY <1>2, <1>5, <1>6, <2>1 DEF WordAfter
  <1>10. MemoryTypeOK'
    <2>1. op' \in [Agent -> Op]
      BY <1>3, <1>7, <1>8
    <2>2. word' \in [Claim -> Content \cup {NoWord}]
      BY <1>3, <1>6, <1>9
    <2>3. made' \in 0..MaxRecords /\ shown' \subseteq Id
      BY <1>3 DEF ClaimInv, MemoryTypeOK
    <2>4. QED
      BY <1>5, <2>1, <2>2, <2>3 DEF MemoryTypeOK, Op
  <1>11. MadeRows' /\ ShownRows'
    <2>1. \A i \in Id : memories'[i] # NoRow => memories[i] # NoRow \/ (Maker(s) /\ i = s.id)
      BY <1>3, <1>4, Rewritten
    <2>2. Maker(s) => s.id <= made
      BY <1>4 DEF Sound
    <2>3. MadeRows'
      BY <1>3, <2>1, <2>2 DEF MadeRows, ClaimInv
    <2>4. ShownRows'
      BY <1>3, <1>4, <1>6, Rewritten DEF ShownRows, ClaimInv
    <2>5. QED
      BY <2>3, <2>4
  <1>12. /\ Planned(a)' = Elems(q) /\ Planned(a)' \subseteq Planned(a)
         /\ \A b \in Agent : b # a => Planned(b)' = Planned(b)
    BY <1>4, <1>7, <1>8 DEF Planned
  <1>13. OneMaker' /\ OwnIds'
    <2>1. OneMaker'
      BY <1>4, <1>7, <1>8 DEF OneMaker, ClaimInv
    <2>2. OwnIds'
      BY <1>12 DEF OwnIds, ClaimInv
    <2>3. QED
      BY <2>1, <2>2
  <1>14. PlansAreSound'
    <2>1. SUFFICES ASSUME NEW b \in Agent, NEW x \in Planned(b)'
                   PROVE  Sound(x)' /\ LeavesWord(op[b].doing, x, ClaimIn(x), op[b].stale)'
      BY DEF PlansAreSound
    <2>2. /\ x \in Planned(b) /\ Sound(x) /\ LeavesWord(op[b].doing, x, ClaimIn(x), op[b].stale)
          /\ b = a => x \in Elems(q)
      BY <1>12 DEF PlansAreSound, ClaimInv
    <2>3. x \in Step
      BY <1>6, <2>2 DEF Planned, Elems, Op
    <2>4. op'[b].doing = op[b].doing /\ op[b].stale \subseteq op'[b].stale
             /\ (b # a => k \in op'[b].stale)
      <3>1. CASE b = a
        <4>1. q # <<>>
          BY <2>2, <3>1, Nothing
        <4>2. QED
          BY <1>7, <3>1, <4>1
      <3>2. CASE b # a
        <4>1. op[b].plan # <<>>
          BY <2>2, Nothing DEF Planned
        <4>2. QED
          BY <1>8, <3>2, <4>1
      <3>3. QED
        BY <3>1, <3>2
    <2>5. PICK doing, new : doing = op[b].doing /\ doing = op'[b].doing /\ new = op'[b].stale
      BY <2>4
    <2>6. PICK stale : stale = op[b].stale
      OBVIOUS
    <2>7. Maker(s) /\ Maker(x) => s.id # x.id
      <3>1. Maker(s) /\ Maker(x) => b # a
        BY <1>4, <2>2
      <3>2. QED
        BY <1>4, <2>2, <3>1 DEF OwnIds, ClaimInv
    <2>8. Sound(x)'
      <3>1. x.id \in Id /\ (x.do = "swap" => x.old \in Id)
        BY <2>3, StepFields
      <3>2. \A i \in Id : memories[i] # NoRow =>
               memories'[i] # NoRow /\ memories'[i].claim = memories[i].claim
        BY <1>3, <1>4, Rewritten
      <3>3. \A i \in Id : memories[i] = NoRow /\ memories'[i] # NoRow => Maker(s) /\ i = s.id
        BY <1>3, <1>4, Rewritten
      <3>4. QED
        BY <1>3, <2>2, <2>7, <3>1, <3>2, <3>3 DEF Sound
    <2>9. LeavesWord(doing, x, ClaimIn(x), new)'
      <3>1. b = a => LeavesWord(doing, s, ClaimIn(s), stale) /\ (Maker(s) => ~Maker(x))
        BY <1>2, <1>3, <1>4, <1>5, <1>6, <2>2, <2>5, <2>6
      <3>2. stale \subseteq new /\ LeavesWord(doing, x, ClaimIn(x), stale)
               /\ (b # a => ClaimIn(s) \in new)
        BY <1>2, <2>2, <2>4, <2>5, <2>6
      <3>3. QED
        BY <1>2, <1>3, <1>4, <2>2, <2>3, <3>1, <3>2, StillLeaves
    <2>10. QED
      BY <2>5, <2>8, <2>9
  <1>15. WordIsNewest'
    BY <1>2, <1>3, <1>4, <1>5, WordStays
  <1>16. QED
    BY <1>10, <1>11, <1>13, <1>14, <1>15 DEF ClaimInv

-----------------------------------------------------------------------------
\* What operations plan

LEMMA RowMade ==
    ASSUME NEW c \in Content, NEW k \in Claim, NEW st \in State, NEW role \in Role,
           NEW t \in Turn \cup {"explicit"}
    PROVE  LET r == NewRow(c, k, st, role, t)
           IN  r \in Row /\ r.content = c /\ r.claim = k /\ r.state = st /\ r.role = role
  BY DEF NewRow, Row

LEMMA Fresh ==
    ASSUME ClaimInv, made + 1 \in Id
    PROVE  memories[made + 1] = NoRow /\ \A k : \A j \in Active(k) : j < made + 1
  <1>1. made \in Nat
    BY DEF ClaimInv, MemoryTypeOK
  <1>2. \A i \in Id : memories[i] # NoRow => i <= made
    BY DEF ClaimInv, MadeRows
  <1>3. memories[made + 1] = NoRow
    BY <1>1, <1>2
  <1>4. \A k : \A j \in Active(k) : j < made + 1
    BY <1>1, <1>2, ActiveRows DEF ClaimInv
  <1>5. QED
    BY <1>3, <1>4

LEMMA Recorded ==
    ASSUME ClaimInv, NEW plan, Record(plan)
    PROVE  /\ made' \in Nat /\ made <= made' /\ made' <= MaxRecords
           /\ \A s \in Elems(plan) : s.do \in {"seek", "swap"} => made' = made + 1 /\ made + 1 \in Id
           /\ plan = <<>> => made' = made
  <1>1. made \in Nat /\ MaxRecords \in Nat
    BY Assumptions DEF ClaimInv, MemoryTypeOK
  <1>2. plan = <<>> => DOMAIN plan = {}
    OBVIOUS
  <1>3. QED
    BY <1>1, <1>2 DEF Record, Elems, Id

\* A plan that begins or ends with the one record it makes.
LEMMA Makes ==
    ASSUME ClaimInv, NEW a \in Agent, NEW doing \in Doing, NEW plan \in Seq(Step),
           Record(plan), Decide(a, doing, plan), UNCHANGED <<memories, shown, word>>,
           AtMostOne(plan), NEW s \in Elems(plan), s.do \in {"seek", "swap"}, s.id = made + 1,
           s.do = "swap" => memories[s.old] # NoRow /\ memories[s.old].claim = s.row.claim,
           LeavesWord(doing, s, s.row.claim, {}),
           \A x \in Elems(plan) \ {s} : ~Maker(x) /\ Sound(x)' /\ LeavesWord(doing, x, ClaimIn(x), {})
    PROVE  ClaimInv'
  <1>1. made \in Nat /\ made' = made + 1 /\ made + 1 \in Id /\ made' \in Nat /\ made <= made'
           /\ made' <= MaxRecords
    BY Recorded DEF ClaimInv, MemoryTypeOK
  <1>2. Maker(s) /\ Sound(s)' /\ ClaimIn(s) = s.row.claim
    BY <1>1, Fresh DEF Maker, Sound, ClaimIn
  <1>3. \A x \in Elems(plan) :
           Sound(x)' /\ LeavesWord(doing, x, ClaimIn(x), {}) /\ (Maker(x) => x.id > made)
    <2>1. SUFFICES ASSUME NEW x \in Elems(plan)
                   PROVE  Sound(x)' /\ LeavesWord(doing, x, ClaimIn(x), {}) /\ (Maker(x) => x.id > made)
      OBVIOUS
    <2>2. CASE x = s
      BY <1>1, <1>2, <2>2
    <2>3. CASE x # s
      BY <2>3
    <2>4. QED
      BY <2>2, <2>3
  <1>4. QED
    BY <1>1, <1>3, Decided

LEMMA MakesOne ==
    ASSUME ClaimInv, NEW a \in Agent, NEW doing \in Doing, NEW s \in Step,
           Record(<<s>>), Decide(a, doing, <<s>>), UNCHANGED <<memories, shown, word>>,
           s.do \in {"seek", "swap"}, s.id = made + 1,
           s.do = "swap" => memories[s.old] # NoRow /\ memories[s.old].claim = s.row.claim,
           made + 1 \in Id => LeavesWord(doing, s, s.row.claim, {})
    PROVE  ClaimInv'
  <1>1. <<s>> \in Seq(Step) /\ Elems(<<s>>) = {s} /\ AtMostOne(<<s>>)
    BY Single
  <1>2. made + 1 \in Id
    BY <1>1, Recorded
  <1>3. QED
    BY <1>1, <1>2, Makes

LEMMA Sets ==
    ASSUME ClaimInv, NEW doing, NEW ids \in SUBSET Id, NEW st \in State, st # "confirmed",
           memories' = memories,
           \A i \in ids : memories[i] # NoRow /\ LeavesWord(doing, SetTo(i, st), memories[i].claim, {}),
           NEW p \in SetAll(ids, st)
    PROVE  /\ p \in Seq(Step) /\ AtMostOne(p)
           /\ \A s \in Elems(p) : ~Maker(s) /\ Sound(s)' /\ LeavesWord(doing, s, ClaimIn(s), {})
  <1>1. SUFFICES ASSUME NEW s \in Elems(p)
                 PROVE  ~Maker(s) /\ Sound(s)' /\ LeavesWord(doing, s, ClaimIn(s), {})
    BY SetAllPlans
  <1>2. PICK i \in ids : s = SetTo(i, st)
    BY SetAllPlans
  <1>3. ~Maker(s) /\ s.do = "set" /\ s.id = i /\ s.state = st
    BY <1>2, SetAllPlans DEF SetTo
  <1>4. QED
    BY <1>2, <1>3 DEF Sound, ClaimIn

LEMMA SetsRows ==
    ASSUME ClaimInv, NEW a \in Agent, NEW doing \in Doing, NEW ids \in SUBSET Id, NEW st \in State,
           st # "confirmed", UNCHANGED <<memories, made, shown, word>>,
           \A i \in ids : memories[i] # NoRow /\ LeavesWord(doing, SetTo(i, st), memories[i].claim, {}),
           \E p \in SetAll(ids, st) : Decide(a, doing, p)
    PROVE  ClaimInv'
  <1>1. PICK p \in SetAll(ids, st) : Decide(a, doing, p)
    OBVIOUS
  <1>2. /\ p \in Seq(Step) /\ AtMostOne(p)
        /\ \A s \in Elems(p) : ~Maker(s) /\ Sound(s)' /\ LeavesWord(doing, s, ClaimIn(s), {})
    BY Sets
  <1>3. made' \in Nat /\ made <= made' /\ made' <= MaxRecords
    BY Assumptions DEF ClaimInv, MemoryTypeOK
  <1>4. QED
    BY <1>1, <1>2, <1>3, Decided

LEMMA FoundRows ==
    ASSUME ClaimInv, NEW st \in State, NEW i \in In(st)
    PROVE  i \in Id /\ memories[i] # NoRow /\ memories[i] \in Row /\ memories[i].state = st
  <1>1. i \in Id /\ memories[i].state = st
    BY DEF In
  <1>2. memories[i] # NoRow
    BY <1>1 DEF NoRow, State
  <1>3. QED
    BY <1>1, <1>2 DEF ClaimInv, MemoryTypeOK

LEMMA Remembered ==
    ASSUME ClaimInv, NEW a \in Agent, NEW c \in Said, NEW role \in {"user", "assistant"},
           Remember(a, c, role)
    PROVE  ClaimInv'
  <1> DEFINE k     == ClaimOf[c]
             row   == NewRow(c, k, IF role = "user" THEN "confirmed" ELSE "candidate", role, "explicit")
             doing == IF role = "user" THEN "remember" ELSE "guess"
  <1>1. doing \in Doing /\ UNCHANGED <<memories, shown, word>>
    BY DEF Doing, Remember
  <1>2. /\ row \in Row /\ row.claim = k /\ row.role = role
        /\ role = "user" => row.state = "confirmed"
    BY Assumptions, RowMade DEF State, Role
  <1>3. \/ \E i \in Newest(Active(k)) :
              Record(<<Swap(i, made + 1, row)>>) /\ Decide(a, doing, <<Swap(i, made + 1, row)>>)
        \/ Record(<<Seek(made + 1, row)>>) /\ Decide(a, doing, <<Seek(made + 1, row)>>)
    BY DEF Remember
  <1>4. made + 1 \in Id => \A j \in Active(k) : j < made + 1
    BY Fresh
  <1> HIDE DEF row, k, doing
  <1>5. made + 1 \in Id
    <2>1. \A i : <<Swap(i, made + 1, row)>>[1].do = "swap" /\ <<Seek(made + 1, row)>>[1].do = "seek"
      BY DEF Swap, Seek
    <2>2. \A i : /\ Elems(<<Swap(i, made + 1, row)>>) = {Swap(i, made + 1, row)}
                 /\ Elems(<<Seek(made + 1, row)>>) = {Seek(made + 1, row)}
      BY DEF Elems
    <2>3. QED
      BY <1>3, <2>1, <2>2, Recorded DEF Swap, Seek
  <1>6. CASE \E i \in Newest(Active(k)) :
                Record(<<Swap(i, made + 1, row)>>) /\ Decide(a, doing, <<Swap(i, made + 1, row)>>)
    <2>1. PICK i \in Newest(Active(k)) :
             Record(<<Swap(i, made + 1, row)>>) /\ Decide(a, doing, <<Swap(i, made + 1, row)>>)
      BY <1>6
    <2>2. i \in Id /\ memories[i] # NoRow /\ memories[i].claim = k
      BY ActiveRows DEF Newest, ClaimInv
    <2>3. PICK s : s = Swap(i, made + 1, row)
      OBVIOUS
    <2>4. s \in Step /\ Maker(s) /\ s.do = "swap" /\ s.id = made + 1 /\ s.old = i /\ s.row = row
      BY <1>2, <1>5, <2>2, <2>3, StepsMade DEF Swap
    <2>5. LeavesWord(doing, s, k, {})
      BY <1>2, <1>4, <1>5, <2>4 DEF LeavesWord, Denying, doing
    <2>6. QED
      BY <1>1, <1>2, <2>1, <2>2, <2>3, <2>4, <2>5, MakesOne
  <1>7. CASE Record(<<Seek(made + 1, row)>>) /\ Decide(a, doing, <<Seek(made + 1, row)>>)
    <2>1. PICK s : s = Seek(made + 1, row)
      OBVIOUS
    <2>2. s \in Step /\ Maker(s) /\ s.do = "seek" /\ s.id = made + 1 /\ s.row = row
      BY <1>2, <1>5, <2>1, StepsMade DEF Seek
    <2>3. LeavesWord(doing, s, k, {})
      BY <1>2, <1>4, <1>5, <2>2 DEF LeavesWord, Denying, doing
    <2>4. QED
      BY <1>1, <1>2, <1>7, <2>1, <2>2, <2>3, MakesOne
  <1>8. QED
    BY <1>3, <1>6, <1>7

LEMMA Corrected ==
    ASSUME ClaimInv, NEW a \in Agent, NEW i \in Id, NEW c \in Said, Correct(a, i, c)
    PROVE  ClaimInv'
  <1> DEFINE row == NewRow(c, memories[i].claim, "confirmed", "user", "explicit")
  <1>1. i \in Findable /\ memories[i] # NoRow /\ memories[i] \in Row
    BY FoundRows DEF Correct, Findable, State
  <1>2. /\ row \in Row /\ row.claim = memories[i].claim /\ row.role = "user"
        /\ row.state = "confirmed"
    BY <1>1, Assumptions, RowsAreThere, RowMade DEF State, Role
  <1>3. PICK s : s = Swap(i, made + 1, row)
    OBVIOUS
  <1>4. Record(<<s>>) /\ Decide(a, "remember", <<s>>) /\ UNCHANGED <<memories, shown, word>>
    BY <1>3 DEF Correct
  <1> HIDE DEF row
  <1>5. made + 1 \in Id
    BY <1>3, <1>4, Recorded DEF Elems, Swap
  <1>6. s \in Step /\ Maker(s) /\ s.do = "swap" /\ s.id = made + 1 /\ s.old = i /\ s.row = row
    BY <1>2, <1>3, <1>5, StepsMade DEF Swap
  <1>7. LeavesWord("remember", s, row.claim, {})
    BY <1>2, <1>5, <1>6, Fresh DEF LeavesWord
  <1>8. "remember" \in Doing
    BY DEF Doing
  <1>9. QED
    BY <1>1, <1>2, <1>4, <1>6, <1>7, <1>8, MakesOne

LEMMA Forgotten ==
    ASSUME ClaimInv, NEW a \in Agent, NEW i \in Id, Forget(a, i)
    PROVE  ClaimInv'
  <1>1. memories[i] # NoRow
    BY FoundRows DEF Forget, Findable, State
  <1>2. PICK s : s = SetTo(i, "retracted")
    OBVIOUS
  <1>3. "retracted" \in State /\ "retracted" # "confirmed" /\ "forget" \in Doing
    BY DEF State, Doing
  <1>4. /\ s \in Step /\ ~Maker(s) /\ s.id = i /\ s.do = "set" /\ s.state = "retracted"
    BY <1>2, <1>3, SetsMade DEF SetTo
  <1>5. Decide(a, "forget", <<s>>) /\ UNCHANGED <<memories, made, shown, word>>
    BY <1>2 DEF Forget
  <1>6. <<s>> \in Seq(Step) /\ Elems(<<s>>) = {s} /\ AtMostOne(<<s>>)
    BY <1>4, Single
  <1>7. Sound(s)' /\ LeavesWord("forget", s, ClaimIn(s), {})
    BY <1>1, <1>3, <1>4, <1>5 DEF Sound, LeavesWord, Denying
  <1>8. made' \in Nat /\ made <= made' /\ made' <= MaxRecords
    BY <1>5, Assumptions DEF ClaimInv, MemoryTypeOK
  <1>9. QED
    BY <1>3, <1>4, <1>5, <1>6, <1>7, <1>8, Decided

LEMMA Disputed ==
    ASSUME ClaimInv, NEW a \in Agent, Dispute(a)
    PROVE  ClaimInv'
  <1>1. shown \in SUBSET Id /\ \A i \in shown : memories[i] # NoRow
    BY DEF ClaimInv, MemoryTypeOK, ShownRows
  <1>2. "retracted" \in State /\ "quarantined" \in State /\ "forget" \in Doing /\ "dispute" \in Doing
    BY DEF State, Doing
  <1>3. \A s, k : LeavesWord("forget", s, k, {}) /\ LeavesWord("dispute", s, k, {})
    BY DEF LeavesWord, Denying
  <1>4. /\ UNCHANGED <<memories, made, shown, word>>
        /\ \/ \E p \in SetAll(shown, "retracted") : Decide(a, "forget", p)
           \/ \E p \in SetAll(shown, "quarantined") : Decide(a, "dispute", p)
    BY DEF Dispute
  <1>5. CASE \E p \in SetAll(shown, "retracted") : Decide(a, "forget", p)
    BY <1>1, <1>2, <1>3, <1>4, <1>5, SetsRows
  <1>6. CASE \E p \in SetAll(shown, "quarantined") : Decide(a, "dispute", p)
    BY <1>1, <1>2, <1>3, <1>4, <1>6, SetsRows
  <1>7. QED
    BY <1>4, <1>5, <1>6

LEMMA Promoted ==
    ASSUME ClaimInv, NEW a \in Agent, NEW e \in Shown, NEW t \in Turn, Promote(a, e, t)
    PROVE  /\ ClaimInv' /\ op'[a].doing \in {"idle", "evidence", "inference"}
           /\ op'[a].plan # <<>> => op'[a].doing \in {"evidence", "inference"}
           /\ Known(e.content) \/ Coming(a, e.content)'
  <1> DEFINE k     == ClaimOf[e.content]
             old   == Active(k)
             row   == NewRow(e.content, k, NewState(e, old), e.role, t)
             doing == IF e.role = "user" THEN "evidence" ELSE "inference"
  <1>1. PICK plan \in Promotion(e, t) :
           Record(plan) /\ Decide(a, doing, plan) /\ UNCHANGED <<memories, shown, word>>
    BY DEF Promote
  <1>2. doing \in Doing /\ Done(doing) = "idle"
    BY DEF Doing, Done
  <1>3. /\ row \in Row /\ row.claim = k /\ row.role = e.role /\ row.content = e.content
        /\ row.state = NewState(e, old)
    <2>1. NewState(e, old) \in State
      BY DEF NewState, State
    <2>2. e.content \in Content /\ e.role \in Role /\ k \in Claim
      BY Assumptions DEF Shown
    <2>3. QED
      BY <2>1, <2>2, RowMade
  <1>4. /\ e.role # "user" /\ old # {} => row.state # "confirmed"
        /\ \A i \in old : i \in Id /\ memories[i] # NoRow /\ memories[i].claim = k
    BY <1>3, ActiveRows DEF NewState, UserStands, ClaimInv
  <1>5. op \in [Agent -> Op]
    BY DEF ClaimInv, MemoryTypeOK, Op
  <1>6. /\ op'[a].plan = plan
        /\ op'[a].doing = IF plan = <<>> THEN "idle" ELSE doing
    BY <1>1, <1>2, <1>5, RestIsOp DEF Decide
  <1>7. /\ op'[a].doing \in {"idle", "evidence", "inference"}
        /\ op'[a].plan # <<>> => op'[a].doing \in {"evidence", "inference"}
    BY <1>6
  <1>8. CASE plan = <<>> /\ \E i \in old : memories[i].content = e.content
    <2>1. Known(e.content)
      BY <1>4, <1>8 DEF Known
    <2>2. made' = made
      BY <1>1, <1>8, Recorded
    <2>3. op' = [op EXCEPT ![a] = Rest]
      BY <1>1, <1>2, <1>8 DEF Decide
    <2>4. ClaimInv'
      BY <1>1, <2>2, <2>3, RestIsOp, Emptied
    <2>5. QED
      BY <1>7, <2>1, <2>4
  <1>9. ASSUME NEW s \in Elems(plan), Maker(s), s.row = row
        PROVE  Coming(a, e.content)'
    BY <1>3, <1>6, <1>9 DEF Coming, Planned
  <1> DEFINE r == Seek(made + 1, row)
  <1>10. CASE \E i \in Newest(old) : \E p \in SetAll(old \ {i}, "superseded") :
                 e.role = "user" /\ plan = <<Swap(i, made + 1, row)>> \o p
    <2>0. PICK i \in Newest(old) : \E p \in SetAll(old \ {i}, "superseded") :
             e.role = "user" /\ plan = <<Swap(i, made + 1, row)>> \o p
      BY <1>10
    <2>1. PICK p \in SetAll(old \ {i}, "superseded") :
             e.role = "user" /\ plan = <<Swap(i, made + 1, row)>> \o p
      BY <2>0
    <2>2. PICK s : s = Swap(i, made + 1, row)
      OBVIOUS
    <2>3. /\ s.do = "swap" /\ s.id = made + 1 /\ s.row = row /\ s.old = i /\ Maker(s)
      BY <2>2 DEF Swap, Maker
    <2>4. "superseded" \in State /\ "superseded" # "confirmed" /\ doing = "evidence"
             /\ old \ {i} \in SUBSET Id /\ i \in Id
      BY <1>4, <2>1 DEF State, Newest
    <2>5. \A x, c : LeavesWord("evidence", x, c, {})
      BY DEF LeavesWord, Denying
    <2>6. /\ p \in Seq(Step) /\ AtMostOne(p)
          /\ \A x \in Elems(p) : ~Maker(x) /\ Sound(x)' /\ LeavesWord(doing, x, ClaimIn(x), {})
      BY <1>1, <1>4, <2>1, <2>4, <2>5, Sets
    <2>7. made + 1 \in Id
      <3>1. plan[1] = s /\ 1 \in DOMAIN plan
        BY <2>1, <2>2, <2>6
      <3>2. QED
        BY <1>1, <2>3, <3>1, Recorded DEF Elems
    <2>8. s \in Step
      BY <1>3, <2>2, <2>4, <2>7, StepsMade
    <2>9. plan = <<s>> \o p
      BY <2>1, <2>2
    <2>10. plan \in Seq(Step) /\ Elems(plan) = {s} \cup Elems(p) /\ AtMostOne(plan)
      BY <2>6, <2>8, <2>9, InFront
    <2>11. memories[s.old] # NoRow /\ memories[s.old].claim = s.row.claim
      BY <1>3, <1>4, <2>1, <2>3 DEF Newest
    <2> HIDE DEF row, doing, old
    <2>12. ClaimInv'
      BY <1>1, <1>2, <2>3, <2>4, <2>5, <2>6, <2>10, <2>11, Makes
    <2>13. QED
      BY <1>7, <1>9, <2>3, <2>10, <2>12
  <1>11. CASE \E p \in SetAll(old, "quarantined") :
                 old # {} /\ e.firm /\ (e.role = "user") = UserStands(old) /\ plan = p \o <<r>>
    <2>1. PICK p \in SetAll(old, "quarantined") :
             old # {} /\ e.firm /\ (e.role = "user") = UserStands(old) /\ plan = p \o <<r>>
      BY <1>11
    <2>2. PICK s : s = r
      OBVIOUS
    <2>3. s.do = "seek" /\ s.id = made + 1 /\ s.row = row /\ Maker(s)
      BY <2>2 DEF Seek, Maker
    <2>4. "quarantined" \in State /\ "quarantined" # "confirmed" /\ old \in SUBSET Id
      BY <1>4 DEF State
    <2>5. LeavesWord(doing, s, k, {})
      BY <1>4, <2>1, <2>3 DEF LeavesWord, Denying
    <2>6. \A i \in old : LeavesWord(doing, SetTo(i, "quarantined"), k, {})
      <3>1. SUFFICES ASSUME NEW i \in old PROVE LeavesWord(doing, SetTo(i, "quarantined"), k, {})
        OBVIOUS
      <3>2. SetTo(i, "quarantined").id = i /\ ~Maker(SetTo(i, "quarantined"))
        BY DEF SetTo, Maker
      <3>3. e.role # "user" => memories[i].role # "user"
        BY <2>1 DEF UserStands
      <3>4. QED
        BY <3>2, <3>3 DEF LeavesWord, Denying
    <2>7. /\ p \in Seq(Step) /\ AtMostOne(p)
          /\ \A x \in Elems(p) : ~Maker(x) /\ Sound(x)' /\ LeavesWord(doing, x, ClaimIn(x), {})
      BY <1>1, <1>4, <2>1, <2>4, <2>6, Sets
    <2>8. made + 1 \in Id
      <3>1. plan[Len(p) + 1] = s /\ Len(p) + 1 \in DOMAIN plan
        BY <2>1, <2>2, <2>7
      <3>2. QED
        BY <1>1, <2>3, <3>1, Recorded DEF Elems
    <2>9. s \in Step
      BY <1>3, <2>2, <2>8, StepsMade
    <2>10. plan = p \o <<s>>
      BY <2>1, <2>2
    <2>11. plan \in Seq(Step) /\ Elems(plan) = Elems(p) \cup {s} /\ AtMostOne(plan)
      BY <2>7, <2>9, <2>10, InBack
    <2> HIDE DEF row, doing, old
    <2>12. ClaimInv'
      BY <1>1, <1>2, <1>3, <2>3, <2>5, <2>7, <2>11, Makes
    <2>13. QED
      BY <1>7, <1>9, <2>3, <2>11, <2>12
  <1>12. CASE plan = <<r>>
    <2>1. PICK s : s = r
      OBVIOUS
    <2>2. s.do = "seek" /\ s.id = made + 1 /\ s.row = row /\ Maker(s) /\ Elems(plan) = {s}
      BY <1>12, <2>1 DEF Seek, Maker, Elems
    <2>3. made + 1 \in Id
      BY <1>1, <2>2, Recorded
    <2>4. s \in Step /\ plan = <<s>>
      BY <1>3, <1>12, <2>1, <2>3, StepsMade
    <2>5. LeavesWord(doing, s, k, {})
      BY <1>4, <2>2 DEF LeavesWord, Denying
    <2> HIDE DEF row, doing, old, r
    <2>6. ClaimInv'
      BY <1>1, <1>2, <1>3, <2>2, <2>4, <2>5, MakesOne
    <2>7. QED
      BY <1>7, <1>9, <2>2, <2>6
  <1>13. \/ plan = <<>> /\ \E i \in old : memories[i].content = e.content
         \/ \E i \in Newest(old) : \E p \in SetAll(old \ {i}, "superseded") :
               e.role = "user" /\ plan = <<Swap(i, made + 1, row)>> \o p
         \/ \E p \in SetAll(old, "quarantined") :
               old # {} /\ e.firm /\ (e.role = "user") = UserStands(old) /\ plan = p \o <<r>>
         \/ plan = <<r>>
    <2>1. plan \in Promotion(e, t)
      BY <1>1
    <2>2. CASE \E i \in old : memories[i].content = e.content
      BY <2>1, <2>2 DEF Promotion
    <2>3. CASE /\ ~ \E i \in old : memories[i].content = e.content
               /\ old # {} /\ e.firm /\ e.role = "user" /\ ~UserStands(old)
      <3>1. PICK i \in Newest(old) :
               plan \in {<<Swap(i, made + 1, row)>> \o p : p \in SetAll(old \ {i}, "superseded")}
        BY <2>1, <2>3 DEF Promotion
      <3>2. PICK p \in SetAll(old \ {i}, "superseded") : plan = <<Swap(i, made + 1, row)>> \o p
        BY <3>1
      <3>3. QED
        BY <2>3, <3>2
    <2>4. CASE /\ ~ \E i \in old : memories[i].content = e.content
               /\ ~(old # {} /\ e.firm /\ e.role = "user" /\ ~UserStands(old))
               /\ old # {} /\ e.firm /\ (e.role = "user") = UserStands(old)
      BY <2>1, <2>4 DEF Promotion
    <2>5. CASE /\ ~ \E i \in old : memories[i].content = e.content
               /\ ~(old # {} /\ e.firm /\ e.role = "user" /\ ~UserStands(old))
               /\ ~(old # {} /\ e.firm /\ (e.role = "user") = UserStands(old))
      BY <2>1, <2>5 DEF Promotion
    <2>6. QED
      BY <2>2, <2>3, <2>4, <2>5
  <1>14. QED
    BY <1>8, <1>10, <1>11, <1>12, <1>13

LEMMA Swept ==
    ASSUME ClaimInv, NEW a \in Agent, SweepStep(a)
    PROVE  ClaimInv'
  <1>1. /\ {"candidates", "unused", "collapse", "twins", "age"} \subseteq Doing
        /\ {"expired", "superseded", "candidate", "confirmed", "quarantined"} \subseteq State
    BY DEF Doing, State
  <1>2. ASSUME NEW doing \in Doing, NEW ids \in SUBSET Id, NEW st \in State, st # "confirmed",
               Sweep(a, doing, ids, st),
               \A i \in ids : memories[i] # NoRow /\ LeavesWord(doing, SetTo(i, st), memories[i].claim, {})
        PROVE  ClaimInv'
    BY <1>2, SetsRows DEF Sweep
  <1>3. \A i, st : SetTo(i, st).id = i /\ ~Maker(SetTo(i, st))
    BY DEF SetTo, Maker
  <1>4. \A s, k : LeavesWord("unused", s, k, {}) /\ LeavesWord("twins", s, k, {})
    BY DEF LeavesWord, Denying
  <1>5. CASE PruneCandidates(a)
    <2>1. PICK old \in SUBSET In("candidate") : Sweep(a, "candidates", old, "expired")
      BY <1>5 DEF PruneCandidates
    <2>2. \A i \in old : i \in Id /\ memories[i] # NoRow /\ memories[i].state = "candidate"
      BY <1>1, FoundRows
    <2>3. \A i \in old : LeavesWord("candidates", SetTo(i, "expired"), memories[i].claim, {})
      BY <1>3, <2>2 DEF LeavesWord
    <2>4. QED
      BY <1>1, <1>2, <2>1, <2>2, <2>3
  <1>6. CASE PruneUnused(a)
    <2>1. PICK old \in SUBSET In("confirmed") : Sweep(a, "unused", old, "expired")
      BY <1>6 DEF PruneUnused
    <2>2. \A i \in old : i \in Id /\ memories[i] # NoRow
      BY <1>1, FoundRows
    <2>3. QED
      BY <1>1, <1>2, <1>4, <2>1, <2>2
  <1>7. CASE Collapse(a)
    <2>1. PICK ids : /\ Sweep(a, "collapse", ids, "superseded")
                     /\ \A i \in ids : \E k \in Claim : i \in Active(k) \ Newest(Active(k))
      BY <1>7 DEF Collapse
    <2>2. \A i \in ids : /\ i \in Id /\ memories[i] # NoRow
                         /\ LeavesWord("collapse", SetTo(i, "superseded"), memories[i].claim, {})
      <3>1. SUFFICES ASSUME NEW i \in ids
                     PROVE  /\ i \in Id /\ memories[i] # NoRow
                            /\ LeavesWord("collapse", SetTo(i, "superseded"), memories[i].claim, {})
        OBVIOUS
      <3>2. PICK k \in Claim : i \in Active(k) \ Newest(Active(k))
        BY <2>1
      <3>3. i \in Id /\ memories[i] # NoRow /\ memories[i].claim = k
        BY <3>2, ActiveRows DEF ClaimInv
      <3>4. QED
        BY <1>3, <3>2, <3>3 DEF LeavesWord
    <2>3. QED
      BY <1>1, <1>2, <2>1, <2>2
  <1>8. CASE DropTwins(a)
    <2>1. PICK kept : Sweep(a, "twins", In("confirmed") \ kept, "superseded")
      BY <1>8 DEF DropTwins
    <2>2. \A i \in In("confirmed") : i \in Id /\ memories[i] # NoRow
      BY <1>1, FoundRows
    <2>3. QED
      BY <1>1, <1>2, <1>4, <2>1, <2>2
  <1>9. CASE AgeQuarantine(a)
    <2>1. PICK old \in SUBSET In("quarantined") : Sweep(a, "age", old, "expired")
      BY <1>9 DEF AgeQuarantine
    <2>2. \A i \in old : i \in Id /\ memories[i] # NoRow /\ memories[i].state = "quarantined"
      BY <1>1, FoundRows
    <2>3. \A i \in old : LeavesWord("age", SetTo(i, "expired"), memories[i].claim, {})
      BY <1>3, <2>2 DEF LeavesWord
    <2>4. QED
      BY <1>1, <1>2, <2>1, <2>2, <2>3
  <1>10. QED
    BY <1>5, <1>6, <1>7, <1>8, <1>9 DEF SweepStep

LEMMA LeftAsIs ==
    ASSUME ClaimInv, NEW a \in Agent, NEW i \in Id, CorrectAsIs(a, i)
    PROVE  ClaimInv'
  <1>1. /\ UNCHANGED <<memories, made, shown, op>>
        /\ word' = WordSaidAgain(memories[i].claim, memories[i].content)
        /\ op[a].plan = <<>> /\ memories[i].content \in Said
    BY DEF CorrectAsIs, Free
  <1>2. i \in Findable
    BY DEF CorrectAsIs
  <1>3. memories[i] # NoRow
    BY <1>2 DEF Findable, In, NoRow
  <1>4. memories[i].claim \in Claim /\ memories[i].content \in Content
    BY <1>3, RowsAreThere DEF ClaimInv, MemoryTypeOK
  <1>5. op[a] \in Op /\ op' = [op EXCEPT ![a] = op[a]]
    BY <1>1 DEF ClaimInv, MemoryTypeOK, Op
  <1>6. word' \in [Claim -> Content \cup {NoWord}] /\ WordIsNewest'
    BY <1>1, <1>4, RepeatedWord
  <1>7. /\ made' \in Nat /\ made <= made' /\ made' <= MaxRecords /\ shown' \subseteq Id /\ ShownRows'
    BY <1>1, Assumptions DEF ClaimInv, MemoryTypeOK, ShownRows
  <1>8. AtMostOne(op[a].plan) /\ Elems(op[a].plan) = {}
    BY <1>1, Nothing
  <1>9. QED
    BY <1>1, <1>5, <1>6, <1>7, <1>8, Replanned

LEMMA Asked ==
    ASSUME ClaimInv, NEW a \in Agent, UserStep(a)
    PROVE  ClaimInv'
  BY Remembered, Corrected, Forgotten, LeftAsIs, Disputed DEF UserStep

LEMMA Stepped ==
    ASSUME ClaimInv, NEW a \in Agent, WriteStep(a)
    PROVE  ClaimInv'
  BY Looked, Wrote, Raised DEF WriteStep

-----------------------------------------------------------------------------
\* What is known stays known, and what a worker has is not lost.

LEMMA KnownStays ==
    ASSUME ClaimInv, NEW c, Known(c),
           memories' = memories \/ \E a \in Agent : WriteStep(a)
    PROVE  Known(c)'
  <1>1. CASE memories' = memories
    BY <1>1 DEF Known
  <1>2. ASSUME NEW a \in Agent, Write(a) PROVE Known(c)'
    <2>1. PICK s : s = Head(op[a].plan)
      OBVIOUS
    <2>2. s \in Step /\ Sound(s) /\ s.do # "seek" /\ memories' = Written(memories, s)
      BY <1>2, <2>1, Heads DEF Write
    <2>3. QED
      BY <2>2, Rewritten DEF Known
  <1>3. QED
    BY <1>1, <1>2 DEF WriteStep, Look, Raise

LEMMA WholeStays ==
    ASSUME NEW w \in Worker, Whole(w), Promotes(w), \A c : Known(c) => Known(c)',
           work'[w] = work[w], op'[w].doing = op[w].doing, op'[w].plan = op[w].plan
    PROVE  Whole(w)' /\ Promotes(w)'
  BY DEF Whole, Promotes, Coming, Left, Planned, Has

LEMMA Idles ==
    ASSUME NEW w, work'[w].turn = NoTurn
    PROVE  Whole(w)' /\ Promotes(w)'
  BY Assumptions DEF Whole, Promotes, Has

LEMMA WholeWrites ==
    ASSUME ClaimInv, NEW w \in Worker, Whole(w), Promotes(w), WriteStep(w), work' = work
    PROVE  Whole(w)' /\ Promotes(w)'
  <1>1. CASE ~Has(w)
    BY <1>1, Idles DEF Has
  <1>2. CASE Has(w)
    <2>1. PICK s : s = Head(op[w].plan)
      OBVIOUS
    <2>2. PICK q : q = Tail(op[w].plan)
      OBVIOUS
    <2>3. w \in Agent /\ op \in [Agent -> Op] /\ op[w].plan # <<>>
      BY Assumptions DEF ClaimInv, MemoryTypeOK, Op, WriteStep, Look, Write, Raise
    <2>4. /\ op[w] \in Op /\ s \in Step /\ q \in Seq(Step) /\ Planned(w) = {s} \cup Elems(q)
          /\ Sound(s)
      BY <2>1, <2>2, <2>3, Heads
    <2>5. op[w].doing \in {"evidence", "inference"} /\ Done(op[w].doing) = "idle"
      BY <1>2, <2>3 DEF Promotes, Done
    <2>6. \A c : Known(c) => Known(c)'
      BY <2>3, KnownStays
    <2>7. \A p \in Seq(Step) : /\ Onward(w, p).plan = p
                               /\ Onward(w, p).doing = IF p = <<>> THEN "idle" ELSE op[w].doing
      BY <2>4, <2>5, RestIsOp DEF Onward, Op
    <2>8. ASSUME NEW p \in Seq(Step), op'[w] = Onward(w, p),
                 \A c : Coming(w, c) => Known(c)' \/ \E x \in Elems(p) : Maker(x) /\ x.row.content = c
          PROVE  Whole(w)' /\ Promotes(w)'
      <3>1. /\ op'[w].plan = p /\ op'[w].doing \in {"idle", "evidence", "inference"}
            /\ p # <<>> => op'[w].doing \in {"evidence", "inference"}
        BY <2>5, <2>7, <2>8
      <3>2. \A c : Coming(w, c) => Known(c)' \/ Coming(w, c)'
        BY <2>8, <3>1 DEF Coming, Planned
      <3>3. op[w].doing # "raised"
        BY <2>5
      <3>4. QED
        BY <2>6, <3>1, <3>2, <3>3 DEF Whole, Promotes, Left, Has
    <2>9. CASE Look(w)
      <3>1. CASE Exists(s)
        <4>1. op'[w] = Onward(w, q)
          BY <2>1, <2>2, <2>3, <2>4, <2>9, <3>1 DEF Look
        <4>2. Known(s.row.content)
          BY <3>1 DEF Exists, Known
        <4>3. QED
          BY <2>4, <2>6, <2>8, <4>1, <4>2 DEF Coming
      <3>2. CASE ~Exists(s)
        <4>1. PICK r : r = Add(s.id, s.row)
          OBVIOUS
        <4>2. s.do = "seek" /\ op'[w] = Onward(w, <<r>> \o q)
          BY <2>1, <2>2, <2>3, <2>9, <3>2, <4>1 DEF Look
        <4>3. r \in Step /\ Maker(r) /\ r.row = s.row
          BY <2>4, <4>1, <4>2, StepFields, StepsMade DEF Add, Maker
        <4>4. <<r>> \o q \in Seq(Step) /\ Elems(<<r>> \o q) = {r} \cup Elems(q)
          BY <2>4, <4>3, InFront
        <4>5. QED
          BY <2>4, <2>8, <4>2, <4>3, <4>4 DEF Coming
      <3>3. QED
        BY <3>1, <3>2
    <2>10. CASE Write(w)
      <3>1. op'[w] = Onward(w, q) /\ s.do # "seek" /\ memories' = Written(memories, s)
        BY <2>1, <2>2, <2>3, <2>10 DEF Write
      <3>2. Maker(s) => Known(s.row.content)'
        <4>1. Maker(s) => memories'[s.id] = s.row /\ s.id \in Id /\ s.row # NoRow
          BY <2>4, <3>1, Rewritten, StepFields, RowsAreThere
        <4>2. QED
          BY <4>1 DEF Known
      <3>3. QED
        BY <2>4, <2>8, <3>1, <3>2 DEF Coming
    <2>11. CASE Raise(w)
      <3>1. op'[w] = [Rest EXCEPT !.doing = "raised"]
        BY <2>3, <2>5, <2>11 DEF Raise
      <3>2. QED
        BY <3>1, RestIsOp DEF Whole, Promotes
    <2>12. QED
      BY <2>9, <2>10, <2>11 DEF WriteStep
  <1>3. QED
    BY <1>1, <1>2

\* A step of one agent does not disturb what the others do.
LEMMA OthersGoOn ==
    ASSUME ClaimInv, NEW a \in Agent,
           WriteStep(a) \/ UserStep(a) \/ SweepStep(a) \/ \E e : op' = [op EXCEPT ![a] = e],
           NEW b \in Agent, b # a
    PROVE  op'[b].doing = op[b].doing /\ op'[b].plan = op[b].plan
  <1>1. op \in [Agent -> Op]
    BY DEF ClaimInv, MemoryTypeOK, Op
  <1>2. CASE \E e : op' = [op EXCEPT ![a] = e]
    BY <1>1, <1>2
  <1>3. CASE Write(a)
    <2>1. \A k : /\ [op[b] EXCEPT !.stale = op[b].stale \cup {k}].doing = op[b].doing
                 /\ [op[b] EXCEPT !.stale = op[b].stale \cup {k}].plan = op[b].plan
      BY <1>1 DEF Op
    <2>2. QED
      BY <1>3, <2>1 DEF Write
  <1>4. op' = op => \E e : op' = [op EXCEPT ![a] = e]
    BY <1>1
  <1>5. WriteStep(a) \/ UserStep(a) \/ SweepStep(a) => Write(a) \/ \E e : op' = [op EXCEPT ![a] = e]
    BY <1>4 DEF WriteStep, Look, Raise, UserStep, Remember, Correct, CorrectAsIs, Forget, Dispute,
           SweepStep, PruneCandidates, PruneUnused, Collapse, DropTwins, AgeQuarantine, Sweep, Decide
  <1>6. QED
    BY <1>2, <1>3, <1>5

-----------------------------------------------------------------------------
\* The invariant of the jobs is inductive

LEMMA Concluded ==
    ASSUME LearnInv, ClaimInv', LearnTypes', \A c : Known(c) => Known(c)',
           \A w \in Worker : Whole(w)' /\ Promotes(w)',
           \A t \in Verified : job'[t].status = "done" => job[t].status = "done"
    PROVE  LearnInv'
  BY DEF LearnInv, WorkIsWhole, DoneIsLearned, Known

LEMMA TableStays ==
    ASSUME NEW a, UserStep(a) \/ SweepStep(a)
    PROVE  memories' = memories
  BY DEF UserStep, Remember, Correct, CorrectAsIs, Forget, Dispute, SweepStep, PruneCandidates,
         PruneUnused, Collapse, DropTwins, AgeQuarantine, Sweep

\* Nothing of the jobs changes.
LEMMA TableSteps ==
    ASSUME LearnInv, UNCHANGED learnVars,
           \/ \E a \in Agent : WriteStep(a) \/ (a \in User /\ UserStep(a))
                                  \/ (a \in Sweepers /\ SweepStep(a))
           \/ \E ks \in Query : Recall(ks)
    PROVE  LearnInv'
  <1>1. ClaimInv /\ work' = work /\ job' = job
    BY DEF LearnInv, learnVars
  <1>2. LearnTypes'
    BY <1>1 DEF LearnInv, LearnTypes
  <1>3. \A w \in Worker : Whole(w) /\ Promotes(w) /\ work'[w] = work[w] /\ w \in Agent
    BY <1>1, Assumptions DEF LearnInv, WorkIsWhole
  <1>4. ASSUME NEW a \in Agent, WriteStep(a) \/ (a \in User /\ UserStep(a))
                                   \/ (a \in Sweepers /\ SweepStep(a))
        PROVE  LearnInv'
    <2>1. ClaimInv'
      BY <1>1, <1>4, Stepped, Asked, Swept
    <2>2. \A c : Known(c) => Known(c)'
      BY <1>1, <1>4, KnownStays, TableStays
    <2>3. ASSUME NEW w \in Worker PROVE Whole(w)' /\ Promotes(w)'
      <3>1. CASE w # a
        BY <1>1, <1>3, <1>4, <2>2, <3>1, OthersGoOn, WholeStays
      <3>2. CASE w = a /\ WriteStep(w)
        BY <1>1, <1>3, <3>2, WholeWrites
      <3>3. CASE w = a /\ w \in Sweepers
        BY <1>1, <3>3, Idles DEF Sweepers, Has
      <3>4. QED
        BY <1>4, <3>1, <3>2, <3>3, Assumptions
    <2>4. QED
      BY <1>1, <1>2, <2>1, <2>2, <2>3, Concluded
  <1>5. ASSUME NEW ks \in Query, Recall(ks) PROVE LearnInv'
    <2>1. ClaimInv' /\ op' = op /\ memories' = memories
      BY <1>1, <1>5, Recalled DEF Recall
    <2>2. \A c : Known(c) => Known(c)'
      BY <1>1, <2>1, KnownStays
    <2>3. QED
      BY <1>1, <1>2, <1>3, <2>1, <2>2, WholeStays, Concluded
  <1>6. QED
    BY <1>4, <1>5

LEMMA ClaimsRest ==
    ASSUME ClaimInv, UNCHANGED <<memories, made, shown, word>>,
           op' = op \/ \E a \in Agent : op' = [op EXCEPT ![a] = Rest]
    PROVE  ClaimInv' /\ \A c : Known(c) => Known(c)'
  <1>1. CASE op' = op
    BY <1>1, KnownStays DEF ClaimInv, MemoryTypeOK, MadeRows, ShownRows, PlansAreSound, OneMaker,
       OwnIds, WordIsNewest, Planned, Sound, LeavesWord, ClaimIn, Active, In, Newest
  <1>2. ASSUME NEW a \in Agent, op' = [op EXCEPT ![a] = Rest] PROVE ClaimInv'
    BY <1>2, RestIsOp, Emptied
  <1>3. QED
    BY <1>1, <1>2, KnownStays

LEMMA Captured ==
    ASSUME LearnInv, NEW t \in Turn, Capture(t)
    PROVE  LearnInv'
  <1>1. UNCHANGED <<memories, made, shown, word, op, work>>
           /\ job' = [job EXCEPT ![t].status = "pending"]
    BY DEF Capture, claimVars
  <1>2. ClaimInv' /\ \A c : Known(c) => Known(c)'
    BY <1>1, ClaimsRest DEF LearnInv
  <1>3. LearnTypes' /\ \A u \in Verified : job'[u].status = "done" => job[u].status = "done"
    BY <1>1, Assumptions DEF LearnInv, LearnTypes
  <1>4. \A w \in Worker : Whole(w)' /\ Promotes(w)'
    BY <1>1, <1>2, WholeStays DEF LearnInv, WorkIsWhole
  <1>5. QED
    BY <1>2, <1>3, <1>4, Concluded

LEMMA Recovered ==
    ASSUME LearnInv, Recover
    PROVE  LearnInv'
  <1>1. PICK ts : /\ UNCHANGED <<memories, made, shown, word, op, work>>
                  /\ job' = [t \in Turn |-> IF t \in ts THEN [job[t] EXCEPT !.status = "pending"]
                                            ELSE job[t]]
    BY DEF Recover, claimVars
  <1>2. ClaimInv' /\ \A c : Known(c) => Known(c)'
    BY <1>1, ClaimsRest DEF LearnInv
  <1>3. LearnTypes' /\ \A u \in Verified : job'[u].status = "done" => job[u].status = "done"
    BY <1>1, Assumptions DEF LearnInv, LearnTypes
  <1>4. \A w \in Worker : Whole(w)' /\ Promotes(w)'
    BY <1>1, <1>2, WholeStays DEF LearnInv, WorkIsWhole
  <1>5. QED
    BY <1>2, <1>3, <1>4, Concluded

\* The worker of w takes a job, or lets go of one, and the others go on.
LEMMA WorkerChanges ==
    ASSUME LearnInv, NEW w \in Worker, NEW r, work' = [work EXCEPT ![w] = r],
           op' = [op EXCEPT ![w] = Rest], UNCHANGED <<memories, made, shown, word>>,
           LearnTypes', Whole(w)' /\ Promotes(w)',
           \A t \in Verified : job'[t].status = "done" =>
              job[t].status = "done" \/ \A n \in DOMAIN Evidence[t] : Known(Evidence[t][n].content)
    PROVE  LearnInv'
  <1>1. ClaimInv /\ w \in Agent /\ \A b \in Worker : b \in Agent /\ Whole(b) /\ Promotes(b)
    BY Assumptions DEF LearnInv, WorkIsWhole
  <1>2. ClaimInv' /\ \A c : Known(c) => Known(c)'
    BY <1>1, ClaimsRest
  <1>3. \A b \in Worker : b # w => work'[b] = work[b]
    BY DEF LearnInv, LearnTypes
  <1>4. \A b \in Worker : Whole(b)' /\ Promotes(b)'
    <2>1. SUFFICES ASSUME NEW b \in Worker, b # w PROVE Whole(b)' /\ Promotes(b)'
      OBVIOUS
    <2>2. op'[b].doing = op[b].doing /\ op'[b].plan = op[b].plan
      BY <1>1, <2>1, OthersGoOn
    <2>3. QED
      BY <1>1, <1>2, <1>3, <2>1, <2>2, WholeStays
  <1>5. DoneIsLearned'
    BY <1>2 DEF LearnInv, DoneIsLearned, Known
  <1>6. QED
    BY <1>2, <1>4, <1>5 DEF LearnInv, WorkIsWhole

LEMMA Taken ==
    ASSUME LearnInv, NEW w \in Worker, Take(w)
    PROVE  LearnInv'
  <1>1. PICK t \in Turn :
           LET n == Counted(job[t].attempts) IN
           /\ job' = [job EXCEPT ![t] = [status |-> "processing", attempts |-> n]]
           /\ work' = [work EXCEPT ![w] =
                  [turn |-> t, attempts |-> n,
                   left |-> IF t \in Verified THEN Evidence[t] ELSE <<>>]]
    BY DEF Take
  <1>2. op' = [op EXCEPT ![w] = Rest] /\ UNCHANGED <<memories, made, shown, word>>
    BY DEF Take
  <1> DEFINE n == Counted(job[t].attempts)
             l == IF t \in Verified THEN Evidence[t] ELSE <<>>
             r == [turn |-> t, attempts |-> n, left |-> l]
  <1>3. job[t].attempts \in Nat /\ n \in Nat
    BY DEF LearnInv, LearnTypes, Counted
  <1>4. l \in Seq(Shown)
    <2>1. Evidence \in [Turn -> Seq(Shown)]
      BY Assumptions DEF Shown
    <2>2. <<>> \in Seq(Shown)
      OBVIOUS
    <2>3. QED
      BY <2>1, <2>2
  <1>5. work'[w] = r /\ op'[w] = Rest
    BY <1>1, <1>2, Assumptions DEF LearnInv, LearnTypes, ClaimInv, MemoryTypeOK
  <1> HIDE DEF n, l
  <1>6. LearnTypes'
    <2>1. work' = [work EXCEPT ![w] = r]
             /\ job' = [job EXCEPT ![t] = [status |-> "processing", attempts |-> n]]
      BY <1>1 DEF n, l
    <2>2. QED
      BY <1>3, <1>4, <2>1 DEF LearnInv, LearnTypes
  <1>7. Whole(w)' /\ Promotes(w)'
    <2>1. Promotes(w)'
      BY <1>5, RestIsOp DEF Promotes
    <2>2. t \in Verified => \A m \in DOMAIN Evidence[t] : Left(w, Evidence[t][m].content)'
      BY <1>5 DEF Left, l
    <2>3. QED
      BY <1>5, <2>1, <2>2 DEF Whole
  <1>8. \A u \in Verified : job'[u].status = "done" => job[u].status = "done"
    BY <1>1, Assumptions DEF LearnInv, LearnTypes
  <1>9. QED
    BY <1>1, <1>2, <1>6, <1>7, <1>8, WorkerChanges

LEMMA Learned ==
    ASSUME LearnInv, NEW w \in Worker, Learn(w)
    PROVE  LearnInv'
  <1>1. PICK e : e = Head(work[w].left)
    OBVIOUS
  <1>2. PICK t : t = work[w].turn
    OBVIOUS
  <1>3. /\ Has(w) /\ op[w] = Rest /\ work[w].left # <<>> /\ Promote(w, e, t)
        /\ work' = [work EXCEPT ![w].left = Tail(work[w].left)] /\ job' = job
    BY <1>1, <1>2 DEF Learn
  <1>4. /\ work \in [Worker -> [turn : Turn \cup {NoTurn}, attempts : Nat, left : Seq(Shown)]]
        /\ ClaimInv /\ w \in Agent
    BY Assumptions DEF LearnInv, LearnTypes
  <1>5. /\ work[w].left \in Seq(Shown) /\ e \in Shown /\ t \in Turn
        /\ Tail(work[w].left) \in Seq(Shown)
    BY <1>1, <1>2, <1>3, <1>4 DEF Has
  <1>6. /\ ClaimInv' /\ op'[w].doing \in {"idle", "evidence", "inference"}
        /\ op'[w].plan # <<>> => op'[w].doing \in {"evidence", "inference"}
        /\ Known(e.content) \/ Coming(w, e.content)'
    BY <1>3, <1>4, <1>5, Promoted
  <1>7. memories' = memories /\ \E x : op' = [op EXCEPT ![w] = x]
    BY <1>3 DEF Promote, Decide
  <1>8. \A c : Known(c) => Known(c)'
    BY <1>4, <1>7, KnownStays
  <1>9. LearnTypes'
    BY <1>3, <1>4, <1>5 DEF LearnInv, LearnTypes
  <1>10. /\ work'[w].turn = t /\ work'[w].left = Tail(work[w].left)
         /\ \A b \in Worker : b # w => work'[b] = work[b]
    BY <1>2, <1>3, <1>4
  <1>11. Promotes(w)'
    BY <1>6 DEF Promotes
  <1>12. Whole(w)'
    <2>1. SUFFICES ASSUME t \in Verified, NEW n \in DOMAIN Evidence[t]
                   PROVE  \/ Known(Evidence[t][n].content)' \/ Coming(w, Evidence[t][n].content)'
                          \/ Left(w, Evidence[t][n].content)'
      BY <1>10 DEF Whole
    <2>2. PICK c : c = Evidence[t][n].content
      OBVIOUS
    <2>3. ~Coming(w, c) /\ op[w].doing # "raised"
      BY <1>3, RestIsOp, Nothing DEF Coming, Planned
    <2>4. Known(c) \/ Left(w, c)
      BY <1>2, <2>1, <2>2, <2>3 DEF LearnInv, WorkIsWhole, Whole
    <2>5. Left(w, c) => c = e.content \/ Left(w, c)'
      <3>1. SUFFICES ASSUME NEW m \in DOMAIN work[w].left, work[w].left[m].content = c, m # 1
                     PROVE  \E i \in DOMAIN Tail(work[w].left) : Tail(work[w].left)[i].content = c
        BY <1>1, <1>3, <1>5, <1>10 DEF Left
      <3>2. m - 1 \in DOMAIN Tail(work[w].left) /\ Tail(work[w].left)[m - 1] = work[w].left[m]
        BY <1>3, <1>5, <3>1
      <3>3. QED
        BY <3>1, <3>2
    <2>6. QED
      BY <1>6, <1>8, <2>2, <2>4, <2>5
  <1>13. \A b \in Worker : Whole(b)' /\ Promotes(b)'
    <2>1. SUFFICES ASSUME NEW b \in Worker, b # w PROVE Whole(b)' /\ Promotes(b)'
      BY <1>11, <1>12
    <2>2. op'[b].doing = op[b].doing /\ op'[b].plan = op[b].plan
      BY <1>4, <1>7, <2>1, OthersGoOn, Assumptions
    <2>3. QED
      BY <1>8, <1>10, <2>1, <2>2, WholeStays DEF LearnInv, WorkIsWhole
  <1>14. QED
    BY <1>3, <1>6, <1>8, <1>9, <1>13, Concluded

LEMMA LetGo ==
    ASSUME LearnInv, NEW w \in Worker, Finish(w) \/ Fail(w) \/ Die(w)
    PROVE  LearnInv'
  <1>1. /\ work' = [work EXCEPT ![w] = NoWork] /\ op' = [op EXCEPT ![w] = Rest]
        /\ UNCHANGED <<memories, made, shown, word>>
    BY DEF Finish, Fail, Die, Released
  <1>2. job \in [Turn -> [status : {"none", "pending", "processing", "done", "failed"}, attempts : Nat]]
           /\ work \in [Worker -> [turn : Turn \cup {NoTurn}, attempts : Nat, left : Seq(Shown)]]
    BY DEF LearnInv, LearnTypes
  <1>3. work'[w].turn = NoTurn
    BY <1>1, <1>2 DEF NoWork
  <1>4. NoWork \in [turn : Turn \cup {NoTurn}, attempts : Nat, left : Seq(Shown)]
    BY DEF NoWork
  <1>5. ASSUME NEW st \in {"done", "failed", "pending"}, job' = [job EXCEPT ![work[w].turn].status = st],
               Has(w)
        PROVE  /\ LearnTypes'
               /\ \A t \in Verified : job'[t].status = "done" =>
                     job[t].status = "done" \/ (st = "done" /\ t = work[w].turn)
    <2>1. work[w].turn \in Turn
      BY <1>2, <1>5 DEF Has
    <2>2. LearnTypes'
      BY <1>1, <1>2, <1>4, <1>5, <2>1 DEF LearnTypes
    <2>3. QED
      BY <1>2, <1>5, <2>1, <2>2, Assumptions
  <1>6. /\ LearnTypes'
        /\ \A t \in Verified : job'[t].status = "done" =>
              job[t].status = "done" \/ (Finish(w) /\ t = work[w].turn)
    <2>1. CASE Finish(w)
      BY <1>5, <2>1 DEF Finish, Released
    <2>2. CASE Fail(w)
      <3>1. PICK st \in {"failed", "pending"} : job' = [job EXCEPT ![work[w].turn].status = st]
        BY <2>2 DEF Fail, Released
      <3>2. QED
        BY <1>5, <2>2, <3>1 DEF Fail
    <2>3. CASE Die(w)
      BY <1>1, <1>2, <1>4, <2>3 DEF Die, LearnTypes
    <2>4. QED
      BY <2>1, <2>2, <2>3
  <1>7. ASSUME Finish(w), work[w].turn \in Verified, NEW n \in DOMAIN Evidence[work[w].turn]
        PROVE  Known(Evidence[work[w].turn][n].content)
    <2>1. op[w] = Rest /\ work[w].left = <<>>
      BY <1>7 DEF Finish
    <2>2. \A c : ~Coming(w, c) /\ ~Left(w, c) /\ op[w].doing # "raised"
      BY <2>1, RestIsOp, Nothing DEF Coming, Planned, Left
    <2>3. QED
      BY <1>7, <2>2 DEF LearnInv, WorkIsWhole, Whole
  <1>8. Whole(w)' /\ Promotes(w)'
    BY <1>3, Idles
  <1>9. QED
    BY <1>1, <1>6, <1>7, <1>8, WorkerChanges

LEMMA Started ==
    Init => LearnInv
  <1>1. SUFFICES ASSUME Init PROVE LearnInv
    OBVIOUS
  <1>2. /\ memories = [i \in Id |-> NoRow] /\ made = 0 /\ shown = {} /\ op = [a \in Agent |-> Rest]
        /\ word = [k \in Claim |-> NoWord]
        /\ job = [t \in Turn |-> [status |-> "none", attempts |-> 0]]
        /\ work = [w \in Worker |-> NoWork]
    BY <1>1 DEF Init, ClaimInit
  <1>3. MemoryTypeOK /\ MadeRows /\ ShownRows /\ WordIsNewest
    BY <1>2, RestIsOp, Assumptions DEF MemoryTypeOK, Op, MadeRows, ShownRows, WordIsNewest
  <1>4. \A a \in Agent : Planned(a) = {} /\ AtMostOne(op[a].plan)
    BY <1>2, RestIsOp, Nothing DEF Planned
  <1>5. ClaimInv
    BY <1>3, <1>4 DEF ClaimInv, PlansAreSound, OneMaker, OwnIds
  <1>6. LearnTypes /\ DoneIsLearned /\ \A w \in Worker : work[w].turn = NoTurn
    BY <1>2, Assumptions DEF LearnTypes, DoneIsLearned, NoWork
  <1>7. QED
    BY <1>5, <1>6, Assumptions DEF LearnInv, WorkIsWhole, Whole, Promotes, Has

LEMMA Inductive ==
    LearnInv /\ [Next]_vars => LearnInv'
  <1> SUFFICES ASSUME LearnInv, [Next]_vars PROVE LearnInv'
    OBVIOUS
  <1>1. CASE \E t \in Turn : Capture(t)
    BY <1>1, Captured
  <1>2. ASSUME NEW w \in Worker, WorkStep(w) \/ Die(w) PROVE LearnInv'
    BY <1>2, Taken, Learned, LetGo, TableSteps, Assumptions DEF WorkStep
  <1>3. CASE Recover
    BY <1>3, Recovered
  <1>4. ASSUME NEW u \in User, (WriteStep(u) \/ UserStep(u)) /\ UNCHANGED learnVars PROVE LearnInv'
    BY <1>4, TableSteps, Assumptions
  <1>5. ASSUME NEW a \in Sweepers, SweepStep(a) /\ UNCHANGED learnVars PROVE LearnInv'
    BY <1>5, TableSteps, Assumptions DEF Sweepers
  <1>6. CASE \E ks \in Query : Recall(ks) /\ UNCHANGED learnVars
    BY <1>6, TableSteps
  <1>7. CASE UNCHANGED vars
    <2>1. UNCHANGED <<memories, made, shown, word, op, job, work>>
      BY <1>7 DEF vars
    <2>2. ClaimInv' /\ \A c : Known(c) => Known(c)'
      BY <2>1, ClaimsRest DEF LearnInv
    <2>3. LearnTypes' /\ \A w \in Worker : Whole(w)' /\ Promotes(w)'
      BY <2>1, <2>2, WholeStays DEF LearnInv, LearnTypes, WorkIsWhole
    <2>4. QED
      BY <2>1, <2>2, <2>3, Concluded
  <1>8. QED
    BY <1>1, <1>2, <1>3, <1>4, <1>5, <1>6, <1>7 DEF Next

-----------------------------------------------------------------------------
\* Contradictions.  A turn whose evidence met one is in the hands of the one worker
\* that noticed it, or done; it does not show that content again; and nobody plans to
\* confirm it.

Fair(row) ==
    /\ row.turn \in Turn => row.claim = ClaimOf[row.content]
    /\ row.state = "confirmed" => <<row.turn, row.content>> \notin disputed

RowsAreFair == \A i \in Id : memories[i] # NoRow => Fair(memories[i])

\* Records of a turn are planned by the worker that has it.
Owns(a, t) == t \in Turn => a \in Worker /\ work[a].turn = t

PlansAreFair ==
    \A a \in Agent : \A s \in Planned(a) : Maker(s) => Fair(s.row) /\ Owns(a, s.row.turn)

Contents(l) == {l[n].content : n \in DOMAIN l}

Current(t) ==
    /\ job[t].status \in {"processing", "done"}
    /\ \A v, w \in Worker : work[v].turn = t /\ work[w].turn = t => v = w
    /\ job[t].status = "done" => \A w \in Worker : work[w].turn # t

DisputesAreClosed ==
    /\ disputed \subseteq Turn \X Content
    /\ \A d \in disputed :
          /\ Current(d[1])
          /\ \A w \in Worker : work[w].turn = d[1] => d[2] \notin Contents(work[w].left)

Once(l) == \A m, n \in DOMAIN l : l[m].content = l[n].content => m = n

LeftOnce == \A w \in Worker : Once(work[w].left)

DisputeInv == RowsAreFair /\ PlansAreFair /\ DisputesAreClosed /\ LeftOnce

LEMMA EvidenceOnce ==
    /\ \A t \in Turn : Once(Evidence[t])
    /\ "explicit" \notin Turn /\ Agent = User \cup Worker
  BY ClaimAssumption, LearningAssumption DEF ClaimAssumption, LearningAssumption, Once

\* A step that makes no plan but of records that were planned already, or of the user's.
LEMMA PlansStayFair ==
    ASSUME ClaimInv, PlansAreFair, disputed' \in SUBSET (Turn \X Content),
           disputed' \subseteq disputed,
           \A a \in Agent : \A s \in Planned(a)' : Maker(s) =>
              \/ s.row.turn = "explicit"
              \/ \E r \in Planned(a) : Maker(r) /\ r.row = s.row /\ Owns(a, s.row.turn)'
    PROVE  PlansAreFair'
  <1>1. SUFFICES ASSUME NEW a \in Agent, NEW s \in Planned(a)', Maker(s)
                 PROVE  Fair(s.row)' /\ Owns(a, s.row.turn)'
    BY DEF PlansAreFair
  <1>2. CASE s.row.turn = "explicit"
    BY <1>2, EvidenceOnce DEF Fair, Owns
  <1>3. ASSUME NEW r \in Planned(a), Maker(r), r.row = s.row, Owns(a, s.row.turn)'
        PROVE  Fair(s.row)' /\ Owns(a, s.row.turn)'
    BY <1>1, <1>3 DEF PlansAreFair, Fair
  <1>4. QED
    BY <1>1, <1>2, <1>3

LEMMA RowsStayFair ==
    ASSUME RowsAreFair, disputed' \subseteq disputed, memories' = memories
    PROVE  RowsAreFair'
  BY DEF RowsAreFair, Fair

LEMMA DecidedPlan ==
    ASSUME ClaimInv, NEW a \in Agent, NEW doing, NEW plan, Decide(a, doing, plan)
    PROVE  op'[a].plan = plan /\ \A b \in Agent : b # a => op'[b] = op[b]
  <1>1. op \in [Agent -> Op]
    BY DEF ClaimInv, MemoryTypeOK, Op
  <1>2. QED
    BY <1>1, RestIsOp DEF Decide

LEMMA SetsOnly ==
    ASSUME NEW ids, NEW st, NEW p \in SetAll(ids, st)
    PROVE  \A s \in Elems(p) : ~Maker(s)
  BY DEF SetAll, Elems, SetTo, Maker

LEMMA OneStep == ASSUME NEW s PROVE Elems(<<s>>) = {s}
  <1>1. DOMAIN <<s>> = {1} /\ <<s>>[1] = s
    OBVIOUS
  <1>2. QED
    BY <1>1 DEF Elems

\* Users and sweeps plan no record of a turn.
LEMMA NoTurnPlanned ==
    ASSUME ClaimInv, NEW a \in Agent, UserStep(a) \/ SweepStep(a)
    PROVE  \A s \in Planned(a)' : Maker(s) => s.row.turn = "explicit"
  <1>1. ASSUME NEW doing, NEW ids, NEW st, \E p \in SetAll(ids, st) : Decide(a, doing, p)
        PROVE  \A s \in Planned(a)' : ~Maker(s)
    BY <1>1, DecidedPlan, SetsOnly DEF Planned
  <1>2. ASSUME NEW c \in Said, NEW role \in {"user", "assistant"}, Remember(a, c, role)
        PROVE  \A s \in Planned(a)' : s.row.turn = "explicit"
    <2>1. PICK row : row = NewRow(c, ClaimOf[c], IF role = "user" THEN "confirmed" ELSE "candidate",
                                  role, "explicit")
      OBVIOUS
    <2>2. PICK plan, doing :
             /\ Decide(a, doing, plan)
             /\ (\E i : plan = <<Swap(i, made + 1, row)>>) \/ plan = <<Seek(made + 1, row)>>
      BY <1>2, <2>1 DEF Remember
    <2>3. PICK s : plan = <<s>> /\ s.row = row
      BY <2>2 DEF Swap, Seek
    <2>4. QED
      <3>1. row.turn = "explicit"
        BY <2>1 DEF NewRow
      <3>2. op'[a].plan = <<s>>
        <4>1. op'[a].plan = plan
          BY <2>2, DecidedPlan
        <4>2. QED
          BY <2>3, <4>1
      <3>3. QED
        BY <2>3, <3>1, <3>2, OneStep DEF Planned
  <1>3. ASSUME NEW i \in Id, NEW c \in Said, Correct(a, i, c)
        PROVE  \A s \in Planned(a)' : s.row.turn = "explicit"
    <2>1. PICK row : row = NewRow(c, memories[i].claim, "confirmed", "user", "explicit")
      OBVIOUS
    <2>2. PICK s : s = Swap(i, made + 1, row)
      OBVIOUS
    <2>3. Decide(a, "remember", <<s>>) /\ s.row = row
      BY <1>3, <2>1, <2>2 DEF Correct, Swap
    <2>4. QED
      BY <2>1, <2>3, OneStep, DecidedPlan DEF Planned, NewRow
  <1>4. ASSUME NEW i \in Id, Forget(a, i)
        PROVE  \A s \in Planned(a)' : ~Maker(s)
    <2>1. PICK s : s = SetTo(i, "retracted")
      OBVIOUS
    <2>2. Decide(a, "forget", <<s>>) /\ ~Maker(s)
      BY <1>4, <2>1 DEF Forget, SetTo, Maker
    <2>3. QED
      BY <2>2, OneStep, DecidedPlan DEF Planned
  <1>5. ASSUME Dispute(a) \/ SweepStep(a)
        PROVE  \A s \in Planned(a)' : ~Maker(s)
    <2>1. \E doing, ids, st : \E p \in SetAll(ids, st) : Decide(a, doing, p)
      BY <1>5 DEF Dispute, SweepStep, PruneCandidates, PruneUnused, Collapse, DropTwins,
                  AgeQuarantine, Sweep
    <2>2. QED
      BY <2>1, <1>1
  <1>6. ASSUME NEW i \in Id, CorrectAsIs(a, i)
        PROVE  Planned(a)' = {}
    BY <1>6, Nothing DEF CorrectAsIs, Free, Planned
  <1>7. QED
    BY <1>2, <1>3, <1>4, <1>5, <1>6 DEF UserStep

LEMMA WritesPlanned ==
    ASSUME ClaimInv, NEW a \in Agent, WriteStep(a)
    PROVE  \A s \in Planned(a)' : Maker(s) => \E r \in Planned(a) : Maker(r) /\ r.row = s.row
  <1>0. op \in [Agent -> Op]
    BY DEF ClaimInv, MemoryTypeOK, Op
  <1>1. CASE Raise(a)
    <2>1. op'[a].plan = <<>>
      BY <1>0, <1>1, RestIsOp DEF Raise
    <2>2. QED
      BY <2>1, Nothing DEF Planned
  <1>2. CASE Write(a)
    <2>1. PICK q : q = Tail(op[a].plan)
      OBVIOUS
    <2>2. op'[a] = Onward(a, q)
      BY <1>0, <1>2, <2>1 DEF Write
    <2>3. op[a] \in Op /\ q \in Seq(Step) /\ Elems(q) \subseteq Planned(a)
      BY <1>2, <2>1, Heads DEF Write
    <2>4. op'[a].plan = q
      BY <2>2, <2>3, OnwardFields
    <2>5. QED
      BY <2>3, <2>4 DEF Planned
  <1>3. CASE Look(a)
    <2>1. PICK s : s = Head(op[a].plan)
      OBVIOUS
    <2>2. PICK q : q = Tail(op[a].plan)
      OBVIOUS
    <2>3. PICK r : r = Add(s.id, s.row)
      OBVIOUS
    <2>4. PICK p : p = (IF Exists(s) THEN <<>> ELSE <<r>>) \o q
      OBVIOUS
    <2>5. op'[a] = Onward(a, p) /\ op[a].plan # <<>> /\ s.do = "seek"
      BY <1>0, <1>3, <2>1, <2>2, <2>3, <2>4 DEF Look
    <2>6. op[a] \in Op /\ s \in Step /\ q \in Seq(Step) /\ Planned(a) = {s} \cup Elems(q)
      BY <2>1, <2>2, <2>5, Heads
    <2>7. Maker(s) /\ s.id \in Id /\ s.row \in Row
      BY <2>5, <2>6, StepFields DEF Maker
    <2>8. r \in Step /\ r.row = s.row
      BY <2>3, <2>7, StepsMade DEF Add
    <2>9. p \in Seq(Step) /\ Elems(p) \subseteq {r} \cup Elems(q)
      <3>1. CASE Exists(s)
        BY <2>4, <2>6, <3>1
      <3>2. CASE ~Exists(s)
        <4>1. p = <<r>> \o q
          BY <2>4, <3>2
        <4>2. QED
          BY <4>1, <2>6, <2>8, InFront
      <3>3. QED
        BY <3>1, <3>2
    <2>10. op'[a].plan = p
      BY <2>5, <2>6, <2>9, OnwardFields
    <2>11. QED
      BY <2>6, <2>7, <2>8, <2>9, <2>10 DEF Planned
  <1>4. QED
    BY <1>1, <1>2, <1>3 DEF WriteStep

\* Nothing of the jobs changes.
LEMMA TableStepsFair ==
    ASSUME LearnInv, DisputeInv, UNCHANGED learnVars,
           \/ \E a \in Agent : WriteStep(a) \/ (a \in User /\ UserStep(a))
                                  \/ (a \in Sweepers /\ SweepStep(a))
           \/ \E ks \in Query : Recall(ks)
    PROVE  DisputeInv'
  <1>1. ClaimInv /\ UNCHANGED <<work, job, disputed>> /\ disputed \subseteq Turn \X Content
    BY DEF LearnInv, learnVars, DisputeInv, DisputesAreClosed
  <1>2. DisputesAreClosed' /\ LeftOnce'
    BY <1>1 DEF DisputeInv, DisputesAreClosed, Current, LeftOnce
  <1>3. ASSUME NEW a \in Agent, WriteStep(a) \/ UserStep(a) \/ SweepStep(a)
        PROVE  PlansAreFair'
    <2>1. ASSUME NEW b \in Agent, NEW s \in Planned(b)', Maker(s)
          PROVE  \/ s.row.turn = "explicit"
                 \/ \E r \in Planned(b) : Maker(r) /\ r.row = s.row /\ Owns(b, s.row.turn)'
      <3>1. s.row.turn = "explicit" \/ \E r \in Planned(b) : Maker(r) /\ r.row = s.row
        <4>1. CASE b # a
          BY <1>1, <1>3, <2>1, <4>1, OthersGoOn DEF Planned
        <4>2. CASE b = a /\ WriteStep(a)
          BY <1>1, <2>1, <4>2, WritesPlanned
        <4>3. CASE b = a /\ (UserStep(a) \/ SweepStep(a))
          BY <1>1, <2>1, <4>3, NoTurnPlanned
        <4>4. QED
          BY <1>3, <4>1, <4>2, <4>3
      <3>2. ASSUME NEW r \in Planned(b), Maker(r), r.row = s.row PROVE Owns(b, s.row.turn)'
        BY <1>1, <3>2 DEF DisputeInv, PlansAreFair, Owns
      <3>3. QED
        BY <3>1, <3>2
    <2>2. QED
      BY <1>1, <2>1, PlansStayFair DEF DisputeInv
  <1>4. ASSUME NEW a \in Agent, Write(a)
        PROVE  RowsAreFair'
    <2>1. PICK s : s = Head(op[a].plan)
      OBVIOUS
    <2>2. /\ s \in Step /\ Sound(s) /\ s.do # "seek" /\ memories' = Written(memories, s)
          /\ s \in Planned(a)
      BY <1>1, <1>4, <2>1, Heads DEF Write
    <2>3. SUFFICES ASSUME NEW i \in Id, memories'[i] # NoRow
                   PROVE  Fair(memories'[i])
      BY <1>1 DEF RowsAreFair, Fair
    <2>4. CASE memories[i] = NoRow
      <3>1. Maker(s) /\ memories'[i] = s.row
        BY <1>1, <2>2, <2>3, <2>4, Rewritten
      <3>2. QED
        BY <2>2, <3>1 DEF DisputeInv, PlansAreFair
    <2>5. CASE memories[i] # NoRow
      <3>1. /\ memories'[i].content = memories[i].content /\ memories'[i].turn = memories[i].turn
            /\ memories'[i].claim = memories[i].claim
            /\ memories'[i].state = "confirmed" => memories[i].state = "confirmed"
        BY <1>1, <2>2, <2>5, Rewritten
      <3>2. Fair(memories[i])
        BY <2>5 DEF DisputeInv, RowsAreFair
      <3>3. QED
        BY <3>1, <3>2 DEF Fair
    <2>6. QED
      BY <2>4, <2>5
  <1>5. ASSUME memories' = memories
        PROVE  RowsAreFair'
    BY <1>1, <1>5, RowsStayFair DEF DisputeInv
  <1>6. ASSUME NEW a \in Agent, WriteStep(a) \/ UserStep(a) \/ SweepStep(a)
        PROVE  RowsAreFair'
    BY <1>4, <1>5, <1>6, TableStays DEF WriteStep, Look, Raise
  <1>7. ASSUME NEW ks \in Query, Recall(ks)
        PROVE  PlansAreFair' /\ memories' = memories
    <2>1. op' = op /\ memories' = memories
      BY <1>7 DEF Recall
    <2>2. QED
      BY <1>1, <2>1 DEF DisputeInv, PlansAreFair, Planned, Fair, Owns
  <1>8. QED
    BY <1>2, <1>3, <1>5, <1>6, <1>7 DEF DisputeInv

\* The promotion of some turns was cut short: the others keep their jobs and holders.
LEMMA DisputesStayClosed ==
    ASSUME DisputesAreClosed, NEW ts, disputed' = {d \in disputed : d[1] \notin ts},
           \A t \in Turn \ ts : Current(t) =>
              /\ Current(t)'
              /\ \A w \in Worker : work'[w].turn = t =>
                    work[w].turn = t /\ work'[w].left = work[w].left
    PROVE  DisputesAreClosed'
  <1>1. disputed' \subseteq Turn \X Content /\ disputed' \subseteq disputed
    BY DEF DisputesAreClosed
  <1>2. ASSUME NEW d \in disputed'
        PROVE  /\ Current(d[1])'
               /\ \A w \in Worker : work'[w].turn = d[1] => d[2] \notin Contents(work'[w].left)
    <2>1. d[1] \in Turn \ ts /\ d \in disputed
      BY <1>1, <1>2
    <2>2. Current(d[1]) /\ \A w \in Worker : work[w].turn = d[1] => d[2] \notin Contents(work[w].left)
      BY <2>1 DEF DisputesAreClosed
    <2>3. QED
      BY <2>1, <2>2
  <1>3. QED
    BY <1>1, <1>2 DEF DisputesAreClosed

\* A worker takes a job or lets go of one: its plan is empty after that.
LEMMA WorkerChangesFair ==
    ASSUME LearnInv, DisputeInv, NEW w \in Worker, NEW r, work' = [work EXCEPT ![w] = r],
           op' = [op EXCEPT ![w] = Rest], memories' = memories, Once(r.left),
           disputed' \subseteq disputed
    PROVE  RowsAreFair' /\ PlansAreFair' /\ LeftOnce'
  <1>1. ClaimInv /\ op \in [Agent -> Op] /\ w \in Agent /\ disputed' \in SUBSET (Turn \X Content)
    BY Assumptions DEF LearnInv, ClaimInv, MemoryTypeOK, Op, DisputeInv, DisputesAreClosed
  <1>2. \A v \in Worker : work'[v] = IF v = w THEN r ELSE work[v]
    BY DEF LearnInv, LearnTypes
  <1>3. ASSUME NEW a \in Agent, NEW s \in Planned(a)', Maker(s)
        PROVE  \E x \in Planned(a) : Maker(x) /\ x.row = s.row /\ Owns(a, s.row.turn)'
    <2>1. a # w
      BY <1>1, <1>3, RestIsOp, Nothing DEF Planned
    <2>2. s \in Planned(a)
      BY <1>1, <1>3, <2>1 DEF Planned
    <2>3. Owns(a, s.row.turn)
      BY <1>3, <2>2 DEF DisputeInv, PlansAreFair
    <2>4. QED
      BY <1>2, <1>3, <2>1, <2>2, <2>3 DEF Owns
  <1>4. PlansAreFair'
    BY <1>1, <1>3, PlansStayFair DEF DisputeInv
  <1>5. LeftOnce'
    BY <1>2 DEF DisputeInv, LeftOnce
  <1>6. QED
    BY <1>4, <1>5, RowsStayFair DEF DisputeInv

LEMMA TakenFair ==
    ASSUME LearnInv, DisputeInv, NEW w \in Worker, Take(w)
    PROVE  DisputeInv'
  <1>1. PICK t \in Turn :
           LET n == Counted(job[t].attempts) IN
           /\ job[t].status = "pending"
           /\ job' = [job EXCEPT ![t] = [status |-> "processing", attempts |-> n]]
           /\ work' = [work EXCEPT ![w] =
                  [turn |-> t, attempts |-> n,
                   left |-> IF t \in Verified THEN Evidence[t] ELSE <<>>]]
    BY DEF Take, Pending
  <1>2. /\ op' = [op EXCEPT ![w] = Rest] /\ memories' = memories /\ disputed' = disputed
        /\ work[w].turn = NoTurn
    BY DEF Take, Has
  <1> DEFINE r == [turn |-> t, attempts |-> Counted(job[t].attempts),
                   left |-> IF t \in Verified THEN Evidence[t] ELSE <<>>]
  <1>3. /\ work' = [work EXCEPT ![w] = r] /\ r.turn = t
        /\ r.left = IF t \in Verified THEN Evidence[t] ELSE <<>>
    BY <1>1
  <1> HIDE DEF r
  <1>4. Once(r.left)
    BY <1>3, EvidenceOnce DEF Once
  <1>5. RowsAreFair' /\ PlansAreFair' /\ LeftOnce'
    BY <1>2, <1>3, <1>4, WorkerChangesFair
  <1>6. ~Current(t)
    BY <1>1 DEF Current
  <1>7. ASSUME NEW u \in Turn, Current(u)
        PROVE  /\ Current(u)'
               /\ \A v \in Worker : work'[v].turn = u =>
                     work[v].turn = u /\ work'[v].left = work[v].left
    <2>1. u # t /\ u # NoTurn
      BY <1>6, <1>7, Assumptions
    <2>2. \A v \in Worker : work'[v] = IF v = w THEN r ELSE work[v]
      BY <1>3 DEF LearnInv, LearnTypes
    <2>3. job'[u] = job[u]
      BY <1>1, <2>1 DEF LearnInv, LearnTypes
    <2>4. \A v \in Worker : work'[v].turn = u => work[v].turn = u /\ work'[v].left = work[v].left
      BY <1>3, <2>1, <2>2
    <2>5. QED
      BY <1>7, <2>3, <2>4 DEF Current
  <1>8. DisputesAreClosed'
    <2>1. PICK ts : ts = {}
      OBVIOUS
    <2>2. disputed' = {d \in disputed : d[1] \notin ts} /\ Turn \ ts = Turn
      BY <1>2, <2>1
    <2>3. DisputesAreClosed
      BY DEF DisputeInv
    <2>4. QED
      BY <1>7, <2>2, <2>3, DisputesStayClosed
  <1>9. QED
    BY <1>5, <1>8 DEF DisputeInv

LEMMA LetGoFair ==
    ASSUME LearnInv, DisputeInv, NEW w \in Worker, Finish(w) \/ Fail(w) \/ Die(w)
    PROVE  DisputeInv'
  <1>1. /\ work' = [work EXCEPT ![w] = NoWork] /\ op' = [op EXCEPT ![w] = Rest]
        /\ memories' = memories
    BY DEF Finish, Fail, Die, Released
  <1>2. PICK t : t = work[w].turn
    OBVIOUS
  <1>3. PICK ts \in {{}, {t}} :
           /\ disputed' = {d \in disputed : d[1] \notin ts}
           /\ \/ Finish(w) /\ ts = {} /\ job' = [job EXCEPT ![t].status = "done"]
              \/ Fail(w) /\ ts = {t} /\ \E st : job' = [job EXCEPT ![t].status = st]
              \/ Die(w) /\ ts = {t} /\ job' = job
    BY <1>2 DEF Finish, Fail, Die, Released, CutShort
  <1>4. \A v \in Worker : work'[v] = IF v = w THEN NoWork ELSE work[v]
    BY <1>1 DEF LearnInv, LearnTypes
  <1>5. NoWork.turn = NoTurn /\ Once(NoWork.left)
    BY DEF NoWork, Once
  <1>6. RowsAreFair' /\ PlansAreFair' /\ LeftOnce'
    BY <1>1, <1>3, <1>5, WorkerChangesFair
  <1>7. ASSUME NEW u \in Turn \ ts, Current(u)
        PROVE  /\ Current(u)'
               /\ \A v \in Worker : work'[v].turn = u =>
                     work[v].turn = u /\ work'[v].left = work[v].left
    <2>1. \A v \in Worker : work'[v].turn = u =>
             v # w /\ work[v].turn = u /\ work'[v].left = work[v].left
      BY <1>4, <1>5, Assumptions
    <2>2. job \in [Turn -> [status : {"none", "pending", "processing", "done", "failed"},
                            attempts : Nat]]
      BY DEF LearnInv, LearnTypes
    <2>3. CASE u # t
      <3>1. job'[u] = job[u]
        BY <1>3, <2>2, <2>3
      <3>2. QED
        BY <1>7, <2>1, <3>1 DEF Current
    <2>4. CASE u = t
      <3>1. job'[u].status = "done"
        BY <1>3, <1>7, <2>2, <2>4
      <3>2. \A v \in Worker : work[v].turn = u => v = w
        BY <1>2, <1>7, <2>4 DEF Current
      <3>3. QED
        BY <2>1, <3>1, <3>2 DEF Current
    <2>5. QED
      BY <2>3, <2>4
  <1>8. DisputesAreClosed'
    BY <1>3, <1>7, DisputesStayClosed DEF DisputeInv
  <1>9. QED
    BY <1>6, <1>8 DEF DisputeInv

\* Capture and Recover change jobs only.
LEMMA JobsFair ==
    ASSUME LearnInv, DisputeInv, (\E t \in Turn : Capture(t)) \/ Recover
    PROVE  DisputeInv'
  <1>1. UNCHANGED <<memories, op, work>>
    BY DEF Capture, Recover, claimVars
  <1>2. PICK ts \in SUBSET Turn :
           /\ disputed' = {d \in disputed : d[1] \notin ts}
           /\ \A u \in Turn \ ts : Current(u) => job'[u] = job[u]
    <2>1. job \in [Turn -> [status : {"none", "pending", "processing", "done", "failed"},
                            attempts : Nat]]
      BY DEF LearnInv, LearnTypes
    <2>2. ASSUME NEW t \in Turn, Capture(t)
          PROVE  \E ts \in SUBSET Turn :
                    /\ disputed' = {d \in disputed : d[1] \notin ts}
                    /\ \A u \in Turn \ ts : Current(u) => job'[u] = job[u]
      <3>1. disputed' = {d \in disputed : d[1] \notin {}}
        BY <2>2 DEF Capture
      <3>2. \A u \in Turn \ {} : Current(u) => job'[u] = job[u]
        BY <2>1, <2>2 DEF Capture, Current
      <3>3. {} \in SUBSET Turn
        OBVIOUS
      <3>4. QED
        BY <3>1, <3>2, <3>3
    <2>3. CASE Recover
      BY <2>1, <2>3 DEF Recover, CutShort
    <2>4. QED
      BY <2>2, <2>3
  <1>3. ClaimInv /\ disputed' \subseteq disputed /\ disputed \subseteq Turn \X Content
    BY <1>2 DEF LearnInv, DisputeInv, DisputesAreClosed
  <1>4. RowsAreFair'
    BY <1>1, <1>3, RowsStayFair DEF DisputeInv
  <1>5. PlansAreFair'
    BY <1>1, <1>3 DEF DisputeInv, PlansAreFair, Planned, Fair, Owns
  <1>6. DisputesAreClosed'
    <2>1. \A u \in Turn \ ts : Current(u) => Current(u)'
      BY <1>1, <1>2 DEF Current
    <2>2. DisputesAreClosed
      BY DEF DisputeInv
    <2>3. QED
      BY <1>1, <1>2, <2>1, <2>2, DisputesStayClosed
  <1>7. LeftOnce'
    BY <1>1 DEF DisputeInv, LeftOnce
  <1>8. QED
    BY <1>4, <1>5, <1>6, <1>7 DEF DisputeInv

\* What a piece of evidence e of turn t makes is a record of that turn: not of a
\* confirmed value, if the evidence met a contradiction.
LEMMA PromotedRows ==
    ASSUME ClaimInv, NEW e \in Shown, NEW t \in Turn, NEW plan \in Promotion(e, t)
    PROVE  \A s \in Elems(plan) : Maker(s) =>
              /\ s.row.turn = t /\ s.row.content = e.content
              /\ s.row.claim = ClaimOf[e.content]
              /\ Contradicts(e) => s.row.state # "confirmed"
  <1> DEFINE k   == ClaimOf[e.content]
             old == Active(k)
             row == NewRow(e.content, k, NewState(e, old), e.role, t)
  <1>1. /\ row.turn = t /\ row.content = e.content /\ row.claim = k
        /\ Contradicts(e) => row.state # "confirmed"
    BY DEF NewRow, NewState, Contradicts
  <1>2. old \in SUBSET Id /\ "superseded" \in State /\ "quarantined" \in State
    BY DEF Active, In, State
  <1>3. \/ plan = <<>>
        \/ \E i, p : p \in SetAll(old \ {i}, "superseded")
                       /\ plan = <<Swap(i, made + 1, row)>> \o p
        \/ \E p \in SetAll(old, "quarantined") : plan = p \o <<Seek(made + 1, row)>>
        \/ plan = <<Seek(made + 1, row)>>
    <2>1. CASE \E i \in old : memories[i].content = e.content
      BY <2>1 DEF Promotion
    <2>2. CASE /\ ~ \E i \in old : memories[i].content = e.content
               /\ old # {} /\ e.firm /\ e.role = "user" /\ ~UserStands(old)
      <3>1. PICK i \in Newest(old) :
               plan \in {<<Swap(i, made + 1, row)>> \o p : p \in SetAll(old \ {i}, "superseded")}
        BY <2>2 DEF Promotion
      <3>2. QED
        BY <3>1
    <2>3. CASE /\ ~ \E i \in old : memories[i].content = e.content
               /\ ~(old # {} /\ e.firm /\ e.role = "user" /\ ~UserStands(old))
      BY <2>3 DEF Promotion
    <2>4. QED
      BY <2>1, <2>2, <2>3
  <1> HIDE DEF k, old, row
  <1>4. Seek(made + 1, row).row = row /\ \A i : Swap(i, made + 1, row).row = row
    BY DEF Seek, Swap
  <1>5. ASSUME NEW s \in Elems(plan), Maker(s) PROVE s.row = row
    <2>1. CASE plan = <<>>
      BY <1>5, <2>1, Nothing
    <2>2. CASE plan = <<Seek(made + 1, row)>>
      BY <1>4, <1>5, <2>2, OneStep
    <2>3. ASSUME NEW i, NEW p \in SetAll(old \ {i}, "superseded"),
                 plan = <<Swap(i, made + 1, row)>> \o p
          PROVE  s.row = row
      <3>1. PICK x : x = Swap(i, made + 1, row)
        OBVIOUS
      <3>2. p \in Seq(Step) /\ \A y \in Elems(p) : ~Maker(y)
        <4>1. old \ {i} \in SUBSET Id
          BY <1>2
        <4>2. QED
          BY <1>2, <4>1, SetAllPlans
      <3>3. Elems(<<x>> \o p) \subseteq {x} \cup Elems(p)
        <4>1. /\ DOMAIN p = 1..Len(p) /\ Len(p) \in Nat
              /\ DOMAIN (<<x>> \o p) = 1..(Len(p) + 1) /\ (<<x>> \o p)[1] = x
              /\ \A n \in 2..(Len(p) + 1) : (<<x>> \o p)[n] = p[n - 1]
          BY <3>2
        <4>2. \A n \in 1..(Len(p) + 1) : n # 1 => n \in 2..(Len(p) + 1) /\ n - 1 \in 1..Len(p)
          BY <4>1
        <4>3. \A n \in 1..(Len(p) + 1) : n # 1 => (<<x>> \o p)[n] = p[n - 1] /\ n - 1 \in DOMAIN p
          BY <4>1, <4>2
        <4>4. QED
          BY <4>1, <4>3 DEF Elems
      <3>4. QED
        BY <1>4, <1>5, <2>3, <3>1, <3>2, <3>3
    <2>4. ASSUME NEW p \in SetAll(old, "quarantined"), plan = p \o <<Seek(made + 1, row)>>
          PROVE  s.row = row
      <3>1. PICK x : x = Seek(made + 1, row)
        OBVIOUS
      <3>2. p \in Seq(Step) /\ \A y \in Elems(p) : ~Maker(y)
        BY <1>2, SetAllPlans
      <3>3. Elems(p \o <<x>>) \subseteq {x} \cup Elems(p)
        <4>1. /\ DOMAIN p = 1..Len(p) /\ Len(p) \in Nat
              /\ DOMAIN (p \o <<x>>) = 1..(Len(p) + 1) /\ (p \o <<x>>)[Len(p) + 1] = x
              /\ \A n \in 1..Len(p) : (p \o <<x>>)[n] = p[n]
          BY <3>2
        <4>2. \A n \in 1..(Len(p) + 1) : n = Len(p) + 1 \/ n \in 1..Len(p)
          BY <4>1
        <4>3. QED
          BY <4>1, <4>2 DEF Elems
      <3>4. QED
        BY <1>4, <1>5, <2>4, <3>1, <3>2, <3>3
    <2>5. QED
      BY <1>3, <2>1, <2>2, <2>3, <2>4
  <1>6. QED
    BY <1>1, <1>5 DEF k

LEMMA LearnedFair ==
    ASSUME LearnInv, DisputeInv, NEW w \in Worker, Learn(w)
    PROVE  DisputeInv'
  <1>1. PICK e : e = Head(work[w].left)
    OBVIOUS
  <1>2. PICK t : t = work[w].turn
    OBVIOUS
  <1>3. PICK doing, plan : plan \in Promotion(e, t) /\ Decide(w, doing, plan)
    BY <1>1, <1>2 DEF Learn, Promote
  <1>4. /\ Has(w) /\ op[w] = Rest /\ work[w].left # <<>> /\ memories' = memories
        /\ work' = [work EXCEPT ![w].left = Tail(work[w].left)] /\ job' = job
        /\ disputed' = IF Contradicts(e) /\ Holders(t) = {w} /\ job[t].status = "processing"
                       THEN disputed \cup {<<t, e.content>>} ELSE disputed
    BY <1>1, <1>2 DEF Learn, Promote
  <1>5. /\ work \in [Worker -> [turn : Turn \cup {NoTurn}, attempts : Nat, left : Seq(Shown)]]
        /\ ClaimInv /\ w \in Agent
    BY Assumptions DEF LearnInv, LearnTypes
  <1>6. work[w].left \in Seq(Shown) /\ e \in Shown /\ t \in Turn /\ e.content \in Content
    <2>1. work[w].left \in Seq(Shown) /\ t \in Turn
      BY <1>2, <1>4, <1>5 DEF Has
    <2>2. e \in Shown
      BY <1>1, <1>4, <2>1
    <2>3. QED
      BY <2>1, <2>2 DEF Shown
  <1>7. /\ op'[w].plan = plan /\ \A b \in Agent : b # w => op'[b] = op[b]
    BY <1>3, <1>5, DecidedPlan
  <1>8. /\ \A v \in Worker : work'[v].turn = work[v].turn
        /\ work'[w].left = Tail(work[w].left)
        /\ \A v \in Worker : v # w => work'[v] = work[v]
    BY <1>4, <1>5
  \* What is left after e is not e's content, and was left before.
  <1>9. /\ Contents(Tail(work[w].left)) \subseteq Contents(work[w].left) \ {e.content}
        /\ e.content \in Contents(work[w].left) /\ Once(Tail(work[w].left))
    <2>1. PICK l : l = work[w].left
      OBVIOUS
    <2>2. l \in Seq(Shown) /\ l # <<>> /\ Once(l) /\ e = Head(l)
      BY <1>1, <1>4, <1>6, <2>1 DEF DisputeInv, LeftOnce
    <2>3. /\ Len(l) \in Nat /\ Len(l) # 0 /\ DOMAIN l = 1..Len(l) /\ e = l[1]
          /\ DOMAIN Tail(l) = 1..(Len(l) - 1)
          /\ \A n \in 1..(Len(l) - 1) : Tail(l)[n] = l[n + 1]
      BY <2>2
    <2>4. 1 \in DOMAIN l /\ \A n \in DOMAIN Tail(l) :
             n \in Nat /\ n + 1 \in DOMAIN l /\ n + 1 # 1 /\ Tail(l)[n] = l[n + 1]
      BY <2>3
    <2>5. e.content \in Contents(l)
      BY <2>3, <2>4 DEF Contents
    <2>6. \A n \in DOMAIN Tail(l) :
             Tail(l)[n].content \in Contents(l) /\ Tail(l)[n].content # e.content
      BY <2>2, <2>3, <2>4 DEF Contents, Once
    <2>7. Once(Tail(l))
      <3>1. ASSUME NEW m \in DOMAIN Tail(l), NEW n \in DOMAIN Tail(l),
                   Tail(l)[m].content = Tail(l)[n].content
            PROVE  m = n
        <4>1. m + 1 = n + 1
          BY <2>2, <2>4, <3>1 DEF Once
        <4>2. QED
          BY <2>4, <4>1
      <3>2. QED
        BY <3>1 DEF Once
    <2>8. QED
      BY <2>1, <2>5, <2>6, <2>7 DEF Contents
  <1>10. <<t, e.content>> \notin disputed
    BY <1>2, <1>9 DEF DisputeInv, DisputesAreClosed
  <1>11. \A i \in In("confirmed") : <<memories[i].turn, memories[i].content>> \notin disputed'
    <2>1. SUFFICES ASSUME NEW i \in In("confirmed"), Contradicts(e), memories[i].turn = t,
                          memories[i].content = e.content
                   PROVE  FALSE
      <3>1. \A i \in In("confirmed") : <<memories[i].turn, memories[i].content>> \notin disputed
        BY <1>5, FoundRows DEF DisputeInv, RowsAreFair, Fair, State
      <3>2. QED
        BY <1>4, <3>1
    <2>2. i \in Id /\ memories[i] # NoRow
      BY <1>5, FoundRows DEF State
    <2>3. memories[i].claim = ClaimOf[e.content]
      BY <1>6, <2>1, <2>2 DEF DisputeInv, RowsAreFair, Fair
    <2>4. QED
      BY <2>1, <2>3 DEF Contradicts, Active
  <1>12. RowsAreFair'
    <2>1. SUFFICES ASSUME NEW i \in Id, memories[i] # NoRow
                   PROVE  Fair(memories[i])'
      BY <1>4 DEF RowsAreFair, Fair
    <2>2. memories[i].turn \in Turn => memories[i].claim = ClaimOf[memories[i].content]
      BY <2>1 DEF DisputeInv, RowsAreFair, Fair
    <2>3. memories[i].state = "confirmed" => i \in In("confirmed")
      BY DEF In
    <2>4. QED
      BY <1>4, <1>11, <2>2, <2>3 DEF Fair
  <1>13. PlansAreFair'
    <2>1. ASSUME NEW s \in Planned(w)', Maker(s)
          PROVE  Fair(s.row)' /\ Owns(w, s.row.turn)'
      <3>1. /\ s.row.turn = t /\ s.row.content = e.content
            /\ s.row.claim = ClaimOf[e.content]
            /\ Contradicts(e) => s.row.state # "confirmed"
        BY <1>3, <1>5, <1>6, <1>7, <2>1, PromotedRows DEF Planned
      <3>2. <<t, e.content>> \in disputed' => Contradicts(e)
        BY <1>4, <1>10
      <3>3. QED
        BY <1>2, <1>8, <3>1, <3>2 DEF Fair, Owns
    <2>2. ASSUME NEW a \in Agent, a # w, NEW s \in Planned(a)', Maker(s)
          PROVE  Fair(s.row)' /\ Owns(a, s.row.turn)'
      <3>1. s \in Planned(a)
        BY <1>7, <2>2 DEF Planned
      <3>2. Fair(s.row) /\ Owns(a, s.row.turn)
        BY <2>2, <3>1 DEF DisputeInv, PlansAreFair
      <3>3. Owns(a, s.row.turn)'
        BY <1>8, <3>2 DEF Owns
      \* Another's record is of another turn, if w is the only one that has this one.
      <3>4. <<s.row.turn, s.row.content>> \in disputed' =>
               <<s.row.turn, s.row.content>> \in disputed
        <4>1. s.row.turn = t => a \in Holders(t)
          BY <1>6, <3>2 DEF Owns, Holders
        <4>2. QED
          BY <1>4, <2>2, <4>1
      <3>5. QED
        BY <3>2, <3>3, <3>4 DEF Fair
    <2>3. QED
      BY <2>1, <2>2 DEF PlansAreFair
  <1>14. DisputesAreClosed'
    <2>1. disputed' \subseteq Turn \X Content
      BY <1>4, <1>6 DEF DisputeInv, DisputesAreClosed
    <2>2. \A u : Current(u)' = Current(u)
      BY <1>4, <1>8 DEF Current
    <2>3. ASSUME NEW d \in disputed
          PROVE  /\ Current(d[1])'
                 /\ \A v \in Worker : work'[v].turn = d[1] => d[2] \notin Contents(work'[v].left)
      BY <1>8, <1>9, <2>2 DEF DisputeInv, DisputesAreClosed
    <2>4. ASSUME Holders(t) = {w}, job[t].status = "processing", NEW d, d = <<t, e.content>>
          PROVE  /\ Current(d[1])'
                 /\ \A v \in Worker : work'[v].turn = d[1] => d[2] \notin Contents(work'[v].left)
      <3>1. d[1] = t /\ d[2] = e.content
        BY <2>4
      <3>2. \A v \in Worker : work[v].turn = t => v = w
        BY <2>4 DEF Holders
      <3>3. Current(t)
        BY <2>4, <3>2 DEF Current
      <3>4. QED
        BY <1>8, <1>9, <2>2, <3>1, <3>2, <3>3
    <2>5. QED
      BY <1>4, <2>1, <2>3, <2>4 DEF DisputesAreClosed
  <1>15. LeftOnce'
    BY <1>8, <1>9 DEF DisputeInv, LeftOnce
  <1>16. QED
    BY <1>12, <1>13, <1>14, <1>15 DEF DisputeInv

LEMMA StartedFair == Init => DisputeInv
  <1>1. SUFFICES ASSUME Init PROVE DisputeInv
    OBVIOUS
  <1>2. /\ memories = [i \in Id |-> NoRow] /\ op = [a \in Agent |-> Rest]
        /\ work = [w \in Worker |-> NoWork] /\ disputed = {}
    BY <1>1 DEF Init, ClaimInit
  <1>3. \A a \in Agent : Planned(a) = {}
    BY <1>2, RestIsOp, Nothing DEF Planned
  <1>4. LeftOnce
    BY <1>2 DEF LeftOnce, Once, NoWork
  <1>5. QED
    BY <1>2, <1>3, <1>4 DEF DisputeInv, RowsAreFair, PlansAreFair, DisputesAreClosed

LEMMA InductiveFair == LearnInv /\ DisputeInv /\ [Next]_vars => DisputeInv'
  <1> SUFFICES ASSUME LearnInv, DisputeInv, [Next]_vars PROVE DisputeInv'
    OBVIOUS
  <1>1. CASE (\E t \in Turn : Capture(t)) \/ Recover
    BY <1>1, JobsFair
  <1>2. ASSUME NEW w \in Worker, WorkStep(w) \/ Die(w) PROVE DisputeInv'
    BY <1>2, TakenFair, LearnedFair, LetGoFair, TableStepsFair, Assumptions DEF WorkStep
  <1>3. ASSUME NEW u \in User, (WriteStep(u) \/ UserStep(u)) /\ UNCHANGED learnVars PROVE DisputeInv'
    BY <1>3, TableStepsFair, Assumptions
  <1>4. ASSUME NEW a \in Sweepers, SweepStep(a) /\ UNCHANGED learnVars PROVE DisputeInv'
    BY <1>4, TableStepsFair, Assumptions DEF Sweepers
  <1>5. CASE \E ks \in Query : Recall(ks) /\ UNCHANGED learnVars
    BY <1>5, TableStepsFair
  <1>6. CASE UNCHANGED vars
    BY <1>6 DEF vars, DisputeInv, RowsAreFair, PlansAreFair, DisputesAreClosed, LeftOnce,
                Planned, Fair, Owns, Current
  <1>7. QED
    BY <1>1, <1>2, <1>3, <1>4, <1>5, <1>6 DEF Next

-----------------------------------------------------------------------------

\* The memory and its jobs keep their invariant.
THEOREM MemoryIsKept == Spec => []LearnInv
  BY Started, Inductive, PTL DEF Spec

\* The variables of the memory have their types: a plan that is cut short, overtaken or
\* refused by the index leaves nothing but rows.
THEOREM MemoryTypes == Spec => []MemoryTypeOK
  <1>1. LearnInv => MemoryTypeOK
    BY DEF LearnInv, ClaimInv
  <1>2. QED
    BY <1>1, MemoryIsKept, PTL

\* finish_job: a job that is done was learned, whoever processed it, however often, and
\* whatever died in between.
THEOREM FinishedJobsAreLearned == Spec => []DoneIsLearned
  <1>1. LearnInv => DoneIsLearned
    BY DEF LearnInv
  <1>2. QED
    BY <1>1, MemoryIsKept, PTL

\* _promote_candidate and consolidate_store: what the user said last, and has not taken
\* back, is a confirmed value of its claim.
THEOREM UsersWordStands == Spec => []UserWordStands
  <1>1. LearnInv => UserWordStands
    BY DEF LearnInv, ClaimInv, WordIsNewest, UserWordStands, Newest
  <1>2. QED
    BY <1>1, MemoryIsKept, PTL

\* "Equal-authority contradictions are quarantined rather than silently choosing one
\* side" (_promote_candidate): what met a contradiction is not confirmed by any agent,
\* as long as its promotion is not cut short or run twice.
THEOREM ContradictionsAreNotSettled == Spec => []ContradictionIsNotSettled
  <1>1. LearnInv /\ DisputeInv => ContradictionIsNotSettled
    BY FoundRows DEF LearnInv, DisputeInv, RowsAreFair, Fair, ContradictionIsNotSettled, State
  <1>2. LearnInv /\ DisputeInv /\ [Next]_vars => LearnInv' /\ DisputeInv'
    BY Inductive, InductiveFair
  <1>3. QED
    BY <1>1, <1>2, Started, StartedFair, PTL DEF Spec
=============================================================================
