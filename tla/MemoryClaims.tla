---------------------------- MODULE MemoryClaims ----------------------------
(***************************************************************************)
(* What the agent remembers (memory/store.py, mutations.py, capture.py,    *)
(* consolidate.py): a table of claims in SQLite that users, tools and      *)
(* background workers of several processes change.  An operation reads     *)
(* once, decides, and then writes row by row, each write a transaction of  *)
(* its own; what it read may be stale by then, and it may stop between any *)
(* two of its writes.  A unique index keeps rows of the same content and   *)
(* the same state apart: a write that would make two raises.               *)
(*                                                                         *)
(* All rows are of one scope, for neither claims nor the index cross it.   *)
(* MemoryLearning adds the jobs that promote what a turn has shown.        *)
(***************************************************************************)
EXTENDS SequencesExt, Naturals

CONSTANTS
    Content,        \* what can be remembered
    Claim, ClaimOf, \* the claim a content is a value of (_claim_key)
    Near,           \* pairs of contents with nearly the same words
    Protected,      \* contents of the kinds that are not forgotten when idle
    Said,           \* contents that users and the assistant ask to remember
    Query,          \* the claims that the texts of recalls are about
    Agent,          \* threads that change the table
    Turn,           \* the captured turns
    MaxRecords,     \* bound on the records made
    NoWord

ASSUME ClaimAssumption ==
    /\ \A c \in Content : ClaimOf[c] \in Claim /\ NoWord \notin Content
    /\ Near \subseteq Content \X Content /\ Protected \subseteq Content /\ Said \subseteq Content
    /\ Query \subseteq SUBSET Claim
    /\ MaxRecords \in Nat /\ "explicit" \notin Turn

VARIABLES
    memories,       \* the rows, by the order their records were made in
    made,           \* how many records were made
    shown,          \* what the latest recall of the session selected
    op,             \* what each agent is doing
    word            \* history: what the user asked last to remember of each claim

claimVars == <<memories, made, shown, op, word>>

Id == 1..MaxRecords

State == {"confirmed", "candidate", "superseded", "retracted", "quarantined", "expired"}
Role  == {"user", "assistant", "verifier"}
Row   == [content : Content, claim : Claim, state : State, role : Role,
          turn : Turn \cup {"explicit"}]
NoRow == [state |-> "absent"]

Doing == {"idle", "raised", "remember", "guess", "forget", "dispute", "evidence", "inference",
          "candidates", "unused", "collapse", "twins", "age"}

\* The writes: the state of a row, a record after a look for its like, a record,
\* and a record in place of a row.
SetTo(i, state)  == [do |-> "set", id |-> i, state |-> state]
Seek(i, row)     == [do |-> "seek", id |-> i, row |-> row]
Add(i, row)      == [do |-> "add", id |-> i, row |-> row]
Swap(old, i, row) == [do |-> "swap", id |-> i, row |-> row, old |-> old]

Step ==
    [do : {"set"}, id : Id, state : State] \cup [do : {"seek", "add"}, id : Id, row : Row]
        \cup [do : {"swap"}, id : Id, row : Row, old : Id]

MemoryTypeOK ==
    /\ memories \in [Id -> Row \cup {NoRow}]
    /\ made \in 0..MaxRecords
    /\ shown \subseteq Id
    /\ op \in [Agent -> [doing : Doing, plan : Seq(Step), stale : SUBSET Claim]]
    /\ word \in [Claim -> Content \cup {NoWord}]

Rest == [doing |-> "idle", plan |-> <<>>, stale |-> {}]

ClaimInit ==
    /\ memories = [i \in Id |-> NoRow] /\ made = 0
    /\ shown = {} /\ op = [a \in Agent |-> Rest]
    /\ word = [k \in Claim |-> NoWord]

In(state) == {i \in Id : memories[i].state = state}

\* The newest of ids, if there is any.
Newest(ids) == {i \in ids : \A j \in ids : j <= i}

\* active_claims
Active(k) == {i \in In("confirmed") : memories[i].claim = k}

\* find_memories finds only rows of these states.
Findable == In("confirmed") \cup In("candidate")

Free(a) == op[a].plan = <<>> /\ op[a].doing \in {"idle", "raised"}

-----------------------------------------------------------------------------
\* Writing

\* idx_memories_dedupe
Unique(m) ==
    \A i, j \in Id :
        (m[i].state = m[j].state /\ m[i] # NoRow /\ m[i].content = m[j].content) => i = j

Written(m, s) ==
    CASE s.do = "set"  -> [m EXCEPT ![s.id].state = s.state]
      [] s.do = "add"  -> [m EXCEPT ![s.id] = s.row]
      [] s.do = "swap" -> [m EXCEPT ![s.id] = s.row, ![s.old].state = "superseded"]

ClaimIn(s) == IF s.do = "set" THEN memories[s.id].claim ELSE s.row.claim

\* A look for a row like s.row, which is taken for it.
Exists(s) ==
    s.do = "seek"
        /\ \E i \in Id : memories[i] # NoRow /\ memories[i].content = s.row.content
                            /\ memories[i].state = s.row.state

Done(doing) == IF doing \in {"candidates", "collapse", "twins"} THEN doing ELSE "idle"

Onward(a, plan) ==
    IF plan = <<>> /\ Done(op[a].doing) = "idle" THEN Rest ELSE [op[a] EXCEPT !.plan = plan]

\* What a write leaves of the word of its claim. It is what the user says, and gone
\* when the user denies it, when a turn shows another word of the user, and by an
\* assistant's guess, a near duplicate, disuse, or a write decided on a table that was
\* another one; a verifier and a collapse must leave it.
WordAfter(a, s) ==
    IF ClaimIn(s) \in op[a].stale THEN NoWord
    ELSE IF op[a].doing = "remember" /\ s.do # "set" THEN s.row.content
    ELSE IF op[a].doing \in {"forget", "dispute", "evidence", "guess", "twins", "unused"}
    THEN NoWord
    ELSE word[ClaimIn(s)]

\* What the user said of a claim once more. The row that is there is left as it is, its
\* date and its role as well: the word stands as far as the row does by itself, that is,
\* if it is the newest value of the claim and the user's.
WordSaidAgain(k, c) ==
    [word EXCEPT ![k] =
        IF \E i \in Newest(Active(k)) : memories[i].content = c /\ memories[i].role = "user"
        THEN c ELSE NoWord]

\* insert_memory looks before it inserts, in two transactions.
Look(a) ==
    /\ op[a].plan # <<>> /\ Head(op[a].plan).do = "seek"
    /\ LET s == Head(op[a].plan) IN
       /\ op' = [op EXCEPT ![a] =
              Onward(a, (IF Exists(s) THEN <<>> ELSE <<Add(s.id, s.row)>>) \o Tail(op[a].plan))]
       /\ word' = IF Exists(s) /\ op[a].doing = "remember"
                  THEN WordSaidAgain(s.row.claim, s.row.content) ELSE word
    /\ UNCHANGED <<memories, made, shown>>

\* insert_memory, update_state and supersede: the write is committed.
Write(a) ==
    /\ op[a].plan # <<>> /\ Head(op[a].plan).do # "seek"
    /\ LET s == Head(op[a].plan)
           k == ClaimIn(s)
       IN
       /\ Unique(Written(memories, s))
       /\ memories' = Written(memories, s)
       /\ op' = [b \in Agent |-> IF b = a THEN Onward(a, Tail(op[a].plan))
                                 ELSE IF op[b].plan = <<>> THEN op[b]
                                 ELSE [op[b] EXCEPT !.stale = @ \cup {k}]]
       /\ word' = [word EXCEPT ![k] = WordAfter(a, s)]
    /\ UNCHANGED <<made, shown>>

\* ... or the index refuses it: IntegrityError, and the operation is over.
Raise(a) ==
    /\ op[a].plan # <<>> /\ Head(op[a].plan).do # "seek"
    /\ ~Unique(Written(memories, Head(op[a].plan)))
    /\ op' = [op EXCEPT ![a] =
                 [Rest EXCEPT !.doing = IF op[a].doing \in {"evidence", "inference"}
                                        THEN "raised" ELSE "idle"]]
    /\ UNCHANGED <<memories, made, shown, word>>

Decide(a, doing, plan) ==
    op' = [op EXCEPT ![a] = IF plan = <<>> /\ Done(doing) = "idle" THEN Rest
                            ELSE [doing |-> doing, plan |-> plan, stale |-> {}]]

\* An operation that makes a record.
Record(plan) ==
    LET n == IF \E m \in DOMAIN plan : plan[m].do \in {"seek", "swap"} THEN 1 ELSE 0 IN
    made + n <= MaxRecords /\ made' = made + n

NewRow(c, k, state, role, t) ==
    [content |-> c, claim |-> k, state |-> state, role |-> role, turn |-> t]

SetAll(ids, state) == {[n \in DOMAIN p |-> SetTo(p[n], state)] : p \in SetToSeqs(ids)}

-----------------------------------------------------------------------------
\* mutate, and the corrections the user makes in passing

\* remember: the newest value of the claim, if all are different, is replaced. What the
\* assistant says by itself is a candidate, and replaces a value as well.
Remember(a, c, role) ==
    LET k   == ClaimOf[c]
        row == NewRow(c, k, IF role = "user" THEN "confirmed" ELSE "candidate", role, "explicit")
        plans == IF Active(k) # {} /\ \A i \in Active(k) : memories[i].content # c
                 THEN {<<Swap(i, made + 1, row)>> : i \in Newest(Active(k))}
                 ELSE {<<Seek(made + 1, row)>>}
    IN
    /\ Free(a)
    /\ \E plan \in plans :
          Record(plan) /\ Decide(a, IF role = "user" THEN "remember" ELSE "guess", plan)
    /\ UNCHANGED <<memories, shown, word>>

\* correct: one row is replaced, under its own claim.
Correct(a, i, c) ==
    LET plan == <<Swap(i, made + 1,
                       NewRow(c, memories[i].claim, "confirmed", "user", "explicit"))>>
    IN
    /\ Free(a) /\ i \in Findable /\ memories[i].content # c
    /\ Record(plan) /\ Decide(a, "remember", plan)
    /\ UNCHANGED <<memories, shown, word>>

\* ... a correction to the same words is rejected, and the row is left as it is.
CorrectAsIs(a, i) ==
    /\ Free(a) /\ i \in Findable /\ memories[i].content \in Said
    /\ word' = WordSaidAgain(memories[i].claim, memories[i].content)
    /\ UNCHANGED <<memories, made, shown, op>>

Forget(a, i) ==
    /\ Free(a) /\ i \in Findable
    /\ Decide(a, "forget", <<SetTo(i, "retracted")>>)
    /\ UNCHANGED <<memories, made, shown, word>>

\* recall, of the claims a query is about: a claim with two values is left out.
Recall(ks) ==
    /\ shown' = UNION {Active(k) : k \in {j \in ks : Cardinality(Active(j)) = 1}}
    /\ shown' # shown
    /\ UNCHANGED <<memories, made, op, word>>

\* apply_natural_correction: "that is wrong". One recalled row is forgotten, if it can
\* still be found; several are quarantined, whatever has become of them.
Dispute(a) ==
    /\ Free(a) /\ shown # {}
    /\ IF Cardinality(shown) = 1
       THEN shown \subseteq Findable /\ \E p \in SetAll(shown, "retracted") : Decide(a, "forget", p)
       ELSE \E p \in SetAll(shown, "quarantined") : Decide(a, "dispute", p)
    /\ UNCHANGED <<memories, made, shown, word>>

-----------------------------------------------------------------------------
\* _promote_candidate

\* Mutated form: what a verifier found is worth as much as what the user said.
UserStandsNever(ids) == FALSE

UserStands(ids) == \E i \in ids : memories[i].role = "user"

\* The evidence e contradicts a claim of equal authority.
Contradicts(e) ==
    LET old == Active(ClaimOf[e.content]) IN
    /\ old # {} /\ e.firm /\ \A i \in old : memories[i].content # e.content
    /\ (e.role = "user") = UserStands(old)

\* Mutated form: the old side is quarantined, and the new one confirmed.
NewStateSided(e, old) ==
    IF ~e.firm THEN "candidate"
    ELSE IF e.role = "user" \/ ~UserStands(old) THEN "confirmed" ELSE "quarantined"

\* The state of the new record: the first value, or the user's over another's, is
\* confirmed if the evidence is firm.
NewState(e, old) ==
    IF ~e.firm THEN "candidate"
    ELSE IF old = {} \/ (e.role = "user" /\ ~UserStands(old)) THEN "confirmed" ELSE "quarantined"

\* What is decided about evidence e: a duplicate is left; the user's word replaces
\* values the user did not give; of two sides of equal authority neither stays; a
\* verifier does not contradict the user.
Promotion(e, t) ==
    LET k   == ClaimOf[e.content]
        old == Active(k)
        row == NewRow(e.content, k, NewState(e, old), e.role, t)
        new == <<Seek(made + 1, row)>>
    IN
    IF \E i \in old : memories[i].content = e.content THEN {<<>>}
    ELSE IF old # {} /\ e.firm /\ e.role = "user" /\ ~UserStands(old)
    THEN UNION {{<<Swap(i, made + 1, row)>> \o p : p \in SetAll(old \ {i}, "superseded")} :
                    i \in Newest(old)}
    ELSE IF old # {} /\ e.firm /\ (e.role = "user") = UserStands(old)
    THEN {p \o new : p \in SetAll(old, "quarantined")}
    ELSE {new}

Promote(a, e, t) ==
    \E plan \in Promotion(e, t) :
        /\ Record(plan)
        /\ Decide(a, IF e.role = "user" THEN "evidence" ELSE "inference", plan)
        /\ UNCHANGED <<memories, shown, word>>

-----------------------------------------------------------------------------
\* prune_idle and consolidate_store: each part reads anew and then writes row by row

Sweeping(a, doing) == op[a].doing = doing /\ op[a].plan = <<>>

Sweep(a, doing, ids, state) ==
    /\ \E p \in SetAll(ids, state) : Decide(a, doing, p)
    /\ UNCHANGED <<memories, made, shown, word>>

PruneCandidates(a) == Free(a) /\ \E old \in SUBSET In("candidate") : Sweep(a, "candidates", old, "expired")

PruneUnused(a) ==
    /\ Sweeping(a, "candidates")
    /\ \E old \in SUBSET {i \in In("confirmed") : memories[i].content \notin Protected} :
          Sweep(a, "unused", old, "expired")

\* The newest value of a claim is kept.
Collapse(a) ==
    /\ Free(a)
    /\ Sweep(a, "collapse",
             UNION {Active(k) \ Newest(Active(k)) : k \in {j \in Claim : Cardinality(Active(j)) > 1}},
             "superseded")

Alike(i, j) ==
    <<memories[i].content, memories[j].content>> \in Near
        \/ <<memories[j].content, memories[i].content>> \in Near

\* Of near duplicates the newest is kept: a row goes if it is like a kept one.
Keeps(kept) ==
    \A i \in In("confirmed") : i \notin kept <=> \E j \in kept : j > i /\ Alike(i, j)

DropTwins(a) ==
    /\ Sweeping(a, "collapse")
    /\ \E kept \in SUBSET In("confirmed") :
          Keeps(kept) /\ Sweep(a, "twins", In("confirmed") \ kept, "superseded")

AgeQuarantine(a) ==
    /\ Sweeping(a, "twins")
    /\ \E old \in SUBSET In("quarantined") : Sweep(a, "age", old, "expired")

-----------------------------------------------------------------------------

WriteStep(a) == Look(a) \/ Write(a) \/ Raise(a)

SweepStep(a) ==
    PruneCandidates(a) \/ PruneUnused(a) \/ Collapse(a) \/ DropTwins(a) \/ AgeQuarantine(a)

UserStep(a) ==
    \/ \E c \in Said, role \in {"user", "assistant"} : Remember(a, c, role)
    \/ \E i \in Id : Forget(a, i) \/ CorrectAsIs(a, i) \/ \E c \in Said : Correct(a, i, c)
    \/ Dispute(a)

-----------------------------------------------------------------------------

\* What the user asked last to remember of a claim, said once more or corrected to the
\* same words as well, and has not taken back, is confirmed: no finding of a verifier and
\* no consolidation displaces it, through promotions that stop half way, quarantine and
\* retries. The exceptions are those of WordAfter and WordSaidAgain: a write decided on
\* another table, and a repetition, which renews nothing, of a value that another
\* confirmed one is newer than or that a verifier gave.
UserWordStands ==
    \A k \in Claim : word[k] # NoWord =>
        \E i \in Active(k) : memories[i].content = word[k]
=============================================================================
