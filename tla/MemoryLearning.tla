--------------------------- MODULE MemoryLearning ---------------------------
(***************************************************************************)
(* Learning from turns (memory/capture.py, service.py and the jobs of      *)
(* store.py): a turn that ended is captured as an episode and a job, and   *)
(* workers, threads of whatever processes have the memory open, take the   *)
(* jobs and promote what their turns have shown.  A worker is a daemon     *)
(* thread: it dies with its process between any two transactions.  Whoever *)
(* opens the memory puts jobs that have been processing for five minutes   *)
(* back, the job of a worker that is merely slow among them.               *)
(***************************************************************************)
EXTENDS MemoryClaims

CONSTANTS
    User, Worker,    \* the agents: those who are asked, and the workers
    Evidence,        \* what each turn shows, in order (_extract_candidates)
    Verified,        \* turns that were a verified success
    Attempts,        \* how often a job is tried (the code's 3)
    MaxDeaths,       \* bound on the deaths of workers
    NoTurn

ASSUME LearningAssumption ==
    /\ Agent = User \cup Worker /\ User \cap Worker = {} /\ NoTurn \notin Turn
    /\ Verified \subseteq Turn /\ Attempts \in Nat \ {0} /\ MaxDeaths \in Nat
    /\ Evidence \in [Turn -> Seq([content : Content, role : Role, firm : BOOLEAN])]
    \* each content once, for extraction drops what it has seen
    /\ \A t \in Turn : \A m, n \in DOMAIN Evidence[t] :
           Evidence[t][m].content = Evidence[t][n].content => m = n

VARIABLES
    queue,           \* the captured turns, oldest first
    job,             \* memory_jobs: the status and attempts of each
    work,            \* the job each worker has, and what is left of it
    deaths,
    disputed         \* history: evidence that met a contradiction

learnVars == <<queue, job, work, deaths, disputed>>
vars      == <<memories, made, shown, op, word, queue, job, work, deaths, disputed>>

NoWork == [turn |-> NoTurn, attempts |-> 0, left |-> <<>>]

Init ==
    /\ ClaimInit
    /\ queue = <<>>
    /\ job = [t \in Turn |-> [status |-> "none", attempts |-> 0]]
    /\ work = [w \in Worker |-> NoWork]
    /\ deaths = 0 /\ disputed = {}

Has(w) == work[w].turn # NoTurn

Holders(t) == {w \in Worker : work[w].turn = t}

-----------------------------------------------------------------------------

\* capture_turn: the episode and its job, in one transaction, once.
Capture(t) ==
    /\ job[t].status = "none"
    /\ queue' = Append(queue, t) /\ job' = [job EXCEPT ![t].status = "pending"]
    /\ UNCHANGED <<claimVars, work, deaths, disputed>>

Pending == {n \in DOMAIN queue : job[queue[n]].status = "pending"}

\* Attempts are counted as far as they matter.
Counted(n) == IF n < Attempts THEN n + 1 ELSE n

\* claim_job
Take(w) ==
    /\ ~Has(w) /\ Free(w)
    /\ \E first \in Pending : \E t \in Turn :
       LET n == Counted(job[t].attempts) IN
       /\ t = queue[first] /\ \A m \in Pending : first <= m
       /\ job' = [job EXCEPT ![t] = [status |-> "processing", attempts |-> n]]
       /\ work' = [work EXCEPT ![w] =
              [turn |-> t, attempts |-> n, left |-> IF t \in Verified THEN Evidence[t] ELSE <<>>]]
       /\ op' = [op EXCEPT ![w] = Rest]
    /\ UNCHANGED <<memories, made, shown, word, queue, deaths, disputed>>

\* _process_capture, the next piece of evidence.
Learn(w) ==
    /\ Has(w) /\ op[w] = Rest /\ work[w].left # <<>>
    /\ LET e == Head(work[w].left)
           t == work[w].turn
       IN
       /\ Promote(w, e, t)
       /\ disputed' = IF Contradicts(e) /\ Holders(t) = {w} /\ job[t].status = "processing"
                      THEN disputed \cup {<<t, e.content>>} ELSE disputed
    /\ work' = [work EXCEPT ![w].left = Tail(@)]
    /\ UNCHANGED <<queue, job, deaths>>

Released(w, status) ==
    /\ job' = [job EXCEPT ![work[w].turn].status = status]
    /\ work' = [work EXCEPT ![w] = NoWork]
    /\ op' = [op EXCEPT ![w] = Rest]
    /\ UNCHANGED <<memories, made, shown, word, queue, deaths>>

\* The promotion of turn t was cut short, or is done twice.
CutShort(ts) == disputed' = {d \in disputed : d[1] \notin ts}

\* Mutated form: the job is done before what it shows is learned.
FinishEarly(w) ==
    /\ Has(w) /\ op[w] = Rest
    /\ job' = [job EXCEPT ![work[w].turn].status = "done"]
    /\ work' = IF work[w].left = <<>> THEN [work EXCEPT ![w] = NoWork] ELSE work
    /\ UNCHANGED <<claimVars, queue, deaths, disputed>>

\* finish_job, whatever has become of the job.
Finish(w) ==
    /\ Has(w) /\ op[w] = Rest /\ work[w].left = <<>>
    /\ Released(w, "done") /\ UNCHANGED disputed

\* fail_job, whatever has become of the job: put back, until the third attempt.
Fail(w) ==
    /\ Has(w) /\ op[w].doing = "raised"
    /\ Released(w, IF work[w].attempts >= Attempts THEN "failed" ELSE "pending")
    /\ CutShort({work[w].turn})

\* recover_jobs, when the memory is opened: jobs that have been processing for long.
Recover ==
    \E ts \in (SUBSET {t \in Turn : job[t].status = "processing"}) \ {{}} :
        /\ job' = [t \in Turn |-> IF t \in ts THEN [job[t] EXCEPT !.status = "pending"] ELSE job[t]]
        /\ CutShort(ts)
        /\ UNCHANGED <<claimVars, queue, work, deaths>>

\* The process of a worker ends: its job stays as it is.
Die(w) ==
    /\ deaths < MaxDeaths /\ (Has(w) \/ op[w] # Rest)
    /\ deaths' = deaths + 1
    /\ CutShort({work[w].turn})
    /\ work' = [work EXCEPT ![w] = NoWork] /\ op' = [op EXCEPT ![w] = Rest]
    /\ UNCHANGED <<memories, made, shown, word, queue, job>>

WorkStep(w) == Take(w) \/ Learn(w) \/ Finish(w) \/ Fail(w) \/ (WriteStep(w) /\ UNCHANGED learnVars)

\* A worker sweeps when there is no job.
Sweepers == {w \in Worker : ~Has(w) /\ (Pending = {} \/ op[w] # Rest)}

Next ==
    \/ \E t \in Turn : Capture(t)
    \/ \E w \in Worker : WorkStep(w) \/ Die(w)
    \/ Recover
    \/ \E u \in User : (WriteStep(u) \/ UserStep(u)) /\ UNCHANGED learnVars
    \/ \E a \in Sweepers : SweepStep(a) /\ UNCHANGED learnVars
    \/ \E ks \in Query : Recall(ks) /\ UNCHANGED learnVars

Spec == Init /\ [][Next]_vars

-----------------------------------------------------------------------------

\* A job is done only when everything its turn has shown is in the table, whoever
\* processed it, however often, and whatever died in between.
DoneIsLearned ==
    \A t \in Verified : job[t].status = "done" =>
        \A n \in DOMAIN Evidence[t] :
            \E i \in Id : memories[i] # NoRow /\ memories[i].content = Evidence[t][n].content

\* "Equal-authority contradictions are quarantined rather than silently choosing one
\* side" (_promote_candidate): evidence that met a contradiction is not confirmed, but
\* for a promotion that was cut short or run twice: the next one finds no contradiction.
ContradictionIsNotSettled ==
    \A i \in In("confirmed") : <<memories[i].turn, memories[i].content>> \notin disputed
=============================================================================
