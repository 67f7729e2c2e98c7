----------------------------- MODULE AsyncJobs -----------------------------
(***************************************************************************)
(* One background job (project/async_jobs.py, project/job_worker.py): the  *)
(* server that enqueues it, the detached worker that runs it, and requests *)
(* to cancel it share nothing but the job's JSON file.  Each of them loads *)
(* the whole record, changes its copy and writes the copy back:            *)
(* save_job opens the file, which empties it, and then writes.  There is   *)
(* no lock, so a write may undo what another process wrote since the load, *)
(* a load may find an empty file, and two writes at once may leave text    *)
(* that is no JSON.  A cancellation signals the worker with SIGTERM, which *)
(* nothing handles: the process is gone between any two of its steps.      *)
(***************************************************************************)
EXTENDS Naturals, FiniteSets

CONSTANTS
    Canceller,      \* requests of jobs/cancel
    Crashes         \* whether the server or the worker may die by itself

ASSUME JobAssumption == Crashes \in BOOLEAN

Client == "client"
Worker == "worker"
Process == {Client, Worker} \cup Canceller

ASSUME ProcessAssumption == Client \notin Canceller /\ Worker \notin Canceller

Active == {"queued", "running"}
Terminal == {"success", "error", "cancelled"}
Status == Active \cup Terminal \cup {"awaiting", "stopped"}
Record == [status: Status, cancel: BOOLEAN, pid: BOOLEAN, turn: BOOLEAN]

VARIABLES
    file,       \* a record, or what a save leaves while and after it goes wrong
    pc, copy,   \* where a process is, and the record it loaded and changed
    opened,     \* processes between the open and the write of a save
    clobbered,  \* those of them behind whose back another one wrote
    turn,       \* the durable turn of the worker
    marker,     \* the status in the .done file
    \* history
    fresh,      \* processes whose copy comes from what is in the file
    lost,       \* a write has undone another
    blind,      \* a load found no record
    crashed,    \* the server or the worker died by itself
    killed,     \* the worker was signalled
    asked       \* a cancellation was written

ends == <<crashed, killed>>
jobVars == <<file, pc, copy, opened, clobbered, turn, marker,
             fresh, lost, blind, ends, asked>>

NoFile == [text |-> "none"]
Empty == [text |-> "empty"]
Garbage == [text |-> "no JSON"]

NewJob == [status |-> "queued", cancel |-> FALSE, pid |-> FALSE, turn |-> FALSE]

JobInit ==
    /\ file = NoFile
    /\ pc = [p \in Process |-> CASE p = Client -> "enqueue" [] p = Worker -> "absent"
                                 [] OTHER -> "cancel"]
    /\ copy = [p \in Process |-> NewJob]
    /\ opened = {} /\ clobbered = {} /\ turn = "none" /\ marker = "none"
    /\ fresh = {Client} /\ lost = FALSE /\ blind = FALSE
    /\ crashed = FALSE /\ killed = FALSE /\ asked = FALSE

Place == {"enqueue", "start", "queue", "spawn", "bind", "bound", "absent", "boot", "load", "run",
          "submit", "attach", "await", "report", "finish", "notify", "cancel", "request",
          "signal", "gone"}

JobTypeOK ==
    /\ file \in Record \cup {NoFile, Empty, Garbage}
    /\ pc \in [Process -> Place] /\ copy \in [Process -> Record]
    /\ opened \subseteq Process /\ clobbered \subseteq opened
    /\ turn \in {"none", "live", "success", "awaiting", "stopped", "cancelled", "raised"}
    /\ marker \in Status \cup {"none"}
    /\ fresh \subseteq Process /\ crashed \in BOOLEAN /\ killed \in BOOLEAN
    /\ lost \in BOOLEAN /\ blind \in BOOLEAN /\ asked \in BOOLEAN
    /\ opened = {p \in Process : p \in opened /\ pc[p] # "gone"}

-----------------------------------------------------------------------------
\* The file

Readable == file \in Record

\* load_job: p goes on with r at place next.
Goes(p, r, next) == copy' = [copy EXCEPT ![p] = r] /\ pc' = [pc EXCEPT ![p] = next]

\* p has loaded the file: its copy is up to date, unless there was no record.
Loads(p) ==
    /\ fresh' = IF Readable THEN fresh \cup {p} ELSE fresh
    /\ blind' = (blind \/ ~Readable)

\* `load_job(job_id) or current`
Reloaded(p) == IF Readable THEN file ELSE copy[p]

Elsewhere == UNCHANGED <<file, opened, clobbered, turn, marker, lost, ends, asked>>

\* save_job, the open: the file is emptied.
Open(p) ==
    /\ p \notin opened
    /\ file' = Empty /\ opened' = opened \cup {p} /\ clobbered' = clobbered \ {p}
    /\ UNCHANGED <<pc, copy, turn, marker, fresh, lost, blind, ends, asked>>

\* save_job, the write: over a record written meanwhile that is longer, the rest of
\* that record stays.
Write(p, next) ==
    /\ p \in opened
    /\ file' \in {copy[p]} \cup (IF p \in clobbered THEN {Garbage} ELSE {})
    /\ opened' = opened \ {p} /\ clobbered' = (clobbered \cup opened) \ {p}
    /\ fresh' = {p} /\ lost' = (lost \/ p \notin fresh)
    /\ asked' = (asked \/ copy[p].cancel)
    /\ pc' = [pc EXCEPT ![p] = next]
    /\ UNCHANGED <<copy, turn, marker, blind, ends>>

\* One after the other.
Save(p, next) == Open(p) \/ Write(p, next)

-----------------------------------------------------------------------------
\* enqueue_job and start_job, in the server

Enqueue == pc[Client] = "enqueue" /\ Save(Client, "start")

Start ==
    /\ pc[Client] = "start" /\ Loads(Client) /\ Elsewhere
    /\ IF Readable /\ file.status \notin {"running", "cancelled"} /\ ~file.cancel
       THEN Goes(Client, [file EXCEPT !.status = "queued"], "queue")
       ELSE Goes(Client, copy[Client], "gone")

Queue == pc[Client] = "queue" /\ Save(Client, "spawn")

\* Popen: the worker runs from here on.
Spawn ==
    /\ pc[Client] = "spawn"
    /\ pc' = [pc EXCEPT ![Client] = "bind", ![Worker] = "boot"]
    /\ UNCHANGED <<file, copy, opened, clobbered, turn, marker, fresh, lost, blind, ends, asked>>

\* Mutated form: the job is queued after its worker was started.
BindQueued ==
    /\ pc[Client] = "bind" /\ Loads(Client) /\ Elsewhere
    /\ Goes(Client, [Reloaded(Client) EXCEPT !.pid = TRUE, !.status = "queued"], "bound")

\* The pid of the worker is loaded into, and saved with, what the file holds now.
Bind ==
    /\ pc[Client] = "bind" /\ Loads(Client) /\ Elsewhere
    /\ Goes(Client, [Reloaded(Client) EXCEPT !.pid = TRUE], "bound")

Bound == pc[Client] = "bound" /\ Save(Client, "gone")

-----------------------------------------------------------------------------
\* job_worker.main and run_job_inline

Cancelled(r) == r.status = "cancelled" \/ r.cancel

Boot ==
    /\ pc[Worker] = "boot" /\ Loads(Worker) /\ Elsewhere
    /\ Goes(Worker, copy[Worker], IF Readable /\ ~Cancelled(file) THEN "load" ELSE "gone")

Load ==
    /\ pc[Worker] = "load" /\ Loads(Worker) /\ Elsewhere
    /\ IF ~Readable THEN Goes(Worker, copy[Worker], "gone")
       ELSE IF Cancelled(file) THEN Goes(Worker, [file EXCEPT !.status = "cancelled"], "finish")
       ELSE Goes(Worker, [file EXCEPT !.status = "running", !.pid = TRUE], "run")

Run == pc[Worker] = "run" /\ Save(Worker, "submit")

\* Mutated form: the record is not bound to the turn before that has ended.
SubmitUnbound ==
    /\ pc[Worker] = "submit" /\ Loads(Worker) /\ turn' = "live"
    /\ Goes(Worker, [Reloaded(Worker) EXCEPT !.status = "running", !.pid = TRUE], "attach")
    /\ UNCHANGED <<file, opened, clobbered, marker, lost, ends, asked>>

\* The turn is accepted, and the record bound to it.
Submit ==
    /\ pc[Worker] = "submit" /\ Loads(Worker) /\ turn' = "live"
    /\ Goes(Worker, [Reloaded(Worker) EXCEPT !.status = "running", !.pid = TRUE, !.turn = TRUE],
            "attach")
    /\ UNCHANGED <<file, opened, clobbered, marker, lost, ends, asked>>

\* The submission is refused.
SubmitRaises ==
    /\ pc[Worker] = "submit" /\ turn' = "raised" /\ pc' = [pc EXCEPT ![Worker] = "report"]
    /\ UNCHANGED <<file, copy, opened, clobbered, marker, fresh, lost, blind, ends, asked>>

Attach == pc[Worker] = "attach" /\ Save(Worker, "await")

\* The turn ends; a cancellation that was seen when it was submitted cancels it.
Await ==
    /\ pc[Worker] = "await" /\ pc' = [pc EXCEPT ![Worker] = "report"]
    /\ turn' \in {"success", "awaiting", "stopped", "raised"}
                     \cup (IF copy[Worker].cancel THEN {"cancelled"} ELSE {})
    /\ UNCHANGED <<file, copy, opened, clobbered, marker, fresh, lost, blind, ends, asked>>

\* Mutated form: a turn that raised is reported as such.
VerdictRaw(r) ==
    IF r.cancel \/ (r.status = "cancelled" /\ turn # "raised") THEN "cancelled" ELSE turn

\* Mutated form: a turn that did not raise was a success.
VerdictByReturn(r) ==
    IF r.cancel \/ r.status = "cancelled" THEN "cancelled"
    ELSE IF turn = "raised" THEN "error" ELSE "success"

\* Mutated form: the status alone says that a cancellation came.
VerdictByStatus(r) ==
    IF r.status = "cancelled" THEN "cancelled" ELSE IF turn = "raised" THEN "error" ELSE turn

\* The status for a turn that ended so; one that raised is cancelled by the flag alone.
Verdict(r) ==
    IF r.cancel \/ (r.status = "cancelled" /\ turn # "raised") THEN "cancelled"
    ELSE IF turn = "raised" THEN "error" ELSE turn

Report ==
    /\ pc[Worker] = "report" /\ Loads(Worker) /\ Elsewhere
    /\ LET r == Reloaded(Worker) IN
       Goes(Worker, [r EXCEPT !.status = Verdict(r)], "finish")

Finish == pc[Worker] = "finish" /\ Save(Worker, "notify")

\* _notify, after the record was saved
Notify(p) ==
    /\ pc[p] = "notify" /\ marker' = copy[p].status /\ pc' = [pc EXCEPT ![p] = "gone"]
    /\ UNCHANGED <<file, copy, opened, clobbered, turn, fresh, lost, blind, ends, asked>>

-----------------------------------------------------------------------------
\* cancel_job

RequestCancel(k) ==
    /\ pc[k] = "cancel" /\ file # NoFile /\ Loads(k) /\ Elsewhere
    /\ IF ~Readable \/ file.status \in Terminal THEN Goes(k, copy[k], "gone")
       ELSE Goes(k, [file EXCEPT !.cancel = TRUE,
                                 !.status = IF @ \in Active THEN "cancelled" ELSE @], "request")

Requested(k) == pc[k] = "request" /\ Save(k, "signal")

\* SIGTERM to the pid of the record, whatever its worker is doing.
Signal(k) ==
    /\ pc[k] = "signal"
    /\ LET hit == copy[k].pid /\ pc[Worker] \notin {"absent", "gone"} IN
       /\ pc' = [p \in Process |-> IF p = k THEN "notify"
                                   ELSE IF p = Worker /\ hit THEN "gone" ELSE pc[p]]
       /\ killed' = (killed \/ hit)
       /\ opened' = IF hit THEN opened \ {Worker} ELSE opened
       /\ clobbered' = IF hit THEN clobbered \ {Worker} ELSE clobbered
    /\ UNCHANGED <<file, copy, turn, marker, fresh, lost, blind, crashed, asked>>

-----------------------------------------------------------------------------

\* The server or the worker ends by itself.
Crash(p) ==
    /\ Crashes /\ pc[p] \notin {"absent", "gone"}
    /\ pc' = [pc EXCEPT ![p] = "gone"] /\ crashed' = TRUE
    /\ opened' = opened \ {p} /\ clobbered' = clobbered \ {p}
    /\ UNCHANGED <<file, copy, turn, marker, fresh, lost, blind, killed, asked>>

ClientNext == Enqueue \/ Start \/ Queue \/ Spawn \/ Bind \/ Bound

WorkerNext ==
    \/ Boot \/ Load \/ Run \/ Submit \/ SubmitRaises \/ Attach \/ Await \/ Report
    \/ Finish \/ Notify(Worker)

CancelNext == \E k \in Canceller : RequestCancel(k) \/ Requested(k) \/ Signal(k) \/ Notify(k)

Next == ClientNext \/ WorkerNext \/ CancelNext \/ \E p \in {Client, Worker} : Crash(p)

Spec == JobInit /\ [][Next]_jobVars

-----------------------------------------------------------------------------

\* Nobody is doing anything any more.
Quiet == \A p \in Process : pc[p] \in {"gone", "absent", "cancel"}

\* Whatever is lost or overwritten, a job is shown, or announced, as a success only
\* if its turn was one, and announced only when it is over or paused.
SuccessIsEarned ==
    /\ Readable /\ file.status = "success" => turn = "success"
    /\ marker = "success" => turn = "success"
    /\ marker \notin Active

\* The lost updates are the only way a cancellation is forgotten: without one, a job
\* whose cancellation was written says so, and is not a success.
CancelIsForgottenByRaceOnly ==
    ~lost /\ asked /\ Readable => file.cancel /\ file.status # "success"

\* ... and, with crashes and files caught half written, the only way a job is left
\* queued or running when nobody is at work on it, but for one that was signalled
\* after its worker wrote over its cancellation.
AbandonedByRaceOnly ==
    Quiet /\ ~lost /\ ~blind /\ ~crashed /\ Readable /\ file.status \in Active =>
        file.cancel /\ killed

\* While a turn runs under its worker, whoever asks for the job finds the turn.
AttachFindsTheTurn ==
    ~lost /\ Readable /\ pc[Worker] = "await" => file.turn /\ file.pid
=============================================================================
