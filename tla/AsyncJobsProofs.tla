--------------------------- MODULE AsyncJobsProofs ---------------------------
(***************************************************************************)
(* A background job, for any number of requests to cancel it, with and     *)
(* without crashes: its types, that a success is earned, and that only the *)
(* lost updates of its file make it forget a cancellation, hide its turn,  *)
(* or - with crashes and half-written files - leave it to nobody.          *)
(***************************************************************************)
EXTENDS AsyncJobs, TLAPS

-----------------------------------------------------------------------------
\* Types

ClientPlace == {"enqueue", "start", "queue", "spawn", "bind", "bound", "gone"}
WorkerPlace == {"absent", "boot", "load", "run", "submit", "attach", "await", "report",
                "finish", "notify", "gone"}
CancelPlace == {"cancel", "request", "signal", "notify", "gone"}

PlacesOK ==
    /\ pc[Client] \in ClientPlace /\ pc[Worker] \in WorkerPlace
    /\ \A k \in Canceller : pc[k] \in CancelPlace

\* The server starts the worker, and is then done but for its pid.
WorkerFollows == pc[Worker] # "absent" => pc[Client] \in {"bind", "bound", "gone"}

\* How far the turn of the worker is.
TurnFollows ==
    /\ pc[Worker] \in {"absent", "boot", "load", "run", "submit"} => turn = "none"
    /\ pc[Worker] \in {"attach", "await"} => turn = "live"
    /\ pc[Worker] = "report" => turn \in {"success", "awaiting", "stopped", "cancelled", "raised"}

LEMMA NotRecords == Empty \notin Record /\ Garbage \notin Record /\ NoFile \notin Record
  BY DEF Empty, Garbage, NoFile, Record

LEMMA Processes ==
    /\ Client \in Process /\ Worker \in Process /\ Client # Worker
    /\ \A k \in Canceller : k \in Process /\ k # Client /\ k # Worker
  BY ProcessAssumption DEF Process, Client, Worker

\* The places where a process saves its copy, and only there has the file open.
Saving == {"enqueue", "queue", "bound", "run", "attach", "finish", "request"}

OpenersSave == \A p \in opened : pc[p] \in Saving

TypeInv == JobTypeOK /\ PlacesOK /\ WorkerFollows /\ TurnFollows /\ OpenersSave

LEMMA InitType == JobInit => TypeInv
<1> SUFFICES ASSUME JobInit PROVE TypeInv
    OBVIOUS
<1>1. NewJob \in Record
    BY DEF NewJob, Record, Status, Active
<1>2. PlacesOK /\ pc \in [Process -> Place]
    BY Processes DEF JobInit, PlacesOK, ClientPlace, WorkerPlace, CancelPlace, Place
<1>3. JobTypeOK
    BY <1>1, <1>2, Processes DEF JobInit, JobTypeOK
<1>4. pc[Worker] = "absent"
    BY Processes DEF JobInit
<1> QED BY <1>2, <1>3, <1>4 DEF TypeInv, JobInit, WorkerFollows, TurnFollows, OpenersSave

\* A save opens the file or writes the copy.
LEMMA OpenType ==
    ASSUME TypeInv, NEW p \in Process, Open(p), pc[p] \in Saving
    PROVE  TypeInv'
<1>1. pc[p] # "gone"
    BY DEF Saving
<1>2. JobTypeOK'
    BY <1>1 DEF TypeInv, JobTypeOK, Open, ends
<1> QED BY <1>2 DEF TypeInv, PlacesOK, WorkerFollows, TurnFollows, OpenersSave, Open

LEMMA WriteType ==
    ASSUME TypeInv, NEW p \in Process, NEW next \in Place, Write(p, next)
    PROVE  JobTypeOK' /\ OpenersSave' /\ pc' = [pc EXCEPT ![p] = next] /\ UNCHANGED turn
<1>1. copy[p] \in Record
    BY DEF TypeInv, JobTypeOK
<1>2. file' \in Record \cup {NoFile, Empty, Garbage}
    BY <1>1 DEF Write
<1>3. lost' \in BOOLEAN /\ asked' \in BOOLEAN
    BY <1>1 DEF Write, TypeInv, JobTypeOK, Record
<1>4. pc' \in [Process -> Place] /\ opened' = opened \ {p} /\ \A q \in Process \ {p} : pc'[q] = pc[q]
    BY DEF Write, TypeInv, JobTypeOK
<1>5. opened' \subseteq Process /\ clobbered' \subseteq opened'
    BY DEF Write, TypeInv, JobTypeOK
<1>6. opened' = {q \in Process : q \in opened' /\ pc'[q] # "gone"}
    BY <1>4 DEF TypeInv, JobTypeOK
<1>7. OpenersSave'
    BY <1>4, <1>5 DEF TypeInv, OpenersSave
<1> QED BY <1>2, <1>3, <1>4, <1>5, <1>6, <1>7 DEF Write, TypeInv, JobTypeOK, ends

\* A process that saves nothing goes from one place to another.
LEMMA MoveType ==
    ASSUME TypeInv, NEW p \in Process, pc[p] \notin Saving, NEW next \in Place,
           pc' = [pc EXCEPT ![p] = next], UNCHANGED <<opened, clobbered>>
    PROVE  /\ pc' \in [Process -> Place] /\ opened \subseteq Process /\ clobbered \subseteq opened
           /\ opened' = {q \in Process : q \in opened' /\ pc'[q] # "gone"}
           /\ OpenersSave'
<1>1. p \notin opened
    BY DEF TypeInv, OpenersSave
<1>2. pc' \in [Process -> Place] /\ \A q \in Process \ {p} : pc'[q] = pc[q]
    BY DEF TypeInv, JobTypeOK
<1>3. opened \subseteq Process /\ \A q \in opened : pc[q] # "gone"
    BY DEF TypeInv, JobTypeOK
<1>4. \A q \in opened : pc'[q] = pc[q]
    BY <1>1, <1>2, <1>3
<1>5. opened' = {q \in Process : q \in opened' /\ pc'[q] # "gone"}
    BY <1>3, <1>4
<1>6. OpenersSave'
    BY <1>4 DEF TypeInv, OpenersSave
<1> QED BY <1>2, <1>5, <1>6 DEF TypeInv, JobTypeOK

\* ... with a record it has loaded or kept.
LEMMA GoesType ==
    ASSUME TypeInv, NEW p \in Process, pc[p] \notin Saving, NEW r \in Record, NEW next \in Place,
           Goes(p, r, next), Loads(p), UNCHANGED <<file, opened, clobbered, marker, lost, ends, asked>>,
           turn' \in {turn, "live"}
    PROVE  JobTypeOK' /\ OpenersSave' /\ pc' = [pc EXCEPT ![p] = next]
<1>1. pc' = [pc EXCEPT ![p] = next] /\ copy' = [copy EXCEPT ![p] = r]
    BY DEF Goes
<1>2. copy' \in [Process -> Record]
    BY <1>1 DEF TypeInv, JobTypeOK
<1>3. fresh' \subseteq Process /\ blind' \in BOOLEAN
    BY DEF Loads, Readable, TypeInv, JobTypeOK
<1> QED BY <1>1, <1>2, <1>3, MoveType DEF TypeInv, JobTypeOK, ends

LEMMA SaveType ==
    ASSUME TypeInv, NEW p \in Process, pc[p] \in Saving, NEW next \in Place, Save(p, next)
    PROVE  /\ JobTypeOK' /\ OpenersSave' /\ UNCHANGED turn
           /\ UNCHANGED pc \/ pc' = [pc EXCEPT ![p] = next]
<1>1. CASE Open(p)
    <2>1. UNCHANGED pc /\ UNCHANGED turn
        BY <1>1 DEF Open
    <2> QED BY <1>1, <2>1, OpenType DEF TypeInv
<1>2. CASE Write(p, next)
    BY <1>2, WriteType
<1> QED BY <1>1, <1>2 DEF Save

\* What TypeInv says of the places, when one process goes to another.
LEMMA PlacesType ==
    ASSUME TypeInv, NEW p \in Process, NEW next \in Place, pc' = [pc EXCEPT ![p] = next]
    PROVE  /\ pc'[p] = next /\ \A q \in Process \ {p} : pc'[q] = pc[q]
           /\ p = Client => pc'[Worker] = pc[Worker] /\ \A k \in Canceller : pc'[k] = pc[k]
           /\ p = Worker => pc'[Client] = pc[Client] /\ \A k \in Canceller : pc'[k] = pc[k]
           /\ p \in Canceller =>
                  /\ pc'[Client] = pc[Client] /\ pc'[Worker] = pc[Worker]
                  /\ \A k \in Canceller : pc'[k] \in {pc[k], next}
  BY Processes DEF TypeInv, JobTypeOK

LEMMA ClientSaveType ==
    ASSUME TypeInv, NEW next \in ClientPlace, pc[Client] \in Saving, Save(Client, next),
           next = "gone" => pc[Client] = "bound",
           pc[Client] = "bound" => next = "gone"
    PROVE  TypeInv'
<1>1. next \in Place /\ Client \in Process
    BY Processes DEF ClientPlace, Place
<1>2. /\ JobTypeOK' /\ OpenersSave' /\ UNCHANGED turn
      /\ UNCHANGED pc \/ pc' = [pc EXCEPT ![Client] = next]
    BY <1>1, SaveType
<1>3. PlacesOK' /\ WorkerFollows' /\ TurnFollows'
    <2>1. CASE UNCHANGED pc
        BY <1>2, <2>1 DEF TypeInv, PlacesOK, WorkerFollows, TurnFollows
    <2>2. CASE pc' = [pc EXCEPT ![Client] = next]
        <3>1. /\ pc'[Client] = next /\ pc'[Worker] = pc[Worker]
              /\ \A k \in Canceller : pc'[k] = pc[k]
            BY <1>1, <2>2, PlacesType
        <3>2. WorkerFollows'
            BY <3>1 DEF TypeInv, WorkerFollows, Saving
        <3> QED BY <1>2, <3>1, <3>2 DEF TypeInv, PlacesOK, TurnFollows
    <2> QED BY <1>2, <2>1, <2>2
<1> QED BY <1>2, <1>3 DEF TypeInv

LEMMA ReloadedType == ASSUME TypeInv, NEW p \in Process PROVE Reloaded(p) \in Record
  BY DEF TypeInv, JobTypeOK, Reloaded, Readable

LEMMA Changes ==
    ASSUME NEW r \in Record
    PROVE  /\ \A s \in Status : [r EXCEPT !.status = s] \in Record
           /\ [r EXCEPT !.pid = TRUE] \in Record
           /\ [r EXCEPT !.status = "running", !.pid = TRUE] \in Record
           /\ [r EXCEPT !.status = "running", !.pid = TRUE, !.turn = TRUE] \in Record
           /\ [r EXCEPT !.cancel = TRUE,
                        !.status = IF @ \in Active THEN "cancelled" ELSE @] \in Record
  BY DEF Record, Status, Active, Terminal

LEMMA ClientType == ASSUME TypeInv, ClientNext PROVE TypeInv'
<1>1. Client \in Process /\ copy[Client] \in Record /\ Worker \in Process
    BY Processes DEF TypeInv, JobTypeOK
<1>2. CASE Enqueue
    BY <1>2, ClientSaveType DEF Enqueue, Saving, ClientPlace
<1>3. CASE Queue
    BY <1>3, ClientSaveType DEF Queue, Saving, ClientPlace
<1>4. CASE Bound
    BY <1>4, ClientSaveType DEF Bound, Saving, ClientPlace
<1>5. CASE Spawn
    <2>1. /\ pc[Client] = "spawn"
          /\ pc' = [pc EXCEPT ![Client] = "bind", ![Worker] = "boot"]
          /\ UNCHANGED <<file, copy, opened, clobbered, turn, marker, fresh, lost, blind, ends, asked>>
        BY <1>5 DEF Spawn
    <2>2. pc[Worker] = "absent"
        BY <2>1 DEF TypeInv, WorkerFollows
    <2>3. pc' \in [Process -> Place] /\ pc'[Client] = "bind" /\ pc'[Worker] = "boot"
        BY <1>1, <2>1, Processes DEF TypeInv, JobTypeOK, Place
    <2>4. \A q \in Process \ {Client, Worker} : pc'[q] = pc[q]
        BY <2>1, Processes DEF TypeInv, JobTypeOK
    <2>5. Client \notin opened /\ Worker \notin opened
        BY <2>1, <2>2 DEF TypeInv, OpenersSave, Saving
    <2>6. opened' = {q \in Process : q \in opened' /\ pc'[q] # "gone"} /\ OpenersSave'
        <3>1. \A q \in opened : q \in Process /\ pc[q] # "gone" /\ pc'[q] = pc[q]
            BY <2>4, <2>5 DEF TypeInv, JobTypeOK
        <3>2. UNCHANGED opened
            BY <2>1
        <3> QED BY <3>1, <3>2 DEF TypeInv, OpenersSave
    <2>7. JobTypeOK'
        BY <2>1, <2>3, <2>6 DEF TypeInv, JobTypeOK, ends
    <2>8. \A k \in Canceller : pc'[k] = pc[k]
        BY <2>4, Processes
    <2> QED BY <2>1, <2>2, <2>3, <2>6, <2>7, <2>8
            DEF TypeInv, PlacesOK, WorkerFollows, TurnFollows, ClientPlace, WorkerPlace
<1>6. ASSUME NEW r \in Record, NEW next \in {"queue", "gone", "bound"},
             Goes(Client, r, next), Loads(Client), Elsewhere,
             pc[Client] = IF next = "bound" THEN "bind" ELSE "start"
      PROVE  TypeInv'
    <2>1. next \in Place /\ pc[Client] \notin Saving
        BY <1>6 DEF Place, Saving
    <2>2. /\ UNCHANGED <<file, opened, clobbered, marker, lost, ends, asked>> /\ UNCHANGED turn
        BY <1>6 DEF Elsewhere
    <2>3. JobTypeOK' /\ OpenersSave' /\ pc' = [pc EXCEPT ![Client] = next]
        BY <1>1, <1>6, <2>1, <2>2, GoesType
    <2>4. pc'[Client] = next /\ pc'[Worker] = pc[Worker] /\ \A k \in Canceller : pc'[k] = pc[k]
        BY <1>1, <2>1, <2>3, PlacesType
    <2>5. WorkerFollows'
        BY <1>6, <2>4 DEF TypeInv, WorkerFollows
    <2> QED BY <2>2, <2>3, <2>4, <2>5 DEF TypeInv, PlacesOK, TurnFollows, ClientPlace
<1>7. CASE Start
    <2>1. Readable => [file EXCEPT !.status = "queued"] \in Record
        BY Changes DEF Readable, Status, Active
    <2> QED BY <1>1, <1>6, <1>7, <2>1 DEF Start
<1>8. CASE Bind
    <2>1. [Reloaded(Client) EXCEPT !.pid = TRUE] \in Record
        BY <1>1, ReloadedType, Changes
    <2> QED BY <1>6, <1>8, <2>1 DEF Bind
<1> QED BY <1>2, <1>3, <1>4, <1>5, <1>7, <1>8 DEF ClientNext

LEMMA WorkerSaveType ==
    ASSUME TypeInv, NEW next \in WorkerPlace, pc[Worker] \in Saving, Save(Worker, next),
           <<pc[Worker], next>> \in {<<"run", "submit">>, <<"attach", "await">>, <<"finish", "notify">>}
    PROVE  TypeInv'
<1>1. next \in Place /\ Worker \in Process
    BY Processes DEF WorkerPlace, Place
<1>2. /\ JobTypeOK' /\ OpenersSave' /\ UNCHANGED turn
      /\ UNCHANGED pc \/ pc' = [pc EXCEPT ![Worker] = next]
    BY <1>1, SaveType
<1>3. PlacesOK' /\ WorkerFollows' /\ TurnFollows'
    <2>1. CASE UNCHANGED pc
        BY <1>2, <2>1 DEF TypeInv, PlacesOK, WorkerFollows, TurnFollows
    <2>2. CASE pc' = [pc EXCEPT ![Worker] = next]
        <3>1. /\ pc'[Worker] = next /\ pc'[Client] = pc[Client]
              /\ \A k \in Canceller : pc'[k] = pc[k]
            BY <1>1, <2>2, PlacesType
        <3> QED BY <1>2, <3>1 DEF TypeInv, PlacesOK, TurnFollows, WorkerFollows
    <2> QED BY <1>2, <2>1, <2>2
<1> QED BY <1>2, <1>3 DEF TypeInv

LEMMA VerdictType ==
    ASSUME TypeInv, pc[Worker] = "report", NEW r \in Record
    PROVE  /\ Verdict(r) \in Status /\ Verdict(r) \notin Active
           /\ Verdict(r) = "success" => turn = "success" /\ ~r.cancel
  BY DEF Verdict, Status, Active, Terminal, TypeInv, TurnFollows, Record

LEMMA WorkerType == ASSUME TypeInv, WorkerNext PROVE TypeInv'
<1>1. Client \in Process /\ copy[Worker] \in Record /\ Worker \in Process
    BY Processes DEF TypeInv, JobTypeOK
<1>2. CASE Run \/ Attach \/ Finish
    BY <1>2, WorkerSaveType DEF Run, Attach, Finish, Saving, WorkerPlace
<1>3. ASSUME NEW next \in WorkerPlace, pc' = [pc EXCEPT ![Worker] = next], pc[Worker] # "absent"
      PROVE  PlacesOK' /\ WorkerFollows'
    <2>1. next \in Place
        BY DEF WorkerPlace, Place
    <2>2. pc'[Worker] = next /\ pc'[Client] = pc[Client] /\ \A k \in Canceller : pc'[k] = pc[k]
        BY <1>1, <1>3, <2>1, PlacesType
    <2> QED BY <1>3, <2>2 DEF TypeInv, PlacesOK, WorkerFollows
<1>4. ASSUME NEW r \in Record, NEW next \in WorkerPlace, Goes(Worker, r, next), Loads(Worker),
             pc[Worker] \notin Saving \cup {"absent"},
             UNCHANGED <<file, opened, clobbered, marker, lost, ends, asked>>, turn' \in {turn, "live"},
             /\ next \in {"load", "run"} => turn' = "none"
             /\ next = "attach" => turn' = "live"
             /\ next \notin {"absent", "boot", "submit", "await", "report"}
      PROVE  TypeInv'
    <2>1. next \in Place
        BY DEF WorkerPlace, Place
    <2>2. JobTypeOK' /\ OpenersSave' /\ pc' = [pc EXCEPT ![Worker] = next]
        BY <1>1, <1>4, <2>1, GoesType
    <2>3. pc'[Worker] = next
        BY <1>1, <2>1, <2>2, PlacesType
    <2>4. TurnFollows'
        BY <1>4, <2>3 DEF TurnFollows
    <2> QED BY <1>3, <1>4, <2>2, <2>4 DEF TypeInv
<1>5. CASE Boot
    <2>1. turn = "none" /\ pc[Worker] = "boot" /\ UNCHANGED turn
        BY <1>5 DEF Boot, TypeInv, TurnFollows, Elsewhere
    <2> QED BY <1>1, <1>4, <1>5, <2>1 DEF Boot, Elsewhere, WorkerPlace, Saving
<1>6. CASE Load
    <2>1. turn = "none" /\ pc[Worker] = "load" /\ UNCHANGED turn
        BY <1>6 DEF Load, TypeInv, TurnFollows, Elsewhere
    <2>2. Readable => /\ [file EXCEPT !.status = "cancelled"] \in Record
                      /\ [file EXCEPT !.status = "running", !.pid = TRUE] \in Record
        BY Changes DEF Readable, Status, Active, Terminal
    <2>3. PICK r \in Record, next \in {"gone", "finish", "run"} : Goes(Worker, r, next)
        BY <1>1, <1>6, <2>2 DEF Load
    <2>4. /\ Loads(Worker) /\ UNCHANGED <<file, opened, clobbered, marker, lost, ends, asked>>
        BY <1>6 DEF Load, Elsewhere
    <2> QED BY <1>4, <2>1, <2>3, <2>4 DEF WorkerPlace, Saving
<1>7. CASE Submit
    <2>1. [Reloaded(Worker) EXCEPT !.status = "running", !.pid = TRUE, !.turn = TRUE] \in Record
        BY <1>1, ReloadedType, Changes
    <2> QED BY <1>4, <1>7, <2>1 DEF Submit, WorkerPlace, Saving
<1>8. CASE Report
    <2>1. [Reloaded(Worker) EXCEPT !.status = Verdict(Reloaded(Worker))] \in Record
        BY <1>1, <1>8, ReloadedType, VerdictType, Changes DEF Report
    <2> QED BY <1>4, <1>8, <2>1 DEF Report, Elsewhere, WorkerPlace, Saving
<1>9. ASSUME NEW next \in {"report", "gone"}, pc' = [pc EXCEPT ![Worker] = next],
             pc[Worker] \in {"submit", "await", "notify"},
             next = "report" => turn' \in {"success", "awaiting", "stopped", "cancelled", "raised"},
             turn' \in {turn, "success", "awaiting", "stopped", "cancelled", "raised"},
             marker' \in {marker, copy[Worker].status},
             UNCHANGED <<file, copy, opened, clobbered, fresh, lost, blind, ends, asked>>
      PROVE  TypeInv'
    <2>1. next \in Place /\ next \in WorkerPlace /\ pc[Worker] \notin Saving \cup {"absent"}
        BY <1>9 DEF Place, WorkerPlace, Saving
    <2>2. /\ pc' \in [Process -> Place] /\ OpenersSave'
          /\ opened' = {q \in Process : q \in opened' /\ pc'[q] # "gone"}
        BY <1>1, <1>9, <2>1, MoveType
    <2>3. pc'[Worker] = next
        BY <1>1, <1>9, <2>1, PlacesType
    <2>4. JobTypeOK'
        <3>1. copy[Worker].status \in Status
            BY <1>1 DEF Record
        <3> QED BY <1>9, <2>2, <3>1 DEF TypeInv, JobTypeOK, ends
    <2> QED BY <1>3, <1>9, <2>1, <2>2, <2>3, <2>4 DEF TypeInv, TurnFollows
<1>10. CASE SubmitRaises
    BY <1>9, <1>10 DEF SubmitRaises
<1>11. CASE Await
    BY <1>9, <1>11 DEF Await
<1>12. CASE Notify(Worker)
    BY <1>9, <1>12 DEF Notify
<1> QED BY <1>2, <1>5, <1>6, <1>7, <1>8, <1>10, <1>11, <1>12 DEF WorkerNext

LEMMA CancelType == ASSUME TypeInv, NEW k \in Canceller,
                           RequestCancel(k) \/ Requested(k) \/ Signal(k) \/ Notify(k)
                    PROVE  TypeInv'
<1>1. /\ k \in Process /\ k # Client /\ k # Worker /\ copy[k] \in Record
      /\ Client \in Process /\ Worker \in Process /\ pc[k] \in CancelPlace
    BY Processes DEF TypeInv, JobTypeOK, PlacesOK
<1>2. ASSUME NEW next \in CancelPlace, UNCHANGED pc \/ pc' = [pc EXCEPT ![k] = next], UNCHANGED turn
      PROVE  PlacesOK' /\ WorkerFollows' /\ TurnFollows'
    <2>1. next \in Place
        BY DEF CancelPlace, Place
    <2>2. /\ pc'[Client] = pc[Client] /\ pc'[Worker] = pc[Worker]
          /\ \A j \in Canceller : pc'[j] \in {pc[j], next}
        BY <1>1, <1>2, <2>1, PlacesType
    <2> QED BY <1>2, <2>2 DEF TypeInv, PlacesOK, WorkerFollows, TurnFollows
<1>3. CASE Requested(k)
    <2>1. "signal" \in Place /\ "signal" \in CancelPlace
        BY DEF Place, CancelPlace
    <2> QED BY <1>1, <1>2, <1>3, <2>1, SaveType DEF Requested, Saving, TypeInv
<1>4. CASE RequestCancel(k)
    <2>1. Readable => [file EXCEPT !.cancel = TRUE,
                                   !.status = IF @ \in Active THEN "cancelled" ELSE @] \in Record
        BY Changes DEF Readable
    <2>2. PICK r \in Record, next \in {"gone", "request"} : Goes(k, r, next)
        BY <1>1, <1>4, <2>1 DEF RequestCancel
    <2>3. /\ Loads(k) /\ pc[k] = "cancel" /\ UNCHANGED turn
          /\ UNCHANGED <<file, opened, clobbered, marker, lost, ends, asked>>
        BY <1>4 DEF RequestCancel, Elsewhere
    <2>4. next \in Place /\ next \in CancelPlace /\ pc[k] \notin Saving
        BY <2>3 DEF Place, CancelPlace, Saving
    <2> QED BY <1>1, <1>2, <2>2, <2>3, <2>4, GoesType DEF TypeInv
<1>5. CASE Notify(k)
    <2>1. /\ pc[k] = "notify" /\ marker' = copy[k].status /\ pc' = [pc EXCEPT ![k] = "gone"]
          /\ UNCHANGED <<file, copy, opened, clobbered, turn, fresh, lost, blind, ends, asked>>
        BY <1>5 DEF Notify
    <2>2. "gone" \in Place /\ "gone" \in CancelPlace /\ pc[k] \notin Saving
        BY <2>1 DEF Place, CancelPlace, Saving
    <2>3. /\ pc' \in [Process -> Place] /\ OpenersSave'
          /\ opened' = {q \in Process : q \in opened' /\ pc'[q] # "gone"}
        BY <1>1, <2>1, <2>2, MoveType
    <2>4. JobTypeOK'
        <3>1. copy[k].status \in Status
            BY <1>1 DEF Record
        <3> QED BY <2>1, <2>3, <3>1 DEF TypeInv, JobTypeOK, ends
    <2> QED BY <1>2, <2>1, <2>2, <2>3, <2>4 DEF TypeInv
<1>6. CASE Signal(k)
    <2>1. PICK hit \in BOOLEAN : hit = (copy[k].pid /\ pc[Worker] \notin {"absent", "gone"})
        BY <1>1 DEF Record
    <2>2. /\ pc[k] = "signal"
          /\ pc' = [p \in Process |-> IF p = k THEN "notify"
                                      ELSE IF p = Worker /\ hit THEN "gone" ELSE pc[p]]
          /\ killed' = (killed \/ hit)
          /\ opened' = IF hit THEN opened \ {Worker} ELSE opened
          /\ clobbered' = IF hit THEN clobbered \ {Worker} ELSE clobbered
          /\ UNCHANGED <<file, copy, turn, marker, fresh, lost, blind, crashed, asked>>
        BY <1>6, <2>1 DEF Signal
    <2>3. pc' \in [Process -> Place]
        BY <2>2 DEF TypeInv, JobTypeOK, Place
    <2>4. /\ pc'[k] = "notify" /\ pc'[Worker] = IF hit THEN "gone" ELSE pc[Worker]
          /\ \A q \in Process \ {k, Worker} : pc'[q] = pc[q]
        BY <1>1, <2>2
    <2>5. k \notin opened /\ opened \subseteq Process /\ \A q \in opened : pc[q] # "gone"
        BY <2>2 DEF TypeInv, OpenersSave, Saving, JobTypeOK
    <2>6. \A q \in opened' : q \in Process /\ q # k /\ pc'[q] = pc[q] /\ q \in opened
        BY <2>2, <2>4, <2>5
    <2>7. opened' = {q \in Process : q \in opened' /\ pc'[q] # "gone"} /\ OpenersSave'
        BY <2>5, <2>6 DEF TypeInv, OpenersSave
    <2>8. JobTypeOK'
        BY <2>1, <2>2, <2>3, <2>6, <2>7 DEF TypeInv, JobTypeOK
    <2>9. pc'[Client] = pc[Client] /\ \A j \in Canceller : pc'[j] \in {pc[j], "notify"}
        BY <1>1, <2>4, Processes
    <2>10. pc[Worker] = "absent" => pc'[Worker] = "absent"
        BY <2>1, <2>4
    <2>11. PlacesOK' /\ TurnFollows'
        BY <2>2, <2>4, <2>9 DEF TypeInv, PlacesOK, TurnFollows, WorkerPlace, CancelPlace
    <2>12. WorkerFollows'
        BY <2>1, <2>4, <2>9 DEF TypeInv, WorkerFollows
    <2> QED BY <2>7, <2>8, <2>11, <2>12 DEF TypeInv
<1> QED BY <1>3, <1>4, <1>5, <1>6

LEMMA CrashType ==
    ASSUME TypeInv, NEW p \in {Client, Worker}, Crash(p) PROVE TypeInv'
<1>1. /\ p \in Process /\ pc[p] \notin {"absent", "gone"} /\ pc' = [pc EXCEPT ![p] = "gone"]
      /\ crashed' = TRUE /\ opened' = opened \ {p} /\ clobbered' = clobbered \ {p}
      /\ UNCHANGED <<file, copy, turn, marker, fresh, lost, blind, killed, asked>>
    BY Processes DEF Crash
<1>2. pc' \in [Process -> Place] /\ pc'[p] = "gone" /\ \A q \in Process \ {p} : pc'[q] = pc[q]
    BY <1>1 DEF TypeInv, JobTypeOK, Place
<1>3. opened' = {q \in Process : q \in opened' /\ pc'[q] # "gone"} /\ OpenersSave'
    <2>1. \A q \in opened' : q \in Process /\ pc[q] # "gone" /\ pc'[q] = pc[q] /\ q \in opened
        BY <1>1, <1>2 DEF TypeInv, JobTypeOK
    <2> QED BY <2>1 DEF TypeInv, OpenersSave
<1>4. JobTypeOK'
    BY <1>1, <1>2, <1>3 DEF TypeInv, JobTypeOK
<1>5. /\ pc'[Client] \in {pc[Client], "gone"} /\ pc'[Worker] \in {pc[Worker], "gone"}
      /\ pc[Worker] = "absent" => pc'[Worker] = "absent"
      /\ \A k \in Canceller : pc'[k] = pc[k]
    BY <1>1, <1>2, Processes
<1> QED BY <1>1, <1>3, <1>4, <1>5
        DEF TypeInv, PlacesOK, WorkerFollows, TurnFollows, ClientPlace, WorkerPlace

LEMMA NextType == TypeInv /\ [Next]_jobVars => TypeInv'
<1> SUFFICES ASSUME TypeInv, [Next]_jobVars PROVE TypeInv'
    OBVIOUS
<1>1. CASE UNCHANGED jobVars
    BY <1>1 DEF TypeInv, JobTypeOK, PlacesOK, WorkerFollows, TurnFollows, OpenersSave, jobVars, ends
<1> QED BY <1>1, ClientType, WorkerType, CancelType, CrashType DEF Next, CancelNext

\* The record, the processes and the history of a job have their types, and whoever
\* has the file open is there: a worker that is killed between the open and the
\* write of a save leaves the file, not the save.
THEOREM JobTypes == Spec => []JobTypeOK
<1>1. TypeInv => JobTypeOK
    BY DEF TypeInv
<1> QED BY InitType, NextType, <1>1, PTL DEF Spec

-----------------------------------------------------------------------------
\* What each load leaves in the copy of its process

\* r is b but for its status.
Like(r, b) == r.cancel = b.cancel /\ r.turn = b.turn /\ r.pid = b.pid

StartTo(r) ==
    \/ /\ Goes(Client, r, "queue") /\ Readable /\ ~file.cancel
       /\ r.status = "queued" /\ Like(r, file)
    \/ /\ Goes(Client, r, "gone") /\ r = copy[Client]
       /\ Readable => file.status \in {"running", "cancelled"} \/ file.cancel

BindTo(r) ==
    /\ Goes(Client, r, "bound") /\ r.status = Reloaded(Client).status
    /\ r.cancel = Reloaded(Client).cancel /\ r.turn = Reloaded(Client).turn /\ r.pid

BootTo(r) ==
    /\ r = copy[Worker]
    /\ \/ Goes(Worker, r, "load")
       \/ Goes(Worker, r, "gone") /\ (Readable => Cancelled(file))

LoadTo(r) ==
    \/ Goes(Worker, r, "gone") /\ r = copy[Worker] /\ ~Readable
    \/ Goes(Worker, r, "finish") /\ Readable /\ r.status = "cancelled" /\ Like(r, file)
    \/ /\ Goes(Worker, r, "run") /\ Readable /\ ~file.cancel
       /\ r.status = "running" /\ ~r.cancel /\ r.turn = file.turn

SubmitTo(r) ==
    /\ Goes(Worker, r, "attach") /\ r.status = "running" /\ r.turn /\ r.pid
    /\ r.cancel = Reloaded(Worker).cancel

ReportTo(r) ==
    /\ Goes(Worker, r, "finish") /\ r.status = Verdict(Reloaded(Worker))
    /\ Like(r, Reloaded(Worker))

RequestTo(k, r) ==
    \/ Goes(k, r, "gone") /\ r = copy[k]
    \/ /\ Goes(k, r, "request") /\ Readable /\ file.status \notin Terminal
       /\ r.status = IF file.status \in Active THEN "cancelled" ELSE file.status
       /\ r.cancel /\ r.turn = file.turn /\ r.pid = file.pid

LEMMA CopyIsRecord == ASSUME TypeInv, NEW p \in Process PROVE copy[p] \in Record
  BY DEF TypeInv, JobTypeOK

LEMMA StartGoes ==
    ASSUME TypeInv, Start
    PROVE  /\ pc[Client] = "start" /\ Loads(Client) /\ Elsewhere
           /\ \E r \in Record : StartTo(r)
<1>1. CASE Readable /\ file.status \notin {"running", "cancelled"} /\ ~file.cancel
    <2>1. PICK r : r = [file EXCEPT !.status = "queued"]
        OBVIOUS
    <2>2. r \in Record /\ r.status = "queued" /\ Like(r, file)
        BY <1>1, <2>1 DEF Readable, Record, Status, Active, Like
    <2> QED BY <1>1, <2>1, <2>2 DEF Start, StartTo
<1>2. CASE ~(Readable /\ file.status \notin {"running", "cancelled"} /\ ~file.cancel)
    BY <1>2, CopyIsRecord, Processes DEF Start, StartTo
<1> QED BY <1>1, <1>2

LEMMA BindGoes ==
    ASSUME TypeInv, Bind
    PROVE  /\ pc[Client] = "bind" /\ Loads(Client) /\ Elsewhere
           /\ \E r \in Record : BindTo(r)
<1>1. PICK b \in Record : b = Reloaded(Client)
    BY ReloadedType, Processes
<1>2. PICK r : r = [b EXCEPT !.pid = TRUE]
    OBVIOUS
<1>3. r \in Record /\ r.status = b.status /\ r.cancel = b.cancel /\ r.turn = b.turn /\ r.pid
    BY <1>2 DEF Record
<1> QED BY <1>1, <1>2, <1>3 DEF Bind, BindTo

LEMMA BootGoes ==
    ASSUME TypeInv, Boot
    PROVE  /\ pc[Worker] = "boot" /\ Loads(Worker) /\ Elsewhere
           /\ \E r \in Record : BootTo(r)
  BY CopyIsRecord, Processes DEF Boot, BootTo

LEMMA LoadGoes ==
    ASSUME TypeInv, Load
    PROVE  /\ pc[Worker] = "load" /\ Loads(Worker) /\ Elsewhere
           /\ \E r \in Record : LoadTo(r)
<1>1. CASE ~Readable
    BY <1>1, CopyIsRecord, Processes DEF Load, LoadTo
<1>2. CASE Readable /\ Cancelled(file)
    <2>1. PICK r : r = [file EXCEPT !.status = "cancelled"]
        OBVIOUS
    <2>2. r \in Record /\ r.status = "cancelled" /\ Like(r, file)
        BY <1>2, <2>1 DEF Readable, Record, Status, Terminal, Like
    <2> QED BY <1>2, <2>1, <2>2 DEF Load, LoadTo
<1>3. CASE Readable /\ ~Cancelled(file)
    <2>1. PICK r : r = [file EXCEPT !.status = "running", !.pid = TRUE]
        OBVIOUS
    <2>2. r \in Record /\ r.status = "running" /\ r.cancel = file.cancel /\ r.turn = file.turn
        BY <1>3, <2>1 DEF Readable, Record, Status, Active
    <2> QED BY <1>3, <2>1, <2>2 DEF Load, LoadTo, Cancelled
<1> QED BY <1>1, <1>2, <1>3

LEMMA SubmitGoes ==
    ASSUME TypeInv, Submit
    PROVE  /\ pc[Worker] = "submit" /\ Loads(Worker) /\ turn = "none" /\ turn' = "live"
           /\ UNCHANGED <<file, opened, clobbered, marker, lost, ends, asked>>
           /\ \E r \in Record : SubmitTo(r)
<1>1. PICK b \in Record : b = Reloaded(Worker)
    BY ReloadedType, Processes
<1>2. PICK r : r = [b EXCEPT !.status = "running", !.pid = TRUE, !.turn = TRUE]
    OBVIOUS
<1>3. r \in Record /\ r.status = "running" /\ r.cancel = b.cancel /\ r.turn /\ r.pid
    BY <1>2 DEF Record, Status, Active
<1>4. turn = "none"
    BY DEF Submit, TypeInv, TurnFollows
<1> QED BY <1>1, <1>2, <1>3, <1>4 DEF Submit, SubmitTo

LEMMA ReportGoes ==
    ASSUME TypeInv, Report
    PROVE  /\ pc[Worker] = "report" /\ Loads(Worker) /\ Elsewhere
           /\ \E r \in Record : ReportTo(r)
<1>1. PICK b \in Record : b = Reloaded(Worker)
    BY ReloadedType, Processes
<1>2. Verdict(b) \in Status
    BY <1>1, VerdictType DEF Report
<1>3. PICK r : r = [b EXCEPT !.status = Verdict(b)]
    OBVIOUS
<1>4. r \in Record /\ r.status = Verdict(b) /\ Like(r, b)
    BY <1>2, <1>3 DEF Record, Like
<1> QED BY <1>1, <1>3, <1>4 DEF Report, ReportTo

LEMMA RequestGoes ==
    ASSUME TypeInv, NEW k \in Canceller, RequestCancel(k)
    PROVE  /\ pc[k] = "cancel" /\ Loads(k) /\ Elsewhere
           /\ \E r \in Record : RequestTo(k, r)
<1>1. CASE ~Readable \/ file.status \in Terminal
    BY <1>1, CopyIsRecord, Processes DEF RequestCancel, RequestTo
<1>2. CASE Readable /\ file.status \notin Terminal
    <2>1. PICK s : s = IF file.status \in Active THEN "cancelled" ELSE file.status
        OBVIOUS
    <2>2. PICK r : r = [file EXCEPT !.cancel = TRUE, !.status = s]
        OBVIOUS
    <2>3. /\ r \in Record /\ r.status = s /\ r.cancel /\ r.turn = file.turn /\ r.pid = file.pid
        BY <1>2, <2>1, <2>2 DEF Readable, Record, Status, Active, Terminal
    <2>4. Goes(k, r, "request")
        BY <1>2, <2>1, <2>2 DEF RequestCancel, Readable, Record
    <2> QED BY <1>2, <2>1, <2>3, <2>4 DEF RequestCancel, RequestTo
<1> QED BY <1>1, <1>2

LEMMA GoesFacts ==
    ASSUME TypeInv, NEW p \in Process, NEW r, NEW next, Goes(p, r, next), Loads(p), UNCHANGED file
    PROVE  /\ copy'[p] = r /\ pc'[p] = next
           /\ \A q \in Process \ {p} : copy'[q] = copy[q] /\ pc'[q] = pc[q]
           /\ Readable' = Readable /\ blind' = (blind \/ ~Readable)
           /\ \A q \in fresh' : q \in fresh \/ (q = p /\ Readable)
           /\ Readable => p \in fresh'
  BY DEF Goes, Loads, Readable, TypeInv, JobTypeOK

LEMMA WriteFacts ==
    ASSUME TypeInv, NEW p \in Process, NEW next, Write(p, next)
    PROVE  /\ pc'[p] = next /\ \A q \in Process \ {p} : pc'[q] = pc[q]
           /\ UNCHANGED <<copy, turn, marker, blind, crashed, killed>>
           /\ fresh' = {p} /\ lost' = (lost \/ p \notin fresh)
           /\ asked' = (asked \/ copy[p].cancel)
           /\ Readable' => file' = copy[p]
  BY NotRecords DEF Write, Readable, TypeInv, JobTypeOK, ends

LEMMA OpenFacts ==
    ASSUME NEW p, Open(p)
    PROVE  /\ ~Readable'
           /\ UNCHANGED <<pc, copy, turn, marker, fresh, lost, blind, crashed, killed, asked>>
  BY NotRecords DEF Open, Readable, ends

-----------------------------------------------------------------------------
\* Nobody calls a job a success but for its turn

\* A success in a record is the turn's.
Earned ==
    /\ \A p \in Process : copy[p].status = "success" => turn = "success"
    /\ Readable /\ file.status = "success" => turn = "success"
    /\ marker = "success" => turn = "success"

\* Who has decided how the job ends holds a record that says so.
Decided(p) ==
    pc[p] \in (IF p = Worker THEN {"finish", "notify"} ELSE {"request", "signal", "notify"})

Announced ==
    /\ \A p \in Process \ {Client} : Decided(p) => copy[p].status \notin Active
    /\ marker \notin Active

EarnInv == Earned /\ Announced

LEMMA InitEarn == JobInit => EarnInv
<1> SUFFICES ASSUME JobInit PROVE EarnInv
    OBVIOUS
<1>1. ~Readable /\ \A p \in Process : copy[p].status = "queued"
    BY NotRecords DEF JobInit, Readable, NewJob
<1>2. \A p \in Process \ {Client} : pc[p] \in {"absent", "cancel"}
    BY DEF JobInit
<1> QED BY <1>1, <1>2 DEF JobInit, EarnInv, Earned, Announced, Decided, Active

\* A record is loaded, changed and kept: it may say success if the turn was one.
LEMMA GoesEarn ==
    ASSUME TypeInv, EarnInv, NEW p \in Process, NEW r \in Record, NEW next,
           Goes(p, r, next), Loads(p), UNCHANGED <<file, marker>>,
           UNCHANGED turn \/ turn = "none",
           r.status = "success" => turn = "success",
           p # Client /\ Decided(p)' => r.status \notin Active
    PROVE  EarnInv'
<1>1. /\ copy'[p] = r /\ Readable' = Readable
      /\ \A q \in Process \ {p} : copy'[q] = copy[q] /\ pc'[q] = pc[q]
    BY GoesFacts
<1>2. Earned'
    BY <1>1 DEF EarnInv, Earned
<1>3. Announced'
    BY <1>1 DEF EarnInv, Announced, Decided
<1> QED BY <1>2, <1>3 DEF EarnInv

LEMMA SaveEarn ==
    ASSUME TypeInv, EarnInv, NEW p \in Process, NEW next, Save(p, next),
           p # Client /\ Decided(p)' => Decided(p)
    PROVE  EarnInv'
<1>1. /\ copy' = copy /\ turn' = turn /\ marker' = marker
      /\ Readable' => file' = copy[p]
      /\ \A q \in Process \ {p} : pc'[q] = pc[q]
    <2>1. CASE Open(p)
        BY <2>1, OpenFacts
    <2>2. CASE Write(p, next)
        BY <2>2, WriteFacts
    <2> QED BY <2>1, <2>2 DEF Save
<1>2. Earned'
    BY <1>1 DEF EarnInv, Earned
<1>3. Announced'
    BY <1>1 DEF EarnInv, Announced, Decided
<1> QED BY <1>2, <1>3 DEF EarnInv

LEMMA ReloadedEarn ==
    ASSUME TypeInv, EarnInv, NEW p \in Process PROVE Reloaded(p).status = "success" => turn = "success"
  BY DEF EarnInv, Earned, Reloaded

LEMMA ClientEarn == ASSUME TypeInv, EarnInv, ClientNext PROVE EarnInv'
<1>1. Client \in Process /\ Worker \in Process
    BY Processes
<1>2. CASE Enqueue \/ Queue \/ Bound
    BY <1>1, <1>2, SaveEarn DEF Enqueue, Queue, Bound
<1>3. CASE Spawn
    <2>1. UNCHANGED <<file, copy, turn, marker>>
        BY <1>3 DEF Spawn
    <2>2. \A p \in Process \ {Client} : Decided(p)' => Decided(p)
        BY <1>3, Processes DEF Spawn, Decided, TypeInv, JobTypeOK
    <2> QED BY <2>1, <2>2 DEF EarnInv, Earned, Announced, Readable
<1>4. CASE Start
    <2>1. PICK r \in Record : StartTo(r)
        BY <1>4, StartGoes
    <2>2. Loads(Client) /\ UNCHANGED <<file, marker, turn>>
        BY <1>4, StartGoes DEF Elsewhere
    <2>3. r.status = "success" => turn = "success"
        BY <1>1, <2>1 DEF StartTo, EarnInv, Earned
    <2> QED BY <1>1, <2>1, <2>2, <2>3, GoesEarn DEF StartTo
<1>5. CASE Bind
    <2>1. PICK r \in Record : BindTo(r)
        BY <1>5, BindGoes
    <2>2. Loads(Client) /\ UNCHANGED <<file, marker, turn>>
        BY <1>5, BindGoes DEF Elsewhere
    <2>3. r.status = "success" => turn = "success"
        BY <1>1, <2>1, ReloadedEarn DEF BindTo
    <2> QED BY <1>1, <2>1, <2>2, <2>3, GoesEarn DEF BindTo
<1> QED BY <1>2, <1>3, <1>4, <1>5 DEF ClientNext

LEMMA WorkerEarn == ASSUME TypeInv, EarnInv, WorkerNext PROVE EarnInv'
<1>1. Client \in Process /\ Worker \in Process /\ Worker # Client
    BY Processes
<1>2. CASE Run \/ Attach \/ Finish
    BY <1>1, <1>2, SaveEarn, WriteFacts, OpenFacts DEF Run, Attach, Finish, Save, Decided
<1>3. CASE Boot
    <2>1. PICK r \in Record : BootTo(r)
        BY <1>3, BootGoes
    <2>2. Loads(Worker) /\ UNCHANGED <<file, marker, turn>>
        BY <1>3, BootGoes DEF Elsewhere
    <2>3. r.status = "success" => turn = "success"
        BY <1>1, <2>1 DEF BootTo, EarnInv, Earned
    <2>4. PICK next \in {"load", "gone"} : Goes(Worker, r, next)
        BY <2>1 DEF BootTo
    <2>5. ~Decided(Worker)'
        BY <1>1, <2>2, <2>4, GoesFacts DEF Decided
    <2> QED BY <1>1, <2>2, <2>3, <2>4, <2>5, GoesEarn
<1>4. CASE Load
    <2>1. PICK r \in Record : LoadTo(r)
        BY <1>4, LoadGoes
    <2>2. Loads(Worker) /\ UNCHANGED <<file, marker, turn>>
        BY <1>4, LoadGoes DEF Elsewhere
    <2>3. r.status = "success" => turn = "success"
        BY <1>1, <2>1 DEF LoadTo, EarnInv, Earned
    <2>4. PICK next \in {"run", "finish", "gone"} : /\ Goes(Worker, r, next)
                                                    /\ next = "finish" => r.status = "cancelled"
        BY <2>1 DEF LoadTo
    <2>5. Decided(Worker)' => r.status \notin Active
        BY <1>1, <2>2, <2>4, GoesFacts DEF Decided, Active
    <2> QED BY <1>1, <2>2, <2>3, <2>4, <2>5, GoesEarn
<1>5. CASE Submit
    <2>1. PICK r \in Record : SubmitTo(r)
        BY <1>5, SubmitGoes
    <2>2. Loads(Worker) /\ UNCHANGED <<file, marker>> /\ turn = "none"
        BY <1>5, SubmitGoes
    <2>3. Goes(Worker, r, "attach") /\ r.status # "success"
        BY <2>1 DEF SubmitTo
    <2>4. ~Decided(Worker)'
        BY <1>1, <2>2, <2>3, GoesFacts DEF Decided
    <2> QED BY <1>1, <2>2, <2>3, <2>4, GoesEarn
<1>6. CASE Report
    <2>1. PICK r \in Record : ReportTo(r)
        BY <1>6, ReportGoes
    <2>2. Loads(Worker) /\ UNCHANGED <<file, marker, turn>> /\ pc[Worker] = "report"
        BY <1>6, ReportGoes DEF Elsewhere
    <2>3. r.status \notin Active /\ (r.status = "success" => turn = "success")
        BY <1>1, <2>1, <2>2, ReloadedType, VerdictType DEF ReportTo
    <2> QED BY <1>1, <2>1, <2>2, <2>3, GoesEarn DEF ReportTo
<1>7. CASE SubmitRaises \/ Await \/ Notify(Worker)
    <2>1. UNCHANGED <<file, copy>> /\ marker' \in {marker, copy[Worker].status}
        BY <1>7 DEF SubmitRaises, Await, Notify
    <2>2. /\ pc'[Worker] \in {"report", "gone"} /\ \A q \in Process \ {Worker} : pc'[q] = pc[q]
          /\ marker' # marker => Decided(Worker)
        BY <1>1, <1>7 DEF SubmitRaises, Await, Notify, TypeInv, JobTypeOK, Decided
    <2>3. turn = "success" => turn' = "success"
        BY <1>7 DEF SubmitRaises, Await, Notify, TypeInv, TurnFollows
    <2>4. Earned'
        BY <1>1, <2>1, <2>3 DEF EarnInv, Earned, Readable
    <2>5. Announced'
        BY <1>1, <2>1, <2>2 DEF EarnInv, Announced, Decided
    <2> QED BY <2>4, <2>5 DEF EarnInv
<1> QED BY <1>2, <1>3, <1>4, <1>5, <1>6, <1>7 DEF WorkerNext

LEMMA CancelEarn ==
    ASSUME TypeInv, EarnInv, NEW k \in Canceller,
           RequestCancel(k) \/ Requested(k) \/ Signal(k) \/ Notify(k)
    PROVE  EarnInv'
<1>1. k \in Process /\ k # Client /\ k # Worker /\ Worker \in Process
    BY Processes
<1>2. CASE Requested(k)
    BY <1>1, <1>2, SaveEarn DEF Requested, Decided
<1>3. CASE RequestCancel(k)
    <2>1. PICK r \in Record : RequestTo(k, r)
        BY <1>3, RequestGoes
    <2>2. Loads(k) /\ UNCHANGED <<file, marker, turn>>
        BY <1>3, RequestGoes DEF Elsewhere
    <2>3. PICK next \in {"gone", "request"} : /\ Goes(k, r, next)
                                              /\ next = "request" => r.status \notin Active \cup {"success"}
                                              /\ next = "gone" => r = copy[k]
        BY <2>1 DEF RequestTo, Active, Terminal
    <2>4. Decided(k)' => next # "gone"
        BY <1>1, <2>2, <2>3, GoesFacts DEF Decided
    <2>5. r.status = "success" => turn = "success"
        BY <1>1, <2>3 DEF EarnInv, Earned
    <2> QED BY <1>1, <2>2, <2>3, <2>4, <2>5, GoesEarn
<1>4. CASE Signal(k)
    <2>1. UNCHANGED <<file, copy, turn, marker>>
        BY <1>4 DEF Signal
    <2>2. \A p \in Process \ {Client} : Decided(p)' => Decided(p)
        BY <1>1, <1>4 DEF Signal, Decided
    <2> QED BY <2>1, <2>2 DEF EarnInv, Earned, Announced, Readable
<1>5. CASE Notify(k)
    <2>1. UNCHANGED <<file, copy, turn>> /\ marker' = copy[k].status /\ Decided(k)
        BY <1>1, <1>5 DEF Notify, Decided
    <2>2. \A p \in Process \ {Client} : Decided(p)' => Decided(p)
        BY <1>1, <1>5 DEF Notify, Decided, TypeInv, JobTypeOK
    <2> QED BY <1>1, <2>1, <2>2 DEF EarnInv, Earned, Announced, Readable
<1> QED BY <1>2, <1>3, <1>4, <1>5

LEMMA CrashEarn ==
    ASSUME TypeInv, EarnInv, NEW p \in {Client, Worker}, Crash(p) PROVE EarnInv'
<1>1. UNCHANGED <<file, copy, turn, marker>>
    BY DEF Crash
<1>2. \A q \in Process \ {Client} : Decided(q)' => Decided(q)
    BY Processes DEF Crash, Decided, TypeInv, JobTypeOK
<1> QED BY <1>1, <1>2 DEF EarnInv, Earned, Announced, Readable

LEMMA NextEarn == TypeInv /\ EarnInv /\ [Next]_jobVars => EarnInv'
<1> SUFFICES ASSUME TypeInv, EarnInv, [Next]_jobVars PROVE EarnInv'
    OBVIOUS
<1>1. CASE UNCHANGED jobVars
    BY <1>1 DEF EarnInv, Earned, Announced, Decided, Readable, jobVars
<1> QED BY <1>1, ClientEarn, WorkerEarn, CancelEarn, CrashEarn DEF Next, CancelNext

\* run_job_inline, _notify: whatever the races of server, worker and cancellations
\* make of the file, no record and no announcement calls a job a success whose turn
\* was none, and none is announced that is not over or paused.
THEOREM SuccessesAreEarned == Spec => []SuccessIsEarned
<1>1. EarnInv => SuccessIsEarned
    BY DEF EarnInv, Earned, Announced, SuccessIsEarned
<1>2. TypeInv /\ EarnInv /\ [Next]_jobVars => TypeInv' /\ EarnInv'
    BY NextType, NextEarn
<1> QED BY InitType, InitEarn, <1>1, <1>2, PTL DEF Spec

-----------------------------------------------------------------------------
\* What was asked for is kept, unless an update is lost

\* The processes whose copy is a record they loaded, or the one they made.
Bears(p) == pc[p] \notin {"absent", "boot", "load", "cancel", "gone"}

\* As long as no write undid another one, what was asked for is in the file and in
\* every copy that is up to date.
Kept ==
    /\ \A p \in Process : copy[p].cancel => copy[p].status # "success"
    /\ Readable /\ file.cancel => file.status # "success"
    /\ \A k \in Canceller : pc[k] \in {"request", "signal", "notify"} => copy[k].cancel
    /\ (killed \/ \E k \in Canceller : pc[k] = "signal") => asked
    /\ ~lost /\ asked =>
          /\ \A p \in fresh : Bears(p) => copy[p].cancel
          /\ Readable => file.cancel

LEMMA InitKept == JobInit => Kept
<1> SUFFICES ASSUME JobInit PROVE Kept
    OBVIOUS
<1>1. ~Readable /\ \A p \in Process : ~copy[p].cancel
    BY NotRecords DEF JobInit, Readable, NewJob
<1>2. \A k \in Canceller : pc[k] = "cancel"
    BY Processes DEF JobInit
<1> QED BY <1>1, <1>2 DEF JobInit, Kept

\* A record is loaded, changed and kept.
LEMMA GoesKept ==
    ASSUME TypeInv, Kept, NEW p \in Process, NEW r \in Record, NEW next,
           Goes(p, r, next), Loads(p), UNCHANGED <<file, lost, asked, killed>>,
           r.cancel => r.status # "success",
           p \in Canceller => next # "signal" /\ (next \in {"request", "notify"} => r.cancel),
           \/ next \in {"load", "gone"}
           \/ /\ Readable /\ file.cancel => r.cancel
              /\ ~Readable => r.cancel = copy[p].cancel /\ Bears(p)
    PROVE  Kept'
<1>1. /\ copy'[p] = r /\ pc'[p] = next /\ Readable' = Readable
      /\ \A q \in Process \ {p} : copy'[q] = copy[q] /\ pc'[q] = pc[q]
      /\ \A q \in fresh' : q \in fresh \/ (q = p /\ Readable)
    BY GoesFacts
<1>2. \A q \in Process : copy'[q].cancel => copy'[q].status # "success"
    BY <1>1 DEF Kept
<1>3. \A k \in Canceller : pc'[k] \in {"request", "signal", "notify"} => copy'[k].cancel
    BY <1>1, Processes DEF Kept
<1>4. (killed' \/ \E k \in Canceller : pc'[k] = "signal") => asked'
    BY <1>1, Processes DEF Kept
<1>5. ASSUME ~lost, asked, NEW q \in fresh', Bears(q)' PROVE copy'[q].cancel
    <2>1. q \in Process
        BY <1>1 DEF TypeInv, JobTypeOK
    <2>2. CASE q = p
        BY <1>1, <1>5, <2>2 DEF Kept, Bears
    <2>3. CASE q # p
        BY <1>1, <1>5, <2>1, <2>3 DEF Kept, Bears
    <2> QED BY <2>2, <2>3
<1> QED BY <1>1, <1>2, <1>3, <1>4, <1>5 DEF Kept

\* A copy is written: by a process whose copy is up to date, or an update is lost.
LEMMA WriteKept ==
    ASSUME TypeInv, Kept, NEW p \in Process, NEW next, Write(p, next), pc[p] \in Saving,
           p \in Canceller => pc[p] = "request"
    PROVE  Kept'
<1>1. /\ pc'[p] = next /\ \A q \in Process \ {p} : pc'[q] = pc[q]
      /\ copy' = copy /\ killed' = killed /\ fresh' = {p} /\ lost' = (lost \/ p \notin fresh)
      /\ asked' = (asked \/ copy[p].cancel)
      /\ Readable' => file' = copy[p]
    BY WriteFacts
<1>2. Bears(p)
    BY DEF Bears, Saving
<1>3. \A k \in Canceller : k = p => copy[k].cancel
    BY DEF Kept
<1>4. ~lost' /\ asked' => copy[p].cancel
    BY <1>1, <1>2 DEF Kept
<1>5. (killed' \/ \E k \in Canceller : pc'[k] = "signal") => asked'
    BY <1>1, <1>3, Processes DEF Kept
<1>6. \A k \in Canceller : pc'[k] \in {"request", "signal", "notify"} => copy'[k].cancel
    BY <1>1, <1>3, Processes DEF Kept
<1> QED BY <1>1, <1>4, <1>5, <1>6 DEF Kept

LEMMA SaveKept ==
    ASSUME TypeInv, Kept, NEW p \in Process, NEW next, Save(p, next), pc[p] \in Saving,
           p \in Canceller => pc[p] = "request"
    PROVE  Kept'
<1>1. CASE Open(p)
    BY <1>1, OpenFacts DEF Kept, Bears
<1>2. CASE Write(p, next)
    BY <1>2, WriteKept
<1> QED BY <1>1, <1>2 DEF Save

\* A process that neither loads nor writes goes on.
LEMMA MoveKept ==
    ASSUME TypeInv, Kept, UNCHANGED <<file, copy, fresh, lost, asked>>,
           \A p \in Process : Bears(p)' => Bears(p) \/ p \notin fresh,
           \A k \in Canceller : pc'[k] = pc[k] \/ (pc'[k] \in {"notify", "gone"} /\ Decided(k)),
           killed' = killed \/ \E k \in Canceller : pc[k] = "signal"
    PROVE  Kept'
<1>1. fresh \subseteq Process
    BY DEF TypeInv, JobTypeOK
<1>2. \A k \in Canceller : pc'[k] \in {"request", "signal", "notify"} =>
          pc[k] \in {"request", "signal", "notify"}
    BY Processes DEF Decided
<1>3. (killed' \/ \E k \in Canceller : pc'[k] = "signal") => asked'
    BY <1>2 DEF Kept
<1> QED BY <1>1, <1>2, <1>3 DEF Kept, Readable

LEMMA ReloadedKept ==
    ASSUME TypeInv, Kept, NEW p \in Process
    PROVE  /\ Reloaded(p).cancel => Reloaded(p).status # "success"
           /\ Readable => Reloaded(p) = file
           /\ ~Readable => Reloaded(p) = copy[p]
  BY DEF Kept, Reloaded

LEMMA ClientKept == ASSUME TypeInv, Kept, ClientNext PROVE Kept'
<1>1. Client \in Process /\ Worker \in Process /\ Client \notin Canceller
    BY Processes
<1>2. CASE Enqueue \/ Queue \/ Bound
    BY <1>1, <1>2, SaveKept DEF Enqueue, Queue, Bound, Saving
<1>3. CASE Spawn
    <2>1. UNCHANGED <<file, copy, fresh, lost, asked, killed>>
        BY <1>3 DEF Spawn, ends
    <2>2. /\ pc'[Client] = "bind" /\ pc'[Worker] = "boot" /\ pc[Client] = "spawn"
          /\ \A q \in Process \ {Client, Worker} : pc'[q] = pc[q]
        BY <1>3, Processes DEF Spawn, TypeInv, JobTypeOK
    <2>3. \A p \in Process : Bears(p)' => Bears(p)
        BY <2>2 DEF Bears
    <2> QED BY <2>1, <2>2, <2>3, MoveKept, Processes
<1>4. CASE Start
    <2>1. PICK r \in Record : StartTo(r)
        BY <1>4, StartGoes
    <2>2. Loads(Client) /\ UNCHANGED <<file, lost, asked, killed>>
        BY <1>4, StartGoes DEF Elsewhere, ends
    <2>3. r.cancel => r.status # "success"
        BY <1>1, <2>1 DEF StartTo, Kept
    <2> QED BY <1>1, <2>1, <2>2, <2>3, GoesKept DEF StartTo
<1>5. CASE Bind
    <2>1. PICK r \in Record : BindTo(r)
        BY <1>5, BindGoes
    <2>2. Loads(Client) /\ UNCHANGED <<file, lost, asked, killed>> /\ pc[Client] = "bind"
        BY <1>5, BindGoes DEF Elsewhere, ends
    <2>3. /\ r.cancel => r.status # "success"
          /\ Goes(Client, r, "bound") /\ r.cancel = Reloaded(Client).cancel /\ Bears(Client)
        BY <1>1, <2>1, <2>2, ReloadedKept DEF BindTo, Bears
    <2> QED BY <1>1, <2>2, <2>3, ReloadedKept, GoesKept
<1> QED BY <1>2, <1>3, <1>4, <1>5 DEF ClientNext

LEMMA WorkerKept == ASSUME TypeInv, Kept, WorkerNext PROVE Kept'
<1>1. Client \in Process /\ Worker \in Process /\ Worker # Client /\ Worker \notin Canceller
    BY Processes
<1>2. CASE Run \/ Attach \/ Finish
    BY <1>1, <1>2, SaveKept DEF Run, Attach, Finish, Saving
<1>3. CASE Boot
    <2>1. PICK r \in Record : BootTo(r)
        BY <1>3, BootGoes
    <2>2. Loads(Worker) /\ UNCHANGED <<file, lost, asked, killed>>
        BY <1>3, BootGoes DEF Elsewhere, ends
    <2>3. r.cancel => r.status # "success"
        BY <1>1, <2>1 DEF BootTo, Kept
    <2> QED BY <1>1, <2>1, <2>2, <2>3, GoesKept DEF BootTo
<1>4. CASE Load
    <2>1. PICK r \in Record : LoadTo(r)
        BY <1>4, LoadGoes
    <2>2. Loads(Worker) /\ UNCHANGED <<file, lost, asked, killed>>
        BY <1>4, LoadGoes DEF Elsewhere, ends
    <2>3. r.cancel => r.status # "success"
        BY <1>1, <2>1 DEF LoadTo, Kept
    <2> QED BY <1>1, <2>1, <2>2, <2>3, GoesKept DEF LoadTo, Like
<1>5. CASE Submit
    <2>1. PICK r \in Record : SubmitTo(r)
        BY <1>5, SubmitGoes
    <2>2. Loads(Worker) /\ UNCHANGED <<file, lost, asked, killed>> /\ pc[Worker] = "submit"
        BY <1>5, SubmitGoes DEF ends
    <2>3. Goes(Worker, r, "attach") /\ r.status # "success" /\ r.cancel = Reloaded(Worker).cancel /\ Bears(Worker)
        BY <2>1, <2>2 DEF SubmitTo, Bears
    <2> QED BY <1>1, <2>2, <2>3, ReloadedKept, GoesKept
<1>6. CASE Report
    <2>1. PICK r \in Record : ReportTo(r)
        BY <1>6, ReportGoes
    <2>2. Loads(Worker) /\ UNCHANGED <<file, lost, asked, killed>> /\ pc[Worker] = "report"
        BY <1>6, ReportGoes DEF Elsewhere, ends
    <2>3. r.cancel => r.status # "success"
        BY <1>1, <2>1, <2>2, ReloadedType, VerdictType DEF ReportTo, Like
    <2>4. Goes(Worker, r, "finish") /\ r.cancel = Reloaded(Worker).cancel /\ Bears(Worker)
        BY <2>1, <2>2 DEF ReportTo, Bears, Like
    <2> QED BY <1>1, <2>2, <2>3, <2>4, ReloadedKept, GoesKept
<1>7. CASE SubmitRaises \/ Await \/ Notify(Worker)
    <2>1. UNCHANGED <<file, copy, fresh, lost, asked, killed>>
        BY <1>7 DEF SubmitRaises, Await, Notify, ends
    <2>2. /\ pc[Worker] \in {"submit", "await", "notify"}
          /\ \A q \in Process \ {Worker} : pc'[q] = pc[q]
        BY <1>1, <1>7 DEF SubmitRaises, Await, Notify, TypeInv, JobTypeOK
    <2>3. \A p \in Process : Bears(p)' => Bears(p)
        BY <2>2 DEF Bears
    <2> QED BY <2>1, <2>2, <2>3, MoveKept, Processes
<1> QED BY <1>2, <1>3, <1>4, <1>5, <1>6, <1>7 DEF WorkerNext

LEMMA CancelKept ==
    ASSUME TypeInv, Kept, NEW k \in Canceller,
           RequestCancel(k) \/ Requested(k) \/ Signal(k) \/ Notify(k)
    PROVE  Kept'
<1>1. k \in Process /\ k # Client /\ k # Worker /\ Worker \in Process
    BY Processes
<1>2. CASE Requested(k)
    BY <1>1, <1>2, SaveKept DEF Requested, Saving
<1>3. CASE RequestCancel(k)
    <2>1. PICK r \in Record : RequestTo(k, r)
        BY <1>3, RequestGoes
    <2>2. Loads(k) /\ UNCHANGED <<file, lost, asked, killed>>
        BY <1>3, RequestGoes DEF Elsewhere, ends
    <2>3. PICK next \in {"gone", "request"} :
              /\ Goes(k, r, next)
              /\ r.cancel => r.status # "success"
              /\ next = "request" => r.cancel /\ Readable
        BY <1>1, <2>1 DEF RequestTo, Active, Terminal, Kept
    <2> QED BY <1>1, <2>2, <2>3, GoesKept
<1>4. CASE Signal(k)
    <2>1. UNCHANGED <<file, copy, fresh, lost, asked>> /\ pc[k] = "signal"
        BY <1>4 DEF Signal
    <2>2. \A p \in Process : Bears(p)' => Bears(p)
        BY <1>1, <1>4 DEF Signal, Bears
    <2>3. \A j \in Canceller : pc'[j] = pc[j] \/ (pc'[j] \in {"notify", "gone"} /\ Decided(j))
        BY <1>1, <1>4, Processes DEF Signal, Decided
    <2> QED BY <2>1, <2>2, <2>3, MoveKept
<1>5. CASE Notify(k)
    <2>1. UNCHANGED <<file, copy, fresh, lost, asked, killed>> /\ pc[k] = "notify"
        BY <1>5 DEF Notify, ends
    <2>2. /\ pc'[k] = "gone" /\ \A q \in Process \ {k} : pc'[q] = pc[q]
        BY <1>1, <1>5 DEF Notify, TypeInv, JobTypeOK
    <2>3. \A p \in Process : Bears(p)' => Bears(p)
        BY <2>2 DEF Bears
    <2>4. \A j \in Canceller : pc'[j] = pc[j] \/ (pc'[j] \in {"notify", "gone"} /\ Decided(j))
        BY <1>1, <2>1, <2>2, Processes DEF Decided
    <2> QED BY <2>1, <2>3, <2>4, MoveKept
<1> QED BY <1>2, <1>3, <1>4, <1>5

LEMMA CrashKept ==
    ASSUME TypeInv, Kept, NEW p \in {Client, Worker}, Crash(p) PROVE Kept'
<1>1. UNCHANGED <<file, copy, fresh, lost, asked, killed>>
    BY DEF Crash
<1>2. pc'[p] = "gone" /\ \A q \in Process \ {p} : pc'[q] = pc[q]
    BY Processes DEF Crash, TypeInv, JobTypeOK
<1>3. \A q \in Process : Bears(q)' => Bears(q)
    BY <1>2 DEF Bears
<1> QED BY <1>1, <1>2, <1>3, MoveKept, Processes

LEMMA NextKept == TypeInv /\ Kept /\ [Next]_jobVars => Kept'
<1> SUFFICES ASSUME TypeInv, Kept, [Next]_jobVars PROVE Kept'
    OBVIOUS
<1>1. CASE UNCHANGED jobVars
    BY <1>1 DEF Kept, Bears, Readable, jobVars, ends
<1> QED BY <1>1, ClientKept, WorkerKept, CancelKept, CrashKept DEF Next, CancelNext

\* save_job, cancel_job: without a lost update, a job whose cancellation was written
\* says so for ever, and is no success.
THEOREM CancelsAreKept == Spec => []CancelIsForgottenByRaceOnly
<1>1. Kept => CancelIsForgottenByRaceOnly
    BY DEF Kept, CancelIsForgottenByRaceOnly
<1>2. TypeInv /\ Kept /\ [Next]_jobVars => TypeInv' /\ Kept'
    BY NextType, NextKept
<1> QED BY InitType, InitKept, <1>1, <1>2, PTL DEF Spec

-----------------------------------------------------------------------------
\* Whoever asks for a job finds its turn while it runs

\* Unless an update is lost, the turn is in the file and in every copy that is up to
\* date.
TurnIsBound ==
    /\ pc[Worker] = "attach" => copy[Worker].turn /\ copy[Worker].pid
    /\ ~lost /\ pc[Worker] = "await" =>
          /\ \A p \in fresh : Bears(p) => copy[p].turn /\ copy[p].pid
          /\ Readable => file.turn /\ file.pid

LEMMA InitBound == JobInit => TurnIsBound
  BY Processes DEF JobInit, TurnIsBound

\* r says no less than b of the turn and its worker.
Names(r, b) == (b.turn => r.turn) /\ (b.pid => r.pid)

LEMMA GoesBound ==
    ASSUME TypeInv, TurnIsBound, NEW p \in Process, NEW r \in Record, NEW next,
           Goes(p, r, next), Loads(p), UNCHANGED <<file, lost>>,
           p = Worker => next # "await" /\ (next = "attach" => r.turn /\ r.pid),
           p # Worker => \/ next = "gone"
                         \/ /\ Readable => Names(r, file)
                            /\ ~Readable => Names(r, copy[p]) /\ Bears(p)
    PROVE  TurnIsBound'
<1>1. /\ copy'[p] = r /\ pc'[p] = next /\ Readable' = Readable
      /\ \A q \in Process \ {p} : copy'[q] = copy[q] /\ pc'[q] = pc[q]
      /\ \A q \in fresh' : q \in fresh \/ (q = p /\ Readable)
      /\ fresh \subseteq Process /\ Worker \in Process
    BY GoesFacts, Processes DEF TypeInv, JobTypeOK
<1>2. pc'[Worker] = "attach" => copy'[Worker].turn /\ copy'[Worker].pid
    BY <1>1 DEF TurnIsBound
<1>3. ASSUME ~lost, pc'[Worker] = "await", NEW q \in fresh', Bears(q)'
      PROVE  copy'[q].turn /\ copy'[q].pid
    <2>1. pc[Worker] = "await" /\ p # Worker
        BY <1>1, <1>3
    <2>2. CASE q = p
        BY <1>1, <1>3, <2>1, <2>2 DEF TurnIsBound, Bears, Names
    <2>3. CASE q # p
        BY <1>1, <1>3, <2>1, <2>3 DEF TurnIsBound, Bears
    <2> QED BY <2>2, <2>3
<1>4. ~lost /\ pc'[Worker] = "await" /\ Readable => file.turn /\ file.pid
    BY <1>1 DEF TurnIsBound
<1> QED BY <1>1, <1>2, <1>3, <1>4 DEF TurnIsBound

LEMMA SaveBound ==
    ASSUME TypeInv, TurnIsBound, NEW p \in Process, NEW next, Save(p, next), pc[p] \in Saving,
           p = Worker => next # "attach" /\ (next = "await" => pc[p] = "attach")
    PROVE  TurnIsBound'
<1>1. CASE Open(p)
    BY <1>1, OpenFacts DEF TurnIsBound, Bears
<1>2. CASE Write(p, next)
    <2>1. /\ pc'[p] = next /\ \A q \in Process \ {p} : pc'[q] = pc[q]
          /\ copy' = copy /\ fresh' = {p} /\ lost' = (lost \/ p \notin fresh)
          /\ Readable' => file' = copy[p]
        BY <1>2, WriteFacts
    <2>2. Bears(p) /\ Worker \in Process
        BY Processes DEF Bears, Saving
    <2>3. ~lost' /\ pc'[Worker] = "await" => copy[p].turn /\ copy[p].pid
        BY <2>1, <2>2 DEF TurnIsBound
    <2>4. pc'[Worker] = "attach" => copy'[Worker].turn /\ copy'[Worker].pid
        BY <2>1, <2>2 DEF TurnIsBound
    <2> QED BY <2>1, <2>3, <2>4 DEF TurnIsBound
<1> QED BY <1>1, <1>2 DEF Save

LEMMA MoveBound ==
    ASSUME TypeInv, TurnIsBound, UNCHANGED <<file, copy, fresh, lost>>,
           \A p \in Process : Bears(p)' => Bears(p) \/ p \notin fresh,
           pc'[Worker] \in {"attach", "await"} => pc'[Worker] = pc[Worker]
    PROVE  TurnIsBound'
<1>1. fresh \subseteq Process
    BY DEF TypeInv, JobTypeOK
<1> QED BY <1>1 DEF TurnIsBound, Readable

LEMMA ClientBound == ASSUME TypeInv, TurnIsBound, ClientNext PROVE TurnIsBound'
<1>1. Client \in Process /\ Worker \in Process /\ Client # Worker
    BY Processes
<1>2. CASE Enqueue \/ Queue \/ Bound
    BY <1>1, <1>2, SaveBound DEF Enqueue, Queue, Bound, Saving
<1>3. CASE Spawn
    <2>1. UNCHANGED <<file, copy, fresh, lost>>
        BY <1>3 DEF Spawn
    <2>2. /\ pc'[Client] = "bind" /\ pc'[Worker] = "boot" /\ pc[Client] = "spawn"
          /\ \A q \in Process \ {Client, Worker} : pc'[q] = pc[q]
        BY <1>3, Processes DEF Spawn, TypeInv, JobTypeOK
    <2>3. \A p \in Process : Bears(p)' => Bears(p)
        BY <2>2 DEF Bears
    <2> QED BY <2>1, <2>2, <2>3, MoveBound
<1>4. CASE Start
    <2>1. PICK r \in Record : StartTo(r)
        BY <1>4, StartGoes
    <2>2. Loads(Client) /\ UNCHANGED <<file, lost>>
        BY <1>4, StartGoes DEF Elsewhere
    <2> QED BY <1>1, <2>1, <2>2, GoesBound DEF StartTo, Like, Names
<1>5. CASE Bind
    <2>1. PICK r \in Record : BindTo(r)
        BY <1>5, BindGoes
    <2>2. Loads(Client) /\ UNCHANGED <<file, lost>> /\ Bears(Client)
        BY <1>5, BindGoes DEF Elsewhere, Bears
    <2> QED BY <1>1, <2>1, <2>2, GoesBound DEF BindTo, Reloaded, Names
<1> QED BY <1>2, <1>3, <1>4, <1>5 DEF ClientNext

LEMMA WorkerBound == ASSUME TypeInv, TurnIsBound, WorkerNext PROVE TurnIsBound'
<1>1. Client \in Process /\ Worker \in Process /\ Worker # Client
    BY Processes
<1>2. CASE Run \/ Attach \/ Finish
    BY <1>1, <1>2, SaveBound DEF Run, Attach, Finish, Saving
<1>3. CASE Boot
    <2>1. PICK r \in Record : BootTo(r)
        BY <1>3, BootGoes
    <2>2. Loads(Worker) /\ UNCHANGED <<file, lost>>
        BY <1>3, BootGoes DEF Elsewhere
    <2> QED BY <1>1, <2>1, <2>2, GoesBound DEF BootTo
<1>4. CASE Load
    <2>1. PICK r \in Record : LoadTo(r)
        BY <1>4, LoadGoes
    <2>2. Loads(Worker) /\ UNCHANGED <<file, lost>>
        BY <1>4, LoadGoes DEF Elsewhere
    <2> QED BY <1>1, <2>1, <2>2, GoesBound DEF LoadTo
<1>5. CASE Submit
    <2>1. PICK r \in Record : SubmitTo(r)
        BY <1>5, SubmitGoes
    <2>2. Loads(Worker) /\ UNCHANGED <<file, lost>>
        BY <1>5, SubmitGoes
    <2> QED BY <1>1, <2>1, <2>2, GoesBound DEF SubmitTo
<1>6. CASE Report
    <2>1. PICK r \in Record : ReportTo(r)
        BY <1>6, ReportGoes
    <2>2. Loads(Worker) /\ UNCHANGED <<file, lost>>
        BY <1>6, ReportGoes DEF Elsewhere
    <2> QED BY <1>1, <2>1, <2>2, GoesBound DEF ReportTo
<1>7. CASE SubmitRaises \/ Await \/ Notify(Worker)
    <2>1. UNCHANGED <<file, copy, fresh, lost>>
        BY <1>7 DEF SubmitRaises, Await, Notify
    <2>2. /\ pc[Worker] \in {"submit", "await", "notify"} /\ pc'[Worker] \in {"report", "gone"}
          /\ \A q \in Process \ {Worker} : pc'[q] = pc[q]
        BY <1>1, <1>7 DEF SubmitRaises, Await, Notify, TypeInv, JobTypeOK
    <2>3. \A p \in Process : Bears(p)' => Bears(p)
        BY <2>2 DEF Bears
    <2> QED BY <2>1, <2>2, <2>3, MoveBound
<1> QED BY <1>2, <1>3, <1>4, <1>5, <1>6, <1>7 DEF WorkerNext

LEMMA CancelBound ==
    ASSUME TypeInv, TurnIsBound, NEW k \in Canceller,
           RequestCancel(k) \/ Requested(k) \/ Signal(k) \/ Notify(k)
    PROVE  TurnIsBound'
<1>1. k \in Process /\ k # Client /\ k # Worker /\ Worker \in Process
    BY Processes
<1>2. CASE Requested(k)
    BY <1>1, <1>2, SaveBound DEF Requested, Saving
<1>3. CASE RequestCancel(k)
    <2>1. PICK r \in Record : RequestTo(k, r)
        BY <1>3, RequestGoes
    <2>2. Loads(k) /\ UNCHANGED <<file, lost>>
        BY <1>3, RequestGoes DEF Elsewhere
    <2> QED BY <1>1, <2>1, <2>2, GoesBound DEF RequestTo, Names
<1>4. CASE Signal(k)
    <2>1. UNCHANGED <<file, copy, fresh, lost>> /\ pc[k] = "signal"
        BY <1>4 DEF Signal
    <2>2. pc'[k] = "notify" /\ \A q \in Process \ {k} : pc'[q] \in {pc[q], "gone"}
        BY <1>1, <1>4 DEF Signal
    <2>3. \A p \in Process : Bears(p)' => Bears(p)
        BY <1>1, <2>1, <2>2 DEF Bears
    <2> QED BY <1>1, <2>1, <2>2, <2>3, MoveBound
<1>5. CASE Notify(k)
    <2>1. UNCHANGED <<file, copy, fresh, lost>> /\ pc[k] = "notify"
        BY <1>5 DEF Notify
    <2>2. /\ pc'[k] = "gone" /\ \A q \in Process \ {k} : pc'[q] = pc[q]
        BY <1>1, <1>5 DEF Notify, TypeInv, JobTypeOK
    <2>3. \A p \in Process : Bears(p)' => Bears(p)
        BY <2>2 DEF Bears
    <2> QED BY <1>1, <2>1, <2>2, <2>3, MoveBound
<1> QED BY <1>2, <1>3, <1>4, <1>5

LEMMA CrashBound ==
    ASSUME TypeInv, TurnIsBound, NEW p \in {Client, Worker}, Crash(p) PROVE TurnIsBound'
<1>1. UNCHANGED <<file, copy, fresh, lost>>
    BY DEF Crash
<1>2. pc'[p] = "gone" /\ \A q \in Process \ {p} : pc'[q] = pc[q]
    BY Processes DEF Crash, TypeInv, JobTypeOK
<1>3. \A q \in Process : Bears(q)' => Bears(q)
    BY <1>2 DEF Bears
<1> QED BY <1>1, <1>2, <1>3, MoveBound, Processes

LEMMA NextBound == TypeInv /\ TurnIsBound /\ [Next]_jobVars => TurnIsBound'
<1> SUFFICES ASSUME TypeInv, TurnIsBound, [Next]_jobVars PROVE TurnIsBound'
    OBVIOUS
<1>1. CASE UNCHANGED jobVars
    BY <1>1 DEF TurnIsBound, Bears, Readable, jobVars
<1> QED BY <1>1, ClientBound, WorkerBound, CancelBound, CrashBound DEF Next, CancelNext

\* attach_info: without a lost update, the record that a reader finds while the turn
\* runs under its worker names the turn and the worker.
THEOREM TurnsAreFound == Spec => []AttachFindsTheTurn
<1>1. TurnIsBound => AttachFindsTheTurn
    BY DEF TurnIsBound, AttachFindsTheTurn
<1>2. TypeInv /\ TurnIsBound /\ [Next]_jobVars => TypeInv' /\ TurnIsBound'
    BY NextType, NextBound
<1> QED BY InitType, InitBound, <1>1, <1>2, PTL DEF Spec

-----------------------------------------------------------------------------
\* Who may leave a job that is not over

Untouched(r) == r.status = IF r.cancel THEN "cancelled" ELSE "queued"

Early == {"absent", "boot", "load"}

\* Before the worker looks at the job nobody but a cancellation changes its status;
\* the server waits for nobody it has not started.
Unlooked ==
    /\ pc[Worker] \in Early =>
           /\ \A p \in Process : Untouched(copy[p])
           /\ Readable => Untouched(file)
    /\ pc[Worker] = "absent" => pc[Client] \notin {"bind", "bound"}

LEMMA InitUnlooked == JobInit => Unlooked
<1> SUFFICES ASSUME JobInit PROVE Unlooked
    OBVIOUS
<1>1. ~Readable /\ \A p \in Process : Untouched(copy[p])
    BY NotRecords DEF JobInit, Readable, NewJob, Untouched
<1>2. pc[Client] = "enqueue"
    BY Processes DEF JobInit
<1> QED BY <1>1, <1>2 DEF Unlooked

LEMMA GoesUnlooked ==
    ASSUME TypeInv, Unlooked, NEW p \in Process, NEW r \in Record, NEW next,
           Goes(p, r, next), Loads(p), UNCHANGED file,
           p = Worker /\ next \in Early => pc[Worker] \in Early \ {"absent"} /\ next # "absent",
           pc[Worker] \in Early /\ (p = Worker => next \in Early) => Untouched(r),
           p = Client /\ next \in {"bind", "bound"} => pc[Client] \in {"bind", "bound"}
    PROVE  Unlooked'
<1>1. /\ copy'[p] = r /\ pc'[p] = next /\ Readable' = Readable
      /\ \A q \in Process \ {p} : copy'[q] = copy[q] /\ pc'[q] = pc[q]
      /\ Client \in Process /\ Worker \in Process
    BY GoesFacts, Processes
<1>2. pc'[Worker] \in Early => pc[Worker] \in Early /\ (p = Worker => next \in Early)
    BY <1>1
<1>3. pc'[Worker] \in Early => \A q \in Process : Untouched(copy'[q])
    BY <1>1, <1>2 DEF Unlooked
<1>4. pc'[Worker] \in Early /\ Readable => Untouched(file)
    BY <1>2 DEF Unlooked
<1>5. pc'[Worker] = "absent" => pc'[Client] \notin {"bind", "bound"}
    BY <1>1 DEF Unlooked, Early
<1> QED BY <1>1, <1>3, <1>4, <1>5 DEF Unlooked, Untouched

LEMMA SaveUnlooked ==
    ASSUME TypeInv, Unlooked, NEW p \in Process, NEW next, Save(p, next),
           p = Worker => next \notin Early, p = Client => next \notin {"bind", "bound"}
    PROVE  Unlooked'
<1>1. CASE Open(p)
    BY <1>1, OpenFacts DEF Unlooked, Untouched
<1>2. CASE Write(p, next)
    <2>1. /\ pc'[p] = next /\ \A q \in Process \ {p} : pc'[q] = pc[q]
          /\ copy' = copy /\ (Readable' => file' = copy[p])
        BY <1>2, WriteFacts
    <2>2. pc'[Worker] \in Early => pc[Worker] \in Early /\ \A q \in Process : Untouched(copy[q])
        BY <2>1, Processes DEF Unlooked
    <2>3. pc'[Worker] = "absent" => pc'[Client] \notin {"bind", "bound"}
        BY <2>1, Processes DEF Unlooked, Early
    <2> QED BY <2>1, <2>2, <2>3 DEF Unlooked, Untouched
<1> QED BY <1>1, <1>2 DEF Save

LEMMA MoveUnlooked ==
    ASSUME TypeInv, Unlooked, UNCHANGED <<file, copy>>,
           pc'[Worker] \in Early => pc[Worker] \in Early,
           pc'[Worker] = "absent" => pc[Worker] = "absent" /\ pc'[Client] \in {pc[Client], "gone"}
    PROVE  Unlooked'
  BY DEF Unlooked, Untouched, Readable

LEMMA UnlookedFile ==
    ASSUME TypeInv, Unlooked, pc[Worker] \in Early, Readable
    PROVE  file.status = IF file.cancel THEN "cancelled" ELSE "queued"
  BY DEF Unlooked, Untouched

LEMMA ClientUnlooked == ASSUME TypeInv, Unlooked, ClientNext PROVE Unlooked'
<1>1. Client \in Process /\ Worker \in Process /\ Client # Worker
    BY Processes
<1>2. CASE Enqueue \/ Queue \/ Bound
    BY <1>1, <1>2, SaveUnlooked DEF Enqueue, Queue, Bound
<1>3. CASE Spawn
    <2>1. UNCHANGED <<file, copy>> /\ pc'[Worker] = "boot" /\ pc[Client] = "spawn"
        BY <1>1, <1>3 DEF Spawn, TypeInv, JobTypeOK
    <2>2. pc[Worker] = "absent"
        BY <2>1 DEF TypeInv, WorkerFollows
    <2> QED BY <2>1, <2>2, MoveUnlooked DEF Early
<1>4. CASE Start
    <2>1. PICK r \in Record : StartTo(r)
        BY <1>4, StartGoes
    <2>2. Loads(Client) /\ UNCHANGED file
        BY <1>4, StartGoes DEF Elsewhere
    <2>3. pc[Worker] \in Early => Untouched(r)
        BY <1>1, <2>1 DEF StartTo, Like, Unlooked, Untouched
    <2>4. PICK next \in {"queue", "gone"} : Goes(Client, r, next)
        BY <2>1 DEF StartTo
    <2> QED BY <1>1, <2>2, <2>3, <2>4, GoesUnlooked
<1>5. CASE Bind
    <2>1. PICK r \in Record : BindTo(r)
        BY <1>5, BindGoes
    <2>2. Loads(Client) /\ UNCHANGED file /\ pc[Client] = "bind"
        BY <1>5, BindGoes DEF Elsewhere
    <2>3. pc[Worker] \in Early => Untouched(r)
        BY <1>1, <2>1 DEF BindTo, Reloaded, Unlooked, Untouched
    <2>4. Goes(Client, r, "bound")
        BY <2>1 DEF BindTo
    <2> QED BY <1>1, <2>2, <2>3, <2>4, GoesUnlooked
<1> QED BY <1>2, <1>3, <1>4, <1>5 DEF ClientNext

LEMMA WorkerUnlooked == ASSUME TypeInv, Unlooked, WorkerNext PROVE Unlooked'
<1>1. Client \in Process /\ Worker \in Process /\ Worker # Client
    BY Processes
<1>2. CASE Run \/ Attach \/ Finish
    BY <1>1, <1>2, SaveUnlooked DEF Run, Attach, Finish, Early
<1>3. CASE Boot
    <2>1. PICK r \in Record : BootTo(r)
        BY <1>3, BootGoes
    <2>2. Loads(Worker) /\ UNCHANGED file /\ pc[Worker] = "boot"
        BY <1>3, BootGoes DEF Elsewhere
    <2>3. Untouched(r)
        BY <1>1, <2>1, <2>2 DEF BootTo, Unlooked, Early
    <2>4. PICK next \in {"load", "gone"} : Goes(Worker, r, next)
        BY <2>1 DEF BootTo
    <2> QED BY <1>1, <2>2, <2>3, <2>4, GoesUnlooked DEF Early
<1>4. CASE Load
    <2>1. PICK r \in Record : LoadTo(r)
        BY <1>4, LoadGoes
    <2>2. Loads(Worker) /\ UNCHANGED file
        BY <1>4, LoadGoes DEF Elsewhere
    <2>3. PICK next \in {"run", "finish", "gone"} : Goes(Worker, r, next)
        BY <2>1 DEF LoadTo
    <2> QED BY <1>1, <2>2, <2>3, GoesUnlooked DEF Early
<1>5. CASE Submit
    <2>1. PICK r \in Record : SubmitTo(r)
        BY <1>5, SubmitGoes
    <2>2. Loads(Worker) /\ UNCHANGED file
        BY <1>5, SubmitGoes
    <2> QED BY <1>1, <2>1, <2>2, GoesUnlooked DEF SubmitTo, Early
<1>6. CASE Report
    <2>1. PICK r \in Record : ReportTo(r)
        BY <1>6, ReportGoes
    <2>2. Loads(Worker) /\ UNCHANGED file
        BY <1>6, ReportGoes DEF Elsewhere
    <2> QED BY <1>1, <2>1, <2>2, GoesUnlooked DEF ReportTo, Early
<1>7. CASE SubmitRaises \/ Await \/ Notify(Worker)
    <2>1. UNCHANGED <<file, copy>> /\ pc'[Worker] \in {"report", "gone"}
        BY <1>1, <1>7 DEF SubmitRaises, Await, Notify, TypeInv, JobTypeOK
    <2> QED BY <2>1, MoveUnlooked DEF Early
<1> QED BY <1>2, <1>3, <1>4, <1>5, <1>6, <1>7 DEF WorkerNext

LEMMA SignalFacts ==
    ASSUME TypeInv, NEW k \in Canceller, Signal(k)
    PROVE  /\ UNCHANGED <<file, copy, fresh, lost, blind, crashed>>
           /\ pc'[Client] = pc[Client] /\ pc'[Worker] \in {pc[Worker], "gone"}
           /\ pc'[Worker] = "absent" => pc[Worker] = "absent"
           /\ ~killed' => ~killed
           /\ ~killed' => pc'[Worker] = pc[Worker]
<1>1. copy[k].pid \in BOOLEAN
    BY CopyIsRecord, Processes DEF Record
<1>2. PICK hit \in BOOLEAN : hit = (copy[k].pid /\ pc[Worker] \notin {"absent", "gone"})
    BY <1>1
<1>3. /\ pc' = [p \in Process |-> IF p = k THEN "notify"
                                  ELSE IF p = Worker /\ hit THEN "gone" ELSE pc[p]]
      /\ killed' = (killed \/ hit)
      /\ UNCHANGED <<file, copy, turn, marker, fresh, lost, blind, crashed, asked>>
    BY <1>2 DEF Signal
<1>4. pc'[Client] = pc[Client] /\ pc'[Worker] = IF hit THEN "gone" ELSE pc[Worker]
    BY <1>3, Processes
<1>5. /\ hit => killed'
      /\ ~hit => pc'[Worker] = pc[Worker]
      /\ killed => killed'
    BY <1>3, <1>4
<1>6. ~killed' => ~killed
    BY <1>5
<1>7. ~killed' => pc'[Worker] = pc[Worker]
    BY <1>5
<1>8. pc'[Worker] = "absent" => pc[Worker] = "absent"
    BY <1>4
<1>9. UNCHANGED <<file, copy, fresh, lost, blind, crashed>>
    BY <1>3
<1> QED BY <1>4, <1>6, <1>7, <1>8, <1>9

LEMMA CancelUnlooked ==
    ASSUME TypeInv, Unlooked, NEW k \in Canceller,
           RequestCancel(k) \/ Requested(k) \/ Signal(k) \/ Notify(k)
    PROVE  Unlooked'
<1>1. k \in Process /\ k # Client /\ k # Worker /\ Worker \in Process /\ Client \in Process
    BY Processes
<1>2. CASE Requested(k)
    BY <1>1, <1>2, SaveUnlooked DEF Requested
<1>3. CASE RequestCancel(k)
    <2>1. PICK r \in Record : RequestTo(k, r)
        BY <1>3, RequestGoes
    <2>2. Loads(k) /\ UNCHANGED file
        BY <1>3, RequestGoes DEF Elsewhere
    <2>3. pc[Worker] \in Early => Untouched(r)
        BY <1>1, <2>1 DEF RequestTo, Unlooked, Untouched, Active, Terminal
    <2>4. PICK next \in {"request", "gone"} : Goes(k, r, next)
        BY <2>1 DEF RequestTo
    <2> QED BY <1>1, <2>2, <2>3, <2>4, GoesUnlooked
<1>4. CASE Signal(k)
    BY <1>4, SignalFacts, MoveUnlooked DEF Early
<1>5. CASE Notify(k)
    <2>1. UNCHANGED <<file, copy>> /\ pc'[Client] = pc[Client] /\ pc'[Worker] = pc[Worker]
        BY <1>1, <1>5 DEF Notify, TypeInv, JobTypeOK
    <2> QED BY <2>1, MoveUnlooked
<1> QED BY <1>2, <1>3, <1>4, <1>5

LEMMA NextUnlooked == TypeInv /\ Unlooked /\ [Next]_jobVars => Unlooked'
<1> SUFFICES ASSUME TypeInv, Unlooked, [Next]_jobVars PROVE Unlooked'
    OBVIOUS
<1>1. CASE UNCHANGED jobVars
    BY <1>1 DEF Unlooked, Untouched, Readable, jobVars
<1>2. ASSUME NEW p \in {Client, Worker}, Crash(p) PROVE Unlooked'
    <2>1. UNCHANGED <<file, copy>>
        BY <1>2 DEF Crash
    <2>2. /\ pc'[Client] \in {pc[Client], "gone"} /\ pc'[Worker] \in {pc[Worker], "gone"}
        BY <1>2, Processes DEF Crash, TypeInv, JobTypeOK
    <2> QED BY <2>1, <2>2, MoveUnlooked DEF Early
<1> QED BY <1>1, <1>2, ClientUnlooked, WorkerUnlooked, CancelUnlooked DEF Next, CancelNext

-----------------------------------------------------------------------------

Smooth == ~lost /\ ~blind /\ ~crashed

\* As long as nothing goes wrong, a job that its server and its worker have left is
\* not active, nor will the server make it so.
Left ==
    Smooth =>
        /\ pc[Worker] = "absent" /\ pc[Client] = "gone" /\ Readable => file.status \notin Active
        /\ Client \in fresh /\ pc[Client] = "bound" /\ Readable =>
               copy[Client].status = file.status
        /\ ~killed /\ pc[Worker] \in {"notify", "gone"} =>
               /\ Readable => file.status \notin Active
               /\ Client \in fresh /\ pc[Client] = "bound" => copy[Client].status \notin Active

LEMMA InitLeft == JobInit => Left
  BY NotRecords, Processes DEF JobInit, Left, Readable

LEMMA GoesLeft ==
    ASSUME TypeInv, Left, NEW p \in Process, NEW r \in Record, NEW next,
           Goes(p, r, next), Loads(p), UNCHANGED <<file, lost, crashed, killed>>,
           p = Client /\ next = "gone" /\ Readable /\ pc[Worker] = "absent" => file.status \notin Active,
           p = Client /\ next = "bound" /\ Readable => r.status = file.status,
           p = Worker => next \notin {"absent", "notify"},
           p = Worker /\ next = "gone" /\ Readable => file.status \notin Active
    PROVE  Left'
<1>1. /\ copy'[p] = r /\ pc'[p] = next /\ Readable' = Readable /\ blind' = (blind \/ ~Readable)
      /\ \A q \in Process \ {p} : copy'[q] = copy[q] /\ pc'[q] = pc[q]
      /\ \A q \in fresh' : q \in fresh \/ (q = p /\ Readable)
      /\ Client \in Process /\ Worker \in Process
    BY GoesFacts, Processes
<1> SUFFICES ASSUME Smooth' PROVE Left'
    BY DEF Left
<1>2. Smooth /\ Readable
    BY <1>1 DEF Smooth
<1>3. pc'[Worker] = "absent" /\ pc'[Client] = "gone" => file.status \notin Active
    BY <1>1, <1>2, Processes DEF Left
<1>4. Client \in fresh' /\ pc'[Client] = "bound" => copy'[Client].status = file.status
    BY <1>1, <1>2, Processes DEF Left
<1>5. ~killed /\ pc'[Worker] \in {"notify", "gone"} => file.status \notin Active
    BY <1>1, <1>2, Processes DEF Left
<1> QED BY <1>1, <1>2, <1>3, <1>4, <1>5 DEF Left

LEMMA SaveLeft ==
    ASSUME TypeInv, EarnInv, Unlooked, Left, NEW p \in Process, NEW next, Save(p, next),
           pc[p] \in Saving,
           p = Client => next # "bound" /\ (next = "gone" => pc[Client] = "bound"),
           p = Worker => next # "absent" /\ next # "gone" /\ (next = "notify" => pc[Worker] = "finish"),
           p \in Canceller => pc[p] = "request"
    PROVE  Left'
<1>1. Client \in Process /\ Worker \in Process /\ \A q \in Process \ {Client, Worker} : q \in Canceller
    BY DEF Process
<1>2. CASE Open(p)
    BY <1>1, <1>2, OpenFacts DEF Left, Smooth
<1>3. CASE Write(p, next)
    <2>1. /\ pc'[p] = next /\ \A q \in Process \ {p} : pc'[q] = pc[q]
          /\ UNCHANGED <<copy, blind, crashed, killed>>
          /\ fresh' = {p} /\ lost' = (lost \/ p \notin fresh)
          /\ Readable' => file' = copy[p]
        BY <1>3, WriteFacts
    <2> SUFFICES ASSUME Smooth' PROVE Left'
        BY DEF Left
    <2>2. Smooth /\ p \in fresh
        BY <2>1 DEF Smooth
    <2>3. ASSUME p \in Canceller PROVE copy[p].status \notin Active
        BY <1>1, <2>3, Processes DEF EarnInv, Announced, Decided
    <2>4. ASSUME pc'[Worker] = "absent", pc'[Client] = "gone" PROVE copy[p].status \notin Active
        <3>1. p # Worker /\ pc[Worker] = "absent"
            BY <1>1, <2>1, <2>4
        <3>2. p # Client
            BY <2>1, <2>4, <3>1 DEF Unlooked
        <3> QED BY <1>1, <2>3, <3>1, <3>2
    <2>5. ~(Client \in fresh' /\ pc'[Client] = "bound")
        BY <2>1
    <2>6. ASSUME ~killed, pc'[Worker] \in {"notify", "gone"} PROVE copy[p].status \notin Active
        <3>1. CASE p = Worker
            BY <1>1, <2>1, <2>6, <3>1, Processes DEF EarnInv, Announced, Decided
        <3>2. CASE p = Client
            <4>1. pc[Worker] \in {"notify", "gone"}
                BY <1>1, <2>1, <2>6, <3>2, Processes
            <4>2. pc[Client] = "bound"
                BY <3>2, <4>1 DEF TypeInv, WorkerFollows, Saving
            <4> QED BY <2>2, <2>6, <3>2, <4>1, <4>2 DEF Left
        <3> QED BY <1>1, <2>3, <3>1, <3>2
    <2> QED BY <2>1, <2>4, <2>5, <2>6 DEF Left
<1> QED BY <1>2, <1>3 DEF Save

LEMMA MoveLeft ==
    ASSUME TypeInv, Left, UNCHANGED <<file, copy, fresh, lost, blind>>, Smooth' => Smooth,
           pc'[Client] \in {"gone", "bound"} => pc'[Client] = pc[Client],
           pc'[Worker] = "absent" => pc[Worker] = "absent",
           ~killed' /\ pc'[Worker] \in {"notify", "gone"} => ~killed /\ pc[Worker] \in {"notify", "gone"}
    PROVE  Left'
  BY DEF Left, Readable

LEMMA ClientLeft == ASSUME TypeInv, EarnInv, Unlooked, Left, ClientNext PROVE Left'
<1>1. Client \in Process /\ Worker \in Process /\ Client # Worker /\ Client \notin Canceller
    BY Processes
<1>2. CASE Enqueue \/ Queue \/ Bound
    BY <1>1, <1>2, SaveLeft DEF Enqueue, Queue, Bound, Saving
<1>3. CASE Spawn
    <2>1. /\ UNCHANGED <<file, copy, fresh, lost, blind, crashed, killed>>
          /\ pc'[Client] = "bind" /\ pc'[Worker] = "boot"
        BY <1>1, <1>3 DEF Spawn, TypeInv, JobTypeOK, ends
    <2> QED BY <2>1, MoveLeft DEF Smooth
<1>4. CASE Start
    <2>1. PICK r \in Record : StartTo(r)
        BY <1>4, StartGoes
    <2>2. Loads(Client) /\ UNCHANGED <<file, lost, crashed, killed>>
        BY <1>4, StartGoes DEF Elsewhere, ends
    <2>3. PICK next \in {"queue", "gone"} :
              /\ Goes(Client, r, next)
              /\ next = "gone" /\ Readable => file.status \in {"running", "cancelled"} \/ file.cancel
        BY <2>1 DEF StartTo
    <2>4. next = "gone" /\ Readable /\ pc[Worker] = "absent" => file.status \notin Active
        BY <2>3, UnlookedFile DEF Early, Active
    <2> QED BY <1>1, <2>2, <2>3, <2>4, GoesLeft
<1>5. CASE Bind
    <2>1. PICK r \in Record : BindTo(r)
        BY <1>5, BindGoes
    <2>2. Loads(Client) /\ UNCHANGED <<file, lost, crashed, killed>>
        BY <1>5, BindGoes DEF Elsewhere, ends
    <2>3. Goes(Client, r, "bound") /\ (Readable => r.status = file.status)
        BY <2>1 DEF BindTo, Reloaded
    <2> QED BY <1>1, <2>2, <2>3, GoesLeft
<1> QED BY <1>2, <1>3, <1>4, <1>5 DEF ClientNext

LEMMA WorkerLeft == ASSUME TypeInv, EarnInv, Unlooked, Left, WorkerNext PROVE Left'
<1>1. Client \in Process /\ Worker \in Process /\ Worker # Client /\ Worker \notin Canceller
    BY Processes
<1>2. CASE Run \/ Attach \/ Finish
    BY <1>1, <1>2, SaveLeft DEF Run, Attach, Finish, Saving
<1>3. CASE Boot
    <2>1. PICK r \in Record : BootTo(r)
        BY <1>3, BootGoes
    <2>2. Loads(Worker) /\ UNCHANGED <<file, lost, crashed, killed>> /\ pc[Worker] = "boot"
        BY <1>3, BootGoes DEF Elsewhere, ends
    <2>3. PICK next \in {"load", "gone"} :
              /\ Goes(Worker, r, next)
              /\ next = "gone" /\ Readable => Cancelled(file)
        BY <2>1 DEF BootTo
    <2>4. next = "gone" /\ Readable => file.status \notin Active
        BY <2>2, <2>3, UnlookedFile DEF Early, Active, Cancelled
    <2> QED BY <1>1, <2>2, <2>3, <2>4, GoesLeft
<1>4. CASE Load
    <2>1. PICK r \in Record : LoadTo(r)
        BY <1>4, LoadGoes
    <2>2. Loads(Worker) /\ UNCHANGED <<file, lost, crashed, killed>>
        BY <1>4, LoadGoes DEF Elsewhere, ends
    <2>3. PICK next \in {"run", "finish", "gone"} :
              Goes(Worker, r, next) /\ (next = "gone" => ~Readable)
        BY <2>1 DEF LoadTo
    <2> QED BY <1>1, <2>2, <2>3, GoesLeft
<1>5. CASE Submit
    <2>1. PICK r \in Record : SubmitTo(r)
        BY <1>5, SubmitGoes
    <2>2. Loads(Worker) /\ UNCHANGED <<file, lost, crashed, killed>>
        BY <1>5, SubmitGoes DEF ends
    <2> QED BY <1>1, <2>1, <2>2, GoesLeft DEF SubmitTo
<1>6. CASE Report
    <2>1. PICK r \in Record : ReportTo(r)
        BY <1>6, ReportGoes
    <2>2. Loads(Worker) /\ UNCHANGED <<file, lost, crashed, killed>>
        BY <1>6, ReportGoes DEF Elsewhere, ends
    <2> QED BY <1>1, <2>1, <2>2, GoesLeft DEF ReportTo
<1>7. CASE SubmitRaises \/ Await \/ Notify(Worker)
    <2>1. UNCHANGED <<file, copy, fresh, lost, blind, crashed, killed>>
        BY <1>7 DEF SubmitRaises, Await, Notify, ends
    <2>2. /\ pc'[Client] = pc[Client] /\ pc'[Worker] \in {"report", "gone"}
          /\ pc'[Worker] = "gone" => pc[Worker] = "notify"
        BY <1>1, <1>7 DEF SubmitRaises, Await, Notify, TypeInv, JobTypeOK
    <2> QED BY <2>1, <2>2, MoveLeft DEF Smooth
<1> QED BY <1>2, <1>3, <1>4, <1>5, <1>6, <1>7 DEF WorkerNext

LEMMA CancelLeft ==
    ASSUME TypeInv, EarnInv, Unlooked, Left, NEW k \in Canceller,
           RequestCancel(k) \/ Requested(k) \/ Signal(k) \/ Notify(k)
    PROVE  Left'
<1>1. k \in Process /\ k # Client /\ k # Worker /\ Worker \in Process /\ Client \in Process
    BY Processes
<1>2. CASE Requested(k)
    BY <1>1, <1>2, SaveLeft DEF Requested, Saving
<1>3. CASE RequestCancel(k)
    <2>1. PICK r \in Record : RequestTo(k, r)
        BY <1>3, RequestGoes
    <2>2. Loads(k) /\ UNCHANGED <<file, lost, crashed, killed>>
        BY <1>3, RequestGoes DEF Elsewhere, ends
    <2>3. PICK next \in {"request", "gone"} : Goes(k, r, next)
        BY <2>1 DEF RequestTo
    <2> QED BY <1>1, <2>2, <2>3, GoesLeft
<1>4. CASE Signal(k)
    BY <1>4, SignalFacts, MoveLeft DEF Smooth
<1>5. CASE Notify(k)
    <2>1. /\ UNCHANGED <<file, copy, fresh, lost, blind, crashed, killed>>
          /\ pc'[Client] = pc[Client] /\ pc'[Worker] = pc[Worker]
        BY <1>1, <1>5 DEF Notify, TypeInv, JobTypeOK, ends
    <2> QED BY <2>1, MoveLeft DEF Smooth
<1> QED BY <1>2, <1>3, <1>4, <1>5

LEMMA NextLeft == TypeInv /\ EarnInv /\ Unlooked /\ Left /\ [Next]_jobVars => Left'
<1> SUFFICES ASSUME TypeInv, EarnInv, Unlooked, Left, [Next]_jobVars PROVE Left'
    OBVIOUS
<1>1. CASE UNCHANGED jobVars
    BY <1>1 DEF Left, Smooth, Readable, jobVars, ends
<1>2. ASSUME NEW p \in {Client, Worker}, Crash(p) PROVE Left'
    BY <1>2 DEF Crash, Left, Smooth
<1> QED BY <1>1, <1>2, ClientLeft, WorkerLeft, CancelLeft DEF Next, CancelNext

\* start_job, run_job_inline, cancel_job: when nobody is at work on a job that is
\* still queued or running, an update was lost, a file was caught half written, the
\* server or the worker crashed, or the job was cancelled and its worker signalled.
THEOREM JobsAreLeftByRaceOnly == Spec => []AbandonedByRaceOnly
<1>1. TypeInv /\ Kept /\ Left => AbandonedByRaceOnly
    <2> SUFFICES ASSUME TypeInv, Kept, Left, Quiet, Smooth, Readable, file.status \in Active
                 PROVE  file.cancel /\ killed
        BY DEF AbandonedByRaceOnly, Smooth
    <2>1. pc[Client] = "gone" /\ pc[Worker] \in {"absent", "gone"}
        BY Processes DEF Quiet, TypeInv, PlacesOK, ClientPlace, WorkerPlace
    <2>2. killed
        BY <2>1 DEF Left
    <2> QED BY <2>2 DEF Kept, Smooth
<1>2. TypeInv /\ EarnInv /\ Kept /\ Unlooked /\ Left /\ [Next]_jobVars =>
          TypeInv' /\ EarnInv' /\ Kept' /\ Unlooked' /\ Left'
    BY NextType, NextEarn, NextKept, NextUnlooked, NextLeft
<1> QED BY InitType, InitEarn, InitKept, InitUnlooked, InitLeft, <1>1, <1>2, PTL DEF Spec
=============================================================================
