----------------------------- MODULE RunRebuild -----------------------------
(***************************************************************************)
(* The event store together with its repair: RuntimeStore.rebuild, which   *)
(* replays the logs of a session and writes the projections over, in one   *)
(* transaction, at any time (`kageha runtime rebuild', runtime/rebuild).   *)
(* It is apart from RunJournal because a replay is recursive.              *)
(***************************************************************************)
EXTENDS RunJournal

\* The snapshot after each event of a log, from the log alone.
Snapshots(log) ==
    LET snap[i \in DOMAIN log] ==
            IF i = 1 THEN InitialSnapshot ELSE Reduce(snap[i - 1], log[i].ev)
    IN snap

\* reduce_event raises on none of them.
Replayable(log) == \A i \in 2..Len(log) : ~Rejected(Snapshots(log)[i - 1], log[i].ev)

Replay(log) == Snapshots(log)[Len(log)]

\* Checkpoints and the session row are left as they are.
Rebuild(s) ==
    LET turns == {t \in Turn : sessionOf[t] = s} IN
    /\ turns # {}
    /\ \A t \in turns : Replayable(events[t])
    /\ projection' = [t \in Turn |->
           IF t \in turns THEN [projection[t] EXCEPT !.snap = Replay(events[t])]
           ELSE projection[t]]
    /\ UNCHANGED <<events, checkpoints, sessionOf, sessions>>

RebuildNext == Next \/ \E s \in Session : Rebuild(s)

RebuildSpec == Init /\ [][RebuildNext]_vars

\* Every log that append_event wrote can be replayed: a rebuild never raises,
\* whatever transitions were refused or deduplicated while it was written.
LogsAreReplayable == \A t \in Turn : Started(t) => Replayable(events[t])
=============================================================================
