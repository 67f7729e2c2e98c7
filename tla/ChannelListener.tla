--------------------------- MODULE ChannelListener --------------------------
(***************************************************************************)
(* A messaging channel: the Telegram adapter (channels/telegram.py), the   *)
(* bridge to the agent (channels/runtime.py) and the durable queue they    *)
(* share (runtime/channels.py over runtime/store.py).                      *)
(*                                                                         *)
(* Telegram keeps the updates of the channel and forgets those below the   *)
(* offset of a poll.  The listener, one process at a time by a file lock   *)
(* (channels/process.py), takes one update after the other: it registers   *)
(* the message, runs a turn, queues the parts of the reply, and sends them *)
(* while it claims and acknowledges rows of the queue.  Its offset is in   *)
(* memory only; the queue survives it.                                     *)
(*                                                                         *)
(* A turn is one step here and always answers: channel turns never wait    *)
(* for a human.  Left out: updates of users that are not allowed, which    *)
(* are dropped; the session a chat is bound to; artifacts but for the      *)
(* failure of their upload.                                                *)
(***************************************************************************)
EXTENDS SequencesExt

CONSTANTS
    Chat,            \* the identities of the channel
    ChatOf,          \* the chat of each update
    MessageIdOf,     \* its message id: unique in a chat, and kept by an edit
    Reply,           \* the replies of turns, in parts
    Apology,         \* the text that answers a turn that failed
    MaxUpdates,      \* bound on the updates that arrive
    MaxCrashes       \* bound on the deaths of the listener

Update == 1..MaxUpdates

ASSUME ChannelAssumption ==
    /\ MaxUpdates \in Nat /\ MaxCrashes \in Nat
    /\ ChatOf \in [Update -> Chat]
    /\ DOMAIN MessageIdOf = Update
    /\ \A reply \in Reply : reply \in Seq(Range(reply)) /\ Apology \notin Range(reply)

VARIABLES
    arrived, confirmed,    \* Telegram: updates 1..arrived came, 1..confirmed are forgotten
    inbound,               \* dedup keys of the inbound rows
    outbound,              \* the outbound rows, oldest first
    listener,              \* the listener's memory
    turns,                 \* history: turns run for each update
    sent, heard,           \* history: messages each chat received, and their texts
    crashes, faulty        \* history: deaths; did anything ever fail?

vars == <<arrived, confirmed, inbound, outbound, listener, turns, sent, heard, crashes, faulty>>

Pc == {"idle", "taken", "turn", "replying", "claimed", "sent", "failed"}

\* "waiting": pending, but not available yet; "stale": processing for too long.
Status == {"pending", "waiting", "processing", "stale", "delivered"}

Rows(status) == {i \in DOMAIN outbound : outbound[i].status \in status}

Started == [pc |-> "idle", offset |-> 0, batch |-> <<>>, update |-> 0,
            queueing |-> <<>>, sending |-> <<>>, row |-> 0]

ChannelTypeOK ==
    /\ arrived \in 0..MaxUpdates /\ confirmed \in 0..arrived
    /\ inbound \subseteq {MessageIdOf[u] : u \in Update}
    /\ \A i \in DOMAIN outbound :
          /\ outbound[i].status \in Status /\ outbound[i].chat \in Chat
          /\ \E reply \in Reply : outbound[i].text \in Range(reply)
          /\ \A j \in DOMAIN outbound : outbound[j].key = outbound[i].key => i = j
    /\ listener.pc \in Pc
    /\ listener.offset \in 0..(MaxUpdates + 1)
    /\ listener.update \in Update \cup {0}
    /\ listener.row \in DOMAIN outbound \cup {0}
    /\ crashes \in 0..MaxCrashes

Init ==
    /\ arrived = 0 /\ confirmed = 0
    /\ inbound = {} /\ outbound = <<>>
    /\ listener = Started
    /\ turns = [u \in Update |-> 0]
    /\ sent = [c \in Chat |-> 0] /\ heard = {}
    /\ crashes = 0 /\ faulty = FALSE

ListenerChat == ChatOf[listener.update]

\* An exception ends the handling of the batch; run() polls again.
GivenUp == [listener EXCEPT !.pc = "idle", !.batch = <<>>, !.queueing = <<>>,
                            !.sending = <<>>, !.row = 0]

-----------------------------------------------------------------------------
\* Telegram

Arrive ==
    /\ arrived < MaxUpdates
    /\ arrived' = arrived + 1
    /\ UNCHANGED <<confirmed, inbound, outbound, listener, turns, sent, heard, crashes, faulty>>

\* getUpdates: forgets what is below the offset and returns the rest.
Poll ==
    LET forgotten == Max({confirmed, listener.offset - 1}) IN
    /\ listener.pc = "idle" /\ listener.batch = <<>>
    /\ confirmed' = forgotten
    /\ listener' = [listener EXCEPT !.batch = [i \in 1..(arrived - forgotten) |-> forgotten + i]]
    /\ UNCHANGED <<arrived, inbound, outbound, turns, sent, heard, crashes, faulty>>

-----------------------------------------------------------------------------
\* The adapter and the bridge

\* Mutated form: the next poll asks for the same update again.
NextOffsetSame(u) == Max({listener.offset, u})

NextOffset(u) == Max({listener.offset, u + 1})

Take ==
    LET u == Head(listener.batch) IN
    /\ listener.pc = "idle" /\ listener.batch # <<>>
    /\ listener' = [listener EXCEPT !.pc = "taken", !.update = u, !.batch = Tail(@),
                                    !.offset = NextOffset(u)]
    /\ UNCHANGED <<arrived, confirmed, inbound, outbound, turns, sent, heard, crashes, faulty>>

\* The download of its media raises: the update is not handled and never returns.
Lose ==
    /\ listener.pc = "taken"
    /\ listener' = GivenUp
    /\ faulty' = TRUE
    /\ UNCHANGED <<arrived, confirmed, inbound, outbound, turns, sent, heard, crashes>>

\* Mutated form: a redelivered message is registered again.
KnownNever(u) == FALSE

Known(u) == MessageIdOf[u] \in inbound

\* register_inbound: a message that is known already is not answered again.
Register ==
    LET u == listener.update IN
    /\ listener.pc = "taken"
    /\ inbound' = inbound \cup {MessageIdOf[u]}
    /\ listener' = [listener EXCEPT !.pc = IF Known(u) THEN "idle" ELSE "turn"]
    /\ UNCHANGED <<arrived, confirmed, outbound, turns, sent, heard, crashes, faulty>>

\* thread/turn answers with a text in parts, or with an error, which is answered
\* with an apology that is not queued.
Turn ==
    /\ listener.pc = "turn"
    /\ turns' = [turns EXCEPT ![listener.update] = @ + 1]
    /\ \/ \E reply \in Reply :
             listener' = [listener EXCEPT !.pc = "replying", !.queueing = reply, !.sending = reply]
       \/ listener' = [listener EXCEPT !.pc = "replying", !.sending = <<Apology>>]
    /\ UNCHANGED <<arrived, confirmed, inbound, outbound, sent, heard, crashes, faulty>>

Queued(key) == \E i \in DOMAIN outbound : outbound[i].key = key

\* Mutated form: a new row is not available at once.
NewStatusWaiting == "waiting"

NewStatus == "pending"

\* enqueue_outbound of the next part.
Queue ==
    LET text == Head(listener.queueing)
        key  == <<MessageIdOf[listener.update], text>>
        row  == [key |-> key, chat |-> ListenerChat, text |-> text, status |-> NewStatus]
    IN
    /\ listener.pc = "replying" /\ listener.queueing # <<>>
    /\ outbound' = IF Queued(key) THEN outbound ELSE Append(outbound, row)
    /\ listener' = [listener EXCEPT !.queueing = Tail(@)]
    /\ UNCHANGED <<arrived, confirmed, inbound, turns, sent, heard, crashes, faulty>>

-----------------------------------------------------------------------------
\* _send_reply

Ready(row) == row.status = "pending" /\ row.chat = ListenerChat

\* claim_outbound: recovers stale claims of the channel and claims the oldest
\* row that is ready, if there is one.
Claim ==
    LET rows == [i \in DOMAIN outbound |->
                    IF outbound[i].status = "stale"
                    THEN [outbound[i] EXCEPT !.status = "pending"] ELSE outbound[i]]
        r    == SelectInSeq(rows, Ready)
    IN
    /\ listener.pc = "replying" /\ listener.queueing = <<>> /\ listener.sending # <<>>
    /\ outbound' = IF r = 0 THEN rows ELSE [rows EXCEPT ![r].status = "processing"]
    /\ listener' = [listener EXCEPT !.pc = "claimed", !.row = r]
    /\ UNCHANGED <<arrived, confirmed, inbound, turns, sent, heard, crashes, faulty>>

Receives(chat, text) ==
    /\ sent' = [sent EXCEPT ![chat] = @ + 1]
    /\ heard' = heard \cup {<<chat, text>>}

\* sendMessage sends the part of the loop, whatever row was claimed.
Send ==
    /\ listener.pc = "claimed"
    /\ Receives(ListenerChat, Head(listener.sending))
    /\ listener' = [listener EXCEPT !.pc = "sent"]
    /\ UNCHANGED <<arrived, confirmed, inbound, outbound, turns, crashes, faulty>>

\* It raises: the message did not arrive, or its answer was lost.
SendFails ==
    /\ listener.pc = "claimed"
    /\ \/ Receives(ListenerChat, Head(listener.sending))
       \/ UNCHANGED <<sent, heard>>
    /\ listener' = [listener EXCEPT !.pc = "failed"]
    /\ faulty' = TRUE
    /\ UNCHANGED <<arrived, confirmed, inbound, outbound, turns, crashes>>

Marked(status) ==
    IF listener.row = 0 THEN outbound
    ELSE [outbound EXCEPT ![listener.row].status = status]

\* finish_outbound, delivered: on to the next part.
Acknowledge ==
    /\ listener.pc = "sent"
    /\ outbound' = Marked("delivered")
    /\ listener' = [listener EXCEPT !.pc = "replying", !.sending = Tail(@), !.row = 0]
    /\ UNCHANGED <<arrived, confirmed, inbound, turns, sent, heard, crashes, faulty>>

\* Mutated form: a failed delivery keeps its claim.
ReleasedStatusKept == "processing"

ReleasedStatus == "waiting"

\* finish_outbound, not delivered: the row can be claimed again later, and the
\* exception ends the reply.
Release ==
    /\ listener.pc = "failed"
    /\ outbound' = Marked(ReleasedStatus)
    /\ listener' = GivenUp
    /\ UNCHANGED <<arrived, confirmed, inbound, turns, sent, heard, crashes, faulty>>

\* The reply is sent; the upload of an artifact may still raise.
Done ==
    /\ listener.pc = "replying" /\ listener.queueing = <<>> /\ listener.sending = <<>>
    /\ \/ listener' = [listener EXCEPT !.pc = "idle"] /\ UNCHANGED faulty
       \/ listener' = GivenUp /\ faulty' = TRUE
    /\ UNCHANGED <<arrived, confirmed, inbound, outbound, turns, sent, heard, crashes>>

-----------------------------------------------------------------------------
\* Time and crashes

\* The 300 s of a claim have passed.
Age(i) ==
    /\ outbound[i].status = "processing" /\ i # listener.row
    /\ outbound' = [outbound EXCEPT ![i].status = "stale"]
    /\ UNCHANGED <<arrived, confirmed, inbound, listener, turns, sent, heard, crashes, faulty>>

\* The 5 s of a failed delivery have passed.
Ripen(i) ==
    /\ outbound[i].status = "waiting"
    /\ outbound' = [outbound EXCEPT ![i].status = "pending"]
    /\ UNCHANGED <<arrived, confirmed, inbound, listener, turns, sent, heard, crashes, faulty>>

\* The listener dies, and the supervisor starts another.
Crash ==
    /\ crashes < MaxCrashes /\ listener # Started
    /\ listener' = Started
    /\ crashes' = crashes + 1
    /\ faulty' = TRUE
    /\ UNCHANGED <<arrived, confirmed, inbound, outbound, turns, sent, heard>>

Listen ==
    \/ Poll \/ Take \/ Lose \/ Register \/ Turn \/ Queue
    \/ Claim \/ Send \/ SendFails \/ Acknowledge \/ Release \/ Done

Next ==
    \/ Arrive \/ Listen \/ Crash
    \/ \E i \in DOMAIN outbound : Age(i) \/ Ripen(i)

Spec == Init /\ [][Next]_vars

\* The listener's loop runs on; how its calls end is not its choice.
FairSpec == Spec /\ WF_vars(Listen)

-----------------------------------------------------------------------------
\* Properties

\* A message starts at most one turn (CHANNELS.md: "Duplicate inbound events are
\* ignored before starting an agent turn"): the offset dies with the listener and
\* Telegram delivers again what was handled; an edit carries the same id.
OneTurnPerMessage ==
    /\ \A u \in Update : turns[u] <= 1
    /\ \A u, v \in Update :
          (MessageIdOf[u] = MessageIdOf[v] /\ turns[u] = 1 /\ turns[v] = 1) => u = v

\* However claims fail, go stale, are taken over, or are made for another text: no
\* chat has more acknowledged rows than it received messages, and a claim is held by
\* the listener or is the one a dead listener left, so that no path of a failed
\* delivery leaves a row that cannot be claimed again.
OutboxIsAccounted ==
    /\ \A c \in Chat :
           Cardinality({i \in Rows({"delivered"}) : outbound[i].chat = c}) <= sent[c]
    /\ Cardinality(Rows({"processing", "stale"}) \ {listener.row}) <= crashes

\* As long as nothing failed, an idle listener has run the turn of each message
\* it took, and each row it queued is delivered and was received.
QuietListenerSettles ==
    (~faulty /\ listener.pc = "idle") =>
        /\ \A u \in Update : u < listener.offset =>
              \E v \in Update : MessageIdOf[v] = MessageIdOf[u] /\ turns[v] = 1
        /\ \A i \in DOMAIN outbound :
              outbound[i].status = "delivered" /\ <<outbound[i].chat, outbound[i].text>> \in heard

\* No update blocks the channel: each one that arrives is taken, whatever fails.
EveryUpdateIsTaken ==
    \A u \in Update : (u <= arrived) ~> (u < listener.offset \/ u <= confirmed)
=============================================================================
