---------------------------- MODULE MCToolJournal ---------------------------
(***************************************************************************)
(* A small instance of ToolJournal: two processes with one call in flight  *)
(* each, of an external mutation or a read.                                *)
(***************************************************************************)
EXTENDS ToolJournal, TLC

CONSTANTS t1, s1, send, read, c1, w1, w2, h1, h2

MCAttempt == Turn \X Op \X (CallId \cup {NoCall})
MCName ==
    {"tool-start", "tool-complete", "terminal", "turn", "mirror"}
        \X (MCAttempt \cup {NoAttempt})

OneSession == [t \in Turn |-> s1]

Sides == (send :> "external_mutation" @@ read :> "read")

TwoProcesses == (w1 :> h1 @@ w2 :> h2)
=============================================================================
