--------------------------- MODULE MCAgentRuntime ---------------------------
(***************************************************************************)
(* Small instances of AgentRuntime: turns of one session, executed one at  *)
(* a time, by two executors of one process, or by one of each of two.      *)
(***************************************************************************)
EXTENDS AgentRuntime, TLC

CONSTANTS t1, t2, s1, x1, x2, h1, h2

MCAttempt == Turn \X Side

MCName ==
    ({"tool-start", "tool-complete"} \X Turn \X Side)
        \cup {MirrorName(ev) : ev \in Mirrored}
        \cup {AcceptedName, TerminalName, BlockName, LocalName, CheckName, VerdictName}

OneSession   == [t \in Turn |-> s1]
OneProcess   == [x \in Executor |-> h1]
TwoProcesses == (x1 :> h1 @@ x2 :> h2)

Verdicts == {FlagEv("verification", "yes"), FlagEv("verification", "no")}
NoEvents == {}

=============================================================================
