---------------------------- MODULE MCToolGuard ----------------------------
\* Two reads of one page, a command, and a tool that does not exist.
EXTENDS ToolGuard, TLC

CONSTANTS read, find, run, made, page, new, error

MCCall == {read, find, run, made}
MCToolOf == read :> "web_fetch" @@ find :> "web_fetch" @@ run :> "bash" @@ made :> "made_up"
MCUrlOf == read :> page @@ find :> page @@ run :> NoUrl @@ made :> NoUrl

\* The two reads are alike.
Reads == Permutations({read, find})
=============================================================================
