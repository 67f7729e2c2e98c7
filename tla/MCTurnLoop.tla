----------------------------- MODULE MCTurnLoop -----------------------------
\* A small session for TLC.
EXTENDS TurnLoop

CONSTANTS A, P

\* A message in the mode the session is in, and /build.
MCMessages ==
    {[ask |-> A, slash |-> "none", chip |-> "none", full |-> FALSE, build |-> FALSE],
     [ask |-> P, slash |-> "none", chip |-> "plan", full |-> TRUE, build |-> TRUE]}
=============================================================================
