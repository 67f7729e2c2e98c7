---------------------------- MODULE MCAsyncJobs ----------------------------
\* A job, its worker, and two requests to cancel it.
EXTENDS AsyncJobs, TLC

CONSTANTS k1, k2

Cancellers == Permutations({k1, k2})
=============================================================================
