-------------------------- MODULE MCMemoryLearning --------------------------
(***************************************************************************)
(* One claim with two values of nearly the same words.                     *)
(***************************************************************************)
EXTENDS MemoryLearning, TLC

CONSTANTS redis, sqlite, k1, u1, w1, t1, t2

Claims == (redis :> k1 @@ sqlite :> k1)

Alikes == {<<redis, sqlite>>}

Shows(c, role, firm) == [content |-> c, role |-> role, firm |-> firm]

\* A verifier finds what the user says in a later turn, and a hint of what the user
\* asks to remember.
Shown ==
    (t1 :> <<Shows(redis, "verifier", TRUE), Shows(sqlite, "verifier", FALSE)>>
        @@ t2 :> <<Shows(redis, "user", TRUE)>>)
=============================================================================
