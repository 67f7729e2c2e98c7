---------------------------- MODULE MCAppServer -----------------------------
(***************************************************************************)
(* Two requests of one chat, and the calls they make.                      *)
(***************************************************************************)
EXTENDS AppServer, TLC

CONSTANTS r1, r2, c1, c2, h1, fetch

Owners  == (c1 :> r1 @@ c2 :> r2)
Kinds   == (c1 :> "inner" @@ c2 :> "plan")
Actions == (c1 :> fetch @@ c2 :> fetch)
Chats   == (r1 :> h1 @@ r2 :> h1)
=============================================================================
