--------------------------- MODULE MCApprovalGate ---------------------------
(***************************************************************************)
(* Two requests: one whose body-asking calls run side by side, and one     *)
(* whose calls the router and the controller ask for one by one.           *)
(***************************************************************************)
EXTENDS ApprovalGate, TLC

CONSTANTS r1, r2, c1, c2, c3, c4, fetch, send, leave

Owners  == (c1 :> r1 @@ c2 :> r1 @@ c3 :> r2 @@ c4 :> r2)
Kinds   == (c1 :> "inner" @@ c2 :> "escape" @@ c3 :> "routed" @@ c4 :> "plan")
Actions == (c1 :> fetch @@ c2 :> leave @@ c3 :> fetch @@ c4 :> send)
=============================================================================
