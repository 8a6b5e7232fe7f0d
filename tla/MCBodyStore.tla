----------------------------- MODULE MCBodyStore -----------------------------
(***************************************************************************)
(* BodyStore with four bodies of sizes 1 and 2, a ring of one record and a *)
(* budget that holds one big body and one small.                           *)
(***************************************************************************)
EXTENDS BodyStore, TLC

CONSTANTS b1, b2, b3, b4

MCSize == b1 :> 1 @@ b2 :> 2 @@ b3 :> 2 @@ b4 :> 1
=============================================================================
