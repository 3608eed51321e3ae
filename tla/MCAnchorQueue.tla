----------------------------- MODULE MCAnchorQueue -----------------------------
(* An instance of AnchorQueue for TLC. *)
EXTENDS AnchorQueue, TLC

CONSTANTS x1, x2, s1

OneSession == x1 :> s1 @@ x2 :> s1
=============================================================================
