------------------------------ MODULE MCGroupChat ------------------------------
(* The instance of GroupChat that TLC checks. *)
EXTENDS GroupChat, TLC

CONSTANTS g1, g2, m1, m2

MCGroupOf == m1 :> g1 @@ m2 :> g1

=============================================================================
