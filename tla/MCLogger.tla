-------------------------------- MODULE MCLogger --------------------------------
(* The instance of Logger that TLC checks. *)
EXTENDS Logger, TLC

CONSTANTS l1, l2, l3

MCLevelOf == l1 :> INFO @@ l2 :> ERROR @@ l3 :> INFO

=============================================================================
