------------------------------- MODULE MCRegistry -------------------------------
(* The instance of Registry that TLC checks: providers of one service with two
   methods. *)
EXTENDS Registry

CONSTANTS p1, p2

UserService == <<"/UserServiceRpc", "/UserServiceRpc/Login", "/UserServiceRpc/Register">>

=============================================================================
