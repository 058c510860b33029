------------------------------- MODULE MCRpcCall -------------------------------
(* The instances of RpcCall that TLC checks: calls of the one method of a
   service. *)
EXTENDS RpcCall

CONSTANTS p1, p2, k1, k2

UserService == <<"/UserServiceRpc", "/UserServiceRpc/Login">>
Login == [k \in Calls |-> "/UserServiceRpc/Login"]

=============================================================================
