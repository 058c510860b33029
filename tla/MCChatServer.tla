------------------------------ MODULE MCChatServer ------------------------------
(* The instances of ChatServer that TLC checks: user a has two connections,
   an old and a new one, and user b has one. *)
EXTENDS ChatServer

CONSTANTS a, b, a1, a2, b1, m1, m2, w1, w2

MCUserOf == [c \in Conns |-> IF c = b1 THEN b ELSE a]
MCAllToA == [m \in Msgs |-> a]

=============================================================================
