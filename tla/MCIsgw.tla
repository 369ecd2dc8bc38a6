------------------------------- MODULE MCIsgw -------------------------------
(* Small instances of Isgw for TLC. *)
EXTENDS IsgwGateway, TLC

CONSTANT w1

QueOfOne == [w \in Workers |-> 0]
QueOfTwo == [w \in Workers |-> IF w = w1 THEN 0 ELSE 1]

Sym == Permutations(Bufs) \cup Permutations(Fds) \cup Permutations(TcpClients)
         \cup Permutations(Workers)
=============================================================================
