---------------------------- MODULE MCTcpServer ----------------------------
(* One connection, kept by the base loop or handed to an I/O loop; a user  *)
(* thread that sends twice, one that only closes, and callbacks that send. *)
EXTENDS TcpServer

CONSTANTS base, io, t1, t2

PoolChoices == {<<>>, <<io>>}
Messages    == [s \in Senders |-> IF s = t1 THEN 2 ELSE IF s = t2 THEN 0 ELSE 1]

=============================================================================
