------------------------------- MODULE MCExec -------------------------------
(* A small instance of Exec for TLC: one pipe with more bytes than its buffer
   keeps, one that stays short. *)
EXTENDS Exec

Pipes == {"stdout", "stderr"}

Volume == [p \in Pipe |-> IF p = "stdout" THEN 3 ELSE 0]

=============================================================================
