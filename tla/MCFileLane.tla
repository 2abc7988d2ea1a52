----------------------------- MODULE MCFileLane -----------------------------
(* Small instances of FileLane for TLC. *)
EXTENDS FileLaneInv, TLC

CONSTANTS m1, m2, c1, c2, k1

NoRetries == [m \in Msg |-> 0]
OneRetry == [m \in Msg |-> 1]

ConsumerSymmetry == Permutations(ServerConsumer)

=============================================================================
