----------------------------- MODULE MCRedisLane ----------------------------
(* Small instances of RedisLane for TLC. *)
EXTENDS RedisLane, TLC

CONSTANTS m1, m2, c1, c2, k1

OneRetry == [m \in Msg |-> 1]
NoRetries == [m \in Msg |-> 0]

MessageSymmetry == Permutations(Msg)

=============================================================================
