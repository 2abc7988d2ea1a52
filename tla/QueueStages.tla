---------------------------- MODULE QueueStages -----------------------------
(***************************************************************************)
(* What a queue promises of its messages, without clients, connections or  *)
(* storage (the documentation of Queue in queue/mod.rs): a message is in   *)
(* one stage, it leaves the queue only when its command has succeeded or   *)
(* when it is cleared, and it moves between the stages only by a claim, a  *)
(* settle, a recovery or a republication.                                  *)
(***************************************************************************)
CONSTANT Msg

VARIABLES stage,   \* [Msg -> Place]
          done     \* the messages whose command has succeeded

vars == <<stage, done>>

Place == {"new", "pending", "inProgress", "failed", "gone"}

Init == stage = [m \in Msg |-> "new"] /\ done = {}

(* The messages in S, all of them in from, move to to. *)
Move(S, from, to) ==
    /\ \A m \in S : stage[m] = from
    /\ stage' = [m \in Msg |-> IF m \in S THEN to ELSE stage[m]]
    /\ UNCHANGED done

Publish(m) == Move({m}, "new", "pending")
Claim(m) == Move({m}, "pending", "inProgress")
Requeue(m) == Move({m}, "inProgress", "pending")
Fail(m) == Move({m}, "inProgress", "failed")
Acknowledge(m) == m \in done /\ Move({m}, "inProgress", "gone")
Recover(S) == Move(S, "inProgress", "pending")
Republish(S) == Move(S, "failed", "pending")
Clear(p) == Move({m \in Msg : stage[m] = p}, p, "gone")

(* A command ends, wherever its message is by then. *)
Succeed(m) == stage[m] # "new" /\ done' = done \cup {m} /\ UNCHANGED stage

(* Everything but a clear. *)
Transfer ==
    \/ \E m \in Msg : \/ Publish(m) \/ Claim(m) \/ Requeue(m) \/ Fail(m)
                      \/ Acknowledge(m) \/ Succeed(m)
    \/ \E S \in SUBSET Msg : Recover(S) \/ Republish(S)

Next == Transfer \/ \E p \in {"pending", "inProgress", "failed"} : Clear(p)

Spec == Init /\ [][Next]_vars

=============================================================================
