------------------------------ MODULE Envelope ------------------------------
(***************************************************************************)
(* What the queue stores for one message, and the rules that decide how a  *)
(* claimed message is settled (queue/envelope.rs, queue/delivery.rs and    *)
(* Queue::release in queue/mod.rs).                                        *)
(*                                                                         *)
(* The command, its arguments and its compression are payload: of a        *)
(* message only its id, its attempt count and its retry limit decide what  *)
(* the queue does with it.                                                 *)
(***************************************************************************)
EXTENDS Integers

CONSTANTS Msg,         \* the messages (CommandEnvelope::id)
          MaxRetries   \* [Msg -> Nat]: CommandEnvelope::max_retries

ASSUME EnvelopeAssumption == MaxRetries \in [Msg -> Nat]

(* CommandEnvelope, without its payload. *)
CommandEnvelope == [id : Msg, attempts : Nat]

(* CommandEnvelope::new: a new message has used no attempt. *)
NewEnvelope(m) == [id |-> m, attempts |-> 0]

(* A claim counts one attempt, in memory only. *)
CountAttempt(e) == [e EXCEPT !.attempts = @ + 1]

(* A release that keeps the attempt the claim counted. *)
TakeBackNothing(e) == e

(* A release that subtracts without saturating. *)
TakeBackUnsaturated(e) == [e EXCEPT !.attempts = @ - 1]

(* Queue::release takes one attempt back (saturating_sub). *)
TakeBackAttempt(e) ==
    [e EXCEPT !.attempts = IF @ = 0 THEN 0 ELSE @ - 1]

(* CommandEnvelope::has_retries_left, asked after the claim has counted. *)
HasRetriesLeft(e) == e.attempts <= MaxRetries[e.id]

(* AttemptKind: how an attempt ended. *)
AttemptKind == {"succeeded", "commandFailed", "unrunnable", "interrupted"}

(* The attempts that the stored count is about: every one that neither     *)
(* succeeded nor was stopped by the server.                                *)
CountedKind == {"commandFailed", "unrunnable"}

(* SettleAction::for_attempt. *)
ForAttempt(kind, e) ==
    CASE kind = "succeeded"                           -> "acknowledge"
      [] kind = "commandFailed" /\ HasRetriesLeft(e)  -> "retry"
      [] kind = "commandFailed" /\ ~HasRetriesLeft(e) -> "moveToFailed"
      [] kind = "unrunnable"                          -> "moveToFailed"
      [] kind = "interrupted"                         -> "release"

(* The stage directory or list that a settle writes to. *)
TargetOf(action) == IF action = "moveToFailed" THEN "failed" ELSE "pending"

=============================================================================
