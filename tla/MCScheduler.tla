---------------------------- MODULE MCScheduler -----------------------------
(* A small instance of Scheduler for TLC. *)
EXTENDS Scheduler

CONSTANTS a, b

(* One job that comes to run twice and has every option between its builds;
   one with a chain of two commands and no timeout. *)
Built == [j \in Job |->
    IF j = a THEN {{"ping_before_url", "before_run", "timeout", "write_output_to",
                    "email_output_to"},
                   {"timeout", "after_run", "ping_after_url", "append_output_to"}}
    ELSE {{}}]

Fires == [j \in Job |-> IF j = a THEN 2 ELSE 1]

Chains == [j \in Job |-> IF j = a THEN 1 ELSE 2]

=============================================================================
