----------------------------- MODULE Lifecycle ------------------------------
(***************************************************************************)
(* One run of a scheduled command (server/lifecycle.rs) as a line of steps *)
(* and what the blocking runner (command.rs) makes of the end of its       *)
(* command. A step is named after the option that asks for it; "await" is  *)
(* run_blocking and "pick" is the return to the loop of the job.           *)
(***************************************************************************)
EXTENDS Naturals

(* LifecycleOptions and LifecycleHooks: what a job may ask for. *)
Option == {"ping_before_url", "before_run", "timeout", "after_run",
           "ping_after_url", "write_output_to", "append_output_to",
           "email_output_to"}

Ping == {"ping_before_url", "ping_after_url"}
Hook == {"before_run", "after_run"}
Save == {"write_output_to", "append_output_to", "email_output_to"}

Step == Ping \cup Hook \cup Save \cup {"await", "pick"}

(* The order in which run_with_lifecycle and persist_output take the steps. *)
Position(s) ==
    CASE s = "ping_before_url"  -> 1
      [] s = "before_run"       -> 2
      [] s = "await"            -> 3
      [] s = "after_run"        -> 4
      [] s = "ping_after_url"   -> 5
      [] s = "write_output_to"  -> 6
      [] s = "append_output_to" -> 7
      [] s = "email_output_to"  -> 8
      [] OTHER                  -> 9

(* A command always runs and the loop always goes on; the other steps are
   there when the job has the option. *)
Wanted(opt, s) == s \in opt \cup {"await", "pick"}

(* t is the next step of a job with the options opt after the position p. *)
IsNext(opt, p, t) ==
    /\ Wanted(opt, t) /\ p < Position(t)
    /\ \A s \in Step :
          Wanted(opt, s) /\ p < Position(s) => Position(t) <= Position(s)

(* How a command ends: what Command::run returns, or its panic. *)
CommandEnd == {"ok", "failed", "timeout", "interrupted", "panicked"}

(* What run_with_lifecycle returns. *)
CommandResult == {"ok", "failed", "timeout", "interrupted"}

(* The result of run_blocking as the error of the run: a panic is a failure
   (RunBlockingError::Panicked), the rest is the result of the command. *)
ResultOf(end) == IF end = "panicked" THEN "failed" ELSE end

(* Mutant of GoesOnAfter: the output of a stopped command is saved. *)
GoesOnAfterStop(end) ==
    IF end = "ok" THEN Position("await") ELSE Position("ping_after_url")

(* The position from which the run goes on after its command has ended: a
   success takes every step, an error of the command only saves the output,
   a panic and an interruption leave at once. *)
GoesOnAfter(end) ==
    CASE end = "ok"                      -> Position("await")
      [] end \in {"failed", "timeout"}   -> Position("ping_after_url")
      [] OTHER                           -> Position("email_output_to")

=============================================================================
