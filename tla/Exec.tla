-------------------------------- MODULE Exec --------------------------------
(***************************************************************************)
(* The exec command (commands/exec/mod.rs, commands/exec/pipe.rs): a child *)
(* process, a thread that reads each of its output pipes, and the loop     *)
(* that polls for the end of all three under a time limit and the token.   *)
(*                                                                         *)
(* The child may start a background process that inherits its pipes and    *)
(* keeps them open after the child has ended. Processes, readers and the   *)
(* loop interleave at every write, read and poll; the token may fire and   *)
(* time may pass between any two of them.                                  *)
(***************************************************************************)
EXTENDS StreamBuffer

CONSTANTS Pipe,       \* {"stdout", "stderr"}
          MaxBytes,   \* [Pipe -> Nat]: bound on what is written to a pipe
          PipeSize,   \* the bytes a pipe holds before a write blocks
          MaxTime,    \* bound on the clock, past every limit
          Timeouts,   \* the timeouts a caller may give, 0 for none
          Deadlines,  \* the deadlines of the context, NoLimit for none
          NoLimit

ASSUME ExecAssumption ==
    /\ MaxBytes \in [Pipe -> Nat] /\ PipeSize \in Nat \ {0}
    /\ MaxTime \in Nat /\ Timeouts \subseteq 0 .. MaxTime
    /\ Deadlines \subseteq (0 .. MaxTime) \cup {NoLimit}
    /\ NoLimit \notin Nat

VARIABLES
    pc,          \* the loop: "spawn", "try_wait", "poll", "stop", "reap", "take", "returned"
    timeout,     \* Exec::timeout
    deadline,    \* CommandContext::deadline
    limit,       \* WaitLimit, or NoLimit
    now,         \* the clock, 0 when the loop starts
    drainOver,   \* PIPE_DRAIN_LIMIT has passed since the exit was seen
    cancelled,   \* the token of the context
    child,       \* "none", "running" or how it ended: "success", "failure"
    reaped,      \* the child has been waited for, its process id is free
    exit,        \* the status try_wait has seen, or "none"
    holders,     \* [Pipe -> SUBSET {"child", "background"}]: its open write ends
    written,     \* [Pipe -> Nat]: the bytes written to it
    read,        \* [Pipe -> Nat]: the bytes its reader has pushed
    buffer,      \* [Pipe -> StreamBuffer]
    reader,      \* [Pipe -> {"reading", "ok", "error"}]: the thread, and what it sent
    polled,      \* [Pipe -> BOOLEAN]: PipeReader::done
    waited,      \* the result of wait_for_exit
    kept,        \* [Pipe -> KeptOutput]
    kills,       \* the signals sent to the child's process id
    killFails    \* whether the child can be killed at all

vars == <<pc, timeout, deadline, limit, now, drainOver, cancelled, child,
          reaped, exit, holders, written, read, buffer, reader, polled,
          waited, kept, kills, killFails>>

process == <<child, holders, written>>
readers == <<read, buffer, reader>>
world   == <<now, cancelled>>
fixed   == <<timeout, deadline, killFails>>

(* Mutant of WaitLimit: the later of the two. *)
WaitLimitLater(t, d) ==
    LET process_ == [at |-> t, seconds |-> t, of |-> "timeout"]
        context_ == [at |-> d, seconds |-> d, of |-> "deadline"]
    IN  CASE t > 0 /\ d # NoLimit -> IF d < t THEN process_ ELSE context_
          [] t > 0 /\ d = NoLimit -> process_
          [] t = 0 /\ d # NoLimit -> context_
          [] OTHER                -> NoLimit

(* wait_limit: the earlier of the process timeout and the context deadline, with
   the limit that is reported when it passes. The process timeout starts now. *)
WaitLimit(t, d) ==
    LET process_ == [at |-> t, seconds |-> t, of |-> "timeout"]
        context_ == [at |-> d, seconds |-> d, of |-> "deadline"]
    IN  CASE t > 0 /\ d # NoLimit -> IF d < t THEN context_ ELSE process_
          [] t > 0 /\ d = NoLimit -> process_
          [] t = 0 /\ d # NoLimit -> context_
          [] OTHER                -> NoLimit

Init ==
    /\ pc = "spawn"
    /\ timeout \in Timeouts /\ deadline \in Deadlines
    /\ limit = NoLimit
    /\ now = 0 /\ drainOver = FALSE
    /\ cancelled \in BOOLEAN
    /\ child = "none" /\ reaped = FALSE /\ exit = "none"
    /\ holders = [p \in Pipe |-> {}]
    /\ written = [p \in Pipe |-> 0]
    /\ read = [p \in Pipe |-> 0]
    /\ buffer = [p \in Pipe |-> Empty]
    /\ reader = [p \in Pipe |-> "reading"]
    /\ polled = [p \in Pipe |-> FALSE]
    /\ waited = "none"
    /\ kept = [p \in Pipe |-> Kept(Empty)]
    /\ kills = 0
    /\ killFails \in BOOLEAN

-----------------------------------------------------------------------------
(* The processes. *)

(* The child, or a process it left behind, writes a byte; it waits while the
   pipe is full. *)
Write(p, w) ==
    /\ w \in holders[p]
    /\ written[p] < MaxBytes[p] /\ written[p] - read[p] < PipeSize
    /\ written' = [written EXCEPT ![p] = @ + 1]
    /\ UNCHANGED <<pc, limit, drainOver, child, reaped, exit, holders, polled,
                   waited, kept, kills, readers, world, fixed>>

(* The child starts a background process that inherits its pipes. *)
StartBackground ==
    /\ child = "running"
    /\ \A p \in Pipe : "background" \notin holders[p]
    /\ holders' = [p \in Pipe |-> holders[p] \cup {"background"}]
    /\ UNCHANGED <<pc, limit, drainOver, child, reaped, exit, written, polled,
                   waited, kept, kills, readers, world, fixed>>

BackgroundEnds ==
    /\ \E p \in Pipe : "background" \in holders[p]
    /\ holders' = [p \in Pipe |-> holders[p] \ {"background"}]
    /\ UNCHANGED <<pc, limit, drainOver, child, reaped, exit, written, polled,
                   waited, kept, kills, readers, world, fixed>>

(* The child is gone: its ends of the pipes close. *)
ChildGone(how) ==
    /\ child' = how
    /\ holders' = [p \in Pipe |-> holders[p] \ {"child"}]

ChildExits ==
    /\ child = "running"
    /\ ChildGone("success") \/ ChildGone("failure")
    /\ UNCHANGED <<pc, limit, drainOver, reaped, exit, written, polled, waited,
                   kept, kills, readers, world, fixed>>

-----------------------------------------------------------------------------
(* The reader threads. *)

(* Mutant of Read: the thread stops once its buffer is taken. *)
ReadUntilTaken(p) ==
    /\ reader[p] = "reading" /\ child # "none" /\ ~buffer[p].taken
    /\ \E n \in read[p] + 1 .. written[p] :
          /\ read' = [read EXCEPT ![p] = n]
          /\ buffer' = [buffer EXCEPT ![p] = Push(@, Bytes(read[p] + 1, n))]
    /\ UNCHANGED <<pc, limit, drainOver, reaped, exit, reader, polled, waited,
                   kept, kills, process, world, fixed>>

(* One read of up to a chunk, pushed under the lock of the buffer. *)
Read(p) ==
    /\ reader[p] = "reading" /\ child # "none"
    /\ \E n \in read[p] + 1 .. written[p] :
          /\ read' = [read EXCEPT ![p] = n]
          /\ buffer' = [buffer EXCEPT ![p] = Push(@, Bytes(read[p] + 1, n))]
    /\ UNCHANGED <<pc, limit, drainOver, reaped, exit, reader, polled, waited,
                   kept, kills, process, world, fixed>>

(* Mutant of ReadEnd: bytes that are still in the pipe are dropped. *)
ReadEndEarly(p) ==
    /\ reader[p] = "reading" /\ child # "none" /\ holders[p] = {}
    /\ reader' = [reader EXCEPT ![p] = "ok"]
    /\ UNCHANGED <<pc, limit, drainOver, reaped, exit, read, buffer, polled,
                   waited, kept, kills, process, world, fixed>>

(* The end of the stream: every write end is closed and everything is read. *)
ReadEnd(p) ==
    /\ reader[p] = "reading" /\ child # "none"
    /\ holders[p] = {} /\ read[p] = written[p]
    /\ reader' = [reader EXCEPT ![p] = "ok"]
    /\ UNCHANGED <<pc, limit, drainOver, reaped, exit, read, buffer, polled,
                   waited, kept, kills, process, world, fixed>>

(* The read fails; or the thread stops without an answer, which poll reports
   as an error too. *)
ReadFails(p) ==
    /\ reader[p] = "reading" /\ child # "none"
    /\ reader' = [reader EXCEPT ![p] = "error"]
    /\ UNCHANGED <<pc, limit, drainOver, reaped, exit, read, buffer, polled,
                   waited, kept, kills, process, world, fixed>>

-----------------------------------------------------------------------------
(* The command. *)

(* The executable is whitelisted and starts; both readers are spawned, and the
   loop computes its limit. *)
Spawn ==
    /\ pc = "spawn" /\ pc' = "try_wait"
    /\ child' = "running"
    /\ holders' = [p \in Pipe |-> {"child"}]
    /\ limit' = WaitLimit(timeout, deadline)
    /\ UNCHANGED <<drainOver, reaped, exit, written, polled, waited, kept,
                   kills, readers, world, fixed>>

(* It is not whitelisted, does not exist or cannot start. *)
SpawnFails ==
    /\ pc = "spawn" /\ pc' = "returned" /\ waited' = "not_started"
    /\ UNCHANGED <<limit, drainOver, reaped, exit, polled, kept, kills, process,
                   readers, world, fixed>>

(* try_wait reaps a child that has ended. *)
TryWait ==
    /\ pc = "try_wait" /\ pc' = "poll"
    /\ IF exit = "none" /\ child # "running"
       THEN exit' = child /\ reaped' = TRUE
       ELSE UNCHANGED <<exit, reaped>>
    /\ UNCHANGED <<limit, drainOver, polled, waited, kept, kills, process,
                   readers, world, fixed>>

TryWaitFails ==
    /\ pc = "try_wait" /\ exit = "none"
    /\ pc' = "stop" /\ waited' = "wait_error"
    /\ UNCHANGED <<limit, drainOver, reaped, exit, polled, kept, kills, process,
                   readers, world, fixed>>

(* PipeReader::poll of each reader: nobody's answer is an error. *)
Drained == \A p \in Pipe : polled[p] \/ reader[p] = "ok"

Broken == \E p \in Pipe : ~polled[p] /\ reader[p] = "error"

LimitOver == limit # NoLimit /\ now >= limit.at

(* Mutants of Verdict: no limit; no end of the wait for the pipes. *)
VerdictWithoutLimit ==
    CASE Broken                                     -> "read_error"
      [] exit # "none" /\ (Drained \/ drainOver)    -> exit
      [] cancelled                                  -> "interrupted"
      [] OTHER                                      -> "none"

VerdictAfterPipes ==
    CASE Broken                       -> "read_error"
      [] exit # "none" /\ Drained     -> exit
      [] cancelled                    -> "interrupted"
      [] LimitOver                    -> "timeout"
      [] OTHER                        -> "none"

(* The rest of a turn of the loop: the readers, the exit, the token, the limit,
   in this order. *)
Verdict ==
    CASE Broken                                     -> "read_error"
      [] exit # "none" /\ (Drained \/ drainOver)    -> exit
      [] cancelled                                  -> "interrupted"
      [] LimitOver                                  -> "timeout"
      [] OTHER                                      -> "none"

Poll ==
    /\ pc = "poll"
    /\ waited' = Verdict
    /\ polled' = [p \in Pipe |-> polled[p] \/ reader[p] = "ok"]
    /\ pc' = CASE Verdict = "none"                   -> "try_wait"
               [] Verdict \in {"success", "failure"} -> "take"
               [] OTHER                              -> "stop"
    /\ UNCHANGED <<limit, drainOver, reaped, exit, kept, kills, process,
                   readers, world, fixed>>

(* Mutants of StopChild: no wait after the kill; a kill after the exit. *)
StopChildUnreaped ==
    /\ pc = "stop" /\ pc' = "take"
    /\ IF child = "running" /\ ~killFails
       THEN ChildGone("failure") ELSE UNCHANGED <<child, holders>>
    /\ UNCHANGED <<limit, drainOver, reaped, exit, written, polled, waited,
                   kept, kills, readers, world, fixed>>

StopChildAlways ==
    /\ pc = "stop" /\ pc' = "reap" /\ kills' = kills + 1
    /\ IF child = "running" /\ ~killFails
       THEN ChildGone("failure") ELSE UNCHANGED <<child, holders>>
    /\ UNCHANGED <<limit, drainOver, reaped, exit, written, polled, waited,
                   kept, readers, world, fixed>>

(* stop_child: nothing to do for a child that was reaped; else a kill, which
   may fail, and a wait. *)
StopChild ==
    /\ pc = "stop"
    /\ IF exit # "none"
       THEN pc' = "take" /\ UNCHANGED <<kills, child, holders>>
       ELSE /\ pc' = "reap" /\ kills' = kills + 1
            /\ IF child = "running" /\ ~killFails
               THEN ChildGone("failure") ELSE UNCHANGED <<child, holders>>
    /\ UNCHANGED <<limit, drainOver, reaped, exit, written, polled, waited,
                   kept, readers, world, fixed>>

Reap ==
    /\ pc = "reap" /\ child # "running"
    /\ pc' = "take" /\ reaped' = TRUE
    /\ UNCHANGED <<limit, drainOver, exit, polled, waited, kept, kills, process,
                   readers, world, fixed>>

(* PipeReader::take of one reader; its thread goes on with the pipe. *)
Take(p) ==
    /\ pc = "take" /\ ~buffer[p].taken
    /\ kept' = [kept EXCEPT ![p] = Kept(buffer[p])]
    /\ buffer' = [buffer EXCEPT ![p] = Taken(@)]
    /\ UNCHANGED <<pc, limit, drainOver, reaped, exit, read, reader, polled,
                   waited, kills, process, world, fixed>>

(* Both outputs are written and run returns: waited is the result. *)
ExecReturn ==
    /\ pc = "take" /\ \A p \in Pipe : buffer[p].taken
    /\ pc' = "returned"
    /\ UNCHANGED <<limit, drainOver, reaped, exit, polled, waited, kept, kills,
                   process, readers, world, fixed>>

Loop == \/ Spawn \/ SpawnFails \/ TryWait \/ TryWaitFails \/ Poll
        \/ StopChild \/ Reap \/ ExecReturn
        \/ \E p \in Pipe : Take(p)

-----------------------------------------------------------------------------
(* Time and the token. *)

Tick ==
    /\ child # "none" /\ now < MaxTime /\ now' = now + 1
    /\ UNCHANGED <<pc, limit, drainOver, cancelled, reaped, exit, polled,
                   waited, kept, kills, process, readers, fixed>>

DrainElapses ==
    /\ exit # "none" /\ ~drainOver /\ drainOver' = TRUE
    /\ UNCHANGED <<pc, limit, reaped, exit, polled, waited, kept, kills,
                   process, readers, world, fixed>>

Cancel ==
    /\ ~cancelled /\ cancelled' = TRUE
    /\ UNCHANGED <<pc, limit, drainOver, now, reaped, exit, polled, waited,
                   kept, kills, process, readers, fixed>>

Next ==
    \/ Loop \/ StartBackground \/ BackgroundEnds \/ ChildExits
    \/ \E p \in Pipe : \/ \E w \in {"child", "background"} : Write(p, w)
                       \/ Read(p) \/ ReadEnd(p) \/ ReadFails(p)
    \/ Tick \/ DrainElapses \/ Cancel

Spec == Init /\ [][Next]_vars

(* The loop polls on, a reader goes on with its pipe and time passes. Neither
   the child nor a background process needs to end. *)
Fairness ==
    /\ WF_vars(Loop) /\ WF_vars(Tick) /\ WF_vars(DrainElapses)
    /\ \A p \in Pipe : WF_vars(Read(p) \/ ReadEnd(p))

FairSpec == Spec /\ Fairness

-----------------------------------------------------------------------------
(* Properties. *)

Status == {"success", "failure"}

(* pipe.rs: however the stream is cut into reads, the buffer holds its start, its
   end and the number of bytes between; and what Exec takes is that of some
   prefix of the stream, which later reads do not change. *)
KeptIsWindow ==
    \A p \in Pipe :
        /\ ~buffer[p].taken => Kept(buffer[p]) = Window(read[p])
        /\ buffer[p].taken => \E n \in 0 .. read[p] : kept[p] = Window(n)

(* When Exec returns a status after both readers have reported the end of their
   pipes, every byte the child and its descendants wrote is accounted for. *)
OutputComplete ==
    pc = "returned" /\ waited \in Status /\ (\A p \in Pipe : polled[p]) =>
        \A p \in Pipe : kept[p] = Window(written[p])

(* Exec leaves no running child and no zombie, however wait_for_exit ended. *)
NoChildLeft ==
    pc \in {"take", "returned"} /\ child # "none" => reaped /\ child # "running"

(* stop_child: a signal is sent at most once and never to a process id that has
   been reaped and may belong to another process. *)
KillsOnlyOwnChild == [][kills' # kills => ~reaped /\ kills = 0]_vars

Limits == (IF timeout > 0 THEN {timeout} ELSE {}) \cup ({deadline} \ {NoLimit})

(* Exec reports a timeout only when the earlier of its two limits has passed,
   and names that one. *)
TimeoutIsEarliest ==
    waited = "timeout" =>
        /\ limit.at \in Limits /\ now >= limit.at
        /\ \A l \in Limits : limit.at <= l
        /\ limit.seconds = IF limit.of = "timeout" THEN timeout ELSE deadline

(* The child does not outlive its limit or the token, unless it cannot be
   killed. *)
StopsInTime ==
    (child = "running" /\ (cancelled \/ \E l \in Limits : now >= l))
        ~> (child # "running" \/ killFails)

(* Exec returns after the child has ended, although a background process keeps
   the pipes open for ever. *)
ReturnsAfterExit == (child \in Status) ~> (pc = "returned")

(* A reader drains its pipe even after Exec has returned, so that a background
   process is never stuck on a full pipe. *)
PipesAreDrained ==
    \A p \in Pipe :
        (read[p] < written[p]) ~> (read[p] = written[p] \/ reader[p] = "error")

(* error.rs says of Interrupted: "The server stopped while the command ran, so
   the command did not finish or fail." The code reports it also for a child
   whose exit it has seen. *)
InterruptedIsUnfinished == waited = "interrupted" => exit = "none"

=============================================================================
