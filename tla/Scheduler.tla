----------------------------- MODULE Scheduler ------------------------------
(***************************************************************************)
(* The server with its scheduled jobs (server/host.rs, scheduling/,        *)
(* server/lifecycle.rs, command.rs, and run_async of inengine/src/main.rs).*)
(*                                                                         *)
(* Each job is a task that sleeps until its next fire time, runs its       *)
(* command with its lifecycle and sleeps again. The command runs on a      *)
(* thread of tokio's blocking pool: the task waits for it until its        *)
(* deadline and a grace period have passed, then goes on without it, and   *)
(* the command keeps its thread. The cancellation token may fire between   *)
(* any two steps. The server stops when all jobs and the queue consumers   *)
(* have; the process then gives the threads that are left a fixed time.    *)
(*                                                                         *)
(* Time is abstracted to what the code compares it with: how many fire     *)
(* times of a job have passed, and whether the deadline and the grace      *)
(* period of its current run have. The queue consumers are one task here;  *)
(* FileLane and RedisLane are about them.                                  *)
(***************************************************************************)
EXTENDS Lifecycle, FiniteSets

CONSTANTS Job,        \* the jobs of the schedule
          Choices,    \* [Job -> SUBSET SUBSET Option]: how a job may have been built
          ChainLen,   \* [Job -> Nat]: the commands of the job's chain, 1 if none
          MaxFires,   \* [Job -> Nat]: bound on the fire times of a job
          PoolSize    \* the threads of the blocking pool

ASSUME SchedulerAssumption ==
    /\ Choices \in [Job -> SUBSET SUBSET Option]
    /\ ChainLen \in [Job -> Nat \ {0}]
    /\ MaxFires \in [Job -> Nat] /\ PoolSize \in Nat \ {0}

(* A run is named by its number; no job has more of them than the bounds allow. *)
Run == UNION {1 .. MaxFires[j] : j \in Job}

VARIABLES
    opt,        \* [Job -> SUBSET Option]: CommandLifecycle
    pc,         \* [Job -> Step \cup {"sleep", "stopped", "dead"}]
    due,        \* [Job -> Nat]: the fire times that have passed
    fire,       \* [Job -> Nat]: the fire time the job sleeps for
    runs,       \* [Job -> Nat]: the number of its current or last run
    timer,      \* [Job -> {"off", "on", "deadline", "grace"}]
    thread,     \* [Job -> [Run -> ThreadState]]: the command of each run
    link,       \* [Job -> [Run -> Nat]]: the command of the chain it is at
    result,     \* [Job -> [Run -> CommandResult \cup {"none"}]]: what a run returned
    done,       \* [Job -> [Run -> SUBSET Option]]: the steps that took effect
    abandoned,  \* the runs run_blocking has given up on
    cancelled,  \* the token of the server
    consumers,  \* whether the queue consumers still run
    host        \* "serving", "stopped" (Server::run returned) or "exited"

vars == <<opt, pc, due, fire, runs, timer, thread, link, result, done,
          abandoned, cancelled, consumers, host>>

ThreadState == {"none", "queued", "running"} \cup CommandEnd

Live(j, r) == thread[j][r] \in {"queued", "running"}

Running == {x \in Job \X Run : thread[x[1]][x[2]] = "running"}

(* A thread of the pool is free for a command or a file operation. *)
ThreadFree == Cardinality(Running) < PoolSize

Init ==
    /\ opt \in {f \in [Job -> UNION {Choices[j] : j \in Job}] :
                \A j \in Job : f[j] \in Choices[j]}
    /\ pc = [j \in Job |-> "pick"]
    /\ due = [j \in Job |-> 0]
    /\ fire = [j \in Job |-> 0]
    /\ runs = [j \in Job |-> 0]
    /\ timer = [j \in Job |-> "off"]
    /\ thread = [j \in Job |-> [r \in Run |-> "none"]]
    /\ link = [j \in Job |-> [r \in Run |-> 0]]
    /\ result = [j \in Job |-> [r \in Run |-> "none"]]
    /\ done = [j \in Job |-> [r \in Run |-> {}]]
    /\ abandoned = {}
    /\ cancelled = FALSE
    /\ consumers = TRUE
    /\ host = "serving"

-----------------------------------------------------------------------------
(* The loop of a job. *)

(* The task of job j goes to the first wanted step behind position p. *)
Goto(j, p) == \E t \in Step : IsNext(opt[j], p, t) /\ pc' = [pc EXCEPT ![j] = t]

(* Mutant of Pick: the time that has just passed may be picked again. *)
PickInclusive(j) ==
    /\ pc[j] = "pick"
    /\ fire' = [fire EXCEPT ![j] = IF due[j] = 0 THEN 1 ELSE due[j]]
    /\ pc' = [pc EXCEPT ![j] = "sleep"]
    /\ UNCHANGED <<opt, due, runs, timer, thread, link, result, done,
                   abandoned, cancelled, consumers, host>>

(* upcoming(Utc).next(): the next fire time that has not passed, if any. *)
Pick(j) ==
    /\ pc[j] = "pick"
    /\ IF due[j] < MaxFires[j]
       THEN /\ fire' = [fire EXCEPT ![j] = due[j] + 1]
            /\ pc' = [pc EXCEPT ![j] = "sleep"]
       ELSE /\ pc' = [pc EXCEPT ![j] = "stopped"]
            /\ UNCHANGED fire
    /\ UNCHANGED <<opt, due, runs, timer, thread, link, result, done,
                   abandoned, cancelled, consumers, host>>

(* Mutant of SleepCancelled: the token also ends the wait for a command. *)
SleepCancelledAnywhere(j) ==
    /\ pc[j] \in {"sleep", "await"} /\ cancelled
    /\ pc' = [pc EXCEPT ![j] = "stopped"]
    /\ UNCHANGED <<opt, due, fire, runs, timer, thread, link, result, done,
                   abandoned, cancelled, consumers, host>>

SleepCancelled(j) ==
    /\ pc[j] = "sleep" /\ cancelled
    /\ pc' = [pc EXCEPT ![j] = "stopped"]
    /\ UNCHANGED <<opt, due, fire, runs, timer, thread, link, result, done,
                   abandoned, cancelled, consumers, host>>

(* The sleep ends. select! takes either branch when the token has fired too. *)
Fire(j) ==
    /\ pc[j] = "sleep" /\ due[j] >= fire[j]
    /\ runs' = [runs EXCEPT ![j] = @ + 1]
    /\ Goto(j, 0)
    /\ UNCHANGED <<opt, due, fire, timer, thread, link, result, done,
                   abandoned, cancelled, consumers, host>>

(* The run of job j returns res, which the loop only logs. *)
Return(j, res) ==
    /\ result' = [result EXCEPT ![j][runs[j]] = res]
    /\ pc' = [pc EXCEPT ![j] = "pick"]

Took(j, s) == done' = [done EXCEPT ![j][runs[j]] = @ \cup {s}]

(* The run goes on behind step s: it is over when nothing else is wanted, and
   then returns what its command did. *)
GoOn(j, p, res) ==
    \/ /\ ~IsNext(opt[j], p, "pick") /\ Goto(j, p) /\ UNCHANGED result
    \/ IsNext(opt[j], p, "pick") /\ Return(j, res)

-----------------------------------------------------------------------------
(* The steps of run_with_lifecycle. *)

(* ping: an answer without an error status. *)
PingOk(j) ==
    /\ pc[j] \in Ping
    /\ Took(j, pc[j])
    /\ GoOn(j, Position(pc[j]), "ok")
    /\ UNCHANGED <<opt, due, fire, runs, timer, thread, link, abandoned,
                   cancelled, consumers, host>>

(* ping(url).await?: the run fails, and nothing more of it happens. *)
PingFails(j) ==
    /\ pc[j] \in Ping
    /\ Return(j, "failed")
    /\ UNCHANGED <<opt, due, fire, runs, timer, thread, link, done, abandoned,
                   cancelled, consumers, host>>

RunHook(j) ==
    /\ pc[j] \in Hook
    /\ Took(j, pc[j])
    /\ GoOn(j, Position(pc[j]), "ok")
    /\ UNCHANGED <<opt, due, fire, runs, timer, thread, link, abandoned,
                   cancelled, consumers, host>>

(* A hook that panics ends the task of the job. *)
HookPanics(j) ==
    /\ pc[j] \in Hook
    /\ pc' = [pc EXCEPT ![j] = "dead"]
    /\ UNCHANGED <<opt, due, fire, runs, timer, thread, link, result, done,
                   abandoned, cancelled, consumers, host>>

(* Mutant of Spawn: nobody waits for the command. *)
SpawnDetached(j) ==
    /\ pc[j] = "await" /\ thread[j][runs[j]] = "none"
    /\ thread' = [thread EXCEPT ![j][runs[j]] = "queued"]
    /\ Return(j, "ok")
    /\ UNCHANGED <<opt, due, fire, runs, timer, link, done, abandoned,
                   cancelled, consumers, host>>

(* The context with its deadline, and spawn_blocking. *)
Spawn(j) ==
    /\ pc[j] = "await" /\ thread[j][runs[j]] = "none"
    /\ thread' = [thread EXCEPT ![j][runs[j]] = "queued"]
    /\ timer' = [timer EXCEPT ![j] = IF "timeout" \in opt[j] THEN "on" ELSE "off"]
    /\ UNCHANGED <<opt, pc, due, fire, runs, link, result, done, abandoned,
                   cancelled, consumers, host>>

(* The command has ended and the task takes its result, also when its time is
   up: timeout_at looks at the command before it looks at the clock. *)
Joined(j) ==
    LET end == thread[j][runs[j]] IN
    /\ pc[j] = "await" /\ end \in CommandEnd
    /\ GoOn(j, GoesOnAfter(end), ResultOf(end))
    /\ timer' = [timer EXCEPT ![j] = "off"]
    /\ UNCHANGED <<opt, due, fire, runs, thread, link, done, abandoned,
                   cancelled, consumers, host>>

(* RunBlockingError::DeadlineIgnored. *)
GiveUp(j) ==
    /\ pc[j] = "await" /\ timer[j] = "grace" /\ Live(j, runs[j])
    /\ abandoned' = abandoned \cup {<<j, runs[j]>>}
    /\ Return(j, "timeout")
    /\ timer' = [timer EXCEPT ![j] = "off"]
    /\ UNCHANGED <<opt, due, fire, runs, thread, link, done, cancelled,
                   consumers, host>>

(* A step of persist_output. The file operations need a thread of the pool. *)
SaveOk(j) ==
    /\ pc[j] \in Save
    /\ pc[j] # "email_output_to" => ThreadFree
    /\ Took(j, pc[j])
    /\ GoOn(j, Position(pc[j]), ResultOf(thread[j][runs[j]]))
    /\ UNCHANGED <<opt, due, fire, runs, timer, thread, link, abandoned,
                   cancelled, consumers, host>>

(* Mutant of SaveFails: the error is dropped. *)
SaveFailsQuietly(j) ==
    /\ pc[j] \in Save
    /\ pc[j] # "email_output_to" => ThreadFree
    /\ GoOn(j, Position(pc[j]), ResultOf(thread[j][runs[j]]))
    /\ UNCHANGED <<opt, due, fire, runs, timer, thread, link, done, abandoned,
                   cancelled, consumers, host>>

(* It fails, before or after a part of the output is out. The steps behind it
   are not taken. A successful run fails with it, a failed one keeps its own
   error. *)
SaveFails(j) ==
    /\ pc[j] \in Save
    /\ pc[j] # "email_output_to" => ThreadFree
    /\ Took(j, pc[j]) \/ UNCHANGED done
    /\ Return(j, IF thread[j][runs[j]] = "ok" THEN "failed"
                 ELSE ResultOf(thread[j][runs[j]]))
    /\ UNCHANGED <<opt, due, fire, runs, timer, thread, link, abandoned,
                   cancelled, consumers, host>>

JobStep(j) ==
    \/ Pick(j) \/ SleepCancelled(j) \/ Fire(j)
    \/ PingOk(j) \/ PingFails(j) \/ RunHook(j) \/ HookPanics(j)
    \/ Spawn(j) \/ Joined(j) \/ GiveUp(j)
    \/ SaveOk(j) \/ SaveFails(j)

-----------------------------------------------------------------------------
(* The threads of the pool, and time. *)

(* A free thread takes the command. Nobody needs to wait for it any more. *)
ThreadStarts(j, r) ==
    /\ host # "exited"
    /\ thread[j][r] = "queued" /\ ThreadFree
    /\ thread' = [thread EXCEPT ![j][r] = "running"]
    /\ link' = [link EXCEPT ![j][r] = 1]
    /\ UNCHANGED <<opt, pc, due, fire, runs, timer, result, done, abandoned,
                   cancelled, consumers, host>>

(* What a command can return. It is interrupted only after the token has fired;
   an exec has a timeout of its own, so that it may time out in any job. *)
Possible == {end \in CommandEnd : end = "interrupted" => cancelled}

(* Chain::run: the next command after a success, the end after an error or
   the last command. The token is for the commands to look at. *)
CommandEnds(j, r) ==
    /\ host # "exited"
    /\ thread[j][r] = "running"
    /\ \E end \in Possible :
          IF end = "ok" /\ link[j][r] < ChainLen[j]
          THEN link' = [link EXCEPT ![j][r] = @ + 1] /\ UNCHANGED thread
          ELSE thread' = [thread EXCEPT ![j][r] = end] /\ UNCHANGED link
    /\ UNCHANGED <<opt, pc, due, fire, runs, timer, result, done, abandoned,
                   cancelled, consumers, host>>

(* A fire time of the cron expression passes. *)
TimePasses(j) ==
    /\ due[j] < MaxFires[j]
    /\ due' = [due EXCEPT ![j] = @ + 1]
    /\ UNCHANGED <<opt, pc, fire, runs, timer, thread, link, result, done,
                   abandoned, cancelled, consumers, host>>

(* Mutant of TimerPasses: nothing happens after the deadline. *)
TimerPassesOnce(j) ==
    /\ timer[j] = "on"
    /\ timer' = [timer EXCEPT ![j] = "deadline"]
    /\ UNCHANGED <<opt, pc, due, fire, runs, thread, link, result, done,
                   abandoned, cancelled, consumers, host>>

(* The deadline of a run passes, and after it ENFORCEMENT_GRACE. *)
TimerPasses(j) ==
    /\ timer[j] \in {"on", "deadline"}
    /\ timer' = [timer EXCEPT ![j] = IF @ = "on" THEN "deadline" ELSE "grace"]
    /\ UNCHANGED <<opt, pc, due, fire, runs, thread, link, result, done,
                   abandoned, cancelled, consumers, host>>

-----------------------------------------------------------------------------
(* The server. *)

Cancel ==
    /\ ~cancelled /\ cancelled' = TRUE
    /\ UNCHANGED <<opt, pc, due, fire, runs, timer, thread, link, result, done,
                   abandoned, consumers, host>>

(* QueueConsumers::run returns, once the token has fired. *)
ConsumersStop ==
    /\ cancelled /\ consumers /\ consumers' = FALSE
    /\ UNCHANGED <<opt, pc, due, fire, runs, timer, thread, link, result, done,
                   abandoned, cancelled, host>>

(* Mutant of ServerStops: it also waits for the commands it has given up. *)
ServerStopsLast ==
    /\ host = "serving" /\ ~consumers
    /\ \A j \in Job : pc[j] \in {"stopped", "dead"} /\ \A r \in Run : ~Live(j, r)
    /\ host' = "stopped"
    /\ UNCHANGED <<opt, pc, due, fire, runs, timer, thread, link, result, done,
                   abandoned, cancelled, consumers>>

(* Scheduler::run has joined every job, and join! the consumers. *)
ServerStops ==
    /\ host = "serving" /\ ~consumers
    /\ \A j \in Job : pc[j] \in {"stopped", "dead"}
    /\ host' = "stopped"
    /\ UNCHANGED <<opt, pc, due, fire, runs, timer, thread, link, result, done,
                   abandoned, cancelled, consumers>>

(* shutdown_timeout: the threads have ended, or RUNTIME_SHUTDOWN_LIMIT is over. *)
Exit ==
    /\ host = "stopped" /\ host' = "exited"
    /\ UNCHANGED <<opt, pc, due, fire, runs, timer, thread, link, result, done,
                   abandoned, cancelled, consumers>>

Next ==
    \/ \E j \in Job : JobStep(j) \/ TimePasses(j) \/ TimerPasses(j)
    \/ \E j \in Job, r \in Run : ThreadStarts(j, r) \/ CommandEnds(j, r)
    \/ Cancel \/ ConsumersStop \/ ServerStops \/ Exit

Spec == Init /\ [][Next]_vars

(* tokio goes on with a task that can go on, a free thread takes a queued
   command and time passes. A command ends by itself only when the job has no
   timeout: one that has may ignore its deadline for ever. *)
Fairness ==
    /\ \A j \in Job : WF_vars(JobStep(j)) /\ WF_vars(TimerPasses(j))
    /\ \A j \in Job, r \in Run :
          /\ WF_vars(ThreadStarts(j, r))
          /\ WF_vars("timeout" \notin opt[j] /\ CommandEnds(j, r))
    /\ WF_vars(ConsumersStop) /\ WF_vars(ServerStops) /\ WF_vars(Exit)

FairSpec == Spec /\ Fairness

-----------------------------------------------------------------------------
(* Properties. *)

(* Every variable keeps its type, and the current run of a job is within the
   bound whenever the job is in one. *)
TypeOK ==
    /\ opt \in [Job -> SUBSET Option]
    /\ pc \in [Job -> Step \cup {"sleep", "stopped", "dead"}]
    /\ due \in [Job -> Nat] /\ fire \in [Job -> Nat] /\ runs \in [Job -> Nat]
    /\ \A j \in Job : runs[j] <= MaxFires[j]
    /\ \A j \in Job : pc[j] \in Step \ {"pick"} => runs[j] \in Run
    /\ timer \in [Job -> {"off", "on", "deadline", "grace"}]
    /\ thread \in [Job -> [Run -> ThreadState]]
    /\ link \in [Job -> [Run -> Nat]]
    /\ result \in [Job -> [Run -> CommandResult \cup {"none"}]]
    /\ done \in [Job -> [Run -> SUBSET Option]]
    /\ abandoned \subseteq Job \X Run
    /\ cancelled \in BOOLEAN
    /\ consumers \in BOOLEAN
    /\ host \in {"serving", "stopped", "exited"}

(* What scheduling.md promises of the output: it is written, appended or mailed
   only for a command that returned, with a success or an error of its own,
   before the server gave it up. A command that was stopped, ignored its
   deadline or panicked leaves nothing, and a success whose after ping failed
   neither. *)
SavedOnlyWithResult ==
    \A j \in Job, r \in Run :
        done[j][r] \cap Save # {} =>
            /\ <<j, r>> \notin abandoned
            /\ thread[j][r] \in {"ok", "failed", "timeout"}
            /\ thread[j][r] = "ok" => opt[j] \cap {"after_run", "ping_after_url"} \subseteq done[j][r]

(* What a run returns is what happened: a success means that every hook, ping
   and output target of the job took effect, a timeout that the command was
   given up or reported its deadline, an interruption that the token fired. *)
ReturnIsTruthful ==
    \A j \in Job, r \in Run :
        /\ result[j][r] = "ok" =>
              thread[j][r] = "ok" /\ done[j][r] = opt[j] \ {"timeout"}
        /\ result[j][r] = "timeout" =>
              <<j, r>> \in abandoned \/ thread[j][r] = "timeout"
        /\ result[j][r] = "interrupted" => cancelled
        /\ <<j, r>> \in abandoned => result[j][r] = "timeout"

(* schedule.rs, timeout: the next run of a job can start while a command that
   ignored its deadline still runs. Only then: of the commands of one job that
   are on the pool, all but the one of the last run have been given up. *)
OverlapsOnlyAbandoned ==
    \A j \in Job, r \in Run :
        Live(j, r) /\ <<j, r>> \notin abandoned => r = runs[j] /\ pc[j] = "await"

(* host.rs: the server waits for every running command. Once it has stopped,
   the only commands left are the ones it has given up, and these wrote and
   will write nothing. *)
WaitsForCommands ==
    host # "serving" =>
        \A j \in Job, r \in Run :
            Live(j, r) => <<j, r>> \in abandoned /\ done[j][r] \cap Save = {}

(* scheduler.rs: no job runs twice for one fire time. A job that picks its next
   fire time picks a later one than the last, whatever was missed meanwhile. *)
NoFireTimeTwice ==
    [][\A j \in Job : pc[j] = "pick" /\ pc'[j] = "sleep" => fire'[j] > fire[j]]_vars

(* The commands that were given up hold every thread of the pool. *)
Exhausted == Cardinality(Running \cap abandoned) >= PoolSize

(* server.md: when the token fires the server stops and the process exits,
   although a command with a timeout never returns, unless such commands have
   taken every thread. *)
ShutdownCompletes == cancelled ~> (host = "exited" \/ Exhausted)

(* run_blocking: the task of a job with a timeout gets away from its command,
   whatever the command does and however busy the pool is. *)
DeadlineFreesJob ==
    \A j \in Job :
        (pc[j] = "await" /\ "timeout" \in opt[j]) ~> pc[j] # "await"

=============================================================================
