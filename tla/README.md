# InEngine in TLA+

InEngine runs commands: at once from the command line, on a cron schedule, or
from a queue that a server consumes. The queue is kept in files or in Redis.
This project models the queue and its consumers, the scheduler and the commands
it runs, the exec command, plugins, the configuration and the start of the
program. It checks the models with TLC. The safety properties of both kinds of
queue, the scheduler, exec, plugins, the configuration and the start are also
proved with TLAPS. Paths below are relative to `src/inengine-core/src`;
`main.rs`, `cli.rs` and `plugins.rs` are in `src/inengine/src`.

## Inventory

| Component | State | Operations | Hard parts |
|---|---|---|---|
| Envelope and settle decision (`queue/envelope.rs`, `queue/delivery.rs`) | id, attempts, max_retries | `new`, `has_retries_left`, `for_attempt`, `settle` | count read after the claim has added one; a delivery settled again |
| File driver (`queue/driver/file`) | three directories of files, hidden settling files | publish, claim, acknowledge, move_claimed, recover, clear, republish_failed | no lock: every file-system call interleaves with other processes; crashes; I/O errors halfway |
| Redis driver (`queue/driver/redis`) | three lists | the same, as commands and scripts | lost replies, requests that run late, batches, settles that name an element by its bytes |
| Queue interface (`queue/mod.rs`) | lane and driver | dispatch to the driver, `release` | what Lost and Interrupted promise |
| Delivery processing (`queue/processing.rs`) | one delivery | `process_delivery`, `run_attempt` | a shutdown between claim and run |
| Server consumers (`server/consumers.rs`) | tasks, token | `run`, `recover_or_report_in_progress`, `settle_until_done` | recovery before the first consumer, retry against shutdown |
| Queue commands (`queue_admin`) | tally | publish, consume, clear, peek, lengths, republish, recover | run as other processes beside the server |
| Command lifecycle, blocking runner (`server/lifecycle.rs`, `command.rs`) | options and hooks of a job, deadline, thread of the command | ping, hook, run, write, append, mail | timeout against a late result, one step failing after another took effect, a command that never ends |
| Scheduler, host (`scheduling`, `server/host.rs`) | the task of each job, its next fire time | pick, sleep, run, stop | missed times, sleep against token, what the stop waits for |
| Process execution (`commands/exec`) | child, two pipes with reader threads, bounded buffers | start, poll, stop, reap, take | exit against timeout against cancellation, processes that hold the pipes, full pipes |
| Plugins (`plugin`) | engine with a ticker; per call a store, limiter and deadline | load, register, call | growth accounting, two deadlines and a token, guests that never return |
| Registry and chain (`queue/registry.rs`, `commands/chain.rs`) | constructors by name | register, build, run in order | name conflicts, early end |
| Configuration (`config`) | spec, report, settings | parse, validate, lower | bounds stated twice, rules over several fields |
| Notifications (`server/notify.rs`) | mail settings | ping, send_email | plain-text credentials, failures inside a run |
| Command line (`main.rs`, `cli.rs`, `plugins.rs`) | request, plugins, registry, schedule | one request per process | order of set-up, exit code |
| Compression, output, errors | texts | encode, format | none |

The server's consumers, `inengine queue consume` processes, the recover, clear
and republish commands and publishers meet only in the stored queue. Within the
server they also share the cancellation token. A consumer calls
`process_delivery`, which runs the command and then calls `settle`; a settle
that fails with Interrupted comes back to `settle_until_done`, which settles the
same delivery again.

The server joins two halves: the consumers and the tasks of the jobs. A job runs
its command on a thread of tokio's blocking pool and waits for it there, until a
deadline and a second of grace. Both halves look at one token, and exec and
plugin calls look at it while they run. Loading fills the registry, which
builds the commands of queued messages, and the schedule, which keeps its own
command objects.

What makes these parts correct: a published message is never lost; it is run by
one consumer at a time unless somebody recovers it; a count never charges an
attempt that did not fail; no message stays in progress without a consumer; a
recovery keeps the order; a server that is told to stop stops; a message comes
to an end. What a run of a job returns and saves is what its command did, and
only a command that ignored its deadline outlives its run. Exec keeps exactly
the output it promises, leaves no process it can kill, and returns. A plugin
stays within its budget and its time, and its error names what stopped it. A
configuration that is accepted can be used. `PROJECT.json` lists the hazards,
each at its line.

## Modules

| Module | Models |
|---|---|
| `Envelope` | the stored message without its payload, and the settle decision |
| `FileStore` | the directories of a lane and the effect of each file-system call |
| `FileLane` | the file lane: consumers, server, commands, publishers, faults, crashes; its properties; the mapping to `QueueStages` |
| `FileLaneInv` | the inductive invariant, in named parts |
| `FileLaneProofs` | the theorems of the file lane and the refinement, with their proofs |
| `QueueStages` | the abstract queue: which stage each message is in, and the moves between stages |
| `RedisLane` | the Redis lane with the same clients; its properties; the mapping to `QueueStages` |
| `Lifecycle` | the steps around a scheduled command and what its end leads to, as operators |
| `Scheduler` | the jobs of the server, their commands on the pool, and the stop of the server |
| `StreamBuffer` | the bounded buffer of an output stream, and the window it should hold |
| `Exec` | the exec command: poll loop, reader threads, child, background process |
| `PluginLimiter` | the budget for memories and tables of a store, as operators |
| `PluginStore` | one call into a plugin: store, deadlines, epoch callback, guest |
| `Config` | validation, lowering and the mail transport, as operators on a spec |
| `Startup` | the program from its command line to its exit code; composes `Config` and `PluginStore` |
| `SetSums` | lemmas: the sum of a function over a finite set; least and greatest numbers |
| `RedisLists` | lemmas: the lists of Redis as concatenations |
| `RedisLaneProofs` | the inductive invariant of `RedisLane`; its theorems and the refinement |
| `SchedulerProofs`, `ExecProofs`, `StartupProofs` | the inductive invariants and theorems of these components |
| `LoaderProofs` | the inductive invariant of the plugin loader in `Startup`; what the registry and the schedule get |
| `MCFileLane`, `MCRedisLane`, `MCScheduler`, `MCExec`, `MCStartup` | small instances for TLC |

### FileLane

`file[d][n]` is the content of file `n` in directory `d`; the hidden name
`.n.settling` is `file["settling"][n]`. `pc[c]` is the next file-system call of
consumer `c`: `claim_oldest` is List, ClaimNext and Read, with
MoveUnreadableToFailed; `process_delivery` and `run_attempt` are Begin and
Finish; `acknowledge` is Acknowledge; `move_claimed` is SettleRename,
SettleExists, SettleWrite, SettleSync, then SettleUndo, or SettleRemove and
SettleDrop; `settle_until_done` is GiveUp and SettleAgain. The receipt is
`name[c]`, the delivery `env[c]`, the end of the attempt `kind[c]`. recover,
clear and republish_failed list a directory (StartCommand, FinishPass,
ServerOpen) and then act on one file per step (WorkOnFile), or stop at an error
(WorkFails). `QueueConsumers::run` is ServerStart, ServerOpen, ServerSpawn and
ServerStop; Cancel fires the token. Fault marks the alternative in which the
call fails. Crashes wipe the memory of a process and leave the files.

ImplementsStages maps the files to `QueueStages`. A message is pending or failed
when a file of that directory has it, in progress when a file in progress has
it or a consumer has it in memory and has not written a copy yet (Working), and
gone otherwise. A settling file whose settle has written the copy is no longer
the message. The lane does not implement all of `QueueStages`. A clear takes one
file at a time, so its abstract step is a Discard of one cleared message; and
after a failing call, a crash or a recover a message can have two visible files,
so ImplementsStages ends there (Undisturbed).

### RedisLane

Redis runs one command or script at a time, so each is one step: RunClaim
(LMOVE or BLMOVE), RunRemove (LREM), RunMove (MOVE_IF_PRESENT), RunBulk (one
run of BULK_MOVE), RunClear. A call is Answered, or Unanswered: then the client
gets an error and the request is kept in `late`, from where RunLate runs it at
any later time or never. A list has its left end first. A settle names its
element by content, so `element[c]` is the claimed envelope and equal elements
are the same to Redis. A member of Garbage has an element that does not parse.
Two histories serve the properties: `published`, and `newer[m]`, the messages
that last entered pending after `m` did.

### Scheduler

`pc[j]` is where the task of job `j` is: `pick` and `sleep` in the loop of
`run_job`, then the steps of `run_with_lifecycle` under the name of the option
that asks for them, with `await` for `run_blocking`; `dead` after a hook has
panicked. `Position` in `Lifecycle` gives their order, and `GoesOnAfter` where a
run goes on after its command has ended. `thread[j][r]` is the command of run
`r`: queued or running on the pool, or how it ended. It outlives the run when
`GiveUp` (DeadlineIgnored) comes first, and then nobody reads its end. `link` is
the position in a chain. `done[j][r]` collects the steps that took effect and
`result[j][r]` is what the run returned. The sleep and the token are two actions
that may both be enabled, as the branches of `select!` are. File operations need
a thread of the pool, as they do in tokio.

Time is abstracted: `due[j]` counts the fire times that have passed, `timer[j]`
says whether the deadline and the grace period have. The sleep and the fire
times use one clock; a wall clock that steps back is listed as a hazard and not
modelled. The queue consumers are one task that stops after the token. The other
reason for `Interrupted` in the code, a runtime that shuts down before the
command starts, cannot happen in the server: `run_async` shuts the runtime down
after `Server::run` has returned.

### Exec

A turn of the poll loop is `TryWait` and `Poll`; `Verdict` is the order in which
`Poll` looks at the readers, the exit, the token and the limit. An error goes on
to `StopChild` and `Reap`, then both buffers are taken. The readers are actions of
their own, which go on after exec has returned. The environment is the child,
which writes and exits as it likes, and a background process that inherits the
pipes. A byte is its position in the stream, so that `Window(n)` says exactly
what must be kept of the first `n` bytes, however they were cut into reads.

### Startup, Config, PluginStore, PluginLimiter

`phase` follows `main`: configuration, plugin runtime, loading, registration,
schedule, then the request. `work` is what is left of the files, descriptors or
schedule entries at hand. A load and a command each make a store (`BeginCall`)
and share the actions of `PluginStore`. A load instantiates the component and
lists its commands and schedules in one store; the first failure of the three
ends it, so they are one call here. The engine and the guest are external: the
guest grows memories and tables, returns, traps or loops. A growth is granted by
the limiter first and provided by the host, or not, afterwards. One call is
under way at a time, because concurrent calls have stores of their own and share
only the ticker. Sizes are in MiB and elements. `UsizeMax` and `AddressableMib`
stand for a 64-bit target: larger than any sum the limiter can meet.

A spec is a flat record; a text is what the rules tell apart (a host by length
and by being a loopback address, a path by being empty, missing or there).
`Errors`, `Warnings` and `LowerErrors` are the entries of the report, and
`CheckAndLower` is there for `main` to branch on.

`registry` and `schedule` are filled from the same components in different ways:
the registry keeps the first component by path for a command, the schedule a job
of each component that lists it. So a queued and a scheduled command of one name
can be different code; JobsAreRegistered says what still holds.

### What the models leave out

- One lane in `FileLane` and in `RedisLane`. The lanes share the token and nothing else.
- Payloads, JSON, compression, log and report texts. Whether a stored message
  can be parsed is a choice (a fault of Read, Garbage in Redis).
- Temporary files: only their writer uses them until the rename that gives them
  their name. The removal of old ones at open is left out with them. A write that
  fails before the rename leaves nothing.
- A process crash, not a power loss: what a completed call wrote stays.
- A directory listing is one step. `read_dir` may miss a file that is renamed
  meanwhile; a claim or a recover then skips it as if it had listed earlier or
  later.
- Names come from one clock: a new name follows all earlier ones. UUID v7
  promises that within one process.
- `lengths` and `peek` read only. `SettleError::Rejected` needs a delivery of
  another lane, which no caller passes.
- A publish whose reply or directory sync fails has published or has not; each
  message is published once.
- In the modules of the server and of exec: log lines, subjects and bodies of
  mail, the conversion of kept bytes to text (lossy, with a line that gives the
  number of dropped bytes).
- Time in the lanes: a wait ends at any moment. `sleep_or_cancel` in a back-off is the choice
  between GiveUp and SettleAgain.

## Runs

| Run | Instance | Shows |
|---|---|---|
| `file_races` | 1 message with 1 retry, 2 consumers, 1 fault, 1 command, 4 names | the safety properties under every interleaving; implements `QueueStages` while undisturbed |
| `file_crash` | a server that recovers, a `queue consume` beside it, 1 crash, 2 starts | the inductive invariant; no loss, one directory per file name and exclusive claims among its parts |
| `file_live` | 2 consumers, 1 fault, 1 crash, 2 starts, 10 names, fair | a message comes to an end despite a failing call, or after a crash at any point and a restart; a shutdown completes |
| `redis_races` | 2 messages, one unreadable, server and `queue consume`, 1 unanswered request or 1 crash, 2 starts, 1 command, batches of 1 | one copy, no overcharge, no stranded claim, no second run, order of the line, also across a batched recovery; implements `QueueStages` |
| `redis_live` | 2 messages, 1 consumer, 2 unanswered requests or one and a crash, fair | both messages come to an end after the restart; a shutdown completes |
| `scheduler` | a job with a deadline that runs twice, in two builds with all options between them, a job with a chain of 2 and no deadline, 2 threads, fair | runs return and save what happened; only abandoned commands overlap or are left; no fire time twice; the server stops, a deadline frees its job |
| `exec` | 3 bytes on one pipe of 2 bytes, head and tail of 1 byte, timeout and deadline in every order, a kill that may fail, fair | kept output, no zombie, no stray signal, right reason; the child is stopped in time, exec returns, pipes are drained |
| `startup` | all kinds of requests, 4 sets of plugin directories with conflicting components, every field at its bounds, all mail settings; stores of 2 memories and a table, fair | limiter, call errors, conflicts, jobs and their commands, lowering, mail password; a call stops |
| `file_release`, `file_interrupted`, `redis_lost`, `exec_interrupted` | the smallest instance each | a comment of the code that its behaviour does not bear out |

Bounds. Two consumers, or a consumer and a process beside the server, are what
a race for one file needs; a third adds nobody who touches the same file in a
new way. One message with one retry passes through every stage twice, once as a
retry and once as a failure. Two messages are needed where order matters. One
fault at any call meets every error path; the path that needs two (an
exhausted release) is in `redis_live`. In the Redis lane unanswered requests and
crashes share one bound (MaxFaults). One crash with two starts meets every
point at which the files can be left. With 4 names a message can be published,
retried, republished and copied once more; `file_live` has enough names (10)
that no behaviour stops for want of one. A batch of 1 puts a batch
boundary between every two elements. SettleRetries is 1 instead of the code's
constant: only the difference between a last and an earlier try matters. The
proofs cover the safety of both lanes for all these values, and that of the
scheduler, exec and plugin calls for all values of their bounds. Symmetry is over the server's
consumers (`file_races`), in a safety run only; no definition tells its members
apart.

A job that runs twice meets a command of its first run that is still on its
thread; a second job competes for the pool, and two threads can be used up by
two abandoned commands. In `exec`, 3 bytes against a head and a tail of 1 drop
one byte in the middle, reads of 1, 2 and 3 bytes cut them in every way, and a
pipe of 2 bytes blocks its writer; a deadline that has passed before the start
and a timeout of one tick come in either order. In `startup`, two components of
one plugin list the same command, one plugin has the reserved name, and sizes of
6, 10 and 17 against a budget of 16 and a table bound of 12 grant, refuse and
exceed. Every number in the configuration is tried below, at and above the
bounds of all fields, one field at a time, because no rule combines two numbers.

Deadlock is not checked: a lane, a server, an exec or a program that has ended
has nothing left to do.

Fairness. Each consumer's step is weakly fair, because tokio and the operating
system keep running a task that is not waiting and commands end (an exec or a
plugin has a timeout; that a native command ends is assumed). In the Redis lane
only answered steps are fair, so that fairness never forces a lost reply. The end of a
dequeue is strongly fair, because its wait is finite however often it polls. A
bulk operation, opening, spawning and the stop of a server are weakly fair.
Publishing, commands, starts, shutdowns, faults, late requests and crashes are
not: nothing makes them happen.

In `Scheduler` the tasks, free threads, timers and the stop are weakly fair.
Pings end because of PING_TIMEOUT, mail because of the time limit of the mail
library. A command of a job without a timeout is assumed to end; one with a
timeout need not, ever. ShutdownCompletes therefore excepts the case in which
abandoned commands hold every thread of the pool: a command without a timeout,
or a file operation, then waits in the queue of the pool for ever. In `Exec` the
loop, the readers and time are fair, the child and the background process are
not. In `Startup` the ticker, the clock and the host are weakly fair and the
epoch callback is strongly fair: each loop of a guest passes an epoch check, but
the guest is in the host's hands again and again.

EveryMessageEnds promises nothing where the code does not: an error of the
recovery at start is only logged, and the message then stays in progress until
the next start or a `queue recover`. So the file lane excepts a fault together
with a crash. A lost reply to a Redis claim leaves its element in progress in
the same way, so the Redis lane excepts unanswered requests.

### Where the code and its comments differ

- `release` lowers the count again each time an interrupted release is settled
  again (`queue/mod.rs:207`), so the stored count can fall below what it was
  before the claim, and the message gets additional retries. It never underflows
  and never overcharges (TypeOK, FairAttempts).
- Interrupted says that the message is still in progress. When the directory
  sync fails after the rename (`queue/driver/file/dir.rs:62`), a second copy is
  already visible in the target stage.
- Lost says that another operation removed the message and that nothing was
  written. In Redis it is also the
  answer to the second settle when the reply to the first was lost
  (`queue/driver/redis/mod.rs:244`).
- Interrupted, as the error of a command, says that the command did not finish
  (`error.rs:78`). Exec also returns it for a program that has ended, with
  success or not, when the token fires while exec waits for a pipe that a
  background process holds (`commands/exec/mod.rs:187`). A queued message is then
  put back and its program runs a second time.

## Proofs

Each theorem holds for every value of the constants that satisfies the named
assumptions of the modules (EnvelopeAssumption, the two StoreAssumption,
LaneAssumption, RedisAssumption, SchedulerAssumption, ExecAssumption,
BufferAssumption, LimiterAssumption, ConfigAssumption, StartupAssumption). They
give the constants their types and keep sets of processes, or of memories and
tables, apart; StartupAssumption also says that the files of a directory are
different files. Each proof has an inductive invariant IInv in named parts, one
lemma per action or per kind of effect, and a theorem per property.

### File lane

`FileLaneProofs`, for every set of messages, consumers and processes, every
bound and either value of RecoverOnStart. IInv is in `FileLaneInv`; the run
`file_crash` checks it and **InvariantHolds** proves it.

- **TypeCorrect**: TypeOK, and PcOK: receipt, delivery, kind and copy are there
  when the code uses them.
- **FilesHaveOnePlace**: a name is in one directory only, because names are
  handed out once (NamesUsed) and files only change place by renames.
- **ClaimsAreExclusive**: from PendingClaims: the file of a held claim can be
  back in pending only after a recover.
- **AttemptsAreFair**: no stored count is above the number of failures, and the
  failed stage is reached only after all retries. The strengthening is
  DeliveryCharges: a claim is one ahead of the failures until its attempt ends.
- **NothingIsLost**: a published message keeps a file until it succeeds or is
  cleared. This is not inductive: a settle removes the old file while others may
  have claimed, settled or dropped the new copy. Two parts carry it. KeptFile:
  some file of the message is not the provisional copy of a settle under way.
  CopyFollows: a settle that will remove its old file has its own copy, or a
  newer file that is not provisional. Names grow with time, so a chain of
  settles that replace each other's copies has a last one, and that one is kept.
- **NothingIsStranded**: without a failed call and a crash, every in-progress or
  settling file has a consumer on its way to settle it. It needs NoErrorPath: no
  consumer is on an error path before the first fault.
- **OneRunAtATime**: RunsOnce. The strengthening is OneCarrier: without a fault,
  a crash and a recover, at most one name can still lead to a run of a message,
  and none after its success.
- **LaneImplementsStages** (ImplementsStages): while undisturbed, a step of any
  process changes the stage of at most one message (OthersStay), and by a move
  of `QueueStages`. The places of a message exclude each other because of
  OneCarrier (StageIsPlace). A message that is gone has succeeded or was cleared
  (GoneHasEnded): otherwise its newest file would be the settling file of a
  consumer that has written its copy, and CopyFollows gives a newer one. So
  nothing brings a message back that is gone.

The step lemmas treat one consumer's step at a time (StepIsLocal,
StepOrOther) and reduce every action to the few ways in which it changes files
(EveryStepIsFileStep).

### Redis lane

`RedisLaneProofs`, for every set of messages, readable or not, every set of
clients, batch size and number of lost answers and crashes.

- **NothingLost** (OneCopy), **OrderKept** (LineKeepsOrder), **AttemptsAreFair**
  (FairAttempts), **ClaimsAreHeld** (InProgressIsHeld), **OneRunAtATime**
  (RunsOnce).
- **LaneImplementsStages**: the lane implements `QueueStages`. The initial
  states map to initial states, and each step to one move between stages or to a
  stutter.

The difficulty is that a request whose answer was lost may run at any later
time, after its client has gone on. LateInv says what makes that harmless
(RequestOK): such a request removes only the element of a message that has
succeeded, and stores only the message it removes, with a count the failures
account for. The parts about the lists are Distinct (no message twice in the
three lists), Accounted (a message is in them unless it succeeded or was
cleared), Charged (counts) and InLine (pending and in-progress together are in
the order of `newer`). ConsumerInv, ServerTasks and OneHolder say what a consumer
at each step holds.

`RedisLists` shows that each command of Redis takes a list apart into a few
concatenated parts and puts them together elsewhere. So each step is one Effect
on the lists, ListInv is kept by the effects and not by the actions one by one,
and the refinement is one lemma per effect as well. `MCRedisLane` with the
bounds of `redis_races` checked this IInv, over 1,436,620 states, before it was
proved; the run itself checks the properties.

### Scheduler

`SchedulerProofs`, for every set of jobs, options, chains, fire times and every
size of the pool. IInv is TypeOK, HostInv (once the host has left its serving
state no task of a job is active) and, per job, Times, Current (the run under way)
and RunInv (what each run has left, started or not, under way or over).

- **TypeCorrect**, **OutputNeedsResult** (SavedOnlyWithResult), **ReturnsTruth**
  (ReturnIsTruthful), **OverlapNeedsGiveUp** (OverlapsOnlyAbandoned),
  **ServerWaits** (WaitsForCommands).
- **PicksForward**: the action property NoFireTimeTwice.

### Exec

`ExecProofs`, for every set of pipes, amount of output, head and tail, timeout
and deadline. IInv is TypeInv, ChildInv (the child is reaped once, by try_wait
or after the one kill), LimitInv, and per pipe PipeInv and BufferInv.

- **BufferKeepsWindow** (KeptIsWindow): what a push does to the buffer is what
  Window does when its argument grows by the length of the push, for any cut of
  the stream into reads.
- **NothingIsLost** (OutputComplete), **ChildIsReaped** (NoChildLeft),
  **TimeoutNamesEarliest** (TimeoutIsEarliest).
- **KillIsSafe**: the action property KillsOnlyOwnChild.

### Plugins and configuration

`StartupProofs`, for every plugin, request and configuration of the model.

- **ValidationIsComplete** (LoweringNeverFails) assumes AddressableMib >= 4096:
  a target on which the largest memory limit validation accepts does not fit
  into a usize is refused by lowering and not by validation.
- **PasswordIsSafe** (PasswordStaysPrivate), from SpecInv: past the first phase
  the spec is one that validation accepts.
- **CallErrorNamesCause** (CallErrorIsTruthful), from TermsInv (which deadline a
  call has) and CauseInv (the epoch callback leaves the reason it stopped for).
- **LimiterIsExact** (LimiterCountsMemory), for any finite number of memories
  and tables, assumes UsizeMax > 4096: a sum that saturates is above every budget
  that validation accepts. StoreInv says what is held, asked for and counted.
  `SetSums` has the facts about sums over the memories and tables.

Both extra assumptions hold on every 64-bit target.

`LoaderProofs` has an invariant of its own, LoaderInv, for what the loader gives
to the registry and the schedule, over any set of plugins, files, commands and
schedule entries. LoadInv: the components of one plugin are loaded in the order
of their paths, those that loaded before those that are left, although the
directories come in any order and files are skipped. RegistryInv and
RegisterInv: each pair of plugin and command is registered once, what is
registered was listed no later by path than what is left, and each command of a
loaded component is registered from it or an earlier one, or still to come.
ScheduleInv says the same of jobs. `MCStartup` with the bounds of `startup`
checked LoaderInv, over 417,135 states, before it was proved. That no plugin has
the name of the built-in commands comes from SpecInv.

- **FirstByPathRuns** (FirstComponentStays): the registered component is the
  first by path of those that loaded and list the command.
- **JobsCanBeQueued** (JobsAreRegistered): each job of a running server has a
  command that can be queued under the same name, and no valid entry is without
  its job.

Both rest on FlattenFacts: the joined lists of all components have each entry,
and nothing else, in load order, for any number of components.

### Only model-checked

Liveness, in all modules (ShutdownCompletes, EveryMessageEnds,
DeadlineFreesJob, StopsInTime, ReturnsAfterExit, PipesAreDrained, CallStops): it
rests on fairness and ENABLED, which the prover does not treat. Every invariant
and every action property of a passing run is proved. The type invariant
of the scheduler is proved (TypeCorrect) and no run repeats it.

Facts about sums and lists of any length would need induction over data, whose
library theorems the provers cannot instantiate. `SetSums`, `RedisLists` and
`LoaderProofs` argue with a smallest counterexample instead.

## Plan

1. Done: the file lane with its proofs; the Redis lane and QueueStages.
2. Done: lifecycle, blocking runner, scheduler and host.
3. Done: process execution with the bounded output buffer.
4. Done: plugin calls, limiter, loader, registry; configuration and start.
5. Done: proofs of the safety of the Redis lane with the refinement, of
   Scheduler, Exec, the limiter, plugin calls and the configuration.
6. Done: the refinement of QueueStages by the file lane; proofs of the loader,
   the registry and the schedule.
7. The tally of `queue consume` and its exit status.

## Not modelled

- Compression: a library codec around a payload, without control of its own.
- Output and error texts, the report of the configuration, the schedule table,
  the texts of the queue commands.
- Parsing of arguments and of TOML, the cron library, HTTP and SMTP, the
  WebAssembly engine: external. Their results are choices in the models.
- `peek` and `lengths`, which only read.
- The wall clock: steps back and clocks of two processes that disagree.
- Threads of the blocking pool beyond their number.
