------------------------------ MODULE Startup -------------------------------
(***************************************************************************)
(* The program (inengine/src/main.rs, inengine/src/plugins.rs) with the    *)
(* plugin loader (plugin/loader.rs) and the command registry               *)
(* (queue/registry.rs): the configuration is loaded, the plugins that it   *)
(* lists are loaded, their commands registered and their schedules added,  *)
(* and the request of the command line is run. Loading a component and     *)
(* running a plugin command are both calls into a PluginStore.             *)
(*                                                                         *)
(* One call is under way at a time: concurrent calls of the server have    *)
(* stores of their own and share only the ticker. What the built-in and    *)
(* the queue commands do is in Exec, FileLane and RedisLane; here they     *)
(* return a result.                                                        *)
(***************************************************************************)
EXTENDS Config, PluginStore, Sequences, SequencesExt

CONSTANTS Specs,        \* the configurations
          Files,        \* [plugin name -> Seq(Component)]: the .wasm files, sorted;
                        \* a component is known by its file
          Commands,     \* [Component -> Seq(command)]: list_commands
          Schedules,    \* [Component -> Seq([command, cron])]: list_schedules
          LoadTimeout,  \* PLUGIN_LOAD_TIMEOUT
          Deadlines     \* the deadlines of a context of the server

ASSUME StartupAssumption ==
    /\ DOMAIN Commands = DOMAIN Schedules
    /\ \A x \in DOMAIN Commands : Commands[x] \in Seq(Range(Commands[x]))
                                  /\ Schedules[x] \in Seq(Range(Schedules[x]))
    /\ \A n \in DOMAIN Files : Files[n] \in Seq(DOMAIN Commands) /\ IsInjective(Files[n])
    /\ \A s \in Specs : DOMAIN s.plugins \subseteq DOMAIN Files
    /\ LoadTimeout \in Nat /\ Deadlines \subseteq Nat \cup {NoDeadline}

(* The command line: --server, no subcommand, or a subcommand. "queue" is every
   queue request that runs no commands. *)
Request == {"server", "help", "echo", "exec", "queue", "consume", "schedule_list",
            "plugin"}

VARIABLES
    request,   \* Request
    spec,      \* the parsed configuration
    phase,     \* "config", "plugins", "load", "register", "schedule", "run", "call", "exit"
    todo,      \* the plugin directories that are left
    work,      \* what is left of the sorted files, descriptors or schedule entries
    plugins,   \* Seq([name, component]): PluginLoader::plugins
    registry,  \* {[plugin, command, by]}: CommandRegistry
    schedule,  \* Seq([plugin, command, by]): Schedule
    exit       \* ExitCode, or "none"

programVars == <<request, spec, phase, todo, work, plugins, registry, schedule, exit>>

vars == <<programVars, storeVars>>

Init ==
    /\ request \in Request /\ spec \in Specs
    /\ phase = "config"
    /\ todo = {} /\ work = <<>>
    /\ plugins = <<>> /\ registry = {} /\ schedule = <<>>
    /\ exit = "none"
    /\ StoreInit

(* main returns. *)
Exit(code) == phase' = "exit" /\ exit' = code

-----------------------------------------------------------------------------
(* The configuration. *)

(* config::load: the file is missing or cannot be read, or it is no TOML. *)
ConfigFails ==
    /\ phase = "config" /\ Exit("failure")
    /\ UNCHANGED <<request, spec, todo, work, plugins, registry, schedule, storeVars>>

ConfigLoads ==
    /\ phase = "config"
    /\ \/ CheckAndLower(spec) = "none" /\ Exit("failure")
       \/ /\ CheckAndLower(spec) # "none"
          /\ \/ request = "help" /\ Exit("success")
             \/ request \in {"echo", "exec", "queue"} /\ phase' = "run" /\ UNCHANGED exit
             \/ request \in {"server", "consume", "schedule_list", "plugin"}
                /\ phase' = "plugins" /\ UNCHANGED exit
    /\ UNCHANGED <<request, spec, todo, work, plugins, registry, schedule, storeVars>>

-----------------------------------------------------------------------------
(* The loader. *)

(* from_settings: no runtime without plugins, and no plugins without a runtime. *)
StartRuntime ==
    /\ phase = "plugins" /\ phase' = "load"
    /\ todo' = DOMAIN spec.plugins \/ todo' = {}
    /\ UNCHANGED <<request, spec, work, plugins, registry, schedule, exit, storeVars>>

(* load_directory: the directories come in any order, the files of one sorted. *)
OpenDirectory(n) ==
    /\ phase = "load" /\ n \in todo /\ work = <<>>
    /\ todo' = todo \ {n}
    /\ \/ spec.plugins[n] = "exists"
          /\ work' = [i \in DOMAIN Files[n] |-> [name |-> n, component |-> Files[n][i]]]
       \/ UNCHANGED work
    /\ UNCHANGED <<request, spec, phase, plugins, registry, schedule, exit, storeVars>>

(* load_component: the file cannot be read or compiled and is skipped, or its
   store is made. The token of a load never fires. *)
SkipFile ==
    /\ phase = "load" /\ work # <<>> /\ call = "idle"
    /\ work' = Tail(work)
    /\ UNCHANGED <<request, spec, phase, todo, plugins, registry, schedule, exit,
                   storeVars>>

BeginLoad ==
    /\ phase = "load" /\ work # <<>>
    /\ BeginCall(spec.limits_memory_mib, LoadTimeout, NoDeadline,
                 [at |-> LoadTimeout, of |-> "load"], FALSE)
    /\ UNCHANGED programVars

EndLoad ==
    /\ phase = "load" /\ EndCall
    /\ plugins' = IF LoadResultOf(failure) = "ok" THEN Append(plugins, Head(work))
                  ELSE plugins
    /\ work' = Tail(work)
    /\ UNCHANGED <<request, spec, phase, todo, registry, schedule, exit>>

(* What the components list, in load order. *)
Listed(list) ==
    LET of(p) == [i \in DOMAIN list[p.component] |->
                     [plugin |-> p.name, entry |-> list[p.component][i], by |-> p.component]]
    IN  FlattenSeq([i \in DOMAIN plugins |-> of(plugins[i])])

(* CommandRegistry::new *)
Builtins == {[plugin |-> Builtin, command |-> c, by |-> "core"] : c \in {"echo", "exec"}}

(* The server and consume build a registry next, schedule list a schedule. *)
LoadDone ==
    /\ phase = "load" /\ todo = {} /\ work = <<>>
    /\ IF request = "schedule_list"
       THEN /\ phase' = "schedule" /\ work' = Listed(Schedules)
            /\ UNCHANGED registry
       ELSE /\ phase' = "register" /\ work' = Listed(Commands)
            /\ registry' = Builtins
    /\ UNCHANGED <<request, spec, todo, plugins, schedule, exit, storeVars>>

-----------------------------------------------------------------------------
(* The registry and the schedule. *)

(* Mutant of Registered: the last constructor of a pair stays. *)
RegisteredLast(d) ==
    {e \in registry : e.plugin # d.plugin \/ e.command # d.entry}
    \cup {[plugin |-> d.plugin, command |-> d.entry, by |-> d.by]}

(* CommandRegistry::register: a pair that is there stays. *)
Registered(d) ==
    IF \E e \in registry : e.plugin = d.plugin /\ e.command = d.entry THEN registry
    ELSE registry \cup {[plugin |-> d.plugin, command |-> d.entry, by |-> d.by]}

RegisterNext ==
    /\ phase = "register" /\ work # <<>>
    /\ registry' = Registered(Head(work)) /\ work' = Tail(work)
    /\ UNCHANGED <<request, spec, phase, todo, plugins, schedule, exit, storeVars>>

RegisterDone ==
    /\ phase = "register" /\ work = <<>>
    /\ IF request = "server" THEN phase' = "schedule" /\ work' = Listed(Schedules)
       ELSE phase' = "run" /\ UNCHANGED work
    /\ UNCHANGED <<request, spec, todo, plugins, registry, schedule, exit, storeVars>>

(* Mutant of Schedulable: an entry for a command that only others list. *)
SchedulableUnlisted(d) == d.entry.cron = "valid"

(* An entry for a command that its own component lists, with an expression that
   parses (UnscheduledJob::cron). *)
Schedulable(d) == d.entry.command \in Range(Commands[d.by]) /\ d.entry.cron = "valid"

(* register_schedules: a job for such an entry; others are skipped. *)
ScheduleNext ==
    LET d == Head(work) IN
    /\ phase = "schedule" /\ work # <<>> /\ work' = Tail(work)
    /\ schedule' =
         IF Schedulable(d)
         THEN Append(schedule, [plugin |-> d.plugin, command |-> d.entry.command,
                                by |-> d.by])
         ELSE schedule
    /\ UNCHANGED <<request, spec, phase, todo, plugins, registry, exit, storeVars>>

(* schedule list prints its table. The server starts, or no runtime does. *)
ScheduleDone ==
    /\ phase = "schedule" /\ work = <<>>
    /\ \/ request = "server" /\ phase' = "run" /\ UNCHANGED exit
       \/ request = "server" /\ Exit("failure")
       \/ request = "schedule_list" /\ Exit("success")
    /\ UNCHANGED <<request, spec, todo, work, plugins, registry, schedule, storeVars>>

-----------------------------------------------------------------------------
(* The request. *)

(* A call of a plugin command: WasmCommand::run. *)
BeginCommand(context, fired) ==
    /\ BeginCall(spec.limits_memory_mib, spec.limits_timeout, context,
                 CallDeadline(spec.limits_timeout, context), fired)
    /\ phase' = "call"
    /\ UNCHANGED <<request, spec, todo, work, plugins, registry, schedule, exit>>

(* A job of the server, or a message of its queue or of queue consume, whose
   command the registry builds. Only the server gives a deadline and a token. *)
RunQueued ==
    /\ phase = "run" /\ request \in {"server", "consume"}
    /\ \E e \in registry \cup Range(schedule) : e.by # "core"
    /\ \E d \in IF request = "server" THEN Deadlines ELSE {NoDeadline} :
          BeginCommand(d, token)

QueuedEnds ==
    /\ phase = "call" /\ request \in {"server", "consume"} /\ EndCall
    /\ phase' = "run"
    /\ UNCHANGED <<request, spec, todo, work, plugins, registry, schedule, exit>>

StopServer ==
    /\ phase \in {"run", "call"} /\ request = "server"
    /\ FireToken /\ UNCHANGED programVars

(* run_plugin_command for plugin n and command c. *)
RunPlugin(n, c) ==
    /\ phase = "run" /\ request = "plugin"
    /\ IF /\ \E p \in Range(plugins) : p.name = n
          /\ \E e \in registry : e.plugin = n /\ e.command = c
       THEN BeginCommand(NoDeadline, FALSE)
       ELSE /\ Exit("failure")
            /\ UNCHANGED <<request, spec, todo, work, plugins, registry, schedule,
                           storeVars>>

PluginEnds ==
    /\ phase = "call" /\ request = "plugin" /\ EndCall
    /\ Exit(IF CommandResultOf(failure, cause, deadline) = "ok" THEN "success"
            ELSE "failure")
    /\ UNCHANGED <<request, spec, todo, work, plugins, registry, schedule>>

(* The server has stopped; or the request has returned, with an error also when
   no runtime started for it. *)
RequestEnds ==
    /\ phase = "run" /\ request # "plugin"
    /\ \/ (request = "server" => token) /\ Exit("success")
       \/ request # "server" /\ Exit("failure")
    /\ UNCHANGED <<request, spec, todo, work, plugins, registry, schedule, storeVars>>

Program ==
    \/ ConfigFails \/ ConfigLoads \/ StartRuntime
    \/ \E n \in todo : OpenDirectory(n)
    \/ SkipFile \/ BeginLoad \/ EndLoad \/ LoadDone
    \/ RegisterNext \/ RegisterDone \/ ScheduleNext \/ ScheduleDone
    \/ RunQueued \/ QueuedEnds \/ StopServer \/ PluginEnds \/ RequestEnds
    \/ \E n \in DOMAIN Files, c \in UNION {Range(Commands[x]) : x \in DOMAIN Commands} :
          RunPlugin(n, c)

Next == Program \/ (StoreStep /\ UNCHANGED programVars)

Spec == Init /\ [][Next]_vars

(* A guest may loop for ever, but each of its loops passes a check of the epoch;
   the ticker and the clock go on, and the host answers a growth. *)
Fairness ==
    /\ SF_vars(EpochCallback /\ UNCHANGED programVars)
    /\ WF_vars(IncrementEpoch /\ UNCHANGED programVars)
    /\ WF_vars(ClockTicks /\ UNCHANGED programVars)
    /\ WF_vars((HostGrows \/ HostFails) /\ UNCHANGED programVars)

FairSpec == Spec /\ Fairness

-----------------------------------------------------------------------------
(* Properties. *)

(* loader.rs: of the components that loaded, the first by path that lists a command
   runs it, in whatever order the directories were loaded and whichever files were
   skipped; and under the name of the built-in commands there is nothing else. *)
FirstComponentStays ==
    phase \in {"run", "call"} /\ registry # {} =>
        /\ {e \in registry : e.plugin = Builtin} = Builtins
        /\ \A n \in DOMAIN Files \ {Builtin} :
             LET lists(c) == {i \in DOMAIN Files[n] :
                                /\ [name |-> n, component |-> Files[n][i]] \in Range(plugins)
                                /\ c \in Range(Commands[Files[n][i]])}
             IN  {e \in registry : e.plugin = n} =
                 UNION {{[plugin |-> n, command |-> c, by |-> Files[n][Min(lists(c))]] :
                            c \in {d \in Range(Commands[x]) : lists(d) # {}}} :
                        x \in DOMAIN Commands}

(* loader.rs: a scheduled job runs the code of the component that listed it, which
   need not be the one the registry has for the same name. Still, when the server
   runs, the command of every job can be queued under that name, from the component
   of the job or one before it; and every valid entry of every component that loaded
   has its job. *)
JobsAreRegistered ==
    phase \in {"run", "call"} /\ request = "server" =>
        /\ \A j \in Range(schedule) : \E e \in registry, a, b \in DOMAIN Files[j.plugin] :
              /\ e.plugin = j.plugin /\ e.command = j.command
              /\ Files[j.plugin][a] = e.by /\ Files[j.plugin][b] = j.by /\ a <= b
        /\ \A p \in Range(plugins) : \A x \in Range(Schedules[p.component]) :
              x.cron = "valid" /\ x.command \in Range(Commands[p.component]) =>
                  [plugin |-> p.name, command |-> x.command, by |-> p.component]
                      \in Range(schedule)

(* runtime.rs: lowering reports an error only when "a validation rule is missing".
   None is: what validation accepts fits the types of the settings. *)
LoweringNeverFails == Errors(spec) = {} => LowerErrors(spec) = {}

(* validate.rs and notify.rs: with the settings of a program that goes on, the mail
   password never travels in plain text to another host, and a password that the
   report calls ignored is not sent. *)
PasswordStaysPrivate ==
    phase \notin {"config", "exit"} =>
        LET mail == MailTransport(spec) IN
        /\ mail.credentials => mail.encrypted \/ spec.mail_loopback
        /\ "password_ignored" \in Warnings(spec) => ~mail.credentials

=============================================================================
