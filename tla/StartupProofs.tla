---------------------------- MODULE StartupProofs ---------------------------
(***************************************************************************)
(* Safety properties of Startup and of the plugin store it uses, proved    *)
(* for every configuration, every set of plugins and every limit.          *)
(***************************************************************************)
EXTENDS Startup, SetSums, TLAPS

(* The program goes on only with a configuration that validation accepts. *)
SpecInv == phase \notin {"config", "exit"} => Errors(spec) = {}

(* A call is a load or one of a command, and has the deadline that goes with it. *)
TermsInv ==
    /\ call = "idle" \/ phase \in {"load", "call"}
    /\ phase = "load" /\ call # "idle" => 
          /\ deadline = [at |-> asked.limit, of |-> "load"] /\ asked.limit \in Nat
          /\ ~token /\ work # <<>>
    /\ phase = "call" /\ call # "idle" =>
          /\ deadline = CallDeadline(asked.limit, asked.context)
          /\ asked.limit \in Nat /\ asked.context \in Nat \cup {NoDeadline}

(* The callback leaves the reason it stopped the guest for. *)
CauseInv ==
    /\ clock \in Nat
    /\ call # "ended" => failure # "interrupt"
    /\ failure = "interrupt" =>
          \/ cause = "shutdown" /\ token
          \/ cause = "deadline" /\ clock >= deadline.at

IInv == SpecInv /\ TermsInv /\ CauseInv

LEMMA AcceptedFits ==
    ASSUME NEW s, Errors(s) = {}, NEW f \in DOMAIN Constraint
    PROVE  s[f] \in Constraint[f]
  BY DEF Errors, OutOfConstraint

LEMMA ConstraintNarrows ==
    ASSUME AddressableMib >= 4096, NEW f \in DOMAIN Narrow
    PROVE  f \in DOMAIN Constraint /\ Constraint[f] \subseteq Narrow[f]
  <1>1. /\ Port \subseteq U16 /\ RedisDatabase \subseteq U8
        /\ Consumers \subseteq Nat /\ MaxRetries \subseteq Nat /\ TimeoutSeconds \subseteq Nat
    <2>1. \A x \in Port : x \in U16
      BY SMTT(120) DEF Port, U16
    <2>2. \A x \in RedisDatabase : x \in U8
      BY DEF RedisDatabase, U8
    <2>3. \A x \in Consumers : x \in Nat
      BY DEF Consumers
    <2>4. \A x \in MaxRetries : x \in Nat
      BY DEF MaxRetries
    <2>5. \A x \in TimeoutSeconds : x \in Nat
      BY SMTT(120) DEF TimeoutSeconds
    <2>. QED
      BY <2>1, <2>2, <2>3, <2>4, <2>5
  <1>2. \A x \in MemoryMib : x \in 0 .. AddressableMib
    BY ConfigAssumption DEF MemoryMib
  <1>3. /\ Constraint["mail_port"] \subseteq Narrow["mail_port"]
        /\ Constraint["redis_port"] \subseteq Narrow["redis_port"]
        /\ Constraint["redis_database"] \subseteq Narrow["redis_database"]
    BY <1>1 DEF Constraint, Narrow
  <1>4. /\ Constraint["queue_primary"] \subseteq Narrow["queue_primary"]
        /\ Constraint["queue_secondary"] \subseteq Narrow["queue_secondary"]
        /\ Constraint["queue_max_retries"] \subseteq Narrow["queue_max_retries"]
        /\ Constraint["limits_timeout"] \subseteq Narrow["limits_timeout"]
    BY <1>1 DEF Constraint, Narrow
  <1>5. /\ Constraint["mail_encryption"] \subseteq Narrow["mail_encryption"]
        /\ Constraint["queue_driver"] \subseteq Narrow["queue_driver"]
    BY DEF Constraint, Narrow
  <1>6. Constraint["limits_memory_mib"] \subseteq Narrow["limits_memory_mib"]
    <2>1. Constraint["limits_memory_mib"] = MemoryMib
      BY DEF Constraint
    <2>2. Narrow["limits_memory_mib"] = 0 .. AddressableMib
      BY DEF Narrow
    <2>. QED
      BY <1>2, <2>1, <2>2
  <1>7. f \in {"mail_port", "mail_encryption", "queue_primary", "queue_secondary", "queue_driver",
               "queue_max_retries", "redis_port", "redis_database", "limits_timeout",
               "limits_memory_mib"}
    BY DEF Narrow
  <1>8. f \in DOMAIN Constraint
    BY <1>7 DEF Constraint
  <1>. QED
    BY <1>3, <1>4, <1>5, <1>6, <1>7, <1>8

LEMMA AcceptedMail ==
    ASSUME NEW s, Errors(s) = {}
    PROVE  /\ s.mail_username => s.mail_encryption \in {"starttls", "tls"} \/ s.mail_loopback
           /\ s.limits_timeout \in Nat /\ s.limits_memory_mib \in MemoryMib
  <1>1. /\ {"mail_encryption", "limits_timeout", "limits_memory_mib"} \subseteq DOMAIN Constraint
        /\ Constraint["mail_encryption"] = {"none", "starttls", "tls"}
        /\ Constraint["limits_timeout"] = TimeoutSeconds
        /\ Constraint["limits_memory_mib"] = MemoryMib
    BY DEF Constraint
  <1>2. /\ s["mail_encryption"] \in {"none", "starttls", "tls"}
        /\ s["limits_timeout"] \in TimeoutSeconds
        /\ s["limits_memory_mib"] \in MemoryMib
    BY <1>1, AcceptedFits
  <1>3. ~PlainPassword(s)
    BY DEF Errors
  <1>. QED
    <2>0. \A x \in TimeoutSeconds : x \in Nat
      BY SMTT(120) DEF TimeoutSeconds
    <2>1. s["limits_timeout"] \in Nat
      BY <1>2, <2>0
    <2>. QED
      BY <1>2, <1>3, <2>1 DEF PlainPassword

-----------------------------------------------------------------------------
(* The inductive invariant. *)

LEMMA InductiveInit == Init => IInv
  BY DEF Init, StoreInit, NoCall, IInv, SpecInv, TermsInv, CauseInv

(* A step of the store within a call. *)
LEMMA StoreKeeps ==
    ASSUME IInv, StoreStep, UNCHANGED programVars
    PROVE  IInv'
  <1>1. UNCHANGED <<phase, spec, work>> /\ UNCHANGED <<asked, deadline, token>>
    BY DEF programVars, StoreStep, GuestStep, GrowMemory, GrowTable, GuestEnds, HostGrows, HostFails,
           EpochCallback, IncrementEpoch, ClockTicks, terms
  <1>2. call # "idle" /\ call # "ended"
    BY DEF StoreStep, GuestStep, GrowMemory, GrowTable, GuestEnds, HostGrows, HostFails,
           EpochCallback, IncrementEpoch, ClockTicks, Active
  <1>3. SpecInv' /\ TermsInv'
    BY <1>1, <1>2 DEF IInv, SpecInv, TermsInv
  <1>4. CauseInv'
    <2>1. CASE EpochCallback
      BY <1>1, <1>2, <2>1 DEF EpochCallback, Ends, IInv, CauseInv
    <2>2. CASE ClockTicks
      BY <1>1, <1>2, <2>2 DEF ClockTicks, IInv, CauseInv
    <2>3. CASE GuestStep \/ HostGrows \/ HostFails \/ IncrementEpoch
      BY <1>1, <1>2, <2>3 DEF GuestStep, GrowMemory, GrowTable, GuestEnds, HostGrows, HostFails,
                              IncrementEpoch, Ends, IInv, CauseInv
    <2>. QED
      BY <2>1, <2>2, <2>3 DEF StoreStep
  <1>. QED
    BY <1>3, <1>4 DEF IInv

(* A call begins or ends. *)
LEMMA BeginKeeps ==
    ASSUME IInv, BeginLoad \/ RunQueued \/ \E n, c : RunPlugin(n, c) /\ call' = "guest"
    PROVE  IInv'
  <1>1. ASSUME BeginLoad PROVE IInv'
    <2>1. /\ UNCHANGED <<phase, spec, work>> /\ phase = "load" /\ work # <<>>
          /\ call = "idle" /\ call' = "guest" /\ UNCHANGED <<clock, cause, failure>>
          /\ asked' = [limit |-> LoadTimeout, context |-> NoDeadline]
          /\ deadline' = [at |-> LoadTimeout, of |-> "load"] /\ token' = FALSE
      BY <1>1 DEF BeginLoad, BeginCall, programVars
    <2>. QED
      BY <2>1, StartupAssumption DEF IInv, SpecInv, TermsInv, CauseInv
  <1>2. ASSUME NEW d \in Nat \cup {NoDeadline}, NEW fired, BeginCommand(d, fired), phase = "run"
        PROVE  IInv'
    <2>1. /\ UNCHANGED <<spec, work>> /\ phase' = "call"
          /\ call = "idle" /\ call' = "guest" /\ UNCHANGED <<clock, cause, failure>>
          /\ asked' = [limit |-> spec.limits_timeout, context |-> d]
          /\ deadline' = CallDeadline(spec.limits_timeout, d)
      BY <1>2 DEF BeginCommand, BeginCall
    <2>2. Errors(spec) = {} /\ spec.limits_timeout \in Nat
      BY <1>2, AcceptedMail DEF IInv, SpecInv
    <2>3. asked'.limit = spec.limits_timeout /\ asked'.context = d
      BY <2>1
    <2>4. TermsInv'
      BY <2>1, <2>2, <2>3 DEF TermsInv
    <2>. QED
      BY <2>1, <2>2, <2>4 DEF IInv, SpecInv, CauseInv
  <1>3. ASSUME RunQueued PROVE IInv'
    BY <1>2, <1>3, StartupAssumption DEF RunQueued
  <1>4. ASSUME NEW n, NEW c, RunPlugin(n, c), call' = "guest" PROVE IInv'
    <2>1. CASE BeginCommand(NoDeadline, FALSE)
      BY <1>2, <1>4, <2>1 DEF RunPlugin
    <2>2. CASE UNCHANGED storeVars /\ Exit("failure")
      BY <1>4, <2>2 DEF RunPlugin, storeVars, Exit, IInv, SpecInv, TermsInv, CauseInv
    <2>. QED
      BY <1>4, <2>1, <2>2 DEF RunPlugin
  <1>. QED
    BY <1>1, <1>3, <1>4

LEMMA EndKeeps ==
    ASSUME IInv, EndLoad \/ QueuedEnds \/ PluginEnds
    PROVE  IInv'
  <1>1. /\ EndCall /\ UNCHANGED spec /\ phase \notin {"config", "exit"}
    BY DEF EndLoad, QueuedEnds, PluginEnds
  <1>2. call' = "idle" /\ clock' = 0 /\ failure' = "none"
    BY <1>1 DEF EndCall
  <1>. QED
    BY <1>1, <1>2 DEF IInv, SpecInv, TermsInv, CauseInv

(* The rest of the program leaves the store alone, and changes the phase only
   when no call is under way. *)
LEMMA ProgramKeeps ==
    ASSUME IInv, UNCHANGED <<storeVars, spec>>,
           phase' = "exit" \/ Errors(spec) = {},
           \/ call = "idle"
           \/ UNCHANGED <<phase, work>>
    PROVE  IInv'
  BY DEF IInv, SpecInv, TermsInv, CauseInv, storeVars

LEMMA InductiveStep == IInv /\ [Next]_vars => IInv'
  <1> SUFFICES ASSUME IInv, [Next]_vars PROVE IInv'
    OBVIOUS
  <1>1. CASE UNCHANGED vars
    BY <1>1 DEF vars, programVars, storeVars, IInv, SpecInv, TermsInv, CauseInv
  <1>2. CASE StoreStep /\ UNCHANGED programVars
    BY <1>2, StoreKeeps
  <1>3. CASE ConfigFails \/ ConfigLoads
    <2>1. phase = "config" /\ call = "idle" /\ UNCHANGED <<storeVars, spec>>
      BY <1>3 DEF ConfigFails, ConfigLoads, IInv, TermsInv
    <2>2. phase' = "exit" \/ Errors(spec) = {}
      <3>1. CASE ConfigFails
        BY <3>1 DEF ConfigFails, Exit
      <3>2. CASE ConfigLoads /\ Errors(spec) # {}
        <4>1. CheckAndLower(spec) = "none"
          BY <3>2 DEF CheckAndLower
        <4>. QED
          BY <3>2, <4>1 DEF ConfigLoads, Exit
      <3>. QED
        BY <1>3, <3>1, <3>2
    <2>. QED
      BY <2>1, <2>2, ProgramKeeps
  <1>4. CASE StartRuntime \/ LoadDone \/ RegisterNext \/ RegisterDone \/ ScheduleNext
             \/ ScheduleDone \/ RequestEnds \/ SkipFile \/ \E n \in todo : OpenDirectory(n)
    <2>1. phase \notin {"config", "exit"} /\ UNCHANGED <<storeVars, spec>>
      BY <1>4 DEF StartRuntime, LoadDone, RegisterNext, RegisterDone, ScheduleNext, ScheduleDone,
                  RequestEnds, SkipFile, OpenDirectory
    <2>2. call = "idle"
      BY <1>4 DEF StartRuntime, LoadDone, RegisterNext, RegisterDone, ScheduleNext, ScheduleDone,
                  RequestEnds, SkipFile, OpenDirectory, IInv, TermsInv
    <2>. QED
      BY <2>1, <2>2, ProgramKeeps DEF IInv, SpecInv
  <1>5. CASE BeginLoad \/ RunQueued
    BY <1>5, BeginKeeps
  <1>6. CASE EndLoad \/ QueuedEnds \/ PluginEnds
    BY <1>6, EndKeeps
  <1>7. CASE StopServer
    BY <1>7 DEF StopServer, FireToken, terms, programVars, IInv, SpecInv, TermsInv, CauseInv
  <1>8. ASSUME NEW n, NEW c, RunPlugin(n, c) PROVE IInv'
    <2>1. CASE call' = "guest"
      BY <1>8, <2>1, BeginKeeps
    <2>2. CASE call' # "guest"
      <3>1. Exit("failure") /\ UNCHANGED <<storeVars, spec>> /\ phase = "run"
        BY <1>8, <2>2 DEF RunPlugin, BeginCommand, BeginCall
      <3>2. call = "idle"
        BY <3>1 DEF IInv, TermsInv
      <3>. QED
        BY <3>1, <3>2, ProgramKeeps DEF Exit
    <2>. QED
      BY <2>1, <2>2
  <1>. QED
    BY <1>1, <1>2, <1>3, <1>4, <1>5, <1>6, <1>7, <1>8 DEF Next, Program

LEMMA Inductive == Spec => []IInv
  BY InductiveInit, InductiveStep, PTL DEF Spec

-----------------------------------------------------------------------------
(* What the invariant says. *)

(* runtime.rs: on a target whose usize counts the bytes of 4096 MiB, lowering
   reports no error for what validation accepts, whatever the file says. *)
THEOREM ValidationIsComplete ==
    ASSUME AddressableMib >= 4096
    PROVE  Spec => []LoweringNeverFails
  <1>1. LoweringNeverFails
    BY AcceptedFits, ConstraintNarrows DEF LoweringNeverFails, LowerErrors
  <1>. QED
    BY <1>1, PTL

(* validate.rs and notify.rs: a program that has passed the configuration sends
   the mail password only encrypted or to this host. *)
THEOREM PasswordIsSafe == Spec => []PasswordStaysPrivate
  <1>1. ASSUME IInv, phase \notin {"config", "exit"}
        PROVE  LET mail == MailTransport(spec) IN
               /\ mail.credentials => mail.encrypted \/ spec.mail_loopback
               /\ "password_ignored" \in Warnings(spec) => ~mail.credentials
    <2>1. Errors(spec) = {}
      BY <1>1 DEF IInv, SpecInv
    <2>2. spec.mail_username => spec.mail_encryption \in {"starttls", "tls"} \/ spec.mail_loopback
      BY <2>1, AcceptedMail
    <2>3. "password_ignored" \in Warnings(spec) => ~spec.mail_username
      BY DEF Warnings
    <2>. QED
      BY <2>2, <2>3 DEF MailTransport
  <1>2. IInv => PasswordStaysPrivate
    BY <1>1 DEF PasswordStaysPrivate
  <1>. QED
    BY <1>2, Inductive, PTL

(* classify_call_failure and from_load_call: the error of a call names what
   stopped it. *)
THEOREM CallErrorNamesCause == Spec => []CallErrorIsTruthful
  <1>1. ASSUME IInv, call = "ended", deadline.of = "load", LoadResultOf(failure) = "timed_out"
        PROVE  clock >= asked.limit
    <2>1. failure = "interrupt"
      BY <1>1 DEF LoadResultOf
    <2>2. phase = "load"
      BY <1>1 DEF IInv, TermsInv, CallDeadline
    <2>. QED
      BY <1>1, <2>1, <2>2 DEF IInv, TermsInv, CauseInv
  <1>2. ASSUME IInv, call = "ended", deadline.of # "load",
               NEW result, result = CommandResultOf(failure, cause, deadline)
        PROVE  /\ result = "interrupted" => token
               /\ result = "timeout" =>
                    /\ asked.context # NoDeadline /\ clock >= asked.context
                    /\ asked.context < asked.limit
               /\ result = "time_limit" =>
                    /\ clock >= asked.limit
                    /\ asked.context # NoDeadline => asked.limit <= asked.context
               /\ failure = "interrupt" => result # "failed"
    <2>1. /\ deadline = CallDeadline(asked.limit, asked.context)
          /\ asked.limit \in Nat /\ asked.context \in Nat \cup {NoDeadline}
      BY <1>2 DEF IInv, TermsInv
    <2>2. /\ result = "interrupted" => failure = "interrupt" /\ cause = "shutdown"
          /\ result = "timeout" => failure = "interrupt" /\ cause = "deadline" /\ deadline.of = "context"
          /\ result = "time_limit" =>
                failure = "interrupt" /\ cause = "deadline" /\ deadline.of = "plugin_limit"
          /\ failure = "interrupt" /\ cause = "shutdown" => result = "interrupted"
          /\ failure = "interrupt" /\ cause = "deadline" /\ deadline.of = "context" => result = "timeout"
          /\ failure = "interrupt" /\ cause = "deadline" /\ deadline.of = "plugin_limit" =>
                result = "time_limit"
      BY <1>2 DEF CommandResultOf
    <2>3. \/ /\ deadline.of = "context" /\ deadline.at = asked.context
             /\ asked.context # NoDeadline /\ asked.context < asked.limit
          \/ /\ deadline.of = "plugin_limit" /\ deadline.at = asked.limit
             /\ asked.context # NoDeadline => asked.limit <= asked.context
      BY <2>1 DEF CallDeadline
    <2>. QED
      BY <1>2, <2>2, <2>3 DEF IInv, CauseInv
  <1>3. IInv => CallErrorIsTruthful
    BY <1>1, <1>2 DEF CallErrorIsTruthful
  <1>. QED
    BY <1>3, Inductive, PTL

-----------------------------------------------------------------------------
(* The limiter. Sums over the memories of a store are in SetSums. *)

StoreTypeInv ==
    /\ limiter \in [limit : Nat, memory : Nat, last_growth : Nat, tables : Nat]
    /\ size \in [Memory \cup Table -> Nat]

(* The growth that the host works on is the last one the limiter has granted. *)
GrowthInv ==
    /\ call \notin {"memory", "table"} => growth = NoGrowth
    /\ call \in {"memory", "table"} =>
          /\ growth \in [of : IF call = "memory" THEN Memory ELSE Table, to : Nat]
          /\ growth.to > size[growth.of]
    /\ call = "memory" => limiter.last_growth = growth.to - size[growth.of]
    /\ call = "idle" => \A x \in Memory \cup Table : size[x] = 0

Growing(S) == IF growth.of \in S THEN growth.to - size[growth.of] ELSE 0

CountInv ==
    Active =>
        /\ limiter.limit \in MemoryMib
        /\ limiter.memory = Sum(size, Memory) + Growing(Memory)
        /\ limiter.memory <= limiter.limit
        /\ Sum(size, Table) + Growing(Table) <= limiter.tables
        /\ limiter.tables <= TableElementsLimit

StoreInv == StoreTypeInv /\ GrowthInv /\ CountInv

LEMMA SizesSum ==
    ASSUME StoreInv, NEW S, S = Memory \/ S = Table
    PROVE  /\ IsFiniteSet(S) /\ \A x \in S : size[x] \in Nat
           /\ Sum(size, S) \in Nat /\ \A x \in S : size[x] <= Sum(size, S)
  <1>1. IsFiniteSet(S) /\ \A x \in S : size[x] \in Nat
    BY StoreAssumption DEF StoreInv, StoreTypeInv
  <1>2. Sum(size, S) \in Nat
    BY <1>1, SumIsNat
  <1>. QED
    BY <1>1, <1>2, SumBoundsElement

(* saturating_sub and saturating_add do not saturate within a limit below the
   largest usize. *)
LEMMA TotalIsExact ==
    ASSUME NEW sum \in Nat, NEW current \in Nat, NEW desired \in Nat, NEW limit \in Nat,
           current <= sum, limit < UsizeMax, Total(sum, current, desired) <= limit
    PROVE  Total(sum, current, desired) = sum - current + desired
  <1>1. SaturatingSub(sum, current) = sum - current
    BY DEF SaturatingSub
  <1>. QED
    BY <1>1, LimiterAssumption DEF Total, SaturatingAdd

LEMMA StoreInvInit == Init => StoreInv
  BY DEF Init, StoreInit, NoCall, NewLimiter, NoGrowth, StoreInv, StoreTypeInv, GrowthInv, CountInv,
         Active

LEMMA GrantIsCounted ==
    ASSUME NEW l \in [limit : Nat, memory : Nat, last_growth : Nat, tables : Nat],
           NEW current, NEW desired,
           NEW t \in Nat, t = Total(l.memory, current, desired),
           NEW g \in Nat, g = SaturatingSub(t, l.memory)
    PROVE  MemoryGrowing(l, current, desired) =
               [limit |-> l.limit, memory |-> t, last_growth |-> g, tables |-> l.tables]
  <1>1. MemoryGrowing(l, current, desired) = [l EXCEPT !.memory = t, !.last_growth = g]
    BY DEF MemoryGrowing
  <1>2. [l EXCEPT !.memory = t, !.last_growth = g] =
           [limit |-> l.limit, memory |-> t, last_growth |-> g, tables |-> l.tables]
    <2>1. PICK k : k = [l EXCEPT !.memory = t]
      OBVIOUS
    <2>2. /\ k \in [limit : Nat, memory : Nat, last_growth : Nat, tables : Nat]
          /\ k.memory = t /\ k.limit = l.limit /\ k.tables = l.tables
      BY <2>1
    <2>3. [l EXCEPT !.memory = t, !.last_growth = g] = [k EXCEPT !.last_growth = g]
      BY <2>1
    <2>. QED
      BY <2>2, <2>3
  <1>. QED
    BY <1>1, <1>2

(* memory_growing *)
LEMMA MemoryGrowthKeeps ==
    ASSUME UsizeMax > 4096, StoreInv, NEW m \in Memory, NEW n \in Size, GrowMemory(m, n)
    PROVE  StoreInv'
  <1> DEFINE verdict == MemoryVerdict(limiter, size[m], n, Maximum)
  <1>1. call = "guest" /\ n > size[m] /\ UNCHANGED size /\ n \in Nat /\ size[m] \in Nat
    BY StoreAssumption DEF GrowMemory, StoreInv, StoreTypeInv
  <1>2. growth = NoGrowth /\ Growing(Memory) = 0 /\ Growing(Table) = 0
    BY <1>1, StoreAssumption DEF StoreInv, GrowthInv, NoGrowth, Growing
  <1>3. CASE verdict = "granted"
    <2>1. /\ Total(limiter.memory, size[m], n) <= limiter.limit
          /\ limiter' = MemoryGrowing(limiter, size[m], n)
          /\ growth' = [of |-> m, to |-> n] /\ call' = "memory"
      <3>1. ~(Total(limiter.memory, size[m], n) > limiter.limit)
        BY <1>3 DEF MemoryVerdict
      <3>2. limiter.memory \in Nat /\ limiter.limit \in Nat
        BY DEF StoreInv, StoreTypeInv
      <3>3. Total(limiter.memory, size[m], n) \in Int
        BY <1>1, <3>2, LimiterAssumption DEF Total, SaturatingAdd, SaturatingSub
      <3>. QED
        BY <1>3, <3>1, <3>2, <3>3 DEF GrowMemory
    <2>2. /\ limiter.memory \in Nat /\ limiter.limit \in Nat /\ limiter.limit < UsizeMax
          /\ limiter.memory = Sum(size, Memory) /\ size[m] <= limiter.memory
          /\ Sum(size, Memory) \in Nat
      <3>1. limiter.memory \in Nat /\ limiter.limit \in Nat
        BY DEF StoreInv, StoreTypeInv
      <3>2. limiter.limit \in MemoryMib /\ limiter.memory = Sum(size, Memory) + Growing(Memory)
        BY <1>1 DEF StoreInv, CountInv, Active
      <3>3. Sum(size, Memory) \in Nat /\ size[m] <= Sum(size, Memory)
        BY SizesSum
      <3>4. limiter.limit < UsizeMax
        <4>1. \A x \in MemoryMib : x <= 4096
          BY DEF MemoryMib
        <4>2. limiter.limit <= 4096
          BY <3>2, <4>1
        <4>. QED
          BY <3>1, <4>2, LimiterAssumption
      <3>. QED
        BY <1>2, <3>1, <3>2, <3>3, <3>4
    <2>3. Total(limiter.memory, size[m], n) = limiter.memory - size[m] + n
      BY <1>1, <2>1, <2>2, TotalIsExact
    <2>4. PICK t \in Nat : t = limiter.memory - size[m] + n
      BY <1>1, <2>2
    <2>5. /\ limiter'.memory = t /\ limiter'.last_growth = n - size[m]
          /\ limiter'.limit = limiter.limit /\ limiter'.tables = limiter.tables
          /\ limiter' \in [limit : Nat, memory : Nat, last_growth : Nat, tables : Nat]
      <3>1. SaturatingSub(t, limiter.memory) = n - size[m]
        BY <1>1, <2>2, <2>4 DEF SaturatingSub
      <3>2. n - size[m] \in Nat
        BY <1>1
      <3>3. limiter' = [limit |-> limiter.limit, memory |-> t,
                        last_growth |-> n - size[m], tables |-> limiter.tables]
        <4>1. limiter' = MemoryGrowing(limiter, size[m], n) /\ t = Total(limiter.memory, size[m], n)
          BY <2>1, <2>3, <2>4
        <4>2. limiter \in [limit : Nat, memory : Nat, last_growth : Nat, tables : Nat]
          BY DEF StoreInv, StoreTypeInv
        <4>. QED
          BY <3>1, <3>2, <4>1, <4>2, GrantIsCounted
      <3>. QED
        BY <3>2, <3>3 DEF StoreInv, StoreTypeInv
    <2>6. StoreTypeInv'
      BY <1>1, <2>5 DEF StoreInv, StoreTypeInv
    <2>7. GrowthInv'
      BY <1>1, <2>1, <2>5 DEF GrowthInv
    <2>8. Growing(Memory)' = n - size[m] /\ Growing(Table)' = 0
      BY <1>1, <2>1, StoreAssumption DEF Growing
    <2>9. CountInv'
      <3>1. limiter'.memory = Sum(size', Memory) + Growing(Memory)' /\ limiter'.memory <= limiter'.limit
        BY <1>1, <2>1, <2>2, <2>3, <2>4, <2>5, <2>8
      <3>2. /\ limiter'.limit \in MemoryMib
            /\ Sum(size', Table) + Growing(Table)' <= limiter'.tables
            /\ limiter'.tables <= TableElementsLimit
        BY <1>1, <1>2, <2>5, <2>8 DEF StoreInv, CountInv, Active
      <3>. QED
        BY <3>1, <3>2 DEF CountInv
    <2>. QED
      BY <2>6, <2>7, <2>9 DEF StoreInv
  <1>4. CASE verdict # "granted"
    <2>1. UNCHANGED <<limiter, size, growth>> /\ (call' = call \/ call' = "ended")
      BY <1>4 DEF GrowMemory, Ends
    <2>. QED
      BY <1>1, <2>1 DEF StoreInv, StoreTypeInv, GrowthInv, CountInv, Active, Growing
  <1>. QED
    BY <1>3, <1>4

(* table_growing *)
LEMMA TableGrowthKeeps ==
    ASSUME StoreInv, NEW t \in Table, NEW n \in Size, GrowTable(t, n)
    PROVE  StoreInv'
  <1>1. /\ call = "guest" /\ n > size[t] /\ UNCHANGED size /\ n \in Nat /\ size[t] \in Nat
        /\ limiter' = TableGrowing(limiter, size[t], n)
        /\ growth' = [of |-> t, to |-> n] /\ call' = "table"
        /\ TableVerdict(limiter, size[t], n, Maximum) = "granted"
    BY StoreAssumption DEF GrowTable, StoreInv, StoreTypeInv
  <1>2. growth = NoGrowth /\ Growing(Memory) = 0 /\ Growing(Table) = 0
    BY <1>1, StoreAssumption DEF StoreInv, GrowthInv, NoGrowth, Growing
  <1>3. /\ limiter.tables \in Nat /\ Sum(size, Table) \in Nat
        /\ size[t] <= Sum(size, Table) /\ Sum(size, Table) <= limiter.tables
        /\ TableElementsLimit \in Nat /\ TableElementsLimit < UsizeMax
    <2>1. limiter.tables \in Nat
      BY DEF StoreInv, StoreTypeInv
    <2>2. Sum(size, Table) \in Nat /\ size[t] <= Sum(size, Table)
      BY SizesSum
    <2>3. Sum(size, Table) + Growing(Table) <= limiter.tables
      BY <1>1 DEF StoreInv, CountInv, Active
    <2>. QED
      BY <1>2, <2>1, <2>2, <2>3, LimiterAssumption
  <1>4. Total(limiter.tables, size[t], n) <= TableElementsLimit
    <2>1. ~(Total(limiter.tables, size[t], n) > TableElementsLimit)
      BY <1>1 DEF TableVerdict
    <2>2. Total(limiter.tables, size[t], n) \in Int
      BY <1>1, <1>3, LimiterAssumption DEF Total, SaturatingAdd, SaturatingSub
    <2>. QED
      BY <1>3, <2>1, <2>2
  <1>5. size[t] <= limiter.tables
    BY <1>1, <1>3
  <1>6. Total(limiter.tables, size[t], n) = limiter.tables - size[t] + n
    BY <1>1, <1>3, <1>4, <1>5, TotalIsExact
  <1>7. PICK k \in Nat : k = limiter.tables - size[t] + n
    BY <1>1, <1>3, <1>5
  <1>8. /\ limiter'.tables = k /\ limiter'.memory = limiter.memory
        /\ limiter'.limit = limiter.limit
        /\ limiter' \in [limit : Nat, memory : Nat, last_growth : Nat, tables : Nat]
    <2>1. limiter' = [limiter EXCEPT !.tables = k]
      BY <1>1, <1>6, <1>7 DEF TableGrowing
    <2>. QED
      BY <2>1 DEF StoreInv, StoreTypeInv
  <1>9. StoreTypeInv' /\ GrowthInv'
    BY <1>1, <1>8 DEF StoreInv, StoreTypeInv, GrowthInv
  <1>10. Growing(Memory)' = 0 /\ Growing(Table)' = n - size[t]
    BY <1>1, StoreAssumption DEF Growing
  <1>11. CountInv'
    <2>1. Sum(size', Table) + Growing(Table)' <= limiter'.tables /\ limiter'.tables <= TableElementsLimit
      BY <1>1, <1>3, <1>4, <1>6, <1>7, <1>8, <1>10
    <2>2. /\ limiter'.limit \in MemoryMib
          /\ limiter'.memory = Sum(size', Memory) + Growing(Memory)'
          /\ limiter'.memory <= limiter'.limit
      BY <1>1, <1>2, <1>8, <1>10 DEF StoreInv, CountInv, Active
    <2>. QED
      BY <2>1, <2>2 DEF CountInv
  <1>. QED
    BY <1>9, <1>11 DEF StoreInv

(* The host answers a growth: what was growing is there, or was never counted. *)
LEMMA HostKeeps ==
    ASSUME StoreInv, HostGrows \/ HostFails
    PROVE  StoreInv'
  <1>1. /\ call \in {"memory", "table"} /\ call' = "guest" /\ growth' = NoGrowth
        /\ Growing(Memory)' = 0 /\ Growing(Table)' = 0
    BY StoreAssumption DEF HostGrows, HostFails, NoGrowth, Growing
  <1>2. PICK x : growth.of = x
    OBVIOUS
  <1>3. PICK n \in Nat : growth.to = n
    BY <1>1 DEF StoreInv, GrowthInv
  <1>4. /\ x \in Memory \cup Table /\ size[x] \in Nat /\ n > size[x]
        /\ call = "memory" => x \in Memory /\ x \notin Table
        /\ call = "table" => x \in Table /\ x \notin Memory
    BY <1>1, <1>2, <1>3, StoreAssumption DEF StoreInv, GrowthInv, StoreTypeInv
  <1>5. /\ limiter \in [limit : Nat, memory : Nat, last_growth : Nat, tables : Nat]
        /\ limiter.limit \in MemoryMib /\ limiter.memory <= limiter.limit
        /\ limiter.tables <= TableElementsLimit
        /\ limiter.memory = Sum(size, Memory) + Growing(Memory)
        /\ Sum(size, Table) + Growing(Table) <= limiter.tables
        /\ Sum(size, Memory) \in Nat /\ Sum(size, Table) \in Nat
    BY <1>1, SizesSum DEF StoreInv, StoreTypeInv, CountInv, Active
  <1>6. /\ call = "memory" => Growing(Memory) = n - size[x] /\ Growing(Table) = 0
        /\ call = "table" => Growing(Table) = n - size[x] /\ Growing(Memory) = 0
    BY <1>2, <1>3, <1>4 DEF Growing
  <1>7. CASE HostGrows
    <2>1. UNCHANGED limiter /\ size' = [size EXCEPT ![x] = n]
      BY <1>2, <1>3, <1>7 DEF HostGrows
    <2>2. size \in [Memory \cup Table -> Nat]
      BY DEF StoreInv, StoreTypeInv
    <2>3. PICK g : g = size'
      OBVIOUS
    <2>4. ASSUME NEW S, S = Memory \/ S = Table, x \in S PROVE Sum(g, S) = Sum(size, S) - size[x] + n
      <3>1. IsFiniteSet(S) /\ \A y \in S : size[y] \in Int
        BY <2>4, SizesSum
      <3>2. (\A y \in S \ {x} : g[y] = size[y]) /\ g[x] = n /\ n \in Int
        BY <1>4, <2>1, <2>2, <2>3, <2>4
      <3>3. Sum(g, S) = Sum(size, S) - size[x] + g[x]
        <4>1. g[x] \in Int
          BY <3>2
        <4>. QED
          BY <2>4, <3>1, <3>2, <4>1, SumChange
      <3>. QED
        BY <3>2, <3>3
    <2>5. ASSUME NEW S, S = Memory \/ S = Table, x \notin S PROVE Sum(g, S) = Sum(size, S)
      <3>1. IsFiniteSet(S)
        BY <2>5, SizesSum
      <3>2. \A y \in S : g[y] = size[y]
        BY <1>4, <2>1, <2>2, <2>3, <2>5
      <3>. QED
        BY <3>1, <3>2, SumSame
    <2>6. limiter.memory = Sum(g, Memory) /\ Sum(g, Table) <= limiter.tables
      <3>1. CASE call = "memory"
        BY <1>4, <1>5, <1>6, <2>4, <2>5, <3>1
      <3>2. CASE call = "table"
        BY <1>4, <1>5, <1>6, <2>4, <2>5, <3>2
      <3>. QED
        BY <1>1, <3>1, <3>2
    <2>7. StoreTypeInv' /\ GrowthInv'
      BY <1>1, <1>5, <2>1, <2>2 DEF StoreTypeInv, GrowthInv
    <2>8. CountInv'
      <3>1. Sum(g, Memory) \in Int /\ Sum(g, Table) \in Int
        BY <1>4, <1>5, <2>4, <2>5
      <3>2. limiter'.memory = Sum(size', Memory) + Growing(Memory)'
        BY <1>1, <2>1, <2>3, <2>6, <3>1
      <3>3. Sum(size', Table) + Growing(Table)' <= limiter'.tables
        BY <1>1, <2>1, <2>3, <2>6, <3>1
      <3>. QED
        BY <1>5, <2>1, <3>2, <3>3 DEF CountInv
    <2>. QED
      BY <2>7, <2>8 DEF StoreInv
  <1>8. CASE HostFails
    <2>1. UNCHANGED size /\ limiter' = IF call = "memory" THEN MemoryGrowFailed(limiter) ELSE limiter
      BY <1>8 DEF HostFails
    <2>2. CASE call = "memory"
      <3>1. limiter.last_growth = n - size[x]
        BY <1>2, <1>3, <2>2 DEF StoreInv, GrowthInv
      <3>2. PICK k \in Nat : k = limiter.memory - limiter.last_growth /\ k = Sum(size, Memory)
        BY <1>4, <1>5, <1>6, <2>2, <3>1
      <3>3. limiter' = [limit |-> limiter.limit, memory |-> k, last_growth |-> 0,
                        tables |-> limiter.tables]
        BY <1>5, <2>1, <2>2, <3>2 DEF MemoryGrowFailed
      <3>4. StoreTypeInv' /\ GrowthInv'
        BY <1>1, <1>5, <2>1, <3>3 DEF StoreInv, StoreTypeInv, GrowthInv
      <3>5. k <= limiter.limit
        BY <1>4, <1>5, <3>1, <3>2
      <3>6. CountInv'
        BY <1>1, <1>5, <1>6, <2>1, <2>2, <3>2, <3>3, <3>5 DEF CountInv
      <3>. QED
        BY <3>4, <3>6 DEF StoreInv
    <2>3. CASE call = "table"
      <3>1. UNCHANGED limiter
        BY <2>1, <2>3
      <3>2. StoreTypeInv' /\ GrowthInv'
        BY <1>1, <2>1, <3>1 DEF StoreInv, StoreTypeInv, GrowthInv
      <3>3. Sum(size, Table) <= limiter.tables
        BY <1>4, <1>5, <1>6, <2>3
      <3>4. CountInv'
        BY <1>1, <1>5, <1>6, <2>1, <2>3, <3>1, <3>3 DEF CountInv
      <3>. QED
        BY <3>2, <3>4 DEF StoreInv
    <2>. QED
      BY <1>1, <2>2, <2>3
  <1>. QED
    BY <1>7, <1>8

(* A call begins with the budget of an accepted configuration, and nothing counted. *)
LEMMA BeginCounts ==
    ASSUME StoreInv, NEW mib \in MemoryMib,
           call = "idle", call' = "guest", UNCHANGED <<size, growth>>, limiter' = NewLimiter(mib)
    PROVE  StoreInv'
  <1>1. /\ call = "idle" /\ call' = "guest" /\ UNCHANGED <<size, growth>>
        /\ limiter' = NewLimiter(mib)
    OBVIOUS
  <1>2. growth = NoGrowth /\ \A x \in Memory \cup Table : size[x] = 0
    BY <1>1 DEF StoreInv, GrowthInv
  <1>3. Sum(size, Memory) = 0 /\ Sum(size, Table) = 0
    BY <1>2, StoreAssumption, SumOfZeros
  <1>4. mib \in Nat
    BY DEF MemoryMib
  <1>5. Growing(Memory)' = 0 /\ Growing(Table)' = 0
    BY <1>1, <1>2, StoreAssumption DEF Growing, NoGrowth
  <1>6. limiter' = [limit |-> mib, memory |-> 0, last_growth |-> 0, tables |-> 0]
    BY <1>1 DEF NewLimiter
  <1>7. StoreTypeInv' /\ GrowthInv'
    BY <1>1, <1>2, <1>4, <1>6 DEF StoreInv, StoreTypeInv, GrowthInv
  <1>8. CountInv'
    BY <1>1, <1>3, <1>4, <1>5, <1>6, LimiterAssumption DEF CountInv
  <1>. QED
    BY <1>7, <1>8 DEF StoreInv

LEMMA CallsBegin ==
    ASSUME BeginLoad \/ RunQueued \/ \E n, c : RunPlugin(n, c)
    PROVE  \/ UNCHANGED <<call, limiter, size, growth>>
           \/ /\ phase \in {"load", "run"} /\ call = "idle" /\ call' = "guest"
              /\ UNCHANGED <<size, growth>> /\ limiter' = NewLimiter(spec.limits_memory_mib)
  <1>1. CASE BeginLoad
    BY <1>1 DEF BeginLoad, BeginCall
  <1>2. ASSUME NEW d, NEW fired, BeginCommand(d, fired)
        PROVE  /\ call = "idle" /\ call' = "guest" /\ UNCHANGED <<size, growth>>
               /\ limiter' = NewLimiter(spec.limits_memory_mib)
    BY <1>2 DEF BeginCommand, BeginCall
  <1>3. CASE RunQueued
    BY <1>2, <1>3 DEF RunQueued
  <1>4. ASSUME NEW n, NEW c, RunPlugin(n, c)
        PROVE  phase = "run" /\ (BeginCommand(NoDeadline, FALSE) \/ UNCHANGED storeVars)
    BY <1>4 DEF RunPlugin
  <1>. QED
    BY <1>1, <1>2, <1>3, <1>4 DEF storeVars

LEMMA StoreInvStep == UsizeMax > 4096 /\ IInv /\ StoreInv /\ [Next]_vars => StoreInv'
  <1> SUFFICES ASSUME UsizeMax > 4096, IInv, StoreInv, [Next]_vars PROVE StoreInv'
    OBVIOUS
  <1>1. CASE UNCHANGED <<call, limiter, size, growth>>
    BY <1>1 DEF StoreInv, StoreTypeInv, GrowthInv, CountInv, Active, Growing
  <1>2. CASE GuestEnds
    BY <1>2 DEF GuestEnds, Ends, StoreInv, StoreTypeInv, GrowthInv, CountInv, Active
  <1>3. CASE EpochCallback
    <2>1. UNCHANGED <<limiter, size, growth>> /\ call = "guest" /\ (call' = call \/ call' = "ended")
      BY <1>3 DEF EpochCallback, Ends
    <2>. QED
      BY <2>1 DEF StoreInv, StoreTypeInv, GrowthInv, CountInv, Active, Growing
  <1>4. CASE StoreStep
    <2>1. CASE IncrementEpoch \/ ClockTicks
      BY <1>1, <2>1 DEF IncrementEpoch, ClockTicks
    <2>. QED
      BY <1>2, <1>3, <1>4, <2>1, MemoryGrowthKeeps, TableGrowthKeeps, HostKeeps DEF StoreStep, GuestStep
  <1>5. CASE EndCall
    <2>1. call' = "idle" /\ limiter' = NewLimiter(0) /\ growth' = NoGrowth
          /\ size' = [x \in Memory \cup Table |-> 0]
      BY <1>5 DEF EndCall, NoCall
    <2>. QED
      BY <2>1 DEF NewLimiter, NoGrowth, StoreInv, StoreTypeInv, GrowthInv, CountInv, Active
  <1>6. CASE BeginLoad \/ RunQueued \/ \E n, c : RunPlugin(n, c)
    <2>1. CASE /\ phase \in {"load", "run"} /\ call = "idle" /\ call' = "guest"
               /\ UNCHANGED <<size, growth>> /\ limiter' = NewLimiter(spec.limits_memory_mib)
      <3>1. spec.limits_memory_mib \in MemoryMib
        BY <2>1, AcceptedMail DEF IInv, SpecInv
      <3>. QED
        BY <2>1, <3>1, BeginCounts
    <2>. QED
      BY <1>1, <1>6, <2>1, CallsBegin
  <1>7. CASE EndLoad \/ QueuedEnds \/ PluginEnds
    BY <1>5, <1>7 DEF EndLoad, QueuedEnds, PluginEnds
  <1>8. CASE StopServer \/ UNCHANGED vars
    BY <1>1, <1>8 DEF StopServer, FireToken, vars, storeVars
  <1>9. CASE ConfigFails \/ ConfigLoads \/ StartRuntime \/ LoadDone \/ RegisterNext \/ RegisterDone
              \/ ScheduleNext \/ ScheduleDone \/ RequestEnds \/ SkipFile
              \/ \E n \in todo : OpenDirectory(n)
    <2>1. UNCHANGED storeVars
      BY <1>9 DEF ConfigFails, ConfigLoads, StartRuntime, LoadDone, RegisterNext, RegisterDone,
                   ScheduleNext, ScheduleDone, RequestEnds, SkipFile, OpenDirectory
    <2>. QED
      BY <1>1, <2>1 DEF storeVars
  <1>. QED
    BY <1>4, <1>6, <1>7, <1>8, <1>9 DEF Next, Program

(* limiter.rs: on a target whose usize is wider than the largest budget (4096 MiB),
   the count of the limiter is what its memories have and the growth on its way,
   for any number of memories and tables, any sizes the guest asks for and any
   growths the host refuses. *)
THEOREM LimiterIsExact ==
    ASSUME UsizeMax > 4096
    PROVE  Spec => []LimiterCountsMemory
  <1>1. \A S : Provided(S) = Sum(size, S)
    BY DEF Provided, MapThenSumSet, MapThenFoldSet, Sum, Sums, SumStep, Chosen
  <1>2. StoreInv => LimiterCountsMemory
    BY <1>1 DEF StoreInv, CountInv, LimiterCountsMemory, Growing
  <1>3. StoreInv /\ IInv /\ [Next]_vars => StoreInv'
    BY StoreInvStep
  <1>. QED
    BY <1>2, <1>3, StoreInvInit, Inductive, PTL DEF Spec

=============================================================================
