---------------------------- MODULE PluginStore -----------------------------
(***************************************************************************)
(* One call into a plugin (plugin/runtime.rs, plugin/wasm_command.rs,      *)
(* plugin/load_error.rs): a new store with a deadline, the token of the    *)
(* caller and a limiter, and the guest that runs in it. The guest may grow *)
(* its memories and tables, return, trap or loop for ever; every tick of   *)
(* the epoch ticker makes it call back, and the callback stops it when the *)
(* token has fired or the deadline has passed. The engine and the guest    *)
(* are external: what they may do is a choice.                             *)
(***************************************************************************)
EXTENDS PluginLimiter, FiniteSets, FiniteSetsExt

CONSTANTS Memory, Table,  \* the linear memories and tables of a store
          Size,           \* the sizes a guest may ask for
          Maximum,        \* the declared maximum of a memory or a table
          MaxClock,       \* bound on the clock of a call
          NoDeadline      \* the deadline of a context that has none

ASSUME StoreAssumption ==
    /\ Size \subseteq 0 .. UsizeMax /\ Maximum \in 0 .. UsizeMax
    /\ MaxClock \in Nat /\ NoDeadline \notin Nat
    /\ IsFiniteSet(Memory) /\ IsFiniteSet(Table) /\ Memory \cap Table = {}
    /\ "none" \notin Memory \cup Table

VARIABLES
    call,      \* "idle", "guest", "memory" or "table" (the host grows it), "ended"
    limiter,   \* PluginLimiter
    size,      \* [Memory \cup Table -> Nat]: what the host has provided
    growth,    \* the growth the host works on: [of, to]
    asked,     \* [limit, context]: the deadlines the call came with
    deadline,  \* [at, of]: when the call must stop, and CallDeadline or "load"
    clock,     \* the time since the call began
    tick,      \* the epoch has moved on since the last callback
    token,     \* the token of the caller has fired
    cause,     \* InterruptCause, or "none"
    failure    \* how the call ended

storeVars == <<call, limiter, size, growth, asked, deadline, clock, tick,
               token, cause, failure>>

terms == <<asked, deadline>>

NoGrowth == [of |-> "none", to |-> 0]

(* The guest runs, or the host for it. *)
Active == call \in {"guest", "memory", "table"}

(* No call is under way. *)
NoCall ==
    [call |-> "idle", limiter |-> NewLimiter(0),
     size |-> [x \in Memory \cup Table |-> 0], growth |-> NoGrowth,
     asked |-> [limit |-> 0, context |-> NoDeadline],
     deadline |-> [at |-> 0, of |-> "none"]]

StoreInit ==
    /\ call = NoCall.call /\ limiter = NoCall.limiter
    /\ size = NoCall.size /\ growth = NoCall.growth
    /\ asked = NoCall.asked /\ deadline = NoCall.deadline
    /\ clock = 0 /\ tick = FALSE /\ token = FALSE
    /\ cause = "none" /\ failure = "none"

(* Mutant of CallDeadline: the later of the two. *)
CallDeadlineLater(limit, context) ==
    IF context # NoDeadline /\ context >= limit
    THEN [at |-> context, of |-> "context"]
    ELSE [at |-> limit, of |-> "plugin_limit"]

(* call_deadline: the deadline of the context when it is before the plugin limit. *)
CallDeadline(limit, context) ==
    IF context # NoDeadline /\ context < limit
    THEN [at |-> context, of |-> "context"]
    ELSE [at |-> limit, of |-> "plugin_limit"]

(* new_store, and the call that uses it. fired: the token may have fired before. *)
BeginCall(mib, limit, context, until, fired) ==
    /\ call = "idle" /\ call' = "guest"
    /\ limiter' = NewLimiter(mib)
    /\ asked' = [limit |-> limit, context |-> context]
    /\ deadline' = until
    /\ token' = fired
    /\ UNCHANGED <<size, growth, clock, tick, cause, failure>>

(* The store is dropped. The token belongs to the caller. *)
EndCall ==
    /\ call = "ended" /\ call' = "idle"
    /\ limiter' = NoCall.limiter /\ size' = NoCall.size /\ growth' = NoCall.growth
    /\ asked' = NoCall.asked /\ deadline' = NoCall.deadline
    /\ clock' = 0 /\ tick' = FALSE /\ cause' = "none" /\ failure' = "none"
    /\ UNCHANGED token

(* The call is over with outcome f. *)
Ends(f) == call' = "ended" /\ failure' = f

(* The guest asks for memory m to have n: the limiter grants it, refuses it
   (memory.grow returns -1), or traps the guest with MemoryLimitExceeded. *)
GrowMemory(m, n) ==
    LET verdict == MemoryVerdict(limiter, size[m], n, Maximum) IN
    /\ call = "guest" /\ n > size[m]
    /\ \/ /\ verdict = "granted"
          /\ limiter' = MemoryGrowing(limiter, size[m], n)
          /\ growth' = [of |-> m, to |-> n] /\ call' = "memory"
          /\ UNCHANGED failure
       \/ verdict = "refused" /\ UNCHANGED <<limiter, growth, call, failure>>
       \/ verdict = "exceeded" /\ Ends("memory_limit") /\ UNCHANGED <<limiter, growth>>
    /\ UNCHANGED <<size, terms, clock, tick, token, cause>>

GrowTable(t, n) ==
    /\ call = "guest" /\ n > size[t]
    /\ TableVerdict(limiter, size[t], n, Maximum) = "granted"
    /\ limiter' = TableGrowing(limiter, size[t], n)
    /\ growth' = [of |-> t, to |-> n] /\ call' = "table"
    /\ UNCHANGED <<size, terms, clock, tick, token, cause, failure>>

(* The host provides the granted growth. *)
HostGrows ==
    /\ call \in {"memory", "table"} /\ call' = "guest"
    /\ size' = [size EXCEPT ![growth.of] = growth.to]
    /\ growth' = NoGrowth
    /\ UNCHANGED <<limiter, terms, clock, tick, token, cause, failure>>

(* The host cannot. Only a memory has a callback for that. *)
HostFails ==
    /\ call \in {"memory", "table"} /\ call' = "guest"
    /\ limiter' = IF call = "memory" THEN MemoryGrowFailed(limiter) ELSE limiter
    /\ growth' = NoGrowth
    /\ UNCHANGED <<size, terms, clock, tick, token, cause, failure>>

(* The guest returns, a command also with an error message, or traps. *)
GuestEnds ==
    /\ call = "guest"
    /\ Ends("ok") \/ Ends("trap") \/ (deadline.of # "load" /\ Ends("message"))
    /\ UNCHANGED <<limiter, size, growth, terms, clock, tick, token, cause>>

(* Mutant of EpochCallback: only the token is looked at. *)
EpochCallbackTokenOnly ==
    /\ call = "guest" /\ tick /\ tick' = FALSE
    /\ IF ~token THEN UNCHANGED <<call, cause, failure>>
       ELSE cause' = "shutdown" /\ Ends("interrupt")
    /\ UNCHANGED <<limiter, size, growth, terms, clock, token>>

(* The epoch callback of new_store, at the next check of the guest after a tick. *)
EpochCallback ==
    LET found == IF token THEN "shutdown"
                 ELSE IF clock >= deadline.at THEN "deadline" ELSE "none" IN
    /\ call = "guest" /\ tick /\ tick' = FALSE
    /\ IF found = "none" THEN UNCHANGED <<call, cause, failure>>
       ELSE cause' = found /\ Ends("interrupt")
    /\ UNCHANGED <<limiter, size, growth, terms, clock, token>>

(* The ticker thread. *)
IncrementEpoch ==
    /\ Active /\ ~tick /\ tick' = TRUE
    /\ UNCHANGED <<call, limiter, size, growth, terms, clock, token, cause,
                   failure>>

ClockTicks ==
    /\ Active /\ clock < MaxClock /\ clock' = clock + 1
    /\ UNCHANGED <<call, limiter, size, growth, terms, tick, token, cause,
                   failure>>

(* The server stops while the call runs. *)
FireToken ==
    /\ ~token /\ token' = TRUE
    /\ UNCHANGED <<call, limiter, size, growth, terms, clock, tick, cause, failure>>

GuestStep ==
    \/ \E m \in Memory, n \in Size : GrowMemory(m, n)
    \/ \E t \in Table, n \in Size : GrowTable(t, n)
    \/ GuestEnds

StoreStep == \/ GuestStep \/ HostGrows \/ HostFails \/ EpochCallback
             \/ IncrementEpoch \/ ClockTicks

(* classify_call_failure, and the Ok branches of WasmCommand::run. *)
CommandResultOf(f, c, d) ==
    CASE f = "ok"                                                       -> "ok"
      [] f = "interrupt" /\ c = "shutdown"                              -> "interrupted"
      [] f = "interrupt" /\ c = "deadline" /\ d.of = "context"          -> "timeout"
      [] f = "interrupt" /\ c = "deadline" /\ d.of = "plugin_limit"     -> "time_limit"
      [] f = "memory_limit"                                             -> "out_of_memory"
      [] OTHER                                                          -> "failed"

(* LoadError::from_load_call: every interrupt counts as the load timeout. *)
LoadResultOf(f) ==
    CASE f = "ok"           -> "ok"
      [] f = "interrupt"    -> "timed_out"
      [] f = "memory_limit" -> "memory_limit"
      [] OTHER              -> "instantiate"

-----------------------------------------------------------------------------
(* Properties of a store. *)

(* What the host has provided of the given memories or tables. *)
Provided(S) == MapThenSumSet(LAMBDA x : size[x], S)

(* limiter.rs: the count of the limiter is what the memories of the store have
   and the growth on its way, also after growths that the host refused, and it is
   within the budget. The tables never have more than the limiter counts. *)
LimiterCountsMemory ==
    LET growing(S) == IF growth.of \in S THEN growth.to - size[growth.of] ELSE 0 IN
    Active =>
        /\ limiter.memory = Provided(Memory) + growing(Memory)
        /\ limiter.memory <= limiter.limit
        /\ Provided(Table) + growing(Table) <= limiter.tables
        /\ limiter.tables <= TableElementsLimit

(* classify_call_failure and from_load_call: the result of a call names what
   stopped it. It is interrupted only when the server stops, so that its message
   is put back; a timeout or the plugin limit only when that one was the earlier
   and has passed; an interrupt always has a cause; and a load is reported late
   only when it is. *)
CallErrorIsTruthful ==
    LET result == CommandResultOf(failure, cause, deadline) IN
    call = "ended" =>
      IF deadline.of = "load"
      THEN LoadResultOf(failure) = "timed_out" => clock >= asked.limit
      ELSE /\ result = "interrupted" => token
           /\ result = "timeout" =>
                 /\ asked.context # NoDeadline /\ clock >= asked.context
                 /\ asked.context < asked.limit
           /\ result = "time_limit" =>
                 /\ clock >= asked.limit
                 /\ asked.context # NoDeadline => asked.limit <= asked.context
           /\ failure = "interrupt" => result # "failed"

(* runtime.rs: a call stops once its deadline has passed or its token has fired,
   although the guest never returns. *)
CallStops == (Active /\ (token \/ clock >= deadline.at)) ~> ~Active

=============================================================================
