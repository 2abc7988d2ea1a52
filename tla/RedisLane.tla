----------------------------- MODULE RedisLane ------------------------------
(***************************************************************************)
(* One lane of the Redis queue (queue/driver/redis), with the server's     *)
(* consumers, `inengine queue consume` processes, the bulk commands and    *)
(* publishers as its clients.                                              *)
(*                                                                         *)
(* Redis runs one command or script at a time, so each is one step. What   *)
(* is not atomic is the call: a request may go unanswered (a connection    *)
(* error, the response timeout), and Redis may then have run it, run it    *)
(* later, or never run it. Such a request is kept in late. Every Redis     *)
(* list has its left end first.                                            *)
(***************************************************************************)
EXTENDS Envelope, SequencesExt

CONSTANTS Garbage,         \* messages whose element does not parse
          ServerConsumer,  \* the consumer tasks of the server
          CliConsumer,     \* `queue consume` processes
          Tool,            \* processes that run recover, clear, republish
          Server,          \* the server, as the process that recovers at start
          RecoverOnStart,  \* queue.recover_on_start
          SettleRetries,   \* SHUTDOWN_SETTLE_RETRIES
          BatchSize,       \* BULK_MOVE_BATCH_SIZE
          NoElement,       \* no receipt
          MaxFaults,       \* bound on requests without an answer and crashes together
          MaxCrashes,      \* bound on process crashes
          MaxStarts,       \* bound on server starts
          MaxCommands      \* bound on recover, clear, republish commands

ASSUME RedisAssumption ==
    /\ Garbage \subseteq Msg
    /\ ServerConsumer \cap CliConsumer = {}
    /\ Server \notin Tool
    /\ RecoverOnStart \in BOOLEAN
    /\ NoElement \notin CommandEnvelope
    /\ BatchSize \in Nat \ {0}
    /\ SettleRetries \in Nat /\ MaxFaults \in Nat /\ MaxCrashes \in Nat
    /\ MaxStarts \in Nat /\ MaxCommands \in Nat

Consumer == ServerConsumer \cup CliConsumer
Worker == Tool \cup {Server}

VARIABLES
    list,        \* [Stage -> Seq(CommandEnvelope)]: the three Redis lists
    late,        \* the requests that got no answer
    pc,          \* [Consumer -> {"stopped", "idle", "poll", "unreadable", "begin",
                 \*   "running", "settle", "backoff"}]
    element,     \* [Consumer -> CommandEnvelope \cup {NoElement}]: Receipt::Redis
    env,         \* [Consumer -> CommandEnvelope \cup {NoElement}]: the delivery
    kind,        \* [Consumer -> AttemptKind \cup {"none"}]: how the attempt ended
    tries,       \* [Consumer -> Nat]: shutdown_retries
    server,      \* "down", "starting" or "running"
    cancelled,   \* the server's cancellation token
    op,          \* [Worker -> {"none", "open", "recover", "republish"}]: a bulk operation
    rest,        \* [Worker -> Nat]: limit - moved of bulk_move
    crashes, starts, commands  \* how much of each bound is used

(* What happened so far, for the properties only. *)
VARIABLES
    published,   \* the messages that have been published
    newer,       \* [Msg -> SUBSET Msg]: the messages that last entered pending
                 \*   after this one did
    succeeded,   \* the messages whose command ended with success
    cleared,     \* the messages a clear removed
    counted,     \* [Msg -> Nat]: the failed attempts of each message
    recovered    \* whether a recover has moved a message

clientVars == <<pc, element, env, kind, tries>>
serverVars == <<server, cancelled>>
workVars == <<op, rest>>
boundVars == <<crashes, starts, commands>>
lineVars == <<published, newer>>
redisVars == <<list, lineVars, cleared, recovered>>
runVars == <<succeeded, counted>>
vars == <<redisVars, late, clientVars, serverVars, workVars, boundVars, runVars>>

Stage == {"pending", "inProgress", "failed"}

-----------------------------------------------------------------------------
(* Requests, and what Redis does when it runs one.                         *)

(* claim_element: LMOVE or BLMOVE. *)
ClaimRequest == [do |-> "claim"]
(* acknowledge: LREM of one element equal to e. *)
RemoveRequest(e) == [do |-> "remove", element |-> e]
(* move_if_present: the script MOVE_IF_PRESENT. *)
MoveRequest(e, to, v) == [do |-> "move", element |-> e, to |-> to, value |-> v]
(* bulk_move: one run of the script BULK_MOVE. *)
BulkRequest(o, n) == [do |-> "bulk", op |-> o, count |-> n]
(* clear: LLEN and DEL in one transaction. *)
ClearRequest(s) == [do |-> "clear", stage |-> s]

(* LMOVE from one end of a list to one end of another. *)
LMove(l, source, destination, from, to) ==
    IF l[source] = <<>> THEN l
    ELSE LET e == IF from = "LEFT" THEN Head(l[source]) ELSE Last(l[source])
         IN [l EXCEPT ![source] = IF from = "LEFT" THEN Tail(@) ELSE Front(@),
                      ![destination] = IF to = "LEFT" THEN <<e>> \o @ ELSE Append(@, e)]

(* BULK_MOVE: n moves, one after the other. *)
BulkMove(source, destination, from, to, n) ==
    LET after[i \in 0..n] ==
          IF i = 0 THEN list ELSE LMove(after[i - 1], source, destination, from, to)
    IN after[n]

Ids(s) == [i \in DOMAIN s |-> s[i].id]

(* Messages that enter pending at its left end, the last of ids first. *)
Entered(ids) ==
    LET S == ToSet(ids)
        left(m) == {ids[i] : i \in {k \in DOMAIN ids : \E j \in DOMAIN ids : k < j /\ ids[j] = m}}
    IN /\ published' = published \cup S
       /\ newer' = [m \in Msg |-> IF m \in S THEN left(m)
                                 ELSE IF m \in published THEN newer[m] \cup S
                                 ELSE {}]

(* A claim that reads the element and leaves it in pending. *)
RunClaimCopying ==
    /\ list' = [list EXCEPT !["inProgress"] =
                   IF list["pending"] = <<>> THEN @ ELSE <<Last(list["pending"])>> \o @]
    /\ UNCHANGED <<lineVars, cleared, recovered>>

RunClaim ==
    /\ list' = LMove(list, "pending", "inProgress", "RIGHT", "LEFT")
    /\ UNCHANGED <<lineVars, cleared, recovered>>

RunRemove(e) ==
    /\ list' = [list EXCEPT !["inProgress"] = RemoveFirst(@, e)]
    /\ UNCHANGED <<lineVars, cleared, recovered>>

(* MOVE_IF_PRESENT that pushes without a look at what LREM returned. *)
RunMoveUnchecked(e, to, v) ==
    /\ list' = [list EXCEPT !["inProgress"] = RemoveFirst(@, e), ![to] = <<v>> \o @]
    /\ IF to = "pending" THEN Entered(<<v.id>>) ELSE UNCHANGED lineVars
    /\ UNCHANGED <<cleared, recovered>>

RunMove(e, to, v) ==
    /\ IF Contains(list["inProgress"], e)
       THEN /\ list' = [list EXCEPT !["inProgress"] = RemoveFirst(@, e), ![to] = <<v>> \o @]
            /\ IF to = "pending" THEN Entered(<<v.id>>) ELSE UNCHANGED lineVars
       ELSE UNCHANGED <<list, lineVars>>
    /\ UNCHANGED <<cleared, recovered>>

(* A recover that appends to the wrong end of pending. *)
RunBulkSwapped(o, n) ==
    \/ /\ o = "recover"
       /\ list' = BulkMove("inProgress", "pending", "LEFT", "LEFT", n)
       /\ recovered' = (recovered \/ (n > 0 /\ list["inProgress"] # <<>>))
       /\ UNCHANGED <<lineVars, cleared>>
    \/ /\ o = "republish"
       /\ list' = BulkMove("failed", "pending", "RIGHT", "LEFT", n)
       /\ LET size == Len(list["failed"])
              first == IF n < size THEN size - n + 1 ELSE 1
          IN Entered(Ids(SubSeq(list["failed"], first, size)))
       /\ UNCHANGED <<cleared, recovered>>

RunBulk(o, n) ==
    \/ /\ o = "recover"
       /\ list' = BulkMove("inProgress", "pending", "LEFT", "RIGHT", n)
       /\ recovered' = (recovered \/ (n > 0 /\ list["inProgress"] # <<>>))
       /\ UNCHANGED <<lineVars, cleared>>
    \/ /\ o = "republish"
       /\ list' = BulkMove("failed", "pending", "RIGHT", "LEFT", n)
       /\ LET size == Len(list["failed"])
              first == IF n < size THEN size - n + 1 ELSE 1
          IN Entered(Ids(SubSeq(list["failed"], first, size)))
       /\ UNCHANGED <<cleared, recovered>>

RunClear(s) ==
    /\ list' = [list EXCEPT ![s] = <<>>]
    /\ cleared' = cleared \cup ToSet(Ids(list[s]))
    /\ UNCHANGED <<lineVars, recovered>>

Run(r) ==
    \/ r.do = "claim" /\ RunClaim
    \/ r.do = "remove" /\ RunRemove(r.element)
    \/ r.do = "move" /\ RunMove(r.element, r.to, r.value)
    \/ r.do = "bulk" /\ RunBulk(r.op, r.count)
    \/ r.do = "clear" /\ RunClear(r.stage)

(* Redis runs r and its client gets the answer. *)
Answered(r) == Run(r) /\ UNCHANGED late

(* The instance allows for one more fault. *)
FaultLeft == Len(late) + crashes < MaxFaults

(* The client of r gets an error. *)
Unanswered(r) ==
    /\ FaultLeft
    /\ late' = Append(late, r)
    /\ UNCHANGED redisVars

(* Redis runs a request whose client waits no longer. A request that never *)
(* arrived stays in late forever.                                          *)
RunLate(i) ==
    /\ late[i].do # "done"
    /\ Run(late[i])
    /\ late' = [late EXCEPT ![i] = [do |-> "done"]]
    /\ UNCHANGED <<clientVars, serverVars, workVars, boundVars, runVars>>

-----------------------------------------------------------------------------
(* Publishing: LPUSH. Each message is published once; a publish whose      *)
(* answer is lost has been published, or has left nothing.                 *)

Publish(m) ==
    /\ m \notin published
    /\ list' = [list EXCEPT !["pending"] = <<NewEnvelope(m)>> \o @]
    /\ Entered(<<m>>)
    /\ UNCHANGED <<cleared, recovered, late, clientVars, serverVars, workVars, boundVars, runVars>>

-----------------------------------------------------------------------------
(* Consumers.                                                              *)

Cancelled(c) == c \in ServerConsumer /\ cancelled

Goto(c, l) == pc' = [pc EXCEPT ![c] = l]

NoDelivery(c) ==
    /\ element' = [element EXCEPT ![c] = NoElement]
    /\ env' = [env EXCEPT ![c] = NoElement]
    /\ kind' = [kind EXCEPT ![c] = "none"]
    /\ tries' = [tries EXCEPT ![c] = 0]

(* After an error or an empty queue, Consumer::run goes on and             *)
(* Consume::run returns.                                                   *)
Leave(c) == IF c \in CliConsumer THEN "stopped" ELSE "idle"

clientOnly == <<serverVars, workVars, boundVars>>

Stop(c) ==
    /\ pc[c] = "idle"
    /\ Cancelled(c) \/ c \in CliConsumer
    /\ Goto(c, "stopped")
    /\ UNCHANGED <<redisVars, late, element, env, kind, tries, clientOnly, runVars>>

(* dequeue: the oldest element is claimed, or the wait ends without one.   *)
(* Only the first claim of a dequeue comes after a look at the token.      *)
Dequeue(c) ==
    /\ pc[c] = "poll" \/ (pc[c] = "idle" /\ ~Cancelled(c))
    /\ \/ /\ list["pending"] # <<>>
          /\ Answered(ClaimRequest)
          /\ LET e == Last(list["pending"])
             IN /\ element' = [element EXCEPT ![c] = e]
                /\ \/ /\ e.id \in Garbage
                      /\ Goto(c, "unreadable")
                      /\ UNCHANGED env
                   \/ /\ e.id \notin Garbage
                      /\ Goto(c, "begin")
                      /\ env' = [env EXCEPT ![c] = CountAttempt(e)]
       \/ /\ list["pending"] = <<>>
          /\ Goto(c, Leave(c))
          /\ UNCHANGED <<redisVars, late, element, env>>
       \/ /\ Unanswered(ClaimRequest)
          /\ Goto(c, Leave(c))
          /\ UNCHANGED <<element, env>>
    /\ UNCHANGED <<kind, tries, clientOnly, runVars>>

(* move_unreadable_to_failed. Its own error is only logged. *)
MoveUnreadableToFailed(c) ==
    /\ pc[c] = "unreadable"
    /\ LET r == MoveRequest(element[c], "failed", element[c])
       IN Answered(r) \/ Unanswered(r)
    /\ Goto(c, "poll")
    /\ NoDelivery(c)
    /\ UNCHANGED <<clientOnly, runVars>>

(* An attempt ended as k: settle chooses the call, release changes the     *)
(* delivery before it makes it.                                            *)
Attempted(c, k) ==
    /\ kind' = [kind EXCEPT ![c] = k]
    /\ env' = [env EXCEPT ![c] = IF k = "interrupted" THEN TakeBackAttempt(@) ELSE @]
    /\ Goto(c, "settle")
    /\ succeeded' = IF k = "succeeded" THEN succeeded \cup {env[c].id} ELSE succeeded
    /\ counted' = IF k \in CountedKind THEN [counted EXCEPT ![env[c].id] = @ + 1] ELSE counted
    /\ UNCHANGED <<redisVars, late, element, tries, clientOnly>>

(* A shutdown that drops the claimed delivery instead of releasing it. *)
BeginDropping(c) ==
    /\ pc[c] = "begin"
    /\ \/ /\ Cancelled(c)
          /\ Goto(c, "idle") /\ NoDelivery(c)
          /\ UNCHANGED <<redisVars, late, clientOnly, runVars>>
       \/ ~Cancelled(c) /\ Attempted(c, "unrunnable")
       \/ ~Cancelled(c) /\ Goto(c, "running")
          /\ UNCHANGED <<redisVars, late, element, env, kind, tries, clientOnly, runVars>>

Begin(c) ==
    /\ pc[c] = "begin"
    /\ \/ Cancelled(c) /\ Attempted(c, "interrupted")
       \/ ~Cancelled(c) /\ Attempted(c, "unrunnable")
       \/ ~Cancelled(c) /\ Goto(c, "running")
          /\ UNCHANGED <<redisVars, late, element, env, kind, tries, clientOnly, runVars>>

Finish(c) ==
    /\ pc[c] = "running"
    /\ \/ Attempted(c, "succeeded")
       \/ Attempted(c, "commandFailed")
       \/ Cancelled(c) /\ Attempted(c, "interrupted")

(* The request of a settle. *)
SettleRequest(c) ==
    LET action == ForAttempt(kind[c], env[c])
    IN IF action = "acknowledge" THEN RemoveRequest(element[c])
       ELSE MoveRequest(element[c], TargetOf(action), env[c])

(* Ok or Lost, by what the answer says was there; Interrupted without one. *)
Settle(c) ==
    /\ pc[c] = "settle"
    /\ \/ /\ Answered(SettleRequest(c))
          /\ Goto(c, IF Contains(list["inProgress"], element[c]) THEN "idle" ELSE Leave(c))
          /\ NoDelivery(c)
       \/ /\ Unanswered(SettleRequest(c))
          /\ Goto(c, "backoff")
          /\ UNCHANGED <<element, env, kind, tries>>
    /\ UNCHANGED <<clientOnly, runVars>>

(* settle_until_done that never gives up a message the shutdown stopped. *)
GiveUpNever(c) ==
    /\ pc[c] = "backoff"
    /\ c \in CliConsumer \/ (kind[c] # "interrupted" /\ Cancelled(c))
    /\ Goto(c, Leave(c)) /\ NoDelivery(c)
    /\ UNCHANGED <<redisVars, late, clientOnly, runVars>>

(* settle_until_done gives up, and Consume::run always does. *)
GiveUp(c) ==
    /\ pc[c] = "backoff"
    /\ \/ c \in CliConsumer
       \/ kind[c] = "interrupted" /\ tries[c] >= SettleRetries
       \/ kind[c] # "interrupted" /\ Cancelled(c)
    /\ Goto(c, Leave(c)) /\ NoDelivery(c)
    /\ UNCHANGED <<redisVars, late, clientOnly, runVars>>

(* settle_until_done settles the returned delivery again. *)
SettleAgain(c) ==
    /\ pc[c] = "backoff"
    /\ c \in ServerConsumer
    /\ \/ /\ kind[c] = "interrupted" /\ tries[c] < SettleRetries
          /\ tries' = [tries EXCEPT ![c] = @ + 1]
          /\ env' = [env EXCEPT ![c] = TakeBackAttempt(@)]
       \/ /\ kind[c] # "interrupted" /\ ~Cancelled(c)
          /\ UNCHANGED <<tries, env>>
    /\ Goto(c, "settle")
    /\ UNCHANGED <<redisVars, late, element, kind, clientOnly, runVars>>

-----------------------------------------------------------------------------
(* recover and republish_failed (bulk_move), and clear.                    *)

workOnly == <<clientVars, serverVars, crashes, starts, runVars>>

Source(o) == IF o = "recover" THEN "inProgress" ELSE "failed"

(* usize::MAX, as a bound on the batches of one operation: more than it    *)
(* takes to move every message and find the list empty.                    *)
NoLimit == BatchSize * (Cardinality(published) + 2)

StartBulk(t, o, limit) ==
    /\ commands < MaxCommands
    /\ op[t] = "none"
    /\ commands' = commands + 1
    /\ op' = [op EXCEPT ![t] = o]
    /\ rest' = [rest EXCEPT ![t] = limit]
    /\ UNCHANGED <<redisVars, late, workOnly>>

ClearStage(t, s) ==
    /\ commands < MaxCommands
    /\ op[t] = "none"
    /\ commands' = commands + 1
    /\ Answered(ClearRequest(s)) \/ Unanswered(ClearRequest(s))
    /\ UNCHANGED <<workVars, workOnly>>

(* One turn of bulk_move's loop; a short batch is the last one. *)
BulkBatch(w) ==
    /\ op[w] \in {"recover", "republish"}
    /\ rest[w] > 0
    /\ LET batch == IF rest[w] < BatchSize THEN rest[w] ELSE BatchSize
           size == Len(list[Source(op[w])])
           count == IF size < batch THEN size ELSE batch
       IN \/ /\ Answered(BulkRequest(op[w], batch))
             /\ rest' = [rest EXCEPT ![w] = IF count < batch THEN 0 ELSE @ - count]
          \/ /\ Unanswered(BulkRequest(op[w], batch))
             /\ rest' = [rest EXCEPT ![w] = 0]
    /\ UNCHANGED <<op, commands, workOnly>>

EndBulk(w) ==
    /\ op[w] \in {"recover", "republish"}
    /\ rest[w] = 0
    /\ op' = [op EXCEPT ![w] = "none"]
    /\ UNCHANGED <<rest, commands, redisVars, late, workOnly>>

-----------------------------------------------------------------------------
(* The server's life, crashes, command-line starts.                        *)

lifeOnly == <<redisVars, late, commands, runVars>>

ServerStart ==
    /\ server = "down" /\ starts < MaxStarts
    /\ starts' = starts + 1
    /\ server' = "starting"
    /\ cancelled' = FALSE
    /\ op' = [op EXCEPT ![Server] = "open"]
    /\ UNCHANGED <<clientVars, rest, crashes, lifeOnly>>

(* A start that never recovers. *)
ServerOpenOnly ==
    /\ op[Server] = "open"
    /\ op' = [op EXCEPT ![Server] = "none"]
    /\ UNCHANGED <<rest, clientVars, serverVars, crashes, starts, lifeOnly>>

(* The lane is recovered, unless the server was told to stop while it      *)
(* tried to open it.                                                       *)
ServerOpen ==
    /\ op[Server] = "open"
    /\ \/ /\ RecoverOnStart
          /\ op' = [op EXCEPT ![Server] = "recover"]
          /\ rest' = [rest EXCEPT ![Server] = NoLimit]
       \/ /\ ~RecoverOnStart \/ cancelled
          /\ op' = [op EXCEPT ![Server] = "none"]
          /\ UNCHANGED rest
    /\ UNCHANGED <<clientVars, serverVars, crashes, starts, lifeOnly>>

ServerSpawn ==
    /\ server = "starting" /\ op[Server] = "none"
    /\ server' = "running"
    /\ pc' = [c \in Consumer |-> IF c \in ServerConsumer THEN "idle" ELSE pc[c]]
    /\ UNCHANGED <<element, env, kind, tries, cancelled, workVars, crashes, starts, lifeOnly>>

Cancel ==
    /\ server # "down" /\ ~cancelled
    /\ cancelled' = TRUE
    /\ UNCHANGED <<clientVars, server, workVars, crashes, starts, lifeOnly>>

ServerStop ==
    /\ server = "running"
    /\ \A c \in ServerConsumer : pc[c] = "stopped"
    /\ server' = "down"
    /\ cancelled' = FALSE
    /\ UNCHANGED <<clientVars, workVars, crashes, starts, lifeOnly>>

LoseMemory(C) ==
    /\ pc' = [c \in Consumer |-> IF c \in C THEN "stopped" ELSE pc[c]]
    /\ element' = [c \in Consumer |-> IF c \in C THEN NoElement ELSE element[c]]
    /\ env' = [c \in Consumer |-> IF c \in C THEN NoElement ELSE env[c]]
    /\ kind' = [c \in Consumer |-> IF c \in C THEN "none" ELSE kind[c]]
    /\ tries' = [c \in Consumer |-> IF c \in C THEN 0 ELSE tries[c]]

ServerCrash ==
    /\ server # "down" /\ crashes < MaxCrashes /\ FaultLeft
    /\ crashes' = crashes + 1
    /\ server' = "down"
    /\ cancelled' = FALSE
    /\ op' = [op EXCEPT ![Server] = "none"]
    /\ rest' = [rest EXCEPT ![Server] = 0]
    /\ LoseMemory(ServerConsumer)
    /\ UNCHANGED <<starts, lifeOnly>>

CliStart(c) ==
    /\ pc[c] = "stopped"
    /\ Goto(c, "idle")
    /\ UNCHANGED <<element, env, kind, tries, serverVars, workVars, crashes, starts, lifeOnly>>

CliCrash(c) ==
    /\ pc[c] # "stopped" /\ crashes < MaxCrashes /\ FaultLeft
    /\ crashes' = crashes + 1
    /\ LoseMemory({c})
    /\ UNCHANGED <<serverVars, workVars, starts, lifeOnly>>

-----------------------------------------------------------------------------
Init ==
    /\ list = [s \in Stage |-> <<>>]
    /\ late = <<>>
    /\ pc = [c \in Consumer |-> "stopped"]
    /\ element = [c \in Consumer |-> NoElement]
    /\ env = [c \in Consumer |-> NoElement]
    /\ kind = [c \in Consumer |-> "none"]
    /\ tries = [c \in Consumer |-> 0]
    /\ server = "down"
    /\ cancelled = FALSE
    /\ op = [w \in Worker |-> "none"]
    /\ rest = [w \in Worker |-> 0]
    /\ crashes = 0
    /\ starts = 0
    /\ commands = 0
    /\ published = {}
    /\ newer = [m \in Msg |-> {}]
    /\ succeeded = {}
    /\ cleared = {}
    /\ counted = [m \in Msg |-> 0]
    /\ recovered = FALSE

Step(c) ==
    \/ Stop(c) \/ Dequeue(c) \/ MoveUnreadableToFailed(c) \/ Begin(c) \/ Finish(c)
    \/ Settle(c) \/ GiveUp(c) \/ SettleAgain(c)

Next ==
    \/ \E m \in Msg : Publish(m)
    \/ \E i \in DOMAIN late : RunLate(i)
    \/ \E c \in Consumer : Step(c)
    \/ \E t \in Tool : \/ StartBulk(t, "recover", NoLimit)
                       \/ \E n \in 0..Cardinality(published) : StartBulk(t, "republish", n)
                       \/ \E s \in Stage : ClearStage(t, s)
    \/ \E w \in Worker : BulkBatch(w) \/ EndBulk(w)
    \/ ServerStart \/ ServerOpen \/ ServerSpawn \/ Cancel \/ ServerStop \/ ServerCrash
    \/ \E c \in CliConsumer : CliStart(c) \/ CliCrash(c)

Spec == Init /\ [][Next]_vars

(* tokio and Redis keep serving a task that can go on, and commands end;   *)
(* a request that waits for an answer gets one or fails.                   *)
(* No publisher, tool, start, shutdown, lost answer, late request or crash *)
(* has to happen.                                                          *)
Fairness ==
    /\ \A c \in Consumer : WF_vars(Step(c) /\ UNCHANGED late)
    /\ \A w \in Worker : WF_vars((BulkBatch(w) \/ EndBulk(w)) /\ UNCHANGED late)
    /\ WF_vars(ServerOpen) /\ WF_vars(ServerSpawn) /\ WF_vars(ServerStop)

FairSpec == Spec /\ Fairness
-----------------------------------------------------------------------------
(* Properties.                                                             *)

Copies(m) == UNION {{<<s, i>> : i \in {k \in DOMAIN list[s] : list[s][k].id = m}} : s \in Stage}

(* A message is in exactly one place of one list until its command has     *)
(* succeeded or it is cleared, and never in two: not after a lost answer   *)
(* and a second settle, not when an unanswered request runs late, not when *)
(* a recover takes a claimed element away.                                 *)
OneCopy ==
    \A m \in published :
        \/ \E x \in Copies(m) : Copies(m) = {x}
        \/ Copies(m) = {} /\ (m \in succeeded \/ m \in cleared)

(* Claims and recoveries only move the border between pending and          *)
(* in-progress: read together, the two lists keep their messages in the    *)
(* order in which they last entered pending. So claims are in order, and a *)
(* recovery, in however many batches and whatever happens between them,    *)
(* gives the oldest claim back first.                                      *)
LineKeepsOrder ==
    LET line == Ids(list["pending"] \o list["inProgress"])
    IN \A i, j \in DOMAIN line : i < j => line[i] \in newer[line[j]]

(* The attempt count of a stored message is never above the number of its  *)
(* attempts that failed, with answers lost and settles repeated; and a     *)
(* message whose command failed is moved to failed only after its first    *)
(* run and all its retries have failed.                                    *)
FairAttempts ==
    /\ \A s \in Stage : \A e \in ToSet(list[s]) : e.attempts <= counted[e.id]
    /\ \A c \in Consumer :
          kind[c] = "commandFailed" /\ ForAttempt(kind[c], env[c]) = "moveToFailed"
              => counted[env[c].id] > MaxRetries[env[c].id]

(* Without a lost answer and without a crash, every element in progress    *)
(* has a consumer that goes on to settle it, also after a recovery and a   *)
(* second claim of an equal element.                                       *)
InProgressIsHeld ==
    late = <<>> /\ crashes = 0 =>
        \A e \in ToSet(list["inProgress"]) : \E c \in Consumer : element[c] = e

(* With no lost answer, crash or recovery, a message is run by one         *)
(* consumer at a time and never again once it has succeeded.               *)
RunsOnce ==
    late = <<>> /\ crashes = 0 /\ ~recovered =>
        \A c \in Consumer : pc[c] = "running" =>
            /\ env[c].id \notin succeeded
            /\ \A b \in Consumer : b # c /\ pc[b] = "running" => env[b].id # env[c].id

(* The place of a message in the abstract queue. *)
StageOf(m) ==
    IF m \notin published THEN "new"
    ELSE IF \E s \in Stage : m \in ToSet(Ids(list[s]))
         THEN CHOOSE s \in Stage : m \in ToSet(Ids(list[s]))
         ELSE "gone"

Abstract == INSTANCE QueueStages WITH stage <- [m \in Msg |-> StageOf(m)], done <- succeeded

(* The lane implements the stages of Queue: every step, lost answers and   *)
(* late requests included, is one of its moves or changes nothing.         *)
ImplementsStages == Abstract!Spec

(* A server that is told to stop does stop, even when the answers to its   *)
(* settles are lost.                                                       *)
ShutdownCompletes == cancelled ~> server = "down"

InFailed(m) == m \in ToSet(Ids(list["failed"]))

(* While the server stays up and every request is answered, a published    *)
(* message succeeds, is moved to failed or is cleared, also when it was in *)
(* progress when an earlier server crashed.                                *)
EveryMessageEnds ==
    \A m \in Msg :
        m \in published /\ server = "running"
            ~> \/ m \in succeeded \/ m \in cleared \/ InFailed(m)
               \/ cancelled \/ server = "down" \/ late # <<>>

-----------------------------------------------------------------------------
(* What comments of the code say that its behaviour does not bear out.     *)

(* SettleError::Lost: "Another operation, such as a clear or a recovery,   *)
(* removed the message from the in-progress stage": a settle finds its     *)
(* element gone only after such an operation.                              *)
LostMeansTakenAway ==
    \A c \in Consumer :
        pc[c] = "settle" /\ ~Contains(list["inProgress"], element[c])
            => recovered \/ env[c].id \in cleared

=============================================================================
