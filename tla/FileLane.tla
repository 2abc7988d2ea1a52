------------------------------ MODULE FileLane ------------------------------
(***************************************************************************)
(* One lane of the file queue and everybody who works on its directories:  *)
(*   - the server (server/consumers.rs): at its start it may recover the   *)
(*     lane, then its consumers claim, run and settle messages until its   *)
(*     cancellation token fires;                                           *)
(*   - `inengine queue consume` processes (queue_admin/messaging.rs): the  *)
(*     same claim and settle code, no token, no settle retry;              *)
(*   - `inengine queue recover | clear | republish-failed` processes       *)
(*     (queue_admin/management.rs): list a directory, then act on each     *)
(*     listed file;                                                        *)
(*   - publishers.                                                         *)
(* Nothing locks the directories: the unit of interleaving is one          *)
(* file-system call. A process may crash between any two calls, and a call *)
(* may fail with an I/O error (a fault), up to the named bounds.           *)
(***************************************************************************)
EXTENDS FileStore

CONSTANTS ServerConsumer,  \* the consumer tasks of the server
          CliConsumer,     \* `queue consume` processes
          Tool,            \* processes that run recover, clear, republish
          Server,          \* the server, as the process that recovers at start
          RecoverOnStart,  \* queue.recover_on_start
          SettleRetries,   \* SHUTDOWN_SETTLE_RETRIES
          MaxFaults,       \* bound on failing file-system calls
          MaxCrashes,      \* bound on process crashes
          MaxStarts,       \* bound on server starts
          MaxCommands      \* bound on recover, clear, republish commands

ASSUME LaneAssumption ==
    /\ ServerConsumer \cap CliConsumer = {}
    /\ Server \notin Tool
    /\ RecoverOnStart \in BOOLEAN
    /\ SettleRetries \in Nat /\ MaxFaults \in Nat /\ MaxCrashes \in Nat
    /\ MaxStarts \in Nat /\ MaxCommands \in Nat

Consumer == ServerConsumer \cup CliConsumer
Worker == Tool \cup {Server}

VARIABLES
    pc,          \* [Consumer -> Pc]: the next call of each consumer
    todo,        \* [Consumer -> SUBSET Name]: the rest of claim_oldest's listing
    name,        \* [Consumer -> Name \cup {0}]: the receipt, Receipt::File
    env,         \* [Consumer -> CommandEnvelope \cup {NoFile}]: the delivery
    kind,        \* [Consumer -> AttemptKind \cup {"none"}]: how the attempt ended
    newName,     \* [Consumer -> Name \cup {0}]: the copy move_claimed has written
    tries,       \* [Consumer -> Nat]: shutdown_retries
    server,      \* "down", "starting" or "running"
    cancelled,   \* the server's cancellation token
    op,          \* [Worker -> Op]: the pass a bulk operation is in
    work,        \* [Worker -> SUBSET Name]: the rest of its listing
    faults, crashes, starts, commands  \* how much of each bound is used

(* What happened so far, for the properties only. *)
VARIABLES
    published,   \* the messages some publisher wrote
    succeeded,   \* the messages whose command ended with success
    cleared,     \* the messages a clear removed a file of
    counted,     \* [Msg -> Nat]: the failed attempts of each message
    recovered    \* the names a recover moved back to pending

deliveryVars == <<name, env, kind, newName, tries>>
consumerVars == <<pc, todo, deliveryVars>>
serverVars == <<server, cancelled>>
workVars == <<op, work>>
boundVars == <<faults, crashes, starts, commands>>
historyVars == <<published, succeeded, cleared, counted, recovered>>
vars == <<storeVars, consumerVars, serverVars, workVars, boundVars, historyVars>>

Pc == {"stopped", "idle", "poll", "claim", "read", "unreadable", "begin", "running",
       "ack", "rename", "exists", "write", "sync", "remove", "drop", "undo", "backoff"}

Op == {"none", "open", "recover", "recoverSettling", "clearPending", "clearInProgress",
       "clearSettling", "clearFailed", "republish"}

ConsumerTypeOK ==
    /\ pc \in [Consumer -> Pc]
    /\ todo \in [Consumer -> SUBSET Name]
    /\ name \in [Consumer -> Name \cup {0}]
    /\ env \in [Consumer -> CommandEnvelope \cup {NoFile}]
    /\ kind \in [Consumer -> AttemptKind \cup {"none"}]
    /\ newName \in [Consumer -> Name \cup {0}]
    /\ tries \in [Consumer -> 0..SettleRetries]

WorkTypeOK ==
    /\ server \in {"down", "starting", "running"}
    /\ cancelled \in BOOLEAN
    /\ op \in [Worker -> Op]
    /\ work \in [Worker -> SUBSET Name]
    /\ faults \in 0..MaxFaults
    /\ crashes \in 0..MaxCrashes
    /\ starts \in 0..MaxStarts
    /\ commands \in 0..MaxCommands

HistoryTypeOK ==
    /\ published \subseteq Msg
    /\ succeeded \subseteq Msg
    /\ cleared \subseteq Msg
    /\ counted \in [Msg -> Nat]
    /\ recovered \subseteq Name

(* Every variable has its type; a delivery's attempt count, which release  *)
(* lowers once per settle, never goes below zero.                          *)
TypeOK == StoreTypeOK /\ ConsumerTypeOK /\ WorkTypeOK /\ HistoryTypeOK

Init ==
    /\ StoreInit
    /\ pc = [c \in Consumer |-> "stopped"]
    /\ todo = [c \in Consumer |-> {}]
    /\ name = [c \in Consumer |-> 0]
    /\ env = [c \in Consumer |-> NoFile]
    /\ kind = [c \in Consumer |-> "none"]
    /\ newName = [c \in Consumer |-> 0]
    /\ tries = [c \in Consumer |-> 0]
    /\ server = "down"
    /\ cancelled = FALSE
    /\ op = [w \in Worker |-> "none"]
    /\ work = [w \in Worker |-> {}]
    /\ faults = 0
    /\ crashes = 0
    /\ starts = 0
    /\ commands = 0
    /\ published = {}
    /\ succeeded = {}
    /\ cleared = {}
    /\ counted = [m \in Msg |-> 0]
    /\ recovered = {}

(* A file-system call fails with an error that is not NotFound. *)
Fault == faults < MaxFaults /\ faults' = faults + 1

NoFault == UNCHANGED faults

(* The token a consumer was given: the server's, or one that never fires. *)
Cancelled(c) == c \in ServerConsumer /\ cancelled

-----------------------------------------------------------------------------
(* Publishing (FileStore::publish). Each message is published once.        *)
(* A publish that fails before its rename leaves nothing; one whose        *)
(* directory sync fails has still published.                               *)

Publish(m) ==
    /\ m \notin published
    /\ \E n \in Name :
         /\ NewName(n)
         /\ file' = Written("pending", n, NewEnvelope(m))
    /\ published' = published \cup {m}
    /\ UNCHANGED <<consumerVars, serverVars, workVars, boundVars,
                   succeeded, cleared, counted, recovered>>

-----------------------------------------------------------------------------
(* Claiming (FileDriver::dequeue, FileStore::claim_oldest).                *)

Goto(c, l) == pc' = [pc EXCEPT ![c] = l]

(* A consumer that drops its delivery, or never got one. *)
NoDelivery(c) ==
    /\ name' = [name EXCEPT ![c] = 0]
    /\ env' = [env EXCEPT ![c] = NoFile]
    /\ kind' = [kind EXCEPT ![c] = "none"]
    /\ newName' = [newName EXCEPT ![c] = 0]
    /\ tries' = [tries EXCEPT ![c] = 0]

(* After an error, a lost settle or an empty queue, Consumer::run goes on  *)
(* and Consume::run returns.                                               *)
Leave(c) == IF c \in CliConsumer THEN "stopped" ELSE "idle"

claimOnly == <<serverVars, workVars, crashes, starts, commands, historyVars>>

(* The loop condition of Consumer::run, and the limit of Consume::run. *)
Stop(c) ==
    /\ pc[c] = "idle"
    /\ Cancelled(c) \/ c \in CliConsumer
    /\ Goto(c, "stopped")
    /\ UNCHANGED <<storeVars, todo, deliveryVars, faults, claimOnly>>

(* claim_oldest lists the pending directory. Only the first listing of a   *)
(* dequeue comes after a look at the token.                                *)
List(c) ==
    /\ pc[c] = "poll" \/ (pc[c] = "idle" /\ ~Cancelled(c))
    /\ \/ NoFault /\ Goto(c, "claim") /\ todo' = [todo EXCEPT ![c] = ListMessages("pending")]
       \/ Fault /\ Goto(c, Leave(c)) /\ UNCHANGED todo
    /\ UNCHANGED <<storeVars, deliveryVars, claimOnly>>

(* The listing is used up: the dequeue sleeps and lists again... *)
PollAgain(c) ==
    /\ pc[c] = "claim" /\ todo[c] = {}
    /\ c \in ServerConsumer
    /\ Goto(c, "poll")
    /\ UNCHANGED <<storeVars, todo, deliveryVars, faults, claimOnly>>

(* ... or its wait is over. Consume::run waits zero and ends. *)
DequeueNone(c) ==
    /\ pc[c] = "claim" /\ todo[c] = {}
    /\ Goto(c, Leave(c))
    /\ UNCHANGED <<storeVars, todo, deliveryVars, faults, claimOnly>>

(* A claim that forgets to look at what rename_if_present returned. *)
ClaimUnchecked(c, n) ==
    /\ file' = RenamedIfPresent("pending", n, "inProgress", n)
    /\ name' = [name EXCEPT ![c] = n]
    /\ Goto(c, "read")

(* The claim is the rename: it fails when another consumer was faster. *)
Claim(c, n) ==
    IF Exists("pending", n)
    THEN /\ file' = Renamed("pending", n, "inProgress", n)
         /\ name' = [name EXCEPT ![c] = n]
         /\ Goto(c, "read")
    ELSE UNCHANGED <<file, name, pc>>

(* A loop over the listing that does not move on from a name that is gone. *)
ClaimNextStuck(c) ==
    /\ pc[c] = "claim"
    /\ \E n \in Oldest(todo[c]) :
         /\ Claim(c, n)
         /\ todo' = [todo EXCEPT ![c] = IF Exists("pending", n) THEN @ \ {n} ELSE @]
    /\ UNCHANGED <<nextName, env, kind, newName, tries, faults, claimOnly>>

(* One turn of claim_oldest's loop over its listing. *)
ClaimNext(c) ==
    /\ pc[c] = "claim"
    /\ \E n \in Oldest(todo[c]) :
         \/ /\ NoFault
            /\ Claim(c, n)
            /\ todo' = [todo EXCEPT ![c] = @ \ {n}]
         \/ /\ Fault
            /\ Goto(c, Leave(c))
            /\ todo' = [todo EXCEPT ![c] = {}]
            /\ UNCHANGED <<file, name>>
    /\ UNCHANGED <<nextName, env, kind, newName, tries, claimOnly>>

(* The claimed file is read. It may be gone again (a clear or a recover),  *)
(* or fail to read or to parse.                                            *)
Read(c) ==
    /\ pc[c] = "read"
    /\ \/ /\ NoFault
          /\ Exists("inProgress", name[c])
          /\ env' = [env EXCEPT ![c] = CountAttempt(file["inProgress"][name[c]])]
          /\ todo' = [todo EXCEPT ![c] = {}]
          /\ Goto(c, "begin")
          /\ UNCHANGED name
       \/ /\ NoFault
          /\ ~Exists("inProgress", name[c])
          /\ name' = [name EXCEPT ![c] = 0]
          /\ Goto(c, "claim")
          /\ UNCHANGED <<env, todo>>
       \/ /\ Fault
          /\ Goto(c, "unreadable")
          /\ UNCHANGED <<name, env, todo>>
    /\ UNCHANGED <<storeVars, kind, newName, tries, claimOnly>>

(* move_unreadable_to_failed. Its own error is only logged. *)
MoveUnreadableToFailed(c) ==
    /\ pc[c] = "unreadable"
    /\ \/ /\ NoFault
          /\ \E n \in Name :
               /\ NewName(n)
               /\ file' = RenamedIfPresent("inProgress", name[c], "failed", n)
       \/ Fault /\ UNCHANGED storeVars
    /\ name' = [name EXCEPT ![c] = 0]
    /\ Goto(c, "claim")
    /\ UNCHANGED <<todo, env, kind, newName, tries, claimOnly>>

-----------------------------------------------------------------------------
(* Running (process_delivery, run_attempt) and the call of settle.         *)

(* settle: chooses the call from the attempt and the envelope. release     *)
(* changes the delivery before it calls the driver.                        *)
Settle(c, k) ==
    LET action == ForAttempt(k, env[c])
    IN /\ Goto(c, IF action = "acknowledge" THEN "ack" ELSE "rename")
       /\ env' = [env EXCEPT ![c] = IF action = "release" THEN TakeBackAttempt(@) ELSE @]

runOnly == <<storeVars, todo, name, newName, tries, serverVars, workVars, boundVars,
             published, cleared, recovered>>

(* An attempt ended as k. *)
Attempted(c, k) ==
    /\ kind' = [kind EXCEPT ![c] = k]
    /\ Settle(c, k)
    /\ succeeded' = IF k = "succeeded" THEN succeeded \cup {env[c].id} ELSE succeeded
    /\ counted' = IF k \in CountedKind THEN [counted EXCEPT ![env[c].id] = @ + 1] ELSE counted
    /\ UNCHANGED runOnly

(* A delivery that arrives after the token fired is dropped, not settled. *)
BeginDropping(c) ==
    /\ pc[c] = "begin"
    /\ \/ /\ Cancelled(c) /\ Goto(c, Leave(c)) /\ NoDelivery(c)
          /\ UNCHANGED <<storeVars, todo, serverVars, workVars, boundVars, historyVars>>
       \/ ~Cancelled(c) /\ Attempted(c, "unrunnable")
       \/ ~Cancelled(c) /\ Goto(c, "running")
          /\ UNCHANGED <<env, kind, succeeded, counted, runOnly>>

(* A delivery that arrives after the token fired is not run. Otherwise the *)
(* command is built, which may fail, and started.                          *)
Begin(c) ==
    /\ pc[c] = "begin"
    /\ \/ Cancelled(c) /\ Attempted(c, "interrupted")
       \/ ~Cancelled(c) /\ Attempted(c, "unrunnable")
       \/ ~Cancelled(c) /\ Goto(c, "running")
          /\ UNCHANGED <<env, kind, succeeded, counted, runOnly>>

(* The command ends. An interruption counts as one only after the token    *)
(* fired; a failure is any other error, a panic or a timeout.              *)
Finish(c) ==
    /\ pc[c] = "running"
    /\ \/ Attempted(c, "succeeded")
       \/ Attempted(c, "commandFailed")
       \/ Cancelled(c) /\ Attempted(c, "interrupted")
-----------------------------------------------------------------------------
(* Settling (FileStore::acknowledge, FileStore::move_claimed).             *)

settleOnly == <<todo, serverVars, workVars, crashes, starts, commands, historyVars>>

(* The settle returned: Ok, Lost or, with the delivery kept, Interrupted. *)
Settled(c) == Goto(c, "idle") /\ NoDelivery(c)
Lost(c) == Goto(c, Leave(c)) /\ NoDelivery(c)
Interrupted(c) == Goto(c, "backoff") /\ UNCHANGED deliveryVars

Acknowledge(c) ==
    /\ pc[c] = "ack"
    /\ \/ NoFault /\ Exists("inProgress", name[c]) /\ Settled(c)
          /\ file' = Removed("inProgress", name[c])
       \/ NoFault /\ ~Exists("inProgress", name[c]) /\ Lost(c) /\ UNCHANGED file
       \/ Fault /\ Interrupted(c) /\ UNCHANGED file
    /\ UNCHANGED <<nextName, settleOnly>>

(* move_claimed, first call: the in-progress file gets its settling name. *)
SettleRename(c) ==
    /\ pc[c] = "rename"
    /\ \/ NoFault /\ Exists("inProgress", name[c]) /\ Goto(c, "write")
          /\ file' = Renamed("inProgress", name[c], "settling", name[c])
       \/ NoFault /\ ~Exists("inProgress", name[c]) /\ Goto(c, "exists") /\ UNCHANGED file
       \/ Fault /\ Goto(c, "backoff") /\ UNCHANGED file
    /\ UNCHANGED <<nextName, deliveryVars, settleOnly>>

(* The settling file of an earlier settle that stopped partway is reused.  *)
(* Path::exists answers false on an error.                                 *)
SettleExists(c) ==
    /\ pc[c] = "exists"
    /\ \/ NoFault /\ Exists("settling", name[c]) /\ Goto(c, "write") /\ UNCHANGED deliveryVars
       \/ NoFault /\ ~Exists("settling", name[c]) /\ Lost(c)
       \/ Fault /\ Lost(c)
    /\ UNCHANGED <<storeVars, settleOnly>>

(* A move_claimed that goes on when write_atomic has failed. *)
SettleWriteUnchecked(c) ==
    /\ pc[c] = "write"
    /\ \/ /\ NoFault
          /\ \E n \in Name :
               /\ NewName(n)
               /\ file' = Written(TargetOf(ForAttempt(kind[c], env[c])), n, env[c])
               /\ newName' = [newName EXCEPT ![c] = n]
       \/ Fault /\ UNCHANGED <<storeVars, newName>>
    /\ Goto(c, "remove")
    /\ UNCHANGED <<name, env, kind, tries, settleOnly>>

(* write_atomic up to the rename that makes the new copy visible. *)
SettleWrite(c) ==
    /\ pc[c] = "write"
    /\ \/ /\ NoFault
          /\ \E n \in Name :
               /\ NewName(n)
               /\ file' = Written(TargetOf(ForAttempt(kind[c], env[c])), n, env[c])
               /\ newName' = [newName EXCEPT ![c] = n]
          /\ Goto(c, "sync")
       \/ Fault /\ Goto(c, "undo") /\ UNCHANGED <<storeVars, newName>>
    /\ UNCHANGED <<name, env, kind, tries, settleOnly>>

(* The rest of write_atomic: the directory is opened and synced. *)
SettleSync(c) ==
    /\ pc[c] = "sync"
    /\ \/ NoFault /\ Goto(c, "remove")
       \/ Fault /\ Goto(c, "undo")
    /\ UNCHANGED <<storeVars, deliveryVars, settleOnly>>

(* write_atomic failed: the settling file gets its in-progress name back,  *)
(* unless it is gone or the rename fails.                                  *)
SettleUndo(c) ==
    /\ pc[c] = "undo"
    /\ \/ NoFault /\ file' = RenamedIfPresent("settling", name[c], "inProgress", name[c])
       \/ Fault /\ UNCHANGED file
    /\ Goto(c, "backoff")
    /\ newName' = [newName EXCEPT ![c] = 0]
    /\ UNCHANGED <<nextName, name, env, kind, tries, settleOnly>>

(* A settle that takes back its copy although it has removed the settling  *)
(* file itself.                                                            *)
SettleRemoveThenDrop(c) ==
    /\ pc[c] = "remove"
    /\ \/ NoFault /\ file' = Removed("settling", name[c]) /\ Goto(c, "drop")
          /\ UNCHANGED deliveryVars
       \/ Fault /\ Settled(c) /\ UNCHANGED file
    /\ UNCHANGED <<nextName, settleOnly>>

(* The settling file is removed. An error other than NotFound is logged    *)
(* and the settle counts as done.                                          *)
SettleRemove(c) ==
    /\ pc[c] = "remove"
    /\ \/ NoFault /\ Exists("settling", name[c]) /\ Settled(c)
          /\ file' = Removed("settling", name[c])
       \/ NoFault /\ ~Exists("settling", name[c]) /\ Goto(c, "drop")
          /\ UNCHANGED <<file, deliveryVars>>
       \/ Fault /\ Settled(c) /\ UNCHANGED file
    /\ UNCHANGED <<nextName, settleOnly>>

(* The settling file was gone, so the new copy is removed too. *)
SettleDrop(c) ==
    /\ pc[c] = "drop"
    /\ \/ NoFault /\ Lost(c)
          /\ file' = Removed(TargetOf(ForAttempt(kind[c], env[c])), newName[c])
       \/ Fault /\ Goto(c, "backoff") /\ newName' = [newName EXCEPT ![c] = 0]
          /\ UNCHANGED <<file, name, env, kind, tries>>
    /\ UNCHANGED <<nextName, settleOnly>>

(* A settle_until_done that treats every failed settle as final. *)
GiveUpAtOnce(c) ==
    /\ pc[c] = "backoff"
    /\ Goto(c, Leave(c)) /\ NoDelivery(c)
    /\ UNCHANGED <<storeVars, faults, settleOnly>>

(* settle_until_done gives up, and Consume::run always does: the message   *)
(* stays in progress.                                                      *)
GiveUp(c) ==
    /\ pc[c] = "backoff"
    /\ \/ c \in CliConsumer
       \/ kind[c] = "interrupted" /\ tries[c] >= SettleRetries
       \/ kind[c] # "interrupted" /\ Cancelled(c)
    /\ Goto(c, Leave(c)) /\ NoDelivery(c)
    /\ UNCHANGED <<storeVars, faults, settleOnly>>

(* settle_until_done sleeps and settles the returned delivery again. *)
SettleAgain(c) ==
    /\ pc[c] = "backoff"
    /\ c \in ServerConsumer
    /\ \/ /\ kind[c] = "interrupted" /\ tries[c] < SettleRetries
          /\ tries' = [tries EXCEPT ![c] = @ + 1]
       \/ /\ kind[c] # "interrupted" /\ ~Cancelled(c)
          /\ UNCHANGED tries
    /\ Settle(c, kind[c])
    /\ UNCHANGED <<storeVars, name, kind, newName, faults, settleOnly>>

-----------------------------------------------------------------------------
(* recover, clear and republish_failed: list, then one call per file.      *)

(* The directory a pass lists, and the pass that follows it. *)
PassDir(o) ==
    CASE o \in {"recover", "clearInProgress"}       -> "inProgress"
      [] o \in {"recoverSettling", "clearSettling"} -> "settling"
      [] o = "clearPending"                         -> "pending"
      [] o \in {"clearFailed", "republish"}         -> "failed"

NextPass(o) ==
    CASE o = "recover"         -> "recoverSettling"
      [] o = "clearInProgress" -> "clearSettling"
      [] OTHER                 -> "none"

workOnly == <<consumerVars, serverVars, crashes, starts>>

Command == {"recover", "clearPending", "clearInProgress", "clearFailed", "republish"}

(* A command starts with a listing; republish_failed takes its oldest part. *)
StartCommand(t, o) ==
    /\ commands < MaxCommands
    /\ op[t] = "none"
    /\ commands' = commands + 1
    /\ op' = [op EXCEPT ![t] = o]
    /\ \E limit \in IF o = "republish" THEN Name ELSE {MaxName} :
         work' = [work EXCEPT ![t] = {n \in ListMessages(PassDir(o)) : n <= limit}]
    /\ UNCHANGED <<storeVars, workOnly, faults, historyVars>>

(* recover: back to pending under the same name, if it is still there. *)
RecoverFile(d, n) ==
    /\ file' = RenamedIfPresent(d, n, "pending", n)
    /\ recovered' = IF Exists(d, n) THEN recovered \cup {n} ELSE recovered
    /\ UNCHANGED <<nextName, cleared>>

(* clear: removed, if it is still there. *)
ClearFile(d, n) ==
    /\ file' = Removed(d, n)
    /\ cleared' = IF Exists(d, n) THEN cleared \cup {file[d][n].id} ELSE cleared
    /\ UNCHANGED <<nextName, recovered>>

(* republish_failed: to pending under a new name. *)
RepublishFile(d, n) ==
    /\ \E m \in Name : NewName(m) /\ file' = RenamedIfPresent(d, n, "pending", m)
    /\ UNCHANGED <<recovered, cleared>>

WorkOnFile(w) ==
    /\ \E n \in Oldest(work[w]) :
         /\ \/ op[w] \in {"recover", "recoverSettling"} /\ RecoverFile(PassDir(op[w]), n)
            \/ op[w] \in {"clearPending", "clearInProgress", "clearSettling", "clearFailed"}
               /\ ClearFile(PassDir(op[w]), n)
            \/ op[w] = "republish" /\ RepublishFile(PassDir(op[w]), n)
         /\ work' = [work EXCEPT ![w] = @ \ {n}]
    /\ UNCHANGED <<op, workOnly, faults, commands, published, succeeded, counted>>

(* The listing is used up: the next pass lists, or the operation ends. *)
FinishPass(w) ==
    /\ op[w] \notin {"none", "open"} /\ work[w] = {}
    /\ op' = [op EXCEPT ![w] = NextPass(op[w])]
    /\ work' = [work EXCEPT ![w] = IF NextPass(op[w]) = "none" THEN {}
                                   ELSE ListMessages(PassDir(NextPass(op[w])))]
    /\ UNCHANGED <<storeVars, workOnly, faults, commands, historyVars>>

(* A failing call ends the operation; the files it has not reached stay. *)
WorkFails(w) ==
    /\ op[w] \notin {"none", "open"}
    /\ Fault
    /\ op' = [op EXCEPT ![w] = "none"]
    /\ work' = [work EXCEPT ![w] = {}]
    /\ UNCHANGED <<storeVars, workOnly, commands, historyVars>>

-----------------------------------------------------------------------------
(* The server's life (QueueConsumers::run), crashes, command-line starts.  *)

lifeOnly == <<storeVars, faults, commands, historyVars>>

(* recover_or_report_in_progress comes before any consumer of the lane:    *)
(* the server opens the queue...                                           *)
ServerStart ==
    /\ server = "down" /\ starts < MaxStarts
    /\ starts' = starts + 1
    /\ server' = "starting"
    /\ cancelled' = FALSE
    /\ op' = [op EXCEPT ![Server] = "open"]
    /\ UNCHANGED <<consumerVars, work, crashes, lifeOnly>>

(* ... and recovers it, unless it was told to stop while it tried to open. *)
(* A failing open is tried again.                                          *)
ServerOpen ==
    /\ op[Server] = "open"
    /\ \/ /\ RecoverOnStart
          /\ op' = [op EXCEPT ![Server] = "recover"]
          /\ work' = [work EXCEPT ![Server] = ListMessages("inProgress")]
       \/ /\ ~RecoverOnStart \/ cancelled
          /\ op' = [op EXCEPT ![Server] = "none"]
          /\ UNCHANGED work
    /\ UNCHANGED <<consumerVars, serverVars, crashes, starts, lifeOnly>>

ServerSpawn ==
    /\ server = "starting" /\ op[Server] = "none"
    /\ server' = "running"
    /\ pc' = [c \in Consumer |-> IF c \in ServerConsumer THEN "idle" ELSE pc[c]]
    /\ UNCHANGED <<todo, deliveryVars, cancelled, workVars, crashes, starts, lifeOnly>>

Cancel ==
    /\ server # "down" /\ ~cancelled
    /\ cancelled' = TRUE
    /\ UNCHANGED <<consumerVars, server, workVars, crashes, starts, lifeOnly>>

(* The server ends when every consumer task has. *)
ServerStop ==
    /\ server = "running"
    /\ \A c \in ServerConsumer : pc[c] = "stopped"
    /\ server' = "down"
    /\ cancelled' = FALSE
    /\ UNCHANGED <<consumerVars, workVars, crashes, starts, lifeOnly>>

(* A crash ends the consumers in C between two calls: their memory is      *)
(* gone, the directories stay as they are.                                 *)
LoseMemory(C) ==
    /\ pc' = [c \in Consumer |-> IF c \in C THEN "stopped" ELSE pc[c]]
    /\ todo' = [c \in Consumer |-> IF c \in C THEN {} ELSE todo[c]]
    /\ name' = [c \in Consumer |-> IF c \in C THEN 0 ELSE name[c]]
    /\ env' = [c \in Consumer |-> IF c \in C THEN NoFile ELSE env[c]]
    /\ kind' = [c \in Consumer |-> IF c \in C THEN "none" ELSE kind[c]]
    /\ newName' = [c \in Consumer |-> IF c \in C THEN 0 ELSE newName[c]]
    /\ tries' = [c \in Consumer |-> IF c \in C THEN 0 ELSE tries[c]]

ServerCrash ==
    /\ server # "down"
    /\ crashes < MaxCrashes
    /\ crashes' = crashes + 1
    /\ server' = "down"
    /\ cancelled' = FALSE
    /\ op' = [op EXCEPT ![Server] = "none"]
    /\ work' = [work EXCEPT ![Server] = {}]
    /\ LoseMemory(ServerConsumer)
    /\ UNCHANGED <<starts, lifeOnly>>

(* `inengine queue consume` is started, or killed. *)
CliStart(c) ==
    /\ pc[c] = "stopped"
    /\ Goto(c, "idle")
    /\ UNCHANGED <<todo, deliveryVars, serverVars, workVars, crashes, starts, lifeOnly>>

CliCrash(c) ==
    /\ pc[c] # "stopped"
    /\ crashes < MaxCrashes
    /\ crashes' = crashes + 1
    /\ LoseMemory({c})
    /\ UNCHANGED <<serverVars, workVars, starts, lifeOnly>>

-----------------------------------------------------------------------------
(* What consumer c does on its own, once it has something to do. *)
Step(c) ==
    \/ Stop(c) \/ List(c) \/ PollAgain(c) \/ DequeueNone(c) \/ ClaimNext(c) \/ Read(c)
    \/ MoveUnreadableToFailed(c) \/ Begin(c) \/ Finish(c) \/ Acknowledge(c)
    \/ SettleRename(c) \/ SettleExists(c) \/ SettleWrite(c) \/ SettleSync(c) \/ SettleUndo(c)
    \/ SettleRemove(c) \/ SettleDrop(c) \/ GiveUp(c) \/ SettleAgain(c)

Next ==
    \/ \E m \in Msg : Publish(m)
    \/ \E c \in Consumer : Step(c)
    \/ \E t \in Tool, o \in Command : StartCommand(t, o)
    \/ \E w \in Worker : WorkOnFile(w) \/ FinishPass(w) \/ WorkFails(w)
    \/ ServerStart \/ ServerOpen \/ ServerSpawn \/ Cancel \/ ServerStop \/ ServerCrash
    \/ \E c \in CliConsumer : CliStart(c) \/ CliCrash(c)

Spec == Init /\ [][Next]_vars

(* The code's scheduling: tokio and the operating system keep running a    *)
(* task or process that is not waiting, commands end, a dequeue ends       *)
(* within its wait however often it polls. No publisher, tool, start,      *)
(* shutdown, fault or crash has to happen.                                 *)
Fairness ==
    /\ \A c \in Consumer : WF_vars(Step(c)) /\ SF_vars(DequeueNone(c))
    /\ \A w \in Worker : WF_vars(WorkOnFile(w) \/ FinishPass(w))
    /\ WF_vars(ServerOpen)
    /\ WF_vars(ServerSpawn)
    /\ WF_vars(ServerStop)

FairSpec == Spec /\ Fairness
-----------------------------------------------------------------------------
(* Properties.                                                             *)

(* The message of the file called n, wherever that file is. *)
Holds(n, m) == \E d \in Dir : Exists(d, n) /\ file[d][n].id = m

(* However claims, settles, undone settles and recoveries interleave, a    *)
(* file name is in at most one directory. So no rename of the driver ever  *)
(* overwrites a file, and a message is never read while it is half moved.  *)
OnePlacePerName ==
    \A n \in Name : \A d, e \in Dir : Exists(d, n) /\ Exists(e, n) => d = e

(* A published message has a file in some stage until its command has      *)
(* succeeded or a clear has removed a file of it. Crashes between any two  *)
(* calls of move_claimed, failing calls, recoveries and republications     *)
(* during a settle, and two settles of one claim never lose a message.     *)
NoMessageLost ==
    \A m \in published : m \in succeeded \/ m \in cleared \/ \E n \in Name : Holds(n, m)

(* The attempt count a file stores is never above the number of attempts   *)
(* of that message that failed: interrupted and crashed attempts, attempts *)
(* of two consumers at once and repeated settles are never charged.        *)
NoAttemptOvercharged ==
    \A d \in Dir, n \in Name : Exists(d, n) => file[d][n].attempts <= counted[file[d][n].id]

(* A message whose command failed is moved to the failed stage only after  *)
(* its first run and all its retries have failed.                          *)
FailsOnlyAfterRetries ==
    \A c \in Consumer :
        kind[c] = "commandFailed" /\ ForAttempt(kind[c], env[c]) = "moveToFailed"
            => counted[env[c].id] > MaxRetries[env[c].id]

(* Both: no message is charged for an attempt that did not fail, so none   *)
(* is moved to failed too early.                                           *)
FairAttempts == NoAttemptOvercharged /\ FailsOnlyAfterRetries

(* Two consumers hold the same claim only when a recover put the file back *)
(* into pending while the first of them held it (the warning of            *)
(* Queue::recover).                                                        *)
ClaimIsExclusive ==
    \A b, c \in Consumer : b # c /\ name[b] = name[c] /\ name[b] # 0 => name[b] \in recovered

(* Nothing but the code and its clear and republish commands has run. *)
Undisturbed == faults = 0 /\ crashes = 0 /\ recovered = {}

(* With no fault, no crash and no recovery, a message is run by one        *)
(* consumer at a time and never again once it has succeeded, although a    *)
(* settle shows the next consumer the new copy while the old one is still  *)
(* there.                                                                  *)
RunsOnce ==
    Undisturbed =>
        \A c \in Consumer : pc[c] = "running" =>
            /\ env[c].id \notin succeeded
            /\ \A b \in Consumer : b # c /\ pc[b] = "running" => env[b].id # env[c].id

(* Without a failed call and without a crash, a message is in progress     *)
(* only as long as some consumer is on its way to settle it, whatever      *)
(* cancellations, recoveries and second claims happen: a file in the       *)
(* in-progress directory still has a consumer before its first settle      *)
(* call, a settling file one that goes on to remove it.                    *)
InProgressIsHeld ==
    faults = 0 /\ crashes = 0 =>
        \A n \in Name :
            /\ Exists("inProgress", n) => \E c \in Consumer :
                 name[c] = n /\ pc[c] \in {"read", "begin", "running", "ack", "rename"}
            /\ Exists("settling", n) => \E c \in Consumer :
                 name[c] = n /\ pc[c] \in {"write", "sync", "remove"}

InDir(d, m) == \E n \in Name : Exists(d, n) /\ file[d][n].id = m

(* The consumer has the message in memory and no copy of it is written. *)
Working == {"begin", "running", "ack", "rename", "exists", "write"}

AtWork(m) == InDir("inProgress", m) \/ \E c \in Consumer : pc[c] \in Working /\ env[c].id = m

(* The place of a message in the abstract queue. The settling file of a    *)
(* settle that has written its copy is no longer the message.              *)
StageOf(m) ==
    IF m \notin published THEN "new"
    ELSE IF InDir("pending", m) THEN "pending"
    ELSE IF InDir("failed", m) THEN "failed"
    ELSE IF AtWork(m) THEN "inProgress"
    ELSE "gone"

Abstract == INSTANCE QueueStages WITH stage <- [m \in Msg |-> StageOf(m)], done <- succeeded

(* A clear takes one file at a time, and a consumer that has the message   *)
(* in memory meanwhile may still settle it before it notices.              *)
Discard(m) ==
    m \in cleared' /\ \E p \in {"pending", "inProgress", "failed"} : Abstract!Move({m}, p, "gone")

(* Until a call fails, a process crashes or a recover takes a file back,   *)
(* the lane implements the stages of Queue: a message is in one stage, and *)
(* every file-system call of every process is one of the moves of Queue, a *)
(* discard of a cleared message, or changes no stage. In particular a      *)
(* message that is gone stays gone and a failed one leaves only by a       *)
(* republication.                                                          *)
ImplementsStages ==
    /\ Abstract!Init
    /\ [][Undisturbed' => Abstract!Transfer \/ \E m \in Msg : Discard(m)]_(Abstract!vars)

(* A server that is told to stop does stop, whatever its consumers were    *)
(* doing: claiming from a stale listing, running, or settling again.       *)
ShutdownCompletes == cancelled ~> server = "down"

(* While the server stays up, a published message comes to an end: its     *)
(* command succeeds, it is moved to failed, or it is cleared. The retries  *)
(* of a failed settle carry it over a failing file-system call, and the    *)
(* recovery at the next start over a crash; after both the recovery itself *)
(* may have failed, which is only logged.                                  *)
EveryMessageEnds ==
    \A m \in Msg :
        m \in published /\ server = "running"
            ~> \/ m \in succeeded \/ m \in cleared \/ InDir("failed", m)
               \/ cancelled \/ server = "down" \/ (faults > 0 /\ crashes > 0)

-----------------------------------------------------------------------------
(* What comments of the code say that its behaviour does not bear out.     *)

(* Queue::release: "takes back the attempt that the claim counted": the    *)
(* copy a release writes stores the count the claimed file had.            *)
ReleaseRestoresCount ==
    [][\A c \in Consumer :
         (pc[c] = "write" /\ pc'[c] = "sync" /\ kind[c] = "interrupted"
            /\ Exists("settling", name[c]))
         => file'["pending"][newName'[c]].attempts = file["settling"][name[c]].attempts]_vars

(* SettleError::Interrupted: "The message is still in progress, so settle  *)
(* the returned delivery again": the settle has left no other copy.        *)
InterruptedLeavesNoCopy ==
    [][\A c \in Consumer :
         (pc[c] = "undo" /\ pc'[c] = "backoff" /\ newName[c] # 0)
         => \A d \in Dir : file'[d][newName[c]] = NoFile]_vars

=============================================================================
