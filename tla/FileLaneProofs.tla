--------------------------- MODULE FileLaneProofs ---------------------------
(***************************************************************************)
(* Proofs of the safety properties of FileLane, for every set of messages, *)
(* consumers and tools, and every value of the bounds.                     *)
(***************************************************************************)
EXTENDS FileLaneInv, SetSums, TLAPS

(* What the calls leave is again a content for every path... *)
LEMMA RenamedType ==
    ASSUME StoreTypeOK,
           NEW d \in Dir, NEW n \in Name, NEW e \in Dir, NEW k \in Name
    PROVE  Renamed(d, n, e, k) \in [Dir -> [Name -> CommandEnvelope \cup {NoFile}]]
  <1>1. [file EXCEPT ![d][n] = NoFile] \in [Dir -> [Name -> CommandEnvelope \cup {NoFile}]]
    BY DEF StoreTypeOK
  <1>2. file[d][n] \in CommandEnvelope \cup {NoFile}
    BY DEF StoreTypeOK
  <1>. QED
    BY <1>1, <1>2 DEF Renamed

LEMMA RemovedType ==
    ASSUME StoreTypeOK, NEW d \in Dir, NEW n \in Name
    PROVE  Removed(d, n) \in [Dir -> [Name -> CommandEnvelope \cup {NoFile}]]
  BY DEF StoreTypeOK, Removed

LEMMA WrittenType ==
    ASSUME StoreTypeOK, NEW d \in Dir, NEW n \in Name, NEW v \in CommandEnvelope
    PROVE  Written(d, n, v) \in [Dir -> [Name -> CommandEnvelope \cup {NoFile}]]
  BY DEF StoreTypeOK, Written

(* ... and each touches only the paths it names. A rename, wherever it     *)
(* leads, moves one content.                                               *)
LEMMA RenamedFacts ==
    ASSUME StoreTypeOK,
           NEW d \in Dir, NEW n \in Name, NEW e \in Dir, NEW k \in Name,
           NEW a \in Dir, NEW x \in Name
    PROVE  Renamed(d, n, e, k)[a][x] =
               IF a = e /\ x = k THEN file[d][n]
               ELSE IF a = d /\ x = n THEN NoFile ELSE file[a][x]
  BY DEF StoreTypeOK, Renamed

LEMMA RemovedFacts ==
    ASSUME StoreTypeOK, NEW d \in Dir, NEW n \in Name
    PROVE  \A a \in Dir, x \in Name :
               Removed(d, n)[a][x] = IF a = d /\ x = n THEN NoFile ELSE file[a][x]
  BY DEF StoreTypeOK, Removed

LEMMA WrittenFacts ==
    ASSUME StoreTypeOK, NEW d \in Dir, NEW n \in Name, NEW v \in CommandEnvelope
    PROVE  \A a \in Dir, x \in Name :
               Written(d, n, v)[a][x] = IF a = d /\ x = n THEN v ELSE file[a][x]
  BY DEF StoreTypeOK, Written

-----------------------------------------------------------------------------
(* Type correctness, together with what a consumer holds at each point. *)

USE EnvelopeAssumption, StoreAssumption, LaneAssumption

LEMMA TakeBackType ==
    ASSUME NEW v \in CommandEnvelope
    PROVE  TakeBackAttempt(v) \in CommandEnvelope
  BY DEF TakeBackAttempt, CommandEnvelope

LEMMA TypeInit == Init => TypeOK /\ PcOK /\ ServerTasks
  <1> SUFFICES ASSUME Init PROVE TypeOK /\ PcOK /\ ServerTasks
    OBVIOUS
  <1>1. StoreTypeOK
    BY DEF Init, StoreInit, StoreTypeOK
  <1>2. ConsumerTypeOK
    BY DEF Init, ConsumerTypeOK, Pc
  <1>3. WorkTypeOK
    <2>1. op \in [Worker -> Op] /\ work \in [Worker -> SUBSET Name]
      BY DEF Init, Op
    <2>2. cancelled \in BOOLEAN /\ server \in {"down", "starting", "running"}
      BY DEF Init
    <2>3. /\ faults \in 0..MaxFaults /\ crashes \in 0..MaxCrashes
          /\ starts \in 0..MaxStarts /\ commands \in 0..MaxCommands
      BY DEF Init
    <2>. QED
      BY <2>1, <2>2, <2>3 DEF WorkTypeOK
  <1>5. HistoryTypeOK
    BY DEF Init, HistoryTypeOK
  <1>4. PcOK /\ ServerTasks
    BY DEF Init, PcOK, PcOKOf, ServerTasks, Consumer, Copying, Moving, Settling, Delivered, Claimed
  <1>. QED
    BY <1>1, <1>2, <1>3, <1>4, <1>5 DEF TypeOK

(* The steps that change the directories, seen from the directories: one   *)
(* file is written, moved or removed by one call, and a new name is new.   *)
UsesNewName == nextName \in Name /\ nextName' = nextName + 1

(* Who removes a file: an acknowledge, the two ends of a settle, a clear. *)
RemovalReason(d, n) ==
    \/ \E c \in Consumer : Acknowledge(c) /\ d = "inProgress" /\ n = name[c]
    \/ \E c \in Consumer :
         SettleRemove(c) /\ pc'[c] = "idle" /\ d = "settling" /\ n = name[c]
    \/ \E c \in Consumer : SettleDrop(c) /\ pc'[c] \in {"idle", "stopped"} /\ n = newName[c]
    \/ Exists(d, n) => file[d][n].id \in cleared'

FileStep ==
    \/ file' = file /\ (nextName' = nextName \/ UsesNewName)
    \/ \E d \in Dir, v \in CommandEnvelope :
         /\ UsesNewName /\ file' = Written(d, nextName, v)
         /\ \/ \E m \in Msg : Publish(m) /\ v = NewEnvelope(m)
            \/ \E c \in Consumer : SettleWrite(c) /\ v = env[c]
    \/ \E d, e \in Dir, n \in Name :
         d # e /\ Exists(d, n) /\ file' = Renamed(d, n, e, n) /\ nextName' = nextName
    \/ \E d, e \in Dir, n \in Name :
         Exists(d, n) /\ UsesNewName /\ file' = Renamed(d, n, e, nextName)
    \/ \E d \in Dir, n \in Name :
         file' = Removed(d, n) /\ nextName' = nextName /\ RemovalReason(d, n)

LEMMA EveryStepIsFileStep ==
    ASSUME TypeOK, PcOK, [Next]_vars
    PROVE  FileStep
  <1> USE DEF FileStep, storeVars
  <1>1. ASSUME NEW m \in Msg, Publish(m) PROVE FileStep
    BY <1>1 DEF Publish, NewName, UsesNewName, NewEnvelope, CommandEnvelope, Dir
  <1>2. ASSUME NEW c \in Consumer, ClaimNext(c) PROVE FileStep
    BY <1>2 DEF ClaimNext, Claim, Oldest, TypeOK, ConsumerTypeOK, Dir
  <1>3. ASSUME NEW c \in Consumer, MoveUnreadableToFailed(c) PROVE FileStep
    <2>1. name[c] \in Name
      BY <1>3 DEF MoveUnreadableToFailed, TypeOK, ConsumerTypeOK, PcOK, PcOKOf, Claimed
    <2>. QED
      BY <1>3, <2>1 DEF MoveUnreadableToFailed, NewName, UsesNewName, RenamedIfPresent, Dir
  <1>4. ASSUME NEW c \in Consumer,
               Acknowledge(c) \/ SettleRename(c) \/ SettleWrite(c) \/ SettleUndo(c)
                 \/ SettleRemove(c) \/ SettleDrop(c)
        PROVE  FileStep
    <2>1. name[c] \in Name
      BY <1>4 DEF Acknowledge, SettleRename, SettleWrite, SettleUndo, SettleRemove, SettleDrop,
                  TypeOK, ConsumerTypeOK, PcOK, PcOKOf, Claimed, Delivered, Settling, Moving, Copying
    <2>2. CASE Acknowledge(c)
      BY <2>1, <2>2 DEF Acknowledge, RemovalReason, Dir
    <2>3. CASE SettleRename(c)
      BY <2>1, <2>3 DEF SettleRename, Dir
    <2>4. CASE SettleWrite(c)
      <3>1. env[c] \in CommandEnvelope
        BY <2>4 DEF SettleWrite, PcOK, PcOKOf, Delivered, Settling, Moving
      <3>. QED
        BY <2>4, <3>1 DEF SettleWrite, NewName, UsesNewName, TargetOf, Dir
    <2>5. CASE SettleUndo(c)
      BY <2>1, <2>5 DEF SettleUndo, RenamedIfPresent, Dir
    <2>6. CASE SettleRemove(c)
      BY <2>1, <2>6 DEF SettleRemove, RemovalReason, Dir, Settled, Goto, TypeOK, ConsumerTypeOK
    <2>7. CASE SettleDrop(c)
      <3>1. newName[c] \in Name
        BY <2>7 DEF SettleDrop, PcOK, PcOKOf, Copying
      <3>. QED
        BY <2>7, <3>1 DEF SettleDrop, RemovalReason, TargetOf, Dir, Lost, Leave, Goto, TypeOK,
                          ConsumerTypeOK
    <2>. QED
      BY <1>4, <2>2, <2>3, <2>4, <2>5, <2>6, <2>7
  <1>5. ASSUME NEW w \in Worker, WorkOnFile(w) PROVE FileStep
    <2>1. PICK n \in Oldest(work[w]) :
             \/ op[w] \in {"recover", "recoverSettling"} /\ RecoverFile(PassDir(op[w]), n)
             \/ op[w] \in {"clearPending", "clearInProgress", "clearSettling", "clearFailed"}
                /\ ClearFile(PassDir(op[w]), n)
             \/ op[w] = "republish" /\ RepublishFile(PassDir(op[w]), n)
      BY <1>5 DEF WorkOnFile
    <2>2. n \in Name
      BY <2>1 DEF Oldest, TypeOK, WorkTypeOK
    <2>3. CASE op[w] \in {"recover", "recoverSettling"} /\ RecoverFile(PassDir(op[w]), n)
      BY <2>2, <2>3 DEF RecoverFile, PassDir, RenamedIfPresent, Dir
    <2>4. CASE op[w] \in {"clearPending", "clearInProgress", "clearSettling", "clearFailed"}
               /\ ClearFile(PassDir(op[w]), n)
      BY <2>2, <2>4 DEF ClearFile, RemovalReason, PassDir, Dir
    <2>5. CASE op[w] = "republish" /\ RepublishFile(PassDir(op[w]), n)
      BY <2>2, <2>5 DEF RepublishFile, PassDir, RenamedIfPresent, NewName, UsesNewName, Dir
    <2>. QED
      BY <2>1, <2>3, <2>4, <2>5
  <1>6. ASSUME NEW c \in Consumer,
               \/ Stop(c) \/ List(c) \/ PollAgain(c) \/ DequeueNone(c) \/ Read(c) \/ Begin(c)
               \/ Finish(c) \/ SettleExists(c) \/ SettleSync(c) \/ GiveUp(c) \/ SettleAgain(c)
        PROVE  FileStep
    BY <1>6 DEF Stop, List, PollAgain, DequeueNone, Read, Begin, Finish, Attempted, runOnly,
                SettleExists, SettleSync, GiveUp, SettleAgain
  <1>7. ASSUME NEW t \in Tool, NEW o \in Command, StartCommand(t, o) PROVE FileStep
    BY <1>7 DEF StartCommand
  <1>8. ASSUME NEW w \in Worker, FinishPass(w) \/ WorkFails(w) PROVE FileStep
    BY <1>8 DEF FinishPass, WorkFails
  <1>9. CASE ServerStart \/ ServerOpen \/ ServerSpawn \/ Cancel \/ ServerStop \/ ServerCrash
    BY <1>9 DEF ServerStart, ServerOpen, ServerSpawn, Cancel, ServerStop, ServerCrash, lifeOnly
  <1>10. ASSUME NEW c \in CliConsumer, CliStart(c) \/ CliCrash(c) PROVE FileStep
    BY <1>10 DEF CliStart, CliCrash, lifeOnly
  <1>11. CASE UNCHANGED vars
    BY <1>11 DEF vars
  <1>. QED
    BY <1>1, <1>2, <1>3, <1>4, <1>5, <1>6, <1>7, <1>8, <1>9, <1>10, <1>11 DEF Next, Step

LEMMA StoreTypeStep ==
    ASSUME TypeOK, FileStep
    PROVE  StoreTypeOK'
  <1> USE DEF TypeOK
  <1>1. nextName' \in 1..(MaxName + 1)
    BY DEF FileStep, UsesNewName, StoreTypeOK, Name
  <1>2. file' \in [Dir -> [Name -> CommandEnvelope \cup {NoFile}]]
    <2>1. CASE file' = file
      BY <2>1 DEF StoreTypeOK
    <2>2. ASSUME NEW d \in Dir, NEW v \in CommandEnvelope, UsesNewName,
                 file' = Written(d, nextName, v)
          PROVE  file' \in [Dir -> [Name -> CommandEnvelope \cup {NoFile}]]
      BY <2>2, WrittenType DEF UsesNewName
    <2>3. ASSUME NEW d \in Dir, NEW e \in Dir, NEW n \in Name, NEW k \in Name,
                 file' = Renamed(d, n, e, k)
          PROVE  file' \in [Dir -> [Name -> CommandEnvelope \cup {NoFile}]]
      BY <2>3, RenamedType
    <2>4. ASSUME NEW d \in Dir, NEW n \in Name, file' = Removed(d, n)
          PROVE  file' \in [Dir -> [Name -> CommandEnvelope \cup {NoFile}]]
      BY <2>4, RemovedType
    <2>. QED
      BY <2>1, <2>2, <2>3, <2>4 DEF FileStep, UsesNewName
  <1>. QED
    BY <1>1, <1>2 DEF StoreTypeOK

LEMMA ConsumerTypeStep ==
    ASSUME TypeOK, PcOK, [Next]_vars
    PROVE  ConsumerTypeOK'
  <1> USE DEF TypeOK, ConsumerTypeOK, Pc, Goto, storeVars, deliveryVars, consumerVars, claimOnly, settleOnly, workOnly, lifeOnly
  <1>1. ASSUME NEW c \in Consumer, Stop(c) PROVE ConsumerTypeOK'
    BY <1>1 DEF Stop
  <1>2. ASSUME NEW c \in Consumer, List(c) PROVE ConsumerTypeOK'
    BY <1>2 DEF List, ListMessages, Leave
  <1>3. ASSUME NEW c \in Consumer, PollAgain(c) PROVE ConsumerTypeOK'
    BY <1>3 DEF PollAgain
  <1>4. ASSUME NEW c \in Consumer, DequeueNone(c) PROVE ConsumerTypeOK'
    BY <1>4 DEF DequeueNone, Leave
  <1>5. ASSUME NEW c \in Consumer, ClaimNext(c) PROVE ConsumerTypeOK'
    <2>1. \A n \in Oldest(todo[c]) : n \in Name
      BY DEF Oldest
    <2>2. PICK n \in Oldest(todo[c]) :
             \/ Claim(c, n) /\ todo' = [todo EXCEPT ![c] = @ \ {n}]
             \/ /\ pc' = [pc EXCEPT ![c] = Leave(c)] /\ UNCHANGED name
                /\ todo' = [todo EXCEPT ![c] = {}]
      BY <1>5 DEF ClaimNext
    <2>3. UNCHANGED <<env, kind, newName, tries>>
      BY <1>5 DEF ClaimNext
    <2>. QED
      BY <2>1, <2>2, <2>3 DEF Claim, Leave
  <1>6. ASSUME NEW c \in Consumer, Read(c) PROVE ConsumerTypeOK'
    <2>1. Exists("inProgress", name[c]) => CountAttempt(file["inProgress"][name[c]]) \in CommandEnvelope
      BY <1>6 DEF Read, Exists, CountAttempt, CommandEnvelope, PcOK, PcOKOf, Claimed, StoreTypeOK, Dir
    <2>. QED
      BY <1>6, <2>1 DEF Read
  <1>7. ASSUME NEW c \in Consumer, MoveUnreadableToFailed(c) PROVE ConsumerTypeOK'
    BY <1>7 DEF MoveUnreadableToFailed
  <1>8. ASSUME NEW c \in Consumer, Acknowledge(c) PROVE ConsumerTypeOK'
    BY <1>8 DEF Acknowledge, Settled, Lost, Interrupted, NoDelivery, Leave
  <1>9. ASSUME NEW c \in Consumer, SettleRename(c) PROVE ConsumerTypeOK'
    BY <1>9 DEF SettleRename
  <1>10. ASSUME NEW c \in Consumer, SettleExists(c) PROVE ConsumerTypeOK'
    BY <1>10 DEF SettleExists, Lost, NoDelivery, Leave
  <1>11. ASSUME NEW c \in Consumer, SettleWrite(c) PROVE ConsumerTypeOK'
    BY <1>11 DEF SettleWrite
  <1>12. ASSUME NEW c \in Consumer, SettleSync(c) PROVE ConsumerTypeOK'
    BY <1>12 DEF SettleSync
  <1>13. ASSUME NEW c \in Consumer, SettleUndo(c) PROVE ConsumerTypeOK'
    BY <1>13 DEF SettleUndo
  <1>14. ASSUME NEW c \in Consumer, SettleRemove(c) PROVE ConsumerTypeOK'
    BY <1>14 DEF SettleRemove, Settled, NoDelivery
  <1>15. ASSUME NEW c \in Consumer, SettleDrop(c) PROVE ConsumerTypeOK'
    BY <1>15 DEF SettleDrop, Lost, NoDelivery, Leave
  <1>16. ASSUME NEW c \in Consumer, GiveUp(c) PROVE ConsumerTypeOK'
    BY <1>16 DEF GiveUp, NoDelivery, Leave
  <1>17. ASSUME NEW c \in Consumer, Begin(c) \/ Finish(c) PROVE ConsumerTypeOK'
    <2>1. env[c] \in CommandEnvelope
      BY <1>17 DEF Begin, Finish, PcOK, PcOKOf, Delivered
    <2>2. TakeBackAttempt(env[c]) \in CommandEnvelope
      BY <2>1, TakeBackType
    <2>3. ASSUME NEW k \in AttemptKind, Attempted(c, k) PROVE ConsumerTypeOK'
      BY <2>2, <2>3, <1>17 DEF Attempted, Settle, runOnly, Begin, Finish
    <2>4. CASE pc' = [pc EXCEPT ![c] = "running"] /\ UNCHANGED <<env, kind, runOnly>>
      BY <2>4, <1>17 DEF runOnly, Begin, Finish
    <2>. QED
      BY <1>17, <2>3, <2>4 DEF Begin, Finish, AttemptKind, runOnly
  <1>18. ASSUME NEW c \in Consumer, SettleAgain(c) PROVE ConsumerTypeOK'
    <2>1. env[c] \in CommandEnvelope
      BY <1>18 DEF SettleAgain, PcOK, PcOKOf, Delivered, Settling
    <2>2. TakeBackAttempt(env[c]) \in CommandEnvelope
      BY <2>1, TakeBackType
    <2>. QED
      BY <1>18, <2>2 DEF SettleAgain, Settle
  <1>19. ASSUME NEW m \in Msg, Publish(m) PROVE ConsumerTypeOK'
    BY <1>19 DEF Publish
  <1>20. ASSUME NEW t \in Tool, NEW o \in Command, StartCommand(t, o) PROVE ConsumerTypeOK'
    BY <1>20 DEF StartCommand
  <1>21. ASSUME NEW w \in Worker, WorkOnFile(w) \/ FinishPass(w) \/ WorkFails(w) PROVE ConsumerTypeOK'
    BY <1>21 DEF WorkOnFile, FinishPass, WorkFails
  <1>22. ASSUME ServerStart \/ ServerOpen \/ Cancel \/ ServerStop PROVE ConsumerTypeOK'
    BY <1>22 DEF ServerStart, ServerOpen, Cancel, ServerStop
  <1>23. ASSUME ServerSpawn PROVE ConsumerTypeOK'
    BY <1>23 DEF ServerSpawn
  <1>24. ASSUME ServerCrash PROVE ConsumerTypeOK'
    BY <1>24 DEF ServerCrash, LoseMemory
  <1>25. ASSUME NEW c \in CliConsumer, CliStart(c) PROVE ConsumerTypeOK'
    BY <1>25 DEF CliStart, Consumer
  <1>26. ASSUME NEW c \in CliConsumer, CliCrash(c) PROVE ConsumerTypeOK'
    BY <1>26 DEF CliCrash, LoseMemory
  <1>27. CASE UNCHANGED vars
    BY <1>27 DEF vars
  <1>. QED
    BY <1>1, <1>2, <1>3, <1>4, <1>5, <1>6, <1>7, <1>8, <1>9, <1>10, <1>11, <1>12, <1>13, <1>14, <1>15, <1>16, <1>17, <1>18, <1>19, <1>20, <1>21, <1>22, <1>23, <1>24, <1>25, <1>26, <1>27 DEF Next, Step

(* A step of one consumer leaves the memory of the others alone. *)
Untouched(b) ==
    /\ pc'[b] = pc[b] /\ name'[b] = name[b] /\ env'[b] = env[b]
    /\ kind'[b] = kind[b] /\ newName'[b] = newName[b]

LEMMA StepIsLocal ==
    ASSUME ConsumerTypeOK, NEW c \in Consumer, Step(c), NEW b \in Consumer \ {c}
    PROVE  Untouched(b)
  <1> USE DEF Untouched, ConsumerTypeOK, Goto, deliveryVars, NoDelivery
  <1>1. CASE Stop(c) \/ List(c) \/ PollAgain(c) \/ DequeueNone(c)
    BY <1>1 DEF Stop, List, PollAgain, DequeueNone
  <1>2. CASE ClaimNext(c)
    BY <1>2 DEF ClaimNext, Claim
  <1>3. CASE Read(c) \/ MoveUnreadableToFailed(c)
    BY <1>3 DEF Read, MoveUnreadableToFailed
  <1>4. CASE Begin(c) \/ Finish(c)
    BY <1>4 DEF Begin, Finish, Attempted, Settle, runOnly
  <1>5. CASE Acknowledge(c) \/ SettleRename(c) \/ SettleExists(c)
    BY <1>5 DEF Acknowledge, Settled, Lost, Interrupted, SettleRename, SettleExists
  <1>6. CASE SettleWrite(c) \/ SettleSync(c) \/ SettleUndo(c)
    BY <1>6 DEF SettleWrite, SettleSync, SettleUndo
  <1>7. CASE SettleRemove(c) \/ SettleDrop(c)
    BY <1>7 DEF SettleRemove, SettleDrop, Settled, Lost
  <1>8. CASE GiveUp(c) \/ SettleAgain(c)
    BY <1>8 DEF GiveUp, SettleAgain, Settle
  <1>. QED
    BY <1>1, <1>2, <1>3, <1>4, <1>5, <1>6, <1>7, <1>8 DEF Step

LEMMA StepPcOK ==
    ASSUME TypeOK, PcOK, NEW c \in Consumer, Step(c)
    PROVE  PcOKOf(c)'
  <1> USE DEF TypeOK, ConsumerTypeOK, PcOK, PcOKOf, Goto, deliveryVars, NoDelivery, Leave,
              Copying, Moving, Settling, Delivered, Claimed
  <1>1. CASE Stop(c) \/ List(c) \/ PollAgain(c) \/ DequeueNone(c)
    BY <1>1 DEF Stop, List, PollAgain, DequeueNone
  <1>2. CASE ClaimNext(c)
    <2>1. \A n \in Oldest(todo[c]) : n # 0
      BY DEF Oldest, Name
    <2>. QED
      BY <1>2, <2>1 DEF ClaimNext, Claim
  <1>3. CASE Read(c)
    <2>1. Exists("inProgress", name[c]) => CountAttempt(file["inProgress"][name[c]]) \in CommandEnvelope
      BY <1>3 DEF Read, Exists, CountAttempt, CommandEnvelope, StoreTypeOK, Dir
    <2>. QED
      BY <1>3, <2>1 DEF Read
  <1>4. CASE MoveUnreadableToFailed(c)
    BY <1>4 DEF MoveUnreadableToFailed
  <1>5. CASE Begin(c) \/ Finish(c)
    <2>1. env[c] \in CommandEnvelope
      BY <1>5 DEF Begin, Finish
    <2>2. TakeBackAttempt(env[c]) \in CommandEnvelope
      BY <2>1, TakeBackType
    <2>3. ASSUME NEW k \in AttemptKind, Attempted(c, k) PROVE PcOKOf(c)'
      <3>1. ForAttempt(k, env[c]) = "acknowledge" <=> k = "succeeded"
        BY DEF ForAttempt, AttemptKind
      <3>. QED
        BY <1>5, <2>1, <2>2, <2>3, <3>1 DEF Attempted, Settle, runOnly, AttemptKind, Begin, Finish
    <2>4. CASE pc' = [pc EXCEPT ![c] = "running"] /\ UNCHANGED <<env, kind, runOnly>>
      BY <2>4, <1>5 DEF runOnly, Begin, Finish
    <2>. QED
      BY <1>5, <2>3, <2>4 DEF Begin, Finish, AttemptKind, runOnly
  <1>6. CASE Acknowledge(c) \/ SettleRename(c) \/ SettleExists(c)
    BY <1>6 DEF Acknowledge, Settled, Lost, Interrupted, SettleRename, SettleExists
  <1>7. CASE SettleWrite(c)
    BY <1>7 DEF SettleWrite
  <1>8. CASE SettleSync(c) \/ SettleUndo(c)
    BY <1>8 DEF SettleSync, SettleUndo
  <1>9. CASE SettleRemove(c) \/ SettleDrop(c)
    BY <1>9 DEF SettleRemove, SettleDrop, Settled, Lost
  <1>10. CASE GiveUp(c)
    BY <1>10 DEF GiveUp
  <1>11. CASE SettleAgain(c)
    <2>1. env[c] \in CommandEnvelope /\ kind[c] \in AttemptKind
      BY <1>11 DEF SettleAgain
    <2>2. TakeBackAttempt(env[c]) \in CommandEnvelope
      BY <2>1, TakeBackType
    <2>3. ForAttempt(kind[c], env[c]) = "acknowledge" <=> kind[c] = "succeeded"
      BY <2>1 DEF ForAttempt, AttemptKind
    <2>. QED
      BY <1>11, <2>1, <2>2, <2>3 DEF SettleAgain, Settle
  <1>. QED
    BY <1>1, <1>2, <1>3, <1>4, <1>5, <1>6, <1>7, <1>8, <1>9, <1>10, <1>11 DEF Step

(* Every other step leaves a consumer alone, or starts or ends it with     *)
(* nothing in its hands.                                                   *)
Restarted(b) ==
    /\ pc'[b] \in {"idle", "stopped"} /\ name'[b] = 0 /\ kind'[b] = "none"
    /\ newName'[b] \in {0, newName[b]}

OtherStep == (\A b \in Consumer : Untouched(b) \/ Restarted(b)) /\ UNCHANGED <<succeeded, counted>>

LEMMA StepOrOther ==
    ASSUME TypeOK, PcOK, ServerTasks, [Next]_vars
    PROVE  (\E c \in Consumer : Step(c)) \/ OtherStep
  <1> USE DEF OtherStep, Untouched, Restarted, TypeOK, ConsumerTypeOK, deliveryVars, consumerVars,
              historyVars, lifeOnly, workOnly
  <1>1. ASSUME NEW m \in Msg, Publish(m) PROVE OtherStep
    BY <1>1 DEF Publish
  <1>2. ASSUME NEW t \in Tool, NEW o \in Command, StartCommand(t, o) PROVE OtherStep
    BY <1>2 DEF StartCommand
  <1>3. ASSUME NEW w \in Worker, WorkOnFile(w) \/ FinishPass(w) \/ WorkFails(w) PROVE OtherStep
    BY <1>3 DEF WorkOnFile, FinishPass, WorkFails
  <1>4. CASE ServerStart \/ ServerOpen \/ Cancel \/ ServerStop
    BY <1>4 DEF ServerStart, ServerOpen, Cancel, ServerStop
  <1>5. CASE ServerSpawn
    BY <1>5 DEF ServerSpawn, ServerTasks, PcOK, PcOKOf, Claimed, Delivered, Settling, Moving, Copying
  <1>6. CASE ServerCrash
    BY <1>6 DEF ServerCrash, LoseMemory
  <1>7. ASSUME NEW c \in CliConsumer, CliStart(c) PROVE OtherStep
    BY <1>7 DEF CliStart, Goto, PcOK, PcOKOf, Claimed, Delivered, Settling, Moving, Copying
  <1>8. ASSUME NEW c \in CliConsumer, CliCrash(c) PROVE OtherStep
    BY <1>8 DEF CliCrash, LoseMemory
  <1>9. CASE UNCHANGED vars
    BY <1>9 DEF vars
  <1>. QED
    BY <1>1, <1>2, <1>3, <1>4, <1>5, <1>6, <1>7, <1>8, <1>9 DEF Next

LEMMA PcStep ==
    ASSUME TypeOK, PcOK, ServerTasks, [Next]_vars
    PROVE  PcOK'
  <1>1. ASSUME NEW c \in Consumer, Step(c) PROVE PcOK'
    <2>1. PcOKOf(c)'
      BY <1>1, StepPcOK
    <2>2. ASSUME NEW b \in Consumer \ {c} PROVE PcOKOf(b)'
      BY <1>1, <2>2, StepIsLocal DEF Untouched, PcOK, PcOKOf, TypeOK
    <2>. QED
      BY <2>1, <2>2 DEF PcOK
  <1>2. CASE OtherStep
    BY <1>2 DEF OtherStep, Untouched, Restarted, PcOK, PcOKOf,
                Claimed, Delivered, Settling, Moving, Copying
  <1>. QED
    BY <1>1, <1>2, StepOrOther

LEMMA ServerTasksStep ==
    ASSUME TypeOK, ServerTasks, [Next]_vars
    PROVE  ServerTasks'
  <1> USE DEF ServerTasks, TypeOK, ConsumerTypeOK
  <1>1. ASSUME NEW c \in Consumer, Step(c) PROVE ServerTasks'
    <2>1. server' = server
      BY <1>1 DEF Step, Stop, List, PollAgain, DequeueNone, ClaimNext, Read, MoveUnreadableToFailed,
           Begin, Finish, Attempted, Acknowledge, SettleRename, SettleExists, SettleWrite, SettleSync,
           SettleUndo, SettleRemove, SettleDrop, GiveUp, SettleAgain, runOnly, claimOnly, settleOnly,
           serverVars
    <2>2. pc[c] # "stopped"
      BY <1>1 DEF Step, Stop, List, PollAgain, DequeueNone, ClaimNext, Read, MoveUnreadableToFailed,
           Begin, Finish, Acknowledge, SettleRename, SettleExists, SettleWrite, SettleSync,
           SettleUndo, SettleRemove, SettleDrop, GiveUp, SettleAgain
    <2>3. \A b \in Consumer \ {c} : pc'[b] = pc[b]
      BY <1>1, StepIsLocal DEF Untouched
    <2>. QED
      BY <2>1, <2>2, <2>3 DEF Consumer
  <1>2. ASSUME NEW m \in Msg, Publish(m) PROVE ServerTasks'
    BY <1>2 DEF Publish, consumerVars, serverVars
  <1>3. ASSUME NEW t \in Tool, NEW o \in Command, StartCommand(t, o) PROVE ServerTasks'
    BY <1>3 DEF StartCommand, workOnly, consumerVars, serverVars
  <1>4. ASSUME NEW w \in Worker, WorkOnFile(w) \/ FinishPass(w) \/ WorkFails(w) PROVE ServerTasks'
    BY <1>4 DEF WorkOnFile, FinishPass, WorkFails, workOnly, consumerVars, serverVars
  <1>5. CASE ServerStart \/ ServerOpen \/ ServerSpawn \/ Cancel \/ ServerStop
    BY <1>5 DEF ServerStart, ServerOpen, ServerSpawn, Cancel, ServerStop, consumerVars, serverVars
  <1>6. CASE ServerCrash
    BY <1>6 DEF ServerCrash, LoseMemory, Consumer
  <1>7. ASSUME NEW c \in CliConsumer, CliStart(c) \/ CliCrash(c) PROVE ServerTasks'
    BY <1>7 DEF CliStart, CliCrash, LoseMemory, Goto, serverVars, Consumer
  <1>8. CASE UNCHANGED vars
    BY <1>8 DEF vars, consumerVars, serverVars
  <1>. QED
    BY <1>1, <1>2, <1>3, <1>4, <1>5, <1>6, <1>7, <1>8 DEF Next

LEMMA WorkTypeStep ==
    ASSUME TypeOK, [Next]_vars
    PROVE  WorkTypeOK'
  <1> USE DEF TypeOK, WorkTypeOK, Op
  <1>1. ASSUME NEW c \in Consumer, Step(c) PROVE WorkTypeOK'
    <2>1. /\ UNCHANGED <<server, cancelled, op, work, crashes, starts, commands>>
          /\ Fault \/ NoFault
      BY <1>1 DEF Step, Stop, List, PollAgain, DequeueNone, ClaimNext, Read, MoveUnreadableToFailed,
           Begin, Finish, Attempted, Acknowledge, SettleRename, SettleExists, SettleWrite, SettleSync,
           SettleUndo, SettleRemove, SettleDrop, GiveUp, SettleAgain, runOnly, claimOnly, settleOnly,
           serverVars, workVars, boundVars, NoFault
    <2>. QED
      BY <2>1 DEF Fault, NoFault
  <1>2. ASSUME NEW m \in Msg, Publish(m) PROVE WorkTypeOK'
    BY <1>2 DEF Publish, serverVars, workVars, boundVars
  <1>3. ASSUME NEW t \in Tool, NEW o \in Command, StartCommand(t, o) PROVE WorkTypeOK'
    BY <1>3 DEF StartCommand, ListMessages, Command, Worker, workOnly, serverVars
  <1>4. ASSUME NEW w \in Worker, WorkOnFile(w) PROVE WorkTypeOK'
    BY <1>4 DEF WorkOnFile, workOnly, serverVars
  <1>5. ASSUME NEW w \in Worker, FinishPass(w) PROVE WorkTypeOK'
    BY <1>5 DEF FinishPass, NextPass, ListMessages, workOnly, serverVars
  <1>6. ASSUME NEW w \in Worker, WorkFails(w) PROVE WorkTypeOK'
    BY <1>6 DEF WorkFails, Fault, workOnly, serverVars
  <1>7. CASE ServerStart
    <2>1. op' \in [Worker -> Op] /\ work' \in [Worker -> SUBSET Name]
      BY <1>7 DEF ServerStart, ListMessages, Worker
    <2>2. cancelled' \in BOOLEAN
      BY <1>7 DEF ServerStart
    <2>. QED
      BY <1>7, <2>1, <2>2 DEF ServerStart, lifeOnly
  <1>8. CASE ServerSpawn \/ Cancel \/ ServerStop
    <2>1. cancelled' \in BOOLEAN
      BY <1>8 DEF ServerSpawn, Cancel, ServerStop
    <2>. QED
      BY <1>8, <2>1 DEF ServerSpawn, Cancel, ServerStop, lifeOnly, workVars
  <1>9. CASE ServerCrash
    <2>1. op' \in [Worker -> Op] /\ work' \in [Worker -> SUBSET Name]
      BY <1>9 DEF ServerCrash, Worker
    <2>2. cancelled' \in BOOLEAN
      BY <1>9 DEF ServerCrash
    <2>. QED
      BY <1>9, <2>1, <2>2 DEF ServerCrash, lifeOnly
  <1>10. ASSUME NEW c \in CliConsumer, CliStart(c) \/ CliCrash(c) PROVE WorkTypeOK'
    BY <1>10 DEF CliStart, CliCrash, lifeOnly, serverVars, workVars
  <1>11. CASE UNCHANGED vars
    BY <1>11 DEF vars, serverVars, workVars, boundVars
  <1>12. CASE ServerOpen
    <2>1. op' \in [Worker -> Op] /\ work' \in [Worker -> SUBSET Name]
      BY <1>12 DEF ServerOpen, ListMessages, Worker
    <2>. QED
      BY <1>12, <2>1 DEF ServerOpen, lifeOnly, serverVars
  <1>. QED
    BY <1>1, <1>2, <1>3, <1>4, <1>5, <1>6, <1>7, <1>8, <1>9, <1>10, <1>11, <1>12 DEF Next

(* The steps that change the history. *)
LEMMA HistoryTypeStep ==
    ASSUME TypeOK, PcOK, [Next]_vars
    PROVE  HistoryTypeOK'
  <1> USE DEF TypeOK, HistoryTypeOK
  <1>1. ASSUME NEW m \in Msg, Publish(m) PROVE HistoryTypeOK'
    BY <1>1 DEF Publish
  <1>2. ASSUME NEW c \in Consumer, Begin(c) \/ Finish(c) PROVE HistoryTypeOK'
    <2>1. env[c].id \in Msg
      BY <1>2 DEF Begin, Finish, PcOK, PcOKOf, Delivered, CommandEnvelope
    <2>. QED
      BY <1>2, <2>1 DEF Begin, Finish, Attempted, runOnly
  <1>3. ASSUME NEW w \in Worker, WorkOnFile(w) PROVE HistoryTypeOK'
    <2>1. PICK n \in Oldest(work[w]) :
             \/ op[w] \in {"recover", "recoverSettling"} /\ RecoverFile(PassDir(op[w]), n)
             \/ op[w] \in {"clearPending", "clearInProgress", "clearSettling", "clearFailed"}
                /\ ClearFile(PassDir(op[w]), n)
             \/ op[w] = "republish" /\ RepublishFile(PassDir(op[w]), n)
      BY <1>3 DEF WorkOnFile
    <2>2. n \in Name
      BY <2>1 DEF Oldest, WorkTypeOK
    <2>3. ASSUME NEW d \in Dir, Exists(d, n) PROVE file[d][n].id \in Msg
      BY <2>2, <2>3 DEF Exists, StoreTypeOK, CommandEnvelope
    <2>. QED
      BY <1>3, <2>1, <2>2, <2>3 DEF WorkOnFile, RecoverFile, ClearFile, RepublishFile, PassDir, Dir
  <1>4. ASSUME NEW c \in Consumer, Step(c), ~Begin(c), ~Finish(c) PROVE HistoryTypeOK'
    BY <1>4 DEF Step, Stop, List, PollAgain, DequeueNone, ClaimNext, Read, MoveUnreadableToFailed,
         Acknowledge, SettleRename, SettleExists, SettleWrite, SettleSync, SettleUndo, SettleRemove,
         SettleDrop, GiveUp, SettleAgain, claimOnly, settleOnly, historyVars
  <1>5. ASSUME NEW t \in Tool, NEW o \in Command, StartCommand(t, o) PROVE HistoryTypeOK'
    BY <1>5 DEF StartCommand, historyVars
  <1>6. ASSUME NEW w \in Worker, FinishPass(w) \/ WorkFails(w) PROVE HistoryTypeOK'
    BY <1>6 DEF FinishPass, WorkFails, historyVars
  <1>7. CASE ServerStart \/ ServerOpen \/ ServerSpawn \/ Cancel \/ ServerStop \/ ServerCrash
    BY <1>7 DEF ServerStart, ServerOpen, ServerSpawn, Cancel, ServerStop, ServerCrash, lifeOnly, historyVars
  <1>8. ASSUME NEW c \in CliConsumer, CliStart(c) \/ CliCrash(c) PROVE HistoryTypeOK'
    BY <1>8 DEF CliStart, CliCrash, lifeOnly, historyVars
  <1>9. CASE UNCHANGED vars
    BY <1>9 DEF vars, historyVars
  <1>. QED
    BY <1>1, <1>2, <1>3, <1>4, <1>5, <1>6, <1>7, <1>8, <1>9 DEF Next

(* The directories, the consumers' memory and the records of what happened *)
(* keep their types in every behaviour; in particular release never takes  *)
(* an attempt count below zero, and settle never meets a delivery, a       *)
(* receipt or a copy that is not there.                                    *)
THEOREM TypeCorrect == Spec => [](TypeOK /\ PcOK /\ ServerTasks)
  <1>1. Init => TypeOK /\ PcOK /\ ServerTasks
    BY TypeInit
  <1>2. TypeOK /\ PcOK /\ ServerTasks /\ [Next]_vars => (TypeOK /\ PcOK /\ ServerTasks)'
    <2> SUFFICES ASSUME TypeOK, PcOK, ServerTasks, [Next]_vars
                 PROVE  TypeOK' /\ PcOK' /\ ServerTasks'
      OBVIOUS
    <2>1. TypeOK'
      BY EveryStepIsFileStep, StoreTypeStep, ConsumerTypeStep, WorkTypeStep, HistoryTypeStep
         DEF TypeOK
    <2>. QED
      BY <2>1, PcStep, ServerTasksStep
  <1>. QED
    BY <1>1, <1>2, PTL DEF Spec

-----------------------------------------------------------------------------
(* Names, and the directory each one is in. *)

(* Where a consumer's receipt and its copy come from. *)
LEMMA HeldNames ==
    ASSUME TypeOK, PcOK, NEW c \in Consumer, Step(c)
    PROVE  /\ \/ name'[c] \in {name[c], 0}
              \/ /\ ClaimNext(c) /\ name'[c] \in Name /\ Exists("pending", name'[c])
                 /\ file' = Renamed("pending", name'[c], "inProgress", name'[c])
           /\ \/ newName'[c] \in {newName[c], 0}
              \/ SettleWrite(c) /\ newName'[c] = nextName /\ UsesNewName
  <1> USE DEF TypeOK, ConsumerTypeOK, Goto, deliveryVars, NoDelivery
  <1>1. CASE ClaimNext(c)
    <2>1. \A n \in Oldest(todo[c]) : n \in Name
      BY DEF Oldest
    <2>. QED
      BY <1>1, <2>1 DEF ClaimNext, Claim
  <1>2. CASE SettleWrite(c)
    BY <1>2 DEF SettleWrite, NewName, UsesNewName
  <1>3. CASE Stop(c) \/ List(c) \/ PollAgain(c) \/ DequeueNone(c) \/ Read(c)
              \/ MoveUnreadableToFailed(c) \/ Begin(c) \/ Finish(c)
    BY <1>3 DEF Stop, List, PollAgain, DequeueNone, Read, MoveUnreadableToFailed, Begin, Finish,
                Attempted, runOnly
  <1>4. CASE Acknowledge(c) \/ SettleRename(c) \/ SettleExists(c) \/ SettleSync(c) \/ SettleUndo(c)
    BY <1>4 DEF Acknowledge, SettleRename, SettleExists, SettleSync, SettleUndo, Settled, Lost,
                Interrupted
  <1>5. CASE SettleRemove(c) \/ SettleDrop(c) \/ GiveUp(c) \/ SettleAgain(c)
    BY <1>5 DEF SettleRemove, SettleDrop, GiveUp, SettleAgain, Settled, Lost
  <1>. QED
    BY <1>1, <1>2, <1>3, <1>4, <1>5 DEF Step

LEMMA NamesInit == Init => NamesUsed /\ OnePlacePerName
  BY DEF Init, StoreInit, NamesUsed, OnePlacePerName, Exists, Name

LEMMA NextNameGrows ==
    ASSUME TypeOK, FileStep
    PROVE  nextName' \in Nat /\ nextName \in Nat /\ nextName' >= nextName
  BY DEF TypeOK, StoreTypeOK, FileStep, UsesNewName, Name

LEMMA NamesStep ==
    ASSUME TypeOK, PcOK, ServerTasks, NamesUsed, OnePlacePerName, [Next]_vars
    PROVE  NamesUsed' /\ OnePlacePerName'
  <1>0. FileStep
    BY EveryStepIsFileStep
  <1>1. StoreTypeOK /\ Name \subseteq Nat
    BY DEF TypeOK, Name
  <1>4. nextName' \in Nat /\ nextName \in Nat /\ nextName' >= nextName
    BY <1>0, NextNameGrows
  <1>5. \A d \in Dir, n \in Name : Exists(d, n) => n < nextName
    BY DEF NamesUsed
  <1>2. /\ \A d \in Dir, n \in Name : Exists(d, n)' => n < nextName'
        /\ OnePlacePerName'
    <2>1. CASE file' = file
      <3>1. \A d \in Dir, n \in Name : Exists(d, n)' <=> Exists(d, n)
        BY <2>1 DEF Exists
      <3>2. \A d \in Dir, n \in Name : Exists(d, n)' => n < nextName'
        BY <1>1, <1>4, <1>5, <3>1
      <3>. QED
        BY <3>1, <3>2 DEF OnePlacePerName
    <2>2. ASSUME NEW d \in Dir, NEW v \in CommandEnvelope, UsesNewName,
                 file' = Written(d, nextName, v)
          PROVE  /\ \A a \in Dir, n \in Name : Exists(a, n)' => n < nextName'
                 /\ OnePlacePerName'
      <3>0. nextName \in Name
        BY <2>2 DEF UsesNewName
      <3>1. \A a \in Dir, x \in Name :
               file'[a][x] = IF a = d /\ x = nextName THEN v ELSE file[a][x]
        BY <1>1, <2>2, <3>0, WrittenFacts
      <3>2. \A a \in Dir, n \in Name : Exists(a, n)' => n = nextName \/ Exists(a, n)
        BY <3>1 DEF Exists
      <3>3. \A a \in Dir : file'[a][nextName] # NoFile => a = d
        BY <2>2, <3>1 DEF Exists, NamesUsed, UsesNewName, Name, TypeOK, StoreTypeOK
      <3>4. \A a \in Dir, k \in Name : Exists(a, k)' => k < nextName'
        BY <1>1, <1>4, <1>5, <2>2, <3>2 DEF UsesNewName
      <3>5. OnePlacePerName'
        BY <3>2, <3>3 DEF Exists, OnePlacePerName
      <3>. QED
        BY <3>4, <3>5
    <2>3. ASSUME NEW d \in Dir, NEW e \in Dir, NEW n \in Name, d # e, Exists(d, n),
                 file' = Renamed(d, n, e, n), nextName' = nextName
          PROVE  /\ \A a \in Dir, k \in Name : Exists(a, k)' => k < nextName'
                 /\ OnePlacePerName'
      <3>1. \A a \in Dir, x \in Name :
               file'[a][x] = IF a = e /\ x = n THEN file[d][n]
                             ELSE IF a = d /\ x = n THEN NoFile ELSE file[a][x]
        BY <1>1, <2>3, RenamedFacts
      <3>2. \A a \in Dir, k \in Name \ {n} : Exists(a, k)' <=> Exists(a, k)
        BY <3>1 DEF Exists
      <3>3. \A a \in Dir : Exists(a, n)' => a = e
        BY <2>3, <3>1 DEF Exists, OnePlacePerName
      <3>. QED
        BY <1>1, <2>3, <3>2, <3>3 DEF OnePlacePerName, NamesUsed
    <2>4. ASSUME NEW d \in Dir, NEW e \in Dir, NEW n \in Name, Exists(d, n), UsesNewName,
                 file' = Renamed(d, n, e, nextName)
          PROVE  /\ \A a \in Dir, k \in Name : Exists(a, k)' => k < nextName'
                 /\ OnePlacePerName'
      <3>0. nextName \in Name
        BY <2>4 DEF UsesNewName
      <3>1. \A a \in Dir, x \in Name :
               file'[a][x] = IF a = e /\ x = nextName THEN file[d][n]
                             ELSE IF a = d /\ x = n THEN NoFile ELSE file[a][x]
        BY <1>1, <2>4, <3>0, RenamedFacts
      <3>2. \A a \in Dir, k \in Name : Exists(a, k)' => k = nextName \/ Exists(a, k)
        BY <3>1 DEF Exists
      <3>3. \A a \in Dir : file'[a][nextName] # NoFile => a = e
        BY <2>4, <3>1 DEF Exists, NamesUsed, UsesNewName, Name, TypeOK, StoreTypeOK
      <3>4. \A a \in Dir, k \in Name : Exists(a, k)' => k < nextName'
        BY <1>1, <1>4, <1>5, <2>4, <3>2 DEF UsesNewName
      <3>5. OnePlacePerName'
        BY <3>2, <3>3 DEF Exists, OnePlacePerName
      <3>. QED
        BY <3>4, <3>5
    <2>5. ASSUME NEW d \in Dir, NEW n \in Name, file' = Removed(d, n), nextName' = nextName
          PROVE  /\ \A a \in Dir, k \in Name : Exists(a, k)' => k < nextName'
                 /\ OnePlacePerName'
      <3>1. \A a \in Dir, x \in Name : Exists(a, x)' => Exists(a, x)
        BY <1>1, <2>5, RemovedFacts DEF Exists
      <3>. QED
        BY <2>5, <3>1 DEF OnePlacePerName, NamesUsed
    <2>. QED
      BY <1>0, <2>1, <2>2, <2>3, <2>4, <2>5 DEF FileStep
  <1>3. \A b \in Consumer : name'[b] < nextName' /\ newName'[b] < nextName'
    <2>1. /\ \A b \in Consumer : /\ name[b] \in Nat /\ newName[b] \in Nat
                                 /\ name[b] < nextName /\ newName[b] < nextName
          /\ 0 < nextName
      BY DEF NamesUsed, TypeOK, ConsumerTypeOK, StoreTypeOK, Name
    <2>2. ASSUME NEW c \in Consumer, Step(c)
          PROVE  name'[c] < nextName' /\ newName'[c] < nextName'
      <3>1. nextName' \in Nat /\ nextName \in Nat /\ nextName' >= nextName
        BY <1>0, NextNameGrows
      <3>2. name'[c] < nextName'
        <4>1. CASE name'[c] \in {name[c], 0}
          BY <2>1, <3>1, <4>1
        <4>2. CASE name'[c] \in Name /\ Exists("pending", name'[c])
          <5>1. "pending" \in Dir
            BY DEF Dir
          <5>2. name'[c] < nextName
            BY <4>2, <5>1 DEF NamesUsed
          <5>3. name'[c] \in Nat
            BY <4>2 DEF Name
          <5>. QED
            BY <3>1, <5>2, <5>3
        <4>. QED
          BY <2>2, <4>1, <4>2, HeldNames
      <3>3. newName'[c] < nextName'
        BY <2>1, <2>2, <3>1, HeldNames DEF UsesNewName
      <3>. QED
        BY <3>2, <3>3
    <2>3. ASSUME NEW c \in Consumer, Step(c), NEW b \in Consumer \ {c}
          PROVE  name'[b] < nextName' /\ newName'[b] < nextName'
      BY <1>0, <2>1, <2>3, StepIsLocal, NextNameGrows DEF Untouched, TypeOK
    <2>4. CASE OtherStep
      BY <1>0, <2>1, <2>4, NextNameGrows DEF OtherStep, Untouched, Restarted
    <2>. QED
      BY <2>2, <2>3, <2>4, StepOrOther
  <1>. QED
    BY <1>2, <1>3 DEF NamesUsed

(* No rename of claim_oldest, move_claimed, recover or republish_failed    *)
(* ever lands on a name that is taken: a message file is in one directory  *)
(* at a time under every interleaving.                                     *)
THEOREM FilesHaveOnePlace == Spec => [](NamesUsed /\ OnePlacePerName)
  <1>1. Init => NamesUsed /\ OnePlacePerName
    BY NamesInit
  <1>2. TypeOK /\ PcOK /\ ServerTasks /\ NamesUsed /\ OnePlacePerName /\ [Next]_vars
          => (NamesUsed /\ OnePlacePerName)'
    BY NamesStep
  <1>. QED
    BY <1>1, <1>2, TypeCorrect, PTL DEF Spec

-----------------------------------------------------------------------------
(* Claims. *)

(* What a rename adds to a directory. *)
LEMMA RenamedAdds ==
    ASSUME StoreTypeOK, NEW d \in Dir, NEW n \in Name, NEW e \in Dir, NEW k \in Name,
           file' = Renamed(d, n, e, k),
           NEW a \in Dir, NEW x \in Name, file[a][x] = NoFile, file'[a][x] # NoFile
    PROVE  a = e /\ x = k /\ file[d][n] # NoFile
  <1>1. Renamed(d, n, e, k)[a][x] =
          IF a = e /\ x = k THEN file[d][n] ELSE IF a = d /\ x = n THEN NoFile ELSE file[a][x]
    BY RenamedFacts
  <1>. QED
    BY <1>1

(* Only a recover puts a file back into pending under a name that is in    *)
(* use; everything else that writes there uses a new name.                 *)
LEMMA PendingGrows ==
    ASSUME TypeOK, PcOK, [Next]_vars,
           NEW n \in Name, ~Exists("pending", n), Exists("pending", n)'
    PROVE  n \in recovered' \/ n = nextName
  <1> "pending" \in Dir /\ "inProgress" \in Dir /\ "settling" \in Dir /\ "failed" \in Dir
    BY DEF Dir
  <1> StoreTypeOK /\ (file' = file => FALSE)
    BY DEF TypeOK, Exists
  <1> USE DEF Exists, storeVars
  <1>1. ASSUME NEW m \in Msg, Publish(m) PROVE n = nextName
    <2>1. nextName \in Name /\ file' = Written("pending", nextName, NewEnvelope(m))
      BY <1>1 DEF Publish, NewName
    <2>2. NewEnvelope(m) \in CommandEnvelope
      BY DEF NewEnvelope, CommandEnvelope
    <2>. QED
      BY <2>1, <2>2, WrittenFacts
  <1>2. ASSUME NEW c \in Consumer, ClaimNext(c) PROVE FALSE
    <2>1. \A k \in Oldest(todo[c]) : k \in Name
      BY DEF Oldest, TypeOK, ConsumerTypeOK
    <2>. QED
      BY <1>2, <2>1, RenamedAdds DEF ClaimNext, Claim
  <1>3. ASSUME NEW c \in Consumer,
               MoveUnreadableToFailed(c) \/ Acknowledge(c) \/ SettleRename(c) \/ SettleUndo(c)
                 \/ SettleRemove(c) \/ SettleDrop(c)
        PROVE  FALSE
    <2>1. name[c] \in Name
      BY <1>3 DEF MoveUnreadableToFailed, Acknowledge, SettleRename, SettleUndo, SettleRemove,
           SettleDrop, TypeOK, ConsumerTypeOK, PcOK, PcOKOf, Claimed, Delivered, Settling, Moving, Copying
    <2>2. CASE MoveUnreadableToFailed(c)
      BY <2>1, <2>2, RenamedAdds DEF MoveUnreadableToFailed, NewName, RenamedIfPresent
    <2>3. CASE Acknowledge(c) \/ SettleRemove(c)
      BY <2>1, <2>3, RemovedFacts DEF Acknowledge, SettleRemove
    <2>4. CASE SettleRename(c)
      BY <2>1, <2>4, RenamedAdds DEF SettleRename
    <2>5. CASE SettleUndo(c)
      BY <2>1, <2>5, RenamedAdds DEF SettleUndo, RenamedIfPresent
    <2>6. CASE SettleDrop(c)
      <3>1. newName[c] \in Name
        BY <2>6 DEF SettleDrop, PcOK, PcOKOf, Copying
      <3>. QED
        BY <2>6, <3>1, RemovedFacts DEF SettleDrop, TargetOf
    <2>. QED
      BY <1>3, <2>2, <2>3, <2>4, <2>5, <2>6
  <1>4. ASSUME NEW c \in Consumer, SettleWrite(c) PROVE n = nextName
    <2>1. env[c] \in CommandEnvelope
      BY <1>4 DEF SettleWrite, PcOK, PcOKOf, Delivered, Settling, Moving
    <2>2. PICK d \in Dir : nextName \in Name /\ file' = Written(d, nextName, env[c])
      BY <1>4 DEF SettleWrite, NewName, TargetOf
    <2>. QED
      BY <2>1, <2>2, WrittenFacts
  <1>5. ASSUME NEW w \in Worker, WorkOnFile(w) PROVE n \in recovered' \/ n = nextName
    <2>1. PICK k \in Oldest(work[w]) :
             \/ op[w] \in {"recover", "recoverSettling"} /\ RecoverFile(PassDir(op[w]), k)
             \/ op[w] \in {"clearPending", "clearInProgress", "clearSettling", "clearFailed"}
                /\ ClearFile(PassDir(op[w]), k)
             \/ op[w] = "republish" /\ RepublishFile(PassDir(op[w]), k)
      BY <1>5 DEF WorkOnFile
    <2>2. k \in Name
      BY <2>1 DEF Oldest, TypeOK, WorkTypeOK
    <2>3. CASE op[w] \in {"recover", "recoverSettling"} /\ RecoverFile(PassDir(op[w]), k)
      BY <2>2, <2>3, RenamedAdds DEF RecoverFile, PassDir, RenamedIfPresent
    <2>4. CASE op[w] \in {"clearPending", "clearInProgress", "clearSettling", "clearFailed"}
               /\ ClearFile(PassDir(op[w]), k)
      BY <2>2, <2>4, RemovedFacts DEF ClearFile, PassDir
    <2>5. CASE op[w] = "republish" /\ RepublishFile(PassDir(op[w]), k)
      BY <2>2, <2>5, RenamedAdds DEF RepublishFile, PassDir, RenamedIfPresent, NewName
    <2>. QED
      BY <2>1, <2>3, <2>4, <2>5
  <1>6. ASSUME NEW c \in Consumer,
               \/ Stop(c) \/ List(c) \/ PollAgain(c) \/ DequeueNone(c) \/ Read(c) \/ Begin(c)
               \/ Finish(c) \/ SettleExists(c) \/ SettleSync(c) \/ GiveUp(c) \/ SettleAgain(c)
        PROVE  FALSE
    BY <1>6 DEF Stop, List, PollAgain, DequeueNone, Read, Begin, Finish, Attempted, runOnly,
                SettleExists, SettleSync, GiveUp, SettleAgain
  <1>7. ASSUME NEW t \in Tool, NEW o \in Command, StartCommand(t, o) PROVE FALSE
    BY <1>7 DEF StartCommand
  <1>8. ASSUME NEW w \in Worker, FinishPass(w) \/ WorkFails(w) PROVE FALSE
    BY <1>8 DEF FinishPass, WorkFails
  <1>9. CASE ServerStart \/ ServerOpen \/ ServerSpawn \/ Cancel \/ ServerStop \/ ServerCrash
    BY <1>9 DEF ServerStart, ServerOpen, ServerSpawn, Cancel, ServerStop, ServerCrash, lifeOnly
  <1>10. ASSUME NEW c \in CliConsumer, CliStart(c) \/ CliCrash(c) PROVE FALSE
    BY <1>10 DEF CliStart, CliCrash, lifeOnly
  <1>11. CASE UNCHANGED vars
    BY <1>11 DEF vars
  <1>. QED
    BY <1>1, <1>2, <1>3, <1>4, <1>5, <1>6, <1>7, <1>8, <1>9, <1>10, <1>11 DEF Next, Step

LEMMA RecoveredGrows ==
    ASSUME [Next]_vars PROVE recovered \subseteq recovered'
  <1>1. ASSUME NEW c \in Consumer, Step(c) PROVE recovered' = recovered
    BY <1>1 DEF Step, Stop, List, PollAgain, DequeueNone, ClaimNext, Read, MoveUnreadableToFailed,
         Begin, Finish, Attempted, Acknowledge, SettleRename, SettleExists, SettleWrite, SettleSync,
         SettleUndo, SettleRemove, SettleDrop, GiveUp, SettleAgain, runOnly, claimOnly, settleOnly,
         historyVars
  <1>2. ASSUME NEW w \in Worker, WorkOnFile(w) PROVE recovered \subseteq recovered'
    BY <1>2 DEF WorkOnFile, RecoverFile, ClearFile, RepublishFile
  <1>. QED
    BY <1>1, <1>2 DEF Next, Publish, StartCommand, FinishPass, WorkFails, ServerStart, ServerOpen, ServerSpawn,
         Cancel, ServerStop, ServerCrash, CliStart, CliCrash, lifeOnly, historyVars, vars

LEMMA ClaimsInit == Init => PendingClaims /\ ClaimIsExclusive
  BY DEF Init, PendingClaims, ClaimIsExclusive, Claimed, Delivered, Settling, Moving, Copying

LEMMA ClaimsStep ==
    ASSUME TypeOK, PcOK, ServerTasks, NamesUsed, PendingClaims, ClaimIsExclusive, [Next]_vars, PcOK'
    PROVE  PendingClaims' /\ ClaimIsExclusive'
  <1>0. /\ StoreTypeOK /\ "pending" \in Dir /\ "inProgress" \in Dir
        /\ \A b \in Consumer : name[b] \in Name \cup {0} /\ name[b] # nextName
    BY DEF TypeOK, ConsumerTypeOK, StoreTypeOK, NamesUsed, Name, Dir
  <1>1. ASSUME NEW b \in Consumer, name'[b] = name[b], name[b] # 0, Exists("pending", name[b])'
        PROVE  name[b] \in recovered'
    <2>1. name[b] \in Name /\ file'["pending"][name[b]] # NoFile
      BY <1>0, <1>1 DEF Exists
    <2>2. CASE Exists("pending", name[b])
      BY <1>1, <2>2, RecoveredGrows DEF PendingClaims, PcOK, PcOKOf
    <2>3. CASE ~Exists("pending", name[b])
      <3>1. ASSUME NEW n \in Name, n = name[b] PROVE n \in recovered' \/ n = nextName
        BY <2>1, <2>3, <3>1, PendingGrows DEF Exists
      <3>. QED
        BY <1>0, <2>1, <3>1
    <2>. QED
      BY <2>2, <2>3
  <1>2. ASSUME NEW c \in Consumer, Step(c) PROVE PendingClaims' /\ ClaimIsExclusive'
    <2>1. \A b \in Consumer \ {c} : name'[b] = name[b]
      BY <1>2, StepIsLocal DEF Untouched, TypeOK
    <2>2. CASE name'[c] \in {name[c], 0}
      BY <1>1, <2>1, <2>2, RecoveredGrows DEF PendingClaims, ClaimIsExclusive, PcOK, PcOKOf, Exists
    <2>3. CASE /\ name'[c] \in Name /\ Exists("pending", name'[c])
               /\ file' = Renamed("pending", name'[c], "inProgress", name'[c])
      <3>1. file'["pending"][name'[c]] = NoFile
        BY <1>0, <2>3, RenamedFacts
      <3>2. PendingClaims'
        BY <1>1, <2>1, <3>1 DEF PendingClaims, PcOK, PcOKOf, Exists
      <3>3. ASSUME NEW b \in Consumer \ {c}, name'[b] = name'[c] PROVE name'[c] \in recovered'
        BY <2>1, <2>3, <3>3, RecoveredGrows DEF PendingClaims, PcOK, PcOKOf, Name
      <3>4. ClaimIsExclusive'
        BY <2>1, <3>3, RecoveredGrows DEF ClaimIsExclusive
      <3>. QED
        BY <3>2, <3>4
    <2>. QED
      BY <1>2, <2>2, <2>3, HeldNames
  <1>3. CASE OtherStep
    <2>1. \A b \in Consumer : name'[b] \in {name[b], 0}
      BY <1>3 DEF OtherStep, Untouched, Restarted
    <2>. QED
      BY <1>1, <2>1, RecoveredGrows DEF PendingClaims, ClaimIsExclusive, PcOK, PcOKOf, Exists
  <1>. QED
    BY <1>2, <1>3, StepOrOther

(* The rename in claim_oldest is the claim: two consumers hold one message *)
(* file only after a recover has given it out a second time.               *)
THEOREM ClaimsAreExclusive == Spec => []ClaimIsExclusive
  <1>1. Init => NamesUsed /\ OnePlacePerName /\ PendingClaims /\ ClaimIsExclusive
    BY NamesInit, ClaimsInit
  <1>2. TypeOK /\ PcOK /\ ServerTasks /\ NamesUsed /\ OnePlacePerName /\ [Next]_vars
          => (NamesUsed /\ OnePlacePerName)'
    BY NamesStep
  <1>3. TypeOK /\ PcOK /\ ServerTasks /\ NamesUsed /\ PendingClaims /\ ClaimIsExclusive
          /\ [Next]_vars /\ PcOK' => (PendingClaims /\ ClaimIsExclusive)'
    BY ClaimsStep
  <1>. QED
    BY <1>1, <1>2, <1>3, TypeCorrect, PTL DEF Spec

-----------------------------------------------------------------------------
(* Attempt counts. *)

LEMMA CountedGrows ==
    ASSUME TypeOK, PcOK, ServerTasks, [Next]_vars, NEW m \in Msg
    PROVE  counted[m] \in Nat /\ counted'[m] \in Nat /\ counted'[m] >= counted[m]
  <1> USE DEF TypeOK, HistoryTypeOK
  <1>1. CASE counted' = counted
    BY <1>1
  <1>2. ASSUME NEW c \in Consumer, Begin(c) \/ Finish(c)
        PROVE  counted[m] \in Nat /\ counted'[m] \in Nat /\ counted'[m] >= counted[m]
    BY <1>2 DEF Begin, Finish, Attempted
  <1>3. ASSUME NEW c \in Consumer, Step(c), ~Begin(c), ~Finish(c) PROVE counted' = counted
    BY <1>3 DEF Step, Stop, List, PollAgain, DequeueNone, ClaimNext, Read, MoveUnreadableToFailed,
         Acknowledge, SettleRename, SettleExists, SettleWrite, SettleSync, SettleUndo, SettleRemove,
         SettleDrop, GiveUp, SettleAgain, claimOnly, settleOnly, historyVars
  <1>. QED
    BY <1>1, <1>2, <1>3, StepOrOther DEF OtherStep

ChargesOf(c) ==
    pc[c] \in Delivered =>
        /\ env[c].attempts <= counted[env[c].id] + 1
        /\ kind[c] \in CountedKind \cup {"interrupted"} => env[c].attempts <= counted[env[c].id]

(* What settle does to the delivery of an attempt of kind k. *)
LEMMA SettledEnvelope ==
    ASSUME ConsumerTypeOK, NEW c \in Consumer, NEW k \in AttemptKind, Settle(c, k),
           env[c] \in CommandEnvelope
    PROVE  env'[c] = IF k = "interrupted" THEN TakeBackAttempt(env[c]) ELSE env[c]
  <1>1. ForAttempt(k, env[c]) = "release" <=> k = "interrupted"
    BY DEF ForAttempt, AttemptKind
  <1>. QED
    BY <1>1 DEF Settle, ConsumerTypeOK

LEMMA StepCharges ==
    ASSUME TypeOK, PcOK, NoAttemptOvercharged, DeliveryCharges, NEW c \in Consumer, Step(c)
    PROVE  ChargesOf(c)'
  <1>0. /\ pc[c] \in Delivered => env[c] \in CommandEnvelope
        /\ ChargesOf(c)
        /\ pc[c] \in Pc /\ kind[c] \in AttemptKind \cup {"none"}
    BY DEF PcOK, PcOKOf, DeliveryCharges, ChargesOf, TypeOK, ConsumerTypeOK
  <1>1. CASE Read(c)
    <2>1. CASE Exists("inProgress", name[c]) /\ pc'[c] = "begin"
      <3>1. name[c] \in Name /\ kind[c] = "none" /\ kind'[c] = "none" /\ counted' = counted
        BY <1>1 DEF Read, PcOK, PcOKOf, Claimed, Settling, Moving, Copying, TypeOK, ConsumerTypeOK,
                    claimOnly, historyVars
      <3>2. file["inProgress"][name[c]] \in CommandEnvelope
        BY <2>1, <3>1 DEF Exists, TypeOK, StoreTypeOK, Dir
      <3>3. env'[c] = CountAttempt(file["inProgress"][name[c]])
        BY <1>1, <2>1 DEF Read, TypeOK, ConsumerTypeOK, Goto
      <3>4. file["inProgress"][name[c]].attempts <= counted[file["inProgress"][name[c]].id]
        BY <2>1, <3>1 DEF NoAttemptOvercharged, Dir
      <3>. QED
        BY <3>1, <3>2, <3>3, <3>4 DEF ChargesOf, CountAttempt, CommandEnvelope, CountedKind,
             TypeOK, HistoryTypeOK
    <2>2. CASE pc'[c] \in {"claim", "unreadable"}
      BY <2>2 DEF ChargesOf, Delivered, Settling, Moving, Copying
    <2>. QED
      BY <1>1, <2>1, <2>2 DEF Read, TypeOK, ConsumerTypeOK, Goto
  <1>2. CASE Begin(c) \/ Finish(c)
    <2>1. env[c] \in CommandEnvelope /\ env[c].attempts <= counted[env[c].id] + 1
      BY <1>0, <1>2 DEF Begin, Finish, ChargesOf, Delivered
    <2>2. ASSUME NEW k \in AttemptKind, Attempted(c, k) PROVE ChargesOf(c)'
      <3>1. env'[c] = IF k = "interrupted" THEN TakeBackAttempt(env[c]) ELSE env[c]
        BY <2>1, <2>2, SettledEnvelope DEF Attempted, TypeOK
      <3>2. /\ kind'[c] = k
            /\ counted'[env[c].id] = IF k \in CountedKind THEN counted[env[c].id] + 1
                                     ELSE counted[env[c].id]
        BY <2>1, <2>2 DEF Attempted, TypeOK, ConsumerTypeOK, HistoryTypeOK, CommandEnvelope
      <3>. QED
        BY <2>1, <3>1, <3>2 DEF ChargesOf, TakeBackAttempt, CommandEnvelope, CountedKind, AttemptKind,
             TypeOK, HistoryTypeOK
    <2>3. CASE pc' = [pc EXCEPT ![c] = "running"] /\ UNCHANGED <<env, kind, counted>>
      BY <1>0, <1>2, <2>1, <2>3 DEF ChargesOf, Begin, Finish, Delivered, CountedKind
    <2>. QED
      BY <1>2, <2>2, <2>3 DEF Begin, Finish, AttemptKind, Goto
  <1>3. CASE SettleAgain(c)
    <2>1. env[c] \in CommandEnvelope /\ kind[c] \in AttemptKind /\ counted' = counted
      BY <1>0, <1>3 DEF SettleAgain, PcOK, PcOKOf, Delivered, Settling, settleOnly, historyVars
    <2>2. env'[c] = (IF kind[c] = "interrupted" THEN TakeBackAttempt(env[c]) ELSE env[c])
          /\ kind' = kind
      BY <1>3, <2>1, SettledEnvelope DEF SettleAgain, TypeOK
    <2>3. /\ env[c].attempts <= counted[env[c].id] + 1
          /\ kind[c] \in CountedKind \cup {"interrupted"} => env[c].attempts <= counted[env[c].id]
      BY <1>0, <1>3 DEF SettleAgain, ChargesOf, Delivered, Settling
    <2>. QED
      BY <2>1, <2>2, <2>3 DEF ChargesOf, TakeBackAttempt, CommandEnvelope, TypeOK, HistoryTypeOK
  <1>4. CASE /\ Step(c) /\ ~Read(c) /\ ~Begin(c) /\ ~Finish(c) /\ ~SettleAgain(c)
    <2>1. /\ counted' = counted
          /\ \/ pc'[c] \notin Delivered
             \/ pc[c] \in Delivered /\ env'[c] = env[c] /\ kind'[c] = kind[c]
      BY <1>4 DEF Step, Stop, List, PollAgain, DequeueNone, ClaimNext, Claim, MoveUnreadableToFailed,
         Acknowledge, SettleRename, SettleExists, SettleWrite, SettleSync, SettleUndo, SettleRemove,
         SettleDrop, GiveUp, Settled, Lost, Interrupted, NoDelivery, Leave, Goto, deliveryVars,
         claimOnly, settleOnly, historyVars, TypeOK, ConsumerTypeOK, Delivered, Settling, Moving, Copying
    <2>. QED
      BY <1>0, <2>1 DEF ChargesOf
  <1>. QED
    BY <1>1, <1>2, <1>3, <1>4

(* A file's content comes from a file, a publisher or a settle. *)
LEMMA ContentOrigin ==
    ASSUME TypeOK, FileStep, NEW a \in Dir, NEW x \in Name, file'[a][x] # NoFile
    PROVE  \/ \E d \in Dir, n \in Name : file[d][n] # NoFile /\ file'[a][x] = file[d][n]
           \/ \E m \in Msg : file'[a][x] = NewEnvelope(m)
           \/ \E c \in Consumer : pc[c] = "write" /\ file'[a][x] = env[c]
  <1> StoreTypeOK
    BY DEF TypeOK
  <1>1. CASE file' = file
    BY <1>1
  <1>2. ASSUME NEW d \in Dir, NEW v \in CommandEnvelope, UsesNewName, file' = Written(d, nextName, v)
        PROVE  file'[a][x] = v \/ file'[a][x] = file[a][x]
    BY <1>2, WrittenFacts DEF UsesNewName
  <1>3. ASSUME NEW d \in Dir, NEW e \in Dir, NEW n \in Name, NEW k \in Name,
               file' = Renamed(d, n, e, k)
        PROVE  file'[a][x] = file[d][n] \/ file'[a][x] = file[a][x]
    <2>1. Renamed(d, n, e, k)[a][x] =
            IF a = e /\ x = k THEN file[d][n] ELSE IF a = d /\ x = n THEN NoFile ELSE file[a][x]
      BY RenamedFacts
    <2>. QED
      BY <1>3, <2>1
  <1>4. ASSUME NEW d \in Dir, NEW n \in Name, file' = Removed(d, n)
        PROVE  file'[a][x] = file[a][x]
    BY <1>4, RemovedFacts
  <1>5. \A c \in Consumer : SettleWrite(c) => pc[c] = "write"
    BY DEF SettleWrite
  <1>. QED
    BY <1>1, <1>2, <1>3, <1>4, <1>5 DEF FileStep, UsesNewName

LEMMA ChargesInit == Init => NoAttemptOvercharged /\ DeliveryCharges
  BY DEF Init, StoreInit, NoAttemptOvercharged, DeliveryCharges, Exists, Delivered, Settling, Moving, Copying

LEMMA ChargesStep ==
    ASSUME TypeOK, PcOK, ServerTasks, NoAttemptOvercharged, DeliveryCharges, [Next]_vars, PcOK'
    PROVE  NoAttemptOvercharged' /\ DeliveryCharges'
  <1>1. NoAttemptOvercharged'
    <2> SUFFICES ASSUME NEW a \in Dir, NEW x \in Name, file'[a][x] # NoFile
                 PROVE  file'[a][x].attempts <= counted'[file'[a][x].id]
      BY DEF NoAttemptOvercharged, Exists
    <2>1. ASSUME NEW v \in CommandEnvelope, v.attempts <= counted[v.id]
          PROVE  v.attempts <= counted'[v.id]
      <3>1. counted[v.id] \in Nat /\ counted'[v.id] \in Nat /\ counted'[v.id] >= counted[v.id]
        BY CountedGrows DEF CommandEnvelope
      <3>. QED
        BY <2>1, <3>1 DEF CommandEnvelope
    <2>2. ASSUME NEW d \in Dir, NEW n \in Name, file[d][n] # NoFile, file'[a][x] = file[d][n]
          PROVE  file'[a][x].attempts <= counted'[file'[a][x].id]
      <3>1. file[d][n] \in CommandEnvelope /\ file[d][n].attempts <= counted[file[d][n].id]
        BY <2>2 DEF NoAttemptOvercharged, Exists, TypeOK, StoreTypeOK
      <3>. QED
        BY <2>1, <2>2, <3>1
    <2>3. ASSUME NEW m \in Msg, file'[a][x] = NewEnvelope(m)
          PROVE  file'[a][x].attempts <= counted'[file'[a][x].id]
      <3>1. NewEnvelope(m).attempts = 0 /\ NewEnvelope(m).id = m
        BY DEF NewEnvelope
      <3>2. counted'[m] \in Nat
        BY CountedGrows
      <3>. QED
        BY <2>3, <3>1, <3>2
    <2>4. ASSUME NEW c \in Consumer, pc[c] = "write", file'[a][x] = env[c]
          PROVE  file'[a][x].attempts <= counted'[file'[a][x].id]
      <3>1. env[c] \in CommandEnvelope /\ kind[c] \in CountedKind \cup {"interrupted"}
        BY <2>4 DEF PcOK, PcOKOf, Delivered, Settling, Moving, TypeOK, ConsumerTypeOK, CountedKind, AttemptKind
      <3>2. env[c].attempts <= counted[env[c].id]
        BY <2>4, <3>1 DEF DeliveryCharges, Delivered, Settling, Moving
      <3>. QED
        BY <2>1, <2>4, <3>1, <3>2
    <2>. QED
      BY <2>2, <2>3, <2>4, EveryStepIsFileStep, ContentOrigin
  <1>2. ASSUME NEW b \in Consumer, Untouched(b) PROVE ChargesOf(b)'
    <2>1. ASSUME pc[b] \in Delivered PROVE ChargesOf(b)'
      <3>1. env[b] \in CommandEnvelope
        BY <2>1 DEF PcOK, PcOKOf
      <3>2. counted[env[b].id] \in Nat /\ counted'[env[b].id] \in Nat
            /\ counted'[env[b].id] >= counted[env[b].id]
        BY <3>1, CountedGrows DEF CommandEnvelope
      <3>. QED
        BY <1>2, <2>1, <3>1, <3>2 DEF Untouched, DeliveryCharges, ChargesOf, CommandEnvelope
    <2>. QED
      BY <1>2, <2>1 DEF Untouched, ChargesOf
  <1>3. \A b \in Consumer : ChargesOf(b)'
    <2>1. ASSUME NEW c \in Consumer, Step(c), NEW b \in Consumer PROVE ChargesOf(b)'
      BY <1>2, <2>1, StepCharges, StepIsLocal DEF TypeOK
    <2>2. ASSUME OtherStep, NEW b \in Consumer PROVE ChargesOf(b)'
      BY <1>2, <2>2 DEF OtherStep, Restarted, ChargesOf, Delivered, Settling, Moving, Copying
    <2>. QED
      BY <2>1, <2>2, StepOrOther
  <1>. QED
    BY <1>1, <1>3 DEF DeliveryCharges, ChargesOf

(* No message is charged for an attempt that did not fail, so none is      *)
(* moved to failed before its first run and all its retries have failed.   *)
THEOREM AttemptsAreFair == Spec => []FairAttempts
  <1>1. Init => NoAttemptOvercharged /\ DeliveryCharges
    BY ChargesInit
  <1>2. TypeOK /\ PcOK /\ ServerTasks /\ NoAttemptOvercharged /\ DeliveryCharges /\ [Next]_vars /\ PcOK'
          => (NoAttemptOvercharged /\ DeliveryCharges)'
    BY ChargesStep
  <1>3. TypeOK /\ PcOK /\ DeliveryCharges => FailsOnlyAfterRetries
    <2> SUFFICES ASSUME TypeOK, PcOK, DeliveryCharges, NEW c \in Consumer,
                        kind[c] = "commandFailed", ForAttempt(kind[c], env[c]) = "moveToFailed"
                 PROVE  counted[env[c].id] > MaxRetries[env[c].id]
      BY DEF FailsOnlyAfterRetries
    <2>1. env[c] \in CommandEnvelope /\ pc[c] \in Delivered
      BY DEF PcOK, PcOKOf, Delivered, TypeOK, ConsumerTypeOK
    <2>2. env[c].attempts <= counted[env[c].id]
      BY <2>1 DEF DeliveryCharges, CountedKind
    <2>3. ~HasRetriesLeft(env[c])
      BY DEF ForAttempt
    <2>. QED
      BY <2>1, <2>2, <2>3 DEF HasRetriesLeft, CommandEnvelope, TypeOK, HistoryTypeOK
  <1>4. NoAttemptOvercharged /\ FailsOnlyAfterRetries => FairAttempts
    BY DEF FairAttempts
  <1>. QED
    BY <1>1, <1>2, <1>3, <1>4, TypeCorrect, PTL DEF Spec

-----------------------------------------------------------------------------
(* No message is lost. *)

(* A delivery is a read of the claimed file, and stays with its message    *)
(* and its receipt until it is settled or given up.                        *)
LEMMA DeliveryStep ==
    ASSUME TypeOK, PcOK, NEW c \in Consumer, Step(c), pc'[c] \in Delivered
    PROVE  \/ pc[c] \in Delivered /\ name'[c] = name[c] /\ env'[c].id = env[c].id
           \/ /\ name'[c] = name[c] /\ name[c] \in Name /\ file' = file
              /\ file["inProgress"][name[c]] \in CommandEnvelope
              /\ env'[c].id = file["inProgress"][name[c]].id
  <1> USE DEF TypeOK, ConsumerTypeOK, Goto
  <1>1. CASE Read(c)
    <2>1. name[c] \in Name /\ name'[c] = name[c] /\ file' = file
          /\ Exists("inProgress", name[c])
          /\ env'[c] = CountAttempt(file["inProgress"][name[c]])
      BY <1>1 DEF Read, PcOK, PcOKOf, Claimed, storeVars, Delivered, Settling, Moving, Copying
    <2>2. file["inProgress"][name[c]] \in CommandEnvelope
      BY <2>1 DEF Exists, StoreTypeOK, Dir
    <2>. QED
      BY <2>1, <2>2 DEF CountAttempt, CommandEnvelope
  <1>2. CASE Begin(c) \/ Finish(c)
    <2>1. pc[c] \in Delivered /\ env[c] \in CommandEnvelope
      BY <1>2 DEF Begin, Finish, PcOK, PcOKOf, Delivered
    <2>2. ASSUME NEW k \in AttemptKind, Attempted(c, k)
          PROVE  name' = name /\ env'[c].id = env[c].id
      BY <2>1, <2>2, SettledEnvelope DEF Attempted, runOnly, TakeBackAttempt, CommandEnvelope
    <2>. QED
      BY <1>2, <2>1, <2>2 DEF Begin, Finish, AttemptKind, runOnly
  <1>3. CASE SettleAgain(c)
    <2>1. pc[c] \in Delivered /\ env[c] \in CommandEnvelope /\ kind[c] \in AttemptKind
      BY <1>3 DEF SettleAgain, PcOK, PcOKOf, Delivered, Settling
    <2>. QED
      BY <1>3, <2>1, SettledEnvelope DEF SettleAgain, TakeBackAttempt, CommandEnvelope
  <1>4. CASE ~Read(c) /\ ~Begin(c) /\ ~Finish(c) /\ ~SettleAgain(c)
    BY <1>4 DEF Step, Stop, List, PollAgain, DequeueNone, ClaimNext, Claim, MoveUnreadableToFailed,
       Acknowledge, SettleRename, SettleExists, SettleWrite, SettleSync, SettleUndo, SettleRemove,
       SettleDrop, GiveUp, Settled, Lost, Interrupted, NoDelivery, Leave, deliveryVars,
       Delivered, Settling, Moving, Copying
  <1>. QED
    BY <1>1, <1>2, <1>3, <1>4

(* A consumer has a copy because it had it before or has just written it. *)
LEMMA CopyStep ==
    ASSUME TypeOK, PcOK, NEW c \in Consumer, Step(c), pc'[c] \in Copying
    PROVE  /\ name'[c] = name[c] /\ env'[c] = env[c]
           /\ \/ /\ pc[c] \in Copying /\ newName'[c] = newName[c]
                 /\ pc'[c] \in {"sync", "remove"} => pc[c] \in {"sync", "remove"}
              \/ /\ SettleWrite(c) /\ UsesNewName /\ newName'[c] = nextName
                 /\ \E d \in Dir : file' = Written(d, nextName, env[c])
  <1> USE DEF TypeOK, ConsumerTypeOK, Goto, Copying
  <1>1. CASE SettleWrite(c)
    BY <1>1 DEF SettleWrite, NewName, UsesNewName, TargetOf, Dir
  <1>2. CASE Begin(c) \/ Finish(c)
    BY <1>2 DEF Begin, Finish, Attempted, Settle
  <1>3. CASE ~SettleWrite(c) /\ ~Begin(c) /\ ~Finish(c)
    BY <1>3 DEF Step, Stop, List, PollAgain, DequeueNone, ClaimNext, Claim, Read,
       MoveUnreadableToFailed, Acknowledge, SettleRename, SettleExists, SettleSync, SettleUndo,
       SettleRemove, SettleDrop, GiveUp, SettleAgain, Settle, Settled, Lost, Interrupted, NoDelivery,
       Leave, deliveryVars
  <1>. QED
    BY <1>1, <1>2, <1>3

(* A name that is in use keeps its content wherever the file goes. *)
LEMMA NameKeepsContent ==
    ASSUME TypeOK, FileStep, NEW a \in Dir, NEW x \in Name, x # nextName, file'[a][x] # NoFile
    PROVE  \E d \in Dir : file[d][x] = file'[a][x]
  <1> StoreTypeOK
    BY DEF TypeOK
  <1>1. CASE file' = file
    BY <1>1
  <1>2. ASSUME NEW d \in Dir, NEW v \in CommandEnvelope, UsesNewName, file' = Written(d, nextName, v)
        PROVE  file'[a][x] = file[a][x]
    BY <1>2, WrittenFacts DEF UsesNewName
  <1>3. ASSUME NEW d \in Dir, NEW e \in Dir, NEW n \in Name, NEW k \in Name,
               file' = Renamed(d, n, e, k), k = n \/ k = nextName
        PROVE  \E q \in Dir : file[q][x] = file'[a][x]
    <2>1. Renamed(d, n, e, k)[a][x] =
            IF a = e /\ x = k THEN file[d][n] ELSE IF a = d /\ x = n THEN NoFile ELSE file[a][x]
      BY RenamedFacts
    <2>. QED
      BY <1>3, <2>1
  <1>4. ASSUME NEW d \in Dir, NEW n \in Name, file' = Removed(d, n)
        PROVE  file'[a][x] = file[a][x]
    BY <1>4, RemovedFacts
  <1>. QED
    BY <1>1, <1>2, <1>3, <1>4 DEF FileStep, UsesNewName

LEMMA CopiesStep ==
    ASSUME TypeOK, PcOK, ServerTasks, NamesUsed, CopiesAreNew, [Next]_vars
    PROVE  CopiesAreNew'
  <1>0. nextName \in Nat /\ \A b \in Consumer : /\ name[b] \in Nat /\ newName[b] \in Nat
                                                /\ name[b] < nextName /\ newName[b] < nextName
    BY DEF NamesUsed, TypeOK, ConsumerTypeOK, StoreTypeOK, Name
  <1>1. ASSUME NEW c \in Consumer, Step(c) PROVE CopiesAreNew'
    <2>1. \A b \in Consumer \ {c} : pc'[b] = pc[b] /\ name'[b] = name[b] /\ newName'[b] = newName[b]
      BY <1>1, StepIsLocal DEF Untouched, TypeOK
    <2>2. pc'[c] \in Copying => /\ name'[c] = name[c]
                                /\ newName'[c] = nextName \/ (pc[c] \in Copying /\ newName'[c] = newName[c])
      BY <1>1, CopyStep
    <2>. QED
      BY <1>0, <2>1, <2>2 DEF CopiesAreNew
  <1>2. CASE OtherStep
    BY <1>2 DEF OtherStep, Untouched, Restarted, CopiesAreNew, Copying
  <1>. QED
    BY <1>1, <1>2, StepOrOther

LEMMA SameMessageStep ==
    ASSUME TypeOK, PcOK, ServerTasks, NamesUsed, OnePlacePerName, SameMessage, [Next]_vars
    PROVE  SameMessage'
  <1>0. /\ FileStep /\ StoreTypeOK
        /\ \A b \in Consumer : /\ pc[b] \in Delivered => name[b] \in Name
                               /\ pc[b] \in Copying => newName[b] \in Name /\ pc[b] \in Delivered
                               /\ name[b] # nextName /\ newName[b] # nextName
    BY EveryStepIsFileStep DEF TypeOK, ConsumerTypeOK, StoreTypeOK, NamesUsed, Name, PcOK, PcOKOf,
         Claimed, Delivered, Settling, Moving
  <1>1. ASSUME NEW b \in Consumer, NEW a \in Dir, pc[b] \in Delivered, file'[a][name[b]] # NoFile
        PROVE  file'[a][name[b]].id = env[b].id
    <2>1. PICK d \in Dir : file[d][name[b]] = file'[a][name[b]]
      BY <1>0, <1>1, NameKeepsContent
    <2>. QED
      BY <1>1, <2>1 DEF SameMessage, Exists
  <1>2. ASSUME NEW b \in Consumer, NEW a \in Dir, pc[b] \in Copying, file'[a][newName[b]] # NoFile
        PROVE  file'[a][newName[b]].id = env[b].id
    <2>1. PICK d \in Dir : file[d][newName[b]] = file'[a][newName[b]]
      BY <1>0, <1>2, NameKeepsContent
    <2>. QED
      BY <1>2, <2>1 DEF SameMessage, Exists
  <1>3. ASSUME NEW b \in Consumer, Untouched(b), NEW a \in Dir
        PROVE  /\ pc'[b] \in Delivered /\ file'[a][name'[b]] # NoFile
                    => file'[a][name'[b]].id = env'[b].id
               /\ pc'[b] \in Copying /\ file'[a][newName'[b]] # NoFile
                    => file'[a][newName'[b]].id = env'[b].id
    BY <1>1, <1>2, <1>3 DEF Untouched
  <1>4. ASSUME NEW c \in Consumer, Step(c), NEW a \in Dir
        PROVE  /\ pc'[c] \in Delivered /\ file'[a][name'[c]] # NoFile
                    => file'[a][name'[c]].id = env'[c].id
               /\ pc'[c] \in Copying /\ file'[a][newName'[c]] # NoFile
                    => file'[a][newName'[c]].id = env'[c].id
    <2>1. ASSUME pc'[c] \in Delivered, file'[a][name'[c]] # NoFile
          PROVE  file'[a][name'[c]].id = env'[c].id
      <3>1. CASE pc[c] \in Delivered /\ name'[c] = name[c] /\ env'[c].id = env[c].id
        BY <1>1, <2>1, <3>1
      <3>2. CASE /\ name'[c] = name[c] /\ name[c] \in Name /\ file' = file
                 /\ file["inProgress"][name[c]] \in CommandEnvelope
                 /\ env'[c].id = file["inProgress"][name[c]].id
        BY <2>1, <3>2 DEF OnePlacePerName, Exists, Dir
      <3>. QED
        BY <1>4, <2>1, <3>1, <3>2, DeliveryStep
    <2>2. ASSUME pc'[c] \in Copying, file'[a][newName'[c]] # NoFile
          PROVE  file'[a][newName'[c]].id = env'[c].id
      <3>1. CASE pc[c] \in Copying /\ newName'[c] = newName[c] /\ env'[c] = env[c]
        BY <1>2, <2>2, <3>1
      <3>2. ASSUME NEW d \in Dir, UsesNewName, newName'[c] = nextName, env'[c] = env[c],
                   file' = Written(d, nextName, env[c]), SettleWrite(c)
            PROVE  file'[a][newName'[c]].id = env'[c].id
        <4>1. env[c] \in CommandEnvelope
          BY <3>2 DEF SettleWrite, PcOK, PcOKOf, Delivered, Settling, Moving
        <4>2. file[a][nextName] = NoFile
          BY <3>2 DEF UsesNewName, NamesUsed, Exists, Name
        <4>3. file'[a][nextName] = IF a = d THEN env[c] ELSE file[a][nextName]
          BY <1>0, <3>2, <4>1, WrittenFacts DEF UsesNewName
        <4>. QED
          BY <2>2, <3>2, <4>2, <4>3
      <3>. QED
        BY <1>4, <2>2, <3>1, <3>2, CopyStep
    <2>. QED
      BY <2>1, <2>2
  <1>5. ASSUME NEW c \in Consumer, Step(c) PROVE SameMessage'
    <2>1. \A b \in Consumer \ {c} : Untouched(b)
      BY <1>5, StepIsLocal DEF TypeOK
    <2>. QED
      BY <1>3, <1>4, <1>5, <2>1 DEF SameMessage, Exists
  <1>6. CASE OtherStep
    BY <1>3, <1>6 DEF OtherStep, Restarted, SameMessage, Exists, Delivered, Settling, Moving, Copying
  <1>. QED
    BY <1>5, <1>6, StepOrOther

LEMMA EndedGrows ==
    ASSUME TypeOK, PcOK, ServerTasks, [Next]_vars
    PROVE  succeeded \subseteq succeeded' /\ cleared \subseteq cleared'
  <1>1. succeeded \subseteq succeeded'
    <2>1. ASSUME NEW c \in Consumer, Begin(c) \/ Finish(c) PROVE succeeded \subseteq succeeded'
      BY <2>1 DEF Begin, Finish, Attempted
    <2>2. ASSUME NEW c \in Consumer, Step(c), ~Begin(c), ~Finish(c) PROVE succeeded' = succeeded
      BY <2>2 DEF Step, Stop, List, PollAgain, DequeueNone, ClaimNext, Read, MoveUnreadableToFailed,
         Acknowledge, SettleRename, SettleExists, SettleWrite, SettleSync, SettleUndo, SettleRemove,
         SettleDrop, GiveUp, SettleAgain, claimOnly, settleOnly, historyVars
    <2>. QED
      BY <2>1, <2>2, StepOrOther DEF OtherStep
  <1>2. cleared \subseteq cleared'
    <2>1. ASSUME NEW c \in Consumer, Step(c) PROVE cleared' = cleared
      BY <2>1 DEF Step, Stop, List, PollAgain, DequeueNone, ClaimNext, Read, MoveUnreadableToFailed,
         Begin, Finish, Attempted, Acknowledge, SettleRename, SettleExists, SettleWrite, SettleSync,
         SettleUndo, SettleRemove, SettleDrop, GiveUp, SettleAgain, runOnly, claimOnly, settleOnly,
         historyVars
    <2>2. ASSUME NEW w \in Worker, WorkOnFile(w) PROVE cleared \subseteq cleared'
      BY <2>2 DEF WorkOnFile, RecoverFile, ClearFile, RepublishFile
    <2>. QED
      BY <2>1, <2>2 DEF Next, Publish, StartCommand, FinishPass, WorkFails, ServerStart, ServerOpen, ServerSpawn,
           Cancel, ServerStop, ServerCrash, CliStart, CliCrash, lifeOnly, historyVars, vars
  <1>. QED
    BY <1>1, <1>2

LEMMA SuccessStep ==
    ASSUME TypeOK, PcOK, ServerTasks, SuccessRecorded, [Next]_vars
    PROVE  SuccessRecorded'
  <1>1. ASSUME NEW c \in Consumer, Step(c), kind'[c] = "succeeded"
        PROVE  env'[c].id \in succeeded'
    <2>1. CASE Begin(c) \/ Finish(c)
      <3>1. env[c] \in CommandEnvelope /\ kind[c] = "none"
        BY <2>1 DEF Begin, Finish, PcOK, PcOKOf, Delivered, Settling, Moving, Copying
      <3>2. ASSUME NEW k \in AttemptKind, Attempted(c, k) PROVE env'[c].id \in succeeded'
        BY <1>1, <3>1, <3>2, SettledEnvelope DEF Attempted, TypeOK, ConsumerTypeOK
      <3>. QED
        BY <1>1, <2>1, <3>1, <3>2 DEF Begin, Finish, AttemptKind
    <2>2. CASE SettleAgain(c)
      <3>1. env[c] \in CommandEnvelope /\ kind[c] \in AttemptKind /\ kind' = kind
        BY <2>2 DEF SettleAgain, PcOK, PcOKOf, Delivered, Settling, TypeOK, ConsumerTypeOK
      <3>2. env'[c] = env[c]
        BY <1>1, <2>2, <3>1, SettledEnvelope DEF SettleAgain, TypeOK
      <3>. QED
        BY <1>1, <3>1, <3>2, EndedGrows DEF SuccessRecorded
    <2>3. CASE ~Begin(c) /\ ~Finish(c) /\ ~SettleAgain(c)
      <3>1. kind[c] = "succeeded" /\ (env'[c] = env[c] \/ pc[c] = "read")
        BY <1>1, <2>3 DEF Step, Stop, List, PollAgain, DequeueNone, ClaimNext, Claim, Read,
           MoveUnreadableToFailed, Acknowledge, SettleRename, SettleExists, SettleWrite, SettleSync,
           SettleUndo, SettleRemove, SettleDrop, GiveUp, Settled, Lost, Interrupted, NoDelivery,
           deliveryVars, TypeOK, ConsumerTypeOK
      <3>. QED
        BY <3>1, EndedGrows DEF SuccessRecorded, PcOK, PcOKOf, Settling, Moving, Copying
    <2>. QED
      BY <2>1, <2>2, <2>3
  <1>2. ASSUME NEW c \in Consumer, Step(c) PROVE SuccessRecorded'
    <2>1. \A b \in Consumer \ {c} : Untouched(b)
      BY <1>2, StepIsLocal DEF TypeOK
    <2>. QED
      BY <1>1, <1>2, <2>1, EndedGrows DEF Untouched, SuccessRecorded
  <1>3. CASE OtherStep
    BY <1>3, EndedGrows DEF OtherStep, Untouched, Restarted, SuccessRecorded
  <1>. QED
    BY <1>2, <1>3, StepOrOther

(* The copies in the making after a step: those of before, less some,      *)
(* unless the step is the write of a new one.                              *)
NoNewCopy ==
    \A b \in Consumer : pc'[b] \in Copying =>
        /\ pc[b] \in Copying /\ newName'[b] = newName[b] /\ env'[b] = env[b]
        /\ pc'[b] \in {"sync", "remove"} => pc[b] \in {"sync", "remove"}

LEMMA NewCopyIsWritten ==
    ASSUME TypeOK, PcOK, ServerTasks, [Next]_vars, \A c \in Consumer : ~SettleWrite(c)
    PROVE  NoNewCopy
  <1>1. ASSUME NEW c \in Consumer, Step(c) PROVE NoNewCopy
    <2>1. \A b \in Consumer \ {c} : Untouched(b)
      BY <1>1, StepIsLocal DEF TypeOK
    <2>. QED
      BY <1>1, <2>1, CopyStep DEF NoNewCopy, Untouched
  <1>2. CASE OtherStep
    BY <1>2 DEF OtherStep, Untouched, Restarted, NoNewCopy, Copying
  <1>. QED
    BY <1>1, <1>2, StepOrOther

(* What a step does to the file that holds a message: a removal may take   *)
(* it, a rename under a new name replaces it by a newer one.               *)
LEMMA HoldsStep ==
    ASSUME TypeOK, NamesUsed, OnePlacePerName, FileStep, NEW x \in Name, NEW m \in Msg, Holds(x, m)
    PROVE  \/ Holds(x, m)'
           \/ /\ nextName \in Name /\ x < nextName
              /\ \E a \in Dir : file'[a][nextName] # NoFile /\ file'[a][nextName].id = m
              /\ \E d, e \in Dir : file' = Renamed(d, x, e, nextName)
           \/ \E d \in Dir : /\ file[d][x] # NoFile /\ file[d][x].id = m
                             /\ file' = Removed(d, x) /\ RemovalReason(d, x)
  <1> StoreTypeOK
    BY DEF TypeOK
  <1>0. PICK q \in Dir : file[q][x] # NoFile /\ file[q][x].id = m
    BY DEF Holds, Exists
  <1>1. CASE file' = file
    BY <1>0, <1>1 DEF Holds, Exists
  <1>2. ASSUME NEW d \in Dir, NEW v \in CommandEnvelope, UsesNewName, file' = Written(d, nextName, v)
        PROVE  Holds(x, m)'
    <2>1. x # nextName
      BY <1>0, <1>2 DEF NamesUsed, Exists, TypeOK, StoreTypeOK
    <2>2. file'[q][x] = file[q][x]
      BY <1>2, <2>1, WrittenFacts DEF UsesNewName
    <2>. QED
      BY <1>0, <2>2 DEF Holds, Exists
  <1>3. ASSUME NEW d \in Dir, NEW e \in Dir, NEW n \in Name, d # e, Exists(d, n),
               file' = Renamed(d, n, e, n)
        PROVE  Holds(x, m)'
    <2>1. \A a \in Dir : file'[a][x] = IF a = e /\ x = n THEN file[d][n]
                                       ELSE IF a = d /\ x = n THEN NoFile ELSE file[a][x]
      BY <1>3, RenamedFacts
    <2>2. CASE x # n
      BY <1>0, <2>1, <2>2 DEF Holds, Exists
    <2>3. CASE x = n
      <3>1. q = d
        BY <1>0, <1>3, <2>3 DEF OnePlacePerName, Exists
      <3>. QED
        BY <1>0, <2>1, <2>3, <3>1 DEF Holds, Exists
    <2>. QED
      BY <2>2, <2>3
  <1>4. ASSUME NEW d \in Dir, NEW e \in Dir, NEW n \in Name, Exists(d, n), UsesNewName,
               file' = Renamed(d, n, e, nextName)
        PROVE  \/ Holds(x, m)'
               \/ /\ x < nextName /\ x = n
                  /\ \E a \in Dir : file'[a][nextName] # NoFile /\ file'[a][nextName].id = m
    <2>0. x < nextName /\ x # nextName
      BY <1>0 DEF NamesUsed, Exists, Name, TypeOK, StoreTypeOK
    <2>1. \A a \in Dir, k \in Name :
             file'[a][k] = IF a = e /\ k = nextName THEN file[d][n]
                           ELSE IF a = d /\ k = n THEN NoFile ELSE file[a][k]
      <3>1. nextName \in Name
        BY <1>4 DEF UsesNewName
      <3>2. PICK z \in Name : z = nextName
        BY <3>1
      <3>3. ASSUME NEW a \in Dir, NEW y \in Name
            PROVE  Renamed(d, n, e, z)[a][y] =
                     IF a = e /\ y = z THEN file[d][n]
                     ELSE IF a = d /\ y = n THEN NoFile ELSE file[a][y]
        BY DEF Renamed, TypeOK, StoreTypeOK
      <3>. QED
        BY <1>4, <3>2, <3>3
    <2>2. CASE x # n
      <3>1. file'[q][x] = file[q][x]
        BY <2>0, <2>1, <2>2
      <3>. QED
        BY <1>0, <3>1 DEF Holds, Exists
    <2>3. CASE x = n
      <3>1. q = d
        BY <1>0, <1>4, <2>3 DEF OnePlacePerName, Exists
      <3>2. file'[e][nextName] = file[d][n]
        BY <1>4, <2>1 DEF UsesNewName
      <3>. QED
        BY <1>0, <2>0, <2>3, <3>1, <3>2
    <2>. QED
      BY <2>2, <2>3
  <1>5. ASSUME NEW d \in Dir, NEW n \in Name, file' = Removed(d, n), RemovalReason(d, n)
        PROVE  \/ Holds(x, m)'
               \/ \E a \in Dir : /\ file[a][x] # NoFile /\ file[a][x].id = m
                                 /\ file' = Removed(a, x) /\ RemovalReason(a, x)
    <2>1. file'[q][x] = IF q = d /\ x = n THEN NoFile ELSE file[q][x]
      BY <1>5, RemovedFacts
    <2>2. CASE q = d /\ x = n
      BY <1>0, <1>5, <2>2
    <2>3. CASE ~(q = d /\ x = n)
      BY <1>0, <2>1, <2>3 DEF Holds, Exists
    <2>. QED
      BY <2>2, <2>3
  <1>. QED
    BY <1>1, <1>2, <1>3, <1>4, <1>5 DEF FileStep, UsesNewName

(* The step after which a message that has not ended needs a new witness:  *)
(* its file has gone, and a newer one is there, unless the file was the    *)
(* copy of a settle that drops it.                                         *)
LossInv ==
    /\ TypeOK /\ PcOK /\ ServerTasks /\ NamesUsed /\ OnePlacePerName
    /\ SameMessage /\ CopiesAreNew /\ SuccessRecorded /\ KeptFile /\ CopyFollows

LEMMA KeptStep ==
    ASSUME LossInv, [Next]_vars, NEW n \in Name, n < nextName, Kept(n)
    PROVE  Kept(n)'
  <1>0. TypeOK /\ PcOK /\ ServerTasks
    BY DEF LossInv
  <1>1. ASSUME NEW c \in Consumer, Step(c) PROVE Kept(n)'
    <2>1. \A b \in Consumer \ {c} : Untouched(b)
      BY <1>0, <1>1, StepIsLocal DEF TypeOK
    <2>2. pc'[c] \in Copying => newName'[c] = nextName \/ (pc[c] \in Copying /\ newName'[c] = newName[c])
      BY <1>0, <1>1, CopyStep
    <2>3. nextName # n
      BY <1>0 DEF TypeOK, StoreTypeOK, Name
    <2>. QED
      BY <2>1, <2>2, <2>3 DEF Untouched, Kept
  <1>2. CASE OtherStep
    BY <1>2 DEF OtherStep, Untouched, Restarted, Kept, Copying
  <1>. QED
    BY <1>0, <1>1, <1>2, StepOrOther

LEMMA FollowStep ==
    ASSUME LossInv, [Next]_vars, \A c \in Consumer : ~SettleWrite(c),
           NEW x \in Name, NEW m \in Msg, Holds(x, m), ~Ended(m)'
    PROVE  \/ Holds(x, m)'
           \/ \E y \in Name : y > x /\ Holds(y, m)' /\ Kept(y)'
           \/ \E c \in Consumer : SettleDrop(c) /\ pc'[c] \in {"idle", "stopped"} /\ x = newName[c]
  <1>0. /\ TypeOK /\ PcOK /\ ServerTasks /\ NamesUsed /\ OnePlacePerName
        /\ StoreTypeOK /\ FileStep /\ NoNewCopy
    BY EveryStepIsFileStep, NewCopyIsWritten DEF LossInv, TypeOK
  <1>1. ASSUME nextName \in Name, x < nextName, NEW a \in Dir,
               file'[a][nextName] # NoFile, file'[a][nextName].id = m
        PROVE  \E y \in Name : y > x /\ Holds(y, m)' /\ Kept(y)'
    <2>1. \A b \in Consumer : newName[b] # nextName
      BY <1>0 DEF NamesUsed, TypeOK, ConsumerTypeOK, StoreTypeOK, Name
    <2>2. \A b \in Consumer : pc'[b] \in Copying => newName'[b] # nextName
      BY <1>0, <2>1 DEF NoNewCopy
    <2>3. PICK y \in Name : y = nextName
      BY <1>1
    <2>4. Kept(y)'
      BY <2>2, <2>3 DEF Kept
    <2>5. Holds(y, m)'
      BY <1>1, <2>3 DEF Holds, Exists
    <2>. QED
      BY <1>1, <2>3, <2>4, <2>5 DEF Name, StoreTypeOK
  <1>2. ASSUME NEW d \in Dir, file[d][x] # NoFile, file[d][x].id = m,
               file' = Removed(d, x), RemovalReason(d, x)
        PROVE  \/ \E y \in Name : y > x /\ Holds(y, m)' /\ Kept(y)'
               \/ \E c \in Consumer :
                    SettleDrop(c) /\ pc'[c] \in {"idle", "stopped"} /\ x = newName[c]
    <2>0. succeeded \subseteq succeeded' /\ cleared \subseteq cleared'
      BY <1>0, EndedGrows
    <2>1. ASSUME NEW c \in Consumer, Acknowledge(c), x = name[c] PROVE FALSE
      <3>1. kind[c] = "succeeded" /\ pc[c] \in Delivered
        BY <1>0, <2>1 DEF Acknowledge, PcOK, PcOKOf, Delivered, Settling
      <3>2. env[c].id = m /\ m \in succeeded
        BY <1>2, <2>1, <3>1 DEF LossInv, SameMessage, SuccessRecorded, Exists
      <3>. QED
        BY <2>0, <3>2 DEF Ended
    <2>2. ASSUME NEW c \in Consumer, SettleRemove(c), pc'[c] = "idle", x = name[c]
          PROVE  \E y \in Name : y > x /\ Holds(y, m)' /\ Kept(y)'
      <3>1. pc[c] = "remove" /\ pc[c] \in Copying /\ pc[c] \in Delivered
        BY <2>2 DEF SettleRemove, Copying, Delivered, Settling, Moving
      <3>2. env[c].id = m
        BY <1>2, <2>2, <3>1 DEF LossInv, SameMessage, Exists
      <3>3. PICK y \in Name : y >= newName[c] /\ Holds(y, m) /\ (y = newName[c] \/ Kept(y))
        BY <2>0, <3>1, <3>2 DEF LossInv, CopyFollows, Ended
      <3>4. newName[c] \in Name /\ name[c] < newName[c]
        BY <1>0, <3>1 DEF LossInv, CopiesAreNew, PcOK, PcOKOf
      <3>5. y > x
        BY <2>2, <3>3, <3>4 DEF Name
      <3>6. Holds(y, m)'
        <4>1. \A a \in Dir : Removed(d, x)[a][y] = IF a = d /\ y = x THEN NoFile ELSE file[a][y]
          BY <1>0, RemovedFacts
        <4>2. \A a \in Dir : file'[a][y] = file[a][y]
          BY <1>2, <3>5, <4>1 DEF Name
        <4>. QED
          BY <3>3, <4>2 DEF Holds, Exists
      <3>7. Kept(y)'
        <4>1. ASSUME NEW b \in Consumer, pc'[b] \in Copying PROVE newName'[b] # y
          <5>1. b # c /\ pc[b] \in Copying /\ newName'[b] = newName[b]
            BY <1>0, <2>2, <4>1 DEF NoNewCopy, Copying
          <5>2. newName[b] # newName[c]
            BY <3>1, <5>1 DEF LossInv, CopiesAreNew
          <5>. QED
            BY <3>3, <5>1, <5>2 DEF Kept
        <4>. QED
          BY <4>1 DEF Kept
      <3>. QED
        BY <3>5, <3>6, <3>7
    <2>3. ASSUME Exists(d, x) => file[d][x].id \in cleared' PROVE FALSE
      BY <1>2, <2>3 DEF Ended, Exists
    <2>. QED
      BY <1>2, <2>1, <2>2, <2>3 DEF RemovalReason
  <1>. QED
    BY <1>0, <1>1, <1>2, HoldsStep

LEMMA LossStep ==
    ASSUME LossInv, [Next]_vars
    PROVE  KeptFile' /\ CopyFollows'
  <1>0. /\ TypeOK /\ PcOK /\ ServerTasks /\ NamesUsed /\ OnePlacePerName /\ StoreTypeOK /\ FileStep
    BY EveryStepIsFileStep DEF LossInv, TypeOK
  <1>1. \A m \in Msg : Ended(m) => Ended(m)'
    BY <1>0, EndedGrows DEF Ended
  <1>2. \A n \in Name, m \in Msg : Holds(n, m) => n < nextName
    BY <1>0 DEF Holds, NamesUsed
  <1>3. ASSUME NEW c \in Consumer, SettleWrite(c) PROVE KeptFile' /\ CopyFollows'
    <2>1. published' = published
      BY <1>3 DEF SettleWrite, settleOnly, historyVars
    <2>2. env[c] \in CommandEnvelope /\ Step(c)
      BY <1>0, <1>3 DEF SettleWrite, Step, PcOK, PcOKOf, Delivered, Settling, Moving
    <2>3. ASSUME NEW n \in Name, NEW m \in Msg, Holds(n, m) PROVE Holds(n, m)'
      <3>1. CASE file' = file
        BY <2>3, <3>1 DEF Holds, Exists
      <3>2. ASSUME nextName \in Name, NEW d \in Dir, file' = Written(d, nextName, env[c])
            PROVE  Holds(n, m)'
        <4>1. \A a \in Dir : Written(d, nextName, env[c])[a][n]
                               = IF a = d /\ n = nextName THEN env[c] ELSE file[a][n]
          BY <1>0, <2>2, <3>2, WrittenFacts
        <4>2. \A a \in Dir : file'[a][n] = file[a][n]
          BY <1>2, <2>3, <3>2, <4>1 DEF Name
        <4>. QED
          BY <2>3, <4>2 DEF Holds, Exists
      <3>. QED
        BY <1>3, <3>1, <3>2 DEF SettleWrite, NewName, TargetOf, Dir, storeVars
    <2>4. KeptFile'
      <3>1. ASSUME NEW m \in published, ~Ended(m)' PROVE \E n \in Name : Holds(n, m)' /\ Kept(n)'
        <4>0. m \in Msg
          BY <1>0 DEF TypeOK, HistoryTypeOK
        <4>1. PICK n \in Name : Holds(n, m) /\ Kept(n)
          BY <1>1, <3>1, <4>0 DEF LossInv, KeptFile
        <4>2. Kept(n)'
          BY <1>2, <4>0, <4>1, KeptStep
        <4>. QED
          BY <2>3, <4>0, <4>1, <4>2
      <3>. QED
        BY <2>1, <3>1 DEF KeptFile
    <2>5. CopyFollows'
      <3>1. ASSUME NEW b \in Consumer, pc[b] \in {"sync", "remove"},
                   NEW m \in Msg, m = env[b].id, ~Ended(m)'
            PROVE  \E n \in Name : n >= newName[b] /\ Holds(n, m)' /\ (n = newName[b] \/ Kept(n)')
        <4>1. PICK n \in Name : n >= newName[b] /\ Holds(n, m) /\ (n = newName[b] \/ Kept(n))
          BY <1>1, <3>1 DEF LossInv, CopyFollows
        <4>2. Kept(n) => Kept(n)'
          BY <1>2, <4>1, KeptStep
        <4>. QED
          BY <2>3, <4>1, <4>2
      <3>2. ASSUME NEW b \in Consumer, pc'[b] \in {"sync", "remove"}, NEW m \in Msg, m = env'[b].id,
                   ~Ended(m)'
            PROVE  \E n \in Name : n >= newName'[b] /\ Holds(n, m)' /\ (n = newName'[b] \/ Kept(n)')
        <4>1. CASE pc[b] \in {"sync", "remove"} /\ newName'[b] = newName[b] /\ env'[b] = env[b]
          BY <3>1, <3>2, <4>1
        <4>2. ASSUME NEW d \in Dir, UsesNewName, newName'[b] = nextName, env'[b] = env[b],
                     env[b] \in CommandEnvelope, file' = Written(d, nextName, env[b])
              PROVE  \E n \in Name : n >= newName'[b] /\ Holds(n, m)' /\ n = newName'[b]
          <5>1. PICK z \in Name : z = nextName
            BY <4>2 DEF UsesNewName
          <5>2. Written(d, z, env[b])[d][z] = env[b]
            BY <1>0, <4>2, WrittenFacts
          <5>3. Holds(z, m)'
            BY <3>2, <4>2, <5>1, <5>2 DEF Holds, Exists
          <5>. QED
            BY <4>2, <5>1, <5>3 DEF Name
        <4>3. CASE b = c
          BY <1>0, <2>2, <3>2, <4>1, <4>2, <4>3, CopyStep DEF Copying
        <4>4. CASE b # c
          BY <1>0, <2>2, <4>1, <4>4, <3>2, StepIsLocal DEF Untouched, TypeOK
        <4>. QED
          BY <4>3, <4>4
      <3>3. ASSUME NEW b \in Consumer, pc'[b] \in {"sync", "remove"} PROVE env'[b].id \in Msg
        BY <1>0, <3>3, PcStep DEF PcOK, PcOKOf, Delivered, Settling, Moving, Copying, CommandEnvelope
      <3>. QED
        BY <3>2, <3>3 DEF CopyFollows
    <2>. QED
      BY <2>4, <2>5
  <1>4. CASE \A c \in Consumer : ~SettleWrite(c)
    <2>0. NoNewCopy
      BY <1>0, <1>4, NewCopyIsWritten
    <2>1. ASSUME NEW m \in published, ~Ended(m)' PROVE \E n \in Name : Holds(n, m)' /\ Kept(n)'
      <3>0. m \in Msg
        BY <1>0 DEF TypeOK, HistoryTypeOK
      <3>1. PICK n \in Name : Holds(n, m) /\ Kept(n)
        BY <1>1, <2>1, <3>0 DEF LossInv, KeptFile
      <3>2. Kept(n)'
        BY <1>2, <3>0, <3>1, KeptStep
      <3>3. ASSUME NEW c \in Consumer, SettleDrop(c), n = newName[c] PROVE FALSE
        BY <3>1, <3>3 DEF SettleDrop, Kept, Copying
      <3>. QED
        BY <1>4, <2>1, <3>0, <3>1, <3>2, <3>3, FollowStep
    <2>2. ASSUME NEW m \in Msg, Publish(m) PROVE \E n \in Name : Holds(n, m)' /\ Kept(n)'
      <3>1. PICK z \in Name : z = nextName /\ file' = Written("pending", z, NewEnvelope(m))
        BY <2>2 DEF Publish, NewName
      <3>2. NewEnvelope(m) \in CommandEnvelope /\ NewEnvelope(m).id = m /\ "pending" \in Dir
        BY DEF NewEnvelope, CommandEnvelope, Dir
      <3>3. file'["pending"][z] = NewEnvelope(m)
        BY <1>0, <3>1, <3>2, WrittenFacts
      <3>4. Holds(z, m)'
        BY <3>2, <3>3 DEF Holds, Exists
      <3>5. \A b \in Consumer : newName[b] # z
        BY <1>0, <3>1 DEF NamesUsed, TypeOK, ConsumerTypeOK, Name
      <3>6. Kept(z)'
        BY <2>0, <3>5 DEF NoNewCopy, Kept
      <3>. QED
        BY <3>4, <3>6
    <2>3. published' = published \/ \E m \in Msg : Publish(m) /\ published' = published \cup {m}
      <3>1. ASSUME NEW c \in Consumer, Step(c) PROVE published' = published
        BY <3>1 DEF Step, Stop, List, PollAgain, DequeueNone, ClaimNext, Read,
           MoveUnreadableToFailed, Begin, Finish, Attempted, Acknowledge, SettleRename,
           SettleExists, SettleWrite, SettleSync, SettleUndo, SettleRemove, SettleDrop, GiveUp,
           SettleAgain, runOnly, claimOnly, settleOnly, historyVars
      <3>2. CASE \A c \in Consumer : ~Step(c)
        BY <3>2 DEF Next, Publish, StartCommand, WorkOnFile, FinishPass, WorkFails, ServerStart,
           ServerOpen, ServerSpawn, Cancel, ServerStop, ServerCrash, CliStart, CliCrash, lifeOnly,
           vars, historyVars
      <3>. QED
        BY <3>1, <3>2
    <2>4. KeptFile'
      BY <2>1, <2>2, <2>3 DEF KeptFile
    <2>5. ASSUME NEW b \in Consumer, pc'[b] \in {"sync", "remove"}, NEW m \in Msg, m = env'[b].id,
                 ~Ended(m)'
          PROVE  \E n \in Name : n >= newName'[b] /\ Holds(n, m)' /\ (n = newName'[b] \/ Kept(n)')
      <3>1. /\ pc[b] \in {"sync", "remove"} /\ newName'[b] = newName[b] /\ env'[b] = env[b]
            /\ newName[b] \in Name
        BY <1>0, <2>0, <2>5 DEF NoNewCopy, Copying, PcOK, PcOKOf
      <3>2. PICK x \in Name : x >= newName[b] /\ Holds(x, m) /\ (x = newName[b] \/ Kept(x))
        BY <1>1, <2>5, <3>1 DEF LossInv, CopyFollows
      <3>3. Kept(x) => Kept(x)'
        BY <1>2, <3>2, KeptStep
      <3>4. CASE Holds(x, m)'
        BY <3>1, <3>2, <3>3, <3>4
      <3>5. ASSUME NEW y \in Name, y > x, Holds(y, m)', Kept(y)'
            PROVE  \E n \in Name : n >= newName'[b] /\ Holds(n, m)' /\ Kept(n)'
        BY <3>1, <3>2, <3>5 DEF Name
      <3>6. ASSUME NEW c \in Consumer, SettleDrop(c), pc'[c] \in {"idle", "stopped"}, x = newName[c]
            PROVE  FALSE
        <4>1. pc[c] \in Copying /\ pc[b] \in Copying /\ b # c
          BY <2>5, <3>1, <3>6 DEF SettleDrop, Copying
        <4>. QED
          BY <3>2, <3>6, <4>1 DEF LossInv, CopiesAreNew, Kept
      <3>. QED
        BY <1>4, <2>5, <3>2, <3>4, <3>5, <3>6, FollowStep
    <2>6. ASSUME NEW b \in Consumer, pc'[b] \in {"sync", "remove"} PROVE env'[b].id \in Msg
      BY <1>0, <2>6, PcStep DEF PcOK, PcOKOf, Delivered, Settling, Moving, Copying, CommandEnvelope
    <2>7. CopyFollows'
      BY <2>5, <2>6 DEF CopyFollows
    <2>. QED
      BY <2>4, <2>7
  <1>. QED
    BY <1>3, <1>4

LEMMA LossInit == Init => SameMessage /\ CopiesAreNew /\ SuccessRecorded /\ KeptFile /\ CopyFollows
  BY DEF Init, StoreInit, SameMessage, CopiesAreNew, SuccessRecorded, KeptFile, CopyFollows,
         Delivered, Settling, Moving, Copying

(* No message is lost (NoMessageLost), whatever crashes, failing calls and *)
(* concurrent settles, recoveries, clears and republications happen: a     *)
(* move_claimed writes its copy before it removes the file it replaces,    *)
(* and removes its copy only when another file of the message stays.       *)
THEOREM NothingIsLost == Spec => []NoMessageLost
  <1>1. Init => SameMessage /\ CopiesAreNew /\ SuccessRecorded /\ KeptFile /\ CopyFollows
    BY LossInit
  <1>2. LossInv /\ [Next]_vars
          => (SameMessage /\ CopiesAreNew /\ SuccessRecorded /\ KeptFile /\ CopyFollows)'
    <2> SUFFICES ASSUME LossInv, [Next]_vars
                 PROVE  (SameMessage /\ CopiesAreNew /\ SuccessRecorded /\ KeptFile /\ CopyFollows)'
      OBVIOUS
    <2>1. KeptFile' /\ CopyFollows'
      BY LossStep
    <2>2. SameMessage' /\ CopiesAreNew' /\ SuccessRecorded'
      BY SameMessageStep, CopiesStep, SuccessStep DEF LossInv
    <2>. QED
      BY <2>1, <2>2
  <1>3. KeptFile => NoMessageLost
    BY DEF KeptFile, NoMessageLost, Ended
  <1>. QED
    BY <1>1, <1>2, <1>3, TypeCorrect, FilesHaveOnePlace, PTL DEF Spec, LossInv

-----------------------------------------------------------------------------
(* Nothing stays in progress without a consumer. *)

(* What a step may do to the in-progress and settling files of others. *)
Shrinks ==
    \A d \in {"inProgress", "settling"}, n \in Name : file'[d][n] # NoFile => file[d][n] # NoFile

LEMMA BoundsGrow ==
    ASSUME TypeOK, [Next]_vars
    PROVE  (faults' = 0 => faults = 0) /\ (crashes' = 0 => crashes = 0)
  <1>1. faults' = faults \/ faults' = faults + 1
    <2>1. ASSUME NEW c \in Consumer, Step(c) PROVE faults' = faults \/ faults' = faults + 1
      BY <2>1 DEF Step, Stop, List, PollAgain, DequeueNone, ClaimNext, Read, MoveUnreadableToFailed,
         Begin, Finish, Attempted, Acknowledge, SettleRename, SettleExists, SettleWrite, SettleSync,
         SettleUndo, SettleRemove, SettleDrop, GiveUp, SettleAgain, runOnly, claimOnly, settleOnly,
         boundVars, Fault, NoFault
    <2>2. CASE \A c \in Consumer : ~Step(c)
      BY <2>2 DEF Next, Publish, StartCommand, WorkOnFile, FinishPass, WorkFails, ServerStart,
         ServerOpen, ServerSpawn, Cancel, ServerStop, ServerCrash, CliStart, CliCrash, lifeOnly,
         boundVars, vars, Fault
    <2>. QED
      BY <2>1, <2>2
  <1>2. crashes' = crashes \/ crashes' = crashes + 1
    <2>1. ASSUME NEW c \in Consumer, Step(c) PROVE crashes' = crashes
      BY <2>1 DEF Step, Stop, List, PollAgain, DequeueNone, ClaimNext, Read,
         MoveUnreadableToFailed, Begin, Finish, Attempted, Acknowledge, SettleRename,
         SettleExists, SettleWrite, SettleSync, SettleUndo, SettleRemove, SettleDrop, GiveUp,
         SettleAgain, runOnly, claimOnly, settleOnly, boundVars
    <2>2. CASE \A c \in Consumer : ~Step(c)
      BY <2>2 DEF Next, Publish, StartCommand, WorkOnFile, FinishPass, WorkFails, ServerStart,
         ServerOpen, ServerSpawn, Cancel, ServerStop, ServerCrash, CliStart, CliCrash, lifeOnly,
         vars, boundVars, workOnly
    <2>. QED
      BY <2>1, <2>2
  <1>. QED
    BY <1>1, <1>2 DEF TypeOK, WorkTypeOK

(* A step that is no consumer's moves nothing into progress, and takes no  *)
(* consumer's delivery away unless it is a crash.                          *)
LEMMA OthersShrink ==
    ASSUME TypeOK, PcOK, ServerTasks, [Next]_vars, \A c \in Consumer : ~Step(c),
           crashes' = crashes
    PROVE  /\ Shrinks
           /\ \A b \in Consumer :
                \/ pc'[b] = pc[b] /\ name'[b] = name[b]
                \/ pc[b] = "stopped" /\ pc'[b] = "idle"
  <1> USE DEF consumerVars, deliveryVars, storeVars, lifeOnly, workOnly
  <1> StoreTypeOK /\ "pending" \in Dir /\ "inProgress" \in Dir /\ "settling" \in Dir
    BY DEF TypeOK, Dir
  <1>1. ASSUME NEW m \in Msg, Publish(m) PROVE Shrinks
    <2>1. PICK z \in Name : file' = Written("pending", z, NewEnvelope(m))
      BY <1>1 DEF Publish
    <2>2. NewEnvelope(m) \in CommandEnvelope
      BY DEF NewEnvelope, CommandEnvelope
    <2>3. ASSUME NEW d \in {"inProgress", "settling"}, NEW n \in Name
          PROVE  file'[d][n] = file[d][n]
      BY <2>1, <2>2 DEF Written, StoreTypeOK
    <2>. QED
      BY <2>3 DEF Shrinks
  <1>2. ASSUME NEW w \in Worker, WorkOnFile(w) PROVE Shrinks
    <2>1. PICK n \in Oldest(work[w]) :
             \/ op[w] \in {"recover", "recoverSettling"} /\ RecoverFile(PassDir(op[w]), n)
             \/ op[w] \in {"clearPending", "clearInProgress", "clearSettling", "clearFailed"}
                /\ ClearFile(PassDir(op[w]), n)
             \/ op[w] = "republish" /\ RepublishFile(PassDir(op[w]), n)
      BY <1>2 DEF WorkOnFile
    <2>2. n \in Name
      BY DEF Oldest, TypeOK, WorkTypeOK
    <2>3. PassDir(op[w]) \in Dir
      BY <2>1 DEF PassDir, Dir
    <2>4. ASSUME NEW d \in Dir, NEW k \in Name, file' = Renamed(d, n, "pending", k)
          PROVE  Shrinks
      <3>1. ASSUME NEW a \in {"inProgress", "settling"}, NEW x \in Name
            PROVE  Renamed(d, n, "pending", k)[a][x] \in {file[a][x], NoFile}
        BY <2>2 DEF Renamed, StoreTypeOK
      <3>. QED
        BY <2>4, <3>1 DEF Shrinks
    <2>5. ASSUME NEW d \in Dir, file' = Removed(d, n) PROVE Shrinks
      BY <2>2, <2>5, RemovedFacts DEF Shrinks
    <2>6. CASE file' = file
      BY <2>6 DEF Shrinks
    <2>. QED
      BY <2>1, <2>2, <2>3, <2>4, <2>5, <2>6
         DEF RecoverFile, ClearFile, RepublishFile, RenamedIfPresent
  <1>3. Shrinks
    <2>1. CASE file' = file
      BY <2>1 DEF Shrinks
    <2>. QED
      BY <1>1, <1>2, <2>1 DEF Next, StartCommand, FinishPass, WorkFails, ServerStart, ServerOpen, ServerSpawn,
           Cancel, ServerStop, ServerCrash, CliStart, CliCrash, vars
  <1>4. ASSUME NEW b \in Consumer
        PROVE  \/ pc'[b] = pc[b] /\ name'[b] = name[b]
               \/ pc[b] = "stopped" /\ pc'[b] = "idle"
    <2>1. crashes' # crashes + 1
      BY DEF TypeOK, WorkTypeOK
    <2>2. CASE ServerSpawn
      BY <2>2 DEF ServerSpawn, ServerTasks
    <2>3. ASSUME NEW c \in CliConsumer, CliStart(c) PROVE (pc'[b] = pc[b] /\ name'[b] = name[b])
                                        \/ (pc[b] = "stopped" /\ pc'[b] = "idle")
      BY <2>3 DEF CliStart, Goto, TypeOK, ConsumerTypeOK
    <2>. QED
      BY <2>1, <2>2, <2>3 DEF Next, Publish, StartCommand, WorkOnFile, FinishPass, WorkFails,
         ServerStart, ServerOpen, Cancel, ServerStop, ServerCrash, CliCrash, vars
  <1>. QED
    BY <1>3, <1>4

(* A consumer's step, without a fault: what it puts into progress it       *)
(* holds, and what it stops holding is no longer there.                    *)
LEMMA StepHolds ==
    ASSUME TypeOK, PcOK, NamesUsed, NoErrorPath, NEW c \in Consumer, Step(c),
           faults = 0, faults' = 0, NEW n \in Name
    PROVE  /\ file'["inProgress"][n] # NoFile =>
                \/ name'[c] = n /\ pc'[c] \in {"read", "begin", "running", "ack", "rename"}
                \/ /\ file["inProgress"][n] # NoFile
                   /\ ~(name[c] = n /\ pc[c] \in {"read", "begin", "running", "ack", "rename"})
           /\ file'["settling"][n] # NoFile =>
                \/ name'[c] = n /\ pc'[c] \in {"write", "sync", "remove"}
                \/ /\ file["settling"][n] # NoFile
                   /\ ~(name[c] = n /\ pc[c] \in {"write", "sync", "remove"})
  <1> USE DEF TypeOK, ConsumerTypeOK, Goto, Fault, Exists, storeVars, deliveryVars
  <1> StoreTypeOK /\ "pending" \in Dir /\ "inProgress" \in Dir /\ "settling" \in Dir /\ "failed" \in Dir
    BY DEF Dir
  <1> pc[c] \notin {"undo", "backoff", "unreadable"}
    BY DEF NoErrorPath
  <1>1. CASE Stop(c) \/ List(c) \/ PollAgain(c) \/ DequeueNone(c)
    BY <1>1 DEF Stop, List, PollAgain, DequeueNone, Leave
  <1>2. CASE ClaimNext(c)
    <2>1. PICK k \in Oldest(todo[c]) : Claim(c, k)
      BY <1>2 DEF ClaimNext
    <2>2. k \in Name /\ pc[c] = "claim"
      BY <1>2 DEF Oldest, ClaimNext
    <2>3. CASE file' = Renamed("pending", k, "inProgress", k) /\ name'[c] = k /\ pc'[c] = "read"
      <3>1. /\ file'["inProgress"][n] # NoFile => n = k \/ file["inProgress"][n] # NoFile
            /\ file'["settling"][n] = file["settling"][n]
        BY <2>2, <2>3 DEF Renamed, StoreTypeOK
      <3>. QED
        BY <2>2, <2>3, <3>1
    <2>4. CASE file' = file /\ pc'[c] = "claim"
      BY <2>2, <2>4
    <2>. QED
      BY <2>1, <2>2, <2>3, <2>4 DEF Claim
  <1>3. CASE Read(c)
    BY <1>3 DEF Read
  <1>4. CASE Begin(c) \/ Finish(c)
    BY <1>4 DEF Begin, Finish, Attempted, Settle, runOnly
  <1>5. CASE Acknowledge(c)
    <2>1. name[c] \in Name /\ pc[c] = "ack"
      BY <1>5 DEF Acknowledge, PcOK, PcOKOf, Claimed, Delivered, Settling
    <2>2. CASE file' = Removed("inProgress", name[c]) /\ pc'[c] = "idle"
      BY <2>1, <2>2, RemovedFacts
    <2>3. CASE file' = file /\ file["inProgress"][name[c]] = NoFile /\ pc'[c] = Leave(c)
      BY <2>1, <2>3 DEF Leave
    <2>. QED
      BY <1>5, <2>2, <2>3 DEF Acknowledge, Settled, Lost
  <1>6. CASE SettleRename(c)
    <2>1. name[c] \in Name /\ pc[c] = "rename" /\ name'[c] = name[c]
      BY <1>6 DEF SettleRename, PcOK, PcOKOf, Claimed, Delivered, Settling, Moving
    <2>2. CASE file' = Renamed("inProgress", name[c], "settling", name[c]) /\ pc'[c] = "write"
      <3>1. /\ file'["inProgress"][n] # NoFile => n # name[c] /\ file["inProgress"][n] # NoFile
            /\ file'["settling"][n] # NoFile => n = name[c] \/ file["settling"][n] # NoFile
        BY <2>1, <2>2 DEF Renamed, StoreTypeOK
      <3>. QED
        BY <2>1, <2>2, <3>1
    <2>3. CASE file' = file /\ file["inProgress"][name[c]] = NoFile /\ pc'[c] = "exists"
      BY <2>1, <2>3
    <2>. QED
      BY <1>6, <2>2, <2>3 DEF SettleRename
  <1>7. CASE SettleExists(c)
    BY <1>7 DEF SettleExists, Lost, Leave
  <1>8. CASE SettleWrite(c)
    <2>1. name'[c] = name[c] /\ pc[c] = "write" /\ pc'[c] = "sync" /\ env[c] \in CommandEnvelope
      BY <1>8 DEF SettleWrite, PcOK, PcOKOf, Delivered, Settling, Moving
    <2>2. PICK k \in Name, d \in {"pending", "failed"} : file' = Written(d, k, env[c])
      BY <1>8 DEF SettleWrite, TargetOf
    <2>3. file'["inProgress"][n] = file["inProgress"][n] /\ file'["settling"][n] = file["settling"][n]
      BY <2>2 DEF Written, StoreTypeOK
    <2>. QED
      BY <2>1, <2>3
  <1>9. CASE SettleSync(c)
    BY <1>9 DEF SettleSync
  <1>10. CASE SettleRemove(c)
    <2>1. name[c] \in Name /\ pc[c] = "remove"
      BY <1>10 DEF SettleRemove, PcOK, PcOKOf, Claimed, Delivered, Settling, Moving, Copying
    <2>2. CASE file' = Removed("settling", name[c]) /\ pc'[c] = "idle"
      BY <2>1, <2>2, RemovedFacts
    <2>3. CASE file' = file /\ file["settling"][name[c]] = NoFile /\ pc'[c] = "drop"
      BY <2>1, <2>3
    <2>. QED
      BY <1>10, <2>2, <2>3 DEF SettleRemove, Settled
  <1>11. CASE SettleDrop(c)
    <2>1. newName[c] \in Name /\ pc[c] = "drop" /\ pc'[c] \in {"idle", "stopped"}
      BY <1>11 DEF SettleDrop, PcOK, PcOKOf, Copying, Lost, Leave
    <2>2. PICK d \in {"pending", "failed"} : file' = Removed(d, newName[c])
      BY <1>11 DEF SettleDrop, TargetOf
    <2>. QED
      BY <2>1, <2>2, RemovedFacts
  <1>12. CASE MoveUnreadableToFailed(c) \/ SettleUndo(c) \/ GiveUp(c) \/ SettleAgain(c)
    BY <1>12 DEF MoveUnreadableToFailed, SettleUndo, GiveUp, SettleAgain
  <1>. QED
    BY <1>1, <1>2, <1>3, <1>4, <1>5, <1>6, <1>7, <1>8, <1>9, <1>10, <1>11, <1>12 DEF Step

LEMMA StepAvoidsErrors ==
    ASSUME TypeOK, NoErrorPath, NEW c \in Consumer, Step(c), faults = 0, faults' = 0
    PROVE  pc'[c] \notin {"undo", "backoff", "unreadable"}
  <1> USE DEF TypeOK, ConsumerTypeOK, Goto, Fault
  <1>1. pc[c] \notin {"undo", "backoff", "unreadable"}
    BY DEF NoErrorPath
  <1>2. CASE Begin(c) \/ Finish(c)
    BY <1>2 DEF Begin, Finish, Attempted, Settle
  <1>3. CASE ~Begin(c) /\ ~Finish(c)
    BY <1>1, <1>3 DEF Step, Stop, List, PollAgain, DequeueNone, ClaimNext, Claim, Read,
       MoveUnreadableToFailed, Acknowledge, SettleRename, SettleExists, SettleWrite, SettleSync,
       SettleUndo, SettleRemove, SettleDrop, GiveUp, SettleAgain, Settled, Lost, Interrupted, Leave
  <1>. QED
    BY <1>2, <1>3

LEMMA HeldStep ==
    ASSUME TypeOK, PcOK, ServerTasks, NamesUsed, NoErrorPath, InProgressIsHeld, [Next]_vars
    PROVE  NoErrorPath' /\ InProgressIsHeld'
  <1>0. StoreTypeOK /\ ConsumerTypeOK
    BY DEF TypeOK
  <1>1. (faults' = 0 => faults = 0) /\ (crashes' = 0 => crashes = 0)
    BY BoundsGrow
  <1>2. ASSUME NEW c \in Consumer, Step(c) PROVE NoErrorPath' /\ InProgressIsHeld'
    <2>1. \A b \in Consumer \ {c} : pc'[b] = pc[b] /\ name'[b] = name[b]
      BY <1>0, <1>2, StepIsLocal DEF Untouched
    <2>2. NoErrorPath'
      BY <1>1, <1>2, <2>1, StepAvoidsErrors DEF NoErrorPath
    <2>3. ASSUME faults' = 0, crashes' = 0, NEW n \in Name, file'["inProgress"][n] # NoFile
          PROVE  \E b \in Consumer :
                   name'[b] = n /\ pc'[b] \in {"read", "begin", "running", "ack", "rename"}
      BY <1>1, <1>2, <2>1, <2>3, StepHolds DEF InProgressIsHeld, Exists
    <2>4. ASSUME faults' = 0, crashes' = 0, NEW n \in Name, file'["settling"][n] # NoFile
          PROVE  \E b \in Consumer : name'[b] = n /\ pc'[b] \in {"write", "sync", "remove"}
      BY <1>1, <1>2, <2>1, <2>4, StepHolds DEF InProgressIsHeld, Exists
    <2>. QED
      BY <2>2, <2>3, <2>4 DEF InProgressIsHeld, Exists
  <1>3. CASE \A c \in Consumer : ~Step(c)
    <2>1. NoErrorPath'
      BY <1>1, <1>3, StepOrOther DEF OtherStep, Untouched, Restarted, NoErrorPath
    <2>2. ASSUME faults' = 0, crashes' = 0 PROVE InProgressIsHeld'
      <3>1. crashes' = crashes
        BY <1>1, <2>2
      <3>. QED
        BY <1>1, <1>3, <2>2, <3>1, OthersShrink DEF Shrinks, InProgressIsHeld, Exists
    <2>. QED
      BY <2>1, <2>2 DEF InProgressIsHeld
  <1>. QED
    BY <1>2, <1>3

(* Without a failed call and a crash, nothing is left in progress: every   *)
(* in-progress and settling file has a consumer that goes on to settle it  *)
(* (InProgressIsHeld), so a server that has stopped leaves only pending    *)
(* and failed files.                                                       *)
THEOREM NothingIsStranded == Spec => []InProgressIsHeld
  <1>1. Init => NoErrorPath /\ InProgressIsHeld
    BY DEF Init, StoreInit, NoErrorPath, InProgressIsHeld, Exists, Dir
  <1>2. TypeOK /\ PcOK /\ ServerTasks /\ NamesUsed /\ NoErrorPath /\ InProgressIsHeld /\ [Next]_vars
          => (NoErrorPath /\ InProgressIsHeld)'
    BY HeldStep
  <1>. QED
    BY <1>1, <1>2, TypeCorrect, FilesHaveOnePlace, PTL DEF Spec

-----------------------------------------------------------------------------
(* One run at a time. *)

(* Only new names come into the failed directory. *)
LEMMA FailedGrows ==
    ASSUME TypeOK, PcOK, [Next]_vars,
           NEW n \in Name, file["failed"][n] = NoFile, file'["failed"][n] # NoFile
    PROVE  n = nextName
  <1> "pending" \in Dir /\ "inProgress" \in Dir /\ "settling" \in Dir /\ "failed" \in Dir
    BY DEF Dir
  <1> StoreTypeOK /\ (file' = file => FALSE)
    BY DEF TypeOK
  <1> USE DEF storeVars
  <1>1. ASSUME NEW m \in Msg, Publish(m) PROVE n = nextName
    <2>1. nextName \in Name /\ file' = Written("pending", nextName, NewEnvelope(m))
      BY <1>1 DEF Publish, NewName
    <2>2. NewEnvelope(m) \in CommandEnvelope
      BY DEF NewEnvelope, CommandEnvelope
    <2>. QED
      BY <2>1, <2>2, WrittenFacts
  <1>2. ASSUME NEW c \in Consumer, ClaimNext(c) PROVE FALSE
    <2>1. \A k \in Oldest(todo[c]) : k \in Name
      BY DEF Oldest, TypeOK, ConsumerTypeOK
    <2>. QED
      BY <1>2, <2>1, RenamedAdds DEF ClaimNext, Claim
  <1>3. ASSUME NEW c \in Consumer,
               MoveUnreadableToFailed(c) \/ Acknowledge(c) \/ SettleRename(c) \/ SettleUndo(c)
                 \/ SettleRemove(c) \/ SettleDrop(c)
        PROVE  n = nextName
    <2>1. name[c] \in Name
      BY <1>3 DEF MoveUnreadableToFailed, Acknowledge, SettleRename, SettleUndo, SettleRemove,
           SettleDrop, TypeOK, ConsumerTypeOK, PcOK, PcOKOf, Claimed, Delivered, Settling, Moving, Copying
    <2>2. CASE MoveUnreadableToFailed(c)
      BY <2>1, <2>2, RenamedAdds DEF MoveUnreadableToFailed, NewName, RenamedIfPresent
    <2>3. CASE Acknowledge(c) \/ SettleRemove(c)
      BY <2>1, <2>3, RemovedFacts DEF Acknowledge, SettleRemove
    <2>4. CASE SettleRename(c)
      BY <2>1, <2>4, RenamedAdds DEF SettleRename
    <2>5. CASE SettleUndo(c)
      BY <2>1, <2>5, RenamedAdds DEF SettleUndo, RenamedIfPresent
    <2>6. CASE SettleDrop(c)
      <3>1. newName[c] \in Name
        BY <2>6 DEF SettleDrop, PcOK, PcOKOf, Copying
      <3>. QED
        BY <2>6, <3>1, RemovedFacts DEF SettleDrop, TargetOf
    <2>. QED
      BY <1>3, <2>2, <2>3, <2>4, <2>5, <2>6
  <1>4. ASSUME NEW c \in Consumer, SettleWrite(c) PROVE n = nextName
    <2>1. env[c] \in CommandEnvelope
      BY <1>4 DEF SettleWrite, PcOK, PcOKOf, Delivered, Settling, Moving
    <2>2. PICK d \in Dir : nextName \in Name /\ file' = Written(d, nextName, env[c])
      BY <1>4 DEF SettleWrite, NewName, TargetOf
    <2>. QED
      BY <2>1, <2>2, WrittenFacts
  <1>5. ASSUME NEW w \in Worker, WorkOnFile(w) PROVE FALSE
    <2>1. PICK k \in Oldest(work[w]) :
             \/ op[w] \in {"recover", "recoverSettling"} /\ RecoverFile(PassDir(op[w]), k)
             \/ op[w] \in {"clearPending", "clearInProgress", "clearSettling", "clearFailed"}
                /\ ClearFile(PassDir(op[w]), k)
             \/ op[w] = "republish" /\ RepublishFile(PassDir(op[w]), k)
      BY <1>5 DEF WorkOnFile
    <2>2. k \in Name
      BY <2>1 DEF Oldest, TypeOK, WorkTypeOK
    <2>3. CASE op[w] \in {"recover", "recoverSettling"} /\ RecoverFile(PassDir(op[w]), k)
      BY <2>2, <2>3, RenamedAdds DEF RecoverFile, PassDir, RenamedIfPresent
    <2>4. CASE op[w] \in {"clearPending", "clearInProgress", "clearSettling", "clearFailed"}
               /\ ClearFile(PassDir(op[w]), k)
      BY <2>2, <2>4, RemovedFacts DEF ClearFile, PassDir
    <2>5. CASE op[w] = "republish" /\ RepublishFile(PassDir(op[w]), k)
      BY <2>2, <2>5, RenamedAdds DEF RepublishFile, PassDir, RenamedIfPresent, NewName
    <2>. QED
      BY <2>1, <2>3, <2>4, <2>5
  <1>6. ASSUME NEW c \in Consumer,
               \/ Stop(c) \/ List(c) \/ PollAgain(c) \/ DequeueNone(c) \/ Read(c) \/ Begin(c)
               \/ Finish(c) \/ SettleExists(c) \/ SettleSync(c) \/ GiveUp(c) \/ SettleAgain(c)
        PROVE  FALSE
    BY <1>6 DEF Stop, List, PollAgain, DequeueNone, Read, Begin, Finish, Attempted, runOnly,
                SettleExists, SettleSync, GiveUp, SettleAgain
  <1>7. CASE file' = file
    BY <1>7
  <1>. QED
    BY <1>1, <1>2, <1>3, <1>4, <1>5, <1>6, <1>7 DEF Next, Step, StartCommand, FinishPass, WorkFails,
       ServerStart, ServerOpen, ServerSpawn, Cancel, ServerStop, ServerCrash, CliStart, CliCrash,
       lifeOnly, vars

LEMMA FailedUnclaimedStep ==
    ASSUME TypeOK, PcOK, ServerTasks, NamesUsed, OnePlacePerName, FailedUnclaimed, [Next]_vars, PcOK'
    PROVE  FailedUnclaimed'
  <1>0. /\ StoreTypeOK /\ "pending" \in Dir /\ "inProgress" \in Dir /\ "failed" \in Dir
        /\ \A b \in Consumer : name[b] \in Name \cup {0} /\ name[b] # nextName
    BY DEF TypeOK, ConsumerTypeOK, StoreTypeOK, NamesUsed, Name, Dir
  <1>1. ASSUME NEW b \in Consumer, name'[b] = name[b], name[b] # 0
        PROVE  file'["failed"][name[b]] = NoFile
    <2>1. name[b] \in Name /\ file["failed"][name[b]] = NoFile
      BY <1>0, <1>1 DEF FailedUnclaimed, PcOK, PcOKOf, Exists
    <2>2. \A n \in Name : n = name[b] => file'["failed"][n] = NoFile
      BY <1>0, <2>1, FailedGrows
    <2>. QED
      BY <2>1, <2>2
  <1>2. ASSUME NEW c \in Consumer, Step(c) PROVE FailedUnclaimed'
    <2>1. \A b \in Consumer \ {c} : name'[b] = name[b]
      BY <1>2, StepIsLocal DEF Untouched, TypeOK
    <2>2. CASE name'[c] \in {name[c], 0}
      BY <1>1, <2>1, <2>2 DEF FailedUnclaimed, PcOK, PcOKOf, Exists
    <2>3. CASE /\ name'[c] \in Name /\ Exists("pending", name'[c])
               /\ file' = Renamed("pending", name'[c], "inProgress", name'[c])
      <3>1. file["failed"][name'[c]] = NoFile
        BY <1>0, <2>3 DEF OnePlacePerName, Exists
      <3>2. file'["failed"][name'[c]] = NoFile
        BY <1>0, <2>3, <3>1, RenamedFacts
      <3>. QED
        BY <1>1, <2>1, <3>2 DEF FailedUnclaimed, PcOK, PcOKOf, Exists
    <2>. QED
      BY <1>2, <2>2, <2>3, HeldNames
  <1>3. CASE OtherStep
    <2>1. \A b \in Consumer : name'[b] \in {name[b], 0}
      BY <1>3 DEF OtherStep, Untouched, Restarted
    <2>. QED
      BY <1>1, <2>1 DEF FailedUnclaimed, PcOK, PcOKOf, Exists
  <1>. QED
    BY <1>2, <1>3, StepOrOther

(* Names carry no more than before: files only go, and a consumer carries  *)
(* what it carried or what it has just read.                               *)
CarriersKept == \A n \in Name, m \in Msg : Carries(n, m)' => Carries(n, m)

LEMMA CarriesBack ==
    ASSUME NEW n, NEW m,
           \A d \in {"pending", "failed", "inProgress"} :
               file'[d][n] # NoFile => file'[d][n] = file[d][n],
           \A b \in Consumer :
               /\ name'[b] = n /\ pc'[b] = "read" => name[b] = n /\ pc[b] = "read"
               /\ name'[b] = n /\ pc'[b] \in Carrying =>
                     /\ name[b] = n
                     /\ \/ pc[b] \in Carrying /\ env'[b].id = env[b].id
                        \/ /\ pc[b] = "read" /\ file["inProgress"][n] # NoFile
                           /\ env'[b].id = file["inProgress"][n].id,
           Carries(n, m)'
    PROVE  Carries(n, m)
  <1>1. CASE \E d \in {"pending", "failed"} : file'[d][n] # NoFile /\ file'[d][n].id = m
    BY <1>1 DEF Carries, Exists
  <1>2. ASSUME NEW b \in Consumer, name'[b] = n, pc'[b] = "read", file'["inProgress"][n] # NoFile,
               file'["inProgress"][n].id = m
        PROVE  Carries(n, m)
    BY <1>2 DEF Carries, Exists
  <1>3. ASSUME NEW b \in Consumer, name'[b] = n, pc'[b] \in Carrying, env'[b].id = m
        PROVE  Carries(n, m)
    BY <1>3 DEF Carries, Exists
  <1>. QED
    BY <1>1, <1>2, <1>3 DEF Carries, Exists

(* ... or m is carried by the new name in place of n. *)
CarrierMoved(n, m) ==
    /\ Carries(n, m) /\ ~Carries(n, m)'
    /\ \A k \in Name, q \in Msg : Carries(k, q)' => Carries(k, q) \/ (k = nextName /\ q = m)

(* The step of a consumer that reads, runs or settles, without a fault. *)
LEMMA StepCarries ==
    ASSUME TypeOK, PcOK, NoErrorPath, NEW c \in Consumer, Step(c), ~SettleWrite(c), ~ClaimNext(c),
           faults = 0, faults' = 0
    PROVE  /\ name'[c] # 0 /\ pc'[c] = "read" => name'[c] = name[c] /\ pc[c] = "read"
           /\ pc'[c] \in Carrying =>
                 /\ name'[c] = name[c]
                 /\ \/ pc[c] \in Carrying /\ env'[c].id = env[c].id
                    \/ /\ pc[c] = "read" /\ file["inProgress"][name[c]] # NoFile
                       /\ env'[c].id = file["inProgress"][name[c]].id
  <1>1. pc[c] \notin {"undo", "backoff", "unreadable"}
    BY DEF NoErrorPath
  <1>2. pc'[c] = "read" => pc[c] = "read" /\ name'[c] = name[c]
    BY <1>1 DEF Step, Stop, List, PollAgain, DequeueNone, Read, MoveUnreadableToFailed,
       Begin, Finish, Attempted, Settle, Acknowledge, SettleRename, SettleExists, SettleSync,
       SettleUndo, SettleRemove, SettleDrop, GiveUp, SettleAgain, Settled, Lost, Interrupted, Leave, Goto,
       TypeOK, ConsumerTypeOK
  <1>3. ASSUME pc'[c] \in Carrying PROVE pc[c] \in Carrying \cup {"read"}
    BY <1>1, <1>3 DEF Step, Stop, List, PollAgain, DequeueNone, Read, MoveUnreadableToFailed,
       Begin, Finish, Attempted, Settle, Acknowledge, SettleRename, SettleExists, SettleSync,
       SettleUndo, SettleRemove, SettleDrop, GiveUp, SettleAgain, Settled, Lost, Interrupted, Leave, Goto,
       TypeOK, ConsumerTypeOK, Fault, Carrying
  <1>4. Carrying \subseteq Delivered /\ "read" \notin Delivered
    BY DEF Carrying, Delivered, Settling, Moving, Copying
  <1>5. ASSUME pc'[c] \in Carrying, pc[c] \in Carrying PROVE name'[c] = name[c] /\ env'[c].id = env[c].id
    <2>1. ~Read(c)
      BY <1>5 DEF Read, Carrying
    <2>2. CASE Begin(c) \/ Finish(c)
      <3>1. env[c] \in CommandEnvelope
        BY <1>4, <1>5 DEF PcOK, PcOKOf
      <3>2. ASSUME NEW k \in AttemptKind, Attempted(c, k)
            PROVE  name' = name /\ env'[c].id = env[c].id
        BY <3>1, <3>2, SettledEnvelope DEF Attempted, runOnly, TakeBackAttempt, CommandEnvelope, TypeOK
      <3>. QED
        BY <2>2, <3>2 DEF Begin, Finish, AttemptKind, runOnly
    <2>3. CASE ~Begin(c) /\ ~Finish(c)
      BY <1>1, <1>5, <2>1, <2>3 DEF Step, Stop, List, PollAgain, DequeueNone, MoveUnreadableToFailed,
       Acknowledge, SettleRename, SettleExists, SettleSync, deliveryVars,
       SettleUndo, SettleRemove, SettleDrop, GiveUp, SettleAgain, Settled, Lost, Interrupted, Leave, Goto,
       TypeOK, ConsumerTypeOK, Fault, Carrying
    <2>. QED
      BY <2>2, <2>3
  <1>6. ASSUME pc'[c] \in Carrying, pc[c] = "read"
        PROVE  /\ name'[c] = name[c] /\ file["inProgress"][name[c]] # NoFile
               /\ env'[c].id = file["inProgress"][name[c]].id
    <2>1. pc'[c] \in Delivered /\ pc[c] \notin Delivered
      BY <1>4, <1>6
    <2>2. file["inProgress"][name[c]] \in CommandEnvelope => file["inProgress"][name[c]] # NoFile
      BY StoreAssumption
    <2>. QED
      BY <2>1, <2>2, DeliveryStep
  <1>. QED
    BY <1>2, <1>3, <1>5, <1>6

(* ... which leaves the files that wait or are claimed, or takes one away. *)
LEMMA StepFiles ==
    ASSUME TypeOK, PcOK, NoErrorPath, NEW c \in Consumer, Step(c), ~SettleWrite(c), ~ClaimNext(c),
           faults = 0, NEW n \in Name, NEW d \in {"pending", "failed", "inProgress"}
    PROVE  file'[d][n] # NoFile => file'[d][n] = file[d][n]
  <1> StoreTypeOK /\ d \in Dir /\ d # "settling" /\ {"pending", "failed", "inProgress", "settling"} \subseteq Dir
    BY DEF TypeOK, Dir
  <1>1. pc[c] \notin {"undo", "backoff", "unreadable"}
    BY DEF NoErrorPath
  <1>2. ASSUME NEW a \in Dir, NEW k \in Name, file' = Removed(a, k)
        PROVE  file'[d][n] # NoFile => file'[d][n] = file[d][n]
    <2>1. Removed(a, k)[d][n] = IF d = a /\ n = k THEN NoFile ELSE file[d][n]
      BY RemovedFacts
    <2>. QED
      BY <1>2, <2>1
  <1>3. CASE file' = file
    BY <1>3
  <1>4. CASE Acknowledge(c) \/ SettleRemove(c) \/ SettleDrop(c)
    <2>1. name[c] \in Name
      BY <1>4 DEF Acknowledge, SettleRemove, SettleDrop, TypeOK, ConsumerTypeOK, PcOK, PcOKOf, Claimed,
                  Delivered, Settling, Moving, Copying
    <2>2. CASE SettleDrop(c)
      <3>1. newName[c] \in Name
        BY <2>2 DEF SettleDrop, PcOK, PcOKOf, Copying
      <3>. QED
        BY <1>2, <1>3, <2>2, <3>1 DEF SettleDrop, TargetOf
    <2>. QED
      BY <1>2, <1>3, <1>4, <2>1, <2>2 DEF Acknowledge, SettleRemove
  <1>5. CASE SettleRename(c)
    <2>1. name[c] \in Name
      BY <1>5 DEF SettleRename, TypeOK, ConsumerTypeOK, PcOK, PcOKOf, Claimed,
                  Delivered, Settling, Moving, Copying
    <2>2. CASE file' = Renamed("inProgress", name[c], "settling", name[c])
      <3>1. Renamed("inProgress", name[c], "settling", name[c])[d][n] =
               IF d = "inProgress" /\ n = name[c] THEN NoFile ELSE file[d][n]
        BY <2>1, RenamedFacts
      <3>. QED
        BY <2>2, <3>1
    <2>. QED
      BY <1>3, <1>5, <2>2 DEF SettleRename
  <1>. QED
    BY <1>1, <1>3, <1>4, <1>5 DEF Step, Stop, List, PollAgain, DequeueNone, Read, MoveUnreadableToFailed,
       Begin, Finish, Attempted, runOnly, SettleExists, SettleSync, SettleUndo, GiveUp, SettleAgain,
       storeVars

(* A settle gives the message of its delivery a new name to wait under. *)
LEMMA WriteMoves ==
    ASSUME TypeOK, PcOK, NamesUsed, PendingClaims, ClaimIsExclusive, FailedUnclaimed,
           NEW c \in Consumer, SettleWrite(c), recovered = {}, faults = 0, faults' = 0
    PROVE  \E n \in Name, m \in Msg : CarrierMoved(n, m)
  <1>1. pc[c] = "write" /\ pc'[c] = "sync" /\ env[c] \in CommandEnvelope /\ UNCHANGED <<name, env>>
    BY DEF SettleWrite, Goto, Fault, TypeOK, ConsumerTypeOK, PcOK, PcOKOf, Delivered, Settling, Moving
  <1>2. \A b \in Consumer \ {c} : pc'[b] = pc[b]
    BY DEF SettleWrite, Goto, TypeOK, ConsumerTypeOK
  <1>3. PICK e \in Dir : UsesNewName /\ file' = Written(e, nextName, env[c])
    BY <1>1 DEF SettleWrite, NewName, UsesNewName, TargetOf, Fault, Dir, TypeOK, WorkTypeOK
  <1>4. PICK n, m : n = name[c] /\ m = env[c].id
    OBVIOUS
  <1>5. /\ n \in Name /\ m \in Msg /\ n # nextName /\ pc[c] \in Claimed
    BY <1>1, <1>4 DEF TypeOK, ConsumerTypeOK, StoreTypeOK, PcOK, PcOKOf, Claimed, Delivered, Settling, Moving,
                      NamesUsed, CommandEnvelope, Name
  <1>6. \A a \in Dir, x \in Name :
           file'[a][x] = IF a = e /\ x = nextName THEN env[c] ELSE file[a][x]
    <2>1. StoreTypeOK /\ nextName \in Name
      BY <1>3 DEF TypeOK, UsesNewName
    <2>. QED
      BY <1>1, <1>3, <2>1, WrittenFacts
  <1>7. \A b \in Consumer \ {c} : name[b] # n
    BY <1>4, <1>5 DEF ClaimIsExclusive, Name
  <1>8. Carries(n, m)
    BY <1>1, <1>4 DEF Carries, Carrying
  <1>9. ~Carries(n, m)'
    <2>1. file'["pending"][n] = NoFile /\ file'["failed"][n] = NoFile
      BY <1>4, <1>5, <1>6 DEF PendingClaims, FailedUnclaimed, Exists, Dir
    <2>2. \A b \in Consumer : name'[b] = n => pc'[b] = "sync"
      BY <1>1, <1>7
    <2>. QED
      BY <2>1, <2>2 DEF Carries, Exists, Carrying
  <1>10. ASSUME NEW k \in Name, NEW q \in Msg, Carries(k, q)', ~(k = nextName /\ q = m)
         PROVE  Carries(k, q)
    <2>1. \A b \in Consumer :
             /\ name'[b] = k /\ pc'[b] = "read" => name[b] = k /\ pc[b] = "read"
             /\ name'[b] = k /\ pc'[b] \in Carrying =>
                   name[b] = k /\ pc[b] \in Carrying /\ env'[b].id = env[b].id
      BY <1>1, <1>2 DEF Carrying
    <2>2. CASE k # nextName
      <3>1. \A d \in {"pending", "failed", "inProgress"} :
               file'[d][k] # NoFile => file'[d][k] = file[d][k]
        BY <1>6, <2>2 DEF Dir
      <3>. QED
        BY <1>10, <2>1, <3>1, CarriesBack
    <2>3. CASE k = nextName /\ q # m
      <3>1. \A b \in Consumer : name[b] # k
        BY <2>3 DEF NamesUsed, TypeOK, ConsumerTypeOK, StoreTypeOK, Name
      <3>2. \A d \in {"pending", "failed"} : file'[d][k] # NoFile /\ file'[d][k].id = q =>
                                               file[d][k] = file'[d][k]
        BY <1>4, <1>6, <2>3 DEF Dir
      <3>. QED
        BY <1>1, <1>10, <3>1, <3>2 DEF Carries, Exists
    <2>. QED
      BY <1>10, <2>2, <2>3
  <1>. QED
    BY <1>4, <1>5, <1>8, <1>9, <1>10 DEF CarrierMoved

(* A claim carries what the file carried while it waited. *)
LEMMA ClaimCarries ==
    ASSUME TypeOK, PcOK, NEW c \in Consumer, ClaimNext(c), faults = 0, faults' = 0
    PROVE  CarriersKept
  <1> StoreTypeOK /\ {"pending", "failed", "inProgress", "settling"} \subseteq Dir
    BY DEF TypeOK, Dir
  <1>1. PICK k \in Oldest(todo[c]) : Claim(c, k)
    BY DEF ClaimNext, Fault
  <1>2. k \in Name /\ pc[c] = "claim" /\ UNCHANGED env
    BY DEF Oldest, TypeOK, ConsumerTypeOK, ClaimNext
  <1>3. \A b \in Consumer \ {c} : pc'[b] = pc[b] /\ name'[b] = name[b]
    BY StepIsLocal DEF Untouched, TypeOK, Step
  <1>4. SUFFICES ASSUME NEW n \in Name, NEW m \in Msg, Carries(n, m)' PROVE Carries(n, m)
    BY DEF CarriersKept
  <1>5. CASE UNCHANGED <<file, name, pc>>
    <2>1. /\ \A d \in {"pending", "failed", "inProgress"} :
               file'[d][n] # NoFile => file'[d][n] = file[d][n]
          /\ \A b \in Consumer :
               /\ name'[b] = n /\ pc'[b] = "read" => name[b] = n /\ pc[b] = "read"
               /\ name'[b] = n /\ pc'[b] \in Carrying =>
                     name[b] = n /\ pc[b] \in Carrying /\ env'[b].id = env[b].id
      BY <1>2, <1>5
    <2>. QED
      BY <1>4, <2>1, CarriesBack
  <1>6. CASE /\ Exists("pending", k) /\ file' = Renamed("pending", k, "inProgress", k)
             /\ name'[c] = k /\ pc'[c] = "read"
    <2>1. /\ file'["pending"][n] = IF n = k THEN NoFile ELSE file["pending"][n]
          /\ file'["failed"][n] = file["failed"][n]
          /\ file'["inProgress"][n] = IF n = k THEN file["pending"][k] ELSE file["inProgress"][n]
      BY <1>2, <1>6, RenamedFacts
    <2>2. CASE n # k
      <3>1. \A d \in {"pending", "failed", "inProgress"} :
               file'[d][n] # NoFile => file'[d][n] = file[d][n]
        BY <2>1, <2>2
      <3>2. \A b \in Consumer :
               /\ name'[b] = n /\ pc'[b] = "read" => name[b] = n /\ pc[b] = "read"
               /\ name'[b] = n /\ pc'[b] \in Carrying =>
                     name[b] = n /\ pc[b] \in Carrying /\ env'[b].id = env[b].id
        BY <1>2, <1>3, <1>6, <2>2
      <3>. QED
        BY <1>4, <3>1, <3>2, CarriesBack
    <2>3. CASE n = k
      <3>1. CASE \E d \in {"pending", "failed"} : file'[d][n] # NoFile /\ file'[d][n].id = m
        BY <2>1, <2>3, <3>1 DEF Carries, Exists
      <3>2. CASE file'["inProgress"][n].id = m
        BY <1>6, <2>1, <2>3, <3>2 DEF Carries
      <3>3. ASSUME NEW b \in Consumer, name'[b] = n, pc'[b] \in Carrying, env'[b].id = m
            PROVE  Carries(n, m)
        BY <1>2, <1>3, <1>6, <3>3 DEF Carries, Carrying
      <3>. QED
        BY <1>4, <3>1, <3>2, <3>3 DEF Carries, Exists
    <2>. QED
      BY <2>2, <2>3
  <1>. QED
    BY <1>1, <1>2, <1>5, <1>6 DEF Claim, Goto, TypeOK, ConsumerTypeOK

(* A republish gives the message of a failed file a new name to wait under. *)
LEMMA RepublishMoves ==
    ASSUME TypeOK, PcOK, NamesUsed, OnePlacePerName, FailedUnclaimed,
           NEW n \in Name, file["failed"][n] # NoFile, UsesNewName,
           file' = Renamed("failed", n, "pending", nextName), UNCHANGED <<pc, name, env>>
    PROVE  \E k \in Name, m \in Msg : CarrierMoved(k, m)
  <1> StoreTypeOK /\ {"pending", "failed", "inProgress", "settling"} \subseteq Dir /\ nextName \in Name
    BY DEF TypeOK, Dir, UsesNewName
  <1>1. PICK m \in Msg : file["failed"][n].id = m
    BY DEF StoreTypeOK, CommandEnvelope
  <1>2. n # nextName /\ \A d \in Dir : file[d][nextName] = NoFile
    BY DEF NamesUsed, Exists, Name
  <1>3. \A d \in Dir, x \in Name :
           file'[d][x] = IF d = "pending" /\ x = nextName THEN file["failed"][n]
                         ELSE IF d = "failed" /\ x = n THEN NoFile ELSE file[d][x]
    <2> TAKE d \in Dir, x \in Name
    <2>1. Renamed("failed", n, "pending", nextName)[d][x] =
             IF d = "pending" /\ x = nextName THEN file["failed"][n]
             ELSE IF d = "failed" /\ x = n THEN NoFile ELSE file[d][x]
      BY RenamedFacts
    <2>. QED
      BY <2>1
  <1>4. Carries(n, m)
    BY <1>1 DEF Carries, Exists
  <1>5. \A b \in Consumer : name[b] = n => pc[b] \notin Carrying \cup {"read"}
    BY DEF FailedUnclaimed, Exists, Carrying, Claimed, Delivered, Settling, Moving, Copying
  <1>6. ~Carries(n, m)'
    <2>1. file'["failed"][n] = NoFile /\ file'["pending"][n] = file["pending"][n]
      BY <1>2, <1>3
    <2>2. file["pending"][n] = NoFile
      BY DEF OnePlacePerName, Exists
    <2>. QED
      BY <1>5, <2>1, <2>2 DEF Carries, Exists
  <1>7. ASSUME NEW k \in Name, NEW q \in Msg, Carries(k, q)', ~(k = nextName /\ q = m)
        PROVE  Carries(k, q)
    <2>1. CASE k # nextName
      <3>1. \A d \in {"pending", "failed", "inProgress"} :
               file'[d][k] # NoFile => file'[d][k] = file[d][k]
        BY <1>3, <2>1
      <3>2. \A b \in Consumer :
               /\ name'[b] = k /\ pc'[b] = "read" => name[b] = k /\ pc[b] = "read"
               /\ name'[b] = k /\ pc'[b] \in Carrying =>
                     name[b] = k /\ pc[b] \in Carrying /\ env'[b].id = env[b].id
        OBVIOUS
      <3>. QED
        BY <1>7, <3>1, <3>2, CarriesBack
    <2>2. CASE k = nextName
      <3>1. \A b \in Consumer : name[b] # k
        BY <2>2 DEF NamesUsed, TypeOK, ConsumerTypeOK, StoreTypeOK, Name
      <3>2. \A d \in {"pending", "failed"} : file'[d][k] # NoFile => file'[d][k].id = m
        BY <1>1, <1>2, <1>3, <2>2
      <3>. QED
        BY <1>7, <2>2, <3>1, <3>2 DEF Carries, Exists
    <2>. QED
      BY <2>1, <2>2
  <1>. QED
    BY <1>4, <1>6, <1>7 DEF CarrierMoved

(* A new message waits under its new name. *)
LEMMA PublishCarries ==
    ASSUME TypeOK, NamesUsed, NEW m \in Msg, Publish(m)
    PROVE  \A k \in Name, q \in Msg : Carries(k, q)' => Carries(k, q) \/ (k = nextName /\ q = m)
  <1> StoreTypeOK /\ {"pending", "failed", "inProgress", "settling"} \subseteq Dir
    BY DEF TypeOK, Dir
  <1>1. nextName \in Name /\ file' = Written("pending", nextName, NewEnvelope(m))
    BY DEF Publish, NewName
  <1>2. NewEnvelope(m) \in CommandEnvelope /\ NewEnvelope(m).id = m
    BY DEF NewEnvelope, CommandEnvelope
  <1>3. \A d \in Dir, x \in Name :
           file'[d][x] = IF d = "pending" /\ x = nextName THEN NewEnvelope(m) ELSE file[d][x]
    BY <1>1, <1>2, WrittenFacts
  <1>4. UNCHANGED <<pc, name, env>>
    BY DEF Publish, consumerVars, deliveryVars
  <1>5. ASSUME NEW k \in Name, NEW q \in Msg, Carries(k, q)', ~(k = nextName /\ q = m)
        PROVE  Carries(k, q)
    <2>1. CASE k # nextName
      <3>1. \A d \in {"pending", "failed", "inProgress"} :
               file'[d][k] # NoFile => file'[d][k] = file[d][k]
        BY <1>3, <2>1
      <3>2. \A b \in Consumer :
               /\ name'[b] = k /\ pc'[b] = "read" => name[b] = k /\ pc[b] = "read"
               /\ name'[b] = k /\ pc'[b] \in Carrying =>
                     name[b] = k /\ pc[b] \in Carrying /\ env'[b].id = env[b].id
        BY <1>4
      <3>. QED
        BY <1>5, <3>1, <3>2, CarriesBack
    <2>2. CASE k = nextName
      <3>1. \A b \in Consumer : name[b] # k
        BY <2>2 DEF NamesUsed, TypeOK, ConsumerTypeOK, StoreTypeOK, Name
      <3>2. \A d \in Dir : file[d][k] = NoFile
        BY <2>2 DEF NamesUsed, Exists, Name
      <3>3. \A d \in {"pending", "failed"} : file'[d][k] # NoFile => file'[d][k].id = m
        BY <1>2, <1>3, <2>2, <3>2
      <3>. QED
        BY <1>4, <1>5, <2>2, <3>1, <3>3 DEF Carries, Exists
    <2>. QED
      BY <2>1, <2>2
  <1>. QED
    BY <1>5

LEMMA OthersCarry ==
    ASSUME TypeOK, PcOK, ServerTasks, NamesUsed, OnePlacePerName, FailedUnclaimed, [Next]_vars,
           \A c \in Consumer : ~Step(c), recovered' = {}
    PROVE  \/ CarriersKept
           \/ \E n \in Name, m \in Msg : CarrierMoved(n, m)
           \/ \E m \in Msg : Publish(m)
  <1> StoreTypeOK /\ {"pending", "failed", "inProgress", "settling"} \subseteq Dir
    BY DEF TypeOK, Dir
  <1>1. ASSUME \A n \in Name, d \in {"pending", "failed", "inProgress"} :
                   file'[d][n] # NoFile => file'[d][n] = file[d][n]
        PROVE  CarriersKept
    <2>1. OtherStep
      BY StepOrOther
    <2>2. \A n, b : b \in Consumer =>
             /\ name'[b] = n /\ pc'[b] = "read" => name[b] = n /\ pc[b] = "read"
             /\ name'[b] = n /\ pc'[b] \in Carrying =>
                   name[b] = n /\ pc[b] \in Carrying /\ env'[b].id = env[b].id
      BY <2>1 DEF OtherStep, Untouched, Restarted, Carrying
    <2>3. ASSUME NEW n \in Name, NEW m \in Msg, Carries(n, m)' PROVE Carries(n, m)
      BY <1>1, <2>2, <2>3, CarriesBack
    <2>. QED
      BY <2>3 DEF CarriersKept
  <1>2. ASSUME file' = file PROVE CarriersKept
    BY <1>1, <1>2
  <1>3. ASSUME NEW w \in Worker, WorkOnFile(w)
        PROVE  CarriersKept \/ \E n \in Name, m \in Msg : CarrierMoved(n, m)
    <2>1. PICK k \in Oldest(work[w]) :
             \/ op[w] \in {"recover", "recoverSettling"} /\ RecoverFile(PassDir(op[w]), k)
             \/ op[w] \in {"clearPending", "clearInProgress", "clearSettling", "clearFailed"}
                /\ ClearFile(PassDir(op[w]), k)
             \/ op[w] = "republish" /\ RepublishFile(PassDir(op[w]), k)
      BY <1>3 DEF WorkOnFile
    <2>2. k \in Name
      BY <2>1 DEF Oldest, TypeOK, WorkTypeOK
    <2>3. CASE op[w] \in {"recover", "recoverSettling"} /\ RecoverFile(PassDir(op[w]), k)
      BY <1>2, <2>3 DEF RecoverFile, RenamedIfPresent
    <2>4. CASE op[w] \in {"clearPending", "clearInProgress", "clearSettling", "clearFailed"}
               /\ ClearFile(PassDir(op[w]), k)
      <3>1. PICK a \in Dir : file' = Removed(a, k)
        BY <2>4 DEF ClearFile, PassDir
      <3>2. \A d \in Dir, n \in Name :
               Removed(a, k)[d][n] = IF d = a /\ n = k THEN NoFile ELSE file[d][n]
        BY <2>2, RemovedFacts
      <3>. QED
        BY <1>1, <3>1, <3>2
    <2>5. CASE op[w] = "republish" /\ RepublishFile(PassDir(op[w]), k)
      <3>1. PassDir(op[w]) = "failed"
        BY <2>5 DEF PassDir
      <3>2. UsesNewName /\ file' = RenamedIfPresent("failed", k, "pending", nextName)
        BY <2>5, <3>1 DEF RepublishFile, NewName, UsesNewName
      <3>3. UNCHANGED <<pc, name, env>>
        BY <1>3 DEF WorkOnFile, workOnly, consumerVars, deliveryVars
      <3>. QED
        BY <1>2, <2>2, <3>2, <3>3, RepublishMoves DEF RenamedIfPresent, Exists
    <2>. QED
      BY <2>1, <2>3, <2>4, <2>5
  <1>. QED
    BY <1>2, <1>3 DEF Next, StartCommand, FinishPass, WorkFails, ServerStart, ServerOpen, ServerSpawn,
       Cancel, ServerStop, ServerCrash, CliStart, CliCrash, lifeOnly, vars, storeVars

(* What is published, and what has succeeded: a success ends a run. *)
LEMMA RecordsStep ==
    ASSUME TypeOK, PcOK, ServerTasks, [Next]_vars
    PROVE  /\ published' = published \/ \E m \in Msg : Publish(m)
           /\ \/ succeeded' = succeeded
              \/ \E c \in Consumer : /\ Step(c) /\ ~SettleWrite(c) /\ ~ClaimNext(c)
                                     /\ pc[c] = "running" /\ pc'[c] = "ack"
                                     /\ succeeded' = succeeded \cup {env[c].id}
  <1>1. ASSUME NEW c \in Consumer, Step(c)
        PROVE  published' = published
    BY <1>1 DEF Step, Stop, List, PollAgain, DequeueNone, ClaimNext, Read, MoveUnreadableToFailed,
         Begin, Finish, Attempted, Acknowledge, SettleRename, SettleExists, SettleWrite, SettleSync,
         SettleUndo, SettleRemove, SettleDrop, GiveUp, SettleAgain, runOnly, claimOnly, settleOnly,
         historyVars
  <1>2. published' = published \/ \E m \in Msg : Publish(m)
    BY <1>1 DEF Next, StartCommand, WorkOnFile, FinishPass, WorkFails, ServerStart, ServerOpen, ServerSpawn,
         Cancel, ServerStop, ServerCrash, CliStart, CliCrash, lifeOnly, historyVars, vars
  <1>3. ASSUME NEW c \in Consumer, Step(c), ~Finish(c) PROVE succeeded' = succeeded
    BY <1>3 DEF Step, Stop, List, PollAgain, DequeueNone, ClaimNext, Read, MoveUnreadableToFailed,
         Begin, Attempted, Acknowledge, SettleRename, SettleExists, SettleWrite, SettleSync,
         SettleUndo, SettleRemove, SettleDrop, GiveUp, SettleAgain, runOnly, claimOnly, settleOnly,
         historyVars
  <1>4. ASSUME NEW c \in Consumer, Finish(c)
        PROVE  \/ succeeded' = succeeded
               \/ /\ ~SettleWrite(c) /\ ~ClaimNext(c) /\ pc[c] = "running" /\ pc'[c] = "ack"
                  /\ succeeded' = succeeded \cup {env[c].id}
    <2>1. ForAttempt("succeeded", env[c]) = "acknowledge"
      BY DEF ForAttempt
    <2>. QED
      BY <1>4, <2>1 DEF Finish, Attempted, Settle, Goto, SettleWrite, ClaimNext, TypeOK, ConsumerTypeOK
  <1>. QED
    BY <1>2, <1>3, <1>4, StepOrOther DEF OtherStep, Step

LEMMA OneCarrierStep ==
    ASSUME TypeOK, PcOK, ServerTasks, NamesUsed, OnePlacePerName, PendingClaims, ClaimIsExclusive,
           NoErrorPath, FailedUnclaimed, OneCarrier, [Next]_vars
    PROVE  OneCarrier'
  <1> SUFFICES ASSUME Undisturbed' PROVE OneCarrier'
    BY DEF OneCarrier
  <1>1. Undisturbed /\ faults = 0 /\ faults' = 0 /\ recovered = {} /\ recovered' = {}
    BY BoundsGrow, RecoveredGrows DEF Undisturbed
  <1>2. /\ succeeded \subseteq published
        /\ \A m \in Msg, n, k \in Name : Carries(n, m) /\ Carries(k, m) => n = k
        /\ \A m \in Msg : m \in succeeded \/ m \notin published => \A n \in Name : ~Carries(n, m)
    BY <1>1 DEF OneCarrier
  <1> DEFINE Goal == succeeded' \subseteq published' /\ \A m \in Msg :
        /\ \A n, k \in Name : Carries(n, m)' /\ Carries(k, m)' => n = k
        /\ m \in succeeded' \/ m \notin published' => \A n \in Name : ~Carries(n, m)'
  <1>3. ASSUME NEW c \in Consumer, Step(c), ~SettleWrite(c), ~ClaimNext(c)
        PROVE  /\ CarriersKept
               /\ pc'[c] = "ack" => \A n \in Name : \A m : n = name[c] => ~Carries(n, m)'
    <2>1. \A n \in Name, d \in {"pending", "failed", "inProgress"} :
             file'[d][n] # NoFile => file'[d][n] = file[d][n]
      BY <1>1, <1>3, StepFiles
    <2>2. \A b \in Consumer \ {c} : pc'[b] = pc[b] /\ name'[b] = name[b] /\ env'[b] = env[b]
      BY <1>3, StepIsLocal DEF Untouched, TypeOK
    <2>3. /\ name'[c] # 0 /\ pc'[c] = "read" => name'[c] = name[c] /\ pc[c] = "read"
          /\ pc'[c] \in Carrying =>
                 /\ name'[c] = name[c]
                 /\ \/ pc[c] \in Carrying /\ env'[c].id = env[c].id
                    \/ /\ pc[c] = "read" /\ file["inProgress"][name[c]] # NoFile
                       /\ env'[c].id = file["inProgress"][name[c]].id
      BY <1>1, <1>3, StepCarries
    <2>4. ASSUME NEW n \in Name, NEW m \in Msg, Carries(n, m)' PROVE Carries(n, m)
      <3>1. \A b \in Consumer :
             /\ name'[b] = n /\ pc'[b] = "read" => name[b] = n /\ pc[b] = "read"
             /\ name'[b] = n /\ pc'[b] \in Carrying =>
                   /\ name[b] = n
                   /\ \/ pc[b] \in Carrying /\ env'[b].id = env[b].id
                      \/ /\ pc[b] = "read" /\ file["inProgress"][n] # NoFile
                         /\ env'[b].id = file["inProgress"][n].id
        <4>1. n # 0
          BY DEF Name
        <4>. QED
          BY <2>2, <2>3, <4>1
      <3>. QED
        BY <2>1, <2>4, <3>1, CarriesBack
    <2>5. ASSUME pc'[c] = "ack", NEW n \in Name, n = name[c], NEW m PROVE ~Carries(n, m)'
      <3>1. pc[c] \in Claimed
        BY <2>5 DEF PcOK, PcOKOf, Name
      <3>2. file["pending"][n] = NoFile /\ file["failed"][n] = NoFile
        BY <1>1, <2>5, <3>1 DEF PendingClaims, FailedUnclaimed, Exists
      <3>3. \A b \in Consumer \ {c} : name'[b] # n
        BY <1>1, <2>2, <2>5 DEF ClaimIsExclusive, Name
      <3>4. file'["pending"][n] = NoFile /\ file'["failed"][n] = NoFile
        BY <2>1, <3>2
      <3>. QED
        BY <2>5, <3>3, <3>4 DEF Carries, Exists, Carrying
    <2>. QED
      BY <2>4, <2>5 DEF CarriersKept
  <1>4. ASSUME succeeded' = succeeded, published' = published, CarriersKept PROVE Goal
    BY <1>2, <1>4 DEF CarriersKept
  <1>5. ASSUME NEW n \in Name, NEW m \in Msg, CarrierMoved(n, m), succeeded' = succeeded,
               published' = published
        PROVE  Goal
    BY <1>2, <1>5 DEF CarrierMoved
  <1>6. ASSUME NEW c \in Consumer, Step(c), ~SettleWrite(c), ~ClaimNext(c), pc[c] = "running",
               pc'[c] = "ack", succeeded' = succeeded \cup {env[c].id}, published' = published
        PROVE  Goal
    <2>1. PICK n, m : n = name[c] /\ m = env[c].id
      OBVIOUS
    <2>2. n \in Name /\ m \in Msg /\ Carries(n, m)
      BY <1>6, <2>1 DEF PcOK, PcOKOf, Claimed, Delivered, TypeOK, ConsumerTypeOK, Carries, Carrying,
                        CommandEnvelope
    <2>3. CarriersKept /\ ~Carries(n, m)'
      BY <1>3, <1>6, <2>1, <2>2
    <2>. QED
      BY <1>2, <1>6, <2>1, <2>2, <2>3 DEF CarriersKept
  <1>7. ASSUME NEW m \in Msg, Publish(m) PROVE Goal
    <2>1. m \notin published /\ published' = published \cup {m} /\ succeeded' = succeeded
      BY <1>7 DEF Publish
    <2>2. m \notin succeeded
      BY <1>2, <2>1
    <2>3. \A k \in Name, q \in Msg : Carries(k, q)' => Carries(k, q) \/ (k = nextName /\ q = m)
      BY <1>7, PublishCarries
    <2>. QED
      BY <1>2, <2>1, <2>2, <2>3
  <1>8. CASE published' = published /\ succeeded' = succeeded
    <2>1. ASSUME NEW c \in Consumer, Step(c)
          PROVE  CarriersKept \/ \E n \in Name, m \in Msg : CarrierMoved(n, m)
      <3>1. CASE SettleWrite(c)
        BY <1>1, <3>1, WriteMoves
      <3>2. CASE ClaimNext(c)
        BY <1>1, <3>2, ClaimCarries
      <3>. QED
        BY <1>3, <2>1, <3>1, <3>2
    <2>2. Goal
      BY <1>1, <1>4, <1>5, <1>7, <1>8, <2>1, OthersCarry
    <2>. QED
      BY <2>2 DEF OneCarrier
  <1>9. Goal
    BY <1>6, <1>7, <1>8, RecordsStep DEF OneCarrier
  <1>. QED
    BY <1>9 DEF OneCarrier

(* Without a fault, a crash and a recover, a message is run by one consumer *)
(* at a time and never again once it has succeeded (RunsOnce): at any time  *)
(* one file name at most can bring about a run of it.                       *)
THEOREM OneRunAtATime == Spec => []RunsOnce
  <1>1. Init => NamesUsed /\ OnePlacePerName /\ PendingClaims /\ ClaimIsExclusive /\ NoErrorPath
                /\ FailedUnclaimed /\ OneCarrier
    <2>1. Init => FailedUnclaimed /\ OneCarrier /\ NoErrorPath
      BY DEF Init, StoreInit, FailedUnclaimed, OneCarrier, Carries, Carrying, Exists, NoErrorPath, Claimed,
             Delivered, Settling, Moving, Copying, Dir
    <2>. QED
      BY <2>1, NamesInit, ClaimsInit
  <1>2. TypeOK /\ PcOK /\ ServerTasks /\ NamesUsed /\ OnePlacePerName /\ PendingClaims
          /\ ClaimIsExclusive /\ NoErrorPath /\ FailedUnclaimed /\ OneCarrier /\ InProgressIsHeld
          /\ [Next]_vars /\ PcOK'
        => (PendingClaims /\ NoErrorPath /\ FailedUnclaimed /\ OneCarrier)'
    BY ClaimsStep, HeldStep, FailedUnclaimedStep, OneCarrierStep
  <1>3. TypeOK /\ PcOK /\ ClaimIsExclusive /\ OneCarrier => RunsOnce
    <2>1. ASSUME TypeOK, PcOK, NEW c \in Consumer, pc[c] = "running"
          PROVE  name[c] \in Name /\ env[c].id \in Msg /\ Carries(name[c], env[c].id)
      BY <2>1 DEF TypeOK, ConsumerTypeOK, PcOK, PcOKOf, Claimed, Delivered, CommandEnvelope, Carries, Carrying
    <2>2. \A c \in Consumer : name[c] \in Name => name[c] # 0
      BY DEF Name
    <2>. QED
      BY <2>1, <2>2 DEF RunsOnce, OneCarrier, ClaimIsExclusive, Undisturbed
  <1>. QED
    BY <1>1, <1>2, <1>3, TypeCorrect, FilesHaveOnePlace, ClaimsAreExclusive, NothingIsStranded, PTL DEF Spec

-----------------------------------------------------------------------------
(* The whole invariant. *)

LEMMA InvariantInit == Init => IInv
  <1> SUFFICES ASSUME Init PROVE IInv
    OBVIOUS
  <1>1. NoErrorPath /\ InProgressIsHeld
    BY DEF Init, StoreInit, NoErrorPath, InProgressIsHeld, Exists, Dir
  <1>2. FailedUnclaimed /\ OneCarrier
    BY DEF Init, StoreInit, FailedUnclaimed, OneCarrier, Carries, Carrying, Exists, Claimed, Delivered,
           Settling, Moving, Copying, Dir
  <1>. QED
    BY <1>1, <1>2, TypeInit, NamesInit, ClaimsInit, ChargesInit, LossInit DEF IInv

(* The parts of IInv hold together in every reachable state, and together  *)
(* they are inductive: every file-system call of claim_oldest,             *)
(* move_claimed, recover, clear and republish_failed keeps all of them, so *)
(* a reader may take any state that satisfies IInv for a state of the lane.*)
THEOREM InvariantHolds == Spec => []IInv
  <1>1. IInv /\ [Next]_vars => IInv'
    <2> SUFFICES ASSUME IInv, [Next]_vars PROVE IInv'
      OBVIOUS
    <2> USE DEF IInv
    <2>1. TypeOK' /\ PcOK' /\ ServerTasks'
      BY EveryStepIsFileStep, StoreTypeStep, ConsumerTypeStep, WorkTypeStep, HistoryTypeStep, PcStep,
         ServerTasksStep DEF TypeOK
    <2>2. NamesUsed' /\ OnePlacePerName'
      BY NamesStep
    <2>3. PendingClaims' /\ ClaimIsExclusive'
      BY <2>1, ClaimsStep
    <2>4. NoAttemptOvercharged' /\ DeliveryCharges'
      BY <2>1, ChargesStep
    <2>5. SameMessage' /\ CopiesAreNew' /\ SuccessRecorded'
      BY SameMessageStep, CopiesStep, SuccessStep
    <2>6. KeptFile' /\ CopyFollows'
      BY LossStep DEF LossInv
    <2>7. NoErrorPath' /\ InProgressIsHeld'
      BY HeldStep
    <2>8. FailedUnclaimed' /\ OneCarrier'
      BY <2>1, FailedUnclaimedStep, OneCarrierStep
    <2>. QED
      BY <2>1, <2>2, <2>3, <2>4, <2>5, <2>6, <2>7, <2>8
  <1>. QED
    BY <1>1, InvariantInit, PTL DEF Spec

-----------------------------------------------------------------------------
(* The refinement of QueueStages. *)

(* The places of a message exclude each other, and only a message that has *)
(* succeeded or was cleared is gone.                                       *)
PlaceOK(m) ==
    /\ StageOf(m) = "new" <=> m \notin published
    /\ StageOf(m) = "pending" <=> InDir("pending", m)
    /\ StageOf(m) = "failed" <=> InDir("failed", m)
    /\ StageOf(m) = "inProgress" <=> AtWork(m)
    /\ StageOf(m) \in {"new", "pending", "failed", "inProgress", "gone"}
    /\ m \in succeeded => StageOf(m) \in {"inProgress", "gone"}
    /\ StageOf(m) = "gone" => Ended(m)

PlacesOK == \A m \in Msg : PlaceOK(m)

(* A message at work has a name that carries it, which is claimed, unless   *)
(* it is about to be acknowledged.                                          *)
LEMMA WorkCarries ==
    ASSUME IInv, Undisturbed, NEW m \in Msg, AtWork(m)
    PROVE  \/ m \in succeeded
           \/ \E n \in Name : Carries(n, m) /\ ~Exists("pending", n) /\ ~Exists("failed", n)
  <1> USE DEF IInv
  <1>1. ASSUME NEW c \in Consumer, pc[c] \in Working, env[c].id = m
        PROVE  \/ m \in succeeded
               \/ \E n \in Name : Carries(n, m) /\ ~Exists("pending", n) /\ ~Exists("failed", n)
    <2>1. pc[c] \in Claimed /\ name[c] \in Name
      BY <1>1 DEF Working, Claimed, Delivered, Settling, Moving, Copying, PcOK, PcOKOf, TypeOK, ConsumerTypeOK
    <2>2. ~Exists("pending", name[c]) /\ ~Exists("failed", name[c])
      BY <2>1 DEF PendingClaims, FailedUnclaimed, Undisturbed
    <2>3. CASE pc[c] = "ack"
      BY <1>1, <2>3 DEF PcOK, PcOKOf, SuccessRecorded
    <2>4. CASE pc[c] \in Carrying
      BY <1>1, <2>1, <2>2, <2>4 DEF Carries
    <2>. QED
      BY <1>1, <2>3, <2>4 DEF Working, Carrying
  <1>2. ASSUME NEW n \in Name, Exists("inProgress", n), file["inProgress"][n].id = m
        PROVE  \/ m \in succeeded
               \/ \E k \in Name : Carries(k, m) /\ ~Exists("pending", k) /\ ~Exists("failed", k)
    <2>1. PICK c \in Consumer : name[c] = n /\ pc[c] \in {"read", "begin", "running", "ack", "rename"}
      BY <1>2 DEF InProgressIsHeld, Undisturbed
    <2>2. CASE pc[c] = "read"
      BY <1>2, <2>1, <2>2 DEF Carries, OnePlacePerName, Dir
    <2>3. CASE pc[c] # "read"
      <3>1. pc[c] \in Delivered /\ pc[c] \in Working
        BY <2>1, <2>3 DEF Delivered, Settling, Moving, Working
      <3>2. env[c].id = m
        BY <1>2, <2>1, <3>1 DEF SameMessage, Dir
      <3>. QED
        BY <1>1, <3>1, <3>2
    <2>. QED
      BY <2>2, <2>3
  <1>. QED
    BY <1>1, <1>2 DEF AtWork, InDir

(* A message that is gone has ended: otherwise its newest file would be    *)
(* one that a settle replaces by a newer one.                              *)
LEMMA GoneHasEnded ==
    ASSUME IInv, Undisturbed, NEW m \in published,
           ~InDir("pending", m), ~InDir("failed", m), ~AtWork(m)
    PROVE  Ended(m)
  <1> USE DEF IInv
  <1>1. SUFFICES ASSUME ~Ended(m) PROVE FALSE
    OBVIOUS
  <1> DEFINE Files == {n \in Name : Holds(n, m)}
  <1>2. PICK n \in Files : \A k \in Files : k <= n
    <2>1. Files # {} /\ Files \in SUBSET (1..MaxName) /\ MaxName \in Nat
      BY <1>1 DEF KeptFile, Name
    <2> HIDE DEF Files
    <2>. QED
      BY <2>1, Greatest
  <1>3. Exists("settling", n) /\ file["settling"][n].id = m
    BY DEF Holds, InDir, AtWork, Dir
  <1>4. PICK c \in Consumer : name[c] = n /\ pc[c] \in {"write", "sync", "remove"}
    BY <1>3 DEF InProgressIsHeld, Undisturbed
  <1>5. env[c].id = m
    BY <1>3, <1>4 DEF SameMessage, Dir, Delivered, Settling, Moving, Copying
  <1>6. pc[c] # "write"
    BY <1>5 DEF AtWork, Working
  <1>7. PICK k \in Name : k >= newName[c] /\ Holds(k, m)
    BY <1>1, <1>4, <1>5, <1>6 DEF CopyFollows
  <1>8. name[c] < newName[c] /\ newName[c] \in Name
    BY <1>4, <1>6 DEF CopiesAreNew, Copying, PcOK, PcOKOf
  <1>. QED
    BY <1>2, <1>4, <1>7, <1>8 DEF Name

LEMMA StageIsPlace == IInv /\ Undisturbed => PlacesOK
  <1> SUFFICES ASSUME IInv, Undisturbed, NEW m \in Msg PROVE PlaceOK(m)
    BY DEF PlacesOK
  <1>1. StageOf(m) = IF m \notin published THEN "new"
                     ELSE IF InDir("pending", m) THEN "pending"
                     ELSE IF InDir("failed", m) THEN "failed"
                     ELSE IF AtWork(m) THEN "inProgress" ELSE "gone"
    BY DEF StageOf
  <1>2. succeeded \subseteq published /\ OnePlacePerName
        /\ (\A n, k \in Name : Carries(n, m) /\ Carries(k, m) => n = k)
        /\ (m \in succeeded \/ m \notin published => \A n \in Name : ~Carries(n, m))
    BY DEF IInv, OneCarrier
  <1>3. ASSUME NEW d \in {"pending", "failed"}, InDir(d, m)
        PROVE  \E n \in Name : Carries(n, m) /\ Exists(d, n)
    BY <1>3 DEF InDir, Carries
  <1>4. InDir("pending", m) \/ InDir("failed", m) => m \in published /\ m \notin succeeded
    BY <1>2, <1>3
  <1>5. ~(InDir("pending", m) /\ InDir("failed", m))
    BY <1>2, <1>3 DEF OnePlacePerName, Dir
  <1>6. AtWork(m) => m \in published /\ ~InDir("pending", m) /\ ~InDir("failed", m)
    BY <1>2, <1>3, <1>4, WorkCarries
  <1>7. m \in published /\ ~InDir("pending", m) /\ ~InDir("failed", m) /\ ~AtWork(m) => Ended(m)
    BY GoneHasEnded
  <1>. QED
    BY <1>1, <1>2, <1>4, <1>5, <1>6, <1>7 DEF PlaceOK

(* What a step does to the places of one message. *)
Stays(m) ==
    /\ InDir("pending", m)' <=> InDir("pending", m)
    /\ InDir("failed", m)' <=> InDir("failed", m)
    /\ AtWork(m)' <=> AtWork(m)

NoneArrives ==
    \A m \in Msg : /\ InDir("pending", m)' => InDir("pending", m)
                   /\ InDir("failed", m)' => InDir("failed", m)
                   /\ AtWork(m)' => AtWork(m)

LEMMA StaysInStage ==
    ASSUME PlacesOK, PlacesOK', NEW m \in Msg, Stays(m), m \in published' <=> m \in published
    PROVE  StageOf(m)' = StageOf(m)
  <1>1. PlaceOK(m) /\ PlaceOK(m)'
    BY DEF PlacesOK
  <1>. QED
    BY <1>1 DEF PlaceOK, Stays

LEMMA OneMoves ==
    ASSUME PlacesOK, PlacesOK', succeeded' = succeeded, NEW x \in Msg,
           \A m \in Msg \ {x} : Stays(m) /\ (m \in published' <=> m \in published)
    PROVE  Abstract!Move({x}, StageOf(x), StageOf(x)')
  <1>1. \A m \in Msg \ {x} : StageOf(m)' = StageOf(m)
    BY StaysInStage
  <1>. QED
    BY <1>1 DEF Abstract!Move

(* A step at which no message comes to a place takes at most one away: one *)
(* that has been acknowledged or cleared.                                  *)
LEMMA OneLeaves ==
    ASSUME PlacesOK, PlacesOK', published' = published, succeeded' = succeeded, NoneArrives,
           NEW x, \A m \in Msg \ {x} : Stays(m)
    PROVE  Abstract!Transfer \/ (\E m \in Msg : Discard(m)) \/ UNCHANGED Abstract!vars
  <1>1. CASE \A m \in Msg : StageOf(m)' = StageOf(m)
    BY <1>1 DEF Abstract!vars
  <1>2. ASSUME NEW m \in Msg, StageOf(m)' # StageOf(m)
        PROVE  Abstract!Transfer \/ Discard(m)
    <2>1. m = x
      BY <1>2, StaysInStage
    <2>2. Abstract!Move({m}, StageOf(m), StageOf(m)')
      BY <2>1, OneMoves
    <2>3. PlaceOK(m) /\ PlaceOK(m)'
      BY DEF PlacesOK
    <2>4. /\ InDir("pending", m)' => InDir("pending", m)
          /\ InDir("failed", m)' => InDir("failed", m)
          /\ AtWork(m)' => AtWork(m)
      BY DEF NoneArrives
    <2>5. StageOf(m)' = "gone" /\ StageOf(m) \in {"pending", "inProgress", "failed"}
      BY <1>2, <2>3, <2>4 DEF PlaceOK
    <2>6. m \in succeeded \/ m \in cleared'
      BY <2>3, <2>5 DEF PlaceOK, Ended
    <2>7. CASE m \in cleared'
      BY <2>2, <2>5, <2>7 DEF Discard
    <2>8. CASE m \in succeeded
      <3>1. StageOf(m) = "inProgress"
        BY <2>3, <2>5, <2>8 DEF PlaceOK
      <3>. QED
        BY <2>2, <2>5, <2>8, <3>1 DEF Abstract!Transfer, Abstract!Acknowledge
    <2>. QED
      BY <2>6, <2>7, <2>8
  <1>. QED
    BY <1>1, <1>2

(* The files of a message whose contents a step leaves alone, and those a   *)
(* step adds none to.                                                       *)
LEMMA FilesStay ==
    ASSUME NEW m, NEW d \in Dir,
           \A n \in Name : \/ file'[d][n] = file[d][n]
                           \/ /\ file[d][n] # NoFile => file[d][n].id # m
                              /\ file'[d][n] # NoFile => file'[d][n].id # m
    PROVE  InDir(d, m)' <=> InDir(d, m)
  BY DEF InDir, Exists

LEMMA FilesGo ==
    ASSUME NEW m, NEW d, \A n \in Name : file'[d][n] # NoFile => file'[d][n] = file[d][n], InDir(d, m)'
    PROVE  InDir(d, m)
  BY DEF InDir, Exists

(* A consumer takes away only files of its own delivery. *)
LEMMA StepTakes ==
    ASSUME IInv, NEW c \in Consumer, Step(c), ~SettleWrite(c), ~ClaimNext(c), faults = 0,
           NEW d \in {"pending", "failed", "inProgress"}, NEW n \in Name,
           file[d][n] # NoFile, file'[d][n] # file[d][n]
    PROVE  file[d][n].id = env[c].id
  <1> USE DEF IInv
  <1> StoreTypeOK /\ d \in Dir /\ d # "settling" /\ {"pending", "failed", "inProgress", "settling"} \subseteq Dir
    BY DEF TypeOK, Dir
  <1>1. pc[c] \notin {"undo", "backoff", "unreadable"}
    BY DEF NoErrorPath
  <1>2. ASSUME NEW a \in Dir, NEW k \in Name, file' = Removed(a, k) PROVE a = d /\ k = n
    <2>1. Removed(a, k)[d][n] = IF d = a /\ n = k THEN NoFile ELSE file[d][n]
      BY RemovedFacts
    <2>. QED
      BY <1>2, <2>1
  <1>3. CASE Acknowledge(c) \/ SettleRename(c) \/ SettleRemove(c)
    <2>1. name[c] \in Name /\ pc[c] \in Delivered
      BY <1>3 DEF Acknowledge, SettleRename, SettleRemove, TypeOK, ConsumerTypeOK, PcOK, PcOKOf, Claimed,
                  Delivered, Settling, Moving, Copying
    <2>2. ASSUME n = name[c] PROVE file[d][n].id = env[c].id
      BY <2>1, <2>2 DEF SameMessage, Exists
    <2>3. CASE file' = Renamed("inProgress", name[c], "settling", name[c])
      <3>1. Renamed("inProgress", name[c], "settling", name[c])[d][n] =
               IF d = "inProgress" /\ n = name[c] THEN NoFile ELSE file[d][n]
        BY <2>1, RenamedFacts
      <3>. QED
        BY <2>2, <2>3, <3>1
    <2>. QED
      BY <1>2, <1>3, <2>1, <2>2, <2>3 DEF Acknowledge, SettleRename, SettleRemove
  <1>4. CASE SettleDrop(c)
    <2>1. newName[c] \in Name /\ pc[c] \in Copying
      BY <1>4 DEF SettleDrop, PcOK, PcOKOf, Copying
    <2>2. n = newName[c]
      BY <1>2, <1>4, <2>1 DEF SettleDrop, TargetOf
    <2>. QED
      BY <2>1, <2>2 DEF SameMessage, Exists
  <1>. QED
    BY <1>1, <1>3, <1>4 DEF Step, Stop, List, PollAgain, DequeueNone, Read, MoveUnreadableToFailed,
       Begin, Finish, Attempted, runOnly, SettleExists, SettleSync, SettleUndo, GiveUp, SettleAgain,
       storeVars

(* A consumer that neither claims nor writes a copy brings no message to a *)
(* place, and moves at most that of its own delivery.                      *)
LEMMA StepLeaves ==
    ASSUME IInv, NEW c \in Consumer, Step(c), ~SettleWrite(c), ~ClaimNext(c), faults = 0, faults' = 0
    PROVE  NoneArrives /\ \A m \in Msg \ {env[c].id} : Stays(m)
  <1> USE DEF IInv
  <1>1. \A d \in {"pending", "failed", "inProgress"}, n \in Name :
           file'[d][n] # NoFile => file'[d][n] = file[d][n]
    BY StepFiles
  <1>2. \A b \in Consumer \ {c} : pc'[b] = pc[b] /\ env'[b] = env[b]
    BY StepIsLocal DEF Untouched, TypeOK
  <1>3. ASSUME pc'[c] \in Working
        PROVE  \/ pc[c] \in Working /\ env'[c].id = env[c].id
               \/ InDir("inProgress", env'[c].id)
    <2>1. pc[c] \notin {"undo", "backoff", "unreadable"}
      BY DEF NoErrorPath
    <2>2. pc'[c] \in Delivered
      BY <1>3 DEF Working, Delivered, Settling, Moving
    <2>3. CASE pc[c] \in Delivered /\ env'[c].id = env[c].id
      <3>1. ASSUME pc[c] \in Copying PROVE FALSE
        BY <1>3, <3>1 DEF Copying, Working, Step, Stop, List, PollAgain, DequeueNone, Read,
           MoveUnreadableToFailed, Begin, Finish, Acknowledge, SettleRename, SettleExists,
           SettleSync, SettleUndo, SettleRemove, SettleDrop, GiveUp, SettleAgain, Settled, Lost, Leave, Goto,
           Fault, TypeOK, ConsumerTypeOK
      <3>. QED
        BY <2>1, <2>3, <3>1 DEF Delivered, Settling, Moving, Working
    <2>4. CASE /\ name[c] \in Name /\ file["inProgress"][name[c]] \in CommandEnvelope
               /\ env'[c].id = file["inProgress"][name[c]].id
      BY <2>4, StoreAssumption DEF InDir, Exists
    <2>. QED
      BY <2>2, <2>3, <2>4, DeliveryStep
  <1>4. ASSUME NEW m \in Msg, AtWork(m)' PROVE AtWork(m)
    <2>1. CASE InDir("inProgress", m)'
      BY <1>1, <2>1, FilesGo DEF AtWork
    <2>2. ASSUME NEW b \in Consumer, pc'[b] \in Working, env'[b].id = m PROVE AtWork(m)
      BY <1>2, <1>3, <2>2 DEF AtWork
    <2>. QED
      BY <1>4, <2>1, <2>2 DEF AtWork
  <1>5. NoneArrives
    BY <1>1, <1>4, FilesGo DEF NoneArrives
  <1>6. ASSUME NEW m \in Msg, m # env[c].id PROVE Stays(m)
    <2>1. ASSUME NEW d \in {"pending", "failed", "inProgress"} PROVE InDir(d, m)' <=> InDir(d, m)
      <3>1. d \in Dir
        BY DEF Dir
      <3>2. ASSUME NEW n \in Name, file'[d][n] # file[d][n]
            PROVE  /\ file[d][n] # NoFile => file[d][n].id # m
                   /\ file'[d][n] = NoFile
        BY <1>1, <1>6, <3>2, StepTakes
      <3>. QED
        BY <3>1, <3>2, FilesStay
    <2>2. ASSUME AtWork(m) PROVE AtWork(m)'
      <3>1. CASE InDir("inProgress", m)
        BY <2>1, <3>1 DEF AtWork
      <3>2. ASSUME NEW b \in Consumer, pc[b] \in Working, env[b].id = m PROVE AtWork(m)'
        BY <1>2, <1>6, <3>2 DEF AtWork
      <3>. QED
        BY <2>2, <3>1, <3>2 DEF AtWork
    <2>. QED
      BY <1>4, <2>1, <2>2 DEF Stays
  <1>. QED
    BY <1>5, <1>6

(* A step that touches only files and deliveries of x. *)
Touches(x) ==
    /\ \A d \in {"pending", "failed", "inProgress"}, n \in Name :
         \/ file'[d][n] = file[d][n]
         \/ /\ file[d][n] # NoFile => file[d][n].id = x
            /\ file'[d][n] # NoFile => file'[d][n].id = x
    /\ \A b \in Consumer :
         \/ (pc'[b] \in Working <=> pc[b] \in Working) /\ env'[b] = env[b]
         \/ /\ pc[b] \in Working => env[b].id = x
            /\ pc'[b] \in Working => env'[b].id = x

LEMMA OthersStay ==
    ASSUME NEW x, Touches(x), NEW m, m # x
    PROVE  Stays(m)
  <1>1. ASSUME NEW d \in {"pending", "failed", "inProgress"} PROVE InDir(d, m)' <=> InDir(d, m)
    <2>1. d \in Dir
      BY DEF Dir
    <2>. QED
      BY <2>1, FilesStay DEF Touches
  <1>2. (\E c \in Consumer : pc'[c] \in Working /\ env'[c].id = m)
           <=> (\E c \in Consumer : pc[c] \in Working /\ env[c].id = m)
    BY DEF Touches
  <1>. QED
    BY <1>1, <1>2 DEF Stays, AtWork

(* A claim of rename_if_present is the claim of Queue. *)
LEMMA ClaimRefines ==
    ASSUME IInv, PlacesOK, PlacesOK', NEW c \in Consumer, ClaimNext(c), faults = 0, faults' = 0
    PROVE  Abstract!Transfer \/ UNCHANGED Abstract!vars
  <1> StoreTypeOK /\ {"pending", "failed", "inProgress", "settling"} \subseteq Dir
    BY DEF IInv, TypeOK, Dir
  <1>1. PICK k \in Oldest(todo[c]) : Claim(c, k)
    BY DEF ClaimNext, Fault, IInv, TypeOK, WorkTypeOK
  <1>2. /\ k \in Name /\ pc[c] = "claim" /\ UNCHANGED <<env, published, succeeded>>
    BY DEF Oldest, IInv, TypeOK, ConsumerTypeOK, ClaimNext, claimOnly, historyVars
  <1>3. CASE UNCHANGED <<file, name, pc>>
    <2>1. ASSUME NEW m \in Msg PROVE StageOf(m)' = StageOf(m)
      BY <1>2, <1>3 DEF StageOf, AtWork, InDir, Exists
    <2>. QED
      BY <1>2, <2>1 DEF Abstract!vars
  <1>4. CASE file["pending"][k] # NoFile /\ file' = Renamed("pending", k, "inProgress", k) /\ Goto(c, "read")
    <2>1. PICK x \in Msg : x = file["pending"][k].id
      BY <1>2, <1>4 DEF StoreTypeOK, CommandEnvelope
    <2>2. ASSUME NEW d \in Dir, NEW n \in Name
          PROVE  file'[d][n] = IF d = "inProgress" /\ n = k THEN file["pending"][k]
                               ELSE IF d = "pending" /\ n = k THEN NoFile ELSE file[d][n]
      BY <1>2, <1>4, RenamedFacts
    <2>3. InDir("pending", x) /\ AtWork(x)'
      BY <1>2, <1>4, <2>1, <2>2 DEF InDir, AtWork, Exists
    <2>4. StageOf(x) = "pending" /\ StageOf(x)' = "inProgress"
      BY <2>3 DEF PlacesOK, PlaceOK
    <2>5. Touches(x)
      <3>1. ASSUME NEW d \in {"pending", "failed", "inProgress"}, NEW n \in Name
            PROVE  \/ file'[d][n] = file[d][n]
                   \/ /\ file[d][n] # NoFile => file[d][n].id = x
                      /\ file'[d][n] # NoFile => file'[d][n].id = x
        <4>1. CASE n # k
          BY <2>2, <4>1
        <4>2. CASE n = k
          <5>1. file["inProgress"][k] = NoFile
            BY <1>2, <1>4 DEF IInv, OnePlacePerName, Exists
          <5>2. /\ file'["pending"][k] = NoFile /\ file'["failed"][k] = file["failed"][k]
                /\ file'["inProgress"][k] = file["pending"][k]
            BY <1>2, <2>2
          <5>. QED
            BY <2>1, <4>2, <5>1, <5>2
        <4>. QED
          BY <4>1, <4>2
      <3>2. \A b \in Consumer : (pc'[b] \in Working <=> pc[b] \in Working) /\ env'[b] = env[b]
        BY <1>2, <1>4 DEF Goto, Working, IInv, TypeOK, ConsumerTypeOK
      <3>. QED
        BY <3>1, <3>2 DEF Touches
    <2>6. Abstract!Move({x}, "pending", "inProgress")
      BY <1>2, <2>4, <2>5, OthersStay, OneMoves
    <2>. QED
      BY <2>6 DEF Abstract!Transfer, Abstract!Claim
  <1>. QED
    BY <1>1, <1>3, <1>4 DEF Claim, Exists

(* The rename that makes the copy of a settle visible is the settle. *)
LEMMA WriteRefines ==
    ASSUME IInv, PlacesOK, PlacesOK', NEW c \in Consumer, SettleWrite(c), faults = 0, faults' = 0
    PROVE  Abstract!Transfer
  <1> StoreTypeOK /\ {"pending", "failed", "inProgress", "settling"} \subseteq Dir
    BY DEF IInv, TypeOK, Dir
  <1>1. /\ pc[c] = "write" /\ Goto(c, "sync") /\ env[c] \in CommandEnvelope
        /\ UNCHANGED <<env, published, succeeded>>
    BY DEF SettleWrite, Fault, IInv, TypeOK, PcOK, PcOKOf, Delivered, Settling, Moving, settleOnly, historyVars
  <1>2. PICK e \in {"pending", "failed"} : nextName \in Name /\ file' = Written(e, nextName, env[c])
    BY <1>1 DEF SettleWrite, NewName, TargetOf, Fault
  <1>3. PICK x \in Msg : x = env[c].id
    BY <1>1 DEF CommandEnvelope
  <1>4. \A d \in Dir, n \in Name : file'[d][n] = IF d = e /\ n = nextName THEN env[c] ELSE file[d][n]
    BY <1>1, <1>2, WrittenFacts
  <1>5. \A d \in Dir : file[d][nextName] = NoFile
    BY <1>2 DEF IInv, NamesUsed, Exists, Name
  <1>6. AtWork(x) /\ InDir(e, x)'
    <2>1. env[c] # NoFile
      BY <1>1, StoreAssumption
    <2>. QED
      BY <1>1, <1>2, <1>3, <1>4, <2>1 DEF AtWork, InDir, Exists, Working
  <1>7. StageOf(x) = "inProgress" /\ StageOf(x)' = e
    BY <1>6 DEF PlacesOK, PlaceOK
  <1>8. Touches(x)
    <2>1. \A b \in Consumer : b # c => pc'[b] = pc[b] /\ env'[b] = env[b]
      BY <1>1 DEF Goto, IInv, TypeOK, ConsumerTypeOK
    <2>2. pc'[c] \notin Working
      BY <1>1 DEF Goto, Working, IInv, TypeOK, ConsumerTypeOK
    <2>3. \A d \in {"pending", "failed", "inProgress"}, n \in Name :
             \/ file'[d][n] = file[d][n]
             \/ file[d][n] = NoFile /\ file'[d][n].id = x
      BY <1>3, <1>4, <1>5
    <2>. QED
      BY <1>3, <2>1, <2>2, <2>3 DEF Touches
  <1>9. Abstract!Move({x}, "inProgress", e)
    BY <1>1, <1>7, <1>8, OthersStay, OneMoves
  <1>. QED
    BY <1>9 DEF Abstract!Transfer, Abstract!Requeue, Abstract!Fail

LEMMA StepRefines ==
    ASSUME IInv, PlacesOK, PlacesOK', NEW c \in Consumer, Step(c), [Next]_vars, faults = 0, faults' = 0
    PROVE  Abstract!Transfer \/ (\E m \in Msg : Discard(m)) \/ UNCHANGED Abstract!vars
  <1>1. CASE ClaimNext(c)
    BY <1>1, ClaimRefines
  <1>2. CASE SettleWrite(c)
    BY <1>2, WriteRefines
  <1>3. CASE ~ClaimNext(c) /\ ~SettleWrite(c)
    <2>1. NoneArrives /\ \A m \in Msg \ {env[c].id} : Stays(m)
      BY <1>3, StepLeaves
    <2>2. published' = published
      BY DEF Step, Stop, List, PollAgain, DequeueNone, ClaimNext, Read, MoveUnreadableToFailed,
         Begin, Finish, Attempted, Acknowledge, SettleRename, SettleExists, SettleWrite, SettleSync,
         SettleUndo, SettleRemove, SettleDrop, GiveUp, SettleAgain, runOnly, claimOnly, settleOnly,
         historyVars
    <2>3. CASE succeeded' = succeeded
      BY <2>1, <2>2, <2>3, OneLeaves
    <2>4. ASSUME NEW b \in Consumer, Step(b), pc[b] = "running", pc'[b] = "ack",
                 succeeded' = succeeded \cup {env[b].id}
          PROVE  Abstract!Transfer
      <3>1. b = c
        BY <2>4, StepIsLocal DEF Untouched, IInv, TypeOK
      <3>2. PICK x \in Msg : x = env[c].id
        BY <2>4, <3>1 DEF IInv, PcOK, PcOKOf, Delivered, CommandEnvelope
      <3>3. env'[c].id = x
        <4>2. pc[c] = "running" /\ Finish(c)
          BY <2>4, <3>1 DEF Step, Stop, List, PollAgain, DequeueNone, ClaimNext, Read, MoveUnreadableToFailed,
             Begin, Acknowledge, SettleRename, SettleExists, SettleWrite, SettleSync,
             SettleUndo, SettleRemove, SettleDrop, GiveUp, SettleAgain
        <4>3. env[c] \in CommandEnvelope
          BY <4>2 DEF IInv, PcOK, PcOKOf, Delivered
        <4>4. ASSUME NEW k \in AttemptKind, Attempted(c, k) PROVE env'[c].id = env[c].id
          BY <4>3, <4>4, SettledEnvelope DEF Attempted, TakeBackAttempt, CommandEnvelope, IInv, TypeOK
        <4>. QED
          BY <3>2, <4>2, <4>4 DEF Finish, AttemptKind
      <3>4. AtWork(x) /\ AtWork(x)'
        BY <2>4, <3>1, <3>2, <3>3 DEF AtWork, Working
      <3>5. StageOf(x)' = StageOf(x) /\ StageOf(x) # "new"
        BY <3>4 DEF PlacesOK, PlaceOK
      <3>6. \A m \in Msg : StageOf(m)' = StageOf(m)
        BY <2>1, <2>2, <3>2, <3>5, StaysInStage
      <3>7. Abstract!Succeed(x)
        BY <2>4, <3>1, <3>2, <3>5, <3>6 DEF Abstract!Succeed
      <3>. QED
        BY <3>7 DEF Abstract!Transfer
    <2>. QED
      BY <2>3, <2>4, RecordsStep DEF IInv
  <1>. QED
    BY <1>1, <1>2, <1>3

LEMMA PublishRefines ==
    ASSUME IInv, PlacesOK, PlacesOK', NEW x \in Msg, Publish(x)
    PROVE  Abstract!Transfer
  <1> StoreTypeOK /\ {"pending", "failed", "inProgress", "settling"} \subseteq Dir
    BY DEF IInv, TypeOK, Dir
  <1>1. /\ UNCHANGED <<pc, env, succeeded>> /\ x \notin published /\ published' = published \cup {x}
    BY DEF Publish, consumerVars, deliveryVars
  <1>2. nextName \in Name /\ file' = Written("pending", nextName, NewEnvelope(x))
    BY DEF Publish, NewName
  <1>3. NewEnvelope(x) \in CommandEnvelope /\ NewEnvelope(x).id = x
    BY DEF NewEnvelope, CommandEnvelope
  <1>4. \A d \in Dir, n \in Name :
           file'[d][n] = IF d = "pending" /\ n = nextName THEN NewEnvelope(x) ELSE file[d][n]
    BY <1>2, <1>3, WrittenFacts
  <1>5. \A d \in Dir : file[d][nextName] = NoFile
    BY <1>2 DEF IInv, NamesUsed, Exists, Name
  <1>6. InDir("pending", x)'
    <2>1. NewEnvelope(x) # NoFile
      BY <1>3, StoreAssumption
    <2>. QED
      BY <1>2, <1>3, <1>4, <2>1 DEF InDir, Exists
  <1>7. StageOf(x) = "new" /\ StageOf(x)' = "pending"
    BY <1>1, <1>6 DEF PlacesOK, PlaceOK
  <1>8. Touches(x)
    BY <1>1, <1>3, <1>4, <1>5 DEF Touches
  <1>9. Abstract!Move({x}, "new", "pending")
    BY <1>1, <1>7, <1>8, OthersStay, OneMoves
  <1>. QED
    BY <1>9 DEF Abstract!Transfer, Abstract!Publish

(* A bulk operation: a republished file moves, a cleared one leaves, and a *)
(* recover that finds no file changes nothing.                             *)
LEMMA WorkRefines ==
    ASSUME IInv, PlacesOK, PlacesOK', NEW w \in Worker, WorkOnFile(w), recovered' = {}
    PROVE  Abstract!Transfer \/ (\E m \in Msg : Discard(m)) \/ UNCHANGED Abstract!vars
  <1> StoreTypeOK /\ {"pending", "failed", "inProgress", "settling"} \subseteq Dir
    BY DEF IInv, TypeOK, Dir
  <1>1. UNCHANGED <<pc, env, published, succeeded>>
    BY DEF WorkOnFile, workOnly, consumerVars, deliveryVars
  <1>2. PICK k \in Oldest(work[w]) :
           \/ op[w] \in {"recover", "recoverSettling"} /\ RecoverFile(PassDir(op[w]), k)
           \/ op[w] \in {"clearPending", "clearInProgress", "clearSettling", "clearFailed"}
              /\ ClearFile(PassDir(op[w]), k)
           \/ op[w] = "republish" /\ RepublishFile(PassDir(op[w]), k)
    BY DEF WorkOnFile
  <1>3. k \in Name
    BY <1>2 DEF Oldest, IInv, TypeOK, WorkTypeOK
  <1>4. ASSUME file' = file PROVE UNCHANGED Abstract!vars
    <2>1. ASSUME NEW m \in Msg PROVE StageOf(m)' = StageOf(m)
      BY <1>1, <1>4 DEF StageOf, AtWork, InDir, Exists
    <2>. QED
      BY <1>1, <2>1 DEF Abstract!vars
  <1>5. CASE op[w] \in {"recover", "recoverSettling"} /\ RecoverFile(PassDir(op[w]), k)
    BY <1>4, <1>5 DEF RecoverFile, RenamedIfPresent
  <1>6. CASE op[w] \in {"clearPending", "clearInProgress", "clearSettling", "clearFailed"}
             /\ ClearFile(PassDir(op[w]), k)
    <2>1. PICK a \in Dir : file' = Removed(a, k)
      BY <1>6 DEF ClearFile, PassDir
    <2>2. \A d \in Dir, n \in Name : file'[d][n] = IF d = a /\ n = k THEN NoFile ELSE file[d][n]
      BY <1>3, <2>1, RemovedFacts
    <2>3. NoneArrives
      <3>1. \A d \in {"pending", "failed", "inProgress"}, n \in Name :
               file'[d][n] # NoFile => file'[d][n] = file[d][n]
        BY <2>2
      <3>. QED
        BY <1>1, <3>1, FilesGo DEF NoneArrives, AtWork
    <2>4. PICK x : x = file[a][k].id
      OBVIOUS
    <2>5. Touches(x)
      BY <1>1, <2>2, <2>4 DEF Touches
    <2>. QED
      BY <1>1, <2>3, <2>5, OthersStay, OneLeaves
  <1>7. CASE op[w] = "republish" /\ RepublishFile(PassDir(op[w]), k)
    <2>1. nextName \in Name /\ file' = RenamedIfPresent("failed", k, "pending", nextName)
      BY <1>7 DEF RepublishFile, NewName, PassDir
    <2>2. CASE file["failed"][k] # NoFile /\ file' = Renamed("failed", k, "pending", nextName)
      <3>1. PICK x \in Msg : x = file["failed"][k].id
        BY <1>3, <2>2 DEF StoreTypeOK, CommandEnvelope
      <3>2. ASSUME NEW d \in Dir, NEW n \in Name
            PROVE  file'[d][n] = IF d = "pending" /\ n = nextName THEN file["failed"][k]
                                 ELSE IF d = "failed" /\ n = k THEN NoFile ELSE file[d][n]
        BY <1>3, <2>1, <2>2, RenamedFacts
      <3>3. file["pending"][nextName] = NoFile
        BY <2>1 DEF IInv, NamesUsed, Exists, Name
      <3>4. InDir("failed", x) /\ InDir("pending", x)'
        BY <1>3, <2>1, <2>2, <3>1, <3>2 DEF InDir, Exists
      <3>5. StageOf(x) = "failed" /\ StageOf(x)' = "pending"
        BY <3>4 DEF PlacesOK, PlaceOK
      <3>6. Touches(x)
        BY <1>1, <3>1, <3>2, <3>3 DEF Touches
      <3>7. Abstract!Move({x}, "failed", "pending")
        BY <1>1, <3>5, <3>6, OthersStay, OneMoves
      <3>. QED
        BY <3>7 DEF Abstract!Transfer, Abstract!Republish
    <2>. QED
      BY <1>4, <2>1, <2>2 DEF RenamedIfPresent, Exists
  <1>. QED
    BY <1>2, <1>5, <1>6, <1>7

LEMMA NextRefines ==
    ASSUME IInv, IInv', [Next]_vars, Undisturbed'
    PROVE  Abstract!Transfer \/ (\E m \in Msg : Discard(m)) \/ UNCHANGED Abstract!vars
  <1>1. Undisturbed /\ faults = 0 /\ faults' = 0 /\ recovered' = {} /\ crashes' = crashes
    BY BoundsGrow, RecoveredGrows DEF Undisturbed, IInv
  <1>2. PlacesOK /\ PlacesOK'
    <2>1. (IInv /\ Undisturbed => PlacesOK)'
      BY StageIsPlace, PTL
    <2>. QED
      BY <1>1, <2>1, StageIsPlace
  <1>3. ASSUME NEW c \in Consumer, Step(c)
        PROVE  Abstract!Transfer \/ (\E m \in Msg : Discard(m)) \/ UNCHANGED Abstract!vars
    BY <1>1, <1>2, <1>3, StepRefines
  <1>4. ASSUME file' = file, published' = published, \A c \in Consumer : ~Step(c)
        PROVE  UNCHANGED Abstract!vars
    <2>1. OtherStep
      BY <1>4, StepOrOther DEF IInv
    <2>2. \A b \in Consumer : \/ pc'[b] = pc[b] /\ name'[b] = name[b]
                              \/ pc[b] = "stopped" /\ pc'[b] = "idle"
      BY <1>1, <1>4, OthersShrink DEF IInv
    <2>3. \A b \in Consumer : /\ pc'[b] \in Working <=> pc[b] \in Working
                              /\ pc[b] \in Working => env'[b] = env[b]
      <3>1. \A b \in Consumer : pc[b] \in Working => name[b] # 0
        BY DEF IInv, PcOK, PcOKOf, Working, Claimed, Delivered, Settling, Moving
      <3>. QED
        BY <2>1, <2>2, <3>1 DEF OtherStep, Untouched, Restarted, Working
    <2>4. ASSUME NEW m \in Msg PROVE StageOf(m)' = StageOf(m)
      <3>1. (\E c \in Consumer : pc'[c] \in Working /\ env'[c].id = m)
               <=> (\E c \in Consumer : pc[c] \in Working /\ env[c].id = m)
        BY <2>3
      <3>2. Stays(m)
        BY <1>4, <3>1 DEF Stays, InDir, AtWork, Exists
      <3>. QED
        BY <1>2, <1>4, <3>2, StaysInStage
    <2>. QED
      BY <2>1, <2>4 DEF OtherStep, Abstract!vars
  <1>5. CASE (\A c \in Consumer : ~Step(c)) /\ (\A m \in Msg : ~Publish(m)) /\ (\A w \in Worker : ~WorkOnFile(w))
    <2>1. file' = file
      BY <1>5 DEF Next, StartCommand, FinishPass, WorkFails, ServerStart, ServerOpen, ServerSpawn,
         Cancel, ServerStop, ServerCrash, CliStart, CliCrash, lifeOnly, vars, storeVars
    <2>2. published' = published
      BY <1>5, RecordsStep DEF IInv
    <2>. QED
      BY <1>4, <1>5, <2>1, <2>2
  <1>. QED
    BY <1>1, <1>2, <1>3, <1>5, PublishRefines, WorkRefines

LEMMA StagesInit == Init => succeeded = {} /\ \A m \in Msg : StageOf(m) = "new"
  <1> SUFFICES ASSUME Init PROVE succeeded = {} /\ \A m \in Msg : StageOf(m) = "new"
    OBVIOUS
  <1>1. published = {} /\ succeeded = {} /\ Undisturbed
    BY DEF Init, Undisturbed
  <1>2. PlacesOK
    BY <1>1, InvariantInit, StageIsPlace
  <1>. QED
    BY <1>1, <1>2 DEF PlacesOK, PlaceOK

(* As long as no call fails, no process crashes and no recover takes a     *)
(* file back, the file lane refines QueueStages (ImplementsStages): of the *)
(* calls of claim_oldest, move_claimed, acknowledge, clear and             *)
(* republish_failed, the rename of a claim, the write of a settle's copy,  *)
(* the removal by an acknowledge, a clear or a lost settle and the rename  *)
(* of a republish are moves of Queue, every other call changes no stage.   *)
THEOREM LaneImplementsStages == Spec => ImplementsStages
  <1>1. Init => Abstract!Init
    BY StagesInit DEF Abstract!Init
  <1>2. IInv /\ IInv' /\ [Next]_vars
          => [Undisturbed' => Abstract!Transfer \/ \E m \in Msg : Discard(m)]_(Abstract!vars)
    <2> SUFFICES ASSUME IInv, IInv', [Next]_vars
                 PROVE  \/ Undisturbed' => Abstract!Transfer \/ \E m \in Msg : Discard(m)
                        \/ UNCHANGED Abstract!vars
      OBVIOUS
    <2>1. CASE Undisturbed'
      BY <2>1, NextRefines
    <2>. QED
      BY <2>1
  <1>. QED
    BY <1>1, <1>2, InvariantHolds, PTL DEF Spec, ImplementsStages

=============================================================================
