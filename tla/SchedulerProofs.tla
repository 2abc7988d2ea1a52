-------------------------- MODULE SchedulerProofs ---------------------------
(***************************************************************************)
(* The safety properties of Scheduler, proved for every set of jobs, every *)
(* choice of options, chain, number of fire times and size of the pool.    *)
(***************************************************************************)
EXTENDS Scheduler, TLAPS

(* The task of job j is inside run_with_lifecycle. *)
InRun(j) == pc[j] \in Step \ {"pick"}

(* A run is numbered by at most the fire time it was picked for; the loop picks
   a time that has not passed, and is back only after it has. *)
Times(j) ==
    /\ runs[j] <= fire[j] /\ fire[j] <= MaxFires[j]
    /\ pc[j] = "sleep" => runs[j] < fire[j]
    /\ pc[j] = "pick" \/ InRun(j) => fire[j] <= due[j]

(* The steps of a job with the options o that are behind a run at step p whose
   command ended with end: an error of the command skips what follows a success. *)
Passed(o, end, p) ==
    {s \in o : /\ Position(s) < Position(p)
               /\ end \in {"failed", "timeout"} => s \notin {"after_run", "ping_after_url"}}

(* The run under way: no step before its command has been left out, none behind
   it is taken unless the command has returned. *)
Current(j) ==
    LET r == runs[j] end == thread[j][r] IN
    InRun(j) =>
        /\ Wanted(opt[j], pc[j])
        /\ result[j][r] = "none" /\ <<j, r>> \notin abandoned
        /\ done[j][r] = Passed(opt[j], end, pc[j])
        /\ Position(pc[j]) < Position("await") => end = "none"
        /\ Position(pc[j]) > Position("await") =>
              end = "ok" \/ (end \in {"failed", "timeout"} /\ pc[j] \in Save)

(* A run that has not started has left nothing. *)
Unstarted(j, r) ==
    r > runs[j] =>
        /\ thread[j][r] = "none" /\ result[j][r] = "none" /\ done[j][r] = {}
        /\ <<j, r>> \notin abandoned

(* A run that is over has left its command behind only if it gave it up. *)
Over(j, r) ==
    (r < runs[j] \/ (r = runs[j] /\ ~InRun(j))) /\ Live(j, r) => <<j, r>> \in abandoned

(* SavedOnlyWithResult and ReturnIsTruthful of one run. *)
Saved(j, r) ==
    done[j][r] \cap Save # {} =>
        /\ <<j, r>> \notin abandoned
        /\ thread[j][r] \in {"ok", "failed", "timeout"}
        /\ thread[j][r] = "ok" => opt[j] \cap {"after_run", "ping_after_url"} \subseteq done[j][r]

Truthful(j, r) ==
    /\ result[j][r] = "ok" => thread[j][r] = "ok" /\ done[j][r] = opt[j] \ {"timeout"}
    /\ result[j][r] = "timeout" => <<j, r>> \in abandoned \/ thread[j][r] = "timeout"
    /\ result[j][r] = "interrupted" => cancelled
    /\ <<j, r>> \in abandoned => result[j][r] = "timeout"
    /\ thread[j][r] = "interrupted" => cancelled

RunInv(j, r) == Unstarted(j, r) /\ Over(j, r) /\ Saved(j, r) /\ Truthful(j, r)

JobInv(j) == Times(j) /\ Current(j) /\ \A r \in Run : RunInv(j, r)

(* The server has waited for every task. *)
HostInv == host # "serving" => \A j \in Job : pc[j] \in {"stopped", "dead"}

IInv == TypeOK /\ HostInv /\ \A j \in Job : JobInv(j)

-----------------------------------------------------------------------------
(* Facts about the order of the steps. *)

LEMMA PositionValues ==
    /\ Position("ping_before_url") = 1 /\ Position("before_run") = 2
    /\ Position("await") = 3 /\ Position("after_run") = 4
    /\ Position("ping_after_url") = 5 /\ Position("write_output_to") = 6
    /\ Position("append_output_to") = 7 /\ Position("email_output_to") = 8
    /\ Position("pick") = 9 /\ Position("timeout") = 9
  BY DEF Position

LEMMA PositionType == \A s \in Step \cup Option : Position(s) \in 1 .. 9
  BY PositionValues DEF Step, Ping, Hook, Save, Option

LEMMA PositionOneToOne ==
    \A s, t \in Step : Position(s) = Position(t) => s = t
  BY PositionValues DEF Step, Ping, Hook, Save

(* Between the position a run goes on from and its next step there is no wanted
   option. *)
LEMMA NextSkipsNothing ==
    ASSUME NEW o \in SUBSET Option, NEW p \in 0 .. 9, NEW t \in Step, IsNext(o, p, t)
    PROVE  \A s \in o : Position(s) < Position(t) <=> Position(s) <= p
  <1> SUFFICES ASSUME NEW s \in o
               PROVE  Position(s) < Position(t) <=> Position(s) <= p
    OBVIOUS
  <1>1. Position(s) \in 1 .. 9 /\ Position(t) \in 1 .. 9 /\ p < Position(t)
    BY PositionType DEF IsNext
  <1>2. CASE s = "timeout"
    BY <1>1, <1>2, PositionValues
  <1>3. CASE s # "timeout"
    <2>1. s \in Step /\ Wanted(o, s)
      BY <1>3 DEF Step, Option, Ping, Hook, Save, Wanted
    <2>. QED
      BY <1>1, <2>1 DEF IsNext
  <1>. QED
    BY <1>2, <1>3

(* Before the command nothing ends a run, and after the last step everything does. *)
LEMMA ReturnIsLast ==
    ASSUME NEW o \in SUBSET Option, NEW p \in 0 .. 9
    PROVE  /\ IsNext(o, p, "pick") => p >= Position("await")
           /\ p >= 8 /\ p < 9 => IsNext(o, p, "pick")
  <1>1. "await" \in Step /\ Wanted(o, "await") /\ Wanted(o, "pick")
    BY DEF Step, Wanted
  <1>2. IsNext(o, p, "pick") => p >= Position("await")
    BY <1>1, PositionValues DEF IsNext
  <1>3. ASSUME p >= 8, p < 9 PROVE IsNext(o, p, "pick")
    BY <1>1, <1>3, PositionValues, PositionType DEF IsNext
  <1>. QED
    BY <1>2, <1>3

-----------------------------------------------------------------------------
(* Types. *)

LEMMA TypeInit == Init => TypeOK
  <1> SUFFICES ASSUME Init PROVE TypeOK
    OBVIOUS
  <1>1. opt \in [Job -> SUBSET Option]
    BY SchedulerAssumption DEF Init
  <1>2. \A j \in Job : MaxFires[j] \in Nat
    BY SchedulerAssumption
  <1>3. /\ pc \in [Job -> Step \cup {"sleep", "stopped", "dead"}]
        /\ \A j \in Job : pc[j] \notin Step \ {"pick"}
        /\ timer \in [Job -> {"off", "on", "deadline", "grace"}]
        /\ cancelled \in BOOLEAN /\ consumers \in BOOLEAN
        /\ host \in {"serving", "stopped", "exited"}
    BY DEF Init, Step
  <1>4. /\ due \in [Job -> Nat] /\ fire \in [Job -> Nat] /\ runs \in [Job -> Nat]
        /\ \A j \in Job : runs[j] <= MaxFires[j]
    BY <1>2 DEF Init
  <1>5. /\ thread \in [Job -> [Run -> ThreadState]]
        /\ link \in [Job -> [Run -> Nat]]
        /\ result \in [Job -> [Run -> CommandResult \cup {"none"}]]
        /\ done \in [Job -> [Run -> SUBSET Option]]
        /\ abandoned \subseteq Job \X Run
    BY DEF Init, ThreadState
  <1>. QED
    BY <1>1, <1>3, <1>4, <1>5 DEF TypeOK

LEMMA RunsAreNumbers == Run \subseteq Nat
  BY SchedulerAssumption DEF Run

LEMMA RunInRange ==
    ASSUME TypeOK, NEW j \in Job, Times(j), pc[j] = "sleep"
    PROVE  runs[j] + 1 \in Run /\ runs[j] + 1 <= MaxFires[j]
  BY SchedulerAssumption DEF Run, TypeOK, Times

(* A run that goes on is at a later step or back in the loop with its result. *)
LEMMA GoOnTypes ==
    ASSUME TypeOK, NEW j \in Job, InRun(j), NEW p, NEW res \in CommandResult,
           GoOn(j, p, res)
    PROVE  /\ pc' \in [Job -> Step \cup {"sleep", "stopped", "dead"}]
           /\ result' \in [Job -> [Run -> CommandResult \cup {"none"}]]
           /\ \A k \in Job : pc'[k] \in Step \ {"pick"} => runs[k] \in Run
  <1>1. runs[j] \in Run
    BY DEF TypeOK, InRun
  <1>2. CASE Return(j, res)
    BY <1>1, <1>2 DEF Return, TypeOK, Step
  <1>3. CASE Goto(j, p) /\ UNCHANGED result
    BY <1>1, <1>3 DEF Goto, TypeOK
  <1>. QED
    BY <1>2, <1>3 DEF GoOn

LEMMA JobTypeStep ==
    ASSUME TypeOK, NEW j \in Job, Times(j), Current(j), JobStep(j)
    PROVE  TypeOK'
  <1> USE DEF TypeOK
  <1>0. "pick" \in Step /\ Ping \subseteq Step \ {"pick"} /\ Hook \subseteq Step \ {"pick"}
        /\ Save \subseteq Step \ {"pick"} /\ "await" \in Step \ {"pick"}
        /\ Ping \subseteq Option /\ Hook \subseteq Option /\ Save \subseteq Option
        /\ "sleep" \notin Step /\ "stopped" \notin Step /\ "dead" \notin Step
    BY DEF Step, Ping, Hook, Save, Option
  <1>1. CASE Pick(j)
    <2>1. CASE due[j] < MaxFires[j]
      <3>0. fire' = [fire EXCEPT ![j] = due[j] + 1] /\ due[j] + 1 \in Nat
        BY <1>1, <2>1 DEF Pick
      <3>1. fire' \in [Job -> Nat]
        BY <3>0
      <3>2. /\ pc' \in [Job -> Step \cup {"sleep", "stopped", "dead"}]
            /\ \A k \in Job : pc'[k] \in Step \ {"pick"} => runs[k] \in Run
        BY <1>0, <1>1, <2>1 DEF Pick
      <3>. QED
        BY <1>1, <3>1, <3>2 DEF Pick
    <2>2. CASE ~(due[j] < MaxFires[j])
      BY <1>0, <1>1, <2>2 DEF Pick
    <2>. QED
      BY <2>1, <2>2
  <1>2. CASE SleepCancelled(j) \/ HookPanics(j)
    BY <1>0, <1>2 DEF SleepCancelled, HookPanics
  <1>3. CASE Fire(j)
    BY <1>0, <1>3, RunInRange DEF Fire, Goto
  <1>4. CASE PingOk(j)
    BY <1>0, <1>4, GoOnTypes DEF PingOk, Took, InRun, CommandResult
  <1>5. CASE RunHook(j)
    BY <1>0, <1>5, GoOnTypes DEF RunHook, Took, InRun, CommandResult
  <1>6. CASE PingFails(j)
    BY <1>0, <1>6 DEF PingFails, Return, CommandResult
  <1>7. CASE Spawn(j)
    BY <1>0, <1>7 DEF Spawn, ThreadState
  <1>8. CASE Joined(j)
    <2>1. ResultOf(thread[j][runs[j]]) \in CommandResult
      BY <1>8 DEF Joined, CommandEnd, CommandResult, ResultOf
    <2>2. InRun(j) /\ GoOn(j, GoesOnAfter(thread[j][runs[j]]), ResultOf(thread[j][runs[j]]))
      BY <1>0, <1>8 DEF Joined, InRun
    <2>3. /\ pc' \in [Job -> Step \cup {"sleep", "stopped", "dead"}]
          /\ result' \in [Job -> [Run -> CommandResult \cup {"none"}]]
          /\ \A k \in Job : pc'[k] \in Step \ {"pick"} => runs[k] \in Run
      BY <2>1, <2>2, GoOnTypes
    <2>. QED
      BY <1>8, <2>3 DEF Joined
  <1>9. CASE GiveUp(j)
    BY <1>0, <1>9 DEF GiveUp, Return, CommandResult
  <1>10. ASSUME pc[j] \in Save PROVE ResultOf(thread[j][runs[j]]) \in CommandResult
    BY <1>0, <1>10, PositionValues DEF Current, InRun, ResultOf, CommandResult, Save
  <1>11. CASE SaveOk(j)
    BY <1>0, <1>10, <1>11, GoOnTypes DEF SaveOk, Took, InRun
  <1>12. CASE SaveFails(j)
    <2>1. PICK res \in CommandResult : Return(j, res)
      BY <1>10, <1>12 DEF SaveFails, CommandResult
    <2>2. done' \in [Job -> [Run -> SUBSET Option]]
      <3>1. runs[j] \in Run /\ pc[j] \in Option
        BY <1>0, <1>12 DEF SaveFails
      <3>2. CASE Took(j, pc[j])
        BY <3>1, <3>2 DEF Took
      <3>. QED
        BY <1>12, <3>2 DEF SaveFails
    <2>3. /\ result' \in [Job -> [Run -> CommandResult \cup {"none"}]]
          /\ pc' \in [Job -> Step \cup {"sleep", "stopped", "dead"}]
          /\ \A k \in Job : pc'[k] \in Step \ {"pick"} => runs[k] \in Run
      BY <1>0, <1>12, <2>1 DEF SaveFails, Return
    <2>. QED
      BY <1>12, <2>2, <2>3 DEF SaveFails
  <1>. QED
    BY <1>1, <1>2, <1>3, <1>4, <1>5, <1>6, <1>7, <1>8, <1>9, <1>11, <1>12 DEF JobStep

(* What is not a step of a task: threads, time and the server. *)
Outside ==
    \/ \E j \in Job : TimePasses(j) \/ TimerPasses(j)
    \/ \E j \in Job, r \in Run : ThreadStarts(j, r) \/ CommandEnds(j, r)
    \/ Cancel \/ ConsumersStop \/ ServerStops \/ Exit
    \/ UNCHANGED vars

LEMMA OutsideTypeStep ==
    ASSUME TypeOK, Outside
    PROVE  TypeOK'
  <1> USE DEF TypeOK
  <1>1. ASSUME NEW j \in Job, TimePasses(j) \/ TimerPasses(j) PROVE TypeOK'
    <2>1. CASE TimePasses(j)
      BY <2>1 DEF TimePasses
    <2>2. CASE TimerPasses(j)
      BY <2>2 DEF TimerPasses
    <2>. QED
      BY <1>1, <2>1, <2>2
  <1>2. ASSUME NEW j \in Job, NEW r \in Run, ThreadStarts(j, r) PROVE TypeOK'
    BY <1>2 DEF ThreadStarts, ThreadState
  <1>3. ASSUME NEW j \in Job, NEW r \in Run, CommandEnds(j, r) PROVE TypeOK'
    <2>1. CASE UNCHANGED thread
      <3>0. link[j][r] + 1 \in Nat
        OBVIOUS
      <3>1. link' = link \/ link' = [link EXCEPT ![j][r] = link[j][r] + 1]
        <4> HIDE DEF TypeOK
        <4>. QED
          BY <1>3 DEF CommandEnds
      <3>2. link' \in [Job -> [Run -> Nat]]
        <4>1. CASE link' = [link EXCEPT ![j][r] = link[j][r] + 1]
          BY <3>0, <4>1
        <4>. QED
          BY <3>1, <4>1
      <3>. QED
        BY <1>3, <2>1, <3>2 DEF CommandEnds
    <2>2. ASSUME NEW end \in ThreadState, thread' = [thread EXCEPT ![j][r] = end], UNCHANGED link
          PROVE  TypeOK'
      BY <1>3, <2>2 DEF CommandEnds
    <2>. QED
      BY <1>3, <2>1, <2>2 DEF CommandEnds, Possible, ThreadState
  <1>4. CASE Cancel \/ ConsumersStop \/ ServerStops \/ Exit
    BY <1>4 DEF Cancel, ConsumersStop, ServerStops, Exit
  <1>5. CASE UNCHANGED vars
    BY <1>5 DEF vars
  <1>. QED
    BY <1>1, <1>2, <1>3, <1>4, <1>5 DEF Outside

-----------------------------------------------------------------------------
(* One job. *)

(* Run r of job k, and what the invariant says of it, are as they were. *)
SameRun(k, r) ==
    /\ thread'[k][r] = thread[k][r] /\ result'[k][r] = result[k][r]
    /\ done'[k][r] = done[k][r] /\ (<<k, r>> \in abandoned' <=> <<k, r>> \in abandoned)

SameJob(k) ==
    /\ opt'[k] = opt[k] /\ pc'[k] = pc[k] /\ runs'[k] = runs[k] /\ fire'[k] = fire[k]
    /\ due'[k] >= due[k]

LEMMA SameRunInv ==
    ASSUME NEW k \in Job, NEW r \in Run, RunInv(k, r), SameRun(k, r), opt'[k] = opt[k],
           runs'[k] = runs[k], r # runs[k] \/ pc'[k] = pc[k], cancelled => cancelled'
    PROVE  RunInv(k, r)'
  BY DEF RunInv, Unstarted, Over, Saved, Truthful, SameRun, Live, InRun

LEMMA SameJobInv ==
    ASSUME TypeOK, TypeOK', NEW k \in Job, JobInv(k), SameJob(k), cancelled => cancelled',
           \A r \in Run : SameRun(k, r)
    PROVE  JobInv(k)'
  <1>1. Times(k)'
    BY SchedulerAssumption DEF JobInv, Times, SameJob, InRun, TypeOK
  <1>2. ASSUME InRun(k)' PROVE Current(k)'
    BY <1>2 DEF JobInv, Current, SameJob, SameRun, InRun, TypeOK
  <1>3. ASSUME NEW r \in Run PROVE RunInv(k, r)'
    BY <1>3, SameRunInv DEF JobInv, SameJob
  <1>. QED
    BY <1>1, <1>2, <1>3 DEF JobInv, Current

(* What a run has saved before its step t, it has saved with the result of its
   command and, after a success, behind the steps that follow one. *)
LEMMA PassedIsSaved ==
    ASSUME NEW o \in SUBSET Option, NEW end, NEW t \in Step,
           Position(t) > Position("await") => end \in {"ok", "failed", "timeout"},
           Passed(o, end, t) \cap Save # {}
    PROVE  /\ end \in {"ok", "failed", "timeout"}
           /\ end = "ok" => o \cap {"after_run", "ping_after_url"} \subseteq Passed(o, end, t)
  <1>1. PICK s \in Passed(o, end, t) : s \in Save
    OBVIOUS
  <1>2. Position(s) \in 6 .. 8 /\ Position(s) < Position(t) /\ Position(t) \in 1 .. 9
    BY <1>1, PositionValues, PositionType DEF Passed, Save
  <1>3. end \in {"ok", "failed", "timeout"}
    BY <1>2, PositionValues
  <1>4. Position("after_run") < Position(t) /\ Position("ping_after_url") < Position(t)
    BY <1>2, PositionValues
  <1>. QED
    BY <1>3, <1>4 DEF Passed

(* A step of job j inside its run r leaves the other runs of j alone. *)
InsideRun(j) ==
    /\ InRun(j)
    /\ UNCHANGED <<opt, runs, fire, due, cancelled>>
    /\ \A r \in Run \ {runs[j]} : SameRun(j, r)

(* The run returns. *)
LEMMA ReturnKeeps ==
    ASSUME TypeOK, TypeOK', NEW j \in Job, JobInv(j), InsideRun(j), pc'[j] \in {"pick", "dead"},
           NEW r \in Run, r = runs[j], (Over(j, r) /\ Saved(j, r) /\ Truthful(j, r))'
    PROVE  JobInv(j)'
  <1>1. ~InRun(j)' /\ pc'[j] # "sleep"
    BY DEF InRun, Step, Ping, Hook, Save
  <1>2. Times(j)' /\ Current(j)'
    BY <1>1 DEF JobInv, Times, Current, InsideRun
  <1>3. ASSUME NEW q \in Run PROVE RunInv(j, q)'
    <2>1. CASE q # r
      BY <2>1, SameRunInv DEF InsideRun, JobInv
    <2>2. CASE q = r
      BY <2>2 DEF RunInv, Unstarted, InsideRun, TypeOK
    <2>. QED
      BY <2>1, <2>2
  <1>. QED
    BY <1>2, <1>3 DEF JobInv

(* The run goes on: every step up to position p that the end of the command
   allows has been taken. *)
LEMMA GoOnKeeps ==
    ASSUME TypeOK, TypeOK', NEW j \in Job, JobInv(j), InsideRun(j), NEW p \in 0 .. 8, NEW res,
           NEW r \in Run, r = runs[j], NEW end, end = thread[j][r],
           GoOn(j, p, res), thread' = thread, abandoned' = abandoned,
           end \in {"none", "ok", "failed", "timeout"},
           end = "none" => p < Position("await"),
           end = "ok" => p >= Position("await") /\ res = "ok",
           end \in {"failed", "timeout"} =>
               p >= Position("ping_after_url") /\ res = end,
           done'[j][r] =
               {s \in opt[j] :
                  /\ Position(s) <= p
                  /\ end \in {"failed", "timeout"} =>
                        s \notin {"after_run", "ping_after_url"}}
    PROVE  JobInv(j)'
  <1>1. /\ opt[j] \in SUBSET Option /\ InRun(j) /\ Current(j)
        /\ result[j][r] = "none" /\ <<j, r>> \notin abandoned
        /\ Truthful(j, r)
    BY DEF TypeOK, InRun, Current, JobInv, InsideRun, RunInv
  <1>2. CASE ~IsNext(opt[j], p, "pick") /\ Goto(j, p) /\ UNCHANGED result
    <2>1. PICK t \in Step : IsNext(opt[j], p, t) /\ pc'[j] = t
      BY <1>2 DEF Goto, TypeOK
    <2>2. t # "pick" /\ p < Position(t) /\ Position(t) \in 1 .. 9 /\ Wanted(opt[j], t)
      BY <1>2, <2>1, PositionType DEF IsNext
    <2>3. \A s \in opt[j] : Position(s) < Position(t) <=> Position(s) <= p
      BY <1>1, <2>1, NextSkipsNothing
    <2>4. done'[j][r] = Passed(opt[j], end, t)
      BY <2>3 DEF Passed
    <2>5. end = "none" => Position(t) <= Position("await")
      BY <2>1, PositionValues DEF IsNext, Step, Wanted
    <2>6. end \in {"failed", "timeout"} => t \in Save
      BY <2>2, PositionValues DEF Step, Ping, Hook, Save
    <2>7. Position("await") \in 1 .. 9 /\ Position("ping_after_url") > Position("await")
      BY PositionValues
    <2>8. /\ Position(t) < Position("await") => end = "none"
          /\ Position(t) > Position("await") => end = "ok" \/ (end \in {"failed", "timeout"} /\ t \in Save)
      BY <2>2, <2>5, <2>6, <2>7, PositionValues
    <2>9. InRun(j)' /\ pc'[j] = t /\ runs'[j] = r /\ opt'[j] = opt[j]
      BY <2>1, <2>2 DEF InRun, InsideRun
    <2>10. Current(j)'
      BY <1>1, <1>2, <2>2, <2>4, <2>8, <2>9 DEF Current
    <2>11. Times(j)'
      <3>1. "sleep" \notin Step
        BY DEF Step, Ping, Hook, Save
      <3>. QED
        BY <2>1, <2>2, <3>1 DEF Times, JobInv, InsideRun, InRun
    <2>12. RunInv(j, r)'
      <3>1. Saved(j, r)'
        <4>1. Passed(opt[j], end, t) \cap Save # {} =>
                 /\ end \in {"ok", "failed", "timeout"}
                 /\ end = "ok" => opt[j] \cap {"after_run", "ping_after_url"}
                                    \subseteq Passed(opt[j], end, t)
          BY <1>1, <2>8, PassedIsSaved
        <4>2. thread'[j][r] = end /\ <<j, r>> \notin abandoned'
          BY <1>1
        <4>. QED
          BY <2>4, <2>9, <4>1, <4>2 DEF Saved
      <3>2. Truthful(j, r)'
        BY <1>1, <1>2 DEF Truthful, InsideRun
      <3>3. Over(j, r)' /\ Unstarted(j, r)'
        BY <2>9 DEF Over, Unstarted, InsideRun, TypeOK
      <3>. QED
        BY <3>1, <3>2, <3>3 DEF RunInv
    <2>13. ASSUME NEW q \in Run, q # r PROVE RunInv(j, q)'
      BY <2>13, SameRunInv DEF InsideRun, JobInv
    <2>14. \A q \in Run : RunInv(j, q)'
      BY <2>12, <2>13
    <2>. QED
      BY <2>10, <2>11, <2>14 DEF JobInv
  <1>3. CASE IsNext(opt[j], p, "pick") /\ Return(j, res)
    <2>1. p >= Position("await") /\ end # "none"
      BY <1>1, <1>3, ReturnIsLast, PositionValues
    <2>2. pc'[j] = "pick" /\ result'[j][r] = res /\ res = end
      BY <1>1, <1>3, <2>1 DEF Return, TypeOK
    <2>3. "pick" \in Step /\ \A s \in opt[j] : Position(s) < Position("pick") <=> Position(s) <= p
      BY <1>1, <1>3, NextSkipsNothing DEF Step
    <2>4. ASSUME NEW s \in opt[j] PROVE Position(s) < 9 <=> s # "timeout"
      BY <1>1, PositionValues DEF Option
    <2>5. end = "ok" => done'[j][r] = opt[j] \ {"timeout"}
      BY <2>3, <2>4, PositionValues
    <2>6. Truthful(j, r)'
      BY <1>1, <2>2, <2>5 DEF Truthful, InsideRun
    <2>7. Over(j, r)' /\ Saved(j, r)'
      BY <1>1, <2>1, <2>2, <2>5 DEF Over, Saved, Live, InsideRun
    <2>. QED
      BY <2>2, <2>6, <2>7, ReturnKeeps
  <1>. QED
    BY <1>2, <1>3 DEF GoOn

(* Between two runs nothing of a run changes. *)
LEMMA LoopKeeps ==
    ASSUME TypeOK, NEW j \in Job, JobInv(j), ~InRun(j), ~InRun(j)', Times(j)',
           UNCHANGED <<opt, runs, thread, result, done, abandoned, cancelled>>
    PROVE  JobInv(j)'
  <1>1. ASSUME NEW r \in Run PROVE RunInv(j, r)'
    BY DEF JobInv, RunInv, Unstarted, Over, Saved, Truthful, Live
  <1>. QED
    BY <1>1 DEF JobInv, Current

LEMMA FireKeeps ==
    ASSUME TypeOK, TypeOK', NEW j \in Job, JobInv(j), Fire(j)
    PROVE  JobInv(j)'
  <1> DEFINE r == runs[j] + 1
  <1>1. r \in Run /\ pc[j] = "sleep" /\ runs'[j] = r /\ opt[j] \in SUBSET Option
    BY RunInRange DEF Fire, JobInv, TypeOK
  <1>2. UNCHANGED <<opt, due, fire, thread, result, done, abandoned, cancelled>>
    BY DEF Fire
  <1>3. PICK t \in Step : IsNext(opt[j], 0, t) /\ pc'[j] = t
    BY DEF Fire, Goto, TypeOK
  <1>4. Position(t) \in 1 .. 3 /\ Wanted(opt[j], t) /\ t # "pick"
    BY <1>3, PositionValues, PositionType DEF IsNext, Step, Wanted
  <1>5. \A s \in opt[j] : ~(Position(s) < Position(t))
    <2>1. \A s \in opt[j] : Position(s) < Position(t) <=> Position(s) <= 0
      BY <1>1, <1>3, NextSkipsNothing
    <2>2. \A s \in opt[j] : Position(s) \in 1 .. 9
      BY <1>1, PositionType
    <2>. QED
      BY <2>1, <2>2
  <1>6. Unstarted(j, r) /\ r > runs[j]
    BY <1>1 DEF JobInv, RunInv, TypeOK
  <1>7. InRun(j)' /\ ~InRun(j)
    BY <1>1, <1>3, <1>4 DEF InRun, Step, Ping, Hook, Save
  <1>8. Current(j)'
    BY <1>1, <1>2, <1>3, <1>4, <1>5, <1>6, PositionValues DEF Current, Unstarted, Passed
  <1>9. Times(j)'
    <2>1. "sleep" \notin Step
      BY DEF Step, Ping, Hook, Save
    <2>. QED
      BY <1>1, <1>2, <1>3, <2>1 DEF Times, JobInv, Fire, TypeOK
  <1>10. ASSUME NEW q \in Run PROVE RunInv(j, q)'
    <2>1. q \in Nat /\ runs[j] \in Nat /\ RunInv(j, q)
      BY SchedulerAssumption DEF Run, TypeOK, JobInv
    <2>2. Unstarted(j, q)' /\ Saved(j, q)' /\ Truthful(j, q)'
      BY <1>1, <1>2, <2>1 DEF RunInv, Unstarted, Saved, Truthful
    <2>3. Over(j, q)'
      BY <1>1, <1>2, <1>7, <2>1 DEF RunInv, Over, Live
    <2>. QED
      BY <2>2, <2>3 DEF RunInv
  <1>. QED
    BY <1>8, <1>9, <1>10 DEF JobInv

(* A run takes the step it is at: the steps up to there are the ones it has taken. *)
LEMMA TookPassed ==
    ASSUME TypeOK, NEW j \in Job, InRun(j), Current(j), pc[j] \in Ping \cup Hook \cup Save,
           Took(j, pc[j])
    PROVE  done'[j][runs[j]] =
               {s \in opt[j] :
                  /\ Position(s) <= Position(pc[j])
                  /\ thread[j][runs[j]] \in {"failed", "timeout"} =>
                        s \notin {"after_run", "ping_after_url"}}
  <1>1. runs[j] \in Run /\ pc[j] \in opt[j] /\ opt[j] \in SUBSET Option /\ pc[j] # "timeout"
    BY DEF TypeOK, InRun, Current, Wanted, Ping, Hook, Save
  <1>2. done'[j][runs[j]] = Passed(opt[j], thread[j][runs[j]], pc[j]) \cup {pc[j]}
    BY <1>1 DEF Took, Current, TypeOK
  <1>3. \A s \in opt[j] : Position(s) \in 1 .. 9 /\ (Position(s) = Position(pc[j]) => s = pc[j])
    BY <1>1, PositionValues DEF Option, Ping, Hook, Save
  <1>4. thread[j][runs[j]] \in {"failed", "timeout"} => pc[j] \notin {"after_run", "ping_after_url"}
    BY PositionValues DEF Current, Save
  <1>5. \A s \in opt[j] : Position(s) <= Position(pc[j]) <=> Position(s) < Position(pc[j]) \/ s = pc[j]
    BY <1>1, <1>3
  <1>. QED
    BY <1>1, <1>2, <1>4, <1>5 DEF Passed

LEMMA StepsKeep ==
    ASSUME TypeOK, TypeOK', NEW j \in Job, JobInv(j),
           PingOk(j) \/ RunHook(j) \/ SaveOk(j)
    PROVE  JobInv(j)'
  <1>1. /\ InRun(j) /\ Current(j) /\ pc[j] \in Ping \cup Hook \cup Save /\ Took(j, pc[j])
        /\ UNCHANGED <<opt, runs, fire, due, thread, abandoned, cancelled>>
    BY DEF PingOk, RunHook, SaveOk, JobInv, InRun, Step, Ping, Hook, Save
  <1>2. PICK r \in Run : r = runs[j]
    BY <1>1 DEF TypeOK, InRun
  <1>3. PICK end : end = thread[j][r]
    OBVIOUS
  <1>4. PICK res : GoOn(j, Position(pc[j]), res) /\ res = IF pc[j] \in Save THEN ResultOf(end) ELSE "ok"
    BY <1>2, <1>3 DEF PingOk, RunHook, SaveOk, Ping, Hook, Save
  <1>5. InsideRun(j)
    <2>1. \A q \in Run \ {r} : result'[j][q] = result[j][q]
      BY <1>2, <1>4 DEF GoOn, Return, TypeOK
    <2>2. \A q \in Run \ {r} : done'[j][q] = done[j][q]
      BY <1>1, <1>2 DEF Took, TypeOK
    <2>. QED
      BY <1>1, <1>2, <2>1, <2>2 DEF InsideRun, SameRun
  <1>6. /\ end \in {"none", "ok", "failed", "timeout"}
        /\ end = "none" => Position(pc[j]) < Position("await")
        /\ end = "ok" => Position(pc[j]) >= Position("await") /\ res = "ok"
        /\ end \in {"failed", "timeout"} =>
              Position(pc[j]) >= Position("ping_after_url") /\ res = end
        /\ Position(pc[j]) \in 0 .. 8
    BY <1>1, <1>2, <1>3, <1>4, PositionValues DEF Current, Ping, Hook, Save, ResultOf
  <1>7. done'[j][r] =
               {s \in opt[j] :
                  /\ Position(s) <= Position(pc[j])
                  /\ end \in {"failed", "timeout"} => s \notin {"after_run", "ping_after_url"}}
    BY <1>1, <1>2, <1>3, TookPassed
  <1>. QED
    BY <1>1, <1>2, <1>3, <1>4, <1>5, <1>6, <1>7, GoOnKeeps

(* The command is handed to the pool. *)
LEMMA SpawnKeeps ==
    ASSUME TypeOK, TypeOK', NEW j \in Job, JobInv(j), Spawn(j)
    PROVE  JobInv(j)'
  <1>1. PICK r \in Run : r = runs[j]
    BY DEF Spawn, TypeOK, Step
  <1>2. /\ pc[j] = "await" /\ InRun(j) /\ InRun(j)' /\ thread[j][r] = "none"
        /\ UNCHANGED <<opt, pc, due, fire, runs, result, done, abandoned, cancelled>>
    BY <1>1 DEF Spawn, InRun, Step
  <1>3. thread'[j][r] = "queued" /\ \A q \in Run \ {r} : SameRun(j, q)
    BY <1>1 DEF Spawn, SameRun, TypeOK
  <1>4. Passed(opt[j], "none", "await") = Passed(opt[j], "queued", "await")
    BY DEF Passed
  <1>5. Current(j)' /\ Times(j)'
    BY <1>1, <1>2, <1>3, <1>4, PositionValues DEF Current, Times, JobInv, InRun
  <1>6. ASSUME NEW q \in Run PROVE RunInv(j, q)'
    <2>1. CASE q # r
      BY <1>1, <1>2, <1>3, <2>1, SameRunInv DEF JobInv
    <2>2. done[j][r] \cap Save = {}
      BY <1>1, <1>2, PositionValues DEF JobInv, Current, Passed, Save
    <2>3. RunInv(j, r)'
      BY <1>1, <1>2, <1>3, <2>2 DEF JobInv, RunInv, Unstarted, Over, Saved, Truthful, TypeOK
    <2>. QED
      BY <2>1, <2>3
  <1>. QED
    BY <1>5, <1>6 DEF JobInv

(* The command has ended. *)
LEMMA JoinedKeeps ==
    ASSUME TypeOK, TypeOK', NEW j \in Job, JobInv(j), Joined(j)
    PROVE  JobInv(j)'
  <1>1. PICK r \in Run : r = runs[j]
    BY DEF Joined, TypeOK, Step
  <1>2. PICK end \in CommandEnd : end = thread[j][r]
    BY <1>1 DEF Joined
  <1>3. /\ pc[j] = "await" /\ InRun(j) /\ Current(j) /\ GoOn(j, GoesOnAfter(end), ResultOf(end))
        /\ UNCHANGED <<opt, runs, fire, due, thread, done, abandoned, cancelled>>
        /\ opt[j] \in SUBSET Option
    BY <1>1, <1>2 DEF Joined, InRun, Step, JobInv, TypeOK
  <1>4. InsideRun(j)
    <2>1. \A q \in Run \ {r} : result'[j][q] = result[j][q]
      BY <1>1, <1>3 DEF GoOn, Return, TypeOK
    <2>. QED
      BY <1>1, <1>3, <2>1 DEF InsideRun, SameRun
  <1>5. done'[j][r] = {s \in opt[j] : Position(s) < 3}
    BY <1>1, <1>3, PositionValues DEF Current, Passed
  <1>6. CASE end \in {"ok", "failed", "timeout"}
    <2>1. ASSUME NEW s \in opt[j]
          PROVE  Position(s) < 3 <=>
                   /\ Position(s) <= GoesOnAfter(end)
                   /\ end \in {"failed", "timeout"} => s \notin {"after_run", "ping_after_url"}
      BY <1>3, <1>6, PositionValues DEF Option, GoesOnAfter
    <2>2. /\ GoesOnAfter(end) \in 0 .. 8
          /\ end = "ok" => GoesOnAfter(end) >= Position("await") /\ ResultOf(end) = "ok"
          /\ end \in {"failed", "timeout"} =>
                GoesOnAfter(end) >= Position("ping_after_url") /\ ResultOf(end) = end
      BY <1>6, PositionValues DEF GoesOnAfter, ResultOf
    <2>3. done'[j][r] =
               {s \in opt[j] :
                  /\ Position(s) <= GoesOnAfter(end)
                  /\ end \in {"failed", "timeout"} => s \notin {"after_run", "ping_after_url"}}
      BY <1>5, <2>1
    <2>. QED
      BY <1>1, <1>2, <1>3, <1>4, <1>6, <2>2, <2>3, GoOnKeeps
  <1>7. CASE end \in {"interrupted", "panicked"}
    <2>1. GoesOnAfter(end) = 8 /\ ResultOf(end) \in {"interrupted", "failed"}
          /\ (ResultOf(end) = "interrupted" => end = "interrupted")
      BY <1>7, PositionValues DEF GoesOnAfter, ResultOf
    <2>2. IsNext(opt[j], GoesOnAfter(end), "pick")
      BY <1>3, <2>1, ReturnIsLast
    <2>3. Return(j, ResultOf(end))
      BY <1>3, <2>2 DEF GoOn
    <2>4. pc'[j] = "pick" /\ result'[j][r] = ResultOf(end)
      BY <1>1, <2>3 DEF Return, TypeOK
    <2>5. done'[j][r] \cap Save = {}
      BY <1>5, PositionValues DEF Save
    <2>6. Over(j, r)' /\ Saved(j, r)' /\ Truthful(j, r)'
      BY <1>1, <1>2, <1>3, <1>7, <2>1, <2>4, <2>5
         DEF Over, Saved, Truthful, Live, JobInv, RunInv, Current
    <2>. QED
      BY <1>1, <1>4, <2>4, <2>6, ReturnKeeps
  <1>. QED
    BY <1>6, <1>7 DEF CommandEnd

(* The run ends without the result of its command, or before its command. *)
LEMMA EarlyReturnKeeps ==
    ASSUME TypeOK, TypeOK', NEW j \in Job, JobInv(j),
           PingFails(j) \/ HookPanics(j) \/ GiveUp(j) \/ SaveFails(j)
    PROVE  JobInv(j)'
  <1>0. /\ InRun(j) /\ Current(j)
        /\ UNCHANGED <<opt, runs, fire, due, thread, cancelled>>
    BY DEF PingFails, HookPanics, GiveUp, SaveFails, InRun, Step, Ping, Hook, Save, JobInv
  <1>1. PICK r \in Run : r = runs[j]
    BY <1>0 DEF TypeOK, InRun
  <1>2. /\ Saved(j, r) /\ Truthful(j, r) /\ result[j][r] = "none" /\ <<j, r>> \notin abandoned
    BY <1>0, <1>1 DEF JobInv, RunInv, Current
  <1>3. CASE PingFails(j)
    <2>1. pc'[j] = "pick" /\ result'[j][r] = "failed" /\ UNCHANGED <<done, abandoned>>
      BY <1>1, <1>3 DEF PingFails, Return, TypeOK
    <2>2. InsideRun(j)
      BY <1>0, <1>1, <1>3 DEF PingFails, Return, TypeOK, InsideRun, SameRun
    <2>3. ~Live(j, r)
      BY <1>0, <1>1, <1>3, PositionValues DEF PingFails, Ping, Current, Live
    <2>4. Over(j, r)' /\ Saved(j, r)' /\ Truthful(j, r)'
      BY <1>0, <1>2, <2>1, <2>3 DEF Over, Saved, Truthful, Live
    <2>. QED
      BY <1>1, <2>1, <2>2, <2>4, ReturnKeeps
  <1>4. CASE HookPanics(j)
    <2>1. pc'[j] = "dead" /\ UNCHANGED <<result, done, abandoned>>
      BY <1>4 DEF HookPanics, TypeOK
    <2>2. InsideRun(j)
      BY <1>0, <2>1 DEF InsideRun, SameRun
    <2>3. ~Live(j, r)
      BY <1>0, <1>1, <1>4, PositionValues DEF HookPanics, Hook, Current, Live
    <2>4. Over(j, r)' /\ Saved(j, r)' /\ Truthful(j, r)'
      BY <1>0, <1>2, <2>1, <2>3 DEF Over, Saved, Truthful, Live
    <2>. QED
      BY <1>1, <2>1, <2>2, <2>4, ReturnKeeps
  <1>5. CASE GiveUp(j)
    <2>1. pc'[j] = "pick" /\ result'[j][r] = "timeout" /\ <<j, r>> \in abandoned' /\ done' = done
      BY <1>1, <1>5 DEF GiveUp, Return, TypeOK
    <2>2. InsideRun(j)
      BY <1>0, <1>1, <1>5 DEF GiveUp, Return, TypeOK, InsideRun, SameRun
    <2>3. done[j][r] \cap Save = {}
      BY <1>0, <1>1, <1>5, PositionValues DEF GiveUp, Current, Passed, Save
    <2>4. Over(j, r)' /\ Saved(j, r)' /\ Truthful(j, r)'
      BY <1>0, <1>2, <2>1, <2>3 DEF Over, Saved, Truthful
    <2>. QED
      BY <1>1, <2>1, <2>2, <2>4, ReturnKeeps
  <1>6. CASE SaveFails(j)
    <2>1. PICK end : end = thread[j][r]
      OBVIOUS
    <2>2. end \in {"ok", "failed", "timeout"} /\ pc[j] \in Save
      BY <1>0, <1>1, <1>6, <2>1, PositionValues DEF SaveFails, Current, Save
    <2>3. /\ pc'[j] = "pick" /\ result'[j][r] = (IF end = "ok" THEN "failed" ELSE end)
          /\ abandoned' = abandoned
      BY <1>1, <1>6, <2>1, <2>2 DEF SaveFails, Return, ResultOf, TypeOK
    <2>4. done[j][r] \subseteq done'[j][r] /\ \A q \in Run \ {r} : done'[j][q] = done[j][q]
      BY <1>1, <1>6 DEF SaveFails, Took, TypeOK
    <2>5. InsideRun(j)
      BY <1>0, <1>1, <1>6, <2>4 DEF SaveFails, Return, TypeOK, InsideRun, SameRun
    <2>6. end = "ok" => opt[j] \cap {"after_run", "ping_after_url"} \subseteq done[j][r]
      BY <1>0, <1>1, <2>1, <2>2, PositionValues DEF Current, Passed, Save
    <2>7. Over(j, r)' /\ Saved(j, r)' /\ Truthful(j, r)'
      BY <1>0, <1>2, <2>1, <2>2, <2>3, <2>4, <2>6 DEF Over, Saved, Truthful, Live
    <2>. QED
      BY <1>1, <2>3, <2>5, <2>7, ReturnKeeps
  <1>. QED
    BY <1>3, <1>4, <1>5, <1>6

LEMMA JobStepInv ==
    ASSUME TypeOK, TypeOK', NEW j \in Job, JobInv(j), JobStep(j)
    PROVE  JobInv(j)'
  <1>1. CASE Pick(j) \/ SleepCancelled(j)
    <2>1. ~InRun(j) /\ ~InRun(j)' /\ pc'[j] \in {"sleep", "stopped"}
      BY <1>1 DEF Pick, SleepCancelled, InRun, TypeOK, Step, Ping, Hook, Save
    <2>2. Times(j)'
      BY <1>1, <2>1, SchedulerAssumption DEF Pick, SleepCancelled, Times, JobInv, TypeOK
    <2>. QED
      BY <1>1, <2>1, <2>2, LoopKeeps DEF Pick, SleepCancelled
  <1>. QED
    BY <1>1, FireKeeps, StepsKeep, SpawnKeeps, JoinedKeeps, EarlyReturnKeeps DEF JobStep

-----------------------------------------------------------------------------
(* The other jobs, the threads and the server. *)

(* A step of the task of job j changes nothing of another job. *)
LEMMA JobStepIsLocal ==
    ASSUME TypeOK, NEW j \in Job, JobStep(j), NEW k \in Job, k # j
    PROVE  /\ SameJob(k) /\ UNCHANGED <<cancelled, host>>
           /\ \A r \in Run : SameRun(k, r)
  <1>1. /\ UNCHANGED <<opt, due, cancelled, host>> /\ due[k] \in Nat
        /\ pc'[k] = pc[k] /\ runs'[k] = runs[k] /\ fire'[k] = fire[k]
    BY DEF JobStep, Pick, SleepCancelled, Fire, PingOk, PingFails, RunHook, HookPanics, Spawn,
           Joined, GiveUp, SaveOk, SaveFails, GoOn, Goto, Return, TypeOK
  <1>2. thread'[k] = thread[k] /\ result'[k] = result[k]
    BY DEF JobStep, Pick, SleepCancelled, Fire, PingOk, PingFails, RunHook, HookPanics, Spawn,
           Joined, GiveUp, SaveOk, SaveFails, GoOn, Goto, Return, TypeOK
  <1>3. done'[k] = done[k] /\ \A r \in Run : <<k, r>> \in abandoned' <=> <<k, r>> \in abandoned
    BY DEF JobStep, Pick, SleepCancelled, Fire, PingOk, PingFails, RunHook, HookPanics, Spawn,
           Joined, GiveUp, SaveOk, SaveFails, Took, TypeOK
  <1>. QED
    BY <1>1, <1>2, <1>3 DEF SameJob, SameRun

(* The command of run r is still on the pool, and starts or ends there. *)
ThreadMoves(j, r) ==
    /\ Live(j, r)
    /\ \E end \in {"running"} \cup Possible : thread' = [thread EXCEPT ![j][r] = end]
    /\ UNCHANGED <<opt, pc, due, fire, runs, result, done, abandoned, cancelled, host>>

LEMMA ThreadKeeps ==
    ASSUME TypeOK, TypeOK', NEW j \in Job, NEW r \in Run, JobInv(j), ThreadMoves(j, r)
    PROVE  JobInv(j)'
  <1>0. PICK end \in {"running"} \cup Possible : thread' = [thread EXCEPT ![j][r] = end]
    BY DEF ThreadMoves
  <1>1. thread'[j][r] = end
    BY <1>0 DEF TypeOK
  <1>2. /\ UNCHANGED <<opt, pc, due, fire, runs, result, done, abandoned, cancelled>>
        /\ thread[j][r] \in {"queued", "running"} /\ RunInv(j, r) /\ Current(j) /\ Times(j)
    BY DEF ThreadMoves, Live, JobInv
  <1>3. \A q \in Run \ {r} : SameRun(j, q)
    BY <1>2 DEF ThreadMoves, SameRun, TypeOK
  <1>4. Times(j)'
    BY <1>2 DEF Times, InRun
  <1>5. Current(j)'
    <2>1. CASE InRun(j) /\ r = runs[j]
      <3>1. pc[j] = "await"
        BY <1>2, <2>1, PositionOneToOne, PositionType DEF Current, InRun, Step
      <3>2. Passed(opt[j], thread[j][r], "await") = Passed(opt[j], end, "await")
        BY <1>2, PositionValues DEF Passed
      <3>. QED
        BY <1>1, <1>2, <2>1, <3>1, <3>2 DEF Current, InRun
    <2>2. CASE InRun(j) /\ r # runs[j]
      BY <1>2, <1>3, <2>2 DEF Current, InRun, SameRun, TypeOK
    <2>. QED
      BY <1>2, <2>1, <2>2 DEF Current, InRun
  <1>6. RunInv(j, r)'
    <2>1. Unstarted(j, r)' /\ Over(j, r)'
      BY <1>2 DEF RunInv, Unstarted, Over, Live, InRun
    <2>2. Saved(j, r)' /\ Truthful(j, r)'
      BY <1>1, <1>2 DEF RunInv, Saved, Truthful, Possible
    <2>. QED
      BY <2>1, <2>2 DEF RunInv
  <1>7. ASSUME NEW q \in Run, q # r PROVE RunInv(j, q)'
    BY <1>2, <1>3, <1>7, SameRunInv DEF JobInv
  <1>. QED
    BY <1>4, <1>5, <1>6, <1>7 DEF JobInv

LEMMA OutsideKeeps ==
    ASSUME IInv, TypeOK', Outside
    PROVE  HostInv' /\ \A k \in Job : JobInv(k)'
  <1>1. ASSUME NEW j \in Job, NEW r \in Run, ThreadMoves(j, r)
        PROVE  HostInv' /\ \A k \in Job : JobInv(k)'
    <2>1. ASSUME NEW k \in Job, k # j PROVE JobInv(k)'
      <3>1. SameJob(k) /\ UNCHANGED cancelled /\ \A q \in Run : SameRun(k, q)
        BY <1>1, <2>1 DEF ThreadMoves, SameJob, SameRun, IInv, TypeOK
      <3>. QED
        BY <3>1, SameJobInv DEF IInv
    <2>2. JobInv(j)'
      BY <1>1, ThreadKeeps DEF IInv
    <2>3. HostInv'
      BY <1>1 DEF ThreadMoves, HostInv, IInv
    <2>. QED
      BY <2>1, <2>2, <2>3
  <1>2. ASSUME UNCHANGED <<opt, pc, runs, fire, thread, result, done, abandoned>>,
               \A k \in Job : due'[k] >= due[k], cancelled => cancelled', NEW k \in Job
        PROVE  JobInv(k)'
    BY <1>2, SameJobInv DEF IInv, SameJob, SameRun
  <1>3. ASSUME NEW j \in Job, TimePasses(j) \/ TimerPasses(j)
        PROVE  HostInv' /\ \A k \in Job : JobInv(k)'
    <2>1. \A k \in Job : due'[k] >= due[k]
      <3>1. due \in [Job -> Nat]
        BY DEF IInv, TypeOK
      <3>2. CASE TimePasses(j)
        BY <3>1, <3>2 DEF TimePasses
      <3>. QED
        BY <1>3, <3>1, <3>2 DEF TimerPasses
    <2>2. /\ UNCHANGED <<opt, pc, runs, fire, thread, result, done, abandoned, cancelled, host>>
      BY <1>3 DEF TimePasses, TimerPasses
    <2>. QED
      BY <1>2, <2>1, <2>2 DEF HostInv, IInv
  <1>4. ASSUME NEW j \in Job, NEW r \in Run, ThreadStarts(j, r) \/ CommandEnds(j, r)
        PROVE  ThreadMoves(j, r) \/ UNCHANGED <<opt, pc, due, fire, runs, thread, result, done,
                                                abandoned, cancelled, host>>
    BY <1>4 DEF ThreadStarts, CommandEnds, ThreadMoves, Live
  <1>5. ASSUME UNCHANGED <<opt, pc, due, fire, runs, thread, result, done, abandoned, cancelled,
                           host>>
        PROVE  HostInv' /\ \A k \in Job : JobInv(k)'
    BY <1>2, <1>5 DEF HostInv, IInv, TypeOK
  <1>6. CASE Cancel \/ ConsumersStop \/ ServerStops \/ Exit
    <2>1. /\ UNCHANGED <<opt, pc, due, runs, fire, thread, result, done, abandoned>>
          /\ cancelled => cancelled'
      BY <1>6 DEF Cancel, ConsumersStop, ServerStops, Exit
    <2>2. HostInv'
      BY <1>6, <2>1 DEF Cancel, ConsumersStop, ServerStops, Exit, HostInv, IInv
    <2>3. \A k \in Job : due'[k] >= due[k]
      BY <2>1 DEF IInv, TypeOK
    <2>. QED
      BY <1>2, <2>1, <2>2, <2>3
  <1>. QED
    BY <1>1, <1>3, <1>4, <1>5, <1>6 DEF Outside, vars

LEMMA InductiveInit == Init => IInv
  <1> SUFFICES ASSUME Init PROVE IInv
    OBVIOUS
  <1>1. TypeOK /\ HostInv
    BY TypeInit DEF Init, HostInv
  <1>2. ASSUME NEW j \in Job PROVE Times(j) /\ Current(j)
    BY SchedulerAssumption DEF Init, Times, Current, InRun
  <1>3. ASSUME NEW j \in Job, NEW r \in Run PROVE RunInv(j, r)
    BY DEF Init, RunInv, Unstarted, Over, Saved, Truthful, Live
  <1>. QED
    BY <1>1, <1>2, <1>3 DEF IInv, JobInv

LEMMA InductiveStep == IInv /\ [Next]_vars => IInv'
  <1> SUFFICES ASSUME IInv, [Next]_vars PROVE IInv'
    OBVIOUS
  <1>1. ASSUME NEW j \in Job, JobStep(j) PROVE IInv'
    <2>1. TypeOK'
      BY <1>1, JobTypeStep DEF IInv, JobInv
    <2>2. JobInv(j)'
      BY <1>1, <2>1, JobStepInv DEF IInv
    <2>3. ASSUME NEW k \in Job, k # j PROVE JobInv(k)'
      BY <1>1, <2>1, <2>3, JobStepIsLocal, SameJobInv DEF IInv
    <2>4. HostInv'
      <3>1. pc[j] \notin {"stopped", "dead"} /\ host' = host
        BY <1>1 DEF JobStep, Pick, SleepCancelled, Fire, PingOk, PingFails, RunHook, HookPanics,
                    Spawn, Joined, GiveUp, SaveOk, SaveFails, Ping, Hook, Save
      <3>. QED
        BY <3>1 DEF IInv, HostInv
    <2>. QED
      BY <2>1, <2>2, <2>3, <2>4 DEF IInv
  <1>2. CASE Outside
    BY <1>2, OutsideTypeStep, OutsideKeeps DEF IInv
  <1>. QED
    BY <1>1, <1>2 DEF Next, Outside

LEMMA Inductive == Spec => []IInv
  BY InductiveInit, InductiveStep, PTL DEF Spec

-----------------------------------------------------------------------------
(* What the invariant says. *)

(* Every variable keeps its type: no run of a job has a number beyond its fire
   times, and every thread, result and step belongs to such a run. *)
THEOREM TypeCorrect == Spec => []TypeOK
  <1>1. IInv => TypeOK
    BY DEF IInv
  <1>. QED
    BY <1>1, Inductive, PTL

(* persist_output: whatever the threads, the clock and the token do, output is
   saved only for a command that returned before it was given up, and after a
   success only behind the steps that follow one. *)
THEOREM OutputNeedsResult == Spec => []SavedOnlyWithResult
  <1>1. IInv => SavedOnlyWithResult
    BY DEF IInv, JobInv, RunInv, Saved, SavedOnlyWithResult
  <1>. QED
    BY <1>1, Inductive, PTL

(* run_with_lifecycle: what a run returns is what happened to it. *)
THEOREM ReturnsTruth == Spec => []ReturnIsTruthful
  <1>1. IInv => ReturnIsTruthful
    BY DEF IInv, JobInv, RunInv, Truthful, ReturnIsTruthful
  <1>. QED
    BY <1>1, Inductive, PTL

(* run_blocking: at most one command of a job that has not been given up is on
   the pool, and the task of the job waits for it. *)
THEOREM OverlapNeedsGiveUp == Spec => []OverlapsOnlyAbandoned
  <1>1. ASSUME IInv, NEW j \in Job, NEW r \in Run, Live(j, r), <<j, r>> \notin abandoned
        PROVE  r = runs[j] /\ pc[j] = "await"
    <2>1. RunInv(j, r) /\ Current(j) /\ TypeOK /\ r \in Nat /\ runs[j] \in Nat
      BY <1>1, RunsAreNumbers DEF IInv, JobInv, TypeOK
    <2>2. r = runs[j] /\ InRun(j)
      BY <1>1, <2>1 DEF RunInv, Unstarted, Over, Live
    <2>3. Position(pc[j]) = Position("await")
      BY <1>1, <2>1, <2>2, PositionType, PositionValues DEF Current, Live, InRun
    <2>. QED
      BY <2>2, <2>3, PositionOneToOne DEF InRun, Step
  <1>2. IInv => OverlapsOnlyAbandoned
    BY <1>1 DEF OverlapsOnlyAbandoned
  <1>. QED
    BY <1>2, Inductive, PTL

(* Server::run: it has returned only after every task has, so the commands that
   are left are the ones given up, and they have saved nothing. *)
THEOREM ServerWaits == Spec => []WaitsForCommands
  <1>1. ASSUME IInv, host # "serving", NEW j \in Job, NEW r \in Run, Live(j, r)
        PROVE  <<j, r>> \in abandoned /\ done[j][r] \cap Save = {}
    <2>1. RunInv(j, r) /\ r \in Nat /\ runs[j] \in Nat
      BY <1>1, RunsAreNumbers DEF IInv, JobInv, TypeOK
    <2>2. ~InRun(j)
      BY <1>1 DEF IInv, HostInv, InRun, Step, Ping, Hook, Save
    <2>. QED
      BY <1>1, <2>1, <2>2 DEF RunInv, Unstarted, Over, Saved, Live
  <1>2. IInv => WaitsForCommands
    BY <1>1 DEF WaitsForCommands
  <1>. QED
    BY <1>2, Inductive, PTL

(* scheduler.rs: the loop of a job never picks a fire time it has slept for. *)
THEOREM PicksForward == Spec => NoFireTimeTwice
  <1>1. ASSUME IInv, [Next]_vars, NEW j \in Job, pc[j] = "pick", pc'[j] = "sleep"
        PROVE  fire'[j] > fire[j]
    <2>1. Times(j) /\ TypeOK /\ pc[j] # "sleep" /\ pc[j] \notin {"sleep", "await"}
          /\ pc[j] \notin Ping \cup Hook \cup Save
      BY <1>1 DEF IInv, JobInv, Ping, Hook, Save
    <2>2. pc' # pc
      BY <1>1
    <2>3. PICK k \in Job : JobStep(k)
      BY <1>1, <2>2 DEF Next, vars, TimePasses, TimerPasses, ThreadStarts, CommandEnds, Cancel,
                        ConsumersStop, ServerStops, Exit
    <2>4. k = j
      BY <1>1, <2>1, <2>3, JobStepIsLocal DEF SameJob
    <2>5. Pick(j)
      BY <2>1, <2>3, <2>4 DEF JobStep, SleepCancelled, Fire, PingOk, PingFails, RunHook, HookPanics,
                              Spawn, Joined, GiveUp, SaveOk, SaveFails
    <2>6. fire' = [fire EXCEPT ![j] = due[j] + 1]
      BY <1>1, <2>1, <2>5 DEF Pick, TypeOK
    <2>. QED
      BY <1>1, <2>1, <2>6 DEF Times, TypeOK
  <1>2. IInv /\ [Next]_vars =>
           [\A j \in Job : pc[j] = "pick" /\ pc'[j] = "sleep" => fire'[j] > fire[j]]_vars
    BY <1>1
  <1>. QED
    BY <1>2, Inductive, PTL DEF Spec, NoFireTimeTwice

=============================================================================
