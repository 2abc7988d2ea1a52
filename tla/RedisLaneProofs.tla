--------------------------- MODULE RedisLaneProofs --------------------------
(***************************************************************************)
(* The inductive invariant of RedisLane and the proofs of its safety       *)
(* properties and of the refinement of QueueStages. RedisLists turns each  *)
(* command of Redis into a few concatenations (Effect); what the commands  *)
(* do to the invariant is then reasoning about sets.                       *)
(***************************************************************************)
EXTENDS RedisLists

-----------------------------------------------------------------------------
(* The invariant. *)

Pc == {"stopped", "idle", "poll", "unreadable", "begin", "running", "settle", "backoff"}
Settling == {"settle", "backoff"}
Delivered == Settling \cup {"begin", "running"}
Holding == Delivered \cup {"unreadable"}

(* The requests a client can have sent. *)
Request ==
    [do : {"claim", "done"}]
    \cup [do : {"remove"}, element : CommandEnvelope]
    \cup [do : {"move"}, element : CommandEnvelope, to : {"pending", "failed"}, value : CommandEnvelope]
    \cup [do : {"bulk"}, op : {"recover", "republish"}, count : Nat]
    \cup [do : {"clear"}, stage : Stage]

TypeInv ==
    /\ list \in [Stage -> List]
    /\ late \in Seq(Request)
    /\ pc \in [Consumer -> Pc]
    /\ element \in [Consumer -> CommandEnvelope \cup {NoElement}]
    /\ env \in [Consumer -> CommandEnvelope \cup {NoElement}]
    /\ kind \in [Consumer -> AttemptKind \cup {"none"}]
    /\ tries \in [Consumer -> Nat]
    /\ op \in [Worker -> {"none", "open", "recover", "republish"}]
    /\ rest \in [Worker -> Nat]
    /\ crashes \in Nat
    /\ published \in SUBSET Msg /\ IsFiniteSet(published)
    /\ newer \in [Msg -> SUBSET Msg]
    /\ succeeded \in SUBSET published
    /\ counted \in [Msg -> Nat]
    /\ recovered \in BOOLEAN

(* A request is sound when Redis may run it at any time: it removes only   *)
(* what has succeeded, and what it stores is the same message, with a      *)
(* count its failures account for.                                         *)
RequestOK(r) ==
    /\ r.do = "remove" => r.element.id \in succeeded
    /\ r.do = "move" => /\ r.value.id = r.element.id
                        /\ r.value.attempts <= counted[r.value.id]

LateInv == \A i \in DOMAIN late : RequestOK(late[i])

(* What a consumer holds, and what its delivery is charged. *)
ConsumerOK(c) ==
    /\ pc[c] \notin Holding => element[c] = NoElement
    /\ pc[c] \in Holding => /\ element[c] \in CommandEnvelope
                            /\ element[c].id \in published
                            /\ element[c].attempts <= counted[element[c].id]
    /\ pc[c] \in Delivered => /\ env[c] \in CommandEnvelope
                              /\ env[c].id = element[c].id
                              /\ env[c].attempts <= counted[env[c].id] + 1
    /\ pc[c] \in Settling <=> kind[c] # "none"
    /\ kind[c] = "succeeded" => env[c].id \in succeeded
    /\ kind[c] \in CountedKind \cup {"interrupted"} => env[c].attempts <= counted[env[c].id]
    /\ pc[c] = "backoff" => late # <<>>

ConsumerInv == \A c \in Consumer : ConsumerOK(c)

ServerTasks ==
    server # "running" => \A c \in ServerConsumer : pc[c] = "stopped"

(* The messages of a stage. *)
In(s) == IdsOf(list[s])

(* No message is in the lists twice. *)
Distinct ==
    /\ NoRepeat(list["pending"]) /\ NoRepeat(list["inProgress"]) /\ NoRepeat(list["failed"])
    /\ In("pending") \cap In("inProgress") = {}
    /\ In("pending") \cap In("failed") = {}
    /\ In("inProgress") \cap In("failed") = {}

Stored == In("pending") \cup In("inProgress") \cup In("failed")

(* What is stored has been published, and what is no longer stored has     *)
(* succeeded or been cleared.                                              *)
Accounted ==
    /\ Stored \subseteq published
    /\ published \ Stored \subseteq succeeded \cup cleared

Charged == \A s \in Stage : \A e \in ToSet(list[s]) : e.attempts <= counted[e.id]

InLine == Sorted(list["pending"] \o list["inProgress"], newer)

ListInv == Distinct /\ Accounted /\ Charged /\ InLine

(* Without a lost answer, a crash and a recovery, a claimed message has one *)
(* holder, is not about to be claimed again, and has not succeeded before   *)
(* its holder says so.                                                      *)
Undisturbed == late = <<>> /\ crashes = 0 /\ ~recovered

OneHolder ==
    Undisturbed =>
        /\ \A c \in Consumer : pc[c] \in Holding =>
              /\ element[c].id \notin In("pending") \cup In("failed")
              /\ element[c].id \in succeeded => kind[c] = "succeeded"
              /\ \A b \in Consumer : b # c /\ pc[b] \in Holding => element[b].id # element[c].id
        /\ succeeded \cap (In("pending") \cup In("failed")) = {}

IInv ==
    /\ TypeInv /\ LateInv /\ ConsumerInv /\ ServerTasks
    /\ ListInv /\ InProgressIsHeld /\ OneHolder

-----------------------------------------------------------------------------
(* What each command does to the lists. *)

ClaimEffect(e) ==
    /\ \E a \in List : /\ list["pending"] = a \o <<e>>
                       /\ list' = [list EXCEPT !["pending"] = a, !["inProgress"] = <<e>> \o @]
    /\ UNCHANGED <<lineVars, cleared, recovered>>

(* t is q without one e. *)
Drops(q, e, t) == \E a, b \in List : q = a \o (<<e>> \o b) /\ t = a \o b

RemoveEffect(e) ==
    /\ \E t \in List : /\ Drops(list["inProgress"], e, t)
                       /\ list' = [list EXCEPT !["inProgress"] = t]
    /\ UNCHANGED <<lineVars, cleared, recovered>>

MoveEffect(e, to, v) ==
    /\ \E t \in List : /\ Drops(list["inProgress"], e, t)
                       /\ list' = [list EXCEPT !["inProgress"] = t, ![to] = <<v>> \o @]
    /\ IF to = "pending" THEN Entered(Ids(<<v>>)) ELSE UNCHANGED lineVars
    /\ UNCHANGED <<cleared, recovered>>

RecoverEffect ==
    /\ \E x, y \in List : /\ list["inProgress"] = x \o y
                          /\ list' = Recovered(list, x, y)
                          /\ recovered' \/ x = <<>>
    /\ recovered' \in BOOLEAN /\ (recovered => recovered')
    /\ UNCHANGED <<lineVars, cleared>>

RepublishEffect ==
    /\ \E x, y \in List : /\ list["failed"] = y \o x
                          /\ list' = Republished(list, x, y)
                          /\ Entered(Ids(x))
    /\ UNCHANGED <<cleared, recovered>>

PublishEffect(m) ==
    /\ m \notin published
    /\ list' = [list EXCEPT !["pending"] = <<NewEnvelope(m)>> \o @]
    /\ Entered(Ids(<<NewEnvelope(m)>>))
    /\ UNCHANGED <<cleared, recovered>>

LEMMA RunClaimEffect ==
    ASSUME list \in [Stage -> List], RunClaim, list["pending"] # <<>>
    PROVE  Last(list["pending"]) \in CommandEnvelope /\ ClaimEffect(Last(list["pending"]))
  <1>1. PICK p \in List : p = list["pending"]
    BY DEF Stage
  <1>2. Front(p) \in List /\ Last(p) \in CommandEnvelope /\ p = Front(p) \o <<Last(p)>>
    BY <1>1, FrontAndLast
  <1>3. list' = [list EXCEPT !["pending"] = Front(p), !["inProgress"] = <<Last(p)>> \o @]
    BY <1>1 DEF RunClaim, LMove
  <1>. QED
    BY <1>1, <1>2, <1>3 DEF ClaimEffect, RunClaim

LEMMA RemoveFirstDrops ==
    ASSUME NEW q \in List, NEW e \in ToSet(q)
    PROVE  RemoveFirst(q, e) \in List /\ Drops(q, e, RemoveFirst(q, e))
  <1>1. PICK a \in List, b \in List : q = a \o (<<e>> \o b) /\ RemoveFirst(q, e) = a \o b
    BY RemoveFirstSplits
  <1>2. a \o b \in List
    BY Concat
  <1>. QED
    BY <1>1, <1>2 DEF Drops

LEMMA RunRemoveEffect ==
    ASSUME list \in [Stage -> List], NEW e \in CommandEnvelope, RunRemove(e)
    PROVE  IF e \in ToSet(list["inProgress"]) THEN RemoveEffect(e) ELSE UNCHANGED redisVars
  <1>1. PICK q \in List : q = list["inProgress"]
    BY DEF Stage
  <1>2. CASE e \in ToSet(q)
    <2>1. RemoveFirst(q, e) \in List /\ Drops(q, e, RemoveFirst(q, e))
      BY <1>2, RemoveFirstDrops
    <2>. QED
      BY <1>1, <1>2, <2>1 DEF RunRemove, RemoveEffect
  <1>3. CASE e \notin ToSet(q)
    <2>1. RemoveFirst(q, e) = q
      BY <1>3, Members DEF RemoveFirst, Contains
    <2>. QED
      BY <1>1, <1>3, <2>1 DEF RunRemove, redisVars
  <1>. QED
    BY <1>1, <1>2, <1>3

LEMMA RunMoveEffect ==
    ASSUME list \in [Stage -> List], NEW e \in CommandEnvelope, NEW v \in CommandEnvelope,
           NEW to \in {"pending", "failed"}, RunMove(e, to, v)
    PROVE  IF e \in ToSet(list["inProgress"]) THEN MoveEffect(e, to, v) ELSE UNCHANGED redisVars
  <1>1. PICK q \in List : q = list["inProgress"]
    BY DEF Stage
  <1>2. Contains(q, e) <=> e \in ToSet(q)
    BY Members
  <1>3. Ids(<<v>>) = <<v.id>>
    BY DEF Ids
  <1>4. CASE e \in ToSet(q)
    <2>1. RemoveFirst(q, e) \in List /\ Drops(q, e, RemoveFirst(q, e))
      BY <1>4, RemoveFirstDrops
    <2>2. /\ list' = [list EXCEPT !["inProgress"] = RemoveFirst(q, e), ![to] = <<v>> \o @]
          /\ IF to = "pending" THEN Entered(<<v.id>>) ELSE UNCHANGED lineVars
          /\ UNCHANGED <<cleared, recovered>>
      BY <1>1, <1>2, <1>4 DEF RunMove
    <2>3. MoveEffect(e, to, v)
      BY <1>1, <1>3, <2>1, <2>2 DEF MoveEffect
    <2>. QED
      BY <1>1, <1>4, <2>3
  <1>5. CASE e \notin ToSet(q)
    BY <1>1, <1>2, <1>5 DEF RunMove, redisVars
  <1>. QED
    BY <1>1, <1>4, <1>5

LEMMA RunBulkEffect ==
    ASSUME list \in [Stage -> List], recovered \in BOOLEAN, NEW n \in Nat, NEW o, RunBulk(o, n)
    PROVE  RecoverEffect \/ RepublishEffect
  <1>1. CASE o = "recover"
    <2>1. /\ list' = BulkMove("inProgress", "pending", "LEFT", "RIGHT", n)
          /\ recovered' = (recovered \/ (n > 0 /\ list["inProgress"] # <<>>))
          /\ UNCHANGED <<lineVars, cleared>>
      BY <1>1 DEF RunBulk
    <2>2. PICK x \in List, y \in List : /\ list["inProgress"] = x \o y
                                        /\ list' = Recovered(list, x, y)
                                        /\ n = 0 => x = <<>>
      BY <2>1, RecoverMoves DEF RecoverAfter
    <2>3. list["inProgress"] = <<>> => x = <<>>
      <3>1. x \o y = <<>> => x = <<>>
        BY ConcatEqualIffEmpty DEF List
      <3>. QED
        BY <2>2, <3>1
    <2>4. recovered' \in BOOLEAN /\ (recovered => recovered')
      BY <2>1
    <2>5. ASSUME x # <<>> PROVE recovered'
      <3>1. n > 0 /\ list["inProgress"] # <<>>
        BY <2>2, <2>3, <2>5
      <3>. QED
        BY <2>1, <3>1
    <2>. QED
      BY <2>1, <2>2, <2>4, <2>5 DEF RecoverEffect
  <1>2. CASE o = "republish"
    <2>1. PICK s \in List : s = list["failed"]
      BY DEF Stage
    <2>2. /\ list' = BulkMove("failed", "pending", "RIGHT", "LEFT", n)
          /\ Entered(Ids(SubSeq(s, IF n < Len(s) THEN Len(s) - n + 1 ELSE 1, Len(s))))
          /\ UNCHANGED <<cleared, recovered>>
      BY <1>2, <2>1 DEF RunBulk
    <2>3. PICK x \in List, y \in List : /\ s = y \o x
                                        /\ list' = Republished(list, x, y)
                                        /\ Len(x) = IF n < Len(s) THEN n ELSE Len(s)
      BY <2>1, <2>2, RepublishMoves DEF RepublishAfter
    <2>4. SubSeq(s, IF n < Len(s) THEN Len(s) - n + 1 ELSE 1, Len(s)) = x
      BY <2>3, RepublishedIds
    <2>5. Entered(Ids(x))
      BY <2>2, <2>4
    <2>. QED
      BY <2>1, <2>2, <2>3, <2>5 DEF RepublishEffect
  <1>. QED
    BY <1>1, <1>2 DEF RunBulk

-----------------------------------------------------------------------------
(* The order of the line. *)

LEMMA EnteredFacts ==
    ASSUME published \in SUBSET Msg, newer \in [Msg -> SUBSET Msg],
           NEW x \in List, NoRepeat(x), Entered(Ids(x))
    PROVE  /\ published' = published \cup IdsOf(x)
           /\ newer' \in [Msg -> SUBSET Msg]
           /\ Sorted(x, newer')
           /\ \A m \in published \ IdsOf(x) : newer'[m] = newer[m] \cup IdsOf(x)
  <1> DEFINE left(m) == {Ids(x)[i] : i \in {k \in DOMAIN Ids(x) : \E j \in DOMAIN Ids(x) : k < j /\ Ids(x)[j] = m}}
  <1>1. IdsOf(x) = ToSet(Ids(x)) /\ IdsOf(x) \subseteq Msg
    BY Members
  <1>2. published' = published \cup IdsOf(x)
    BY <1>1 DEF Entered
  <1>3. newer' = [m \in Msg |-> IF m \in IdsOf(x) THEN left(m)
                                ELSE IF m \in published THEN newer[m] \cup IdsOf(x)
                                ELSE {}]
    BY <1>1 DEF Entered
  <1>4. \A m \in Msg : left(m) \subseteq IdsOf(x)
    BY DEF Ids, IdsOf
  <1>5. newer' \in [Msg -> SUBSET Msg]
    <2> SUFFICES ASSUME NEW m \in Msg PROVE newer'[m] \subseteq Msg
      BY <1>3
    <2>1. left(m) \subseteq Msg /\ newer[m] \cup IdsOf(x) \subseteq Msg
      BY <1>1, <1>4
    <2> HIDE DEF left
    <2>. QED
      BY <1>3, <2>1
  <1>6. ASSUME NEW i \in DOMAIN x, NEW j \in DOMAIN x, i < j PROVE x[i].id \in newer'[x[j].id]
    <2>1. x[j].id \in IdsOf(x) /\ x[j].id \in Msg
      BY <1>1 DEF IdsOf
    <2>2. newer'[x[j].id] = left(x[j].id)
      <3> HIDE DEF left
      <3>. QED
        BY <1>3, <2>1
    <2>3. x[i].id \in left(x[j].id)
      BY <1>6 DEF Ids
    <2>. QED
      BY <2>2, <2>3
  <1>7. ASSUME NEW m \in published \ IdsOf(x) PROVE newer'[m] = newer[m] \cup IdsOf(x)
    <2> HIDE DEF left
    <2>. QED
      BY <1>3
  <1>. QED
    BY <1>2, <1>5, <1>6, <1>7 DEF Sorted

(* Messages that were there before stay in order when x enters. *)
LEMMA StaysSorted ==
    ASSUME NEW s \in List, NEW x \in List, Sorted(s, newer), IdsOf(s) \subseteq published \ IdsOf(x),
           \A m \in published \ IdsOf(x) : newer'[m] = newer[m] \cup IdsOf(x)
    PROVE  Sorted(s, newer') /\ \A a \in IdsOf(x), b \in IdsOf(s) : a \in newer'[b]
  BY DEF Sorted, IdsOf

-----------------------------------------------------------------------------
(* Each effect keeps the invariant of the lists. *)

LineType ==
    /\ list \in [Stage -> List]
    /\ published \in SUBSET Msg /\ IsFiniteSet(published)
    /\ newer \in [Msg -> SUBSET Msg]

LEMMA ClaimKeepsList ==
    ASSUME LineType, ListInv, UNCHANGED runVars, NEW e \in CommandEnvelope, ClaimEffect(e)
    PROVE  LineType' /\ ListInv'
  <1>1. PICK a \in List : /\ list["pending"] = a \o <<e>>
                          /\ list' = [list EXCEPT !["pending"] = a, !["inProgress"] = <<e>> \o @]
    BY DEF ClaimEffect
  <1>2. PICK p \in List, q \in List, f \in List :
           p = list["pending"] /\ q = list["inProgress"] /\ f = list["failed"]
    BY DEF LineType, Stage
  <1>3. PICK r : r = <<e>> \o q
    OBVIOUS
  <1>4. /\ r \in List /\ IdsOf(r) = {e.id} \cup IdsOf(q) /\ ToSet(r) = {e} \cup ToSet(q)
        /\ NoRepeat(r) <=> NoRepeat(q) /\ e.id \notin IdsOf(q)
    BY <1>3, Single, Concat
  <1>5. /\ IdsOf(p) = IdsOf(a) \cup {e.id} /\ ToSet(p) = ToSet(a) \cup {e}
        /\ NoRepeat(p) <=> NoRepeat(a) /\ e.id \notin IdsOf(a)
    BY <1>1, <1>2, Single, Concat
  <1>6. /\ list'["pending"] = a /\ list'["inProgress"] = r /\ list'["failed"] = f
        /\ list' \in [Stage -> List]
    BY <1>1, <1>2, <1>3, <1>4 DEF LineType, Stage
  <1>7. UNCHANGED <<published, newer, cleared, succeeded, counted>>
    BY DEF ClaimEffect, lineVars, runVars
  <1>8. Distinct'
    BY <1>2, <1>4, <1>5, <1>6 DEF ListInv, Distinct, In
  <1>9. Accounted'
    BY <1>2, <1>4, <1>5, <1>6, <1>7 DEF ListInv, Accounted, Stored, In
  <1>10. Charged'
    BY <1>2, <1>4, <1>5, <1>6, <1>7 DEF ListInv, Charged, Stage
  <1>11. InLine'
    <2>1. a \o r = p \o q
      <3>1. PICK b \in List : b = <<e>>
        BY Single
      <3>2. (a \o b) \o q = a \o (b \o q)
        BY Associative
      <3>. QED
        BY <1>1, <1>2, <1>3, <3>1, <3>2
    <2>. QED
      BY <1>2, <1>6, <1>7, <2>1 DEF ListInv, InLine
  <1>. QED
    BY <1>6, <1>7, <1>8, <1>9, <1>10, <1>11 DEF ListInv, LineType

(* The in-progress list without e. *)
LEMMA Without ==
    ASSUME NEW q \in List, NEW e \in CommandEnvelope, NEW t, Drops(q, e, t)
    PROVE  /\ t \in List
           /\ IdsOf(q) = IdsOf(t) \cup {e.id} /\ ToSet(q) = ToSet(t) \cup {e}
           /\ NoRepeat(q) => NoRepeat(t) /\ e.id \notin IdsOf(t)
           /\ \A o : Sorted(q, o) => Sorted(t, o)
  <1>0. PICK a \in List, b \in List : q = a \o (<<e>> \o b) /\ t = a \o b
    BY DEF Drops
  <1>1. PICK r \in List : r = <<e>> \o b
    BY Single, Concat
  <1>2. /\ IdsOf(r) = {e.id} \cup IdsOf(b) /\ ToSet(r) = {e} \cup ToSet(b)
        /\ NoRepeat(r) <=> NoRepeat(b) /\ e.id \notin IdsOf(b)
        /\ \A o : Sorted(r, o) => Sorted(b, o)
    BY <1>1, Single, Concat
  <1>3. /\ IdsOf(q) = IdsOf(a) \cup IdsOf(r) /\ ToSet(q) = ToSet(a) \cup ToSet(r)
        /\ NoRepeat(q) <=> NoRepeat(a) /\ NoRepeat(r) /\ IdsOf(a) \cap IdsOf(r) = {}
        /\ \A o : Sorted(q, o) <=> /\ Sorted(a, o) /\ Sorted(r, o)
                                   /\ \A x \in IdsOf(a), y \in IdsOf(r) : x \in o[y]
    BY <1>0, <1>1, Concat
  <1>4. t \in List
    BY <1>0, Concat
  <1>5. /\ IdsOf(t) = IdsOf(a) \cup IdsOf(b) /\ ToSet(t) = ToSet(a) \cup ToSet(b)
        /\ NoRepeat(t) <=> NoRepeat(a) /\ NoRepeat(b) /\ IdsOf(a) \cap IdsOf(b) = {}
        /\ \A o : Sorted(t, o) <=> /\ Sorted(a, o) /\ Sorted(b, o)
                                   /\ \A x \in IdsOf(a), y \in IdsOf(b) : x \in o[y]
    BY <1>0, Concat
  <1>6. \A o : Sorted(q, o) => Sorted(t, o)
    BY <1>2, <1>3, <1>5
  <1>7. NoRepeat(q) => NoRepeat(t) /\ e.id \notin IdsOf(t)
    BY <1>2, <1>3, <1>5
  <1>8. IdsOf(q) = IdsOf(t) \cup {e.id} /\ ToSet(q) = ToSet(t) \cup {e}
    BY <1>2, <1>3, <1>5
  <1>. QED
    BY <1>4, <1>6, <1>7, <1>8

LEMMA RemoveKeepsList ==
    ASSUME LineType, ListInv, UNCHANGED runVars,
           NEW e \in CommandEnvelope, e.id \in succeeded, RemoveEffect(e)
    PROVE  LineType' /\ ListInv'
  <1>1. PICK t \in List : /\ Drops(list["inProgress"], e, t)
                          /\ list' = [list EXCEPT !["inProgress"] = t]
    BY DEF RemoveEffect
  <1>2. PICK p \in List, q \in List, f \in List :
           p = list["pending"] /\ q = list["inProgress"] /\ f = list["failed"]
    BY DEF LineType, Stage
  <1>4. /\ IdsOf(q) = IdsOf(t) \cup {e.id} /\ ToSet(q) = ToSet(t) \cup {e}
        /\ NoRepeat(q) => NoRepeat(t) /\ e.id \notin IdsOf(t)
        /\ \A o : Sorted(q, o) => Sorted(t, o)
    BY <1>1, <1>2, Without
  <1>5. /\ list'["pending"] = p /\ list'["inProgress"] = t /\ list'["failed"] = f
        /\ list' \in [Stage -> List]
    BY <1>1, <1>2, <1>4 DEF LineType, Stage
  <1>6. UNCHANGED <<published, newer, cleared, succeeded, counted>>
    BY DEF RemoveEffect, lineVars, runVars
  <1>7. Distinct'
    BY <1>2, <1>4, <1>5 DEF ListInv, Distinct, In
  <1>8. Accounted'
    BY <1>2, <1>4, <1>5, <1>6 DEF ListInv, Accounted, Stored, In
  <1>9. Charged'
    BY <1>2, <1>4, <1>5, <1>6 DEF ListInv, Charged, Stage
  <1>10. InLine'
    <2>1. Sorted(p \o q, newer)
      BY <1>2 DEF ListInv, InLine
    <2>2. Sorted(p \o t, newer)
      BY <1>4, <2>1, Concat
    <2>. QED
      BY <1>5, <1>6, <2>2 DEF InLine
  <1>. QED
    BY <1>5, <1>6, <1>7, <1>8, <1>9, <1>10 DEF ListInv, LineType

(* The line after x has entered it at its left end. *)
LEMMA EnterLine ==
    ASSUME published \in SUBSET Msg, newer \in [Msg -> SUBSET Msg],
           NEW x \in List, NEW p \in List, NEW q \in List, NoRepeat(x), Entered(Ids(x)),
           Sorted(p \o q, newer), IdsOf(p) \cup IdsOf(q) \subseteq published \ IdsOf(x)
    PROVE  Sorted((x \o p) \o q, newer')
  <1>1. PICK s \in List : s = p \o q
    BY Concat
  <1>2. IdsOf(s) = IdsOf(p) \cup IdsOf(q)
    BY <1>1, Concat
  <1>3. /\ Sorted(x, newer')
        /\ \A m \in published \ IdsOf(x) : newer'[m] = newer[m] \cup IdsOf(x)
    BY EnteredFacts
  <1>4. Sorted(s, newer)
    BY <1>1
  <1>5. Sorted(s, newer') /\ \A a \in IdsOf(x), b \in IdsOf(s) : a \in newer'[b]
    BY <1>2, <1>3, <1>4, StaysSorted
  <1>6. Sorted(x \o s, newer')
    BY <1>3, <1>5, Concat
  <1>7. (x \o p) \o q = x \o s
    BY <1>1, Associative
  <1>. QED
    BY <1>6, <1>7

LEMMA EnterType ==
    ASSUME published \in SUBSET Msg, IsFiniteSet(published), newer \in [Msg -> SUBSET Msg],
           NEW x \in List, NoRepeat(x), Entered(Ids(x)), IdsOf(x) \subseteq published
    PROVE  published' = published /\ newer' \in [Msg -> SUBSET Msg]
  BY EnteredFacts

LEMMA MoveKeepsList ==
    ASSUME LineType, ListInv, UNCHANGED runVars, NEW e \in CommandEnvelope, NEW v \in CommandEnvelope,
           NEW to \in {"pending", "failed"}, v.id = e.id, v.attempts <= counted[v.id], MoveEffect(e, to, v)
    PROVE  LineType' /\ ListInv' /\ published' = published
  <1>1. PICK t \in List : /\ Drops(list["inProgress"], e, t)
                          /\ list' = [list EXCEPT !["inProgress"] = t, ![to] = <<v>> \o @]
    BY DEF MoveEffect
  <1>2. PICK p \in List, q \in List, f \in List :
           p = list["pending"] /\ q = list["inProgress"] /\ f = list["failed"]
    BY DEF LineType, Stage
  <1>3. /\ IdsOf(q) = IdsOf(t) \cup {e.id} /\ ToSet(q) = ToSet(t) \cup {e}
        /\ NoRepeat(q) => NoRepeat(t) /\ e.id \notin IdsOf(t)
        /\ \A o : Sorted(q, o) => Sorted(t, o)
    BY <1>1, <1>2, Without
  <1>4. UNCHANGED <<cleared, succeeded, counted>>
    BY DEF MoveEffect, runVars
  <1>5. /\ NoRepeat(p) /\ NoRepeat(q) /\ NoRepeat(f)
        /\ IdsOf(p) \cap IdsOf(q) = {} /\ IdsOf(p) \cap IdsOf(f) = {} /\ IdsOf(q) \cap IdsOf(f) = {}
        /\ IdsOf(p) \cup IdsOf(q) \cup IdsOf(f) \subseteq published
    BY <1>2 DEF ListInv, Distinct, Accounted, Stored, In
  <1>6. Sorted(p \o q, newer)
    BY <1>2 DEF ListInv, InLine
  <1>7. Sorted(p \o t, newer)
    BY <1>3, <1>6, Concat
  <1>8. CASE to = "pending"
    <2>1. PICK r \in List : r = <<v>> \o p
      BY Single, Concat
    <2>2. /\ IdsOf(r) = {v.id} \cup IdsOf(p) /\ ToSet(r) = {v} \cup ToSet(p)
          /\ NoRepeat(r) <=> NoRepeat(p) /\ v.id \notin IdsOf(p)
      BY <2>1, Single, Concat
    <2>3. /\ list'["pending"] = r /\ list'["inProgress"] = t /\ list'["failed"] = f
          /\ list' \in [Stage -> List]
      BY <1>1, <1>2, <1>8, <2>1 DEF LineType, Stage
    <2>4. Entered(Ids(<<v>>))
      BY <1>8 DEF MoveEffect
    <2>5. /\ <<v>> \in List /\ NoRepeat(<<v>>) /\ IdsOf(<<v>>) = {v.id}
      BY Single
    <2>6. published' = published /\ newer' \in [Msg -> SUBSET Msg]
      BY <1>3, <1>5, <2>4, <2>5, EnterType DEF LineType
    <2>7. Sorted(r \o t, newer')
      BY <1>3, <1>5, <1>7, <2>1, <2>4, <2>5, EnterLine DEF LineType
    <2>8. Distinct'
      BY <1>3, <1>5, <2>2, <2>3 DEF Distinct, In
    <2>9. Accounted'
      BY <1>2, <1>3, <1>4, <2>2, <2>3, <2>6 DEF ListInv, Accounted, Stored, In
    <2>10. Charged'
      BY <1>2, <1>3, <1>4, <2>2, <2>3 DEF ListInv, Charged, Stage
    <2>11. InLine'
      BY <2>3, <2>7 DEF InLine
    <2>. QED
      BY <2>3, <2>6, <2>8, <2>9, <2>10, <2>11 DEF ListInv, LineType
  <1>9. CASE to = "failed"
    <2>1. PICK r \in List : r = <<v>> \o f
      BY Single, Concat
    <2>2. /\ IdsOf(r) = {v.id} \cup IdsOf(f) /\ ToSet(r) = {v} \cup ToSet(f)
          /\ NoRepeat(r) <=> NoRepeat(f) /\ v.id \notin IdsOf(f)
      BY <2>1, Single, Concat
    <2>3. /\ list'["pending"] = p /\ list'["inProgress"] = t /\ list'["failed"] = r
          /\ list' \in [Stage -> List]
      BY <1>1, <1>2, <1>9, <2>1 DEF LineType, Stage
    <2>4. UNCHANGED <<published, newer>>
      BY <1>9 DEF MoveEffect, lineVars
    <2>5. Distinct'
      BY <1>3, <1>5, <2>2, <2>3 DEF Distinct, In
    <2>6. Accounted'
      BY <1>2, <1>3, <1>4, <2>2, <2>3, <2>4 DEF ListInv, Accounted, Stored, In
    <2>7. Charged'
      BY <1>2, <1>3, <1>4, <2>2, <2>3 DEF ListInv, Charged, Stage
    <2>8. InLine'
      BY <1>7, <2>3, <2>4 DEF InLine
    <2>. QED
      BY <2>3, <2>4, <2>5, <2>6, <2>7, <2>8 DEF ListInv, LineType
  <1>. QED
    BY <1>8, <1>9

LEMMA RecoverKeepsList ==
    ASSUME LineType, ListInv, UNCHANGED runVars, RecoverEffect
    PROVE  LineType' /\ ListInv'
  <1>1. PICK x \in List, y \in List : list["inProgress"] = x \o y /\ list' = Recovered(list, x, y)
    BY DEF RecoverEffect
  <1>2. PICK p \in List, q \in List, f \in List :
           p = list["pending"] /\ q = list["inProgress"] /\ f = list["failed"]
    BY DEF LineType, Stage
  <1>3. PICK r \in List : r = p \o x
    BY Concat
  <1>4. /\ IdsOf(r) = IdsOf(p) \cup IdsOf(x) /\ ToSet(r) = ToSet(p) \cup ToSet(x)
        /\ NoRepeat(r) <=> NoRepeat(p) /\ NoRepeat(x) /\ IdsOf(p) \cap IdsOf(x) = {}
    BY <1>3, Concat
  <1>5. /\ IdsOf(q) = IdsOf(x) \cup IdsOf(y) /\ ToSet(q) = ToSet(x) \cup ToSet(y)
        /\ NoRepeat(q) <=> NoRepeat(x) /\ NoRepeat(y) /\ IdsOf(x) \cap IdsOf(y) = {}
    BY <1>1, <1>2, Concat
  <1>6. /\ list'["pending"] = r /\ list'["inProgress"] = y /\ list'["failed"] = f
        /\ list' \in [Stage -> List]
    BY <1>1, <1>2, <1>3 DEF LineType, Stage, Recovered
  <1>7. UNCHANGED <<published, newer, cleared, succeeded, counted>>
    BY DEF RecoverEffect, lineVars, runVars
  <1>8. Distinct'
    BY <1>2, <1>4, <1>5, <1>6 DEF ListInv, Distinct, In
  <1>9. Accounted'
    BY <1>2, <1>4, <1>5, <1>6, <1>7 DEF ListInv, Accounted, Stored, In
  <1>10. Charged'
    BY <1>2, <1>4, <1>5, <1>6, <1>7 DEF ListInv, Charged, Stage
  <1>11. InLine'
    <2>1. r \o y = p \o q
      <3>1. (p \o x) \o y = p \o (x \o y)
        BY Associative
      <3>. QED
        BY <1>1, <1>2, <1>3, <3>1
    <2>. QED
      BY <1>2, <1>6, <1>7, <2>1 DEF ListInv, InLine
  <1>. QED
    BY <1>6, <1>7, <1>8, <1>9, <1>10, <1>11 DEF ListInv, LineType

LEMMA RepublishKeepsList ==
    ASSUME LineType, ListInv, UNCHANGED runVars, RepublishEffect
    PROVE  LineType' /\ ListInv' /\ published' = published
  <1>1. PICK x \in List, y \in List : /\ list["failed"] = y \o x
                                      /\ list' = Republished(list, x, y)
                                      /\ Entered(Ids(x))
    BY DEF RepublishEffect
  <1>2. PICK p \in List, q \in List, f \in List :
           p = list["pending"] /\ q = list["inProgress"] /\ f = list["failed"]
    BY DEF LineType, Stage
  <1>3. PICK r \in List : r = x \o p
    BY Concat
  <1>4. /\ IdsOf(r) = IdsOf(x) \cup IdsOf(p) /\ ToSet(r) = ToSet(x) \cup ToSet(p)
        /\ NoRepeat(r) <=> NoRepeat(x) /\ NoRepeat(p) /\ IdsOf(x) \cap IdsOf(p) = {}
    BY <1>3, Concat
  <1>5. /\ IdsOf(f) = IdsOf(y) \cup IdsOf(x) /\ ToSet(f) = ToSet(y) \cup ToSet(x)
        /\ NoRepeat(f) <=> NoRepeat(y) /\ NoRepeat(x) /\ IdsOf(y) \cap IdsOf(x) = {}
    BY <1>1, <1>2, Concat
  <1>6. /\ list'["pending"] = r /\ list'["inProgress"] = q /\ list'["failed"] = y
        /\ list' \in [Stage -> List]
    BY <1>1, <1>2, <1>3 DEF LineType, Stage, Republished
  <1>7. UNCHANGED <<cleared, succeeded, counted>>
    BY DEF RepublishEffect, runVars
  <1>8. /\ NoRepeat(p) /\ NoRepeat(q) /\ NoRepeat(f)
        /\ IdsOf(p) \cap IdsOf(q) = {} /\ IdsOf(p) \cap IdsOf(f) = {} /\ IdsOf(q) \cap IdsOf(f) = {}
        /\ IdsOf(p) \cup IdsOf(q) \cup IdsOf(f) \subseteq published
    BY <1>2 DEF ListInv, Distinct, Accounted, Stored, In
  <1>9. published' = published /\ newer' \in [Msg -> SUBSET Msg]
    BY <1>1, <1>5, <1>8, EnterType DEF LineType
  <1>10. Sorted(r \o q, newer')
    <2>1. Sorted(p \o q, newer)
      BY <1>2 DEF ListInv, InLine
    <2>. QED
      BY <1>1, <1>3, <1>5, <1>8, <2>1, EnterLine DEF LineType
  <1>11. Distinct'
    BY <1>4, <1>5, <1>6, <1>8 DEF Distinct, In
  <1>12. Accounted'
    BY <1>2, <1>4, <1>5, <1>6, <1>7, <1>9 DEF ListInv, Accounted, Stored, In
  <1>13. Charged'
    BY <1>2, <1>4, <1>5, <1>6, <1>7 DEF ListInv, Charged, Stage
  <1>14. InLine'
    BY <1>6, <1>10 DEF InLine
  <1>. QED
    BY <1>6, <1>9, <1>11, <1>12, <1>13, <1>14 DEF ListInv, LineType

LEMMA PublishKeepsList ==
    ASSUME LineType, ListInv, UNCHANGED runVars, counted \in [Msg -> Nat],
           NEW m \in Msg, PublishEffect(m)
    PROVE  LineType' /\ ListInv' /\ published' = published \cup {m}
  <1>0. PICK e \in CommandEnvelope : e = NewEnvelope(m) /\ e.id = m /\ e.attempts = 0
    <2>1. NewEnvelope(m) \in CommandEnvelope /\ NewEnvelope(m).id = m /\ NewEnvelope(m).attempts = 0
      BY DEF NewEnvelope, CommandEnvelope
    <2>. QED
      BY <2>1
  <1>1. /\ m \notin published /\ list' = [list EXCEPT !["pending"] = <<e>> \o @]
        /\ Entered(Ids(<<e>>))
    BY <1>0 DEF PublishEffect
  <1>2. PICK p \in List, q \in List, f \in List :
           p = list["pending"] /\ q = list["inProgress"] /\ f = list["failed"]
    BY DEF LineType, Stage
  <1>3. PICK r \in List : r = <<e>> \o p
    BY Single, Concat
  <1>4. /\ IdsOf(r) = {m} \cup IdsOf(p) /\ ToSet(r) = {e} \cup ToSet(p)
        /\ NoRepeat(r) <=> NoRepeat(p) /\ m \notin IdsOf(p)
    <2>1. PICK u \in List : u = <<e>> /\ IdsOf(u) = {e.id} /\ NoRepeat(u) /\ ToSet(u) = {e}
      BY Single
    <2>2. r = u \o p
      BY <1>3, <2>1
    <2>. QED
      BY <1>0, <2>1, <2>2, Concat
  <1>5. /\ list'["pending"] = r /\ list'["inProgress"] = q /\ list'["failed"] = f
        /\ list' \in [Stage -> List]
    BY <1>1, <1>2, <1>3 DEF LineType, Stage
  <1>6. UNCHANGED <<cleared, succeeded, counted>>
    BY DEF PublishEffect, runVars
  <1>7. /\ NoRepeat(p) /\ NoRepeat(q) /\ NoRepeat(f)
        /\ IdsOf(p) \cap IdsOf(q) = {} /\ IdsOf(p) \cap IdsOf(f) = {} /\ IdsOf(q) \cap IdsOf(f) = {}
        /\ IdsOf(p) \cup IdsOf(q) \cup IdsOf(f) \subseteq published
    BY <1>2 DEF ListInv, Distinct, Accounted, Stored, In
  <1>8. <<e>> \in List /\ NoRepeat(<<e>>) /\ IdsOf(<<e>>) = {m}
    BY <1>0, Single
  <1>9. published' = published \cup {m} /\ newer' \in [Msg -> SUBSET Msg]
    BY <1>1, <1>8, EnteredFacts DEF LineType
  <1>10. IsFiniteSet(published')
    BY <1>9, FS_AddElement DEF LineType
  <1>11. Sorted(r \o q, newer')
    <2>1. Sorted(p \o q, newer)
      BY <1>2 DEF ListInv, InLine
    <2>. QED
      BY <1>1, <1>3, <1>7, <1>8, <2>1, EnterLine DEF LineType
  <1>12. Distinct'
    BY <1>1, <1>4, <1>5, <1>7 DEF Distinct, In
  <1>13. Accounted'
    BY <1>2, <1>4, <1>5, <1>6, <1>9 DEF ListInv, Accounted, Stored, In
  <1>14. Charged'
    <2>1. e.attempts <= counted[e.id]
      BY <1>0
    <2>. QED
      BY <1>2, <1>4, <1>5, <1>6, <2>1 DEF ListInv, Charged, Stage
  <1>15. InLine'
    BY <1>5, <1>11 DEF InLine
  <1>. QED
    BY <1>5, <1>9, <1>10, <1>12, <1>13, <1>14, <1>15 DEF ListInv, LineType

LEMMA ClearKeepsList ==
    ASSUME LineType, ListInv, UNCHANGED runVars, NEW s \in Stage, RunClear(s)
    PROVE  LineType' /\ ListInv'
  <1>1. PICK p \in List, q \in List, f \in List :
           p = list["pending"] /\ q = list["inProgress"] /\ f = list["failed"]
    BY DEF LineType, Stage
  <1>2. PICK z \in List : z = <<>> /\ IdsOf(z) = {} /\ ToSet(z) = {} /\ NoRepeat(z)
    BY Empty
  <1>3. list' = [list EXCEPT ![s] = z] /\ cleared' = cleared \cup IdsOf(list[s])
    BY <1>2, Members DEF RunClear, LineType
  <1>4. list' \in [Stage -> List]
    BY <1>3 DEF LineType
  <1>5. UNCHANGED <<published, newer, succeeded, counted>>
    BY DEF RunClear, lineVars, runVars
  <1>6. PICK p1 \in List, q1 \in List, f1 \in List :
           /\ p1 = list'["pending"] /\ q1 = list'["inProgress"] /\ f1 = list'["failed"]
           /\ \/ p1 = z /\ q1 = q /\ f1 = f /\ cleared' = cleared \cup IdsOf(p)
              \/ p1 = p /\ q1 = z /\ f1 = f /\ cleared' = cleared \cup IdsOf(q)
              \/ p1 = p /\ q1 = q /\ f1 = z /\ cleared' = cleared \cup IdsOf(f)
    BY <1>1, <1>3, <1>4 DEF LineType, Stage
  <1>7. Distinct'
    BY <1>1, <1>2, <1>6 DEF ListInv, Distinct, In
  <1>8. Accounted'
    BY <1>1, <1>2, <1>5, <1>6 DEF ListInv, Accounted, Stored, In
  <1>9. Charged'
    BY <1>1, <1>2, <1>5, <1>6 DEF ListInv, Charged, Stage
  <1>10. InLine'
    <2>1. Sorted(p \o q, newer)
      BY <1>1 DEF ListInv, InLine
    <2>2. Sorted(z, newer)
      BY <1>2 DEF Sorted
    <2>3. Sorted(p1 \o q1, newer)
      BY <1>2, <1>6, <2>1, <2>2, Concat
    <2>. QED
      BY <1>5, <1>6, <2>3 DEF InLine
  <1>. QED
    BY <1>4, <1>5, <1>7, <1>8, <1>9, <1>10 DEF ListInv, LineType

-----------------------------------------------------------------------------
(* What a step does to the lists and to the requests without an answer. *)

Effect ==
    \/ UNCHANGED redisVars
    \/ \E m \in Msg : PublishEffect(m)
    \/ \E e \in CommandEnvelope : ClaimEffect(e)
    \/ \E e \in CommandEnvelope : e.id \in succeeded /\ RemoveEffect(e)
    \/ \E e, v \in CommandEnvelope, to \in {"pending", "failed"} :
          v.id = e.id /\ v.attempts <= counted[v.id] /\ MoveEffect(e, to, v)
    \/ RecoverEffect
    \/ RepublishEffect
    \/ \E s \in Stage : RunClear(s)

LEMMA RunHasEffect ==
    ASSUME TypeInv, NEW r \in Request, RequestOK(r), Run(r)
    PROVE  Effect
  <1>0. list \in [Stage -> List] /\ recovered \in BOOLEAN
    BY DEF TypeInv
  <1>1. CASE r.do = "claim" /\ RunClaim
    <2>1. CASE list["pending"] = <<>>
      BY <1>1, <2>1 DEF RunClaim, LMove, Effect, redisVars
    <2>2. CASE list["pending"] # <<>>
      BY <1>0, <1>1, <2>2, RunClaimEffect DEF Effect
    <2>. QED
      BY <2>1, <2>2
  <1>2. CASE r.do = "remove" /\ RunRemove(r.element)
    <2>1. r.element \in CommandEnvelope /\ r.element.id \in succeeded
      BY <1>2 DEF Request, RequestOK
    <2>. QED
      BY <1>0, <1>2, <2>1, RunRemoveEffect DEF Effect
  <1>3. CASE r.do = "move" /\ RunMove(r.element, r.to, r.value)
    <2>1. PICK e \in CommandEnvelope, v \in CommandEnvelope, to \in {"pending", "failed"} :
             e = r.element /\ v = r.value /\ to = r.to
      BY <1>3 DEF Request
    <2>2. v.id = e.id /\ v.attempts <= counted[v.id] /\ RunMove(e, to, v)
      BY <1>3, <2>1 DEF RequestOK
    <2>3. IF e \in ToSet(list["inProgress"]) THEN MoveEffect(e, to, v) ELSE UNCHANGED redisVars
      BY <1>0, <2>2, RunMoveEffect
    <2>. QED
      BY <2>2, <2>3 DEF Effect
  <1>4. CASE r.do = "bulk" /\ RunBulk(r.op, r.count)
    <2>1. r.count \in Nat
      BY <1>4 DEF Request
    <2>2. RecoverEffect \/ RepublishEffect
      BY <1>0, <1>4, <2>1, RunBulkEffect
    <2>. QED
      BY <2>2 DEF Effect
  <1>5. CASE r.do = "clear" /\ RunClear(r.stage)
    <2>1. r.stage \in Stage
      BY <1>5 DEF Request
    <2>. QED
      BY <1>5, <2>1 DEF Effect
  <1>. QED
    BY <1>1, <1>2, <1>3, <1>4, <1>5 DEF Run

(* An effect other than a publication leaves published alone. *)
LEMMA EffectKeepsList ==
    ASSUME TypeInv, ListInv, Effect, UNCHANGED runVars
    PROVE  LineType' /\ ListInv' /\ published \subseteq published'
  <1>0. LineType /\ counted \in [Msg -> Nat]
    BY DEF TypeInv, LineType
  <1>1. CASE UNCHANGED redisVars
    BY <1>0, <1>1 DEF LineType, ListInv, Distinct, Accounted, Stored, In, Charged, InLine,
          redisVars, lineVars, runVars
  <1>2. ASSUME NEW m \in Msg, PublishEffect(m) PROVE LineType' /\ ListInv' /\ published \subseteq published'
    BY <1>0, <1>2, PublishKeepsList
  <1>3. ASSUME NEW e \in CommandEnvelope, ClaimEffect(e)
        PROVE  LineType' /\ ListInv' /\ published \subseteq published'
    <2>1. UNCHANGED published
      BY <1>3 DEF ClaimEffect, lineVars
    <2>. QED
      BY <1>0, <1>3, <2>1, ClaimKeepsList
  <1>4. ASSUME NEW e \in CommandEnvelope, e.id \in succeeded, RemoveEffect(e)
        PROVE  LineType' /\ ListInv' /\ published \subseteq published'
    <2>1. UNCHANGED published
      BY <1>4 DEF RemoveEffect, lineVars
    <2>. QED
      BY <1>0, <1>4, <2>1, RemoveKeepsList
  <1>5. ASSUME NEW e \in CommandEnvelope, NEW v \in CommandEnvelope, NEW to \in {"pending", "failed"},
               v.id = e.id, v.attempts <= counted[v.id], MoveEffect(e, to, v)
        PROVE  LineType' /\ ListInv' /\ published \subseteq published'
    <2>1. published \subseteq published'
      BY <1>5 DEF MoveEffect, lineVars, Entered
    <2>2. LineType' /\ ListInv'
      BY <1>0, <1>5, MoveKeepsList
    <2>. QED
      BY <2>1, <2>2
  <1>6. CASE RecoverEffect
    <2>1. UNCHANGED published
      BY <1>6 DEF RecoverEffect, lineVars
    <2>. QED
      BY <1>0, <1>6, <2>1, RecoverKeepsList
  <1>7. CASE RepublishEffect
    <2>1. published \subseteq published'
      BY <1>7 DEF RepublishEffect, Entered
    <2>. QED
      BY <1>0, <1>7, <2>1, RepublishKeepsList
  <1>8. ASSUME NEW s \in Stage, RunClear(s)
        PROVE  LineType' /\ ListInv' /\ published \subseteq published'
    <2>1. UNCHANGED published
      BY <1>8 DEF RunClear, lineVars
    <2>. QED
      BY <1>0, <1>8, <2>1, ClearKeepsList
  <1>. QED
    BY <1>1, <1>2, <1>3, <1>4, <1>5, <1>6, <1>7, <1>8 DEF Effect

(* A request is sent and answered, or not; or nothing is sent. *)
Sends == \E r \in Request : RequestOK(r) /\ (Answered(r) \/ Unanswered(r))

RunsLate == \E i \in DOMAIN late : Run(late[i]) /\ late' = [late EXCEPT ![i] = [do |-> "done"]]

(* The histories only grow. *)
Grows ==
    /\ published \subseteq published' /\ succeeded \subseteq succeeded'
    /\ \A m \in Msg : counted[m] <= counted'[m]
    /\ late # <<>> => late' # <<>>

(* An attempt may end, while the lists stay as they are. *)
Ends ==
    /\ UNCHANGED <<redisVars, late>>
    /\ succeeded' = succeeded \/ \E m \in published : succeeded' = succeeded \cup {m}
    /\ counted' \in [Msg -> Nat] /\ \A m \in Msg : counted[m] <= counted'[m]

(* What every step does to the lists, the requests and the histories. *)
StoreStep ==
    \/ Ends
    \/ UNCHANGED runVars /\ Sends
    \/ UNCHANGED runVars /\ RunsLate
    \/ UNCHANGED <<runVars, late>> /\ \E m \in Msg : PublishEffect(m)

StoreInv ==
    /\ LineType /\ ListInv
    /\ late \in Seq(Request) /\ LateInv
    /\ succeeded \in SUBSET published /\ counted \in [Msg -> Nat] /\ recovered \in BOOLEAN

LEMMA RunKeepsStore ==
    ASSUME TypeInv, ListInv, NEW r \in Request, RequestOK(r), Run(r), UNCHANGED runVars
    PROVE  /\ LineType' /\ ListInv' /\ published \subseteq published'
           /\ succeeded' \in SUBSET published' /\ counted' \in [Msg -> Nat]
           /\ \A m \in Msg : counted[m] <= counted'[m]
           /\ recovered' \in BOOLEAN /\ succeeded' = succeeded /\ counted' = counted
  <1>1. Effect
    BY RunHasEffect
  <1>2. LineType' /\ ListInv' /\ published \subseteq published'
    BY <1>1, EffectKeepsList
  <1>3. recovered' \in BOOLEAN
    BY DEF Run, RunClaim, RunRemove, RunMove, RunBulk, RunClear, TypeInv
  <1>4. succeeded' = succeeded /\ counted' = counted
    BY DEF runVars
  <1>5. \A m \in Msg : counted[m] \in Nat
    BY DEF TypeInv
  <1>. QED
    BY <1>2, <1>3, <1>4, <1>5 DEF TypeInv

(* A sound request stays sound. *)
LEMMA StaysOK ==
    ASSUME counted \in [Msg -> Nat], counted' \in [Msg -> Nat], NEW r \in Request, RequestOK(r),
           succeeded \subseteq succeeded', \A m \in Msg : counted[m] <= counted'[m]
    PROVE  RequestOK(r)'
  <1>1. CASE r.do = "move"
    <2>1. r.value \in CommandEnvelope
      BY <1>1 DEF Request
    <2>2. r.value.attempts \in Nat /\ r.value.id \in Msg
      BY <2>1 DEF CommandEnvelope
    <2>. QED
      BY <1>1, <2>2 DEF RequestOK
  <1>2. CASE r.do # "move"
    BY <1>2 DEF RequestOK
  <1>. QED
    BY <1>1, <1>2

(* LateInv, when late stays or gets one more sound request. *)
LEMMA LateGrows ==
    ASSUME late \in Seq(Request), LateInv, counted \in [Msg -> Nat], counted' \in [Msg -> Nat],
           succeeded \subseteq succeeded', \A m \in Msg : counted[m] <= counted'[m],
           \/ late' = late
           \/ \E r \in Request : RequestOK(r) /\ late' = Append(late, r)
           \/ \E i \in DOMAIN late : late' = [late EXCEPT ![i] = [do |-> "done"]]
    PROVE  late' \in Seq(Request) /\ LateInv' /\ (late # <<>> => late' # <<>>)
  <1>0. \A r \in Request : RequestOK(r) => RequestOK(r)'
    BY StaysOK
  <1>1. PICK L : L = late
    OBVIOUS
  <1>2. CASE late' = late
    BY <1>0, <1>2 DEF LateInv
  <1>3. ASSUME NEW r \in Request, RequestOK(r), late' = Append(late, r)
        PROVE  late' \in Seq(Request) /\ LateInv' /\ (late # <<>> => late' # <<>>)
    <2>1. /\ late' \in Seq(Request) /\ late' # <<>>
          /\ \A i \in DOMAIN late' : late'[i] = r \/ (i \in DOMAIN late /\ late'[i] = late[i])
      BY <1>3
    <2>2. \A i \in DOMAIN late : late[i] \in Request
      OBVIOUS
    <2>. QED
      BY <1>0, <1>3, <2>1, <2>2 DEF LateInv
  <1>4. ASSUME NEW k \in DOMAIN late, late' = [late EXCEPT ![k] = [do |-> "done"]]
        PROVE  late' \in Seq(Request) /\ LateInv' /\ (late # <<>> => late' # <<>>)
    <2>1. [do |-> "done"] \in Request
      BY DEF Request
    <2>2. /\ late' \in Seq(Request) /\ late' # <<>> /\ DOMAIN late' = DOMAIN late
          /\ \A i \in DOMAIN late : late'[i] = (IF i = k THEN [do |-> "done"] ELSE late[i])
                                    /\ late[i] \in Request
      BY <1>4, <2>1
    <2>3. RequestOK([do |-> "done"])'
      BY DEF RequestOK
    <2>. QED
      BY <1>0, <2>2, <2>3 DEF LateInv
  <1>. QED
    BY <1>2, <1>3, <1>4

LEMMA StepKeepsStore ==
    ASSUME TypeInv, LateInv, ListInv, StoreStep
    PROVE  StoreInv' /\ Grows
  <1>0. /\ late \in Seq(Request) /\ counted \in [Msg -> Nat] /\ LineType
        /\ \A m \in Msg : counted[m] \in Nat
        /\ succeeded \in SUBSET published /\ recovered \in BOOLEAN
    BY DEF TypeInv, LineType
  <1>1. CASE Ends
    <2>1. UNCHANGED <<redisVars, late>> /\ succeeded \subseteq succeeded' /\ succeeded' \subseteq published
          /\ counted' \in [Msg -> Nat] /\ \A m \in Msg : counted[m] <= counted'[m]
      BY <1>0, <1>1 DEF Ends
    <2>2. UNCHANGED <<list, published, newer, cleared, recovered, late>>
      BY <2>1 DEF redisVars, lineVars
    <2>3. LineType' /\ Distinct' /\ Accounted' /\ InLine'
      BY <1>0, <2>1, <2>2 DEF LineType, ListInv, Distinct, Accounted, Stored, In, InLine
    <2>4. Charged'
      <3> SUFFICES ASSUME NEW s \in Stage, NEW e \in ToSet(list[s]) PROVE e.attempts <= counted'[e.id]
        BY <2>2 DEF Charged
      <3>1. e \in CommandEnvelope /\ e.attempts <= counted[e.id]
        BY <1>0, Members DEF LineType, ListInv, Charged
      <3>2. e.id \in Msg /\ e.attempts \in Nat
        BY <3>1 DEF CommandEnvelope
      <3>. QED
        BY <1>0, <2>1, <3>1, <3>2
    <2>5. late' \in Seq(Request) /\ LateInv'
      BY <1>0, <2>1, <2>2, LateGrows
    <2>. QED
      BY <1>0, <2>1, <2>2, <2>3, <2>4, <2>5 DEF StoreInv, Grows, ListInv
  <1>2. ASSUME UNCHANGED runVars, NEW r \in Request, RequestOK(r), Answered(r)
        PROVE  StoreInv' /\ Grows
    <2>1. Run(r) /\ late' = late
      BY <1>2 DEF Answered
    <2>2. /\ LineType' /\ ListInv' /\ published \subseteq published'
          /\ succeeded' \in SUBSET published' /\ counted' \in [Msg -> Nat]
          /\ \A m \in Msg : counted[m] <= counted'[m]
          /\ recovered' \in BOOLEAN /\ succeeded' = succeeded /\ counted' = counted
      BY <1>2, <2>1, RunKeepsStore
    <2>3. late' \in Seq(Request) /\ LateInv'
      BY <1>0, <2>1, <2>2, LateGrows
    <2>. QED
      BY <2>1, <2>2, <2>3 DEF StoreInv, Grows
  <1>3. ASSUME UNCHANGED runVars, NEW r \in Request, RequestOK(r), Unanswered(r)
        PROVE  StoreInv' /\ Grows
    <2>1. UNCHANGED redisVars /\ late' = Append(late, r)
      BY <1>3 DEF Unanswered
    <2>2. LineType' /\ ListInv' /\ published \subseteq published'
      BY <1>3, <2>1, EffectKeepsList DEF Effect
    <2>3. UNCHANGED <<published, recovered, succeeded, counted>>
      BY <1>3, <2>1 DEF redisVars, lineVars, runVars
    <2>4. late' \in Seq(Request) /\ LateInv' /\ (late # <<>> => late' # <<>>)
      BY <1>0, <1>3, <2>1, <2>3, LateGrows
    <2>. QED
      BY <1>0, <2>2, <2>3, <2>4 DEF StoreInv, Grows
  <1>4. ASSUME UNCHANGED runVars, NEW i \in DOMAIN late, Run(late[i]),
               late' = [late EXCEPT ![i] = [do |-> "done"]]
        PROVE  StoreInv' /\ Grows
    <2>1. PICK r \in Request : r = late[i] /\ RequestOK(r) /\ Run(r)
      BY <1>0, <1>4 DEF LateInv
    <2>2. /\ LineType' /\ ListInv' /\ published \subseteq published'
          /\ succeeded' \in SUBSET published' /\ counted' \in [Msg -> Nat]
          /\ \A m \in Msg : counted[m] <= counted'[m]
          /\ recovered' \in BOOLEAN /\ succeeded' = succeeded /\ counted' = counted
      BY <1>4, <2>1, RunKeepsStore
    <2>3. late' \in Seq(Request) /\ LateInv' /\ (late # <<>> => late' # <<>>)
      BY <1>0, <1>4, <2>2, LateGrows
    <2>. QED
      BY <2>2, <2>3 DEF StoreInv, Grows
  <1>5. ASSUME UNCHANGED <<runVars, late>>, NEW m \in Msg, PublishEffect(m)
        PROVE  StoreInv' /\ Grows
    <2>1. LineType' /\ ListInv' /\ published \subseteq published'
      BY <1>5, EffectKeepsList DEF Effect
    <2>2. UNCHANGED <<recovered, late, succeeded, counted>>
      BY <1>5 DEF PublishEffect, runVars
    <2>3. late' \in Seq(Request) /\ LateInv'
      BY <1>0, <2>2, LateGrows
    <2>. QED
      BY <1>0, <2>1, <2>2, <2>3 DEF StoreInv, Grows
  <1>. QED
    BY <1>1, <1>2, <1>3, <1>4, <1>5 DEF StoreStep, Sends, RunsLate

-----------------------------------------------------------------------------
(* What each action does to the consumers. *)

ClientType ==
    /\ pc \in [Consumer -> Pc]
    /\ element \in [Consumer -> CommandEnvelope \cup {NoElement}]
    /\ env \in [Consumer -> CommandEnvelope \cup {NoElement}]
    /\ kind \in [Consumer -> AttemptKind \cup {"none"}]
    /\ tries \in [Consumer -> Nat]

WorkType ==
    /\ op \in [Worker -> {"none", "open", "recover", "republish"}]
    /\ rest \in [Worker -> Nat]
    /\ crashes \in Nat

Same(d) == pc'[d] = pc[d] /\ element'[d] = element[d] /\ env'[d] = env[d] /\ kind'[d] = kind[d]

(* A step of consumer c alone. *)
ClientStep(c) ==
    /\ StoreStep /\ ClientType' /\ UNCHANGED <<workVars, crashes, server>>
    /\ pc[c] # "stopped"
    /\ \A d \in Consumer : d # c => Same(d)
    /\ ConsumerOK(c)'

LEMMA Counting ==
    ASSUME NEW e \in CommandEnvelope
    PROVE  /\ e.id \in Msg /\ e.attempts \in Nat
           /\ CountAttempt(e) \in CommandEnvelope /\ CountAttempt(e).id = e.id
           /\ CountAttempt(e).attempts = e.attempts + 1
           /\ TakeBackAttempt(e) \in CommandEnvelope /\ TakeBackAttempt(e).id = e.id
           /\ TakeBackAttempt(e).attempts = IF e.attempts = 0 THEN 0 ELSE e.attempts - 1
  BY DEF CommandEnvelope, CountAttempt, TakeBackAttempt

LEMMA SameStaysOK ==
    ASSUME TypeInv, Grows, counted' \in [Msg -> Nat], NEW d \in Consumer, ConsumerOK(d), Same(d)
    PROVE  ConsumerOK(d)'
  <1>1. PICK p, e, v, k : p = pc[d] /\ e = element[d] /\ v = env[d] /\ k = kind[d]
    OBVIOUS
  <1>2. p = pc'[d] /\ e = element'[d] /\ v = env'[d] /\ k = kind'[d]
    BY <1>1 DEF Same
  <1>3. \A m \in Msg : counted[m] \in Nat /\ counted'[m] \in Nat /\ counted[m] <= counted'[m]
    BY DEF TypeInv, Grows
  <1>4. p \notin Holding => e = NoElement
    BY <1>1 DEF ConsumerOK
  <1>5. ASSUME p \in Holding PROVE e \in CommandEnvelope /\ e.id \in published' /\ e.attempts <= counted'[e.id]
    <2>1. e \in CommandEnvelope /\ e.id \in published /\ e.attempts <= counted[e.id]
      BY <1>1, <1>5 DEF ConsumerOK
    <2>2. e.id \in Msg /\ e.attempts \in Nat
      BY <2>1 DEF CommandEnvelope
    <2>. QED
      BY <1>3, <2>1, <2>2 DEF Grows
  <1>6. ASSUME p \in Delivered PROVE v \in CommandEnvelope /\ v.id = e.id /\ v.attempts <= counted'[v.id] + 1
    <2>1. v \in CommandEnvelope /\ v.id = e.id /\ v.attempts <= counted[v.id] + 1
      BY <1>1, <1>6 DEF ConsumerOK
    <2>2. v.id \in Msg /\ v.attempts \in Nat
      BY <2>1 DEF CommandEnvelope
    <2>. QED
      BY <1>3, <2>1, <2>2
  <1>7. p \in Settling <=> k # "none"
    BY <1>1 DEF ConsumerOK
  <1>8. k = "succeeded" => v.id \in succeeded'
    BY <1>1 DEF ConsumerOK, Grows
  <1>9. ASSUME k \in CountedKind \cup {"interrupted"} PROVE v.attempts <= counted'[v.id]
    <2>1. p \in Delivered
      BY <1>7, <1>9 DEF Delivered, CountedKind
    <2>2. v.id \in Msg /\ v.attempts \in Nat /\ v.attempts <= counted[v.id]
      BY <1>1, <1>9, <2>1 DEF ConsumerOK, CommandEnvelope
    <2>. QED
      BY <1>3, <2>2
  <1>10. p = "backoff" => late' # <<>>
    BY <1>1 DEF ConsumerOK, Grows
  <1>. QED
    BY <1>2, <1>4, <1>5, <1>6, <1>7, <1>8, <1>9, <1>10 DEF ConsumerOK

LEMMA EmptyIsOK ==
    ASSUME NEW d \in Consumer, pc'[d] \notin Holding, element'[d] = NoElement, kind'[d] = "none"
    PROVE  ConsumerOK(d)'
  BY DEF ConsumerOK, Holding, Delivered, Settling, CountedKind

(* A delivery is given up or handed back: c has nothing any more. *)
LEMMA NoDeliveryIs ==
    ASSUME ClientType, NEW c \in Consumer, NEW l \in {"stopped", "idle", "poll"}, Goto(c, l), NoDelivery(c)
    PROVE  ClientType' /\ ConsumerOK(c)' /\ \A d \in Consumer : d # c => Same(d)
  <1>1. ClientType'
    BY DEF ClientType, Goto, NoDelivery, Pc
  <1>2. pc'[c] = l /\ element'[c] = NoElement /\ kind'[c] = "none"
    BY DEF ClientType, Goto, NoDelivery
  <1>3. ConsumerOK(c)'
    BY <1>2, EmptyIsOK DEF Holding, Delivered, Settling
  <1>4. \A d \in Consumer : d # c => Same(d)
    BY DEF ClientType, Goto, NoDelivery, Same
  <1>. QED
    BY <1>1, <1>3, <1>4

LEMMA NothingSent ==
    ASSUME TypeInv, UNCHANGED <<redisVars, late, runVars>>
    PROVE  StoreStep
  <1>1. succeeded' = succeeded /\ counted' = counted
    BY DEF runVars
  <1>. QED
    BY <1>1 DEF StoreStep, Ends, TypeInv

LEMMA StopStep ==
    ASSUME IInv, NEW c \in Consumer, Stop(c)
    PROVE  ClientStep(c)
  <1>0. TypeInv /\ ConsumerOK(c) /\ ClientType
    BY DEF IInv, ConsumerInv, TypeInv, ClientType
  <1>1. StoreStep
    BY <1>0, NothingSent DEF Stop
  <1>2. ClientType' /\ pc'[c] = "stopped" /\ element'[c] = element[c] /\ kind'[c] = kind[c]
    BY <1>0 DEF Stop, Goto, ClientType, Pc
  <1>3. ConsumerOK(c)'
    BY <1>0, <1>2, EmptyIsOK DEF Stop, ConsumerOK, Holding, Delivered, Settling
  <1>4. \A d \in Consumer : d # c => Same(d)
    BY <1>0 DEF Stop, Goto, ClientType, Same
  <1>5. UNCHANGED <<workVars, crashes, server>>
    BY DEF Stop, clientOnly, serverVars, boundVars
  <1>. QED
    BY <1>1, <1>2, <1>3, <1>4, <1>5 DEF ClientStep, Stop

(* c claims e. *)
Takes(c, e) ==
    /\ ClaimEffect(e) /\ e \in ToSet(list["pending"])
    /\ UNCHANGED <<late, kind, tries>>
    /\ element' = [element EXCEPT ![c] = e]
    /\ \/ Goto(c, "unreadable") /\ UNCHANGED env
       \/ Goto(c, "begin") /\ env' = [env EXCEPT ![c] = CountAttempt(e)]

(* c gets nothing. *)
TakesNothing(c) ==
    /\ \E l \in {"stopped", "idle"} : Goto(c, l)
    /\ UNCHANGED <<redisVars, element, env, kind, tries>>
    /\ late' = late \/ (FaultLeft /\ late' = Append(late, ClaimRequest))

LEMMA DequeueIs ==
    ASSUME TypeInv, NEW c \in Consumer, Dequeue(c)
    PROVE  TakesNothing(c) \/ \E e \in CommandEnvelope : Takes(c, e)
  <1>1. CASE /\ list["pending"] # <<>> /\ Answered(ClaimRequest)
             /\ LET e == Last(list["pending"])
                IN /\ element' = [element EXCEPT ![c] = e]
                   /\ \/ /\ e.id \in Garbage
                         /\ Goto(c, "unreadable")
                         /\ UNCHANGED env
                      \/ /\ e.id \notin Garbage
                         /\ Goto(c, "begin")
                         /\ env' = [env EXCEPT ![c] = CountAttempt(e)]
    <2>1. RunClaim /\ UNCHANGED late
      BY <1>1 DEF Answered, Run, ClaimRequest
    <2>2. PICK p \in List : p = list["pending"] /\ p # <<>>
      BY <1>1 DEF TypeInv, Stage
    <2>3. PICK e \in CommandEnvelope : e = Last(p) /\ ClaimEffect(e)
      BY <1>1, <2>1, <2>2, RunClaimEffect DEF TypeInv
    <2>4. e \in ToSet(p)
      <3>1. Front(p) \in List /\ p = Front(p) \o <<Last(p)>>
        BY <2>2, FrontAndLast
      <3>2. PICK a \in List, b \in List : a = Front(p) /\ b = <<e>> /\ ToSet(b) = {e}
        BY <2>3, <3>1, Single
      <3>3. p = a \o b
        BY <2>3, <3>1, <3>2
      <3>4. ToSet(a \o b) = ToSet(a) \cup ToSet(b)
        BY Concat
      <3>. QED
        BY <3>2, <3>3, <3>4
    <2>5. /\ element' = [element EXCEPT ![c] = e]
          /\ \/ Goto(c, "unreadable") /\ UNCHANGED env
             \/ Goto(c, "begin") /\ env' = [env EXCEPT ![c] = CountAttempt(e)]
      BY <1>1, <2>2, <2>3
    <2>6. UNCHANGED <<kind, tries>>
      BY DEF Dequeue
    <2>. QED
      BY <2>1, <2>2, <2>3, <2>4, <2>5, <2>6 DEF Takes
  <1>2. CASE list["pending"] = <<>> /\ Goto(c, Leave(c)) /\ UNCHANGED <<redisVars, late, element, env>>
    BY <1>2 DEF Dequeue, TakesNothing, Leave
  <1>3. CASE Unanswered(ClaimRequest) /\ Goto(c, Leave(c)) /\ UNCHANGED <<element, env>>
    BY <1>3 DEF Dequeue, TakesNothing, Leave, Unanswered
  <1>. QED
    BY <1>1, <1>2, <1>3 DEF Dequeue

LEMMA TakesStep ==
    ASSUME IInv, NEW c \in Consumer, pc[c] \in {"idle", "poll"}, NEW e \in CommandEnvelope, Takes(c, e),
           counted' = counted
    PROVE  ClientType' /\ ConsumerOK(c)' /\ \A d \in Consumer : d # c => Same(d)
  <1>0. TypeInv /\ ConsumerOK(c) /\ ClientType /\ ListInv
    BY DEF IInv, ConsumerInv, TypeInv, ClientType
  <1>1. e.id \in published /\ e.attempts <= counted[e.id]
    <2>1. PICK p \in List : p = list["pending"] /\ e \in ToSet(p)
      BY <1>0 DEF TypeInv, Stage, Takes
    <2>2. e.id \in IdsOf(p)
      BY <2>1, Members
    <2>. QED
      BY <1>0, <2>1, <2>2 DEF ListInv, Accounted, Stored, In, Charged, Stage
  <1>2. UNCHANGED <<published, late>>
    BY DEF Takes, ClaimEffect, lineVars
  <1>3. counted' = counted /\ published' = published
    BY <1>2
  <1>4. CountAttempt(e) \in CommandEnvelope /\ CountAttempt(e).id = e.id
        /\ CountAttempt(e).attempts = e.attempts + 1 /\ e.id \in Msg /\ e.attempts \in Nat
    BY Counting
  <1>5. ClientType'
    BY <1>0, <1>4 DEF Takes, Goto, ClientType, Pc
  <1>6. \A d \in Consumer : d # c => Same(d)
    BY <1>0 DEF Takes, Goto, ClientType, Same
  <1>7. kind[c] = "none"
    BY <1>0 DEF ConsumerOK, Settling
  <1>8. element'[c] = e /\ kind'[c] = "none"
    BY <1>0, <1>7 DEF Takes, ClientType
  <1>9. \/ pc'[c] = "unreadable"
        \/ pc'[c] = "begin" /\ env'[c] = CountAttempt(e)
    BY <1>0 DEF Takes, Goto, ClientType
  <1>10. counted[e.id] \in Nat
    BY <1>0, <1>4 DEF TypeInv
  <1>11. ConsumerOK(c)'
    BY <1>1, <1>3, <1>4, <1>8, <1>9, <1>10 DEF ConsumerOK, Holding, Delivered, Settling, CountedKind
  <1>. QED
    BY <1>5, <1>6, <1>11

LEMMA DequeueStep ==
    ASSUME IInv, NEW c \in Consumer, Dequeue(c)
    PROVE  ClientStep(c)
  <1>0. TypeInv /\ ConsumerOK(c) /\ ClientType /\ pc[c] \in {"idle", "poll"}
    BY DEF IInv, ConsumerInv, TypeInv, ClientType, Dequeue
  <1>1. UNCHANGED <<workVars, crashes, server, runVars>> /\ pc[c] # "stopped"
    BY <1>0 DEF Dequeue, clientOnly, serverVars, boundVars
  <1>2. ClaimRequest \in Request /\ RequestOK(ClaimRequest)
    BY DEF ClaimRequest, Request, RequestOK
  <1>3. StoreStep
    <2>1. CASE Answered(ClaimRequest) \/ Unanswered(ClaimRequest)
      BY <1>1, <1>2, <2>1 DEF StoreStep, Sends
    <2>2. CASE UNCHANGED <<redisVars, late>>
      BY <1>0, <1>1, <2>2, NothingSent
    <2>. QED
      BY <2>1, <2>2 DEF Dequeue
  <1>4. CASE TakesNothing(c)
    <2>1. ClientType' /\ pc'[c] \in {"stopped", "idle"} /\ element'[c] = element[c] /\ kind'[c] = kind[c]
      BY <1>0, <1>4 DEF TakesNothing, Goto, ClientType, Pc
    <2>2. element[c] = NoElement /\ kind[c] = "none"
      BY <1>0 DEF ConsumerOK, Holding, Delivered, Settling
    <2>3. ConsumerOK(c)'
      BY <2>1, <2>2, EmptyIsOK DEF Holding, Delivered, Settling
    <2>4. \A d \in Consumer : d # c => Same(d)
      BY <1>0, <1>4 DEF TakesNothing, Goto, ClientType, Same
    <2>. QED
      BY <1>1, <1>3, <2>1, <2>3, <2>4 DEF ClientStep
  <1>5. ASSUME NEW e \in CommandEnvelope, Takes(c, e) PROVE ClientStep(c)
    <2>0. counted' = counted
      BY <1>1 DEF runVars
    <2>1. ClientType' /\ ConsumerOK(c)' /\ \A d \in Consumer : d # c => Same(d)
      BY <1>0, <1>5, <2>0, TakesStep
    <2>. QED
      BY <1>1, <1>3, <2>1 DEF ClientStep
  <1>. QED
    BY <1>0, <1>4, <1>5, DequeueIs

LEMMA MoveRequestOK ==
    ASSUME NEW e \in CommandEnvelope, NEW v \in CommandEnvelope, NEW to \in {"pending", "failed"},
           v.id = e.id, v.attempts <= counted[v.id]
    PROVE  MoveRequest(e, to, v) \in Request /\ RequestOK(MoveRequest(e, to, v))
  BY DEF MoveRequest, Request, RequestOK

(* The request of a settle says what the attempt was. *)
LEMMA SettleRequestIs ==
    ASSUME TypeInv, NEW c \in Consumer, ConsumerOK(c), pc[c] = "settle"
    PROVE  /\ element[c] \in CommandEnvelope /\ env[c] \in CommandEnvelope /\ env[c].id = element[c].id
           /\ \/ kind[c] = "succeeded" /\ SettleRequest(c) = RemoveRequest(element[c])
              \/ /\ kind[c] # "succeeded" /\ env[c].attempts <= counted[env[c].id]
                 /\ \E to \in {"pending", "failed"} : SettleRequest(c) = MoveRequest(element[c], to, env[c])
           /\ SettleRequest(c) \in Request /\ RequestOK(SettleRequest(c))
  <1>1. element[c] \in CommandEnvelope /\ env[c] \in CommandEnvelope /\ env[c].id = element[c].id
        /\ kind[c] # "none"
    BY DEF ConsumerOK, Holding, Delivered, Settling
  <1>2. kind[c] \in AttemptKind
    BY <1>1 DEF TypeInv
  <1>3. CASE kind[c] = "succeeded"
    <2>1. SettleRequest(c) = RemoveRequest(element[c])
      BY <1>3 DEF SettleRequest, ForAttempt
    <2>2. element[c].id \in succeeded
      BY <1>1, <1>3 DEF ConsumerOK
    <2>3. RemoveRequest(element[c]) \in Request /\ RequestOK(RemoveRequest(element[c]))
      BY <1>1, <2>2 DEF RemoveRequest, Request, RequestOK
    <2>. QED
      BY <1>1, <1>3, <2>1, <2>3
  <1>4. CASE kind[c] # "succeeded"
    <2>1. kind[c] \in CountedKind \cup {"interrupted"}
      BY <1>2, <1>4 DEF AttemptKind, CountedKind
    <2>2. env[c].attempts <= counted[env[c].id]
      BY <2>1 DEF ConsumerOK
    <2>3. ForAttempt(kind[c], env[c]) # "acknowledge"
      BY <2>1 DEF ForAttempt, CountedKind
    <2>4. PICK to \in {"pending", "failed"} : SettleRequest(c) = MoveRequest(element[c], to, env[c])
      BY <2>3 DEF SettleRequest, TargetOf
    <2>5. MoveRequest(element[c], to, env[c]) \in Request /\ RequestOK(MoveRequest(element[c], to, env[c]))
      BY <1>1, <2>2, MoveRequestOK
    <2>. QED
      BY <1>1, <1>4, <2>2, <2>4, <2>5
  <1>. QED
    BY <1>3, <1>4

LEMMA MoveUnreadableStep ==
    ASSUME IInv, NEW c \in Consumer, MoveUnreadableToFailed(c)
    PROVE  ClientStep(c)
  <1>0. TypeInv /\ ConsumerOK(c) /\ ClientType
    BY DEF IInv, ConsumerInv, TypeInv, ClientType
  <1>1. UNCHANGED <<workVars, crashes, server, runVars>> /\ pc[c] # "stopped"
    BY DEF MoveUnreadableToFailed, clientOnly, serverVars, boundVars
  <1>2. element[c] \in CommandEnvelope /\ element[c].attempts <= counted[element[c].id]
    BY <1>0 DEF MoveUnreadableToFailed, ConsumerOK, Holding
  <1>3. PICK r \in Request : RequestOK(r) /\ (Answered(r) \/ Unanswered(r))
    BY <1>2, MoveRequestOK DEF MoveUnreadableToFailed
  <1>4. StoreStep
    BY <1>1, <1>3 DEF StoreStep, Sends
  <1>5. ClientType' /\ ConsumerOK(c)' /\ \A d \in Consumer : d # c => Same(d)
    BY <1>0, NoDeliveryIs DEF MoveUnreadableToFailed
  <1>. QED
    BY <1>1, <1>4, <1>5 DEF ClientStep

LEMMA SettleStep ==
    ASSUME IInv, NEW c \in Consumer, Settle(c)
    PROVE  ClientStep(c)
  <1>0. TypeInv /\ ConsumerOK(c) /\ ClientType /\ pc[c] = "settle"
    BY DEF IInv, ConsumerInv, TypeInv, ClientType, Settle
  <1>1. UNCHANGED <<workVars, crashes, server, runVars>> /\ pc[c] # "stopped"
    BY DEF Settle, clientOnly, serverVars, boundVars
  <1>2. SettleRequest(c) \in Request /\ RequestOK(SettleRequest(c))
    BY <1>0, SettleRequestIs
  <1>3. StoreStep
    BY <1>1, <1>2 DEF StoreStep, Sends, Settle
  <1>4. CASE /\ Goto(c, IF Contains(list["inProgress"], element[c]) THEN "idle" ELSE Leave(c))
             /\ NoDelivery(c)
    <2>1. PICK l \in {"stopped", "idle", "poll"} : Goto(c, l)
      BY <1>4 DEF Leave
    <2>2. ClientType' /\ ConsumerOK(c)' /\ \A d \in Consumer : d # c => Same(d)
      BY <1>0, <1>4, <2>1, NoDeliveryIs
    <2>. QED
      BY <1>1, <1>3, <2>2 DEF ClientStep
  <1>5. CASE Unanswered(SettleRequest(c)) /\ Goto(c, "backoff") /\ UNCHANGED <<element, env, kind, tries>>
    <2>1. late' # <<>>
      <3>1. PICK r \in Request : r = SettleRequest(c)
        BY <1>2
      <3>. QED
        BY <1>0, <1>5, <3>1 DEF Unanswered, TypeInv
    <2>2. UNCHANGED <<published, succeeded, counted>>
      BY <1>1, <1>5 DEF Unanswered, redisVars, lineVars, runVars
    <2>3. ClientType' /\ pc'[c] = "backoff" /\ \A d \in Consumer : d # c => Same(d)
      BY <1>0, <1>5 DEF Goto, ClientType, Pc, Same
    <2>4. ConsumerOK(c)'
      BY <1>0, <1>5, <2>1, <2>2, <2>3 DEF ConsumerOK, Holding, Delivered, Settling
    <2>. QED
      BY <1>1, <1>3, <2>3, <2>4 DEF ClientStep
  <1>. QED
    BY <1>4, <1>5 DEF Settle

LEMMA GiveUpStep ==
    ASSUME IInv, NEW c \in Consumer, GiveUp(c)
    PROVE  ClientStep(c)
  <1>0. TypeInv /\ ConsumerOK(c) /\ ClientType
    BY DEF IInv, ConsumerInv, TypeInv, ClientType
  <1>1. UNCHANGED <<workVars, crashes, server>> /\ pc[c] # "stopped"
    BY DEF GiveUp, clientOnly, serverVars, boundVars
  <1>2. StoreStep
    BY <1>0, NothingSent DEF GiveUp
  <1>3. PICK l \in {"stopped", "idle", "poll"} : Goto(c, l)
    BY DEF GiveUp, Leave
  <1>4. ClientType' /\ ConsumerOK(c)' /\ \A d \in Consumer : d # c => Same(d)
    BY <1>0, <1>3, NoDeliveryIs DEF GiveUp
  <1>. QED
    BY <1>1, <1>2, <1>4 DEF ClientStep

LEMMA SettleAgainStep ==
    ASSUME IInv, NEW c \in Consumer, SettleAgain(c)
    PROVE  ClientStep(c)
  <1>0. TypeInv /\ ConsumerOK(c) /\ ClientType /\ pc[c] = "backoff"
    BY DEF IInv, ConsumerInv, TypeInv, ClientType, SettleAgain
  <1>1. UNCHANGED <<workVars, crashes, server, element, kind, published, succeeded, counted>>
        /\ pc[c] # "stopped"
    BY DEF SettleAgain, clientOnly, serverVars, boundVars, redisVars, lineVars, runVars
  <1>2. StoreStep
    BY <1>0, NothingSent DEF SettleAgain
  <1>3. env[c] \in CommandEnvelope /\ kind[c] # "none"
    BY <1>0 DEF ConsumerOK, Delivered, Settling
  <1>4. PICK v \in CommandEnvelope :
           /\ env' = [env EXCEPT ![c] = v] /\ v.id = env[c].id
           /\ v.attempts <= env[c].attempts
    <2>1. /\ env[c].attempts \in Nat
          /\ TakeBackAttempt(env[c]) \in CommandEnvelope /\ TakeBackAttempt(env[c]).id = env[c].id
          /\ TakeBackAttempt(env[c]).attempts <= env[c].attempts
      BY <1>3, Counting
    <2>2. CASE env' = [env EXCEPT ![c] = TakeBackAttempt(@)]
      BY <2>1, <2>2
    <2>3. CASE env' = env
      <3>1. env' = [env EXCEPT ![c] = env[c]]
        BY <1>0, <2>3 DEF ClientType
      <3>2. env[c].attempts <= env[c].attempts
        BY <2>1
      <3>. QED
        BY <1>3, <3>1, <3>2, Zenon
    <2>. QED
      BY <2>2, <2>3 DEF SettleAgain
  <1>5. tries' \in [Consumer -> Nat]
    BY <1>0 DEF SettleAgain, ClientType
  <1>6. pc' = [pc EXCEPT ![c] = "settle"]
    BY DEF SettleAgain, Goto
  <1>7. ClientType' /\ pc'[c] = "settle" /\ env'[c] = v /\ \A d \in Consumer : d # c => Same(d)
    BY <1>0, <1>1, <1>4, <1>5, <1>6 DEF ClientType, Pc, Same
  <1>8. v.attempts \in Nat /\ env[c].attempts \in Nat /\ counted[env[c].id] \in Nat
    BY <1>0, <1>3 DEF CommandEnvelope, TypeInv
  <1>9. ConsumerOK(c)'
    BY <1>0, <1>1, <1>3, <1>4, <1>7, <1>8 DEF ConsumerOK, Holding, Delivered, Settling
  <1>. QED
    BY <1>1, <1>2, <1>7, <1>9 DEF ClientStep

LEMMA AttemptedStep ==
    ASSUME IInv, NEW c \in Consumer, pc[c] \in {"begin", "running"}, NEW k \in AttemptKind, Attempted(c, k)
    PROVE  ClientStep(c)
  <1>0. TypeInv /\ ConsumerOK(c) /\ ClientType
    BY DEF IInv, ConsumerInv, TypeInv, ClientType
  <1>1. UNCHANGED <<workVars, crashes, server, element, tries, late, redisVars, published>>
    BY DEF Attempted, clientOnly, serverVars, boundVars, redisVars, lineVars
  <1>2. PICK v \in CommandEnvelope : v = env[c]
    BY <1>0 DEF ConsumerOK, Delivered
  <1>3. v.id = element[c].id /\ v.attempts <= counted[v.id] + 1 /\ v.id \in published /\ v.id \in Msg
        /\ v.attempts \in Nat /\ counted[v.id] \in Nat
    BY <1>0, <1>2 DEF ConsumerOK, Holding, Delivered, TypeInv, CommandEnvelope
  <1>4. /\ succeeded' = (IF k = "succeeded" THEN succeeded \cup {v.id} ELSE succeeded)
        /\ counted' = (IF k \in CountedKind THEN [counted EXCEPT ![v.id] = @ + 1] ELSE counted)
    BY <1>2 DEF Attempted
  <1>5. succeeded' = succeeded \/ \E m \in published : succeeded' = succeeded \cup {m}
    BY <1>3, <1>4
  <1>6. /\ counted' \in [Msg -> Nat]
        /\ \A m \in Msg : counted[m] <= counted'[m]
        /\ k \in CountedKind => counted'[v.id] = counted[v.id] + 1
    BY <1>0, <1>3, <1>4 DEF TypeInv
  <1>7. StoreStep
    BY <1>1, <1>5, <1>6 DEF StoreStep, Ends
  <1>8. PICK w \in CommandEnvelope :
           /\ env' = [env EXCEPT ![c] = w] /\ w.id = v.id /\ w.attempts <= v.attempts
           /\ k = "interrupted" => w.attempts = IF v.attempts = 0 THEN 0 ELSE v.attempts - 1
    <2>1. CASE k = "interrupted"
      <3>1. PICK w \in CommandEnvelope : /\ w = TakeBackAttempt(v) /\ w.id = v.id
                                         /\ w.attempts = IF v.attempts = 0 THEN 0 ELSE v.attempts - 1
        BY Counting
      <3>2. w.attempts <= v.attempts
        BY <1>3, <3>1
      <3>3. env' = [env EXCEPT ![c] = w]
        BY <1>2, <2>1, <3>1 DEF Attempted
      <3>. QED
        BY <3>1, <3>2, <3>3
    <2>2. CASE k # "interrupted"
      <3>1. env' = [env EXCEPT ![c] = v]
        BY <1>2, <2>2 DEF Attempted
      <3>2. v.attempts <= v.attempts
        BY <1>3
      <3>. QED
        BY <2>2, <3>1, <3>2, Zenon
    <2>. QED
      BY <2>1, <2>2
  <1>9. kind' = [kind EXCEPT ![c] = k] /\ pc' = [pc EXCEPT ![c] = "settle"]
    BY DEF Attempted, Goto
  <1>10. /\ ClientType' /\ pc'[c] = "settle" /\ env'[c] = w /\ kind'[c] = k /\ element'[c] = element[c]
         /\ \A d \in Consumer : d # c => Same(d)
    BY <1>0, <1>1, <1>8, <1>9 DEF ClientType, Pc, Same
  <1>11. w.attempts \in Nat /\ w.id \in Msg
    BY DEF CommandEnvelope
  <1>12. counted'[v.id] \in Nat /\ counted[v.id] <= counted'[v.id]
    BY <1>3, <1>6
  <1>13. k \in CountedKind \cup {"interrupted"} => w.attempts <= counted'[w.id]
    BY <1>3, <1>6, <1>8, <1>11, <1>12
  <1>14. w.attempts <= counted'[w.id] + 1
    BY <1>3, <1>8, <1>11, <1>12
  <1>15. k = "succeeded" => w.id \in succeeded'
    BY <1>4, <1>8
  <1>16. /\ element[c] \in CommandEnvelope /\ element[c].id \in published
         /\ element[c].attempts <= counted'[element[c].id]
    <2>1. element[c] \in CommandEnvelope /\ element[c].attempts <= counted[element[c].id]
      BY <1>0 DEF ConsumerOK, Holding, Delivered
    <2>2. element[c].attempts \in Nat
      BY <2>1 DEF CommandEnvelope
    <2>. QED
      BY <1>3, <1>12, <2>1, <2>2
  <1>17. k # "none"
    BY DEF AttemptKind
  <1>18. ConsumerOK(c)'
    BY <1>1, <1>3, <1>8, <1>10, <1>13, <1>14, <1>15, <1>16, <1>17 DEF ConsumerOK, Holding, Delivered, Settling
  <1>. QED
    BY <1>1, <1>7, <1>10, <1>18 DEF ClientStep

LEMMA RunningStep ==
    ASSUME IInv, NEW c \in Consumer, pc[c] = "begin", Goto(c, "running"),
           UNCHANGED <<redisVars, late, element, env, kind, tries, clientOnly, runVars>>
    PROVE  ClientStep(c)
  <1>0. TypeInv /\ ConsumerOK(c) /\ ClientType
    BY DEF IInv, ConsumerInv, TypeInv, ClientType
  <1>1. UNCHANGED <<workVars, crashes, server, published, succeeded, counted>>
    BY DEF clientOnly, serverVars, boundVars, redisVars, lineVars, runVars
  <1>2. StoreStep
    BY <1>0, NothingSent
  <1>3. ClientType' /\ pc'[c] = "running" /\ \A d \in Consumer : d # c => Same(d)
    BY <1>0 DEF Goto, ClientType, Pc, Same
  <1>4. ConsumerOK(c)'
    BY <1>0, <1>1, <1>3 DEF ConsumerOK, Holding, Delivered, Settling
  <1>. QED
    BY <1>1, <1>2, <1>3, <1>4 DEF ClientStep

LEMMA ConsumerStep ==
    ASSUME IInv, NEW c \in Consumer, Step(c)
    PROVE  ClientStep(c)
  <1>1. CASE Begin(c)
    <2>1. \/ \E k \in AttemptKind : Attempted(c, k)
          \/ /\ Goto(c, "running")
             /\ UNCHANGED <<redisVars, late, element, env, kind, tries, clientOnly, runVars>>
      BY <1>1 DEF Begin, AttemptKind
    <2>2. pc[c] = "begin"
      BY <1>1 DEF Begin
    <2>. QED
      BY <2>1, <2>2, AttemptedStep, RunningStep
  <1>2. CASE Finish(c)
    <2>1. pc[c] = "running" /\ \E k \in AttemptKind : Attempted(c, k)
      BY <1>2 DEF Finish, AttemptKind
    <2>. QED
      BY <2>1, AttemptedStep
  <1>. QED
    BY <1>1, <1>2, StopStep, DequeueStep, MoveUnreadableStep, SettleStep, GiveUpStep, SettleAgainStep DEF Step

-----------------------------------------------------------------------------
(* The other actions. *)

Blank(d) == pc'[d] \notin Holding /\ element'[d] = NoElement /\ kind'[d] = "none"

OtherStep ==
    /\ StoreStep /\ ClientType' /\ WorkType' /\ ServerTasks'
    /\ \A d \in Consumer : Same(d) \/ Blank(d)

LEMMA PublishIs ==
    ASSUME NEW m, Publish(m)
    PROVE  PublishEffect(m)
  <1>1. Ids(<<NewEnvelope(m)>>) = <<m>>
    BY DEF Ids, NewEnvelope
  <1>. QED
    BY <1>1 DEF Publish, PublishEffect

LEMMA Quiet ==
    ASSUME IInv, StoreStep, UNCHANGED clientVars, WorkType', server' = server \/ server # "running"
    PROVE  OtherStep
  <1>1. UNCHANGED <<pc, element, env, kind, tries>>
    BY DEF clientVars
  <1>2. ClientType' /\ \A d \in Consumer : Same(d)
    BY <1>1 DEF IInv, TypeInv, ClientType, Same
  <1>3. ServerTasks'
    BY <1>1 DEF IInv, ServerTasks
  <1>. QED
    BY <1>2, <1>3 DEF OtherStep

LEMMA SentTo ==
    ASSUME NEW r \in Request, RequestOK(r), Answered(r) \/ Unanswered(r), UNCHANGED runVars
    PROVE  StoreStep
  BY DEF StoreStep, Sends

LEMMA LimitType ==
    ASSUME TypeInv
    PROVE  NoLimit \in Nat /\ Cardinality(published) \in Nat
  <1>1. PICK n \in Nat : n = Cardinality(published)
    BY FS_CardinalityType DEF TypeInv
  <1>2. BatchSize \in Nat
    BY RedisAssumption
  <1>3. BatchSize * (n + 2) \in Nat
    BY <1>2
  <1>. QED
    BY <1>1, <1>3 DEF NoLimit

LEMMA StartBulkStep ==
    ASSUME IInv, NEW t \in Tool, NEW o \in {"recover", "republish"}, NEW n \in Nat, StartBulk(t, o, n)
    PROVE  OtherStep
  <1>1. StoreStep
    BY NothingSent DEF IInv, StartBulk, workOnly
  <1>2. WorkType'
    BY DEF IInv, TypeInv, WorkType, StartBulk, workOnly, Worker
  <1>. QED
    BY <1>1, <1>2, Quiet DEF StartBulk, workOnly, serverVars

LEMMA ClearStageStep ==
    ASSUME IInv, NEW t \in Tool, NEW s \in Stage, ClearStage(t, s)
    PROVE  OtherStep
  <1>1. ClearRequest(s) \in Request /\ RequestOK(ClearRequest(s))
    BY DEF ClearRequest, Request, RequestOK
  <1>2. StoreStep
    BY <1>1, SentTo DEF ClearStage, workOnly
  <1>3. WorkType'
    BY DEF IInv, TypeInv, WorkType, ClearStage, workVars, workOnly
  <1>. QED
    BY <1>2, <1>3, Quiet DEF ClearStage, workOnly, serverVars

LEMMA BulkBatchStep ==
    ASSUME IInv, NEW w \in Worker, BulkBatch(w)
    PROVE  OtherStep
  <1> DEFINE batch == IF rest[w] < BatchSize THEN rest[w] ELSE BatchSize
             size == Len(list[Source(op[w])])
             count == IF size < batch THEN size ELSE batch
  <1>0. TypeInv /\ rest[w] \in Nat /\ BatchSize \in Nat
    BY RedisAssumption DEF IInv, TypeInv
  <1>1. /\ \/ Answered(BulkRequest(op[w], batch)) /\ rest' = [rest EXCEPT ![w] = IF count < batch THEN 0 ELSE @ - count]
           \/ Unanswered(BulkRequest(op[w], batch)) /\ rest' = [rest EXCEPT ![w] = 0]
        /\ UNCHANGED <<op, workOnly>> /\ op[w] \in {"recover", "republish"}
    BY DEF BulkBatch
  <1>2. size \in Nat
    <2>1. PICK s \in Stage : s = Source(op[w])
      BY DEF Source, Stage
    <2>2. list[s] \in List
      BY <1>0 DEF TypeInv
    <2>. QED
      BY <2>1, <2>2, LenProperties DEF List
  <1>3. batch \in Nat /\ batch <= rest[w]
    BY <1>0
  <1>4. BulkRequest(op[w], batch) \in Request /\ RequestOK(BulkRequest(op[w], batch))
    BY <1>1, <1>3 DEF BulkRequest, Request, RequestOK
  <1>5. StoreStep
    BY <1>1, <1>4, SentTo DEF workOnly
  <1>6. count \in Nat /\ count <= rest[w]
    BY <1>0, <1>2, <1>3
  <1>7. WorkType'
    <2> HIDE DEF count, batch
    <2>1. rest[w] - count \in Nat
      BY <1>0, <1>6
    <2>2. PICK n \in Nat : rest' = [rest EXCEPT ![w] = n]
      <3>1. \/ rest' = [rest EXCEPT ![w] = 0]
            \/ rest' = [rest EXCEPT ![w] = rest[w] - count]
        BY <1>1
      <3>. QED
        BY <2>1, <3>1
    <2>3. rest' \in [Worker -> Nat]
      BY <1>0, <2>2 DEF TypeInv
    <2>. QED
      BY <1>0, <1>1, <2>3 DEF TypeInv, WorkType, workOnly
  <1>. QED
    BY <1>1, <1>5, <1>7, Quiet DEF workOnly, serverVars

LEMMA EndBulkStep ==
    ASSUME IInv, NEW w \in Worker, EndBulk(w)
    PROVE  OtherStep
  <1>1. StoreStep
    BY NothingSent DEF IInv, EndBulk, workOnly
  <1>2. WorkType'
    BY DEF IInv, TypeInv, WorkType, EndBulk, workOnly
  <1>. QED
    BY <1>1, <1>2, Quiet DEF EndBulk, workOnly, serverVars

LEMMA RunLateStep ==
    ASSUME IInv, NEW i \in DOMAIN late, RunLate(i)
    PROVE  OtherStep
  <1>1. StoreStep
    BY DEF RunLate, StoreStep, RunsLate
  <1>2. WorkType'
    BY DEF IInv, TypeInv, WorkType, RunLate, workVars, boundVars
  <1>. QED
    BY <1>1, <1>2, Quiet DEF RunLate, serverVars

LEMMA PublishStep ==
    ASSUME IInv, NEW m \in Msg, Publish(m)
    PROVE  OtherStep
  <1>1. StoreStep
    BY PublishIs DEF Publish, StoreStep
  <1>2. WorkType'
    BY DEF IInv, TypeInv, WorkType, Publish, workVars, boundVars
  <1>. QED
    BY <1>1, <1>2, Quiet DEF Publish, serverVars

LEMMA ServerStartStep ==
    ASSUME IInv, ServerStart \/ ServerOpen \/ Cancel
    PROVE  OtherStep
  <1>0. NoLimit \in Nat
    BY LimitType DEF IInv
  <1>1. StoreStep
    BY NothingSent DEF IInv, ServerStart, ServerOpen, Cancel, lifeOnly
  <1>2. WorkType'
    BY <1>0 DEF IInv, TypeInv, WorkType, ServerStart, ServerOpen, Cancel, lifeOnly, workVars, Worker
  <1>. QED
    BY <1>1, <1>2, Quiet DEF ServerStart, ServerOpen, Cancel, serverVars

LEMMA ServerStopStep ==
    ASSUME IInv, ServerStop
    PROVE  OtherStep
  <1>1. StoreStep
    BY NothingSent DEF IInv, ServerStop, lifeOnly
  <1>2. UNCHANGED <<pc, element, env, kind, tries>>
    BY DEF ServerStop, clientVars
  <1>3. ClientType' /\ WorkType' /\ \A d \in Consumer : Same(d)
    BY <1>2 DEF IInv, TypeInv, ClientType, WorkType, Same, ServerStop, workVars
  <1>4. ServerTasks'
    BY <1>2 DEF ServerStop, ServerTasks
  <1>. QED
    BY <1>1, <1>3, <1>4 DEF OtherStep

(* A consumer that is stopped has nothing. *)
LEMMA StoppedIsBlank ==
    ASSUME IInv, NEW c \in Consumer, pc[c] = "stopped"
    PROVE  element[c] = NoElement /\ kind[c] = "none"
  BY DEF IInv, ConsumerInv, ConsumerOK, Holding, Delivered, Settling

LEMMA SpawnStep ==
    ASSUME IInv, ServerSpawn
    PROVE  OtherStep
  <1>1. StoreStep
    BY NothingSent DEF IInv, ServerSpawn, lifeOnly
  <1>2. ClientType' /\ WorkType' /\ ServerTasks'
    BY DEF IInv, TypeInv, ClientType, WorkType, ServerTasks, ServerSpawn, workVars, Pc
  <1>3. ASSUME NEW d \in Consumer PROVE Same(d) \/ Blank(d)
    <2>1. CASE d \in ServerConsumer
      <3>1. element[d] = NoElement /\ kind[d] = "none"
        BY <2>1, StoppedIsBlank DEF ServerSpawn, IInv, ServerTasks
      <3>2. pc'[d] = "idle" /\ element' = element /\ kind' = kind
        BY <2>1 DEF ServerSpawn
      <3>. QED
        BY <3>1, <3>2 DEF Blank, Holding, Delivered, Settling
    <2>2. CASE d \notin ServerConsumer
      BY <2>2 DEF ServerSpawn, Same
    <2>. QED
      BY <2>1, <2>2
  <1>. QED
    BY <1>1, <1>2, <1>3 DEF OtherStep

LEMMA CliStartStep ==
    ASSUME IInv, NEW c \in CliConsumer, CliStart(c)
    PROVE  OtherStep
  <1>0. c \in Consumer /\ c \notin ServerConsumer
    BY RedisAssumption DEF Consumer
  <1>1. StoreStep
    BY NothingSent DEF IInv, CliStart, lifeOnly
  <1>2. ClientType' /\ WorkType'
    BY DEF IInv, TypeInv, ClientType, WorkType, CliStart, Goto, workVars, Pc
  <1>3. ServerTasks'
    BY <1>0 DEF IInv, TypeInv, ServerTasks, CliStart, Goto, serverVars, Consumer
  <1>4. ASSUME NEW d \in Consumer PROVE Same(d) \/ Blank(d)
    <2>1. CASE d = c
      <3>1. element[c] = NoElement /\ kind[c] = "none"
        BY <1>0, StoppedIsBlank DEF CliStart
      <3>2. pc'[c] = "idle" /\ element' = element /\ kind' = kind
        BY <1>0 DEF CliStart, Goto, IInv, TypeInv
      <3>. QED
        BY <2>1, <3>1, <3>2 DEF Blank, Holding, Delivered, Settling
    <2>2. CASE d # c
      BY <2>2 DEF CliStart, Goto, Same, IInv, TypeInv
    <2>. QED
      BY <2>1, <2>2
  <1>. QED
    BY <1>1, <1>2, <1>3, <1>4 DEF OtherStep

LEMMA Loss ==
    ASSUME IInv, NEW C, LoseMemory(C)
    PROVE  ClientType' /\ \A d \in Consumer : Same(d) \/ Blank(d)
  <1>1. ClientType'
    BY DEF IInv, TypeInv, ClientType, LoseMemory, Pc
  <1>2. ASSUME NEW d \in Consumer PROVE Same(d) \/ Blank(d)
    <2>1. CASE d \in C
      BY <2>1 DEF LoseMemory, Blank, Holding, Delivered, Settling
    <2>2. CASE d \notin C
      BY <2>2 DEF LoseMemory, Same
    <2>. QED
      BY <2>1, <2>2
  <1>. QED
    BY <1>1, <1>2

LEMMA CrashStep ==
    ASSUME IInv, ServerCrash \/ \E c \in CliConsumer : CliCrash(c)
    PROVE  OtherStep
  <1>1. StoreStep
    BY NothingSent DEF IInv, ServerCrash, CliCrash, lifeOnly
  <1>2. WorkType'
    <2>1. op \in [Worker -> {"none", "open", "recover", "republish"}] /\ rest \in [Worker -> Nat]
          /\ crashes \in Nat
      BY DEF IInv, TypeInv
    <2>2. CASE ServerCrash
      <3>1. /\ op' = [op EXCEPT ![Server] = "none"] /\ rest' = [rest EXCEPT ![Server] = 0]
            /\ crashes' = crashes + 1
        BY <2>2 DEF ServerCrash
      <3>2. op' \in [Worker -> {"none", "open", "recover", "republish"}]
        BY <2>1, <3>1
      <3>3. rest' \in [Worker -> Nat]
        BY <2>1, <3>1
      <3>4. crashes' \in Nat
        BY <2>1, <3>1
      <3>. QED
        BY <3>2, <3>3, <3>4 DEF WorkType
    <2>3. CASE \E c \in CliConsumer : CliCrash(c)
      BY <2>1, <2>3 DEF CliCrash, WorkType, workVars
    <2>. QED
      BY <2>2, <2>3
  <1>3. ClientType' /\ \A d \in Consumer : Same(d) \/ Blank(d)
    BY Loss DEF ServerCrash, CliCrash
  <1>4. ServerTasks'
    BY RedisAssumption DEF IInv, TypeInv, ServerTasks, ServerCrash, CliCrash, LoseMemory, serverVars, Consumer
  <1>. QED
    BY <1>1, <1>2, <1>3, <1>4 DEF OtherStep

(* The actions, as the cases of the proofs below. *)
LEMMA NextCases ==
    ASSUME IInv, Next
    PROVE  OtherStep \/ \E c \in Consumer : Step(c)
  <1>1. ASSUME NEW t \in Tool, StartBulk(t, "recover", NoLimit) PROVE OtherStep
    BY <1>1, LimitType, StartBulkStep DEF IInv
  <1>2. ASSUME NEW t \in Tool, NEW n \in 0..Cardinality(published), StartBulk(t, "republish", n)
        PROVE  OtherStep
    <2>1. n \in Nat
      BY LimitType DEF IInv
    <2>. QED
      BY <1>2, <2>1, StartBulkStep
  <1>. QED
    BY <1>1, <1>2, PublishStep, RunLateStep, ClearStageStep, BulkBatchStep, EndBulkStep,
       ServerStartStep, ServerStopStep, SpawnStep, CliStartStep, CrashStep DEF Next

Core == TypeInv /\ LateInv /\ ConsumerInv /\ ServerTasks /\ ListInv

LEMMA CoreStep ==
    ASSUME IInv, Next
    PROVE  Core' /\ StoreStep /\ Grows
  <1>0. TypeInv /\ LateInv /\ ListInv /\ ConsumerInv /\ ServerTasks
    BY DEF IInv
  <1>1. ASSUME StoreStep, ClientType', WorkType', ServerTasks',
               \A d \in Consumer : Same(d) \/ ConsumerOK(d)'
        PROVE  Core' /\ StoreStep /\ Grows
    <2>1. StoreInv' /\ Grows
      BY <1>0, <1>1, StepKeepsStore
    <2>2. ASSUME NEW d \in Consumer PROVE ConsumerOK(d)'
      <3>1. counted' \in [Msg -> Nat]
        BY <2>1 DEF StoreInv
      <3>. QED
        BY <1>0, <1>1, <2>1, <3>1, SameStaysOK DEF ConsumerInv
    <2>3. ConsumerInv'
      BY <2>2 DEF ConsumerInv
    <2>4. TypeInv'
      BY <1>1, <2>1 DEF StoreInv, LineType, ClientType, WorkType, TypeInv
    <2>. QED
      BY <1>1, <2>1, <2>3, <2>4 DEF StoreInv, Core
  <1>2. CASE OtherStep
    <2>1. \A d \in Consumer : Same(d) \/ ConsumerOK(d)'
      BY <1>2, EmptyIsOK DEF OtherStep, Blank
    <2>. QED
      BY <1>1, <1>2, <2>1 DEF OtherStep
  <1>3. ASSUME NEW c \in Consumer, Step(c) PROVE Core' /\ StoreStep /\ Grows
    <2>1. ClientStep(c)
      BY <1>3, ConsumerStep
    <2>2. WorkType'
      BY <1>0, <2>1 DEF ClientStep, workVars, TypeInv, WorkType
    <2>3. ServerTasks'
      <3> SUFFICES ASSUME server' # "running", NEW d \in ServerConsumer PROVE pc'[d] = "stopped"
        BY DEF ServerTasks
      <3>1. pc[d] = "stopped" /\ d \in Consumer
        BY <1>0, <2>1 DEF ClientStep, ServerTasks, Consumer
      <3>2. d # c
        BY <2>1, <3>1 DEF ClientStep
      <3>. QED
        BY <2>1, <3>1, <3>2 DEF ClientStep, Same
    <2>. QED
      BY <1>1, <2>1, <2>2, <2>3 DEF ClientStep
  <1>. QED
    BY <1>2, <1>3, NextCases

-----------------------------------------------------------------------------
(* The effects, as what they do to the messages of the stages. *)

(* The next messages of the stages. *)
Becomes(P, Q, F) ==
    IdsOf(list'["pending"]) = P /\ IdsOf(list'["inProgress"]) = Q /\ IdsOf(list'["failed"]) = F

LEMMA ClaimSets ==
    ASSUME LineType, ListInv, NEW e \in CommandEnvelope, ClaimEffect(e)
    PROVE  /\ e.id \in In("pending")
           /\ Becomes(In("pending") \ {e.id}, In("inProgress") \cup {e.id}, In("failed"))
           /\ ToSet(list'["inProgress"]) = ToSet(list["inProgress"]) \cup {e}
  <1>1. PICK a \in List : /\ list["pending"] = a \o <<e>>
                          /\ list' = [list EXCEPT !["pending"] = a, !["inProgress"] = <<e>> \o @]
    BY DEF ClaimEffect
  <1>2. PICK p \in List, q \in List, f \in List :
           p = list["pending"] /\ q = list["inProgress"] /\ f = list["failed"]
    BY DEF LineType, Stage
  <1>3. PICK r : r = <<e>> \o q
    OBVIOUS
  <1>4. /\ IdsOf(r) = {e.id} \cup IdsOf(q) /\ ToSet(r) = {e} \cup ToSet(q)
    BY <1>3, Single, Concat
  <1>5. /\ IdsOf(p) = IdsOf(a) \cup {e.id}
        /\ NoRepeat(p) <=> NoRepeat(a) /\ e.id \notin IdsOf(a)
    BY <1>1, <1>2, Single, Concat
  <1>6. /\ list'["pending"] = a /\ list'["inProgress"] = r /\ list'["failed"] = f
    BY <1>1, <1>2, <1>3 DEF LineType, Stage
  <1>7. NoRepeat(p)
    BY <1>2 DEF ListInv, Distinct
  <1>. QED
    BY <1>2, <1>4, <1>5, <1>6, <1>7 DEF In, Becomes

(* The messages without the one that is dropped. *)
LEMMA DroppedSets ==
    ASSUME LineType, ListInv, NEW e \in CommandEnvelope, NEW t, Drops(list["inProgress"], e, t)
    PROVE  /\ e.id \in In("inProgress") /\ IdsOf(t) = In("inProgress") \ {e.id}
           /\ ToSet(t) = ToSet(list["inProgress"]) \ {e}
  <1>1. PICK q \in List : q = list["inProgress"]
    BY DEF LineType, Stage
  <1>2. /\ t \in List /\ IdsOf(q) = IdsOf(t) \cup {e.id} /\ ToSet(q) = ToSet(t) \cup {e}
        /\ NoRepeat(q) => NoRepeat(t) /\ e.id \notin IdsOf(t)
    BY <1>1, Without
  <1>3. NoRepeat(q)
    BY <1>1 DEF ListInv, Distinct
  <1>4. e \notin ToSet(t)
    BY <1>2, <1>3, Members
  <1>. QED
    BY <1>1, <1>2, <1>3, <1>4 DEF In

LEMMA RemoveSets ==
    ASSUME LineType, ListInv, NEW e \in CommandEnvelope, RemoveEffect(e)
    PROVE  /\ e.id \in In("inProgress")
           /\ Becomes(In("pending"), In("inProgress") \ {e.id}, In("failed"))
           /\ ToSet(list'["inProgress"]) = ToSet(list["inProgress"]) \ {e}
  <1>1. PICK t \in List : /\ Drops(list["inProgress"], e, t)
                          /\ list' = [list EXCEPT !["inProgress"] = t]
    BY DEF RemoveEffect
  <1>2. /\ e.id \in In("inProgress") /\ IdsOf(t) = In("inProgress") \ {e.id}
        /\ ToSet(t) = ToSet(list["inProgress"]) \ {e}
    BY <1>1, DroppedSets
  <1>3. list'["pending"] = list["pending"] /\ list'["inProgress"] = t /\ list'["failed"] = list["failed"]
    BY <1>1 DEF LineType, Stage
  <1>. QED
    BY <1>2, <1>3 DEF In, Becomes

LEMMA MoveSets ==
    ASSUME LineType, ListInv, NEW e \in CommandEnvelope, NEW v \in CommandEnvelope, v.id = e.id,
           NEW to \in {"pending", "failed"}, MoveEffect(e, to, v)
    PROVE  /\ e.id \in In("inProgress")
           /\ \/ /\ to = "pending"
                 /\ Becomes(In("pending") \cup {e.id}, In("inProgress") \ {e.id}, In("failed"))
              \/ /\ to = "failed"
                 /\ Becomes(In("pending"), In("inProgress") \ {e.id}, In("failed") \cup {e.id})
           /\ ToSet(list'["inProgress"]) = ToSet(list["inProgress"]) \ {e}
  <1>1. PICK t \in List : /\ Drops(list["inProgress"], e, t)
                          /\ list' = [list EXCEPT !["inProgress"] = t, ![to] = <<v>> \o @]
    BY DEF MoveEffect
  <1>2. /\ e.id \in In("inProgress") /\ IdsOf(t) = In("inProgress") \ {e.id}
        /\ ToSet(t) = ToSet(list["inProgress"]) \ {e}
    BY <1>1, DroppedSets
  <1>3. PICK p \in List, f \in List : p = list["pending"] /\ f = list["failed"]
    BY DEF LineType, Stage
  <1>4. PICK r, s : r = <<v>> \o p /\ s = <<v>> \o f
    OBVIOUS
  <1>5. IdsOf(r) = {e.id} \cup IdsOf(p) /\ IdsOf(s) = {e.id} \cup IdsOf(f)
    BY <1>4, Single, Concat
  <1>6. CASE to = "pending"
    <2>1. list'["pending"] = r /\ list'["inProgress"] = t /\ list'["failed"] = f
      BY <1>1, <1>3, <1>4, <1>6 DEF LineType, Stage
    <2>. QED
      BY <1>2, <1>3, <1>5, <1>6, <2>1 DEF In, Becomes
  <1>7. CASE to = "failed"
    <2>1. list'["pending"] = p /\ list'["inProgress"] = t /\ list'["failed"] = s
      BY <1>1, <1>3, <1>4, <1>7 DEF LineType, Stage
    <2>. QED
      BY <1>2, <1>3, <1>5, <1>7, <2>1 DEF In, Becomes
  <1>. QED
    BY <1>6, <1>7

LEMMA RecoverSets ==
    ASSUME LineType, ListInv, RecoverEffect
    PROVE  \E S \in SUBSET In("inProgress") :
              /\ Becomes(In("pending") \cup S, In("inProgress") \ S, In("failed"))
              /\ ToSet(list'["inProgress"]) \subseteq ToSet(list["inProgress"])
              /\ recovered' \/ S = {}
  <1>1. PICK x \in List, y \in List : /\ list["inProgress"] = x \o y
                                      /\ list' = Recovered(list, x, y)
                                      /\ recovered' \/ x = <<>>
    BY DEF RecoverEffect
  <1>2. PICK p \in List, q \in List, f \in List :
           p = list["pending"] /\ q = list["inProgress"] /\ f = list["failed"]
    BY DEF LineType, Stage
  <1>3. PICK r \in List : r = p \o x
    BY Concat
  <1>4. IdsOf(r) = IdsOf(p) \cup IdsOf(x)
    BY <1>3, Concat
  <1>5. /\ IdsOf(q) = IdsOf(x) \cup IdsOf(y) /\ ToSet(q) = ToSet(x) \cup ToSet(y)
        /\ NoRepeat(q) <=> NoRepeat(x) /\ NoRepeat(y) /\ IdsOf(x) \cap IdsOf(y) = {}
    BY <1>1, <1>2, Concat
  <1>6. list'["pending"] = r /\ list'["inProgress"] = y /\ list'["failed"] = f
    BY <1>1, <1>2, <1>3 DEF LineType, Stage, Recovered
  <1>7. NoRepeat(q)
    BY <1>2 DEF ListInv, Distinct
  <1>8. x = <<>> => IdsOf(x) = {}
    BY Empty
  <1>9. /\ IdsOf(x) \in SUBSET In("inProgress")
        /\ Becomes(In("pending") \cup IdsOf(x), In("inProgress") \ IdsOf(x), In("failed"))
        /\ ToSet(list'["inProgress"]) \subseteq ToSet(list["inProgress"])
    BY <1>2, <1>4, <1>5, <1>6, <1>7 DEF In, Becomes
  <1>. QED
    BY <1>1, <1>8, <1>9

LEMMA RepublishSets ==
    ASSUME LineType, ListInv, RepublishEffect
    PROVE  \E S \in SUBSET In("failed") :
              /\ Becomes(In("pending") \cup S, In("inProgress"), In("failed") \ S)
              /\ list'["inProgress"] = list["inProgress"]
  <1>1. PICK x \in List, y \in List : list["failed"] = y \o x /\ list' = Republished(list, x, y)
    BY DEF RepublishEffect
  <1>2. PICK p \in List, q \in List, f \in List :
           p = list["pending"] /\ q = list["inProgress"] /\ f = list["failed"]
    BY DEF LineType, Stage
  <1>3. PICK r \in List : r = x \o p
    BY Concat
  <1>4. IdsOf(r) = IdsOf(x) \cup IdsOf(p)
    BY <1>3, Concat
  <1>5. /\ IdsOf(f) = IdsOf(y) \cup IdsOf(x)
        /\ NoRepeat(f) <=> NoRepeat(y) /\ NoRepeat(x) /\ IdsOf(y) \cap IdsOf(x) = {}
    BY <1>1, <1>2, Concat
  <1>6. list'["pending"] = r /\ list'["inProgress"] = q /\ list'["failed"] = y
    BY <1>1, <1>2, <1>3 DEF LineType, Stage, Republished
  <1>7. NoRepeat(f)
    BY <1>2 DEF ListInv, Distinct
  <1>8. /\ IdsOf(x) \in SUBSET In("failed")
        /\ Becomes(In("pending") \cup IdsOf(x), In("inProgress"), In("failed") \ IdsOf(x))
        /\ list'["inProgress"] = list["inProgress"]
    BY <1>2, <1>4, <1>5, <1>6, <1>7 DEF In, Becomes
  <1>. QED
    BY <1>8

LEMMA ClearSets ==
    ASSUME LineType, NEW s \in Stage, RunClear(s)
    PROVE  /\ \/ s = "pending" /\ Becomes({}, In("inProgress"), In("failed"))
              \/ s = "inProgress" /\ Becomes(In("pending"), {}, In("failed"))
              \/ s = "failed" /\ Becomes(In("pending"), In("inProgress"), {})
           /\ ToSet(list'["inProgress"]) \subseteq ToSet(list["inProgress"])
  <1>1. PICK z \in List : z = <<>> /\ IdsOf(z) = {} /\ ToSet(z) = {}
    BY Empty
  <1>2. \A x \in Stage : list'[x] = IF x = s THEN z ELSE list[x]
    BY <1>1 DEF RunClear, LineType
  <1>3. s = "pending" \/ s = "inProgress" \/ s = "failed"
    BY DEF Stage
  <1>. QED
    BY <1>1, <1>2, <1>3 DEF In, Becomes, Stage

LEMMA PublishSets ==
    ASSUME LineType, NEW m \in Msg, PublishEffect(m)
    PROVE  /\ m \notin published
           /\ Becomes(In("pending") \cup {m}, In("inProgress"), In("failed"))
           /\ list'["inProgress"] = list["inProgress"]
  <1>1. PICK e \in CommandEnvelope : e = NewEnvelope(m) /\ e.id = m
    <2>1. NewEnvelope(m) \in CommandEnvelope /\ NewEnvelope(m).id = m
      BY DEF NewEnvelope, CommandEnvelope
    <2>. QED
      BY <2>1
  <1>2. PICK p \in List : p = list["pending"]
    BY DEF LineType, Stage
  <1>3. PICK r : r = <<e>> \o p
    OBVIOUS
  <1>4. IdsOf(r) = {e.id} \cup IdsOf(p)
    BY <1>3, Single, Concat
  <1>5. /\ list'["pending"] = r /\ list'["inProgress"] = list["inProgress"]
        /\ list'["failed"] = list["failed"]
    BY <1>1, <1>2, <1>3 DEF LineType, Stage, PublishEffect
  <1>. QED
    BY <1>1, <1>2, <1>4, <1>5 DEF In, Becomes, PublishEffect

-----------------------------------------------------------------------------
(* Who holds what is in progress. *)

(* Nothing new is in progress; what is new in pending or failed is a       *)
(* publication or comes from a recovery.                                   *)
Tame ==
    /\ ToSet(list'["inProgress"]) \subseteq ToSet(list["inProgress"])
    /\ recovered => recovered'
    /\ \/ recovered'
       \/ \A m \in IdsOf(list'["pending"]) \cup IdsOf(list'["failed"]) :
             m \in In("pending") \cup In("failed") \/ m \notin published

LEMMA TameEffects ==
    ASSUME LineType, ListInv,
           \/ UNCHANGED redisVars
           \/ RecoverEffect
           \/ RepublishEffect
           \/ \E s \in Stage : RunClear(s)
           \/ \E m \in Msg : PublishEffect(m)
    PROVE  Tame
  <1>1. CASE UNCHANGED redisVars
    BY <1>1 DEF redisVars, Tame, In
  <1>2. CASE RecoverEffect
    <2>1. recovered => recovered'
      BY <1>2 DEF RecoverEffect
    <2>. QED
      BY <1>2, <2>1, RecoverSets DEF Tame, Becomes
  <1>3. CASE RepublishEffect
    <2>1. recovered' = recovered
      BY <1>3 DEF RepublishEffect
    <2>. QED
      BY <1>3, <2>1, RepublishSets DEF Tame, Becomes
  <1>4. ASSUME NEW s \in Stage, RunClear(s) PROVE Tame
    <2>1. recovered' = recovered
      BY <1>4 DEF RunClear
    <2>. QED
      BY <1>4, <2>1, ClearSets DEF Tame, Becomes
  <1>5. ASSUME NEW m \in Msg, PublishEffect(m) PROVE Tame
    <2>1. recovered' = recovered
      BY <1>5 DEF PublishEffect
    <2>. QED
      BY <1>5, <2>1, PublishSets DEF Tame, Becomes
  <1>. QED
    BY <1>1, <1>2, <1>3, <1>4, <1>5

Holds == InProgressIsHeld /\ OneHolder

LEMMA DisturbedHolds ==
    ASSUME late' # <<>> \/ crashes' # 0
    PROVE  Holds'
  BY DEF Holds, InProgressIsHeld, OneHolder, Undisturbed

(* The consumers keep what they hold. *)
LEMMA TameHolds ==
    ASSUME IInv, Tame, UNCHANGED <<element, kind, succeeded, late, crashes>>,
           \A d \in Consumer : pc'[d] \in Holding <=> pc[d] \in Holding
    PROVE  Holds'
  <1>0. InProgressIsHeld /\ OneHolder /\ ConsumerInv /\ succeeded \subseteq published
    BY DEF IInv, TypeInv
  <1>1. InProgressIsHeld'
    BY <1>0 DEF InProgressIsHeld, Tame
  <1>2. ASSUME Undisturbed' PROVE Undisturbed /\ ~recovered'
    BY <1>2 DEF Undisturbed, Tame
  <1>3. ASSUME Undisturbed',
               NEW m \in IdsOf(list'["pending"]) \cup IdsOf(list'["failed"])
        PROVE  m \in In("pending") \cup In("failed") \/ m \notin published
    BY <1>2, <1>3 DEF Tame
  <1>4. ASSUME Undisturbed', NEW c \in Consumer, pc'[c] \in Holding
        PROVE  /\ element'[c].id \notin IdsOf(list'["pending"]) \cup IdsOf(list'["failed"])
               /\ element'[c].id \in succeeded' => kind'[c] = "succeeded"
               /\ \A b \in Consumer : b # c /\ pc'[b] \in Holding => element'[b].id # element'[c].id
    <2>1. pc[c] \in Holding /\ element[c].id \in published
      BY <1>0, <1>4 DEF ConsumerInv, ConsumerOK
    <2>2. element[c].id \notin In("pending") \cup In("failed")
      BY <1>0, <1>2, <1>4, <2>1 DEF OneHolder
    <2>3. element'[c].id \notin IdsOf(list'["pending"]) \cup IdsOf(list'["failed"])
      BY <1>3, <1>4, <2>1, <2>2
    <2>. QED
      BY <1>0, <1>2, <1>4, <2>1, <2>3 DEF OneHolder
  <1>5. ASSUME Undisturbed'
        PROVE  succeeded' \cap (IdsOf(list'["pending"]) \cup IdsOf(list'["failed"])) = {}
    <2>1. succeeded \cap (In("pending") \cup In("failed")) = {}
      BY <1>0, <1>2, <1>5 DEF OneHolder
    <2>. QED
      BY <1>0, <1>3, <1>5, <2>1
  <1>6. OneHolder'
    BY <1>4, <1>5 DEF OneHolder, In
  <1>. QED
    BY <1>1, <1>6 DEF Holds

(* A claim gives the message its one holder. *)
LEMMA TakesHolds ==
    ASSUME IInv, NEW c \in Consumer, pc[c] \in {"idle", "poll"}, NEW e \in CommandEnvelope, Takes(c, e),
           UNCHANGED <<succeeded, crashes>>
    PROVE  Holds'
  <1>0. /\ InProgressIsHeld /\ OneHolder /\ ConsumerInv /\ ListInv
        /\ element \in [Consumer -> CommandEnvelope \cup {NoElement}]
        /\ pc \in [Consumer -> Pc] /\ LineType
    BY DEF IInv, TypeInv, LineType
  <1>1. element[c] = NoElement /\ pc[c] \notin Holding
    BY <1>0 DEF ConsumerInv, ConsumerOK, Holding, Delivered, Settling
  <1>2. /\ e.id \in In("pending")
        /\ Becomes(In("pending") \ {e.id}, In("inProgress") \cup {e.id}, In("failed"))
        /\ ToSet(list'["inProgress"]) = ToSet(list["inProgress"]) \cup {e}
    BY <1>0, ClaimSets DEF Takes
  <1>3. /\ \A d \in Consumer : element'[d] = IF d = c THEN e ELSE element[d]
        /\ \A d \in Consumer \ {c} : pc'[d] = pc[d]
        /\ UNCHANGED <<late, kind, recovered>>
    BY <1>0 DEF Takes, Goto, ClaimEffect
  <1>4. InProgressIsHeld'
    <2> SUFFICES ASSUME late' = <<>>, crashes' = 0, NEW x \in ToSet(list'["inProgress"])
                 PROVE  \E d \in Consumer : element'[d] = x
      BY DEF InProgressIsHeld
    <2>1. CASE x = e
      BY <1>3, <2>1
    <2>2. CASE x \in ToSet(list["inProgress"])
      <3>1. PICK d \in Consumer : element[d] = x
        BY <1>0, <1>3, <2>2 DEF InProgressIsHeld
      <3>2. x \in CommandEnvelope
        BY <1>0, <2>2, Members DEF LineType, Stage
      <3>3. d # c
        BY <1>1, <3>1, <3>2, RedisAssumption
      <3>. QED
        BY <1>3, <3>1, <3>3
    <2>. QED
      BY <1>2, <2>1, <2>2
  <1>5. ASSUME Undisturbed' PROVE Undisturbed
    BY <1>3, <1>5 DEF Undisturbed
  <1>6. ASSUME Undisturbed
        PROVE  /\ e.id \notin In("failed") /\ e.id \notin succeeded
               /\ \A d \in Consumer : pc[d] \in Holding => element[d].id # e.id
    BY <1>0, <1>2, <1>6 DEF ListInv, Distinct, OneHolder
  <1>7. ASSUME Undisturbed', NEW d \in Consumer, pc'[d] \in Holding
        PROVE  /\ element'[d].id \notin IdsOf(list'["pending"]) \cup IdsOf(list'["failed"])
               /\ element'[d].id \in succeeded' => kind'[d] = "succeeded"
               /\ \A b \in Consumer : b # d /\ pc'[b] \in Holding => element'[b].id # element'[d].id
    <2>0. Undisturbed
      BY <1>5, <1>7
    <2>1. CASE d = c
      BY <1>2, <1>3, <1>6, <2>0, <2>1 DEF Becomes
    <2>2. CASE d # c
      <3>1. pc[d] \in Holding /\ element'[d] = element[d]
        BY <1>3, <1>7, <2>2
      <3>. QED
        BY <1>0, <1>2, <1>3, <1>6, <2>0, <2>2, <3>1 DEF Becomes, OneHolder
    <2>. QED
      BY <2>1, <2>2
  <1>8. ASSUME Undisturbed'
        PROVE  succeeded' \cap (IdsOf(list'["pending"]) \cup IdsOf(list'["failed"])) = {}
    BY <1>0, <1>2, <1>5, <1>8 DEF OneHolder, Becomes
  <1>9. OneHolder'
    BY <1>7, <1>8 DEF OneHolder, In
  <1>. QED
    BY <1>4, <1>9 DEF Holds

(* An attempt ends: only its holder may have made the message succeed. *)
LEMMA AttemptedHolds ==
    ASSUME IInv, NEW c \in Consumer, pc[c] \in {"begin", "running"}, NEW k \in AttemptKind, Attempted(c, k)
    PROVE  Holds'
  <1>0. /\ InProgressIsHeld /\ OneHolder /\ ConsumerInv
        /\ kind \in [Consumer -> AttemptKind \cup {"none"}] /\ pc \in [Consumer -> Pc]
    BY DEF IInv, TypeInv
  <1>1. UNCHANGED <<list, element, late, crashes, recovered>>
    BY DEF Attempted, redisVars, clientOnly, boundVars
  <1>2. pc[c] \in Holding /\ kind[c] = "none" /\ env[c].id = element[c].id
    BY <1>0 DEF ConsumerInv, ConsumerOK, Holding, Delivered, Settling
  <1>3. InProgressIsHeld'
    BY <1>0, <1>1 DEF InProgressIsHeld
  <1>4. /\ \A d \in Consumer : pc'[d] \in Holding <=> pc[d] \in Holding
        /\ \A d \in Consumer : kind'[d] = IF d = c THEN k ELSE kind[d]
    BY <1>0, <1>2 DEF Attempted, Goto, Holding, Delivered, Settling
  <1>5. succeeded' = IF k = "succeeded" THEN succeeded \cup {element[c].id} ELSE succeeded
    BY <1>2 DEF Attempted
  <1>6. OneHolder'
    <2> SUFFICES ASSUME Undisturbed'
                 PROVE  /\ \A d \in Consumer : pc'[d] \in Holding =>
                              /\ element'[d].id \notin (In("pending") \cup In("failed"))'
                              /\ element'[d].id \in succeeded' => kind'[d] = "succeeded"
                              /\ \A b \in Consumer : b # d /\ pc'[b] \in Holding => element'[b].id # element'[d].id
                        /\ succeeded' \cap (In("pending") \cup In("failed"))' = {}
      BY DEF OneHolder
    <2>1. Undisturbed
      BY <1>1 DEF Undisturbed
    <2>2. element[c].id \notin succeeded /\ element[c].id \notin In("pending") \cup In("failed")
      BY <1>0, <1>2, <2>1 DEF OneHolder
    <2>. QED
      BY <1>0, <1>1, <1>2, <1>4, <1>5, <2>1, <2>2 DEF OneHolder, In
  <1>. QED
    BY <1>3, <1>6 DEF Holds

(* c hands back the element it holds. *)
LEMMA HandsBackHolds ==
    ASSUME IInv, NEW c \in Consumer, element[c] \in CommandEnvelope, pc[c] \in Holding,
           NEW l \in {"stopped", "idle", "poll"}, Goto(c, l), NoDelivery(c),
           UNCHANGED <<late, crashes, succeeded, recovered>>,
           \/ UNCHANGED list /\ element[c] \notin ToSet(list["inProgress"])
           \/ RemoveEffect(element[c])
           \/ /\ kind[c] # "succeeded"
              /\ \E v \in CommandEnvelope, to \in {"pending", "failed"} :
                    v.id = element[c].id /\ MoveEffect(element[c], to, v)
    PROVE  Holds'
  <1>0. /\ InProgressIsHeld /\ OneHolder /\ ConsumerInv /\ ListInv /\ LineType
        /\ element \in [Consumer -> CommandEnvelope \cup {NoElement}]
        /\ kind \in [Consumer -> AttemptKind \cup {"none"}] /\ pc \in [Consumer -> Pc]
    BY DEF IInv, TypeInv, LineType
  <1>1. PICK e \in CommandEnvelope : e = element[c]
    OBVIOUS
  <1>2. /\ ToSet(list'["inProgress"]) \subseteq ToSet(list["inProgress"]) \ {e}
        /\ \A m \in IdsOf(list'["pending"]) \cup IdsOf(list'["failed"]) :
              m \in In("pending") \cup In("failed") \/ (m = e.id /\ kind[c] # "succeeded")
    <2>1. CASE UNCHANGED list /\ e \notin ToSet(list["inProgress"])
      BY <2>1 DEF In
    <2>2. CASE RemoveEffect(e)
      BY <1>0, <2>2, RemoveSets DEF Becomes
    <2>3. ASSUME kind[c] # "succeeded", NEW v \in CommandEnvelope, NEW to \in {"pending", "failed"},
                 v.id = e.id, MoveEffect(e, to, v)
          PROVE  /\ ToSet(list'["inProgress"]) \subseteq ToSet(list["inProgress"]) \ {e}
                 /\ \A m \in IdsOf(list'["pending"]) \cup IdsOf(list'["failed"]) :
                       m \in In("pending") \cup In("failed") \/ (m = e.id /\ kind[c] # "succeeded")
      BY <1>0, <2>3, MoveSets DEF Becomes
    <2>. QED
      BY <1>1, <2>1, <2>2, <2>3
  <1>3. /\ \A d \in Consumer : element'[d] = IF d = c THEN NoElement ELSE element[d]
        /\ \A d \in Consumer : d # c => pc'[d] = pc[d] /\ kind'[d] = kind[d]
        /\ pc'[c] \notin Holding
    BY <1>0 DEF Goto, NoDelivery, Holding, Delivered, Settling
  <1>4. InProgressIsHeld'
    BY <1>0, <1>1, <1>2, <1>3 DEF InProgressIsHeld
  <1>5. ASSUME Undisturbed' PROVE Undisturbed
    BY <1>5 DEF Undisturbed
  <1>6. ASSUME Undisturbed', NEW d \in Consumer, pc'[d] \in Holding
        PROVE  /\ element'[d].id \notin IdsOf(list'["pending"]) \cup IdsOf(list'["failed"])
               /\ element'[d].id \in succeeded' => kind'[d] = "succeeded"
               /\ \A b \in Consumer : b # d /\ pc'[b] \in Holding => element'[b].id # element'[d].id
    <2>1. d # c /\ pc[d] \in Holding /\ element'[d] = element[d]
      BY <1>3, <1>6
    <2>2. element[d].id # e.id /\ element[d].id \notin In("pending") \cup In("failed")
      BY <1>0, <1>1, <1>5, <1>6, <2>1 DEF OneHolder
    <2>3. element'[d].id \notin IdsOf(list'["pending"]) \cup IdsOf(list'["failed"])
      BY <1>2, <2>1, <2>2
    <2>4. element'[d].id \in succeeded' => kind'[d] = "succeeded"
      BY <1>0, <1>3, <1>5, <1>6, <2>1 DEF OneHolder
    <2>5. \A b \in Consumer : b # d /\ pc'[b] \in Holding => element'[b].id # element'[d].id
      BY <1>0, <1>3, <1>5, <1>6, <2>1 DEF OneHolder
    <2>. QED
      BY <2>3, <2>4, <2>5
  <1>7. ASSUME Undisturbed'
        PROVE  succeeded' \cap (IdsOf(list'["pending"]) \cup IdsOf(list'["failed"])) = {}
    <2>1. succeeded \cap (In("pending") \cup In("failed")) = {}
      BY <1>0, <1>5, <1>7 DEF OneHolder
    <2>2. e.id \in succeeded => kind[c] = "succeeded"
      BY <1>0, <1>1, <1>5, <1>7 DEF OneHolder
    <2>. QED
      BY <1>2, <2>1, <2>2
  <1>8. OneHolder'
    BY <1>6, <1>7 DEF OneHolder, In
  <1>. QED
    BY <1>4, <1>8 DEF Holds

LEMMA UntouchedHolds ==
    ASSUME IInv, UNCHANGED <<redisVars, element, kind, succeeded, late, crashes>>,
           \A d \in Consumer : pc'[d] \in Holding <=> pc[d] \in Holding
    PROVE  Holds'
  <1>1. LineType /\ ListInv
    BY DEF IInv, TypeInv, LineType
  <1>2. Tame
    BY <1>1, TameEffects
  <1>. QED
    BY <1>2, TameHolds

LEMMA LateIsNotEmpty ==
    ASSUME TypeInv, NEW r \in Request, Unanswered(r)
    PROVE  late' # <<>>
  BY DEF TypeInv, Unanswered

LEMMA DequeueHolds ==
    ASSUME IInv, NEW c \in Consumer, Dequeue(c)
    PROVE  Holds'
  <1>0. TypeInv /\ pc[c] \in {"idle", "poll"} /\ pc \in [Consumer -> Pc] /\ late \in Seq(Request)
    BY DEF IInv, TypeInv, Dequeue
  <1>1. UNCHANGED <<succeeded, crashes>>
    BY DEF Dequeue, clientOnly, boundVars, runVars
  <1>2. CASE TakesNothing(c)
    <2>1. CASE late' = late
      <3>1. \A d \in Consumer : pc'[d] \in Holding <=> pc[d] \in Holding
        BY <1>0, <1>2 DEF TakesNothing, Goto, Holding, Delivered, Settling
      <3>. QED
        BY <1>1, <1>2, <2>1, <3>1, UntouchedHolds DEF TakesNothing
    <2>2. CASE late' = Append(late, ClaimRequest)
      <3>1. ClaimRequest \in Request
        BY DEF ClaimRequest, Request
      <3>2. late' # <<>>
        BY <1>0, <2>2, <3>1
      <3>. QED
        BY <3>2, DisturbedHolds
    <2>. QED
      BY <1>2, <2>1, <2>2 DEF TakesNothing
  <1>3. ASSUME NEW e \in CommandEnvelope, Takes(c, e) PROVE Holds'
    BY <1>0, <1>1, <1>3, TakesHolds
  <1>. QED
    BY <1>0, <1>2, <1>3, DequeueIs

(* What a settle that is answered does to the lists. *)
LEMMA AnsweredMove ==
    ASSUME TypeInv, NEW e \in CommandEnvelope, NEW v \in CommandEnvelope, NEW to \in {"pending", "failed"},
           Answered(MoveRequest(e, to, v))
    PROVE  /\ UNCHANGED <<late, recovered>>
           /\ \/ UNCHANGED list /\ e \notin ToSet(list["inProgress"])
              \/ MoveEffect(e, to, v)
  <1>1. RunMove(e, to, v) /\ UNCHANGED late
    BY DEF Answered, Run, MoveRequest
  <1>2. IF e \in ToSet(list["inProgress"]) THEN MoveEffect(e, to, v) ELSE UNCHANGED redisVars
    BY <1>1, RunMoveEffect DEF TypeInv
  <1>3. UNCHANGED recovered
    BY <1>1 DEF RunMove
  <1>. QED
    BY <1>1, <1>2, <1>3 DEF redisVars

LEMMA AnsweredRemove ==
    ASSUME TypeInv, NEW e \in CommandEnvelope, Answered(RemoveRequest(e))
    PROVE  /\ UNCHANGED <<late, recovered>>
           /\ \/ UNCHANGED list /\ e \notin ToSet(list["inProgress"])
              \/ RemoveEffect(e)
  <1>1. RunRemove(e) /\ UNCHANGED late
    BY DEF Answered, Run, RemoveRequest
  <1>2. IF e \in ToSet(list["inProgress"]) THEN RemoveEffect(e) ELSE UNCHANGED redisVars
    BY <1>1, RunRemoveEffect DEF TypeInv
  <1>3. UNCHANGED recovered
    BY <1>1 DEF RunRemove
  <1>. QED
    BY <1>1, <1>2, <1>3 DEF redisVars

LEMMA MoveUnreadableHolds ==
    ASSUME IInv, NEW c \in Consumer, MoveUnreadableToFailed(c)
    PROVE  Holds'
  <1>0. TypeInv /\ ConsumerOK(c) /\ pc[c] = "unreadable"
    BY DEF IInv, ConsumerInv, MoveUnreadableToFailed
  <1>1. PICK e \in CommandEnvelope : e = element[c] /\ e.attempts <= counted[e.id]
    BY <1>0 DEF ConsumerOK, Holding
  <1>2. kind[c] # "succeeded" /\ pc[c] \in Holding
    BY <1>0 DEF ConsumerOK, Settling, Holding
  <1>3. UNCHANGED <<succeeded, crashes>> /\ Goto(c, "poll") /\ NoDelivery(c)
    BY DEF MoveUnreadableToFailed, clientOnly, boundVars, runVars
  <1>4. CASE Answered(MoveRequest(e, "failed", e))
    <2>1. /\ UNCHANGED <<late, recovered>>
          /\ \/ UNCHANGED list /\ e \notin ToSet(list["inProgress"])
             \/ MoveEffect(e, "failed", e)
      BY <1>0, <1>4, AnsweredMove
    <2>. QED
      BY <1>1, <1>2, <1>3, <2>1, HandsBackHolds
  <1>5. CASE Unanswered(MoveRequest(e, "failed", e))
    <2>1. MoveRequest(e, "failed", e) \in Request
      BY <1>1, MoveRequestOK
    <2>2. late' # <<>>
      BY <1>0, <1>5, <2>1, LateIsNotEmpty
    <2>. QED
      BY <2>2, DisturbedHolds
  <1>. QED
    BY <1>1, <1>4, <1>5 DEF MoveUnreadableToFailed

LEMMA SettleHolds ==
    ASSUME IInv, NEW c \in Consumer, Settle(c)
    PROVE  Holds'
  <1>0. TypeInv /\ ConsumerOK(c) /\ pc[c] = "settle"
    BY DEF IInv, ConsumerInv, Settle
  <1>1. /\ element[c] \in CommandEnvelope /\ env[c] \in CommandEnvelope /\ env[c].id = element[c].id
        /\ \/ kind[c] = "succeeded" /\ SettleRequest(c) = RemoveRequest(element[c])
           \/ /\ kind[c] # "succeeded"
              /\ \E to \in {"pending", "failed"} : SettleRequest(c) = MoveRequest(element[c], to, env[c])
        /\ SettleRequest(c) \in Request
    BY <1>0, SettleRequestIs
  <1>2. UNCHANGED <<succeeded, crashes>> /\ pc[c] \in Holding
    BY <1>0 DEF Settle, clientOnly, boundVars, runVars, Holding, Delivered, Settling
  <1>3. CASE /\ Answered(SettleRequest(c))
             /\ Goto(c, IF Contains(list["inProgress"], element[c]) THEN "idle" ELSE Leave(c))
             /\ NoDelivery(c)
    <2>1. PICK l \in {"stopped", "idle", "poll"} : Goto(c, l)
      BY <1>3 DEF Leave
    <2>2. CASE SettleRequest(c) = RemoveRequest(element[c])
      <3>1. /\ UNCHANGED <<late, recovered>>
            /\ \/ UNCHANGED list /\ element[c] \notin ToSet(list["inProgress"])
               \/ RemoveEffect(element[c])
        BY <1>0, <1>1, <1>3, <2>2, AnsweredRemove
      <3>. QED
        BY <1>1, <1>2, <1>3, <2>1, <3>1, HandsBackHolds
    <2>3. ASSUME kind[c] # "succeeded", NEW to \in {"pending", "failed"},
                 SettleRequest(c) = MoveRequest(element[c], to, env[c])
          PROVE  Holds'
      <3>1. /\ UNCHANGED <<late, recovered>>
            /\ \/ UNCHANGED list /\ element[c] \notin ToSet(list["inProgress"])
               \/ MoveEffect(element[c], to, env[c])
        BY <1>0, <1>1, <1>3, <2>3, AnsweredMove
      <3>. QED
        BY <1>1, <1>2, <1>3, <2>1, <2>3, <3>1, HandsBackHolds
    <2>. QED
      BY <1>1, <2>2, <2>3
  <1>4. CASE Unanswered(SettleRequest(c))
    <2>1. late' # <<>>
      BY <1>0, <1>1, <1>4, LateIsNotEmpty
    <2>. QED
      BY <2>1, DisturbedHolds
  <1>. QED
    BY <1>3, <1>4 DEF Settle

LEMMA ConsumerHolds ==
    ASSUME IInv, NEW c \in Consumer, Step(c)
    PROVE  Holds'
  <1>0. pc \in [Consumer -> Pc] /\ ConsumerOK(c)
    BY DEF IInv, TypeInv, ConsumerInv
  <1>1. CASE Stop(c)
    <2>1. \A d \in Consumer : pc'[d] \in Holding <=> pc[d] \in Holding
      BY <1>0, <1>1 DEF Stop, Goto, Holding, Delivered, Settling
    <2>2. UNCHANGED <<redisVars, element, kind, succeeded, late, crashes>>
      BY <1>1 DEF Stop, clientOnly, boundVars, runVars
    <2>. QED
      BY <2>1, <2>2, UntouchedHolds
  <1>2. CASE Begin(c)
    <2>1. pc[c] = "begin"
      BY <1>2 DEF Begin
    <2>2. ASSUME NEW k \in AttemptKind, Attempted(c, k) PROVE Holds'
      BY <2>1, <2>2, AttemptedHolds
    <2>3. CASE Goto(c, "running") /\ UNCHANGED <<redisVars, late, element, env, kind, tries, clientOnly, runVars>>
      <3>1. \A d \in Consumer : pc'[d] \in Holding <=> pc[d] \in Holding
        BY <1>0, <2>1, <2>3 DEF Goto, Holding, Delivered, Settling
      <3>2. UNCHANGED <<redisVars, element, kind, succeeded, late, crashes>>
        BY <2>3 DEF clientOnly, boundVars, runVars
      <3>. QED
        BY <3>1, <3>2, UntouchedHolds
    <2>. QED
      BY <1>2, <2>2, <2>3 DEF Begin, AttemptKind
  <1>3. CASE Finish(c)
    <2>1. pc[c] = "running" /\ \E k \in AttemptKind : Attempted(c, k)
      BY <1>3 DEF Finish, AttemptKind
    <2>. QED
      BY <2>1, AttemptedHolds
  <1>4. CASE GiveUp(c) \/ SettleAgain(c)
    <2>1. late' # <<>>
      BY <1>0, <1>4 DEF GiveUp, SettleAgain, ConsumerOK
    <2>. QED
      BY <2>1, DisturbedHolds
  <1>. QED
    BY <1>1, <1>2, <1>3, <1>4, DequeueHolds, MoveUnreadableHolds, SettleHolds DEF Step

LEMMA QuietHolds ==
    ASSUME IInv, UNCHANGED <<clientVars, runVars, crashes>>, late' # <<>> \/ (Tame /\ late' = late)
    PROVE  Holds'
  <1>1. UNCHANGED <<pc, element, kind, succeeded>>
    BY DEF clientVars, runVars
  <1>. QED
    BY <1>1, TameHolds, DisturbedHolds

LEMMA ToolHolds ==
    ASSUME IInv, NEW t \in Tool, NEW s \in Stage, ClearStage(t, s)
    PROVE  Holds'
  <1>0. TypeInv /\ LineType /\ ListInv
    BY DEF IInv, TypeInv, LineType
  <1>1. ClearRequest(s) \in Request
    BY DEF ClearRequest, Request
  <1>2. CASE Answered(ClearRequest(s))
    <2>1. RunClear(s) /\ late' = late
      BY <1>2 DEF Answered, Run, ClearRequest
    <2>2. Tame
      BY <1>0, <2>1, TameEffects
    <2>. QED
      BY <2>1, <2>2, QuietHolds DEF ClearStage, workOnly
  <1>3. CASE Unanswered(ClearRequest(s))
    BY <1>0, <1>1, <1>3, LateIsNotEmpty, DisturbedHolds
  <1>. QED
    BY <1>2, <1>3 DEF ClearStage

LEMMA BatchHolds ==
    ASSUME IInv, NEW w \in Worker, BulkBatch(w)
    PROVE  Holds'
  <1>0. TypeInv /\ LineType /\ ListInv
    BY DEF IInv, TypeInv, LineType
  <1>1. PICK n \in Nat : Answered(BulkRequest(op[w], n)) \/ Unanswered(BulkRequest(op[w], n))
    <2>1. rest[w] \in Nat /\ BatchSize \in Nat
      BY <1>0, RedisAssumption DEF TypeInv
    <2>. QED
      BY <2>1 DEF BulkBatch
  <1>2. BulkRequest(op[w], n) \in Request
    BY DEF BulkRequest, Request, BulkBatch
  <1>3. CASE Answered(BulkRequest(op[w], n))
    <2>1. RunBulk(op[w], n) /\ late' = late
      BY <1>3 DEF Answered, Run, BulkRequest
    <2>2. RecoverEffect \/ RepublishEffect
      BY <1>0, <2>1, RunBulkEffect DEF TypeInv
    <2>3. Tame
      BY <1>0, <2>2, TameEffects
    <2>. QED
      BY <2>1, <2>3, QuietHolds DEF BulkBatch, workOnly
  <1>4. CASE Unanswered(BulkRequest(op[w], n))
    BY <1>0, <1>2, <1>4, LateIsNotEmpty, DisturbedHolds
  <1>. QED
    BY <1>1, <1>3, <1>4

LEMMA LifeHolds ==
    ASSUME IInv, UNCHANGED <<redisVars, late, clientVars, runVars, crashes>>
    PROVE  Holds'
  <1>1. Tame
    BY TameEffects DEF IInv, TypeInv, LineType
  <1>. QED
    BY <1>1, QuietHolds

LEMMA StartHolds ==
    ASSUME IInv, ServerSpawn \/ \E c \in CliConsumer : CliStart(c)
    PROVE  Holds'
  <1>0. pc \in [Consumer -> Pc] /\ ServerTasks
    BY DEF IInv, TypeInv
  <1>1. UNCHANGED <<redisVars, element, kind, succeeded, late, crashes>>
    BY DEF ServerSpawn, CliStart, lifeOnly, runVars
  <1>2. \A d \in Consumer : pc'[d] \in Holding <=> pc[d] \in Holding
    <2>1. CASE ServerSpawn
      BY <1>0, <2>1 DEF ServerSpawn, ServerTasks, Holding, Delivered, Settling
    <2>2. ASSUME NEW c \in CliConsumer, CliStart(c), NEW d \in Consumer
          PROVE  pc'[d] \in Holding <=> pc[d] \in Holding
      BY <1>0, <2>2 DEF CliStart, Goto, Holding, Delivered, Settling
    <2>. QED
      BY <2>1, <2>2
  <1>. QED
    BY <1>1, <1>2, UntouchedHolds

LEMMA HoldsStep ==
    ASSUME IInv, Next
    PROVE  Holds'
  <1>1. ASSUME NEW m \in Msg, Publish(m) PROVE Holds'
    <2>1. Tame
      BY <1>1, PublishIs, TameEffects DEF IInv, TypeInv, LineType
    <2>. QED
      BY <1>1, <2>1, QuietHolds DEF Publish, boundVars
  <1>2. ASSUME NEW i \in DOMAIN late, RunLate(i) PROVE Holds'
    <2>1. late \in Seq(Request)
      BY DEF IInv, TypeInv
    <2>2. late' # <<>>
      BY <1>2, <2>1 DEF RunLate
    <2>. QED
      BY <2>2, DisturbedHolds
  <1>3. ASSUME NEW t \in Tool, NEW o, NEW n, StartBulk(t, o, n) PROVE Holds'
    BY <1>3, LifeHolds DEF StartBulk, workOnly
  <1>4. ASSUME NEW w \in Worker, EndBulk(w) PROVE Holds'
    BY <1>4, LifeHolds DEF EndBulk, workOnly
  <1>5. CASE ServerStart \/ ServerOpen \/ Cancel \/ ServerStop
    BY <1>5, LifeHolds DEF ServerStart, ServerOpen, Cancel, ServerStop, lifeOnly
  <1>6. CASE ServerCrash \/ \E c \in CliConsumer : CliCrash(c)
    <2>1. crashes \in Nat /\ crashes' = crashes + 1
      BY <1>6 DEF IInv, TypeInv, ServerCrash, CliCrash
    <2>2. crashes' # 0
      BY <2>1
    <2>. QED
      BY <2>2, DisturbedHolds
  <1>. QED
    BY <1>1, <1>2, <1>3, <1>4, <1>5, <1>6, ConsumerHolds, ToolHolds, BatchHolds, StartHolds DEF Next

-----------------------------------------------------------------------------
(* The invariant is inductive. *)

LEMMA InitIInv ==
    ASSUME Init
    PROVE  IInv
  <1>1. /\ list["pending"] = <<>> /\ list["inProgress"] = <<>> /\ list["failed"] = <<>>
        /\ list \in [Stage -> List]
    BY Empty DEF Init, Stage
  <1>2. TypeInv
    <2>1. late \in Seq(Request)
      BY DEF Init
    <2>2. IsFiniteSet(published) /\ published \in SUBSET Msg /\ succeeded \in SUBSET published
      BY FS_EmptySet DEF Init
    <2>. QED
      BY <1>1, <2>1, <2>2 DEF Init, TypeInv, Pc
  <1>3. LateInv
    BY DEF Init, LateInv
  <1>4. ConsumerInv
    BY DEF Init, ConsumerInv, ConsumerOK, Holding, Delivered, Settling, CountedKind
  <1>5. ServerTasks
    BY DEF Init, ServerTasks, Consumer
  <1>6. Distinct /\ Stored = {}
    BY <1>1, Empty DEF Distinct, Stored, In
  <1>7. Accounted
    BY <1>6 DEF Accounted, Init
  <1>8. Charged
    BY <1>1, Empty DEF Charged, Stage
  <1>9. InLine
    <2>1. list["pending"] \o list["inProgress"] = <<>>
      BY <1>1
    <2>. QED
      BY <2>1, Empty DEF InLine
  <1>10. InProgressIsHeld
    BY <1>1, Empty DEF InProgressIsHeld
  <1>11. OneHolder
    BY DEF Init, OneHolder, Holding, Delivered, Settling
  <1>. QED
    BY <1>2, <1>3, <1>4, <1>5, <1>6, <1>7, <1>8, <1>9, <1>10, <1>11 DEF IInv, ListInv

LEMMA StutterIInv ==
    ASSUME IInv, UNCHANGED vars
    PROVE  IInv'
  <1>1. /\ UNCHANGED <<list, published, newer, cleared, recovered, late, pc, element, env, kind, tries>>
        /\ UNCHANGED <<server, op, rest, crashes, succeeded, counted>>
    BY DEF vars, redisVars, lineVars, clientVars, serverVars, workVars, boundVars, runVars
  <1>2. TypeInv'
    BY <1>1 DEF IInv, TypeInv
  <1>3. LateInv' /\ ServerTasks'
    BY <1>1 DEF IInv, LateInv, RequestOK, ServerTasks
  <1>4. ConsumerInv'
    BY <1>1 DEF IInv, ConsumerInv, ConsumerOK
  <1>5. ListInv'
    BY <1>1 DEF IInv, ListInv, Distinct, Accounted, Stored, In, Charged, InLine
  <1>6. InProgressIsHeld' /\ OneHolder'
    BY <1>1 DEF IInv, InProgressIsHeld, OneHolder, Undisturbed, In
  <1>. QED
    BY <1>2, <1>3, <1>4, <1>5, <1>6 DEF IInv

LEMMA NextIInv ==
    ASSUME IInv, Next
    PROVE  IInv'
  BY CoreStep, HoldsStep DEF IInv, Core, Holds

(* The invariant holds in every state of the lane, for any number of       *)
(* messages, consumers, tools, lost answers and crashes and any batch size *)
(* of bulk_move.                                                           *)
THEOREM InvariantHolds == Spec => []IInv
  <1>1. Init => IInv
    BY InitIInv
  <1>2. IInv /\ [Next]_vars => IInv'
    BY NextIInv, StutterIInv
  <1>. QED
    BY <1>1, <1>2, PTL DEF Spec

-----------------------------------------------------------------------------
(* The properties of RedisLane. *)

(* A message is in one place of one Redis list until its command has       *)
(* succeeded or it is cleared: the LMOVE of a claim, the script            *)
(* MOVE_IF_PRESENT of a settle, the batches of BULK_MOVE and the DEL of a  *)
(* clear neither lose nor double it, in whatever order Redis runs them,    *)
(* late requests included.                                                 *)
THEOREM NothingLost == Spec => []OneCopy
  <1>1. ASSUME IInv PROVE OneCopy
    <2>0. /\ list \in [Stage -> List] /\ Distinct /\ Accounted
      BY <1>1 DEF IInv, TypeInv, ListInv
    <2> SUFFICES ASSUME NEW m \in published
                 PROVE  \/ \E x \in Copies(m) : Copies(m) = {x}
                        \/ Copies(m) = {} /\ (m \in succeeded \/ m \in cleared)
      BY DEF OneCopy
    <2>1. \A x : x \in Copies(m) <=>
             \E s \in Stage : \E i \in DOMAIN list[s] : list[s][i].id = m /\ x = <<s, i>>
      BY DEF Copies
    <2>2. CASE m \in Stored
      <3>1. PICK s \in Stage : m \in IdsOf(list[s])
        BY <2>2 DEF Stored, In, Stage
      <3>2. PICK i \in DOMAIN list[s] : list[s][i].id = m
        BY <3>1 DEF IdsOf
      <3>3. ASSUME NEW t \in Stage, NEW j \in DOMAIN list[t], list[t][j].id = m
            PROVE  t = s /\ j = i
        <4>1. m \in IdsOf(list[t])
          BY <3>3 DEF IdsOf
        <4>2. t = s
          BY <2>0, <3>1, <4>1 DEF Distinct, In, Stage
        <4>3. NoRepeat(list[s])
          BY <2>0 DEF Distinct, Stage
        <4>. QED
          BY <3>2, <3>3, <4>2, <4>3 DEF NoRepeat
      <3>4. <<s, i>> \in Copies(m)
        BY <2>1, <3>2
      <3>5. Copies(m) = {<<s, i>>}
        BY <2>1, <3>3, <3>4
      <3>. QED
        BY <3>4, <3>5
    <2>3. CASE m \notin Stored
      <3>1. m \in succeeded \/ m \in cleared
        BY <2>0, <2>3 DEF Accounted
      <3>2. \A s \in Stage : m \notin IdsOf(list[s])
        BY <2>3 DEF Stored, In, Stage
      <3>3. Copies(m) = {}
        BY <2>1, <3>2 DEF IdsOf
      <3>. QED
        BY <3>1, <3>3
    <2>. QED
      BY <2>2, <2>3
  <1>. QED
    BY <1>1, InvariantHolds, PTL

(* Read from left to right, the pending and the in-progress list together  *)
(* keep the order in which their messages last entered pending, whatever   *)
(* claims, settles, recoveries in batches and republications do.           *)
THEOREM OrderKept == Spec => []LineKeepsOrder
  <1>1. ASSUME IInv PROVE LineKeepsOrder
    <2>1. PICK u : u = list["pending"] \o list["inProgress"]
      OBVIOUS
    <2>2. Sorted(u, newer)
      BY <1>1, <2>1 DEF IInv, ListInv, InLine
    <2>3. \A i, j \in DOMAIN Ids(u) : i < j => Ids(u)[i] \in newer[Ids(u)[j]]
      BY <2>2 DEF Sorted, Ids
    <2>. QED
      BY <2>1, <2>3 DEF LineKeepsOrder
  <1>. QED
    BY <1>1, InvariantHolds, PTL

(* A stored attempt count is never above the failed attempts, though a     *)
(* claim counts in memory, a release takes back and a settle may be sent   *)
(* twice; and settle moves a message whose command failed to failed only   *)
(* after its retries are used up.                                          *)
THEOREM AttemptsAreFair == Spec => []FairAttempts
  <1>1. ASSUME IInv PROVE FairAttempts
    <2>1. Charged /\ ConsumerInv /\ TypeInv
      BY <1>1 DEF IInv, ListInv
    <2>2. ASSUME NEW c \in Consumer, kind[c] = "commandFailed",
                 ForAttempt(kind[c], env[c]) = "moveToFailed"
          PROVE  counted[env[c].id] > MaxRetries[env[c].id]
      <3>1. env[c] \in CommandEnvelope /\ env[c].attempts <= counted[env[c].id]
        BY <2>1, <2>2 DEF ConsumerInv, ConsumerOK, Delivered, CountedKind
      <3>2. ~HasRetriesLeft(env[c])
        BY <2>2 DEF ForAttempt
      <3>3. env[c].attempts \in Nat /\ counted[env[c].id] \in Nat /\ MaxRetries[env[c].id] \in Nat
        BY <2>1, <3>1, EnvelopeAssumption DEF CommandEnvelope, TypeInv
      <3>. QED
        BY <3>1, <3>2, <3>3 DEF HasRetriesLeft
    <2>. QED
      BY <2>1, <2>2 DEF FairAttempts, Charged
  <1>. QED
    BY <1>1, InvariantHolds, PTL

(* As long as no answer was lost and no process crashed, every element in  *)
(* progress has a consumer that goes on to settle it: dequeue, settle and  *)
(* recover leave nothing behind.                                           *)
THEOREM ClaimsAreHeld == Spec => []InProgressIsHeld
  BY InvariantHolds, PTL DEF IInv

(* Without lost answers, crashes and recoveries no two consumers run a     *)
(* message at once, and none runs it after its command has succeeded.      *)
THEOREM OneRunAtATime == Spec => []RunsOnce
  <1>1. ASSUME IInv PROVE RunsOnce
    <2>0. ConsumerInv /\ OneHolder
      BY <1>1 DEF IInv
    <2> SUFFICES ASSUME Undisturbed, NEW c \in Consumer, pc[c] = "running"
                 PROVE  /\ env[c].id \notin succeeded
                        /\ \A b \in Consumer : b # c /\ pc[b] = "running" => env[b].id # env[c].id
      BY DEF RunsOnce, Undisturbed
    <2>1. \A d \in Consumer : pc[d] = "running" =>
             pc[d] \in Holding /\ env[d].id = element[d].id /\ kind[d] = "none"
      BY <2>0 DEF ConsumerInv, ConsumerOK, Holding, Delivered, Settling
    <2>. QED
      BY <2>0, <2>1 DEF OneHolder
  <1>. QED
    BY <1>1, InvariantHolds, PTL

-----------------------------------------------------------------------------
(* The refinement of QueueStages. *)

(* The place of m, by the messages of the three stages and the published   *)
(* ones.                                                                   *)
Place(P, Q, F, p, m) ==
    IF m \notin p THEN "new"
    ELSE IF m \in P THEN "pending"
    ELSE IF m \in Q THEN "inProgress"
    ELSE IF m \in F THEN "failed"
    ELSE "gone"

LEMMA PlaceIs ==
    ASSUME NEW l \in [Stage -> List], NEW p, NEW m,
           IdsOf(l["pending"]) \cap IdsOf(l["inProgress"]) = {},
           IdsOf(l["pending"]) \cap IdsOf(l["failed"]) = {},
           IdsOf(l["inProgress"]) \cap IdsOf(l["failed"]) = {}
    PROVE  (IF m \notin p THEN "new"
            ELSE IF \E s \in Stage : m \in ToSet(Ids(l[s]))
                 THEN CHOOSE s \in Stage : m \in ToSet(Ids(l[s]))
                 ELSE "gone")
           = Place(IdsOf(l["pending"]), IdsOf(l["inProgress"]), IdsOf(l["failed"]), p, m)
  <1>1. \A s \in Stage : ToSet(Ids(l[s])) = IdsOf(l[s])
    BY Members
  <1>2. ASSUME NEW s \in Stage, m \in IdsOf(l[s]), m \in p
        PROVE  Place(IdsOf(l["pending"]), IdsOf(l["inProgress"]), IdsOf(l["failed"]), p, m) = s
    BY <1>2 DEF Stage, Place
  <1>3. ASSUME \A s \in Stage : m \notin IdsOf(l[s]), m \in p
        PROVE  Place(IdsOf(l["pending"]), IdsOf(l["inProgress"]), IdsOf(l["failed"]), p, m) = "gone"
    BY <1>3 DEF Stage, Place
  <1>4. ASSUME m \notin p
        PROVE  Place(IdsOf(l["pending"]), IdsOf(l["inProgress"]), IdsOf(l["failed"]), p, m) = "new"
    BY <1>4 DEF Place
  <1>5. ASSUME \E s \in Stage : m \in IdsOf(l[s])
        PROVE  /\ (CHOOSE s \in Stage : m \in ToSet(Ids(l[s]))) \in Stage
               /\ m \in IdsOf(l[CHOOSE s \in Stage : m \in ToSet(Ids(l[s]))])
    BY <1>1, <1>5
  <1>. QED
    BY <1>1, <1>2, <1>3, <1>4, <1>5

LEMMA StageOfIs ==
    ASSUME LineType, ListInv, NEW m
    PROVE  StageOf(m) = Place(In("pending"), In("inProgress"), In("failed"), published, m)
  BY PlaceIs DEF StageOf, LineType, ListInv, Distinct, In

LEMMA NextStageOf ==
    ASSUME LineType', ListInv', NEW P, NEW Q, NEW F, NEW m, Becomes(P, Q, F)
    PROVE  StageOf(m)' = Place(P, Q, F, published', m)
  <1>1. /\ list' \in [Stage -> List]
        /\ P = IdsOf(list'["pending"]) /\ Q = IdsOf(list'["inProgress"]) /\ F = IdsOf(list'["failed"])
        /\ P \cap Q = {} /\ P \cap F = {} /\ Q \cap F = {}
    BY DEF LineType, ListInv, Distinct, In, Becomes
  <1>2. PICK l \in [Stage -> List] : l = list'
    BY <1>1
  <1>3. (IF m \notin published' THEN "new"
         ELSE IF \E s \in Stage : m \in ToSet(Ids(l[s]))
              THEN CHOOSE s \in Stage : m \in ToSet(Ids(l[s]))
              ELSE "gone")
        = Place(P, Q, F, published', m)
    BY <1>1, <1>2, PlaceIs
  <1>. QED
    BY <1>2, <1>3 DEF StageOf

LEMMA AbstractMove ==
    ASSUME NEW S \in SUBSET Msg, NEW from, NEW to,
           \A m \in S : StageOf(m) = from,
           \A m \in Msg : StageOf(m)' = IF m \in S THEN to ELSE StageOf(m),
           succeeded' = succeeded
    PROVE  Abstract!Move(S, from, to)
  BY DEF Abstract!Move

(* The messages of S move from one place to another. *)
LEMMA PlacesMove ==
    ASSUME LineType, ListInv, LineType', ListInv', succeeded' = succeeded,
           NEW P, NEW Q, NEW F, Becomes(P, Q, F), NEW S \in SUBSET Msg, NEW from, NEW to,
           \A m \in S : Place(In("pending"), In("inProgress"), In("failed"), published, m) = from,
           \A m \in Msg : Place(P, Q, F, published', m)
                = IF m \in S THEN to ELSE Place(In("pending"), In("inProgress"), In("failed"), published, m)
    PROVE  Abstract!Move(S, from, to)
  <1>1. \A m \in S : StageOf(m) = from
    BY StageOfIs
  <1>2. \A m \in Msg : StageOf(m)' = IF m \in S THEN to ELSE StageOf(m)
    BY StageOfIs, NextStageOf
  <1>. QED
    BY <1>1, <1>2, AbstractMove

LEMMA StageIsPlace ==
    ASSUME ListInv
    PROVE  /\ In("pending") \subseteq published /\ In("inProgress") \subseteq published
           /\ In("failed") \subseteq published
           /\ In("pending") \cap In("inProgress") = {} /\ In("pending") \cap In("failed") = {}
           /\ In("inProgress") \cap In("failed") = {}
  BY DEF ListInv, Distinct, Accounted, Stored

LEMMA EffectRefines ==
    ASSUME TypeInv, ListInv, Effect, UNCHANGED runVars
    PROVE  Abstract!Next \/ UNCHANGED <<[m \in Msg |-> StageOf(m)], succeeded>>
  <1>0. LineType /\ counted \in [Msg -> Nat] /\ published \subseteq Msg /\ succeeded' = succeeded
    BY DEF TypeInv, LineType, runVars
  <1>1. LineType' /\ ListInv'
    BY EffectKeepsList
  <1>2. PICK P, Q, F : P = In("pending") /\ Q = In("inProgress") /\ F = In("failed")
    OBVIOUS
  <1>3. /\ P \subseteq published /\ Q \subseteq published /\ F \subseteq published
        /\ P \cap Q = {} /\ P \cap F = {} /\ Q \cap F = {}
    BY <1>2, StageIsPlace
  <1>4. CASE UNCHANGED redisVars
    <2>1. list' = list /\ published' = published
      BY <1>4 DEF redisVars, lineVars
    <2>2. \A m \in Msg : StageOf(m)' = StageOf(m)
      BY <2>1 DEF StageOf
    <2>. QED
      BY <1>0, <2>2
  <1>5. ASSUME NEW m \in Msg, PublishEffect(m) PROVE Abstract!Next
    <2>1. m \notin published /\ Becomes(P \cup {m}, Q, F) /\ published' = published \cup {m}
      BY <1>0, <1>2, <1>5, PublishSets, PublishKeepsList
    <2>2. Place(P, Q, F, published, m) = "new"
      BY <2>1 DEF Place
    <2>3. ASSUME NEW n \in Msg
          PROVE  Place(P \cup {m}, Q, F, published', n)
                     = IF n \in {m} THEN "pending" ELSE Place(P, Q, F, published, n)
      BY <2>1 DEF Place
    <2>4. {m} \in SUBSET Msg /\ \A n \in {m} : Place(P, Q, F, published, n) = "new"
      BY <2>2
    <2>5. Abstract!Move({m}, "new", "pending")
      <3>1. Becomes(P \cup {m}, Q, F)
        BY <2>1
      <3>2. \A n \in Msg : Place(P \cup {m}, Q, F, published', n)
               = IF n \in {m} THEN "pending" ELSE Place(In("pending"), In("inProgress"), In("failed"), published, n)
        BY <1>2, <2>3
      <3>. QED
        BY <1>0, <1>1, <1>2, <2>4, <3>1, <3>2, PlacesMove
    <2>. QED
      BY <2>5 DEF Abstract!Next, Abstract!Transfer, Abstract!Publish
  <1>6. ASSUME NEW e \in CommandEnvelope, ClaimEffect(e) PROVE Abstract!Next
    <2>0. e.id \in Msg /\ published' = published
      BY <1>6, Counting DEF ClaimEffect, lineVars
    <2>1. e.id \in P /\ Becomes(P \ {e.id}, Q \cup {e.id}, F)
      BY <1>0, <1>2, <1>6, ClaimSets
    <2>2. Place(P, Q, F, published, e.id) = "pending"
      BY <1>3, <2>1 DEF Place
    <2>3. ASSUME NEW n \in Msg
          PROVE  Place(P \ {e.id}, Q \cup {e.id}, F, published', n)
                     = IF n \in {e.id} THEN "inProgress" ELSE Place(P, Q, F, published, n)
      BY <1>3, <2>0, <2>1 DEF Place
    <2>4. Abstract!Move({e.id}, "pending", "inProgress")
      BY <1>0, <1>1, <1>2, <2>0, <2>1, <2>2, <2>3, PlacesMove
    <2>. QED
      BY <2>0, <2>4 DEF Abstract!Next, Abstract!Transfer, Abstract!Claim
  <1>7. ASSUME NEW e \in CommandEnvelope, e.id \in succeeded, RemoveEffect(e) PROVE Abstract!Next
    <2>0. e.id \in Msg /\ published' = published
      BY <1>7, Counting DEF RemoveEffect, lineVars
    <2>1. e.id \in Q /\ Becomes(P, Q \ {e.id}, F)
      BY <1>0, <1>2, <1>7, RemoveSets
    <2>2. Place(P, Q, F, published, e.id) = "inProgress"
      BY <1>3, <2>1 DEF Place
    <2>3. ASSUME NEW n \in Msg
          PROVE  Place(P, Q \ {e.id}, F, published', n)
                     = IF n \in {e.id} THEN "gone" ELSE Place(P, Q, F, published, n)
      BY <1>3, <2>0, <2>1 DEF Place
    <2>4. Abstract!Move({e.id}, "inProgress", "gone")
      BY <1>0, <1>1, <1>2, <2>0, <2>1, <2>2, <2>3, PlacesMove
    <2>. QED
      BY <1>7, <2>0, <2>4 DEF Abstract!Next, Abstract!Transfer, Abstract!Acknowledge
  <1>8. ASSUME NEW e \in CommandEnvelope, NEW v \in CommandEnvelope, NEW to \in {"pending", "failed"},
               v.id = e.id, v.attempts <= counted[v.id], MoveEffect(e, to, v)
        PROVE  Abstract!Next
    <2>0. e.id \in Msg /\ published' = published
      BY <1>0, <1>8, Counting, MoveKeepsList
    <2>1. /\ e.id \in Q
          /\ \/ to = "pending" /\ Becomes(P \cup {e.id}, Q \ {e.id}, F)
             \/ to = "failed" /\ Becomes(P, Q \ {e.id}, F \cup {e.id})
      <3>1. /\ e.id \in In("inProgress")
            /\ \/ /\ to = "pending"
                  /\ Becomes(In("pending") \cup {e.id}, In("inProgress") \ {e.id}, In("failed"))
               \/ /\ to = "failed"
                  /\ Becomes(In("pending"), In("inProgress") \ {e.id}, In("failed") \cup {e.id})
        BY <1>0, <1>8, MoveSets DEF Becomes
      <3>. QED
        BY <1>2, <3>1
    <2>2. Place(P, Q, F, published, e.id) = "inProgress"
      BY <1>3, <2>1 DEF Place
    <2>3. CASE Becomes(P \cup {e.id}, Q \ {e.id}, F)
      <3>1. ASSUME NEW n \in Msg
            PROVE  Place(P \cup {e.id}, Q \ {e.id}, F, published', n)
                       = IF n \in {e.id} THEN "pending" ELSE Place(P, Q, F, published, n)
        BY <1>3, <2>0, <2>1 DEF Place
      <3>2. Abstract!Move({e.id}, "inProgress", "pending")
        BY <1>0, <1>1, <1>2, <2>0, <2>2, <2>3, <3>1, PlacesMove
      <3>. QED
        BY <2>0, <3>2 DEF Abstract!Next, Abstract!Transfer, Abstract!Requeue
    <2>4. CASE Becomes(P, Q \ {e.id}, F \cup {e.id})
      <3>1. ASSUME NEW n \in Msg
            PROVE  Place(P, Q \ {e.id}, F \cup {e.id}, published', n)
                       = IF n \in {e.id} THEN "failed" ELSE Place(P, Q, F, published, n)
        BY <1>3, <2>0, <2>1 DEF Place
      <3>2. Abstract!Move({e.id}, "inProgress", "failed")
        BY <1>0, <1>1, <1>2, <2>0, <2>2, <2>4, <3>1, PlacesMove
      <3>. QED
        BY <2>0, <3>2 DEF Abstract!Next, Abstract!Transfer, Abstract!Fail
    <2>. QED
      BY <2>1, <2>3, <2>4
  <1>9. CASE RecoverEffect
    <2>0. published' = published
      BY <1>9 DEF RecoverEffect, lineVars
    <2>1. PICK S \in SUBSET Q : Becomes(P \cup S, Q \ S, F)
      BY <1>0, <1>2, <1>9, RecoverSets
    <2>2. \A n \in S : Place(P, Q, F, published, n) = "inProgress"
      BY <1>3, <2>1 DEF Place
    <2>3. ASSUME NEW n \in Msg
          PROVE  Place(P \cup S, Q \ S, F, published', n)
                     = IF n \in S THEN "pending" ELSE Place(P, Q, F, published, n)
      BY <1>3, <2>0, <2>1 DEF Place
    <2>4. S \in SUBSET Msg
      BY <1>0, <1>3
    <2>5. Abstract!Move(S, "inProgress", "pending")
      BY <1>0, <1>1, <1>2, <2>1, <2>2, <2>3, <2>4, PlacesMove
    <2>. QED
      BY <2>4, <2>5 DEF Abstract!Next, Abstract!Transfer, Abstract!Recover
  <1>10. CASE RepublishEffect
    <2>0. published' = published
      BY <1>0, <1>10, RepublishKeepsList
    <2>1. PICK S \in SUBSET F : Becomes(P \cup S, Q, F \ S)
      BY <1>0, <1>2, <1>10, RepublishSets
    <2>2. \A n \in S : Place(P, Q, F, published, n) = "failed"
      BY <1>3, <2>1 DEF Place
    <2>3. ASSUME NEW n \in Msg
          PROVE  Place(P \cup S, Q, F \ S, published', n)
                     = IF n \in S THEN "pending" ELSE Place(P, Q, F, published, n)
      BY <1>3, <2>0, <2>1 DEF Place
    <2>4. S \in SUBSET Msg
      BY <1>0, <1>3
    <2>5. Abstract!Move(S, "failed", "pending")
      BY <1>0, <1>1, <1>2, <2>1, <2>2, <2>3, <2>4, PlacesMove
    <2>. QED
      BY <2>4, <2>5 DEF Abstract!Next, Abstract!Transfer, Abstract!Republish
  <1>11. ASSUME NEW s \in Stage, RunClear(s) PROVE Abstract!Next
    <2>0. published' = published
      BY <1>11 DEF RunClear, lineVars
    <2>1. PICK P1, Q1, F1 :
             /\ Becomes(P1, Q1, F1)
             /\ \/ s = "pending" /\ P1 = {} /\ Q1 = Q /\ F1 = F
                \/ s = "inProgress" /\ P1 = P /\ Q1 = {} /\ F1 = F
                \/ s = "failed" /\ P1 = P /\ Q1 = Q /\ F1 = {}
      BY <1>0, <1>2, <1>11, ClearSets
    <2>2. PICK S \in SUBSET Msg : S = {n \in Msg : Place(P, Q, F, published, n) = s}
      OBVIOUS
    <2>3. ASSUME NEW n \in Msg
          PROVE  Place(P1, Q1, F1, published', n) = IF n \in S THEN "gone" ELSE Place(P, Q, F, published, n)
      <3>1. Place(P1, Q1, F1, published', n)
               = IF Place(P, Q, F, published, n) = s THEN "gone" ELSE Place(P, Q, F, published, n)
        BY <1>3, <2>0, <2>1 DEF Place
      <3>. QED
        BY <2>2, <3>1
    <2>4. Abstract!Move(S, s, "gone")
      BY <1>0, <1>1, <1>2, <2>1, <2>2, <2>3, PlacesMove
    <2>5. S = {n \in Msg : StageOf(n) = s}
      BY <1>0, <1>2, <2>2, StageOfIs
    <2>6. {n \in Msg : [m \in Msg |-> StageOf(m)][n] = s} = S
      BY <2>5
    <2>7. Abstract!Clear(s)
      BY <2>4, <2>6 DEF Abstract!Clear
    <2>. QED
      BY <2>7 DEF Abstract!Next, Abstract!Transfer, Stage
  <1>. QED
    BY <1>4, <1>5, <1>6, <1>7, <1>8, <1>9, <1>10, <1>11 DEF Effect

LEMMA EndsRefines ==
    ASSUME TypeInv, Ends
    PROVE  Abstract!Next \/ UNCHANGED <<[m \in Msg |-> StageOf(m)], succeeded>>
  <1>1. list' = list /\ published' = published
    BY DEF Ends, redisVars, lineVars
  <1>2. \A m \in Msg : StageOf(m)' = StageOf(m)
    BY <1>1 DEF StageOf
  <1>3. CASE succeeded' = succeeded
    BY <1>2, <1>3
  <1>4. ASSUME NEW x \in published, succeeded' = succeeded \cup {x} PROVE Abstract!Next
    <2>1. x \in Msg
      BY DEF TypeInv
    <2>2. StageOf(x) # "new"
      BY DEF StageOf, Stage
    <2>3. Abstract!Succeed(x)
      BY <1>2, <1>4, <2>1, <2>2 DEF Abstract!Succeed
    <2>. QED
      BY <2>1, <2>3 DEF Abstract!Next, Abstract!Transfer
  <1>. QED
    BY <1>3, <1>4 DEF Ends

LEMMA StepRefines ==
    ASSUME IInv, Next
    PROVE  Abstract!Next \/ UNCHANGED <<[m \in Msg |-> StageOf(m)], succeeded>>
  <1>0. TypeInv /\ ListInv /\ LateInv
    BY DEF IInv
  <1>1. StoreStep
    BY CoreStep
  <1>2. CASE Ends
    BY <1>0, <1>2, EndsRefines
  <1>3. ASSUME UNCHANGED runVars, NEW r \in Request, RequestOK(r), Answered(r) \/ Unanswered(r) PROVE Effect
    <2>1. CASE Answered(r)
      BY <1>0, <1>3, <2>1, RunHasEffect DEF Answered
    <2>2. CASE Unanswered(r)
      BY <2>2 DEF Unanswered, Effect
    <2>. QED
      BY <1>3, <2>1, <2>2
  <1>4. ASSUME UNCHANGED runVars, NEW i \in DOMAIN late, Run(late[i]) PROVE Effect
    <2>1. late[i] \in Request /\ RequestOK(late[i])
      BY <1>0 DEF TypeInv, LateInv
    <2>. QED
      BY <1>0, <1>4, <2>1, RunHasEffect
  <1>5. ASSUME NEW m \in Msg, PublishEffect(m) PROVE Effect
    BY <1>5 DEF Effect
  <1>6. Ends \/ (UNCHANGED runVars /\ Effect)
    BY <1>1, <1>3, <1>4, <1>5 DEF StoreStep, Sends, RunsLate
  <1>. QED
    BY <1>0, <1>2, <1>6, EffectRefines

(* The Redis lane implements the stages of Queue: every command Redis      *)
(* runs, late ones included, is one of the moves the documentation of      *)
(* Queue names (claim, acknowledge, retry, move to failed, recover,        *)
(* republish, clear), a publication, the end of a command, or changes      *)
(* nothing.                                                                *)
THEOREM LaneImplementsStages == Spec => ImplementsStages
  <1>1. Init => Abstract!Init
    BY DEF Init, Abstract!Init, StageOf
  <1>2. IInv /\ [Next]_vars => [Abstract!Next]_(Abstract!vars)
    <2>1. ASSUME IInv, Next PROVE [Abstract!Next]_(Abstract!vars)
      BY <2>1, StepRefines DEF Abstract!vars
    <2>2. ASSUME UNCHANGED vars PROVE UNCHANGED Abstract!vars
      <3>1. list' = list /\ published' = published /\ succeeded' = succeeded
        BY <2>2 DEF vars, redisVars, lineVars, runVars
      <3>. QED
        BY <3>1 DEF Abstract!vars, StageOf
    <2>. QED
      BY <2>1, <2>2
  <1>. QED
    BY <1>1, <1>2, InvariantHolds, PTL DEF Spec, ImplementsStages, Abstract!Spec

=============================================================================
