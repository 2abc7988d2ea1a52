----------------------------- MODULE RedisLists -----------------------------
(***************************************************************************)
(* Lemmas about the lists of RedisLane. Every command of Redis takes a     *)
(* list apart and puts it together elsewhere, so that all of them are      *)
(* about concatenations: who is in one, when none is in it twice, when it  *)
(* is in order, and which concatenations the commands make.                *)
(***************************************************************************)
EXTENDS RedisLane, SetSums, SequenceTheorems, TLAPS

(* The lists of Redis. *)
List == Seq(CommandEnvelope)

(* The messages of a list. *)
IdsOf(s) == {s[i].id : i \in DOMAIN s}

(* No message is in s twice. *)
NoRepeat(s) == \A i, j \in DOMAIN s : s[i].id = s[j].id => i = j

(* Each message of s is newer than the ones to its right. *)
Sorted(s, n) == \A i, j \in DOMAIN s : i < j => s[i].id \in n[s[j].id]

-----------------------------------------------------------------------------
(* Concatenations. *)

(* u has the elements of s, then those of t; n is the length of s. *)
Joined(u, s, t, n) ==
    /\ n \in Nat
    /\ \A i \in DOMAIN s : u[i] = s[i] /\ i \in DOMAIN u
    /\ \A i \in DOMAIN t : u[n + i] = t[i] /\ n + i \in DOMAIN u
    /\ \A i \in DOMAIN u : i \in DOMAIN s \/ \E j \in DOMAIN t : i = n + j
    /\ \A i \in DOMAIN s : i \in Nat /\ i <= n
    /\ \A i \in DOMAIN t : i \in Nat /\ i > 0

LEMMA ConcatIsJoined ==
    ASSUME NEW s \in List, NEW t \in List
    PROVE  Joined(s \o t, s, t, Len(s))
  <1>1. /\ s \o t \in List /\ Len(s \o t) = Len(s) + Len(t)
        /\ \A i \in 1 .. Len(s) + Len(t) :
              (s \o t)[i] = IF i <= Len(s) THEN s[i] ELSE t[i - Len(s)]
    BY ConcatProperties DEF List
  <1>2. /\ Len(s) \in Nat /\ Len(t) \in Nat
        /\ DOMAIN s = 1..Len(s) /\ DOMAIN t = 1..Len(t) /\ DOMAIN (s \o t) = 1 .. Len(s) + Len(t)
    BY <1>1, LenProperties DEF List
  <1>3. ASSUME NEW i \in DOMAIN (s \o t), i \notin DOMAIN s PROVE \E j \in DOMAIN t : i = Len(s) + j
    <2>1. i - Len(s) \in DOMAIN t /\ i = Len(s) + (i - Len(s))
      BY <1>2, <1>3
    <2>. QED
      BY <2>1
  <1>4. ASSUME NEW i \in DOMAIN t
        PROVE  (s \o t)[Len(s) + i] = t[i] /\ Len(s) + i \in DOMAIN (s \o t)
    <2>1. Len(s) + i \in 1 .. Len(s) + Len(t) /\ ~(Len(s) + i <= Len(s)) /\ Len(s) + i - Len(s) = i
      BY <1>2
    <2>. QED
      BY <1>1, <1>2, <2>1
  <1>. QED
    BY <1>1, <1>2, <1>3, <1>4 DEF Joined

LEMMA IdsOfJoined ==
    ASSUME NEW u, NEW s, NEW t, NEW n, Joined(u, s, t, n)
    PROVE  IdsOf(u) = IdsOf(s) \cup IdsOf(t)
  <1>1. IdsOf(u) \subseteq IdsOf(s) \cup IdsOf(t)
    BY DEF IdsOf, Joined
  <1>2. IdsOf(s) \subseteq IdsOf(u) /\ IdsOf(t) \subseteq IdsOf(u)
    BY DEF IdsOf, Joined
  <1>. QED
    BY <1>1, <1>2

LEMMA NoRepeatJoined ==
    ASSUME NEW u, NEW s, NEW t, NEW n, Joined(u, s, t, n)
    PROVE  NoRepeat(u) <=> NoRepeat(s) /\ NoRepeat(t) /\ IdsOf(s) \cap IdsOf(t) = {}
  <1>1. ASSUME NoRepeat(u) PROVE NoRepeat(s)
    BY <1>1 DEF NoRepeat, Joined
  <1>2. ASSUME NoRepeat(u) PROVE NoRepeat(t)
    <2> SUFFICES ASSUME NEW i \in DOMAIN t, NEW j \in DOMAIN t, t[i].id = t[j].id PROVE i = j
      BY DEF NoRepeat
    <2>1. n + i = n + j /\ n \in Nat /\ i \in Nat /\ j \in Nat
      BY <1>2 DEF NoRepeat, Joined
    <2>. QED
      BY <2>1
  <1>3. ASSUME NoRepeat(u), NEW i \in DOMAIN s, NEW j \in DOMAIN t PROVE s[i].id # t[j].id
    <2>1. i # n + j
      BY DEF Joined
    <2>. QED
      BY <1>3, <2>1 DEF NoRepeat, Joined
  <1>4. ASSUME NoRepeat(s), NoRepeat(t), \A i \in DOMAIN s, j \in DOMAIN t : s[i].id # t[j].id
        PROVE  NoRepeat(u)
    BY <1>4 DEF NoRepeat, Joined
  <1>5. IdsOf(s) \cap IdsOf(t) = {} <=> \A i \in DOMAIN s, j \in DOMAIN t : s[i].id # t[j].id
    BY DEF IdsOf
  <1>. QED
    BY <1>1, <1>2, <1>3, <1>4, <1>5

LEMMA SortedJoined ==
    ASSUME NEW u, NEW s, NEW t, NEW n, Joined(u, s, t, n), NEW o
    PROVE  Sorted(u, o) <=>
               Sorted(s, o) /\ Sorted(t, o) /\ \A a \in IdsOf(s), b \in IdsOf(t) : a \in o[b]
  <1>1. ASSUME Sorted(u, o) PROVE Sorted(s, o)
    BY <1>1 DEF Sorted, Joined
  <1>2. ASSUME Sorted(u, o) PROVE Sorted(t, o)
    <2> SUFFICES ASSUME NEW i \in DOMAIN t, NEW j \in DOMAIN t, i < j PROVE t[i].id \in o[t[j].id]
      BY DEF Sorted
    <2>1. n + i < n + j
      BY DEF Joined
    <2>. QED
      BY <1>2, <2>1 DEF Sorted, Joined
  <1>3. ASSUME Sorted(u, o), NEW i \in DOMAIN s, NEW j \in DOMAIN t PROVE s[i].id \in o[t[j].id]
    <2>1. i < n + j
      BY DEF Joined
    <2>. QED
      BY <1>3, <2>1 DEF Sorted, Joined
  <1>4. ASSUME Sorted(s, o), Sorted(t, o), \A i \in DOMAIN s, j \in DOMAIN t : s[i].id \in o[t[j].id]
        PROVE  Sorted(u, o)
    <2> SUFFICES ASSUME NEW i \in DOMAIN u, NEW j \in DOMAIN u, i < j PROVE u[i].id \in o[u[j].id]
      BY DEF Sorted
    <2>1. CASE i \in DOMAIN s /\ j \in DOMAIN s
      BY <1>4, <2>1 DEF Sorted, Joined
    <2>2. CASE i \in DOMAIN s /\ j \notin DOMAIN s
      BY <1>4, <2>2 DEF Joined
    <2>3. CASE i \notin DOMAIN s
      <3>1. PICK k \in DOMAIN t : i = n + k
        BY <2>3 DEF Joined
      <3>2. PICK l \in DOMAIN t : j = n + l
        <4>1. ~(n + k < j /\ j <= n)
          BY <3>1 DEF Joined
        <4>2. CASE j \in DOMAIN s
          BY <3>1, <4>1, <4>2 DEF Joined
        <4>3. CASE j \notin DOMAIN s
          BY <4>3 DEF Joined
        <4>. QED
          BY <4>2, <4>3
      <3>3. k < l /\ u[i] = t[k] /\ u[j] = t[l]
        BY <3>1, <3>2 DEF Joined
      <3>. QED
        BY <1>4, <3>3 DEF Sorted
    <2>. QED
      BY <2>1, <2>2, <2>3
  <1>5. (\A a \in IdsOf(s), b \in IdsOf(t) : a \in o[b])
          <=> \A i \in DOMAIN s, j \in DOMAIN t : s[i].id \in o[t[j].id]
    BY DEF IdsOf
  <1>. QED
    BY <1>1, <1>2, <1>3, <1>4, <1>5

LEMMA Concat ==
    ASSUME NEW s \in List, NEW t \in List
    PROVE  /\ s \o t \in List
           /\ IdsOf(s \o t) = IdsOf(s) \cup IdsOf(t)
           /\ ToSet(s \o t) = ToSet(s) \cup ToSet(t)
           /\ NoRepeat(s \o t) <=> NoRepeat(s) /\ NoRepeat(t) /\ IdsOf(s) \cap IdsOf(t) = {}
           /\ \A o : Sorted(s \o t, o) <=> /\ Sorted(s, o) /\ Sorted(t, o)
                                           /\ \A a \in IdsOf(s), b \in IdsOf(t) : a \in o[b]
  <1>1. s \o t \in List
    BY ConcatProperties DEF List
  <1>2. PICK u, n : u = s \o t /\ Joined(u, s, t, n)
    BY ConcatIsJoined
  <1>3. IdsOf(u) = IdsOf(s) \cup IdsOf(t)
    BY <1>2, IdsOfJoined
  <1>4. NoRepeat(u) <=> NoRepeat(s) /\ NoRepeat(t) /\ IdsOf(s) \cap IdsOf(t) = {}
    BY <1>2, NoRepeatJoined
  <1>5. \A o : Sorted(u, o) <=> /\ Sorted(s, o) /\ Sorted(t, o)
                                /\ \A a \in IdsOf(s), b \in IdsOf(t) : a \in o[b]
    BY <1>2, SortedJoined
  <1>6. ToSet(u) \subseteq ToSet(s) \cup ToSet(t)
    BY <1>2 DEF ToSet, Joined
  <1>7. ToSet(s) \subseteq ToSet(u) /\ ToSet(t) \subseteq ToSet(u)
    BY <1>2 DEF ToSet, Joined
  <1>. QED
    BY <1>1, <1>2, <1>3, <1>4, <1>5, <1>6, <1>7

-----------------------------------------------------------------------------
(* Taking lists apart. *)

LEMMA Associative ==
    ASSUME NEW s \in List, NEW t \in List, NEW u \in List
    PROVE  (s \o t) \o u = s \o (t \o u)
  BY ConcatAssociative DEF List

LEMMA Single ==
    ASSUME NEW e \in CommandEnvelope
    PROVE  /\ <<e>> \in List /\ IdsOf(<<e>>) = {e.id} /\ NoRepeat(<<e>>)
           /\ \A o : Sorted(<<e>>, o)
           /\ ToSet(<<e>>) = {e}
  BY DEF List, IdsOf, NoRepeat, Sorted, ToSet

LEMMA Empty ==
    /\ <<>> \in List /\ IdsOf(<<>>) = {} /\ NoRepeat(<<>>) /\ ToSet(<<>>) = {}
    /\ \A o : Sorted(<<>>, o)
  BY DEF List, IdsOf, NoRepeat, Sorted, ToSet

LEMMA Members ==
    ASSUME NEW s \in List
    PROVE  /\ ToSet(s) \subseteq CommandEnvelope /\ IdsOf(s) \subseteq Msg
           /\ IdsOf(s) = {e.id : e \in ToSet(s)}
           /\ IdsOf(s) = ToSet(Ids(s))
           /\ s = <<>> <=> ToSet(s) = {}
           /\ \A e : Contains(s, e) <=> e \in ToSet(s)
  <1>1. /\ DOMAIN s = 1..Len(s) /\ Len(s) \in Nat
        /\ \A i \in DOMAIN s : s[i] \in CommandEnvelope
    BY LenProperties, ElementOfSeq DEF List
  <1>2. s = <<>> <=> Len(s) = 0
    BY EmptySeq DEF List
  <1>3. s = <<>> <=> ToSet(s) = {}
    <2>1. ToSet(s) = {} <=> 1..Len(s) = {}
      BY <1>1 DEF ToSet
    <2>2. 1..Len(s) = {} <=> Len(s) = 0
      BY <1>1
    <2>. QED
      BY <1>2, <2>1, <2>2
  <1>4. \A e : Contains(s, e) <=> e \in ToSet(s)
    BY <1>1 DEF Contains, ToSet
  <1>5. ToSet(s) \subseteq CommandEnvelope /\ IdsOf(s) \subseteq Msg
    BY <1>1 DEF ToSet, IdsOf, CommandEnvelope
  <1>6. IdsOf(s) = {e.id : e \in ToSet(s)}
    BY DEF ToSet, IdsOf
  <1>7. IdsOf(s) = ToSet(Ids(s))
    BY DEF ToSet, IdsOf, Ids
  <1>. QED
    BY <1>3, <1>4, <1>5, <1>6, <1>7

LEMMA FrontAndLast ==
    ASSUME NEW s \in List, s # <<>>
    PROVE  Front(s) \in List /\ Last(s) \in CommandEnvelope /\ s = Front(s) \o <<Last(s)>>
  <1>1. Len(s) \in Nat \ {0} /\ \A i \in 1..Len(s) : s[i] \in CommandEnvelope
    BY EmptySeq, ElementOfSeq DEF List
  <1>2. Front(s) \in List
    BY <1>1, SubSeqProperties DEF Front, List
  <1>3. SubSeq(s, 1, Len(s)) = SubSeq(s, 1, Len(s) - 1) \o <<s[Len(s)]>>
    BY <1>1, SubSeqRecursiveSecond DEF List
  <1>. QED
    BY <1>1, <1>2, <1>3, SubSeqFull DEF Front, Last, List

LEMMA HeadAndTail ==
    ASSUME NEW s \in List, s # <<>>
    PROVE  Head(s) \in CommandEnvelope /\ Tail(s) \in List /\ s = <<Head(s)>> \o Tail(s)
  <1>1. Len(s) \in Nat \ {0} /\ \A i \in 1..Len(s) : s[i] \in CommandEnvelope
    BY EmptySeq, ElementOfSeq DEF List
  <1>2. SubSeq(s, 1, Len(s)) = <<s[1]>> \o SubSeq(s, 2, Len(s))
    BY <1>1, SubSeqRecursiveFirst DEF List
  <1>3. Head(s) = s[1]
    BY DEF List
  <1>. QED
    BY <1>1, <1>2, <1>3, SubSeqFull, TailIsSubSeq, HeadTailProperties DEF List

LEMMA RemoveFirstSplits ==
    ASSUME NEW s \in List, NEW e \in ToSet(s)
    PROVE  \E a, b \in List : s = a \o (<<e>> \o b) /\ RemoveFirst(s, e) = a \o b
  <1> DEFINE I == {i \in 1..Len(s) : s[i] = e}
  <1>1. /\ Len(s) \in Nat /\ DOMAIN s = 1..Len(s)
        /\ \A i \in 1..Len(s) : s[i] \in CommandEnvelope
    BY LenProperties, ElementOfSeq DEF List
  <1>2. I \in SUBSET Nat /\ I # {} /\ \E i \in 1..Len(s) : s[i] = e
    BY <1>1 DEF ToSet
  <1>3. Min(I) \in I
    <2> HIDE DEF I
    <2>. QED
      BY <1>2, Least DEF Min
  <1>4. RemoveFirst(s, e) = RemoveAt(s, Min(I))
    BY <1>2 DEF RemoveFirst, SelectInSeq
  <1>5. PICK k \in 1..Len(s) : s[k] = e /\ RemoveFirst(s, e) = RemoveAt(s, k)
    BY <1>3, <1>4
  <1>6. SubSeq(s, 1, k - 1) \in List /\ SubSeq(s, k + 1, Len(s)) \in List
    BY <1>1, SubSeqProperties DEF List
  <1>7. SubSeq(s, 1, k - 1) \o SubSeq(s, (k - 1) + 1, Len(s)) = SubSeq(s, 1, Len(s))
    BY <1>1, ConcatAdjacentSubSeq DEF List
  <1>8. SubSeq(s, k, Len(s)) = <<s[k]>> \o SubSeq(s, k + 1, Len(s))
    BY <1>1, SubSeqRecursiveFirst DEF List
  <1>9. s = SubSeq(s, 1, k - 1) \o (<<e>> \o SubSeq(s, k + 1, Len(s)))
    <2>1. (k - 1) + 1 = k
      OBVIOUS
    <2>2. SubSeq(s, 1, Len(s)) = s
      BY SubSeqFull DEF List
    <2>. QED
      BY <1>5, <1>7, <1>8, <2>1, <2>2, Zenon
  <1>. QED
    BY <1>5, <1>6, <1>9 DEF RemoveAt

-----------------------------------------------------------------------------
(* BULK_MOVE: many moves, one after the other. *)

(* f[i] are the lists l after i moves. *)
Moves(f, l, source, destination, from, to, n) ==
    f = [i \in 0..n |-> IF i = 0 THEN l ELSE LMove(f[i - 1], source, destination, from, to)]

LEMMA MovesExist ==
    ASSUME NEW l, NEW source, NEW destination, NEW from, NEW to, NEW n \in Nat
    PROVE  \E f : Moves(f, l, source, destination, from, to, n)
  <1> DEFINE P(k) == \E f : Moves(f, l, source, destination, from, to, k)
  <1>1. P(0)
    <2>1. Moves([i \in 0..0 |-> l], l, source, destination, from, to, 0)
      BY DEF Moves
    <2>. QED
      BY <2>1
  <1>2. ASSUME NEW k \in Nat, P(k) PROVE P(k + 1)
    <2>1. PICK f : Moves(f, l, source, destination, from, to, k)
      BY <1>2
    <2> DEFINE g == [i \in 0..k + 1 |-> IF i <= k THEN f[i] ELSE LMove(f[k], source, destination, from, to)]
    <2>2. ASSUME NEW i \in 0..k + 1
          PROVE  g[i] = IF i = 0 THEN l ELSE LMove(g[i - 1], source, destination, from, to)
      <3>1. CASE i = 0
        BY <2>1, <3>1 DEF Moves
      <3>2. CASE i \in 1..k
        <4>1. f[i] = LMove(f[i - 1], source, destination, from, to)
          BY <2>1, <3>2 DEF Moves
        <4>2. g[i] = f[i] /\ g[i - 1] = f[i - 1]
          BY <3>2
        <4>. QED
          BY <3>2, <4>1, <4>2
      <3>3. CASE i = k + 1
        <4>1. g[i] = LMove(f[k], source, destination, from, to) /\ g[i - 1] = f[k] /\ i # 0
          BY <3>3
        <4>. QED
          BY <4>1
      <3>. QED
        BY <3>1, <3>2, <3>3
    <2>3. g = [i \in 0..k + 1 |-> IF i = 0 THEN l ELSE LMove(g[i - 1], source, destination, from, to)]
      BY <2>2
    <2>4. Moves(g, l, source, destination, from, to, k + 1)
      BY <2>3 DEF Moves
    <2>. QED
      BY <2>4
  <1> DEFINE T == {k \in Nat : ~P(k)}
  <1> HIDE DEF P
  <1>3. T = {}
    <2> SUFFICES ASSUME T # {} PROVE FALSE
      OBVIOUS
    <2>1. PICK k \in T : \A y \in T : k <= y
      BY Least
    <2>2. k \in Nat /\ ~P(k) /\ k # 0
      BY <1>1
    <2>3. k - 1 \in Nat /\ k - 1 \notin T /\ (k - 1) + 1 = k
      BY <2>1, <2>2
    <2>. QED
      BY <1>2, <2>2, <2>3
  <1>. QED
    BY <1>3 DEF P

LEMMA BulkMoveIs ==
    ASSUME NEW source, NEW destination, NEW from, NEW to, NEW n \in Nat
    PROVE  BulkMove(source, destination, from, to, n)
             = (CHOOSE f : Moves(f, list, source, destination, from, to, n))[n]
  BY DEF BulkMove, Moves

(* A property of the lists that a move keeps holds after all of them. *)
LEMMA MovesKeep ==
    ASSUME NEW l, NEW source, NEW destination, NEW from, NEW to, NEW n \in Nat, NEW f,
           Moves(f, l, source, destination, from, to, n), NEW G, l \in G[0],
           \A i \in 0..n : \A k \in G[i] : LMove(k, source, destination, from, to) \in G[i + 1]
    PROVE  f[n] \in G[n]
  <1> DEFINE T == {i \in 0..n : f[i] \notin G[i]}
  <1>1. f[0] \in G[0]
    BY DEF Moves
  <1>2. ASSUME NEW i \in 1..n, f[i - 1] \in G[i - 1] PROVE f[i] \in G[i]
    <2>1. f[i] = LMove(f[i - 1], source, destination, from, to)
      BY <1>2 DEF Moves
    <2>2. i - 1 \in 0..n /\ (i - 1) + 1 = i
      OBVIOUS
    <2>. QED
      BY <1>2, <2>1, <2>2
  <1>3. T = {}
    <2> SUFFICES ASSUME T # {} PROVE FALSE
      OBVIOUS
    <2>1. T \in SUBSET Nat
      OBVIOUS
    <2>2. PICK k \in T : \A y \in T : k <= y
      <3> HIDE DEF T
      <3>. QED
        BY <2>1, Least
    <2>3. k \in 1..n /\ k - 1 \in 0..n /\ k - 1 \notin T
      BY <1>1, <2>2
    <2>. QED
      BY <1>2, <2>3
  <1>. QED
    BY <1>3

Recovered(l, x, y) == [l EXCEPT !["inProgress"] = y, !["pending"] = @ \o x]

LEMMA RecoverMove ==
    ASSUME NEW l \in [Stage -> List], NEW x \in List, NEW y \in List
    PROVE  LMove(Recovered(l, x, y), "inProgress", "pending", "LEFT", "RIGHT")
             = IF y = <<>> THEN Recovered(l, x, y) ELSE Recovered(l, x \o <<Head(y)>>, Tail(y))
  <1>1. PICK k : k = Recovered(l, x, y)
    OBVIOUS
  <1>2. /\ k["inProgress"] = y /\ k["pending"] = l["pending"] \o x
        /\ k \in [Stage -> List]
    BY <1>1, ConcatProperties DEF Recovered, Stage, List
  <1>3. CASE y = <<>>
    BY <1>1, <1>2, <1>3 DEF LMove
  <1>4. CASE y # <<>>
    <2>1. Append(k["pending"], Head(y)) = (l["pending"] \o x) \o <<Head(y)>>
      BY <1>2, <1>4, AppendIsConcat, HeadAndTail DEF Stage, List
    <2>2. (l["pending"] \o x) \o <<Head(y)>> = l["pending"] \o (x \o <<Head(y)>>)
      <3>1. PICK a \in List, b \in List : a = <<Head(y)>> /\ b = l["pending"]
        BY <1>4, HeadAndTail, Single DEF Stage
      <3>2. (b \o x) \o a = b \o (x \o a)
        BY Associative
      <3>. QED
        BY <3>1, <3>2
    <2>3. LMove(k, "inProgress", "pending", "LEFT", "RIGHT")
            = [k EXCEPT !["inProgress"] = Tail(y), !["pending"] = l["pending"] \o (x \o <<Head(y)>>)]
      BY <1>2, <1>4, <2>1, <2>2 DEF LMove
    <2>4. PICK z : z = x \o <<Head(y)>>
      OBVIOUS
    <2>5. [k EXCEPT !["inProgress"] = Tail(y), !["pending"] = l["pending"] \o z] = Recovered(l, z, Tail(y))
      BY <1>1, <1>2 DEF Recovered, Stage
    <2>. QED
      BY <1>1, <1>4, <2>3, <2>4, <2>5
  <1>. QED
    BY <1>3, <1>4

(* k is l after i moves of a recover: the oldest claims x have gone, in     *)
(* their order, to the right end of pending.                               *)
RecoverAfter(l, i, k) ==
    \E x, y \in List : l["inProgress"] = x \o y /\ k = Recovered(l, x, y) /\ (i = 0 => x = <<>>)

LEMMA RecoverGoesOn ==
    ASSUME NEW l \in [Stage -> List], NEW i \in Nat, NEW k, RecoverAfter(l, i, k)
    PROVE  RecoverAfter(l, i + 1, LMove(k, "inProgress", "pending", "LEFT", "RIGHT"))
  <1>1. PICK x \in List, y \in List : l["inProgress"] = x \o y /\ k = Recovered(l, x, y)
    BY DEF RecoverAfter
  <1>2. i + 1 # 0
    OBVIOUS
  <1>3. CASE y = <<>>
    <2>1. LMove(k, "inProgress", "pending", "LEFT", "RIGHT") = Recovered(l, x, y)
      BY <1>1, <1>3, RecoverMove
    <2>. QED
      BY <1>1, <1>2, <2>1 DEF RecoverAfter
  <1>4. CASE y # <<>>
    <2>1. LMove(k, "inProgress", "pending", "LEFT", "RIGHT") = Recovered(l, x \o <<Head(y)>>, Tail(y))
      BY <1>1, <1>4, RecoverMove
    <2>2. <<Head(y)>> \in List /\ Tail(y) \in List /\ y = <<Head(y)>> \o Tail(y)
      BY <1>4, HeadAndTail, Single
    <2>3. x \o <<Head(y)>> \in List /\ (x \o <<Head(y)>>) \o Tail(y) = x \o (<<Head(y)>> \o Tail(y))
      BY <2>2, ConcatProperties, ConcatAssociative DEF List
    <2>4. l["inProgress"] = (x \o <<Head(y)>>) \o Tail(y)
      BY <1>1, <2>2, <2>3
    <2>5. PICK z \in List, t \in List : z = x \o <<Head(y)>> /\ t = Tail(y)
      BY <2>2, <2>3
    <2>. QED
      BY <1>2, <2>1, <2>4, <2>5 DEF RecoverAfter
  <1>. QED
    BY <1>3, <1>4

LEMMA RecoverAfterType ==
    ASSUME NEW l \in [Stage -> List], NEW i, NEW k, RecoverAfter(l, i, k)
    PROVE  k \in [Stage -> List]
  <1>1. PICK x \in List, y \in List : k = Recovered(l, x, y)
    BY DEF RecoverAfter
  <1>. QED
    BY <1>1, ConcatProperties DEF Recovered, Stage, List

(* A recover moves the oldest claims, in their order. *)
LEMMA RecoverMoves ==
    ASSUME list \in [Stage -> List], NEW n \in Nat
    PROVE  RecoverAfter(list, n, BulkMove("inProgress", "pending", "LEFT", "RIGHT", n))
  <1> DEFINE G == [i \in 0..n + 1 |-> {k \in [Stage -> List] : RecoverAfter(list, i, k)}]
  <1>1. list \in G[0]
    <2>1. /\ <<>> \in List /\ list["inProgress"] \in List /\ list["inProgress"] = <<>> \o list["inProgress"]
          /\ list["pending"] \o <<>> = list["pending"]
      BY ConcatEmptySeq, EmptySeq DEF List, Stage
    <2>2. list = Recovered(list, <<>>, list["inProgress"])
      BY <2>1 DEF Recovered, Stage
    <2>3. RecoverAfter(list, 0, list)
      BY <2>1, <2>2 DEF RecoverAfter
    <2>. QED
      BY <2>3
  <1>2. ASSUME NEW i \in 0..n, NEW k \in G[i]
        PROVE  LMove(k, "inProgress", "pending", "LEFT", "RIGHT") \in G[i + 1]
    <2>1. PICK j : j = LMove(k, "inProgress", "pending", "LEFT", "RIGHT")
      OBVIOUS
    <2>2. i \in Nat /\ i + 1 \in 0..n + 1 /\ RecoverAfter(list, i, k)
      OBVIOUS
    <2>3. RecoverAfter(list, i + 1, j)
      BY <2>1, <2>2, RecoverGoesOn
    <2>4. j \in [Stage -> List]
      BY <2>3, RecoverAfterType
    <2>. QED
      BY <2>1, <2>2, <2>3, <2>4
  <1>3. BulkMove("inProgress", "pending", "LEFT", "RIGHT", n) \in G[n]
    <2>1. PICK f : /\ Moves(f, list, "inProgress", "pending", "LEFT", "RIGHT", n)
                   /\ BulkMove("inProgress", "pending", "LEFT", "RIGHT", n) = f[n]
      BY MovesExist, BulkMoveIs
    <2> HIDE DEF G
    <2>2. f[n] \in G[n]
      BY <1>1, <1>2, <2>1, MovesKeep
    <2>. QED
      BY <2>1, <2>2
  <1>. QED
    BY <1>3

Republished(l, x, y) == [l EXCEPT !["failed"] = y, !["pending"] = x \o @]

LEMMA RepublishMove ==
    ASSUME NEW l \in [Stage -> List], NEW x \in List, NEW y \in List
    PROVE  LMove(Republished(l, x, y), "failed", "pending", "RIGHT", "LEFT")
             = IF y = <<>> THEN Republished(l, x, y) ELSE Republished(l, <<Last(y)>> \o x, Front(y))
  <1>1. PICK k : k = Republished(l, x, y)
    OBVIOUS
  <1>2. /\ k["failed"] = y /\ k["pending"] = x \o l["pending"]
        /\ k \in [Stage -> List]
    BY <1>1, ConcatProperties DEF Republished, Stage, List
  <1>3. CASE y = <<>>
    BY <1>1, <1>2, <1>3 DEF LMove
  <1>4. CASE y # <<>>
    <2>1. <<Last(y)>> \o k["pending"] = (<<Last(y)>> \o x) \o l["pending"]
      <3>1. <<Last(y)>> \in List /\ l["pending"] \in List
        BY <1>4, FrontAndLast, Single DEF Stage
      <3>2. PICK a \in List, b \in List : a = <<Last(y)>> /\ b = l["pending"]
        BY <3>1
      <3>3. (a \o x) \o b = a \o (x \o b)
        BY Associative
      <3>. QED
        BY <1>2, <3>2, <3>3
    <2>2. LMove(k, "failed", "pending", "RIGHT", "LEFT")
            = [k EXCEPT !["failed"] = Front(y), !["pending"] = (<<Last(y)>> \o x) \o l["pending"]]
      BY <1>2, <1>4, <2>1 DEF LMove
    <2>3. PICK z : z = <<Last(y)>> \o x
      OBVIOUS
    <2>4. [k EXCEPT !["failed"] = Front(y), !["pending"] = z \o l["pending"]] = Republished(l, z, Front(y))
      BY <1>1, <1>2 DEF Republished, Stage
    <2>. QED
      BY <1>1, <1>4, <2>2, <2>3, <2>4
  <1>. QED
    BY <1>3, <1>4

(* k is l after i moves of a republication: the last failures x, i of them  *)
(* or all, have gone, in their order, to the left end of pending.           *)
RepublishAfter(l, i, k) ==
    \E x, y \in List : /\ l["failed"] = y \o x /\ k = Republished(l, x, y)
                       /\ Len(x) = IF i < Len(l["failed"]) THEN i ELSE Len(l["failed"])

LEMMA RepublishGoesOn ==
    ASSUME NEW l \in [Stage -> List], NEW i \in Nat, NEW k, RepublishAfter(l, i, k)
    PROVE  RepublishAfter(l, i + 1, LMove(k, "failed", "pending", "RIGHT", "LEFT"))
  <1>1. PICK x \in List, y \in List :
           /\ l["failed"] = y \o x /\ k = Republished(l, x, y)
           /\ Len(x) = IF i < Len(l["failed"]) THEN i ELSE Len(l["failed"])
    BY DEF RepublishAfter
  <1>2. Len(l["failed"]) = Len(y) + Len(x) /\ Len(y) \in Nat /\ Len(x) \in Nat
    BY <1>1, ConcatProperties, LenProperties DEF List
  <1>3. CASE y = <<>>
    <2>1. LMove(k, "failed", "pending", "RIGHT", "LEFT") = Republished(l, x, y)
      BY <1>1, <1>3, RepublishMove
    <2>2. Len(y) = 0
      BY <1>3, EmptySeq
    <2>3. Len(x) = IF i + 1 < Len(l["failed"]) THEN i + 1 ELSE Len(l["failed"])
      BY <1>1, <1>2, <2>2
    <2>. QED
      BY <1>1, <2>1, <2>3 DEF RepublishAfter
  <1>4. CASE y # <<>>
    <2>1. LMove(k, "failed", "pending", "RIGHT", "LEFT") = Republished(l, <<Last(y)>> \o x, Front(y))
      BY <1>1, <1>4, RepublishMove
    <2>2. <<Last(y)>> \in List /\ Front(y) \in List /\ y = Front(y) \o <<Last(y)>>
      BY <1>4, FrontAndLast, Single
    <2>3. /\ <<Last(y)>> \o x \in List
          /\ Front(y) \o (<<Last(y)>> \o x) = (Front(y) \o <<Last(y)>>) \o x
      BY <2>2, ConcatProperties, ConcatAssociative DEF List
    <2>4. l["failed"] = Front(y) \o (<<Last(y)>> \o x)
      BY <1>1, <2>2, <2>3
    <2>5. Len(<<Last(y)>> \o x) = 1 + Len(x) /\ Len(y) # 0
      <3>1. Len(<<Last(y)>> \o x) = Len(<<Last(y)>>) + Len(x)
        BY <2>2, ConcatProperties DEF List
      <3>2. Len(<<Last(y)>>) = 1
        OBVIOUS
      <3>3. Len(y) # 0
        BY <1>4, EmptySeq DEF List
      <3>. QED
        BY <3>1, <3>2, <3>3
    <2>6. PICK z \in List, t \in List : z = <<Last(y)>> \o x /\ t = Front(y)
      BY <2>2, <2>3
    <2>7. Len(z) = IF i + 1 < Len(l["failed"]) THEN i + 1 ELSE Len(l["failed"])
      BY <1>1, <1>2, <2>5, <2>6
    <2>. QED
      BY <2>1, <2>4, <2>6, <2>7 DEF RepublishAfter
  <1>. QED
    BY <1>3, <1>4

LEMMA RepublishAfterType ==
    ASSUME NEW l \in [Stage -> List], NEW i, NEW k, RepublishAfter(l, i, k)
    PROVE  k \in [Stage -> List]
  <1>1. PICK x \in List, y \in List : k = Republished(l, x, y)
    BY DEF RepublishAfter
  <1>. QED
    BY <1>1, ConcatProperties DEF Republished, Stage, List

LEMMA RepublishMoves ==
    ASSUME list \in [Stage -> List], NEW n \in Nat
    PROVE  RepublishAfter(list, n, BulkMove("failed", "pending", "RIGHT", "LEFT", n))
  <1> DEFINE G == [i \in 0..n + 1 |-> {k \in [Stage -> List] : RepublishAfter(list, i, k)}]
  <1>1. list \in G[0]
    <2>1. /\ <<>> \in List /\ list["failed"] \in List /\ list["failed"] = list["failed"] \o <<>>
          /\ <<>> \o list["pending"] = list["pending"]
      BY ConcatEmptySeq, EmptySeq DEF List, Stage
    <2>2. list = Republished(list, <<>>, list["failed"])
      BY <2>1 DEF Republished, Stage
    <2>3. Len(<<>>) = IF 0 < Len(list["failed"]) THEN 0 ELSE Len(list["failed"])
      BY <2>1, EmptySeq, LenProperties DEF List
    <2>4. RepublishAfter(list, 0, list)
      BY <2>1, <2>2, <2>3 DEF RepublishAfter
    <2>. QED
      BY <2>4
  <1>2. ASSUME NEW i \in 0..n, NEW k \in G[i]
        PROVE  LMove(k, "failed", "pending", "RIGHT", "LEFT") \in G[i + 1]
    <2>1. PICK j : j = LMove(k, "failed", "pending", "RIGHT", "LEFT")
      OBVIOUS
    <2>2. i \in Nat /\ i + 1 \in 0..n + 1 /\ RepublishAfter(list, i, k)
      OBVIOUS
    <2>3. RepublishAfter(list, i + 1, j)
      BY <2>1, <2>2, RepublishGoesOn
    <2>4. j \in [Stage -> List]
      BY <2>3, RepublishAfterType
    <2>. QED
      BY <2>1, <2>2, <2>3, <2>4
  <1>3. BulkMove("failed", "pending", "RIGHT", "LEFT", n) \in G[n]
    <2>1. PICK f : /\ Moves(f, list, "failed", "pending", "RIGHT", "LEFT", n)
                   /\ BulkMove("failed", "pending", "RIGHT", "LEFT", n) = f[n]
      BY MovesExist, BulkMoveIs
    <2> HIDE DEF G
    <2>2. f[n] \in G[n]
      BY <1>1, <1>2, <2>1, MovesKeep
    <2>. QED
      BY <2>1, <2>2
  <1>. QED
    BY <1>3

(* The messages that enter pending are the ones that moved. *)
LEMMA RepublishedIds ==
    ASSUME NEW x \in List, NEW y \in List, NEW n \in Nat, NEW s, s = y \o x,
           Len(x) = IF n < Len(s) THEN n ELSE Len(s)
    PROVE  SubSeq(s, IF n < Len(s) THEN Len(s) - n + 1 ELSE 1, Len(s)) = x
  <1>1. s \in List /\ Len(s) = Len(y) + Len(x) /\ Len(y) \in Nat /\ Len(x) \in Nat
    BY ConcatProperties, LenProperties DEF List
  <1>2. (IF n < Len(s) THEN Len(s) - n + 1 ELSE 1) = Len(y) + 1
    BY <1>1
  <1>3. CASE Len(x) = 0
    <2>1. SubSeq(s, Len(y) + 1, Len(s)) = <<>>
      BY <1>1, <1>3, SubSeqEmpty
    <2>2. x = <<>>
      BY <1>3, EmptySeq DEF List
    <2>. QED
      BY <1>2, <2>1, <2>2
  <1>4. CASE Len(x) # 0
    <2>1. Len(y) + 1 \in Len(y) + 1 .. Len(y) + Len(x) /\ Len(s) \in Len(y) + 1 .. Len(y) + Len(x)
      BY <1>1, <1>4
    <2>2. SubSeq(s, Len(y) + 1, Len(s)) = SubSeq(x, Len(y) + 1 - Len(y), Len(s) - Len(y))
      BY <2>1, SubSeqOfConcat2 DEF List
    <2>3. Len(y) + 1 - Len(y) = 1 /\ Len(s) - Len(y) = Len(x)
      BY <1>1
    <2>. QED
      BY <1>2, <2>2, <2>3, SubSeqFull DEF List
  <1>. QED
    BY <1>3, <1>4

=============================================================================
