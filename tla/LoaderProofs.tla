---------------------------- MODULE LoaderProofs ----------------------------
(***************************************************************************)
(* What the plugin loader gives the command registry and the schedule,     *)
(* proved for every set of plugins, files, commands and schedules.         *)
(***************************************************************************)
EXTENDS StartupProofs, SequenceTheorems

(* Sequences of any elements. *)
LEMMA RangeFacts ==
    ASSUME NEW S, NEW t \in Seq(S)
    PROVE  /\ t \in Seq(Range(t)) /\ Range(t) \subseteq S
           /\ DOMAIN t = 1..Len(t) /\ Len(t) \in Nat
           /\ \A i \in 1..Len(t) : t[i] \in Range(t)
  <1>1. DOMAIN t = 1..Len(t) /\ Len(t) \in Nat /\ t \in [1..Len(t) -> S]
    BY LenProperties
  <1>2. \A i \in 1..Len(t) : t[i] \in Range(t)
    BY <1>1 DEF Range
  <1>3. t \in [1..Len(t) -> Range(t)]
    BY <1>1, <1>2
  <1>4. t \in Seq(Range(t))
    BY <1>1, <1>3, SeqDef
  <1>. QED
    BY <1>1, <1>2, <1>4 DEF Range

LEMMA TailFacts ==
    ASSUME NEW s, s \in Seq(Range(s)), s # <<>>
    PROVE  /\ Tail(s) \in Seq(Range(Tail(s)))
           /\ 1 \in DOMAIN s /\ Head(s) = s[1] /\ Head(s) \in Range(s)
           /\ \A i \in DOMAIN Tail(s) : i \in Nat /\ i > 0 /\ i + 1 \in DOMAIN s /\ Tail(s)[i] = s[i + 1]
           /\ Range(Tail(s)) \subseteq Range(s)
           /\ Range(s) \subseteq {Head(s)} \cup Range(Tail(s))
  <1> DEFINE S == Range(s)
  <1>1. /\ Tail(s) \in Seq(S) /\ Len(Tail(s)) = Len(s) - 1 /\ Len(s) \in Nat /\ Len(s) > 0
        /\ \A i \in 1 .. Len(s) - 1 : Tail(s)[i] = s[i + 1]
    <2> HIDE DEF S
    <2>1. s \in Seq(S)
      BY DEF S
    <2>. QED
      BY <2>1
  <1>2. DOMAIN s = 1..Len(s) /\ DOMAIN Tail(s) = 1 .. Len(s) - 1
    BY <1>1, LenProperties
  <1>3. Head(s) = s[1] /\ 1 \in DOMAIN s
    BY <1>1, <1>2
  <1>4. \A i \in DOMAIN Tail(s) : i \in Nat /\ i > 0 /\ i + 1 \in DOMAIN s /\ Tail(s)[i] = s[i + 1]
    BY <1>1, <1>2
  <1>5. \A i \in DOMAIN s : i = 1 \/ (i - 1 \in DOMAIN Tail(s) /\ Tail(s)[i - 1] = s[i])
    BY <1>1, <1>2
  <1>6. Tail(s) \in Seq(Range(Tail(s))) /\ Range(Tail(s)) \subseteq S
    <2> HIDE DEF S
    <2>. QED
      BY <1>1, RangeFacts
  <1>7. Range(s) \subseteq {Head(s)} \cup Range(Tail(s))
    <2> SUFFICES ASSUME NEW i \in DOMAIN s PROVE s[i] = Head(s) \/ s[i] \in Range(Tail(s))
      BY DEF Range
    <2>1. CASE i = 1
      BY <1>3, <2>1
    <2>2. CASE i - 1 \in DOMAIN Tail(s) /\ Tail(s)[i - 1] = s[i]
      BY <2>2 DEF Range
    <2>. QED
      BY <1>5, <2>1, <2>2
  <1>8. Head(s) \in Range(s)
    BY <1>3 DEF Range
  <1>. QED
    BY <1>3, <1>4, <1>6, <1>7, <1>8

LEMMA AppendFacts ==
    ASSUME NEW s, s \in Seq(Range(s)), NEW e
    PROVE  /\ Append(s, e) \in Seq(Range(Append(s, e)))
           /\ Range(Append(s, e)) = Range(s) \cup {e}
           /\ \A i \in DOMAIN Append(s, e) : (i \in DOMAIN s /\ Append(s, e)[i] = s[i])
                                          \/ (i = Len(s) + 1 /\ Append(s, e)[i] = e)
           /\ DOMAIN s = 1..Len(s) /\ Len(s) \in Nat
  <1> DEFINE S == Range(s) \cup {e}
  <1>1. /\ Append(s, e) \in Seq(S) /\ Len(s) \in Nat /\ Len(Append(s, e)) = Len(s) + 1 /\ DOMAIN s = 1..Len(s)
        /\ \A i \in 1..Len(s) : Append(s, e)[i] = s[i]
        /\ Append(s, e)[Len(s) + 1] = e
    <2> HIDE DEF S
    <2>1. s \in Seq(S) /\ e \in S
      BY SeqDef DEF S
    <2>. QED
      BY <2>1, AppendProperties, LenProperties
  <1>2. DOMAIN Append(s, e) = 1 .. Len(s) + 1
    BY <1>1, LenProperties
  <1>3. \A i \in DOMAIN Append(s, e) : (i \in DOMAIN s /\ Append(s, e)[i] = s[i])
                                    \/ (i = Len(s) + 1 /\ Append(s, e)[i] = e)
    BY <1>1, <1>2
  <1>4. Range(Append(s, e)) = Range(s) \cup {e}
    <2>1. Range(Append(s, e)) \subseteq Range(s) \cup {e}
      BY <1>3 DEF Range
    <2>2. Range(s) \subseteq Range(Append(s, e))
      BY <1>1, <1>2 DEF Range
    <2>3. e \in Range(Append(s, e))
      BY <1>1, <1>2 DEF Range
    <2>. QED
      BY <2>1, <2>2, <2>3
  <1>. QED
    BY <1>1, <1>3, <1>4

-----------------------------------------------------------------------------
(* FlattenSeq. *)

(* u has the elements of the first n sequences of s, in their order. *)
Flat(u, s, n) ==
    /\ \A a \in 1..n : Range(s[a]) \subseteq Range(u)
    /\ \A k \in DOMAIN u : \E a \in 1..n : u[k] \in Range(s[a])
    /\ \A k, l \in DOMAIN u : k < l => \E a, b \in 1..n : a <= b /\ u[k] \in Range(s[a]) /\ u[l] \in Range(s[b])

(* f[i] are the first i sequences of s, joined. *)
Joins(f, s, n) == f = [i \in 1..n |-> IF i = 1 THEN s[i] ELSE f[i - 1] \o s[i]]

LEMMA FlattenIs ==
    ASSUME NEW s, Len(s) # 0
    PROVE  FlattenSeq(s) = (CHOOSE f : Joins(f, s, Len(s)))[Len(s)]
  BY DEF FlattenSeq, Joins

LEMMA JoinsExist ==
    ASSUME NEW s, NEW n \in Nat
    PROVE  \E f : Joins(f, s, n)
  <1> DEFINE P(k) == \E f : Joins(f, s, k)
  <1>1. P(0)
    <2>1. Joins([i \in 1..0 |-> s], s, 0)
      BY DEF Joins
    <2>. QED
      BY <2>1
  <1>2. ASSUME NEW k \in Nat, P(k) PROVE P(k + 1)
    <2>1. PICK f : Joins(f, s, k)
      BY <1>2
    <2> DEFINE g == [i \in 1 .. k + 1 |-> IF i <= k THEN f[i] ELSE IF i = 1 THEN s[i] ELSE f[k] \o s[i]]
    <2>2. ASSUME NEW i \in 1 .. k + 1
          PROVE  g[i] = IF i = 1 THEN s[i] ELSE g[i - 1] \o s[i]
      <3>0. PICK h : h = g
        OBVIOUS
      <3>1. CASE i <= k
        <4>1. f[i] = IF i = 1 THEN s[i] ELSE f[i - 1] \o s[i]
          <5> HIDE DEF g
          <5>1. i \in 1..k
            BY <3>1
          <5>. QED
            BY <2>1, <5>1, Zenon DEF Joins
        <4>2. h[i] = f[i]
          BY <3>0, <3>1
        <4>3. i # 1 => h[i - 1] = f[i - 1]
          <5>1. i # 1 => i - 1 \in 1 .. k + 1 /\ i - 1 <= k
            BY <3>1
          <5>. QED
            BY <3>0, <5>1
        <4>. QED
          <5>1. h[i] = IF i = 1 THEN s[i] ELSE h[i - 1] \o s[i]
            <6> HIDE DEF g
            <6>. QED
              BY <4>1, <4>2, <4>3
          <5>. QED
            BY <3>0, <5>1
      <3>2. CASE i = k + 1
        <4>1. i # 1 => h[i - 1] = f[k]
          <5>1. i # 1 => i - 1 = k /\ k \in 1 .. k + 1 /\ k <= k
            BY <3>2
          <5>. QED
            BY <3>0, <5>1
        <4>2. h[i] = IF i = 1 THEN s[i] ELSE f[k] \o s[i]
          <5>1. ~(i <= k)
            BY <3>2
          <5>. QED
            BY <3>0, <5>1
        <4>. QED
          <5>1. h[i] = IF i = 1 THEN s[i] ELSE h[i - 1] \o s[i]
            <6> HIDE DEF g
            <6>. QED
              BY <4>1, <4>2
          <5>. QED
            BY <3>0, <5>1
      <3>. QED
        BY <3>1, <3>2
    <2>3. g = [i \in 1 .. k + 1 |-> IF i = 1 THEN s[i] ELSE g[i - 1] \o s[i]]
      BY <2>2
    <2>4. Joins(g, s, k + 1)
      BY <2>3 DEF Joins
    <2>. QED
      BY <2>4
  <1> DEFINE T == {k \in Nat : ~P(k)}
  <1> HIDE DEF P
  <1>3. T = {}
    <2> SUFFICES ASSUME T # {} PROVE FALSE
      OBVIOUS
    <2>1. PICK k \in T : \A y \in T : k <= y
      BY Least
    <2>2. k \in Nat /\ ~P(k) /\ k # 0
      BY <1>1
    <2>3. k - 1 \in Nat /\ k - 1 \notin T /\ (k - 1) + 1 = k
      BY <2>1, <2>2
    <2>. QED
      BY <1>2, <2>2, <2>3
  <1>. QED
    BY <1>3 DEF P

(* One more sequence is joined. *)
LEMMA FlatGrows ==
    ASSUME NEW S, NEW s, NEW n \in Nat, n > 0, NEW u \in Seq(S), Flat(u, s, n), s[n + 1] \in Seq(S)
    PROVE  u \o s[n + 1] \in Seq(S) /\ Flat(u \o s[n + 1], s, n + 1)
  <1>1. PICK t \in Seq(S) : t = s[n + 1]
    OBVIOUS
  <1>2. PICK w : w = u \o t
    OBVIOUS
  <1>3. /\ w \in Seq(S) /\ Len(w) = Len(u) + Len(t)
        /\ \A i \in 1 .. Len(u) + Len(t) : w[i] = IF i <= Len(u) THEN u[i] ELSE t[i - Len(u)]
    BY <1>2, ConcatProperties
  <1>4. /\ Len(u) \in Nat /\ Len(t) \in Nat
        /\ DOMAIN u = 1..Len(u) /\ DOMAIN t = 1..Len(t) /\ DOMAIN w = 1 .. Len(u) + Len(t)
    BY <1>3, LenProperties
  <1>5. \A i \in DOMAIN w : (i <= Len(u) /\ i \in DOMAIN u /\ w[i] = u[i]) \/ (i > Len(u) /\ w[i] \in Range(t))
    <2> SUFFICES ASSUME NEW i \in DOMAIN w, i > Len(u) PROVE w[i] \in Range(t)
      BY <1>3, <1>4
    <2>1. i - Len(u) \in DOMAIN t /\ w[i] = t[i - Len(u)]
      BY <1>3, <1>4
    <2>. QED
      BY <2>1 DEF Range
  <1>6. Range(u) \subseteq Range(w)
    BY <1>3, <1>4 DEF Range
  <1>7. Range(t) \subseteq Range(w)
    <2>1. \A i \in DOMAIN t : Len(u) + i \in DOMAIN w /\ w[Len(u) + i] = t[i]
      BY <1>3, <1>4
    <2>. QED
      BY <2>1 DEF Range
  <1>8. \A a \in 1 .. n + 1 : a \in 1..n \/ s[a] = t
    BY <1>1
  <1>9. \A a \in 1 .. n + 1 : Range(s[a]) \subseteq Range(w)
    BY <1>6, <1>7, <1>8 DEF Flat
  <1>10. \A k \in DOMAIN w : \E a \in 1 .. n + 1 : w[k] \in Range(s[a])
    <2>1. n + 1 \in 1 .. n + 1 /\ \A a \in 1..n : a \in 1 .. n + 1
      OBVIOUS
    <2>. QED
      BY <1>1, <1>5, <2>1 DEF Flat
  <1>11. ASSUME NEW k \in DOMAIN w, NEW l \in DOMAIN w, k < l
         PROVE  \E a, b \in 1 .. n + 1 : a <= b /\ w[k] \in Range(s[a]) /\ w[l] \in Range(s[b])
    <2>1. CASE l <= Len(u)
      <3>1. k \in DOMAIN u /\ l \in DOMAIN u /\ w[k] = u[k] /\ w[l] = u[l]
        BY <1>3, <1>4, <1>11, <2>1
      <3>2. PICK a, b \in 1..n : a <= b /\ u[k] \in Range(s[a]) /\ u[l] \in Range(s[b])
        BY <1>11, <3>1 DEF Flat
      <3>3. a \in 1 .. n + 1 /\ b \in 1 .. n + 1
        OBVIOUS
      <3>. QED
        BY <3>1, <3>2, <3>3
    <2>2. CASE l > Len(u)
      <3>1. w[l] \in Range(s[n + 1])
        BY <1>1, <1>4, <1>5, <2>2
      <3>2. PICK a \in 1 .. n + 1 : w[k] \in Range(s[a])
        BY <1>10
      <3>3. a <= n + 1 /\ n + 1 \in 1 .. n + 1
        OBVIOUS
      <3>. QED
        BY <3>1, <3>2, <3>3
    <2>. QED
      BY <1>4, <2>1, <2>2
  <1>. QED
    BY <1>1, <1>2, <1>3, <1>9, <1>10, <1>11 DEF Flat

LEMMA FlattenFacts ==
    ASSUME NEW S, NEW s \in Seq(Seq(S))
    PROVE  FlattenSeq(s) \in Seq(S) /\ Flat(FlattenSeq(s), s, Len(s))
  <1>1. Len(s) \in Nat /\ \A a \in 1..Len(s) : s[a] \in Seq(S)
    BY LenProperties
  <1>2. CASE Len(s) = 0
    <2>1. FlattenSeq(s) = <<>>
      BY <1>2, EmptySeq DEF FlattenSeq
    <2>. QED
      BY <1>2, <2>1 DEF Flat
  <1>3. CASE Len(s) # 0
    <2>1. PICK f : f = (CHOOSE g : Joins(g, s, Len(s))) /\ Joins(f, s, Len(s))
      BY <1>1, JoinsExist
    <2>2. \A i \in 1..Len(s) : f[i] = IF i = 1 THEN s[i] ELSE f[i - 1] \o s[i]
      BY <2>1 DEF Joins
    <2> DEFINE Bad == {i \in 1..Len(s) : ~(f[i] \in Seq(S) /\ Flat(f[i], s, i))}
    <2>3. Bad = {}
      <3> SUFFICES ASSUME Bad # {} PROVE FALSE
        OBVIOUS
      <3>1. PICK i \in Bad : \A j \in Bad : i <= j
        <4>1. Bad \in SUBSET Nat
          BY <1>1
        <4> HIDE DEF Bad
        <4>. QED
          BY <4>1, Least
      <3>2. i # 1
        <4>1. f[1] = s[1] /\ s[1] \in Seq(S) /\ 1 \in 1..1
          BY <1>1, <1>3, <2>2
        <4>2. Flat(s[1], s, 1)
          <5>1. \A k \in DOMAIN s[1] : s[1][k] \in Range(s[1])
            BY DEF Range
          <5>2. \A a \in 1..1 : a = 1
            OBVIOUS
          <5>. QED
            BY <4>1, <5>1, <5>2 DEF Flat
        <4>. QED
          BY <4>1, <4>2
      <3>3. i - 1 \in Nat /\ i - 1 > 0 /\ (i - 1) + 1 = i /\ i - 1 \in 1..Len(s) /\ i - 1 \notin Bad
        BY <1>1, <3>1, <3>2
      <3>4. f[i - 1] \in Seq(S) /\ Flat(f[i - 1], s, i - 1) /\ s[(i - 1) + 1] \in Seq(S)
        BY <1>1, <3>3
      <3>5. f[i - 1] \o s[(i - 1) + 1] \in Seq(S) /\ Flat(f[i - 1] \o s[(i - 1) + 1], s, (i - 1) + 1)
        BY <3>3, <3>4, FlatGrows
      <3>6. f[i] = f[i - 1] \o s[i]
        BY <2>2, <3>2
      <3>. QED
        BY <3>3, <3>5, <3>6
    <2>4. Len(s) \in 1..Len(s)
      BY <1>1, <1>3
    <2>5. FlattenSeq(s) = f[Len(s)]
      BY <1>3, <2>1, FlattenIs
    <2>. QED
      BY <2>3, <2>4, <2>5
  <1>. QED
    BY <1>2, <1>3

-----------------------------------------------------------------------------
(* The inductive invariant. *)

(* The place of a component among the sorted files of its plugin. *)
Pos(n, x) == CHOOSE a \in DOMAIN Files[n] : Files[n][a] = x

(* A file of a directory that has been opened. *)
IsOpened(p) ==
    \E n \in DOMAIN spec.plugins \ todo : \E a \in DOMAIN Files[n] :
        p = [name |-> n, component |-> Files[n][a]]

Before(p, q) == p.name = q.name => Pos(p.name, p.component) <= Pos(q.name, q.component)

InPathOrder(s) == \A i, j \in DOMAIN s : i < j => Before(s[i], s[j])

(* The loader has the files of a plugin in the order of their paths, those *)
(* it has loaded before those that are left.                               *)
LoadInv ==
    /\ spec \in Specs /\ todo \subseteq DOMAIN spec.plugins
    /\ plugins \in Seq(Range(plugins)) /\ work \in Seq(Range(work))
    /\ schedule \in Seq(Range(schedule))
    /\ \A p \in Range(plugins) : IsOpened(p)
    /\ InPathOrder(plugins)
    /\ phase = "load" =>
         /\ \A q \in Range(work) : IsOpened(q)
         /\ InPathOrder(work)
         /\ \A p \in Range(plugins), q \in Range(work) : Before(p, q)
    /\ phase \in {"config", "plugins"} => plugins = <<>> /\ work = <<>>
    /\ phase \in {"config", "plugins", "load"} => registry = {} /\ schedule = <<>>

(* What the component of p lists, as a descriptor, a registration, a job. *)
Entry(p, x) == [plugin |-> p.name, entry |-> x, by |-> p.component]
Item(p, c) == [plugin |-> p.name, command |-> c, by |-> p.component]

(* d is one of the entries of the components that loaded. *)
IsEntry(d, list) == \E p \in Range(plugins) : \E x \in Range(list[p.component]) : d = Entry(p, x)
IsItem(e) == \E p \in Range(plugins) : \E c \in Range(Commands[p.component]) : e = Item(p, c)

(* The registry has c for p, from p or an earlier component. *)
Has(p, c) == \E e \in registry : /\ e.plugin = p.name /\ e.command = c
                                 /\ Pos(p.name, e.by) <= Pos(p.name, p.component)

Sooner(d, e) == d.plugin = e.plugin => Pos(e.plugin, d.by) <= Pos(e.plugin, e.by)

(* The registry grows by the descriptors in load order. *)
RegistryInv ==
    registry # {} =>
        /\ Builtins \subseteq registry
        /\ \A e \in registry : e \in Builtins \/ IsItem(e)
        /\ \A e, f \in registry : e.plugin = f.plugin /\ e.command = f.command => e = f
        /\ \A p \in Range(plugins) : \A c \in Range(Commands[p.component]) :
             Has(p, c) \/ (phase = "register" /\ Entry(p, c) \in Range(work))

RegisterInv ==
    phase = "register" =>
        /\ registry # {}
        /\ \A d \in Range(work) : IsEntry(d, Commands)
        /\ \A i, j \in DOMAIN work : i < j => Sooner(work[i], work[j])
        /\ \A e \in registry, d \in Range(work) : Sooner(e, d)

ScheduleInv ==
    /\ phase \in {"schedule", "run", "call"} /\ request = "server" => registry # {}
    /\ \A j \in Range(schedule) : IsItem(j)
    /\ phase = "schedule" => \A d \in Range(work) : IsEntry(d, Schedules)
    /\ phase = "schedule" \/ (phase \in {"run", "call"} /\ request = "server") =>
         \A p \in Range(plugins) : \A x \in Range(Schedules[p.component]) :
            Schedulable(Entry(p, x)) =>
                \/ Item(p, x.command) \in Range(schedule)
                \/ phase = "schedule" /\ Entry(p, x) \in Range(work)

LoaderInv == LoadInv /\ RegistryInv /\ RegisterInv /\ ScheduleInv

-----------------------------------------------------------------------------
(* The files of a plugin and what a component lists. *)

LEMMA PosFacts ==
    ASSUME NEW n \in DOMAIN Files, NEW a \in DOMAIN Files[n]
    PROVE  Pos(n, Files[n][a]) = a /\ a \in Nat /\ Files[n][a] \in DOMAIN Commands
  <1>1. Files[n] \in Seq(DOMAIN Commands) /\ IsInjective(Files[n])
    BY StartupAssumption
  <1>2. a \in Nat /\ Files[n][a] \in DOMAIN Commands
    BY <1>1
  <1>3. \A b \in DOMAIN Files[n] : Files[n][b] = Files[n][a] => b = a
    BY <1>1 DEF IsInjective
  <1>. QED
    BY <1>2, <1>3 DEF Pos

LEMMA OpenedFacts ==
    ASSUME LoadInv, NEW p, IsOpened(p)
    PROVE  /\ p.name \in DOMAIN spec.plugins /\ p.name \in DOMAIN Files
           /\ p.component \in DOMAIN Commands
           /\ Pos(p.name, p.component) \in DOMAIN Files[p.name]
           /\ Pos(p.name, p.component) \in Nat
           /\ Files[p.name][Pos(p.name, p.component)] = p.component
           /\ p = [name |-> p.name, component |-> p.component]
  <1>1. PICK n \in DOMAIN spec.plugins \ todo : \E a \in DOMAIN Files[n] :
            p = [name |-> n, component |-> Files[n][a]]
    BY DEF IsOpened
  <1>2. PICK a \in DOMAIN Files[n] : p = [name |-> n, component |-> Files[n][a]]
    BY <1>1
  <1>3. n \in DOMAIN Files
    BY StartupAssumption DEF LoadInv
  <1>4. p.name = n /\ p.component = Files[n][a]
    BY <1>2
  <1>. QED
    BY <1>2, <1>3, <1>4, PosFacts

LEMMA PluginFacts ==
    ASSUME LoadInv, NEW p \in Range(plugins)
    PROVE  /\ IsOpened(p) /\ p.component \in DOMAIN Commands
           /\ Commands[p.component] \in Seq(Range(Commands[p.component]))
           /\ Schedules[p.component] \in Seq(Range(Schedules[p.component]))
  <1>1. IsOpened(p)
    BY DEF LoadInv
  <1>2. p.component \in DOMAIN Commands
    BY <1>1, OpenedFacts
  <1>. QED
    BY <1>1, <1>2, StartupAssumption

(* What the loaded components list, in load order. *)
LEMMA ListedFacts ==
    ASSUME LoadInv, NEW list, list = Commands \/ list = Schedules
    PROVE  /\ Listed(list) \in Seq(Range(Listed(list)))
           /\ \A d \in Range(Listed(list)) : IsEntry(d, list)
           /\ \A p \in Range(plugins) : \A x \in Range(list[p.component]) :
                 Entry(p, x) \in Range(Listed(list))
           /\ \A i, j \in DOMAIN Listed(list) : i < j => Sooner(Listed(list)[i], Listed(list)[j])
  <1> DEFINE of(p) == [i \in DOMAIN list[p.component] |-> Entry(p, list[p.component][i])]
             s == [i \in DOMAIN plugins |-> of(plugins[i])]
             S == UNION {{Entry(p, x) : x \in Range(list[p.component])} : p \in Range(plugins)}
  <1>1. Listed(list) = FlattenSeq(s)
    BY DEF Listed, Entry
  <1>2. DOMAIN plugins = 1..Len(plugins) /\ Len(plugins) \in Nat
        /\ \A i \in DOMAIN plugins : plugins[i] \in Range(plugins)
    BY RangeFacts DEF LoadInv
  <1>3. ASSUME NEW p \in Range(plugins)
        PROVE  of(p) \in Seq(S) /\ Range(of(p)) = {Entry(p, x) : x \in Range(list[p.component])}
    <2>1. list[p.component] \in Seq(Range(list[p.component]))
      BY PluginFacts
    <2>2. /\ DOMAIN list[p.component] = 1..Len(list[p.component]) /\ Len(list[p.component]) \in Nat
          /\ \A i \in DOMAIN list[p.component] : list[p.component][i] \in Range(list[p.component])
      BY <2>1, RangeFacts
    <2>3. \A i \in DOMAIN list[p.component] : Entry(p, list[p.component][i]) \in S
      BY <2>2
    <2>4. of(p) \in [1..Len(list[p.component]) -> S]
      BY <2>2, <2>3
    <2>5. of(p) \in Seq(S)
      BY <2>2, <2>4, SeqDef
    <2>6. Range(of(p)) = {Entry(p, x) : x \in Range(list[p.component])}
      BY DEF Range
    <2>. QED
      BY <2>5, <2>6
  <1>4. s \in Seq(Seq(S)) /\ Len(s) = Len(plugins) /\ \A i \in 1..Len(s) : s[i] = of(plugins[i])
    <2>1. s \in [1..Len(plugins) -> Seq(S)]
      BY <1>2, <1>3
    <2>2. s \in Seq(Seq(S))
      BY <1>2, <2>1, SeqDef
    <2>. QED
      BY <1>2, <2>2, LenProperties
  <1>5. PICK u : u = FlattenSeq(s)
    OBVIOUS
  <1>6. u \in Seq(S) /\ Flat(u, s, Len(s))
    <2> HIDE DEF S, s
    <2>. QED
      BY <1>4, <1>5, FlattenFacts
  <1>7. u \in Seq(Range(u)) /\ DOMAIN u = 1..Len(u)
    <2> HIDE DEF S, s
    <2>. QED
      BY <1>6, RangeFacts
  <1> HIDE DEF s, S, of
  <1>8. ASSUME NEW a \in 1..Len(s)
        PROVE  /\ plugins[a] \in Range(plugins)
               /\ Range(s[a]) = {Entry(plugins[a], x) : x \in Range(list[plugins[a].component])}
    <2>1. a \in DOMAIN plugins /\ s[a] = of(plugins[a])
      BY <1>2, <1>4
    <2>2. plugins[a] \in Range(plugins)
      BY <1>2, <2>1
    <2>. QED
      BY <1>3, <2>1, <2>2
  <1>9. \A d \in Range(u) : IsEntry(d, list)
    <2> SUFFICES ASSUME NEW k \in DOMAIN u PROVE IsEntry(u[k], list)
      BY DEF Range
    <2>1. PICK a \in 1..Len(s) : u[k] \in Range(s[a])
      BY <1>6 DEF Flat
    <2>. QED
      BY <1>8, <2>1 DEF IsEntry
  <1>10. ASSUME NEW p \in Range(plugins), NEW x \in Range(list[p.component])
         PROVE  Entry(p, x) \in Range(u)
    <2>1. PICK a \in DOMAIN plugins : p = plugins[a]
      BY DEF Range
    <2>2. a \in 1..Len(s) /\ Entry(p, x) \in Range(s[a])
      BY <1>2, <1>4, <1>8, <2>1
    <2>. QED
      BY <1>6, <2>2 DEF Flat
  <1>11. ASSUME NEW i \in DOMAIN u, NEW j \in DOMAIN u, i < j PROVE Sooner(u[i], u[j])
    <2>1. PICK a, b \in 1..Len(s) : a <= b /\ u[i] \in Range(s[a]) /\ u[j] \in Range(s[b])
      BY <1>6, <1>11 DEF Flat
    <2>2. /\ u[i].plugin = plugins[a].name /\ u[i].by = plugins[a].component
          /\ u[j].plugin = plugins[b].name /\ u[j].by = plugins[b].component
      BY <1>8, <2>1 DEF Entry
    <2>3. Before(plugins[a], plugins[b])
      <3>1. CASE a = b
        <4>1. Pos(plugins[a].name, plugins[a].component) \in Nat
          BY <1>8, PluginFacts, OpenedFacts
        <4>. QED
          BY <3>1, <4>1 DEF Before
      <3>2. CASE a < b
        BY <1>2, <1>4, <3>2 DEF LoadInv, InPathOrder
      <3>. QED
        BY <1>2, <1>4, <2>1, <3>1, <3>2
    <2>. QED
      BY <2>2, <2>3 DEF Before, Sooner
  <1>12. Listed(list) = u
    BY <1>1, <1>5
  <1>13. \A p \in Range(plugins) : \A x \in Range(list[p.component]) : Entry(p, x) \in Range(u)
    BY <1>10
  <1>14. \A i, j \in DOMAIN u : i < j => Sooner(u[i], u[j])
    BY <1>11
  <1>. QED
    BY <1>7, <1>9, <1>12, <1>13, <1>14, Zenon

-----------------------------------------------------------------------------
(* The steps. *)

LEMMA NoElements == Range(<<>>) = {} /\ DOMAIN <<>> = {} /\ \A S : <<>> \in Seq(S)
  <1>1. DOMAIN <<>> = {}
    OBVIOUS
  <1>2. Range(<<>>) = {}
    BY <1>1 DEF Range
  <1>3. \A S : <<>> \in Seq(S)
    BY EmptySeq
  <1>. QED
    BY <1>1, <1>2, <1>3

LEMMA LoaderInit == Init => LoaderInv
  <1> SUFFICES ASSUME Init PROVE LoaderInv
    OBVIOUS
  <1>1. /\ phase = "config" /\ todo = {} /\ work = <<>> /\ plugins = <<>>
        /\ registry = {} /\ schedule = <<>> /\ spec \in Specs
    BY DEF Init
  <1>2. LoadInv
    BY <1>1, NoElements DEF LoadInv, InPathOrder
  <1>. QED
    BY <1>1, <1>2, NoElements DEF LoaderInv, RegistryInv, RegisterInv, ScheduleInv

(* Steps that leave the plugins, the registry and the schedule as they are. *)
LEMMA QuietKeeps ==
    ASSUME LoaderInv, UNCHANGED <<request, spec, todo, work, plugins, registry, schedule>>,
           \/ phase' = phase
           \/ phase' = "exit" /\ phase # "register"
           \/ phase = "config" /\ phase' = "plugins"
           \/ phase = "config" /\ phase' = "run" /\ request # "server"
           \/ phase \in {"run", "call"} /\ phase' \in {"run", "call"}
           \/ phase = "register" /\ work = <<>> /\ phase' = "run" /\ request # "server"
           \/ phase = "schedule" /\ work = <<>> /\ phase' = "run" /\ request = "server"
    PROVE  LoaderInv'
  <1>1. /\ \A p : IsOpened(p)' <=> IsOpened(p)
        /\ \A e : IsItem(e)' <=> IsItem(e)
        /\ \A d, list : IsEntry(d, list)' <=> IsEntry(d, list)
        /\ \A p, c : Has(p, c)' <=> Has(p, c)
    BY DEF IsOpened, IsItem, IsEntry, Has
  <1>2. LoadInv'
    BY <1>1 DEF LoaderInv, LoadInv, InPathOrder
  <1>3. RegistryInv'
    <2>1. CASE registry = {}
      BY <2>1 DEF RegistryInv
    <2>2. CASE registry # {}
      <3>1. /\ Builtins' = Builtins /\ registry' = registry /\ plugins' = plugins /\ work' = work
        BY DEF Builtins
      <3>2. phase = "register" => phase' = "register" \/ work = <<>>
        OBVIOUS
      <3>3. \A p \in Range(plugins) : \A c \in Range(Commands[p.component]) :
               Has(p, c)' \/ (phase' = "register" /\ Entry(p, c) \in Range(work))
        BY <1>1, <2>2, <3>2, NoElements DEF LoaderInv, RegistryInv
      <3>4. /\ Builtins \subseteq registry
            /\ \A e \in registry : e \in Builtins \/ IsItem(e)
            /\ \A e, f \in registry : e.plugin = f.plugin /\ e.command = f.command => e = f
        BY <2>2 DEF LoaderInv, RegistryInv
      <3>5. \A e \in registry : e \in Builtins \/ IsItem(e)'
        BY <1>1, <3>4
      <3>. QED
        BY <3>1, <3>3, <3>4, <3>5 DEF RegistryInv
    <2>. QED
      BY <2>1, <2>2
  <1>4. RegisterInv'
    BY <1>1 DEF LoaderInv, RegisterInv
  <1>5. ScheduleInv'
    BY <1>1, NoElements DEF LoaderInv, ScheduleInv
  <1>. QED
    BY <1>2, <1>3, <1>4, <1>5 DEF LoaderInv

(* While plugins are loaded there is no registry and no schedule. *)
LEMMA LoadingKeeps ==
    ASSUME LoaderInv, UNCHANGED <<registry, schedule>>, phase \in {"plugins", "load"},
           phase' = "load", LoadInv'
    PROVE  LoaderInv'
  <1>1. registry' = {} /\ schedule' = <<>>
    BY DEF LoaderInv, LoadInv
  <1>. QED
    BY <1>1, NoElements DEF LoaderInv, RegistryInv, RegisterInv, ScheduleInv

LEMMA StartRuntimeKeeps ==
    ASSUME LoaderInv, StartRuntime
    PROVE  LoaderInv'
  <1>1. /\ phase = "plugins" /\ phase' = "load" /\ plugins = <<>> /\ work = <<>>
        /\ UNCHANGED <<spec, plugins, work, registry, schedule>>
        /\ todo' \subseteq DOMAIN spec.plugins
        /\ spec \in Specs /\ registry = {} /\ schedule = <<>>
    BY DEF StartRuntime, LoaderInv, LoadInv
  <1>2. LoadInv'
    BY <1>1, NoElements DEF LoadInv, InPathOrder
  <1>. QED
    BY <1>1, <1>2, LoadingKeeps

(* A directory is opened once: none of its files was loaded before. *)
LEMMA OpenDirectoryKeeps ==
    ASSUME LoaderInv, NEW n \in todo, OpenDirectory(n)
    PROVE  LoaderInv'
  <1>1. /\ phase = "load" /\ phase' = "load" /\ work = <<>> /\ todo' = todo \ {n}
        /\ UNCHANGED <<spec, plugins, registry, schedule>>
        /\ n \in DOMAIN spec.plugins /\ n \in DOMAIN Files
    BY StartupAssumption DEF OpenDirectory, LoaderInv, LoadInv
  <1>2. \A p : IsOpened(p) => IsOpened(p)' /\ p.name # n
    BY <1>1 DEF IsOpened
  <1>3. work' \in Seq(Range(work')) /\ \A i \in DOMAIN work' : i \in DOMAIN Files[n]
           /\ work'[i] = [name |-> n, component |-> Files[n][i]]
    <2>1. CASE work' = work
      BY <1>1, <2>1, NoElements
    <2>2. CASE work' = [i \in DOMAIN Files[n] |-> [name |-> n, component |-> Files[n][i]]]
      <3>1. DOMAIN work' = DOMAIN Files[n]
        BY <2>2
      <3>2. DOMAIN Files[n] = 1..Len(Files[n]) /\ Len(Files[n]) \in Nat
        BY <1>1, StartupAssumption, LenProperties
      <3>3. \A i \in 1..Len(Files[n]) : work'[i] \in Range(work')
        BY <3>1, <3>2 DEF Range
      <3>4. work' \in [1..Len(Files[n]) -> Range(work')]
        BY <2>2, <3>2, <3>3
      <3>5. work' \in Seq(Range(work'))
        BY <3>2, <3>4, SeqDef
      <3>. QED
        BY <2>2, <3>5
    <2>. QED
      BY <2>1, <2>2 DEF OpenDirectory
  <1>4. \A i \in DOMAIN work' : /\ work'[i].name = n
                               /\ Pos(n, work'[i].component) = i /\ i \in Nat
    <2> TAKE i \in DOMAIN work'
    <2>1. i \in DOMAIN Files[n] /\ work'[i] = [name |-> n, component |-> Files[n][i]]
      BY <1>3
    <2>2. work'[i].name = n /\ work'[i].component = Files[n][i]
      BY <2>1
    <2>. QED
      BY <1>1, <2>1, <2>2, PosFacts
  <1>5. InPathOrder(work')
    BY <1>4 DEF InPathOrder, Before
  <1>6. \A q \in Range(work') : IsOpened(q)' /\ q.name = n
    <2> TAKE q \in Range(work')
    <2>1. PICK i \in DOMAIN work' : q = work'[i]
      BY DEF Range
    <2>2. n \in DOMAIN spec'.plugins \ todo'
      BY <1>1
    <2>3. IsOpened(q)'
      BY <1>3, <2>1, <2>2 DEF IsOpened
    <2>. QED
      BY <1>4, <2>1, <2>3
  <1>7. \A p \in Range(plugins'), q \in Range(work') : Before(p, q)
    BY <1>1, <1>2, <1>6 DEF LoaderInv, LoadInv, Before
  <1>8. LoadInv'
    <2>1. /\ spec \in Specs /\ todo' \subseteq DOMAIN spec.plugins
          /\ plugins \in Seq(Range(plugins)) /\ schedule \in Seq(Range(schedule))
          /\ \A p \in Range(plugins) : IsOpened(p)
          /\ InPathOrder(plugins) /\ registry = {} /\ schedule = <<>>
      BY <1>1 DEF LoaderInv, LoadInv
    <2>2. \A p \in Range(plugins) : IsOpened(p)'
      BY <1>2, <2>1
    <2>. QED
      BY <1>1, <1>3, <1>5, <1>6, <1>7, <2>1, <2>2 DEF LoadInv
  <1>. QED
    BY <1>1, <1>8, LoadingKeeps

(* The next file is done, and is one of the plugins or not. *)
LEMMA FileKeeps ==
    ASSUME LoaderInv, phase = "load", work # <<>>, work' = Tail(work),
           plugins' = plugins \/ plugins' = Append(plugins, Head(work)),
           UNCHANGED <<spec, phase, todo, registry, schedule>>
    PROVE  LoaderInv'
  <1>1. /\ plugins \in Seq(Range(plugins)) /\ work \in Seq(Range(work))
        /\ \A p \in Range(plugins) : IsOpened(p)
        /\ \A q \in Range(work) : IsOpened(q)
        /\ InPathOrder(plugins) /\ InPathOrder(work)
        /\ \A p \in Range(plugins), q \in Range(work) : Before(p, q)
    BY DEF LoaderInv, LoadInv
  <1>2. /\ work' \in Seq(Range(work')) /\ 1 \in DOMAIN work /\ Head(work) = work[1]
        /\ Head(work) \in Range(work) /\ Range(work') \subseteq Range(work)
        /\ \A i \in DOMAIN work' : i \in Nat /\ i > 0 /\ i + 1 \in DOMAIN work /\ work'[i] = work[i + 1]
    BY <1>1, TailFacts
  <1>3. \A p : IsOpened(p)' <=> IsOpened(p)
    BY DEF IsOpened
  <1>4. InPathOrder(work')
    BY <1>1, <1>2 DEF InPathOrder
  <1>5. \A q \in Range(work') : Before(Head(work), q)
    <2> SUFFICES ASSUME NEW i \in DOMAIN work' PROVE Before(work[1], work'[i])
      BY <1>2 DEF Range
    <2>. QED
      BY <1>1, <1>2 DEF InPathOrder
  <1>6. /\ plugins' \in Seq(Range(plugins')) /\ \A p \in Range(plugins') : IsOpened(p)
        /\ InPathOrder(plugins')
        /\ \A p \in Range(plugins'), q \in Range(work') : Before(p, q)
    <2>1. CASE plugins' = plugins
      BY <1>1, <1>2, <2>1
    <2>2. CASE plugins' = Append(plugins, Head(work))
      <3>1. /\ plugins' \in Seq(Range(plugins')) /\ Range(plugins') = Range(plugins) \cup {Head(work)}
            /\ \A i \in DOMAIN plugins' : (i \in DOMAIN plugins /\ plugins'[i] = plugins[i])
                                        \/ (i = Len(plugins) + 1 /\ plugins'[i] = Head(work))
            /\ DOMAIN plugins = 1..Len(plugins) /\ Len(plugins) \in Nat
        BY <1>1, <2>2, AppendFacts
      <3>2. \A p \in Range(plugins') : IsOpened(p)
        BY <1>1, <1>2, <3>1
      <3>3. \A p \in Range(plugins'), q \in Range(work') : Before(p, q)
        BY <1>1, <1>2, <1>5, <3>1
      <3>4. ASSUME NEW i \in DOMAIN plugins', NEW j \in DOMAIN plugins', i < j
            PROVE  Before(plugins'[i], plugins'[j])
        <4>1. i \in DOMAIN plugins /\ plugins'[i] = plugins[i]
          BY <3>1, <3>4
        <4>2. plugins[i] \in Range(plugins)
          BY <4>1 DEF Range
        <4>3. CASE j \in DOMAIN plugins /\ plugins'[j] = plugins[j]
          BY <1>1, <3>4, <4>1, <4>3 DEF InPathOrder
        <4>4. CASE plugins'[j] = Head(work)
          BY <1>1, <1>2, <4>1, <4>2, <4>4
        <4>. QED
          BY <3>1, <4>3, <4>4
      <3>5. InPathOrder(plugins')
        BY <3>4 DEF InPathOrder
      <3>. QED
        BY <3>1, <3>2, <3>3, <3>5
    <2>. QED
      BY <2>1, <2>2
  <1>7. LoadInv'
    <2>1. /\ spec \in Specs /\ todo \subseteq DOMAIN spec.plugins
          /\ schedule \in Seq(Range(schedule)) /\ registry = {} /\ schedule = <<>>
      BY DEF LoaderInv, LoadInv
    <2>2. \A p \in Range(plugins') : IsOpened(p)'
      BY <1>3, <1>6
    <2>3. \A q \in Range(work') : IsOpened(q)'
      BY <1>1, <1>2, <1>3
    <2>. QED
      BY <1>2, <1>4, <1>6, <2>1, <2>2, <2>3 DEF LoadInv
  <1>. QED
    BY <1>7, LoadingKeeps

(* Once the plugins are loaded they stay. *)
LEMMA LoadedKeeps ==
    ASSUME LoaderInv, UNCHANGED <<spec, todo, plugins>>,
           phase' \notin {"config", "plugins", "load"},
           work' \in Seq(Range(work')), schedule' \in Seq(Range(schedule'))
    PROVE  /\ LoadInv'
           /\ \A d, list : IsEntry(d, list)' <=> IsEntry(d, list)
           /\ \A e : IsItem(e)' <=> IsItem(e)
  <1>1. \A p : IsOpened(p)' <=> IsOpened(p)
    BY DEF IsOpened
  <1>2. LoadInv'
    BY <1>1 DEF LoaderInv, LoadInv
  <1>. QED
    BY <1>2 DEF IsEntry, IsItem

(* An accepted configuration has no plugin with the name of the built-in commands. *)
LEMMA NameIsFree ==
    ASSUME LoaderInv, IInv, phase \notin {"config", "exit"}, NEW p \in Range(plugins)
    PROVE  p.name # Builtin
  <1>1. p.name \in DOMAIN spec.plugins
    BY PluginFacts, OpenedFacts DEF LoaderInv
  <1>2. Errors(spec) = {}
    BY DEF IInv, SpecInv
  <1>. QED
    BY <1>1, <1>2 DEF Errors

LEMMA LoadDoneKeeps ==
    ASSUME LoaderInv, IInv, LoadDone
    PROVE  LoaderInv'
  <1>1. /\ phase = "load" /\ UNCHANGED <<request, spec, todo, plugins, schedule>>
        /\ registry = {} /\ schedule = <<>> /\ LoadInv
    BY DEF LoadDone, LoaderInv, LoadInv
  <1>2. PICK list : /\ list = Commands \/ list = Schedules
                    /\ work' = Listed(list)
                    /\ \/ list = Commands /\ phase' = "register" /\ registry' = Builtins
                       \/ list = Schedules /\ phase' = "schedule" /\ registry' = {} /\ request # "server"
    <2>1. CASE request = "schedule_list"
      BY <1>1, <2>1 DEF LoadDone
    <2>2. CASE request # "schedule_list"
      BY <2>2 DEF LoadDone
    <2>. QED
      BY <2>1, <2>2
  <1>3. /\ work' \in Seq(Range(work'))
        /\ \A d \in Range(work') : IsEntry(d, list)
        /\ \A p \in Range(plugins) : \A x \in Range(list[p.component]) : Entry(p, x) \in Range(work')
        /\ \A i, j \in DOMAIN work' : i < j => Sooner(work'[i], work'[j])
    BY <1>1, <1>2, ListedFacts
  <1>4. /\ LoadInv'
        /\ \A d : IsEntry(d, list)' <=> IsEntry(d, list)
    <2>1. schedule' \in Seq(Range(schedule')) /\ phase' \notin {"config", "plugins", "load"}
      BY <1>1, <1>2, NoElements
    <2>. QED
      BY <1>1, <1>3, <2>1, LoadedKeeps
  <1>5. Builtins' = Builtins /\ Builtins # {}
    BY DEF Builtins
  <1>6. \A e, f \in Builtins : /\ e.plugin = Builtin
                               /\ e.plugin = f.plugin /\ e.command = f.command => e = f
    BY DEF Builtins
  <1>7. RegistryInv'
    BY <1>1, <1>2, <1>3, <1>5, <1>6 DEF RegistryInv
  <1>8. RegisterInv'
    <2> SUFFICES ASSUME phase' = "register" PROVE RegisterInv'
      BY DEF RegisterInv
    <2>1. registry' = Builtins /\ list = Commands
      BY <1>2
    <2>2. \A d \in Range(work') : d.plugin # Builtin
      <3> TAKE d \in Range(work')
      <3>1. PICK p \in Range(plugins) : \E x \in Range(list[p.component]) : d = Entry(p, x)
        BY <1>3 DEF IsEntry
      <3>. QED
        BY <1>1, <3>1, NameIsFree DEF Entry
    <2>3. \A e \in registry', d \in Range(work') : Sooner(e, d)
      BY <1>6, <2>1, <2>2 DEF Sooner
    <2>4. \A d \in Range(work') : IsEntry(d, Commands)'
      BY <1>3, <1>4, <2>1
    <2>. QED
      BY <1>3, <1>5, <2>1, <2>3, <2>4 DEF RegisterInv
  <1>9. ScheduleInv'
    <2>1. \A j \in Range(schedule') : FALSE
      BY <1>1, NoElements
    <2>2. phase' = "schedule" => \A d \in Range(work') : IsEntry(d, Schedules)'
      BY <1>2, <1>3, <1>4
    <2>3. phase' \in {"register", "schedule"} /\ (phase' = "schedule" => request' # "server")
      BY <1>1, <1>2
    <2>4. phase' = "schedule" =>
             \A p \in Range(plugins') : \A x \in Range(Schedules[p.component]) : Entry(p, x) \in Range(work')
      BY <1>1, <1>2, <1>3
    <2>. QED
      BY <2>1, <2>2, <2>3, <2>4 DEF ScheduleInv
  <1>. QED
    BY <1>4, <1>7, <1>8, <1>9 DEF LoaderInv

(* The first of the descriptors is registered. *)
LEMMA RegisterNextKeeps ==
    ASSUME LoaderInv, IInv, RegisterNext
    PROVE  LoaderInv'
  <1>1. PICK d : d = Head(work)
    OBVIOUS
  <1>2. /\ phase = "register" /\ work # <<>> /\ work' = Tail(work) /\ registry' = Registered(d)
        /\ UNCHANGED <<request, spec, phase, todo, plugins, schedule>>
    BY <1>1 DEF RegisterNext
  <1>3. /\ LoadInv /\ work \in Seq(Range(work)) /\ schedule \in Seq(Range(schedule)) /\ registry # {}
        /\ \A c \in Range(work) : IsEntry(c, Commands)
        /\ \A i, j \in DOMAIN work : i < j => Sooner(work[i], work[j])
        /\ \A e \in registry, c \in Range(work) : Sooner(e, c)
    BY <1>2 DEF LoaderInv, LoadInv, RegisterInv
  <1>4. /\ Builtins \subseteq registry
        /\ \A e \in registry : e \in Builtins \/ IsItem(e)
        /\ \A e, f \in registry : e.plugin = f.plugin /\ e.command = f.command => e = f
        /\ \A p \in Range(plugins) : \A c \in Range(Commands[p.component]) :
             Has(p, c) \/ Entry(p, c) \in Range(work)
    BY <1>3 DEF LoaderInv, RegistryInv
  <1>5. /\ work' \in Seq(Range(work')) /\ 1 \in DOMAIN work /\ d = work[1]
        /\ d \in Range(work) /\ Range(work') \subseteq Range(work)
        /\ Range(work) \subseteq {d} \cup Range(work')
        /\ \A i \in DOMAIN work' : i \in Nat /\ i > 0 /\ i + 1 \in DOMAIN work /\ work'[i] = work[i + 1]
    BY <1>1, <1>2, <1>3, TailFacts
  <1>6. /\ LoadInv'
        /\ \A c, list : IsEntry(c, list)' <=> IsEntry(c, list)
        /\ \A e : IsItem(e)' <=> IsItem(e)
    BY <1>2, <1>3, <1>5, LoadedKeeps
  <1>7. PICK p \in Range(plugins) : \E x \in Range(Commands[p.component]) : d = Entry(p, x)
    BY <1>3, <1>5 DEF IsEntry
  <1>8. PICK x \in Range(Commands[p.component]) : d = Entry(p, x)
    BY <1>7
  <1>9. d.plugin = p.name /\ d.entry = x /\ d.by = p.component
    BY <1>8 DEF Entry
  <1>10. Pos(p.name, p.component) \in Nat
    BY <1>3, PluginFacts, OpenedFacts
  <1>11. \A i \in DOMAIN work' : Sooner(d, work'[i])
    BY <1>3, <1>5
  <1>12. PICK n : n = Item(p, x)
    OBVIOUS
  <1>13. n.plugin = p.name /\ n.command = x /\ n.by = p.component /\ IsItem(n)
    BY <1>12 DEF Item, IsItem
  <1>14. \/ registry' = registry /\ \E e \in registry : e.plugin = p.name /\ e.command = x
         \/ registry' = registry \cup {n} /\ \A e \in registry : ~(e.plugin = p.name /\ e.command = x)
    BY <1>2, <1>9, <1>12 DEF Registered, Item
  <1>15. \A q, c : Has(q, c) => Has(q, c)'
    BY <1>14 DEF Has
  <1>16. Has(p, x)'
    <2>1. CASE registry' = registry /\ \E e \in registry : e.plugin = p.name /\ e.command = x
      <3>1. PICK e \in registry : e.plugin = p.name /\ e.command = x
        BY <2>1
      <3>2. Sooner(e, d)
        BY <1>3, <1>5
      <3>. QED
        BY <1>9, <2>1, <3>1, <3>2 DEF Sooner, Has
    <2>2. CASE n \in registry'
      BY <1>10, <1>13, <2>2 DEF Has
    <2>. QED
      BY <1>14, <2>1, <2>2
  <1>17. RegistryInv'
    <2>1. Builtins' = Builtins
      BY DEF Builtins
    <2>2. Builtins \subseteq registry'
      BY <1>4, <1>14
    <2>3. \A e \in registry' : e \in Builtins \/ IsItem(e)
      BY <1>4, <1>13, <1>14
    <2>4. \A e, f \in registry' : e.plugin = f.plugin /\ e.command = f.command => e = f
      BY <1>4, <1>13, <1>14
    <2>5. ASSUME NEW q \in Range(plugins), NEW c \in Range(Commands[q.component])
          PROVE  Has(q, c)' \/ Entry(q, c) \in Range(work')
      <3>1. CASE Has(q, c)
        BY <1>15, <3>1
      <3>2. CASE Entry(q, c) = d
        <4>1. q.name = p.name /\ c = x /\ q.component = p.component
          BY <1>9, <3>2 DEF Entry
        <4>. QED
          BY <1>16, <4>1 DEF Has
      <3>. QED
        BY <1>4, <1>5, <3>1, <3>2
    <2>6. \A e \in registry' : e \in Builtins \/ IsItem(e)'
      BY <1>6, <2>3
    <2>. QED
      BY <1>2, <2>1, <2>2, <2>4, <2>5, <2>6 DEF RegistryInv
  <1>18. RegisterInv'
    <2>1. registry' # {}
      BY <1>3, <1>14
    <2>2. \A c \in Range(work') : IsEntry(c, Commands)'
      BY <1>3, <1>5, <1>6
    <2>3. \A i, j \in DOMAIN work' : i < j => Sooner(work'[i], work'[j])
      BY <1>3, <1>5
    <2>4. \A c \in Range(work') : Sooner(n, c)
      <3> SUFFICES ASSUME NEW i \in DOMAIN work' PROVE Sooner(n, work'[i])
        BY DEF Range
      <3>. QED
        BY <1>9, <1>11, <1>13 DEF Sooner
    <2>5. \A e \in registry', c \in Range(work') : Sooner(e, c)
      BY <1>3, <1>5, <1>14, <2>4
    <2>. QED
      BY <2>1, <2>2, <2>3, <2>5 DEF RegisterInv
  <1>19. ScheduleInv'
    BY <1>2, <1>6 DEF LoaderInv, ScheduleInv
  <1>. QED
    BY <1>6, <1>17, <1>18, <1>19 DEF LoaderInv

(* The server goes on to the schedules. *)
LEMMA RegisterDoneKeeps ==
    ASSUME LoaderInv, RegisterDone, request = "server"
    PROVE  LoaderInv'
  <1>1. /\ phase = "register" /\ work = <<>> /\ phase' = "schedule" /\ work' = Listed(Schedules)
        /\ UNCHANGED <<request, spec, todo, plugins, registry, schedule>>
    BY DEF RegisterDone
  <1>2. LoadInv /\ schedule \in Seq(Range(schedule)) /\ registry # {}
    BY <1>1 DEF LoaderInv, LoadInv, RegisterInv
  <1>3. /\ work' \in Seq(Range(work'))
        /\ \A d \in Range(work') : IsEntry(d, Schedules)
        /\ \A p \in Range(plugins) : \A x \in Range(Schedules[p.component]) : Entry(p, x) \in Range(work')
    BY <1>1, <1>2, ListedFacts
  <1>4. /\ LoadInv'
        /\ \A d, list : IsEntry(d, list)' <=> IsEntry(d, list)
        /\ \A e : IsItem(e)' <=> IsItem(e)
    BY <1>1, <1>2, <1>3, LoadedKeeps
  <1>5. RegistryInv'
    <2>1. /\ Builtins \subseteq registry
          /\ \A e \in registry : e \in Builtins \/ IsItem(e)
          /\ \A e, f \in registry : e.plugin = f.plugin /\ e.command = f.command => e = f
          /\ \A p \in Range(plugins) : \A c \in Range(Commands[p.component]) : Has(p, c)
      BY <1>1, <1>2, NoElements DEF LoaderInv, RegistryInv
    <2>2. Builtins' = Builtins
      BY DEF Builtins
    <2>3. \A p, c : Has(p, c)' <=> Has(p, c)
      BY <1>1 DEF Has
    <2>4. \A e \in registry : e \in Builtins \/ IsItem(e)'
      BY <1>4, <2>1
    <2>. QED
      BY <1>1, <2>1, <2>2, <2>3, <2>4 DEF RegistryInv
  <1>6. RegisterInv'
    BY <1>1 DEF RegisterInv
  <1>7. ScheduleInv'
    <2>1. \A j \in Range(schedule) : IsItem(j)'
      BY <1>4 DEF LoaderInv, ScheduleInv
    <2>2. \A d \in Range(work') : IsEntry(d, Schedules)'
      BY <1>3, <1>4
    <2>. QED
      BY <1>1, <1>2, <1>3, <2>1, <2>2 DEF ScheduleInv
  <1>. QED
    BY <1>4, <1>5, <1>6, <1>7 DEF LoaderInv

(* The first of the schedule entries becomes a job, or is skipped. *)
LEMMA ScheduleNextKeeps ==
    ASSUME LoaderInv, ScheduleNext
    PROVE  LoaderInv'
  <1>1. PICK d : d = Head(work)
    OBVIOUS
  <1>2. PICK n : n = [plugin |-> d.plugin, command |-> d.entry.command, by |-> d.by]
    OBVIOUS
  <1>3. /\ phase = "schedule" /\ work # <<>> /\ work' = Tail(work)
        /\ schedule' = IF Schedulable(d) THEN Append(schedule, n) ELSE schedule
        /\ UNCHANGED <<request, spec, phase, todo, plugins, registry>>
    BY <1>1, <1>2 DEF ScheduleNext
  <1>4. /\ LoadInv /\ work \in Seq(Range(work)) /\ schedule \in Seq(Range(schedule))
        /\ \A j \in Range(schedule) : IsItem(j)
        /\ \A c \in Range(work) : IsEntry(c, Schedules)
        /\ request = "server" => registry # {}
    BY <1>3 DEF LoaderInv, LoadInv, ScheduleInv
  <1>5. \A p \in Range(plugins) : \A x \in Range(Schedules[p.component]) :
           Schedulable(Entry(p, x)) =>
               Item(p, x.command) \in Range(schedule) \/ Entry(p, x) \in Range(work)
    BY <1>3 DEF LoaderInv, ScheduleInv
  <1>6. /\ work' \in Seq(Range(work')) /\ d \in Range(work) /\ Range(work') \subseteq Range(work)
        /\ Range(work) \subseteq {d} \cup Range(work')
    BY <1>1, <1>3, <1>4, TailFacts
  <1>7. /\ schedule' \in Seq(Range(schedule'))
        /\ Schedulable(d) => Range(schedule') = Range(schedule) \cup {n}
        /\ ~Schedulable(d) => Range(schedule') = Range(schedule)
    <2>1. CASE Schedulable(d)
      <3>1. schedule' = Append(schedule, n)
        BY <1>3, <2>1
      <3>. QED
        BY <1>4, <2>1, <3>1, AppendFacts
    <2>2. CASE ~Schedulable(d)
      BY <1>3, <1>4, <2>2
    <2>. QED
      BY <2>1, <2>2
  <1>8. /\ LoadInv'
        /\ \A c, list : IsEntry(c, list)' <=> IsEntry(c, list)
        /\ \A e : IsItem(e)' <=> IsItem(e)
    BY <1>3, <1>6, <1>7, LoadedKeeps
  <1>9. PICK p \in Range(plugins) : \E x \in Range(Schedules[p.component]) : d = Entry(p, x)
    BY <1>4, <1>6 DEF IsEntry
  <1>10. PICK x \in Range(Schedules[p.component]) : d = Entry(p, x)
    BY <1>9
  <1>11. d.plugin = p.name /\ d.entry = x /\ d.by = p.component
    BY <1>10 DEF Entry
  <1>12. n = Item(p, x.command)
    BY <1>2, <1>11 DEF Item
  <1>13. Schedulable(d) => IsItem(n)
    BY <1>11, <1>12 DEF Schedulable, IsItem
  <1>14. RegistryInv'
    <2>1. Builtins' = Builtins /\ \A q, c : Has(q, c)' <=> Has(q, c)
      BY <1>3 DEF Builtins, Has
    <2>2. registry # {} =>
              /\ Builtins \subseteq registry
              /\ \A e \in registry : e \in Builtins \/ IsItem(e)'
              /\ \A e, f \in registry : e.plugin = f.plugin /\ e.command = f.command => e = f
              /\ \A q \in Range(plugins) : \A c \in Range(Commands[q.component]) : Has(q, c)
      BY <1>3, <1>8 DEF LoaderInv, RegistryInv
    <2>. QED
      BY <1>3, <2>1, <2>2 DEF RegistryInv
  <1>15. RegisterInv'
    BY <1>3 DEF RegisterInv
  <1>16. ScheduleInv'
    <2>1. \A j \in Range(schedule') : IsItem(j)'
      BY <1>4, <1>7, <1>8, <1>13
    <2>2. \A c \in Range(work') : IsEntry(c, Schedules)'
      BY <1>4, <1>6, <1>8
    <2>3. ASSUME NEW q \in Range(plugins), NEW y \in Range(Schedules[q.component]),
                 Schedulable(Entry(q, y))
          PROVE  Item(q, y.command) \in Range(schedule') \/ Entry(q, y) \in Range(work')
      <3>1. CASE Entry(q, y) = d
        <4>1. q.name = p.name /\ y = x /\ q.component = p.component
          BY <1>11, <3>1 DEF Entry
        <4>2. Item(q, y.command) = n
          BY <1>12, <4>1 DEF Item
        <4>. QED
          BY <1>7, <2>3, <3>1, <4>2
      <3>2. CASE Entry(q, y) # d
        BY <1>5, <1>6, <1>7, <2>3, <3>2
      <3>. QED
        BY <3>1, <3>2
    <2>. QED
      BY <1>3, <1>4, <2>1, <2>2, <2>3 DEF ScheduleInv
  <1>. QED
    BY <1>8, <1>14, <1>15, <1>16 DEF LoaderInv

LEMMA LoaderStep == LoaderInv /\ IInv /\ [Next]_vars => LoaderInv'
  <1> SUFFICES ASSUME LoaderInv, IInv, [Next]_vars PROVE LoaderInv'
    OBVIOUS
  <1>1. CASE UNCHANGED vars \/ UNCHANGED programVars
    BY <1>1, QuietKeeps DEF vars, programVars
  <1>2. CASE ConfigFails \/ ConfigLoads
    <2>1. /\ UNCHANGED <<request, spec, todo, work, plugins, registry, schedule>> /\ phase = "config"
          /\ \/ phase' = "exit" \/ phase' = "plugins"
             \/ phase' = "run" /\ request # "server"
      BY <1>2 DEF ConfigFails, ConfigLoads, Exit
    <2>. QED
      BY <2>1, QuietKeeps
  <1>3. CASE StartRuntime
    BY <1>3, StartRuntimeKeeps
  <1>4. CASE \E n \in todo : OpenDirectory(n)
    BY <1>4, OpenDirectoryKeeps
  <1>5. CASE SkipFile
    BY <1>5, FileKeeps DEF SkipFile
  <1>6. CASE EndLoad
    <2>1. phase = "load" /\ work # <<>>
      BY <1>6 DEF EndLoad, EndCall, IInv, TermsInv
    <2>2. /\ work' = Tail(work) /\ UNCHANGED <<spec, phase, todo, registry, schedule>>
          /\ plugins' = plugins \/ plugins' = Append(plugins, Head(work))
      BY <1>6 DEF EndLoad
    <2>. QED
      BY <2>1, <2>2, FileKeeps
  <1>7. CASE LoadDone
    BY <1>7, LoadDoneKeeps
  <1>8. CASE RegisterNext
    BY <1>8, RegisterNextKeeps
  <1>9. CASE RegisterDone
    <2>1. CASE request = "server"
      BY <1>9, <2>1, RegisterDoneKeeps
    <2>2. CASE request # "server"
      BY <1>9, <2>2, QuietKeeps DEF RegisterDone
    <2>. QED
      BY <2>1, <2>2
  <1>10. CASE ScheduleNext
    BY <1>10, ScheduleNextKeeps
  <1>11. CASE ScheduleDone
    <2>1. /\ UNCHANGED <<request, spec, todo, work, plugins, registry, schedule>>
          /\ phase = "schedule" /\ work = <<>>
          /\ phase' = "exit" \/ (phase' = "run" /\ request = "server")
      BY <1>11 DEF ScheduleDone, Exit
    <2>. QED
      BY <2>1, QuietKeeps
  <1>12. CASE BeginLoad \/ StopServer
    BY <1>1, <1>12 DEF BeginLoad, StopServer
  <1>13. CASE RunQueued \/ QueuedEnds \/ PluginEnds \/ RequestEnds \/ \E n, c : RunPlugin(n, c)
    <2>1. /\ UNCHANGED <<request, spec, todo, work, plugins, registry, schedule>>
          /\ phase \in {"run", "call"} /\ phase' \in {"run", "call", "exit"}
      BY <1>13 DEF RunQueued, QueuedEnds, PluginEnds, RequestEnds, RunPlugin, BeginCommand, Exit
    <2>. QED
      BY <2>1, QuietKeeps
  <1>. QED
    BY <1>1, <1>2, <1>3, <1>4, <1>5, <1>6, <1>7, <1>8, <1>9, <1>10, <1>11, <1>12, <1>13
       DEF Next, Program

LEMMA Loaded == Spec => [](LoaderInv /\ IInv)
  BY LoaderInit, LoaderStep, InductiveInit, InductiveStep, PTL DEF Spec

-----------------------------------------------------------------------------
(* What the invariant says. *)

(* When the program runs, every command of every component that loaded is there, *)
(* and from a component only what it lists.                                      *)
LEMMA RegistryIsComplete ==
    ASSUME LoaderInv, IInv, phase \in {"run", "call"}, registry # {}
    PROVE  /\ \A p \in Range(plugins) : \A c \in Range(Commands[p.component]) : Has(p, c)
           /\ \A e \in registry : e \in Builtins \/ IsItem(e)
           /\ \A e \in registry : e.plugin = Builtin <=> e \in Builtins
           /\ Builtins \subseteq registry
  <1>1. /\ Builtins \subseteq registry
        /\ \A e \in registry : e \in Builtins \/ IsItem(e)
        /\ \A p \in Range(plugins) : \A c \in Range(Commands[p.component]) : Has(p, c)
    BY DEF LoaderInv, RegistryInv
  <1>2. \A e \in Builtins : e.plugin = Builtin
    BY DEF Builtins
  <1>3. \A e : IsItem(e) => e.plugin # Builtin
    BY NameIsFree DEF IsItem, Item
  <1>. QED
    BY <1>1, <1>2, <1>3

(* What was registered for a command that p lists is from one of the files of p's *)
(* plugin.                                                                        *)
LEMMA ItemFacts ==
    ASSUME LoaderInv, NEW e, IsItem(e)
    PROVE  /\ [name |-> e.plugin, component |-> e.by] \in Range(plugins)
           /\ e = [plugin |-> e.plugin, command |-> e.command, by |-> e.by]
           /\ e.command \in Range(Commands[e.by])
           /\ e.plugin \in DOMAIN Files /\ e.by \in DOMAIN Commands
           /\ Pos(e.plugin, e.by) \in DOMAIN Files[e.plugin] /\ Pos(e.plugin, e.by) \in Nat
           /\ Files[e.plugin][Pos(e.plugin, e.by)] = e.by
  <1>1. PICK p \in Range(plugins) : \E c \in Range(Commands[p.component]) : e = Item(p, c)
    BY DEF IsItem
  <1>2. PICK c \in Range(Commands[p.component]) : e = Item(p, c)
    BY <1>1
  <1>3. e.plugin = p.name /\ e.command = c /\ e.by = p.component /\ e = [plugin |-> p.name, command |-> c, by |-> p.component]
    BY <1>2 DEF Item
  <1>4. LoadInv /\ IsOpened(p)
    BY PluginFacts DEF LoaderInv
  <1>. QED
    BY <1>2, <1>3, <1>4, OpenedFacts

(* loader.rs: of the components that loaded, the first by path that lists a command
   runs it, for every set of plugins, files and commands, every order in which the
   directories are read and every choice of files that fail to load. *)
THEOREM FirstByPathRuns == Spec => []FirstComponentStays
  <1>1. ASSUME LoaderInv, IInv PROVE FirstComponentStays
    <2> SUFFICES ASSUME phase \in {"run", "call"}, registry # {} PROVE FirstComponentStays
      BY DEF FirstComponentStays
    <2>1. /\ \A p \in Range(plugins) : \A c \in Range(Commands[p.component]) : Has(p, c)
          /\ \A e \in registry : e \in Builtins \/ IsItem(e)
          /\ \A e \in registry : e.plugin = Builtin <=> e \in Builtins
          /\ Builtins \subseteq registry
      BY <1>1, RegistryIsComplete
    <2>2. {e \in registry : e.plugin = Builtin} = Builtins
      BY <2>1
    <2>3. ASSUME NEW n \in DOMAIN Files \ {Builtin}
          PROVE  LET lists(c) == {i \in DOMAIN Files[n] :
                                    /\ [name |-> n, component |-> Files[n][i]] \in Range(plugins)
                                    /\ c \in Range(Commands[Files[n][i]])}
                 IN  {e \in registry : e.plugin = n} =
                     UNION {{[plugin |-> n, command |-> c, by |-> Files[n][Min(lists(c))]] :
                                c \in {d \in Range(Commands[x]) : lists(d) # {}}} :
                            x \in DOMAIN Commands}
      <3> DEFINE lists(c) == {i \in DOMAIN Files[n] :
                                /\ [name |-> n, component |-> Files[n][i]] \in Range(plugins)
                                /\ c \in Range(Commands[Files[n][i]])}
                 first(c) == [plugin |-> n, command |-> c, by |-> Files[n][Min(lists(c))]]
                 all == UNION {{first(c) : c \in {d \in Range(Commands[x]) : lists(d) # {}}} :
                               x \in DOMAIN Commands}
      <3>1. ASSUME NEW c, NEW b \in lists(c)
            PROVE  \E e \in registry : e.plugin = n /\ e.command = c /\ Pos(n, e.by) <= b
        <4>1. PICK q : q = [name |-> n, component |-> Files[n][b]]
          OBVIOUS
        <4>2. q \in Range(plugins) /\ c \in Range(Commands[q.component]) /\ q.name = n /\ q.component = Files[n][b]
          BY <3>1, <4>1
        <4>3. Pos(n, Files[n][b]) = b
          BY <3>1, PosFacts
        <4>. QED
          BY <2>1, <4>2, <4>3 DEF Has
      <3>2. ASSUME NEW e \in registry, e.plugin = n
            PROVE  /\ e = first(e.command) /\ lists(e.command) # {}
                   /\ e.by \in DOMAIN Commands /\ e.command \in Range(Commands[e.by])
        <4>1. IsItem(e)
          BY <2>1, <3>2
        <4>2. PICK a : a = Pos(n, e.by)
          OBVIOUS
        <4>3. /\ [name |-> n, component |-> e.by] \in Range(plugins)
              /\ e = [plugin |-> n, command |-> e.command, by |-> e.by]
              /\ e.command \in Range(Commands[e.by]) /\ e.by \in DOMAIN Commands
              /\ a \in DOMAIN Files[n] /\ a \in Nat /\ Files[n][a] = e.by
          BY <1>1, <3>2, <4>1, <4>2, ItemFacts
        <4>4. a \in lists(e.command)
          BY <4>3
        <4>5. ASSUME NEW b \in lists(e.command) PROVE a <= b
          <5>1. PICK f \in registry : f.plugin = n /\ f.command = e.command /\ Pos(n, f.by) <= b
            BY <3>1
          <5>2. f = e
            BY <1>1, <3>2, <5>1 DEF LoaderInv, RegistryInv
          <5>. QED
            BY <4>2, <5>1, <5>2
        <4>6. \A b \in lists(e.command) : b \in Nat
          BY PosFacts
        <4>7. Min(lists(e.command)) = a
          <5>1. PICK T : T = lists(e.command)
            OBVIOUS
          <5>2. a \in T /\ \A b \in T : b \in Nat /\ a <= b
            BY <4>4, <4>5, <4>6, <5>1
          <5>3. Min(T) = a
            BY <5>2 DEF Min
          <5>. QED
            BY <5>1, <5>3
        <4>. QED
          BY <4>3, <4>4, <4>7
      <3>3. {e \in registry : e.plugin = n} \subseteq all
        <4> SUFFICES ASSUME NEW e \in registry, e.plugin = n PROVE e \in all
          OBVIOUS
        <4>1. /\ e = first(e.command) /\ lists(e.command) # {}
              /\ e.by \in DOMAIN Commands /\ e.command \in Range(Commands[e.by])
          BY <3>2
        <4> HIDE DEF lists, first
        <4>. QED
          BY <4>1
      <3>4. all \subseteq {e \in registry : e.plugin = n}
        <4> SUFFICES ASSUME NEW c, lists(c) # {} PROVE first(c) \in registry /\ first(c).plugin = n
          <5> HIDE DEF lists, first
          <5>. QED
            OBVIOUS
        <4>1. PICK b \in lists(c) : TRUE
          OBVIOUS
        <4>2. PICK e \in registry : e.plugin = n /\ e.command = c
          BY <3>1
        <4>. QED
          BY <3>2, <4>2
      <3>. QED
        BY <3>3, <3>4
    <2>. QED
      BY <2>2, <2>3 DEF FirstComponentStays
  <1>. QED
    BY <1>1, Loaded, PTL

(* loader.rs: when the server runs, every job has a command that the registry builds
   too, from the job's component or one before it, and no valid entry of a component
   that loaded is without a job. *)
THEOREM JobsCanBeQueued == Spec => []JobsAreRegistered
  <1>1. ASSUME LoaderInv, IInv PROVE JobsAreRegistered
    <2> SUFFICES ASSUME phase \in {"run", "call"}, request = "server" PROVE JobsAreRegistered
      BY DEF JobsAreRegistered
    <2>1. registry # {} /\ \A j \in Range(schedule) : IsItem(j)
      BY <1>1 DEF LoaderInv, ScheduleInv
    <2>2. /\ \A p \in Range(plugins) : \A c \in Range(Commands[p.component]) : Has(p, c)
          /\ \A e \in registry : e \in Builtins \/ IsItem(e)
          /\ \A e \in registry : e.plugin = Builtin <=> e \in Builtins
      BY <1>1, <2>1, RegistryIsComplete
    <2>3. ASSUME NEW j \in Range(schedule)
          PROVE  \E e \in registry, a, b \in DOMAIN Files[j.plugin] :
                    /\ e.plugin = j.plugin /\ e.command = j.command
                    /\ Files[j.plugin][a] = e.by /\ Files[j.plugin][b] = j.by /\ a <= b
      <3>1. PICK p : p = [name |-> j.plugin, component |-> j.by]
        OBVIOUS
      <3>2. /\ p \in Range(plugins) /\ p.name = j.plugin /\ p.component = j.by
            /\ j.command \in Range(Commands[p.component])
            /\ Pos(j.plugin, j.by) \in DOMAIN Files[j.plugin]
            /\ Files[j.plugin][Pos(j.plugin, j.by)] = j.by
        BY <1>1, <2>1, <3>1, ItemFacts
      <3>3. PICK e \in registry : /\ e.plugin = j.plugin /\ e.command = j.command
                                  /\ Pos(j.plugin, e.by) <= Pos(j.plugin, j.by)
        BY <2>2, <3>2 DEF Has
      <3>4. e.plugin # Builtin
        BY <1>1, <3>2, <3>3, NameIsFree
      <3>5. IsItem(e)
        BY <2>2, <3>4
      <3>6. /\ Pos(j.plugin, e.by) \in DOMAIN Files[j.plugin]
            /\ Files[j.plugin][Pos(j.plugin, e.by)] = e.by
        BY <1>1, <3>3, <3>5, ItemFacts
      <3>. QED
        BY <3>2, <3>3, <3>6
    <2>4. ASSUME NEW p \in Range(plugins), NEW x \in Range(Schedules[p.component]),
                 x.cron = "valid", x.command \in Range(Commands[p.component])
          PROVE  [plugin |-> p.name, command |-> x.command, by |-> p.component] \in Range(schedule)
      <3>1. Schedulable(Entry(p, x))
        BY <2>4 DEF Schedulable, Entry
      <3>. QED
        BY <1>1, <3>1 DEF LoaderInv, ScheduleInv, Item
    <2>. QED
      BY <2>3, <2>4 DEF JobsAreRegistered
  <1>. QED
    BY <1>1, Loaded, PTL

=============================================================================
