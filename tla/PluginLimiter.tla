--------------------------- MODULE PluginLimiter ----------------------------
(***************************************************************************)
(* The resource limiter of a plugin store (plugin/limiter.rs): one budget  *)
(* for all linear memories of a store, one bound for all its tables. The   *)
(* engine asks it before every growth and tells it when the host could not *)
(* provide the memory. Sizes are in MiB and in table elements.             *)
(***************************************************************************)
EXTENDS Naturals

CONSTANTS UsizeMax,            \* the largest size a usize can hold
          TableElementsLimit   \* TABLE_ELEMENTS_LIMIT

ASSUME LimiterAssumption ==
    UsizeMax \in Nat /\ TableElementsLimit \in 0 .. UsizeMax - 1

(* usize::saturating_sub and usize::saturating_add *)
SaturatingSub(x, y) == IF x > y THEN x - y ELSE 0
SaturatingAdd(x, y) == IF x + y > UsizeMax THEN UsizeMax ELSE x + y

(* PluginLimiter::new *)
NewLimiter(limit) == [limit |-> limit, memory |-> 0, last_growth |-> 0, tables |-> 0]

(* The total after one memory, or one table, has grown. *)
Total(sum, current, desired) == SaturatingAdd(SaturatingSub(sum, current), desired)

(* memory_growing: TRUE, FALSE or an error, and the limiter afterwards. *)
MemoryVerdict(l, current, desired, maximum) ==
    IF desired > maximum THEN "refused"
    ELSE IF Total(l.memory, current, desired) > l.limit THEN "exceeded"
    ELSE "granted"

MemoryGrowing(l, current, desired) ==
    LET total == Total(l.memory, current, desired)
    IN  [l EXCEPT !.memory = total, !.last_growth = SaturatingSub(total, l.memory)]

(* Mutant of MemoryGrowFailed: the growth stays counted. *)
MemoryGrowFailedKept(l) == [l EXCEPT !.last_growth = 0]

(* memory_grow_failed: a plain subtraction, which must not fall below zero. *)
MemoryGrowFailed(l) ==
    [l EXCEPT !.memory = l.memory - l.last_growth, !.last_growth = 0]

(* table_growing: a growth over the bound is refused without an error, and a
   growth the host cannot provide is not taken back. *)
TableVerdict(l, current, desired, maximum) ==
    IF desired > maximum \/ Total(l.tables, current, desired) > TableElementsLimit
    THEN "refused" ELSE "granted"

TableGrowing(l, current, desired) ==
    [l EXCEPT !.tables = Total(l.tables, current, desired)]

=============================================================================
