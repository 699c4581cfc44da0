----------------------------- MODULE BenchProofs -----------------------------
(***************************************************************************)
(* What the benchmarks count, for any number of threads and increments.    *)
(* The increments a run has stored are the elements of a set, Done: with   *)
(* the mutex the counter is its cardinality, without it at most that.      *)
(***************************************************************************)
EXTENDS Benchmarks, FiniteSetTheorems, TLAPS

(* The increments stored so far: each thread's first, second, ...          *)
Done == {e \in Workers \X (1 .. bench.ops) : e[2] <= i[e[1]]}

Inside == {"load", "store", "unlock"}

(* Where each thread is in its loop, and how far main lets it be.          *)
Progress == \A w \in Workers :
  /\ w \notin bench.workers => pc[w] = "idle"
  /\ pc[w] = "idle" => i[w] = 0
  /\ pc[w] \in {"lock", "load", "store"} => i[w] < bench.ops
  /\ pc[w] = "returned" => i[w] = bench.ops
  /\ pc[w] \in {"lock", "unlock"} => bench.locked
  /\ main_at = "reset" => pc[w] \in {"idle", "returned"}
  /\ main_at = "result" /\ w \in bench.workers => pc[w] = "returned"

(* In a run with the mutex it belongs to the thread inside the section.    *)
Locking == \A w \in Workers :
  g_mtx = w <=> bench.locked /\ pc[w] \in Inside

(* With the mutex nothing is lost.                                         *)
Exact == bench.locked =>
  /\ counter[Main] = Cardinality(Done)
  /\ \A w \in Workers : pc[w] = "store" => loaded[w] = counter[Main]

(* Without one the counter is never ahead of the increments, ...           *)
NotAhead == ~bench.own =>
  /\ counter[Main] <= Cardinality(Done)
  /\ \A w \in Workers : pc[w] = "store" => loaded[w] <= Cardinality(Done)

(* ... it is not 0 once anything has been stored, and it can only be 1     *)
(* while some thread is at its first increment or has just stored it.      *)
NotFarBehind == ~bench.own =>
  /\ (\E w \in Workers : i[w] >= 1) => counter[Main] >= 1
  /\ \A w \in Workers : pc[w] = "store" /\ i[w] >= 1 => loaded[w] >= 1
  /\ counter[Main] >= 2 \/ \E w \in bench.workers : i[w] <= 1

(* A thread with a counter to itself counts its own increments.            *)
Alone(w) == bench.own \/ bench.workers = {w}

Unshared == \A w \in Workers : w \in bench.workers /\ Alone(w) =>
  /\ counter[Cell(w)] = i[w]
  /\ pc[w] = "store" => loaded[w] = i[w]

BenchInv ==
  /\ BenchmarkTypeOK /\ Progress /\ Locking
  /\ Exact /\ NotAhead /\ NotFarBehind /\ Unshared

-----------------------------------------------------------------------------
LEMMA WorkersFinite == IsFiniteSet(Workers)
BY BenchmarkAssumption, FS_AddElement DEF Workers

LEMMA RunShape ==
  ASSUME NEW r \in RunKinds
  PROVE  /\ r.workers \subseteq Workers /\ r.workers # {}
         /\ IsFiniteSet(r.workers)
         /\ r.locked \in BOOLEAN /\ r.own \in BOOLEAN /\ ~(r.locked /\ r.own)
         /\ r.ops \in Nat \ {0}
<1>1. IsFiniteSet({Main})
  BY FS_EmptySet, FS_AddElement
<1> QED
  BY <1>1, BenchmarkAssumption DEF RunKinds, Workers

LEMMA DoneFinite ==
  ASSUME BenchmarkTypeOK
  PROVE  IsFiniteSet(Done) /\ Cardinality(Done) \in Nat
<1>0. bench.ops \in Int
  BY RunShape DEF BenchmarkTypeOK
<1>1. IsFiniteSet(1 .. bench.ops)
  BY <1>0, FS_Interval
<1>2. IsFiniteSet(Workers \X (1 .. bench.ops))
  BY <1>1, WorkersFinite, FS_Product
<1> QED
  BY <1>2, FS_Subset, FS_CardinalityType DEF Done

(* Before the first increment of a run.                                    *)
LEMMA NothingDone ==
  ASSUME bench \in RunKinds, i = [w \in Workers |-> 0]
  PROVE  Cardinality(Done) = 0
<1>1. Done = {}
  BY DEF Done
<1> QED
  BY <1>1, FS_EmptySet

(* A store adds one.                                                       *)
LEMMA OneMoreDone ==
  ASSUME BenchmarkTypeOK, Progress, NEW w \in Workers, Store(w)
  PROVE  Cardinality(Done') = Cardinality(Done) + 1
<1>1. bench' = bench /\ bench.ops \in Nat /\ i[w] \in 0 .. bench.ops
  BY RunShape DEF BenchmarkTypeOK, Store
<1>2. i[w] < bench.ops
  BY DEF Progress, Store
<1>3. i' = [i EXCEPT ![w] = i[w] + 1] /\ DOMAIN i = Workers
  BY DEF Store, BenchmarkTypeOK
<1>4. <<w, i[w] + 1>> \notin Done
  BY <1>1 DEF Done
<1>5. Done' = Done \cup {<<w, i[w] + 1>>}
  <2>1. ASSUME NEW v \in Workers, NEW n \in 1 .. bench.ops
        PROVE  n <= i'[v] <=> n <= i[v] \/ <<v, n>> = <<w, i[w] + 1>>
    <3>1. CASE v = w
      BY <1>1, <1>3, <3>1
    <3>2. CASE v # w
      BY <1>3, <3>2
    <3> QED
      BY <3>1, <3>2
  <2>2. <<w, i[w] + 1>> \in Workers \X (1 .. bench.ops)
    BY <1>1, <1>2
  <2> QED
    BY <1>1, <2>1, <2>2 DEF Done
<1> QED
  BY <1>4, <1>5, DoneFinite, FS_AddElement

(* At the end of a run every thread has stored its share.                  *)
LEMMA AllDone ==
  ASSUME BenchmarkTypeOK, Progress, main_at = "result"
  PROVE  Cardinality(Done) = Expected
<1>1. bench.workers \subseteq Workers /\ IsFiniteSet(bench.workers) /\ bench.ops \in Nat \ {0}
  BY RunShape DEF BenchmarkTypeOK
<1>2. \A w \in Workers : i[w] = IF w \in bench.workers THEN bench.ops ELSE 0
  BY DEF Progress
<1>3. Done = bench.workers \X (1 .. bench.ops)
  BY <1>1, <1>2 DEF Done
<1>4. IsFiniteSet(1 .. bench.ops) /\ Cardinality(1 .. bench.ops) = bench.ops
  BY <1>1, FS_Interval
<1> QED
  BY <1>1, <1>3, <1>4, FS_Product DEF Expected

-----------------------------------------------------------------------------
LEMMA BenchInit == Init => BenchInv
<1> SUFFICES ASSUME Init PROVE BenchInv
  OBVIOUS
<1>1. /\ mutex_overhead_bench \in Seq(RunKinds) \ {<<>>}
      /\ false_sharing_bench \in Seq(RunKinds) \ {<<>>}
  BY DEF mutex_overhead_bench, false_sharing_bench, uncontended, contended,
         run_once, RunKinds
<1>2. todo \in Seq(RunKinds) /\ bench \in RunKinds
  BY <1>1 DEF Init
<1>3. bench.ops \in Nat \ {0} /\ bench.workers # {} /\ bench.workers \subseteq Workers
  BY <1>2, RunShape
<1>4. BenchmarkTypeOK
  BY <1>2, <1>3 DEF Init, BenchmarkTypeOK
<1>5. Cardinality(Done) = 0
  BY <1>2, NothingDone DEF Init
<1>6. Progress /\ Unshared
  BY <1>3 DEF Init, Progress, Unshared, Cell, Workers
<1>7. Locking
  BY BenchmarkAssumption DEF Init, Locking, Inside, Workers
<1>8. Exact /\ NotAhead /\ NotFarBehind
  BY <1>3, <1>5 DEF Init, Exact, NotAhead, NotFarBehind, Workers
<1> QED
  BY <1>4, <1>6, <1>7, <1>8 DEF BenchInv

(* A new run starts from nothing.                                          *)
LEMMA ResetKeeps ==
  ASSUME BenchInv, Reset
  PROVE  BenchInv'
<1>1. todo \in Seq(RunKinds) /\ todo # <<>>
  BY DEF BenchInv, BenchmarkTypeOK, Reset
<1>2. bench' \in RunKinds /\ todo' \in Seq(RunKinds)
  BY <1>1 DEF Reset
<1>3. /\ bench'.ops \in Nat \ {0} /\ bench'.workers # {}
      /\ bench'.workers \subseteq Workers
  BY <1>2, RunShape
<1>4. BenchmarkTypeOK'
  BY <1>2, <1>3 DEF BenchInv, Reset, BenchmarkTypeOK
<1>5. i' = [w \in Workers |-> 0]
  BY DEF Reset
<1>6. Cardinality(Done') = 0
  <2>1. Done' = {}
    BY <1>2, <1>5 DEF Done
  <2> QED
    BY <2>1, FS_EmptySet
<1>7. Progress' /\ Unshared'
  BY <1>3 DEF Reset, Progress, Unshared, Cell, Workers
<1>8. Locking'
  <2>1. \A w \in Workers : g_mtx # w
    BY DEF BenchInv, Progress, Locking, Inside, Reset
  <2> QED
    BY <2>1 DEF Reset, Locking, Inside
<1>9. Exact' /\ NotAhead' /\ NotFarBehind'
  BY <1>3, <1>6 DEF Reset, Exact, NotAhead, NotFarBehind, Workers
<1> QED
  BY <1>4, <1>7, <1>8, <1>9 DEF BenchInv

(* The steps that store nothing and load nothing.                          *)
LEMMA CountsKept ==
  ASSUME BenchInv, UNCHANGED <<bench, counter, i, loaded>>,
         \A w \in Workers : pc'[w] = "store" => pc[w] = "store"
  PROVE  Exact' /\ NotAhead' /\ NotFarBehind' /\ Unshared'
<1>1. Done' = Done
  BY DEF Done
<1>2. Exact' /\ NotAhead'
  BY <1>1 DEF BenchInv, Exact, NotAhead
<1>3. NotFarBehind'
  BY DEF BenchInv, NotFarBehind
<1>4. Unshared'
  BY DEF BenchInv, Unshared, Alone, Cell
<1> QED
  BY <1>2, <1>3, <1>4

LEMMA CreateKeeps ==
  ASSUME BenchInv, NEW w \in Workers, Create(w)
  PROVE  BenchInv'
<1>0. bench.ops \in Nat \ {0}
  BY RunShape DEF BenchInv, BenchmarkTypeOK
<1>1. BenchmarkTypeOK'
  BY DEF BenchInv, BenchmarkTypeOK, Create, Entry
<1>2. Progress'
  BY <1>0 DEF BenchInv, BenchmarkTypeOK, Progress, Create, Entry
<1>3. Locking'
  <2>1. ~(pc[w] \in Inside)
    BY DEF Create, Inside
  <2>2. bench.locked => ~(pc'[w] \in Inside)
    BY DEF Create, Inside, Entry, BenchInv, BenchmarkTypeOK
  <2>3. \A v \in Workers : v # w => pc'[v] = pc[v]
    BY DEF Create, BenchInv, BenchmarkTypeOK
  <2> QED
    BY <2>1, <2>2, <2>3 DEF BenchInv, Locking, Create
<1>4. Exact' /\ NotAhead' /\ NotFarBehind' /\ Unshared'
  <2>1. \A v \in Workers : pc'[v] = "store" => pc[v] = "store"
    BY DEF Create, Entry, BenchInv, BenchmarkTypeOK
  <2>2. UNCHANGED <<bench, counter, i, loaded>>
    BY DEF Create
  <2> QED
    BY <2>1, <2>2, CountsKept
<1> QED
  BY <1>1, <1>2, <1>3, <1>4 DEF BenchInv

(* Main joins and takes the result.                                        *)
LEMMA MainKeeps ==
  ASSUME BenchInv, Join \/ TakeResult \/ UNCHANGED vars
  PROVE  BenchInv'
<1>1. UNCHANGED <<bench, counter, i, loaded, pc, g_mtx, todo>>
  BY DEF Join, TakeResult, vars
<1>2. BenchmarkTypeOK'
  BY <1>1 DEF BenchInv, BenchmarkTypeOK, Join, TakeResult, vars
<1>3. Progress'
  <2>1. CASE Join
    BY <2>1 DEF BenchInv, Progress, Join, AllReturned
  <2>2. CASE TakeResult
    BY <2>2 DEF BenchInv, Progress, TakeResult
  <2>3. CASE UNCHANGED vars
    BY <2>3 DEF BenchInv, Progress, vars
  <2> QED
    BY <2>1, <2>2, <2>3
<1>4. Locking'
  BY <1>1 DEF BenchInv, Locking
<1>5. Exact' /\ NotAhead' /\ NotFarBehind' /\ Unshared'
  BY <1>1, CountsKept
<1> QED
  BY <1>2, <1>3, <1>4, <1>5 DEF BenchInv

(* A thread of the run moves; main waits for it.                           *)
LEMMA WorkerRuns ==
  ASSUME BenchInv, NEW w \in Workers, pc[w] \in {"lock", "load", "store", "unlock"}
  PROVE  /\ w \in bench.workers
         /\ main_at = "create"
         /\ bench.ops \in Nat \ {0}
         /\ bench.locked \in BOOLEAN
         /\ bench.workers \subseteq Workers
BY RunShape DEF BenchInv, BenchmarkTypeOK, Progress

(* The steps after which a thread is elsewhere and has counted nothing.    *)
LEMMA SectionKeeps ==
  ASSUME BenchInv, NEW w \in Workers, Lock(w) \/ Unlock(w)
  PROVE  BenchInv'
<1>0. pc[w] \in {"lock", "unlock"} /\ UNCHANGED <<todo, bench, main_at, counter, i, loaded>>
  BY DEF Lock, Unlock
<1>1. /\ bench.ops \in Nat \ {0} /\ w \in bench.workers /\ main_at = "create"
      /\ bench.locked
  BY <1>0, WorkerRuns DEF BenchInv, Progress
<1>2. i[w] \in 0 .. bench.ops /\ DOMAIN pc = Workers
  BY DEF BenchInv, BenchmarkTypeOK
<1>3. \E p \in {"lock", "load", "returned"} :
        /\ pc' = [pc EXCEPT ![w] = p]
        /\ p \in {"lock", "load"} => i[w] < bench.ops
        /\ p = "returned" => i[w] = bench.ops
        /\ Lock(w) <=> p = "load"
  <2>1. CASE Lock(w)
    BY <2>1 DEF Lock, BenchInv, Progress
  <2>2. CASE Unlock(w)
    <3>1. /\ pc' = [pc EXCEPT ![w] = After(w, i[w])]
          /\ After(w, i[w]) \in {"lock", "returned"}
          /\ After(w, i[w]) = "lock" => i[w] < bench.ops
          /\ After(w, i[w]) = "returned" => i[w] = bench.ops
      BY <1>1, <1>2, <2>2 DEF Unlock, After, Entry
    <3>2. ~Lock(w)
      BY <2>2 DEF Lock, Unlock
    <3> QED
      BY <3>1, <3>2
  <2> QED
    BY <2>1, <2>2
<1>4. PICK p \in {"lock", "load", "returned"} :
        /\ pc' = [pc EXCEPT ![w] = p]
        /\ p \in {"lock", "load"} => i[w] < bench.ops
        /\ p = "returned" => i[w] = bench.ops
        /\ Lock(w) <=> p = "load"
  BY <1>3
<1>5. pc'[w] = p /\ \A v \in Workers : v # w => pc'[v] = pc[v]
  BY <1>2, <1>4
<1>6. BenchmarkTypeOK'
  BY <1>0, <1>4 DEF BenchInv, BenchmarkTypeOK, Lock, Unlock
<1>7. Progress'
  BY <1>0, <1>1, <1>4, <1>5 DEF BenchInv, Progress
<1>8. Locking'
  <2>1. CASE Lock(w)
    <3>1. g_mtx' = w /\ \A v \in Workers : v # w => g_mtx # v
      BY <2>1, BenchmarkAssumption DEF Lock, Workers
    <3>2. p = "load"
      BY <2>1, <1>4
    <3> QED
      BY <1>0, <1>1, <1>5, <3>1, <3>2 DEF BenchInv, Locking, Inside
  <2>2. CASE Unlock(w)
    <3>1. g_mtx = w /\ \A v \in Workers : v # w => ~(bench.locked /\ pc[v] \in Inside)
      BY <2>2, <1>1 DEF Unlock, BenchInv, Locking, Inside
    <3>2. \A v \in Workers : g_mtx' # v
      BY <2>2, BenchmarkAssumption DEF Unlock, Workers
    <3>3. ~Lock(w)
      BY <2>2 DEF Lock, Unlock
    <3>4. p # "load"
      BY <1>4, <3>3
    <3> QED
      BY <1>0, <1>5, <3>1, <3>2, <3>4 DEF Locking, Inside
  <2> QED
    BY <2>1, <2>2
<1>9. Exact' /\ NotAhead' /\ NotFarBehind' /\ Unshared'
  <2>1. \A v \in Workers : pc'[v] = "store" => pc[v] = "store"
    BY <1>5
  <2> QED
    BY <1>0, <2>1, CountsKept
<1> QED
  BY <1>6, <1>7, <1>8, <1>9 DEF BenchInv

(* A load sees the counter as it is.                                       *)
LEMMA LoadKeeps ==
  ASSUME BenchInv, NEW w \in Workers, Load(w)
  PROVE  BenchInv'
<1>0. UNCHANGED <<todo, bench, main_at, counter, g_mtx, i>> /\ pc[w] = "load"
  BY DEF Load
<1>1. /\ pc'[w] = "store" /\ loaded'[w] = counter[Cell(w)]
      /\ \A v \in Workers : v # w => pc'[v] = pc[v] /\ loaded'[v] = loaded[v]
  BY DEF Load, BenchInv, BenchmarkTypeOK
<1>2. Cell(w) \in Workers
  BY DEF Cell, Workers
<1>3. /\ w \in bench.workers /\ main_at = "create" /\ i[w] < bench.ops
      /\ i \in [Workers -> Int] /\ counter \in [Workers -> Nat]
  BY <1>0, WorkerRuns DEF BenchInv, Progress, BenchmarkTypeOK
<1>4. BenchmarkTypeOK'
  BY <1>2 DEF BenchInv, BenchmarkTypeOK, Load
<1>5. Progress'
  BY <1>0, <1>1, <1>3 DEF BenchInv, Progress
<1>6. Locking'
  BY <1>0, <1>1 DEF BenchInv, Locking, Inside
<1>7. Done' = Done
  BY <1>0 DEF Done
<1>8. ~bench.own => Cell(w) = Main
  BY DEF Cell
<1>9. bench.locked => ~bench.own
  BY RunShape DEF BenchInv, BenchmarkTypeOK
<1>10. Exact' /\ NotAhead'
  BY <1>0, <1>1, <1>7, <1>8, <1>9 DEF BenchInv, Exact, NotAhead
<1>11. NotFarBehind'
  <2> SUFFICES ASSUME ~bench.own PROVE NotFarBehind'
    BY <1>0 DEF NotFarBehind
  <2>1. loaded'[w] = counter[Main] /\ Main \in Workers
    BY <1>1, <1>8 DEF Workers
  <2> QED
    BY <1>0, <1>1, <2>1 DEF BenchInv, NotFarBehind
<1>12. Unshared'
  BY <1>0, <1>1, <1>3 DEF BenchInv, Unshared, Alone, Cell
<1> QED
  BY <1>4, <1>5, <1>6, <1>10, <1>11, <1>12 DEF BenchInv

(* A store: with the mutex the others are not between load and store.      *)
LEMMA StoreKeeps ==
  ASSUME BenchInv, NEW w \in Workers, Store(w)
  PROVE  BenchInv'
<1>0. /\ UNCHANGED <<todo, bench, main_at, g_mtx, loaded>> /\ pc[w] = "store"
      /\ BenchmarkTypeOK /\ Progress
  BY DEF Store, BenchInv
<1>1. /\ w \in bench.workers /\ main_at = "create" /\ i[w] < bench.ops
      /\ bench.ops \in Nat \ {0} /\ bench.locked \in BOOLEAN
      /\ bench.workers \subseteq Workers
  BY <1>0, WorkerRuns DEF Progress
<1>2. /\ i \in [Workers -> 0 .. bench.ops] /\ counter \in [Workers -> Nat]
      /\ loaded \in [Workers -> Nat] /\ DOMAIN pc = Workers
  BY <1>0 DEF BenchmarkTypeOK
<1>3. /\ i'[w] = i[w] + 1 /\ i[w] \in Nat
      /\ \A v \in Workers : v # w => i'[v] = i[v] /\ pc'[v] = pc[v]
  BY <1>2 DEF Store
<1>4. /\ pc'[w] \in {"lock", "load", "unlock", "returned"}
      /\ pc'[w] \in {"lock", "load"} => i[w] + 1 < bench.ops
      /\ pc'[w] = "returned" => i[w] + 1 = bench.ops
      /\ pc'[w] \in {"lock", "unlock"} => bench.locked
      /\ bench.locked => pc'[w] = "unlock"
  BY <1>1, <1>2, <1>3 DEF Store, After, Entry
<1>5. Cell(w) \in Workers
  BY DEF Cell, Workers
<1>6. /\ counter'[Cell(w)] = loaded[w] + 1
      /\ \A v \in Workers : v # Cell(w) => counter'[v] = counter[v]
  BY <1>2, <1>5 DEF Store
<1>7. BenchmarkTypeOK'
  <2>1. counter' \in [Workers -> Nat] /\ i' \in [Workers -> 0 .. bench.ops]
    BY <1>1, <1>2, <1>5 DEF Store
  <2>2. pc' \in [Workers -> {"idle", "lock", "load", "store", "unlock", "returned"}]
    BY <1>0, <1>4 DEF Store, BenchmarkTypeOK
  <2> QED
    BY <1>0, <2>1, <2>2 DEF BenchmarkTypeOK
<1>8. Progress'
  BY <1>0, <1>1, <1>3, <1>4 DEF Progress
<1>9. Locking'
  BY <1>0, <1>1, <1>3, <1>4 DEF BenchInv, Locking, Inside
<1>10. Cardinality(Done') = Cardinality(Done) + 1 /\ Cardinality(Done) \in Nat
  BY <1>0, OneMoreDone, DoneFinite
<1>11. Main \in Workers
  BY DEF Workers
<1>12. Exact'
  <2> SUFFICES ASSUME bench.locked PROVE Exact'
    BY <1>0 DEF Exact
  <2>1. ~bench.own /\ Cell(w) = Main
    BY <1>0, RunShape DEF BenchmarkTypeOK, Cell
  <2>2. \A v \in Workers : pc'[v] # "store"
    <3>1. g_mtx = w
      BY <1>0 DEF BenchInv, Locking, Inside
    <3>2. \A v \in Workers : v # w => pc[v] # "store"
      BY <3>1 DEF BenchInv, Locking, Inside
    <3> QED
      BY <1>3, <1>4, <3>2
  <2>3. counter'[Main] = Cardinality(Done')
    BY <1>0, <1>6, <1>10, <2>1 DEF BenchInv, Exact
  <2> QED
    BY <2>2, <2>3 DEF Exact
<1>13. NotAhead'
  <2> SUFFICES ASSUME ~bench.own PROVE NotAhead'
    BY <1>0 DEF NotAhead
  <2>1. counter'[Main] = loaded[w] + 1 /\ loaded[w] <= Cardinality(Done)
    BY <1>0, <1>6 DEF BenchInv, NotAhead, Cell
  <2>2. \A v \in Workers : pc'[v] = "store" => loaded[v] <= Cardinality(Done)
    BY <1>3, <1>4 DEF BenchInv, NotAhead
  <2> DEFINE n == Cardinality(Done)  m == Cardinality(Done')
  <2>3. counter'[Main] <= m /\ \A v \in Workers : pc'[v] = "store" => loaded'[v] <= m
    <3>1. n \in Nat /\ m = n + 1
      BY <1>10
    <3> HIDE DEF n, m
    <3> QED
      BY <1>0, <1>2, <2>1, <2>2, <3>1 DEF n
  <2> QED
    BY <2>3 DEF NotAhead
<1>14. NotFarBehind'
  <2> SUFFICES ASSUME ~bench.own PROVE NotFarBehind'
    BY <1>0 DEF NotFarBehind
  <2>1. counter'[Main] = loaded[w] + 1 /\ loaded[w] \in Nat
    BY <1>2, <1>6 DEF Cell
  <2>2. \A v \in Workers : pc'[v] = "store" /\ i'[v] >= 1 => loaded'[v] >= 1
    BY <1>0, <1>3, <1>4 DEF BenchInv, NotFarBehind
  <2>3. counter'[Main] >= 2 \/ i'[w] <= 1
    <3>1. i[w] >= 1 => loaded[w] >= 1
      BY <1>0 DEF BenchInv, NotFarBehind
    <3> QED
      BY <1>3, <2>1, <3>1
  <2>4. counter'[Main] >= 1
    BY <2>1
  <2> QED
    BY <1>0, <1>1, <2>2, <2>3, <2>4 DEF NotFarBehind
<1>15. Unshared'
  <2> SUFFICES ASSUME NEW v \in Workers, v \in bench.workers, Alone(v)
               PROVE  /\ counter'[Cell(v)] = i'[v]
                      /\ pc'[v] = "store" => loaded'[v] = i'[v]
    BY <1>0 DEF Unshared, Alone, Cell
  <2>1. CASE v = w
    BY <1>0, <1>3, <1>4, <1>6, <2>1 DEF BenchInv, Unshared
  <2>2. CASE v # w
    <3>1. bench.own /\ Cell(v) = v /\ Cell(w) = w
      BY <1>1, <2>2 DEF Alone, Cell
    <3> QED
      BY <1>0, <1>3, <1>6, <2>2, <3>1 DEF BenchInv, Unshared
  <2> QED
    BY <2>1, <2>2
<1> QED
  BY <1>7, <1>8, <1>9, <1>12, <1>13, <1>14, <1>15 DEF BenchInv

-----------------------------------------------------------------------------
(* The invariant of both programs.                                         *)
THEOREM BenchInvHolds == Spec => []BenchInv
<1>1. BenchInv /\ [Next]_vars => BenchInv'
  <2> SUFFICES ASSUME BenchInv, [Next]_vars PROVE BenchInv'
    OBVIOUS
  <2>1. CASE Reset
    BY <2>1, ResetKeeps
  <2>2. CASE \E w \in Workers : Create(w)
    BY <2>2, CreateKeeps
  <2>3. CASE Join \/ TakeResult \/ UNCHANGED vars
    BY <2>3, MainKeeps
  <2>4. ASSUME NEW w \in Workers, cworker(w) PROVE BenchInv'
    BY <2>4, SectionKeeps, LoadKeeps, StoreKeeps DEF cworker
  <2> QED
    BY <2>1, <2>2, <2>3, <2>4 DEF Next, main, Finished
<1> QED
  BY BenchInit, <1>1, PTL DEF Spec

(* The types of the state, in every run of either program.                 *)
THEOREM BenchmarkTyped == Spec => []BenchmarkTypeOK
<1>1. BenchInv => BenchmarkTypeOK
  BY DEF BenchInv
<1> QED
  BY BenchInvHolds, <1>1, PTL

(* For every number of threads and of increments, the protected counter    *)
(* ends at their product: the mutex loses no update.                       *)
THEOREM MutexLosesNothing == Spec => []ProtectedIsExact
<1>1. BenchInv => ProtectedIsExact
  BY AllDone DEF BenchInv, Exact, ProtectedIsExact
<1> QED
  BY BenchInvHolds, <1>1, PTL

(* For every number of threads and of increments, the unprotected counter  *)
(* never ends above their product, and never below 2 (1, when each thread  *)
(* makes a single one).                                                    *)
THEOREM LossesAreBounded == Spec => []LossIsBounded
<1>1. ASSUME BenchInv PROVE LossIsBounded
  <2> SUFFICES ASSUME main_at = "result", ~bench.own PROVE LossIsBounded
    BY DEF LossIsBounded
  <2>1. Cardinality(Done) = Expected
    BY <1>1, AllDone DEF BenchInv
  <2>2. counter[Main] <= Expected
    BY <1>1, <2>1 DEF BenchInv, NotAhead
  <2>3. /\ bench.workers # {} /\ bench.workers \subseteq Workers
        /\ bench.ops \in Nat \ {0}
    BY <1>1, RunShape DEF BenchInv, BenchmarkTypeOK
  <2>4. \A w \in bench.workers : i[w] = bench.ops
    BY <1>1, <2>3 DEF BenchInv, Progress
  <2>5. counter[Main] >= 1
    <3>1. PICK w \in bench.workers : i[w] = bench.ops
      BY <2>3, <2>4
    <3> QED
      BY <1>1, <2>3, <3>1 DEF BenchInv, NotFarBehind
  <2>6. bench.ops # 1 => counter[Main] >= 2
    BY <1>1, <2>3, <2>4 DEF BenchInv, NotFarBehind
  <2> QED
    BY <2>2, <2>5, <2>6 DEF LossIsBounded
<1> QED
  BY BenchInvHolds, <1>1, PTL

(* A counter with a single writer is exact without a mutex.                *)
THEOREM AloneIsExact == Spec => []OnlySharingLoses
<1>1. ASSUME BenchInv PROVE OnlySharingLoses
  <2>1. \A w \in Workers : main_at = "result" /\ w \in bench.workers => i[w] = bench.ops
    BY <1>1 DEF BenchInv, Progress
  <2>2. bench.workers \subseteq Workers
    BY <1>1, RunShape DEF BenchInv, BenchmarkTypeOK
  <2> QED
    BY <1>1, <2>1, <2>2 DEF BenchInv, Unshared, Alone, Cell, OnlySharingLoses, Workers
<1> QED
  BY BenchInvHolds, <1>1, PTL
=============================================================================
