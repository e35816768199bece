------------------------ MODULE TaskExecutionPoolProofs -------------------------
(***************************************************************************)
(* Two theorems that count: ScriptConcurrency and GaugesReconcile, for     *)
(* every number of threads and workers and every set of scripts.           *)
(*                                                                         *)
(* How many workers have a script depends on how the pool deals scripts,   *)
(* which is recursive.  Dealt says what Remaining computes; its proof      *)
(* takes the least worker for which it would be wrong (LeastNatural) in place *)
(* of an induction scheme.                                                 *)
(***************************************************************************)
EXTENDS TaskExecutionProofs, WellFoundedInduction

(* A set of natural numbers has a least one: it follows from the order being
   well-founded, and serves as induction. *)
LEMMA LeastNatural ==
    ASSUME NEW S, S \subseteq Nat, S # {}
    PROVE  \E n \in S : \A m \in S : n <= m
  <1>1. PICK n \in S : \A m \in S : <<m, n>> \notin OpToRel(<, Nat)
    BY NatLessThanWellFounded, WFMin, Zenon
  <1>2. ASSUME NEW m \in S PROVE n <= m
    <2>1. m \in Nat /\ n \in Nat OBVIOUS
    <2>2. ~ (m < n) BY <1>1, <2>1 DEF OpToRel
    <2> QED BY <2>1, <2>2
  <1> QED BY <1>2

(* Finitely many numbers have a bound. *)
LEMMA ListBounded ==
    ASSUME NEW n \in Nat, NEW f \in [1 .. n -> Nat]
    PROVE  \E m \in Nat : \A i \in 1 .. n : f[i] <= m
  <1> DEFINE Bounded(k) == \E m \in Nat : \A i \in 1 .. k : f[i] <= m
  <1>1. Bounded(0)
    <2>1. 0 \in Nat /\ \A i \in 1 .. 0 : f[i] <= 0 OBVIOUS
    <2> QED BY <2>1
  <1>2. ASSUME NEW k \in 1 .. n, Bounded(k - 1) PROVE Bounded(k)
    <2>1. PICK m \in Nat : \A i \in 1 .. (k - 1) : f[i] <= m BY <1>2
    <2>2. f[k] \in Nat OBVIOUS
    <2>3. m + f[k] \in Nat BY <2>2
    <2>4. ASSUME NEW i \in 1 .. k PROVE f[i] <= m + f[k]
      <3>1. f[i] \in Nat /\ (i = k \/ i \in 1 .. (k - 1)) OBVIOUS
      <3> QED BY <2>1, <2>2, <3>1
    <2> QED BY <2>3, <2>4
  <1> HIDE DEF Bounded
  <1> DEFINE Bad == {k \in 0 .. n : ~ Bounded(k)}
  <1>3. Bad = {}
    <2> SUFFICES ASSUME Bad # {} PROVE FALSE OBVIOUS
    <2>1. PICK k \in Bad : \A l \in Bad : k <= l
      <3>1. Bad \subseteq Nat OBVIOUS
      <3> HIDE DEF Bad
      <3> QED BY <3>1, LeastNatural
    <2>2. k \in 1 .. n /\ ~ Bounded(k) BY <1>1
    <2>3. k - 1 \in 0 .. n /\ ~ (k <= k - 1) BY <2>2
    <2>4. k - 1 \notin Bad BY <2>1, <2>3
    <2> QED BY <1>2, <2>2, <2>3, <2>4
  <1>4. n \in 0 .. n OBVIOUS
  <1> QED BY <1>3, <1>4 DEF Bounded

(* The widest script bounds the others: there are finitely many. *)
LEMMA ConcurrencyBounded == \E m \in Nat : \A s \in Scripts : Concurrency[s] <= m
  <1>1. Concurrency \in [Scripts -> Nat] /\ IsFiniteSet(Scripts) BY TaskAssumption
  <1>2. /\ Cardinality(Scripts) \in Nat
        /\ ExistsBijection(1 .. Cardinality(Scripts), Scripts)
    BY <1>1, FS_CardinalityType
  <1>3. PICK n \in Nat : ExistsBijection(1 .. n, Scripts) BY <1>2
  <1>4. PICK f \in [1 .. n -> Scripts] : \A s \in Scripts : \E i \in 1 .. n : f[i] = s
    BY <1>3 DEF ExistsBijection, Bijection, Surjection
  <1> DEFINE g == [i \in 1 .. n |-> Concurrency[f[i]]]
  <1>5. g \in [1 .. n -> Nat] BY <1>1
  <1>6. PICK m \in Nat : \A i \in 1 .. n : g[i] <= m BY <1>5, ListBounded
  <1>7. \A i \in 1 .. n : Concurrency[f[i]] <= m BY <1>6
  <1> QED BY <1>4, <1>7

(* The pool has a size. *)
LEMMA PoolSizeType == ASSUME Scripts # {} PROVE PoolSize \in Nat
  <1>1. Concurrency \in [Scripts -> Nat \ {0}] BY TaskAssumption
  <1> DEFINE Bounds == {m \in Nat : \A s \in Scripts : Concurrency[s] <= m}
  <1>2. PICK n \in Bounds : \A m \in Bounds : n <= m
    <2>1. Bounds \subseteq Nat /\ Bounds # {} BY ConcurrencyBounded
    <2> HIDE DEF Bounds
    <2> QED BY <2>1, LeastNatural
  <1>3. n \in {Concurrency[s] : s \in Scripts}
    <2> SUFFICES ASSUME n \notin {Concurrency[s] : s \in Scripts} PROVE FALSE OBVIOUS
    <2>1. \A s \in Scripts : Concurrency[s] \in Nat \ {0} /\ Concurrency[s] < n
      BY <1>1, <1>2
    <2>2. n \in Nat \ {0} BY <1>2, <2>1
    <2>3. n - 1 \in Bounds BY <2>1, <2>2
    <2> QED BY <1>2, <2>2, <2>3
  <1>4. Widest \in {Concurrency[s] : s \in Scripts} BY <1>2, <1>3 DEF Widest
  <1> QED BY <1>1, <1>4, TaskAssumption DEF PoolSize

(* A script is left for worker i as long as it has more than i instances. *)
Left(i) == [s \in Scripts |-> IF Concurrency[s] > i THEN Concurrency[s] - i ELSE 0]

(* The recursion has a solution, so Remaining is one. *)
LEMMA RemainingRecursion ==
    ASSUME PoolSize \in Nat
    PROVE  Remaining = [i \in 0 .. PoolSize |->
               IF i = 0 THEN Concurrency
               ELSE [s \in Scripts |->
                         IF Remaining[i - 1][s] > 0 THEN Remaining[i - 1][s] - 1 ELSE 0]]
  <1> DEFINE Step(f) == [i \in 0 .. PoolSize |->
               IF i = 0 THEN Concurrency
               ELSE [s \in Scripts |-> IF f[i - 1][s] > 0 THEN f[i - 1][s] - 1 ELSE 0]]
  <1> DEFINE g == [i \in 0 .. PoolSize |-> Left(i)]
  <1>1. Concurrency \in [Scripts -> Nat \ {0}] BY TaskAssumption
  <1>2. ASSUME NEW i \in 0 .. PoolSize PROVE g[i] = Step(g)[i]
    <2>1. CASE i = 0
      <3>1. Left(0) = Concurrency BY <1>1 DEF Left
      <3> QED BY <2>1, <3>1
    <2>2. CASE i # 0
      <3>1. i - 1 \in 0 .. PoolSize BY <2>2
      <3>2. g[i - 1] = Left(i - 1) BY <3>1
      <3>3. ASSUME NEW s \in Scripts
            PROVE  Left(i)[s] = IF Left(i - 1)[s] > 0 THEN Left(i - 1)[s] - 1 ELSE 0
        <4>1. Concurrency[s] \in Nat BY <1>1
        <4> QED BY <4>1, <2>2 DEF Left
      <3>4. Left(i) = [s \in Scripts |-> IF Left(i - 1)[s] > 0 THEN Left(i - 1)[s] - 1 ELSE 0]
        BY <3>3 DEF Left
      <3> QED BY <2>2, <3>2, <3>4
    <2> QED BY <2>1, <2>2
  <1>3. g = Step(g) BY <1>2
  <1>4. Remaining = CHOOSE f : f = Step(f) BY DEF Remaining
  <1> HIDE DEF g, Step
  <1>5. \E f : f = Step(f) BY <1>3
  <1>6. Remaining = Step(Remaining) BY <1>4, <1>5
  <1> QED BY <1>6 DEF Step

(* The pool deals a script to the first workers, one per instance. *)
LEMMA Dealt ==
    ASSUME Scripts # {}
    PROVE  \A w \in Workers : ScriptsOf(w) = {s \in Scripts : Concurrency[s] > w}
  <1>1. PoolSize \in Nat BY PoolSizeType
  <1>2. Concurrency \in [Scripts -> Nat \ {0}] BY TaskAssumption
  <1> DEFINE Bad == {i \in 0 .. PoolSize : Remaining[i] # Left(i)}
  <1>3. ASSUME NEW k \in Bad PROVE FALSE
    <2>1. PICK i \in Bad : \A j \in Bad : i <= j
      <3>1. Bad \subseteq Nat /\ Bad # {} BY <1>1, <1>3
      <3> HIDE DEF Bad
      <3> QED BY <3>1, LeastNatural
    <2>2. Remaining[i] =
              IF i = 0 THEN Concurrency
              ELSE [s \in Scripts |->
                        IF Remaining[i - 1][s] > 0 THEN Remaining[i - 1][s] - 1 ELSE 0]
      BY <1>1, <2>1, RemainingRecursion
    <2>3. CASE i = 0
      <3>1. Left(0) = Concurrency BY <1>2 DEF Left
      <3> QED BY <2>1, <2>2, <2>3, <3>1
    <2>4. CASE i # 0
      <3>1. i \in Nat /\ i - 1 \in 0 .. PoolSize /\ i - 1 \notin Bad BY <1>1, <2>1, <2>4
      <3>2. Remaining[i - 1] = Left(i - 1) BY <3>1
      <3>3. ASSUME NEW s \in Scripts
            PROVE  Left(i)[s] = IF Left(i - 1)[s] > 0 THEN Left(i - 1)[s] - 1 ELSE 0
        <4>1. Concurrency[s] \in Nat BY <1>2
        <4> QED BY <4>1, <3>1, <2>4 DEF Left
      <3>4. Left(i) = [s \in Scripts |->
                           IF Left(i - 1)[s] > 0 THEN Left(i - 1)[s] - 1 ELSE 0]
        BY <3>3 DEF Left
      <3> QED BY <2>1, <2>2, <2>4, <3>2, <3>4
    <2> QED BY <2>3, <2>4
  <1>4. ASSUME NEW w \in Workers, NEW s \in Scripts
        PROVE  Remaining[w][s] > 0 <=> Concurrency[s] > w
    <2>1. w \in 0 .. PoolSize /\ w \in Nat BY <1>1 DEF Workers
    <2>2. Remaining[w] = Left(w) BY <1>3, <2>1
    <2>3. Concurrency[s] \in Nat BY <1>2
    <2> QED BY <2>1, <2>2, <2>3 DEF Left
  <1> QED BY <1>4 DEF ScriptsOf

-----------------------------------------------------------------------------
(* What a worker runs changes only when it takes a batch of one of its scripts
   or is done with it. *)
LEMMA AtMoves ==
    ASSUME RunAgrees, [Next]_vars, NEW w \in Workers
    PROVE  \/ at'[w] = at[w] \/ at'[w] = {}
           \/ /\ at'[w] \in queued
              /\ \E t \in at'[w] : ScriptOf[t[1]] \in ScriptsOf(w)
  <1> DEFINE Moved == \/ at'[w] = at[w] \/ at'[w] = {}
                      \/ /\ at'[w] \in queued
                         /\ \E t \in at'[w] : ScriptOf[t[1]] \in ScriptsOf(w)
  <1> USE DEF client
  <1>a. at \in [Workers -> Batches] BY DEF RunAgrees, TypeOK
  <1>1. ASSUME NEW v \in Workers, Take(v) PROVE Moved
    <2>1. PICK b \in queued : Grab(v, b) BY <1>1 DEF Take
    <2>2. CASE v = w BY <1>a, <2>1, <2>2 DEF Grab
    <2>3. CASE v # w BY <1>a, <2>1, <2>3 DEF Grab
    <2> QED BY <2>2, <2>3
  <1>2. ASSUME NEW v \in Workers, Work(v) \/ FailBatch(v) \/ Die(v) PROVE Moved
    <2>1. at' = at \/ at' = [at EXCEPT ![v] = {}]
      BY <1>2 DEF Work, RunScript, SaveTask, AnswerBatch, LeaveIdle, Terminate, Kill,
                  FailBatch, Die
    <2> QED BY <1>a, <2>1
  <1>3. CASE AcceptAny \/ StopPool \/ StartPool \/ RestartExited
    BY <1>3 DEF AcceptAny, Accept, StopPool, StartPool, RestartExited
  <1>4. CASE ServerStep BY <1>4, ServerFrame
  <1>5. CASE UNCHANGED vars BY <1>5 DEF vars
  <1>6. Moved BY <1>1, <1>2, <1>3, <1>4, <1>5, NextSides DEF PoolStep
  <1> QED BY <1>6

(* A worker takes a batch for one of its tasks; all of them are of one job, so
   the script is one it was dealt. *)
LEMMA StepScripts == RunAgrees /\ ScriptsAgree /\ [Next]_vars => ScriptsAgree'
  <1> SUFFICES ASSUME RunAgrees, ScriptsAgree, [Next]_vars PROVE ScriptsAgree' OBVIOUS
  <1>1. ASSUME NEW b \in Gone', NEW t \in b, NEW u \in b PROVE t[1] = u[1]
    <2>1. CASE b \in Gone BY <1>1, <2>1 DEF ScriptsAgree
    <2>2. ASSUME NEW th \in Threads, b = open[th] PROVE t[1] = u[1]
      <3>1. t \in TasksOf(job[th]) /\ u \in TasksOf(job[th])
        BY <1>1, <2>2 DEF RunAgrees, TasksAgree
      <3> QED BY <3>1 DEF TasksOf
    <2> QED BY <1>1, <2>1, <2>2, GoneMoves
  <1>2. ASSUME NEW w \in Workers, NEW t \in at'[w] PROVE ScriptOf[t[1]] \in ScriptsOf(w)
    <2>1. CASE at'[w] = at[w] BY <1>2, <2>1 DEF ScriptsAgree
    <2>2. ASSUME at'[w] \in queued, NEW u \in at'[w], ScriptOf[u[1]] \in ScriptsOf(w)
          PROVE  ScriptOf[t[1]] \in ScriptsOf(w)
      <3>1. at'[w] \in Gone BY <2>2 DEF Gone, Elsewhere
      <3>2. t[1] = u[1] BY <1>2, <2>2, <3>1 DEF ScriptsAgree
      <3> QED BY <2>2, <3>2
    <2> QED BY <1>2, <2>1, <2>2, AtMoves
  <1> QED BY <1>1, <1>2 DEF ScriptsAgree

(* A batch is of one script, and a worker only has those it was dealt. *)
THEOREM AlwaysScriptsAgree == Spec => []ScriptsAgree
  <1>1. Init => ScriptsAgree BY DEF Init, ScriptsAgree, Gone, Elsewhere
  <1> QED BY <1>1, StepScripts, AlwaysRunAgrees, PTL DEF Spec

(* No script runs on more workers at a time than its concurrent_instances: the
   workers that have it are among the first ones, which it was dealt to. *)
THEOREM AlwaysScriptConcurrency == Spec => []ScriptConcurrency
  <1>1. RunAgrees /\ ScriptsAgree => ScriptConcurrency
    <2> SUFFICES ASSUME RunAgrees, ScriptsAgree, NEW s \in Scripts
                 PROVE  Cardinality({w \in Workers : \E t \in at[w] : ScriptOf[t[1]] = s})
                            <= Concurrency[s]
      BY DEF ScriptConcurrency
    <2> DEFINE Having == {w \in Workers : \E t \in at[w] : ScriptOf[t[1]] = s}
    <2>1. Concurrency[s] \in Nat \ {0} /\ PoolSize \in Nat
      BY TaskAssumption, PoolSizeType
    <2>2. ASSUME NEW w \in Having PROVE w \in 0 .. Concurrency[s] - 1
      <3>1. s \in ScriptsOf(w) BY DEF ScriptsAgree
      <3>2. Concurrency[s] > w BY <3>1, Dealt
      <3>3. w \in Nat BY <2>1 DEF Workers
      <3> QED BY <2>1, <3>2, <3>3
    <2>3. /\ IsFiniteSet(0 .. Concurrency[s] - 1)
          /\ Cardinality(0 .. Concurrency[s] - 1) = Concurrency[s]
      <3>1. 0 \in Int /\ Concurrency[s] - 1 \in Int /\ ~ (0 > Concurrency[s] - 1)
            /\ Concurrency[s] - 1 - 0 + 1 = Concurrency[s]
        BY <2>1
      <3> QED BY <3>1, FS_Interval
    <2>4. Having \in SUBSET (0 .. Concurrency[s] - 1) BY <2>2
    <2> HIDE DEF Having
    <2>5. Cardinality(Having) <= Concurrency[s] BY <2>3, <2>4, FS_Subset
    <2> QED BY <2>5 DEF Having
  <1> QED BY <1>1, AlwaysRunAgrees, AlwaysScriptsAgree, PTL

-----------------------------------------------------------------------------
(* Two threads share no batch: a batch has a task, which is of the job of its
   thread. *)
LEMMA ApartBatches ==
    ASSUME RunAgrees, NEW u \in Threads, NEW v \in Threads, u # v,
           NEW b \in sent[u]
    PROVE  b \notin sent[v] /\ b # open[v]
  <1>1. b # {} /\ pc[u] # "idle"
    BY DEF RunAgrees, BackendAgrees, BackendOf, Running
  <1>2. PICK t \in b : TRUE BY <1>1
  <1>3. t[1] = job[u] BY <1>2 DEF RunAgrees, TasksAgree, TasksOf
  <1>4. ASSUME b \in sent[v] \/ b = open[v] PROVE FALSE
    <2>1. t[1] = job[v] BY <1>2, <1>4 DEF RunAgrees, TasksAgree, TasksOf
    <2> QED BY <1>1, <1>3, <2>1 DEF RunAgrees, ThreadsAgree
  <1> QED BY <1>4

(* The gauges count right through every step: a batch is counted as pending
   from its first task on and as active from when it is sent until it is
   collected, or until its backend is reset. *)
LEMMA StepGauges == RunAgrees /\ GaugesAgree /\ [Next]_vars => GaugesAgree'
  <1> SUFFICES ASSUME RunAgrees, GaugesAgree, [Next]_vars PROVE GaugesAgree' OBVIOUS
  <1> USE DEF database, server, batches, gauges, thread
  <1>a. /\ open \in [Threads -> Batches] /\ sent \in [Threads -> SUBSET Batches]
        /\ collected \in [Threads -> SUBSET Batches]
        /\ pendingGauge \in Int /\ activeGauge \in Int
    BY DEF RunAgrees, TypeOK
  <1>b. \A th \in Threads : collected[th] \subseteq sent[th]
    BY DEF RunAgrees, BackendAgrees, BackendOf
  <1>c. /\ IsFiniteSet(Filling) /\ pendingGauge = Cardinality(Filling)
        /\ IsFiniteSet(Outstanding) /\ activeGauge = Cardinality(Outstanding)
        /\ \A th \in Threads : \A b \in sent[th] : b \cap open[th] = {}
    BY DEF GaugesAgree
  <1>1. ASSUME UNCHANGED <<open, sent, collected, pendingGauge, activeGauge>>
        PROVE  GaugesAgree'
    BY <1>1, <1>c DEF GaugesAgree, Filling, Outstanding
  <1>2. ASSUME NEW th \in Threads, SubmitTask(th) PROVE GaugesAgree'
    <2>1. /\ open' = [open EXCEPT ![th] = @ \cup {<<job[th], made[th] + 1>>}]
          /\ pendingGauge' = pendingGauge + (IF open[th] = {} THEN 1 ELSE 0)
          /\ UNCHANGED <<sent, collected, activeGauge>> /\ pc[th] = "submit"
      BY <1>2 DEF SubmitTask
    <2>2. Filling' = Filling \cup {th} BY <1>a, <2>1 DEF Filling
    <2>3. th \in Filling <=> open[th] # {} BY DEF Filling
    <2>4. IsFiniteSet(Filling)' /\ pendingGauge' = Cardinality(Filling)'
      BY <1>a, <1>c, <2>1, <2>2, <2>3, FS_AddElement
    <2>5. Outstanding' = Outstanding BY <2>1 DEF Outstanding
    <2>6. ASSUME NEW b \in sent[th] PROVE <<job[th], made[th] + 1>> \notin b
      <3>1. \A t \in b : t[2] <= made[th] BY DEF RunAgrees, TasksAgree
      <3>2. made[th] \in Nat BY DEF RunAgrees, TypeOK
      <3> QED BY <3>1, <3>2
    <2>7. \A u \in Threads : \A b \in sent'[u] : b \cap open'[u] = {}
      BY <1>a, <1>c, <2>1, <2>6
    <2> QED BY <1>c, <2>1, <2>4, <2>5, <2>7 DEF GaugesAgree
  <1>3. ASSUME NEW th \in Threads, SendBatch(th) PROVE GaugesAgree'
    <2>1. /\ open' = [open EXCEPT ![th] = {}]
          /\ sent' = [sent EXCEPT ![th] = @ \cup {open[th]}]
          /\ pendingGauge' = pendingGauge - 1 /\ activeGauge' = activeGauge + 1
          /\ UNCHANGED collected /\ pc[th] = "send"
      BY <1>3 DEF SendBatch
    <2>2. open[th] # {} BY <2>1 DEF RunAgrees, BackendAgrees, BackendOf
    <2>3. Filling' = Filling \ {th} /\ th \in Filling BY <1>a, <2>1, <2>2 DEF Filling
    <2>4. IsFiniteSet(Filling)' /\ pendingGauge' = Cardinality(Filling)'
      BY <1>a, <1>c, <2>1, <2>3, FS_RemoveElement
    <2>5. \A u \in Threads : open[th] \notin sent[u]
      BY <1>c, <2>2, ApartBatches
    <2>6. Outstanding' = Outstanding \cup {open[th]} /\ open[th] \notin Outstanding
      BY <1>a, <1>b, <2>1, <2>5 DEF Outstanding
    <2>7. IsFiniteSet(Outstanding)' /\ activeGauge' = Cardinality(Outstanding)'
      BY <1>a, <1>c, <2>1, <2>6, FS_AddElement
    <2>8. \A u \in Threads : \A b \in sent'[u] : b \cap open'[u] = {}
      BY <1>a, <1>c, <2>1
    <2> QED BY <2>4, <2>7, <2>8 DEF GaugesAgree
  <1>4. ASSUME NEW th \in Threads, Collect(th) PROVE GaugesAgree'
    <2>1. PICK b \in arrived[th] : Collect(th)!2!(b) BY <1>4 DEF Collect
    <2>2. /\ b \in sent[th] \ collected[th] /\ IsFiniteSet(sent[th])
          /\ count[th] = Cardinality(collected[th])
      BY DEF RunAgrees, BackendAgrees, BackendOf
    <2>3. /\ activeGauge' = activeGauge - 1 /\ UNCHANGED <<open, pendingGauge>>
          /\ \A u \in Threads \ {th} :
                 sent'[u] = sent[u] /\ collected'[u] = collected[u]
      BY <1>a, <1>4, <2>1 DEF Collect
    <2>4. /\ sent'[th] \ collected'[th] = (sent[th] \ collected[th]) \ {b}
          /\ sent'[th] \subseteq sent[th]
      <3>1. CASE GoesOn(th, b)
        <4>1. sent'[th] = sent[th] /\ collected'[th] = collected[th] \cup {b}
          BY <1>a, <2>1, <3>1
        <4> QED BY <4>1
      <3>2. CASE ~ GoesOn(th, b)
        <4>1. sent'[th] = {} BY <1>a, <2>1, <3>2
        <4>2. ~ (Cardinality(collected[th]) + 1 < Cardinality(sent[th]))
          BY <2>2, <3>2 DEF GoesOn
        <4>3. sent[th] = collected[th] \cup {b} BY <1>b, <2>2, <4>2, LastBatch
        <4> QED BY <4>1, <4>3
      <3> QED BY <3>1, <3>2
    <2>5. \A u \in Threads \ {th} : b \notin sent[u] BY <2>2, ApartBatches
    <2>6. Outstanding' = Outstanding \ {b} /\ b \in Outstanding
      BY <2>2, <2>3, <2>4, <2>5 DEF Outstanding
    <2>7. IsFiniteSet(Outstanding)' /\ activeGauge' = Cardinality(Outstanding)'
      BY <1>a, <1>c, <2>3, <2>6, FS_RemoveElement
    <2>8. Filling' = Filling BY <2>3 DEF Filling
    <2>9. \A u \in Threads : \A c \in sent'[u] : c \cap open'[u] = {}
      BY <1>c, <2>3, <2>4
    <2> QED BY <1>c, <2>3, <2>7, <2>8, <2>9 DEF GaugesAgree
  <1>5. ASSUME NEW th \in Threads, ResetBackend(th) PROVE GaugesAgree'
    <2> DEFINE left == sent[th] \ collected[th]
    <2>1. /\ pendingGauge' = pendingGauge - (IF open[th] # {} THEN 1 ELSE 0)
          /\ activeGauge' = activeGauge - Cardinality(left)
          /\ open' = [open EXCEPT ![th] = {}] /\ sent' = [sent EXCEPT ![th] = {}]
          /\ collected' = [collected EXCEPT ![th] = {}]
      BY <1>5 DEF ResetBackend, LeftActive, ClearSent
    <2>2. Filling' = Filling \ {th} BY <1>a, <2>1 DEF Filling
    <2>3. th \in Filling <=> open[th] # {} BY DEF Filling
    <2>4. IsFiniteSet(Filling)' /\ pendingGauge' = Cardinality(Filling)'
      BY <1>a, <1>c, <2>1, <2>2, <2>3, FS_RemoveElement
    <2>5. \A u \in Threads \ {th} : \A b \in sent[u] : b \notin sent[th]
      BY ApartBatches
    <2>6. Outstanding' = Outstanding \ left /\ Outstanding \cap left = left
      BY <1>a, <2>1, <2>5 DEF Outstanding
    <2>7. IsFiniteSet(Outstanding)' /\ activeGauge' = Cardinality(Outstanding)'
      <3> HIDE DEF left
      <3>1. /\ IsFiniteSet(Outstanding \ left)
            /\ Cardinality(Outstanding \ left)
                   = Cardinality(Outstanding) - Cardinality(Outstanding \cap left)
        BY <1>c, FS_Difference
      <3>2. Cardinality(Outstanding \cap left) = Cardinality(left) BY <2>6
      <3> QED BY <1>c, <2>1, <2>6, <3>1, <3>2
    <2>8. \A u \in Threads : \A b \in sent'[u] : b \cap open'[u] = {}
      BY <1>a, <1>c, <2>1
    <2> QED BY <2>4, <2>7, <2>8 DEF GaugesAgree
  <1>6. CASE Crash
    <2>1. /\ open' = [th \in Threads |-> {}] /\ sent' = [th \in Threads |-> {}]
          /\ pendingGauge' = 0 /\ activeGauge' = 0
      BY <1>6 DEF Crash
    <2>2. Filling' = {} /\ Outstanding' = {} BY <2>1 DEF Filling, Outstanding
    <2> QED BY <2>1, <2>2, FS_EmptySet DEF GaugesAgree
  <1>7. ASSUME NEW th \in Threads,
               \/ WaitForResults(th) \/ LogBatch(th) \/ Accepted(th) \/ Poll(th)
               \/ UpdateStatus(th) \/ ReturnNext(th) \/ Raise(th)
               \/ MarkJobFailed(th) \/ MarkTasksFailed(th)
        PROVE  GaugesAgree'
    BY <1>1, <1>7 DEF WaitForResults, LogBatch, Accepted, Poll, UpdateStatus, ReturnNext,
                      Raise, MarkJobFailed, MarkTasksFailed
  <1>8. ASSUME NEW th \in Threads, NEW j \in Jobs, StartJob(th, j) PROVE GaugesAgree'
    BY <1>1, <1>8 DEF StartJob
  <1>9. CASE CleanUp BY <1>1, <1>9 DEF CleanUp
  <1>10. CASE PoolStep BY <1>1, <1>10, PoolFrame
  <1>11. CASE UNCHANGED vars BY <1>1, <1>11 DEF vars
  <1> QED
    BY <1>2, <1>3, <1>4, <1>5, <1>6, <1>7, <1>8, <1>9, <1>10, <1>11, NextSides
       DEF ServerStep, ThreadStep, RunStep, FailureStep

(* The gauges count what is pending and active, in every reachable state. *)
THEOREM AlwaysGaugesAgree == Spec => []GaugesAgree
  <1>1. Init => GaugesAgree
    <2> SUFFICES ASSUME Init PROVE GaugesAgree OBVIOUS
    <2>1. Filling = {} /\ Outstanding = {} BY DEF Init, Filling, Outstanding
    <2> QED BY <2>1, FS_EmptySet DEF Init, GaugesAgree
  <1> QED BY <1>1, StepGauges, AlwaysRunAgrees, PTL DEF Spec

(* The two gauges count what the backends of all threads hold, through errors
   that leave batches behind and through restarts. *)
THEOREM AlwaysGaugesReconcile == Spec => []GaugesReconcile
  <1>1. GaugesAgree => GaugesReconcile
    BY DEF GaugesAgree, GaugesReconcile, Filling, Outstanding
  <1> QED BY <1>1, AlwaysGaugesAgree, PTL

=============================================================================
