-------------------------- MODULE AfbThreadProofs --------------------------
(***************************************************************************)
(* Proofs about the thread pool, for every set of jobs, every grouping of  *)
(* them and every size of the pool.  IInv (module AfbThread) is inductive; *)
(* the safety properties follow from it, and then that the pool implements *)
(* the safety part of the abstract one (RequestPool), each step being a    *)
(* step of that pool or changing nothing of it, and that it leaves no      *)
(* thread asleep that a job waits for.                                     *)
(***************************************************************************)
EXTENDS AfbThread, FiniteSetTheorems, SequenceTheorems, TLAPS

(* Threads are finitely many, none of them is the free mutex.              *)
LEMMA ThreadsFinite ==
    /\ IsFiniteSet(Threads)
    /\ \A S \in SUBSET Threads : IsFiniteSet(S) /\ Cardinality(S) \in 0..AllowedCount
    /\ Free \notin Threads
<1>1. IsFiniteSet(Threads) /\ Cardinality(Threads) = AllowedCount
  BY CountAssumption, FS_Interval DEF Threads
<1>2. \A S \in SUBSET Threads : IsFiniteSet(S) /\ Cardinality(S) <= AllowedCount
  BY <1>1, FS_Subset
<1>3. \A S \in SUBSET Threads : Cardinality(S) \in Nat
  BY <1>2, FS_CardinalityType
<1>. QED  BY <1>1, <1>2, <1>3, CountAssumption DEF Threads, Free

(* One thread more, one thread less.                                       *)
LEMMA CountOneMore ==
    ASSUME NEW S \in SUBSET Threads, NEW t \in Threads, t \notin S
    PROVE  Cardinality(S \cup {t}) = Cardinality(S) + 1
BY ThreadsFinite, FS_AddElement

LEMMA CountOneLess ==
    ASSUME NEW S \in SUBSET Threads, NEW t \in S
    PROVE  Cardinality(S \ {t}) = Cardinality(S) - 1
BY ThreadsFinite, FS_RemoveElement

(* Unlinking the i-th job keeps the others, in their order.                *)
LEMMA UnlinkFacts ==
    ASSUME NEW q \in Seq(Jobs), NEW i \in 1..Len(q)
    PROVE  /\ Unlink(q, i) \in Seq(Jobs)
           /\ Len(Unlink(q, i)) = Len(q) - 1
           /\ \A k \in 1..(Len(q) - 1) :
                /\ k < i => Unlink(q, i)[k] = q[k]
                /\ k >= i => Unlink(q, i)[k] = q[k + 1]
BY DEF Unlink

(* Appending a job keeps the others in place.                              *)
LEMMA AppendFacts ==
    ASSUME NEW q \in Seq(Jobs), NEW j \in Jobs
    PROVE  /\ Append(q, j) \in Seq(Jobs)
           /\ Len(Append(q, j)) = Len(q) + 1
           /\ \A k \in 1..Len(q) : Append(q, j)[k] = q[k]
           /\ Append(q, j)[Len(q) + 1] = j
OBVIOUS

(* A step that moves threads about without touching the queue or a job     *)
(* keeps every request in its place.                                       *)
LEMMA QuietStep ==
    ASSUME PlaceInv, GroupInv,
           UNCHANGED <<first_job, blocked, job, arg, status>>,
           \A t \in Threads : /\ tpc'[t] \in InJob <=> tpc[t] \in InJob
                              /\ tpc'[t] = "call" => tpc[t] = "call",
           mpc' \notin {"cancel", "done"} => mpc \notin {"cancel", "done"}
    PROVE  /\ PlaceInv'
           /\ GroupInv'
           /\ RunningThreads' = RunningThreads
<1>1. RunningThreads' = RunningThreads
  BY DEF RunningThreads
<1>2. PlaceInv'
  BY DEF PlaceInv
<1>3. GroupInv'
  BY <1>1 DEF GroupInv, SameGroup
<1>. QED  BY <1>1, <1>2, <1>3

(* A step that neither starts, ends nor joins a thread keeps the counters  *)
(* of threads right.                                                       *)
LEMMA SameThreads ==
    ASSUME CountInv,
           UNCHANGED <<started, running, mpc, stop, first_job>>,
           RunningThreads' = RunningThreads,
           \A t \in Threads : /\ tpc'[t] = "none" <=> tpc[t] = "none"
                              /\ tpc'[t] = "ended" <=> tpc[t] = "ended"
                              /\ tpc'[t] = "joined" <=> tpc[t] = "joined"
    PROVE  CountInv'
<1>1. Live' = Live
  BY DEF Live
<1>. QED  BY <1>1 DEF CountInv, Closing

-----------------------------------------------------------------------------
(* The main thread.                                                        *)

LEMMA InitEstablishesIInv == Init => IInv
<1> SUFFICES ASSUME Init PROVE IInv
  OBVIOUS
<1>1. RunningThreads = {} /\ Live = {}
  BY DEF Init, RunningThreads, Live, InJob
<1>2. Cardinality({}) = 0
  BY FS_EmptySet
<1>3. TypeOK
  BY CountAssumption DEF Init, TypeOK, Threads, Free, InJob
<1>4. CountInv
  BY <1>1, <1>2 DEF Init, CountInv, Closing, Threads
<1>5. PhaseInv /\ MutexInv /\ LifeInv /\ RemainsIsFreePlaces /\ GroupInv
  BY DEF Init, PhaseInv, MutexInv, LifeInv, RemainsIsFreePlaces, GroupInv, Closing, Free, InJob
<1>6. PlaceInv
  BY DEF Init, PlaceInv, InJob
<1>. QED  BY <1>3, <1>4, <1>5, <1>6 DEF IInv

LEMMA InitThreadsStep ==
    ASSUME IInv, afb_thread_init
    PROVE  IInv'
<1> USE CountAssumption DEF afb_thread_init, life
<1>1. TypeOK'
  BY DEF IInv, TypeOK, InJob, Threads
<1>2. PhaseInv'
  BY DEF IInv, PhaseInv, Closing, Threads
<1>3. MutexInv'
  BY ThreadsFinite DEF IInv, PhaseInv, MutexInv, TypeOK, Threads
<1>4. \A t \in Threads : tpc[t] \notin InJob /\ tpc'[t] \notin InJob /\ tpc'[t] # "call"
  BY DEF IInv, PhaseInv, InJob
<1>5. PlaceInv' /\ GroupInv' /\ RunningThreads' = RunningThreads
  BY <1>4, QuietStep DEF IInv
<1>6. LifeInv'
  BY <1>4 DEF IInv, LifeInv
<1>7. CountInv'
  <2>1. RunningThreads' = {} /\ Cardinality({}) = 0
    BY <1>4, FS_EmptySet DEF RunningThreads
  <2>2. PICK n \in 0..StartCount :
          /\ started' = n
          /\ tpc' = [t \in Threads |-> IF t <= n /\ n = StartCount
                                       THEN "loop" ELSE "none"]
          /\ mpc' = IF n = StartCount THEN "idle" ELSE "exit"
    OBVIOUS
  <2>3. mpc' = "idle" => Live' = 1..n
    BY <2>2 DEF Live, Threads
  <2>4. Cardinality(1..n) = n
    BY <2>2, FS_Interval
  <2>. QED  BY <2>1, <2>2, <2>3, <2>4 DEF CountInv, Closing, Threads
<1>8. RemainsIsFreePlaces'
  BY DEF IInv, PhaseInv, RemainsIsFreePlaces
<1>. QED  BY <1>1, <1>2, <1>3, <1>5, <1>6, <1>7, <1>8 DEF IInv

LEMMA MainSignalStep ==
    ASSUME IInv, MainSignal
    PROVE  IInv'
<1> USE DEF MainSignal, Wake, queue, life
<1>1. TypeOK'
  BY DEF IInv, TypeOK, InJob
<1>2. PhaseInv' /\ RemainsIsFreePlaces'
  BY DEF IInv, PhaseInv, RemainsIsFreePlaces, Closing, TypeOK
<1>3. MutexInv'
  BY ThreadsFinite DEF IInv, MutexInv, TypeOK
<1>4. \A t \in Threads :
        \/ tpc'[t] = tpc[t]
        \/ tpc[t] = "wait" /\ tpc'[t] = "loop"
  BY DEF IInv, TypeOK
<1>5. PlaceInv' /\ GroupInv' /\ RunningThreads' = RunningThreads
  BY <1>4, QuietStep DEF IInv, InJob
<1>6. LifeInv'
  BY <1>4 DEF IInv, LifeInv, InJob
<1>7. CountInv'
  <2>1. Live' = Live
    BY <1>4 DEF Live
  <2>. QED  BY <1>4, <1>5, <2>1 DEF IInv, CountInv, Closing
<1>. QED  BY <1>1, <1>2, <1>3, <1>5, <1>6, <1>7 DEF IInv

LEMMA TerminateStep ==
    ASSUME IInv, Terminate
    PROVE  IInv'
<1> USE DEF Terminate, queue, life
<1>1. TypeOK' /\ MutexInv' /\ LifeInv'
  BY DEF IInv, TypeOK, MutexInv, LifeInv
<1>2. PhaseInv' /\ RemainsIsFreePlaces'
  BY CountAssumption DEF IInv, PhaseInv, RemainsIsFreePlaces, Closing, TypeOK
<1>3. PlaceInv' /\ GroupInv' /\ RunningThreads' = RunningThreads
  BY QuietStep DEF IInv
<1>4. CountInv'
  <2>1. Live' = Live
    BY DEF Live
  <2>2. started = Cardinality(Live)
    BY DEF IInv, CountInv
  <2>3. \A t \in Live : t \in stop'
    BY DEF IInv, CountInv, Closing, Live
  <2>. QED  BY <1>3, <2>1, <2>2, <2>3 DEF IInv, CountInv, Closing
<1>. QED  BY <1>1, <1>2, <1>3, <1>4 DEF IInv

LEMMA TerminateBroadcastStep ==
    ASSUME IInv, TerminateBroadcast
    PROVE  IInv'
<1> USE DEF TerminateBroadcast, queue, life
<1>1. TypeOK'
  BY DEF IInv, TypeOK, InJob
<1>2. PhaseInv' /\ RemainsIsFreePlaces'
  BY DEF IInv, PhaseInv, RemainsIsFreePlaces, Closing, TypeOK
<1>3. MutexInv'
  BY ThreadsFinite DEF IInv, MutexInv, TypeOK
<1>4. \A t \in Threads :
        \/ tpc'[t] = tpc[t]
        \/ tpc[t] = "wait" /\ tpc'[t] = "loop"
  BY DEF IInv, TypeOK
<1>5. PlaceInv' /\ GroupInv' /\ RunningThreads' = RunningThreads
  BY <1>4, QuietStep DEF IInv, InJob
<1>6. LifeInv'
  BY <1>4 DEF IInv, LifeInv, InJob
<1>7. CountInv'
  <2>1. Live' = Live
    BY <1>4 DEF Live
  <2>. QED  BY <1>4, <1>5, <2>1 DEF IInv, CountInv, Closing
<1>. QED  BY <1>1, <1>2, <1>3, <1>5, <1>6, <1>7 DEF IInv

LEMMA TerminateJoinStep ==
    ASSUME IInv, TerminateJoin
    PROVE  IInv'
<1> USE DEF TerminateJoin, AfterJoin, queue, life
<1> DEFINE ended == {t \in stop : tpc[t] = "ended"}
<1>0. /\ ended \in SUBSET Live
      /\ Live \in SUBSET Threads
      /\ started = Cardinality(Live)
  BY DEF IInv, CountInv, TypeOK, Live
<1>1. \A t \in Threads : /\ t \in ended => tpc[t] = "ended" /\ tpc'[t] = "joined"
                         /\ t \notin ended => tpc'[t] = tpc[t]
  BY DEF IInv, TypeOK
<1>2. Live' = Live \ ended
  BY <1>1 DEF Live
<1>3. started' = Cardinality(Live')
  <2>1. IsFiniteSet(Live) /\ IsFiniteSet(ended)
    BY <1>0, ThreadsFinite
  <2>2. Cardinality(Live \ ended) = Cardinality(Live) - Cardinality(Live \cap ended)
    BY <2>1, FS_Difference
  <2>3. Live \cap ended = ended
    BY <1>0
  <2>. QED  BY <1>0, <1>2, <2>2, <2>3
<1>4. TypeOK'
  <2>1. started' \in 0..AllowedCount
    BY <1>0, <1>2, <1>3, ThreadsFinite
  <2>2. tpc' \in [Threads -> InJob \cup {"none", "loop", "wait", "ended", "joined"}]
    BY DEF IInv, TypeOK
  <2>. QED  BY <2>1, <2>2 DEF IInv, TypeOK
<1>5. PhaseInv' /\ RemainsIsFreePlaces'
  BY DEF IInv, PhaseInv, RemainsIsFreePlaces, Closing, TypeOK
<1>6. MutexInv'
  BY <1>1, ThreadsFinite DEF IInv, MutexInv, TypeOK
<1>7. PlaceInv' /\ GroupInv' /\ RunningThreads' = RunningThreads
  BY <1>1, QuietStep DEF IInv, InJob
<1>8. LifeInv'
  BY <1>1 DEF IInv, LifeInv, InJob
<1>9. CountInv'
  BY <1>1, <1>2, <1>3, <1>7 DEF IInv, CountInv, Closing
<1>. QED  BY <1>4, <1>5, <1>6, <1>7, <1>8, <1>9 DEF IInv

LEMMA TerminateCancelStep ==
    ASSUME IInv, TerminateCancel
    PROVE  IInv'
<1> USE DEF TerminateCancel
<1> DEFINE q == first_job
           c == first_job[1]
<1>0. /\ q \in Seq(Jobs) /\ Len(q) \in Nat \ {0} /\ 1 \in 1..Len(q)
      /\ c \in Jobs /\ status[c] = "queued" /\ refs[c] = 1 /\ replies[c] = 0
  BY DEF IInv, TypeOK, PlaceInv, LifeInv
<1>1. /\ first_job' \in Seq(Jobs)
      /\ Len(first_job') = Len(q) - 1
      /\ \A k \in 1..(Len(q) - 1) : first_job'[k] = q[k + 1]
  <2>1. /\ Unlink(q, 1) \in Seq(Jobs)
        /\ Len(Unlink(q, 1)) = Len(q) - 1
        /\ \A k \in 1..(Len(q) - 1) : k >= 1 => Unlink(q, 1)[k] = q[k + 1]
    BY <1>0, UnlinkFacts
  <2>2. first_job' = Unlink(q, 1)
    OBVIOUS
  <2>3. \A k \in 1..(Len(q) - 1) : k >= 1
    BY <1>0
  <2>. QED  BY <2>1, <2>2, <2>3
<1>2. \A t \in Threads : tpc[t] \notin InJob /\ tpc[t] # "call"
  <2>1. Live \in SUBSET Threads /\ Cardinality(Live) = 0
    BY DEF IInv, CountInv, Live
  <2>2. Live = {}
    BY <2>1, ThreadsFinite, FS_EmptySet
  <2>. QED  BY <2>2 DEF Live, InJob
<1>3. TypeOK'
  BY <1>0, <1>1 DEF IInv, TypeOK
<1>4. PhaseInv' /\ RemainsIsFreePlaces' /\ MutexInv'
  BY DEF IInv, PhaseInv, RemainsIsFreePlaces, MutexInv, Closing
<1>5. PlaceInv'
  <2>1. \A i \in 1..Len(first_job') : first_job'[i] # c /\ status'[first_job'[i]] = "queued"
    BY <1>0, <1>1 DEF IInv, PlaceInv, TypeOK
  <2>2. \A j \in Jobs : status'[j] = "queued" => \E i \in 1..Len(first_job') : first_job'[i] = j
    <3> SUFFICES ASSUME NEW j \in Jobs, status'[j] = "queued"
                 PROVE  \E i \in 1..Len(first_job') : first_job'[i] = j
      OBVIOUS
    <3>1. j # c /\ status[j] = "queued"
      BY <1>0 DEF IInv, TypeOK
    <3>2. PICK i \in 1..Len(q) : q[i] = j
      BY <3>1 DEF IInv, PlaceInv
    <3>3. i - 1 \in 1..Len(first_job') /\ first_job'[i - 1] = j
      BY <1>0, <1>1, <3>1, <3>2
    <3>. QED  BY <3>3
  <2>3. \A i, k \in 1..Len(first_job') : first_job'[i] = first_job'[k] => i = k
    <3> SUFFICES ASSUME NEW i \in 1..Len(first_job'), NEW k \in 1..Len(first_job'),
                        first_job'[i] = first_job'[k]
                 PROVE  i = k
      OBVIOUS
    <3>1. /\ i + 1 \in 1..Len(q) /\ k + 1 \in 1..Len(q)
          /\ q[i + 1] = q[k + 1]
      BY <1>0, <1>1
    <3>. QED  BY <3>1 DEF IInv, PlaceInv
  <2>4. \A j \in blocked' : status'[j] = "queued"
    BY <1>0 DEF IInv, PlaceInv, TypeOK
  <2>5. \A j \in Jobs : status'[j] # "running"
    BY <1>0, <1>2 DEF IInv, PlaceInv, TypeOK
  <2>. QED  BY <1>2, <2>1, <2>2, <2>3, <2>4, <2>5 DEF PlaceInv, TypeOK
<1>6. LifeInv'
  BY <1>0, <1>2 DEF IInv, LifeInv, TypeOK
<1>7. CountInv'
  <2>1. RunningThreads' = RunningThreads /\ Live' = Live
    BY DEF RunningThreads, Live
  <2>. QED  BY <2>1 DEF IInv, CountInv, Closing
<1>8. GroupInv'
  <2> SUFFICES ASSUME NEW i \in 1..Len(first_job'), NEW k \in 1..Len(first_job'),
                      k < i, SameGroup(first_job'[i], first_job'[k])
               PROVE  first_job'[i] \in blocked'
    BY DEF GroupInv, SameGroup
  <2>1. /\ i + 1 \in 1..Len(q) /\ k + 1 \in 1..Len(q) /\ k + 1 < i + 1
        /\ first_job'[i] = q[i + 1] /\ first_job'[k] = q[k + 1]
    BY <1>0, <1>1
  <2>2. q[i + 1] \in blocked
    BY <2>1 DEF IInv, GroupInv
  <2>3. q[i + 1] # c
    BY <1>0, <2>1 DEF IInv, PlaceInv
  <2>. QED  BY <2>1, <2>2, <2>3
<1>. QED  BY <1>3, <1>4, <1>5, <1>6, <1>7, <1>8 DEF IInv

LEMMA TerminateDoneStep ==
    ASSUME IInv, TerminateDone
    PROVE  IInv'
<1> USE DEF TerminateDone, queue, life
<1>1. TypeOK' /\ MutexInv' /\ LifeInv' /\ PhaseInv' /\ RemainsIsFreePlaces'
  BY DEF IInv, TypeOK, MutexInv, LifeInv, PhaseInv, RemainsIsFreePlaces, Closing
<1>2. PlaceInv' /\ GroupInv' /\ RunningThreads' = RunningThreads
  BY QuietStep DEF IInv
<1>3. CountInv'
  <2>1. Live' = Live
    BY DEF Live
  <2>. QED  BY <1>2, <2>1 DEF IInv, CountInv, Closing
<1>. QED  BY <1>1, <1>2, <1>3 DEF IInv

-----------------------------------------------------------------------------
(* Submitting a job.                                                       *)

(* A job is appended, blocked if its group is queued already; pcs is tpc   *)
(* up to the place of the caller.                                          *)
LEMMA EnqueueStep ==
    ASSUME IInv, NEW j \in Jobs, NEW pcs, Enqueue(j, pcs),
           status[j] \in {"new", "submitted"},
           pcs \in [Threads -> InJob \cup {"none", "loop", "wait", "ended", "joined"}],
           \A t \in Threads : /\ pcs[t] \in InJob <=> tpc[t] \in InJob
                              /\ pcs[t] = "relock" <=> tpc[t] = "relock"
                              /\ pcs[t] \in InJob \/ pcs[t] = tpc[t]
                              /\ pcs[t] = "call" => tpc[t] = "call" /\ arg[t] # j
                              /\ pcs[t] = "call" => arg'[t] = arg[t],
           mpc \notin {"start", "exit", "cancel", "done"},
           mpc' \in Closing <=> mpc \in Closing,
           mpc' \notin {"start", "exit", "cancel", "done"},
           UNCHANGED <<allowed, running, stop, job>>
    PROVE  /\ first_job' \in Seq(Jobs) /\ blocked' \subseteq Jobs
           /\ started' \in 0..AllowedCount
           /\ remains' \in 0..WaiterCount
           /\ tpc' \in [Threads -> InJob \cup {"none", "loop", "wait", "ended", "joined"}]
           /\ \A t \in Threads : tpc'[t] = pcs[t] \/ (tpc[t] = "none" /\ tpc'[t] = "loop")
           /\ PlaceInv' /\ LifeInv' /\ CountInv' /\ GroupInv' /\ RemainsIsFreePlaces'
<1> USE DEF Enqueue
<1> DEFINE q == first_job
<1>0. /\ q \in Seq(Jobs) /\ Len(q) \in Nat
      /\ \A i \in 1..Len(q) : q[i] \in Jobs /\ q[i] # j
      /\ blocked \in SUBSET Jobs
  BY DEF IInv, TypeOK, PlaceInv
<1>1. /\ first_job' \in Seq(Jobs)
      /\ Len(first_job') = Len(q) + 1
      /\ \A k \in 1..Len(q) : first_job'[k] = q[k]
      /\ first_job'[Len(q) + 1] = j
  BY <1>0, AppendFacts
<1>2. blocked' \subseteq Jobs /\ blocked \subseteq blocked' /\ \A k \in blocked' : k \in blocked \/ k = j
  BY <1>0
<1>3. remains' \in 0..WaiterCount /\ RemainsIsFreePlaces'
  <2>1. remains \in 1..WaiterCount /\ remains' = remains - 1
    BY CountAssumption DEF IInv, TypeOK, Full
  <2>2. remains + Len(q) = WaiterCount
    BY DEF IInv, RemainsIsFreePlaces
  <2>3. remains' + Len(first_job') = WaiterCount
    BY <1>0, <1>1, <2>1, <2>2
  <2>4. RemainsIsFreePlaces'
    BY <2>3 DEF RemainsIsFreePlaces
  <2>. QED  BY <2>1, <2>4, CountAssumption
<1>4. /\ tpc' \in [Threads -> InJob \cup {"none", "loop", "wait", "ended", "joined"}]
      /\ started' \in 0..AllowedCount
  BY CountAssumption DEF NeedThread, IInv, TypeOK, PhaseInv
<1>5. \A t \in Threads : tpc'[t] = pcs[t] \/ (tpc[t] = "none" /\ tpc'[t] = "loop")
  <2>1. CASE tpc' = pcs
    BY <2>1
  <2>2. CASE NeedThread /\ tpc' = [pcs EXCEPT ![started + 1] = "loop"]
    <3>1. started + 1 \in Threads /\ tpc[started + 1] = "none"
      BY <2>2, CountAssumption DEF IInv, PhaseInv, CountInv, TypeOK, NeedThread, Threads, Closing
    <3>. QED  BY <2>2, <3>1
  <2>. QED  BY <2>1, <2>2
<1>6. \A t \in Threads : /\ tpc'[t] \in InJob <=> tpc[t] \in InJob
                         /\ tpc'[t] = "relock" <=> tpc[t] = "relock"
                         /\ tpc'[t] = "call" => tpc[t] = "call" /\ arg[t] # j /\ arg'[t] = arg[t]
  BY <1>5 DEF InJob
<1>7. RunningThreads' = RunningThreads
  BY <1>6 DEF RunningThreads
<1>8. PlaceInv'
  <2>1. \A t \in Threads : tpc'[t] \in InJob => /\ job'[t] \in Jobs
                                                /\ job'[t] # j
                                                /\ status'[job'[t]] = "running"
    BY <1>6 DEF IInv, PlaceInv, TypeOK
  <2>2. \A t \in Threads : tpc'[t] = "call" => /\ arg'[t] \in Jobs
                                               /\ status'[arg'[t]] = "submitted"
    BY <1>6 DEF IInv, PlaceInv, TypeOK
  <2>3. \A i \in 1..Len(first_job') : status'[first_job'[i]] = "queued"
    BY <1>0, <1>1 DEF IInv, PlaceInv, TypeOK
  <2>4. \A k \in Jobs : status'[k] = "queued" =>
          \E i \in 1..Len(first_job') : first_job'[i] = k
    <3> SUFFICES ASSUME NEW k \in Jobs, status'[k] = "queued"
                 PROVE  \E i \in 1..Len(first_job') : first_job'[i] = k
      OBVIOUS
    <3>1. CASE k = j
      BY <1>0, <1>1, <3>1
    <3>2. CASE k # j
      <4>1. PICK i \in 1..Len(q) : q[i] = k
        BY <3>2 DEF IInv, PlaceInv, TypeOK
      <4>. QED  BY <1>0, <1>1, <4>1
    <3>. QED  BY <3>1, <3>2
  <2>5. \A k \in Jobs : status'[k] = "running" =>
          \E t \in Threads : tpc'[t] \in InJob /\ job'[t] = k
    BY <1>6 DEF IInv, PlaceInv, TypeOK
  <2>6. \A i, k \in 1..Len(first_job') : first_job'[i] = first_job'[k] => i = k
    <3> SUFFICES ASSUME NEW i \in 1..Len(first_job'), NEW k \in 1..Len(first_job'),
                        first_job'[i] = first_job'[k]
                 PROVE  i = k
      OBVIOUS
    <3>1. (i \in 1..Len(q) \/ i = Len(q) + 1) /\ (k \in 1..Len(q) \/ k = Len(q) + 1)
      BY <1>0, <1>1
    <3>. QED  BY <1>0, <1>1, <3>1 DEF IInv, PlaceInv
  <2>7. \A k \in blocked' : status'[k] = "queued"
    BY <1>0, <1>2 DEF IInv, PlaceInv, TypeOK
  <2>8. \A t, u \in Threads :
          tpc'[t] \in InJob /\ tpc'[u] \in InJob /\ job'[t] = job'[u] => t = u
    BY <1>6 DEF IInv, PlaceInv
  <2>. QED  BY <2>1, <2>2, <2>3, <2>4, <2>5, <2>6, <2>7, <2>8 DEF PlaceInv
<1>9. LifeInv'
  <2>1. refs[j] = 0 /\ replies[j] = 0
    BY DEF IInv, LifeInv
  <2>2. \A t \in Threads : tpc'[t] \in InJob => job[t] \in Jobs /\ job[t] # j
    BY <1>6 DEF IInv, PlaceInv
  <2>. QED  BY <1>6, <2>1, <2>2 DEF IInv, LifeInv, TypeOK
<1>10. CountInv'
  <2>1. CASE started' = started /\ tpc' = pcs
    <3>1. \A t \in Threads : (tpc'[t] \in {"none", "ended", "joined"}
                                \/ tpc[t] \in {"none", "ended", "joined"}) => tpc'[t] = tpc[t]
      BY <2>1 DEF InJob
    <3>2. Live' = Live
      BY <3>1 DEF Live
    <3>3. first_job' # <<>>
      BY <1>0, <1>1
    <3>. QED  BY <1>7, <2>1, <3>1, <3>2, <3>3 DEF IInv, CountInv, Closing
  <2>2. CASE NeedThread /\ started' = started + 1 /\ tpc' = [pcs EXCEPT ![started + 1] = "loop"]
    <3>1. /\ mpc \notin Closing
          /\ started + 1 \in Threads
          /\ tpc[started + 1] = "none"
      BY <2>2, CountAssumption DEF IInv, PhaseInv, CountInv, TypeOK, NeedThread, Threads, Closing
    <3>2. \A t \in Threads : t # started + 1 =>
             ((tpc'[t] \in {"none", "ended", "joined"}
                 \/ tpc[t] \in {"none", "ended", "joined"}) => tpc'[t] = tpc[t])
      BY <2>2 DEF InJob
    <3>3. tpc'[started + 1] = "loop"
      BY <2>2, <3>1
    <3>4. Live' = Live \cup {started + 1}
      BY <3>1, <3>2, <3>3 DEF Live
    <3>5. Cardinality(Live') = started + 1
      <4>1. Live \in SUBSET Threads /\ started + 1 \notin Live
        BY <3>1 DEF Live
      <4>2. started = Cardinality(Live)
        BY DEF IInv, CountInv
      <4>. QED  BY <3>1, <3>4, <4>1, <4>2, CountOneMore
    <3>6. \A t \in Threads : t <= started' <=> tpc'[t] # "none"
      BY <2>2, <3>1, <3>2, <3>3 DEF IInv, CountInv, TypeOK, Threads
    <3>. QED  BY <1>7, <2>2, <3>1, <3>2, <3>3, <3>5, <3>6 DEF IInv, CountInv, Closing
  <2>. QED  BY <2>1, <2>2
<1>11. GroupInv'
  <2>1. ASSUME NEW i \in 1..Len(first_job'), NEW k \in 1..Len(first_job'),
               k < i, SameGroup(first_job'[i], first_job'[k])
        PROVE  first_job'[i] \in blocked'
    <3>1. CASE i \in 1..Len(q)
      <4>1. k \in 1..Len(q) /\ first_job'[i] = q[i] /\ first_job'[k] = q[k]
        BY <1>0, <1>1, <2>1, <3>1
      <4>. QED  BY <1>2, <2>1, <3>1, <4>1 DEF IInv, GroupInv
    <3>2. CASE i = Len(q) + 1
      <4>1. k \in 1..Len(q) /\ first_job'[i] = j /\ first_job'[k] = q[k]
        BY <1>0, <1>1, <2>1, <3>2
      <4>2. BlockedBy(first_job, j)
        BY <2>1, <4>1 DEF BlockedBy
      <4>. QED  BY <4>1, <4>2
    <3>. QED  BY <1>0, <1>1, <3>1, <3>2
  <2>2. ASSUME NEW i \in 1..Len(first_job'), first_job'[i] \in blocked',
               \A k \in 1..(i - 1) : ~SameGroup(first_job'[i], first_job'[k])
        PROVE  \E t \in RunningThreads' : SameGroup(first_job'[i], job'[t])
    <3>1. CASE i \in 1..Len(q)
      <4>1. /\ first_job'[i] = q[i] /\ q[i] # j
            /\ \A k \in 1..(i - 1) : first_job'[k] = q[k]
        BY <1>0, <1>1, <3>1
      <4>2. q[i] \in blocked /\ \A k \in 1..(i - 1) : ~SameGroup(q[i], q[k])
        BY <1>2, <2>2, <4>1
      <4>3. \E t \in RunningThreads : SameGroup(q[i], job[t])
        BY <3>1, <4>2 DEF IInv, GroupInv
      <4>. QED  BY <1>7, <4>1, <4>3
    <3>2. CASE i = Len(q) + 1
      <4>1. /\ first_job'[i] = j
            /\ \A k \in 1..Len(q) : ~SameGroup(j, q[k])
        BY <1>0, <1>1, <2>2, <3>2
      <4>2. j \notin blocked
        BY DEF IInv, PlaceInv
      <4>3. ~BlockedBy(first_job, j)
        BY <4>1 DEF BlockedBy
      <4>. QED  BY <2>2, <4>1, <4>2, <4>3
    <3>. QED  BY <1>0, <1>1, <3>1, <3>2
  <2>3. \A i, k : SameGroup(i, k)' <=> SameGroup(i, k)
    BY DEF SameGroup
  <2>. QED  BY <2>1, <2>2 DEF GroupInv, SameGroup
<1>. QED  BY <1>1, <1>2, <1>3, <1>4, <1>5, <1>8, <1>9, <1>10, <1>11

(* A refused job is answered and never referenced.                         *)
LEMMA RefuseStep ==
    ASSUME IInv, NEW j \in Jobs, Refuse(j),
           status[j] \in {"new", "submitted"},
           \A t \in Threads : /\ tpc'[t] \in InJob <=> tpc[t] \in InJob
                              /\ tpc'[t] = "relock" <=> tpc[t] = "relock"
                              /\ tpc'[t] = "call" => tpc[t] = "call" /\ arg[t] # j
                              /\ tpc'[t] = "call" => arg'[t] = arg[t],
           mpc' \notin {"cancel", "done"} => mpc \notin {"cancel", "done"},
           UNCHANGED job
    PROVE  /\ status' \in [Jobs -> {"new", "submitted", "queued", "refused",
                                    "running", "done", "cancelled"}]
           /\ replies' \in [Jobs -> 0..2]
           /\ PlaceInv' /\ LifeInv' /\ GroupInv'
           /\ RunningThreads' = RunningThreads
<1> USE DEF Refuse
<1>1. refs[j] = 0 /\ replies[j] = 0
  BY DEF IInv, LifeInv
<1>2. \A t \in Threads : tpc'[t] \in InJob => job[t] \in Jobs /\ job[t] # j
  BY DEF IInv, PlaceInv
<1>3. RunningThreads' = RunningThreads
  BY DEF RunningThreads
<1>4. LifeInv'
  BY <1>1, <1>2 DEF IInv, LifeInv, TypeOK
<1>5. PlaceInv'
  <2>1. \A i \in 1..Len(first_job) : first_job[i] \in Jobs /\ first_job[i] # j
    BY DEF IInv, PlaceInv, TypeOK
  <2>2. \A t \in Threads : tpc'[t] = "call" => /\ arg'[t] \in Jobs
                                               /\ status'[arg'[t]] = "submitted"
    BY DEF IInv, PlaceInv, TypeOK
  <2>3. \A t \in Threads : tpc'[t] \in InJob => /\ job'[t] \in Jobs
                                                /\ status'[job'[t]] = "running"
    BY <1>2 DEF IInv, PlaceInv, TypeOK
  <2>4. \A k \in blocked' : status'[k] = "queued"
    BY DEF IInv, PlaceInv, TypeOK
  <2>. QED  BY <2>1, <2>2, <2>3, <2>4 DEF IInv, PlaceInv, TypeOK
<1>6. GroupInv'
  BY <1>3 DEF IInv, GroupInv, SameGroup
<1>. QED  BY <1>1, <1>3, <1>4, <1>5, <1>6 DEF IInv, TypeOK

LEMMA MainCallStep ==
    ASSUME IInv, NEW j \in Jobs, MainCall(j)
    PROVE  IInv'
<1> USE DEF MainCall
<1>1. CASE Enqueue(j, tpc) /\ mpc' = "signal"
  <2>1. \A t \in Threads : /\ tpc[t] = "call" => arg[t] # j
                           /\ tpc[t] \in InJob \/ tpc[t] = tpc[t]
    BY DEF IInv, PlaceInv
  <2>2. tpc \in [Threads -> InJob \cup {"none", "loop", "wait", "ended", "joined"}]
    BY DEF IInv, TypeOK
  <2>3. /\ first_job' \in Seq(Jobs) /\ blocked' \subseteq Jobs
        /\ started' \in 0..AllowedCount
        /\ remains' \in 0..WaiterCount
        /\ tpc' \in [Threads -> InJob \cup {"none", "loop", "wait", "ended", "joined"}]
        /\ \A t \in Threads : tpc'[t] = tpc[t] \/ (tpc[t] = "none" /\ tpc'[t] = "loop")
        /\ PlaceInv' /\ LifeInv' /\ CountInv' /\ GroupInv' /\ RemainsIsFreePlaces'
    BY <1>1, <2>1, <2>2, EnqueueStep DEF Closing
  <2>4. TypeOK'
    <3>1. /\ status' \in [Jobs -> {"new", "submitted", "queued", "refused",
                                   "running", "done", "cancelled"}]
          /\ refs' \in [Jobs -> 0..1]
          /\ replies' \in [Jobs -> 0..2]
      BY <1>1, SMTT(20) DEF Enqueue, IInv, TypeOK, LifeInv
    <3>. QED  BY <1>1, <2>3, <3>1 DEF IInv, TypeOK
  <2>5. PhaseInv'
    BY <1>1 DEF IInv, PhaseInv, Closing
  <2>6. MutexInv'
    <3>1. \A k \in Jobs : status'[k] = "submitted" => status[k] = "submitted"
      BY <1>1 DEF Enqueue, IInv, TypeOK
    <3>. QED  BY <2>3, <3>1 DEF IInv, MutexInv
  <2>. QED  BY <2>3, <2>4, <2>5, <2>6 DEF IInv
<1>2. CASE Refuse(j) /\ UNCHANGED <<tpc, mpc>>
  <2>1. \A t \in Threads : tpc[t] = "call" => arg[t] # j
    BY DEF IInv, PlaceInv
  <2>2. /\ status' \in [Jobs -> {"new", "submitted", "queued", "refused",
                                 "running", "done", "cancelled"}]
        /\ replies' \in [Jobs -> 0..2]
        /\ PlaceInv' /\ LifeInv' /\ GroupInv'
        /\ RunningThreads' = RunningThreads
    BY <1>2, <2>1, RefuseStep
  <2>3. TypeOK' /\ PhaseInv' /\ MutexInv' /\ RemainsIsFreePlaces'
    BY <1>2, <2>2 DEF Refuse, IInv, TypeOK, PhaseInv, MutexInv, RemainsIsFreePlaces, Closing
  <2>4. CountInv'
    BY <1>2, <2>2, SameThreads DEF Refuse, IInv
  <2>. QED  BY <2>2, <2>3, <2>4 DEF IInv
<1>. QED  BY <1>1, <1>2

LEMMA WorkerCallLockStep ==
    ASSUME IInv, NEW t \in Threads, NEW j \in Jobs, WorkerCallLock(t, j)
    PROVE  IInv'
<1> USE DEF WorkerCallLock, queue
<1>1. TypeOK'
  BY DEF IInv, TypeOK, InJob
<1>2. PhaseInv' /\ RemainsIsFreePlaces'
  BY DEF IInv, PhaseInv, RemainsIsFreePlaces, Closing
<1>3. MutexInv'
  BY ThreadsFinite DEF IInv, MutexInv, TypeOK
<1>4. \A u \in Threads :
        \/ u # t /\ tpc'[u] = tpc[u] /\ arg'[u] = arg[u] /\ tpc[u] # "call"
        \/ u = t /\ tpc[u] = "callback" /\ tpc'[u] = "call" /\ arg'[u] = j
  BY ThreadsFinite DEF IInv, TypeOK, MutexInv
<1>5. \A u \in Threads : tpc'[u] \in InJob <=> tpc[u] \in InJob
  BY <1>4 DEF InJob
<1>6. RunningThreads' = RunningThreads
  BY <1>5 DEF RunningThreads
<1>7. PlaceInv'
  <2>1. \A i \in 1..Len(first_job) : first_job[i] \in Jobs /\ first_job[i] # j
    BY DEF IInv, PlaceInv, TypeOK
  <2>2. \A u \in Threads : tpc'[u] \in InJob => /\ job'[u] \in Jobs
                                                /\ status'[job'[u]] = "running"
    BY <1>5 DEF IInv, PlaceInv, TypeOK
  <2>3. \A u \in Threads : tpc'[u] = "call" => /\ arg'[u] \in Jobs
                                               /\ status'[arg'[u]] = "submitted"
    BY <1>4 DEF IInv, TypeOK
  <2>4. \A k \in blocked' : status'[k] = "queued"
    BY DEF IInv, PlaceInv, TypeOK
  <2>. QED  BY <1>5, <2>1, <2>2, <2>3, <2>4 DEF IInv, PlaceInv, TypeOK
<1>8. LifeInv'
  <2>1. \A u \in Threads : tpc[u] \in InJob => job[u] \in Jobs /\ job[u] # j
    BY DEF IInv, PlaceInv
  <2>. QED  BY <1>4, <1>5, <2>1 DEF IInv, LifeInv, TypeOK, InJob
<1>9. CountInv'
  BY <1>4, <1>6, SameThreads DEF IInv
<1>10. GroupInv'
  BY <1>6 DEF IInv, GroupInv, SameGroup
<1>. QED  BY <1>1, <1>2, <1>3, <1>7, <1>8, <1>9, <1>10 DEF IInv

LEMMA WorkerCallBodyStep ==
    ASSUME IInv, NEW t \in Threads, WorkerCallBody(t)
    PROVE  IInv'
<1> USE DEF WorkerCallBody
<1>0. /\ arg[t] \in Jobs /\ status[arg[t]] = "submitted" /\ mutex = t
      /\ \A u \in Threads : u # t => tpc[u] # "call"
      /\ mpc \notin {"start", "exit", "cancel", "done"}
  <2>1. Live # {} /\ Live \in SUBSET Threads
    BY DEF Live
  <2>2. Cardinality(Live) # 0
    BY <2>1, ThreadsFinite, FS_EmptySet
  <2>. QED  BY <2>2 DEF IInv, PlaceInv, MutexInv, PhaseInv, CountInv
<1>1. CASE Enqueue(arg[t], [tpc EXCEPT ![t] = "signal"])
  <2> DEFINE pcs == [tpc EXCEPT ![t] = "signal"]
  <2>1. pcs \in [Threads -> InJob \cup {"none", "loop", "wait", "ended", "joined"}]
    BY DEF IInv, TypeOK, InJob
  <2>2. \A u \in Threads : /\ pcs[u] \in InJob <=> tpc[u] \in InJob
                           /\ pcs[u] = "relock" <=> tpc[u] = "relock"
                           /\ pcs[u] \in InJob \/ pcs[u] = tpc[u]
                           /\ pcs[u] # "call"
    BY <1>0 DEF IInv, TypeOK, InJob
  <2>3. /\ first_job' \in Seq(Jobs) /\ blocked' \subseteq Jobs
        /\ started' \in 0..AllowedCount
        /\ remains' \in 0..WaiterCount
        /\ tpc' \in [Threads -> InJob \cup {"none", "loop", "wait", "ended", "joined"}]
        /\ \A u \in Threads : tpc'[u] = pcs[u] \/ (tpc[u] = "none" /\ tpc'[u] = "loop")
        /\ PlaceInv' /\ LifeInv' /\ CountInv' /\ GroupInv' /\ RemainsIsFreePlaces'
    <3> HIDE DEF pcs
    <3>. QED  BY <1>0, <1>1, <2>1, <2>2, EnqueueStep DEF pcs
  <2>4. TypeOK'
    <3>1. /\ status' \in [Jobs -> {"new", "submitted", "queued", "refused",
                                   "running", "done", "cancelled"}]
          /\ refs' \in [Jobs -> 0..1]
          /\ replies' \in [Jobs -> 0..2]
      BY <1>0, <1>1 DEF Enqueue, IInv, TypeOK, LifeInv
    <3>. QED  BY <2>3, <3>1 DEF IInv, TypeOK
  <2>5. PhaseInv'
    BY <1>0 DEF IInv, PhaseInv, Closing
  <2>6. MutexInv'
    <3>1. \A k \in Jobs : status'[k] # "submitted"
      BY <1>0, <1>1 DEF Enqueue, IInv, TypeOK, MutexInv
    <3>. QED  BY <2>2, <2>3, <3>1 DEF MutexInv
  <2>. QED  BY <2>3, <2>4, <2>5, <2>6 DEF IInv
<1>2. CASE Refuse(arg[t]) /\ tpc' = [tpc EXCEPT ![t] = "callback"]
  <2>1. \A u \in Threads : /\ tpc'[u] \in InJob <=> tpc[u] \in InJob
                           /\ tpc'[u] = "relock" <=> tpc[u] = "relock"
                           /\ tpc'[u] # "call"
                           /\ tpc'[u] = "none" <=> tpc[u] = "none"
                           /\ tpc'[u] = "ended" <=> tpc[u] = "ended"
                           /\ tpc'[u] = "joined" <=> tpc[u] = "joined"
    BY <1>0, <1>2 DEF IInv, TypeOK, InJob
  <2>2. /\ status' \in [Jobs -> {"new", "submitted", "queued", "refused",
                                 "running", "done", "cancelled"}]
        /\ replies' \in [Jobs -> 0..2]
        /\ PlaceInv' /\ LifeInv' /\ GroupInv'
        /\ RunningThreads' = RunningThreads
    BY <1>0, <1>2, <2>1, RefuseStep
  <2>3. TypeOK'
    BY <1>2, <2>2, ThreadsFinite DEF Refuse, IInv, TypeOK, InJob
  <2>4. PhaseInv' /\ MutexInv' /\ RemainsIsFreePlaces'
    <3>1. \A k \in Jobs : status'[k] # "submitted"
      BY <1>0, <1>2 DEF Refuse, IInv, TypeOK, MutexInv
    <3>2. PhaseInv' /\ RemainsIsFreePlaces'
      BY <1>0, <1>2 DEF Refuse, IInv, PhaseInv, RemainsIsFreePlaces, Closing
    <3>. QED  BY <2>1, <3>1, <3>2 DEF MutexInv
  <2>5. CountInv'
    BY <1>2, <2>1, <2>2, SameThreads DEF Refuse, IInv
  <2>. QED  BY <2>2, <2>3, <2>4, <2>5 DEF IInv
<1>. QED  BY <1>1, <1>2

-----------------------------------------------------------------------------
(* The worker threads.                                                     *)

LEMMA WorkerSignalStep ==
    ASSUME IInv, NEW t \in Threads, WorkerSignal(t)
    PROVE  IInv'
<1> USE DEF WorkerSignal, Wake, queue, life
<1>1. TypeOK'
  BY SMTT(20) DEF IInv, TypeOK, InJob, LifeInv, PlaceInv
<1>2. PhaseInv' /\ RemainsIsFreePlaces'
  BY DEF IInv, PhaseInv, RemainsIsFreePlaces, Closing
<1>3. MutexInv'
  BY ThreadsFinite DEF IInv, MutexInv, TypeOK
<1>4. \A u \in Threads : \/ tpc'[u] = tpc[u]
                         \/ tpc[u] = "wait" /\ tpc'[u] = "loop"
                         \/ tpc[u] = "signal" /\ tpc'[u] = "callback"
  BY DEF IInv, TypeOK
<1>5. PlaceInv' /\ GroupInv' /\ RunningThreads' = RunningThreads
  BY <1>4, QuietStep DEF IInv, InJob
<1>6. LifeInv'
  BY <1>4 DEF IInv, LifeInv, InJob
<1>7. CountInv'
  BY <1>4, <1>5, SameThreads DEF IInv
<1>. QED  BY <1>1, <1>2, <1>3, <1>5, <1>6, <1>7 DEF IInv

LEMMA LoopStopStep ==
    ASSUME IInv, NEW t \in Threads, LoopStop(t)
    PROVE  IInv'
<1> USE DEF LoopStop, AtLoop, queue, life
<1>1. TypeOK'
  BY DEF IInv, TypeOK, InJob, LifeInv, PlaceInv
<1>2. PhaseInv' /\ RemainsIsFreePlaces'
  BY DEF IInv, PhaseInv, RemainsIsFreePlaces, Closing
<1>3. MutexInv'
  BY ThreadsFinite DEF IInv, MutexInv, TypeOK
<1>4. \A u \in Threads : \/ u # t /\ tpc'[u] = tpc[u]
                         \/ u = t /\ tpc[u] = "loop" /\ tpc'[u] = "ended"
  BY DEF IInv, TypeOK
<1>5. PlaceInv' /\ GroupInv' /\ RunningThreads' = RunningThreads
  BY <1>4, QuietStep DEF IInv, InJob
<1>6. LifeInv'
  BY <1>4 DEF IInv, LifeInv, InJob
<1>7. CountInv'
  <2>1. Live' = Live
    BY <1>4 DEF Live
  <2>2. mpc \in Closing
    BY DEF IInv, PhaseInv
  <2>. QED  BY <1>4, <1>5, <2>1, <2>2 DEF IInv, CountInv, Closing
<1>. QED  BY <1>1, <1>2, <1>3, <1>5, <1>6, <1>7 DEF IInv

LEMMA LoopWaitStep ==
    ASSUME IInv, NEW t \in Threads, LoopWait(t)
    PROVE  IInv'
<1> USE DEF LoopWait, AtLoop, queue, life
<1>1. TypeOK'
  BY DEF IInv, TypeOK, InJob, LifeInv, PlaceInv
<1>2. PhaseInv' /\ RemainsIsFreePlaces'
  BY DEF IInv, PhaseInv, RemainsIsFreePlaces, Closing
<1>3. MutexInv'
  BY ThreadsFinite DEF IInv, MutexInv, TypeOK
<1>4. \A u \in Threads : \/ u # t /\ tpc'[u] = tpc[u]
                         \/ u = t /\ tpc[u] = "loop" /\ tpc'[u] = "wait"
  BY DEF IInv, TypeOK
<1>5. PlaceInv' /\ GroupInv' /\ RunningThreads' = RunningThreads
  BY <1>4, QuietStep DEF IInv, InJob
<1>6. LifeInv'
  BY <1>4 DEF IInv, LifeInv, InJob
<1>7. CountInv'
  BY <1>4, <1>5, SameThreads DEF IInv
<1>. QED  BY <1>1, <1>2, <1>3, <1>5, <1>6, <1>7 DEF IInv

LEMMA SpuriousWakeupStep ==
    ASSUME IInv, NEW t \in Threads, SpuriousWakeup(t)
    PROVE  IInv'
<1> USE DEF SpuriousWakeup, queue, life
<1>1. TypeOK'
  BY DEF IInv, TypeOK, InJob, LifeInv, PlaceInv
<1>2. PhaseInv' /\ RemainsIsFreePlaces'
  BY DEF IInv, PhaseInv, RemainsIsFreePlaces, Closing
<1>3. MutexInv'
  BY ThreadsFinite DEF IInv, MutexInv, TypeOK
<1>4. \A u \in Threads : \/ u # t /\ tpc'[u] = tpc[u]
                         \/ u = t /\ tpc[u] = "wait" /\ tpc'[u] = "loop"
  BY DEF IInv, TypeOK
<1>5. PlaceInv' /\ GroupInv' /\ RunningThreads' = RunningThreads
  BY <1>4, QuietStep DEF IInv, InJob
<1>6. LifeInv'
  BY <1>4 DEF IInv, LifeInv, InJob
<1>7. CountInv'
  BY <1>4, <1>5, SameThreads DEF IInv
<1>. QED  BY <1>1, <1>2, <1>3, <1>5, <1>6, <1>7 DEF IInv

LEMMA CallbackReplyStep ==
    ASSUME IInv, NEW t \in Threads, CallbackReply(t)
    PROVE  IInv'
<1> USE DEF CallbackReply, queue
<1>1. TypeOK'
  BY DEF IInv, TypeOK, InJob, LifeInv, PlaceInv
<1>2. PhaseInv' /\ RemainsIsFreePlaces'
  BY DEF IInv, PhaseInv, RemainsIsFreePlaces, Closing
<1>3. MutexInv'
  BY ThreadsFinite DEF IInv, MutexInv, TypeOK
<1>4. \A u \in Threads : tpc'[u] = tpc[u]
  BY DEF IInv, TypeOK
<1>5. PlaceInv' /\ GroupInv' /\ RunningThreads' = RunningThreads
  BY <1>4, QuietStep DEF IInv, InJob
<1>6. LifeInv'
  <2>1. \A u \in Threads : u # t /\ tpc[u] \in InJob => job[u] # job[t]
    BY DEF IInv, PlaceInv, InJob
  <2>2. job[t] \in Jobs /\ status[job[t]] = "running"
    BY DEF IInv, PlaceInv, InJob
  <2>. QED  BY <1>4, <2>1, <2>2 DEF IInv, LifeInv, TypeOK, InJob, PlaceInv
<1>7. CountInv'
  BY <1>4, <1>5, SameThreads DEF IInv
<1>. QED  BY <1>1, <1>2, <1>3, <1>5, <1>6, <1>7 DEF IInv

LEMMA CallbackReturnStep ==
    ASSUME IInv, NEW t \in Threads, CallbackReturn(t)
    PROVE  IInv'
<1> USE DEF CallbackReturn, queue
<1>1. TypeOK'
  BY DEF IInv, TypeOK, InJob, LifeInv, PlaceInv
<1>2. PhaseInv' /\ RemainsIsFreePlaces'
  BY DEF IInv, PhaseInv, RemainsIsFreePlaces, Closing
<1>3. MutexInv'
  BY ThreadsFinite DEF IInv, MutexInv, TypeOK
<1>4. \A u \in Threads : \/ u # t /\ tpc'[u] = tpc[u]
                         \/ u = t /\ tpc[u] = "callback" /\ tpc'[u] = "relock"
  BY DEF IInv, TypeOK
<1>5. PlaceInv' /\ GroupInv' /\ RunningThreads' = RunningThreads
  BY <1>4, QuietStep DEF IInv, InJob
<1>6. LifeInv'
  <2>1. \A u \in Threads : u # t /\ tpc[u] \in InJob => job[u] # job[t]
    BY DEF IInv, PlaceInv, InJob
  <2>2. job[t] \in Jobs /\ status[job[t]] = "running"
    BY DEF IInv, PlaceInv, InJob
  <2>. QED  BY <1>4, <2>1, <2>2 DEF IInv, LifeInv, TypeOK, InJob, PlaceInv
<1>7. CountInv'
  BY <1>4, <1>5, SameThreads DEF IInv
<1>. QED  BY <1>1, <1>2, <1>3, <1>5, <1>6, <1>7 DEF IInv

LEMMA CallbackSignalStep ==
    ASSUME IInv, NEW t \in Threads, CallbackSignal(t)
    PROVE  IInv'
<1> USE DEF CallbackSignal, queue
<1>1. TypeOK'
  BY DEF IInv, TypeOK, InJob, LifeInv, PlaceInv
<1>2. PhaseInv' /\ RemainsIsFreePlaces'
  BY DEF IInv, PhaseInv, RemainsIsFreePlaces, Closing
<1>3. MutexInv'
  BY ThreadsFinite DEF IInv, MutexInv, TypeOK
<1>4. \A u \in Threads : \/ u # t /\ tpc'[u] = tpc[u]
                         \/ /\ u = t /\ tpc[u] \in InJob \ {"relock"}
                            /\ tpc'[u] = "relock"
  BY DEF IInv, TypeOK, InJob
<1>5. PlaceInv' /\ GroupInv' /\ RunningThreads' = RunningThreads
  BY <1>4, QuietStep DEF IInv, InJob
<1>6. LifeInv'
  <2>1. \A u \in Threads : u # t /\ tpc[u] \in InJob => job[u] # job[t]
    BY DEF IInv, PlaceInv, InJob
  <2>2. job[t] \in Jobs /\ status[job[t]] = "running"
    BY DEF IInv, PlaceInv, InJob
  <2>. QED  BY <1>4, <2>1, <2>2 DEF IInv, LifeInv, TypeOK, InJob, PlaceInv
<1>7. CountInv'
  BY <1>4, <1>5, SameThreads DEF IInv
<1>. QED  BY <1>1, <1>2, <1>3, <1>5, <1>6, <1>7 DEF IInv

(* The comment "should not happen" is right: when the first queued job is  *)
(* blocked, the job that blocks it is running.                             *)
LEMMA IInvExcludesSad == IInv => NoSadSituation
<1> SUFFICES ASSUME IInv, mpc # "cancel", Sad PROVE FALSE
  BY DEF NoSadSituation
<1>1. first_job \in Seq(Jobs) /\ first_job # <<>> /\ 1 \in 1..Len(first_job)
  BY DEF IInv, TypeOK, Sad
<1>2. mpc \notin {"cancel", "done"}
  BY <1>1 DEF IInv, CountInv
<1>3. first_job[1] \in blocked
  BY <1>1 DEF Sad, NoJobToGet
<1>4. \E t \in RunningThreads : SameGroup(first_job[1], job[t])
  BY <1>1, <1>2, <1>3 DEF IInv, GroupInv
<1>5. RunningThreads \in SUBSET Threads /\ Cardinality(RunningThreads) = 0
  BY DEF IInv, CountInv, Sad, RunningThreads
<1>. QED  BY <1>4, <1>5, ThreadsFinite, FS_EmptySet

LEMMA LoopRunStep ==
    ASSUME IInv, NEW t \in Threads, LoopRun(t)
    PROVE  IInv'
<1> DEFINE q == first_job
<1>0. /\ tpc[t] = "loop" /\ mutex \in {Free, t}
      /\ mpc \notin {"start", "exit", "cancel", "done"}
  <2>1. Live # {} /\ Live \in SUBSET Threads
    BY DEF LoopRun, AtLoop, Live
  <2>2. Cardinality(Live) # 0
    BY <2>1, ThreadsFinite, FS_EmptySet
  <2>. QED  BY <2>2 DEF LoopRun, AtLoop, IInv, PhaseInv, CountInv
<1>1. ~Sad
  BY <1>0, IInvExcludesSad DEF NoSadSituation
<1>2. PICK i \in 1..Len(first_job) : FirstUnblocked(i) /\ RunJob(t, i)
  BY <1>1 DEF LoopRun, Takes
<1>3. remains' = remains + 1
  BY <1>1 DEF LoopRun
<1> DEFINE c == first_job[i]
           old(m) == IF m < i THEN m ELSE m + 1
<1> USE DEF RunJob
<1>4. /\ q \in Seq(Jobs) /\ Len(q) \in Nat /\ c \in Jobs
      /\ status[c] = "queued" /\ refs[c] = 1 /\ replies[c] = 0
      /\ c \notin blocked /\ blocked' = blocked
      /\ \A u \in Threads : tpc[u] \in InJob => job[u] # c
  BY <1>2 DEF IInv, TypeOK, PlaceInv, LifeInv, FirstUnblocked
<1>5. /\ first_job' \in Seq(Jobs)
      /\ Len(first_job') = Len(q) - 1
      /\ \A m \in 1..Len(first_job') :
            old(m) \in 1..Len(q) /\ old(m) # i /\ first_job'[m] = q[old(m)]
  <2>1. first_job' = Unlink(q, i)
    BY <1>2
  <2>2. /\ Unlink(q, i) \in Seq(Jobs)
        /\ Len(Unlink(q, i)) = Len(q) - 1
        /\ \A k \in 1..(Len(q) - 1) : /\ k < i => Unlink(q, i)[k] = q[k]
                                      /\ k >= i => Unlink(q, i)[k] = q[k + 1]
    BY <1>4, UnlinkFacts
  <2>. QED  BY <1>4, <2>1, <2>2
<1>6. \A k \in 1..Len(q) : k # i => \E m \in 1..Len(first_job') : old(m) = k
  <2> SUFFICES ASSUME NEW k \in 1..Len(q), k # i
               PROVE  \E m \in 1..Len(first_job') : old(m) = k
    OBVIOUS
  <2>1. CASE k < i
    <3>1. k \in 1..Len(first_job') /\ old(k) = k
      BY <1>4, <1>5, <2>1
    <3>. QED  BY <3>1
  <2>2. CASE k > i
    <3>1. k - 1 \in 1..Len(first_job') /\ old(k - 1) = k
      BY <1>4, <1>5, <2>2
    <3>. QED  BY <3>1
  <2>. QED  BY <1>4, <2>1, <2>2
<1>7. \A m, n \in 1..Len(first_job') : m < n <=> old(m) < old(n)
  BY <1>4, <1>5
<1> HIDE DEF old
<1>8. /\ tpc' = [tpc EXCEPT ![t] = "callback"]
      /\ job' = [job EXCEPT ![t] = c]
      /\ status' = [status EXCEPT ![c] = "running"]
      /\ mutex' = Free /\ running' = running + 1
      /\ UNCHANGED <<allowed, started, stop, arg, mpc, refs, replies>>
  BY <1>2
<1> HIDE DEF RunJob
<1>9. /\ \A u \in Threads : /\ u # t => tpc'[u] = tpc[u] /\ job'[u] = job[u]
                            /\ u = t => tpc'[u] = "callback" /\ job'[u] = c
      /\ tpc[t] \notin InJob /\ "callback" \in InJob
  BY <1>0, <1>8 DEF IInv, TypeOK, InJob
<1>10. RunningThreads' = RunningThreads \cup {t} /\ t \notin RunningThreads
  BY <1>9 DEF RunningThreads
<1>11. running' = Cardinality(RunningThreads') /\ running' \in 0..AllowedCount
  <2>1. RunningThreads \in SUBSET Threads /\ RunningThreads' \in SUBSET Threads
    BY DEF RunningThreads
  <2>2. running = Cardinality(RunningThreads)
    BY DEF IInv, CountInv
  <2>. QED  BY <1>8, <1>10, <2>1, <2>2, CountOneMore, ThreadsFinite
<1>12. RemainsIsFreePlaces' /\ remains' \in 0..WaiterCount
  <2>1. remains \in Nat /\ remains + Len(q) = WaiterCount
    BY <1>0 DEF IInv, TypeOK, RemainsIsFreePlaces
  <2>2. Len(q) > 0
    BY <1>2, <1>4
  <2>3. remains' + Len(first_job') = WaiterCount
    BY <1>3, <1>4, <1>5, <2>1
  <2>4. RemainsIsFreePlaces'
    BY <2>3 DEF RemainsIsFreePlaces
  <2>. QED  BY <1>3, <1>4, <2>1, <2>2, <2>4, CountAssumption
<1>13. TypeOK'
  <2>1. /\ tpc' \in [Threads -> InJob \cup {"none", "loop", "wait", "ended", "joined"}]
        /\ job' \in [Threads -> Jobs \cup {NoJob}]
        /\ status' \in [Jobs -> {"new", "submitted", "queued", "refused",
                                 "running", "done", "cancelled"}]
    BY <1>4, <1>8 DEF IInv, TypeOK, InJob
  <2>. QED  BY <1>4, <1>5, <1>8, <1>11, <1>12, <2>1 DEF IInv, TypeOK
<1>14. PhaseInv' /\ MutexInv'
  BY <1>0, <1>8, <1>9, ThreadsFinite DEF IInv, PhaseInv, MutexInv, Closing
<1>15. PlaceInv'
  <2>1. \A u \in Threads : tpc'[u] \in InJob => /\ job'[u] \in Jobs
                                                /\ status'[job'[u]] = "running"
    BY <1>4, <1>8, <1>9 DEF IInv, PlaceInv, TypeOK
  <2>2. \A u, v \in Threads :
          tpc'[u] \in InJob /\ tpc'[v] \in InJob /\ job'[u] = job'[v] => u = v
    BY <1>4, <1>9 DEF IInv, PlaceInv
  <2>3. \A u \in Threads : tpc'[u] = "call" => /\ arg'[u] \in Jobs
                                               /\ status'[arg'[u]] = "submitted"
    BY <1>4, <1>8, <1>9 DEF IInv, PlaceInv, TypeOK
  <2>4. \A m \in 1..Len(first_job') : status'[first_job'[m]] = "queued"
    <3> SUFFICES ASSUME NEW m \in 1..Len(first_job')
                 PROVE  status'[first_job'[m]] = "queued"
      OBVIOUS
    <3>1. q[old(m)] # c /\ status[q[old(m)]] = "queued" /\ q[old(m)] \in Jobs
      BY <1>2, <1>4, <1>5 DEF IInv, PlaceInv
    <3>. QED  BY <1>5, <1>8, <3>1 DEF IInv, TypeOK
  <2>5. \A j \in Jobs : status'[j] = "queued" =>
          \E m \in 1..Len(first_job') : first_job'[m] = j
    <3> SUFFICES ASSUME NEW j \in Jobs, status'[j] = "queued"
                 PROVE  \E m \in 1..Len(first_job') : first_job'[m] = j
      OBVIOUS
    <3>1. j # c /\ status[j] = "queued"
      BY <1>4, <1>8 DEF IInv, TypeOK
    <3>2. PICK k \in 1..Len(q) : q[k] = j
      BY <3>1 DEF IInv, PlaceInv
    <3>. QED  BY <1>5, <1>6, <3>1, <3>2
  <2>6. \A j \in Jobs : status'[j] = "running" =>
          \E u \in Threads : tpc'[u] \in InJob /\ job'[u] = j
    <3> SUFFICES ASSUME NEW j \in Jobs, status'[j] = "running", j # c
                 PROVE  \E u \in Threads : tpc'[u] \in InJob /\ job'[u] = j
      BY <1>9
    <3>1. status[j] = "running"
      BY <1>4, <1>8 DEF IInv, TypeOK
    <3>. QED  BY <1>9, <3>1 DEF IInv, PlaceInv
  <2>7. \A m, n \in 1..Len(first_job') : first_job'[m] = first_job'[n] => m = n
    <3> SUFFICES ASSUME NEW m \in 1..Len(first_job'), NEW n \in 1..Len(first_job'),
                        first_job'[m] = first_job'[n]
                 PROVE  m = n
      OBVIOUS
    <3>1. /\ old(m) \in 1..Len(q) /\ old(n) \in 1..Len(q)
          /\ q[old(m)] = q[old(n)]
      BY <1>5
    <3>2. old(m) = old(n)
      BY <3>1 DEF IInv, PlaceInv
    <3>3. ~(old(m) < old(n)) /\ ~(old(n) < old(m))
      BY <1>4, <3>1, <3>2
    <3>. QED  BY <1>4, <1>5, <1>7, <3>3
  <2>8. \A j \in blocked' : status'[j] = "queued"
    BY <1>4, <1>8 DEF IInv, PlaceInv, TypeOK
  <2>. QED  BY <2>1, <2>2, <2>3, <2>4, <2>5, <2>6, <2>7, <2>8 DEF PlaceInv
<1>16. LifeInv'
  <2>1. \A u \in Threads : u # t /\ tpc[u] \in InJob => job[u] \in Jobs /\ job[u] # c
    BY <1>4 DEF IInv, PlaceInv
  <2>. QED  BY <1>4, <1>8, <1>9, <2>1 DEF IInv, LifeInv, TypeOK
<1>17. CountInv'
  <2>1. Live' = Live
    BY <1>0, <1>9 DEF Live
  <2>2. \A u \in Threads : /\ tpc'[u] = "none" <=> tpc[u] = "none"
                           /\ tpc'[u] = "ended" <=> tpc[u] = "ended"
                           /\ tpc'[u] = "joined" <=> tpc[u] = "joined"
    BY <1>0, <1>9
  <2>. QED  BY <1>0, <1>8, <1>11, <2>1, <2>2 DEF IInv, CountInv, Closing
<1>18. GroupInv'
  <2>1. ASSUME NEW m \in 1..Len(first_job'), NEW n \in 1..Len(first_job'),
               n < m, SameGroup(first_job'[m], first_job'[n])
        PROVE  first_job'[m] \in blocked'
    <3>1. /\ old(m) \in 1..Len(q) /\ old(n) \in 1..Len(q) /\ old(n) < old(m)
          /\ first_job'[m] = q[old(m)] /\ first_job'[n] = q[old(n)]
      BY <1>5, <1>7, <2>1
    <3>. QED  BY <1>4, <2>1, <3>1 DEF IInv, GroupInv
  <2>2. ASSUME NEW m \in 1..Len(first_job'), first_job'[m] \in blocked',
               \A n \in 1..(m - 1) : ~SameGroup(first_job'[m], first_job'[n])
        PROVE  \E u \in RunningThreads' : SameGroup(first_job'[m], job'[u])
    <3>1. old(m) \in 1..Len(q) /\ first_job'[m] = q[old(m)] /\ q[old(m)] \in blocked
      BY <1>4, <1>5, <2>2
    <3>2. CASE \A k \in 1..(old(m) - 1) : ~SameGroup(q[old(m)], q[k])
      <4>1. PICK u \in RunningThreads : SameGroup(q[old(m)], job[u])
        BY <1>0, <3>1, <3>2 DEF IInv, GroupInv
      <4>2. u \in RunningThreads' /\ job'[u] = job[u]
        BY <1>9, <1>10 DEF RunningThreads
      <4>. QED  BY <3>1, <4>1, <4>2
    <3>3. CASE \E k \in 1..(old(m) - 1) : SameGroup(q[old(m)], q[k])
      <4>1. PICK k \in 1..(old(m) - 1) : SameGroup(q[old(m)], q[k])
        BY <3>3
      <4>2. k \in 1..Len(q) /\ k < old(m)
        BY <1>4, <3>1
      <4>3. CASE k = i
        BY <1>9, <1>10, <3>1, <4>1, <4>3
      <4>4. CASE k # i
        <5>1. PICK n \in 1..Len(first_job') : old(n) = k
          BY <1>6, <4>2, <4>4
        <5>2. n \in 1..(m - 1) /\ first_job'[n] = q[k]
          BY <1>4, <1>5, <1>7, <4>2, <5>1
        <5>. QED  BY <2>2, <3>1, <4>1, <5>2
      <4>. QED  BY <4>3, <4>4
    <3>. QED  BY <3>2, <3>3
  <2>. QED  BY <2>1, <2>2 DEF GroupInv, SameGroup
<1>. QED  BY <1>12, <1>13, <1>14, <1>15, <1>16, <1>17, <1>18 DEF IInv

LEMMA JobEndStep ==
    ASSUME IInv, NEW t \in Threads, JobEnd(t)
    PROVE  IInv'
<1> DEFINE g == Group[job[t]]
<1> USE DEF JobEnd
<1>0. /\ job[t] \in Jobs /\ status[job[t]] = "running"
      /\ t \in RunningThreads
      /\ refs[job[t]] = 0
      /\ mpc \notin {"start", "exit", "cancel", "done"}
  <2>1. Live # {} /\ Live \in SUBSET Threads
    BY DEF Live
  <2>2. Cardinality(Live) # 0
    BY <2>1, ThreadsFinite, FS_EmptySet
  <2>. QED  BY <2>2 DEF IInv, PlaceInv, PhaseInv, CountInv, LifeInv, RunningThreads, InJob
<1>1. \A u \in Threads : /\ u # t => tpc'[u] = tpc[u] /\ job'[u] = job[u]
                         /\ u = t => tpc[u] = "relock" /\ tpc'[u] = "loop"
  BY DEF IInv, TypeOK
<1>2. RunningThreads' = RunningThreads \ {t}
  BY <1>1 DEF RunningThreads, InJob
<1>3. running' = Cardinality(RunningThreads') /\ running' \in 0..AllowedCount
  <2>1. RunningThreads \in SUBSET Threads /\ RunningThreads' \in SUBSET Threads
    BY DEF RunningThreads
  <2>2. running = Cardinality(RunningThreads)
    BY DEF IInv, CountInv
  <2>. QED  BY <1>0, <1>2, <2>1, <2>2, CountOneLess, ThreadsFinite
<1>4. blocked' \subseteq blocked
  BY DEF UnblockAtEnd, JobUnblock
<1>5. TypeOK'
  <2>1. /\ tpc' \in [Threads -> InJob \cup {"none", "loop", "wait", "ended", "joined"}]
        /\ job' \in [Threads -> Jobs \cup {NoJob}]
        /\ status' \in [Jobs -> {"new", "submitted", "queued", "refused",
                                 "running", "done", "cancelled"}]
    BY <1>0 DEF IInv, TypeOK, InJob
  <2>2. blocked' \subseteq Jobs
    BY <1>4 DEF IInv, TypeOK
  <2>. QED  BY <1>3, <2>1, <2>2 DEF IInv, TypeOK
<1>6. PhaseInv' /\ MutexInv' /\ RemainsIsFreePlaces'
  BY <1>0, <1>1, ThreadsFinite DEF IInv, PhaseInv, MutexInv, RemainsIsFreePlaces, Closing
<1>7. PlaceInv'
  <2>1. \A u \in Threads : tpc'[u] \in InJob => u # t /\ tpc[u] \in InJob /\ job'[u] = job[u]
    BY <1>1 DEF InJob
  <2>2. \A u \in Threads : tpc'[u] \in InJob => /\ job'[u] \in Jobs /\ job'[u] # job[t]
                                                /\ status'[job'[u]] = "running"
    BY <1>0, <1>1, <2>1 DEF IInv, PlaceInv, TypeOK, InJob
  <2>3. \A u \in Threads : tpc'[u] = "call" => /\ arg'[u] \in Jobs
                                               /\ status'[arg'[u]] = "submitted"
    BY <1>0, <1>1 DEF IInv, PlaceInv, TypeOK
  <2>4. \A i \in 1..Len(first_job') : status'[first_job'[i]] = "queued"
    BY <1>0 DEF IInv, PlaceInv, TypeOK
  <2>5. \A j \in Jobs : status'[j] = "queued" =>
          \E i \in 1..Len(first_job') : first_job'[i] = j
    BY <1>0 DEF IInv, PlaceInv, TypeOK
  <2>6. \A j \in Jobs : status'[j] = "running" =>
          \E u \in Threads : tpc'[u] \in InJob /\ job'[u] = j
    <3> SUFFICES ASSUME NEW j \in Jobs, status'[j] = "running"
                 PROVE  \E u \in Threads : tpc'[u] \in InJob /\ job'[u] = j
      OBVIOUS
    <3>1. j # job[t] /\ status[j] = "running"
      BY <1>0 DEF IInv, TypeOK
    <3>. QED  BY <1>1, <3>1 DEF IInv, PlaceInv
  <2>7. \A j \in blocked' : status'[j] = "queued"
    BY <1>0, <1>4 DEF IInv, PlaceInv, TypeOK
  <2>. QED  BY <2>1, <2>2, <2>3, <2>4, <2>5, <2>6, <2>7 DEF IInv, PlaceInv
<1>8. LifeInv'
  <2>1. \A u \in Threads : tpc'[u] \in InJob => /\ u # t /\ tpc[u] \in InJob
                                                /\ job'[u] = job[u] /\ tpc'[u] = tpc[u]
    BY <1>1 DEF InJob
  <2>. QED  BY <1>0, <2>1 DEF IInv, LifeInv, TypeOK
<1>9. CountInv'
  <2>1. Live' = Live
    BY <1>1 DEF Live
  <2>2. \A u \in Threads : /\ tpc'[u] = "none" <=> tpc[u] = "none"
                           /\ tpc'[u] = "ended" <=> tpc[u] = "ended"
                           /\ tpc'[u] = "joined" <=> tpc[u] = "joined"
    BY <1>1
  <2>. QED  BY <1>0, <1>3, <2>1, <2>2 DEF IInv, CountInv, Closing
<1>10. GroupInv'
  <2>1. ASSUME NEW i \in 1..Len(first_job), NEW k \in 1..Len(first_job),
               k < i, SameGroup(first_job[i], first_job[k])
        PROVE  first_job[i] \in blocked'
    <3>1. first_job[i] \in blocked
      BY <2>1 DEF IInv, GroupInv
    <3>2. ASSUME NEW m \in 1..Len(first_job), first_job[m] = first_job[i]
          PROVE  m = i
      BY <3>2 DEF IInv, PlaceInv
    <3>3. k \in 1..(i - 1)
      BY <2>1 DEF IInv, TypeOK
    <3>. QED  BY <2>1, <3>1, <3>2, <3>3 DEF UnblockAtEnd, JobUnblock, SameGroup
  <2>2. ASSUME NEW i \in 1..Len(first_job), first_job[i] \in blocked',
               \A k \in 1..(i - 1) : ~SameGroup(first_job[i], first_job[k])
        PROVE  \E u \in RunningThreads' : SameGroup(first_job[i], job'[u])
    <3>1. PICK u \in RunningThreads : SameGroup(first_job[i], job[u])
      BY <1>0, <1>4, <2>2 DEF IInv, GroupInv
    <3>2. u # t
      <4> SUFFICES ASSUME u = t PROVE FALSE
        OBVIOUS
      <4>1. g # NoGroup /\ Group[first_job[i]] = g
        BY <3>1 DEF SameGroup
      <4>2. \A k \in 1..(i - 1) : Group[first_job[k]] # g
        BY <2>2, <4>1 DEF SameGroup
      <4>. QED  BY <2>2, <4>1, <4>2 DEF UnblockAtEnd, JobUnblock
    <3>3. u \in RunningThreads' /\ job'[u] = job[u]
      BY <1>1, <1>2, <3>2 DEF RunningThreads
    <3>. QED  BY <3>1, <3>3
  <2>. QED  BY <2>1, <2>2 DEF GroupInv, SameGroup
<1>. QED  BY <1>5, <1>6, <1>7, <1>8, <1>9, <1>10 DEF IInv

-----------------------------------------------------------------------------
(* The theorems.                                                           *)

LEMMA StepPreservesIInv == IInv /\ [Next]_vars => IInv'
<1> SUFFICES ASSUME IInv, [Next]_vars PROVE IInv'
  OBVIOUS
<1>1. CASE Main
  BY <1>1, InitThreadsStep, MainCallStep, MainSignalStep, TerminateStep,
     TerminateBroadcastStep, TerminateJoinStep, TerminateCancelStep,
     TerminateDoneStep DEF Main
<1>2. ASSUME NEW t \in Threads, Worker(t) PROVE IInv'
  BY <1>2, WorkerCallLockStep, WorkerCallBodyStep, WorkerSignalStep,
     LoopStopStep, LoopRunStep, LoopWaitStep, SpuriousWakeupStep,
     CallbackReplyStep, CallbackReturnStep, CallbackSignalStep, JobEndStep
     DEF Worker
<1>3. CASE UNCHANGED vars
  <2>1. RunningThreads' = RunningThreads /\ Live' = Live
    BY <1>3 DEF vars, RunningThreads, Live
  <2>2. TypeOK' /\ PhaseInv' /\ MutexInv' /\ LifeInv' /\ RemainsIsFreePlaces'
    BY <1>3 DEF vars, IInv, TypeOK, PhaseInv, MutexInv, LifeInv, RemainsIsFreePlaces, Closing
  <2>3. PlaceInv' /\ GroupInv'
    BY <1>3, QuietStep DEF vars, IInv
  <2>4. CountInv'
    BY <1>3, <2>1 DEF vars, IInv, CountInv, Closing
  <2>. QED  BY <2>2, <2>3, <2>4 DEF IInv
<1>. QED  BY <1>1, <1>2, <1>3 DEF Next

LEMMA AlwaysIInv == Spec => []IInv
BY InitEstablishesIInv, StepPreservesIInv, PTL DEF Spec

(* The counters of the pool stay in their bounds: at most AllowedCount     *)
(* threads started or running, at most WaiterCount places, at most one     *)
(* reference of the pool on a request and two answers to it.               *)
THEOREM TypeCorrect == Spec => []TypeOK
<1>1. IInv => TypeOK
  BY DEF IInv
<1>. QED  BY <1>1, AlwaysIInv, PTL

(* The branch of thread_main_loop commented "sad situation!! should not    *)
(* happen" is never taken.                                                 *)
THEOREM SadNeverHappens == Spec => []NoSadSituation
BY IInvExcludesSad, AlwaysIInv, PTL

(* No place of the queue is lost or invented before the termination.       *)
THEOREM PlacesAreKept == Spec => []RemainsIsFreePlaces
<1>1. IInv => RemainsIsFreePlaces
  BY DEF IInv
<1>. QED  BY <1>1, AlwaysIInv, PTL

(* The unprotected cancellation of afb_thread_terminate runs alone.        *)
THEOREM CancellationIsAlone == Spec => []CancelIsAlone
<1>1. IInv => CancelIsAlone
  <2> SUFFICES ASSUME IInv, mpc \in {"cancel", "done"}
               PROVE  \A t \in Threads : tpc[t] \in {"none", "joined"}
    BY DEF CancelIsAlone
  <2>1. Live \in SUBSET Threads /\ Cardinality(Live) = 0
    BY DEF IInv, CountInv, Live
  <2>2. Live = {}
    BY <2>1, ThreadsFinite, FS_EmptySet
  <2>. QED  BY <2>2 DEF Live
<1>. QED  BY <1>1, AlwaysIInv, PTL

(* afb_thread_terminate returns with every accepted request run or         *)
(* cancelled, answered and released.                                       *)
THEOREM NothingIsLeftBehind == Spec => []NothingLeftBehind
<1>1. IInv => NothingLeftBehind
  <2> SUFFICES ASSUME IInv, mpc = "done", NEW j \in Jobs
               PROVE  /\ status[j] \in {"new", "refused", "done", "cancelled"}
                      /\ status[j] \in {"refused", "cancelled"} => replies[j] = 1
                      /\ refs[j] = 0
    BY DEF NothingLeftBehind
  <2>1. Live \in SUBSET Threads /\ Cardinality(Live) = 0
    BY DEF IInv, CountInv, Live
  <2>2. Live = {}
    BY <2>1, ThreadsFinite, FS_EmptySet
  <2>3. \A t \in Threads : tpc[t] \notin InJob
    BY <2>2 DEF Live, InJob
  <2>4. status[j] # "queued" /\ status[j] # "running"
    BY <2>3 DEF IInv, PlaceInv, CountInv
  <2>5. status[j] # "submitted"
    BY <2>2 DEF IInv, MutexInv, TypeOK, Live
  <2>. QED  BY <2>4, <2>5 DEF IInv, TypeOK, LifeInv
<1>. QED  BY <1>1, AlwaysIInv, PTL

(* The jobs of a group begin in the order of their submission, whatever    *)
(* jobs of other groups overtake them.                                     *)
THEOREM GroupOrder == Spec => StartsInGroupOrder
<1> DEFINE Ordered == \A i, k \in 1..Len(first_job) :
                        (k < i /\ status[first_job[i]] = "queued"
                               /\ status'[first_job[i]] = "running")
                          => ~SameGroup(first_job[i], first_job[k])
<1>1. ASSUME IInv, Next
      PROVE  Ordered
  <2> SUFFICES ASSUME NEW i \in 1..Len(first_job), NEW k \in 1..Len(first_job), k < i,
                      status[first_job[i]] = "queued",
                      status'[first_job[i]] = "running",
                      SameGroup(first_job[i], first_job[k])
               PROVE  FALSE
    OBVIOUS
  <2>0. first_job[i] \in Jobs /\ status \in [Jobs -> {"new", "submitted", "queued",
                                    "refused", "running", "done", "cancelled"}]
    BY <1>1 DEF IInv, TypeOK
  <2>1. \E t \in Threads : LoopRun(t)
    <3>1. CASE Main
      BY <2>0, <3>1 DEF Main, afb_thread_init, MainCall, Enqueue, Refuse, MainSignal,
         Terminate, TerminateBroadcast, TerminateJoin, TerminateCancel, TerminateDone, life
    <3>2. ASSUME NEW t \in Threads, Worker(t), ~LoopRun(t) PROVE FALSE
      BY <2>0, <3>2 DEF Worker, WorkerCallLock, WorkerCallBody, Enqueue, Refuse,
         WorkerSignal, LoopStop, LoopWait, SpuriousWakeup, CallbackReply,
         CallbackReturn, CallbackSignal, JobEnd, life
    <3>. QED  BY <1>1, <3>1, <3>2 DEF Next
  <2>2. PICK t \in Threads : LoopRun(t)
    BY <2>1
  <2>3. ~Sad
    <3>1. t \in Live /\ Live \in SUBSET Threads
      BY <2>2 DEF LoopRun, AtLoop, Live
    <3>2. Cardinality(Live) # 0
      BY <3>1, ThreadsFinite, FS_EmptySet
    <3>3. mpc # "cancel"
      BY <1>1, <3>2 DEF IInv, CountInv
    <3>. QED  BY <1>1, <3>3, IInvExcludesSad DEF NoSadSituation
  <2>4. PICK m \in 1..Len(first_job) :
          FirstUnblocked(m) /\ status' = [status EXCEPT ![first_job[m]] = "running"]
    BY <2>2, <2>3 DEF LoopRun, Takes, RunJob
  <2>5. first_job[m] = first_job[i]
    BY <2>0, <2>4
  <2>6. first_job[i] \in blocked
    BY <1>1 DEF IInv, GroupInv
  <2>. QED  BY <2>4, <2>5, <2>6 DEF FirstUnblocked
<1>2. IInv /\ [Next]_vars => [Ordered]_vars
  BY <1>1
<1>. QED  BY <1>2, AlwaysIInv, PTL DEF Spec, StartsInGroupOrder

-----------------------------------------------------------------------------
(* What the pool does for its callers.                                     *)

(* The abstract state is in the type of the statuses.                      *)
LEMMA PoolStateFacts ==
    ASSUME TypeOK
    PROVE  /\ PoolState = [j \in Jobs |-> PoolState[j]]
           /\ \A j \in Jobs : PoolState[j] = IF status[j] = "submitted" THEN "new" ELSE status[j]
BY DEF PoolState

(* A step that keeps the queue and the statuses, but for new requests that *)
(* are submitted, is invisible.                                            *)
LEMMA Invisible ==
    ASSUME first_job' = first_job,
           \A j \in Jobs : \/ status'[j] = status[j]
                           \/ status[j] = "new" /\ status'[j] = "submitted"
    PROVE  UNCHANGED Pool!poolVars
<1>1. PoolState' = PoolState
  BY DEF PoolState
<1>. QED  BY <1>1 DEF Pool!poolVars

(* Removing the i-th element of the queue, in the words of the two modules.*)
LEMMA UnlinkIsWithout ==
    ASSUME NEW q \in Seq(Jobs), NEW i \in 1..Len(q)
    PROVE  Unlink(q, i) = SubSeq(q, 1, i - 1) \o SubSeq(q, i + 1, Len(q))
<1> DEFINE a == SubSeq(q, 1, i - 1)
           b == SubSeq(q, i + 1, Len(q))
<1>1. /\ a \in Seq(Jobs) /\ Len(a) = i - 1
      /\ \A k \in 1..(i - 1) : a[k] = q[k]
  OBVIOUS
<1>2. /\ b \in Seq(Jobs) /\ Len(b) = Len(q) - i
      /\ \A k \in 1..(Len(q) - i) : b[k] = q[i + k]
  OBVIOUS
<1>3. /\ a \o b \in Seq(Jobs) /\ Len(a \o b) = Len(q) - 1
      /\ \A k \in 1..(Len(q) - 1) : (a \o b)[k] = IF k < i THEN q[k] ELSE q[k + 1]
  <2>1. /\ a \o b \in Seq(Jobs) /\ Len(a \o b) = Len(a) + Len(b)
        /\ \A k \in 1..(Len(a) + Len(b)) :
             (a \o b)[k] = IF k <= Len(a) THEN a[k] ELSE b[k - Len(a)]
    BY <1>1, <1>2, ConcatProperties
  <2>. HIDE DEF a, b
  <2>. QED  BY <2>1, <1>1, <1>2
<1> HIDE DEF a, b
<1>4. /\ Unlink(q, i) \in Seq(Jobs) /\ Len(Unlink(q, i)) = Len(q) - 1
      /\ \A k \in 1..(Len(q) - 1) : /\ k < i => Unlink(q, i)[k] = q[k]
                                    /\ k >= i => Unlink(q, i)[k] = q[k + 1]
  BY UnlinkFacts, Zenon
<1>5. Unlink(q, i) = a \o b
  <2>1. \A k \in 1..(Len(q) - 1) : Unlink(q, i)[k] = (a \o b)[k]
    BY <1>3, <1>4
  <2>. QED  BY <1>3, <1>4, <2>1, SeqEqual
<1>. QED  BY <1>5 DEF a, b

LEMMA UnlinkFirstIsTail ==
    ASSUME NEW q \in Seq(Jobs), q # <<>>
    PROVE  Unlink(q, 1) = Tail(q)
<1>1. Len(q) \in Nat \ {0}
  BY EmptySeq
<1>2. /\ Unlink(q, 1) \in Seq(Jobs) /\ Len(Unlink(q, 1)) = Len(q) - 1
      /\ \A k \in 1..(Len(q) - 1) : Unlink(q, 1)[k] = q[k + 1]
  BY <1>1, UnlinkFacts
<1>. QED  BY <1>2, HeadTailProperties, SeqEqual

(* The requests that run are the jobs of the running threads, one each.    *)
LEMMA RunningCount ==
    ASSUME IInv
    PROVE  /\ Pool!In("running") = {job[t] : t \in RunningThreads}
           /\ IsFiniteSet(Pool!In("running"))
           /\ Cardinality(Pool!In("running")) <= Cardinality(RunningThreads)
<1>1. Pool!In("running") = {j \in Jobs : status[j] = "running"}
  BY DEF Pool!In, PoolState
<1>2. Pool!In("running") = {job[t] : t \in RunningThreads}
  BY <1>1 DEF IInv, PlaceInv, RunningThreads
<1> DEFINE f == [t \in RunningThreads |-> job[t]]
<1>3. f \in Surjection(RunningThreads, Pool!In("running"))
  BY <1>2 DEF Surjection
<1>4. IsFiniteSet(RunningThreads)
  BY ThreadsFinite DEF RunningThreads
<1>. QED  BY <1>2, <1>3, <1>4, FS_Surjection

LEMMA NoneRuns ==
    ASSUME IInv, running = 0 \/ mpc = "cancel"
    PROVE  Pool!In("running") = {}
<1>1. RunningThreads \in SUBSET Threads /\ Live \in SUBSET Threads
  BY DEF RunningThreads, Live
<1>2. CASE running = 0
  <2>1. RunningThreads = {}
    BY <1>1, <1>2, ThreadsFinite, FS_EmptySet DEF IInv, CountInv
  <2>. QED  BY <2>1, RunningCount
<1>3. CASE mpc = "cancel"
  <2>1. Live = {}
    BY <1>1, <1>3, ThreadsFinite, FS_EmptySet DEF IInv, CountInv
  <2>2. RunningThreads = {}
    BY <2>1 DEF Live, RunningThreads, InJob
  <2>. QED  BY <2>2, RunningCount
<1>. QED  BY <1>2, <1>3

-----------------------------------------------------------------------------
(* The visible steps.                                                      *)

(* An accepted request.                                                    *)
LEMMA EnqueueAccepts ==
    ASSUME IInv, NEW j \in Jobs, NEW pcs, Enqueue(j, pcs),
           status[j] \in {"new", "submitted"},
           mpc \notin {"start", "cancel", "done"}
    PROVE  Pool!Accept(j)
<1>1. PoolState[j] = "new"
  BY DEF PoolState
<1>2. Len(first_job) < WaiterCount
  BY CountAssumption DEF Enqueue, Full, IInv, TypeOK, RemainsIsFreePlaces
<1>3. PoolState' = [PoolState EXCEPT ![j] = "queued"]
  BY DEF Enqueue, PoolState, IInv, TypeOK
<1>. QED  BY <1>1, <1>2, <1>3 DEF Pool!Accept, Enqueue

(* A refused one.                                                          *)
LEMMA RefuseRefuses ==
    ASSUME IInv, NEW j \in Jobs, Refuse(j),
           status[j] \in {"new", "submitted"},
           mpc \notin {"start", "cancel", "done"}
    PROVE  Pool!Refuse(j)
<1>1. PoolState[j] = "new"
  BY DEF PoolState
<1>2. Len(first_job) = WaiterCount \/ Pool!In("running") = {}
  <2>1. CASE Full
    BY <2>1, CountAssumption DEF Full, IInv, TypeOK, RemainsIsFreePlaces
  <2>2. CASE NeedThread /\ started = 0
    BY <2>2, NoneRuns DEF NeedThread
  <2>. QED  BY <2>1, <2>2 DEF Refuse
<1>3. PoolState' = [PoolState EXCEPT ![j] = "refused"]
  BY DEF Refuse, PoolState, IInv, TypeOK
<1>. QED  BY <1>1, <1>2, <1>3 DEF Pool!Refuse, Refuse

(* A thread that begins a job finds no job of its group before it, and is  *)
(* not one of the threads that run.                                        *)
LEMMA LoopRunBegins ==
    ASSUME IInv, NEW t \in Threads, LoopRun(t)
    PROVE  Pool!BeginSome
<1>1. ~Sad
  <2>1. t \in Live /\ Live \in SUBSET Threads
    BY DEF LoopRun, AtLoop, Live
  <2>2. Cardinality(Live) # 0
    BY <2>1, ThreadsFinite, FS_EmptySet
  <2>3. mpc # "cancel"
    BY <2>2 DEF IInv, CountInv
  <2>. QED  BY <2>3, IInvExcludesSad DEF NoSadSituation
<1>2. PICK i \in 1..Len(first_job) : FirstUnblocked(i) /\ RunJob(t, i)
  BY <1>1 DEF LoopRun, Takes
<1>3. first_job \in Seq(Jobs) /\ first_job[i] \in Jobs
  BY DEF IInv, TypeOK
<1>4. ASSUME NEW k \in 1..(i - 1), Group[first_job[i]] # NoGroup
      PROVE  Group[first_job[k]] # Group[first_job[i]]
  BY <1>2, <1>4 DEF FirstUnblocked, IInv, GroupInv, SameGroup
<1>5. Cardinality(Pool!In("running")) < AllowedCount
  <2>1. t \notin RunningThreads /\ RunningThreads \cup {t} \in SUBSET Threads
    BY DEF LoopRun, AtLoop, RunningThreads, InJob
  <2>2. Cardinality(RunningThreads \cup {t}) = Cardinality(RunningThreads) + 1
    BY <2>1, CountOneMore
  <2>3. Cardinality(RunningThreads) + 1 <= AllowedCount
    BY <2>1, <2>2, ThreadsFinite
  <2>. QED  BY <2>1, <2>3, RunningCount, ThreadsFinite, FS_CardinalityType, CountAssumption
<1>6. PoolState' = [PoolState EXCEPT ![first_job[i]] = "running"]
  BY <1>2, <1>3 DEF RunJob, PoolState, IInv, TypeOK
<1>7. first_job' = Pool!Without(i)
  BY <1>2, <1>3, UnlinkIsWithout DEF RunJob, Pool!Without
<1>8. \A k \in 1..(i - 1) : Group[first_job[i]] # NoGroup => Group[first_job[k]] # Group[first_job[i]]
  BY <1>4
<1>9. Pool!Cardinality(Pool!In("running")) = Cardinality(Pool!In("running"))
  BY Zenon DEF Cardinality, Pool!Cardinality
<1>10. Pool!Begin(i)
  BY <1>5, <1>6, <1>7, <1>8, <1>9 DEF Pool!Begin
<1>. QED  BY <1>2, <1>10 DEF Pool!BeginSome

LEMMA JobEndEnds ==
    ASSUME IInv, NEW t \in Threads, JobEnd(t)
    PROVE  \E j \in Jobs : Pool!End(j)
<1>1. job[t] \in Jobs /\ status[job[t]] = "running"
  BY DEF JobEnd, IInv, PlaceInv, InJob
<1>2. PoolState' = [PoolState EXCEPT ![job[t]] = "done"]
  BY <1>1 DEF JobEnd, PoolState, IInv, TypeOK
<1>. QED  BY <1>1, <1>2 DEF Pool!End, PoolState, JobEnd

LEMMA TerminateCancels ==
    ASSUME IInv, TerminateCancel
    PROVE  Pool!Cancel
<1>1. first_job \in Seq(Jobs) /\ first_job # <<>> /\ first_job[1] \in Jobs
  BY DEF TerminateCancel, IInv, TypeOK
<1>2. Pool!In("running") = {}
  BY NoneRuns DEF TerminateCancel
<1>3. PoolState' = [PoolState EXCEPT ![first_job[1]] = "cancelled"]
  BY <1>1 DEF TerminateCancel, PoolState, IInv, TypeOK
<1>4. first_job' = Tail(first_job)
  BY <1>1, UnlinkFirstIsTail DEF TerminateCancel
<1>. QED  BY <1>1, <1>2, <1>3, <1>4 DEF Pool!Cancel

-----------------------------------------------------------------------------
LEMMA MainRefines ==
    ASSUME IInv, Main
    PROVE  [Pool!PoolNext]_(Pool!poolVars)
<1>1. ASSUME NEW j \in Jobs, MainCall(j) PROVE Pool!PoolNext
  BY <1>1, EnqueueAccepts, RefuseRefuses DEF MainCall, Pool!PoolNext
<1>2. CASE TerminateCancel
  BY <1>2, TerminateCancels DEF Pool!PoolNext
<1>3. CASE \/ afb_thread_init \/ MainSignal \/ Terminate \/ TerminateBroadcast
           \/ TerminateJoin \/ TerminateDone
  <2>1. first_job' = first_job /\ status' = status
    BY <1>3 DEF afb_thread_init, MainSignal, Terminate, TerminateBroadcast,
       TerminateJoin, TerminateDone, life, queue
  <2>. QED  BY <2>1, Invisible
<1>. QED  BY <1>1, <1>2, <1>3 DEF Main

LEMMA WorkerRefines ==
    ASSUME IInv, NEW t \in Threads, Worker(t)
    PROVE  [Pool!PoolNext]_(Pool!poolVars)
<1>1. ASSUME NEW j \in Jobs, WorkerCallLock(t, j) PROVE UNCHANGED Pool!poolVars
  <2>1. first_job' = first_job
    BY <1>1 DEF WorkerCallLock, queue
  <2>2. status[j] = "new" /\ status' = [status EXCEPT ![j] = "submitted"]
    BY <1>1 DEF WorkerCallLock
  <2>. QED  BY <2>1, <2>2, Invisible DEF IInv, TypeOK
<1>2. CASE WorkerCallBody(t)
  <2>1. arg[t] \in Jobs /\ status[arg[t]] = "submitted"
    BY <1>2 DEF WorkerCallBody, IInv, PlaceInv
  <2>2. mpc \notin {"start", "cancel", "done"}
    <3>1. t \in Live /\ Live \in SUBSET Threads
      BY <1>2 DEF WorkerCallBody, Live
    <3>2. Cardinality(Live) # 0
      BY <3>1, ThreadsFinite, FS_EmptySet
    <3>. QED  BY <1>2, <3>2 DEF WorkerCallBody, IInv, CountInv, PhaseInv
  <2>3. Pool!Accept(arg[t]) \/ Pool!Refuse(arg[t])
    BY <1>2, <2>1, <2>2, EnqueueAccepts, RefuseRefuses DEF WorkerCallBody
  <2>. QED  BY <2>1, <2>3 DEF Pool!PoolNext
<1>3. CASE LoopRun(t)
  BY <1>3, LoopRunBegins DEF Pool!PoolNext
<1>4. CASE JobEnd(t)
  BY <1>4, JobEndEnds DEF Pool!PoolNext
<1>5. CASE \/ WorkerSignal(t) \/ LoopStop(t) \/ LoopWait(t) \/ SpuriousWakeup(t)
           \/ CallbackReply(t) \/ CallbackReturn(t) \/ CallbackSignal(t)
  <2>1. first_job' = first_job /\ status' = status
    BY <1>5 DEF WorkerSignal, LoopStop, LoopWait, SpuriousWakeup, CallbackReply,
       CallbackReturn, CallbackSignal, life, queue
  <2>. QED  BY <2>1, Invisible
<1>. QED  BY <1>1, <1>2, <1>3, <1>4, <1>5 DEF Worker

(* Queue, blocked flags, counters, mutex and signals implement the bounded *)
(* pool: accepted requests are begun in the order of their group, never    *)
(* more than AllowedCount at a time, requests are refused only when the    *)
(* list is full or nothing runs, and cancelled only when nothing runs.     *)
THEOREM RefinesPool == Spec => Pool!PoolSafety
<1>1. Init => Pool!PoolInit
  BY DEF Init, Pool!PoolInit, PoolState
<1>2. IInv /\ [Next]_vars => [Pool!PoolNext]_(Pool!poolVars)
  <2>1. CASE UNCHANGED vars
    BY <2>1, Invisible DEF vars
  <2>. QED  BY <2>1, MainRefines, WorkerRefines DEF Next
<1>. QED  BY <1>1, <1>2, AlwaysIInv, PTL DEF Spec, Pool!PoolSafety

-----------------------------------------------------------------------------
(* Sleeping threads.  Counting jobs instead of positions in the queue, the *)
(* jobs that could be run are at most the threads that come for one and    *)
(* the signal that the main thread is about to send.                       *)

Ready == {j \in Jobs : status[j] = "queued" /\ j \notin blocked}

ComingThreads == {t \in Threads : tpc[t] \in {"loop", "signal"}}

Asleep == stop = {} /\ \E t \in Threads : tpc[t] = "wait"

MainComing == IF mpc = "signal" THEN 1 ELSE 0

AwakeInv == Asleep => Cardinality(Ready) <= Cardinality(ComingThreads) + MainComing

LEMMA ReadyCount ==
    ASSUME IInv
    PROVE  /\ IsFiniteSet(Ready) /\ Cardinality(Ready) \in Nat
           /\ AwakeInv <=> NoLostWakeup
<1> DEFINE R == {i \in 1..Len(first_job) : first_job[i] \notin blocked}
           f == [i \in R |-> first_job[i]]
<1>0. first_job \in Seq(Jobs) /\ Len(first_job) \in Nat
  BY DEF IInv, TypeOK
<1>1. IsFiniteSet(R)
  <2>1. IsFiniteSet(1..Len(first_job))
    BY <1>0, FS_Interval
  <2>. QED  BY <2>1, FS_Subset
<1>2. \A i \in R : first_job[i] \in Ready
  BY <1>0 DEF Ready, IInv, PlaceInv
<1>3. \A j \in Ready : \E i \in R : first_job[i] = j
  BY DEF Ready, IInv, PlaceInv
<1>4. \A i, k \in R : first_job[i] = first_job[k] => i = k
  BY DEF IInv, PlaceInv
<1>5. f \in Surjection(R, Ready)
  BY <1>2, <1>3 DEF Surjection
<1>6. f \in Injection(R, Ready)
  BY <1>2, <1>4 DEF Injection, IsInjective
<1>7. IsFiniteSet(Ready) /\ Cardinality(Ready) = Cardinality(R)
  BY <1>1, <1>5, <1>6, FS_Surjection
<1>. QED  BY <1>7, FS_CardinalityType DEF AwakeInv, NoLostWakeup, ComingThreads, Asleep, MainComing

LEMMA ComingCount ==
    /\ ComingThreads \in SUBSET Threads
    /\ IsFiniteSet(ComingThreads) /\ Cardinality(ComingThreads) \in Nat
<1>1. ComingThreads \in SUBSET Threads
  BY DEF ComingThreads
<1>. QED  BY <1>1, ThreadsFinite, FS_CardinalityType

(* A step that readies no job and takes no thread away.                    *)
LEMMA NoneReadied ==
    ASSUME IInv, IInv', AwakeInv, Asleep' => Asleep, Ready' \subseteq Ready,
           ComingThreads \subseteq ComingThreads', MainComing' >= MainComing
    PROVE  AwakeInv'
<1>1. Cardinality(Ready') <= Cardinality(Ready) /\ Cardinality(Ready') \in Nat /\ Cardinality(Ready) \in Nat
  BY ReadyCount, FS_Subset, FS_CardinalityType
<1>2. /\ IsFiniteSet(ComingThreads') /\ Cardinality(ComingThreads') \in Nat
      /\ Cardinality(ComingThreads) \in Nat
      /\ Cardinality(ComingThreads) <= Cardinality(ComingThreads')
  <2>1. ComingThreads' \in SUBSET Threads
    BY DEF ComingThreads
  <2>. QED  BY <2>1, ThreadsFinite, FS_CardinalityType, FS_Subset, ComingCount
<1>. QED  BY <1>1, <1>2 DEF AwakeInv, MainComing

(* A step that readies one job at most, with one more thread that comes or *)
(* the signal of the main thread to come.                                  *)
LEMMA OneReadied ==
    ASSUME IInv, IInv', AwakeInv, Asleep' => Asleep,
           NEW j \in Jobs, Ready' \subseteq Ready \cup {j},
           ComingThreads \subseteq ComingThreads',
           \/ MainComing = 0 /\ MainComing' = 1
           \/ /\ MainComing' = MainComing
              /\ \E t \in Threads : t \in ComingThreads' \ ComingThreads
    PROVE  AwakeInv'
<1>1. Cardinality(Ready') <= Cardinality(Ready) + 1 /\ Cardinality(Ready') \in Nat
      /\ Cardinality(Ready) \in Nat
  <2>1. /\ IsFiniteSet(Ready \cup {j}) /\ Cardinality(Ready) \in Nat
        /\ Cardinality(Ready \cup {j}) <= Cardinality(Ready) + 1
    <3>1. IsFiniteSet(Ready) /\ Cardinality(Ready) \in Nat
      BY ReadyCount
    <3>2. /\ IsFiniteSet(Ready \cup {j})
          /\ Cardinality(Ready \cup {j}) = IF j \in Ready THEN Cardinality(Ready)
                                           ELSE Cardinality(Ready) + 1
      BY <3>1, FS_AddElement
    <3>. QED  BY <3>1, <3>2
  <2>. QED  BY <2>1, FS_Subset, FS_CardinalityType
<1>2. ComingThreads' \in SUBSET Threads
  BY DEF ComingThreads
<1>3. /\ Cardinality(ComingThreads') \in Nat /\ Cardinality(ComingThreads) \in Nat
      /\ Cardinality(ComingThreads) <= Cardinality(ComingThreads')
  BY <1>2, ThreadsFinite, FS_CardinalityType, FS_Subset, ComingCount
<1>4. CASE MainComing = 0 /\ MainComing' = 1
  BY <1>1, <1>3, <1>4 DEF AwakeInv
<1>5. ASSUME MainComing' = MainComing, NEW t \in Threads, t \in ComingThreads' \ ComingThreads
      PROVE  AwakeInv'
  <2>1. Cardinality(ComingThreads \cup {t}) = Cardinality(ComingThreads) + 1
    BY <1>5, ComingCount, CountOneMore
  <2>2. ComingThreads \cup {t} \in SUBSET ComingThreads'
    BY <1>5
  <2>3. Cardinality(ComingThreads) + 1 <= Cardinality(ComingThreads')
    BY <1>2, <2>1, <2>2, ThreadsFinite, FS_Subset
  <2>. QED  BY <1>1, <1>3, <1>5, <2>3 DEF AwakeInv, MainComing
<1>. QED  BY <1>4, <1>5

(* pthread_cond_signal in pcs, which is tpc but for the sender: either     *)
(* nobody sleeps after it or one more thread comes.                        *)
LEMMA WakeBalance ==
    ASSUME IInv, IInv', AwakeInv, UNCHANGED <<status, blocked, stop>>, NEW pcs, Wake(pcs),
           pcs \in [Threads -> InJob \cup {"none", "loop", "wait", "ended", "joined"}],
           \A t \in Threads : pcs[t] = "wait" <=> tpc[t] = "wait",
           \/ /\ MainComing = 1 /\ MainComing' = 0
              /\ pcs = tpc
           \/ /\ MainComing' = MainComing
              /\ \E s \in Threads : /\ tpc[s] = "signal"
                                    /\ \A t \in Threads \ {s} : pcs[t] = tpc[t]
    PROVE  AwakeInv'
<1>1. CASE \A w \in Threads : pcs[w] # "wait" /\ tpc' = pcs
  BY <1>1 DEF AwakeInv, Asleep
<1>2. ASSUME NEW w \in Threads, pcs[w] = "wait", tpc' = [pcs EXCEPT ![w] = "loop"]
      PROVE  AwakeInv'
  <2>1. Ready' = Ready /\ Cardinality(Ready) \in Nat
    BY ReadyCount DEF Ready
  <2>2. Asleep' => Asleep
    BY <1>2 DEF Asleep
  <2>3. w \notin ComingThreads
    BY <1>2 DEF ComingThreads
  <2>4. Cardinality(ComingThreads \cup {w}) = Cardinality(ComingThreads) + 1
    BY <2>3, ComingCount, CountOneMore
  <2>5. CASE MainComing = 1 /\ MainComing' = 0 /\ pcs = tpc
    <3>1. ComingThreads' = ComingThreads \cup {w}
      BY <1>2, <2>5 DEF ComingThreads
    <3>. QED  BY <2>1, <2>2, <2>4, <2>5, <3>1, ComingCount DEF AwakeInv
  <2>6. ASSUME MainComing' = MainComing, NEW s \in Threads, tpc[s] = "signal",
               \A t \in Threads \ {s} : pcs[t] = tpc[t]
        PROVE  AwakeInv'
    <3>1. (ComingThreads \cup {w}) \ {s} \subseteq ComingThreads'
      BY <1>2, <2>6 DEF ComingThreads
    <3>2. s \in ComingThreads \cup {w} /\ ComingThreads \cup {w} \in SUBSET Threads
      BY <2>6, ComingCount DEF ComingThreads
    <3>3. Cardinality((ComingThreads \cup {w}) \ {s}) = Cardinality(ComingThreads)
      <4> DEFINE W == ComingThreads \cup {w}
      <4>1. Cardinality(W \ {s}) = Cardinality(W) - 1
        <5> HIDE DEF W
        <5>1. W \in SUBSET Threads /\ s \in W
          BY <3>2 DEF W
        <5>. QED  BY <5>1, CountOneLess
      <4>. QED  BY <2>4, <4>1, ComingCount
    <3>4. ComingThreads' \in SUBSET Threads
      BY DEF ComingThreads
    <3>5. /\ Cardinality(ComingThreads) <= Cardinality(ComingThreads')
          /\ Cardinality(ComingThreads') \in Nat
      BY <3>1, <3>3, <3>4, ThreadsFinite, FS_Subset, FS_CardinalityType
    <3>. QED  BY <2>1, <2>2, <2>6, <3>5, ComingCount DEF AwakeInv, MainComing
  <2>. QED  BY <2>5, <2>6
<1>. QED  BY <1>1, <1>2 DEF Wake

LEMMA MainKeepsAwake ==
    ASSUME IInv, IInv', AwakeInv, Main
    PROVE  AwakeInv'
<1>1. CASE afb_thread_init
  BY <1>1 DEF afb_thread_init, AwakeInv, Asleep
<1>2. ASSUME NEW j \in Jobs, MainCall(j), Enqueue(j, tpc), mpc' = "signal" PROVE AwakeInv'
  <2>1. /\ Asleep' => Asleep
        /\ ComingThreads \subseteq ComingThreads'
    BY <1>2 DEF MainCall, Enqueue, Asleep, ComingThreads, IInv, TypeOK
  <2>2. Ready' \subseteq Ready \cup {j}
    BY <1>2 DEF Enqueue, Ready, IInv, TypeOK
  <2>3. MainComing = 0 /\ MainComing' = 1
    BY <1>2 DEF MainCall, MainComing
  <2>. QED  BY <2>1, <2>2, <2>3, OneReadied
<1>3. ASSUME NEW j \in Jobs, MainCall(j), Refuse(j), UNCHANGED <<tpc, mpc>> PROVE AwakeInv'
  <2>1. /\ Asleep' => Asleep
        /\ ComingThreads \subseteq ComingThreads'
        /\ MainComing' >= MainComing
    BY <1>3 DEF MainCall, Asleep, ComingThreads, MainComing
  <2>2. Ready' \subseteq Ready
    BY <1>3 DEF Refuse, Ready, IInv, TypeOK
  <2>. QED  BY <2>1, <2>2, NoneReadied
<1>4. CASE MainSignal
  <2>1. UNCHANGED <<status, blocked, stop>> /\ Wake(tpc)
    BY <1>4 DEF MainSignal, queue, life
  <2>2. MainComing = 1 /\ MainComing' = 0
    BY <1>4 DEF MainSignal, MainComing
  <2>3. tpc \in [Threads -> InJob \cup {"none", "loop", "wait", "ended", "joined"}]
    BY DEF IInv, TypeOK
  <2>. QED  BY <2>1, <2>2, <2>3, WakeBalance
<1>5. CASE Terminate
  <2>1. ~Asleep'
    BY <1>5 DEF Terminate, Asleep, IInv, CountInv, Closing
  <2>. QED  BY <2>1 DEF AwakeInv
<1>6. CASE TerminateBroadcast
  BY <1>6 DEF TerminateBroadcast, AwakeInv, Asleep
<1>7. CASE TerminateJoin \/ TerminateCancel \/ TerminateDone
  <2>1. mpc \in Closing
    BY <1>7 DEF TerminateJoin, TerminateCancel, TerminateDone, Closing
  <2>2. ~Asleep
    BY <2>1 DEF Asleep, IInv, CountInv, Live
  <2>3. Asleep' => Asleep
    BY <1>7 DEF TerminateJoin, TerminateCancel, TerminateDone, Asleep
  <2>. QED  BY <2>2, <2>3 DEF AwakeInv
<1>. QED  BY <1>1, <1>2, <1>3, <1>4, <1>5, <1>6, <1>7 DEF Main, MainCall

LEMMA LoopRunKeepsAwake ==
    ASSUME IInv, IInv', AwakeInv, NEW t \in Threads, LoopRun(t)
    PROVE  AwakeInv'
<1>1. ~Sad
  <2>1. t \in Live /\ Live \in SUBSET Threads
    BY DEF LoopRun, AtLoop, Live
  <2>2. Cardinality(Live) # 0
    BY <2>1, ThreadsFinite, FS_EmptySet
  <2>3. mpc # "cancel"
    BY <2>2 DEF IInv, CountInv
  <2>. QED  BY <2>3, IInvExcludesSad DEF NoSadSituation
<1>2. PICK i \in 1..Len(first_job) : FirstUnblocked(i) /\ RunJob(t, i)
  BY <1>1 DEF LoopRun, Takes
<1> DEFINE j == first_job[i]
<1>3. j \in Ready /\ Ready' = Ready \ {j}
  BY <1>2 DEF FirstUnblocked, RunJob, Ready, IInv, TypeOK, PlaceInv
<1>4. t \in ComingThreads /\ ComingThreads' = ComingThreads \ {t}
  BY <1>2 DEF RunJob, LoopRun, AtLoop, ComingThreads, IInv, TypeOK
<1>5. Asleep' => Asleep
  BY <1>2 DEF RunJob, Asleep
<1>6. MainComing' = MainComing
  BY <1>2 DEF RunJob, MainComing
<1>7. Cardinality(Ready') = Cardinality(Ready) - 1 /\ Cardinality(Ready) \in Nat
  <2> HIDE DEF j
  <2>. QED  BY <1>3, ReadyCount, FS_RemoveElement
<1>8. Cardinality(ComingThreads') = Cardinality(ComingThreads) - 1 /\ Cardinality(ComingThreads) \in Nat
  BY <1>4, ComingCount, CountOneLess
<1>. QED  BY <1>5, <1>6, <1>7, <1>8 DEF AwakeInv, MainComing

(* The end of a job unblocks one job at most, for the thread that ends it. *)
LEMMA JobEndKeepsAwake ==
    ASSUME IInv, IInv', AwakeInv, NEW t \in Threads, JobEnd(t)
    PROVE  AwakeInv'
<1>1. /\ Asleep' => Asleep
      /\ ComingThreads \subseteq ComingThreads'
      /\ t \in ComingThreads' \ ComingThreads
  BY DEF JobEnd, Asleep, ComingThreads, IInv, TypeOK
<1>2. MainComing' = MainComing
  BY DEF JobEnd, MainComing
<1>3. job[t] \in Jobs /\ status[job[t]] = "running"
  BY DEF JobEnd, IInv, PlaceInv, InJob
<1>4. Ready' = {j \in Jobs : status[j] = "queued" /\ j \notin blocked'}
  BY <1>3 DEF JobEnd, Ready, IInv, TypeOK
<1>5. \E j \in Jobs : Ready' \subseteq Ready \cup {j}
  <2>1. CASE blocked' = blocked
    BY <1>3, <1>4, <2>1 DEF Ready
  <2>2. CASE blocked' = JobUnblock(Group[job[t]])
    <3> DEFINE g == Group[job[t]]
    <3>1. \A j, k \in blocked \ blocked' : j = k
      <4> SUFFICES ASSUME NEW j \in blocked \ blocked', NEW k \in blocked \ blocked' PROVE j = k
        OBVIOUS
      <4>1. PICK a \in 1..Len(first_job) : /\ first_job[a] = j /\ Group[j] = g
                                           /\ \A x \in 1..(a - 1) : Group[first_job[x]] # g
        BY <2>2 DEF JobUnblock
      <4>2. PICK b \in 1..Len(first_job) : /\ first_job[b] = k /\ Group[k] = g
                                           /\ \A x \in 1..(b - 1) : Group[first_job[x]] # g
        BY <2>2 DEF JobUnblock
      <4>3. a = b
        BY <4>1, <4>2 DEF IInv, TypeOK
      <4>. QED  BY <4>1, <4>2, <4>3
    <3>2. blocked \subseteq Jobs
      BY DEF IInv, TypeOK
    <3>. QED  BY <1>3, <1>4, <3>1, <3>2 DEF Ready
  <2>. QED  BY <2>1, <2>2 DEF JobEnd, UnblockAtEnd
<1>. QED  BY <1>1, <1>2, <1>5, OneReadied

LEMMA WorkerKeepsAwake ==
    ASSUME ~SignalInCall, IInv, IInv', AwakeInv, NEW t \in Threads, Worker(t)
    PROVE  AwakeInv'
<1>1. ASSUME NEW j \in Jobs, WorkerCallLock(t, j) PROVE AwakeInv'
  <2>1. /\ Asleep' => Asleep
        /\ ComingThreads \subseteq ComingThreads'
    BY <1>1 DEF WorkerCallLock, Asleep, ComingThreads, IInv, TypeOK
  <2>2. Ready' \subseteq Ready /\ MainComing' >= MainComing
    BY <1>1 DEF WorkerCallLock, queue, Ready, IInv, TypeOK, MainComing
  <2>. QED  BY <2>1, <2>2, NoneReadied
<1>2. CASE WorkerCallBody(t)
  <2>0. arg[t] \in Jobs
    BY <1>2 DEF WorkerCallBody, IInv, PlaceInv
  <2>1. CASE Enqueue(arg[t], [tpc EXCEPT ![t] = "signal"])
    <3>0. \A u \in Threads : \/ tpc'[u] = tpc[u] /\ u # t
                             \/ tpc'[u] = "signal" /\ u = t
                             \/ tpc'[u] = "loop"
      BY <2>1 DEF Enqueue, IInv, TypeOK
    <3>1. /\ Asleep' => Asleep
          /\ ComingThreads \subseteq ComingThreads'
          /\ t \in ComingThreads' \ ComingThreads
      BY <1>2, <3>0 DEF WorkerCallBody, Asleep, ComingThreads
    <3>2. Ready' \subseteq Ready \cup {arg[t]}
      BY <2>1 DEF Enqueue, Ready, IInv, TypeOK
    <3>3. MainComing' = MainComing
      BY <1>2 DEF WorkerCallBody, MainComing
    <3>. QED  BY <2>0, <3>1, <3>2, <3>3, OneReadied
  <2>2. CASE Refuse(arg[t]) /\ tpc' = [tpc EXCEPT ![t] = "callback"]
    <3>1. /\ Asleep' => Asleep
          /\ ComingThreads \subseteq ComingThreads'
      BY <1>2, <2>2 DEF WorkerCallBody, Asleep, ComingThreads, IInv, TypeOK
    <3>2. Ready' \subseteq Ready
      BY <2>2 DEF Refuse, Ready, IInv, TypeOK
    <3>3. MainComing' >= MainComing
      BY <1>2 DEF WorkerCallBody, MainComing
    <3>. QED  BY <3>1, <3>2, <3>3, NoneReadied
  <2>. QED  BY <1>2, <2>1, <2>2 DEF WorkerCallBody
<1>3. CASE WorkerSignal(t)
  <2> DEFINE pcs == [tpc EXCEPT ![t] = "callback"]
  <2>1. UNCHANGED <<status, blocked, stop>> /\ Wake(pcs) /\ tpc[t] = "signal" /\ MainComing' = MainComing
    BY <1>3 DEF WorkerSignal, queue, life, MainComing
  <2>2. /\ pcs \in [Threads -> InJob \cup {"none", "loop", "wait", "ended", "joined"}]
        /\ \A u \in Threads : pcs[u] = "wait" <=> tpc[u] = "wait"
        /\ \A u \in Threads \ {t} : pcs[u] = tpc[u]
    BY <2>1 DEF IInv, TypeOK, InJob
  <2> HIDE DEF pcs
  <2>. QED  BY <2>1, <2>2, WakeBalance
<1>4. CASE LoopStop(t)
  BY <1>4 DEF LoopStop, AwakeInv, Asleep
<1>5. CASE LoopRun(t)
  BY <1>5, LoopRunKeepsAwake
<1>6. CASE LoopWait(t)
  <2>1. Ready' = {}
    BY <1>6 DEF LoopWait, NoJobToGet, queue, life, Ready, IInv, PlaceInv
  <2>2. ComingThreads' \in SUBSET Threads
    BY DEF ComingThreads
  <2>3. Cardinality(ComingThreads') \in Nat
    BY <2>2, ThreadsFinite, FS_CardinalityType
  <2>. QED  BY <2>1, <2>3, FS_EmptySet DEF AwakeInv, MainComing
<1>7. CASE \/ SpuriousWakeup(t) \/ CallbackReply(t) \/ CallbackReturn(t) \/ CallbackSignal(t)
  <2>1. /\ Asleep' => Asleep
        /\ ComingThreads \subseteq ComingThreads'
    BY <1>7 DEF SpuriousWakeup, CallbackReply, CallbackReturn, CallbackSignal,
       Asleep, ComingThreads, IInv, TypeOK
  <2>2. Ready' \subseteq Ready /\ MainComing' >= MainComing
    BY <1>7 DEF SpuriousWakeup, CallbackReply, CallbackReturn, CallbackSignal,
       queue, life, Ready, MainComing
  <2>. QED  BY <2>1, <2>2, NoneReadied
<1>8. CASE JobEnd(t)
  BY <1>8, JobEndKeepsAwake
<1>. QED  BY <1>1, <1>2, <1>3, <1>4, <1>5, <1>6, <1>7, <1>8 DEF Worker

(* pthread_cond_signal comes after the unlock and may find no waiter, jobs *)
(* are unblocked without a signal: no thread is left asleep for that, as   *)
(* long as no signal interrupts a submission.                              *)
THEOREM WakeupsAreNotLost ==
    ASSUME ~SignalInCall
    PROVE  Spec => []NoLostWakeup
<1>1. Init => AwakeInv
  BY DEF Init, AwakeInv, Asleep
<1>2. IInv /\ IInv' /\ AwakeInv /\ [Next]_vars => AwakeInv'
  <2>1. ASSUME UNCHANGED vars, AwakeInv PROVE AwakeInv'
    BY <2>1 DEF vars, AwakeInv, Asleep, Ready, ComingThreads, MainComing
  <2>. QED  BY <2>1, MainKeepsAwake, WorkerKeepsAwake DEF Next
<1>3. IInv /\ AwakeInv => NoLostWakeup
  BY ReadyCount
<1>. QED  BY <1>1, <1>2, <1>3, AlwaysIInv, PTL DEF Spec

=============================================================================
