----------------------------- MODULE AfbThread -----------------------------
(***************************************************************************)
(* The pool of threads that runs the verbs of the bindings (afb-thread.c), *)
(* with the signal guard wrapped around every callback (afb-sig-handler.c).*)
(*                                                                         *)
(* Two kinds of actors share the queue first_job and its mutex: the main   *)
(* thread (event loop: it submits requests and, at the end, terminates the *)
(* pool) and the worker threads, whose callbacks may submit requests too   *)
(* (subcalls).  A section protected by the mutex is one step, except that  *)
(* a worker inside afb_thread_call holds the mutex over two steps, because *)
(* a signal may strike in between.  pthread_cond_signal comes after the    *)
(* unlock and is therefore a step of its own.                              *)
(*                                                                         *)
(* The flag works of struct thread is written and never read: tpc says it. *)
(***************************************************************************)
EXTENDS Integers, Sequences, FiniteSets

CONSTANTS
    Jobs,           \* the requests that may be submitted, one job each
    NoJob,          \* no job: NULL
    NoGroup,        \* a NULL group
    Group,          \* Group[j]: the group of job j (the binding) or NoGroup
    AllowedCount,   \* afb_thread_init: maximum count of threads
    StartCount,     \* afb_thread_init: count of threads started at first
    WaiterCount,    \* afb_thread_init: maximum count of queued jobs
    SignalInCall    \* may a signal strike a callback inside afb_thread_call?

ASSUME JobsAssumption == NoJob \notin Jobs
ASSUME GroupAssumption == DOMAIN Group = Jobs
ASSUME CountAssumption ==
    /\ AllowedCount \in Nat \ {0}
    /\ StartCount \in 0..AllowedCount
    /\ WaiterCount \in Nat \ {0}
ASSUME SignalAssumption == SignalInCall \in BOOLEAN

(* The slots of the array threads.                                         *)
Threads == 1..AllowedCount

(* The owner of the mutex when it is not a worker.                         *)
Free == 0

VARIABLES
    mutex,      \* Free, or the worker that holds the mutex between two steps
    first_job,  \* the queue of pending jobs
    blocked,    \* the queued jobs whose field blocked is 1
    allowed, started, running, remains,     \* the counters
    stop,       \* the threads whose field stop is 1
    tpc,        \* where each thread is
    job,        \* the job each thread is running
    arg,        \* the job each thread is submitting
    mpc,        \* where the main thread is
    status,     \* what became of each request
    refs,       \* references the pool holds on each request
    replies     \* answers sent to each request

queue == <<first_job, blocked, remains>>
life  == <<status, refs, replies>>
vars  == <<mutex, first_job, blocked, allowed, started, running, remains,
           stop, tpc, job, arg, mpc, status, refs, replies>>

-----------------------------------------------------------------------------
(* The list of pending jobs.                                               *)

Queued == {first_job[i] : i \in 1..Len(first_job)}

SameGroup(j, k) == Group[j] # NoGroup /\ Group[k] = Group[j]

(* job_add finds in the list q a job of the group of j.                    *)
BlockedBy(q, j) == \E i \in 1..Len(q) : SameGroup(j, q[i])

(* The list q without its i-th element: unlinking through pjob.            *)
Unlink(q, i) == [k \in 1..(Len(q) - 1) |-> IF k < i THEN q[k] ELSE q[k + 1]]

(* Position i holds the job that job_get returns: the first not blocked.   *)
FirstUnblocked(i) ==
    /\ i \in 1..Len(first_job)
    /\ first_job[i] \notin blocked
    /\ \A k \in 1..(i - 1) : first_job[k] \in blocked

MutJobUnblock(g) ==
    {j \in blocked :
       ~ \E i \in 1..Len(first_job) :
           /\ first_job[i] = j /\ Group[j] = g
           /\ \A k \in (i + 1)..Len(first_job) : Group[first_job[k]] # g}

(* The jobs still blocked after job_unblock(g): its first one is cleared.  *)
JobUnblock(g) ==
    {j \in blocked :
       ~ \E i \in 1..Len(first_job) :
           /\ first_job[i] = j /\ Group[j] = g
           /\ \A k \in 1..(i - 1) : Group[first_job[k]] # g}

-----------------------------------------------------------------------------
(* Initialisation.                                                         *)

Init ==
    /\ mutex = Free
    /\ first_job = <<>>
    /\ blocked = {}
    /\ allowed = 0
    /\ started = 0
    /\ running = 0
    /\ remains = 0
    /\ stop = {}
    /\ tpc = [t \in Threads |-> "none"]
    /\ job = [t \in Threads |-> NoJob]
    /\ arg = [t \in Threads |-> NoJob]
    /\ mpc = "start"
    /\ status = [j \in Jobs |-> "new"]
    /\ refs = [j \in Jobs |-> 0]
    /\ replies = [j \in Jobs |-> 0]

(* afb_thread_init: pthread_create succeeds for n threads; with fewer than *)
(* StartCount the main program exits, and its threads with it.             *)
afb_thread_init ==
    /\ mpc = "start"
    /\ allowed' = AllowedCount
    /\ running' = 0
    /\ remains' = WaiterCount
    /\ \E n \in 0..StartCount :
         /\ started' = n
         /\ tpc' = [t \in Threads |-> IF t <= n /\ n = StartCount
                                      THEN "loop" ELSE "none"]
         /\ mpc' = IF n = StartCount THEN "idle" ELSE "exit"
    /\ UNCHANGED <<mutex, first_job, blocked, stop, job, arg, life>>

-----------------------------------------------------------------------------
(* afb_thread_call, the body under the mutex.  pcs is tpc with the caller, *)
(* when it is a worker, already moved past the body.                       *)

NeedThread == started = running /\ started < allowed

MutFull == remains < 0

(* remains is 0: too many jobs.                                            *)
Full == remains = 0

(* Too many jobs, or the only thread cannot be created: the request fails. *)
Refuse(j) ==
    /\ Full \/ (NeedThread /\ started = 0)
    /\ status' = [status EXCEPT ![j] = "refused"]
    /\ replies' = [replies EXCEPT ![j] = @ + 1]
    /\ UNCHANGED <<first_job, blocked, remains, started, refs>>

(* A thread is started if it is needed and pthread_create succeeds; the    *)
(* request is referenced and its job is appended to the queue.             *)
Enqueue(j, pcs) ==
    /\ ~Full
    /\ \/ /\ NeedThread
          /\ started' = started + 1
          /\ tpc' = [pcs EXCEPT ![started + 1] = "loop"]
       \/ /\ NeedThread => started > 0
          /\ started' = started
          /\ tpc' = pcs
    /\ first_job' = Append(first_job, j)
    /\ blocked' = IF BlockedBy(first_job, j) THEN blocked \cup {j} ELSE blocked
    /\ remains' = remains - 1
    /\ status' = [status EXCEPT ![j] = "queued"]
    /\ refs' = [refs EXCEPT ![j] = @ + 1]
    /\ UNCHANGED replies

(* The main thread submits job j, through the body up to the unlock.       *)
MainCall(j) ==
    /\ mpc = "idle"
    /\ mutex = Free
    /\ status[j] = "new"
    /\ \/ Enqueue(j, tpc) /\ mpc' = "signal"
       \/ Refuse(j) /\ UNCHANGED <<tpc, mpc>>
    /\ UNCHANGED <<mutex, allowed, running, stop, job, arg>>

(* The callback run by thread t submits job j (subcall): it takes the lock.*)
WorkerCallLock(t, j) ==
    /\ tpc[t] = "callback"
    /\ mutex = Free
    /\ status[j] = "new"
    /\ mutex' = t
    /\ tpc' = [tpc EXCEPT ![t] = "call"]
    /\ arg' = [arg EXCEPT ![t] = j]
    /\ status' = [status EXCEPT ![j] = "submitted"]
    /\ UNCHANGED <<queue, allowed, started, running, stop, job, mpc,
                   refs, replies>>

(* Thread t runs the body of afb_thread_call and unlocks.                  *)
WorkerCallBody(t) ==
    /\ tpc[t] = "call"
    /\ \/ Enqueue(arg[t], [tpc EXCEPT ![t] = "signal"])
       \/ Refuse(arg[t]) /\ tpc' = [tpc EXCEPT ![t] = "callback"]
    /\ mutex' = Free
    /\ arg' = [arg EXCEPT ![t] = NoJob]
    /\ UNCHANGED <<allowed, running, stop, job, mpc>>

MutWake(pcs) == tpc' = pcs

(* pthread_cond_signal: wakes one of the waiters, if any, in pcs.          *)
Wake(pcs) ==
    \/ \E w \in Threads :
         /\ pcs[w] = "wait"
         /\ tpc' = [pcs EXCEPT ![w] = "loop"]
    \/ /\ \A w \in Threads : pcs[w] # "wait"
       /\ tpc' = pcs

MainSignal ==
    /\ mpc = "signal"
    /\ Wake(tpc)
    /\ mpc' = "idle"
    /\ UNCHANGED <<mutex, queue, allowed, started, running, stop, job, arg,
                   life>>

WorkerSignal(t) ==
    /\ tpc[t] = "signal"
    /\ Wake([tpc EXCEPT ![t] = "callback"])
    /\ UNCHANGED <<mutex, queue, allowed, started, running, stop, job, arg,
                   mpc, life>>

-----------------------------------------------------------------------------
(* thread_main_loop.  A thread in "loop" is about to test stop: it either  *)
(* holds the mutex since the end of its last job, or takes it now.         *)

AtLoop(t) == tpc[t] = "loop" /\ mutex \in {Free, t}

LoopStop(t) ==
    /\ AtLoop(t)
    /\ t \in stop
    /\ mutex' = Free
    /\ tpc' = [tpc EXCEPT ![t] = "ended"]
    /\ UNCHANGED <<queue, allowed, started, running, stop, job, arg, mpc, life>>

(* running++ and the job leaves the queue at position i.                   *)
RunJob(t, i) ==
    /\ first_job' = Unlink(first_job, i)
    /\ running' = running + 1
    /\ mutex' = Free
    /\ tpc' = [tpc EXCEPT ![t] = "callback"]
    /\ job' = [job EXCEPT ![t] = first_job[i]]
    /\ status' = [status EXCEPT ![first_job[i]] = "running"]
    /\ blocked' = blocked \ {first_job[i]}
    /\ UNCHANGED <<allowed, started, stop, arg, mpc, refs, replies>>

NoJobToGet == \A i \in 1..Len(first_job) : first_job[i] \in blocked

(* "sad situation!! should not happen": every queued job is blocked and    *)
(* nothing runs.                                                           *)
Sad == first_job # <<>> /\ NoJobToGet /\ running = 0

(* The thread takes the job of position i: the one of job_get or, in the   *)
(* sad situation, the first one although it is blocked.                    *)
Takes(i) == IF Sad THEN i = 1 ELSE FirstUnblocked(i)

(* The job leaves the queue and is run; only job_get increments remains.   *)
LoopRun(t) ==
    /\ AtLoop(t)
    /\ t \notin stop
    /\ \E i \in 1..Len(first_job) : Takes(i) /\ RunJob(t, i)
    /\ remains' = IF Sad THEN remains ELSE remains + 1

(* No job: pthread_cond_wait.                                              *)
LoopWait(t) ==
    /\ AtLoop(t)
    /\ t \notin stop
    /\ NoJobToGet /\ ~Sad
    /\ mutex' = Free
    /\ tpc' = [tpc EXCEPT ![t] = "wait"]
    /\ UNCHANGED <<queue, allowed, started, running, stop, job, arg, mpc, life>>

(* pthread_cond_wait may return without a signal.                          *)
SpuriousWakeup(t) ==
    /\ tpc[t] = "wait"
    /\ tpc' = [tpc EXCEPT ![t] = "loop"]
    /\ UNCHANGED <<mutex, queue, allowed, started, running, stop, job, arg,
                   mpc, life>>

(* afb_sig_req: the callback answers its request, once, if it does.        *)
CallbackReply(t) ==
    /\ tpc[t] = "callback"
    /\ replies[job[t]] = 0
    /\ replies' = [replies EXCEPT ![job[t]] = 1]
    /\ UNCHANGED <<mutex, queue, allowed, started, running, stop, tpc, job,
                   arg, mpc, status, refs>>

(* The callback returns, the timer is disarmed, the request is released.   *)
CallbackReturn(t) ==
    /\ tpc[t] = "callback"
    /\ tpc' = [tpc EXCEPT ![t] = "relock"]
    /\ refs' = [refs EXCEPT ![job[t]] = @ - 1]
    /\ UNCHANGED <<mutex, queue, allowed, started, running, stop, job, arg,
                   mpc, status, replies>>

(* SIGALRM, SIGSEGV or SIGFPE: longjmp out of the callback, the request    *)
(* fails whatever the callback already answered, then is released.  In     *)
(* "call" the mutex is left locked and the submitted request is dropped.   *)
CallbackSignal(t) ==
    /\ \/ tpc[t] = "callback"
       \/ SignalInCall /\ tpc[t] \in {"call", "signal"}
    /\ tpc' = [tpc EXCEPT ![t] = "relock"]
    /\ replies' = [replies EXCEPT ![job[t]] = @ + 1]
    /\ refs' = [refs EXCEPT ![job[t]] = @ - 1]
    /\ UNCHANGED <<mutex, queue, allowed, started, running, stop, job, arg,
                   mpc, status>>

MutUnblockAtEnd(g) == blocked

(* The jobs still blocked once a job of group g has ended.                 *)
UnblockAtEnd(g) == IF g # NoGroup THEN JobUnblock(g) ELSE blocked

(* The thread locks again, unblocks the group of its job and loops.        *)
JobEnd(t) ==
    /\ tpc[t] = "relock"
    /\ mutex = Free
    /\ mutex' = t
    /\ blocked' = UnblockAtEnd(Group[job[t]])
    /\ running' = running - 1
    /\ tpc' = [tpc EXCEPT ![t] = "loop"]
    /\ job' = [job EXCEPT ![t] = NoJob]
    /\ status' = [status EXCEPT ![job[t]] = "done"]
    /\ UNCHANGED <<first_job, remains, allowed, started, stop, arg, mpc,
                   refs, replies>>

-----------------------------------------------------------------------------
(* afb_thread_terminate, run by the main thread.                           *)

Terminate ==
    /\ mpc = "idle"
    /\ mutex = Free
    /\ allowed' = 0
    /\ stop' = {t \in Threads : t <= started}
    /\ mpc' = IF started = 0 THEN "cancel" ELSE "broadcast"
    /\ UNCHANGED <<mutex, queue, started, running, tpc, job, arg, life>>

MutBroadcast ==
    /\ mpc = "broadcast"
    /\ mpc' = "join"
    /\ UNCHANGED <<mutex, queue, allowed, started, running, stop, tpc, job, arg,
                   life>>

(* pthread_cond_broadcast: every waiting thread wakes up.                  *)
TerminateBroadcast ==
    /\ mpc = "broadcast"
    /\ tpc' = [t \in Threads |-> IF tpc[t] = "wait" THEN "loop" ELSE tpc[t]]
    /\ mpc' = "join"
    /\ UNCHANGED <<mutex, queue, allowed, started, running, stop, job, arg,
                   life>>

MutAfterJoin == "cancel"

(* The loop of joins goes on until no thread is left.                      *)
AfterJoin == IF started' = 0 THEN "cancel" ELSE "broadcast"

(* The ended threads are joined.                                           *)
TerminateJoin ==
    /\ mpc = "join"
    /\ mutex = Free
    /\ LET ended == {t \in stop : tpc[t] = "ended"} IN
         /\ tpc' = [t \in Threads |-> IF t \in ended THEN "joined" ELSE tpc[t]]
         /\ started' = started - Cardinality(ended)
         /\ mpc' = AfterJoin
    /\ UNCHANGED <<mutex, queue, allowed, running, stop, job, arg, life>>

(* A pending job is cancelled: its request fails and is released.          *)
TerminateCancel ==
    /\ mpc = "cancel"
    /\ first_job # <<>>
    /\ first_job' = Unlink(first_job, 1)
    /\ blocked' = blocked \ {first_job[1]}
    /\ status' = [status EXCEPT ![first_job[1]] = "cancelled"]
    /\ replies' = [replies EXCEPT ![first_job[1]] = @ + 1]
    /\ refs' = [refs EXCEPT ![first_job[1]] = @ - 1]
    /\ UNCHANGED <<mutex, remains, allowed, started, running, stop, tpc, job,
                   arg, mpc>>

TerminateDone ==
    /\ mpc = "cancel"
    /\ first_job = <<>>
    /\ mpc' = "done"
    /\ UNCHANGED <<mutex, queue, allowed, started, running, stop, tpc, job,
                   arg, life>>

-----------------------------------------------------------------------------

Worker(t) ==
    \/ \E j \in Jobs : WorkerCallLock(t, j)
    \/ WorkerCallBody(t)
    \/ WorkerSignal(t)
    \/ LoopStop(t)
    \/ LoopRun(t)
    \/ LoopWait(t)
    \/ SpuriousWakeup(t)
    \/ CallbackReply(t)
    \/ CallbackReturn(t)
    \/ CallbackSignal(t)
    \/ JobEnd(t)

Main ==
    \/ afb_thread_init
    \/ \E j \in Jobs : MainCall(j)
    \/ MainSignal
    \/ Terminate
    \/ TerminateBroadcast
    \/ TerminateJoin
    \/ TerminateCancel
    \/ TerminateDone

Next == Main \/ \E t \in Threads : Worker(t)

Spec == Init /\ [][Next]_vars

(* The scheduler runs every thread that can run, callbacks return or are   *)
(* interrupted, and the main thread completes what it has begun; nothing   *)
(* forces a submission, an answer, a signal or a termination.              *)
WorkerProgress(t) ==
    \/ WorkerCallBody(t) \/ WorkerSignal(t)
    \/ LoopStop(t) \/ LoopRun(t) \/ LoopWait(t)
    \/ CallbackReturn(t) \/ JobEnd(t)

MainProgress ==
    \/ MainSignal \/ TerminateBroadcast \/ TerminateJoin
    \/ TerminateCancel \/ TerminateDone

Fairness ==
    /\ WF_vars(MainProgress)
    /\ \A t \in Threads : WF_vars(WorkerProgress(t))

FairSpec == Spec /\ Fairness

-----------------------------------------------------------------------------
(* Correctness.                                                            *)

InJob == {"callback", "call", "signal", "relock"}

RunningThreads == {t \in Threads : tpc[t] \in InJob}

TypeOK ==
    /\ mutex \in Threads \cup {Free}
    /\ first_job \in Seq(Jobs)
    /\ blocked \subseteq Jobs
    /\ allowed \in {0, AllowedCount}
    /\ started \in 0..AllowedCount
    /\ running \in 0..AllowedCount
    /\ remains \in 0..WaiterCount
    /\ stop \subseteq Threads
    /\ tpc \in [Threads -> InJob \cup {"none", "loop", "wait", "ended", "joined"}]
    /\ job \in [Threads -> Jobs \cup {NoJob}]
    /\ arg \in [Threads -> Jobs \cup {NoJob}]
    /\ mpc \in {"start", "idle", "signal", "broadcast", "join", "cancel",
                "done", "exit"}
    /\ status \in [Jobs -> {"new", "submitted", "queued", "refused", "running",
                            "done", "cancelled"}]
    /\ refs \in [Jobs -> 0..1]
    /\ replies \in [Jobs -> 0..2]

(* The comment of thread_main_loop (afb-thread.c:210): the situation where *)
(* every queued job is blocked while no thread runs does not happen as     *)
(* long as there may be a thread to meet it.                               *)
NoSadSituation == mpc # "cancel" => ~Sad

(* afb_thread_call promises at most WaiterCount pending jobs and never     *)
(* loses a place: remains counts the free places until the pool is ended.  *)
RemainsIsFreePlaces ==
    mpc \notin {"start", "cancel", "done"} =>
        remains + Len(first_job) = WaiterCount

(* Signals are sent after the unlock (afb-thread.c:303) and the end of a   *)
(* job unblocks another without any signal: still, while a thread sleeps,  *)
(* there is for each runnable job a thread or a signal coming for it.      *)
NoLostWakeup ==
    LET Runnable == {i \in 1..Len(first_job) : first_job[i] \notin blocked}
        Coming   == {t \in Threads : tpc[t] \in {"loop", "signal"}}
    IN  (stop = {} /\ \E t \in Threads : tpc[t] = "wait") =>
            Cardinality(Runnable) <=
              Cardinality(Coming) + (IF mpc = "signal" THEN 1 ELSE 0)

(* The threads joined by afb_thread_terminate are all the threads: when it *)
(* cancels the pending jobs without the mutex, no thread is left to touch  *)
(* the queue, and no request is being run.                                 *)
CancelIsAlone ==
    mpc \in {"cancel", "done"} =>
        \A t \in Threads : tpc[t] \in {"none", "joined"}

(* Once terminated, the pool holds no request: each one it accepted has    *)
(* been run or cancelled with an answer, and released.                     *)
NothingLeftBehind ==
    mpc = "done" =>
        \A j \in Jobs :
            /\ status[j] \in {"new", "refused", "done", "cancelled"}
            /\ status[j] \in {"refused", "cancelled"} => replies[j] = 1
            /\ refs[j] = 0

(* Jobs of one group (the requests to one binding) are started in the      *)
(* order of their submission: a job that begins has no job of its group    *)
(* queued before it.                                                       *)
StartsInGroupOrder ==
    [][\A i, k \in 1..Len(first_job) :
         (k < i /\ status[first_job[i]] = "queued"
                /\ status'[first_job[i]] = "running")
           => ~SameGroup(first_job[i], first_job[k])]_vars

(* Every accepted request is eventually run to its end or cancelled, even  *)
(* though a blocked job waits for the end of others and signals may find   *)
(* no waiter.                                                              *)
EveryJobEnds ==
    \A j \in Jobs : status[j] = "queued" ~> status[j] \in {"done", "cancelled"}

(* afb_thread_terminate returns: its loop of broadcasts and joins ends.    *)
TerminateReturns == mpc = "broadcast" ~> mpc = "done"

(* README.md:94: "API plugins can be protected from timeout and other      *)
(* errors": an interrupted callback gives its thread back to the pool.     *)
InterruptedThreadComesBack ==
    \A t \in Threads : tpc[t] = "relock" ~> tpc[t] # "relock"

-----------------------------------------------------------------------------
(* The inductive invariant behind the safety properties.                   *)

Closing == {"broadcast", "join", "cancel", "done"}

(* Before the initialisation the pool is empty, until the termination it   *)
(* accepts threads, after it the threads stop.                             *)
PhaseInv ==
    /\ mpc \in {"start"} \cup Closing <=> allowed = 0
    /\ mpc \notin Closing => stop = {}
    /\ mpc \in {"start", "exit"} =>
          /\ first_job = <<>>
          /\ \A t \in Threads : tpc[t] = "none"
          /\ \A j \in Jobs : status[j] = "new"
    /\ mpc = "start" => started = 0

(* The mutex is kept between two steps only at the end of a job and in a   *)
(* submission, which a signal may have interrupted.                        *)
MutexInv ==
    /\ \A t \in Threads : tpc[t] = "call" => mutex = t
    /\ mutex # Free => tpc[mutex] \in {"call", "loop", "relock"}
    /\ \A j \in Jobs : status[j] = "submitted" =>
          /\ mutex # Free
          /\ tpc[mutex] \in {"call", "relock"}
          /\ arg[mutex] = j

(* Each request is in one place: submitted by one thread, queued once, or  *)
(* run by one thread.                                                      *)
PlaceInv ==
    /\ \A t \in Threads : tpc[t] \in InJob => /\ job[t] \in Jobs
                                              /\ status[job[t]] = "running"
    /\ \A t, u \in Threads :
          tpc[t] \in InJob /\ tpc[u] \in InJob /\ job[t] = job[u] => t = u
    /\ \A t \in Threads : tpc[t] = "call" => /\ arg[t] \in Jobs
                                             /\ status[arg[t]] = "submitted"
    /\ \A i \in 1..Len(first_job) : status[first_job[i]] = "queued"
    /\ \A j \in Jobs : status[j] = "queued" =>
          \E i \in 1..Len(first_job) : first_job[i] = j
    /\ \A j \in Jobs : status[j] = "running" =>
          \E t \in Threads : tpc[t] \in InJob /\ job[t] = j
    /\ \A i, k \in 1..Len(first_job) : first_job[i] = first_job[k] => i = k
    /\ \A j \in blocked : status[j] = "queued"

(* References and answers follow the life of the request.                  *)
LifeInv ==
    /\ \A j \in Jobs : status[j] = "queued" => refs[j] = 1
    /\ \A t \in Threads : tpc[t] \in InJob =>
          refs[job[t]] = (IF tpc[t] = "relock" THEN 0 ELSE 1)
    /\ \A j \in Jobs : status[j] \notin {"queued", "running"} => refs[j] = 0
    /\ \A j \in Jobs : status[j] \in {"new", "submitted", "queued"} =>
          replies[j] = 0
    /\ \A t \in Threads : tpc[t] \in InJob \ {"relock"} => replies[job[t]] <= 1
    /\ \A j \in Jobs : status[j] \in {"refused", "cancelled"} => replies[j] = 1

Live == {t \in Threads : tpc[t] \notin {"none", "joined"}}

(* The counters count: threads that run a job, threads that are not        *)
(* joined, places left in the queue.                                       *)
CountInv ==
    /\ running = Cardinality(RunningThreads)
    /\ mpc # "exit" => started = Cardinality(Live)
    /\ mpc \notin Closing \cup {"exit"} =>
          \A t \in Threads : t <= started <=> tpc[t] # "none"
    /\ mpc \notin Closing => \A t \in Threads : tpc[t] \notin {"ended", "joined"}
    /\ \A t \in Threads : t \in Live /\ mpc \in Closing => t \in stop
    /\ mpc \in {"cancel", "done"} => started = 0
    /\ mpc = "done" => first_job = <<>>

(* Of the queued jobs of a group only the first may be unblocked, and when *)
(* it is blocked a thread runs a job of the group, whose end unblocks it.  *)
GroupInv ==
    /\ \A i, k \in 1..Len(first_job) :
          k < i /\ SameGroup(first_job[i], first_job[k]) => first_job[i] \in blocked
    /\ mpc \notin {"cancel", "done"} =>
          \A i \in 1..Len(first_job) :
            /\ first_job[i] \in blocked
            /\ \A k \in 1..(i - 1) : ~SameGroup(first_job[i], first_job[k])
            => \E t \in RunningThreads : SameGroup(first_job[i], job[t])

IInv ==
    /\ TypeOK
    /\ PhaseInv
    /\ MutexInv
    /\ PlaceInv
    /\ LifeInv
    /\ CountInv
    /\ RemainsIsFreePlaces
    /\ GroupInv

-----------------------------------------------------------------------------
(* The pool as its callers see it.                                         *)

PoolState == [j \in Jobs |-> IF status[j] = "submitted" THEN "new" ELSE status[j]]

Pool == INSTANCE RequestPool WITH state <- PoolState, pending <- first_job

(* Queue, flags, counters, signals and threads together implement the pool *)
(* promised to the callers, the end of every accepted request included.    *)
ImplementsPool == Pool!PoolSpec
=============================================================================
