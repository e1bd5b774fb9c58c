----------------------------- MODULE ThreadPool -----------------------------
(***************************************************************************)
(* utils/thread_pool.c: one pool (a thpool_) and the callers of its API.   *)
(*                                                                         *)
(* A step is a critical section of the code, or a read or write of a       *)
(* variable no lock protects.  thcount_lock and rwmutex are explicit: a    *)
(* section's body is one step, which leaves the lock with the thread, and  *)
(* giving it back (Unlock) is another, because a SIGUSR1 handler or the    *)
(* freeing of the pool can come in between.  The binary semaphore          *)
(* has_jobs keeps its condition variable (the threads "asleep"), and its   *)
(* own mutex, held for three assignments only, is folded into the steps.   *)
(*                                                                         *)
(* threads_keepalive and threads_on_hold are static variables of the file, *)
(* common to every pool of the process: ThreadPools composes two pools     *)
(* that share them.                                                        *)
(***************************************************************************)
EXTENDS Naturals, Sequences, FiniteSets, Functions

CONSTANTS
  Thread,      \* the pool's worker threads; thpool_init is called with their number
  Client,      \* the threads of the program that call the API
  Job,         \* what they submit: a function and its argument
  NoJob,       \* the NULL that jobqueue_pull returns for an empty queue
  Nobody,      \* the owner of an unlocked mutex
  MaxPauses,   \* bound: calls of thpool_pause
  MaxWaiters   \* bound: callers inside thpool_wait at the same time

ASSUME ThreadAssumption == IsFiniteSet(Thread) /\ Thread # {}
ASSUME NoJobAssumption  == NoJob \notin Job
ASSUME NobodyAssumption == Nobody \notin Thread
ASSUME BoundsAssumption == MaxPauses \in Nat /\ MaxWaiters \in Nat

VARIABLES
  threads_keepalive,    \* static: 1 while threads are to go on looping
  threads_on_hold,      \* static: 1 while paused threads are to stay in the handler
  phase,                \* life of the pool: "none", "init", "up", "destroy", "freed"
  num_threads_alive,
  num_threads_working,
  thcount_lock,         \* the thread that owns thcount_lock
  rwmutex,              \* the thread that owns jobqueue.rwmutex
  queue,                \* jobqueue: front first; jobqueue.len is its length
  v,                    \* has_jobs->v
  pc,                   \* where each worker is in thread_do
  job,                  \* the job each worker pulled and has not finished
  call,                 \* where each client is in thpool_wait
  pending,              \* workers with a SIGUSR1 not delivered yet
  held,                 \* workers inside thread_hold
  pauses,               \* calls of thpool_pause so far
  accepted,             \* history: jobs thpool_add_work returned 0 for
  finished,             \* history: jobs whose function returned
  discarded             \* history: jobs freed unrun by jobqueue_clear

globals == <<threads_keepalive, threads_on_hold>>
counts  == <<num_threads_alive, num_threads_working>>
locks   == <<thcount_lock, rwmutex>>
signals == <<pending, held, pauses>>
history == <<accepted, finished, discarded>>
vars == <<globals, phase, counts, locks, queue, v, pc, job, call, signals, history>>

\* The program counters of thread_do, in the order of its lines.  "none": the
\* thread does not exist (not created yet); "gone": it returned.
PC == {"none", "start", "loop", "bsem", "asleep", "recheck", "count", "pull",
       "run", "uncount", "exit", "gone"}

\* Between num_threads_working++ and num_threads_working--.
Working == {"pull", "run", "uncount"}
\* Past bsem_wait with threads_keepalive seen, and not through jobqueue_pull yet.
AboutToPull == {"recheck", "count", "pull"}

(***************************************************************************)
(* The binary semaphore.  f is the value pc would have without the wakeup. *)
(***************************************************************************)
\* Mutant: no pthread_cond_signal.
bsem_post_NoSignal(f) == v' = 1 /\ pc' = f

bsem_post(f) ==
  /\ v' = 1
  /\ \/ /\ \A u \in Thread : f[u] # "asleep"
        /\ pc' = f
     \/ \E u \in Thread : /\ f[u] = "asleep"
                          /\ pc' = [f EXCEPT ![u] = "bsem"]

\* Mutant: a broadcast without v = 1.
bsem_post_all_NoValue ==
  /\ UNCHANGED v
  /\ pc' = [u \in Thread |-> IF pc[u] = "asleep" THEN "bsem" ELSE pc[u]]

bsem_post_all ==
  /\ v' = 1
  /\ pc' = [u \in Thread |-> IF pc[u] = "asleep" THEN "bsem" ELSE pc[u]]

Goto(t, l) == pc' = [pc EXCEPT ![t] = l]

\* The worker is scheduled: not in a signal handler, and not about to unlock.
Ready(t) == t \notin held /\ thcount_lock # t /\ rwmutex # t

(***************************************************************************)
(* thread_do                                                               *)
(***************************************************************************)
\* num_threads_alive += 1
Register(t) ==
  /\ pc[t] = "start" /\ Ready(t) /\ thcount_lock = Nobody
  /\ num_threads_alive' = num_threads_alive + 1
  /\ thcount_lock' = t
  /\ Goto(t, "loop")
  /\ UNCHANGED <<globals, phase, num_threads_working, rwmutex, queue, v, job, call,
                 signals, history>>

\* while (threads_keepalive)
Loop(t) ==
  /\ pc[t] = "loop" /\ Ready(t)
  /\ Goto(t, IF threads_keepalive = 1 THEN "bsem" ELSE "exit")
  /\ UNCHANGED <<globals, phase, counts, locks, queue, v, job, call, signals, history>>

\* bsem_wait: take the semaphore, or release its mutex and sleep.
BsemWait(t) ==
  /\ pc[t] = "bsem" /\ Ready(t)
  /\ v' = 0
  /\ Goto(t, IF v = 1 THEN "recheck" ELSE "asleep")
  /\ UNCHANGED <<globals, phase, counts, locks, queue, job, call, signals, history>>

\* if (threads_keepalive)
Recheck(t) ==
  /\ pc[t] = "recheck" /\ Ready(t)
  /\ Goto(t, IF threads_keepalive = 1 THEN "count" ELSE "loop")
  /\ UNCHANGED <<globals, phase, counts, locks, queue, v, job, call, signals, history>>

Count(t) ==
  /\ pc[t] = "count" /\ Ready(t) /\ thcount_lock = Nobody
  /\ num_threads_working' = num_threads_working + 1
  /\ thcount_lock' = t
  /\ Goto(t, "pull")
  /\ UNCHANGED <<globals, phase, num_threads_alive, rwmutex, queue, v, job, call,
                 signals, history>>

\* Mutant: jobs left behind do not post the semaphore.
jobqueue_pull_NoPost(t) ==
  /\ pc[t] = "pull" /\ Ready(t) /\ rwmutex = Nobody
  /\ rwmutex' = t
  /\ \/ /\ queue = <<>>
        /\ Goto(t, "uncount")
        /\ UNCHANGED <<queue, job>>
     \/ /\ queue # <<>>
        /\ job' = [job EXCEPT ![t] = Head(queue)]
        /\ queue' = Tail(queue)
        /\ Goto(t, "run")
  /\ UNCHANGED <<globals, phase, counts, thcount_lock, v, call, signals, history>>

\* Mutant: the job is taken from the rear.
jobqueue_pull_Rear(t) ==
  /\ pc[t] = "pull" /\ Ready(t) /\ rwmutex = Nobody
  /\ rwmutex' = t
  /\ \/ /\ queue = <<>>
        /\ Goto(t, "uncount")
        /\ UNCHANGED <<queue, v, job>>
     \/ /\ queue # <<>>
        /\ job' = [job EXCEPT ![t] = queue[Len(queue)]]
        /\ queue' = SubSeq(queue, 1, Len(queue) - 1)
        /\ IF queue' = <<>> THEN Goto(t, "run") /\ UNCHANGED v
                            ELSE bsem_post([pc EXCEPT ![t] = "run"])
  /\ UNCHANGED <<globals, phase, counts, thcount_lock, call, signals, history>>

\* jobqueue_pull: NULL from an empty queue; if jobs are left behind, the
\* semaphore is posted again.
jobqueue_pull(t) ==
  /\ pc[t] = "pull" /\ Ready(t) /\ rwmutex = Nobody
  /\ rwmutex' = t
  /\ \/ /\ queue = <<>>
        /\ Goto(t, "uncount")
        /\ UNCHANGED <<queue, v, job>>
     \/ /\ queue # <<>>
        /\ job' = [job EXCEPT ![t] = Head(queue)]
        /\ queue' = Tail(queue)
        /\ IF queue' = <<>> THEN Goto(t, "run") /\ UNCHANGED v
                            ELSE bsem_post([pc EXCEPT ![t] = "run"])
  /\ UNCHANGED <<globals, phase, counts, thcount_lock, call, signals, history>>

\* func_buff(arg_buff) returns and the job is freed.
Run(t) ==
  /\ pc[t] = "run" /\ Ready(t)
  /\ finished' = finished \cup {job[t]}
  /\ job' = [job EXCEPT ![t] = NoJob]
  /\ Goto(t, "uncount")
  /\ UNCHANGED <<globals, phase, counts, locks, queue, v, call, signals, accepted,
                 discarded>>

\* Mutant: nobody is told that all threads are idle.
SignalAllIdle_None == UNCHANGED call

\* pthread_cond_signal(&threads_all_idle): one sleeping waiter, if there is one.
SignalAllIdle ==
  \/ /\ \A c \in Client : call[c] # "asleep"
     /\ UNCHANGED call
  \/ \E c \in Client : /\ call[c] = "asleep"
                       /\ call' = [call EXCEPT ![c] = "test"]

Uncount(t) ==
  /\ pc[t] = "uncount" /\ Ready(t) /\ thcount_lock = Nobody
  /\ num_threads_working' = num_threads_working - 1
  /\ IF num_threads_working' = 0 THEN SignalAllIdle ELSE UNCHANGED call
  /\ thcount_lock' = t
  /\ Goto(t, "loop")
  /\ UNCHANGED <<globals, phase, num_threads_alive, rwmutex, queue, v, job, signals,
                 history>>

Exit(t) ==
  /\ pc[t] = "exit" /\ Ready(t) /\ thcount_lock = Nobody
  /\ num_threads_alive' = num_threads_alive - 1
  /\ thcount_lock' = t
  /\ Goto(t, "gone")
  /\ UNCHANGED <<globals, phase, num_threads_working, rwmutex, queue, v, job, call,
                 signals, history>>

\* pthread_mutex_unlock at the end of the section t has just gone through.
Unlock(t) ==
  /\ t \notin held
  /\ \/ /\ thcount_lock = t
        /\ thcount_lock' = Nobody
        /\ UNCHANGED rwmutex
     \/ /\ rwmutex = t
        /\ rwmutex' = Nobody
        /\ UNCHANGED thcount_lock
  /\ UNCHANGED <<globals, phase, counts, queue, v, pc, job, call, signals, history>>

\* pthread_cond_wait may return without a signal.
SpuriousWakeup(t) ==
  /\ pc[t] = "asleep" /\ Ready(t)
  /\ Goto(t, "bsem")
  /\ UNCHANGED <<globals, phase, counts, locks, queue, v, job, call, signals, history>>

(***************************************************************************)
(* The SIGUSR1 handler, thread_hold.  SIGUSR1 is blocked while it runs, so *)
(* a second signal stays pending.                                          *)
(***************************************************************************)
thread_hold(t) ==
  /\ t \in pending /\ t \notin held
  /\ pc[t] # "gone" \/ thcount_lock = t
  /\ pending' = pending \ {t}
  /\ held' = held \cup {t}
  /\ threads_on_hold' = 1
  /\ UNCHANGED <<threads_keepalive, phase, counts, locks, queue, v, pc, job, call,
                 pauses, history>>

LeaveHold(t) ==
  /\ t \in held /\ threads_on_hold = 0
  /\ held' = held \ {t}
  /\ UNCHANGED <<globals, phase, counts, locks, queue, v, pc, job, call, pending,
                 pauses, history>>

(***************************************************************************)
(* The API                                                                 *)
(***************************************************************************)
\* Mutant: the threads are counted here and again when they register.
thpool_init_Counted ==
  /\ phase = "none"
  /\ phase' = "init"
  /\ threads_on_hold' = 0
  /\ threads_keepalive' = 1
  /\ num_threads_alive' = Cardinality(Thread) /\ num_threads_working' = 0
  /\ queue' = <<>> /\ v' = 0
  /\ pc' = [t \in Thread |-> "start"]
  /\ UNCHANGED <<locks, job, call, signals, history>>

thpool_init ==
  /\ phase = "none"
  /\ phase' = "init"
  /\ threads_on_hold' = 0
  /\ threads_keepalive' = 1
  /\ num_threads_alive' = 0 /\ num_threads_working' = 0
  /\ queue' = <<>> /\ v' = 0
  /\ pc' = [t \in Thread |-> "start"]
  /\ UNCHANGED <<locks, job, call, signals, history>>

\* The spin of thpool_init ends.
InitReturns ==
  /\ phase = "init"
  /\ num_threads_alive = Cardinality(Thread)
  /\ phase' = "up"
  /\ UNCHANGED <<globals, counts, locks, queue, v, pc, job, call, signals, history>>

\* thpool_add_work: jobqueue_push under rwmutex.
thpool_add_work(j) ==
  /\ phase = "up"
  /\ \E c \in Client : call[c] = "out"
  /\ j \notin accepted
  /\ rwmutex = Nobody
  /\ queue' = Append(queue, j)
  /\ bsem_post(pc)
  /\ accepted' = accepted \cup {j}
  /\ UNCHANGED <<globals, phase, counts, locks, job, call, signals, finished, discarded>>

thpool_wait(c) ==
  /\ phase = "up" /\ call[c] = "out"
  /\ Cardinality({d \in Client : call[d] # "out"}) < MaxWaiters
  /\ call' = [call EXCEPT ![c] = "test"]
  /\ UNCHANGED <<globals, phase, counts, locks, queue, v, pc, job, signals, history>>

\* Mutant: only the queue is tested.
AllIdle_Queue == queue = <<>>

\* while (len || num_threads_working) pthread_cond_wait(...)
AllIdle == queue = <<>> /\ num_threads_working = 0
WaitTest(c) ==
  /\ call[c] = "test" /\ thcount_lock = Nobody
  /\ call' = [call EXCEPT ![c] = IF AllIdle THEN "out" ELSE "asleep"]
  /\ UNCHANGED <<globals, phase, counts, locks, queue, v, pc, job, signals, history>>

\* thpool_destroy, called when no other call is in progress on the pool.
thpool_destroy ==
  /\ phase = "up"
  /\ \A c \in Client : call[c] = "out"
  /\ phase' = "destroy"
  /\ threads_keepalive' = 0
  /\ UNCHANGED <<threads_on_hold, counts, locks, queue, v, pc, job, call, signals, history>>

\* Its two polling loops: while (num_threads_alive) bsem_post_all(has_jobs)
DestroyPoll ==
  /\ phase = "destroy" /\ num_threads_alive # 0
  /\ bsem_post_all
  /\ UNCHANGED <<globals, phase, counts, locks, queue, job, call, signals, history>>

\* Mutant: waits for idle threads, not for gone ones.
DestroyReturns_Idle ==
  /\ phase = "destroy" /\ num_threads_working = 0
  /\ queue = <<>> \/ rwmutex = Nobody
  /\ phase' = "freed"
  /\ discarded' = discarded \cup Range(queue)
  /\ queue' = <<>> /\ v' = 0
  /\ UNCHANGED <<globals, counts, locks, pc, job, call, signals, accepted, finished>>

\* Its end: jobqueue_destroy frees what is queued, then everything is freed.
DestroyReturns ==
  /\ phase = "destroy" /\ num_threads_alive = 0
  /\ queue = <<>> \/ rwmutex = Nobody
  /\ phase' = "freed"
  /\ discarded' = discarded \cup Range(queue)
  /\ queue' = <<>> /\ v' = 0
  /\ UNCHANGED <<globals, counts, locks, pc, job, call, signals, accepted, finished>>

\* pthread_kill(SIGUSR1) to each of the first num_threads_alive threads.
thpool_pause ==
  /\ phase = "up" /\ pauses < MaxPauses
  /\ pauses' = pauses + 1
  /\ pending' = pending \cup {t \in Thread : pc[t] # "gone"}
  /\ UNCHANGED <<globals, phase, counts, locks, queue, v, pc, job, call, held, history>>

thpool_resume ==
  /\ phase = "up" /\ threads_on_hold = 1
  /\ threads_on_hold' = 0
  /\ UNCHANGED <<threads_keepalive, phase, counts, locks, queue, v, pc, job, call,
                 signals, history>>
-----------------------------------------------------------------------------
Init ==
  /\ threads_keepalive = 0 /\ threads_on_hold = 0
  /\ phase = "none"
  /\ num_threads_alive = 0 /\ num_threads_working = 0
  /\ thcount_lock = Nobody /\ rwmutex = Nobody
  /\ queue = <<>> /\ v = 0
  /\ pc = [t \in Thread |-> "none"]
  /\ job = [t \in Thread |-> NoJob]
  /\ call = [c \in Client |-> "out"]
  /\ pending = {} /\ held = {} /\ pauses = 0
  /\ accepted = {} /\ finished = {} /\ discarded = {}

thread_do(t) ==
  \/ Register(t) \/ Loop(t) \/ BsemWait(t) \/ Recheck(t) \/ Count(t)
  \/ jobqueue_pull(t) \/ Run(t) \/ Uncount(t) \/ Exit(t) \/ Unlock(t)

API ==
  \/ thpool_init \/ InitReturns
  \/ \E j \in Job : thpool_add_work(j)
  \/ \E c \in Client : thpool_wait(c) \/ WaitTest(c)
  \/ thpool_destroy \/ DestroyPoll \/ DestroyReturns
  \/ thpool_pause \/ thpool_resume

\* The pool is freed and its threads have returned, but for one that may be held
\* in thread_hold for good at its last unlock: nothing is left to do.
Terminated ==
  /\ phase = "freed" /\ thcount_lock \in held \cup {Nobody}
  /\ \A t \in Thread : pc[t] = "gone"
  /\ UNCHANGED vars

Next ==
  \/ API
  \/ \E t \in Thread : thread_do(t) \/ SpuriousWakeup(t) \/ thread_hold(t) \/ LeaveHold(t)
  \/ Terminated

Spec == Init /\ [][Next]_vars

\* A thread that can go on is scheduled, a job's function returns, a signal is
\* delivered, and a call in progress goes on.  No caller has to make a call.
Fairness ==
  /\ \A t \in Thread : /\ WF_vars(thread_do(t))
                       /\ WF_vars(thread_hold(t))
                       /\ WF_vars(LeaveHold(t))
  /\ WF_vars(InitReturns)
  /\ WF_vars(DestroyPoll)
  /\ WF_vars(DestroyReturns)
  /\ \A c \in Client : WF_vars(WaitTest(c))

FairSpec == Spec /\ Fairness
-----------------------------------------------------------------------------
TypeOK ==
  /\ threads_keepalive \in 0..1 /\ threads_on_hold \in 0..1
  /\ phase \in {"none", "init", "up", "destroy", "freed"}
  /\ num_threads_alive \in 0..Cardinality(Thread)
  /\ num_threads_working \in 0..Cardinality(Thread)
  /\ thcount_lock \in Thread \cup {Nobody} /\ rwmutex \in Thread \cup {Nobody}
  /\ queue \in Seq(Job) /\ v \in 0..1
  /\ pc \in [Thread -> PC]
  /\ job \in [Thread -> Job \cup {NoJob}]
  /\ call \in [Client -> {"out", "test", "asleep"}]
  /\ pending \in SUBSET Thread /\ held \in SUBSET Thread
  /\ pauses \in 0..MaxPauses
  /\ accepted \in SUBSET Job /\ finished \in SUBSET Job /\ discarded \in SUBSET Job

\* No lost wakeup: while the pool is up, a queued job is on its way to a worker.
\* Either one is between bsem_wait and jobqueue_pull, or the semaphore is posted
\* and, if any worker sleeps on it, another one is awake to take it.  It relies
\* on jobqueue_pull posting again whenever it leaves jobs behind.
NoLostWakeup ==
  phase = "up" /\ queue # <<>> =>
    \/ \E t \in Thread : pc[t] \in AboutToPull
    \/ /\ v = 1
       /\ (\E t \in Thread : pc[t] = "asleep") => (\E t \in Thread : pc[t] = "bsem")

\* thpool_wait returns only at a moment when every job accepted so far has run to
\* its end: a job is never invisible to the test of len and num_threads_working,
\* because a worker counts itself as working before it takes the job off the queue.
WaitReturnsWhenDone ==
  [][\A c \in Client : call[c] = "test" /\ call'[c] = "out" => accepted = finished]_vars

\* The pool is freed only after the last job function has returned and every
\* worker has left its loop, and by then each accepted job ran or was discarded.
FreedAfterLastJob ==
  phase = "freed" =>
    /\ \A t \in Thread : pc[t] = "gone" /\ job[t] = NoJob
    /\ accepted = finished \cup discarded

\* The pool implements the job service its callers see.
JS == INSTANCE JobService WITH
        Worker <- Thread,
        state <- CASE phase = "up" -> "open" [] phase = "destroy" -> "closing"
                   [] OTHER -> "closed",
        pending <- queue,
        running <- job
ImplementsJobService == JS!Spec

Paused == threads_on_hold = 1 \/ held # {} \/ pending # {}

\* An accepted job is run, unless the pool is destroyed or paused meanwhile.
AcceptedJobsFinish ==
  \A j \in Job : j \in accepted ~> (j \in finished \/ phase # "up" \/ Paused)

\* thpool_wait returns, unless the pool is paused: the signal on threads_all_idle
\* is not lost between the waiter's test and its sleep.
WaitReturns ==
  \A c \in Client : call[c] # "out" ~> (call[c] = "out" \/ Paused)

\* thpool_destroy returns once it was called, unless threads are paused: its polling
\* wakes every worker, wherever keepalive = 0 and the last post found it.
DestroyReturnsEventually == phase = "destroy" ~> (phase = "freed" \/ Paused)
=============================================================================
