---------------------------- MODULE ThreadPools -----------------------------
(***************************************************************************)
(* Two pools in one process: net/server.c creates one per server and       *)
(* swarm/swarm.c one per swarm.  The pool of ThreadPool (server) and the   *)
(* pool S (swarm) have everything of their own but the two static          *)
(* variables of utils/thread_pool.c, threads_keepalive and                 *)
(* threads_on_hold, which thpool_init and thpool_destroy of either pool    *)
(* write and the threads of both read.                                     *)
(***************************************************************************)
EXTENDS ThreadPool

CONSTANT SwarmThread   \* the workers of the second pool

VARIABLES s_phase, s_alive, s_working, s_thcount_lock, s_rwmutex, s_queue, s_v,
          s_pc, s_job, s_call, s_pending, s_held, s_pauses, s_accepted, s_finished,
          s_discarded

S == INSTANCE ThreadPool WITH
       Thread <- SwarmThread,
       phase <- s_phase, num_threads_alive <- s_alive, num_threads_working <- s_working,
       thcount_lock <- s_thcount_lock, rwmutex <- s_rwmutex, queue <- s_queue, v <- s_v,
       pc <- s_pc, job <- s_job, call <- s_call, pending <- s_pending, held <- s_held,
       pauses <- s_pauses, accepted <- s_accepted, finished <- s_finished,
       discarded <- s_discarded

\* What the two pools do not share.
serverVars == <<phase, counts, locks, queue, v, pc, job, call, signals, history>>
swarmVars == <<s_phase, s_alive, s_working, s_thcount_lock, s_rwmutex, s_queue, s_v, s_pc,
               s_job, s_call, s_pending, s_held, s_pauses, s_accepted, s_finished,
               s_discarded>>

PoolsInit == Init /\ S!Init

\* The swarm's pool is never destroyed: swarm.c has no call that does.
PoolsNext ==
  \/ Next /\ UNCHANGED swarmVars
  \/ S!Next /\ ~S!thpool_destroy /\ UNCHANGED serverVars

PoolsSpec ==
  /\ PoolsInit /\ [][PoolsNext]_<<globals, serverVars, swarmVars>>
  /\ Fairness /\ S!Fairness

\* Destroying one pool leaves the other one working: a job the swarm's pool
\* accepted is run, whatever happens to the server's pool.
OtherPoolJobsFinish == S!AcceptedJobsFinish
=============================================================================
