----------------------------- MODULE JobService -----------------------------
(***************************************************************************)
(* What utils/thread_pool.c promises its callers (net/server.c and         *)
(* swarm/swarm.c): jobs handed to thpool_add_work are started in the order *)
(* in which they were accepted, each at most once, one at a time on each   *)
(* worker; thpool_destroy lets the started ones finish and discards the      *)
(* rest.  The threads, the semaphore and the locks that bring this about   *)
(* are in ThreadPool, which is shown to implement this module.             *)
(***************************************************************************)
EXTENDS Naturals, Sequences, Functions

CONSTANTS
  Job,      \* the jobs callers may submit
  NoJob,    \* what a worker without a job is doing
  Worker    \* who runs them: as many as the argument of thpool_init

VARIABLES
  state,      \* "closed" before thpool_init and after thpool_destroy has freed
              \* the pool, "open" in between, "closing" during thpool_destroy
  pending,    \* accepted jobs nobody has started, oldest first
  running,    \* the job each worker is executing
  finished,   \* jobs whose function has returned
  discarded   \* jobs thpool_destroy threw away

jobVars == <<state, pending, running, finished, discarded>>

\* Every job the service has ever accepted.
Known == Range(pending) \cup {running[w] : w \in Worker} \cup finished \cup discarded

AllQuiet == \A w \in Worker : running[w] = NoJob

Init ==
  /\ state = "closed"
  /\ pending = <<>>
  /\ running = [w \in Worker |-> NoJob]
  /\ finished = {}
  /\ discarded = {}

Open ==
  /\ state = "closed"
  /\ state' = "open"
  /\ UNCHANGED <<pending, running, finished, discarded>>

Submit(j) ==
  /\ state = "open"
  /\ j \notin Known
  /\ pending' = Append(pending, j)
  /\ UNCHANGED <<state, running, finished, discarded>>

\* A worker takes the oldest accepted job.
Begin(w) ==
  /\ pending # <<>>
  /\ running[w] = NoJob
  /\ running' = [running EXCEPT ![w] = Head(pending)]
  /\ pending' = Tail(pending)
  /\ UNCHANGED <<state, finished, discarded>>

Finish(w) ==
  /\ running[w] # NoJob
  /\ running' = [running EXCEPT ![w] = NoJob]
  /\ finished' = finished \cup {running[w]}
  /\ UNCHANGED <<state, pending, discarded>>

\* thpool_destroy is called ...
Close ==
  /\ state = "open"
  /\ state' = "closing"
  /\ UNCHANGED <<pending, running, finished, discarded>>

\* ... and returns once nothing runs any more.
Discard ==
  /\ state = "closing"
  /\ AllQuiet
  /\ state' = "closed"
  /\ discarded' = discarded \cup Range(pending)
  /\ pending' = <<>>
  /\ UNCHANGED <<running, finished>>

Next ==
  \/ Open \/ Close \/ Discard
  \/ \E j \in Job : Submit(j)
  \/ \E w \in Worker : Begin(w) \/ Finish(w)

Spec == Init /\ [][Next]_jobVars
=============================================================================
