-------------------------- MODULE ThreadPoolProofs --------------------------
(***************************************************************************)
(* Proofs about ThreadPool, for any number of workers, clients and jobs.   *)
(* The inductive invariant IInv adds to the properties to be proved how    *)
(* the counters, the queue and the workers' program counters hang          *)
(* together.                                                               *)
(***************************************************************************)
EXTENDS ThreadPool, FiniteSetTheorems, TLAPS

\* Threads num_threads_alive and num_threads_working have to account for.
Live == {t \in Thread : pc[t] \notin {"none", "start", "gone"}}
Busy == {t \in Thread : pc[t] \in Working}

\* The counters that thcount_lock protects are exact.
CountsExact ==
  /\ num_threads_alive = Cardinality(Live)
  /\ num_threads_working = Cardinality(Busy)

\* A pool that is up has every thread registered, and nobody but its own
\* thpool_destroy makes them leave their loop.
LifeCycle ==
  /\ phase = "none" => \A t \in Thread : pc[t] = "none"
  /\ phase \in {"up", "destroy", "freed"} => \A t \in Thread : pc[t] \notin {"none", "start"}
  /\ phase = "freed" => \A t \in Thread : pc[t] = "gone"
  /\ phase \in {"init", "up"} => /\ threads_keepalive = 1
                                 /\ \A t \in Thread : pc[t] \notin {"exit", "gone"}
  /\ phase \in {"none", "init", "freed"} => queue = <<>>
  /\ phase # "freed" => discarded = {}
  /\ phase # "up" => \A c \in Client : call[c] = "out"

\* A posted semaphore and sleeping workers: one that is awake will find it posted.
SemaphoreSeen ==
  v = 1 /\ (\E t \in Thread : pc[t] = "asleep") => \E t \in Thread : pc[t] = "bsem"

QueueSeen ==
  phase = "up" /\ queue # <<>> => v = 1 \/ \E t \in Thread : pc[t] \in AboutToPull

\* Each accepted job is in exactly one place.
JobsConserved ==
  /\ \A t \in Thread : job[t] # NoJob <=> pc[t] = "run"
  /\ accepted = Range(queue) \cup ({job[t] : t \in Thread} \ {NoJob}) \cup finished
                  \cup discarded
  /\ \A t, u \in Thread : job[t] = job[u] /\ job[t] # NoJob => t = u
  /\ \A i, k \in 1..Len(queue) : queue[i] = queue[k] => i = k
  /\ \A i \in 1..Len(queue), t \in Thread : queue[i] # job[t]

IInv ==
  /\ TypeOK
  /\ CountsExact
  /\ LifeCycle
  /\ SemaphoreSeen
  /\ QueueSeen
  /\ JobsConserved
-----------------------------------------------------------------------------
\* The elements of a sequence of jobs, such as jobqueue, are jobs.
LEMMA RangeType ==
  ASSUME NEW s \in Seq(Job)
  PROVE  Range(s) \subseteq Job
BY DEF Range

\* What jobqueue_pull takes is a job, and what it leaves a sequence of jobs.
LEMMA HeadTailType ==
  ASSUME NEW s \in Seq(Job), s # <<>>
  PROVE  Head(s) \in Job /\ Tail(s) \in Seq(Job)
OBVIOUS

\* Everything of TypeOK but the ranges of the two counters.
Typed ==
  /\ threads_keepalive \in 0..1 /\ threads_on_hold \in 0..1
  /\ phase \in {"none", "init", "up", "destroy", "freed"}
  /\ thcount_lock \in Thread \cup {Nobody} /\ rwmutex \in Thread \cup {Nobody}
  /\ queue \in Seq(Job) /\ v \in 0..1
  /\ pc \in [Thread -> PC]
  /\ job \in [Thread -> Job \cup {NoJob}]
  /\ call \in [Client -> {"out", "test", "asleep"}]
  /\ pending \in SUBSET Thread /\ held \in SUBSET Thread
  /\ pauses \in 0..MaxPauses
  /\ accepted \in SUBSET Job /\ finished \in SUBSET Job /\ discarded \in SUBSET Job

\* What taking the first element off a sequence without repetitions leaves.
LEMMA TailFacts ==
  ASSUME NEW S, NEW s \in Seq(S), s # <<>>,
         \A i, k \in 1..Len(s) : s[i] = s[k] => i = k
  PROVE  /\ Head(s) = s[1] /\ 1 \in 1..Len(s)
         /\ Range(s) = {Head(s)} \cup Range(Tail(s))
         /\ Tail(s) \in Seq(S) /\ Len(Tail(s)) = Len(s) - 1
         /\ \A i \in 1..Len(Tail(s)) : /\ Tail(s)[i] = s[i + 1] /\ i + 1 \in 1..Len(s)
                                       /\ Tail(s)[i] # Head(s)
         /\ \A i, k \in 1..Len(Tail(s)) : Tail(s)[i] = Tail(s)[k] => i = k
<1>1. Head(s) = s[1] /\ 1 \in 1..Len(s) /\ Tail(s) \in Seq(S) /\ Len(Tail(s)) = Len(s) - 1
  OBVIOUS
<1>2. ASSUME NEW i \in 1..Len(Tail(s))
      PROVE  Tail(s)[i] = s[i + 1] /\ i + 1 \in 1..Len(s) /\ i + 1 # 1
  BY <1>1
<1>3. Range(s) = {Head(s)} \cup Range(Tail(s))
  <2>1. ASSUME NEW x \in Range(s) PROVE x \in {Head(s)} \cup Range(Tail(s))
    <3>1. PICK i \in 1..Len(s) : x = s[i]
      BY DEF Range
    <3>2. CASE i = 1
      BY <1>1, <3>1, <3>2
    <3>3. CASE i # 1
      <4>1. i - 1 \in 1..Len(Tail(s)) /\ (i - 1) + 1 = i
        BY <1>1, <3>3
      <4>2. Tail(s)[i - 1] = s[i]
        BY <1>2, <4>1
      <4>3. DOMAIN Tail(s) = 1..Len(Tail(s))
        BY <1>1
      <4>4. x \in {Tail(s)[m] : m \in DOMAIN Tail(s)}
        BY <3>1, <4>1, <4>2, <4>3
      <4> QED
        BY <4>4 DEF Range
    <3> QED
      BY <3>2, <3>3
  <2>2. ASSUME NEW x \in {Head(s)} \cup Range(Tail(s)) PROVE x \in Range(s)
    BY <1>1, <1>2 DEF Range
  <2> QED
    BY <2>1, <2>2
<1> QED
  BY <1>1, <1>2, <1>3

\* What adding a new last element to such a sequence gives.
LEMMA AppendFacts ==
  ASSUME NEW S, NEW s \in Seq(S), NEW e \in S, e \notin Range(s),
         \A i, k \in 1..Len(s) : s[i] = s[k] => i = k
  PROVE  /\ Range(Append(s, e)) = Range(s) \cup {e}
         /\ \A i \in 1..Len(Append(s, e)) : Append(s, e)[i] \in Range(s) \cup {e}
         /\ \A i, k \in 1..Len(Append(s, e)) : Append(s, e)[i] = Append(s, e)[k] => i = k
<1> DEFINE a == Append(s, e)
<1>1. a \in Seq(S) /\ Len(a) = Len(s) + 1 /\ a[Len(s) + 1] = e
  OBVIOUS
<1>2. \A i \in 1..Len(s) : a[i] = s[i]
  OBVIOUS
<1>3. \A i \in 1..Len(a) : i \in 1..Len(s) \/ i = Len(s) + 1
  BY <1>1
<1>4. \A i \in 1..Len(s) : s[i] \in Range(s)
  BY DEF Range
<1> HIDE DEF a
<1>5. \A i \in 1..Len(a) : a[i] \in Range(s) \cup {e}
  BY <1>1, <1>2, <1>3, <1>4
<1>6. Range(a) = Range(s) \cup {e}
  <2>1. Range(a) \subseteq Range(s) \cup {e}
    BY <1>1, <1>5 DEF Range
  <2>2. Range(s) \cup {e} \subseteq Range(a)
    BY <1>1, <1>2 DEF Range
  <2> QED
    BY <2>1, <2>2
<1>7. \A i, k \in 1..Len(a) : a[i] = a[k] => i = k
  BY <1>1, <1>2, <1>3, <1>4
<1> QED
  BY <1>5, <1>6, <1>7 DEF a

\* Every step of the pool's threads and callers keeps the types that need no counting.
LEMMA TypedStep ==
  ASSUME IInv, [Next]_vars
  PROVE  Typed'
<1> USE DEF Typed, vars, globals, counts, locks, signals, history, PC
<1>0. Typed
  BY DEF IInv, TypeOK
<1>1. CASE thpool_init
  BY <1>0, <1>1 DEF thpool_init
<1>2. CASE InitReturns
  BY <1>0, <1>2 DEF InitReturns
<1>3. ASSUME NEW j \in Job, thpool_add_work(j) PROVE Typed'
  BY <1>0, <1>3 DEF thpool_add_work, bsem_post
<1>4. ASSUME NEW c \in Client, thpool_wait(c) PROVE Typed'
  BY <1>0, <1>4 DEF thpool_wait
<1>5. ASSUME NEW c \in Client, WaitTest(c) PROVE Typed'
  BY <1>0, <1>5 DEF WaitTest
<1>6. CASE thpool_destroy
  BY <1>0, <1>6 DEF thpool_destroy
<1>7. CASE DestroyPoll
  BY <1>0, <1>7 DEF DestroyPoll, bsem_post_all
<1>8. CASE DestroyReturns
  BY <1>0, <1>8, RangeType DEF DestroyReturns
<1>9. CASE thpool_pause
  BY <1>0, <1>9, BoundsAssumption DEF thpool_pause
<1>10. CASE thpool_resume
  BY <1>0, <1>10 DEF thpool_resume
<1>11. ASSUME NEW t \in Thread, Register(t) PROVE Typed'
  BY <1>0, <1>11 DEF Register, Goto
<1>12. ASSUME NEW t \in Thread, Loop(t) PROVE Typed'
  BY <1>0, <1>12 DEF Loop, Goto
<1>13. ASSUME NEW t \in Thread, BsemWait(t) PROVE Typed'
  BY <1>0, <1>13 DEF BsemWait, Goto
<1>14. ASSUME NEW t \in Thread, Recheck(t) PROVE Typed'
  BY <1>0, <1>14 DEF Recheck, Goto
<1>15. ASSUME NEW t \in Thread, Count(t) PROVE Typed'
  BY <1>0, <1>15 DEF Count, Goto
<1>16. ASSUME NEW t \in Thread, jobqueue_pull(t) PROVE Typed'
  <2>0. queue # <<>> => Head(queue) \in Job /\ Tail(queue) \in Seq(Job)
    BY <1>0, HeadTailType
  <2>1. queue' \in Seq(Job) /\ job' \in [Thread -> Job \cup {NoJob}]
    BY <1>0, <1>16, <2>0 DEF jobqueue_pull, bsem_post, Goto
  <2>2. pc' \in [Thread -> PC] /\ v' \in 0..1
    BY <1>0, <1>16 DEF jobqueue_pull, bsem_post, Goto
  <2> QED
    BY <1>0, <1>16, <2>1, <2>2 DEF jobqueue_pull
<1>17. ASSUME NEW t \in Thread, Run(t) PROVE Typed'
  BY <1>0, <1>17 DEF Run, Goto, IInv, JobsConserved
<1>18. ASSUME NEW t \in Thread, Uncount(t) PROVE Typed'
  BY <1>0, <1>18 DEF Uncount, SignalAllIdle, Goto
<1>19. ASSUME NEW t \in Thread, Exit(t) PROVE Typed'
  BY <1>0, <1>19 DEF Exit, Goto
<1>20. ASSUME NEW t \in Thread, Unlock(t) PROVE Typed'
  BY <1>0, <1>20 DEF Unlock
<1>21. ASSUME NEW t \in Thread, SpuriousWakeup(t) PROVE Typed'
  BY <1>0, <1>21 DEF SpuriousWakeup, Goto
<1>22. ASSUME NEW t \in Thread, thread_hold(t) PROVE Typed'
  BY <1>0, <1>22 DEF thread_hold
<1>23. ASSUME NEW t \in Thread, LeaveHold(t) PROVE Typed'
  BY <1>0, <1>23 DEF LeaveHold
<1>24. CASE Terminated \/ UNCHANGED vars
  BY <1>0, <1>24 DEF Terminated
<1> QED
  BY <1>0, <1>1, <1>2, <1>3, <1>4, <1>5, <1>6, <1>7, <1>8, <1>9, <1>10, <1>11, <1>12, <1>13, <1>14, <1>15, <1>16, <1>17, <1>18, <1>19, <1>20, <1>21, <1>22, <1>23, <1>24 DEF Next, API, thread_do

\* The sets behind the counters are finite sets of threads.
CountsFinite ==
  /\ IsFiniteSet(Live) /\ IsFiniteSet(Busy)
  /\ Cardinality(Live) \in 0..Cardinality(Thread)
  /\ Cardinality(Busy) \in 0..Cardinality(Thread)
  /\ Cardinality(Live) = Cardinality(Thread) => Live = Thread
  /\ Cardinality(Live) = 0 => Live = {}
  /\ Cardinality(Busy) = 0 => Busy = {}

\* The threads that are alive and those that work are finitely many, so that
\* num_threads_alive and num_threads_working can count them.
LEMMA FiniteCounts == CountsFinite
<1>1. Live \in SUBSET Thread /\ Busy \in SUBSET Thread
  BY DEF Live, Busy
<1>2. IsFiniteSet(Thread) /\ Cardinality(Thread) \in Nat
  BY ThreadAssumption, FS_CardinalityType
<1>3. /\ IsFiniteSet(Live) /\ Cardinality(Live) <= Cardinality(Thread)
      /\ Cardinality(Thread) = Cardinality(Live) => Thread = Live
  BY <1>1, <1>2, FS_Subset
<1>4. IsFiniteSet(Busy) /\ Cardinality(Busy) <= Cardinality(Thread)
  BY <1>1, <1>2, FS_Subset
<1>5. Cardinality(Live) \in Nat /\ Cardinality(Busy) \in Nat
  BY <1>3, <1>4, FS_CardinalityType
<1>6. (Cardinality(Live) = 0 => Live = {}) /\ (Cardinality(Busy) = 0 => Busy = {})
  BY <1>3, <1>4, FS_EmptySet
<1> QED
  BY <1>2, <1>3, <1>4, <1>5, <1>6 DEF CountsFinite

\* Every step keeps num_threads_alive and num_threads_working equal to the number of
\* threads between the lines that raise and lower them.
LEMMA CountsStep ==
  ASSUME IInv, [Next]_vars
  PROVE  CountsExact'
<1> USE DEF Typed, CountsExact, Live, Busy, Working, vars, globals, counts, locks, signals,
            history, PC
<1>0. Typed /\ CountsExact /\ IsFiniteSet(Live) /\ IsFiniteSet(Busy)
  BY FiniteCounts DEF IInv, TypeOK, CountsFinite
<1>1. CASE thpool_init
  <2>1. Live' = {} /\ Busy' = {}
    BY <1>1 DEF thpool_init
  <2> QED
    BY <1>1, <2>1, FS_EmptySet DEF thpool_init
<1>2. CASE InitReturns
  BY <1>0, <1>2 DEF InitReturns
<1>3. ASSUME NEW j \in Job, thpool_add_work(j) PROVE CountsExact'
  BY <1>0, <1>3 DEF thpool_add_work, bsem_post
<1>4. ASSUME NEW c \in Client, thpool_wait(c) PROVE CountsExact'
  BY <1>0, <1>4 DEF thpool_wait
<1>5. ASSUME NEW c \in Client, WaitTest(c) PROVE CountsExact'
  BY <1>0, <1>5 DEF WaitTest
<1>6. CASE thpool_destroy
  BY <1>0, <1>6 DEF thpool_destroy
<1>7. CASE DestroyPoll
  BY <1>0, <1>7 DEF DestroyPoll, bsem_post_all
<1>8. CASE DestroyReturns
  BY <1>0, <1>8 DEF DestroyReturns
<1>9. CASE thpool_pause
  BY <1>0, <1>9 DEF thpool_pause
<1>10. CASE thpool_resume
  BY <1>0, <1>10 DEF thpool_resume
<1>11. ASSUME NEW t \in Thread, Register(t) PROVE CountsExact'
  <2>1. Live' = Live \cup {t} /\ t \notin Live /\ Busy' = Busy
    BY <1>0, <1>11 DEF Register, Goto
  <2> HIDE DEF Live, Busy
  <2>2. Cardinality(Live') = Cardinality(Live) + 1
    BY <1>0, <2>1, FS_AddElement
  <2> QED
    BY <1>0, <1>11, <2>1, <2>2 DEF Register
<1>12. ASSUME NEW t \in Thread, Loop(t) PROVE CountsExact'
  BY <1>0, <1>12 DEF Loop, Goto
<1>13. ASSUME NEW t \in Thread, BsemWait(t) PROVE CountsExact'
  BY <1>0, <1>13 DEF BsemWait, Goto
<1>14. ASSUME NEW t \in Thread, Recheck(t) PROVE CountsExact'
  BY <1>0, <1>14 DEF Recheck, Goto
<1>15. ASSUME NEW t \in Thread, Count(t) PROVE CountsExact'
  <2>1. Busy' = Busy \cup {t} /\ t \notin Busy /\ Live' = Live
    BY <1>0, <1>15 DEF Count, Goto
  <2> HIDE DEF Live, Busy
  <2>2. Cardinality(Busy') = Cardinality(Busy) + 1
    BY <1>0, <2>1, FS_AddElement
  <2> QED
    BY <1>0, <1>15, <2>1, <2>2 DEF Count
<1>16. ASSUME NEW t \in Thread, jobqueue_pull(t) PROVE CountsExact'
  BY <1>0, <1>16 DEF jobqueue_pull, bsem_post, Goto
<1>17. ASSUME NEW t \in Thread, Run(t) PROVE CountsExact'
  BY <1>0, <1>17 DEF Run, Goto
<1>18. ASSUME NEW t \in Thread, Uncount(t) PROVE CountsExact'
  <2>1. Busy' = Busy \ {t} /\ t \in Busy /\ Live' = Live
    BY <1>0, <1>18 DEF Uncount, Goto
  <2> HIDE DEF Live, Busy
  <2>2. Cardinality(Busy') = Cardinality(Busy) - 1
    BY <1>0, <2>1, FS_RemoveElement
  <2> QED
    BY <1>0, <1>18, <2>1, <2>2 DEF Uncount
<1>19. ASSUME NEW t \in Thread, Exit(t) PROVE CountsExact'
  <2>1. Live' = Live \ {t} /\ t \in Live /\ Busy' = Busy
    BY <1>0, <1>19 DEF Exit, Goto
  <2> HIDE DEF Live, Busy
  <2>2. Cardinality(Live') = Cardinality(Live) - 1
    BY <1>0, <2>1, FS_RemoveElement
  <2> QED
    BY <1>0, <1>19, <2>1, <2>2 DEF Exit
<1>20. ASSUME NEW t \in Thread, Unlock(t) PROVE CountsExact'
  BY <1>0, <1>20 DEF Unlock
<1>21. ASSUME NEW t \in Thread, SpuriousWakeup(t) PROVE CountsExact'
  BY <1>0, <1>21 DEF SpuriousWakeup, Goto
<1>22. ASSUME NEW t \in Thread, thread_hold(t) PROVE CountsExact'
  BY <1>0, <1>22 DEF thread_hold
<1>23. ASSUME NEW t \in Thread, LeaveHold(t) PROVE CountsExact'
  BY <1>0, <1>23 DEF LeaveHold
<1>24. CASE Terminated \/ UNCHANGED vars
  BY <1>0, <1>24 DEF Terminated
<1> QED
  BY <1>1, <1>2, <1>3, <1>4, <1>5, <1>6, <1>7, <1>8, <1>9, <1>10, <1>11, <1>12, <1>13, <1>14, <1>15, <1>16, <1>17, <1>18, <1>19, <1>20, <1>21, <1>22, <1>23, <1>24 DEF Next, API, thread_do

\* Hence every step keeps TypeOK: the counters stay within the number of threads.
LEMMA TypeStep ==
  ASSUME IInv, [Next]_vars
  PROVE  TypeOK'
<1>1. Typed' /\ CountsExact'
  BY TypedStep, CountsStep
<1>2. CountsFinite'
  BY FiniteCounts, PTL
<1> QED
  BY <1>1, <1>2 DEF Typed, CountsExact, TypeOK, CountsFinite

\* Every step keeps the phases of the pool and the places of its threads in agreement:
\* no thread before thpool_init, none left when thpool_destroy frees the pool.
LEMMA LifeCycleStep ==
  ASSUME IInv, [Next]_vars
  PROVE  LifeCycle'
<1> USE DEF Typed, LifeCycle, vars, globals, counts, locks, signals, history, PC
<1>0. Typed /\ LifeCycle
  BY DEF IInv, TypeOK
<1>1. CASE thpool_init
  BY <1>0, <1>1 DEF thpool_init
<1>2. CASE InitReturns
  <2>1. Live = Thread
    BY <1>2, FiniteCounts DEF InitReturns, IInv, CountsExact, CountsFinite
  <2> QED
    BY <1>0, <1>2, <2>1 DEF InitReturns, Live
<1>3. ASSUME NEW j \in Job, thpool_add_work(j) PROVE LifeCycle'
  BY <1>0, <1>3 DEF thpool_add_work, bsem_post
<1>4. ASSUME NEW c \in Client, thpool_wait(c) PROVE LifeCycle'
  BY <1>0, <1>4 DEF thpool_wait
<1>5. ASSUME NEW c \in Client, WaitTest(c) PROVE LifeCycle'
  BY <1>0, <1>5 DEF WaitTest
<1>6. CASE thpool_destroy
  BY <1>0, <1>6 DEF thpool_destroy
<1>7. CASE DestroyPoll
  BY <1>0, <1>7 DEF DestroyPoll, bsem_post_all
<1>8. CASE DestroyReturns
  <2>1. Live = {}
    BY <1>8, FiniteCounts DEF DestroyReturns, IInv, CountsExact, CountsFinite
  <2> QED
    BY <1>0, <1>8, <2>1 DEF DestroyReturns, Live
<1>9. CASE thpool_pause
  BY <1>0, <1>9 DEF thpool_pause
<1>10. CASE thpool_resume
  BY <1>0, <1>10 DEF thpool_resume
<1>11. ASSUME NEW t \in Thread, Register(t) PROVE LifeCycle'
  BY <1>0, <1>11 DEF Register, Goto
<1>12. ASSUME NEW t \in Thread, Loop(t) PROVE LifeCycle'
  BY <1>0, <1>12 DEF Loop, Goto
<1>13. ASSUME NEW t \in Thread, BsemWait(t) PROVE LifeCycle'
  BY <1>0, <1>13 DEF BsemWait, Goto
<1>14. ASSUME NEW t \in Thread, Recheck(t) PROVE LifeCycle'
  BY <1>0, <1>14 DEF Recheck, Goto
<1>15. ASSUME NEW t \in Thread, Count(t) PROVE LifeCycle'
  BY <1>0, <1>15 DEF Count, Goto
<1>16. ASSUME NEW t \in Thread, jobqueue_pull(t) PROVE LifeCycle'
  BY <1>0, <1>16 DEF jobqueue_pull, bsem_post, Goto
<1>17. ASSUME NEW t \in Thread, Run(t) PROVE LifeCycle'
  BY <1>0, <1>17 DEF Run, Goto
<1>18. ASSUME NEW t \in Thread, Uncount(t) PROVE LifeCycle'
  BY <1>0, <1>18 DEF Uncount, SignalAllIdle, Goto
<1>19. ASSUME NEW t \in Thread, Exit(t) PROVE LifeCycle'
  BY <1>0, <1>19 DEF Exit, Goto
<1>20. ASSUME NEW t \in Thread, Unlock(t) PROVE LifeCycle'
  BY <1>0, <1>20 DEF Unlock
<1>21. ASSUME NEW t \in Thread, SpuriousWakeup(t) PROVE LifeCycle'
  BY <1>0, <1>21 DEF SpuriousWakeup, Goto
<1>22. ASSUME NEW t \in Thread, thread_hold(t) PROVE LifeCycle'
  BY <1>0, <1>22 DEF thread_hold
<1>23. ASSUME NEW t \in Thread, LeaveHold(t) PROVE LifeCycle'
  BY <1>0, <1>23 DEF LeaveHold
<1>24. CASE Terminated \/ UNCHANGED vars
  BY <1>0, <1>24 DEF Terminated
<1> QED
  BY <1>1, <1>2, <1>3, <1>4, <1>5, <1>6, <1>7, <1>8, <1>9, <1>10, <1>11, <1>12, <1>13, <1>14, <1>15, <1>16, <1>17, <1>18, <1>19, <1>20, <1>21, <1>22, <1>23, <1>24 DEF Next, API, thread_do

\* Every step keeps this: when has_jobs is up and a thread sleeps in bsem_wait, another
\* one is awake at the semaphore and will find it up.
LEMMA SemaphoreStep ==
  ASSUME IInv, [Next]_vars
  PROVE  SemaphoreSeen'
<1> USE DEF Typed, SemaphoreSeen, vars, globals, counts, locks, signals, history, PC
<1>0. Typed /\ SemaphoreSeen
  BY DEF IInv, TypeOK
<1>1. CASE thpool_init
  BY <1>0, <1>1 DEF thpool_init
<1>2. CASE InitReturns
  BY <1>0, <1>2 DEF InitReturns
<1>3. ASSUME NEW j \in Job, thpool_add_work(j) PROVE SemaphoreSeen'
  BY <1>0, <1>3 DEF thpool_add_work, bsem_post
<1>4. ASSUME NEW c \in Client, thpool_wait(c) PROVE SemaphoreSeen'
  BY <1>0, <1>4 DEF thpool_wait
<1>5. ASSUME NEW c \in Client, WaitTest(c) PROVE SemaphoreSeen'
  BY <1>0, <1>5 DEF WaitTest
<1>6. CASE thpool_destroy
  BY <1>0, <1>6 DEF thpool_destroy
<1>7. CASE DestroyPoll
  BY <1>0, <1>7 DEF DestroyPoll, bsem_post_all
<1>8. CASE DestroyReturns
  BY <1>0, <1>8 DEF DestroyReturns
<1>9. CASE thpool_pause
  BY <1>0, <1>9 DEF thpool_pause
<1>10. CASE thpool_resume
  BY <1>0, <1>10 DEF thpool_resume
<1>11. ASSUME NEW t \in Thread, Register(t) PROVE SemaphoreSeen'
  BY <1>0, <1>11 DEF Register, Goto
<1>12. ASSUME NEW t \in Thread, Loop(t) PROVE SemaphoreSeen'
  BY <1>0, <1>12 DEF Loop, Goto
<1>13. ASSUME NEW t \in Thread, BsemWait(t) PROVE SemaphoreSeen'
  BY <1>0, <1>13 DEF BsemWait, Goto
<1>14. ASSUME NEW t \in Thread, Recheck(t) PROVE SemaphoreSeen'
  BY <1>0, <1>14 DEF Recheck, Goto
<1>15. ASSUME NEW t \in Thread, Count(t) PROVE SemaphoreSeen'
  BY <1>0, <1>15 DEF Count, Goto
<1>16. ASSUME NEW t \in Thread, jobqueue_pull(t) PROVE SemaphoreSeen'
  BY <1>0, <1>16 DEF jobqueue_pull, bsem_post, Goto
<1>17. ASSUME NEW t \in Thread, Run(t) PROVE SemaphoreSeen'
  BY <1>0, <1>17 DEF Run, Goto
<1>18. ASSUME NEW t \in Thread, Uncount(t) PROVE SemaphoreSeen'
  BY <1>0, <1>18 DEF Uncount, Goto
<1>19. ASSUME NEW t \in Thread, Exit(t) PROVE SemaphoreSeen'
  BY <1>0, <1>19 DEF Exit, Goto
<1>20. ASSUME NEW t \in Thread, Unlock(t) PROVE SemaphoreSeen'
  BY <1>0, <1>20 DEF Unlock
<1>21. ASSUME NEW t \in Thread, SpuriousWakeup(t) PROVE SemaphoreSeen'
  BY <1>0, <1>21 DEF SpuriousWakeup, Goto
<1>22. ASSUME NEW t \in Thread, thread_hold(t) PROVE SemaphoreSeen'
  BY <1>0, <1>22 DEF thread_hold
<1>23. ASSUME NEW t \in Thread, LeaveHold(t) PROVE SemaphoreSeen'
  BY <1>0, <1>23 DEF LeaveHold
<1>24. CASE Terminated \/ UNCHANGED vars
  BY <1>0, <1>24 DEF Terminated
<1> QED
  BY <1>1, <1>2, <1>3, <1>4, <1>5, <1>6, <1>7, <1>8, <1>9, <1>10, <1>11, <1>12, <1>13, <1>14, <1>15, <1>16, <1>17, <1>18, <1>19, <1>20, <1>21, <1>22, <1>23, <1>24 DEF Next, API, thread_do

\* Every step keeps a queue with jobs in it in sight of a thread: has_jobs is up, or a
\* thread that has taken it is on its way to jobqueue_pull.
LEMMA QueueStep ==
  ASSUME IInv, [Next]_vars
  PROVE  QueueSeen'
<1> USE DEF Typed, QueueSeen, AboutToPull, vars, globals, counts, locks, signals, history, PC
<1>0. Typed /\ QueueSeen /\ LifeCycle
  BY DEF IInv, TypeOK
<1>1. CASE thpool_init
  BY <1>0, <1>1 DEF thpool_init
<1>2. CASE InitReturns
  BY <1>0, <1>2 DEF InitReturns, LifeCycle
<1>3. ASSUME NEW j \in Job, thpool_add_work(j) PROVE QueueSeen'
  BY <1>0, <1>3 DEF thpool_add_work, bsem_post
<1>4. ASSUME NEW c \in Client, thpool_wait(c) PROVE QueueSeen'
  BY <1>0, <1>4 DEF thpool_wait
<1>5. ASSUME NEW c \in Client, WaitTest(c) PROVE QueueSeen'
  BY <1>0, <1>5 DEF WaitTest
<1>6. CASE thpool_destroy
  BY <1>0, <1>6 DEF thpool_destroy
<1>7. CASE DestroyPoll
  BY <1>0, <1>7 DEF DestroyPoll, bsem_post_all
<1>8. CASE DestroyReturns
  BY <1>0, <1>8 DEF DestroyReturns
<1>9. CASE thpool_pause
  BY <1>0, <1>9 DEF thpool_pause
<1>10. CASE thpool_resume
  BY <1>0, <1>10 DEF thpool_resume
<1>11. ASSUME NEW t \in Thread, Register(t) PROVE QueueSeen'
  BY <1>0, <1>11 DEF Register, Goto
<1>12. ASSUME NEW t \in Thread, Loop(t) PROVE QueueSeen'
  BY <1>0, <1>12 DEF Loop, Goto
<1>13. ASSUME NEW t \in Thread, BsemWait(t) PROVE QueueSeen'
  BY <1>0, <1>13 DEF BsemWait, Goto
<1>14. ASSUME NEW t \in Thread, Recheck(t) PROVE QueueSeen'
  BY <1>0, <1>14 DEF Recheck, Goto, LifeCycle
<1>15. ASSUME NEW t \in Thread, Count(t) PROVE QueueSeen'
  BY <1>0, <1>15 DEF Count, Goto
<1>16. ASSUME NEW t \in Thread, jobqueue_pull(t) PROVE QueueSeen'
  BY <1>0, <1>16 DEF jobqueue_pull, bsem_post, Goto
<1>17. ASSUME NEW t \in Thread, Run(t) PROVE QueueSeen'
  BY <1>0, <1>17 DEF Run, Goto
<1>18. ASSUME NEW t \in Thread, Uncount(t) PROVE QueueSeen'
  BY <1>0, <1>18 DEF Uncount, Goto
<1>19. ASSUME NEW t \in Thread, Exit(t) PROVE QueueSeen'
  BY <1>0, <1>19 DEF Exit, Goto
<1>20. ASSUME NEW t \in Thread, Unlock(t) PROVE QueueSeen'
  BY <1>0, <1>20 DEF Unlock
<1>21. ASSUME NEW t \in Thread, SpuriousWakeup(t) PROVE QueueSeen'
  BY <1>0, <1>21 DEF SpuriousWakeup, Goto
<1>22. ASSUME NEW t \in Thread, thread_hold(t) PROVE QueueSeen'
  BY <1>0, <1>22 DEF thread_hold
<1>23. ASSUME NEW t \in Thread, LeaveHold(t) PROVE QueueSeen'
  BY <1>0, <1>23 DEF LeaveHold
<1>24. CASE Terminated \/ UNCHANGED vars
  BY <1>0, <1>24 DEF Terminated
<1> QED
  BY <1>1, <1>2, <1>3, <1>4, <1>5, <1>6, <1>7, <1>8, <1>9, <1>10, <1>11, <1>12, <1>13, <1>14, <1>15, <1>16, <1>17, <1>18, <1>19, <1>20, <1>21, <1>22, <1>23, <1>24 DEF Next, API, thread_do

\* Every step keeps each accepted job in one place: in the queue, with one thread,
\* finished, or discarded by jobqueue_clear.
LEMMA ConservedStep ==
  ASSUME IInv, [Next]_vars
  PROVE  JobsConserved'
<1> USE DEF Typed, JobsConserved, vars, globals, counts, locks, signals, history, PC
<1>0. Typed /\ JobsConserved /\ LifeCycle
  BY DEF IInv, TypeOK
<1>1. CASE thpool_init
  <2>1. queue' = queue
    BY <1>0, <1>1 DEF thpool_init, LifeCycle
  <2> QED
    BY <1>0, <1>1, <2>1 DEF thpool_init, LifeCycle
<1>2. CASE InitReturns
  BY <1>0, <1>2 DEF InitReturns
<1>3. ASSUME NEW j \in Job, thpool_add_work(j) PROVE JobsConserved'
  <2>1. j \notin Range(queue) /\ \A t \in Thread : job[t] # j
    BY <1>0, <1>3, NoJobAssumption DEF thpool_add_work
  <2>2. pc' \in [Thread -> PC] /\ \A t \in Thread : pc'[t] = "run" <=> pc[t] = "run"
    BY <1>0, <1>3 DEF thpool_add_work, bsem_post
  <2>3. /\ Range(queue') = Range(queue) \cup {j}
        /\ \A i \in 1..Len(queue') : queue'[i] \in Range(queue) \cup {j}
        /\ \A i, k \in 1..Len(queue') : queue'[i] = queue'[k] => i = k
    BY <1>0, <1>3, <2>1, AppendFacts DEF thpool_add_work
  <2>4. \A t \in Thread : job[t] \notin Range(queue)
    BY <1>0 DEF Range
  <2> QED
    BY <1>0, <1>3, <2>1, <2>2, <2>3, <2>4 DEF thpool_add_work
<1>4. ASSUME NEW c \in Client, thpool_wait(c) PROVE JobsConserved'
  BY <1>0, <1>4 DEF thpool_wait
<1>5. ASSUME NEW c \in Client, WaitTest(c) PROVE JobsConserved'
  BY <1>0, <1>5 DEF WaitTest
<1>6. CASE thpool_destroy
  BY <1>0, <1>6 DEF thpool_destroy
<1>7. CASE DestroyPoll
  BY <1>0, <1>7 DEF DestroyPoll, bsem_post_all
<1>8. CASE DestroyReturns
  <2>1. Range(<<>>) = {}
    BY DEF Range
  <2> QED
    BY <1>0, <1>8, <2>1 DEF DestroyReturns
<1>9. CASE thpool_pause
  BY <1>0, <1>9 DEF thpool_pause
<1>10. CASE thpool_resume
  BY <1>0, <1>10 DEF thpool_resume
<1>11. ASSUME NEW t \in Thread, Register(t) PROVE JobsConserved'
  BY <1>0, <1>11 DEF Register, Goto
<1>12. ASSUME NEW t \in Thread, Loop(t) PROVE JobsConserved'
  BY <1>0, <1>12 DEF Loop, Goto
<1>13. ASSUME NEW t \in Thread, BsemWait(t) PROVE JobsConserved'
  BY <1>0, <1>13 DEF BsemWait, Goto
<1>14. ASSUME NEW t \in Thread, Recheck(t) PROVE JobsConserved'
  BY <1>0, <1>14 DEF Recheck, Goto
<1>15. ASSUME NEW t \in Thread, Count(t) PROVE JobsConserved'
  BY <1>0, <1>15 DEF Count, Goto
<1>16. ASSUME NEW t \in Thread, jobqueue_pull(t) PROVE JobsConserved'
  <2>1. CASE queue = <<>>
    BY <1>0, <1>16, <2>1 DEF jobqueue_pull, Goto
  <2>2. CASE queue # <<>>
    <3>1. pc' \in [Thread -> PC] /\ \A u \in Thread : pc'[u] = "run" <=> pc[u] = "run" \/ u = t
      BY <1>0, <1>16, <2>2 DEF jobqueue_pull, bsem_post, Goto
    <3>2. job' = [job EXCEPT ![t] = Head(queue)] /\ queue' = Tail(queue)
      BY <1>16, <2>2 DEF jobqueue_pull
    <3>3. /\ Head(queue) = queue[1] /\ 1 \in 1..Len(queue)
          /\ Range(queue) = {Head(queue)} \cup Range(queue')
          /\ Len(queue') = Len(queue) - 1
          /\ \A i \in 1..Len(queue') : /\ queue'[i] = queue[i + 1] /\ i + 1 \in 1..Len(queue)
                                       /\ queue'[i] # Head(queue)
          /\ \A i, k \in 1..Len(queue') : queue'[i] = queue'[k] => i = k
      BY <1>0, <2>2, <3>2, TailFacts
    <3>4. /\ job[t] = NoJob /\ Head(queue) \in Job /\ Head(queue) # NoJob
          /\ \A u \in Thread : job[u] # Head(queue)
      BY <1>0, <1>16, <2>2, <3>3, HeadTailType, NoJobAssumption DEF jobqueue_pull
    <3>5. \A u \in Thread : job'[u] = IF u = t THEN Head(queue) ELSE job[u]
      BY <1>0, <3>2
    <3>6. {job'[u] : u \in Thread} \ {NoJob} = ({job[u] : u \in Thread} \ {NoJob}) \cup {Head(queue)}
      BY <3>4, <3>5
    <3>7. accepted' = accepted /\ finished' = finished /\ discarded' = discarded
      BY <1>16 DEF jobqueue_pull
    <3>8. accepted' = Range(queue)' \cup ({job[u] : u \in Thread} \ {NoJob})' \cup finished'
                        \cup discarded'
      BY <1>0, <3>3, <3>6, <3>7
    <3>9. \A i \in 1..Len(queue'), u \in Thread : queue'[i] # job'[u]
      BY <1>0, <3>3, <3>5
    <3>10. \A u, w \in Thread : job'[u] = job'[w] /\ job'[u] # NoJob => u = w
      BY <1>0, <3>4, <3>5
    <3>11. \A u \in Thread : job'[u] # NoJob <=> pc'[u] = "run"
      BY <1>0, <3>1, <3>4, <3>5
    <3> QED
      BY <3>3, <3>8, <3>9, <3>10, <3>11
  <2> QED
    BY <2>1, <2>2
<1>17. ASSUME NEW t \in Thread, Run(t) PROVE JobsConserved'
  <2>1. \A u \in Thread : job'[u] = IF u = t THEN NoJob ELSE job[u]
    BY <1>0, <1>17 DEF Run
  <2>2. job[t] # NoJob
    BY <1>0, <1>17 DEF Run
  <2>3. {job[u] : u \in Thread} \ {NoJob} = ({job'[u] : u \in Thread} \ {NoJob}) \cup {job[t]}
    BY <1>0, <2>1, <2>2
  <2>4. accepted' = Range(queue)' \cup ({job[u] : u \in Thread} \ {NoJob})' \cup finished'
                      \cup discarded'
    BY <1>0, <1>17, <2>3 DEF Run
  <2>5. \A u \in Thread : job'[u] # NoJob <=> pc'[u] = "run"
    BY <1>0, <1>17, <2>1 DEF Run, Goto
  <2>6. \A i \in 1..Len(queue), u \in Thread : queue[i] # job'[u]
    BY <1>0, <2>1, NoJobAssumption
  <2>7. \A u, w \in Thread : job'[u] = job'[w] /\ job'[u] # NoJob => u = w
    BY <1>0, <2>1
  <2> QED
    BY <1>0, <1>17, <2>4, <2>5, <2>6, <2>7 DEF Run
<1>18. ASSUME NEW t \in Thread, Uncount(t) PROVE JobsConserved'
  BY <1>0, <1>18 DEF Uncount, Goto
<1>19. ASSUME NEW t \in Thread, Exit(t) PROVE JobsConserved'
  BY <1>0, <1>19 DEF Exit, Goto
<1>20. ASSUME NEW t \in Thread, Unlock(t) PROVE JobsConserved'
  BY <1>0, <1>20 DEF Unlock
<1>21. ASSUME NEW t \in Thread, SpuriousWakeup(t) PROVE JobsConserved'
  BY <1>0, <1>21 DEF SpuriousWakeup, Goto
<1>22. ASSUME NEW t \in Thread, thread_hold(t) PROVE JobsConserved'
  BY <1>0, <1>22 DEF thread_hold
<1>23. ASSUME NEW t \in Thread, LeaveHold(t) PROVE JobsConserved'
  BY <1>0, <1>23 DEF LeaveHold
<1>24. CASE Terminated \/ UNCHANGED vars
  BY <1>0, <1>24 DEF Terminated
<1> QED
  BY <1>1, <1>2, <1>3, <1>4, <1>5, <1>6, <1>7, <1>8, <1>9, <1>10, <1>11, <1>12, <1>13, <1>14, <1>15, <1>16, <1>17, <1>18, <1>19, <1>20, <1>21, <1>22, <1>23, <1>24 DEF Next, API, thread_do

\* The inductive invariant holds before the first thpool_init.
LEMMA InitIInv ==
  ASSUME Init
  PROVE  IInv
<1> USE DEF Init
<1>1. Live = {} /\ Busy = {}
  BY DEF Live, Busy, Working
<1>2. CountsExact
  BY <1>1, FS_EmptySet DEF CountsExact
<1>3. TypeOK
  BY <1>1, <1>2, FiniteCounts, BoundsAssumption DEF TypeOK, CountsExact, CountsFinite, PC
<1>4. JobsConserved
  BY DEF JobsConserved, Range
<1> QED
  BY <1>2, <1>3, <1>4 DEF IInv, LifeCycle, SemaphoreSeen, QueueSeen

\* Every step of the pool preserves the inductive invariant.
LEMMA NextIInv ==
  ASSUME IInv, [Next]_vars
  PROVE  IInv'
BY TypeStep, CountsStep, LifeCycleStep, SemaphoreStep, QueueStep, ConservedStep DEF IInv

\* The inductive invariant, on which every other theorem about thread_pool.c rests.
THEOREM InductiveInvariant == Spec => []IInv
BY InitIInv, NextIInv, PTL DEF Spec

\* The variables of a pool have their types, whatever its callers do.
THEOREM TypeCorrect == Spec => []TypeOK
<1>1. IInv => TypeOK
  BY DEF IInv
<1> QED
  BY <1>1, InductiveInvariant, PTL

\* No accepted job is stranded in the queue of a pool that is up.
THEOREM NoWakeupIsLost == Spec => []NoLostWakeup
<1>1. IInv => NoLostWakeup
  BY DEF IInv, SemaphoreSeen, QueueSeen, NoLostWakeup
<1> QED
  BY <1>1, InductiveInvariant, PTL

\* thpool_destroy frees a pool that no thread works in any more.
THEOREM FreedPoolIsIdle == Spec => []FreedAfterLastJob
<1>1. IInv => FreedAfterLastJob
  <2> SUFFICES ASSUME IInv, phase = "freed"
               PROVE  FreedAfterLastJob
    BY DEF FreedAfterLastJob
  <2>1. \A t \in Thread : pc[t] = "gone" /\ job[t] = NoJob
    BY DEF IInv, LifeCycle, JobsConserved
  <2>2. Range(queue) = {}
    BY DEF IInv, LifeCycle, Range
  <2> QED
    BY <2>1, <2>2 DEF IInv, JobsConserved, FreedAfterLastJob
<1> QED
  BY <1>1, InductiveInvariant, PTL

\* The step in which thpool_wait returns: no job is in the queue or with a thread.
LEMMA WaitStep ==
  ASSUME IInv, [Next]_vars, NEW c \in Client, call[c] = "test", call'[c] = "out"
  PROVE  accepted = finished
<1> USE DEF vars, globals, counts, locks, signals, history
<1>1. call \in [Client -> {"out", "test", "asleep"}]
  BY DEF IInv, TypeOK
<1>2. WaitTest(c) /\ AllIdle
  <2>1. ASSUME NEW t \in Thread, Uncount(t) PROVE FALSE
    BY <1>1, <2>1 DEF Uncount, SignalAllIdle
  <2>2. ASSUME NEW d \in Client, thpool_wait(d) PROVE FALSE
    BY <1>1, <2>2 DEF thpool_wait
  <2>3. ASSUME NEW d \in Client, WaitTest(d) PROVE d = c /\ AllIdle
    BY <1>1, <2>3 DEF WaitTest
  <2> QED
    BY <2>1, <2>2, <2>3 DEF Next, API, thread_do, thpool_init, InitReturns, thpool_add_work,
      thpool_destroy, DestroyPoll, DestroyReturns, thpool_pause, thpool_resume, Register, Loop,
      BsemWait, Recheck, Count, jobqueue_pull, Run, Exit, Unlock, SpuriousWakeup, thread_hold,
      LeaveHold, Terminated
<1>3. queue = <<>> /\ Busy = {}
  BY <1>2, FiniteCounts DEF AllIdle, IInv, CountsExact, CountsFinite
<1>4. \A t \in Thread : job[t] = NoJob
  BY <1>3 DEF IInv, JobsConserved, Busy, Working
<1>5. Range(queue) = {}
  BY <1>3 DEF Range
<1>6. discarded = {}
  BY DEF IInv, LifeCycle
<1> QED
  BY <1>4, <1>5, <1>6 DEF IInv, JobsConserved

\* A caller of thpool_wait that goes on finds every job accepted so far done.
THEOREM WaitIsSound == Spec => WaitReturnsWhenDone
<1>1. IInv /\ [Next]_vars =>
        [\A c \in Client : call[c] = "test" /\ call'[c] = "out" => accepted = finished]_vars
  BY WaitStep
<1> QED
  BY <1>1, InductiveInvariant, PTL DEF Spec, WaitReturnsWhenDone
-----------------------------------------------------------------------------
(***************************************************************************)
(* ThreadPool implements JobService.                                       *)
(***************************************************************************)
\* The state of the service, as a function of the pool's phase.
ServiceState == CASE phase = "up" -> "open" [] phase = "destroy" -> "closing"
                  [] OTHER -> "closed"

\* A step of the pool that leaves what the service sees alone.
Stutters ==
  /\ ServiceState' = ServiceState
  /\ queue' = queue /\ job' = job
  /\ finished' = finished /\ discarded' = discarded

\* Every step of the pool is one of the abstract service, or leaves its state alone.
LEMMA ServiceStep ==
  ASSUME IInv, [Next]_vars
  PROVE  [JS!Next]_(JS!jobVars)
<1> DEFINE Goal == [JS!Next]_(JS!jobVars)
<1> USE DEF vars, globals, counts, locks, signals, history
<1>0. Stutters => Goal
  BY DEF Stutters, ServiceState, JS!jobVars
<1>00. Typed /\ JobsConserved /\ LifeCycle
  BY DEF IInv, TypeOK, Typed
<1>000. JS!Known \ {NoJob} = accepted \ {NoJob}
  BY <1>00 DEF JS!Known, JS!Range, Range, JobsConserved
<1>1. CASE thpool_init
  <2>1. queue' = queue
    BY <1>00, <1>1 DEF thpool_init, LifeCycle
  <2> QED
    BY <1>1, <2>1, <1>0 DEF thpool_init, Stutters, ServiceState
<1>2. CASE InitReturns
  <2>1. JS!Open
    BY <1>2 DEF InitReturns, JS!Open
  <2> QED
    BY <2>1 DEF JS!Next
<1>3. ASSUME NEW j \in Job, thpool_add_work(j) PROVE Goal
  <2>1. JS!Submit(j)
    BY <1>000, <1>3, NoJobAssumption DEF thpool_add_work, JS!Submit
  <2> QED
    BY <2>1 DEF JS!Next
<1>4. ASSUME NEW c \in Client, thpool_wait(c) PROVE Goal
  BY <1>0, <1>4 DEF thpool_wait, Stutters, ServiceState
<1>5. ASSUME NEW c \in Client, WaitTest(c) PROVE Goal
  BY <1>0, <1>5 DEF WaitTest, Stutters, ServiceState
<1>6. CASE thpool_destroy
  <2>1. JS!Close
    BY <1>6 DEF thpool_destroy, JS!Close
  <2> QED
    BY <2>1 DEF JS!Next
<1>7. CASE DestroyPoll
  BY <1>0, <1>7 DEF DestroyPoll, Stutters, ServiceState
<1>8. CASE DestroyReturns
  <2>1. Live = {}
    BY <1>8, FiniteCounts DEF DestroyReturns, IInv, CountsExact, CountsFinite
  <2>2. \A t \in Thread : job[t] = NoJob
    BY <1>00, <1>8, <2>1 DEF DestroyReturns, Live, JobsConserved, LifeCycle
  <2>3. JS!Discard
    BY <1>8, <2>2 DEF DestroyReturns, JS!Discard, JS!AllQuiet, JS!Range, Range
  <2> QED
    BY <2>3 DEF JS!Next
<1>9. CASE thpool_pause
  BY <1>0, <1>9 DEF thpool_pause, Stutters, ServiceState
<1>10. CASE thpool_resume
  BY <1>0, <1>10 DEF thpool_resume, Stutters, ServiceState
<1>11. ASSUME NEW t \in Thread, Register(t) PROVE Goal
  BY <1>0, <1>11 DEF Register, Stutters, ServiceState
<1>12. ASSUME NEW t \in Thread, Loop(t) PROVE Goal
  BY <1>0, <1>12 DEF Loop, Stutters, ServiceState
<1>13. ASSUME NEW t \in Thread, BsemWait(t) PROVE Goal
  BY <1>0, <1>13 DEF BsemWait, Stutters, ServiceState
<1>14. ASSUME NEW t \in Thread, Recheck(t) PROVE Goal
  BY <1>0, <1>14 DEF Recheck, Stutters, ServiceState
<1>15. ASSUME NEW t \in Thread, Count(t) PROVE Goal
  BY <1>0, <1>15 DEF Count, Stutters, ServiceState
<1>16. ASSUME NEW t \in Thread, jobqueue_pull(t) PROVE Goal
  <2>1. CASE queue = <<>>
    BY <1>16, <2>1, <1>0 DEF jobqueue_pull, Stutters, ServiceState
  <2>2. CASE queue # <<>>
    <3>1. job[t] = NoJob
      BY <1>00, <1>16 DEF jobqueue_pull, JobsConserved
    <3>2. JS!Begin(t)
      BY <1>16, <2>2, <3>1 DEF jobqueue_pull, JS!Begin
    <3> QED
      BY <3>2 DEF JS!Next
  <2> QED
    BY <2>1, <2>2
<1>17. ASSUME NEW t \in Thread, Run(t) PROVE Goal
  <2>1. job[t] # NoJob
    BY <1>00, <1>17 DEF Run, JobsConserved
  <2>2. JS!Finish(t)
    BY <1>17, <2>1 DEF Run, JS!Finish
  <2> QED
    BY <2>2 DEF JS!Next
<1>18. ASSUME NEW t \in Thread, Uncount(t) PROVE Goal
  BY <1>0, <1>18 DEF Uncount, Stutters, ServiceState
<1>19. ASSUME NEW t \in Thread, Exit(t) PROVE Goal
  BY <1>0, <1>19 DEF Exit, Stutters, ServiceState
<1>20. ASSUME NEW t \in Thread, Unlock(t) PROVE Goal
  BY <1>0, <1>20 DEF Unlock, Stutters, ServiceState
<1>21. ASSUME NEW t \in Thread, SpuriousWakeup(t) PROVE Goal
  BY <1>0, <1>21 DEF SpuriousWakeup, Stutters, ServiceState
<1>22. ASSUME NEW t \in Thread, thread_hold(t) PROVE Goal
  BY <1>0, <1>22 DEF thread_hold, Stutters, ServiceState
<1>23. ASSUME NEW t \in Thread, LeaveHold(t) PROVE Goal
  BY <1>0, <1>23 DEF LeaveHold, Stutters, ServiceState
<1>24. CASE Terminated \/ UNCHANGED vars
  BY <1>0, <1>24 DEF Terminated, Stutters, ServiceState
<1> QED
  BY <1>1, <1>2, <1>3, <1>4, <1>5, <1>6, <1>7, <1>8, <1>9, <1>10, <1>11, <1>12, <1>13, <1>14, <1>15, <1>16, <1>17, <1>18, <1>19, <1>20, <1>21, <1>22, <1>23, <1>24 DEF Next, API, thread_do

\* What callers of thread_pool.c rely on: first in, first out, at most once, at
\* most as many at a time as there are workers, and nothing runs after a destroy.
THEOREM PoolImplementsJobService == Spec => ImplementsJobService
<1>1. Init => JS!Init
  BY DEF Init, JS!Init
<1>2. IInv /\ [Next]_vars => [JS!Next]_(JS!jobVars)
  BY ServiceStep
<1> QED
  BY <1>1, <1>2, InductiveInvariant, PTL DEF Spec, ImplementsJobService, JS!Spec
=============================================================================
