----------------------------- MODULE JobSystem -----------------------------
(***************************************************************************)
(* engine/src/systems/job_system.c: the main thread and its job threads.   *)
(*                                                                         *)
(* The main thread submits jobs, once per frame hands the queued ones to   *)
(* idle job threads and runs the callbacks of the finished ones, and shuts *)
(* the system down.  A job thread polls its own info for a job, runs it,   *)
(* stores the result and clears its info.  A running job may submit jobs.  *)
(*                                                                         *)
(* A step is what a thread does between two accesses to shared state: the  *)
(* wait for a mutex is one step, the section under it and its release the  *)
(* next one.  process_queue takes a queue mutex while it holds the info    *)
(* mutex of a thread.  The queues are bounded FIFOs, which the ring queue  *)
(* implements (RingQueue.tla).                                             *)
(***************************************************************************)
EXTENDS JobThreads, Sequences, FiniteSets

CONSTANTS ThreadCount,    \* number of job threads
          TypeMask,       \* the job types each thread takes
          Job,            \* the jobs that are ever created
          NoJob,
          JobKind,        \* the job infos that are ever created
          QueueCapacity,  \* 1024 in the source
          MaxResults      \* MAX_JOB_RESULTS, 512 in the source

Worker == 0 .. ThreadCount - 1
Slot == 0 .. MaxResults - 1

ASSUME ThreadAssumption == ThreadCount \in Nat
ASSUME MaskAssumption == TypeMask \in [Worker -> SUBSET JobType]
ASSUME JobAssumption == NoJob \notin Job /\ JobKind \subseteq JobInfo
ASSUME BoundAssumption == QueueCapacity \in Nat /\ MaxResults \in Nat

Main == -1
Caller == Worker \cup {Main}      \* the threads that submit jobs

\* The state of a mutex: free, not created or destroyed, or its holder.
Free == -2
Absent == -3
Mutex == Caller \cup {Free, Absent}

\* The info of a job that is not created yet.
NoInfo == [type |-> "none", priority |-> "none",
           on_success |-> FALSE, on_fail |-> FALSE]

\* An entry of pending_results: the job whose callback it holds, and which one.
Outcome == {"none", "success", "fail"}
ResultEntry == [job : Job \cup {NoJob}, outcome : Outcome]
NoResult == [job |-> NoJob, outcome |-> "none"]

\* The life of the job system state: running, then the steps of the shutdown;
\* state_ptr is null once it is down.
Phase == {"up", "stopping", "cancelled", "noqueues", "nomutexes", "down"}

SubmitPC == {"none", "scan", "test", "queue", "enqueue"}
MainPC == {"idle", "peek", "find", "test", "assign",
           "result", "copy", "callback", "clearWait", "clear"}
WorkerPC == {"start", "check", "pollWait", "poll", "run", "storeWait", "store",
             "resetWait", "reset", "tail", "exit", "dead"}

VARIABLES
  phase, info, queue, results,      \* JOB_SYSTEM_STATE
  infoLock, queueLock, resultLock,  \* and its mutexes
  jobs,     \* the JOB_INFO of each created job
  sub,      \* the call of job_system_submit of each thread
  main,     \* the main thread: job_system_update and job_system_shutdown
  thr,      \* the job threads: job_thread_run, with their copy of the info
  crashed,  \* a thread used a mutex that does not exist, or the null state_ptr
  hist,     \* history: what happened to each job
  order     \* history: the order in which the jobs were accepted

locks == <<infoLock, queueLock, resultLock>>
history == <<hist, order>>
vars == <<phase, info, queue, results, locks, jobs, sub, main, thr, crashed, history>>

SubState == [pc : SubmitPC, job : Job \cup {NoJob}, i : Nat]
MainState == [pc : MainPC, q : Priority, job : Job \cup {NoJob}, i : Nat, slot : Nat]
ThrState == [pc : WorkerPC, job : Job \cup {NoJob}]
JobHistory == [starts : Nat, outcome : Outcome, callbacks : Seq(Outcome), dropped : BOOLEAN]

TypeOK ==
  /\ phase \in Phase /\ crashed \in BOOLEAN
  /\ info \in [Worker -> Job \cup {NoJob}]
  /\ queue \in [Priority -> Seq(Job)]
  /\ results \in [Slot -> ResultEntry]
  /\ infoLock \in [Worker -> Mutex]
  /\ queueLock \in [Priority -> Mutex]
  /\ resultLock \in Mutex
  /\ jobs \in [Job -> JobInfo \cup {NoInfo}]
  /\ sub \in [Caller -> SubState]
  /\ main \in MainState
  /\ thr \in [Worker -> ThrState]
  /\ hist \in [Job -> JobHistory]
  /\ order \in Seq(Job)

-----------------------------------------------------------------------------
Created(j) == jobs[j] # NoInfo
CallbackWanted(j, r) == \/ r = "success" /\ jobs[j].on_success
                        \/ r = "fail" /\ jobs[j].on_fail

\* Mutant: the mask of the thread is not looked at.
FirstThread(t, lo, i) == i >= lo /\ \A k \in Worker : ~(lo <= k /\ k < i)

\* Thread i is the first one from thread lo on that takes jobs of type t.
FirstCapable(t, lo, i) ==
  /\ i >= lo /\ t \in TypeMask[i]
  /\ \A k \in Worker : lo <= k /\ k < i => t \notin TypeMask[k]

NoneCapable(t, lo) == \A k \in Worker : k >= lo => t \notin TypeMask[k]

\* Unlocking a mutex that was destroyed meanwhile does nothing.
Released(m) == IF m = Absent THEN Absent ELSE Free
LockInfo(i, t) == infoLock[i] = Free /\ infoLock' = [infoLock EXCEPT ![i] = t]
UnlockInfo(i) == infoLock' = [infoLock EXCEPT ![i] = Released(@)]
LockQueue(p, t) == queueLock[p] = Free /\ queueLock' = [queueLock EXCEPT ![p] = t]
UnlockQueue(p) == queueLock' = [queueLock EXCEPT ![p] = Released(@)]
LockResult(t) == resultLock = Free /\ resultLock' = t
UnlockResult == resultLock' = Released(resultLock)

\* job_system_init has returned: the queues and their mutexes exist; every job
\* thread was started, but may not have created the mutex of its info.
Init ==
  /\ phase = "up" /\ crashed = FALSE
  /\ info = [w \in Worker |-> NoJob]
  /\ queue = [p \in Priority |-> <<>>]
  /\ results = [i \in Slot |-> NoResult]
  /\ infoLock = [w \in Worker |-> Absent]
  /\ queueLock = [p \in Priority |-> Free]
  /\ resultLock = Free
  /\ jobs = [j \in Job |-> NoInfo]
  /\ sub = [c \in Caller |-> [pc |-> "none", job |-> NoJob, i |-> 0]]
  /\ main = [pc |-> "idle", q |-> "high", job |-> NoJob, i |-> 0, slot |-> 0]
  /\ thr = [w \in Worker |-> [pc |-> "start", job |-> NoJob]]
  /\ hist = [j \in Job |-> [starts |-> 0, outcome |-> "none", callbacks |-> <<>>,
                            dropped |-> FALSE]]
  /\ order = <<>>

-----------------------------------------------------------------------------
(***************************************************************************)
(* job_system_submit, called by the main thread between two updates or in  *)
(* a callback, and by a running job.                                       *)
(***************************************************************************)
MaySubmit(c) == /\ sub[c].pc = "none" /\ phase # "down"
                /\ c = Main => phase = "up" /\ main.pc \in {"idle", "callback"}

\* The call of thread c goes on at pc, for job j and from thread i.
Calls(c, pc, j, i) == sub' = [sub EXCEPT ![c] = [pc |-> pc, job |-> j, i |-> i]]

\* job_create, and the call.  Only a high priority job looks for a thread.
SubmitCall(c) ==
  /\ MaySubmit(c)
  /\ \E j \in Job, kind \in JobKind :
       /\ ~Created(j)
       /\ jobs' = [jobs EXCEPT ![j] = kind]
       /\ Calls(c, IF kind.priority = "high" THEN "scan" ELSE "queue", j, 0)
  /\ UNCHANGED <<phase, info, queue, results, locks, main, thr, crashed, history>>

SubmitLockInfo(c) ==
  /\ sub[c].pc = "scan" /\ phase # "down"
  /\ \E i \in Worker : /\ FirstCapable(jobs[sub[c].job].type, sub[c].i, i)
                       /\ LockInfo(i, c)
                       /\ Calls(c, "test", sub[c].job, i)
  /\ UNCHANGED <<phase, info, queue, results, queueLock, resultLock, jobs, main, thr,
                 crashed, history>>

\* The job goes straight to an idle thread, or the scan goes on.
SubmitTest(c) ==
  /\ sub[c].pc = "test" /\ phase # "down"
  /\ LET i == sub[c].i
         j == sub[c].job
     IN  /\ IF info[i] = NoJob
              THEN /\ info' = [info EXCEPT ![i] = j]
                   /\ order' = Append(order, j)
                   /\ Calls(c, "none", NoJob, i)
              ELSE /\ Calls(c, "scan", j, i + 1)
                   /\ UNCHANGED <<info, order>>
         /\ UnlockInfo(i)
  /\ UNCHANGED <<phase, queue, results, queueLock, resultLock, jobs, main, thr, crashed,
                 hist>>

SubmitNoThread(c) ==
  /\ sub[c].pc = "scan" /\ phase # "down"
  /\ NoneCapable(jobs[sub[c].job].type, sub[c].i)
  /\ Calls(c, "queue", sub[c].job, sub[c].i)
  /\ UNCHANGED <<phase, info, queue, results, locks, jobs, main, thr, crashed, history>>

SubmitLockQueue(c) ==
  /\ sub[c].pc = "queue"
  /\ LockQueue(jobs[sub[c].job].priority, c)
  /\ Calls(c, "enqueue", sub[c].job, sub[c].i)
  /\ UNCHANGED <<phase, info, queue, results, infoLock, resultLock, jobs, main, thr,
                 crashed, history>>

\* Mutant: the last place of the queue is never used.
FullEarly(p) == phase \in {"noqueues", "nomutexes", "down"} \/ Len(queue[p]) >= QueueCapacity - 1

\* A destroyed queue has capacity 0.
Full(p) == phase \in {"noqueues", "nomutexes", "down"} \/ Len(queue[p]) = QueueCapacity

\* Mutant: the newest job goes to the front of the queue.
SubmitPush(c) ==
  /\ sub[c].pc = "enqueue" /\ phase = "up"
  /\ LET j == sub[c].job
         p == jobs[j].priority
     IN  /\ ~Full(p)
         /\ queue' = [queue EXCEPT ![p] = <<j>> \o @]
         /\ order' = Append(order, j)
         /\ UnlockQueue(p)
  /\ Calls(c, "none", NoJob, sub[c].i)
  /\ UNCHANGED <<phase, info, results, infoLock, resultLock, jobs, main, thr, crashed, hist>>

\* The result of ring_queue_enqueue is not looked at: a job that does not fit
\* is forgotten, without any word to the caller.
SubmitEnqueue(c) ==
  /\ sub[c].pc = "enqueue"
  /\ LET j == sub[c].job
         p == jobs[j].priority
     IN  /\ IF Full(p)
              THEN hist' = [hist EXCEPT ![j].dropped = TRUE] /\ UNCHANGED <<queue, order>>
              ELSE /\ queue' = [queue EXCEPT ![p] = Append(@, j)]
                   /\ order' = Append(order, j)
                   /\ UNCHANGED hist
         /\ UnlockQueue(p)
  /\ Calls(c, "none", NoJob, sub[c].i)
  /\ UNCHANGED <<phase, info, results, infoLock, resultLock, jobs, main, thr, crashed>>

\* A job thread submits only from the job it runs.
Executing(c) == c \in Worker => thr[c].pc = "run"

Submit(c) == /\ Executing(c)
             /\ \/ SubmitCall(c) \/ SubmitLockInfo(c) \/ SubmitTest(c)
                \/ SubmitNoThread(c) \/ SubmitLockQueue(c) \/ SubmitEnqueue(c)

-----------------------------------------------------------------------------
(***************************************************************************)
(* job_system_update, on the main thread: process_queue for the three      *)
(* queues, then the pending results.                                       *)
(***************************************************************************)
UpdateCall ==
  /\ main.pc = "idle" /\ phase = "up" /\ sub[Main].pc = "none"
  /\ main' = [main EXCEPT !.pc = "peek", !.q = "high"]
  /\ UNCHANGED <<phase, info, queue, results, locks, jobs, sub, thr, crashed, history>>

\* After the last queue, the results are looked through from the first slot.
NextQueue ==
  CASE main.q = "high"   -> [main EXCEPT !.pc = "peek", !.q = "normal"]
    [] main.q = "normal" -> [main EXCEPT !.pc = "peek", !.q = "low"]
    [] OTHER             -> [main EXCEPT !.pc = "result", !.slot = 0]

\* The head of the queue is read without its mutex.
Peek ==
  /\ main.pc = "peek"
  /\ main' = IF queue[main.q] = <<>>
               THEN NextQueue
               ELSE [main EXCEPT !.pc = "find", !.job = Head(queue[main.q]), !.i = 0]
  /\ UNCHANGED <<phase, info, queue, results, locks, jobs, sub, thr, crashed, history>>

FindLockInfo ==
  /\ main.pc = "find"
  /\ \E i \in Worker : /\ FirstCapable(jobs[main.job].type, main.i, i)
                       /\ LockInfo(i, Main)
                       /\ main' = [main EXCEPT !.pc = "test", !.i = i]
  /\ UNCHANGED <<phase, info, queue, results, queueLock, resultLock, jobs, sub, thr,
                 crashed, history>>

\* Mutant: the mutex of a busy thread is not released.
FindBusyLocked ==
  /\ main.pc = "test" /\ info[main.i] # NoJob
  /\ main' = [main EXCEPT !.pc = "find", !.i = main.i + 1]
  /\ UNCHANGED <<phase, info, queue, results, locks, jobs, sub, thr, crashed, history>>

FindBusy ==
  /\ main.pc = "test" /\ info[main.i] # NoJob
  /\ UnlockInfo(main.i)
  /\ main' = [main EXCEPT !.pc = "find", !.i = main.i + 1]
  /\ UNCHANGED <<phase, info, queue, results, queueLock, resultLock, jobs, sub, thr,
                 crashed, history>>

\* No thread is found for the job at the head: the rest of this queue waits
\* for the next update, and the next queue is processed.
FindNone ==
  /\ main.pc = "find" /\ NoneCapable(jobs[main.job].type, main.i)
  /\ main' = NextQueue
  /\ UNCHANGED <<phase, info, queue, results, locks, jobs, sub, thr, crashed, history>>

\* The mutex of the queue is taken under the mutex of the thread's info.
FindLockQueue ==
  /\ main.pc = "test" /\ info[main.i] = NoJob
  /\ LockQueue(main.q, Main)
  /\ main' = [main EXCEPT !.pc = "assign"]
  /\ UNCHANGED <<phase, info, queue, results, infoLock, resultLock, jobs, sub, thr,
                 crashed, history>>

\* What is dequeued now is given to the thread found for what was peeked; a
\* ring_queue_dequeue of an empty queue would leave the peeked job in place.
Assign ==
  /\ main.pc = "assign"
  /\ IF queue[main.q] = <<>>
       THEN info' = [info EXCEPT ![main.i] = main.job] /\ UNCHANGED queue
       ELSE /\ info' = [info EXCEPT ![main.i] = Head(queue[main.q])]
            /\ queue' = [queue EXCEPT ![main.q] = Tail(@)]
  /\ UnlockQueue(main.q) /\ UnlockInfo(main.i)
  /\ main' = [main EXCEPT !.pc = "peek"]
  /\ UNCHANGED <<phase, results, resultLock, jobs, sub, thr, crashed, history>>

ResultLock ==
  /\ main.pc = "result" /\ main.slot < MaxResults
  /\ LockResult(Main)
  /\ main' = [main EXCEPT !.pc = "copy"]
  /\ UNCHANGED <<phase, info, queue, results, infoLock, queueLock, jobs, sub, thr,
                 crashed, history>>

\* Mutant: the last entry is not looked at.
UpdateReturnEarly ==
  /\ main.pc = "result" /\ main.slot >= MaxResults - 1
  /\ main' = [main EXCEPT !.pc = "idle"]
  /\ UNCHANGED <<phase, info, queue, results, locks, jobs, sub, thr, crashed, history>>

UpdateReturn ==
  /\ main.pc = "result" /\ main.slot = MaxResults
  /\ main' = [main EXCEPT !.pc = "idle"]
  /\ UNCHANGED <<phase, info, queue, results, locks, jobs, sub, thr, crashed, history>>

\* The entry is copied, and its callback begins after the mutex is released.
ResultCopy ==
  /\ main.pc = "copy"
  /\ LET e == results[main.slot]
     IN  IF e = NoResult
           THEN /\ main' = [main EXCEPT !.pc = "result", !.slot = main.slot + 1]
                /\ UNCHANGED hist
           ELSE /\ main' = [main EXCEPT !.pc = "callback"]
                /\ hist' = [hist EXCEPT ![e.job].callbacks = Append(@, e.outcome)]
  /\ UnlockResult
  /\ UNCHANGED <<phase, info, queue, results, infoLock, queueLock, jobs, sub, thr,
                 crashed, order>>

CallbackReturn ==
  /\ main.pc = "callback" /\ sub[Main].pc = "none"
  /\ main' = [main EXCEPT !.pc = "clearWait"]
  /\ UNCHANGED <<phase, info, queue, results, locks, jobs, sub, thr, crashed, history>>

ClearLock ==
  /\ main.pc = "clearWait"
  /\ LockResult(Main)
  /\ main' = [main EXCEPT !.pc = "clear"]
  /\ UNCHANGED <<phase, info, queue, results, infoLock, queueLock, jobs, sub, thr,
                 crashed, history>>

ClearResult ==
  /\ main.pc = "clear"
  /\ results' = [results EXCEPT ![main.slot] = NoResult]
  /\ UnlockResult
  /\ main' = [main EXCEPT !.pc = "result", !.slot = main.slot + 1]
  /\ UNCHANGED <<phase, info, queue, infoLock, queueLock, jobs, sub, thr, crashed, history>>

Update == \/ UpdateCall \/ Peek \/ FindLockInfo \/ FindBusy \/ FindNone
          \/ FindLockQueue \/ Assign \/ ResultLock \/ UpdateReturn \/ ResultCopy
          \/ CallbackReturn \/ ClearLock \/ ClearResult

-----------------------------------------------------------------------------
(***************************************************************************)
(* job_system_shutdown, on the main thread.  It cancels the job threads    *)
(* and does not wait for them to end.                                      *)
(***************************************************************************)
Shutdown ==
  /\ main.pc = "idle" /\ sub[Main].pc = "none"
  /\ phase # "down"
  /\ phase' = CASE phase = "up"        -> "stopping"
                [] phase = "stopping"  -> "cancelled"
                [] phase = "cancelled" -> "noqueues"
                [] phase = "noqueues"  -> "nomutexes"
                [] phase = "nomutexes" -> "down"
  /\ queue' = IF phase' = "noqueues" THEN [p \in Priority |-> <<>>] ELSE queue
  /\ queueLock' = IF phase' = "nomutexes" THEN [p \in Priority |-> Absent] ELSE queueLock
  /\ resultLock' = IF phase' = "nomutexes" THEN Absent ELSE resultLock
  /\ UNCHANGED <<info, results, infoLock, jobs, sub, main, thr, crashed, history>>

-----------------------------------------------------------------------------
(***************************************************************************)
(* job_thread_run, on job thread w.                                        *)
(***************************************************************************)
Goes(w, from, to) == thr[w].pc = from /\ thr' = [thr EXCEPT ![w].pc = to]

\* A job thread creates the mutex of its info itself, and destroys it at its end.
WorkerStart(w) ==
  /\ Goes(w, "start", "check")
  /\ infoLock' = [infoLock EXCEPT ![w] = Free]
  /\ UNCHANGED <<phase, info, queue, results, queueLock, resultLock, jobs, sub, main,
                 crashed, history>>

WorkerExit(w) ==
  /\ Goes(w, "exit", "dead")
  /\ infoLock' = [infoLock EXCEPT ![w] = Absent]
  /\ UNCHANGED <<phase, info, queue, results, queueLock, resultLock, jobs, sub, main,
                 crashed, history>>

WorkerCheck(w) ==
  /\ \/ Goes(w, "check", IF phase = "up" THEN "pollWait" ELSE "exit")
     \/ phase # "down" /\ Goes(w, "tail", IF phase = "up" THEN "check" ELSE "exit")
  /\ UNCHANGED <<phase, info, queue, results, locks, jobs, sub, main, crashed, history>>

WorkerLockInfo(w) ==
  /\ Goes(w, "pollWait", "poll") \/ Goes(w, "resetWait", "reset")
  /\ LockInfo(w, w)
  /\ UNCHANGED <<phase, info, queue, results, queueLock, resultLock, jobs, sub, main,
                 crashed, history>>

\* Mutant: the info is cleared when it is copied.
WorkerPollTakes(w) ==
  /\ thr[w].pc = "poll"
  /\ LET j == info[w]
     IN  /\ thr' = [thr EXCEPT ![w] = [pc |-> IF j = NoJob THEN "tail" ELSE "run", job |-> j]]
         /\ hist' = IF j = NoJob THEN hist ELSE [hist EXCEPT ![j].starts = @ + 1]
  /\ info' = [info EXCEPT ![w] = NoJob]
  /\ UnlockInfo(w)
  /\ UNCHANGED <<phase, queue, results, queueLock, resultLock, jobs, sub, main, crashed, order>>

\* The info is copied, and a job begins to run after the mutex is released.
WorkerPoll(w) ==
  /\ thr[w].pc = "poll"
  /\ LET j == info[w]
     IN  /\ thr' = [thr EXCEPT ![w] = [pc |-> IF j = NoJob THEN "tail" ELSE "run", job |-> j]]
         /\ hist' = IF j = NoJob THEN hist ELSE [hist EXCEPT ![j].starts = @ + 1]
  /\ UnlockInfo(w)
  /\ UNCHANGED <<phase, info, queue, results, queueLock, resultLock, jobs, sub, main,
                 crashed, order>>

\* The entry point returns; a result is stored only for a callback that exists.
WorkerFinish(w) ==
  /\ thr[w].pc = "run" /\ sub[w].pc = "none"
  /\ \E r \in {"success", "fail"} :
       /\ hist' = [hist EXCEPT ![thr[w].job].outcome = r]
       /\ Goes(w, "run", IF CallbackWanted(thr[w].job, r) THEN "storeWait" ELSE "resetWait")
  /\ UNCHANGED <<phase, info, queue, results, locks, jobs, sub, main, crashed, order>>

WorkerLockResult(w) ==
  /\ phase # "down"
  /\ Goes(w, "storeWait", "store")
  /\ LockResult(w)
  /\ UNCHANGED <<phase, info, queue, results, infoLock, queueLock, jobs, sub, main,
                 crashed, history>>

\* store_result: the first free entry, if there is one; otherwise the result is
\* forgotten, and its callback with it.
FirstFree(i) == /\ results[i] = NoResult
                /\ \A k \in Slot : k < i => results[k] # NoResult

WorkerStore(w) ==
  /\ Goes(w, "store", "resetWait")
  /\ LET j == thr[w].job
     IN  \/ /\ \E i \in Slot : /\ FirstFree(i)
                               /\ results' = [results EXCEPT
                                    ![i] = [job |-> j, outcome |-> hist[j].outcome]]
            /\ UNCHANGED hist
         \/ /\ \A i \in Slot : results[i] # NoResult
            /\ hist' = [hist EXCEPT ![j].dropped = TRUE]
            /\ UNCHANGED results
  /\ UnlockResult
  /\ UNCHANGED <<phase, info, queue, infoLock, queueLock, jobs, sub, main, crashed, order>>

\* Mutant: the info keeps its job.
WorkerResetKeeps(w) ==
  /\ thr[w].pc = "reset"
  /\ thr' = [thr EXCEPT ![w] = [pc |-> "tail", job |-> NoJob]]
  /\ UnlockInfo(w)
  /\ UNCHANGED <<phase, info, queue, results, queueLock, resultLock, jobs, sub, main, crashed,
                 history>>

\* The thread is idle again.
WorkerReset(w) ==
  /\ thr[w].pc = "reset"
  /\ thr' = [thr EXCEPT ![w] = [pc |-> "tail", job |-> NoJob]]
  /\ info' = [info EXCEPT ![w] = NoJob]
  /\ UnlockInfo(w)
  /\ UNCHANGED <<phase, queue, results, queueLock, resultLock, jobs, sub, main, crashed,
                 history>>

\* A cancelled thread ends where it sleeps, reads a file or logs: in the pause
\* between two polls or in its job, perhaps inside job_system_submit.
WorkerCancelled(w) ==
  /\ phase \notin {"up", "stopping"}
  /\ \/ Goes(w, "tail", "dead")
     \/ sub[w].pc \in {"none", "test"} /\ Goes(w, "run", "dead")
  /\ UNCHANGED <<phase, info, queue, results, locks, jobs, sub, main, crashed, history>>

Work(w) == \/ WorkerStart(w) \/ WorkerExit(w) \/ WorkerCheck(w) \/ WorkerLockInfo(w)
           \/ WorkerPoll(w) \/ WorkerFinish(w) \/ WorkerLockResult(w)
           \/ WorkerStore(w) \/ WorkerReset(w) \/ WorkerCancelled(w)

-----------------------------------------------------------------------------
(***************************************************************************)
(* A mutex that is not created yet, or that is destroyed, has no data to   *)
(* lock (ymutex_lock passes the null pointer on), and state_ptr is null    *)
(* after the shutdown: the thread that uses one of them ends the program.  *)
(***************************************************************************)
SubmitFault(c) ==
  /\ Executing(c)
  /\ \/ c # Main /\ sub[c].pc \in {"none", "scan", "test"} /\ phase = "down"
     \/ /\ sub[c].pc = "scan"
        /\ \E i \in Worker : /\ FirstCapable(jobs[sub[c].job].type, sub[c].i, i)
                             /\ infoLock[i] = Absent
     \/ sub[c].pc = "queue" /\ queueLock[jobs[sub[c].job].priority] = Absent

UpdateFault ==
  /\ main.pc = "find"
  /\ \E i \in Worker : FirstCapable(jobs[main.job].type, main.i, i) /\ infoLock[i] = Absent

WorkerFault(w) == \/ thr[w].pc = "storeWait" /\ resultLock = Absent
                  \/ thr[w].pc = "tail" /\ phase = "down"

Crash == /\ (\E c \in Caller : SubmitFault(c)) \/ UpdateFault \/ (\E w \in Worker : WorkerFault(w))
         /\ crashed' = TRUE
         /\ UNCHANGED <<phase, info, queue, results, locks, jobs, sub, main, thr, history>>

\* Nothing more happens after a crash; after the shutdown, what is left of the
\* job threads may wait for ever.
Halted == (crashed \/ phase = "down") /\ UNCHANGED vars

Step == \/ \E c \in Caller : Submit(c)
        \/ Update \/ Shutdown
        \/ \E w \in Worker : Work(w)
        \/ Crash

Next == (~crashed /\ Step) \/ Halted

Spec == Init /\ [][Next]_vars

-----------------------------------------------------------------------------
\* The frame loop keeps calling job_system_update, every thread that can go on
\* does, and a thread that waits for a mutex gets it when it is free again and
\* again: its holders keep it for a few instructions, and a job thread sleeps
\* between two polls.
Fairness ==
  /\ WF_vars(~crashed /\ Update)
  /\ SF_vars(~crashed /\ (FindLockInfo \/ FindLockQueue \/ ResultLock \/ ClearLock))
  /\ \A c \in Caller : /\ WF_vars(~crashed /\ sub[c].pc # "none" /\ Submit(c))
                       /\ SF_vars(~crashed /\ Executing(c)
                                    /\ (SubmitLockInfo(c) \/ SubmitLockQueue(c)))
  /\ \A w \in Worker : /\ WF_vars(~crashed /\ Work(w))
                       /\ SF_vars(~crashed /\ (WorkerLockInfo(w) \/ WorkerLockResult(w)))

FairSpec == Spec /\ Fairness
=============================================================================
