------------------------ MODULE JobSystemProperties ------------------------
(***************************************************************************)
(* What the job system guarantees, and what it is said to guarantee.       *)
(***************************************************************************)
EXTENDS JobSystem

InQueue(j) == \E p \in Priority : \E k \in 1 .. Len(queue[p]) : queue[p][k] = j

\* A job thread never runs a job of a type outside its mask, although
\* process_queue looks for the thread with the job it peeks without the mutex
\* of the queue, and dequeues later.
RightThread ==
  \A w \in Worker : thr[w].job # NoJob => jobs[thr[w].job].type \in TypeMask[w]

\* The entry point of a job is entered at most once, and at most one callback
\* is called for it: no interleaving of hand-off, queue, reset and result
\* entries duplicates a job.
AtMostOnce ==
  \A j \in Job : hist[j].starts <= 1 /\ Len(hist[j].callbacks) <= 1

\* A callback is on_success or on_fail as the entry point returned true or
\* false, it is one the job has, and it is called after the job ran.
CallbackIsOutcome ==
  \A j \in Job : \A k \in 1 .. Len(hist[j].callbacks) :
    /\ hist[j].starts > 0
    /\ hist[j].callbacks[k] = hist[j].outcome
    /\ CallbackWanted(j, hist[j].outcome)

\* A job is answered as it went and no more than once, however hand-off, queue,
\* reset and result entries interleave.
AnsweredOnce == AtMostOnce /\ CallbackIsOutcome

\* The refinement mapping: where a job is tells how far it has come.
Running(j) == \E w \in Worker : thr[w].job = j /\ thr[w].pc = "run"
Waiting(j) == \/ \E c \in Caller : sub[c].job = j
              \/ InQueue(j)
              \/ \E w \in Worker : info[w] = j /\ thr[w].job # j
Returned(j) == \/ \E w \in Worker : thr[w].job = j /\ thr[w].pc \in {"storeWait", "store"}
               \/ \E i \in Slot : results[i].job = j /\ hist[j].callbacks = <<>>
Over(j) == \/ hist[j].callbacks # <<>>
           \/ hist[j].outcome # "none" /\ ~CallbackWanted(j, hist[j].outcome)

StageOf(j) == CASE ~Created(j)    -> "new"
                [] hist[j].dropped -> "lost"
                [] Waiting(j)     -> "waiting"
                [] Running(j)     -> "running"
                [] Returned(j)    -> "returned"
                [] Over(j)        -> "over"
                [] OTHER          -> "lost"

\* No room: in the queue of its priority before a job ran, among the results after.
NoRoom(j) == /\ Created(j)
             /\ IF hist[j].outcome = "none"
                  THEN Len(queue[jobs[j].priority]) = QueueCapacity
                  ELSE \A i \in Slot : results[i] # NoResult

Contract == INSTANCE JobContract WITH stage <- [j \in Job |-> StageOf(j)],
                                      full <- {j \in Job : NoRoom(j)},
                                      up <- phase = "up" /\ ~crashed

\* No job is duplicated, lost or answered twice between the submitting thread,
\* the queues, the infos of the threads and the result entries, except where a
\* queue or the result list is full.
ImplementsContract == Contract!Spec

\* The info of a thread with a job changes only when its own thread has run the
\* job and resets it: an assignment is never overwritten by another submitter
\* or by process_queue, nor erased before the thread saw it.
AssignmentKept ==
  [][\A w \in Worker : info[w] # NoJob /\ info'[w] # info[w] =>
        info'[w] = NoJob /\ hist[info[w]].outcome # "none"]_vars

\* A stored result stays in its entry until its callback was called, whatever
\* job threads store while the main thread runs callbacks without the mutex.
ResultKept ==
  [][\A i \in Slot : results[i] # NoResult /\ results'[i] # results[i] =>
        results'[i] = NoResult /\ hist[results[i].job].callbacks # <<>>]_vars

\* Neither half of the hand-over loses what it was given.
NothingErased == AssignmentKept /\ ResultKept

\* Two jobs of a priority below high are handed to threads in the order in
\* which they were accepted, also when several threads submit: no job is
\* assigned while an older one of its priority waits in the queue.
Older(j, k) == \E m, n \in 1 .. Len(order) : m < n /\ order[m] = j /\ order[n] = k
HandedOutInOrder ==
  [][\A w \in Worker : LET k == info'[w] IN
        info[w] # k /\ k # NoJob /\ jobs[k].priority # "high" =>
          \A j \in Job : Older(j, k) /\ jobs[j].priority = jobs[k].priority => ~InQueue(j)']_vars

\* Each kind of job has a thread that takes its type.  job_system_init lets the
\* caller give masks for which this is false (H10: two job threads, none of them
\* for GPU resources).
Covered == \A kind \in JobKind : \E w \in Worker : kind.type \in TypeMask[w]

Accepted(j) == \E k \in 1 .. Len(order) : order[k] = j
Stopped == phase # "up" \/ crashed
RunInTheEnd(j) == Accepted(j) ~> hist[j].outcome # "none" \/ Stopped

\* Of finitely many jobs, each of a type that some thread takes, every accepted
\* one is run in the end unless the system is shut down, however the locks, the
\* busy threads and the queues of the others are met.  Job is finite: nothing is
\* said of a stream of jobs of high or normal priority that never ends, which
\* keeps the threads from one of low priority, as process_queue prefers it.
Served == Covered => \A j \in Job : RunInTheEnd(j)

\* The same without the condition on the masks, which the code does not have.
ServedByAnyThreads == \A j \in Job : RunInTheEnd(j)

\* Every result that found an entry is answered in the end, unless the system is
\* shut down.  One that found none is lost, as ImplementsContract says.
Answered == \A j \in Job : (\E i \in Slot : results[i].job = j)
                             ~> (hist[j].callbacks # <<>> \/ Stopped)

\* job_system.h:36 "The high-priority queue is always exhausted first before
\* processing the normal-priority queue": process_queue leaves it when no
\* thread takes the job at its head.
HighExhaustedFirst ==
  [][main.q = "high" /\ main'.q = "normal" => queue["high"] = <<>>]_vars

\* job_system.c:14 "A mutex to guard access to this thread's info.": while the
\* system is up, no thread gets at an info whose mutex is not created yet.
InfoMutexExists == phase = "up" => ~crashed
=============================================================================
