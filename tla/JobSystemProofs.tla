-------------------------- MODULE JobSystemProofs --------------------------
(***************************************************************************)
(* The invariant of the job system is inductive: one lemma per action, and *)
(* in it first what the step changes, then one step per conjunct.  Type    *)
(* correctness, RightThread and AnsweredOnce follow, for every number of   *)
(* job threads, masks, jobs and capacities.                                *)
(*                                                                         *)
(* The second half sorts the steps into those that leave every job where   *)
(* it is and the few that move one (NextCases), and proves from that the   *)
(* two action properties, NothingErased and HandedOutInOrder, and that the *)
(* job system implements JobContract.                                      *)
(***************************************************************************)
EXTENDS JobSystemInvariant, SequenceTheorems, TLAPS

\* The named parts of the invariant.
LEMMA Parts ==
  ASSUME IInv
  PROVE  /\ TypeOK /\ SubJob /\ SubOnce /\ SubCaller /\ SubTest
         /\ QueuedNew /\ QueuedNotInCall /\ QueuedOnce
         /\ InfoJob /\ InfoNotInCall /\ InfoNotQueued /\ InfoNew /\ InfoOnce
         /\ ThrJob /\ ThrLock /\ ThrEnd /\ ThrRun /\ ThrStore
         /\ MainUp /\ MainPeeked /\ MainThread /\ MainFree /\ MainSlot
         /\ ResultFree /\ ResultJob /\ ResultCalled /\ ResultOnce /\ HistInv
  BY DEF IInv, SubInv, QueueInv, InfoInv, ThrInv, MainInv, ResultInv

\* The main thread, the job threads and the two marks of a mutex are distinct.
LEMMA Threads == /\ Main \in Caller /\ Main \notin Worker /\ Worker \subseteq Caller
                 /\ Free \notin Caller /\ Absent \notin Caller /\ Free # Absent
                 /\ Free \in Mutex /\ Absent \in Mutex /\ Caller \subseteq Mutex
                 /\ Worker \subseteq Nat
  BY ThreadAssumption DEF Main, Caller, Worker, Free, Absent, Mutex

\* A step of job_thread_run moves its own thread and keeps its job.
LEMMA GoesAt ==
  ASSUME TypeOK, NEW w \in Worker, NEW from, NEW to, Goes(w, from, to)
  PROVE  /\ thr[w].pc = from /\ thr'[w].pc = to /\ thr'[w].job = thr[w].job
         /\ \A v \in Worker : v # w => thr'[v] = thr[v]
  BY DEF Goes, TypeOK, ThrState

\* A step of job_system_submit changes the call of its own thread.
LEMMA CallsAt ==
  ASSUME TypeOK, NEW c \in Caller, NEW pc, NEW j, NEW i, Calls(c, pc, j, i)
  PROVE  /\ sub'[c].pc = pc /\ sub'[c].job = j /\ sub'[c].i = i
         /\ \A d \in Caller : d # c => sub'[d] = sub[d]
  BY DEF Calls, TypeOK

\* The updates of the main thread keep its type.
LEMMA MainUpdate ==
  ASSUME main \in MainState, NEW pc \in MainPC, NEW q \in Priority,
         NEW j \in Job \cup {NoJob}, NEW i \in Nat, NEW s \in Nat
  PROVE  /\ [main EXCEPT !.pc = pc] \in MainState
         /\ [main EXCEPT !.pc = pc, !.q = q] \in MainState
         /\ [main EXCEPT !.pc = pc, !.slot = s] \in MainState
         /\ [main EXCEPT !.pc = pc, !.i = i] \in MainState
         /\ [main EXCEPT !.pc = pc, !.job = j, !.i = i] \in MainState
  BY DEF MainState

\* The updates of the history keep its type.
LEMMA HistUpdate ==
  ASSUME hist \in [Job -> JobHistory], NEW j \in Job, NEW r \in Outcome
  PROVE  /\ [hist EXCEPT ![j].starts = @ + 1] \in [Job -> JobHistory]
         /\ [hist EXCEPT ![j].outcome = r] \in [Job -> JobHistory]
         /\ [hist EXCEPT ![j].callbacks = Append(@, r)] \in [Job -> JobHistory]
         /\ [hist EXCEPT ![j].dropped = TRUE] \in [Job -> JobHistory]
  <1>1. /\ hist[j].starts + 1 \in Nat
        /\ Append(hist[j].callbacks, r) \in Seq(Outcome)
    BY AppendProperties DEF JobHistory
  <1>. QED
    BY <1>1 DEF JobHistory

\* The updates of a job thread keep its type.
LEMMA ThrUpdate ==
  ASSUME thr \in [Worker -> ThrState], NEW w \in Worker, NEW pc \in WorkerPC,
         NEW j \in Job \cup {NoJob}
  PROVE  /\ [thr EXCEPT ![w].pc = pc] \in [Worker -> ThrState]
         /\ [thr EXCEPT ![w] = [pc |-> pc, job |-> j]] \in [Worker -> ThrState]
  BY DEF ThrState

\* A step from one line of job_thread_run to another keeps the type.
LEMMA GoesType ==
  ASSUME thr \in [Worker -> ThrState], NEW w \in Worker, NEW from, NEW to \in WorkerPC,
         Goes(w, from, to)
  PROVE  thr' \in [Worker -> ThrState]
  BY ThrUpdate DEF Goes

\* A step of a call of job_system_submit keeps its type.
LEMMA SubUpdate ==
  ASSUME sub \in [Caller -> SubState], NEW c \in Caller, NEW pc \in SubmitPC,
         NEW j \in Job \cup {NoJob}, NEW i \in Nat, Calls(c, pc, j, i)
  PROVE  sub' \in [Caller -> SubState]
  BY DEF SubState, Calls

\* Going on to the next queue, or to the results, keeps the type.
LEMMA NextQueueType == ASSUME main \in MainState PROVE NextQueue \in MainState
  <1>1. main.q \in Priority
    BY DEF MainState
  <1>. QED
    BY <1>1, MainUpdate DEF NextQueue, MainPC, Priority

\* What the type invariant says of a call of job_system_submit,
LEMMA SubType ==
  ASSUME TypeOK
  PROVE  \A c \in Caller : sub[c].job \in Job \cup {NoJob} /\ sub[c].pc \in SubmitPC /\ sub[c].i \in Nat
  BY DEF TypeOK, SubState

\* of the queues,
LEMMA QueueType ==
  ASSUME TypeOK
  PROVE  \A p \in Priority : /\ queue[p] \in Seq(Job) /\ Len(queue[p]) \in Nat
                             /\ \A k \in 1 .. Len(queue[p]) : queue[p][k] \in Job
  BY DEF TypeOK

\* of a job thread and its info,
LEMMA ThrType ==
  ASSUME TypeOK
  PROVE  \A w \in Worker : info[w] \in Job \cup {NoJob} /\ thr[w].job \in Job \cup {NoJob} /\ thr[w].pc \in WorkerPC
  BY DEF TypeOK, ThrState

\* of the result entries,
LEMMA ResultType ==
  ASSUME TypeOK
  PROVE  \A i \in Slot : results[i].job \in Job \cup {NoJob} /\ results[i].outcome \in Outcome
  BY DEF TypeOK, ResultEntry

\* of the history of a job,
LEMMA HistType ==
  ASSUME TypeOK
  PROVE  \A j \in Job : /\ hist[j].starts \in Nat /\ hist[j].outcome \in Outcome
                        /\ hist[j].callbacks \in Seq(Outcome) /\ hist[j].dropped \in BOOLEAN
  BY DEF TypeOK, JobHistory

\* and of the main thread.
LEMMA MainType ==
  ASSUME TypeOK
  PROVE  /\ main.q \in Priority /\ main.job \in Job \cup {NoJob} /\ main.i \in Nat
         /\ main.slot \in Nat /\ main.pc \in MainPC
  BY DEF TypeOK, MainState

\* What ring_queue_enqueue does to a sequence: the old elements stay in place.
LEMMA AppendAt ==
  ASSUME NEW S, NEW s \in Seq(S), NEW x \in S
  PROVE  /\ Append(s, x) \in Seq(S) /\ Append(s, x) # <<>> /\ Len(s) \in Nat
         /\ Len(Append(s, x)) = Len(s) + 1 /\ Append(s, x)[Len(s) + 1] = x
         /\ \A k \in 1 .. Len(s) : Append(s, x)[k] = s[k]
         /\ s # <<>> => Head(Append(s, x)) = Head(s)
  BY AppendProperties, HeadTailProperties

\* To drop a job leaves the rest of its history alone.
LEMMA DroppedAt ==
  ASSUME hist \in [Job -> JobHistory], NEW j \in Job, hist' = [hist EXCEPT ![j].dropped = TRUE]
  PROVE  /\ hist' \in [Job -> JobHistory]
         /\ \A k \in Job : /\ hist'[k].starts = hist[k].starts /\ hist'[k].outcome = hist[k].outcome
                           /\ hist'[k].callbacks = hist[k].callbacks
  <1>1. hist' \in [Job -> JobHistory]
    BY HistUpdate DEF Outcome
  <1>2. \A k \in Job : /\ hist'[k].starts = hist[k].starts /\ hist'[k].outcome = hist[k].outcome
                       /\ hist'[k].callbacks = hist[k].callbacks
    BY DEF JobHistory
  <1>. QED
    BY <1>1, <1>2

\* To call a callback adds it to the history of one job.
LEMMA CalledAt ==
  ASSUME hist \in [Job -> JobHistory], NEW j \in Job, NEW r \in Outcome,
         hist' = [hist EXCEPT ![j].callbacks = Append(@, r)]
  PROVE  /\ hist' \in [Job -> JobHistory]
         /\ hist'[j].callbacks = Append(hist[j].callbacks, r)
         /\ \A k \in Job : /\ hist'[k].starts = hist[k].starts /\ hist'[k].outcome = hist[k].outcome
                           /\ k # j => hist'[k].callbacks = hist[k].callbacks
  <1>1. hist'[j] = [hist[j] EXCEPT !.callbacks = Append(@, r)]
    OBVIOUS
  <1>2. (\A k \in Job : k # j => hist'[k] = hist[k]) /\ hist[j] \in JobHistory
    OBVIOUS
  <1>3. /\ hist'[j].starts = hist[j].starts /\ hist'[j].outcome = hist[j].outcome
        /\ hist'[j].callbacks = Append(hist[j].callbacks, r)
    BY <1>1, <1>2 DEF JobHistory
  <1>4. hist' \in [Job -> JobHistory]
    BY HistUpdate
  <1>. QED
    BY <1>2, <1>3, <1>4

\* The history of every other job stays as it was.
LEMMA OtherHistory ==
  ASSUME hist \in [Job -> JobHistory], NEW j, NEW r,
         \/ hist' = hist
         \/ hist' = [hist EXCEPT ![j].callbacks = Append(@, r)]
  PROVE  \A k \in Job : k # j => hist'[k] = hist[k]
  OBVIOUS

\* A caller that looks at an info keeps what it knows, if nobody else unlocks it.
LEMMA SubTestKept ==
  ASSUME SubTest, jobs' = jobs,
         \A c \in Caller : sub'[c].pc = "test" =>
           /\ sub'[c] = sub[c] /\ infoLock'[sub[c].i] \in {infoLock[sub[c].i], Absent}
           /\ thr'[sub[c].i].pc # "start"
  PROVE  SubTest'
  BY DEF SubTest

\* job_create and the call of job_system_submit: a new job is nowhere else.
LEMMA SubmitCallStep ==
  ASSUME IInv, NEW c \in Caller, Executing(c), SubmitCall(c)
  PROVE  IInv'
  <1>1. UNCHANGED <<phase, info, queue, results, infoLock, main, thr, hist>>
    BY DEF SubmitCall, locks, history
  <1>2. PICK j \in Job, kind \in JobKind :
        /\ ~Created(j) /\ jobs' = [jobs EXCEPT ![j] = kind]
        /\ Calls(c, IF kind.priority = "high" THEN "scan" ELSE "queue", j, 0)
    BY DEF SubmitCall
  <1>3. /\ sub[c].pc = "none" /\ (c = Main => main.pc \in {"idle", "callback"})
        /\ sub'[c].pc \in {"scan", "queue"} /\ sub'[c].job = j /\ sub'[c].i = 0
        /\ \A y \in Caller : y # c => sub'[y] = sub[y]
    BY Parts, <1>2, CallsAt DEF SubmitCall, MaySubmit
  <1>4. /\ jobs'[j] = kind /\ kind \in JobInfo /\ kind # NoInfo /\ jobs[j] = NoInfo
        /\ \A y \in Job : y # j => jobs'[y] = jobs[y]
    BY Parts, <1>2, JobAssumption DEF TypeOK, Created, JobInfo, NoInfo, JobType
  <1>5. /\ hist[j].starts = 0 /\ hist[j].outcome = "none" /\ hist[j].callbacks = <<>>
        /\ \A d \in Caller : sub[d].job # j
        /\ \A w \in Worker : info[w] # j /\ thr[w].job # j
        /\ \A i \in Slot : results[i].job # j
        /\ \A p \in Priority : \A k \in 1 .. Len(queue[p]) : queue[p][k] # j
    <2>1. hist[j].starts = 0 /\ hist[j].outcome = "none" /\ hist[j].callbacks = <<>>
      BY Parts, <1>2 DEF HistInv
    <2>2. \A d \in Caller : sub[d].job # j
      BY Parts, <1>2, JobAssumption DEF SubJob
    <2>3. \A w \in Worker : info[w] # j
      BY Parts, <1>2, JobAssumption DEF InfoJob
    <2>4. \A w \in Worker : thr[w].job # j
      BY Parts, <1>2, <2>3, JobAssumption DEF ThrJob
    <2>5. \A i \in Slot : results[i].job # j
      BY Parts, <1>2, <2>1, JobAssumption DEF ResultJob
    <2>6. \A p \in Priority : \A k \in 1 .. Len(queue[p]) : queue[p][k] # j
      BY Parts, <1>2 DEF QueuedNew
    <2>. QED
      BY <2>1, <2>2, <2>3, <2>4, <2>5, <2>6
  <1>6. TypeOK'
    <2>1. jobs' \in [Job -> JobInfo \cup {NoInfo}]
      BY Parts, <1>2, JobAssumption DEF TypeOK
    <2>2. sub' \in [Caller -> SubState]
      BY Parts, SubUpdate DEF TypeOK, SubmitCall, SubmitPC
    <2>3. UNCHANGED <<queueLock, resultLock, crashed, order>>
      BY DEF SubmitCall, locks, history
    <2>. QED
      BY Parts, <1>1, <2>1, <2>2, <2>3 DEF TypeOK
  <1>7. SubInv'
    <2>1. SubJob'
      BY Parts, <1>1, <1>2, <1>3, <1>4, <1>5, Threads, JobAssumption DEF SubJob, Created
    <2>2. SubOnce'
      BY Parts, <1>1, <1>2, <1>3, <1>4, <1>5, Threads, JobAssumption DEF SubOnce
    <2>3. SubCaller'
      BY Parts, <1>1, <1>2, <1>3, <1>5, Threads, SubType, ThrType, MainType DEF SubCaller,
         Executing
    <2>4. SubTest'
      BY Parts, <1>1, <1>2, <1>3, <1>4, <1>5, Threads, JobAssumption DEF SubTest
    <2>. QED
      BY <2>1, <2>2, <2>3, <2>4 DEF SubInv
  <1>8. QueueInv'
    BY Parts, <1>1, <1>2, <1>3, <1>4, <1>5, Threads, JobAssumption DEF QueueInv,
       QueuedNew, Created, QueuedNotInCall, QueuedOnce
  <1>9. InfoInv'
    BY Parts, <1>1, <1>2, <1>3, <1>4, <1>5, Threads, JobAssumption DEF InfoInv, InfoJob,
       Created, InfoNotInCall, InfoNotQueued, InfoNew, InfoOnce
  <1>10. ThrInv'
    BY Parts, <1>1, <1>2, <1>3, <1>4, <1>5, Threads, JobAssumption DEF ThrInv, ThrJob,
       ThrLock, ThrEnd, ThrRun, ThrStore, CallbackWanted
  <1>11. MainInv'
    BY Parts, <1>1, <1>2, <1>3, <1>4, <1>5, Threads, JobAssumption, MainType DEF MainInv,
       MainUp, MainPeeked, MainThread, MainFree, MainSlot
  <1>12. ResultInv'
    BY Parts, <1>1, <1>2, <1>3, <1>4, <1>5, Threads, JobAssumption DEF ResultInv,
       ResultFree, ResultJob, CallbackWanted, ResultCalled, ResultOnce
  <1>13. HistInv'
    BY Parts, <1>1, <1>2, <1>3, <1>4, <1>5, Threads, JobAssumption DEF HistInv, Created,
       CallbackWanted
  <1>. QED
    BY <1>6, <1>7, <1>8, <1>9, <1>10, <1>11, <1>12, <1>13 DEF IInv

\* job_system_submit locks the info of a thread that takes the type of the job.
LEMMA SubmitLockInfoStep ==
  ASSUME IInv, NEW c \in Caller, SubmitLockInfo(c)
  PROVE  IInv'
  <1>1. UNCHANGED <<phase, info, queue, results, jobs, main, thr, hist>>
    BY DEF SubmitLockInfo, locks, history
  <1>2. PICK i \in Worker : /\ FirstCapable(jobs[sub[c].job].type, sub[c].i, i)
                          /\ LockInfo(i, c) /\ Calls(c, "test", sub[c].job, i)
    BY DEF SubmitLockInfo
  <1>3. /\ sub[c].pc = "scan" /\ sub'[c].pc = "test" /\ sub'[c].job = sub[c].job /\ sub'[c].i = i
        /\ \A y \in Caller : y # c => sub'[y] = sub[y]
    BY Parts, <1>2, CallsAt DEF SubmitLockInfo
  <1>4. /\ jobs[sub[c].job].type \in TypeMask[i] /\ infoLock[i] = Free /\ infoLock'[i] = c
        /\ \A y \in Worker : y # i => infoLock'[y] = infoLock[y]
    BY Parts, <1>2 DEF TypeOK, FirstCapable, LockInfo
  <1>5. TypeOK'
    <2>1. infoLock' \in [Worker -> Mutex]
      BY Parts, Threads DEF TypeOK, SubmitLockInfo, LockInfo
    <2>2. sub' \in [Caller -> SubState]
      BY Parts, <1>2, SubType, SubUpdate, Threads DEF TypeOK, SubmitPC
    <2>3. UNCHANGED <<queueLock, resultLock, crashed, order>>
      BY DEF SubmitLockInfo, locks, history
    <2>. QED
      BY Parts, <1>1, <2>1, <2>2, <2>3 DEF TypeOK
  <1>6. SubInv'
    BY Parts, <1>1, <1>2, <1>3, <1>4, Threads, JobAssumption, SubType, ThrType DEF SubInv,
       SubJob, Created, SubOnce, SubCaller, SubTest, ThrLock
  <1>7. QueueInv'
    BY Parts, <1>1, <1>2, <1>3, <1>4, Threads, JobAssumption DEF QueueInv, QueuedNew,
       Created, QueuedNotInCall, QueuedOnce
  <1>8. InfoInv'
    BY Parts, <1>1, <1>2, <1>3, <1>4, Threads, JobAssumption DEF InfoInv, InfoJob,
       Created, InfoNotInCall, InfoNotQueued, InfoNew, InfoOnce
  <1>9. ThrInv'
    BY Parts, <1>1, <1>2, <1>3, <1>4, Threads, JobAssumption DEF ThrInv, ThrJob, ThrLock,
       ThrEnd, ThrRun, ThrStore, CallbackWanted
  <1>10. MainInv'
    BY Parts, <1>1, <1>2, <1>3, <1>4, Threads, JobAssumption, MainType DEF MainInv,
       MainUp, MainPeeked, MainThread, MainFree, MainSlot
  <1>11. ResultInv' /\ HistInv'
    BY Parts, <1>1 DEF ResultInv, ResultFree, ResultJob, ResultCalled, ResultOnce,
       HistInv, CallbackWanted, Created
  <1>. QED
    BY <1>5, <1>6, <1>7, <1>8, <1>9, <1>10, <1>11 DEF IInv

\* job_system_submit gives its job to an idle thread, or goes on to the next.
LEMMA SubmitTestStep ==
  ASSUME IInv, NEW c \in Caller, Executing(c), SubmitTest(c)
  PROVE  IInv'
  <1>1. UNCHANGED <<phase, queue, results, jobs, main, thr, hist>>
    BY DEF SubmitTest, locks, history
  <1>2. /\ sub[c].pc = "test" /\ sub[c].job \in Job /\ sub[c].i \in Worker
        /\ infoLock[sub[c].i] \in {c, Absent}
    BY Parts DEF SubmitTest, SubJob, SubTest, TypeOK, SubState
  <1>3. /\ infoLock'[sub[c].i] = (IF infoLock[sub[c].i] = Absent THEN Absent ELSE Free)
        /\ \A y \in Worker : y # sub[c].i => infoLock'[y] = infoLock[y]
    BY Parts, <1>2 DEF TypeOK, SubmitTest, UnlockInfo, Released
  <1>4. \/ /\ info[sub[c].i] = NoJob /\ info'[sub[c].i] = sub[c].job
           /\ \A y \in Worker : y # sub[c].i => info'[y] = info[y]
           /\ sub'[c].pc = "none" /\ sub'[c].job = NoJob
           /\ \A y \in Caller : y # c => sub'[y] = sub[y]
        \/ /\ info' = info
           /\ sub'[c].pc = "scan" /\ sub'[c].job = sub[c].job
           /\ \A y \in Caller : y # c => sub'[y] = sub[y]
    BY Parts, <1>2, CallsAt DEF TypeOK, SubmitTest
  <1>5. TypeOK'
    <2>1. info' \in [Worker -> Job \cup {NoJob}]
      BY Parts, <1>2 DEF TypeOK, SubmitTest
    <2>2. infoLock' \in [Worker -> Mutex]
      BY Parts, Threads DEF TypeOK, SubmitTest, UnlockInfo, Released
    <2>3. sub' \in [Caller -> SubState]
      <3>1. sub[c].i \in Nat /\ sub[c].i + 1 \in Nat /\ sub \in [Caller -> SubState]
        BY Parts, SubType DEF TypeOK
      <3>2. Calls(c, "none", NoJob, sub[c].i) \/ Calls(c, "scan", sub[c].job, sub[c].i + 1)
        BY DEF SubmitTest
      <3>. QED
        BY <1>2, <3>1, <3>2, SubUpdate DEF SubmitPC
    <2>4. order' \in Seq(Job)
      <3>1. order \in Seq(Job)
        BY Parts DEF TypeOK
      <3>2. order' = order \/ order' = Append(order, sub[c].job)
        BY DEF SubmitTest
      <3>. QED
        BY <1>2, <3>1, <3>2, AppendAt
    <2>5. UNCHANGED <<queueLock, resultLock, crashed>>
      BY DEF SubmitTest, locks, history
    <2>. QED
      BY Parts, <1>1, <2>1, <2>2, <2>3, <2>4, <2>5 DEF TypeOK
  <1>6. SubInv'
    <2>1. SubJob'
      BY Parts, <1>1, <1>2, <1>3, <1>4, Threads, JobAssumption DEF SubJob, Created
    <2>2. SubOnce'
      BY Parts, <1>1, <1>2, <1>3, <1>4, Threads, JobAssumption DEF SubOnce
    <2>3. SubCaller'
      BY Parts, <1>1, <1>2, <1>3, <1>4, Threads, JobAssumption DEF SubCaller
    <2>4. SubTest'
      <3>1. ASSUME NEW d \in Caller, sub'[d].pc = "test"
            PROVE  /\ sub'[d] = sub[d] /\ infoLock'[sub[d].i] \in {infoLock[sub[d].i], Absent}
                   /\ thr'[sub[d].i].pc # "start"
        <4>1. /\ d # c /\ sub'[d] = sub[d] /\ sub[d].pc = "test" /\ sub[d].i \in Worker
              /\ infoLock[sub[d].i] \in {d, Absent} /\ thr[sub[d].i].pc # "start"
          BY Parts, <3>1, <1>4 DEF SubTest
        <4>2. /\ d = Main => main.pc \in {"idle", "callback"}
              /\ d \in Worker => thr[d].pc \in {"run", "dead"}
          BY Parts, <4>1 DEF SubCaller
        <4>. QED
          <5>1. CASE sub[d].i = sub[c].i
            BY <1>1, <1>2, <1>3, <4>1, <5>1, Threads
          <5>2. CASE sub[d].i # sub[c].i
            BY <1>1, <1>3, <4>1, <5>2
          <5>. QED
            BY <5>1, <5>2
      <3>. QED
        BY Parts, <1>1, <3>1, SubTestKept
    <2>. QED
      BY <2>1, <2>2, <2>3, <2>4 DEF SubInv
  <1>7. QueueInv'
    <2>1. QueuedNotInCall'
      BY Parts, <1>1, <1>2, <1>3, <1>4, Threads, JobAssumption, SubType, QueueType DEF
         QueuedNotInCall
    <2>2. QueuedNew' /\ QueuedOnce'
      BY Parts, <1>1 DEF QueuedNew, QueuedOnce, Created
    <2>. QED
      BY <2>1, <2>2 DEF QueueInv
  <1>8. InfoInv'
    <2>1. InfoJob'
      BY Parts, <1>1, <1>2, <1>3, <1>4, Threads, JobAssumption DEF InfoJob, SubJob,
         SubTest, Created
    <2>2. InfoNotInCall'
      BY Parts, <1>1, <1>2, <1>3, <1>4, Threads, JobAssumption DEF InfoNotInCall, SubOnce
    <2>3. InfoNotQueued'
      BY Parts, <1>1, <1>2, <1>3, <1>4, Threads, JobAssumption DEF InfoNotQueued,
         QueuedNotInCall
    <2>4. InfoNew'
      BY Parts, <1>1, <1>2, <1>3, <1>4, Threads, JobAssumption DEF InfoNew, SubJob,
         Created
    <2>5. InfoOnce'
      BY Parts, <1>1, <1>2, <1>3, <1>4, Threads, JobAssumption DEF InfoOnce, InfoNotInCall
    <2>. QED
      BY <2>1, <2>2, <2>3, <2>4, <2>5 DEF InfoInv
  <1>9. ThrInv'
    BY Parts, <1>1, <1>2, <1>3, <1>4, Threads, JobAssumption DEF ThrInv, ThrJob, ThrLock,
       SubTest, Executing, ThrEnd, ThrRun, ThrStore, CallbackWanted
  <1>10. MainInv'
    BY Parts, <1>1, <1>2, <1>3, <1>4, Threads, JobAssumption, MainType, ThrType DEF
       MainInv, MainUp, MainPeeked, MainThread, SubCaller, SubTest, MainFree, MainSlot
  <1>11. ResultInv' /\ HistInv'
    BY Parts, <1>1 DEF ResultInv, ResultFree, ResultJob, ResultCalled, ResultOnce,
       HistInv, CallbackWanted, Created
  <1>. QED
    BY <1>5, <1>6, <1>7, <1>8, <1>9, <1>10, <1>11 DEF IInv

\* job_system_submit found no idle thread.
LEMMA SubmitNoThreadStep ==
  ASSUME IInv, NEW c \in Caller, SubmitNoThread(c)
  PROVE  IInv'
  <1>1. UNCHANGED <<phase, info, queue, results, infoLock, jobs, main, thr, hist>>
    BY DEF SubmitNoThread, locks, history
  <1>2. /\ sub[c].pc = "scan" /\ sub'[c].pc = "queue" /\ sub'[c].job = sub[c].job
        /\ \A y \in Caller : y # c => sub'[y] = sub[y]
    BY Parts, CallsAt DEF SubmitNoThread
  <1>3. TypeOK'
    <2>1. sub' \in [Caller -> SubState]
      BY Parts, SubType, SubUpdate DEF TypeOK, SubmitNoThread, SubmitPC
    <2>2. UNCHANGED <<queueLock, resultLock, crashed, order>>
      BY DEF SubmitNoThread, locks, history
    <2>. QED
      BY Parts, <1>1, <2>1, <2>2 DEF TypeOK
  <1>4. SubInv'
    BY Parts, <1>1, <1>2, Threads, JobAssumption DEF SubInv, SubJob, Created, SubOnce,
       SubCaller, SubTest
  <1>5. QueueInv'
    <2>1. QueuedNotInCall'
      BY Parts, <1>1, <1>2, Threads, JobAssumption DEF QueuedNotInCall
    <2>2. QueuedNew' /\ QueuedOnce'
      BY Parts, <1>1 DEF QueuedNew, QueuedOnce, Created
    <2>. QED
      BY <2>1, <2>2 DEF QueueInv
  <1>6. InfoInv'
    BY Parts, <1>1, <1>2, Threads, JobAssumption DEF InfoInv, InfoJob, Created,
       InfoNotInCall, InfoNotQueued, InfoNew, InfoOnce
  <1>7. ThrInv' /\ MainInv' /\ ResultInv' /\ HistInv'
    BY Parts, <1>1 DEF ThrInv, ThrJob, ThrLock, ThrEnd, ThrRun, ThrStore, MainInv, MainUp,
       MainPeeked, MainThread, MainFree, MainSlot, ResultInv, ResultFree, ResultJob,
       ResultCalled, ResultOnce, HistInv, CallbackWanted, Created
  <1>. QED
    BY <1>3, <1>4, <1>5, <1>6, <1>7 DEF IInv

\* job_system_submit locks the queue of the priority of its job.
LEMMA SubmitLockQueueStep ==
  ASSUME IInv, NEW c \in Caller, SubmitLockQueue(c)
  PROVE  IInv'
  <1>1. UNCHANGED <<phase, info, queue, results, infoLock, jobs, main, thr, hist>>
    BY DEF SubmitLockQueue, locks, history
  <1>2. /\ sub[c].pc = "queue" /\ sub'[c].pc = "enqueue" /\ sub'[c].job = sub[c].job
        /\ \A y \in Caller : y # c => sub'[y] = sub[y]
    BY Parts, CallsAt DEF SubmitLockQueue
  <1>3. TypeOK'
    <2>1. queueLock' \in [Priority -> Mutex]
      BY Parts, Threads DEF TypeOK, SubmitLockQueue, LockQueue
    <2>2. sub' \in [Caller -> SubState]
      BY Parts, SubType, SubUpdate DEF TypeOK, SubmitLockQueue, SubmitPC
    <2>3. UNCHANGED <<resultLock, crashed, order>>
      BY DEF SubmitLockQueue, locks, history
    <2>. QED
      BY Parts, <1>1, <2>1, <2>2, <2>3 DEF TypeOK
  <1>4. SubInv'
    BY Parts, <1>1, <1>2, Threads, JobAssumption DEF SubInv, SubJob, Created, SubOnce,
       SubCaller, SubTest
  <1>5. QueueInv'
    <2>1. QueuedNew'
      BY Parts, <1>1, <1>2, Threads, JobAssumption DEF QueuedNew, Created
    <2>2. QueuedNotInCall'
      BY Parts, <1>1, <1>2, Threads, JobAssumption DEF QueuedNotInCall
    <2>3. QueuedOnce'
      BY Parts, <1>1, <1>2, Threads, JobAssumption DEF QueuedOnce
    <2>. QED
      BY <2>1, <2>2, <2>3 DEF QueueInv
  <1>6. InfoInv'
    BY Parts, <1>1, <1>2, Threads, JobAssumption DEF InfoInv, InfoJob, Created,
       InfoNotInCall, InfoNotQueued, InfoNew, InfoOnce
  <1>7. ThrInv' /\ MainInv' /\ ResultInv' /\ HistInv'
    BY Parts, <1>1 DEF ThrInv, ThrJob, ThrLock, ThrEnd, ThrRun, ThrStore, MainInv, MainUp,
       MainPeeked, MainThread, MainFree, MainSlot, ResultInv, ResultFree, ResultJob,
       ResultCalled, ResultOnce, HistInv, CallbackWanted, Created
  <1>. QED
    BY <1>3, <1>4, <1>5, <1>6, <1>7 DEF IInv

\* job_system_submit appends its job to the queue, or forgets it.
LEMMA SubmitEnqueueStep ==
  ASSUME IInv, NEW c \in Caller, SubmitEnqueue(c)
  PROVE  IInv'
  <1>1. UNCHANGED <<phase, info, results, infoLock, jobs, main, thr>>
    BY DEF SubmitEnqueue, locks, history
  <1>2. /\ sub[c].pc = "enqueue" /\ sub[c].job \in Job /\ Created(sub[c].job)
        /\ hist[sub[c].job].starts = 0
        /\ sub'[c].pc = "none" /\ sub'[c].job = NoJob
        /\ \A y \in Caller : y # c => sub'[y] = sub[y]
    BY Parts, CallsAt DEF SubmitEnqueue, SubJob, TypeOK, SubState
  <1>3. hist' = hist \/ hist' = [hist EXCEPT ![sub[c].job].dropped = TRUE]
    BY DEF SubmitEnqueue
  <1>4. \A k \in Job : /\ hist'[k].starts = hist[k].starts /\ hist'[k].outcome = hist[k].outcome
                        /\ hist'[k].callbacks = hist[k].callbacks
    <2>1. hist \in [Job -> JobHistory]
      BY Parts DEF TypeOK
    <2>. QED
      BY <1>2, <1>3, <2>1, DroppedAt
  <1>5. jobs[sub[c].job].priority \in Priority
    BY Parts, <1>2 DEF TypeOK, JobInfo, Created
  <1>6. \/ queue' = queue
        \/ queue' = [queue EXCEPT ![jobs[sub[c].job].priority] = Append(@, sub[c].job)]
    BY DEF SubmitEnqueue
  <1>7. \A p \in Priority : \/ queue'[p] = queue[p]
                             \/ /\ p = jobs[sub[c].job].priority
                                /\ queue'[p] = Append(queue[p], sub[c].job)
    BY Parts, <1>5, <1>6 DEF TypeOK
  <1>8. \A p \in Priority : queue[p] # <<>> => queue'[p] # <<>> /\ Head(queue'[p]) = Head(queue[p])
    BY Parts, <1>2, <1>7, AppendAt, QueueType
  <1>9. \A p \in Priority : \A k \in 1 .. Len(queue'[p]) :
             \/ k \in 1 .. Len(queue[p]) /\ queue'[p][k] = queue[p][k]
             \/ /\ p = jobs[sub[c].job].priority /\ k = Len(queue[p]) + 1
                /\ queue'[p][k] = sub[c].job
    BY Parts, <1>2, <1>7, AppendAt, QueueType
  <1>10. TypeOK'
    <2>1. queue' \in [Priority -> Seq(Job)]
      <3>1. queue \in [Priority -> Seq(Job)]
        BY Parts DEF TypeOK
      <3>2. Append(queue[jobs[sub[c].job].priority], sub[c].job) \in Seq(Job)
        BY <1>2, <1>5, <3>1, AppendAt
      <3>. QED
        BY <1>5, <1>6, <3>1, <3>2
    <2>2. queueLock' \in [Priority -> Mutex]
      BY Parts, Threads DEF TypeOK, SubmitEnqueue, UnlockQueue, Released
    <2>3. sub' \in [Caller -> SubState]
      <3>1. sub[c].i \in Nat /\ sub \in [Caller -> SubState]
        BY Parts, SubType DEF TypeOK
      <3>2. Calls(c, "none", NoJob, sub[c].i)
        BY DEF SubmitEnqueue
      <3>. QED
        BY <3>1, <3>2, SubUpdate DEF SubmitPC
    <2>4. hist' \in [Job -> JobHistory]
      BY Parts, <1>2, <1>3, DroppedAt DEF TypeOK
    <2>5. order' \in Seq(Job)
      <3>1. order \in Seq(Job)
        BY Parts DEF TypeOK
      <3>2. order' = order \/ order' = Append(order, sub[c].job)
        BY DEF SubmitEnqueue
      <3>. QED
        BY <1>2, <3>1, <3>2, AppendAt
    <2>6. UNCHANGED <<resultLock, crashed>>
      BY DEF SubmitEnqueue, locks, history
    <2>. QED
      BY Parts, <1>1, <2>1, <2>2, <2>3, <2>4, <2>5, <2>6 DEF TypeOK
  <1>11. SubInv'
    BY Parts, <1>1, <1>2, <1>3, <1>4, <1>5, SubType, HistType, Threads DEF SubInv, SubJob,
       Created, SubOnce, SubCaller, SubTest
  <1>12. QueueInv'
    <2>1. QueuedNew'
      BY Parts, <1>1, <1>2, <1>4, <1>9, QueueType DEF QueuedNew, Created
    <2>2. QueuedNotInCall'
      BY Parts, <1>2, <1>9, QueueType, JobAssumption DEF QueuedNotInCall, SubOnce
    <2>3. QueuedOnce'
      BY Parts, <1>2, <1>9 DEF QueuedOnce, QueuedNotInCall
    <2>. QED
      BY <2>1, <2>2, <2>3 DEF QueueInv
  <1>13. InfoInv'
    <2>1. InfoNotInCall'
      BY Parts, <1>1, <1>2, <1>5 DEF InfoNotInCall
    <2>2. InfoNotQueued'
      BY Parts, <1>1, <1>9 DEF InfoNotQueued, InfoNotInCall
    <2>3. InfoNew'
      BY Parts, <1>1, <1>3, <1>4, ThrType, HistType DEF InfoNew
    <2>4. InfoJob' /\ InfoOnce'
      BY Parts, <1>1 DEF InfoJob, InfoOnce, Created
    <2>. QED
      BY <2>1, <2>2, <2>3, <2>4 DEF InfoInv
  <1>14. ThrInv'
    BY Parts, <1>1, <1>4, ThrType, SMTT(30) DEF ThrInv, ThrJob, ThrLock, ThrEnd, ThrRun, ThrStore,
       CallbackWanted
  <1>15. MainInv'
    BY Parts, <1>1, <1>6, <1>7, <1>8, <1>9, QueueType, MainType DEF MainInv, MainUp,
       MainPeeked, MainThread, MainFree, MainSlot
  <1>16. ResultInv'
    BY Parts, <1>1, <1>3, <1>4, <1>5, ResultType, HistType, MainType DEF ResultInv,
       ResultFree, ResultJob, CallbackWanted, ResultCalled, ResultOnce
  <1>17. HistInv'
    BY Parts, <1>1, <1>3, <1>4, <1>5 DEF HistInv, Created, CallbackWanted
  <1>. QED
    BY <1>10, <1>11, <1>12, <1>13, <1>14, <1>15, <1>16, <1>17 DEF IInv

\* job_system_update begins.
LEMMA UpdateCallStep ==
  ASSUME IInv, UpdateCall
  PROVE  IInv'
  <1>1. UNCHANGED <<phase, info, queue, results, infoLock, jobs, sub, thr, hist>>
    BY DEF UpdateCall, locks, history
  <1>2. TypeOK'
    <2>1. main' \in MainState
      BY Parts, MainUpdate DEF TypeOK, UpdateCall, MainPC, Priority
    <2>2. UNCHANGED <<queueLock, resultLock, crashed, order>>
      BY DEF UpdateCall, locks, history
    <2>. QED
      BY Parts, <1>1, <2>1, <2>2 DEF TypeOK
  <1>3. SubInv'
    BY Parts, <1>1, Threads, JobAssumption DEF SubInv, SubJob, Created, SubOnce,
       SubCaller, UpdateCall, TypeOK, MainState, SubTest
  <1>4. MainInv'
    BY Parts, <1>1, Threads, JobAssumption DEF MainInv, MainUp, UpdateCall, TypeOK,
       MainState, MainPeeked, MainThread, MainFree, MainSlot
  <1>5. ResultInv'
    BY Parts, <1>1, Threads, JobAssumption DEF ResultInv, ResultFree, ResultJob,
       CallbackWanted, ResultCalled, UpdateCall, TypeOK, MainState, ResultOnce
  <1>6. QueueInv' /\ InfoInv' /\ ThrInv' /\ HistInv'
    BY Parts, <1>1 DEF QueueInv, QueuedNew, QueuedNotInCall, QueuedOnce, InfoInv, InfoJob,
       InfoNotInCall, InfoNotQueued, InfoNew, InfoOnce, ThrInv, ThrJob, ThrLock, ThrEnd,
       ThrRun, ThrStore, HistInv, CallbackWanted, Created
  <1>. QED
    BY <1>2, <1>3, <1>4, <1>5, <1>6 DEF IInv

\* process_queue reads the head of a queue, or goes on to the next queue.
LEMMA PeekStep ==
  ASSUME IInv, Peek
  PROVE  IInv'
  <1>1. UNCHANGED <<phase, info, queue, results, infoLock, jobs, sub, thr, hist>>
    BY DEF Peek, locks, history
  <1>2. TypeOK'
    <2>1. main' \in MainState
      <3>1. CASE queue[main.q] # <<>>
        <4>1. Head(queue[main.q]) \in Job
          BY Parts, <3>1, QueueType, MainType, HeadTailProperties
        <4>2. main' = [main EXCEPT !.pc = "find", !.job = Head(queue[main.q]), !.i = 0]
          BY <3>1 DEF Peek
        <4>. QED
          BY Parts, <4>1, <4>2 DEF TypeOK, MainState, MainPC
      <3>2. CASE queue[main.q] = <<>>
        BY Parts, <3>2, NextQueueType DEF TypeOK, Peek
      <3>. QED
        BY <3>1, <3>2
    <2>2. UNCHANGED <<queueLock, resultLock, crashed, order>>
      BY DEF Peek, locks, history
    <2>. QED
      BY Parts, <1>1, <2>1, <2>2 DEF TypeOK
  <1>3. SubInv'
    BY Parts, <1>1, Threads, JobAssumption DEF SubInv, SubJob, Created, SubOnce,
       SubCaller, Peek, NextQueue, TypeOK, MainState, SubTest
  <1>4. MainInv'
    BY Parts, <1>1, Threads, JobAssumption DEF MainInv, MainUp, Peek, NextQueue, TypeOK,
       MainState, MainPeeked, MainThread, MainFree, MainSlot
  <1>5. ResultInv'
    BY Parts, <1>1, Threads, JobAssumption DEF ResultInv, ResultFree, ResultJob,
       CallbackWanted, ResultCalled, Peek, NextQueue, TypeOK, MainState, ResultOnce
  <1>6. QueueInv' /\ InfoInv' /\ ThrInv' /\ HistInv'
    BY Parts, <1>1 DEF QueueInv, QueuedNew, QueuedNotInCall, QueuedOnce, InfoInv, InfoJob,
       InfoNotInCall, InfoNotQueued, InfoNew, InfoOnce, ThrInv, ThrJob, ThrLock, ThrEnd,
       ThrRun, ThrStore, HistInv, CallbackWanted, Created
  <1>. QED
    BY <1>2, <1>3, <1>4, <1>5, <1>6 DEF IInv

\* process_queue locks the info of a thread that takes the type of the head.
LEMMA FindLockInfoStep ==
  ASSUME IInv, FindLockInfo
  PROVE  IInv'
  <1>1. UNCHANGED <<phase, info, queue, results, jobs, sub, thr, hist>>
    BY DEF FindLockInfo, locks, history
  <1>2. TypeOK'
    <2>1. infoLock' \in [Worker -> Mutex]
      BY Parts, Threads DEF TypeOK, FindLockInfo, LockInfo
    <2>2. main' \in MainState
      <3>1. \E i \in Worker : main' = [main EXCEPT !.pc = "test", !.i = i]
        BY DEF FindLockInfo
      <3>2. main \in MainState
        BY Parts DEF TypeOK
      <3>. QED
        BY <3>1, <3>2, Threads DEF MainState, MainPC
    <2>3. UNCHANGED <<queueLock, resultLock, crashed, order>>
      BY DEF FindLockInfo, locks, history
    <2>. QED
      BY Parts, <1>1, <2>1, <2>2, <2>3 DEF TypeOK
  <1>3. SubInv'
    BY Parts, <1>1, Threads, JobAssumption DEF SubInv, SubJob, Created, SubOnce,
       SubCaller, FindLockInfo, FirstCapable, LockInfo, TypeOK, MainState, SubTest
  <1>4. ThrInv'
    BY Parts, <1>1, Threads, JobAssumption DEF ThrInv, ThrJob, ThrLock, FindLockInfo,
       FirstCapable, LockInfo, TypeOK, MainState, ThrEnd, ThrRun, ThrStore, CallbackWanted
  <1>5. MainInv'
    BY Parts, <1>1, Threads, JobAssumption DEF MainInv, MainUp, FindLockInfo,
       FirstCapable, LockInfo, TypeOK, MainState, MainPeeked, MainThread, MainFree,
       MainSlot
  <1>6. ResultInv'
    BY Parts, <1>1, Threads, JobAssumption DEF ResultInv, ResultFree, ResultJob,
       CallbackWanted, ResultCalled, FindLockInfo, FirstCapable, LockInfo, TypeOK,
       MainState, ResultOnce
  <1>7. QueueInv' /\ InfoInv' /\ HistInv'
    BY Parts, <1>1 DEF QueueInv, QueuedNew, QueuedNotInCall, QueuedOnce, InfoInv, InfoJob,
       InfoNotInCall, InfoNotQueued, InfoNew, InfoOnce, HistInv, CallbackWanted, Created
  <1>. QED
    BY <1>2, <1>3, <1>4, <1>5, <1>6, <1>7 DEF IInv

\* process_queue unlocks the info of a thread that has a job.
LEMMA FindBusyStep ==
  ASSUME IInv, FindBusy
  PROVE  IInv'
  <1>1. UNCHANGED <<phase, info, queue, results, jobs, sub, thr, hist>>
    BY DEF FindBusy, locks, history
  <1>2. /\ main.i \in Worker /\ infoLock[main.i] = Main /\ infoLock'[main.i] = Free
        /\ \A y \in Worker : y # main.i => infoLock'[y] = infoLock[y]
    BY Parts, Threads DEF FindBusy, UnlockInfo, Released, MainThread, TypeOK
  <1>3. /\ main.pc = "test" /\ main'.pc = "find" /\ main'.q = main.q /\ main'.job = main.job /\ main'.slot = main.slot
    BY Parts DEF FindBusy, TypeOK, MainState
  <1>4. TypeOK'
    <2>1. infoLock' \in [Worker -> Mutex]
      BY Parts, Threads DEF TypeOK, FindBusy, UnlockInfo, Released
    <2>2. main' \in MainState
      <3>1. main \in MainState /\ main.i + 1 \in Nat /\ main.slot + 1 \in Nat
        BY Parts, MainType DEF TypeOK
      <3>2. main' = [main EXCEPT !.pc = "find", !.i = main.i + 1]
        BY DEF FindBusy
      <3>. QED
        BY <3>1, <3>2 DEF MainState, MainPC
    <2>3. UNCHANGED <<queueLock, resultLock, crashed, order>>
      BY DEF FindBusy, locks, history
    <2>. QED
      BY Parts, <1>1, <2>1, <2>2, <2>3 DEF TypeOK
  <1>5. SubInv'
    <2>1. SubCaller'
      BY Parts, <1>1, <1>2, <1>3, Threads DEF SubCaller
    <2>2. SubTest'
      <3>1. ASSUME NEW d \in Caller, sub'[d].pc = "test"
            PROVE  /\ sub'[d] = sub[d] /\ infoLock'[sub[d].i] \in {infoLock[sub[d].i], Absent}
                   /\ thr'[sub[d].i].pc # "start"
        <4>1. /\ sub'[d] = sub[d] /\ sub[d].pc = "test" /\ sub[d].i \in Worker
              /\ infoLock[sub[d].i] \in {d, Absent} /\ thr[sub[d].i].pc # "start"
          BY Parts, <3>1, <1>1 DEF SubTest
        <4>2. /\ d = Main => main.pc \in {"idle", "callback"}
              /\ d \in Worker => thr[d].pc \in {"run", "dead"}
          BY Parts, <4>1 DEF SubCaller
        <4>. QED
          BY <4>1, <4>2, <1>1, <1>2, <1>3, Threads
      <3>. QED
        BY Parts, <1>1, <3>1, SubTestKept
    <2>3. SubJob' /\ SubOnce'
      BY Parts, <1>1 DEF SubJob, SubOnce, Created
    <2>. QED
      BY <2>1, <2>2, <2>3 DEF SubInv
  <1>6. ThrInv'
    BY Parts, <1>1, <1>2, <1>3, Threads, JobAssumption DEF ThrInv, ThrJob, ThrLock,
       ThrEnd, ThrRun, ThrStore, CallbackWanted
  <1>7. MainInv'
    BY Parts, <1>1, <1>2, <1>3, Threads, JobAssumption DEF MainInv, MainUp, MainPeeked,
       MainThread, MainFree, MainSlot
  <1>8. ResultInv'
    BY Parts, <1>1, <1>2, <1>3, Threads, JobAssumption DEF ResultInv, ResultFree,
       ResultJob, CallbackWanted, ResultCalled, ResultOnce
  <1>9. QueueInv' /\ InfoInv' /\ HistInv'
    BY Parts, <1>1 DEF QueueInv, QueuedNew, QueuedNotInCall, QueuedOnce, InfoInv, InfoJob,
       InfoNotInCall, InfoNotQueued, InfoNew, InfoOnce, HistInv, CallbackWanted, Created
  <1>. QED
    BY <1>4, <1>5, <1>6, <1>7, <1>8, <1>9 DEF IInv

\* process_queue leaves a queue whose head no thread can take.
LEMMA FindNoneStep ==
  ASSUME IInv, FindNone
  PROVE  IInv'
  <1>1. UNCHANGED <<phase, info, queue, results, infoLock, jobs, sub, thr, hist>>
    BY DEF FindNone, locks, history
  <1>2. TypeOK'
    <2>1. main' \in MainState
      BY Parts, NextQueueType DEF TypeOK, FindNone
    <2>2. UNCHANGED <<queueLock, resultLock, crashed, order>>
      BY DEF FindNone, locks, history
    <2>. QED
      BY Parts, <1>1, <2>1, <2>2 DEF TypeOK
  <1>3. SubInv'
    BY Parts, <1>1, Threads, JobAssumption DEF SubInv, SubJob, Created, SubOnce,
       SubCaller, FindNone, NextQueue, TypeOK, MainState, SubTest
  <1>4. MainInv'
    BY Parts, <1>1, Threads, JobAssumption DEF MainInv, MainUp, FindNone, NextQueue,
       TypeOK, MainState, MainPeeked, MainThread, MainFree, MainSlot
  <1>5. ResultInv'
    BY Parts, <1>1, Threads, JobAssumption DEF ResultInv, ResultFree, ResultJob,
       CallbackWanted, ResultCalled, FindNone, NextQueue, TypeOK, MainState, ResultOnce
  <1>6. QueueInv' /\ InfoInv' /\ ThrInv' /\ HistInv'
    BY Parts, <1>1 DEF QueueInv, QueuedNew, QueuedNotInCall, QueuedOnce, InfoInv, InfoJob,
       InfoNotInCall, InfoNotQueued, InfoNew, InfoOnce, ThrInv, ThrJob, ThrLock, ThrEnd,
       ThrRun, ThrStore, HistInv, CallbackWanted, Created
  <1>. QED
    BY <1>2, <1>3, <1>4, <1>5, <1>6 DEF IInv

\* process_queue locks the queue, under the mutex of an idle thread.
LEMMA FindLockQueueStep ==
  ASSUME IInv, FindLockQueue
  PROVE  IInv'
  <1>1. UNCHANGED <<phase, info, queue, results, infoLock, jobs, sub, thr, hist>>
    BY DEF FindLockQueue, locks, history
  <1>2. TypeOK'
    <2>1. queueLock' \in [Priority -> Mutex]
      BY Parts, Threads DEF TypeOK, FindLockQueue, LockQueue
    <2>2. main' \in MainState
      BY Parts, MainUpdate DEF TypeOK, FindLockQueue, MainPC, Priority
    <2>3. UNCHANGED <<resultLock, crashed, order>>
      BY DEF FindLockQueue, locks, history
    <2>. QED
      BY Parts, <1>1, <2>1, <2>2, <2>3 DEF TypeOK
  <1>3. SubInv'
    BY Parts, <1>1, Threads, JobAssumption DEF SubInv, SubJob, Created, SubOnce,
       SubCaller, FindLockQueue, LockQueue, TypeOK, MainState, SubTest
  <1>4. MainInv'
    BY Parts, <1>1, Threads, JobAssumption DEF MainInv, MainUp, FindLockQueue, LockQueue,
       TypeOK, MainState, MainPeeked, MainThread, MainFree, MainSlot
  <1>5. ResultInv'
    BY Parts, <1>1, Threads, JobAssumption DEF ResultInv, ResultFree, ResultJob,
       CallbackWanted, ResultCalled, FindLockQueue, LockQueue, TypeOK, MainState,
       ResultOnce
  <1>6. QueueInv' /\ InfoInv' /\ ThrInv' /\ HistInv'
    BY Parts, <1>1 DEF QueueInv, QueuedNew, QueuedNotInCall, QueuedOnce, InfoInv, InfoJob,
       InfoNotInCall, InfoNotQueued, InfoNew, InfoOnce, ThrInv, ThrJob, ThrLock, ThrEnd,
       ThrRun, ThrStore, HistInv, CallbackWanted, Created
  <1>. QED
    BY <1>2, <1>3, <1>4, <1>5, <1>6 DEF IInv

\* process_queue dequeues the job it peeked and gives it to the idle thread.
LEMMA AssignStep ==
  ASSUME IInv, Assign
  PROVE  IInv'
  <1>1. UNCHANGED <<phase, results, jobs, sub, thr, hist>>
    BY DEF Assign, locks, history
  <1>2. /\ main.pc = "assign" /\ main.q \in Priority /\ main.i \in Worker
        /\ queue[main.q] \in Seq(Job) /\ queue[main.q] # <<>> /\ main.job = queue[main.q][1]
        /\ main.job \in Job /\ infoLock[main.i] = Main /\ info[main.i] = NoJob
    BY Parts, HeadTailProperties DEF Assign, MainPeeked, MainThread, MainFree, TypeOK,
       MainState
  <1>3. /\ main'.pc = "peek" /\ main'.q = main.q /\ main'.job = main.job /\ main'.i = main.i
        /\ main'.slot = main.slot
    BY Parts DEF Assign, TypeOK, MainState
  <1>4. /\ infoLock'[main.i] = Free
        /\ \A y \in Worker : y # main.i => infoLock'[y] = infoLock[y]
    BY Parts, <1>2, Threads DEF Assign, UnlockInfo, Released, TypeOK
  <1>5. /\ info'[main.i] = main.job
        /\ \A y \in Worker : y # main.i => info'[y] = info[y]
    BY Parts, <1>2, HeadTailProperties DEF Assign, TypeOK, MainPeeked
  <1>6. /\ queue'[main.q] = Tail(queue[main.q])
        /\ \A y \in Priority : y # main.q => queue'[y] = queue[y]
    BY Parts, <1>2 DEF Assign, TypeOK
  <1>7. /\ Len(queue'[main.q]) = Len(queue[main.q]) - 1 /\ Len(queue[main.q]) \in Nat \ {0}
        /\ \A k \in 1 .. Len(queue'[main.q]) :
             k + 1 \in 1 .. Len(queue[main.q]) /\ queue'[main.q][k] = queue[main.q][k + 1]
    BY <1>2, <1>6, HeadTailProperties
  <1>8. \A p \in Priority : \A k \in 1 .. Len(queue'[p]) :
             \E m \in 1 .. Len(queue[p]) : /\ queue'[p][k] = queue[p][m]
                                           /\ p = main.q => m = k + 1
                                           /\ p # main.q => m = k
    <2> TAKE p \in Priority
    <2> TAKE k \in 1 .. Len(queue'[p])
    <2>1. CASE p = main.q
      BY <1>7, <2>1
    <2>2. CASE p # main.q
      BY <1>6, <2>2
    <2>. QED
      BY <2>1, <2>2
  <1>9. 1 \in 1 .. Len(queue[main.q]) /\ \A k \in 1 .. Len(queue'[main.q]) : k + 1 # 1
    BY <1>7
  <1>10. TypeOK'
    <2>1. info' \in [Worker -> Job \cup {NoJob}]
      <3>1. Head(queue[main.q]) \in Job
        BY <1>2, HeadTailProperties
      <3>2. info' = [info EXCEPT ![main.i] = Head(queue[main.q])]
        BY <1>2 DEF Assign
      <3>. QED
        BY Parts, <1>2, <3>1, <3>2 DEF TypeOK
    <2>2. queue' \in [Priority -> Seq(Job)]
      <3>1. queue' = [queue EXCEPT ![main.q] = Tail(@)]
        BY <1>2 DEF Assign
      <3>2. Tail(queue[main.q]) \in Seq(Job)
        BY <1>2, HeadTailProperties
      <3>. QED
        BY Parts, <3>1, <3>2 DEF TypeOK
    <2>3. infoLock' \in [Worker -> Mutex]
      BY Parts, Threads DEF TypeOK, Assign, UnlockQueue, UnlockInfo, Released
    <2>4. queueLock' \in [Priority -> Mutex]
      BY Parts, Threads DEF TypeOK, Assign, UnlockQueue, UnlockInfo, Released
    <2>5. main' \in MainState
      BY Parts, MainUpdate DEF TypeOK, Assign, MainPC, Priority
    <2>6. UNCHANGED <<resultLock, crashed, order>>
      BY DEF Assign, locks, history
    <2>. QED
      BY Parts, <1>1, <2>1, <2>2, <2>3, <2>4, <2>5, <2>6 DEF TypeOK
  <1>11. SubInv'
    <2>1. SubCaller'
      BY Parts, <1>1, <1>2 DEF SubCaller
    <2>2. SubTest'
      <3>1. ASSUME NEW d \in Caller, sub'[d].pc = "test"
            PROVE  /\ sub'[d] = sub[d] /\ infoLock'[sub[d].i] \in {infoLock[sub[d].i], Absent}
                   /\ thr'[sub[d].i].pc # "start"
        <4>1. /\ sub'[d] = sub[d] /\ sub[d].pc = "test" /\ sub[d].i \in Worker
              /\ infoLock[sub[d].i] \in {d, Absent} /\ thr[sub[d].i].pc # "start"
          BY Parts, <3>1, <1>1 DEF SubTest
        <4>2. /\ d = Main => main.pc \in {"idle", "callback"}
              /\ d \in Worker => thr[d].pc \in {"run", "dead"}
          BY Parts, <4>1 DEF SubCaller
        <4>. QED
          BY <4>1, <4>2, <1>1, <1>2, <1>4, Threads
      <3>. QED
        BY Parts, <1>1, <3>1, SubTestKept
    <2>3. SubJob' /\ SubOnce'
      BY Parts, <1>1 DEF SubJob, SubOnce, Created
    <2>. QED
      BY <2>1, <2>2, <2>3 DEF SubInv
  <1>12. QueueInv'
    <2>1. QueuedNew'
      BY Parts, <1>1, <1>8 DEF QueuedNew, Created
    <2>2. QueuedNotInCall'
      BY Parts, <1>1, <1>8 DEF QueuedNotInCall
    <2>3. QueuedOnce'
      BY Parts, <1>8 DEF QueuedOnce
    <2>. QED
      BY <2>1, <2>2, <2>3 DEF QueueInv
  <1>13. InfoInv'
    <2>1. InfoJob'
      BY Parts, <1>1, <1>2, <1>5, <1>9 DEF InfoJob, QueuedNew, MainThread, Created
    <2>2. InfoNotInCall'
      BY Parts, <1>1, <1>2, <1>5, <1>9 DEF InfoNotInCall, QueuedNotInCall
    <2>3. InfoNotQueued'
      <3>1. \A p \in Priority : \A k \in 1 .. Len(queue'[p]) : queue'[p][k] # main.job
        BY Parts, <1>2, <1>8, <1>9 DEF QueuedOnce
      <3>. QED
        BY Parts, <1>5, <1>8, <3>1 DEF InfoNotQueued
    <2>4. InfoNew'
      BY Parts, <1>1, <1>2, <1>5, <1>9 DEF InfoNew, QueuedNew
    <2>5. InfoOnce'
      BY Parts, <1>2, <1>5, <1>9 DEF InfoOnce, InfoNotQueued
    <2>. QED
      BY <2>1, <2>2, <2>3, <2>4, <2>5 DEF InfoInv
  <1>14. ThrInv'
    BY Parts, <1>1, <1>2, <1>4, <1>5, Threads
       DEF ThrInv, ThrJob, ThrLock, ThrEnd, ThrRun, ThrStore, CallbackWanted
  <1>15. MainInv'
    BY Parts, <1>1, <1>2, <1>3
       DEF MainInv, MainUp, MainPeeked, MainThread, MainFree, MainSlot
  <1>16. ResultInv'
    BY Parts, <1>1, <1>2
       DEF ResultInv, ResultFree, ResultJob, CallbackWanted, ResultCalled, ResultOnce
  <1>17. HistInv'
    BY Parts, <1>1 DEF HistInv, CallbackWanted, Created
  <1>. QED
    BY <1>10, <1>11, <1>12, <1>13, <1>14, <1>15, <1>16, <1>17 DEF IInv

\* job_system_update locks the results.
LEMMA ResultLockStep ==
  ASSUME IInv, ResultLock
  PROVE  IInv'
  <1>1. UNCHANGED <<phase, info, queue, results, infoLock, jobs, sub, thr, hist>>
    BY DEF ResultLock, locks, history
  <1>2. TypeOK'
    <2>1. resultLock' \in Mutex
      BY Parts, Threads DEF TypeOK, ResultLock, LockResult
    <2>2. main' \in MainState
      BY Parts, MainUpdate DEF TypeOK, ResultLock, MainPC, Priority
    <2>3. UNCHANGED <<queueLock, crashed, order>>
      BY DEF ResultLock, locks, history
    <2>. QED
      BY Parts, <1>1, <2>1, <2>2, <2>3 DEF TypeOK
  <1>3. SubInv'
    BY Parts, <1>1, Threads, JobAssumption DEF SubInv, SubJob, Created, SubOnce,
       SubCaller, ResultLock, LockResult, TypeOK, MainState, SubTest
  <1>4. MainInv'
    BY Parts, <1>1, Threads, JobAssumption, MainType, BoundAssumption DEF MainInv, MainUp,
       ResultLock, LockResult, TypeOK, MainState, MainPeeked, MainThread, MainFree,
       MainSlot, Slot
  <1>5. ResultInv'
    BY Parts, <1>1, Threads, JobAssumption DEF ResultInv, ResultFree, ResultJob,
       CallbackWanted, ResultCalled, ResultLock, LockResult, TypeOK, MainState, ResultOnce
  <1>6. QueueInv' /\ InfoInv' /\ ThrInv' /\ HistInv'
    BY Parts, <1>1 DEF QueueInv, QueuedNew, QueuedNotInCall, QueuedOnce, InfoInv, InfoJob,
       InfoNotInCall, InfoNotQueued, InfoNew, InfoOnce, ThrInv, ThrJob, ThrLock, ThrEnd,
       ThrRun, ThrStore, HistInv, CallbackWanted, Created
  <1>. QED
    BY <1>2, <1>3, <1>4, <1>5, <1>6 DEF IInv

\* job_system_update returns.
LEMMA UpdateReturnStep ==
  ASSUME IInv, UpdateReturn
  PROVE  IInv'
  <1>1. UNCHANGED <<phase, info, queue, results, infoLock, jobs, sub, thr, hist>>
    BY DEF UpdateReturn, locks, history
  <1>2. TypeOK'
    <2>1. main' \in MainState
      BY Parts, MainUpdate DEF TypeOK, UpdateReturn, MainPC, Priority
    <2>2. UNCHANGED <<queueLock, resultLock, crashed, order>>
      BY DEF UpdateReturn, locks, history
    <2>. QED
      BY Parts, <1>1, <2>1, <2>2 DEF TypeOK
  <1>3. SubInv'
    BY Parts, <1>1, Threads, JobAssumption DEF SubInv, SubJob, Created, SubOnce,
       SubCaller, UpdateReturn, TypeOK, MainState, SubTest
  <1>4. MainInv'
    BY Parts, <1>1, Threads, JobAssumption DEF MainInv, MainUp, UpdateReturn, TypeOK,
       MainState, MainPeeked, MainThread, MainFree, MainSlot
  <1>5. ResultInv'
    BY Parts, <1>1, Threads, JobAssumption DEF ResultInv, ResultFree, ResultJob,
       CallbackWanted, ResultCalled, UpdateReturn, TypeOK, MainState, ResultOnce
  <1>6. QueueInv' /\ InfoInv' /\ ThrInv' /\ HistInv'
    BY Parts, <1>1 DEF QueueInv, QueuedNew, QueuedNotInCall, QueuedOnce, InfoInv, InfoJob,
       InfoNotInCall, InfoNotQueued, InfoNew, InfoOnce, ThrInv, ThrJob, ThrLock, ThrEnd,
       ThrRun, ThrStore, HistInv, CallbackWanted, Created
  <1>. QED
    BY <1>2, <1>3, <1>4, <1>5, <1>6 DEF IInv

\* job_system_update copies an entry and calls its callback.
LEMMA ResultCopyStep ==
  ASSUME IInv, ResultCopy
  PROVE  IInv'
  <1>1. UNCHANGED <<phase, info, queue, results, infoLock, jobs, sub, thr>>
    BY DEF ResultCopy, locks, history
  <1>2. /\ main.pc = "copy" /\ main.slot \in Slot /\ main.slot \in Nat
    BY Parts, MainType DEF ResultCopy, MainSlot
  <1>3. \/ /\ main' = [main EXCEPT !.pc = "result", !.slot = main.slot + 1] /\ hist' = hist
           /\ results[main.slot] = NoResult
        \/ /\ main' = [main EXCEPT !.pc = "callback"] /\ results[main.slot] # NoResult
           /\ hist' = [hist EXCEPT ![results[main.slot].job].callbacks
                                      = Append(@, results[main.slot].outcome)]
    BY DEF ResultCopy
  <1>4. /\ main'.q = main.q /\ main'.job = main.job /\ main'.i = main.i
        /\ main'.pc \in {"result", "callback"}
        /\ main'.pc = "callback" => main'.slot = main.slot
    <2>1. main \in MainState
      BY Parts DEF TypeOK
    <2>2. CASE main' = [main EXCEPT !.pc = "result", !.slot = main.slot + 1]
      BY <2>1, <2>2 DEF MainState
    <2>3. CASE main' = [main EXCEPT !.pc = "callback"]
      BY <2>1, <2>3 DEF MainState
    <2>. QED
      BY <1>3, <2>2, <2>3
  <1>5. \/ hist' = hist /\ results[main.slot].job = NoJob
        \/ /\ main'.pc = "callback" /\ results[main.slot].job \in Job
           /\ hist' = [hist EXCEPT ![results[main.slot].job].callbacks
                                      = Append(@, results[main.slot].outcome)]
    <2>1. results[main.slot] # NoResult => results[main.slot].job \in Job
      BY Parts, <1>2, ResultType DEF ResultFree
    <2>2. NoResult.job = NoJob
      BY DEF NoResult
    <2>3. main' = [main EXCEPT !.pc = "callback"] => main'.pc = "callback"
      BY Parts DEF TypeOK, MainState
    <2>. QED
      <3>1. CASE results[main.slot] = NoResult
        BY <1>3, <2>2, <3>1
      <3>2. CASE results[main.slot] # NoResult
        BY <1>3, <2>1, <2>3, <3>2
      <3>. QED
        BY <3>1, <3>2
  <1>6. /\ \A k \in Job : hist'[k].starts = hist[k].starts /\ hist'[k].outcome = hist[k].outcome
        /\ \A k \in Job : k # results[main.slot].job => hist'[k].callbacks = hist[k].callbacks
    <2>1. hist \in [Job -> JobHistory]
      BY Parts DEF TypeOK
    <2>. QED
      BY Parts, <1>2, <1>5, <2>1, ResultType, CalledAt, SMTT(30)
  <1>7. results[main.slot].job \in Job =>
           /\ hist[results[main.slot].job].callbacks = <<>>
           /\ hist[results[main.slot].job].outcome = results[main.slot].outcome
           /\ results[main.slot].outcome # "none"
           /\ CallbackWanted(results[main.slot].job, results[main.slot].outcome)
    BY Parts, <1>2, JobAssumption DEF ResultCalled, ResultJob
  <1>8. results[main.slot].job \in Job =>
           main'.pc = "callback" /\ hist'[results[main.slot].job].callbacks = <<results[main.slot].outcome>>
    <2>1. ASSUME results[main.slot].job \in Job
          PROVE  hist'[results[main.slot].job].callbacks
                   = Append(hist[results[main.slot].job].callbacks, results[main.slot].outcome)
      BY Parts, <1>2, <1>5, <2>1, JobAssumption, ResultType, CalledAt, ZenonT(30) DEF TypeOK
    <2>2. Append(<<>>, results[main.slot].outcome) = <<results[main.slot].outcome>>
      OBVIOUS
    <2>. QED
      BY <1>5, <1>7, <2>1, <2>2, JobAssumption, ZenonT(30)
  <1>9. TypeOK'
    <2>1. resultLock' \in Mutex
      BY Parts, Threads DEF TypeOK, ResultCopy, UnlockResult, Released
    <2>2. main' \in MainState
      <3>1. main \in MainState /\ main.i + 1 \in Nat /\ main.slot + 1 \in Nat
        BY Parts, MainType DEF TypeOK
      <3>2. main' = [main EXCEPT !.pc = "result", !.slot = main.slot + 1] \/ main' = [main EXCEPT !.pc = "callback"]
        BY DEF ResultCopy
      <3>. QED
        BY <3>1, <3>2 DEF MainState, MainPC
    <2>3. hist' \in [Job -> JobHistory]
      BY Parts, <1>2, <1>5, ResultType, CalledAt DEF TypeOK
    <2>4. UNCHANGED <<queueLock, crashed, order>>
      BY DEF ResultCopy, locks, history
    <2>. QED
      BY Parts, <1>1, <2>1, <2>2, <2>3, <2>4 DEF TypeOK
  <1>10. SubInv'
    <2>1. SubJob'
      BY Parts, <1>1, <1>6, SubType DEF SubJob, Created
    <2>2. SubCaller'
      BY Parts, <1>1, <1>2, <1>3, <1>4, <1>5, <1>6, <1>7, <1>8, Threads, SubType, ThrType,
         MainType DEF SubCaller
    <2>3. SubOnce' /\ SubTest'
      BY Parts, <1>1 DEF SubOnce, SubTest
    <2>. QED
      BY <2>1, <2>2, <2>3 DEF SubInv
  <1>11. QueueInv'
    BY Parts, <1>1, <1>6, QueueType DEF QueueInv, QueuedNew, Created, QueuedNotInCall,
       QueuedOnce
  <1>12. InfoInv'
    BY Parts, <1>1, <1>6, ThrType DEF InfoInv, InfoJob, Created, InfoNotInCall,
       InfoNotQueued, InfoNew, InfoOnce
  <1>13. ThrInv'
    BY Parts, <1>1, <1>6, ThrType, <1>2 DEF ThrInv, ThrJob, ThrLock, ThrEnd, ThrRun,
       ThrStore, CallbackWanted
  <1>14. MainInv'
    BY Parts, <1>1, <1>2, <1>3, <1>4, <1>5, <1>6, <1>7, <1>8, MainType, QueueType,
       Threads, ThrType DEF MainInv, MainUp, MainPeeked, MainThread, MainFree, MainSlot
  <1>15. ResultInv'
    <2>1. ResultFree'
      BY Parts, <1>1, <1>6, ResultType, <1>2, <1>4, <1>5, <1>8 DEF ResultFree
    <2>2. ResultJob'
      BY Parts, <1>1, <1>6, ResultType DEF ResultJob, CallbackWanted
    <2>3. ResultCalled'
      BY Parts, <1>1, <1>2, <1>4, <1>6, <1>8, ResultType DEF ResultCalled, ResultOnce
    <2>4. ResultOnce'
      BY Parts, <1>1, <1>6, ResultType, <1>2, <1>4, <1>5, <1>8 DEF ResultOnce
    <2>. QED
      BY <2>1, <2>2, <2>3, <2>4 DEF ResultInv
  <1>16. HistInv'
    <2>1. \A k \in Job : k # results[main.slot].job => hist'[k] = hist[k]
      <3>1. hist \in [Job -> JobHistory]
        BY Parts DEF TypeOK
      <3>. QED
        BY <1>5, <3>1, OtherHistory
    <2>2. results[main.slot].job \in Job =>
            LET j == results[main.slot].job
            IN  /\ hist'[j].starts = hist[j].starts /\ hist'[j].outcome = hist[j].outcome
                /\ hist'[j].callbacks = <<hist'[j].outcome>> /\ hist'[j].outcome # "none"
                /\ CallbackWanted(j, hist'[j].outcome)
      BY <1>6, <1>7, <1>8
    <2>3. HistInv /\ jobs' = jobs
      BY Parts, <1>1
    <2>. DEFINE Sound(k) == /\ hist[k].starts \in {0, 1}
                            /\ ~Created(k) => hist[k].starts = 0
                            /\ hist[k].outcome # "none" => hist[k].starts = 1
                            /\ \/ hist[k].callbacks = <<>>
                               \/ /\ hist[k].callbacks = <<hist[k].outcome>>
                                  /\ hist[k].outcome # "none"
                                  /\ CallbackWanted(k, hist[k].outcome)
    <2>4. \A k \in Job : k # results[main.slot].job => Sound(k)'
      BY <2>1, <2>3 DEF HistInv, Created, CallbackWanted
    <2>5. \A k \in Job : k = results[main.slot].job => Sound(k)'
      BY <2>2, <2>3 DEF HistInv, Created, CallbackWanted
    <2>6. \A k \in Job : Sound(k)'
      BY <2>4, <2>5
    <2>. QED
      BY <2>6 DEF HistInv
  <1>. QED
    BY <1>9, <1>10, <1>11, <1>12, <1>13, <1>14, <1>15, <1>16 DEF IInv

\* A callback returns.
LEMMA CallbackReturnStep ==
  ASSUME IInv, CallbackReturn
  PROVE  IInv'
  <1>1. UNCHANGED <<phase, info, queue, results, infoLock, jobs, sub, thr, hist>>
    BY DEF CallbackReturn, locks, history
  <1>2. TypeOK'
    <2>1. main' \in MainState
      BY Parts, MainUpdate DEF TypeOK, CallbackReturn, MainPC, Priority
    <2>2. UNCHANGED <<queueLock, resultLock, crashed, order>>
      BY DEF CallbackReturn, locks, history
    <2>. QED
      BY Parts, <1>1, <2>1, <2>2 DEF TypeOK
  <1>3. SubInv'
    BY Parts, <1>1, Threads, JobAssumption DEF SubInv, SubJob, Created, SubOnce,
       SubCaller, CallbackReturn, TypeOK, MainState, SubTest
  <1>4. MainInv'
    BY Parts, <1>1, Threads, JobAssumption DEF MainInv, MainUp, CallbackReturn, TypeOK,
       MainState, MainPeeked, MainThread, MainFree, MainSlot
  <1>5. ResultInv'
    BY Parts, <1>1, Threads, JobAssumption DEF ResultInv, ResultFree, ResultJob,
       CallbackWanted, ResultCalled, CallbackReturn, TypeOK, MainState, ResultOnce
  <1>6. QueueInv' /\ InfoInv' /\ ThrInv' /\ HistInv'
    BY Parts, <1>1 DEF QueueInv, QueuedNew, QueuedNotInCall, QueuedOnce, InfoInv, InfoJob,
       InfoNotInCall, InfoNotQueued, InfoNew, InfoOnce, ThrInv, ThrJob, ThrLock, ThrEnd,
       ThrRun, ThrStore, HistInv, CallbackWanted, Created
  <1>. QED
    BY <1>2, <1>3, <1>4, <1>5, <1>6 DEF IInv

\* job_system_update locks the results to clear an entry.
LEMMA ClearLockStep ==
  ASSUME IInv, ClearLock
  PROVE  IInv'
  <1>1. UNCHANGED <<phase, info, queue, results, infoLock, jobs, sub, thr, hist>>
    BY DEF ClearLock, locks, history
  <1>2. TypeOK'
    <2>1. resultLock' \in Mutex
      BY Parts, Threads DEF TypeOK, ClearLock, LockResult
    <2>2. main' \in MainState
      BY Parts, MainUpdate DEF TypeOK, ClearLock, MainPC, Priority
    <2>3. UNCHANGED <<queueLock, crashed, order>>
      BY DEF ClearLock, locks, history
    <2>. QED
      BY Parts, <1>1, <2>1, <2>2, <2>3 DEF TypeOK
  <1>3. SubInv'
    BY Parts, <1>1, Threads, JobAssumption DEF SubInv, SubJob, Created, SubOnce,
       SubCaller, ClearLock, LockResult, TypeOK, MainState, SubTest
  <1>4. MainInv'
    BY Parts, <1>1, Threads, JobAssumption DEF MainInv, MainUp, ClearLock, LockResult,
       TypeOK, MainState, MainPeeked, MainThread, MainFree, MainSlot
  <1>5. ResultInv'
    BY Parts, <1>1, Threads, JobAssumption DEF ResultInv, ResultFree, ResultJob,
       CallbackWanted, ResultCalled, ClearLock, LockResult, TypeOK, MainState, ResultOnce
  <1>6. QueueInv' /\ InfoInv' /\ ThrInv' /\ HistInv'
    BY Parts, <1>1 DEF QueueInv, QueuedNew, QueuedNotInCall, QueuedOnce, InfoInv, InfoJob,
       InfoNotInCall, InfoNotQueued, InfoNew, InfoOnce, ThrInv, ThrJob, ThrLock, ThrEnd,
       ThrRun, ThrStore, HistInv, CallbackWanted, Created
  <1>. QED
    BY <1>2, <1>3, <1>4, <1>5, <1>6 DEF IInv

\* job_system_update clears the entry whose callback it called.
LEMMA ClearResultStep ==
  ASSUME IInv, ClearResult
  PROVE  IInv'
  <1>1. UNCHANGED <<phase, info, queue, infoLock, jobs, sub, thr, hist>>
    BY DEF ClearResult, locks, history
  <1>2. /\ main.pc = "clear" /\ main.slot \in Slot /\ results'[main.slot] = NoResult
        /\ results'[main.slot].job = NoJob
        /\ \A y \in Slot : y # main.slot => results'[y] = results[y]
    BY Parts DEF ClearResult, MainSlot, TypeOK, NoResult
  <1>3. NoResult.job = NoJob
    BY DEF NoResult
  <1>4. main'.pc = "result" /\ main'.q = main.q /\ main'.job = main.job /\ main'.i = main.i
    BY Parts DEF ClearResult, TypeOK, MainState
  <1>5. TypeOK'
    <2>1. results' \in [Slot -> ResultEntry]
      <3>1. NoResult \in ResultEntry
        BY DEF NoResult, ResultEntry, Outcome
      <3>. QED
        BY Parts, <3>1 DEF TypeOK, ClearResult
    <2>2. resultLock' \in Mutex
      BY Parts, Threads DEF TypeOK, ClearResult, UnlockResult, Released
    <2>3. main' \in MainState
      <3>1. main \in MainState /\ main.i + 1 \in Nat /\ main.slot + 1 \in Nat
        BY Parts, MainType DEF TypeOK
      <3>2. main' = [main EXCEPT !.pc = "result", !.slot = main.slot + 1]
        BY DEF ClearResult
      <3>. QED
        BY <3>1, <3>2 DEF MainState, MainPC
    <2>4. UNCHANGED <<queueLock, crashed, order>>
      BY DEF ClearResult, locks, history
    <2>. QED
      BY Parts, <1>1, <2>1, <2>2, <2>3, <2>4 DEF TypeOK
  <1>6. SubInv'
    BY Parts, <1>1, <1>2, <1>4, Threads, SubType, ThrType, MainType DEF SubInv, SubJob,
       Created, SubOnce, SubCaller, SubTest
  <1>7. ThrInv'
    BY Parts, <1>1, <1>2 DEF ThrInv, ThrJob, ThrLock, ThrEnd, ThrRun, ThrStore,
       CallbackWanted
  <1>8. MainInv'
    BY Parts, <1>1, <1>2, <1>4, MainType, QueueType, Threads, ThrType DEF MainInv, MainUp,
       MainPeeked, MainThread, MainFree, MainSlot
  <1>9. ResultInv'
    BY Parts, <1>1, <1>2, ResultType, HistType, <1>4, MainType DEF ResultInv, ResultFree,
       ResultJob, CallbackWanted, ResultCalled, ResultOnce
  <1>10. QueueInv' /\ InfoInv' /\ HistInv'
    BY Parts, <1>1 DEF QueueInv, QueuedNew, QueuedNotInCall, QueuedOnce, InfoInv, InfoJob,
       InfoNotInCall, InfoNotQueued, InfoNew, InfoOnce, HistInv, CallbackWanted, Created
  <1>. QED
    BY <1>5, <1>6, <1>7, <1>8, <1>9, <1>10 DEF IInv

\* A step of job_system_shutdown.
LEMMA ShutdownStep ==
  ASSUME IInv, Shutdown
  PROVE  IInv'
  <1>1. UNCHANGED <<info, results, infoLock, jobs, sub, main, thr, hist>>
    BY DEF Shutdown, locks, history
  <1>2. phase' # "up" /\ main.pc = "idle"
    BY Parts DEF Shutdown, TypeOK, Phase
  <1>3. queue' = queue \/ queue' = [p \in Priority |-> <<>>]
    BY DEF Shutdown
  <1>4. \A p \in Priority : queue'[p] = <<>> \/ queue'[p] = queue[p]
    BY <1>3
  <1>5. \A p \in Priority : queue'[p] # <<>> => queue'[p] = queue[p]
    BY <1>4
  <1>6. \A p \in Priority : \A k \in 1 .. Len(queue'[p]) : queue'[p] = queue[p] /\ k \in 1 .. Len(queue[p])
    BY <1>4
  <1>7. TypeOK'
    <2>1. phase' \in Phase
      BY Parts DEF TypeOK, Shutdown, Phase
    <2>2. queue' \in [Priority -> Seq(Job)]
      BY Parts DEF TypeOK, Shutdown
    <2>3. queueLock' \in [Priority -> Mutex]
      BY Parts, Threads DEF TypeOK, Shutdown
    <2>4. resultLock' \in Mutex
      BY Parts, Threads DEF TypeOK, Shutdown
    <2>5. UNCHANGED <<crashed, order>>
      BY DEF Shutdown, locks, history
    <2>. QED
      BY Parts, <1>1, <2>1, <2>2, <2>3, <2>4, <2>5 DEF TypeOK
  <1>8. QueueInv'
    BY Parts, <1>1, <1>3, <1>4, <1>5, <1>6, QueueType, HistType, SubType DEF QueueInv,
       QueuedNew, Created, QueuedNotInCall, QueuedOnce
  <1>9. InfoInv'
    BY Parts, <1>1, <1>3, <1>4, <1>5, <1>6, QueueType, ThrType DEF InfoInv, InfoJob,
       Created, InfoNotInCall, InfoNotQueued, InfoNew, InfoOnce
  <1>10. ThrInv'
    BY Parts, <1>1, <1>2, ThrType DEF ThrInv, ThrJob, ThrLock, ThrEnd, ThrRun, ThrStore,
       CallbackWanted
  <1>11. MainInv'
    BY Parts, <1>1, <1>2, MainType, <1>3, <1>4, <1>5, <1>6, QueueType DEF MainInv, MainUp,
       MainPeeked, MainThread, MainFree, MainSlot
  <1>12. SubInv' /\ ResultInv' /\ HistInv'
    BY Parts, <1>1 DEF SubInv, SubJob, SubOnce, SubCaller, SubTest, ResultInv, ResultFree,
       ResultJob, ResultCalled, ResultOnce, HistInv, CallbackWanted, Created
  <1>. QED
    BY <1>7, <1>8, <1>9, <1>10, <1>11, <1>12 DEF IInv

\* A job thread creates the mutex of its info.
LEMMA WorkerStartStep ==
  ASSUME IInv, NEW w \in Worker, WorkerStart(w)
  PROVE  IInv'
  <1>1. UNCHANGED <<phase, info, queue, results, jobs, sub, main, hist>>
    BY DEF WorkerStart, locks, history
  <1>2. /\ thr[w].pc = "start" /\ thr'[w].pc = "check" /\ thr'[w].job = thr[w].job
        /\ \A y \in Worker : y # w => thr'[y] = thr[y]
    BY Parts, GoesAt DEF WorkerStart
  <1>3. /\ infoLock'[w] = Free
        /\ \A y \in Worker : y # w => infoLock'[y] = infoLock[y]
    BY Parts DEF TypeOK, WorkerStart
  <1>4. TypeOK'
    <2>1. infoLock' \in [Worker -> Mutex]
      BY Parts, Threads DEF TypeOK, WorkerStart
    <2>2. thr' \in [Worker -> ThrState]
      BY Parts, GoesType DEF TypeOK, WorkerStart, WorkerPC
    <2>3. UNCHANGED <<queueLock, resultLock, crashed, order>>
      BY DEF WorkerStart, locks, history
    <2>. QED
      BY Parts, <1>1, <2>1, <2>2, <2>3 DEF TypeOK
  <1>5. SubInv'
    <2>1. SubCaller'
      BY Parts, <1>1, <1>2, <1>3, Threads, JobAssumption DEF SubCaller
    <2>2. SubTest'
      <3>1. ASSUME NEW d \in Caller, sub'[d].pc = "test"
            PROVE  /\ sub'[d] = sub[d] /\ infoLock'[sub[d].i] \in {infoLock[sub[d].i], Absent}
                   /\ thr'[sub[d].i].pc # "start"
        <4>1. /\ sub'[d] = sub[d] /\ sub[d].pc = "test" /\ sub[d].i \in Worker
              /\ infoLock[sub[d].i] \in {d, Absent} /\ thr[sub[d].i].pc # "start"
          BY Parts, <3>1, <1>1 DEF SubTest
        <4>2. /\ d = Main => main.pc \in {"idle", "callback"}
              /\ d \in Worker => thr[d].pc \in {"run", "dead"}
          BY Parts, <4>1 DEF SubCaller
        <4>. QED
          BY <4>1, <4>2, <1>1, <1>2, <1>3, Threads
      <3>. QED
        BY Parts, <1>1, <3>1, SubTestKept
    <2>3. SubJob' /\ SubOnce'
      BY Parts, <1>1 DEF SubJob, SubOnce, Created
    <2>. QED
      BY <2>1, <2>2, <2>3 DEF SubInv
  <1>6. InfoInv'
    BY Parts, <1>1, <1>2, <1>3, Threads, JobAssumption DEF InfoInv, InfoJob, Created,
       InfoNotInCall, InfoNotQueued, InfoNew, InfoOnce
  <1>7. ThrInv'
    BY Parts, <1>1, <1>2, <1>3, Threads, JobAssumption DEF ThrInv, ThrJob, ThrLock,
       ThrEnd, ThrRun, ThrStore, CallbackWanted
  <1>8. MainInv'
    BY Parts, <1>1, <1>2, <1>3, Threads, JobAssumption, MainType DEF MainInv, MainUp,
       MainPeeked, MainThread, ThrLock, MainFree, MainSlot
  <1>9. QueueInv' /\ ResultInv' /\ HistInv'
    BY Parts, <1>1 DEF QueueInv, QueuedNew, QueuedNotInCall, QueuedOnce, ResultInv,
       ResultFree, ResultJob, ResultCalled, ResultOnce, HistInv, CallbackWanted, Created
  <1>. QED
    BY <1>4, <1>5, <1>6, <1>7, <1>8, <1>9 DEF IInv

\* A job thread destroys the mutex of its info, whoever holds it.
LEMMA WorkerExitStep ==
  ASSUME IInv, NEW w \in Worker, WorkerExit(w)
  PROVE  IInv'
  <1>1. UNCHANGED <<phase, info, queue, results, jobs, sub, main, hist>>
    BY DEF WorkerExit, locks, history
  <1>2. /\ thr[w].pc = "exit" /\ thr'[w].pc = "dead" /\ thr'[w].job = thr[w].job
        /\ \A y \in Worker : y # w => thr'[y] = thr[y]
    BY Parts, GoesAt DEF WorkerExit
  <1>3. /\ infoLock'[w] = Absent
        /\ \A y \in Worker : y # w => infoLock'[y] = infoLock[y]
    BY Parts DEF TypeOK, WorkerExit
  <1>4. TypeOK'
    <2>1. infoLock' \in [Worker -> Mutex]
      BY Parts, Threads DEF TypeOK, WorkerExit
    <2>2. thr' \in [Worker -> ThrState]
      BY Parts, GoesType DEF TypeOK, WorkerExit, WorkerPC
    <2>3. UNCHANGED <<queueLock, resultLock, crashed, order>>
      BY DEF WorkerExit, locks, history
    <2>. QED
      BY Parts, <1>1, <2>1, <2>2, <2>3 DEF TypeOK
  <1>5. SubInv'
    <2>1. SubCaller'
      BY Parts, <1>1, <1>2, <1>3, Threads, JobAssumption DEF SubCaller
    <2>2. SubTest'
      <3>1. ASSUME NEW d \in Caller, sub'[d].pc = "test"
            PROVE  /\ sub'[d] = sub[d] /\ infoLock'[sub[d].i] \in {infoLock[sub[d].i], Absent}
                   /\ thr'[sub[d].i].pc # "start"
        <4>1. /\ sub'[d] = sub[d] /\ sub[d].pc = "test" /\ sub[d].i \in Worker
              /\ infoLock[sub[d].i] \in {d, Absent} /\ thr[sub[d].i].pc # "start"
          BY Parts, <3>1, <1>1 DEF SubTest
        <4>2. /\ d = Main => main.pc \in {"idle", "callback"}
              /\ d \in Worker => thr[d].pc \in {"run", "dead"}
          BY Parts, <4>1 DEF SubCaller
        <4>. QED
          BY <4>1, <4>2, <1>1, <1>2, <1>3, Threads
      <3>. QED
        BY Parts, <1>1, <3>1, SubTestKept
    <2>3. SubJob' /\ SubOnce'
      BY Parts, <1>1 DEF SubJob, SubOnce, Created
    <2>. QED
      BY <2>1, <2>2, <2>3 DEF SubInv
  <1>6. InfoInv'
    BY Parts, <1>1, <1>2, <1>3, Threads, JobAssumption DEF InfoInv, InfoJob, Created,
       InfoNotInCall, InfoNotQueued, InfoNew, InfoOnce
  <1>7. ThrInv'
    <2>1. ThrJob'
      BY Parts, <1>1, <1>2, <1>3, Threads, JobAssumption DEF ThrJob
    <2>2. ThrLock'
      BY Parts, <1>1, <1>2, <1>3, Threads, JobAssumption DEF ThrLock
    <2>3. ThrEnd'
      BY Parts, <1>1, <1>2, <1>3, Threads, JobAssumption DEF ThrEnd
    <2>4. ThrRun'
      BY Parts, <1>1, <1>2, <1>3, Threads, JobAssumption DEF ThrRun
    <2>5. ThrStore'
      BY Parts, <1>1, <1>2, <1>3, Threads, JobAssumption DEF ThrStore, CallbackWanted
    <2>. QED
      BY <2>1, <2>2, <2>3, <2>4, <2>5 DEF ThrInv
  <1>8. MainInv'
    BY Parts, <1>1, <1>2, <1>3, Threads, JobAssumption DEF MainInv, MainUp, MainPeeked,
       MainThread, ThrEnd, MainFree, MainSlot
  <1>9. QueueInv' /\ ResultInv' /\ HistInv'
    BY Parts, <1>1 DEF QueueInv, QueuedNew, QueuedNotInCall, QueuedOnce, ResultInv,
       ResultFree, ResultJob, ResultCalled, ResultOnce, HistInv, CallbackWanted, Created
  <1>. QED
    BY <1>4, <1>5, <1>6, <1>7, <1>8, <1>9 DEF IInv

\* A job thread looks whether the system is still up.
LEMMA WorkerCheckStep ==
  ASSUME IInv, NEW w \in Worker, WorkerCheck(w)
  PROVE  IInv'
  <1>1. UNCHANGED <<phase, info, queue, results, infoLock, jobs, sub, main, hist>>
    BY DEF WorkerCheck, locks, history
  <1>2. PICK to \in {"check", "pollWait", "exit"} :
        /\ thr[w].pc \in {"check", "tail"} /\ thr'[w].pc = to /\ thr'[w].job = thr[w].job
        /\ (to = "exit" => phase # "up")
        /\ \A y \in Worker : y # w => thr'[y] = thr[y]
    BY Parts, GoesAt DEF WorkerCheck
  <1>3. TypeOK'
    <2>1. thr' \in [Worker -> ThrState]
      BY Parts, GoesType DEF TypeOK, WorkerCheck, WorkerPC
    <2>2. UNCHANGED <<queueLock, resultLock, crashed, order>>
      BY DEF WorkerCheck, locks, history
    <2>. QED
      BY Parts, <1>1, <2>1, <2>2 DEF TypeOK
  <1>4. SubInv'
    <2>1. SubCaller'
      BY Parts, <1>1, <1>2, Threads DEF SubCaller
    <2>2. SubTest'
      <3>1. ASSUME NEW d \in Caller, sub'[d].pc = "test"
            PROVE  /\ sub'[d] = sub[d] /\ infoLock'[sub[d].i] \in {infoLock[sub[d].i], Absent}
                   /\ thr'[sub[d].i].pc # "start"
        <4>1. /\ sub'[d] = sub[d] /\ sub[d].pc = "test" /\ sub[d].i \in Worker
              /\ infoLock[sub[d].i] \in {d, Absent} /\ thr[sub[d].i].pc # "start"
          BY Parts, <3>1, <1>1 DEF SubTest
        <4>2. /\ d = Main => main.pc \in {"idle", "callback"}
              /\ d \in Worker => thr[d].pc \in {"run", "dead"}
          BY Parts, <4>1 DEF SubCaller
        <4>. QED
          BY <4>1, <4>2, <1>1, <1>2, Threads
      <3>. QED
        BY Parts, <1>1, <3>1, SubTestKept
    <2>3. SubJob' /\ SubOnce'
      BY Parts, <1>1 DEF SubJob, SubOnce, Created
    <2>. QED
      BY <2>1, <2>2, <2>3 DEF SubInv
  <1>5. InfoInv'
    BY Parts, <1>1, <1>2, Threads, JobAssumption DEF InfoInv, InfoJob, Created,
       InfoNotInCall, InfoNotQueued, InfoNew, InfoOnce
  <1>6. ThrInv'
    <2>1. ThrJob'
      BY Parts, <1>1, <1>2, Threads, JobAssumption DEF ThrJob
    <2>2. ThrLock'
      BY Parts, <1>1, <1>2, Threads, JobAssumption DEF ThrLock
    <2>3. ThrEnd'
      BY Parts, <1>1, <1>2, Threads, JobAssumption DEF ThrEnd
    <2>4. ThrRun'
      BY Parts, <1>1, <1>2, Threads, JobAssumption DEF ThrRun
    <2>5. ThrStore'
      BY Parts, <1>1, <1>2, Threads, JobAssumption DEF ThrStore, CallbackWanted
    <2>. QED
      BY <2>1, <2>2, <2>3, <2>4, <2>5 DEF ThrInv
  <1>7. QueueInv' /\ MainInv' /\ ResultInv' /\ HistInv'
    BY Parts, <1>1 DEF QueueInv, QueuedNew, QueuedNotInCall, QueuedOnce, MainInv, MainUp,
       MainPeeked, MainThread, MainFree, MainSlot, ResultInv, ResultFree, ResultJob,
       ResultCalled, ResultOnce, HistInv, CallbackWanted, Created
  <1>. QED
    BY <1>3, <1>4, <1>5, <1>6, <1>7 DEF IInv

\* A job thread locks its info.
LEMMA WorkerLockInfoStep ==
  ASSUME IInv, NEW w \in Worker, WorkerLockInfo(w)
  PROVE  IInv'
  <1>1. UNCHANGED <<phase, info, queue, results, jobs, sub, main, hist>>
    BY DEF WorkerLockInfo, locks, history
  <1>2. PICK to \in {"poll", "reset"} :
        /\ thr[w].pc = (IF to = "poll" THEN "pollWait" ELSE "resetWait") /\ thr'[w].pc = to /\ thr'[w].job = thr[w].job
        /\ \A y \in Worker : y # w => thr'[y] = thr[y]
    BY Parts, GoesAt DEF WorkerLockInfo
  <1>3. /\ infoLock[w] = Free /\ infoLock'[w] = w
        /\ \A y \in Worker : y # w => infoLock'[y] = infoLock[y]
    BY Parts DEF TypeOK, WorkerLockInfo, LockInfo
  <1>4. TypeOK'
    <2>1. infoLock' \in [Worker -> Mutex]
      BY Parts, Threads DEF TypeOK, WorkerLockInfo, LockInfo
    <2>2. thr' \in [Worker -> ThrState]
      BY Parts, GoesType DEF TypeOK, WorkerLockInfo, WorkerPC
    <2>3. UNCHANGED <<queueLock, resultLock, crashed, order>>
      BY DEF WorkerLockInfo, locks, history
    <2>. QED
      BY Parts, <1>1, <2>1, <2>2, <2>3 DEF TypeOK
  <1>5. SubInv'
    <2>1. SubCaller'
      BY Parts, <1>1, <1>2, <1>3, Threads, JobAssumption DEF SubCaller
    <2>2. SubTest'
      <3>1. ASSUME NEW d \in Caller, sub'[d].pc = "test"
            PROVE  /\ sub'[d] = sub[d] /\ infoLock'[sub[d].i] \in {infoLock[sub[d].i], Absent}
                   /\ thr'[sub[d].i].pc # "start"
        <4>1. /\ sub'[d] = sub[d] /\ sub[d].pc = "test" /\ sub[d].i \in Worker
              /\ infoLock[sub[d].i] \in {d, Absent} /\ thr[sub[d].i].pc # "start"
          BY Parts, <3>1, <1>1 DEF SubTest
        <4>2. /\ d = Main => main.pc \in {"idle", "callback"}
              /\ d \in Worker => thr[d].pc \in {"run", "dead"}
          BY Parts, <4>1 DEF SubCaller
        <4>. QED
          BY <4>1, <4>2, <1>1, <1>2, <1>3, Threads
      <3>. QED
        BY Parts, <1>1, <3>1, SubTestKept
    <2>3. SubJob' /\ SubOnce'
      BY Parts, <1>1 DEF SubJob, SubOnce, Created
    <2>. QED
      BY <2>1, <2>2, <2>3 DEF SubInv
  <1>6. InfoInv'
    BY Parts, <1>1, <1>2, <1>3, Threads, JobAssumption DEF InfoInv, InfoJob, Created,
       InfoNotInCall, InfoNotQueued, InfoNew, InfoOnce
  <1>7. ThrInv'
    <2>1. ThrJob'
      BY Parts, <1>1, <1>2 DEF ThrJob
    <2>2. ThrLock'
      BY Parts, <1>1, <1>2, <1>3, Threads, JobAssumption DEF ThrLock
    <2>3. ThrEnd'
      BY Parts, <1>1, <1>2, <1>3, Threads, JobAssumption DEF ThrEnd
    <2>4. ThrRun'
      BY Parts, <1>1, <1>2, <1>3, Threads, JobAssumption DEF ThrRun
    <2>5. ThrStore'
      BY Parts, <1>1, <1>2, <1>3, Threads, JobAssumption DEF ThrStore, CallbackWanted
    <2>. QED
      BY <2>1, <2>2, <2>3, <2>4, <2>5 DEF ThrInv
  <1>8. MainInv'
    BY Parts, <1>1, <1>2, <1>3, Threads, JobAssumption DEF MainInv, MainUp, MainPeeked,
       MainThread, MainFree, MainSlot
  <1>9. QueueInv' /\ ResultInv' /\ HistInv'
    BY Parts, <1>1 DEF QueueInv, QueuedNew, QueuedNotInCall, QueuedOnce, ResultInv,
       ResultFree, ResultJob, ResultCalled, ResultOnce, HistInv, CallbackWanted, Created
  <1>. QED
    BY <1>4, <1>5, <1>6, <1>7, <1>8, <1>9 DEF IInv

\* A job thread copies its info and begins its job, if there is one.
LEMMA WorkerPollStep ==
  ASSUME IInv, NEW w \in Worker, WorkerPoll(w)
  PROVE  IInv'
  <1>1. UNCHANGED <<phase, info, queue, results, jobs, sub, main>>
    BY DEF WorkerPoll, locks, history
  <1>2. /\ thr[w].pc = "poll" /\ thr[w].job = NoJob /\ thr'[w].pc = (IF info[w] = NoJob THEN "tail" ELSE "run") /\ thr'[w].job = info[w]
        /\ \A y \in Worker : y # w => thr'[y] = thr[y]
    BY Parts DEF TypeOK, WorkerPoll, ThrJob
  <1>3. /\ infoLock[w] = w /\ infoLock'[w] = Free
        /\ \A y \in Worker : y # w => infoLock'[y] = infoLock[y]
    BY Parts, Threads DEF TypeOK, WorkerPoll, UnlockInfo, Released, ThrLock
  <1>4. /\ \A k \in Job : hist'[k].outcome = hist[k].outcome /\ hist'[k].callbacks = hist[k].callbacks
        /\ \A k \in Job : k # info[w] => hist'[k].starts = hist[k].starts
        /\ info[w] # NoJob => info[w] \in Job /\ Created(info[w]) /\ hist[info[w]].starts = 0 /\ hist'[info[w]].starts = 1
    BY Parts, <1>2 DEF TypeOK, WorkerPoll, JobHistory, InfoNew, InfoJob
  <1>5. \A k \in Job : k = info[w] => hist[k].outcome = "none" /\ hist[k].callbacks = <<>>
    BY Parts, <1>4, JobAssumption DEF HistInv
  <1>6. TypeOK'
    <2>1. infoLock' \in [Worker -> Mutex]
      BY Parts, Threads DEF TypeOK, WorkerPoll, UnlockInfo, Released
    <2>2. thr' \in [Worker -> ThrState]
      BY Parts, ThrUpdate DEF TypeOK, WorkerPoll, WorkerPC
    <2>3. hist' \in [Job -> JobHistory]
      BY Parts, HistUpdate DEF TypeOK, WorkerPoll, Outcome
    <2>4. UNCHANGED <<queueLock, resultLock, crashed, order>>
      BY DEF WorkerPoll, locks, history
    <2>. QED
      BY Parts, <1>1, <2>1, <2>2, <2>3, <2>4 DEF TypeOK
  <1>7. SubInv'
    <2>1. SubJob'
      BY Parts, <1>1, <1>2, <1>3, <1>4, <1>5, Threads, JobAssumption, SubType, HistType
         DEF SubJob, InfoNotInCall, Created
    <2>2. SubCaller'
      BY Parts, <1>1, <1>2, <1>3, <1>4, <1>5, Threads, JobAssumption DEF SubCaller
    <2>3. SubTest'
      <3>1. ASSUME NEW d \in Caller, sub'[d].pc = "test"
            PROVE  /\ sub'[d] = sub[d] /\ infoLock'[sub[d].i] \in {infoLock[sub[d].i], Absent}
                   /\ thr'[sub[d].i].pc # "start"
        <4>1. /\ sub'[d] = sub[d] /\ sub[d].pc = "test" /\ sub[d].i \in Worker
              /\ infoLock[sub[d].i] \in {d, Absent} /\ thr[sub[d].i].pc # "start"
          BY Parts, <3>1, <1>1 DEF SubTest
        <4>2. /\ d = Main => main.pc \in {"idle", "callback"}
              /\ d \in Worker => thr[d].pc \in {"run", "dead"}
          BY Parts, <4>1 DEF SubCaller
        <4>. QED
          BY <4>1, <4>2, <1>1, <1>2, <1>3, Threads
      <3>. QED
        BY Parts, <1>1, <3>1, SubTestKept
    <2>4. SubOnce'
      BY Parts, <1>1 DEF SubOnce
    <2>. QED
      BY <2>1, <2>2, <2>3, <2>4 DEF SubInv
  <1>8. QueueInv'
    BY Parts, <1>1, <1>2, <1>3, <1>4, <1>5, Threads, JobAssumption, QueueType, HistType
       DEF QueueInv, QueuedNew, InfoNotQueued, Created, QueuedNotInCall, QueuedOnce
  <1>9. InfoInv'
    BY Parts, <1>1, <1>2, <1>3, <1>4, <1>5, Threads, JobAssumption, ThrType, HistType DEF
       InfoInv, InfoJob, Created, InfoNotInCall, InfoNotQueued, InfoNew, InfoOnce
  <1>10. ThrInv'
    <2>1. ThrJob'
      BY Parts, <1>1, <1>2, <1>3, <1>4, <1>5, Threads, JobAssumption DEF ThrJob
    <2>2. ThrLock'
      BY Parts, <1>1, <1>2, <1>3, <1>4, <1>5, Threads, JobAssumption DEF ThrLock
    <2>3. ThrEnd'
      BY Parts, <1>1, <1>2, <1>3, <1>4, <1>5, Threads, JobAssumption DEF ThrEnd
    <2>4. ThrRun'
      BY Parts, <1>1, <1>2, <1>3, <1>4, <1>5, Threads, JobAssumption, ThrType, HistType
         DEF ThrRun, ThrJob, InfoOnce
    <2>5. ThrStore'
      BY Parts, <1>1, <1>2, <1>3, <1>4, <1>5, Threads, JobAssumption, ThrType, ResultType,
         HistType DEF ThrStore, ThrJob, CallbackWanted
    <2>. QED
      BY <2>1, <2>2, <2>3, <2>4, <2>5 DEF ThrInv
  <1>11. MainInv'
    BY Parts, <1>1, <1>2, <1>3, <1>4, <1>5, Threads, JobAssumption, MainType DEF MainInv,
       MainUp, MainPeeked, MainThread, MainFree, MainSlot
  <1>12. ResultInv'
    BY Parts, <1>1, <1>4, <1>5, ResultType, HistType, MainType DEF ResultInv, ResultFree,
       ResultJob, CallbackWanted, ResultCalled, ResultOnce
  <1>13. HistInv'
    BY Parts, <1>1, <1>2, <1>3, <1>4, <1>5, Threads, JobAssumption DEF HistInv, Created,
       CallbackWanted
  <1>. QED
    BY <1>6, <1>7, <1>8, <1>9, <1>10, <1>11, <1>12, <1>13 DEF IInv

\* The entry point of a job returns.
LEMMA WorkerFinishStep ==
  ASSUME IInv, NEW w \in Worker, WorkerFinish(w)
  PROVE  IInv'
  <1>1. UNCHANGED <<phase, info, queue, results, infoLock, jobs, sub, main>>
    BY DEF WorkerFinish, locks, history
  <1>2. PICK r \in {"success", "fail"} :
        /\ sub[w].pc = "none"
        /\ hist' = [hist EXCEPT ![thr[w].job].outcome = r]
        /\ Goes(w, "run", IF CallbackWanted(thr[w].job, r) THEN "storeWait" ELSE "resetWait")
    BY DEF WorkerFinish
  <1>3. /\ thr[w].pc = "run" /\ thr'[w].pc = (IF CallbackWanted(thr[w].job, r) THEN "storeWait" ELSE "resetWait") /\ thr'[w].job = thr[w].job
        /\ \A y \in Worker : y # w => thr'[y] = thr[y]
    BY Parts, <1>2, GoesAt
  <1>4. /\ thr[w].job \in Job /\ thr[w].job # NoJob /\ info[w] = thr[w].job
        /\ hist[thr[w].job].starts = 1 /\ hist[thr[w].job].outcome = "none" /\ hist[thr[w].job].callbacks = <<>>
    BY Parts, <1>3, JobAssumption DEF ThrJob, ThrRun, HistInv, TypeOK, ThrState
  <1>5. /\ \A k \in Job : hist'[k].starts = hist[k].starts /\ hist'[k].callbacks = hist[k].callbacks
        /\ \A k \in Job : k # thr[w].job => hist'[k].outcome = hist[k].outcome
        /\ hist'[thr[w].job].outcome = r
    BY Parts, <1>2, <1>4 DEF TypeOK, JobHistory
  <1>6. TypeOK'
    <2>1. thr' \in [Worker -> ThrState]
      BY Parts, GoesType DEF TypeOK, WorkerFinish, WorkerPC
    <2>2. hist' \in [Job -> JobHistory]
      <3>1. hist \in [Job -> JobHistory] /\ r \in Outcome
        BY Parts, <1>2 DEF TypeOK, Outcome
      <3>. QED
        BY <1>2, <1>4, <3>1, HistUpdate
    <2>3. UNCHANGED <<queueLock, resultLock, crashed, order>>
      BY DEF WorkerFinish, locks, history
    <2>. QED
      BY Parts, <1>1, <2>1, <2>2, <2>3 DEF TypeOK
  <1>7. SubInv'
    <2>1. SubJob'
      BY Parts, <1>1, <1>2, <1>4, <1>5, SubType, HistType DEF SubJob, Created
    <2>2. SubCaller'
      BY Parts, <1>1, <1>2, <1>3, <1>4, <1>5, Threads, SubType, ThrType, MainType DEF
         SubCaller
    <2>3. SubTest'
      <3>1. ASSUME NEW d \in Caller, sub'[d].pc = "test"
            PROVE  /\ sub'[d] = sub[d] /\ infoLock'[sub[d].i] \in {infoLock[sub[d].i], Absent}
                   /\ thr'[sub[d].i].pc # "start"
        <4>1. /\ sub'[d] = sub[d] /\ sub[d].pc = "test" /\ sub[d].i \in Worker
              /\ infoLock[sub[d].i] \in {d, Absent} /\ thr[sub[d].i].pc # "start"
          BY Parts, <3>1, <1>1 DEF SubTest
        <4>2. /\ d = Main => main.pc \in {"idle", "callback"}
              /\ d \in Worker => thr[d].pc \in {"run", "dead"}
          BY Parts, <4>1 DEF SubCaller
        <4>. QED
          BY <4>1, <4>2, <1>1, <1>3, Threads
      <3>. QED
        BY Parts, <1>1, <3>1, SubTestKept
    <2>4. SubOnce'
      BY Parts, <1>1 DEF SubOnce
    <2>. QED
      BY <2>1, <2>2, <2>3, <2>4 DEF SubInv
  <1>8. QueueInv'
    BY Parts, <1>1, <1>2, <1>4, <1>5, QueueType, HistType DEF QueueInv, QueuedNew,
       Created, QueuedNotInCall, QueuedOnce
  <1>9. InfoInv'
    BY Parts, <1>1, <1>2, <1>3, <1>4, <1>5, ThrType, HistType DEF InfoInv, InfoJob,
       Created, InfoNotInCall, InfoNotQueued, InfoNew, InfoOnce
  <1>10. ThrInv'
    <2>1. ThrJob'
      BY Parts, <1>1, <1>2, <1>3, <1>4, <1>5, ThrType, Threads, HistType, ResultType DEF
         ThrJob, InfoOnce, ResultJob
    <2>2. ThrLock'
      BY Parts, <1>1, <1>2, <1>3, <1>4, <1>5, ThrType, Threads, HistType, ResultType DEF
         ThrLock, InfoOnce, ResultJob
    <2>3. ThrEnd'
      BY Parts, <1>1, <1>2, <1>3, <1>4, <1>5, ThrType, Threads, HistType, ResultType DEF
         ThrEnd, InfoOnce, ResultJob
    <2>4. \A y \in Worker : y # w /\ thr[y].job # NoJob =>
             thr[y].job \in Job /\ thr[y].job # thr[w].job
      BY Parts, <1>4, ThrType DEF ThrJob, InfoOnce
    <2>5. ThrRun'
      BY Parts, <1>3, <1>4, <1>5, <2>4 DEF ThrRun, ThrJob
    <2>6. ThrStore'
      <3>1. \A i \in Slot : results[i].job # thr[w].job
        BY Parts, <1>4, JobAssumption DEF ResultJob
      <3>2. ASSUME NEW y \in Worker, y # w, thr'[y].pc \in {"storeWait", "store"}
            PROVE  /\ thr'[y] = thr[y] /\ hist'[thr[y].job].outcome = hist[thr[y].job].outcome
                   /\ hist'[thr[y].job].callbacks = hist[thr[y].job].callbacks
        BY <3>2, Parts, <1>3, <1>5, <2>4 DEF ThrJob
      <3>3. thr'[w].pc \in {"storeWait", "store"} =>
              /\ hist'[thr'[w].job].outcome # "none" /\ hist'[thr'[w].job].callbacks = <<>>
              /\ CallbackWanted(thr'[w].job, hist'[thr'[w].job].outcome)
        BY <1>1, <1>3, <1>4, <1>5 DEF CallbackWanted
      <3>. QED
        BY Parts, <1>1, <1>3, <3>1, <3>2, <3>3 DEF ThrStore, CallbackWanted
    <2>. QED
      BY <2>1, <2>2, <2>3, <2>5, <2>6 DEF ThrInv
  <1>11. ResultInv'
    <2>1. ResultFree'
      BY Parts, <1>1, <1>2, <1>4, <1>5, ResultType, HistType, MainType DEF ResultFree
    <2>2. ResultJob'
      BY Parts, <1>1, <1>2, <1>4, <1>5, ResultType, HistType, MainType DEF ResultJob,
         CallbackWanted
    <2>3. ResultCalled'
      BY Parts, <1>1, <1>2, <1>4, <1>5, ResultType, HistType, MainType DEF ResultCalled
    <2>4. ResultOnce'
      BY Parts, <1>1, <1>2, <1>4, <1>5, ResultType, HistType, MainType DEF ResultOnce
    <2>. QED
      BY <2>1, <2>2, <2>3, <2>4 DEF ResultInv
  <1>12. HistInv'
    BY Parts, <1>1, <1>2, <1>4, <1>5, HistType DEF HistInv, Created, CallbackWanted
  <1>13. MainInv'
    BY Parts, <1>1 DEF MainInv, MainUp, MainPeeked, MainThread, MainFree, MainSlot
  <1>. QED
    BY <1>6, <1>7, <1>8, <1>9, <1>10, <1>11, <1>12, <1>13 DEF IInv

\* A job thread locks the results.
LEMMA WorkerLockResultStep ==
  ASSUME IInv, NEW w \in Worker, WorkerLockResult(w)
  PROVE  IInv'
  <1>1. UNCHANGED <<phase, info, queue, results, infoLock, jobs, sub, main, hist>>
    BY DEF WorkerLockResult, locks, history
  <1>2. /\ thr[w].pc = "storeWait" /\ thr'[w].pc = "store" /\ thr'[w].job = thr[w].job
        /\ \A y \in Worker : y # w => thr'[y] = thr[y]
    BY Parts, GoesAt DEF WorkerLockResult
  <1>3. TypeOK'
    <2>1. resultLock' \in Mutex
      BY Parts, Threads DEF TypeOK, WorkerLockResult, LockResult
    <2>2. thr' \in [Worker -> ThrState]
      BY Parts, GoesType DEF TypeOK, WorkerLockResult, WorkerPC
    <2>3. UNCHANGED <<queueLock, crashed, order>>
      BY DEF WorkerLockResult, locks, history
    <2>. QED
      BY Parts, <1>1, <2>1, <2>2, <2>3 DEF TypeOK
  <1>4. SubInv'
    <2>1. SubCaller'
      BY Parts, <1>1, <1>2, Threads, JobAssumption DEF SubCaller
    <2>2. SubTest'
      <3>1. ASSUME NEW d \in Caller, sub'[d].pc = "test"
            PROVE  /\ sub'[d] = sub[d] /\ infoLock'[sub[d].i] \in {infoLock[sub[d].i], Absent}
                   /\ thr'[sub[d].i].pc # "start"
        <4>1. /\ sub'[d] = sub[d] /\ sub[d].pc = "test" /\ sub[d].i \in Worker
              /\ infoLock[sub[d].i] \in {d, Absent} /\ thr[sub[d].i].pc # "start"
          BY Parts, <3>1, <1>1 DEF SubTest
        <4>2. /\ d = Main => main.pc \in {"idle", "callback"}
              /\ d \in Worker => thr[d].pc \in {"run", "dead"}
          BY Parts, <4>1 DEF SubCaller
        <4>. QED
          BY <4>1, <4>2, <1>1, <1>2, Threads
      <3>. QED
        BY Parts, <1>1, <3>1, SubTestKept
    <2>3. SubJob' /\ SubOnce'
      BY Parts, <1>1 DEF SubJob, SubOnce, Created
    <2>. QED
      BY <2>1, <2>2, <2>3 DEF SubInv
  <1>5. InfoInv'
    BY Parts, <1>1, <1>2, Threads, JobAssumption DEF InfoInv, InfoJob, Created,
       InfoNotInCall, InfoNotQueued, InfoNew, InfoOnce
  <1>6. ThrInv'
    <2>1. ThrJob'
      BY Parts, <1>1, <1>2, Threads, JobAssumption DEF ThrJob
    <2>2. ThrLock'
      BY Parts, <1>1, <1>2, Threads, JobAssumption DEF ThrLock
    <2>3. ThrEnd'
      BY Parts, <1>1, <1>2, Threads, JobAssumption DEF ThrEnd
    <2>4. ThrRun'
      BY Parts, <1>1, <1>2, Threads, JobAssumption DEF ThrRun
    <2>5. ThrStore'
      BY Parts, <1>1, <1>2, Threads, JobAssumption DEF ThrStore, CallbackWanted
    <2>. QED
      BY <2>1, <2>2, <2>3, <2>4, <2>5 DEF ThrInv
  <1>7. QueueInv' /\ MainInv' /\ ResultInv' /\ HistInv'
    BY Parts, <1>1 DEF QueueInv, QueuedNew, QueuedNotInCall, QueuedOnce, MainInv, MainUp,
       MainPeeked, MainThread, MainFree, MainSlot, ResultInv, ResultFree, ResultJob,
       ResultCalled, ResultOnce, HistInv, CallbackWanted, Created
  <1>. QED
    BY <1>3, <1>4, <1>5, <1>6, <1>7 DEF IInv

\* store_result writes a free entry, or forgets the result.
LEMMA WorkerStoreStep ==
  ASSUME IInv, NEW w \in Worker, WorkerStore(w)
  PROVE  IInv'
  <1>1. UNCHANGED <<phase, info, queue, infoLock, jobs, sub, main>>
    BY DEF WorkerStore, locks, history
  <1>2. /\ thr[w].pc = "store" /\ thr'[w].pc = "resetWait" /\ thr'[w].job = thr[w].job
        /\ \A y \in Worker : y # w => thr'[y] = thr[y]
    BY Parts, GoesAt DEF WorkerStore
  <1>3. /\ thr[w].job \in Job /\ thr[w].job # NoJob /\ info[w] = thr[w].job
        /\ hist[thr[w].job].outcome # "none" /\ hist[thr[w].job].callbacks = <<>>
        /\ CallbackWanted(thr[w].job, hist[thr[w].job].outcome)
        /\ \A i \in Slot : results[i].job # thr[w].job
    BY Parts, <1>2, JobAssumption DEF ThrJob, ThrStore, TypeOK, ThrState
  <1>4. hist' = hist \/ hist' = [hist EXCEPT ![thr[w].job].dropped = TRUE]
    BY DEF WorkerStore
  <1>5. \A k \in Job : /\ hist'[k].starts = hist[k].starts /\ hist'[k].outcome = hist[k].outcome
                        /\ hist'[k].callbacks = hist[k].callbacks
    <2>1. hist \in [Job -> JobHistory]
      BY Parts DEF TypeOK
    <2>. QED
      BY <1>3, <1>4, <2>1, DroppedAt
  <1>6. \/ results' = results
        \/ \E s \in Slot :
             /\ results[s] = NoResult
             /\ results' = [results EXCEPT ![s] = [job |-> thr[w].job, outcome |-> hist[thr[w].job].outcome]]
    BY DEF WorkerStore, FirstFree
  <1>7. \/ results' = results
        \/ \E s \in Slot :
             /\ results[s] = NoResult /\ results'[s].job = thr[w].job
             /\ results'[s].outcome = hist[thr[w].job].outcome
             /\ \A y \in Slot : y # s => results'[y] = results[y]
    <2>1. ASSUME NEW s \in Slot, results[s] = NoResult,
                 results' = [results EXCEPT ![s] = [job |-> thr[w].job, outcome |-> hist[thr[w].job].outcome]]
          PROVE  /\ results'[s].job = thr[w].job /\ results'[s].outcome = hist[thr[w].job].outcome
                 /\ \A y \in Slot : y # s => results'[y] = results[y]
      BY Parts, <2>1 DEF TypeOK
    <2>. QED
      BY <1>6, <2>1
  <1>8. TypeOK'
    <2>1. results' \in [Slot -> ResultEntry]
      <3>1. [job |-> thr[w].job, outcome |-> hist[thr[w].job].outcome] \in ResultEntry
        BY Parts, <1>3, HistType DEF ResultEntry
      <3>. QED
        BY Parts, <1>6, <3>1 DEF TypeOK
    <2>2. resultLock' \in Mutex
      BY Parts, Threads DEF TypeOK, WorkerStore, UnlockResult, Released
    <2>3. thr' \in [Worker -> ThrState]
      BY Parts, GoesType DEF TypeOK, WorkerStore, WorkerPC
    <2>4. hist' \in [Job -> JobHistory]
      BY Parts, <1>3, <1>4, DroppedAt DEF TypeOK
    <2>5. UNCHANGED <<queueLock, crashed, order>>
      BY DEF WorkerStore, locks, history
    <2>. QED
      BY Parts, <1>1, <2>1, <2>2, <2>3, <2>4, <2>5 DEF TypeOK
  <1>9. SubInv'
    <2>1. SubJob'
      BY Parts, <1>1, <1>3, <1>4, <1>5, <1>6, <1>7, SubType, HistType DEF SubJob, Created
    <2>2. SubCaller'
      BY Parts, <1>1, <1>2, <1>3, <1>4, <1>6, <1>7, Threads, SubType, ThrType, MainType
         DEF SubCaller
    <2>3. SubTest'
      <3>1. ASSUME NEW d \in Caller, sub'[d].pc = "test"
            PROVE  /\ sub'[d] = sub[d] /\ infoLock'[sub[d].i] \in {infoLock[sub[d].i], Absent}
                   /\ thr'[sub[d].i].pc # "start"
        <4>1. /\ sub'[d] = sub[d] /\ sub[d].pc = "test" /\ sub[d].i \in Worker
              /\ infoLock[sub[d].i] \in {d, Absent} /\ thr[sub[d].i].pc # "start"
          BY Parts, <3>1, <1>1 DEF SubTest
        <4>2. /\ d = Main => main.pc \in {"idle", "callback"}
              /\ d \in Worker => thr[d].pc \in {"run", "dead"}
          BY Parts, <4>1 DEF SubCaller
        <4>. QED
          BY <4>1, <4>2, <1>1, <1>2, Threads
      <3>. QED
        BY Parts, <1>1, <3>1, SubTestKept
    <2>4. SubOnce'
      BY Parts, <1>1 DEF SubOnce
    <2>. QED
      BY <2>1, <2>2, <2>3, <2>4 DEF SubInv
  <1>10. QueueInv'
    BY Parts, <1>1, <1>3, <1>4, <1>5, <1>6, <1>7, QueueType, HistType DEF QueueInv,
       QueuedNew, Created, QueuedNotInCall, QueuedOnce
  <1>11. InfoInv'
    BY Parts, <1>1, <1>2, <1>3, <1>4, <1>5, <1>6, <1>7, ThrType, HistType DEF InfoInv,
       InfoJob, Created, InfoNotInCall, InfoNotQueued, InfoNew, InfoOnce
  <1>12. ThrInv'
    <2>1. ThrJob'
      BY Parts, <1>1, <1>2, <1>3, <1>4, <1>6, <1>7, ThrType, Threads, <1>5, HistType,
         ResultType DEF ThrJob, InfoOnce
    <2>2. ThrLock'
      BY Parts, <1>1, <1>2, <1>3, <1>4, <1>6, <1>7, ThrType, Threads, <1>5, HistType,
         ResultType DEF ThrLock, InfoOnce
    <2>3. ThrEnd'
      BY Parts, <1>1, <1>2, <1>3, <1>4, <1>6, <1>7, ThrType, Threads, <1>5, HistType,
         ResultType DEF ThrEnd, InfoOnce
    <2>4. \A y \in Worker : y # w /\ thr[y].job # NoJob =>
             thr[y].job \in Job /\ thr[y].job # thr[w].job
      BY Parts, <1>3, ThrType DEF ThrJob, InfoOnce
    <2>5. ThrRun'
      BY Parts, <1>2, <1>5, <2>4 DEF ThrRun, ThrJob
    <2>6. ThrStore'
      BY Parts, <1>1, <1>2, <1>5, <1>7, <2>4 DEF ThrStore, ThrJob, CallbackWanted
    <2>. QED
      BY <2>1, <2>2, <2>3, <2>5, <2>6 DEF ThrInv
  <1>13. ResultInv'
    <2>1. ResultFree'
      BY Parts, <1>1, <1>3, <1>6, <1>7, ResultType, <1>4, <1>5, HistType, MainType DEF
         ResultFree
    <2>2. ResultJob'
      BY Parts, <1>1, <1>3, <1>6, <1>7, ResultType, <1>4, <1>5, HistType, MainType DEF
         ResultJob, CallbackWanted
    <2>3. ResultCalled'
      BY Parts, <1>1, <1>3, <1>6, <1>7, ResultType, <1>4, <1>5, HistType, MainType DEF
         ResultCalled
    <2>4. ResultOnce'
      BY Parts, <1>1, <1>3, <1>6, <1>7, ResultType, <1>4, <1>5, HistType, MainType DEF
         ResultOnce
    <2>. QED
      BY <2>1, <2>2, <2>3, <2>4 DEF ResultInv
  <1>14. HistInv'
    BY Parts, <1>1, <1>3, <1>4, <1>5, <1>6, <1>7, HistType DEF HistInv, Created,
       CallbackWanted
  <1>15. MainInv'
    BY Parts, <1>1 DEF MainInv, MainUp, MainPeeked, MainThread, MainFree, MainSlot
  <1>. QED
    BY <1>8, <1>9, <1>10, <1>11, <1>12, <1>13, <1>14, <1>15 DEF IInv

\* A job thread is idle again.
LEMMA WorkerResetStep ==
  ASSUME IInv, NEW w \in Worker, WorkerReset(w)
  PROVE  IInv'
  <1>1. UNCHANGED <<phase, queue, results, jobs, sub, main, hist>>
    BY DEF WorkerReset, locks, history
  <1>2. /\ thr[w].pc = "reset" /\ thr'[w].pc = "tail" /\ thr'[w].job = NoJob
        /\ \A y \in Worker : y # w => thr'[y] = thr[y]
    BY Parts DEF TypeOK, WorkerReset
  <1>3. /\ info'[w] = NoJob
        /\ \A y \in Worker : y # w => info'[y] = info[y]
    BY Parts DEF TypeOK, WorkerReset
  <1>4. /\ infoLock[w] = w /\ infoLock'[w] = Free
        /\ \A y \in Worker : y # w => infoLock'[y] = infoLock[y]
    BY Parts, <1>2, Threads DEF TypeOK, WorkerReset, UnlockInfo, Released, ThrLock
  <1>5. TypeOK'
    <2>1. info' \in [Worker -> Job \cup {NoJob}]
      BY Parts DEF TypeOK, WorkerReset
    <2>2. infoLock' \in [Worker -> Mutex]
      BY Parts, Threads DEF TypeOK, WorkerReset, UnlockInfo, Released
    <2>3. thr' \in [Worker -> ThrState]
      BY Parts, ThrUpdate DEF TypeOK, WorkerReset, WorkerPC
    <2>4. UNCHANGED <<queueLock, resultLock, crashed, order>>
      BY DEF WorkerReset, locks, history
    <2>. QED
      BY Parts, <1>1, <2>1, <2>2, <2>3, <2>4 DEF TypeOK
  <1>6. SubInv'
    <2>1. SubCaller'
      BY Parts, <1>1, <1>2, <1>3, <1>4, Threads, JobAssumption DEF SubCaller
    <2>2. SubTest'
      <3>1. ASSUME NEW d \in Caller, sub'[d].pc = "test"
            PROVE  /\ sub'[d] = sub[d] /\ infoLock'[sub[d].i] \in {infoLock[sub[d].i], Absent}
                   /\ thr'[sub[d].i].pc # "start"
        <4>1. /\ sub'[d] = sub[d] /\ sub[d].pc = "test" /\ sub[d].i \in Worker
              /\ infoLock[sub[d].i] \in {d, Absent} /\ thr[sub[d].i].pc # "start"
          BY Parts, <3>1, <1>1 DEF SubTest
        <4>2. /\ d = Main => main.pc \in {"idle", "callback"}
              /\ d \in Worker => thr[d].pc \in {"run", "dead"}
          BY Parts, <4>1 DEF SubCaller
        <4>. QED
          BY <4>1, <4>2, <1>1, <1>2, <1>4, Threads
      <3>. QED
        BY Parts, <1>1, <3>1, SubTestKept
    <2>3. SubJob' /\ SubOnce'
      BY Parts, <1>1 DEF SubJob, SubOnce, Created
    <2>. QED
      BY <2>1, <2>2, <2>3 DEF SubInv
  <1>7. InfoInv'
    BY Parts, <1>1, <1>2, <1>3, <1>4, Threads, JobAssumption DEF InfoInv, InfoJob,
       Created, InfoNotInCall, InfoNotQueued, InfoNew, InfoOnce
  <1>8. ThrInv'
    BY Parts, <1>2, <1>3, <1>1, <1>4, Threads, JobAssumption DEF ThrInv, ThrJob, ThrLock,
       ThrEnd, ThrRun, ThrStore, CallbackWanted
  <1>9. MainInv'
    BY Parts, <1>1, <1>2, <1>3, <1>4, Threads, JobAssumption DEF MainInv, MainUp,
       MainPeeked, MainThread, MainFree, MainSlot
  <1>10. QueueInv' /\ ResultInv' /\ HistInv'
    BY Parts, <1>1 DEF QueueInv, QueuedNew, QueuedNotInCall, QueuedOnce, ResultInv,
       ResultFree, ResultJob, ResultCalled, ResultOnce, HistInv, CallbackWanted, Created
  <1>. QED
    BY <1>5, <1>6, <1>7, <1>8, <1>9, <1>10 DEF IInv

\* A cancelled job thread ends.
LEMMA WorkerCancelledStep ==
  ASSUME IInv, NEW w \in Worker, WorkerCancelled(w)
  PROVE  IInv'
  <1>1. UNCHANGED <<phase, info, queue, results, infoLock, jobs, sub, main, hist>>
    BY DEF WorkerCancelled, locks, history
  <1>2. PICK from \in {"tail", "run"} :
        /\ phase # "up" /\ thr[w].pc = from /\ thr'[w].pc = "dead" /\ thr'[w].job = thr[w].job
        /\ \A y \in Worker : y # w => thr'[y] = thr[y]
    BY Parts, GoesAt DEF WorkerCancelled
  <1>3. TypeOK'
    <2>1. thr' \in [Worker -> ThrState]
      BY Parts, GoesType DEF TypeOK, WorkerCancelled, WorkerPC
    <2>2. UNCHANGED <<queueLock, resultLock, crashed, order>>
      BY DEF WorkerCancelled, locks, history
    <2>. QED
      BY Parts, <1>1, <2>1, <2>2 DEF TypeOK
  <1>4. SubInv'
    <2>1. SubCaller'
      BY Parts, <1>1, <1>2, Threads, JobAssumption DEF SubCaller
    <2>2. SubTest'
      <3>1. ASSUME NEW d \in Caller, sub'[d].pc = "test"
            PROVE  /\ sub'[d] = sub[d] /\ infoLock'[sub[d].i] \in {infoLock[sub[d].i], Absent}
                   /\ thr'[sub[d].i].pc # "start"
        <4>1. /\ sub'[d] = sub[d] /\ sub[d].pc = "test" /\ sub[d].i \in Worker
              /\ infoLock[sub[d].i] \in {d, Absent} /\ thr[sub[d].i].pc # "start"
          BY Parts, <3>1, <1>1 DEF SubTest
        <4>2. /\ d = Main => main.pc \in {"idle", "callback"}
              /\ d \in Worker => thr[d].pc \in {"run", "dead"}
          BY Parts, <4>1 DEF SubCaller
        <4>. QED
          BY <4>1, <4>2, <1>1, <1>2, Threads
      <3>. QED
        BY Parts, <1>1, <3>1, SubTestKept
    <2>3. SubJob' /\ SubOnce'
      BY Parts, <1>1 DEF SubJob, SubOnce, Created
    <2>. QED
      BY <2>1, <2>2, <2>3 DEF SubInv
  <1>5. InfoInv'
    BY Parts, <1>1, <1>2, Threads, JobAssumption DEF InfoInv, InfoJob, Created,
       InfoNotInCall, InfoNotQueued, InfoNew, InfoOnce
  <1>6. ThrInv'
    <2>1. ThrJob'
      BY Parts, <1>1, <1>2, Threads, JobAssumption DEF ThrJob
    <2>2. ThrLock'
      BY Parts, <1>1, <1>2, Threads, JobAssumption DEF ThrLock
    <2>3. ThrEnd'
      BY Parts, <1>1, <1>2, Threads, JobAssumption DEF ThrEnd
    <2>4. ThrRun'
      BY Parts, <1>1, <1>2, Threads, JobAssumption DEF ThrRun
    <2>5. ThrStore'
      BY Parts, <1>1, <1>2, Threads, JobAssumption DEF ThrStore, CallbackWanted
    <2>. QED
      BY <2>1, <2>2, <2>3, <2>4, <2>5 DEF ThrInv
  <1>7. QueueInv' /\ MainInv' /\ ResultInv' /\ HistInv'
    BY Parts, <1>1 DEF QueueInv, QueuedNew, QueuedNotInCall, QueuedOnce, MainInv, MainUp,
       MainPeeked, MainThread, MainFree, MainSlot, ResultInv, ResultFree, ResultJob,
       ResultCalled, ResultOnce, HistInv, CallbackWanted, Created
  <1>. QED
    BY <1>3, <1>4, <1>5, <1>6, <1>7 DEF IInv

-----------------------------------------------------------------------------
\* A crash changes nothing but its mark.
LEMMA CrashStep ==
  ASSUME IInv, Crash
  PROVE  IInv'
  <1>1. UNCHANGED <<phase, info, queue, results, infoLock, jobs, sub, main, thr, hist>>
    BY DEF Crash, locks, history
  <1>2. TypeOK'
    <2>1. crashed' \in BOOLEAN /\ UNCHANGED <<queueLock, resultLock, order>>
      BY DEF Crash, locks, history
    <2>. QED
      BY Parts, <1>1, <2>1 DEF TypeOK
  <1>3. SubInv' /\ QueueInv' /\ InfoInv'
    BY Parts, <1>1 DEF SubInv, SubJob, SubOnce, SubCaller, SubTest, QueueInv, QueuedNew,
       QueuedNotInCall, QueuedOnce, InfoInv, InfoJob, InfoNotInCall, InfoNotQueued,
       InfoNew, InfoOnce, Created
  <1>4. ThrInv' /\ MainInv'
    BY Parts, <1>1 DEF ThrInv, ThrJob, ThrLock, ThrEnd, ThrRun, ThrStore, CallbackWanted,
       MainInv, MainUp, MainPeeked, MainThread, MainFree, MainSlot
  <1>5. ResultInv' /\ HistInv'
    BY Parts, <1>1 DEF ResultInv, ResultFree, ResultJob, ResultCalled, ResultOnce,
       HistInv, CallbackWanted, Created
  <1>. QED
    BY <1>2, <1>3, <1>4, <1>5 DEF IInv

\* A step that changes nothing keeps the invariant.
LEMMA StutterStep ==
  ASSUME IInv, UNCHANGED vars
  PROVE  IInv'
  <1>1. UNCHANGED <<phase, info, queue, results, infoLock, queueLock, resultLock, jobs,
                    sub, main, thr, crashed, hist, order>>
    BY DEF vars, locks, history
  <1>2. TypeOK' /\ SubInv' /\ QueueInv' /\ InfoInv'
    BY Parts, <1>1 DEF TypeOK, SubInv, SubJob, SubOnce, SubCaller, SubTest, QueueInv,
       QueuedNew, QueuedNotInCall, QueuedOnce, InfoInv, InfoJob, InfoNotInCall,
       InfoNotQueued, InfoNew, InfoOnce, Created
  <1>3. ThrInv' /\ MainInv' /\ ResultInv' /\ HistInv'
    BY Parts, <1>1 DEF ThrInv, ThrJob, ThrLock, ThrEnd, ThrRun, ThrStore, CallbackWanted,
       MainInv, MainUp, MainPeeked, MainThread, MainFree, MainSlot, ResultInv,
       ResultFree, ResultJob, ResultCalled, ResultOnce, HistInv, Created
  <1>. QED
    BY <1>2, <1>3 DEF IInv

\* After job_system_init the invariant holds.
LEMMA InitInv == Init => IInv
  <1> SUFFICES ASSUME Init PROVE IInv
    OBVIOUS
  <1>1. TypeOK
    <2>1. phase \in Phase /\ crashed \in BOOLEAN /\ info \in [Worker -> Job \cup {NoJob}]
      BY DEF Init, Phase
    <2>2. queue \in [Priority -> Seq(Job)] /\ order \in Seq(Job)
      BY DEF Init
    <2>3. results \in [Slot -> ResultEntry]
      BY DEF Init, ResultEntry, NoResult, Outcome
    <2>4. /\ infoLock \in [Worker -> Mutex] /\ queueLock \in [Priority -> Mutex]
          /\ resultLock \in Mutex
      BY Threads DEF Init
    <2>5. jobs \in [Job -> JobInfo \cup {NoInfo}]
      BY DEF Init
    <2>6. sub \in [Caller -> SubState]
      BY DEF Init, SubState, SubmitPC
    <2>7. main \in MainState
      BY DEF Init, MainState, MainPC, Priority
    <2>8. thr \in [Worker -> ThrState]
      BY DEF Init, ThrState, WorkerPC
    <2>9. hist \in [Job -> JobHistory]
      BY DEF Init, JobHistory, Outcome
    <2>. QED
      BY <2>1, <2>2, <2>3, <2>4, <2>5, <2>6, <2>7, <2>8, <2>9 DEF TypeOK
  <1>2. SubInv
    BY Threads DEF Init, SubInv, SubJob, SubOnce, SubCaller, SubTest
  <1>3. QueueInv
    BY DEF Init, QueueInv, QueuedNew, QueuedNotInCall, QueuedOnce
  <1>4. InfoInv
    BY DEF Init, InfoInv, InfoJob, InfoNotInCall, InfoNotQueued, InfoNew, InfoOnce
  <1>5. ThrInv
    BY DEF Init, ThrInv, ThrJob, ThrLock, ThrEnd, ThrRun, ThrStore
  <1>6. MainInv
    BY DEF Init, MainInv, MainUp, MainPeeked, MainThread, MainFree, MainSlot
  <1>7. ResultInv
    BY DEF Init, NoResult, ResultInv, ResultFree, ResultJob, ResultCalled, ResultOnce
  <1>8. HistInv
    BY DEF Init, HistInv
  <1>. QED
    BY <1>1, <1>2, <1>3, <1>4, <1>5, <1>6, <1>7, <1>8 DEF IInv

\* Every step keeps the invariant.
LEMMA NextInv == IInv /\ [Next]_vars => IInv'
  <1> SUFFICES ASSUME IInv, [Next]_vars PROVE IInv'
    OBVIOUS
  <1>1. ASSUME NEW c \in Caller, Submit(c) PROVE IInv'
    BY <1>1, SubmitCallStep, SubmitLockInfoStep, SubmitTestStep, SubmitNoThreadStep,
       SubmitLockQueueStep, SubmitEnqueueStep DEF Submit
  <1>2. ASSUME Update PROVE IInv'
    BY <1>2, UpdateCallStep, PeekStep, FindLockInfoStep, FindBusyStep, FindNoneStep,
       FindLockQueueStep, AssignStep, ResultLockStep, UpdateReturnStep, ResultCopyStep,
       CallbackReturnStep, ClearLockStep, ClearResultStep DEF Update
  <1>3. ASSUME NEW w \in Worker, Work(w) PROVE IInv'
    BY <1>3, WorkerStartStep, WorkerExitStep, WorkerCheckStep, WorkerLockInfoStep,
       WorkerPollStep, WorkerFinishStep, WorkerLockResultStep, WorkerStoreStep,
       WorkerResetStep, WorkerCancelledStep DEF Work
  <1>4. CASE UNCHANGED vars
    BY <1>4, StutterStep
  <1>. QED
    BY <1>1, <1>2, <1>3, <1>4, ShutdownStep, CrashStep DEF Next, Step, Halted

-----------------------------------------------------------------------------
\* The invariant holds in every reachable state.
THEOREM InvariantHolds == Spec => []IInv
  BY InitInv, NextInv, PTL DEF Spec

\* Type correctness: info, queues, results, mutexes and calls keep their types.
THEOREM TypeCorrect == Spec => []TypeOK
  <1>1. IInv => TypeOK
    BY Parts
  <1>. QED
    BY <1>1, InvariantHolds, PTL

\* A job thread runs only jobs of the types in its mask, whoever assigned them.
THEOREM RightThreadHolds == Spec => []RightThread
  <1>1. IInv => RightThread
    BY Parts DEF RightThread, ThrJob, InfoJob
  <1>. QED
    BY <1>1, InvariantHolds, PTL

\* A job is started at most once, and at most one callback is called for it.
THEOREM AtMostOnceHolds == Spec => []AtMostOnce
  <1>1. ASSUME IInv, NEW j \in Job PROVE hist[j].starts <= 1 /\ Len(hist[j].callbacks) <= 1
    <2>1. HistInv
      BY <1>1, Parts
    <2>2. hist[j].starts <= 1
      BY <2>1 DEF HistInv
    <2>3. Len(<<>>) <= 1 /\ Len(<<hist[j].outcome>>) <= 1
      OBVIOUS
    <2>4. hist[j].callbacks = <<>> \/ hist[j].callbacks = <<hist[j].outcome>>
      BY <2>1 DEF HistInv
    <2>. QED
      BY <2>2, <2>3, <2>4
  <1>2. IInv => AtMostOnce
    BY <1>1 DEF AtMostOnce
  <1>. QED
    BY <1>2, InvariantHolds, PTL

\* The callback of a job is the one for what its entry point returned.
THEOREM CallbackIsOutcomeHolds == Spec => []CallbackIsOutcome
  <1>1. IInv => CallbackIsOutcome
    BY Parts DEF CallbackIsOutcome, HistInv
  <1>. QED
    BY <1>1, InvariantHolds, PTL

\* One answer at most, and the right one.
THEOREM AnsweredOnceHolds == Spec => []AnsweredOnce
  BY AtMostOnceHolds, CallbackIsOutcomeHolds, PTL DEF AnsweredOnce

-----------------------------------------------------------------------------
(***************************************************************************)
(* What a step can do to the jobs.  Most steps take or release a mutex or  *)
(* look for a thread: they move a thread from one line to another and      *)
(* leave every job where it is.  They are treated as one case in the       *)
(* proofs that follow.                                                     *)
(***************************************************************************)
Scans(pc) == pc \in {"scan", "test"}
Stores(pc) == pc \in {"storeWait", "store"}
Resets(pc) == pc \in {"resetWait", "reset"}
Answers(pc) == pc \in {"callback", "clearWait", "clear"}

JobsStay ==
  /\ UNCHANGED <<info, queue, results, jobs, hist, order>>
  /\ \A c \in Caller : sub'[c].job = sub[c].job /\ (Scans(sub'[c].pc) => Scans(sub[c].pc))
  /\ \A w \in Worker : /\ thr'[w].job = thr[w].job
                       /\ thr'[w].pc = "run" <=> thr[w].pc = "run"
                       /\ Stores(thr'[w].pc) <=> Stores(thr[w].pc)
                       /\ Resets(thr'[w].pc) => Resets(thr[w].pc)
  /\ Answers(main'.pc) => Answers(main.pc) /\ main'.slot = main.slot


UpStays == UNCHANGED <<phase, crashed>>

\* The steps that move a job, and the shutdown.
Submits == \E c \in Caller : SubmitCall(c)
HandsOver == \E c \in Caller : SubmitTest(c) /\ info[sub[c].i] = NoJob
Enqueues == \E c \in Caller : SubmitEnqueue(c)
CallsBack == ResultCopy /\ results[main.slot] # NoResult
Begins == \E w \in Worker : WorkerPoll(w) /\ info[w] # NoJob
Finishes == \E w \in Worker : WorkerFinish(w)
StoresResult == \E w \in Worker : WorkerStore(w)
BecomesIdle == \E w \in Worker : WorkerReset(w)
EndsInJob == \E w \in Worker : WorkerCancelled(w) /\ thr[w].pc = "run"

\* A step of a call that changes the line of its thread only.
LEMMA CallStays ==
  ASSUME IInv, NEW c \in Caller, NEW pc, NEW i, Calls(c, pc, sub[c].job, i),
         Scans(pc) => Scans(sub[c].pc),
         UNCHANGED <<info, queue, results, jobs, hist, order, thr, main>>
  PROVE  JobsStay
  <1>1. TypeOK
    BY Parts
  <1>2. /\ sub'[c].pc = pc /\ sub'[c].job = sub[c].job
        /\ \A d \in Caller : d # c => sub'[d] = sub[d]
    BY <1>1, CallsAt
  <1>3. \A d \in Caller : sub'[d].job = sub[d].job /\ (Scans(sub'[d].pc) => Scans(sub[d].pc))
    BY <1>2
  <1>. QED
    BY <1>3 DEF JobsStay

\* A step of the main thread that begins no callback.
LEMMA MainStays ==
  ASSUME UNCHANGED <<info, queue, results, jobs, hist, order, sub, thr>>,
         Answers(main'.pc) => Answers(main.pc) /\ main'.slot = main.slot
  PROVE  JobsStay
  BY DEF JobsStay

\* A step of a job thread from one line to another of the same kind.
LEMMA ThreadStays ==
  ASSUME IInv, NEW w \in Worker, NEW from, NEW to, Goes(w, from, to),
         from = "run" <=> to = "run", Stores(from) <=> Stores(to), Resets(to) => Resets(from),
         UNCHANGED <<info, queue, results, jobs, hist, order, sub, main>>
  PROVE  JobsStay
  <1>1. /\ thr[w].pc = from /\ thr'[w].pc = to /\ thr'[w].job = thr[w].job
        /\ \A v \in Worker : v # w => thr'[v] = thr[v]
    BY Parts, GoesAt
  <1>. QED
    BY <1>1 DEF JobsStay

\* The steps of job_system_submit.
LEMMA SubmitCases ==
  ASSUME IInv, NEW c \in Caller, Submit(c)
  PROVE  UpStays /\ (JobsStay \/ Submits \/ HandsOver \/ Enqueues)
  <1>1. ASSUME SubmitLockInfo(c) PROVE JobsStay
    <2>1. PICK i \in Worker : Calls(c, "test", sub[c].job, i)
      BY <1>1 DEF SubmitLockInfo
    <2>. QED
      BY <1>1, <2>1, CallStays DEF SubmitLockInfo, Scans, history
  <1>2. ASSUME SubmitTest(c), info[sub[c].i] # NoJob PROVE JobsStay
    <2>1. /\ Calls(c, "scan", sub[c].job, sub[c].i + 1) /\ sub[c].pc = "test"
          /\ UNCHANGED <<info, queue, results, jobs, hist, order, thr, main>>
      BY <1>2 DEF SubmitTest
    <2>. QED
      BY <2>1, CallStays DEF Scans
  <1>3. ASSUME SubmitNoThread(c) PROVE JobsStay
    BY <1>3, CallStays DEF SubmitNoThread, Scans, history
  <1>4. ASSUME SubmitLockQueue(c) PROVE JobsStay
    BY <1>4, CallStays, SMTT(30) DEF SubmitLockQueue, Scans, history
  <1>5. UpStays
    BY Zenon DEF Submit, SubmitCall, SubmitLockInfo, SubmitTest, SubmitNoThread, SubmitLockQueue,
           SubmitEnqueue, UpStays
  <1>. QED
    BY <1>1, <1>2, <1>3, <1>4, <1>5 DEF Submit, Submits, HandsOver, Enqueues

\* The steps of job_system_update.
LEMMA UpdateCases ==
  ASSUME IInv, Update
  PROVE  UpStays /\ (JobsStay \/ Assign \/ CallsBack \/ ClearResult)
  <1>0. main \in MainState
    BY Parts DEF TypeOK
  <1>1. UpStays
    BY Zenon DEF Update, UpdateCall, Peek, FindLockInfo, FindBusy, FindNone, FindLockQueue, Assign,
           ResultLock, UpdateReturn, ResultCopy, CallbackReturn, ClearLock, ClearResult, UpStays
  <1>2. NextQueue.pc \in {"peek", "result"}
    BY <1>0 DEF NextQueue, MainState
  <1>3. ASSUME UpdateCall \/ Peek \/ FindLockInfo \/ FindBusy PROVE JobsStay
    <2>1. main'.pc \in {"peek", "result", "find", "test"}
      BY <1>0, <1>2, <1>3 DEF UpdateCall, Peek, FindLockInfo, FindBusy, MainState
    <2>2. UNCHANGED <<info, queue, results, jobs, hist, order, sub, thr>>
      BY <1>3 DEF UpdateCall, Peek, FindLockInfo, FindBusy, history
    <2>. QED
      BY <2>1, <2>2, MainStays DEF Answers
  <1>4. ASSUME FindNone \/ FindLockQueue \/ ResultLock \/ UpdateReturn PROVE JobsStay
    <2>1. main'.pc \in {"peek", "result", "assign", "copy", "idle"}
      BY <1>0, <1>2, <1>4 DEF FindNone, FindLockQueue, ResultLock, UpdateReturn, MainState
    <2>2. UNCHANGED <<info, queue, results, jobs, hist, order, sub, thr>>
      BY <1>4 DEF FindNone, FindLockQueue, ResultLock, UpdateReturn, history
    <2>. QED
      BY <2>1, <2>2, MainStays DEF Answers
  <1>5. ASSUME CallbackReturn \/ ClearLock PROVE JobsStay
    <2>1. Answers(main.pc) /\ main'.slot = main.slot
      BY <1>0, <1>5 DEF CallbackReturn, ClearLock, MainState, Answers
    <2>2. UNCHANGED <<info, queue, results, jobs, hist, order, sub, thr>>
      BY <1>5 DEF CallbackReturn, ClearLock, history
    <2>. QED
      BY <2>1, <2>2, MainStays
  <1>6. ASSUME ResultCopy, results[main.slot] = NoResult PROVE JobsStay
    <2>1. main'.pc = "result"
      BY <1>0, <1>6 DEF ResultCopy, MainState
    <2>2. UNCHANGED <<info, queue, results, jobs, hist, order, sub, thr>>
      BY <1>6 DEF ResultCopy
    <2>. QED
      BY <2>1, <2>2, MainStays DEF Answers
  <1>. QED
    BY <1>1, <1>3, <1>4, <1>5, <1>6, SMTT(30) DEF Update, CallsBack

\* The steps of job_thread_run.
LEMMA WorkCases ==
  ASSUME IInv, NEW w \in Worker, Work(w)
  PROVE  UpStays /\ (JobsStay \/ Begins \/ Finishes \/ StoresResult \/ BecomesIdle \/ EndsInJob)
  <1>1. UpStays
    BY DEF Work, WorkerStart, WorkerExit, WorkerCheck, WorkerLockInfo, WorkerPoll, WorkerFinish,
           WorkerLockResult, WorkerStore, WorkerReset, WorkerCancelled, UpStays
  <1>2. ASSUME NEW from, NEW to, Goes(w, from, to),
               \/ from \in {"start", "exit", "check", "tail", "pollWait"}
                  /\ to \in {"check", "dead", "pollWait", "exit", "poll"}
               \/ from = "resetWait" /\ to = "reset"
               \/ from = "storeWait" /\ to = "store",
               UNCHANGED <<info, queue, results, jobs, hist, order, sub, main>>
        PROVE  JobsStay
    BY <1>2, ThreadStays DEF Scans, Stores, Resets
  <1>3. ASSUME WorkerStart(w) \/ WorkerExit(w) \/ WorkerCheck(w) \/ WorkerLockInfo(w)
               \/ WorkerLockResult(w)
        PROVE  JobsStay
    <2>1. UNCHANGED <<info, queue, results, jobs, hist, order, sub, main>>
      BY <1>3 DEF WorkerStart, WorkerExit, WorkerCheck, WorkerLockInfo, WorkerLockResult, history
    <2>2. \/ Goes(w, "start", "check") \/ Goes(w, "exit", "dead") \/ Goes(w, "check", "pollWait")
          \/ Goes(w, "check", "exit") \/ Goes(w, "tail", "check") \/ Goes(w, "tail", "exit")
          \/ Goes(w, "pollWait", "poll") \/ Goes(w, "resetWait", "reset")
          \/ Goes(w, "storeWait", "store")
      BY <1>3 DEF WorkerStart, WorkerExit, WorkerCheck, WorkerLockInfo, WorkerLockResult
    <2>. QED
      BY <1>2, <2>1, <2>2
  <1>4. ASSUME WorkerCancelled(w), thr[w].pc # "run" PROVE JobsStay
    BY <1>2, <1>4 DEF WorkerCancelled, Goes, history
  <1>5. ASSUME WorkerPoll(w), info[w] = NoJob PROVE JobsStay
    <2>1. /\ thr[w].pc = "poll" /\ thr' = [thr EXCEPT ![w] = [pc |-> "tail", job |-> NoJob]]
          /\ UNCHANGED <<info, queue, results, jobs, hist, order, sub, main>>
      BY <1>5 DEF WorkerPoll
    <2>2. thr[w].job = NoJob /\ thr \in [Worker -> ThrState]
      BY Parts, <2>1 DEF ThrJob, TypeOK
    <2>. QED
      BY <2>1, <2>2 DEF JobsStay, Stores, Resets
  <1>. QED
    BY <1>1, <1>3, <1>4, <1>5 DEF Work, Begins, Finishes, StoresResult, BecomesIdle, EndsInJob

\* Every step is one of these.
LEMMA NextCases ==
  ASSUME IInv, [Next]_vars
  PROVE  \/ JobsStay /\ (UpStays \/ phase' # "up" \/ crashed')
         \/ Shutdown /\ phase = "cancelled"
         \/ /\ UpStays
            /\ \/ Submits \/ HandsOver \/ Enqueues \/ Assign \/ CallsBack \/ ClearResult
               \/ Begins \/ Finishes \/ StoresResult \/ BecomesIdle \/ EndsInJob
  <1>1. ASSUME Shutdown, phase # "cancelled"
        PROVE  JobsStay /\ phase' # "up"
    <2>1. phase \in Phase
      BY Parts DEF TypeOK
    <2>2. phase' \in {"stopping", "cancelled", "nomutexes", "down"}
      BY <1>1, <2>1 DEF Shutdown, Phase
    <2>3. UNCHANGED <<info, queue, results, jobs, hist, order, sub, thr, main>>
      BY <1>1, <2>2 DEF Shutdown, history
    <2>. QED
      BY <2>2, <2>3, MainStays
  <1>2. ASSUME Crash PROVE JobsStay /\ crashed'
    BY <1>2, MainStays DEF Crash, history
  <1>3. ASSUME UNCHANGED vars PROVE JobsStay /\ UpStays
    BY <1>3, MainStays DEF vars, history, UpStays
  <1>. QED
    BY <1>1, <1>2, <1>3, SubmitCases, UpdateCases, WorkCases DEF Next, Step, Halted

-----------------------------------------------------------------------------
(***************************************************************************)
(* Nothing that was handed over is erased.  The info of a thread is        *)
(* cleared when its job is over (ThrDone), a result entry after its        *)
(* callback was called (MainCalled).                                       *)
(***************************************************************************)
ThrDone == \A w \in Worker : Resets(thr[w].pc) => hist[thr[w].job].outcome # "none"

MainCalled ==
  Answers(main.pc) => /\ results[main.slot].job # NoJob
                      /\ hist[results[main.slot].job].callbacks # <<>>

EInv == IInv /\ ThrDone /\ MainCalled

\* The history of a job after the step of a thread that runs, stores or drops
\* it: nothing is taken back.
HistGrows ==
  \A j \in Job : /\ hist[j].outcome # "none" => hist'[j].outcome # "none"
                 /\ hist[j].callbacks # <<>> => hist'[j].callbacks # <<>>

LEMMA ErasedNothing ==
  ASSUME EInv, [Next]_vars, IInv'
  PROVE  /\ ThrDone' /\ MainCalled'
         /\ \A w \in Worker : info[w] # NoJob /\ info'[w] # info[w] =>
              info'[w] = NoJob /\ hist[info[w]].outcome # "none"
         /\ \A i \in Slot : results[i] # NoResult /\ results'[i] # results[i] =>
              results'[i] = NoResult /\ hist[results[i].job].callbacks # <<>>
  <1> DEFINE Goal == /\ ThrDone' /\ MainCalled'
                     /\ \A w \in Worker : info[w] # NoJob /\ info'[w] # info[w] =>
                          info'[w] = NoJob /\ hist[info[w]].outcome # "none"
                     /\ \A i \in Slot : results[i] # NoResult /\ results'[i] # results[i] =>
                          results'[i] = NoResult /\ hist[results[i].job].callbacks # <<>>
  <1>0. /\ IInv /\ TypeOK /\ ThrDone /\ MainCalled /\ MainSlot /\ ThrJob
        /\ hist \in [Job -> JobHistory]
        /\ \A w \in Worker : thr[w].job \in Job \cup {NoJob} /\ info[w] \in Job \cup {NoJob}
        /\ \A i \in Slot : results[i].job \in Job \cup {NoJob}
        /\ main.slot \in Nat /\ NoJob \notin Job
    BY Parts, ThrType, ResultType, MainType, JobAssumption DEF EInv, TypeOK
  <1>1. \A w \in Worker : Resets(thr[w].pc) => thr[w].job \in Job
    BY <1>0 DEF ThrJob, Resets
  <1>2. Answers(main.pc) => main.slot \in Slot /\ results[main.slot].job \in Job
    BY <1>0 DEF MainSlot, MainCalled, Answers
  <1>3. ASSUME UNCHANGED <<info, results>>, HistGrows,
               \A w \in Worker : Resets(thr'[w].pc) => thr'[w].job = thr[w].job /\ Resets(thr[w].pc),
               Answers(main'.pc) => Answers(main.pc) /\ main'.slot = main.slot
        PROVE  Goal
    <2>1. ThrDone'
      BY <1>0, <1>1, <1>3 DEF ThrDone, Resets, HistGrows
    <2>2. MainCalled'
      BY <1>0, <1>2, <1>3 DEF MainCalled, Answers, HistGrows
    <2>. QED
      BY <1>3, <2>1, <2>2
  <1>4. ASSUME JobsStay PROVE Goal
    BY <1>3, <1>4 DEF JobsStay, HistGrows
  <1>5. ASSUME Shutdown PROVE Goal
    BY <1>3, <1>5 DEF Shutdown, HistGrows, history
  <1>6. ASSUME Submits PROVE Goal
    BY <1>3, <1>6 DEF Submits, SubmitCall, HistGrows, history
  <1>7. ASSUME HandsOver PROVE Goal
    <2>1. PICK c \in Caller : /\ info[sub[c].i] = NoJob /\ info' = [info EXCEPT ![sub[c].i] = sub[c].job]
                              /\ UNCHANGED <<results, hist, thr, main>>
      BY <1>7 DEF HandsOver, SubmitTest
    <2>2. \A w \in Worker : info[w] # NoJob => info'[w] = info[w]
      BY <1>0, <2>1 DEF TypeOK
    <2>3. ThrDone' /\ MainCalled'
      BY <1>0, <2>1 DEF ThrDone, MainCalled
    <2>. QED
      BY <2>1, <2>2, <2>3
  <1>8. ASSUME Enqueues PROVE Goal
    <2>1. PICK c \in Caller : SubmitEnqueue(c)
      BY <1>8 DEF Enqueues
    <2>2. UNCHANGED <<info, results, thr, main>>
      BY <2>1 DEF SubmitEnqueue
    <2>3. hist' = hist \/ hist' = [hist EXCEPT ![sub[c].job].dropped = TRUE]
      BY <2>1 DEF SubmitEnqueue
    <2>4. sub[c].job \in Job
      BY <1>0, <2>1, Parts, SubType DEF SubmitEnqueue, SubJob
    <2>5. HistGrows
      BY <1>0, <2>3, <2>4, DroppedAt DEF HistGrows
    <2>. QED
      BY <1>3, <2>2, <2>5
  <1>9. ASSUME Assign PROVE Goal
    <2>1. /\ info[main.i] = NoJob
          /\ \E j : info' = [info EXCEPT ![main.i] = j]
          /\ UNCHANGED <<results, hist, thr>>
      BY <1>0, <1>9, Parts DEF Assign, MainFree, history
    <2>2. \A w \in Worker : info[w] # NoJob => info'[w] = info[w]
      BY <1>0, <2>1 DEF TypeOK
    <2>3. main'.pc = "peek"
      BY <1>0, <1>9 DEF Assign, TypeOK, MainState
    <2>4. ThrDone' /\ MainCalled'
      BY <1>0, <2>1, <2>3 DEF ThrDone, MainCalled, Answers
    <2>. QED
      BY <2>1, <2>2, <2>4
  <1>10. ASSUME CallsBack PROVE Goal
    <2> DEFINE e == results[main.slot]
    <2>1. /\ main.pc = "copy" /\ main' = [main EXCEPT !.pc = "callback"]
          /\ hist' = [hist EXCEPT ![e.job].callbacks = Append(@, e.outcome)]
          /\ UNCHANGED <<info, results, thr>> /\ e # NoResult
      BY <1>10 DEF CallsBack, ResultCopy
    <2>2. main.slot \in Slot
      BY <1>0, <2>1 DEF MainSlot
    <2>3. e.job \in Job /\ e.outcome \in Outcome
      BY <1>0, <2>1, <2>2, Parts, ResultType DEF ResultFree
    <2>4. main'.pc = "callback" /\ main'.slot = main.slot
      BY <1>0, <2>1 DEF TypeOK, MainState
    <2>5. /\ hist'[e.job].callbacks = Append(hist[e.job].callbacks, e.outcome)
          /\ \A k \in Job : /\ hist'[k].outcome = hist[k].outcome
                            /\ k # e.job => hist'[k].callbacks = hist[k].callbacks
      <3> HIDE DEF e
      <3>. QED
        BY <1>0, <2>1, <2>3, CalledAt
    <2>6. hist'[e.job].callbacks # <<>>
      <3>1. hist[e.job].callbacks \in Seq(Outcome)
        BY <1>0, <2>3, HistType
      <3> HIDE DEF e
      <3>2. Append(hist[e.job].callbacks, e.outcome) # <<>>
        BY <2>3, <3>1, AppendAt
      <3>. QED
        BY <2>5, <3>2
    <2>7. MainCalled'
      BY <1>0, <2>1, <2>3, <2>4, <2>6, SMTT(30) DEF MainCalled
    <2>8. ThrDone'
      BY <1>0, <1>1, <2>1, <2>5, ZenonT(30) DEF ThrDone
    <2>. QED
      BY <2>1, <2>7, <2>8
  <1>11. ASSUME ClearResult PROVE Goal
    <2>1. /\ main.pc = "clear" /\ results' = [results EXCEPT ![main.slot] = NoResult]
          /\ main' = [main EXCEPT !.pc = "result", !.slot = main.slot + 1]
          /\ UNCHANGED <<info, hist, thr>>
      BY <1>11 DEF ClearResult, history
    <2>2. main'.pc = "result"
      BY <1>0, <2>1 DEF TypeOK, MainState
    <2>3. \A i \in Slot : results'[i] # results[i] => i = main.slot /\ results'[i] = NoResult
      BY <1>0, <2>1 DEF TypeOK
    <2>4. hist[results[main.slot].job].callbacks # <<>>
      BY <1>0, <2>1 DEF MainCalled, Answers
    <2>5. ThrDone' /\ MainCalled'
      BY <1>0, <2>1, <2>2 DEF ThrDone, MainCalled, Answers
    <2>. QED
      BY <2>1, <2>3, <2>4, <2>5
  <1>12. ASSUME Begins PROVE Goal
    <2>1. PICK w \in Worker :
            /\ thr' = [thr EXCEPT ![w] = [pc |-> "run", job |-> info[w]]]
            /\ hist' = [hist EXCEPT ![info[w]].starts = @ + 1]
            /\ UNCHANGED <<info, results, main>>
      BY <1>12 DEF Begins, WorkerPoll
    <2>2. HistGrows
      BY <1>0, <2>1 DEF HistGrows, JobHistory
    <2>3. \A v \in Worker : Resets(thr'[v].pc) => thr'[v] = thr[v]
      BY <1>0, <2>1 DEF TypeOK, Resets
    <2>. QED
      BY <1>3, <2>1, <2>2, <2>3
  <1>13. ASSUME Finishes PROVE Goal
    <2>1. PICK w \in Worker, r \in {"success", "fail"} :
            /\ thr[w].pc = "run" /\ hist' = [hist EXCEPT ![thr[w].job].outcome = r]
            /\ \E to \in {"storeWait", "resetWait"} : Goes(w, "run", to)
            /\ UNCHANGED <<info, results, main>>
      BY <1>13 DEF Finishes, WorkerFinish
    <2>2. PICK to : Goes(w, "run", to)
      BY <2>1
    <2>3. /\ thr'[w].job = thr[w].job /\ \A v \in Worker : v # w => thr'[v] = thr[v]
      BY <1>0, <2>2, GoesAt
    <2>4. /\ hist'[thr[w].job].outcome = r /\ thr[w].job \in Job
          /\ \A k \in Job : k # thr[w].job => hist'[k] = hist[k]
          /\ \A k \in Job : hist'[k].callbacks = hist[k].callbacks
      BY <1>0, <2>1 DEF ThrJob, JobHistory
    <2>5. ThrDone'
      BY <1>0, <1>1, <2>3, <2>4 DEF ThrDone
    <2>6. MainCalled'
      BY <1>0, <1>2, <2>1, <2>4 DEF MainCalled
    <2>. QED
      BY <2>1, <2>5, <2>6
  <1>14. ASSUME StoresResult PROVE Goal
    <2>1. PICK w \in Worker : WorkerStore(w)
      BY <1>14 DEF StoresResult
    <2>2. Goes(w, "store", "resetWait") /\ UNCHANGED <<info, main>>
      BY <2>1 DEF WorkerStore
    <2>3. /\ thr[w].pc = "store" /\ thr'[w].job = thr[w].job
          /\ \A v \in Worker : v # w => thr'[v] = thr[v]
      BY <1>0, <2>2, GoesAt
    <2>4. hist[thr[w].job].outcome # "none" /\ thr[w].job \in Job
      BY <1>0, <2>3, Parts DEF ThrStore, ThrJob
    <2>5. hist' = hist \/ hist' = [hist EXCEPT ![thr[w].job].dropped = TRUE]
      BY <2>1 DEF WorkerStore
    <2>6. \A k \in Job : hist'[k].outcome = hist[k].outcome /\ hist'[k].callbacks = hist[k].callbacks
      BY <1>0, <2>4, <2>5, DroppedAt
    <2>7. \A i \in Slot : results[i] # NoResult => results'[i] = results[i]
      BY <1>0, <2>1 DEF WorkerStore, FirstFree, TypeOK
    <2>8. ThrDone'
      BY <1>0, <1>1, <2>3, <2>4, <2>6 DEF ThrDone
    <2>9. MainCalled'
      <3>1. Answers(main.pc) => results[main.slot] # NoResult
        BY <1>0 DEF MainCalled, NoResult
      <3>. QED
        BY <1>0, <1>2, <2>2, <2>6, <2>7, <3>1 DEF MainCalled
    <2>. QED
      BY <2>2, <2>7, <2>8, <2>9
  <1>15. ASSUME BecomesIdle PROVE Goal
    <2>1. PICK w \in Worker : /\ thr[w].pc = "reset" /\ thr' = [thr EXCEPT ![w] = [pc |-> "tail", job |-> NoJob]]
                              /\ info' = [info EXCEPT ![w] = NoJob]
                              /\ UNCHANGED <<results, main, hist>>
      BY <1>15 DEF BecomesIdle, WorkerReset, history
    <2>2. info[w] = thr[w].job /\ hist[thr[w].job].outcome # "none"
      BY <1>0, <2>1 DEF ThrJob, ThrDone, Resets
    <2>3. \A v \in Worker : info'[v] # info[v] => v = w /\ info'[v] = NoJob
      BY <1>0, <2>1 DEF TypeOK
    <2>4. \A v \in Worker : Resets(thr'[v].pc) => thr'[v] = thr[v]
      BY <1>0, <2>1 DEF TypeOK, Resets
    <2>5. ThrDone' /\ MainCalled'
      BY <1>0, <2>1, <2>4 DEF ThrDone, MainCalled
    <2>. QED
      BY <2>1, <2>2, <2>3, <2>5
  <1>16. ASSUME EndsInJob PROVE Goal
    <2>1. PICK w \in Worker : thr[w].pc = "run" /\ Goes(w, "run", "dead")
                              /\ UNCHANGED <<info, results, main, hist>>
      BY <1>16 DEF EndsInJob, WorkerCancelled, Goes, history
    <2>2. \A v \in Worker : Resets(thr'[v].pc) => thr'[v] = thr[v]
      BY <1>0, <2>1, GoesAt DEF Resets
    <2>. QED
      BY <1>3, <2>1, <2>2 DEF HistGrows
  <1>. QED
    BY <1>0, <1>4, <1>5, <1>6, <1>7, <1>8, <1>9, <1>10, <1>11, <1>12, <1>13, <1>14, <1>15, <1>16,
       NextCases

\* After job_system_init no thread resets and no callback runs.
LEMMA InitEInv == Init => EInv
  <1>1. Init => ThrDone /\ MainCalled
    BY DEF Init, ThrDone, MainCalled, Resets, Answers
  <1>. QED
    BY <1>1, InitInv DEF EInv

LEMMA NextEInv == EInv /\ [Next]_vars => EInv'
  BY NextInv, ErasedNothing DEF EInv

\* A job thread's info keeps its job until the job is over, and a result entry
\* its result until the callback was called, whatever the others do meanwhile.
THEOREM NothingIsErased == Spec => NothingErased
  <1>1. EInv /\ [Next]_vars => EInv' /\ [\A w \in Worker : info[w] # NoJob /\ info'[w] # info[w] =>
           info'[w] = NoJob /\ hist[info[w]].outcome # "none"]_vars
    BY NextInv, ErasedNothing DEF EInv
  <1>2. EInv /\ [Next]_vars => [\A i \in Slot : results[i] # NoResult /\ results'[i] # results[i] =>
           results'[i] = NoResult /\ hist[results[i].job].callbacks # <<>>]_vars
    BY NextInv, ErasedNothing DEF EInv
  <1>3. Spec => AssignmentKept
    BY <1>1, InitEInv, PTL DEF Spec, AssignmentKept
  <1>4. Spec => ResultKept
    BY <1>1, <1>2, InitEInv, PTL DEF Spec, ResultKept
  <1>. QED
    BY <1>3, <1>4 DEF NothingErased

-----------------------------------------------------------------------------
(***************************************************************************)
(* Jobs of a priority below high are handed out as they were accepted: the *)
(* queues are parts of the order of acceptance.                            *)
(***************************************************************************)
Accept == 1 .. Len(order)   \* the places of the order

OrderOnce == \A m, n \in Accept : order[m] = order[n] => m = n
OrderCreated == \A m \in Accept : Created(order[m])
OrderNotInCall == \A m \in Accept : \A c \in Caller : sub[c].job # order[m]
QueuedPriority == \A p \in Priority : \A k \in 1 .. Len(queue[p]) : jobs[queue[p][k]].priority = p
QueuedInOrder == \A p \in Priority : \A k \in 1 .. Len(queue[p]) :
                   \E m \in Accept : order[m] = queue[p][k]
QueuedSorted == \A p \in Priority : \A k, l \in 1 .. Len(queue[p]) : \A m, n \in Accept :
                  k < l /\ order[m] = queue[p][k] /\ order[n] = queue[p][l] => m < n

\* Only a job of high priority goes to a thread without being queued.
ScansHigh == \A c \in Caller : Scans(sub[c].pc) => jobs[sub[c].job].priority = "high"

OrderParts == /\ OrderOnce /\ OrderCreated /\ OrderNotInCall
              /\ QueuedPriority /\ QueuedInOrder /\ QueuedSorted /\ ScansHigh
OInv == IInv /\ OrderParts

\* One more accepted job: the order, and what it says of the jobs.
LEMMA OrderGrows ==
  ASSUME OInv, NEW c \in Caller, sub[c].job # NoJob, order' = Append(order, sub[c].job),
         jobs' = jobs, sub'[c].job = NoJob, \A d \in Caller : d # c => sub'[d].job = sub[d].job
  PROVE  /\ Len(order) \in Nat /\ Len(order') = Len(order) + 1 /\ order'[Len(order) + 1] = sub[c].job
         /\ \A m \in Accept : order'[m] = order[m] /\ order[m] # sub[c].job
         /\ OrderOnce' /\ OrderCreated' /\ OrderNotInCall'
  <1> DEFINE j == sub[c].job
  <1>1. /\ OrderOnce /\ OrderCreated /\ OrderNotInCall /\ SubJob /\ SubOnce /\ TypeOK
        /\ order \in Seq(Job) /\ j \in Job /\ NoJob \notin Job
    BY Parts, SubType, JobAssumption DEF OInv, OrderParts, TypeOK
  <1>2. /\ Len(order) \in Nat /\ Len(order') = Len(order) + 1 /\ order'[Len(order) + 1] = j
        /\ \A m \in Accept : order'[m] = order[m]
    BY <1>1, AppendAt DEF Accept
  <1>3. \A m \in Accept : order[m] # j /\ order[m] \in Job
    BY <1>1 DEF OrderNotInCall, Accept
  <1>4. \A m \in Accept' : m \in Accept \/ m = Len(order) + 1
    BY <1>2 DEF Accept
  <1>5. OrderOnce'
    BY <1>1, <1>2, <1>3, <1>4, ZenonT(30) DEF OrderOnce
  <1>6. OrderCreated'
    BY <1>1, <1>2, <1>4 DEF OrderCreated, SubJob, Created
  <1>7. OrderNotInCall'
    BY <1>1, <1>2, <1>3, <1>4, ZenonT(30) DEF OrderNotInCall, SubOnce
  <1>. QED
    BY <1>2, <1>3, <1>5, <1>6, <1>7

\* The queue of a priority is what it was, or has lost its head, or is empty:
\* its jobs are still in order.
LEMMA OrderShrinks ==
  ASSUME OInv, jobs' = jobs, order' = order,
         NEW d \in [Priority -> {0, 1}],
         \A p \in Priority : \A k \in 1 .. Len(queue'[p]) :
            k + d[p] \in 1 .. Len(queue[p]) /\ queue'[p][k] = queue[p][k + d[p]] /\ k \in Int
  PROVE  QueuedPriority' /\ QueuedInOrder' /\ QueuedSorted'
  <1>1. QueuedPriority /\ QueuedInOrder /\ QueuedSorted
    BY DEF OInv, OrderParts
  <1>2. QueuedPriority'
    BY <1>1 DEF QueuedPriority
  <1>3. QueuedInOrder'
    <2> SUFFICES ASSUME NEW p \in Priority, NEW k \in 1 .. Len(queue'[p])
                 PROVE  \E m \in Accept : order[m] = queue'[p][k]
      BY DEF QueuedInOrder, Accept
    <2>1. k + d[p] \in 1 .. Len(queue[p]) /\ queue'[p][k] = queue[p][k + d[p]]
      OBVIOUS
    <2>2. \A x \in 1 .. Len(queue[p]) : \E m \in Accept : order[m] = queue[p][x]
      BY <1>1 DEF QueuedInOrder
    <2>. QED
      BY <2>1, <2>2
  <1>4. QueuedSorted'
    <2> SUFFICES ASSUME NEW p \in Priority, NEW k \in 1 .. Len(queue'[p]), NEW l \in 1 .. Len(queue'[p]),
                        NEW m \in Accept, NEW n \in Accept,
                        k < l, order[m] = queue'[p][k], order[n] = queue'[p][l]
                 PROVE  m < n
      BY DEF QueuedSorted, Accept
    <2>1. /\ k + d[p] \in 1 .. Len(queue[p]) /\ l + d[p] \in 1 .. Len(queue[p])
          /\ queue'[p][k] = queue[p][k + d[p]] /\ queue'[p][l] = queue[p][l + d[p]]
      OBVIOUS
    <2>2. k + d[p] < l + d[p]
      <3>1. k \in Int /\ l \in Int /\ d[p] \in Int
        OBVIOUS
      <3>. QED
        BY <3>1
    <2>3. \A x, y \in 1 .. Len(queue[p]) : x < y /\ order[m] = queue[p][x] /\ order[n] = queue[p][y]
                                            => m < n
      BY <1>1 DEF QueuedSorted
    <2>4. order[m] = queue[p][k + d[p]] /\ order[n] = queue[p][l + d[p]]
      BY <2>1
    <2>. QED
      BY <2>1, <2>2, <2>3, <2>4
  <1>. QED
    BY <1>2, <1>3, <1>4

\* The last one accepted is the last of its queue: what the order says of the
\* queues stays right.
LEMMA YoungestLast ==
  ASSUME NEW j, Len(order) \in Nat, Len(order') = Len(order) + 1, order'[Len(order) + 1] = j,
         \A m \in Accept : order'[m] = order[m] /\ order[m] # j,
         \A p \in Priority : Len(queue[p]) \in Nat,
         \A p \in Priority : \A k \in 1 .. Len(queue'[p]) :
           \/ k \in 1 .. Len(queue[p]) /\ queue'[p][k] = queue[p][k]
           \/ k = Len(queue[p]) + 1 /\ queue'[p][k] = j,
         QueuedInOrder, QueuedSorted
  PROVE  QueuedInOrder' /\ QueuedSorted'
  <1>1. Accept \subseteq Accept' /\ Len(order) + 1 \in Accept'
    BY DEF Accept
  <1>2. \A m \in Accept' : m \in Accept \/ m = Len(order) + 1
    BY DEF Accept
  <1>3. QueuedInOrder'
    <2> SUFFICES ASSUME NEW p \in Priority, NEW k \in 1 .. Len(queue'[p])
                 PROVE  \E m \in Accept' : order'[m] = queue'[p][k]
      BY DEF QueuedInOrder
    <2>1. CASE k \in 1 .. Len(queue[p]) /\ queue'[p][k] = queue[p][k]
      <3>1. PICK m \in Accept : order[m] = queue[p][k]
        BY <2>1 DEF QueuedInOrder
      <3>2. m \in Accept' /\ order'[m] = queue'[p][k]
        BY <1>1, <2>1, <3>1
      <3>. QED
        BY <3>2
    <2>2. CASE queue'[p][k] = j
      BY <1>1, <2>2
    <2>. QED
      BY <2>1, <2>2
  <1>4. QueuedSorted'
    <2> SUFFICES ASSUME NEW p \in Priority, NEW k \in 1 .. Len(queue'[p]), NEW l \in 1 .. Len(queue'[p]),
                        NEW m \in Accept', NEW n \in Accept',
                        k < l, order'[m] = queue'[p][k], order'[n] = queue'[p][l]
                 PROVE  m < n
      BY DEF QueuedSorted
    <2>1. k \in 1 .. Len(queue[p]) /\ queue'[p][k] = queue[p][k]
      <3>1. \/ k \in 1 .. Len(queue[p]) /\ queue'[p][k] = queue[p][k]
            \/ k = Len(queue[p]) + 1
        OBVIOUS
      <3>2. l \in 1 .. Len(queue[p]) \/ l = Len(queue[p]) + 1
        OBVIOUS
      <3>3. k # Len(queue[p]) + 1
        <4>1. k \in Int /\ l \in Int /\ k < l /\ Len(queue[p]) \in Nat
          OBVIOUS
        <4>. QED
          BY <3>2, <4>1
      <3>. QED
        BY <3>1, <3>3
    <2>2. \E r \in Accept : order[r] = queue[p][k]
      BY <2>1 DEF QueuedInOrder
    <2>3. order'[m] # j
      BY <2>1, <2>2
    <2>4. m \in Accept
      BY <1>2, <2>3
    <2>5. CASE n \in Accept
      <3>1. order'[n] # j
        BY <2>5
      <3>2. l \in 1 .. Len(queue[p]) /\ queue'[p][l] = queue[p][l]
        BY <3>1
      <3>3. order[m] = queue[p][k] /\ order[n] = queue[p][l]
        BY <2>1, <2>4, <2>5, <3>2
      <3>. QED
        BY <2>1, <2>4, <2>5, <3>2, <3>3 DEF QueuedSorted
    <2>6. CASE n = Len(order) + 1
      <3>1. m \in 1 .. Len(order)
        BY <2>4 DEF Accept
      <3>. QED
        BY <2>6, <3>1
    <2>. QED
      BY <1>2, <2>5, <2>6
  <1>. QED
    BY <1>3, <1>4

\* A queue with one more job: what is where in the queues.
LEMMA OneMoreQueued ==
  ASSUME NEW Q \in [Priority -> Seq(Job)], NEW q \in Priority, NEW j \in Job,
         NEW R, R = [Q EXCEPT ![q] = Append(@, j)]
  PROVE  \A p \in Priority : \A k \in 1 .. Len(R[p]) :
           \/ k \in 1 .. Len(Q[p]) /\ R[p][k] = Q[p][k]
           \/ p = q /\ k = Len(Q[p]) + 1 /\ R[p][k] = j
  <1>1. R[q] = Append(Q[q], j) /\ \A p \in Priority : p # q => R[p] = Q[p]
    OBVIOUS
  <1>2. PICK u \in Seq(Job) : u = Q[q]
    OBVIOUS
  <1>3. /\ Len(Append(u, j)) = Len(u) + 1 /\ Append(u, j)[Len(u) + 1] = j /\ Len(u) \in Nat
        /\ \A k \in 1 .. Len(u) : Append(u, j)[k] = u[k]
    BY AppendAt
  <1>4. \A k \in 1 .. Len(Append(u, j)) : k \in 1 .. Len(u) \/ k = Len(u) + 1
    BY <1>3
  <1>5. ASSUME NEW k \in 1 .. Len(R[q])
        PROVE  \/ k \in 1 .. Len(Q[q]) /\ R[q][k] = Q[q][k]
               \/ k = Len(Q[q]) + 1 /\ R[q][k] = j
    BY <1>1, <1>2, <1>3, <1>4
  <1>6. ASSUME NEW p \in Priority, p # q, NEW k \in 1 .. Len(R[p])
        PROVE  k \in 1 .. Len(Q[p]) /\ R[p][k] = Q[p][k]
    BY <1>1, <1>6
  <1>. QED
    BY <1>5, <1>6

\* The same for the queues of the system, which may also be full.
MayQueue(j) ==
  LET p == jobs[j].priority
  IN  queue' = queue \/ (p \in Priority /\ queue' = [queue EXCEPT ![p] = Append(@, j)])

LEMMA PerhapsQueued ==
  ASSUME NEW j, j \in Job, queue \in [Priority -> Seq(Job)], MayQueue(j)
  PROVE  \A p \in Priority : \A k \in 1 .. Len(queue'[p]) :
           \/ k \in 1 .. Len(queue[p]) /\ queue'[p][k] = queue[p][k]
           \/ p = jobs[j].priority /\ k = Len(queue[p]) + 1 /\ queue'[p][k] = j
  <1>1. CASE queue' = queue
    BY <1>1, Zenon
  <1>2. CASE /\ jobs[j].priority \in Priority
             /\ queue' = [queue EXCEPT ![jobs[j].priority] = Append(@, j)]
    BY <1>2, OneMoreQueued
  <1>. QED
    BY <1>1, <1>2, Zenon DEF MayQueue

\* What is queued has the priority of its queue.
LEMMA PriorityKept ==
  ASSUME NEW j, jobs' = jobs, QueuedPriority,
         \A p \in Priority : \A k \in 1 .. Len(queue'[p]) :
           \/ k \in 1 .. Len(queue[p]) /\ queue'[p][k] = queue[p][k]
           \/ p = jobs[j].priority /\ queue'[p][k] = j
  PROVE  QueuedPriority'
  <1> SUFFICES ASSUME NEW p \in Priority, NEW k \in 1 .. Len(queue'[p])
               PROVE  jobs[queue'[p][k]].priority = p
    BY Zenon DEF QueuedPriority
  <1>1. CASE k \in 1 .. Len(queue[p]) /\ queue'[p][k] = queue[p][k]
    <2>1. jobs[queue[p][k]].priority = p
      BY <1>1, Zenon DEF QueuedPriority
    <2>. QED
      BY <1>1, <2>1, Zenon
  <1>2. CASE p = jobs[j].priority /\ queue'[p][k] = j
    BY <1>2, Zenon
  <1>. QED
    BY <1>1, <1>2, Zenon

\* The order grows, and the queue with it or not at all.
LEMMA OrderAppends ==
  ASSUME OInv, NEW c \in Caller, sub[c].job # NoJob, order' = Append(order, sub[c].job),
         jobs' = jobs, sub'[c].job = NoJob, \A d \in Caller : d # c => sub'[d].job = sub[d].job,
         MayQueue(sub[c].job)
  PROVE  QueuedPriority' /\ QueuedInOrder' /\ QueuedSorted'
  <1> DEFINE j == sub[c].job
  <1>1. TypeOK /\ SubJob /\ OrderParts
    BY Parts DEF OInv
  <1>2. QueuedPriority /\ QueuedInOrder /\ QueuedSorted
    BY <1>1, Zenon DEF OrderParts
  <1>3. j \in Job
    <2>1. j \in Job \cup {NoJob}
      BY <1>1, SubType, Zenon
    <2>. QED
      BY <2>1, Zenon
  <1>4. queue \in [Priority -> Seq(Job)]
    BY <1>1, Zenon DEF TypeOK
  <1>5. \A p \in Priority : Len(queue[p]) \in Nat
    BY <1>1, QueueType, Zenon
  <1>6. /\ Len(order) \in Nat /\ Len(order') = Len(order) + 1 /\ order'[Len(order) + 1] = j
        /\ \A m \in Accept : order'[m] = order[m] /\ order[m] # j
    BY OrderGrows, Zenon
  <1>7. \A p \in Priority : \A k \in 1 .. Len(queue'[p]) :
          \/ k \in 1 .. Len(queue[p]) /\ queue'[p][k] = queue[p][k]
          \/ p = jobs[j].priority /\ k = Len(queue[p]) + 1 /\ queue'[p][k] = j
    BY <1>3, <1>4, PerhapsQueued, Zenon
  <1> HIDE DEF j
  <1>8. \A p \in Priority : \A k \in 1 .. Len(queue'[p]) :
          \/ k \in 1 .. Len(queue[p]) /\ queue'[p][k] = queue[p][k]
          \/ p = jobs[j].priority /\ queue'[p][k] = j
    BY <1>7, Zenon
  <1>9. QueuedPriority'
    BY <1>2, <1>8, PriorityKept, Zenon
  <1>10. \A p \in Priority : \A k \in 1 .. Len(queue'[p]) :
           \/ k \in 1 .. Len(queue[p]) /\ queue'[p][k] = queue[p][k]
           \/ k = Len(queue[p]) + 1 /\ queue'[p][k] = j
    BY <1>7, Zenon
  <1>11. QueuedInOrder' /\ QueuedSorted'
    BY <1>2, <1>5, <1>6, <1>10, YoungestLast, Zenon
  <1>. QED
    BY <1>9, <1>11, Zenon

\* What the head of a queue is older than.
LEMMA HeadOldest ==
  ASSUME OInv, NEW p \in Priority, queue[p] # <<>>, NEW k \in 2 .. Len(queue[p])
  PROVE  ~Older(queue[p][k], queue[p][1])
  <1>1. OrderOnce /\ QueuedInOrder /\ QueuedSorted /\ queue[p] \in Seq(Job) /\ order \in Seq(Job)
    BY Parts DEF OInv, OrderParts, TypeOK
  <1>2. 1 \in 1 .. Len(queue[p]) /\ k \in 1 .. Len(queue[p]) /\ 1 < k
    BY <1>1
  <1>3. \A m, n \in Accept : order[m] = queue[p][1] /\ order[n] = queue[p][k] => m < n
    BY <1>1, <1>2 DEF QueuedSorted
  <1>4. \A m, n \in Accept : ~(m < n /\ n < m)
    BY <1>1 DEF Accept
  <1>. QED
    BY <1>3, <1>4 DEF Older, Accept

\* A hand-over to thread w is in order.
HandedRight(w) ==
  LET k == info'[w]
  IN  info[w] # k /\ k # NoJob /\ jobs[k].priority # "high" =>
        \A j \in Job : Older(j, k) /\ jobs[j].priority = jobs[k].priority => ~InQueue(j)'

LEMMA OrderKept ==
  ASSUME OInv, [Next]_vars
  PROVE  OrderParts' /\ \A w \in Worker : HandedRight(w)
  <1> DEFINE Goal == OrderParts' /\ \A w \in Worker : HandedRight(w)
  <1>0. /\ IInv /\ TypeOK /\ OrderParts /\ SubJob /\ NoJob \notin Job
        /\ order \in Seq(Job) /\ queue \in [Priority -> Seq(Job)] /\ sub \in [Caller -> SubState]
        /\ jobs \in [Job -> JobInfo \cup {NoInfo}]
        /\ \A c \in Caller : sub[c].job \in Job \cup {NoJob}
        /\ \A m \in Accept : order[m] \in Job
    BY Parts, SubType, JobAssumption DEF OInv, TypeOK, Accept
  <1>1. ASSUME UNCHANGED <<order, queue, jobs>>,
               \A c \in Caller : sub'[c].job = sub[c].job /\ (Scans(sub'[c].pc) => Scans(sub[c].pc))
        PROVE  OrderParts'
    BY <1>0, <1>1 DEF OrderParts, OrderOnce, OrderCreated, OrderNotInCall, QueuedPriority,
                      QueuedInOrder, QueuedSorted, ScansHigh, Accept, Created
  <1>2. ASSUME \A w \in Worker : info'[w] = info[w] \/ info'[w] = NoJob
        PROVE  \A w \in Worker : HandedRight(w)
    BY <1>2 DEF HandedRight
  <1>3. ASSUME JobsStay PROVE Goal
    <2>1. OrderParts'
      BY <1>1, <1>3 DEF JobsStay
    <2>. QED
      BY <1>2, <1>3, <2>1 DEF JobsStay
  <1>4. ASSUME UNCHANGED <<order, queue, jobs, sub>>,
               \A w \in Worker : info'[w] = info[w] \/ info'[w] = NoJob
        PROVE  Goal
    BY <1>1, <1>2, <1>4
  <1>5. ASSUME Shutdown PROVE Goal
    <2>1. UNCHANGED <<order, jobs, sub, info>> /\ (queue' = queue \/ queue' = [p \in Priority |-> <<>>])
      BY <1>5 DEF Shutdown, history
    <2> DEFINE d == [p \in Priority |-> 0]
    <2>2. \A p \in Priority : \A k \in 1 .. Len(queue'[p]) :
            k + d[p] \in 1 .. Len(queue[p]) /\ queue'[p][k] = queue[p][k + d[p]] /\ k \in Int
      BY <1>0, <2>1
    <2>3. d \in [Priority -> {0, 1}]
      OBVIOUS
    <2> HIDE DEF d
    <2>4. QueuedPriority' /\ QueuedInOrder' /\ QueuedSorted'
      BY <2>1, <2>2, <2>3, OrderShrinks
    <2>5. OrderOnce' /\ OrderCreated' /\ OrderNotInCall' /\ ScansHigh'
      BY <1>0, <2>1 DEF OrderParts, OrderOnce, OrderCreated, OrderNotInCall, ScansHigh, Accept, Created
    <2>. QED
      BY <1>2, <2>1, <2>4, <2>5 DEF OrderParts
  <1>6. ASSUME Submits PROVE Goal
    <2>1. PICK c \in Caller, j \in Job, kind \in JobKind :
            /\ ~Created(j) /\ jobs' = [jobs EXCEPT ![j] = kind]
            /\ Calls(c, IF kind.priority = "high" THEN "scan" ELSE "queue", j, 0)
            /\ UNCHANGED <<order, queue, info>>
      BY <1>6 DEF Submits, SubmitCall, history
    <2>2. /\ sub'[c].job = j /\ (Scans(sub'[c].pc) => kind.priority = "high")
          /\ \A d \in Caller : d # c => sub'[d] = sub[d]
      <3>1. /\ sub'[c].job = j /\ sub'[c].pc = (IF kind.priority = "high" THEN "scan" ELSE "queue")
            /\ \A d \in Caller : d # c => sub'[d] = sub[d]
        BY <1>0, <2>1, CallsAt
      <3>. QED
        BY <3>1 DEF Scans
    <2>3. jobs'[j] = kind /\ \A k \in Job : k # j => jobs'[k] = jobs[k]
      BY <1>0, <2>1
    <2>4. kind # NoInfo
      BY JobAssumption DEF JobInfo, NoInfo, JobType, Priority
    <2>5. \A k \in Job : Created(k) => k # j /\ Created(k)' /\ jobs'[k] = jobs[k]
      BY <2>1, <2>3 DEF Created
    <2>6. OrderOnce' /\ OrderCreated' /\ OrderNotInCall'
      <3>1. \A m \in Accept : order[m] # j /\ Created(order[m])
        BY <1>0, <2>1 DEF OrderParts, OrderCreated
      <3>2. OrderCreated'
        BY <1>0, <2>1, <2>5, <3>1 DEF OrderCreated, Accept
      <3>3. OrderNotInCall'
        BY <1>0, <2>1, <2>2, <3>1 DEF OrderParts, OrderNotInCall, Accept
      <3>. QED
        BY <1>0, <2>1, <3>2, <3>3 DEF OrderParts, OrderOnce, Accept
    <2>7. QueuedPriority' /\ QueuedInOrder' /\ QueuedSorted'
      <3>1. \A p \in Priority : \A k \in 1 .. Len(queue[p]) : jobs'[queue[p][k]] = jobs[queue[p][k]]
        BY <1>0, <2>5, Parts, QueueType DEF QueuedNew
      <3>2. queue' = queue /\ order' = order
        BY <2>1
      <3>3. QueuedPriority'
        BY <1>0, <3>1, <3>2 DEF OrderParts, QueuedPriority
      <3>. QED
        BY <1>0, <3>2, <3>3 DEF OrderParts, QueuedInOrder, QueuedSorted, Accept
    <2>8. ScansHigh'
      <3>1. \A d \in Caller : d # c /\ sub[d].pc # "none" => jobs'[sub[d].job] = jobs[sub[d].job]
        BY <1>0, <2>5 DEF SubJob
      <3>2. ASSUME NEW d \in Caller, d # c, Scans(sub'[d].pc)
            PROVE  jobs'[sub'[d].job].priority = "high"
        <4>1. sub'[d] = sub[d] /\ sub[d].pc # "none" /\ Scans(sub[d].pc)
          BY <2>2, <3>2 DEF Scans
        <4>2. jobs[sub[d].job].priority = "high"
          BY <1>0, <4>1 DEF OrderParts, ScansHigh
        <4>. QED
          BY <3>1, <3>2, <4>1, <4>2
      <3>3. Scans(sub'[c].pc) => jobs'[sub'[c].job].priority = "high"
        BY <2>2, <2>3
      <3>. QED
        BY <3>2, <3>3 DEF ScansHigh
    <2>. QED
      BY <1>2, <2>1, <2>6, <2>7, <2>8 DEF OrderParts
  <1>7. ASSUME NEW c \in Caller, sub[c].job # NoJob, order' = Append(order, sub[c].job),
               jobs' = jobs, sub'[c].pc = "none", sub'[c].job = NoJob,
               \A d \in Caller : d # c => sub'[d] = sub[d],
               MayQueue(sub[c].job)
        PROVE  OrderParts'
    <2>1. QueuedPriority' /\ QueuedInOrder' /\ QueuedSorted'
      BY <1>7, OrderAppends
    <2>2. OrderOnce' /\ OrderCreated' /\ OrderNotInCall'
      BY <1>7, OrderGrows
    <2>3. ScansHigh'
      BY <1>0, <1>7 DEF OrderParts, ScansHigh, Scans
    <2>. QED
      BY <2>1, <2>2, <2>3 DEF OrderParts
  <1>8. ASSUME HandsOver PROVE Goal
    <2>1. PICK c \in Caller : /\ sub[c].pc = "test"
                              /\ info' = [info EXCEPT ![sub[c].i] = sub[c].job]
                              /\ order' = Append(order, sub[c].job) /\ Calls(c, "none", NoJob, sub[c].i)
                              /\ UNCHANGED <<jobs, queue>>
      BY <1>8 DEF HandsOver, SubmitTest
    <2>2. /\ sub'[c].pc = "none" /\ sub'[c].job = NoJob /\ \A d \in Caller : d # c => sub'[d] = sub[d]
      BY <1>0, <2>1, CallsAt
    <2>3. sub[c].job # NoJob
      BY <1>0, <2>1 DEF SubJob
    <2>4. jobs[sub[c].job].priority = "high"
      BY <1>0, <2>1 DEF OrderParts, ScansHigh, Scans
    <2>5. \A w \in Worker : info'[w] = info[w] \/ info'[w] = sub[c].job
      BY <1>0, <2>1 DEF TypeOK
    <2>6. \A w \in Worker : HandedRight(w)
      BY <2>4, <2>5 DEF HandedRight
    <2>7. MayQueue(sub[c].job)
      BY <2>1 DEF MayQueue
    <2>. QED
      BY <1>7, <2>1, <2>2, <2>3, <2>6, <2>7
  <1>9. ASSUME Enqueues PROVE Goal
    <2>1. PICK c \in Caller : SubmitEnqueue(c)
      BY <1>9 DEF Enqueues
    <2>2. sub[c].pc = "enqueue" /\ Calls(c, "none", NoJob, sub[c].i) /\ UNCHANGED <<jobs, info>>
      BY <2>1 DEF SubmitEnqueue
    <2>3. /\ sub'[c].pc = "none" /\ sub'[c].job = NoJob /\ \A d \in Caller : d # c => sub'[d] = sub[d]
      BY <1>0, <2>2, CallsAt
    <2>4. sub[c].job # NoJob /\ jobs[sub[c].job].priority \in Priority
      BY <1>0, <2>2 DEF SubJob, Created, JobInfo
    <2>5. CASE Full(jobs[sub[c].job].priority)
      <3>1. UNCHANGED <<order, queue>>
        BY <2>1, <2>5 DEF SubmitEnqueue
      <3>2. OrderNotInCall'
        BY <1>0, <2>3, <3>1 DEF OrderParts, OrderNotInCall, Accept
      <3>3. ScansHigh'
        BY <1>0, <2>2, <2>3 DEF OrderParts, ScansHigh, Scans
      <3>4. OrderOnce' /\ OrderCreated'
        BY <1>0, <2>2, <3>1 DEF OrderParts, OrderOnce, OrderCreated, Accept, Created
      <3>5. QueuedPriority'
        BY <1>0, <2>2, <3>1 DEF OrderParts, QueuedPriority
      <3>6. QueuedInOrder' /\ QueuedSorted'
        BY <1>0, <3>1 DEF OrderParts, QueuedInOrder, QueuedSorted, Accept
      <3>7. OrderParts'
        BY <3>2, <3>3, <3>4, <3>5, <3>6, Zenon DEF OrderParts
      <3>. QED
        BY <1>2, <2>2, <3>7
    <2>6. CASE ~Full(jobs[sub[c].job].priority)
      <3>1. /\ order' = Append(order, sub[c].job)
            /\ queue' = [queue EXCEPT ![jobs[sub[c].job].priority] = Append(@, sub[c].job)]
        BY <2>1, <2>6 DEF SubmitEnqueue
      <3>2. MayQueue(sub[c].job)
        BY <2>4, <3>1, Zenon DEF MayQueue
      <3>3. OrderParts'
        BY <1>7, <2>2, <2>3, <2>4, <3>1, <3>2
      <3>. QED
        BY <1>2, <2>2, <3>3
    <2>. QED
      BY <2>5, <2>6
  <1>10. ASSUME Assign PROVE Goal
    <2> DEFINE q == main.q
               d == [p \in Priority |-> IF p = q THEN 1 ELSE 0]
    <2>1. /\ q \in Priority /\ queue[q] # <<>> /\ queue[q] \in Seq(Job) /\ main.job = queue[q][1]
      BY <1>0, <1>10, Parts, MainType, HeadTailProperties DEF Assign, MainPeeked
    <2>2. /\ info' = [info EXCEPT ![main.i] = Head(queue[q])]
          /\ queue' = [queue EXCEPT ![q] = Tail(@)]
          /\ UNCHANGED <<order, jobs, sub>>
      BY <1>10, <2>1 DEF Assign, history
    <2>3. /\ queue'[q] = Tail(queue[q]) /\ \A p \in Priority : p # q => queue'[p] = queue[p]
      BY <1>0, <2>1, <2>2
    <2>4. /\ Len(queue'[q]) = Len(queue[q]) - 1 /\ Len(queue[q]) \in Nat \ {0}
          /\ \A k \in 1 .. Len(queue'[q]) :
               k + 1 \in 1 .. Len(queue[q]) /\ queue'[q][k] = queue[q][k + 1]
      BY <2>1, <2>3, HeadTailProperties
    <2>5. \A p \in Priority : \A k \in 1 .. Len(queue'[p]) :
            k + d[p] \in 1 .. Len(queue[p]) /\ queue'[p][k] = queue[p][k + d[p]] /\ k \in Int
      <3> TAKE p \in Priority
      <3> TAKE k \in 1 .. Len(queue'[p])
      <3>1. CASE p = q
        BY <2>1, <2>4, <3>1
      <3>2. CASE p # q
        BY <1>0, <2>3, <3>2
      <3>. QED
        BY <3>1, <3>2
    <2>6. d \in [Priority -> {0, 1}]
      OBVIOUS
    <2>7. QueuedPriority' /\ QueuedInOrder' /\ QueuedSorted'
      <3> HIDE DEF d
      <3>. QED
        BY <2>2, <2>5, <2>6, OrderShrinks
    <2>8. OrderOnce' /\ OrderCreated' /\ OrderNotInCall' /\ ScansHigh'
      BY <1>0, <2>2 DEF OrderParts, OrderOnce, OrderCreated, OrderNotInCall, ScansHigh, Accept, Created
    <2>9. \A w \in Worker : info'[w] = info[w] \/ info'[w] = queue[q][1]
      BY <1>0, <2>1, <2>2, HeadTailProperties DEF TypeOK
    <2>10. jobs[queue[q][1]].priority = q
      BY <1>0, <2>1, <2>4 DEF OrderParts, QueuedPriority
    <2>11. ASSUME NEW j \in Job, Older(j, queue[q][1]), jobs[j].priority = q
           PROVE  ~InQueue(j)'
      <3> SUFFICES ASSUME NEW p \in Priority, NEW k \in 1 .. Len(queue'[p]), queue'[p][k] = j
                   PROVE  FALSE
        BY DEF InQueue
      <3>1. p = q
        BY <2>2, <2>7, <2>11 DEF QueuedPriority
      <3>2. k + 1 \in 2 .. Len(queue[q]) /\ queue[q][k + 1] = j
        BY <2>4, <3>1
      <3>3. \A l \in 2 .. Len(queue[q]) : ~Older(queue[q][l], queue[q][1])
        BY <2>1, HeadOldest
      <3>. QED
        BY <2>11, <3>2, <3>3
    <2>12. \A w \in Worker : HandedRight(w)
      BY <2>9, <2>10, <2>11 DEF HandedRight
    <2>. QED
      BY <2>7, <2>8, <2>12 DEF OrderParts
  <1>11. ASSUME CallsBack \/ ClearResult PROVE Goal
    BY <1>4, <1>11 DEF CallsBack, ResultCopy, ClearResult, history
  <1>12. ASSUME Begins \/ Finishes \/ StoresResult PROVE Goal
    BY <1>4, <1>12 DEF Begins, WorkerPoll, Finishes, WorkerFinish, StoresResult, WorkerStore
  <1>13. ASSUME BecomesIdle \/ EndsInJob PROVE Goal
    <2>1. UNCHANGED <<order, queue, jobs, sub>>
      BY <1>13 DEF BecomesIdle, WorkerReset, EndsInJob, WorkerCancelled, history
    <2>2. \A w \in Worker : info'[w] = info[w] \/ info'[w] = NoJob
      BY <1>0, <1>13 DEF BecomesIdle, WorkerReset, EndsInJob, WorkerCancelled, TypeOK
    <2>. QED
      BY <1>4, <2>1, <2>2
  <1>. QED
    BY <1>0, <1>3, <1>5, <1>6, <1>8, <1>9, <1>10, <1>11, <1>12, <1>13, NextCases

\* At the start nothing is accepted.
LEMMA InitOInv == Init => OInv
  <1> SUFFICES ASSUME Init PROVE OrderParts
    BY InitInv DEF OInv
  <1>1. /\ Len(order) = 0 /\ \A p \in Priority : Len(queue[p]) = 0
        /\ \A c \in Caller : sub[c].pc = "none"
    BY DEF Init
  <1>. QED
    BY <1>1 DEF OrderParts, OrderOnce, OrderCreated, OrderNotInCall, QueuedPriority,
                QueuedInOrder, QueuedSorted, ScansHigh, Accept, Scans

\* No job of normal or low priority overtakes an older one of its priority,
\* whoever submits and however process_queue interleaves with it.
THEOREM HandedOutAsAccepted == Spec => HandedOutInOrder
  <1>1. OInv /\ [Next]_vars => OInv' /\ [\A w \in Worker : HandedRight(w)]_vars
    BY NextInv, OrderKept DEF OInv
  <1>. QED
    BY <1>1, InitOInv, PTL DEF Spec, HandedOutInOrder, HandedRight

-----------------------------------------------------------------------------
(***************************************************************************)
(* The job system implements JobContract.  A job is in one place at a      *)
(* time, which is its stage in the contract (PlacesApart), and a job that  *)
(* was dropped is nowhere (DropInv); a step moves one job, and the others  *)
(* keep their places.                                                      *)
(***************************************************************************)
Stage == [j \in Job |-> StageOf(j)]
Up == phase = "up" /\ ~crashed

PlacesApart ==
  \A j \in Job :
    /\ Waiting(j) => Created(j) /\ ~Running(j) /\ ~Returned(j) /\ ~Over(j)
    /\ Running(j) => Created(j) /\ ~Returned(j) /\ ~Over(j)
    /\ Returned(j) => Created(j) /\ ~Over(j)
    /\ Over(j) => Created(j)

Nowhere(j) == Created(j) /\ ~Waiting(j) /\ ~Running(j) /\ ~Returned(j) /\ ~Over(j)
DropInv == \A j \in Job : hist[j].dropped => Nowhere(j)

StagesKnown ==
  \A j \in Job :
    /\ ~Created(j) => StageOf(j) = "new"
    /\ Waiting(j) => StageOf(j) = "waiting"
    /\ Running(j) => StageOf(j) = "running"
    /\ Returned(j) => StageOf(j) = "returned"
    /\ Over(j) => StageOf(j) = "over"
    /\ Nowhere(j) => StageOf(j) = "lost"

\* A job is in one place at a time.
LEMMA OnePlace == IInv => PlacesApart
  <1> SUFFICES ASSUME IInv, NEW j \in Job
               PROVE  /\ Waiting(j) => Created(j) /\ ~Running(j) /\ ~Returned(j) /\ ~Over(j)
                      /\ Running(j) => Created(j) /\ ~Returned(j) /\ ~Over(j)
                      /\ Returned(j) => Created(j) /\ ~Over(j)
                      /\ Over(j) => Created(j)
    BY DEF PlacesApart
  <1>0. NoJob \notin Job /\ j # NoJob
    BY JobAssumption
  <1>1. /\ hist[j].outcome # "none" => hist[j].starts = 1
        /\ ~Created(j) => hist[j].starts = 0
        /\ hist[j].callbacks # <<>> => hist[j].outcome # "none"
    BY Parts DEF HistInv
  <1>2. Waiting(j) => hist[j].starts = 0 /\ Created(j)
    <2>1. ASSUME NEW c \in Caller, sub[c].job = j PROVE hist[j].starts = 0 /\ Created(j)
      BY <1>0, <2>1, Parts DEF SubJob
    <2>2. ASSUME InQueue(j) PROVE hist[j].starts = 0 /\ Created(j)
      BY <2>2, Parts DEF InQueue, QueuedNew
    <2>3. ASSUME NEW w \in Worker, info[w] = j, thr[w].job # j
          PROVE  hist[j].starts = 0 /\ Created(j)
      BY <1>0, <2>3, Parts DEF InfoJob, InfoNew, ThrJob
    <2>. QED
      BY <2>1, <2>2, <2>3 DEF Waiting
  <1>3. Running(j) => hist[j].starts = 1 /\ hist[j].outcome = "none"
    BY Parts DEF Running, ThrRun
  <1>4. Returned(j) => hist[j].outcome # "none" /\ hist[j].callbacks = <<>> /\ CallbackWanted(j, hist[j].outcome)
    <2>1. ASSUME NEW w \in Worker, thr[w].job = j, thr[w].pc \in {"storeWait", "store"}
          PROVE  /\ hist[j].outcome # "none" /\ hist[j].callbacks = <<>>
                 /\ CallbackWanted(j, hist[j].outcome)
      BY <2>1, Parts DEF ThrStore
    <2>2. ASSUME NEW i \in Slot, results[i].job = j, hist[j].callbacks = <<>>
          PROVE  /\ hist[j].outcome # "none" /\ hist[j].callbacks = <<>>
                 /\ CallbackWanted(j, hist[j].outcome)
      BY <1>0, <2>2, Parts DEF ResultJob
    <2>. QED
      BY <2>1, <2>2 DEF Returned
  <1>5. Over(j) => hist[j].outcome # "none"
    BY <1>1 DEF Over
  <1>6. Over(j) => ~(hist[j].callbacks = <<>> /\ CallbackWanted(j, hist[j].outcome))
    BY DEF Over
  <1>. QED
    BY <1>1, <1>2, <1>3, <1>4, <1>5, <1>6

\* The place of a job is its stage.
LEMMA PlaceIsStage == PlacesApart /\ DropInv => StagesKnown
  <1> SUFFICES ASSUME PlacesApart, DropInv, NEW j \in Job
               PROVE  /\ ~Created(j) => StageOf(j) = "new"
                      /\ Waiting(j) => StageOf(j) = "waiting"
                      /\ Running(j) => StageOf(j) = "running"
                      /\ Returned(j) => StageOf(j) = "returned"
                      /\ Over(j) => StageOf(j) = "over"
                      /\ Nowhere(j) => StageOf(j) = "lost"
    BY DEF StagesKnown
  <1>1. /\ Waiting(j) => Created(j) /\ ~Running(j) /\ ~Returned(j) /\ ~Over(j)
        /\ Running(j) => Created(j) /\ ~Returned(j) /\ ~Over(j)
        /\ Returned(j) => Created(j) /\ ~Over(j)
        /\ Over(j) => Created(j)
        /\ hist[j].dropped => Created(j) /\ ~Waiting(j) /\ ~Running(j) /\ ~Returned(j) /\ ~Over(j)
    BY DEF PlacesApart, DropInv, Nowhere
  <1>. QED
    BY <1>1, Zenon DEF StageOf, Nowhere

LEMMA StagesAre == IInv /\ DropInv => StagesKnown
  BY OnePlace, PlaceIsStage

LEMMA StagesAreNext == IInv' /\ DropInv' => StagesKnown'
  BY StagesAre, PTL

-----------------------------------------------------------------------------
\* A step that leaves a job in its place, and one that moves one job only.
KeepsPlace(k) ==
  /\ jobs'[k] = jobs[k] /\ hist'[k].outcome = hist[k].outcome
  /\ hist'[k].callbacks = hist[k].callbacks /\ hist'[k].dropped = hist[k].dropped
  /\ \A c \in Caller : sub'[c].job = k <=> sub[c].job = k
  /\ InQueue(k)' <=> InQueue(k)
  /\ \A w \in Worker : /\ info'[w] = k <=> info[w] = k
                       /\ thr'[w].job = k <=> thr[w].job = k
                       /\ thr[w].job = k => /\ thr'[w].pc = "run" <=> thr[w].pc = "run"
                                            /\ Stores(thr'[w].pc) <=> Stores(thr[w].pc)
  /\ \A i \in Slot : results'[i].job = k <=> results[i].job = k

MovesOnly(j) == \A k \in Job : k # j => KeepsPlace(k)

SamePlace(k) ==
  /\ Created(k)' <=> Created(k)
  /\ Waiting(k)' <=> Waiting(k)
  /\ Running(k)' <=> Running(k)
  /\ Returned(k)' <=> Returned(k)
  /\ Over(k)' <=> Over(k)
  /\ hist'[k].dropped = hist[k].dropped

ContractStep == [Contract!Next]_(Contract!vars)

\* A job that keeps its place keeps its stage.
LEMMA PlaceKept ==
  ASSUME NEW k \in Job, KeepsPlace(k)
  PROVE  SamePlace(k)
  <1>1. Created(k)' <=> Created(k)
    BY DEF KeepsPlace, Created
  <1>2. \A r : CallbackWanted(k, r)' <=> CallbackWanted(k, r)
    BY DEF KeepsPlace, CallbackWanted
  <1>3. Waiting(k)' <=> Waiting(k)
    <2>1. (\E c \in Caller : sub'[c].job = k) <=> (\E c \in Caller : sub[c].job = k)
      BY DEF KeepsPlace
    <2>2. (\E w \in Worker : info'[w] = k /\ thr'[w].job # k)
             <=> (\E w \in Worker : info[w] = k /\ thr[w].job # k)
      BY DEF KeepsPlace
    <2>3. InQueue(k)' <=> InQueue(k)
      BY DEF KeepsPlace
    <2>. QED
      BY <2>1, <2>2, <2>3, Zenon DEF Waiting
  <1>4. Running(k)' <=> Running(k)
    BY DEF KeepsPlace, Running
  <1>5. Returned(k)' <=> Returned(k)
    BY DEF KeepsPlace, Returned, Stores
  <1>6. Over(k)' <=> Over(k)
    BY <1>2 DEF KeepsPlace, Over
  <1>7. hist'[k].dropped = hist[k].dropped
    BY DEF KeepsPlace
  <1>. QED
    BY <1>1, <1>3, <1>4, <1>5, <1>6, <1>7 DEF SamePlace

LEMMA StageKept ==
  ASSUME StagesKnown, StagesKnown', NEW k \in Job, SamePlace(k)
  PROVE  StageOf(k)' = StageOf(k)
  <1>1. \/ ~Created(k) \/ Waiting(k) \/ Running(k) \/ Returned(k) \/ Over(k) \/ Nowhere(k)
    BY DEF Nowhere
  <1>. QED
    BY <1>1 DEF StagesKnown, SamePlace, Nowhere

\* The steps that leave every stage alone.
LEMMA StagesStay ==
  ASSUME \A j \in Job : StageOf(j)' = StageOf(j), Up' = Up \/ Up' = FALSE
  PROVE  ContractStep
  <1>1. Stage' = Stage
    BY DEF Stage
  <1>. HIDE DEF Stage, Up
  <1>2. CASE Up' = Up
    BY <1>1, <1>2 DEF ContractStep, Contract!vars, Stage, Up
  <1>3. CASE Up' = FALSE
    <2>1. Contract!Stop
      BY <1>1, <1>3 DEF Contract!Stop, Stage, Up
    <2>. QED
      BY <2>1 DEF ContractStep, Contract!Next
  <1>. QED
    BY <1>2, <1>3

LEMMA AllStay ==
  ASSUME IInv, IInv', DropInv, \A k \in Job : SamePlace(k), Up' = Up \/ Up' = FALSE
  PROVE  DropInv' /\ ContractStep
  <1>1. DropInv'
    BY DEF DropInv, SamePlace, Nowhere
  <1>2. \A k \in Job : StageOf(k)' = StageOf(k)
    BY <1>1, StageKept, StagesAre, StagesAreNext
  <1>. QED
    BY <1>1, <1>2, StagesStay

\* A step that moves one job: its stages are its places before and after.
LEMMA OneMoves ==
  ASSUME IInv, IInv', DropInv, NEW j \in Job, MovesOnly(j), hist'[j].dropped => Nowhere(j)'
  PROVE  /\ DropInv' /\ StagesKnown /\ StagesKnown'
         /\ \A k \in Job : k # j => StageOf(k)' = StageOf(k)
  <1>1. DropInv'
    BY PlaceKept DEF DropInv, MovesOnly, SamePlace, Nowhere
  <1>2. StagesKnown /\ StagesKnown'
    BY <1>1, StagesAre, StagesAreNext
  <1>. QED
    BY <1>1, <1>2, StageKept, PlaceKept DEF MovesOnly

\* The step of the contract that it is.
LEMMA OneGoes ==
  ASSUME NEW j \in Job, \A k \in Job : k # j => StageOf(k)' = StageOf(k), UpStays,
         NEW from, NEW to, StageOf(j) = from, StageOf(j)' = to
  PROVE  Contract!Goes(j, from, to)
  <1>1. Up' = Up
    BY DEF Up, UpStays
  <1>2. Stage[j] = from
    BY DEF Stage
  <1>3. Stage' = [Stage EXCEPT ![j] = to]
    BY DEF Stage
  <1>. QED
    BY <1>1, <1>2, <1>3 DEF Contract!Goes, Stage, Up

\* Once the system is down, a job may be given up.
LEMMA OneLost ==
  ASSUME NEW j \in Job, \A k \in Job : k # j => StageOf(k)' = StageOf(k), UpStays, ~Up,
         StageOf(j) \in {"waiting", "running", "returned"}, StageOf(j)' = "lost"
  PROVE  Contract!Abandon
  <1>1. Up' = Up
    BY DEF Up, UpStays
  <1>2. {j} \in SUBSET {k \in Job : Stage[k] \in {"waiting", "running", "returned"}}
    BY DEF Stage
  <1>3. Stage' = [k \in Job |-> IF k \in {j} THEN "lost" ELSE Stage[k]]
    BY DEF Stage
  <1>. QED
    BY <1>1, <1>2, <1>3 DEF Contract!Abandon, Stage, Up

\* A job that has not started is nowhere a job is after its start.
LEMMA NotStarted ==
  ASSUME IInv, NEW j \in Job, hist[j].starts = 0
  PROVE  /\ hist[j].outcome = "none" /\ hist[j].callbacks = <<>>
         /\ ~Running(j) /\ ~Returned(j) /\ ~Over(j)
  <1>1. NoJob \notin Job
    BY JobAssumption
  <1>2. hist[j].outcome = "none" /\ hist[j].callbacks = <<>>
    BY Parts DEF HistInv
  <1>3. ~Running(j)
    BY Parts DEF Running, ThrRun
  <1>4. ~Returned(j)
    BY <1>1, <1>2, Parts DEF Returned, ThrStore, ResultJob
  <1>. QED
    BY <1>2, <1>3, <1>4 DEF Over

\* A job that has started waits nowhere, and no thread but its own has it.
LEMMA Started ==
  ASSUME IInv, NEW w \in Worker, thr[w].job # NoJob, hist[thr[w].job].starts # 0
  PROVE  /\ Created(thr[w].job) /\ ~Waiting(thr[w].job) /\ thr[w].job \in Job
         /\ \A v \in Worker : info[v] = thr[w].job \/ thr[v].job = thr[w].job => v = w
  <1> DEFINE j == thr[w].job
  <1>1. j \in Job /\ info[w] = j /\ j # NoJob
    BY Parts, ThrType DEF ThrJob
  <1>2. \A v \in Worker : info[v] = j \/ thr[v].job = j => v = w
    BY <1>1, Parts DEF ThrJob, InfoOnce
  <1>3. \A c \in Caller : sub[c].job # j
    BY <1>1, Parts DEF SubJob
  <1>4. ~InQueue(j)
    BY Parts DEF InQueue, QueuedNew
  <1>5. ~Waiting(j)
    BY <1>2, <1>3, <1>4 DEF Waiting
  <1>6. Created(j)
    BY <1>1, Parts DEF InfoJob
  <1>. QED
    BY <1>1, <1>2, <1>5, <1>6

-----------------------------------------------------------------------------
(* The steps that move a job, and the step of the contract each of them is. *)

\* What the steps do to the elements of the queues.
LEMMA AppendsOne ==
  ASSUME queue \in [Priority -> Seq(Job)], NEW p \in Priority, NEW j \in Job,
         queue' = [queue EXCEPT ![p] = Append(@, j)]
  PROVE  InQueue(j)' /\ \A k \in Job : k # j => (InQueue(k)' <=> InQueue(k))
  <1>1. /\ Len(queue[p]) \in Nat /\ Len(queue'[p]) = Len(queue[p]) + 1
        /\ queue'[p][Len(queue[p]) + 1] = j
        /\ \A m \in 1 .. Len(queue[p]) : queue'[p][m] = queue[p][m]
        /\ \A q \in Priority : q # p => queue'[q] = queue[q]
    BY AppendAt
  <1>2. Len(queue[p]) + 1 \in 1 .. Len(queue'[p])
    BY <1>1
  <1>3. \A m \in 1 .. Len(queue[p]) : m \in 1 .. Len(queue'[p])
    BY <1>1
  <1>4. \A m \in 1 .. Len(queue'[p]) : m \in 1 .. Len(queue[p]) \/ m = Len(queue[p]) + 1
    BY <1>1
  <1>5. InQueue(j)'
    BY <1>1, <1>2 DEF InQueue
  <1>6. ASSUME NEW k \in Job, k # j, InQueue(k)' PROVE InQueue(k)
    <2>1. PICK q \in Priority : \E m \in 1 .. Len(queue'[q]) : queue'[q][m] = k
      BY <1>6 DEF InQueue
    <2>. QED
      BY <1>1, <1>4, <1>6, <2>1 DEF InQueue
  <1>7. ASSUME NEW k \in Job, InQueue(k) PROVE InQueue(k)'
    <2>1. PICK q \in Priority : \E m \in 1 .. Len(queue[q]) : queue[q][m] = k
      BY <1>7 DEF InQueue
    <2>. QED
      BY <1>1, <1>3, <2>1 DEF InQueue
  <1>. QED
    BY <1>5, <1>6, <1>7

LEMMA RemovesHead ==
  ASSUME queue \in [Priority -> Seq(Job)], NEW p \in Priority, queue[p] # <<>>,
         queue' = [queue EXCEPT ![p] = Tail(@)]
  PROVE  /\ InQueue(Head(queue[p])) /\ Head(queue[p]) \in Job
         /\ \A k \in Job : k # Head(queue[p]) => (InQueue(k)' <=> InQueue(k))
  <1>1. /\ Len(queue[p]) \in Nat \ {0} /\ Head(queue[p]) = queue[p][1] /\ Head(queue[p]) \in Job
        /\ Len(Tail(queue[p])) = Len(queue[p]) - 1
        /\ \A m \in 1 .. Len(Tail(queue[p])) : Tail(queue[p])[m] = queue[p][m + 1]
    BY HeadTailProperties
  <1>2. queue'[p] = Tail(queue[p]) /\ \A q \in Priority : q # p => queue'[q] = queue[q]
    OBVIOUS
  <1>3. 1 \in 1 .. Len(queue[p])
    BY <1>1
  <1>4. \A m \in 1 .. Len(queue'[p]) : m + 1 \in 1 .. Len(queue[p]) /\ queue'[p][m] = queue[p][m + 1]
    BY <1>1, <1>2
  <1>5. \A m \in 1 .. Len(queue[p]) :
          m # 1 => m - 1 \in 1 .. Len(queue'[p]) /\ queue'[p][m - 1] = queue[p][m]
    <2> TAKE m \in 1 .. Len(queue[p])
    <2> HAVE m # 1
    <2>1. m - 1 \in 1 .. Len(queue'[p]) /\ (m - 1) + 1 = m
      BY <1>1, <1>2
    <2>. QED
      BY <1>4, <2>1
  <1>6. InQueue(Head(queue[p]))
    BY <1>1, <1>3 DEF InQueue
  <1>7. ASSUME NEW k \in Job, InQueue(k)' PROVE InQueue(k)
    <2>1. PICK q \in Priority : \E m \in 1 .. Len(queue'[q]) : queue'[q][m] = k
      BY <1>7 DEF InQueue
    <2>. QED
      BY <1>2, <1>4, <2>1 DEF InQueue
  <1>8. ASSUME NEW k \in Job, k # Head(queue[p]), InQueue(k) PROVE InQueue(k)'
    <2>1. PICK q \in Priority : \E m \in 1 .. Len(queue[q]) : queue[q][m] = k
      BY <1>8 DEF InQueue
    <2>2. PICK m \in 1 .. Len(queue[q]) : queue[q][m] = k
      BY <2>1
    <2>3. \E n \in 1 .. Len(queue'[q]) : queue'[q][n] = k
      <3>1. CASE q = p
        <4>1. m \in 1 .. Len(queue[p]) /\ queue[p][m] = k /\ m # 1
          BY <1>1, <1>8, <2>2, <3>1
        <4>. QED
          BY <1>5, <3>1, <4>1
      <3>2. CASE q # p
        BY <1>2, <2>2, <3>2
      <3>. QED
        BY <3>1, <3>2
    <2>. QED
      BY <2>3 DEF InQueue
  <1>. QED
    BY <1>1, <1>6, <1>7, <1>8

LEMMA JobsStayImplements ==
  ASSUME IInv, IInv', DropInv, JobsStay, UpStays \/ phase' # "up" \/ crashed'
  PROVE  DropInv' /\ ContractStep
  <1>1. \A k \in Job : KeepsPlace(k)
    BY DEF KeepsPlace, JobsStay, InQueue
  <1>2. Up' = Up \/ Up' = FALSE
    BY DEF Up, UpStays
  <1>. QED
    BY <1>1, <1>2, AllStay, PlaceKept

\* The queues are destroyed, with the jobs in them.
LEMMA ShutdownImplements ==
  ASSUME IInv, IInv', DropInv, Shutdown, phase = "cancelled"
  PROVE  DropInv' /\ ContractStep
  <1> DEFINE S == {k \in Job : InQueue(k)}
  <1>1. /\ phase' = "noqueues" /\ queue' = [p \in Priority |-> <<>>]
        /\ UNCHANGED <<info, results, jobs, sub, thr, crashed, hist>>
    BY DEF Shutdown, history
  <1>2. \A k \in Job : ~InQueue(k)'
    BY <1>1 DEF InQueue
  <1>3. \A k \in Job : k \notin S => SamePlace(k)
    <2>1. \A k \in Job : k \notin S => KeepsPlace(k)
      BY <1>1, <1>2 DEF KeepsPlace
    <2>. QED
      BY <2>1, PlaceKept
  <1>4. ASSUME NEW k \in Job, k \in S PROVE Waiting(k) /\ Nowhere(k)'
    <2>1. PICK p \in Priority : \E m \in 1 .. Len(queue[p]) : queue[p][m] = k
      BY <1>4 DEF InQueue
    <2>2. Created(k) /\ hist[k].starts = 0
      BY <2>1, Parts DEF QueuedNew
    <2>3. \A c \in Caller : sub[c].job # k
      BY <2>1, Parts DEF QueuedNotInCall
    <2>4. \A w \in Worker : info[w] # k
      BY <2>1, Parts, JobAssumption DEF InfoNotQueued
    <2>5. ~Running(k) /\ ~Returned(k) /\ ~Over(k)
      BY <2>2, NotStarted
    <2>6. Created(k)' /\ ~Running(k)' /\ ~Returned(k)' /\ ~Over(k)'
      BY <1>1, <2>2, <2>5 DEF Created, Running, Returned, Over, CallbackWanted
    <2>7. ~Waiting(k)'
      BY <1>1, <1>2, <2>3, <2>4 DEF Waiting
    <2>. QED
      BY <1>4, <2>6, <2>7 DEF Waiting, Nowhere
  <1>5. DropInv'
    BY <1>3, <1>4 DEF DropInv, SamePlace, Nowhere
  <1>6. StagesKnown /\ StagesKnown'
    BY <1>5, StagesAre, StagesAreNext
  <1>7. \A k \in S : StageOf(k) = "waiting" /\ StageOf(k)' = "lost"
    BY <1>4, <1>6 DEF StagesKnown
  <1>8. \A k \in Job : k \notin S => StageOf(k)' = StageOf(k)
    BY <1>3, <1>6, StageKept
  <1>9. Up' = Up /\ ~Up
    BY <1>1 DEF Up
  <1>10. S \in SUBSET {k \in Job : Stage[k] \in {"waiting", "running", "returned"}}
    BY <1>7 DEF Stage
  <1>11. Stage' = [k \in Job |-> IF k \in S THEN "lost" ELSE Stage[k]]
    BY <1>7, <1>8 DEF Stage
  <1>12. Contract!Abandon
    <2> HIDE DEF S
    <2>. QED
      BY <1>9, <1>10, <1>11 DEF Contract!Abandon, Stage, Up
  <1>. QED
    BY <1>5, <1>12 DEF ContractStep, Contract!Next

\* job_create and the call of job_system_submit.
LEMMA SubmitsImplements ==
  ASSUME IInv, IInv', DropInv, Submits, UpStays
  PROVE  DropInv' /\ ContractStep
  <1>1. PICK c \in Caller : SubmitCall(c)
    BY DEF Submits
  <1>2. PICK j \in Job, kind \in JobKind :
          /\ ~Created(j) /\ jobs' = [jobs EXCEPT ![j] = kind]
          /\ Calls(c, IF kind.priority = "high" THEN "scan" ELSE "queue", j, 0)
    BY <1>1 DEF SubmitCall
  <1>3. sub[c].pc = "none" /\ UNCHANGED <<info, queue, results, thr, hist>>
    BY <1>1 DEF SubmitCall, MaySubmit, history
  <1>4. sub'[c].job = j /\ \A d \in Caller : d # c => sub'[d] = sub[d]
    BY <1>2, Parts, CallsAt
  <1>5. sub[c].job = NoJob /\ NoJob \notin Job
    BY <1>3, Parts, JobAssumption DEF SubJob
  <1>6. MovesOnly(j)
    <2>1. \A k \in Job : k # j => jobs'[k] = jobs[k]
      BY <1>2, Parts DEF TypeOK
    <2>. QED
      BY <1>3, <1>4, <1>5, <2>1 DEF MovesOnly, KeepsPlace, InQueue
  <1>7. Waiting(j)'
    BY <1>4 DEF Waiting
  <1>8. ~hist'[j].dropped
    BY <1>2, <1>3 DEF DropInv, Nowhere
  <1>9. /\ DropInv' /\ StagesKnown /\ StagesKnown'
        /\ \A k \in Job : k # j => StageOf(k)' = StageOf(k)
    BY <1>6, <1>8, OneMoves
  <1>10. StageOf(j) = "new" /\ StageOf(j)' = "waiting"
    BY <1>2, <1>7, <1>9 DEF StagesKnown
  <1>11. Contract!Submit(j)
    BY <1>9, <1>10, OneGoes DEF Contract!Submit
  <1>. QED
    BY <1>9, <1>11 DEF ContractStep, Contract!Next

\* The submitting thread gives the job to an idle thread: it goes on waiting.
LEMMA HandsOverImplements ==
  ASSUME IInv, IInv', DropInv, HandsOver, UpStays
  PROVE  DropInv' /\ ContractStep
  <1>1. PICK c \in Caller : SubmitTest(c) /\ info[sub[c].i] = NoJob
    BY DEF HandsOver
  <1>2. sub[c].pc = "test" /\ sub[c].i \in Worker /\ sub[c].job \in Job /\ NoJob \notin Job
    BY <1>1, Parts, SubType, JobAssumption DEF SubTest, SubJob, SubmitTest
  <1>3. PICK j \in Job, i \in Worker : j = sub[c].job /\ i = sub[c].i
    BY <1>2
  <1>4. /\ info[i] = NoJob /\ info' = [info EXCEPT ![i] = j] /\ Calls(c, "none", NoJob, i)
        /\ UNCHANGED <<queue, results, jobs, thr, hist>>
    BY <1>1, <1>3 DEF SubmitTest
  <1>5. sub'[c].job = NoJob /\ \A d \in Caller : d # c => sub'[d] = sub[d]
    BY <1>4, Parts, CallsAt
  <1>6. info'[i] = j /\ \A w \in Worker : w # i => info'[w] = info[w]
    BY <1>4, Parts DEF TypeOK
  <1>7. thr[i].job # j
    BY <1>2, <1>4, Parts DEF ThrJob
  <1>8. MovesOnly(j)
    BY <1>2, <1>3, <1>4, <1>5, <1>6 DEF MovesOnly, KeepsPlace, InQueue
  <1>9. Waiting(j) /\ Waiting(j)'
    BY <1>3, <1>4, <1>6, <1>7 DEF Waiting
  <1>10. ~hist'[j].dropped
    BY <1>4, <1>9 DEF DropInv, Nowhere
  <1>11. /\ DropInv' /\ StagesKnown /\ StagesKnown'
         /\ \A k \in Job : k # j => StageOf(k)' = StageOf(k)
    BY <1>8, <1>10, OneMoves
  <1>12. StageOf(j)' = StageOf(j)
    BY <1>9, <1>11 DEF StagesKnown
  <1>13. Up' = Up
    BY DEF Up, UpStays
  <1>. QED
    BY <1>11, <1>12, <1>13, StagesStay

\* ring_queue_enqueue: the job waits in the queue, or it is forgotten.
LEMMA EnqueuesImplements ==
  ASSUME IInv, IInv', DropInv, Enqueues, UpStays
  PROVE  DropInv' /\ ContractStep
  <1>1. PICK c \in Caller : SubmitEnqueue(c)
    BY DEF Enqueues
  <1>2. sub[c].pc = "enqueue" /\ sub[c].job \in Job /\ NoJob \notin Job
    BY <1>1, Parts, SubType, JobAssumption DEF SubJob, SubmitEnqueue
  <1>3. PICK j \in Job : j = sub[c].job
    BY <1>2
  <1>4. Created(j) /\ hist[j].starts = 0 /\ jobs[j].priority \in Priority
    <2>1. Created(j) /\ hist[j].starts = 0
      BY <1>2, <1>3, Parts DEF SubJob
    <2>. QED
      BY <2>1, Parts DEF TypeOK, Created, JobInfo
  <1>5. /\ Calls(c, "none", NoJob, sub[c].i)
        /\ UNCHANGED <<info, results, jobs, thr>>
    BY <1>1 DEF SubmitEnqueue
  <1>6. sub'[c].job = NoJob /\ \A d \in Caller : d # c => sub'[d] = sub[d]
    BY <1>5, Parts, CallsAt
  <1>7. Waiting(j) /\ ~hist[j].dropped
    BY <1>3 DEF Waiting, DropInv, Nowhere
  <1>8. Up' = Up
    BY DEF Up, UpStays
  <1>9. CASE ~Full(jobs[j].priority)
    <2>1. queue' = [queue EXCEPT ![jobs[j].priority] = Append(@, j)] /\ UNCHANGED hist
      BY <1>1, <1>3, <1>9 DEF SubmitEnqueue
    <2>2. InQueue(j)' /\ \A k \in Job : k # j => (InQueue(k)' <=> InQueue(k))
      BY <1>4, <2>1, Parts, AppendsOne DEF TypeOK
    <2>3. MovesOnly(j)
      BY <1>2, <1>3, <1>5, <1>6, <2>1, <2>2 DEF MovesOnly, KeepsPlace
    <2>4. Waiting(j)'
      BY <2>2 DEF Waiting
    <2>5. /\ DropInv' /\ StagesKnown /\ StagesKnown'
          /\ \A k \in Job : k # j => StageOf(k)' = StageOf(k)
      BY <1>7, <2>1, <2>3, OneMoves
    <2>6. StageOf(j)' = StageOf(j)
      BY <1>7, <2>4, <2>5 DEF StagesKnown
    <2>. QED
      BY <1>8, <2>5, <2>6, StagesStay
  <1>10. CASE Full(jobs[j].priority)
    <2>1. hist' = [hist EXCEPT ![j].dropped = TRUE] /\ UNCHANGED queue
      BY <1>1, <1>3, <1>10 DEF SubmitEnqueue
    <2>2. \A k \in Job : /\ hist'[k].starts = hist[k].starts /\ hist'[k].outcome = hist[k].outcome
                         /\ hist'[k].callbacks = hist[k].callbacks
      BY <2>1, Parts, DroppedAt DEF TypeOK
    <2>3. \A k \in Job : k # j => hist'[k] = hist[k]
      BY <2>1, Parts DEF TypeOK
    <2>4. MovesOnly(j)
      BY <1>2, <1>3, <1>5, <1>6, <2>1, <2>3 DEF MovesOnly, KeepsPlace, InQueue
    <2>5. ~Waiting(j)'
      <3>1. \A d \in Caller : sub'[d].job # j
        BY <1>2, <1>3, <1>6, Parts DEF SubOnce
      <3>2. ~InQueue(j)'
        BY <1>3, <2>1, Parts DEF InQueue, QueuedNotInCall
      <3>3. \A w \in Worker : info'[w] # j
        BY <1>2, <1>3, <1>5, Parts DEF InfoNotInCall
      <3>. QED
        BY <3>1, <3>2, <3>3 DEF Waiting
    <2>6. Created(j)' /\ ~Running(j)' /\ ~Returned(j)' /\ ~Over(j)'
      <3>1. ~Running(j) /\ ~Returned(j) /\ ~Over(j)
        BY <1>4, NotStarted
      <3>. QED
        BY <1>4, <1>5, <2>2, <3>1 DEF Created, Running, Returned, Over, CallbackWanted
    <2>7. Nowhere(j)'
      BY <2>5, <2>6 DEF Nowhere
    <2>8. /\ DropInv' /\ StagesKnown /\ StagesKnown'
          /\ \A k \in Job : k # j => StageOf(k)' = StageOf(k)
      BY <2>4, <2>7, OneMoves
    <2>9. StageOf(j) = "waiting" /\ StageOf(j)' = "lost"
      BY <1>7, <2>7, <2>8 DEF StagesKnown
    <2>10. CASE Len(queue[jobs[j].priority]) = QueueCapacity
      <3>1. NoRoom(j)
        BY <1>4, <2>10, NotStarted DEF NoRoom
      <3>2. Contract!Refuse(j)
        BY <2>8, <2>9, <3>1, OneGoes DEF Contract!Refuse
      <3>. QED
        BY <2>8, <3>2 DEF ContractStep, Contract!Next
    <2>11. CASE phase \in {"noqueues", "nomutexes", "down"}
      <3>1. Contract!Abandon
        BY <2>8, <2>9, <2>11, OneLost DEF Up
      <3>. QED
        BY <2>8, <3>1 DEF ContractStep, Contract!Next
    <2>. QED
      BY <1>10, <2>10, <2>11 DEF Full
  <1>. QED
    BY <1>9, <1>10

\* process_queue gives the job at the head to a thread: it goes on waiting.
LEMMA AssignImplements ==
  ASSUME IInv, IInv', DropInv, Assign, UpStays
  PROVE  DropInv' /\ ContractStep
  <1>1. /\ main.pc = "assign" /\ main.q \in Priority /\ main.i \in Worker
        /\ queue[main.q] # <<>> /\ info[main.i] = NoJob
    BY Parts, MainType DEF Assign, MainPeeked, MainThread, MainFree
  <1>2. PICK p \in Priority, i \in Worker : p = main.q /\ i = main.i
    BY <1>1
  <1>3. /\ info' = [info EXCEPT ![i] = Head(queue[p])] /\ queue' = [queue EXCEPT ![p] = Tail(@)]
        /\ UNCHANGED <<results, jobs, sub, thr, hist>>
    BY <1>1, <1>2 DEF Assign, history
  <1>4. /\ InQueue(Head(queue[p])) /\ Head(queue[p]) \in Job
        /\ \A k \in Job : k # Head(queue[p]) => (InQueue(k)' <=> InQueue(k))
    BY <1>1, <1>2, <1>3, Parts, RemovesHead DEF TypeOK
  <1>5. PICK j \in Job : j = Head(queue[p])
    BY <1>4
  <1>6. info'[i] = j /\ \A w \in Worker : w # i => info'[w] = info[w]
    BY <1>3, <1>5, Parts DEF TypeOK
  <1>7. info[i] = NoJob /\ NoJob \notin Job
    BY <1>1, <1>2, JobAssumption
  <1>8. thr[i].job # j
    BY <1>7, Parts DEF ThrJob
  <1>9. MovesOnly(j)
    BY <1>3, <1>4, <1>5, <1>6, <1>7 DEF MovesOnly, KeepsPlace
  <1>10. Waiting(j) /\ Waiting(j)'
    BY <1>3, <1>4, <1>5, <1>6, <1>8 DEF Waiting
  <1>11. ~hist'[j].dropped
    BY <1>3, <1>10 DEF DropInv, Nowhere
  <1>12. /\ DropInv' /\ StagesKnown /\ StagesKnown'
         /\ \A k \in Job : k # j => StageOf(k)' = StageOf(k)
    BY <1>9, <1>11, OneMoves
  <1>13. StageOf(j)' = StageOf(j)
    BY <1>10, <1>12 DEF StagesKnown
  <1>14. Up' = Up
    BY DEF Up, UpStays
  <1>. QED
    BY <1>12, <1>13, <1>14, StagesStay

\* The callback of a stored result.
LEMMA CallsBackImplements ==
  ASSUME IInv, IInv', DropInv, CallsBack, UpStays
  PROVE  DropInv' /\ ContractStep
  <1>1. /\ main.pc = "copy" /\ results[main.slot] # NoResult
        /\ UNCHANGED <<info, queue, results, jobs, sub, thr>>
        /\ hist' = [hist EXCEPT ![results[main.slot].job].callbacks = Append(@, results[main.slot].outcome)]
    BY DEF CallsBack, ResultCopy
  <1>2. /\ main.slot \in Slot /\ NoJob \notin Job
        /\ results[main.slot].job \in Job /\ results[main.slot].outcome \in Outcome
    BY <1>1, Parts, ResultType, JobAssumption DEF MainSlot, ResultFree
  <1>3. PICK j \in Job, s \in Slot, r \in Outcome :
          s = main.slot /\ j = results[s].job /\ r = results[s].outcome
    BY <1>2
  <1>4. hist' = [hist EXCEPT ![j].callbacks = Append(@, r)]
    BY <1>1, <1>3
  <1>5. /\ hist'[j].callbacks = Append(hist[j].callbacks, r)
        /\ \A k \in Job : k # j => hist'[k] = hist[k]
        /\ hist'[j].dropped = hist[j].dropped
    <2>1. hist \in [Job -> JobHistory]
      BY Parts DEF TypeOK
    <2>2. hist'[j].dropped = hist[j].dropped
      BY <1>4, <2>1 DEF JobHistory
    <2>. QED
      BY <1>4, <2>1, <2>2, CalledAt
  <1>6. hist'[j].callbacks # <<>>
    <2>1. hist[j].callbacks \in Seq(Outcome)
      BY Parts, HistType
    <2>. QED
      BY <1>5, <2>1, AppendAt
  <1>7. hist[j].callbacks = <<>>
    BY <1>1, <1>2, <1>3, Parts DEF ResultCalled
  <1>8. Returned(j) /\ Over(j)'
    BY <1>3, <1>6, <1>7, SMTT(30) DEF Returned, Over
  <1>9. MovesOnly(j)
    BY <1>1, <1>5, ZenonT(30) DEF MovesOnly, KeepsPlace, InQueue
  <1>10. ~hist'[j].dropped
    BY <1>5, <1>8 DEF DropInv, Nowhere
  <1>11. /\ DropInv' /\ StagesKnown /\ StagesKnown'
         /\ \A k \in Job : k # j => StageOf(k)' = StageOf(k)
    BY <1>9, <1>10, OneMoves
  <1>12. StageOf(j) = "returned" /\ StageOf(j)' = "over"
    BY <1>8, <1>11 DEF StagesKnown
  <1>13. Contract!Call(j)
    BY <1>11, <1>12, OneGoes DEF Contract!Call
  <1>. QED
    BY <1>11, <1>13 DEF ContractStep, Contract!Next

\* The entry of a result whose callback was called is cleared.
LEMMA ClearResultImplements ==
  ASSUME EInv, IInv', DropInv, ClearResult, UpStays
  PROVE  DropInv' /\ ContractStep
  <1>1. IInv /\ main.pc = "clear" /\ results' = [results EXCEPT ![main.slot] = NoResult]
        /\ UNCHANGED <<info, queue, jobs, sub, thr, hist>>
    BY DEF ClearResult, history, EInv
  <1>2. /\ main.slot \in Slot /\ NoJob \notin Job
        /\ results[main.slot].job \in Job /\ hist[results[main.slot].job].callbacks # <<>>
    BY <1>1, Parts, ResultType, JobAssumption DEF MainSlot, MainCalled, Answers, EInv
  <1>3. PICK j \in Job, s \in Slot : s = main.slot /\ j = results[s].job
    BY <1>2
  <1>4. results'[s].job = NoJob /\ \A i \in Slot : i # s => results'[i] = results[i]
    BY <1>1, <1>3, Parts DEF TypeOK, NoResult
  <1>5. Over(j) /\ Over(j)'
    BY <1>1, <1>2, <1>3 DEF Over
  <1>6. MovesOnly(j)
    BY <1>1, <1>2, <1>3, <1>4 DEF MovesOnly, KeepsPlace, InQueue
  <1>7. ~hist'[j].dropped
    BY <1>1, <1>5 DEF DropInv, Nowhere
  <1>8. /\ DropInv' /\ StagesKnown /\ StagesKnown'
        /\ \A k \in Job : k # j => StageOf(k)' = StageOf(k)
    BY <1>1, <1>6, <1>7, OneMoves
  <1>9. StageOf(j)' = StageOf(j)
    BY <1>5, <1>8 DEF StagesKnown
  <1>10. Up' = Up
    BY DEF Up, UpStays
  <1>. QED
    BY <1>8, <1>9, <1>10, StagesStay

\* A job thread has copied its info and enters the job.
LEMMA BeginsImplements ==
  ASSUME IInv, IInv', DropInv, Begins, UpStays
  PROVE  DropInv' /\ ContractStep
  <1>1. PICK w \in Worker : WorkerPoll(w) /\ info[w] # NoJob
    BY DEF Begins
  <1>2. /\ thr[w].pc = "poll" /\ thr[w].job = NoJob /\ info[w] \in Job /\ NoJob \notin Job
        /\ thr' = [thr EXCEPT ![w] = [pc |-> "run", job |-> info[w]]]
        /\ hist' = [hist EXCEPT ![info[w]].starts = @ + 1]
        /\ UNCHANGED <<info, queue, results, jobs, sub>>
    BY <1>1, Parts, ThrType, JobAssumption DEF WorkerPoll, ThrJob
  <1>3. PICK j \in Job : j = info[w]
    BY <1>2
  <1>4. /\ \A k \in Job : /\ hist'[k].outcome = hist[k].outcome
                          /\ hist'[k].callbacks = hist[k].callbacks
                          /\ hist'[k].dropped = hist[k].dropped
    BY <1>2, Parts DEF TypeOK, JobHistory
  <1>5. /\ thr'[w].pc = "run" /\ thr'[w].job = j
        /\ \A v \in Worker : v # w => thr'[v] = thr[v]
    BY <1>2, <1>3, Parts DEF TypeOK
  <1>6. MovesOnly(j)
    BY <1>2, <1>4, <1>5 DEF MovesOnly, KeepsPlace, InQueue
  <1>7. Waiting(j)
    BY <1>2, <1>3 DEF Waiting
  <1>8. Running(j)'
    BY <1>5 DEF Running
  <1>9. ~hist'[j].dropped
    BY <1>4, <1>7 DEF DropInv, Nowhere
  <1>10. /\ DropInv' /\ StagesKnown /\ StagesKnown'
         /\ \A k \in Job : k # j => StageOf(k)' = StageOf(k)
    BY <1>6, <1>9, OneMoves
  <1>11. StageOf(j) = "waiting" /\ StageOf(j)' = "running"
    BY <1>7, <1>8, <1>10 DEF StagesKnown
  <1>12. Contract!Begin(j)
    BY <1>10, <1>11, OneGoes DEF Contract!Begin
  <1>. QED
    BY <1>10, <1>12 DEF ContractStep, Contract!Next

\* The entry point returns: the job is over, or has a result to store.
LEMMA FinishesImplements ==
  ASSUME IInv, IInv', DropInv, Finishes, UpStays
  PROVE  DropInv' /\ ContractStep
  <1>1. PICK w \in Worker, r \in {"success", "fail"} :
          /\ thr[w].pc = "run" /\ hist' = [hist EXCEPT ![thr[w].job].outcome = r]
          /\ Goes(w, "run", IF CallbackWanted(thr[w].job, r) THEN "storeWait" ELSE "resetWait")
          /\ UNCHANGED <<info, queue, results, jobs, sub>>
    BY DEF Finishes, WorkerFinish
  <1>2. thr[w].job \in Job /\ NoJob \notin Job
    BY <1>1, Parts, ThrType, JobAssumption DEF ThrJob
  <1>3. PICK j \in Job : j = thr[w].job
    BY <1>2
  <1>4. PICK to : /\ Goes(w, "run", to)
                  /\ CallbackWanted(j, r) => to = "storeWait"
                  /\ ~CallbackWanted(j, r) => to = "resetWait"
    BY <1>1, <1>3
  <1>5. /\ hist'[j].outcome = r
        /\ \A k \in Job : k # j => hist'[k] = hist[k]
        /\ hist'[j].dropped = hist[j].dropped
    BY <1>1, <1>3, Parts DEF TypeOK, JobHistory
  <1>6. /\ thr'[w].pc = to /\ thr'[w].job = j
        /\ \A v \in Worker : v # w => thr'[v] = thr[v]
    BY <1>3, <1>4, Parts, GoesAt
  <1>7. MovesOnly(j)
    BY <1>1, <1>3, <1>5, <1>6 DEF MovesOnly, KeepsPlace, InQueue
  <1>8. Running(j)
    BY <1>1, <1>3 DEF Running
  <1>9. ~hist'[j].dropped
    BY <1>5, <1>8 DEF DropInv, Nowhere
  <1>10. /\ DropInv' /\ StagesKnown /\ StagesKnown'
         /\ \A k \in Job : k # j => StageOf(k)' = StageOf(k)
    BY <1>7, <1>9, OneMoves
  <1>11. StageOf(j) = "running"
    BY <1>8, <1>10 DEF StagesKnown
  <1>12. CASE CallbackWanted(j, r)
    <2>1. Returned(j)'
      BY <1>4, <1>6, <1>12 DEF Returned
    <2>2. StageOf(j)' = "returned"
      BY <1>10, <2>1 DEF StagesKnown
    <2>3. Contract!Return(j)
      BY <1>10, <1>11, <2>2, OneGoes DEF Contract!Return
    <2>. QED
      BY <1>10, <2>3 DEF ContractStep, Contract!Next
  <1>13. CASE ~CallbackWanted(j, r)
    <2>1. Over(j)'
      BY <1>1, <1>5, <1>13 DEF Over, CallbackWanted
    <2>2. StageOf(j)' = "over"
      BY <1>10, <2>1 DEF StagesKnown
    <2>3. Contract!Finish(j)
      BY <1>10, <1>11, <2>2, OneGoes DEF Contract!Finish
    <2>. QED
      BY <1>10, <2>3 DEF ContractStep, Contract!Next
  <1>. QED
    BY <1>12, <1>13

\* store_result: the result waits in an entry, or it is forgotten.
LEMMA StoresResultImplements ==
  ASSUME IInv, IInv', DropInv, StoresResult, UpStays
  PROVE  DropInv' /\ ContractStep
  <1>1. PICK w \in Worker : WorkerStore(w)
    BY DEF StoresResult
  <1>2. Goes(w, "store", "resetWait") /\ UNCHANGED <<info, queue, jobs, sub>>
    BY <1>1 DEF WorkerStore
  <1>3. /\ thr[w].pc = "store" /\ thr'[w].pc = "resetWait" /\ thr'[w].job = thr[w].job
        /\ \A v \in Worker : v # w => thr'[v] = thr[v]
    BY <1>2, Parts, GoesAt
  <1>4. thr[w].job \in Job /\ NoJob \notin Job
    BY <1>3, Parts, ThrType, JobAssumption DEF ThrJob
  <1>5. PICK j \in Job : j = thr[w].job
    BY <1>4
  <1>6. /\ hist[j].outcome # "none" /\ hist[j].callbacks = <<>> /\ hist[j].starts # 0
        /\ CallbackWanted(j, hist[j].outcome) /\ \A i \in Slot : results[i].job # j
    BY <1>3, <1>5, Parts DEF ThrStore, HistInv
  <1>7. /\ Created(j) /\ ~Waiting(j)
        /\ \A v \in Worker : info[v] = j \/ thr[v].job = j => v = w
    BY <1>4, <1>5, <1>6, Started
  <1>8. Returned(j)
    BY <1>3, <1>5 DEF Returned
  <1>9. CASE UNCHANGED hist /\ \E i \in Slot : FirstFree(i) /\ results' = [results EXCEPT
                                    ![i] = [job |-> thr[w].job, outcome |-> hist[thr[w].job].outcome]]
    <2>1. PICK i \in Slot : /\ results[i] = NoResult
                            /\ results' = [results EXCEPT ![i] = [job |-> j, outcome |-> hist[j].outcome]]
      BY <1>5, <1>9 DEF FirstFree
    <2>2. results'[i].job = j /\ results[i].job = NoJob /\ \A n \in Slot : n # i => results'[n] = results[n]
      BY <2>1, Parts DEF TypeOK, NoResult
    <2>3. MovesOnly(j)
      BY <1>2, <1>3, <1>4, <1>5, <1>9, <2>2 DEF MovesOnly, KeepsPlace, InQueue
    <2>4. Returned(j)'
      BY <1>6, <1>9, <2>2 DEF Returned
    <2>5. ~hist'[j].dropped
      BY <1>8, <1>9 DEF DropInv, Nowhere
    <2>6. /\ DropInv' /\ StagesKnown /\ StagesKnown'
          /\ \A k \in Job : k # j => StageOf(k)' = StageOf(k)
      BY <2>3, <2>5, OneMoves
    <2>7. StageOf(j)' = StageOf(j)
      BY <1>8, <2>4, <2>6 DEF StagesKnown
    <2>8. Up' = Up
      BY DEF Up, UpStays
    <2>. QED
      BY <2>6, <2>7, <2>8, StagesStay
  <1>10. CASE /\ \A i \in Slot : results[i] # NoResult
              /\ hist' = [hist EXCEPT ![thr[w].job].dropped = TRUE] /\ UNCHANGED results
    <2>1. /\ hist' = [hist EXCEPT ![j].dropped = TRUE]
          /\ \A k \in Job : k # j => hist'[k] = hist[k]
      BY <1>5, <1>10, Parts DEF TypeOK
    <2>2. hist'[j].outcome = hist[j].outcome /\ hist'[j].callbacks = hist[j].callbacks
      BY <2>1, Parts, DroppedAt DEF TypeOK
    <2>3. MovesOnly(j)
      BY <1>2, <1>3, <1>5, <1>10, <2>1 DEF MovesOnly, KeepsPlace, InQueue
    <2>4. Nowhere(j)'
      <3>1. Created(j)' /\ ~Over(j)'
        BY <1>2, <1>6, <1>7, <2>2 DEF Created, Over, CallbackWanted
      <3>2. ~Running(j)' /\ ~Returned(j)'
        BY <1>3, <1>6, <1>7, <1>10 DEF Running, Returned
      <3>3. ~Waiting(j)'
        BY <1>2, <1>3, <1>7 DEF Waiting, InQueue
      <3>. QED
        BY <3>1, <3>2, <3>3 DEF Nowhere
    <2>5. /\ DropInv' /\ StagesKnown /\ StagesKnown'
          /\ \A k \in Job : k # j => StageOf(k)' = StageOf(k)
      BY <2>3, <2>4, OneMoves
    <2>6. StageOf(j) = "returned" /\ StageOf(j)' = "lost"
      BY <1>8, <2>4, <2>5 DEF StagesKnown
    <2>7. NoRoom(j)
      BY <1>6, <1>7, <1>10 DEF NoRoom
    <2>8. Contract!Forget(j)
      BY <2>5, <2>6, <2>7, OneGoes DEF Contract!Forget
    <2>. QED
      BY <2>5, <2>8 DEF ContractStep, Contract!Next
  <1>. QED
    BY <1>1, <1>9, <1>10 DEF WorkerStore

\* The thread lets go of a job that is over or has its result stored.
LEMMA BecomesIdleImplements ==
  ASSUME EInv, IInv', DropInv, BecomesIdle, UpStays
  PROVE  DropInv' /\ ContractStep
  <1>0. IInv
    BY DEF EInv
  <1>1. PICK w \in Worker : /\ thr[w].pc = "reset" /\ thr' = [thr EXCEPT ![w] = [pc |-> "tail", job |-> NoJob]]
                            /\ info' = [info EXCEPT ![w] = NoJob]
                            /\ UNCHANGED <<queue, results, jobs, sub, hist>>
    BY DEF BecomesIdle, WorkerReset, history
  <1>2. /\ thr[w].job \in Job /\ NoJob \notin Job /\ info[w] = thr[w].job
        /\ hist[thr[w].job].outcome # "none"
    BY <1>0, <1>1, Parts, ThrType, JobAssumption DEF ThrJob, ThrDone, Resets, EInv
  <1>3. PICK j \in Job : j = thr[w].job
    BY <1>2
  <1>4. /\ Created(j) /\ ~Waiting(j)
        /\ \A v \in Worker : info[v] = j \/ thr[v].job = j => v = w
    <2>1. hist[j].starts # 0
      BY <1>0, <1>2, <1>3, Parts DEF HistInv
    <2>. QED
      BY <1>0, <1>2, <1>3, <2>1, Started
  <1>5. /\ thr'[w] = [pc |-> "tail", job |-> NoJob] /\ info'[w] = NoJob
        /\ \A v \in Worker : v # w => thr'[v] = thr[v] /\ info'[v] = info[v]
    BY <1>0, <1>1, Parts DEF TypeOK
  <1>6. SamePlace(j)
    <2>1. ~Waiting(j)'
      BY <1>1, <1>2, <1>4, <1>5 DEF Waiting, InQueue
    <2>2. ~Running(j) /\ ~Running(j)'
      BY <1>1, <1>2, <1>4, <1>5 DEF Running
    <2>3. Returned(j)' <=> Returned(j)
      BY <1>1, <1>2, <1>4, <1>5 DEF Returned
    <2>4. /\ Created(j)' <=> Created(j)
          /\ Over(j)' <=> Over(j)
      BY <1>1 DEF Created, Over, CallbackWanted
    <2>. QED
      BY <1>1, <1>4, <2>1, <2>2, <2>3, <2>4 DEF SamePlace
  <1>7. \A k \in Job : k # j => KeepsPlace(k)
    BY <1>1, <1>2, <1>3, <1>5 DEF KeepsPlace, InQueue
  <1>8. \A k \in Job : SamePlace(k)
    BY <1>6, <1>7, PlaceKept
  <1>. QED
    BY <1>0, <1>8, AllStay DEF Up, UpStays

\* A job thread is cancelled in its job.
LEMMA EndsInJobImplements ==
  ASSUME IInv, IInv', DropInv, EndsInJob, UpStays
  PROVE  DropInv' /\ ContractStep
  <1>1. PICK w \in Worker : /\ thr[w].pc = "run" /\ Goes(w, "run", "dead") /\ phase # "up"
                            /\ UNCHANGED <<info, queue, results, jobs, sub, hist>>
    BY DEF EndsInJob, WorkerCancelled, Goes, history
  <1>2. /\ thr[w].job \in Job /\ NoJob \notin Job
        /\ hist[thr[w].job].outcome = "none" /\ hist[thr[w].job].starts = 1
    BY <1>1, Parts, ThrType, JobAssumption DEF ThrJob, ThrRun
  <1>3. PICK j \in Job : j = thr[w].job
    BY <1>2
  <1>4. /\ thr'[w].pc = "dead" /\ thr'[w].job = j
        /\ \A v \in Worker : v # w => thr'[v] = thr[v]
    BY <1>1, <1>3, Parts, GoesAt
  <1>5. /\ Created(j) /\ ~Waiting(j)
        /\ \A v \in Worker : info[v] = j \/ thr[v].job = j => v = w
    BY <1>2, <1>3, Started
  <1>6. MovesOnly(j)
    BY <1>1, <1>3, <1>4 DEF MovesOnly, KeepsPlace, InQueue
  <1>7. Nowhere(j)'
    <2>1. Created(j)' /\ ~Over(j)'
      BY <1>1, <1>2, <1>3, <1>5, Parts DEF Created, Over, HistInv
    <2>2. ~Running(j)'
      BY <1>4, <1>5 DEF Running
    <2>3. ~Returned(j)'
      BY <1>1, <1>2, <1>3, <1>4, <1>5, Parts DEF Returned, ResultJob
    <2>4. ~Waiting(j)'
      BY <1>1, <1>4, <1>5 DEF Waiting, InQueue
    <2>. QED
      BY <2>1, <2>2, <2>3, <2>4 DEF Nowhere
  <1>8. Running(j)
    BY <1>1, <1>3 DEF Running
  <1>9. /\ DropInv' /\ StagesKnown /\ StagesKnown'
        /\ \A k \in Job : k # j => StageOf(k)' = StageOf(k)
    BY <1>6, <1>7, OneMoves
  <1>10. StageOf(j) = "running" /\ StageOf(j)' = "lost"
    BY <1>7, <1>8, <1>9 DEF StagesKnown
  <1>11. Contract!Abandon
    BY <1>1, <1>9, <1>10, OneLost DEF Up
  <1>. QED
    BY <1>9, <1>11 DEF ContractStep, Contract!Next

-----------------------------------------------------------------------------
CInv == EInv /\ DropInv

LEMMA NextImplements == CInv /\ [Next]_vars => CInv' /\ ContractStep
  <1> SUFFICES ASSUME CInv, [Next]_vars PROVE CInv' /\ ContractStep
    OBVIOUS
  <1>1. EInv /\ IInv /\ DropInv /\ EInv' /\ IInv'
    BY NextEInv, NextInv DEF CInv, EInv
  <1>2. ASSUME JobsStay /\ (UpStays \/ phase' # "up" \/ crashed') PROVE DropInv' /\ ContractStep
    BY <1>1, <1>2, JobsStayImplements
  <1>3. ASSUME Shutdown /\ phase = "cancelled" PROVE DropInv' /\ ContractStep
    BY <1>1, <1>3, ShutdownImplements
  <1>4. ASSUME UpStays, Submits \/ HandsOver \/ Enqueues PROVE DropInv' /\ ContractStep
    BY <1>1, <1>4, SubmitsImplements, HandsOverImplements, EnqueuesImplements
  <1>5. ASSUME UpStays, Assign \/ CallsBack \/ ClearResult PROVE DropInv' /\ ContractStep
    BY <1>1, <1>5, AssignImplements, CallsBackImplements, ClearResultImplements
  <1>6. ASSUME UpStays, Begins \/ Finishes \/ StoresResult PROVE DropInv' /\ ContractStep
    BY <1>1, <1>6, BeginsImplements, FinishesImplements, StoresResultImplements
  <1>7. ASSUME UpStays, BecomesIdle \/ EndsInJob PROVE DropInv' /\ ContractStep
    BY <1>1, <1>7, BecomesIdleImplements, EndsInJobImplements
  <1>. QED
    BY <1>1, <1>2, <1>3, <1>4, <1>5, <1>6, <1>7, NextCases DEF CInv

LEMMA InitImplements == Init => CInv /\ Contract!Init
  <1> SUFFICES ASSUME Init PROVE CInv /\ Contract!Init
    OBVIOUS
  <1>1. EInv /\ IInv
    BY InitEInv, InitInv
  <1>2. \A j \in Job : ~hist[j].dropped /\ ~Created(j)
    BY DEF Init, Created
  <1>3. DropInv
    BY <1>2 DEF DropInv
  <1>4. \A j \in Job : StageOf(j) = "new"
    BY <1>1, <1>2, <1>3, StagesAre DEF StagesKnown
  <1>5. Stage = [j \in Job |-> "new"] /\ Up = TRUE
    BY <1>4 DEF Stage, Up, Init
  <1>. QED
    BY <1>1, <1>3, <1>5 DEF CInv, Contract!Init, Stage, Up

\* Whatever the job threads, the main thread and the shutdown do, and however
\* they interleave, the job system does to each job no more than JobContract
\* says: no job is run or answered twice, and none is lost while the system is
\* up, except where its queue or the list of results is full.
THEOREM JobsImplementContract == Spec => ImplementsContract
  <1>1. CInv /\ [Next]_vars => CInv' /\ [Contract!Next]_(Contract!vars)
    BY NextImplements DEF ContractStep
  <1>. QED
    BY <1>1, InitImplements, PTL DEF Spec, ImplementsContract, Contract!Spec
=============================================================================
