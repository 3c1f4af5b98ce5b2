------------------------ MODULE JobSystemInvariant ------------------------
(***************************************************************************)
(* The inductive invariant of the job system: where a job can be at one    *)
(* time, what each thread may rely on at each of its steps, and how the    *)
(* history of a job agrees with where it is.  Each part is named for the   *)
(* two or three pieces of state that it relates.                           *)
(***************************************************************************)
EXTENDS JobSystemProperties

-----------------------------------------------------------------------------
(* A call of job_system_submit has a created job, which is in no other call. *)
SubJob ==
  \A c \in Caller :
    /\ sub[c].pc # "none" <=> sub[c].job # NoJob
    /\ sub[c].job # NoJob => Created(sub[c].job) /\ hist[sub[c].job].starts = 0

SubOnce == \A c, d \in Caller : sub[c].job # NoJob /\ sub[c].job = sub[d].job => c = d

\* The main thread submits between two updates, or in a callback, and a job
\* thread from its job, in which it may end.
SubCaller == /\ sub[Main].pc # "none" => main.pc \in {"idle", "callback"}
             /\ \A w \in Worker : sub[w].pc # "none" => thr[w].pc \in {"run", "dead"}

\* The info of a thread is looked at under its mutex.  Only the end of that
\* thread, after a shutdown began, takes the mutex away.
SubTest ==
  \A c \in Caller : sub[c].pc = "test" =>
    /\ sub[c].i \in Worker /\ jobs[sub[c].job].type \in TypeMask[sub[c].i]
    /\ infoLock[sub[c].i] \in {c, Absent}
    /\ thr[sub[c].i].pc # "start"

SubInv == SubJob /\ SubOnce /\ SubCaller /\ SubTest

-----------------------------------------------------------------------------
(* The queued jobs are created, not started, distinct, and not being submitted. *)
QueuedNew ==
  \A p \in Priority : \A k \in 1 .. Len(queue[p]) :
    Created(queue[p][k]) /\ hist[queue[p][k]].starts = 0

QueuedNotInCall ==
  \A p \in Priority : \A k \in 1 .. Len(queue[p]) :
    \A c \in Caller : sub[c].job # queue[p][k]

QueuedOnce ==
  \A p, q \in Priority : \A k \in 1 .. Len(queue[p]) : \A m \in 1 .. Len(queue[q]) :
    queue[p][k] = queue[q][m] => p = q /\ k = m

QueueInv == QueuedNew /\ QueuedNotInCall /\ QueuedOnce

-----------------------------------------------------------------------------
(* The job of a thread is its own, of a type it takes, in no queue and in no *)
(* call, and has not started while the thread has not copied it.             *)
InfoJob ==
  \A w \in Worker : info[w] # NoJob => Created(info[w]) /\ jobs[info[w]].type \in TypeMask[w]

InfoNotInCall == \A w \in Worker : info[w] # NoJob => \A c \in Caller : sub[c].job # info[w]

InfoNotQueued ==
  \A w \in Worker : info[w] # NoJob =>
    \A p \in Priority : \A k \in 1 .. Len(queue[p]) : queue[p][k] # info[w]

InfoNew ==
  \A w \in Worker : info[w] # NoJob /\ thr[w].job = NoJob => hist[info[w]].starts = 0

InfoOnce == \A v, w \in Worker : info[v] # NoJob /\ info[v] = info[w] => v = w

InfoInv == InfoJob /\ InfoNotInCall /\ InfoNotQueued /\ InfoNew /\ InfoOnce

-----------------------------------------------------------------------------
(* A thread has copied the job of its info from the poll to the reset. *)
ThrJob ==
  \A w \in Worker :
    /\ thr[w].job # NoJob => info[w] = thr[w].job
    /\ thr[w].pc \in {"run", "storeWait", "store", "resetWait", "reset"} => thr[w].job # NoJob
    /\ thr[w].pc \in {"start", "check", "pollWait", "poll", "tail", "exit"} => thr[w].job = NoJob

ThrLock ==
  \A w \in Worker : /\ thr[w].pc \in {"poll", "reset"} => infoLock[w] = w
                    /\ thr[w].pc = "start" => infoLock[w] = Absent

ThrEnd == \A w \in Worker : thr[w].pc \in {"exit", "dead"} => phase # "up"

ThrRun ==
  \A w \in Worker : thr[w].pc = "run" =>
    hist[thr[w].job].starts = 1 /\ hist[thr[w].job].outcome = "none"

\* A result that is to be stored is of a finished job, and not stored yet.
ThrStore ==
  \A w \in Worker : thr[w].pc \in {"storeWait", "store"} =>
    LET h == hist[thr[w].job]
    IN  /\ h.outcome # "none" /\ h.callbacks = <<>>
        /\ CallbackWanted(thr[w].job, h.outcome)
        /\ \A i \in Slot : results[i].job # thr[w].job

ThrInv == ThrJob /\ ThrLock /\ ThrEnd /\ ThrRun /\ ThrStore

-----------------------------------------------------------------------------
(* While process_queue looks for a thread, the head of the queue is the job  *)
(* it peeked; while it holds the mutex of a thread, only it can give it one. *)
MainUp == main.pc # "idle" => phase = "up"

MainPeeked == main.pc \in {"find", "test", "assign"} =>
                queue[main.q] # <<>> /\ main.job = Head(queue[main.q])

MainThread == main.pc \in {"test", "assign"} =>
                /\ main.i \in Worker /\ jobs[main.job].type \in TypeMask[main.i]
                /\ infoLock[main.i] = Main

MainFree == main.pc = "assign" => info[main.i] = NoJob

MainSlot == main.pc \in {"copy", "callback", "clearWait", "clear"} => main.slot \in Slot

MainInv == MainUp /\ MainPeeked /\ MainThread /\ MainFree /\ MainSlot

-----------------------------------------------------------------------------
(* An entry in use belongs to one finished job, whose callback was called    *)
(* only if the main thread is at this entry and has not cleared it yet.      *)
ResultFree == \A i \in Slot : results[i].job = NoJob => results[i] = NoResult

ResultJob ==
  \A i \in Slot : results[i].job # NoJob =>
    LET h == hist[results[i].job]
    IN  /\ h.outcome # "none" /\ results[i].outcome = h.outcome
        /\ CallbackWanted(results[i].job, h.outcome)

ResultCalled ==
  \A i \in Slot : results[i].job # NoJob /\ hist[results[i].job].callbacks # <<>> =>
    main.slot = i /\ main.pc \in {"callback", "clearWait", "clear"}

ResultOnce ==
  \A i, k \in Slot : results[i].job # NoJob /\ results[i].job = results[k].job => i = k

ResultInv == ResultFree /\ ResultJob /\ ResultCalled /\ ResultOnce

-----------------------------------------------------------------------------
HistInv ==
  \A j \in Job :
    /\ hist[j].starts \in {0, 1}
    /\ ~Created(j) => hist[j].starts = 0
    /\ hist[j].outcome # "none" => hist[j].starts = 1
    /\ \/ hist[j].callbacks = <<>>
       \/ /\ hist[j].callbacks = <<hist[j].outcome>>
          /\ hist[j].outcome # "none" /\ CallbackWanted(j, hist[j].outcome)

IInv == TypeOK /\ SubInv /\ QueueInv /\ InfoInv /\ ThrInv /\ MainInv /\ ResultInv /\ HistInv
=============================================================================
