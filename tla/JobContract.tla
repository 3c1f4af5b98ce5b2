---------------------------- MODULE JobContract ----------------------------
(***************************************************************************)
(* What the job system promises for each job, whatever its threads, queues *)
(* and result entries do: a job that is submitted runs at most once, its   *)
(* callback is called at most once and after it has run, and while the     *)
(* system is up a job is lost only where its queue or the list of results  *)
(* is full.                                                                *)
(***************************************************************************)
EXTENDS Integers

CONSTANT Job

VARIABLES stage,  \* how far each job has come
          full,   \* the jobs for which there is no room where they go next
          up      \* FALSE once the system shuts down or the program crashed

vars == <<stage, up>>   \* full is only read

Stage == {"new", "waiting", "running", "returned", "over", "lost"}

Init == stage = [j \in Job |-> "new"] /\ up = TRUE

Goes(j, from, to) == /\ stage[j] = from
                     /\ stage' = [stage EXCEPT ![j] = to]
                     /\ UNCHANGED up

Submit(j) == Goes(j, "new", "waiting")
Refuse(j) == j \in full /\ Goes(j, "waiting", "lost")   \* the queue is full
Begin(j) == Goes(j, "waiting", "running")
Return(j) == Goes(j, "running", "returned")
Finish(j) == Goes(j, "running", "over")        \* no callback is wanted
Forget(j) == j \in full /\ Goes(j, "returned", "lost")  \* no result entry is free
Call(j) == Goes(j, "returned", "over")         \* the callback

Stop == up' = FALSE /\ UNCHANGED stage

\* Once the system is down, jobs that are not over may be abandoned.
Abandon == /\ ~up
           /\ \E S \in SUBSET {j \in Job : stage[j] \in {"waiting", "running", "returned"}} :
                stage' = [j \in Job |-> IF j \in S THEN "lost" ELSE stage[j]]
           /\ UNCHANGED up

Next == \/ \E j \in Job : \/ Submit(j) \/ Refuse(j) \/ Begin(j) \/ Return(j)
                          \/ Finish(j) \/ Forget(j) \/ Call(j)
        \/ Stop \/ Abandon

Spec == Init /\ [][Next]_vars
=============================================================================
