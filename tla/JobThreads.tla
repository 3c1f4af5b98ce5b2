---------------------------- MODULE JobThreads ----------------------------
(***************************************************************************)
(* The kinds of jobs (engine/src/systems/job_system.h) and the job threads *)
(* the engine starts (engine/src/core/systems_manager.c, from the number   *)
(* of processors and whether the renderer is multithreaded).               *)
(***************************************************************************)
EXTENDS Integers

JobType == {"general", "resource_load", "gpu_resource"}
Priority == {"low", "normal", "high"}

\* JOB_INFO: the entry point is the job itself; the two callbacks are optional.
JobInfo == [type : JobType, priority : Priority,
            on_success : BOOLEAN, on_fail : BOOLEAN]

MaxThreadCount == 15

\* One processor is left to the main thread; with none left, no job system.
JobThreadCount(processors) ==
  IF processors - 1 > MaxThreadCount THEN MaxThreadCount ELSE processors - 1

\* The types of job that thread i takes.  The source compares the constant cap
\* with 1 and with 2, not the number of threads, so that a multithreaded
\* renderer always gets two dedicated threads.
JobThreadTypes(multithreaded) ==
  [i \in 0 .. MaxThreadCount - 1 |->
     IF MaxThreadCount = 1 \/ ~multithreaded
       THEN IF i = 0 THEN JobType ELSE {"general"}
     ELSE IF MaxThreadCount = 2
       THEN CASE i = 0 -> {"general", "gpu_resource"}
              [] i = 1 -> {"general", "resource_load"}
              [] OTHER -> {"general"}
     ELSE CASE i = 0 -> {"gpu_resource"}
            [] i = 1 -> {"resource_load"}
            [] OTHER -> {"general"}]
=============================================================================
