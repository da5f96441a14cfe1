------------------------------- MODULE Driver -------------------------------
(***************************************************************************)
(* The compiler from its call to its exit (main and run_jobs in            *)
(* src/main.c): the modules are loaded and checked, each becomes a .ll     *)
(* file, the C compiler makes a .o of each in a process of its own, as     *)
(* many at once as -j allows, and links them.  A build may be interrupted, *)
(* and is then called again on sources that have changed: it starts from   *)
(* the files the first one left.                                           *)
(*                                                                         *)
(* A file holds the version of the sources it was made from; Broken is a   *)
(* file that was being written.  The C compiler may fail, and may be       *)
(* killed; a process may not be started.                                   *)
(***************************************************************************)
EXTENDS ModuleLoad

CONSTANTS
  Jobs,     \* processes at once (-j)
  Sources,  \* bound: how many versions of the sources are built
  Orphans   \* children the driver inherits from whoever called it

ASSUME JobsAssumption ==
  Jobs \in Nat \ {0} /\ Sources \in Nat \ {0} /\ Orphans \cap Module = {}

VARIABLES
  step,     \* "load", "jobs", "link", "clean", "exit"
  src,      \* the version of the sources
  ll, obj,  \* the .ll and .o files
  exe,      \* the program
  job,      \* of each module: "due", "runs", "done", "failed", or "got"
  rc,       \* jobs[i].rc # 0
  started, done, running,  \* the counters of run_jobs
  orphans,  \* inherited children that have not been waited for
  code      \* what main returns
disk     == <<src, ll, obj, exe>>
counters == <<started, done, running>>
work     == <<job, rc, counters, orphans>>
build    == <<step, disk, work, code>>

None   == 0
Broken == Sources + 1
All    == Range(order)

\* Bound: what is compiled has nothing but the modules it uses.
Plain ==
  /\ \A m \in Module : hits[m] = 1
  /\ \A m \in Module \ All : imports[m] = <<>>

Load == step = "load" /\ Next /\ UNCHANGED build

\* A program the loader or a checker refuses: no file was written.
Refuse ==
  /\ step = "load" /\ ~Running
  /\ step' = "exit" /\ code' = 1
  /\ UNCHANGED <<vars, disk, work>>

\* Code generation, and the table of jobs.
Generate ==
  /\ step = "load" /\ ~Running /\ err = "none" /\ Plain
  /\ ll' = [m \in Module |-> IF m \in All THEN src ELSE ll[m]]
  /\ job' = [m \in Module |-> "due"] /\ rc' = {}
  /\ started' = 0 /\ done' = 0 /\ running' = 0
  /\ step' = "jobs"
  /\ UNCHANGED <<vars, src, obj, exe, orphans, code>>

-----------------------------------------------------------------------------
InLoop   == step = "jobs" /\ done < Len(order)
MayStart == InLoop /\ started < Len(order) /\ running < Jobs

\* posix_spawn.
Spawn ==
  /\ MayStart
  /\ job' = [job EXCEPT ![order[started + 1]] = "runs"]
  /\ started' = started + 1 /\ running' = running + 1
  /\ UNCHANGED <<vars, step, disk, rc, done, orphans, code>>

\* The C compiler writes its output, or fails and leaves what was there, or
\* is killed.
Compiled(m, to, how) ==
  \/ how = "done"   /\ to = ll[m]
  \/ how = "failed" /\ to \in {obj[m], None, Broken}

\* Mutant of RunHere: a job that failed is run again until it does not.
RunHereAgain ==
  /\ MayStart
  /\ LET m == order[started + 1] IN
       \E how \in {"done", "failed"}, to \in 0 .. Broken :
         /\ Compiled(m, to, how)
         /\ obj' = [obj EXCEPT ![m] = to]
         /\ IF how = "failed" THEN UNCHANGED <<job, started, done>>
            ELSE /\ job' = [job EXCEPT ![m] = "got"]
                 /\ started' = started + 1 /\ done' = done + 1
  /\ UNCHANGED <<vars, step, src, ll, exe, rc, running, orphans, code>>

\* posix_spawn failed: the driver runs the job itself and waits for it.
RunHere ==
  /\ MayStart
  /\ LET m == order[started + 1] IN
       \E how \in {"done", "failed"}, to \in 0 .. Broken :
         /\ Compiled(m, to, how)
         /\ obj' = [obj EXCEPT ![m] = to]
         /\ rc' = IF how = "failed" THEN rc \cup {m} ELSE rc
         /\ job' = [job EXCEPT ![m] = "got"]
  /\ started' = started + 1 /\ done' = done + 1
  /\ UNCHANGED <<vars, step, src, ll, exe, running, orphans, code>>

Ended == {m \in All : job[m] \in {"done", "failed"}} \cup orphans

\* A child ends.
JobEnds(m) ==
  /\ job[m] = "runs"
  /\ \E how \in {"done", "failed"}, to \in 0 .. Broken :
       /\ Compiled(m, to, how)
       /\ obj' = [obj EXCEPT ![m] = to]
       /\ job' = [job EXCEPT ![m] = how]
  /\ UNCHANGED <<vars, step, src, ll, exe, rc, started, done, running, orphans, code>>

\* wait returns any child that has ended.  One that is no job changes
\* nothing but the number of those that run.
Wait ==
  /\ InLoop /\ ~MayStart /\ running > 0
  /\ \E c \in Ended :
       /\ orphans' = orphans \ {c}
       /\ IF c \notin All THEN UNCHANGED <<job, rc, done>>
          ELSE /\ job' = [job EXCEPT ![c] = "got"]
               /\ rc' = IF job[c] = "failed" THEN rc \cup {c} ELSE rc
               /\ done' = done + 1
  /\ running' = running - 1
  /\ UNCHANGED <<vars, step, disk, started, code>>

JobsEnd(failed) ==
  /\ step = "jobs"
  /\ ~InLoop \/ (~MayStart /\ running = 0)
  /\ step' = IF failed THEN "clean" ELSE "link"
  /\ code' = IF failed THEN 1 ELSE 0
  /\ UNCHANGED <<vars, disk, work>>

\* Mutant of JobsOver: only what the last job returned is looked at.
JobsOverLast == JobsEnd(order # <<>> /\ Last(order) \in rc)

\* run_jobs is over; when one job failed, nothing is linked.
JobsOver == JobsEnd(rc # {})

\* The linker takes the .o files it finds.
Link ==
  /\ step = "link"
  /\ step' = "clean"
  /\ \/ /\ \A m \in All : obj[m] \notin {None, Broken}
        /\ exe' = {obj[m] : m \in All}
        /\ UNCHANGED code
     \/ exe' \in {exe, {}, {Broken}} /\ code' = 1
  /\ UNCHANGED <<vars, src, ll, obj, work>>

\* The .o files go; the .ll files stay when something failed.
Clean ==
  /\ step = "clean"
  /\ obj' = [m \in Module |-> IF m \in All THEN None ELSE obj[m]]
  /\ ll' = [m \in Module |-> IF m \in All /\ code = 0 THEN None ELSE ll[m]]
  /\ step' = "exit"
  /\ UNCHANGED <<vars, src, exe, work, code>>

\* Interrupted: the driver and its children are gone, their files are not.
Interrupt ==
  /\ step \in {"jobs", "link", "clean"} /\ src < Sources
  /\ obj' \in {o \in [Module -> 0 .. Broken] :
                 \A m \in Module : o[m] = obj[m] \/ (job[m] = "runs" /\ o[m] = Broken)}
  /\ step' = "exit" /\ code' = 1
  /\ UNCHANGED <<vars, src, ll, exe, work>>

\* The next build, of changed sources.
Again ==
  /\ step = "exit" /\ src < Sources /\ Plain /\ err = "none"
  /\ src' = src + 1
  /\ step' = "load" /\ code' = 0
  /\ state' = [m \in Module |-> IF m = Entry THEN 1 ELSE 0]
  /\ deps' = [m \in Module |-> <<>>]
  /\ stack' = <<[mod |-> Entry, at |-> 1]>>
  /\ order' = <<>>
  /\ err' = "none"
  /\ UNCHANGED <<files, ll, obj, exe, work>>

Exited == step = "exit" /\ UNCHANGED <<vars, build>>

DriverInit ==
  /\ Init
  /\ step = "load" /\ src = 1 /\ code = 0 /\ exe = {}
  /\ ll = [m \in Module |-> None] /\ obj = [m \in Module |-> None]
  /\ job = [m \in Module |-> "due"] /\ rc = {}
  /\ started = 0 /\ done = 0 /\ running = 0
  /\ orphans = Orphans

Steps ==
  Load \/ Refuse \/ Generate \/ Spawn \/ RunHere \/ Wait \/ JobsOver \/ Link \/ Clean

DriverNext ==
  Steps \/ (\E m \in Module : JobEnds(m)) \/ Interrupt \/ Again \/ Exited

\* The driver goes on, and the C compiler ends.
Fairness ==
  /\ WF_<<vars, build>>(Steps)
  /\ \A m \in Module : WF_<<vars, build>>(JobEnds(m))

DriverSpec == DriverInit /\ [][DriverNext]_<<vars, build>> /\ Fairness

-----------------------------------------------------------------------------
\* When the compiler says that all went well, the program consists of the
\* sources it was called on, of all of them and of no earlier version, and no
\* file it made on the way is left.
ExitTrue ==
  step = "exit" /\ code = 0 =>
    /\ exe = {src}
    /\ \A m \in All : obj[m] = None /\ ll[m] = None

\* Whatever fails, is killed or cannot be started, every build comes to an end.
BuildEnds == (step = "load") ~> (step = "exit")

=============================================================================
