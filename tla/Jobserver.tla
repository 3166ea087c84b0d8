------------------------------ MODULE Jobserver ------------------------------
(***************************************************************************)
(* GNU make's job server: a top-level make and the submakes its recipes    *)
(* run share a pipe with one byte for each job that may run at a time,     *)
(* less one.  Every make may run one job without a token, as its parent    *)
(* holds the one it was started with.                                      *)
(*                                                                         *)
(* A make is one process; its steps end where a signal or another process  *)
(* can make a difference.  A fatal signal is taken between two steps.      *)
(***************************************************************************)
EXTENDS Integers, FiniteSets, FiniteSetsExt

CONSTANTS
    Makes, Top,     \* the makes, and the one the user started
    Jobs,           \* targets with a recipe
    Of,             \* the make that updates each target
    Runs,           \* the submake its recipe runs, or NoMake
    Lines,          \* the command lines of its recipe
    Needs,          \* its prerequisites
    NoError,        \* targets whose commands are prefixed with "-"
    NoMake, NoJob,
    Slots,          \* -j
    LoadLimit,      \* -l was given
    CanFail,        \* targets whose commands may fail
    Killable        \* bound: the makes that may get SIGTERM, once

ASSUME JobserverAssumption ==
    /\ Top \in Makes /\ NoMake \notin Makes /\ NoJob \notin Jobs
    /\ Of \in [Jobs -> Makes] /\ Runs \in [Jobs -> Makes \cup {NoMake}]
    /\ Lines \in [Jobs -> Nat] /\ Needs \in [Jobs -> SUBSET Jobs]
    /\ Slots \in Nat \ {0} /\ LoadLimit \in BOOLEAN
    /\ NoError \subseteq Jobs /\ CanFail \subseteq Jobs /\ Killable \subseteq Makes

ASSUME JobserverFinite == IsFiniteSet(Jobs) /\ IsFiniteSet(Makes)

\* A recipe that runs a submake is one command line, and no make is run twice.
ASSUME SubmakesOnce ==
    \A j \in Jobs : Runs[j] # NoMake =>
        /\ Lines[j] = 1 /\ Runs[j] # Top
        /\ \A k \in Jobs : Runs[k] = Runs[j] => k = j

VARIABLES
    keep_going_flag,    \* -k
    pipe,               \* tokens in the pipe
    pc,                 \* where each make is
    cur,                \* the target new_job() is called for
    jobserver_tokens,   \* jobs each make has tokens for, its own included
    job_rfd,            \* the descriptor read() uses is open
    sigchld, sigterm,   \* signals sent and not handled
    status,             \* what each make exits with
    job,                \* what has become of each target
    lines               \* command lines not run yet

vars == <<keep_going_flag, pipe, pc, cur, jobserver_tokens, job_rfd, sigchld, sigterm,
          status, job, lines>>

JobsOf(m) == {j \in Jobs : Of[j] = m}

\* The chains of a make: started jobs, dead ones not reaped, and jobs that wait
\* for the load to go down.
children(m) == {j \in JobsOf(m) : job[j] \in {"running", "good", "bad"}}
Dead(m) == {j \in JobsOf(m) : job[j] \in {"good", "bad"}}
waiting_jobs(m) == {j \in JobsOf(m) : job[j] = "waiting"}

Goto(m, p) == pc' = [pc EXCEPT ![m] = p]

\* Mutant: as many tokens as jobs.
InitialTokensAll == Slots

\* main() fills the pipe; the top-level make has one job without a token.
InitialTokens == Slots - 1

Init ==
    /\ keep_going_flag \in BOOLEAN
    /\ pipe = InitialTokens
    /\ pc = [m \in Makes |-> IF m = Top THEN "goal" ELSE "off"]
    /\ cur = [m \in Makes |-> NoJob]
    /\ jobserver_tokens = [m \in Makes |-> 0]
    /\ job_rfd = [m \in Makes |-> TRUE]
    /\ sigchld = [m \in Makes |-> FALSE] /\ sigterm = [m \in Makes |-> FALSE]
    /\ status = [m \in Makes |-> "0"]
    /\ job = [j \in Jobs |-> "todo"]
    /\ lines = Lines

-----------------------------------------------------------------------------
(* Tokens and processes.                                                    *)

\* Mutant: the token the make was started with is written as well.
free_child_all(m) ==
    /\ pipe' = pipe + 1
    /\ jobserver_tokens' = [jobserver_tokens EXCEPT ![m] = @ - 1]

\* What free_child() does with the token: it writes it, unless the job was the
\* make's only one, and then counts it.
WriteToken(m) == pipe' = IF jobserver_tokens[m] > 1 THEN pipe + 1 ELSE pipe
CountDown(m) == jobserver_tokens' = [jobserver_tokens EXCEPT ![m] = @ - 1]

\* free_child() in reap_children(), where fatal signals are blocked.
free_child(m) == WriteToken(m) /\ CountDown(m)

\* start_job_command() forks a process for the next line; p is where its make
\* goes on.
Fork(m, j, p) ==
    /\ lines[j] > 0
    /\ lines' = [lines EXCEPT ![j] = @ - 1]
    /\ job' = [job EXCEPT ![j] = "running"]
    /\ pc' = [k \in Makes |-> CASE k = m -> p [] k = Runs[j] -> "goal" [] OTHER -> pc[k]]
    /\ UNCHANGED <<pipe, jobserver_tokens>>

\* reap_children() is done with a target, and its child structure is freed.
Finish(m, j, result, p) ==
    /\ job' = [job EXCEPT ![j] = result] /\ free_child(m)
    /\ Goto(m, p) /\ UNCHANGED lines

\* start_waiting_job() is done with a target it did not start.  Here fatal signals
\* are not blocked: one may come when free_child() has written the token and not
\* counted it, which is at place p.
NotStarted(m, j, result, p) ==
    /\ job' = [job EXCEPT ![j] = result] /\ WriteToken(m)
    /\ Goto(m, p) /\ UNCHANGED <<jobserver_tokens, lines>>

\* Mutant: the job waits although no child of the make can wake it.
start_waiting_job_alone(m, j, started, freed, waits) ==
    \/ /\ LoadLimit
       /\ job' = [job EXCEPT ![j] = "waiting"]
       /\ Goto(m, waits) /\ UNCHANGED <<pipe, jobserver_tokens, lines>>
    \/ Fork(m, j, started)
    \/ lines[j] = 0 /\ NotStarted(m, j, "done", freed)

\* start_waiting_job().  When the load is too high and the make has a child, the
\* job waits; otherwise it is started, or there is nothing to run, or fork()
\* fails.
start_waiting_job(m, j, started, freed, waits) ==
    \/ /\ LoadLimit /\ children(m) # {}
       /\ job' = [job EXCEPT ![j] = "waiting"]
       /\ Goto(m, waits) /\ UNCHANGED <<pipe, jobserver_tokens, lines>>
    \/ Fork(m, j, started)
    \/ lines[j] = 0 /\ NotStarted(m, j, "done", freed)
    \/ lines[j] > 0 /\ j \in CanFail /\ NotStarted(m, j, "failed", freed)

\* The places in it where the token is written and not counted yet: it was called
\* from the goal loop, from the loop of new_job(), or at its end.
Freeing == {"free_goal", "free_kick", "free_update"}

\* The rest of free_child(); the make goes on where it was.
FreeDone(m) ==
    /\ pc[m] \in Freeing
    /\ CountDown(m)
    /\ Goto(m, CASE pc[m] = "free_goal" -> "goal" [] pc[m] = "free_kick" -> "kick"
                 [] OTHER -> "update")
    /\ UNCHANGED <<keep_going_flag, pipe, cur, job_rfd, sigchld, sigterm, status, job, lines>>

\* One turn of the loop of reap_children(): wait() has returned j.  A blocking
\* call waits for one job that is complete; die() is called for a failure unless
\* the make is dying or has -k.
Reap(m, j) ==
    /\ j \in Dead(m) /\ pc[m] \in {"goal", "block", "more", "reap", "kick", "die", "signal"}
    /\ pc[m] \in {"goal", "kick"} => waiting_jobs(m) # {}
    /\ LET failed == job[j] = "bad" /\ j \notin NoError
           dies == failed /\ ~keep_going_flag /\ pc[m] \notin {"die", "signal"}
           on == IF dies THEN "die" ELSE IF pc[m] = "block" THEN "more" ELSE pc[m]
       IN  /\ \/ failed /\ Finish(m, j, "failed", on)
              \/ ~failed /\ lines[j] = 0 /\ Finish(m, j, "done", on)
              \/ ~failed /\ lines[j] > 0 /\ pc[m] = "signal" /\ Finish(m, j, "failed", on)
              \/ ~failed /\ pc[m] # "signal" /\ Fork(m, j, pc[m])
              \/ /\ ~failed /\ lines[j] > 0 /\ pc[m] # "signal" /\ j \in CanFail
                 /\ Finish(m, j, "failed", on)
           /\ status' = IF dies THEN [status EXCEPT ![m] = "2"] ELSE status
    /\ UNCHANGED <<keep_going_flag, cur, job_rfd, sigchld, sigterm>>

\* start_waiting_jobs() has reaped the dead children and takes a job off the
\* chain, until one is put back or there is none left.
start_waiting_jobs(m) ==
    /\ pc[m] \in {"goal", "kick"}
    /\ LET next == IF pc[m] = "goal" THEN "block" ELSE "check"
           freed == IF pc[m] = "goal" THEN "free_goal" ELSE "free_kick"
       IN
       \/ /\ waiting_jobs(m) = {}
          /\ Goto(m, next) /\ UNCHANGED <<pipe, jobserver_tokens, job, lines>>
       \/ /\ waiting_jobs(m) # {} /\ Dead(m) = {}
          /\ \E j \in waiting_jobs(m) : start_waiting_job(m, j, pc[m], freed, next)
    /\ UNCHANGED <<keep_going_flag, cur, job_rfd, sigchld, sigterm, status>>

\* Nothing is dead, or there is no child: reap_children() returns.
ReapNone(m) ==
    /\ \/ pc[m] \in {"more", "reap"} /\ Dead(m) = {}
       \/ pc[m] = "block" /\ children(m) = {}
    /\ Goto(m, IF pc[m] = "reap" THEN "kick" ELSE "update")
    /\ UNCHANGED <<keep_going_flag, pipe, cur, jobserver_tokens, job_rfd, sigchld, sigterm,
                   status, job, lines>>

-----------------------------------------------------------------------------
(* update_goal_chain() and new_job().                                       *)

\* Targets whose recipe may be run now.
Ready(m) == {j \in JobsOf(m) : job[j] = "todo" /\ \A n \in Needs[j] : job[n] = "done"}

\* Without -k a failed prerequisite hides those after it from update_file(), and
\* its goal is given up; other goals go on.
GivesUp(m) == ~keep_going_flag /\ \E j \in JobsOf(m) : job[j] = "failed"

update_file(m) ==
    /\ pc[m] = "update"
    /\ \/ /\ \E j \in Ready(m) : cur' = [cur EXCEPT ![m] = j]
          /\ Goto(m, "need") /\ UNCHANGED status
       \/ /\ Ready(m) = {} \/ GivesUp(m)
          /\ children(m) \cup waiting_jobs(m) # {}
          /\ Goto(m, "goal") /\ UNCHANGED <<cur, status>>
       \/ /\ \/ Ready(m) = {} /\ children(m) \cup waiting_jobs(m) = {}
             \/ GivesUp(m)
          /\ Goto(m, "die") /\ UNCHANGED cur
          /\ status' = [status EXCEPT ![m] =
                          IF \A j \in JobsOf(m) : job[j] = "done" THEN "0" ELSE "2"]
    /\ UNCHANGED <<keep_going_flag, pipe, jobserver_tokens, job_rfd, sigchld, sigterm, job, lines>>

\* The head of new_job()'s loop: the make's own token, or dup() before children
\* are reaped.
NeedToken(m) ==
    /\ pc[m] = "need"
    /\ IF jobserver_tokens[m] = 0
       THEN Goto(m, "got") /\ UNCHANGED job_rfd
       ELSE Goto(m, "reap") /\ job_rfd' = [job_rfd EXCEPT ![m] = TRUE]
    /\ UNCHANGED <<keep_going_flag, pipe, cur, jobserver_tokens, sigchld, sigterm, status,
                   job, lines>>

\* After the children are reaped the make's own token may be free.
CheckFree(m) ==
    /\ pc[m] = "check"
    /\ Goto(m, IF jobserver_tokens[m] = 0 THEN "got" ELSE "sleep")
    /\ UNCHANGED <<keep_going_flag, pipe, cur, jobserver_tokens, job_rfd, sigchld, sigterm,
                   status, job, lines>>

\* read(): a token; EBADF or EINTR when child_handler() has run; EINTR from the
\* alarm that is set when jobs wait for the load.
ReadToken(m) ==
    /\ pc[m] = "sleep"
    /\ \/ job_rfd[m] /\ pipe > 0 /\ pipe' = pipe - 1 /\ Goto(m, "got")
       \/ ~job_rfd[m] /\ Goto(m, "need") /\ UNCHANGED pipe
       \/ waiting_jobs(m) # {} /\ Goto(m, "need") /\ UNCHANGED pipe
    /\ UNCHANGED <<keep_going_flag, cur, jobserver_tokens, job_rfd, sigchld, sigterm, status,
                   job, lines>>

CountToken(m) ==
    /\ pc[m] = "got"
    /\ jobserver_tokens' = [jobserver_tokens EXCEPT ![m] = @ + 1]
    /\ Goto(m, "start")
    /\ UNCHANGED <<keep_going_flag, pipe, cur, job_rfd, sigchld, sigterm, status, job, lines>>

StartJob(m) ==
    /\ pc[m] = "start"
    /\ start_waiting_job(m, cur[m], "update", "free_update", "update")
    /\ cur' = [cur EXCEPT ![m] = NoJob]
    /\ UNCHANGED <<keep_going_flag, job_rfd, sigchld, sigterm, status>>

-----------------------------------------------------------------------------
(* The end of a make, signals and commands.                                 *)

\* Mutant: the tokens of jobs that were never started are kept.
clean_jobserver_none(m) == UNCHANGED <<pipe, jobserver_tokens>>

\* clean_jobserver(): after a failure the tokens of waiting jobs are written.
clean_jobserver(m) ==
    IF status[m] = "2" /\ jobserver_tokens[m] > 0
    THEN /\ pipe' = pipe + jobserver_tokens[m] - 1
         /\ jobserver_tokens' = [jobserver_tokens EXCEPT ![m] = 0]
    ELSE UNCHANGED <<pipe, jobserver_tokens>>

die(m) ==
    /\ pc[m] = "die" /\ children(m) = {}
    /\ clean_jobserver(m)
    /\ Goto(m, "exit")
    /\ UNCHANGED <<keep_going_flag, cur, job_rfd, sigchld, sigterm, status, job, lines>>

\* fatal_error_signal(): SIGTERM is passed on to the children.
fatal_error_signal(m) ==
    /\ sigterm[m] /\ pc[m] \notin {"off", "signal", "exit"}
    /\ Goto(m, "signal")
    /\ status' = [status EXCEPT ![m] = "signal"]
    /\ sigterm' = [k \in Makes |-> sigterm[k] \/ \E j \in children(m) : job[j] = "running" /\ Runs[j] = k]
    /\ UNCHANGED <<keep_going_flag, pipe, cur, jobserver_tokens, job_rfd, sigchld, job, lines>>

\* Its children have died, and it kills itself.
KillSelf(m) ==
    /\ pc[m] = "signal" /\ children(m) = {}
    /\ Goto(m, "exit")
    /\ UNCHANGED <<keep_going_flag, pipe, cur, jobserver_tokens, job_rfd, sigchld, sigterm,
                   status, job, lines>>

\* Mutant: the descriptor stays open.
child_handler_open(m) ==
    /\ sigchld[m] /\ sigchld' = [sigchld EXCEPT ![m] = FALSE]
    /\ UNCHANGED <<keep_going_flag, pipe, pc, cur, jobserver_tokens, job_rfd, sigterm, status,
                   job, lines>>

child_handler(m) ==
    /\ sigchld[m] /\ sigchld' = [sigchld EXCEPT ![m] = FALSE]
    /\ job_rfd' = [job_rfd EXCEPT ![m] = FALSE]
    /\ UNCHANGED <<keep_going_flag, pipe, pc, cur, jobserver_tokens, sigterm, status, job, lines>>

\* Mutant: the exit status of a submake is not looked at.
ExitsGood(j) ==
    /\ job[j] = "running"
    /\ Runs[j] # NoMake => pc[Runs[j]] = "exit"
    /\ job' = [job EXCEPT ![j] = "good"]
    /\ sigchld' = [sigchld EXCEPT ![Of[j]] = TRUE]
    /\ UNCHANGED <<keep_going_flag, pipe, pc, cur, jobserver_tokens, job_rfd, sigterm, status,
                   lines>>

\* A command ends, or the submake it is.
Exits(j) ==
    /\ job[j] = "running"
    /\ \/ /\ Runs[j] = NoMake
          /\ \/ job' = [job EXCEPT ![j] = "good"]
             \/ j \in CanFail /\ job' = [job EXCEPT ![j] = "bad"]
       \/ /\ Runs[j] # NoMake /\ pc[Runs[j]] = "exit"
          /\ job' = [job EXCEPT ![j] = IF status[Runs[j]] = "0" THEN "good" ELSE "bad"]
    /\ sigchld' = [sigchld EXCEPT ![Of[j]] = TRUE]
    /\ UNCHANGED <<keep_going_flag, pipe, pc, cur, jobserver_tokens, job_rfd, sigterm, status,
                   lines>>

Kill(m) ==
    /\ m \in Killable /\ ~sigterm[m] /\ pc[m] \notin {"off", "exit"}
    /\ sigterm' = [sigterm EXCEPT ![m] = TRUE]
    /\ UNCHANGED <<keep_going_flag, pipe, pc, cur, jobserver_tokens, job_rfd, sigchld, status,
                   job, lines>>

MakeStep(m) ==
    \/ \E j \in Jobs : Reap(m, j)
    \/ start_waiting_jobs(m) \/ ReapNone(m) \/ update_file(m) \/ NeedToken(m) \/ CheckFree(m)
    \/ ReadToken(m) \/ CountToken(m) \/ StartJob(m) \/ FreeDone(m) \/ die(m) \/ KillSelf(m)

Finished == pc[Top] = "exit" /\ UNCHANGED vars

Next ==
    \/ \E m \in Makes : MakeStep(m) \/ child_handler(m) \/ fatal_error_signal(m) \/ Kill(m)
    \/ \E j \in Jobs : Exits(j)
    \/ Finished

Spec == Init /\ [][Next]_vars

\* A make that can go on, or has a signal to handle, does so, and commands end.
FairSpec ==
    /\ Spec
    /\ \A m \in Makes : WF_vars(MakeStep(m) \/ child_handler(m) \/ fatal_error_signal(m))
    /\ WF_vars(\E j \in Jobs : Exits(j))

-----------------------------------------------------------------------------

TypeOK ==
    /\ keep_going_flag \in BOOLEAN /\ pipe \in 0..(Slots - 1 + Cardinality(Makes))
    /\ pc \in [Makes -> {"off", "goal", "block", "more", "update", "need", "reap", "kick",
                         "check", "sleep", "got", "start", "die", "signal", "exit"} \cup Freeing]
    /\ cur \in [Makes -> Jobs \cup {NoJob}]
    /\ jobserver_tokens \in [Makes -> Nat]
    /\ job_rfd \in [Makes -> BOOLEAN]
    /\ sigchld \in [Makes -> BOOLEAN] /\ sigterm \in [Makes -> BOOLEAN]
    /\ status \in [Makes -> {"0", "2", "signal"}]
    /\ job \in [Jobs -> {"todo", "waiting", "running", "good", "bad", "done", "failed"}]
    /\ lines \in [Jobs -> Nat]

\* Tokens of the pipe a make holds: one for each job but the first, and one that
\* new_job() has read for the next, but not one that is written and not counted.
Held(m) ==
    IF pc[m] = "exit" \/ jobserver_tokens[m] = 0 THEN 0
    ELSE jobserver_tokens[m] - (CASE pc[m] = "got" -> 0
                                  [] pc[m] \in Freeing /\ jobserver_tokens[m] > 1 -> 2
                                  [] OTHER -> 1)

Killed == {m \in Makes : status[m] = "signal"}

\* No token is lost or made up, whatever way the makes end, unless one is killed.
\* Then tokens may be missing, and there may be one too many for each that is
\* killed, when SIGTERM comes inside the free_child() of start_waiting_job().
TokensKept ==
    LET all == pipe + MapThenSumSet(Held, Makes) IN
    /\ all <= Slots - 1 + Cardinality(Killed)
    /\ Killed = {} => all = Slots - 1

\* Of all makes together no more than Slots commands run, and one more for each
\* make that was killed.
AtMostSlots ==
    Cardinality({j \in Jobs : job[j] = "running" /\ Runs[j] = NoMake})
        <= Slots + Cardinality(Killed)

\* new_job() and free_child() never stop with "INTERNAL": a make that sleeps on
\* the pipe has a child whose death wakes it, there is a token for each child
\* that is freed, and a make that was not killed ends with none.
NoInternalError ==
    \A m \in Makes :
       /\ pc[m] = "sleep" => children(m) # {}
       /\ pc[m] \notin {"signal", "exit"} =>
             jobserver_tokens[m] = Cardinality(children(m) \cup waiting_jobs(m))
                                   + (IF pc[m] \in Freeing \cup {"start"} THEN 1 ELSE 0)
       /\ pc[m] = "exit" /\ status[m] # "signal" => jobserver_tokens[m] = 0

\* A make that exits with success has made all its targets, and so have the
\* submakes its recipes ran, except where "-" says that failure does not matter.
SuccessMeansBuilt ==
    \A m \in Makes : pc[m] = "exit" /\ status[m] = "0" =>
       \A j \in JobsOf(m) :
          /\ job[j] = "done"
          /\ Runs[j] # NoMake /\ j \notin NoError => status[Runs[j]] = "0"

\* The build ends: no make sleeps on the pipe when what it waits for has already
\* happened (the race job.c describes at the dup() of the descriptor), and makes
\* do not wait for each other's tokens.
BuildEnds == <>(pc[Top] = "exit")

\* What clean_jobserver() checks in the top-level make, also after a submake was
\* killed: "were all the tokens written back?"
Sane == pc[Top] = "exit" /\ status[Top] # "signal" => pipe = Slots - 1

\* What the manual says of -j, for every build: "there are only N jobs running at
\* the same time between them all", also when a submake is killed.
JobsLimit == Cardinality({j \in Jobs : job[j] = "running" /\ Runs[j] = NoMake}) <= Slots

=============================================================================
