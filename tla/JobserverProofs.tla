--------------------------- MODULE JobserverProofs ---------------------------
(***************************************************************************)
(* For every number of makes, targets, lines and tokens: no make stops     *)
(* with an internal error, one that exits with success has made all its    *)
(* targets, no token is lost or made up unless a make is killed, and then  *)
(* at most one too many for each, and the number of commands that run at a *)
(* time is bounded accordingly.                                            *)
(***************************************************************************)
EXTENDS Jobserver, SumProofs

Places == {"off", "goal", "block", "more", "update", "need", "reap", "kick",
           "check", "sleep", "got", "start", "free_goal", "free_kick", "free_update",
           "die", "signal", "exit"}

USE DEF Freeing

States == {"todo", "waiting", "running", "good", "bad", "done", "failed"}

\* The types, tokens apart: that there are never too few is what is to be shown.
Shape ==
    /\ pc \in [Makes -> Places]
    /\ cur \in [Makes -> Jobs \cup {NoJob}]
    /\ jobserver_tokens \in [Makes -> Int]
    /\ status \in [Makes -> {"0", "2", "signal"}]
    /\ job \in [Jobs -> States]
    /\ lines \in [Jobs -> Nat]

\* The jobs a make has a child structure for.
Kids(m) == children(m) \cup waiting_jobs(m)
Active == {"waiting", "running", "good", "bad"}

\* There is a token for each of them, and for the one about to be started or just
\* done with.
Counted ==
    \A m \in Makes : pc[m] \notin {"signal", "exit"} =>
        jobserver_tokens[m] = Cardinality(Kids(m)) + (IF pc[m] \in Freeing \cup {"start"} THEN 1 ELSE 0)

\* A make only sleeps on the pipe for a child.
Sleepers ==
    \A m \in Makes :
        /\ pc[m] = "sleep" => children(m) # {}
        /\ pc[m] = "check" => children(m) # {} \/ waiting_jobs(m) = {}

\* A make that ends by itself gives back all tokens.
Spent ==
    \A m \in Makes : pc[m] = "exit" /\ status[m] # "signal" => jobserver_tokens[m] = 0

\* new_job() is called for a target that was not started.
Cursor ==
    \A m \in Makes : pc[m] \in {"need", "reap", "kick", "free_kick", "check", "sleep", "got", "start"} =>
        cur[m] \in JobsOf(m) /\ job[cur[m]] = "todo"

\* The status is settled last, and is success only when all targets are made.
Verdicts ==
    \A m \in Makes :
        /\ pc[m] \notin {"die", "signal", "exit"} => status[m] = "0"
        /\ pc[m] = "die" => status[m] # "signal"
        /\ pc[m] = "signal" => status[m] = "signal"
        /\ pc[m] \in {"die", "exit"} /\ status[m] = "0" => \A j \in JobsOf(m) : job[j] = "done"

\* A submake is started by the one line that runs it, and its job is good when it
\* has exited with success.
Submakes ==
    \A j \in Jobs :
        /\ job[j] \in {"todo", "waiting"} => lines[j] = Lines[j]
        /\ Runs[j] # NoMake =>
             /\ lines[j] > 0 => pc[Runs[j]] = "off" /\ lines[j] = 1
             /\ job[j] = "good" \/ (job[j] = "done" /\ j \notin NoError) =>
                    pc[Runs[j]] = "exit" /\ status[Runs[j]] = "0"

\* A make that is not running has started nothing.
Asleep == \A m \in Makes : pc[m] = "off" => Kids(m) = {}

IInv == Shape /\ Counted /\ Sleepers /\ Spent /\ Cursor /\ Verdicts /\ Submakes /\ Asleep

-----------------------------------------------------------------------------

\* The jobs of a make are finitely many; one more or less changes their number by
\* one.
LEMMA JobSets ==
    ASSUME NEW S \in SUBSET Jobs, NEW j \in Jobs
    PROVE  /\ IsFiniteSet(S) /\ Cardinality(S) \in Nat
           /\ Cardinality(S) = 0 <=> S = {}
           /\ j \notin S => Cardinality(S \cup {j}) = Cardinality(S) + 1
           /\ j \in S => Cardinality(S \ {j}) = Cardinality(S) - 1
<1>1. IsFiniteSet(S)
  BY JobserverFinite, FS_Subset
<1>. QED BY <1>1, FS_CardinalityType, FS_EmptySet, FS_AddElement, FS_RemoveElement

\* What a make has to do with a job is up to the state of the job alone.
LEMMA KidsAre ==
    ASSUME Shape, NEW m \in Makes
    PROVE  /\ Kids(m) = {k \in JobsOf(m) : job[k] \in Active} /\ Kids(m) \in SUBSET Jobs
           /\ Cardinality(Kids(m)) \in Nat
           /\ Cardinality(Kids(m)) = 0 <=> Kids(m) = {}
<1>1. Kids(m) = {k \in JobsOf(m) : job[k] \in Active} /\ Kids(m) \in SUBSET Jobs
  BY DEF Kids, children, waiting_jobs, Active, JobsOf
<1>2. CASE Jobs = {}
  <2>1. Kids(m) = {}
    BY <1>1, <1>2
  <2>. QED BY <2>1, <1>1, FS_EmptySet
<1>3. CASE Jobs # {}
  BY <1>1, <1>3, JobSets
<1>. QED BY <1>2, <1>3

\* One job changes its state: only its make's chains do.
LEMMA OneJob ==
    ASSUME Shape, NEW m \in Makes, NEW j \in JobsOf(m), NEW v \in States,
           job' = [job EXCEPT ![j] = v]
    PROVE  /\ \A k \in Makes \ {m} : /\ children(k)' = children(k)
                                      /\ waiting_jobs(k)' = waiting_jobs(k) /\ Kids(k)' = Kids(k)
           /\ job[j] \in Active /\ v \in Active => Kids(m)' = Kids(m)
           /\ job[j] \notin Active /\ v \in Active =>
                 Cardinality(Kids(m))' = Cardinality(Kids(m)) + 1
           /\ job[j] \in Active /\ v \notin Active =>
                 Cardinality(Kids(m))' = Cardinality(Kids(m)) - 1
           /\ job[j] \notin Active /\ v \notin Active => Kids(m)' = Kids(m)
<1>1. \A k \in Makes \ {m} : children(k)' = children(k) /\ waiting_jobs(k)' = waiting_jobs(k)
  BY DEF Shape, children, waiting_jobs, JobsOf
<1>2. Kids(m) = {k \in JobsOf(m) : job[k] \in Active} /\ Kids(m) \in SUBSET Jobs
  BY KidsAre
<1>3. Kids(m)' = {k \in JobsOf(m) : job'[k] \in Active}
  BY DEF Shape, Kids, children, waiting_jobs, Active, JobsOf, States
<1>4. j \in Jobs /\ j \in JobsOf(m) /\ job'[j] = v /\ \A k \in Jobs : k # j => job'[k] = job[k]
  BY DEF JobsOf, Shape
<1>5. JobsOf(m) \subseteq Jobs
  BY DEF JobsOf
<1>6. job[j] \in Active /\ v \in Active => Kids(m)' = Kids(m)
  BY <1>2, <1>3, <1>4, <1>5
<1>7. job[j] \notin Active /\ v \notin Active => Kids(m)' = Kids(m)
  BY <1>2, <1>3, <1>4, <1>5
<1>8. ASSUME job[j] \notin Active, v \in Active
      PROVE  Cardinality(Kids(m))' = Cardinality(Kids(m)) + 1
  <2>1. Kids(m)' = Kids(m) \cup {j} /\ j \notin Kids(m)
    BY <1>2, <1>3, <1>4, <1>5, <1>8
  <2>. QED BY <2>1, <1>2, <1>4, JobSets
<1>9. ASSUME job[j] \in Active, v \notin Active
      PROVE  Cardinality(Kids(m))' = Cardinality(Kids(m)) - 1
  <2>1. Kids(m)' = Kids(m) \ {j} /\ j \in Kids(m)
    BY <1>2, <1>3, <1>4, <1>5, <1>9
  <2>. QED BY <2>1, <1>2, <1>4, JobSets
<1>. QED BY <1>1, <1>6, <1>7, <1>8, <1>9 DEF Kids

-----------------------------------------------------------------------------
(* The steps that start a job, put it off, or are done with it.             *)

\* Where job j of make m comes from, and where the make goes on: a dead child,
\* a job that waited for the load, or the target of new_job().
Taken(m, j, p) ==
    \/ /\ job[j] \in {"good", "bad"} /\ cur' = cur
       /\ pc[m] \in {"goal", "block", "more", "reap", "kick", "die"} /\ p = pc[m]
    \/ /\ job[j] = "waiting" /\ cur' = cur
       /\ pc[m] \in {"goal", "kick"} /\ p = pc[m]
    \/ /\ job[j] = "todo" /\ j = cur[m] /\ cur' = [cur EXCEPT ![m] = NoJob]
       /\ pc[m] = "start" /\ p = "update"

\* A command line is started.
LEMMA Forking ==
    ASSUME IInv, NEW m \in Makes, NEW j \in JobsOf(m), NEW p, Taken(m, j, p),
           Fork(m, j, p), status' = status
    PROVE  IInv'
<1>. USE DEF IInv
<1>1. /\ j \in Jobs /\ Of[j] = m /\ p \in Places /\ lines[j] \in Nat /\ lines[j] > 0
      /\ job' = [job EXCEPT ![j] = "running"] /\ lines' = [lines EXCEPT ![j] = @ - 1]
      /\ pc' = [k \in Makes |-> CASE k = m -> p [] k = Runs[j] -> "goal" [] OTHER -> pc[k]]
      /\ jobserver_tokens' = jobserver_tokens
  BY DEF JobsOf, Taken, Places, Fork, Shape
<1>2. /\ \A k \in Makes \ {m} : /\ children(k)' = children(k)
                                /\ waiting_jobs(k)' = waiting_jobs(k) /\ Kids(k)' = Kids(k)
      /\ job[j] \in Active => Kids(m)' = Kids(m)
      /\ job[j] \notin Active => Cardinality(Kids(m))' = Cardinality(Kids(m)) + 1
  <2>1. "running" \in States /\ "running" \in Active
    BY DEF States, Active
  <2>. QED BY <1>1, <2>1, OneJob
<1>3. Runs[j] # NoMake => Runs[j] \in Makes /\ pc[Runs[j]] = "off" /\ Lines[j] = 1
                          /\ lines'[j] = 0 /\ Runs[j] # m
  <2>1. Runs[j] # NoMake => Runs[j] \in Makes /\ pc[Runs[j]] = "off" /\ Lines[j] = 1
    BY <1>1, JobserverAssumption, SubmakesOnce DEF Submakes
  <2>2. pc[m] # "off"
    BY DEF Taken
  <2>3. Runs[j] # NoMake => lines[j] = 1
    BY <1>1, <2>1 DEF Submakes
  <2>. QED BY <1>1, <2>1, <2>2, <2>3 DEF Shape
<1>4. /\ pc'[m] = p
      /\ \A k \in Makes \ {m} : \/ pc'[k] = pc[k]
                                \/ k = Runs[j] /\ pc[k] = "off" /\ pc'[k] = "goal"
      /\ pc' \in [Makes -> Places]
  BY <1>1, <1>3, JobserverAssumption DEF Shape, Places
<1>5. Shape'
  BY <1>1, <1>4, JobserverAssumption DEF Shape, States, Taken
<1>6. Counted'
  <2>1. ASSUME NEW k \in Makes \ {m}, pc'[k] \notin {"signal", "exit"}
        PROVE  jobserver_tokens'[k] = Cardinality(Kids(k))' + (IF pc'[k] \in Freeing \cup {"start"} THEN 1 ELSE 0)
    BY <1>1, <1>2, <1>4, <2>1 DEF Counted
  <2>2. jobserver_tokens'[m] = Cardinality(Kids(m))' + (IF pc'[m] \in Freeing \cup {"start"} THEN 1 ELSE 0)
    BY <1>1, <1>2, <1>4, KidsAre DEF Counted, Taken, Active
  <2>. QED BY <2>1, <2>2 DEF Counted
<1>7. Sleepers'
  BY <1>2, <1>4 DEF Sleepers, Taken
<1>8. Spent'
  BY <1>1, <1>4 DEF Spent, Taken
<1>9. Cursor'
  <2>1. \A k \in Makes \ {m} : cur'[k] = cur[k]
    BY DEF Taken, Shape
  <2>2. \A k \in Makes \ {m} : \A i \in JobsOf(k) : i # j /\ i \in Jobs
    BY <1>1 DEF JobsOf
  <2>3. ASSUME NEW k \in Makes \ {m},
               pc'[k] \in {"need", "reap", "kick", "free_kick", "check", "sleep", "got", "start"}
        PROVE  cur'[k] \in JobsOf(k) /\ job'[cur'[k]] = "todo"
    BY <1>1, <1>4, <2>1, <2>2, <2>3 DEF Cursor, Shape
  <2>4. ASSUME pc'[m] \in {"need", "reap", "kick", "free_kick", "check", "sleep", "got", "start"}
        PROVE  cur'[m] \in JobsOf(m) /\ job'[cur'[m]] = "todo"
    BY <1>1, <1>4, <2>4 DEF Cursor, Taken, Shape
  <2>. QED BY <2>3, <2>4 DEF Cursor, JobsOf
<1>10. Verdicts'
  <2>1. \A k \in Makes \ {m} : \A i \in JobsOf(k) : job'[i] = job[i]
    BY <1>1 DEF JobsOf, Shape
  <2>2. pc[m] = "die" => status[m] # "0"
    BY <1>1 DEF Verdicts, Taken
  <2>. QED BY <1>4, <2>1, <2>2 DEF Verdicts, Taken, JobsOf
<1>11. Submakes'
  <2>1. \A i \in Jobs \ {j} : job'[i] = job[i] /\ lines'[i] = lines[i]
    BY <1>1 DEF Shape
  <2>2. job'[j] = "running"
    BY <1>1 DEF Shape
  <2>3. ASSUME NEW i \in Jobs \ {j}, Runs[i] # NoMake
        PROVE  /\ Runs[i] \in Makes /\ Runs[i] # Runs[j]
               /\ lines'[i] > 0 => pc'[Runs[i]] = "off" /\ lines'[i] = 1
               /\ job'[i] = "good" \/ (job'[i] = "done" /\ i \notin NoError) =>
                     pc'[Runs[i]] = "exit" /\ status'[Runs[i]] = "0"
    <3>1. Runs[i] \in Makes /\ Runs[i] # Runs[j]
      BY <1>1, <2>3, JobserverAssumption, SubmakesOnce
    <3>2. pc[m] \notin {"off", "exit"}
      BY DEF Taken
    <3>. QED BY <1>4, <2>1, <2>3, <3>1, <3>2 DEF Submakes
  <2>. QED BY <1>3, <2>1, <2>2, <2>3 DEF Submakes
<1>12. Asleep'
  <2>1. pc'[m] # "off"
    BY <1>4 DEF Taken
  <2>. QED BY <1>2, <1>4, <2>1 DEF Asleep
<1>. QED BY <1>5, <1>6, <1>7, <1>8, <1>9, <1>10, <1>11, <1>12

\* How reap_children() is done with job j: a target is made when its last line was
\* good or need not be, and a failed child ends the make or not.
Closed(m, j, result, p) ==
    /\ job[j] \in {"good", "bad"} /\ cur' = cur
    /\ pc[m] \in {"goal", "block", "more", "reap", "kick", "die", "signal"}
    /\ result \in {"done", "failed"}
    /\ result = "done" => lines[j] = 0 /\ (job[j] = "good" \/ j \in NoError)
    /\ \/ p \in {pc[m], IF pc[m] = "block" THEN "more" ELSE pc[m]} /\ status' = status
       \/ /\ p = "die" /\ pc[m] \notin {"die", "signal"} /\ result = "failed"
          /\ status' = [status EXCEPT ![m] = "2"]

\* A job is done with, and its child structure freed.
LEMMA Finishing ==
    ASSUME IInv, NEW m \in Makes, NEW j \in JobsOf(m), NEW result, NEW p,
           Closed(m, j, result, p), Finish(m, j, result, p)
    PROVE  IInv'
<1>. USE DEF IInv
<1>1. /\ j \in Jobs /\ Of[j] = m /\ p \in Places /\ result \in {"done", "failed"}
      /\ job' = [job EXCEPT ![j] = result] /\ lines' = lines
      /\ pc' = [pc EXCEPT ![m] = p]
      /\ jobserver_tokens' = [jobserver_tokens EXCEPT ![m] = @ - 1]
  BY DEF JobsOf, Closed, Places, Finish, free_child, CountDown, Goto
<1>2. /\ \A k \in Makes \ {m} : /\ children(k)' = children(k)
                                /\ waiting_jobs(k)' = waiting_jobs(k) /\ Kids(k)' = Kids(k)
      /\ job[j] \in Active => Cardinality(Kids(m))' = Cardinality(Kids(m)) - 1
      /\ job[j] \notin Active => Kids(m)' = Kids(m)
  <2>1. result \in States /\ result \notin Active
    BY <1>1 DEF States, Active
  <2>. QED BY <1>1, <2>1, OneJob
<1>3. /\ pc'[m] = p /\ pc' \in [Makes -> Places]
      /\ \A k \in Makes \ {m} : pc'[k] = pc[k] /\ cur'[k] = cur[k] /\ status'[k] = status[k]
  BY <1>1 DEF Shape, Closed
<1>4. Shape'
  BY <1>1, <1>3 DEF Shape, States, Closed
<1>5. Counted'
  <2>1. ASSUME NEW k \in Makes \ {m}, pc'[k] \notin {"signal", "exit"}
        PROVE  jobserver_tokens'[k] = Cardinality(Kids(k))' + (IF pc'[k] \in Freeing \cup {"start"} THEN 1 ELSE 0)
    BY <1>1, <1>2, <1>3, <2>1 DEF Counted, Shape
  <2>2. ASSUME pc'[m] \notin {"signal", "exit"}
        PROVE  jobserver_tokens'[m] = Cardinality(Kids(m))' + (IF pc'[m] \in Freeing \cup {"start"} THEN 1 ELSE 0)
    BY <1>1, <1>2, <1>3, <2>2, KidsAre DEF Counted, Closed, Active, Shape
  <2>. QED BY <2>1, <2>2 DEF Counted
<1>6. Sleepers'
  BY <1>2, <1>3 DEF Sleepers, Closed
<1>7. Spent'
  BY <1>1, <1>3 DEF Spent, Closed, Shape
<1>8. Cursor'
  <2>1. \A k \in Makes \ {m} : \A i \in JobsOf(k) : i # j /\ i \in Jobs
    BY <1>1 DEF JobsOf
  <2>2. ASSUME NEW k \in Makes \ {m},
               pc'[k] \in {"need", "reap", "kick", "free_kick", "check", "sleep", "got", "start"}
        PROVE  cur'[k] \in JobsOf(k) /\ job'[cur'[k]] = "todo"
    BY <1>1, <1>3, <2>1, <2>2 DEF Cursor, Shape
  <2>3. ASSUME pc'[m] \in {"need", "reap", "kick", "free_kick", "check", "sleep", "got", "start"}
        PROVE  cur'[m] \in JobsOf(m) /\ job'[cur'[m]] = "todo"
    BY <1>1, <1>3, <2>3 DEF Cursor, Closed, Shape
  <2>. QED BY <2>2, <2>3 DEF Cursor, JobsOf
<1>9. Verdicts'
  <2>1. \A k \in Makes \ {m} : \A i \in JobsOf(k) : job'[i] = job[i]
    BY <1>1 DEF JobsOf, Shape
  <2>2. pc[m] = "die" => status[m] # "0"
    BY <1>1 DEF Verdicts, Closed
  <2>3. /\ pc'[m] \notin {"die", "signal", "exit"} => status'[m] = "0"
        /\ pc'[m] = "die" => status'[m] = "2"
        /\ pc'[m] = "signal" => status'[m] = "signal"
        /\ pc'[m] # "exit"
    BY <1>3, <2>2 DEF Verdicts, Closed, Shape
  <2>. QED BY <1>3, <2>1, <2>3 DEF Verdicts, JobsOf
<1>10. Submakes'
  <2>1. \A i \in Jobs \ {j} : job'[i] = job[i]
    BY <1>1 DEF Shape
  <2>2. job'[j] = result
    BY <1>1 DEF Shape
  <2>3. pc[m] \notin {"off", "exit"} /\ p # "off"
    BY DEF Closed
  <2>4. ASSUME NEW i \in Jobs, Runs[i] # NoMake
        PROVE  /\ Runs[i] \in Makes
               /\ lines[i] > 0 => pc'[Runs[i]] = "off" /\ lines[i] = 1
               /\ job[i] = "good" \/ (job[i] = "done" /\ i \notin NoError) =>
                     pc'[Runs[i]] = "exit" /\ status'[Runs[i]] = "0"
    <3>1. Runs[i] \in Makes
      BY <2>4, JobserverAssumption
    <3>. QED BY <1>3, <2>3, <2>4, <3>1 DEF Submakes
  <2>5. ASSUME Runs[j] # NoMake, result = "done", j \notin NoError
        PROVE  job[j] = "good"
    <3>1. Lines[j] = 1 /\ lines[j] = 0
      BY <1>1, <2>5, SubmakesOnce DEF Closed
    <3>2. job[j] \notin {"todo", "waiting"}
      BY <1>1, <3>1 DEF Submakes
    <3>. QED BY <2>5, <3>2 DEF Closed
  <2>. QED BY <1>1, <2>1, <2>2, <2>4, <2>5 DEF Submakes
<1>11. Asleep'
  <2>1. pc'[m] # "off"
    BY <1>3 DEF Closed
  <2>. QED BY <1>2, <1>3, <2>1 DEF Asleep
<1>. QED BY <1>4, <1>5, <1>6, <1>7, <1>8, <1>9, <1>10, <1>11

\* How start_waiting_job() is done with a job it did not start.
Dropped(m, j, result, p) ==
    /\ \/ /\ job[j] = "waiting" /\ cur' = cur
          /\ \/ pc[m] = "goal" /\ p = "free_goal"
             \/ pc[m] = "kick" /\ p = "free_kick"
       \/ /\ job[j] = "todo" /\ j = cur[m] /\ cur' = [cur EXCEPT ![m] = NoJob]
          /\ pc[m] = "start" /\ p = "free_update"
    /\ status' = status
    /\ result \in {"done", "failed"} /\ (result = "done" => lines[j] = 0)

\* A job is done with, and its token not counted yet.
LEMMA Dropping ==
    ASSUME IInv, NEW m \in Makes, NEW j \in JobsOf(m), NEW result, NEW p,
           Dropped(m, j, result, p), NotStarted(m, j, result, p)
    PROVE  IInv'
<1>. USE DEF IInv
<1>1. /\ j \in Jobs /\ Of[j] = m /\ p \in Places /\ result \in {"done", "failed"}
      /\ job' = [job EXCEPT ![j] = result] /\ lines' = lines
      /\ pc' = [pc EXCEPT ![m] = p]
      /\ jobserver_tokens' = jobserver_tokens
  BY DEF JobsOf, Dropped, Places, NotStarted, Goto
<1>2. /\ \A k \in Makes \ {m} : /\ children(k)' = children(k)
                                /\ waiting_jobs(k)' = waiting_jobs(k) /\ Kids(k)' = Kids(k)
      /\ job[j] \in Active => Cardinality(Kids(m))' = Cardinality(Kids(m)) - 1
      /\ job[j] \notin Active => Kids(m)' = Kids(m)
  <2>1. result \in States /\ result \notin Active
    BY <1>1 DEF States, Active
  <2>. QED BY <1>1, <2>1, OneJob
<1>3. /\ pc'[m] = p /\ pc' \in [Makes -> Places]
      /\ \A k \in Makes \ {m} : pc'[k] = pc[k] /\ cur'[k] = cur[k] /\ status'[k] = status[k]
  BY <1>1 DEF Shape, Dropped
<1>4. Shape'
  BY <1>1, <1>3 DEF Shape, States, Dropped
<1>5. Counted'
  <2>1. ASSUME NEW k \in Makes \ {m}, pc'[k] \notin {"signal", "exit"}
        PROVE  jobserver_tokens'[k] = Cardinality(Kids(k))' + (IF pc'[k] \in Freeing \cup {"start"} THEN 1 ELSE 0)
    BY <1>1, <1>2, <1>3, <2>1 DEF Counted, Shape
  <2>2. ASSUME pc'[m] \notin {"signal", "exit"}
        PROVE  jobserver_tokens'[m] = Cardinality(Kids(m))' + (IF pc'[m] \in Freeing \cup {"start"} THEN 1 ELSE 0)
    BY <1>1, <1>2, <1>3, <2>2, KidsAre DEF Counted, Dropped, Active, Shape
  <2>. QED BY <2>1, <2>2 DEF Counted
<1>6. Sleepers'
  BY <1>2, <1>3 DEF Sleepers, Dropped
<1>7. Spent'
  BY <1>1, <1>3 DEF Spent, Dropped, Shape
<1>8. Cursor'
  <2>1. \A k \in Makes \ {m} : \A i \in JobsOf(k) : i # j /\ i \in Jobs
    BY <1>1 DEF JobsOf
  <2>2. ASSUME NEW k \in Makes \ {m},
               pc'[k] \in {"need", "reap", "kick", "free_kick", "check", "sleep", "got", "start"}
        PROVE  cur'[k] \in JobsOf(k) /\ job'[cur'[k]] = "todo"
    BY <1>1, <1>3, <2>1, <2>2 DEF Cursor, Shape
  <2>3. ASSUME pc'[m] \in {"need", "reap", "kick", "free_kick", "check", "sleep", "got", "start"}
        PROVE  cur'[m] \in JobsOf(m) /\ job'[cur'[m]] = "todo"
    BY <1>1, <1>3, <2>3 DEF Cursor, Dropped, Shape
  <2>. QED BY <2>2, <2>3 DEF Cursor, JobsOf
<1>9. Verdicts'
  <2>1. \A k \in Makes \ {m} : \A i \in JobsOf(k) : job'[i] = job[i]
    BY <1>1 DEF JobsOf, Shape
  <2>2. pc[m] = "die" => status[m] # "0"
    BY <1>1 DEF Verdicts, Dropped
  <2>3. /\ pc'[m] \notin {"die", "signal", "exit"} => status'[m] = "0"
        /\ pc'[m] \notin {"die", "signal", "exit"}
    BY <1>3, <2>2 DEF Verdicts, Dropped, Shape
  <2>. QED BY <1>3, <2>1, <2>3 DEF Verdicts, JobsOf
<1>10. Submakes'
  <2>1. \A i \in Jobs \ {j} : job'[i] = job[i]
    BY <1>1 DEF Shape
  <2>2. job'[j] = result
    BY <1>1 DEF Shape
  <2>3. pc[m] \notin {"off", "exit"} /\ p # "off"
    BY DEF Dropped
  <2>4. ASSUME NEW i \in Jobs, Runs[i] # NoMake
        PROVE  /\ Runs[i] \in Makes
               /\ lines[i] > 0 => pc'[Runs[i]] = "off" /\ lines[i] = 1
               /\ job[i] = "good" \/ (job[i] = "done" /\ i \notin NoError) =>
                     pc'[Runs[i]] = "exit" /\ status'[Runs[i]] = "0"
    <3>1. Runs[i] \in Makes
      BY <2>4, JobserverAssumption
    <3>. QED BY <1>3, <2>3, <2>4, <3>1 DEF Submakes
  <2>5. ASSUME Runs[j] # NoMake, result = "done", j \notin NoError
        PROVE  job[j] = "good"
    <3>1. Lines[j] = 1 /\ lines[j] = 0
      BY <1>1, <2>5, SubmakesOnce DEF Dropped
    <3>2. job[j] \notin {"todo", "waiting"}
      BY <1>1, <3>1 DEF Submakes
    <3>. QED BY <2>5, <3>2 DEF Dropped
  <2>. QED BY <1>1, <2>1, <2>2, <2>4, <2>5 DEF Submakes
<1>11. Asleep'
  <2>1. pc'[m] # "off"
    BY <1>3 DEF Dropped
  <2>. QED BY <1>2, <1>3, <2>1 DEF Asleep
<1>. QED BY <1>4, <1>5, <1>6, <1>7, <1>8, <1>9, <1>10, <1>11

\* A job is put on the chain of those that wait for the load to go down.
LEMMA Waiting ==
    ASSUME IInv, NEW m \in Makes, NEW j \in JobsOf(m), NEW p, children(m) # {},
           \/ /\ job[j] = "waiting" /\ cur' = cur
              /\ \/ pc[m] = "goal" /\ p = "block"
                 \/ pc[m] = "kick" /\ p = "check"
           \/ /\ job[j] = "todo" /\ j = cur[m] /\ cur' = [cur EXCEPT ![m] = NoJob]
              /\ pc[m] = "start" /\ p = "update",
           job' = [job EXCEPT ![j] = "waiting"], pc' = [pc EXCEPT ![m] = p],
           UNCHANGED <<jobserver_tokens, lines, status>>
    PROVE  IInv'
<1>. USE DEF IInv
<1>1. j \in Jobs /\ Of[j] = m /\ p \in Places
  BY DEF JobsOf, Places
<1>2. /\ \A k \in Makes \ {m} : /\ children(k)' = children(k)
                                /\ waiting_jobs(k)' = waiting_jobs(k) /\ Kids(k)' = Kids(k)
      /\ job[j] \in Active => Kids(m)' = Kids(m)
      /\ job[j] \notin Active => Cardinality(Kids(m))' = Cardinality(Kids(m)) + 1
  <2>1. "waiting" \in States /\ "waiting" \in Active
    BY DEF States, Active
  <2>. QED BY <2>1, OneJob
<1>3. /\ pc'[m] = p /\ pc' \in [Makes -> Places]
      /\ \A k \in Makes \ {m} : pc'[k] = pc[k] /\ cur'[k] = cur[k]
  BY <1>1 DEF Shape
<1>4. Shape'
  BY <1>1, <1>3 DEF Shape, States
<1>5. children(m)' # {}
  BY <1>1 DEF children, JobsOf, Shape
<1>6. Counted'
  <2>1. ASSUME NEW k \in Makes \ {m}, pc'[k] \notin {"signal", "exit"}
        PROVE  jobserver_tokens'[k] = Cardinality(Kids(k))' + (IF pc'[k] \in Freeing \cup {"start"} THEN 1 ELSE 0)
    BY <1>2, <1>3, <2>1 DEF Counted
  <2>2. jobserver_tokens'[m] = Cardinality(Kids(m))' + (IF pc'[m] \in Freeing \cup {"start"} THEN 1 ELSE 0)
    BY <1>2, <1>3, KidsAre DEF Counted, Active
  <2>. QED BY <2>1, <2>2 DEF Counted
<1>7. Sleepers' /\ Spent'
  BY <1>2, <1>3, <1>5 DEF Sleepers, Spent
<1>8. Cursor'
  <2>1. \A k \in Makes \ {m} : \A i \in JobsOf(k) : i # j /\ i \in Jobs
    BY <1>1 DEF JobsOf
  <2>2. ASSUME NEW k \in Makes \ {m},
               pc'[k] \in {"need", "reap", "kick", "free_kick", "check", "sleep", "got", "start"}
        PROVE  cur'[k] \in JobsOf(k) /\ job'[cur'[k]] = "todo"
    BY <1>1, <1>3, <2>1, <2>2 DEF Cursor, Shape
  <2>3. ASSUME pc'[m] \in {"need", "reap", "kick", "free_kick", "check", "sleep", "got", "start"}
        PROVE  cur'[m] \in JobsOf(m) /\ job'[cur'[m]] = "todo"
    BY <1>1, <1>3, <2>3 DEF Cursor, Shape
  <2>. QED BY <2>2, <2>3 DEF Cursor, JobsOf
<1>9. Verdicts'
  <2>1. \A k \in Makes \ {m} : \A i \in JobsOf(k) : job'[i] = job[i]
    BY <1>1 DEF JobsOf, Shape
  <2>. QED BY <1>3, <2>1 DEF Verdicts, JobsOf
<1>10. Submakes'
  <2>1. \A i \in Jobs \ {j} : job'[i] = job[i]
    BY <1>1 DEF Shape
  <2>2. job'[j] = "waiting" /\ lines[j] = Lines[j]
    BY <1>1 DEF Shape, Submakes
  <2>3. \A i \in Jobs : Runs[i] # NoMake => Runs[i] \in Makes
    BY JobserverAssumption
  <2>. QED BY <1>3, <2>1, <2>2, <2>3 DEF Submakes
<1>11. Asleep'
  BY <1>2, <1>3 DEF Asleep
<1>. QED BY <1>4, <1>6, <1>7, <1>8, <1>9, <1>10, <1>11

-----------------------------------------------------------------------------
(* The other steps.                                                         *)

Calling == {"need", "reap", "kick", "free_kick", "check", "sleep", "got", "start"}

\* Make m may go to place p with t tokens, target c and status s.
Fits(m, p, t, c, s) ==
    /\ p \in Places \ {"off"} /\ t \in Int /\ c \in Jobs \cup {NoJob} /\ s \in {"0", "2", "signal"}
    /\ p \notin {"signal", "exit"} => t = Cardinality(Kids(m)) + (IF p \in Freeing \cup {"start"} THEN 1 ELSE 0)
    /\ p = "sleep" => children(m) # {}
    /\ p = "check" => children(m) # {} \/ waiting_jobs(m) = {}
    /\ p = "exit" /\ s # "signal" => t = 0
    /\ p \in Calling => c \in JobsOf(m) /\ job[c] = "todo"
    /\ p \notin {"die", "signal", "exit"} => s = "0"
    /\ p = "die" => s # "signal"
    /\ p = "signal" => s = "signal"
    /\ p \in {"die", "exit"} /\ s = "0" => \A j \in JobsOf(m) : job[j] = "done"

\* It gets them, and nothing else changes.
Gets(m, t, c, s) ==
    /\ UNCHANGED <<job, lines>>
    /\ jobserver_tokens' = [jobserver_tokens EXCEPT ![m] = t]
    /\ cur' = [cur EXCEPT ![m] = c] /\ status' = [status EXCEPT ![m] = s]

\* A make goes on.
LEMMA Moving ==
    ASSUME IInv, NEW m \in Makes, pc[m] \notin {"off", "exit"},
           NEW p, NEW t, NEW c, NEW s, Fits(m, p, t, c, s),
           pc' = [pc EXCEPT ![m] = p], Gets(m, t, c, s)
    PROVE  IInv'
<1>. USE DEF IInv, Fits, Gets
<1>1. /\ pc'[m] = p /\ jobserver_tokens'[m] = t /\ cur'[m] = c /\ status'[m] = s
      /\ \A k \in Makes \ {m} : /\ pc'[k] = pc[k] /\ jobserver_tokens'[k] = jobserver_tokens[k]
                                /\ cur'[k] = cur[k] /\ status'[k] = status[k]
  BY DEF Shape
<1>2. \A k \in Makes : /\ children(k)' = children(k) /\ waiting_jobs(k)' = waiting_jobs(k)
                       /\ Kids(k)' = Kids(k)
  BY DEF children, waiting_jobs, Kids, JobsOf
<1>3. Shape'
  BY DEF Shape
<1>4. Counted'
  BY <1>1, <1>2 DEF Counted
<1>5. Sleepers'
  BY <1>1, <1>2 DEF Sleepers
<1>6. Spent'
  BY <1>1 DEF Spent
<1>7. Cursor'
  BY <1>1 DEF Cursor, JobsOf, Calling
<1>8. Verdicts'
  BY <1>1 DEF Verdicts, JobsOf
<1>9. Submakes'
  <2>1. \A i \in Jobs : Runs[i] # NoMake => Runs[i] \in Makes
    BY JobserverAssumption
  <2>. QED BY <1>1, <2>1 DEF Submakes
<1>10. Asleep'
  BY <1>1, <1>2 DEF Asleep
<1>. QED BY <1>3, <1>4, <1>5, <1>6, <1>7, <1>8, <1>9, <1>10

\* The same, when only the place changes and it is not the end.
LEMMA Going ==
    ASSUME IInv, NEW m \in Makes, NEW p \in Places \ ({"off", "exit", "start", "die", "signal"} \cup Freeing),
           pc[m] \notin {"off", "signal", "exit", "start", "die"} \cup Freeing,
           pc' = [pc EXCEPT ![m] = p],
           UNCHANGED <<job, lines, jobserver_tokens, cur, status>>,
           p = "sleep" => children(m) # {},
           p = "check" => children(m) # {} \/ waiting_jobs(m) = {},
           p \in Calling => pc[m] \in Calling
    PROVE  IInv'
<1>. USE DEF IInv
<1>1. /\ jobserver_tokens[m] \in Int /\ cur[m] \in Jobs \cup {NoJob} /\ status[m] \in {"0", "2", "signal"}
      /\ Gets(m, jobserver_tokens[m], cur[m], status[m])
  BY DEF Shape, Gets
<1>2. jobserver_tokens[m] = Cardinality(Kids(m)) /\ status[m] = "0"
  BY KidsAre DEF Counted, Verdicts
<1>3. p \in Calling => cur[m] \in JobsOf(m) /\ job[cur[m]] = "todo"
  BY DEF Cursor, Calling
<1>4. Fits(m, p, jobserver_tokens[m], cur[m], status[m])
  BY <1>1, <1>2, <1>3 DEF Fits
<1>. QED BY <1>1, <1>4, Moving

\* Signals and commands: no make goes on.
LEMMA Outside ==
    ASSUME IInv, UNCHANGED <<pc, cur, jobserver_tokens, status, lines>>,
           \/ job' = job
           \/ \E j \in Jobs : /\ job[j] = "running"
                              /\ \E v \in {"good", "bad"} :
                                    /\ job' = [job EXCEPT ![j] = v]
                                    /\ v = "good" /\ Runs[j] # NoMake =>
                                          pc[Runs[j]] = "exit" /\ status[Runs[j]] = "0"
    PROVE  IInv'
<1>. USE DEF IInv
<1>1. CASE job' = job
  BY <1>1 DEF Shape, Counted, Sleepers, Spent, Cursor, Verdicts, Submakes, Asleep, Kids, children,
              waiting_jobs, JobsOf
<1>2. ASSUME NEW j \in Jobs, job[j] = "running", NEW v \in {"good", "bad"},
             job' = [job EXCEPT ![j] = v],
             v = "good" /\ Runs[j] # NoMake => pc[Runs[j]] = "exit" /\ status[Runs[j]] = "0"
      PROVE  IInv'
  <2>1. /\ job'[j] = v /\ \A i \in Jobs \ {j} : job'[i] = job[i]
        /\ job' \in [Jobs -> States]
    BY <1>2 DEF Shape, States
  <2>2. \A k \in Makes : children(k)' = children(k) /\ waiting_jobs(k)' = waiting_jobs(k)
    BY <1>2, <2>1 DEF children, waiting_jobs, JobsOf
  <2>3. \A k \in Makes : Kids(k)' = Kids(k)
    BY <2>2 DEF Kids
  <2>4. Shape' /\ Counted' /\ Sleepers' /\ Spent' /\ Asleep'
    BY <2>1, <2>2, <2>3 DEF Shape, Counted, Sleepers, Spent, Asleep
  <2>5. Cursor'
    BY <1>2, <2>1 DEF Cursor, JobsOf
  <2>6. Verdicts'
    BY <1>2, <2>1 DEF Verdicts, JobsOf
  <2>7. Submakes'
    BY <1>2, <2>1 DEF Submakes
  <2>. QED BY <2>4, <2>5, <2>6, <2>7
<1>. QED BY <1>1, <1>2

\* reap_children() keeps the invariant.
LEMMA Reaping ==
    ASSUME IInv, NEW m \in Makes, NEW j \in Jobs, Reap(m, j)
    PROVE  IInv'
<1>. DEFINE failed == job[j] = "bad" /\ j \notin NoError
            dies == failed /\ ~keep_going_flag /\ pc[m] \notin {"die", "signal"}
            on == IF dies THEN "die" ELSE IF pc[m] = "block" THEN "more" ELSE pc[m]
<1>1. /\ j \in JobsOf(m) /\ job[j] \in {"good", "bad"} /\ cur' = cur
      /\ pc[m] \in {"goal", "block", "more", "reap", "kick", "die", "signal"}
      /\ status' = IF dies THEN [status EXCEPT ![m] = "2"] ELSE status
  BY DEF Reap, Dead
<1>2. \/ failed /\ Finish(m, j, "failed", on)
      \/ ~failed /\ lines[j] = 0 /\ Finish(m, j, "done", on)
      \/ ~failed /\ Finish(m, j, "failed", on)
      \/ ~failed /\ pc[m] # "signal" /\ Fork(m, j, pc[m])
  BY DEF Reap
<1>3. /\ dies => on = "die"
      /\ ~dies => on = IF pc[m] = "block" THEN "more" ELSE pc[m]
  OBVIOUS
<1>4. CASE Finish(m, j, "failed", on)
  <2>1. Closed(m, j, "failed", on)
    BY <1>1, <1>3 DEF Closed
  <2>. QED BY <1>1, <1>4, <2>1, Finishing
<1>5. CASE ~failed /\ lines[j] = 0 /\ Finish(m, j, "done", on)
  <2>1. Closed(m, j, "done", on)
    BY <1>1, <1>3, <1>5 DEF Closed
  <2>. QED BY <1>1, <1>5, <2>1, Finishing
<1>6. CASE ~failed /\ pc[m] # "signal" /\ Fork(m, j, pc[m])
  <2>1. Taken(m, j, pc[m]) /\ status' = status
    BY <1>1, <1>6 DEF Taken
  <2>. QED BY <1>1, <1>6, <2>1, Forking
<1>. QED BY <1>2, <1>4, <1>5, <1>6

\* start_waiting_job() keeps it, for a job that waited and for a new one.
LEMMA Starting ==
    ASSUME IInv, NEW m \in Makes, NEW j \in JobsOf(m), NEW p, NEW f, NEW w,
           start_waiting_job(m, j, p, f, w), status' = status,
           \/ /\ job[j] = "waiting" /\ cur' = cur /\ pc[m] \in {"goal", "kick"} /\ p = pc[m]
              /\ f = IF pc[m] = "goal" THEN "free_goal" ELSE "free_kick"
              /\ w = IF pc[m] = "goal" THEN "block" ELSE "check"
           \/ /\ job[j] = "todo" /\ j = cur[m] /\ cur' = [cur EXCEPT ![m] = NoJob]
              /\ pc[m] = "start" /\ p = "update" /\ f = "free_update" /\ w = "update"
    PROVE  IInv'
<1>1. CASE /\ children(m) # {} /\ job' = [job EXCEPT ![j] = "waiting"]
           /\ Goto(m, w) /\ UNCHANGED <<jobserver_tokens, lines>>
  BY <1>1, Waiting DEF Goto
<1>2. CASE Fork(m, j, p)
  <2>1. Taken(m, j, p)
    BY DEF Taken
  <2>. QED BY <1>2, <2>1, Forking
<1>3. CASE lines[j] = 0 /\ NotStarted(m, j, "done", f)
  <2>1. Dropped(m, j, "done", f)
    BY <1>3 DEF Dropped
  <2>. QED BY <1>3, <2>1, Dropping
<1>4. CASE NotStarted(m, j, "failed", f)
  <2>1. Dropped(m, j, "failed", f)
    BY DEF Dropped
  <2>. QED BY <1>4, <2>1, Dropping
<1>. QED BY <1>1, <1>2, <1>3, <1>4 DEF start_waiting_job

\* One make's step keeps it.
LEMMA MakeKeeps ==
    ASSUME IInv, NEW m \in Makes, MakeStep(m)
    PROVE  IInv'
<1>. USE DEF Goto
<1>1. ASSUME NEW j \in Jobs, Reap(m, j) PROVE IInv'
  BY <1>1, Reaping
<1>2. CASE start_waiting_jobs(m)
  <2>. DEFINE next == IF pc[m] = "goal" THEN "block" ELSE "check"
              freed == IF pc[m] = "goal" THEN "free_goal" ELSE "free_kick"
  <2>1. pc[m] \in {"goal", "kick"} /\ cur' = cur /\ status' = status
    BY <1>2 DEF start_waiting_jobs
  <2>2. CASE /\ waiting_jobs(m) = {} /\ pc' = [pc EXCEPT ![m] = next]
             /\ UNCHANGED <<jobserver_tokens, job, lines>>
    <3>1. next \in Places \ ({"off", "exit", "start", "die", "signal"} \cup Freeing)
      BY DEF Places
    <3>2. next # "sleep" /\ (next \in Calling => pc[m] \in Calling)
      BY <2>1 DEF Calling
    <3>. QED BY <2>1, <2>2, <3>1, <3>2, Going
  <2>3. ASSUME NEW j \in waiting_jobs(m), start_waiting_job(m, j, pc[m], freed, next) PROVE IInv'
    <3>1. j \in JobsOf(m) /\ job[j] = "waiting"
      BY <2>3 DEF waiting_jobs
    <3>. QED BY <2>1, <2>3, <3>1, Starting
  <2>. QED BY <1>2, <2>2, <2>3 DEF start_waiting_jobs
<1>3. CASE ReapNone(m)
  <2>1. /\ pc[m] \in {"more", "reap", "block"}
        /\ pc' = [pc EXCEPT ![m] = IF pc[m] = "reap" THEN "kick" ELSE "update"]
        /\ UNCHANGED <<job, lines, jobserver_tokens, cur, status>>
    BY <1>3 DEF ReapNone
  <2>. QED BY <2>1, Going DEF Places, Calling
<1>4. CASE update_file(m)
  <2>. USE DEF IInv
  <2>1. /\ pc[m] = "update" /\ UNCHANGED <<jobserver_tokens, job, lines>>
        /\ jobserver_tokens[m] \in Int /\ cur[m] \in Jobs \cup {NoJob} /\ status[m] = "0"
        /\ jobserver_tokens' = [jobserver_tokens EXCEPT ![m] = jobserver_tokens[m]]
        /\ jobserver_tokens[m] = Cardinality(Kids(m))
    BY <1>4, KidsAre DEF update_file, Shape, Counted, Verdicts
  <2>2. ASSUME NEW j \in Ready(m), cur' = [cur EXCEPT ![m] = j],
               pc' = [pc EXCEPT ![m] = "need"], status' = status
        PROVE  IInv'
    <3>1. j \in JobsOf(m) /\ j \in Jobs /\ job[j] = "todo"
      BY DEF Ready, JobsOf
    <3>2. Gets(m, jobserver_tokens[m], j, "0")
      BY <2>1, <2>2 DEF Shape, Gets
    <3>3. Fits(m, "need", jobserver_tokens[m], j, "0")
      BY <2>1, <3>1 DEF Fits, Places
    <3>. QED BY <2>1, <2>2, <3>2, <3>3, Moving
  <2>3. CASE pc' = [pc EXCEPT ![m] = "goal"] /\ UNCHANGED <<cur, status>>
    BY <2>1, <2>3, Going DEF Places, Calling
  <2>4. CASE /\ pc' = [pc EXCEPT ![m] = "die"] /\ cur' = cur
             /\ status' = [status EXCEPT ![m] =
                             IF \A j \in JobsOf(m) : job[j] = "done" THEN "0" ELSE "2"]
    <3>. DEFINE s == IF \A j \in JobsOf(m) : job[j] = "done" THEN "0" ELSE "2"
    <3>1. /\ s \in {"0", "2", "signal"} /\ s # "signal" /\ status' = [status EXCEPT ![m] = s]
          /\ s = "0" => \A j \in JobsOf(m) : job[j] = "done"
      BY <2>4
    <3>2. Gets(m, jobserver_tokens[m], cur[m], s)
      <4>. HIDE DEF s
      <4>. QED BY <2>1, <2>4, <3>1 DEF Gets, Shape
    <3>3. Fits(m, "die", jobserver_tokens[m], cur[m], s)
      <4>. HIDE DEF s
      <4>. QED BY <2>1, <3>1 DEF Fits, Places, Calling
    <3>. QED BY <2>1, <2>4, <3>2, <3>3, Moving
  <2>. QED BY <1>4, <2>2, <2>3, <2>4 DEF update_file
<1>5. CASE NeedToken(m)
  <2>1. /\ pc[m] = "need" /\ UNCHANGED <<job, lines, jobserver_tokens, cur, status>>
        /\ \E p \in {"got", "reap"} : pc' = [pc EXCEPT ![m] = p]
    BY <1>5 DEF NeedToken
  <2>. QED BY <2>1, Going DEF Places, Calling
<1>6. CASE CheckFree(m)
  <2>1. /\ pc[m] = "check" /\ UNCHANGED <<job, lines, jobserver_tokens, cur, status>>
        /\ pc' = [pc EXCEPT ![m] = IF jobserver_tokens[m] = 0 THEN "got" ELSE "sleep"]
    BY <1>6 DEF CheckFree
  <2>2. jobserver_tokens[m] # 0 => children(m) # {}
    <3>1. jobserver_tokens[m] = Cardinality(Kids(m))
      BY <2>1, KidsAre DEF IInv, Counted
    <3>2. jobserver_tokens[m] # 0 => Kids(m) # {}
      BY <3>1, KidsAre DEF IInv
    <3>. QED BY <2>1, <3>2 DEF IInv, Sleepers, Kids
  <2>. QED BY <2>1, <2>2, Going DEF Places, Calling
<1>7. CASE ReadToken(m)
  <2>1. /\ pc[m] = "sleep" /\ UNCHANGED <<job, lines, jobserver_tokens, cur, status>>
        /\ \E p \in {"got", "need"} : pc' = [pc EXCEPT ![m] = p]
    BY <1>7 DEF ReadToken
  <2>. QED BY <2>1, Going DEF Places, Calling
<1>8. CASE CountToken(m)
  <2>. USE DEF IInv
  <2>1. /\ pc[m] = "got" /\ pc' = [pc EXCEPT ![m] = "start"]
        /\ UNCHANGED <<job, lines, cur, status>>
        /\ jobserver_tokens' = [jobserver_tokens EXCEPT ![m] = jobserver_tokens[m] + 1]
    BY <1>8 DEF CountToken, Shape
  <2>2. /\ jobserver_tokens[m] = Cardinality(Kids(m)) /\ jobserver_tokens[m] + 1 \in Int
        /\ cur[m] \in Jobs \cup {NoJob} /\ status[m] = "0"
        /\ cur' = [cur EXCEPT ![m] = cur[m]] /\ status' = [status EXCEPT ![m] = "0"]
    BY <2>1, KidsAre DEF Shape, Counted, Verdicts
  <2>3. cur[m] \in JobsOf(m) /\ job[cur[m]] = "todo"
    BY <2>1 DEF Cursor
  <2>4. Fits(m, "start", jobserver_tokens[m] + 1, cur[m], "0")
    BY <2>2, <2>3, KidsAre DEF Fits, Places
  <2>5. Gets(m, jobserver_tokens[m] + 1, cur[m], "0")
    BY <2>1, <2>2 DEF Gets
  <2>. QED BY <2>1, <2>4, <2>5, Moving
<1>9. CASE StartJob(m)
  <2>1. /\ pc[m] = "start" /\ start_waiting_job(m, cur[m], "update", "free_update", "update")
        /\ cur' = [cur EXCEPT ![m] = NoJob] /\ status' = status
    BY <1>9 DEF StartJob
  <2>2. cur[m] \in JobsOf(m) /\ job[cur[m]] = "todo"
    BY <2>1 DEF IInv, Cursor
  <2>. QED BY <2>1, <2>2, Starting
<1>10. CASE die(m)
  <2>. USE DEF IInv
  <2>1. /\ pc[m] = "die" /\ pc' = [pc EXCEPT ![m] = "exit"] /\ UNCHANGED <<job, lines, cur, status>>
        /\ clean_jobserver(m)
    BY <1>10 DEF die
  <2>2. /\ jobserver_tokens[m] = Cardinality(Kids(m)) /\ jobserver_tokens[m] \in Nat
        /\ cur[m] \in Jobs \cup {NoJob} /\ status[m] \in {"0", "2"}
        /\ status[m] = "0" => \A j \in JobsOf(m) : job[j] = "done"
    BY <2>1, KidsAre DEF Shape, Counted, Verdicts
  <2>3. status[m] = "0" => jobserver_tokens[m] = 0
    <3>1. status[m] = "0" => Kids(m) = {}
      BY <2>2, KidsAre DEF Active
    <3>. QED BY <2>2, <3>1, KidsAre
  <2>4. Gets(m, 0, cur[m], status[m])
    <3>1. jobserver_tokens' = [jobserver_tokens EXCEPT ![m] = 0]
      BY <2>1, <2>2, <2>3 DEF clean_jobserver, Shape
    <3>2. cur' = [cur EXCEPT ![m] = cur[m]] /\ status' = [status EXCEPT ![m] = status[m]]
      BY <2>1 DEF Shape
    <3>. QED BY <2>1, <3>1, <3>2 DEF Gets
  <2>5. Fits(m, "exit", 0, cur[m], status[m])
    BY <2>2 DEF Fits, Places, Calling
  <2>. QED BY <2>1, <2>4, <2>5, Moving
<1>11. CASE KillSelf(m)
  <2>. USE DEF IInv
  <2>1. /\ pc[m] = "signal" /\ pc' = [pc EXCEPT ![m] = "exit"]
        /\ UNCHANGED <<job, lines, jobserver_tokens, cur, status>>
    BY <1>11 DEF KillSelf
  <2>2. Gets(m, jobserver_tokens[m], cur[m], status[m])
    BY <2>1 DEF Shape, Gets
  <2>3. Fits(m, "exit", jobserver_tokens[m], cur[m], status[m])
    BY <2>1 DEF Fits, Places, Calling, Shape, Verdicts
  <2>. QED BY <2>1, <2>2, <2>3, Moving
<1>12. CASE FreeDone(m)
  <2>. USE DEF IInv
  <2>. DEFINE p == CASE pc[m] = "free_goal" -> "goal" [] pc[m] = "free_kick" -> "kick"
                     [] OTHER -> "update"
  <2>1. /\ pc[m] \in Freeing /\ pc' = [pc EXCEPT ![m] = p] /\ UNCHANGED <<job, lines, cur, status>>
        /\ jobserver_tokens' = [jobserver_tokens EXCEPT ![m] = jobserver_tokens[m] - 1]
    BY <1>12 DEF FreeDone, CountDown, Shape
  <2>2. p \in {"goal", "kick", "update"} /\ (p = "kick" => pc[m] = "free_kick")
    BY <2>1
  <2>3. /\ jobserver_tokens[m] - 1 = Cardinality(Kids(m)) /\ jobserver_tokens[m] - 1 \in Int
        /\ cur[m] \in Jobs \cup {NoJob} /\ status[m] = "0"
        /\ cur' = [cur EXCEPT ![m] = cur[m]] /\ status' = [status EXCEPT ![m] = "0"]
    BY <2>1, KidsAre DEF Shape, Counted, Verdicts
  <2>. HIDE DEF p
  <2>4. p \in Calling => cur[m] \in JobsOf(m) /\ job[cur[m]] = "todo"
    BY <2>2 DEF Cursor, Calling
  <2>5. Fits(m, p, jobserver_tokens[m] - 1, cur[m], "0")
    BY <2>2, <2>3, <2>4 DEF Fits, Places
  <2>6. Gets(m, jobserver_tokens[m] - 1, cur[m], "0")
    BY <2>1, <2>3 DEF Gets
  <2>. QED BY <2>1, <2>5, <2>6, Moving
<1>. QED BY <1>1, <1>2, <1>3, <1>4, <1>5, <1>6, <1>7, <1>8, <1>9, <1>10, <1>11, <1>12 DEF MakeStep

LEMMA NextKeeps == IInv /\ [Next]_vars => IInv'
<1>. SUFFICES ASSUME IInv, [Next]_vars PROVE IInv'
  OBVIOUS
<1>1. ASSUME NEW m \in Makes, MakeStep(m) PROVE IInv'
  BY <1>1, MakeKeeps
<1>2. ASSUME NEW m \in Makes, child_handler(m) PROVE IInv'
  BY <1>2, Outside DEF child_handler
<1>3. ASSUME NEW m \in Makes, fatal_error_signal(m) PROVE IInv'
  <2>. USE DEF IInv
  <2>1. /\ pc[m] \notin {"off", "signal", "exit"} /\ pc' = [pc EXCEPT ![m] = "signal"]
        /\ status' = [status EXCEPT ![m] = "signal"]
        /\ UNCHANGED <<job, lines, jobserver_tokens, cur>>
    BY <1>3 DEF fatal_error_signal, Goto
  <2>2. Gets(m, jobserver_tokens[m], cur[m], "signal")
    BY <2>1 DEF Shape, Gets
  <2>3. Fits(m, "signal", jobserver_tokens[m], cur[m], "signal")
    BY DEF Fits, Places, Calling, Shape
  <2>. QED BY <2>1, <2>2, <2>3, Moving
<1>4. ASSUME NEW m \in Makes, Kill(m) PROVE IInv'
  BY <1>4, Outside DEF Kill
<1>5. ASSUME NEW j \in Jobs, Exits(j) PROVE IInv'
  <2>1. /\ job[j] = "running" /\ UNCHANGED <<pc, cur, jobserver_tokens, status, lines>>
    BY <1>5 DEF Exits
  <2>2. \E v \in {"good", "bad"} : /\ job' = [job EXCEPT ![j] = v]
                                   /\ v = "good" /\ Runs[j] # NoMake =>
                                         pc[Runs[j]] = "exit" /\ status[Runs[j]] = "0"
    BY <1>5 DEF Exits
  <2>. QED BY <2>1, <2>2, Outside
<1>6. CASE UNCHANGED vars
  BY <1>6, Outside DEF vars
<1>. QED BY <1>1, <1>2, <1>3, <1>4, <1>5, <1>6 DEF Next, Finished

LEMMA InitHolds == Init => IInv
<1>. SUFFICES ASSUME Init PROVE IInv
  OBVIOUS
<1>. USE DEF Init
<1>1. Shape
  BY JobserverAssumption DEF Shape, Places, States
<1>2. \A m \in Makes : Kids(m) = {} /\ children(m) = {} /\ waiting_jobs(m) = {}
  BY DEF Kids, children, waiting_jobs, JobsOf
<1>3. Counted
  <2>1. \A m \in Makes : Cardinality(Kids(m)) = 0
    BY <1>1, <1>2, KidsAre
  <2>. QED BY <2>1 DEF Counted
<1>4. Sleepers /\ Spent /\ Cursor /\ Verdicts /\ Asleep
  BY <1>2 DEF Sleepers, Spent, Cursor, Verdicts, Asleep
<1>5. Submakes
  <2>1. ASSUME NEW j \in Jobs, Runs[j] # NoMake
        PROVE  lines[j] = 1 /\ pc[Runs[j]] = "off" /\ job[j] = "todo"
    BY <2>1, JobserverAssumption, SubmakesOnce
  <2>. QED BY <2>1 DEF Submakes
<1>. QED BY <1>1, <1>3, <1>4, <1>5 DEF IInv

LEMMA Invariance == Spec => []IInv
BY InitHolds, NextKeeps, PTL DEF Spec

\* new_job(), free_child() and the sanity check of a make that ends never find an
\* internal error: a make sleeps on the pipe only while it has a child, it has a
\* token for every child structure, and none when it ends by itself.
THEOREM NeverInternal == Spec => []NoInternalError
<1>1. IInv => NoInternalError
  BY DEF IInv, NoInternalError, Sleepers, Counted, Spent, Kids
<1>. QED BY <1>1, Invariance, PTL

\* The status 0 of a make means that its targets are made, and those of the
\* submakes whose failure is not ignored.
THEOREM SuccessIsReal == Spec => []SuccessMeansBuilt
<1>1. IInv => SuccessMeansBuilt
  BY DEF IInv, SuccessMeansBuilt, Verdicts, Submakes, JobsOf
<1>. QED BY <1>1, Invariance, PTL

-----------------------------------------------------------------------------
(* The tokens of all makes together.                                        *)

\* The types of what the invariant says nothing of.
Others ==
    /\ keep_going_flag \in BOOLEAN /\ pipe \in Nat
    /\ job_rfd \in [Makes -> BOOLEAN]
    /\ sigchld \in [Makes -> BOOLEAN] /\ sigterm \in [Makes -> BOOLEAN]

\* A make that was killed has a token for every child it still waits for.
Covered ==
    \A m \in Makes :
        /\ jobserver_tokens[m] >= 0
        /\ pc[m] = "signal" => jobserver_tokens[m] >= Cardinality(Kids(m))

\* A submake that runs is a command its parent waits for.
Parents ==
    \A m \in Makes \ {Top} : pc[m] \notin {"off", "exit"} =>
        \E j \in Jobs : Runs[j] = m /\ job[j] = "running"

\* A make has no child before it is started and after it has ended.
Quiet == \A m \in Makes : pc[m] \in {"off", "exit"} => children(m) = {}

\* What every make holds, and that no token is lost or made up, but for those that
\* are killed.
Holdings == [m \in Makes |-> Held(m)]
Kept ==
    /\ pipe + Sum(Holdings, Makes) <= Slots - 1 + Cardinality(Killed)
    /\ Killed = {} => pipe + Sum(Holdings, Makes) = Slots - 1

JInv == IInv /\ Others /\ Covered /\ Parents /\ Quiet /\ Kept

\* Make m goes on; the others do not, except for one it starts.
Acts(m) ==
    /\ pc[m] \notin {"off", "exit"} /\ pc'[m] # "off"
    /\ \A k \in Makes \ {m} :
          /\ jobserver_tokens'[k] = jobserver_tokens[k] /\ status'[k] = status[k]
          /\ \/ pc'[k] = pc[k]
             \/ /\ pc[k] = "off" /\ pc'[k] = "goal"
                /\ \E j \in Jobs : Runs[j] = k /\ job'[j] = "running"
    /\ \A j \in Jobs : job'[j] = job[j] \/ (Of[j] = m /\ job[j] # "running")
    /\ pc'[m] = "exit" => children(m) = {} /\ job' = job
    /\ status[m] = "signal" => status'[m] = "signal"

\* What that does to the tokens: nothing; the make's own token is free, or one is
\* read; it is counted; a child structure is freed, in one step or in two; the make
\* ends, or is killed, or ends after that.
Pays(m) ==
    LET t == jobserver_tokens[m] IN
    \/ /\ pipe' = pipe /\ jobserver_tokens'[m] = t
       /\ pc[m] \notin {"got"} \cup Freeing /\ pc'[m] \notin {"got", "signal", "exit"} \cup Freeing
    \/ pipe' = pipe /\ jobserver_tokens'[m] = t /\ t = 0 /\ pc[m] # "got" /\ pc'[m] = "got"
    \/ pipe > 0 /\ pipe' = pipe - 1 /\ jobserver_tokens'[m] = t /\ pc[m] = "sleep" /\ pc'[m] = "got"
    \/ pipe' = pipe /\ jobserver_tokens'[m] = t + 1 /\ pc[m] = "got" /\ pc'[m] = "start"
    \/ /\ t >= 1 /\ pipe' = (IF t > 1 THEN pipe + 1 ELSE pipe) /\ jobserver_tokens'[m] = t - 1
       /\ pc[m] \notin {"got"} \cup Freeing /\ pc'[m] \notin {"got", "exit"} \cup Freeing
       /\ pc'[m] = "signal" => t - 1 >= Cardinality(Kids(m))'
    \/ /\ t >= 1 /\ pipe' = (IF t > 1 THEN pipe + 1 ELSE pipe) /\ jobserver_tokens'[m] = t
       /\ pc[m] \notin {"got"} \cup Freeing /\ pc'[m] \in Freeing
    \/ /\ t >= 1 /\ pipe' = pipe /\ jobserver_tokens'[m] = t - 1
       /\ pc[m] \in Freeing /\ pc'[m] \notin {"got", "signal", "exit"} \cup Freeing
    \/ /\ pc[m] = "die" /\ pc'[m] = "exit" /\ jobserver_tokens'[m] = 0
       /\ pipe' = (IF t > 0 THEN pipe + t - 1 ELSE pipe)
    \/ /\ pipe' = pipe /\ jobserver_tokens'[m] = t /\ job' = job
       /\ status[m] # "signal" /\ status'[m] = "signal" /\ pc'[m] = "signal"
    \/ /\ pipe' = pipe /\ jobserver_tokens'[m] = t /\ job' = job
       /\ status'[m] = "signal" /\ pc[m] = "signal" /\ pc'[m] = "exit"

\* A step of one make is one of these.
LEMMA FinishPays ==
    ASSUME JInv, NEW m \in Makes, NEW j \in JobsOf(m), NEW result, NEW p,
           Closed(m, j, result, p), Finish(m, j, result, p)
    PROVE  Acts(m) /\ Pays(m)
<1>. USE DEF JInv, IInv
<1>1. /\ j \in Jobs /\ Of[j] = m /\ result \in {"done", "failed"}
      /\ job' = [job EXCEPT ![j] = result]
      /\ pc' = [pc EXCEPT ![m] = p]
      /\ jobserver_tokens' = [jobserver_tokens EXCEPT ![m] = @ - 1]
      /\ pipe' = IF jobserver_tokens[m] > 1 THEN pipe + 1 ELSE pipe
  BY DEF JobsOf, Closed, Finish, free_child, WriteToken, CountDown, Goto
<1>2. /\ pc'[m] = p /\ jobserver_tokens'[m] = jobserver_tokens[m] - 1
      /\ \A k \in Makes \ {m} : /\ pc'[k] = pc[k] /\ status'[k] = status[k]
                                /\ jobserver_tokens'[k] = jobserver_tokens[k]
      /\ \A i \in Jobs : i # j => job'[i] = job[i]
  BY <1>1 DEF Shape, Closed
<1>3. /\ pc[m] \notin {"off", "exit", "got"} /\ p \notin {"off", "exit", "got"} /\ job[j] # "running"
      /\ pc[m] \in {"goal", "block", "more", "reap", "kick", "die", "signal"}
      /\ p = "signal" => pc[m] = "signal"
      /\ pc[m] \notin Freeing /\ p \notin Freeing
  BY DEF Closed
<1>4. status[m] = "signal" => status'[m] = "signal"
  BY <1>3 DEF Closed, Verdicts, Shape
<1>5. Acts(m)
  BY <1>1, <1>2, <1>3, <1>4 DEF Acts
<1>6. jobserver_tokens[m] \in Int /\ jobserver_tokens[m] >= 1
      /\ (p = "signal" => jobserver_tokens[m] - 1 >= Cardinality(Kids(m))')
  <2>1. result \in States /\ result \notin Active
    BY <1>1 DEF States, Active
  <2>2. job[j] \in Active
    BY DEF Closed, Active
  <2>3. Cardinality(Kids(m))' = Cardinality(Kids(m)) - 1
    BY <1>1, <2>1, <2>2, OneJob
  <2>4. Cardinality(Kids(m)) >= 1
    <3>1. Kids(m) # {}
      BY <2>2, KidsAre
    <3>. QED BY <3>1, KidsAre
  <2>5. jobserver_tokens[m] >= Cardinality(Kids(m)) /\ jobserver_tokens[m] \in Int
    BY <1>3, KidsAre DEF Counted, Covered, Shape
  <2>. QED BY <2>3, <2>4, <2>5, KidsAre
<1>7. Pays(m)
  BY <1>1, <1>2, <1>3, <1>6 DEF Pays
<1>. QED BY <1>5, <1>7

LEMMA DropPays ==
    ASSUME JInv, NEW m \in Makes, NEW j \in JobsOf(m), NEW result, NEW p,
           Dropped(m, j, result, p), NotStarted(m, j, result, p)
    PROVE  Acts(m) /\ Pays(m)
<1>. USE DEF JInv, IInv
<1>1. /\ j \in Jobs /\ Of[j] = m /\ result \in {"done", "failed"}
      /\ job' = [job EXCEPT ![j] = result]
      /\ pc' = [pc EXCEPT ![m] = p] /\ status' = status /\ jobserver_tokens' = jobserver_tokens
      /\ pipe' = IF jobserver_tokens[m] > 1 THEN pipe + 1 ELSE pipe
  BY DEF JobsOf, Dropped, NotStarted, WriteToken, Goto
<1>2. /\ pc'[m] = p /\ \A k \in Makes \ {m} : pc'[k] = pc[k]
      /\ \A i \in Jobs : i # j => job'[i] = job[i]
  BY <1>1 DEF Shape
<1>3. pc[m] \in {"goal", "kick", "start"} /\ p \in Freeing /\ job[j] \in {"waiting", "todo"}
      /\ (job[j] = "waiting" \/ pc[m] = "start")
  BY DEF Dropped
<1>4. Acts(m)
  BY <1>1, <1>2, <1>3 DEF Acts
<1>5. jobserver_tokens[m] \in Int /\ jobserver_tokens[m] >= 1
  <2>1. job[j] = "waiting" => Kids(m) # {}
    BY KidsAre DEF Active
  <2>. QED BY <1>3, <2>1, KidsAre DEF Counted, Shape
<1>6. Pays(m)
  BY <1>1, <1>2, <1>3, <1>5 DEF Pays
<1>. QED BY <1>4, <1>6

LEMMA ForkPays ==
    ASSUME JInv, NEW m \in Makes, NEW j \in JobsOf(m), NEW p, Taken(m, j, p),
           Fork(m, j, p), status' = status
    PROVE  Acts(m) /\ Pays(m)
<1>. USE DEF JInv, IInv
<1>1. /\ j \in Jobs /\ Of[j] = m /\ lines[j] > 0
      /\ job' = [job EXCEPT ![j] = "running"]
      /\ pc' = [k \in Makes |-> CASE k = m -> p [] k = Runs[j] -> "goal" [] OTHER -> pc[k]]
      /\ jobserver_tokens' = jobserver_tokens /\ pipe' = pipe
  BY DEF JobsOf, Fork
<1>2. job'[j] = "running" /\ \A i \in Jobs : i # j => job'[i] = job[i]
  BY <1>1 DEF Shape
<1>3. /\ pc[m] \notin {"off", "exit", "got"} \cup Freeing
      /\ p \notin {"off", "exit", "got", "signal"} \cup Freeing
      /\ job[j] # "running"
  BY DEF Taken
<1>4. Runs[j] # NoMake => Runs[j] \in Makes /\ pc[Runs[j]] = "off" /\ Runs[j] # m
  BY <1>1, <1>3, JobserverAssumption DEF Submakes
<1>5. /\ pc'[m] = p
      /\ \A k \in Makes \ {m} : pc'[k] = pc[k] \/ (k = Runs[j] /\ pc[k] = "off" /\ pc'[k] = "goal")
  BY <1>1, <1>4, JobserverAssumption DEF Shape, Places
<1>6. Acts(m)
  BY <1>1, <1>2, <1>3, <1>5 DEF Acts
<1>7. Pays(m)
  BY <1>1, <1>3, <1>5 DEF Pays
<1>. QED BY <1>6, <1>7

\* A step that only moves the make, with the tokens as they are.
LEMMA GoPays ==
    ASSUME JInv, NEW m \in Makes, pc[m] \notin {"off", "exit", "got"} \cup Freeing,
           NEW p, p \notin {"off", "exit", "got", "signal"} \cup Freeing, pc' = [pc EXCEPT ![m] = p],
           UNCHANGED <<pipe, jobserver_tokens>>,
           \A k \in Makes : k # m => status'[k] = status[k],
           status[m] = "signal" => status'[m] = "signal",
           \A j \in Jobs : job'[j] = job[j] \/ (Of[j] = m /\ job[j] # "running")
    PROVE  Acts(m) /\ Pays(m)
<1>1. pc'[m] = p /\ \A k \in Makes \ {m} : pc'[k] = pc[k]
  BY DEF JInv, IInv, Shape
<1>. QED BY <1>1 DEF Acts, Pays

\* start_waiting_job() is one of them, for a job that waited and for a new one.
LEMMA StartPays ==
    ASSUME JInv, NEW m \in Makes, NEW j \in JobsOf(m), NEW p, NEW f, NEW w,
           start_waiting_job(m, j, p, f, w), status' = status,
           \/ /\ job[j] = "waiting" /\ cur' = cur /\ pc[m] \in {"goal", "kick"} /\ p = pc[m]
              /\ f = IF pc[m] = "goal" THEN "free_goal" ELSE "free_kick"
              /\ w = IF pc[m] = "goal" THEN "block" ELSE "check"
           \/ /\ job[j] = "todo" /\ j = cur[m] /\ cur' = [cur EXCEPT ![m] = NoJob]
              /\ pc[m] = "start" /\ p = "update" /\ f = "free_update" /\ w = "update"
    PROVE  Acts(m) /\ Pays(m)
<1>1. CASE /\ job' = [job EXCEPT ![j] = "waiting"]
           /\ Goto(m, w) /\ UNCHANGED <<pipe, jobserver_tokens, lines>>
  <2>1. j \in Jobs /\ Of[j] = m /\ job[j] # "running"
    BY DEF JobsOf
  <2>2. \A i \in Jobs : job'[i] = job[i] \/ (Of[i] = m /\ job[i] # "running")
    BY <1>1, <2>1 DEF JInv, IInv, Shape
  <2>. QED BY <1>1, <2>2, GoPays DEF Goto
<1>2. CASE Fork(m, j, p)
  <2>1. Taken(m, j, p)
    BY DEF Taken
  <2>. QED BY <1>2, <2>1, ForkPays
<1>3. CASE lines[j] = 0 /\ NotStarted(m, j, "done", f)
  <2>1. Dropped(m, j, "done", f)
    BY <1>3 DEF Dropped
  <2>. QED BY <1>3, <2>1, DropPays
<1>4. CASE NotStarted(m, j, "failed", f)
  <2>1. Dropped(m, j, "failed", f)
    BY DEF Dropped
  <2>. QED BY <1>4, <2>1, DropPays
<1>. QED BY <1>1, <1>2, <1>3, <1>4 DEF start_waiting_job

LEMMA MakePays ==
    ASSUME JInv, NEW m \in Makes, MakeStep(m) \/ fatal_error_signal(m)
    PROVE  Acts(m) /\ Pays(m)
<1>. USE DEF Goto
<1>. /\ \A k \in Makes : jobserver_tokens[k] \in Int /\ status[k] \in {"0", "2", "signal"}
     /\ pipe \in Nat
  BY DEF JInv, IInv, Shape, Others
<1>1. ASSUME NEW j \in Jobs, Reap(m, j) PROVE Acts(m) /\ Pays(m)
  <2>. DEFINE failed == job[j] = "bad" /\ j \notin NoError
              dies == failed /\ ~keep_going_flag /\ pc[m] \notin {"die", "signal"}
              on == IF dies THEN "die" ELSE IF pc[m] = "block" THEN "more" ELSE pc[m]
  <2>1. /\ j \in JobsOf(m) /\ job[j] \in {"good", "bad"} /\ cur' = cur
        /\ pc[m] \in {"goal", "block", "more", "reap", "kick", "die", "signal"}
        /\ status' = IF dies THEN [status EXCEPT ![m] = "2"] ELSE status
    BY <1>1 DEF Reap, Dead
  <2>2. \/ failed /\ Finish(m, j, "failed", on)
        \/ ~failed /\ lines[j] = 0 /\ Finish(m, j, "done", on)
        \/ ~failed /\ Finish(m, j, "failed", on)
        \/ ~failed /\ pc[m] # "signal" /\ Fork(m, j, pc[m])
    BY <1>1 DEF Reap
  <2>3. /\ dies => on = "die"
        /\ ~dies => on = IF pc[m] = "block" THEN "more" ELSE pc[m]
    OBVIOUS
  <2>4. CASE Finish(m, j, "failed", on)
    <3>1. Closed(m, j, "failed", on)
      BY <2>1, <2>3 DEF Closed
    <3>. QED BY <2>1, <2>4, <3>1, FinishPays
  <2>5. CASE ~failed /\ lines[j] = 0 /\ Finish(m, j, "done", on)
    <3>1. Closed(m, j, "done", on)
      BY <2>1, <2>3, <2>5 DEF Closed
    <3>. QED BY <2>1, <2>5, <3>1, FinishPays
  <2>6. CASE ~failed /\ pc[m] # "signal" /\ Fork(m, j, pc[m])
    <3>1. Taken(m, j, pc[m]) /\ status' = status
      BY <2>1, <2>6 DEF Taken
    <3>. QED BY <2>1, <2>6, <3>1, ForkPays
  <2>. QED BY <2>2, <2>4, <2>5, <2>6
<1>2. CASE start_waiting_jobs(m)
  <2>. DEFINE next == IF pc[m] = "goal" THEN "block" ELSE "check"
              freed == IF pc[m] = "goal" THEN "free_goal" ELSE "free_kick"
  <2>1. pc[m] \in {"goal", "kick"} /\ cur' = cur /\ status' = status
    BY <1>2 DEF start_waiting_jobs
  <2>2. CASE /\ pc' = [pc EXCEPT ![m] = next]
             /\ UNCHANGED <<pipe, jobserver_tokens, job, lines>>
    BY <2>1, <2>2, GoPays
  <2>3. ASSUME NEW j \in waiting_jobs(m), start_waiting_job(m, j, pc[m], freed, next)
        PROVE  Acts(m) /\ Pays(m)
    <3>1. j \in JobsOf(m) /\ job[j] = "waiting"
      BY <2>3 DEF waiting_jobs
    <3>. QED BY <2>1, <2>3, <3>1, StartPays
  <2>. QED BY <1>2, <2>2, <2>3 DEF start_waiting_jobs
<1>3. CASE ReapNone(m)
  <2>1. /\ pc[m] \in {"more", "reap", "block"} /\ UNCHANGED <<pipe, job, jobserver_tokens, status>>
        /\ pc' = [pc EXCEPT ![m] = IF pc[m] = "reap" THEN "kick" ELSE "update"]
    BY <1>3 DEF ReapNone
  <2>. QED BY <2>1, GoPays
<1>4. CASE update_file(m)
  <2>1. /\ pc[m] = "update" /\ UNCHANGED <<pipe, jobserver_tokens, job>>
        /\ \E p \in {"need", "goal", "die"} : pc' = [pc EXCEPT ![m] = p]
        /\ \A k \in Makes : k # m => status'[k] = status[k]
    BY <1>4 DEF update_file, JInv, IInv, Shape
  <2>2. status[m] = "0"
    BY <2>1 DEF JInv, IInv, Verdicts
  <2>. QED BY <2>1, <2>2, GoPays
<1>5. CASE NeedToken(m) \/ CheckFree(m)
  <2>1. /\ pc[m] \in {"need", "check"} /\ UNCHANGED <<pipe, job, jobserver_tokens, status>>
        /\ \/ jobserver_tokens[m] = 0 /\ pc' = [pc EXCEPT ![m] = "got"]
           \/ \E p \in {"reap", "sleep"} : pc' = [pc EXCEPT ![m] = p]
    BY <1>5 DEF NeedToken, CheckFree
  <2>2. CASE jobserver_tokens[m] = 0 /\ pc' = [pc EXCEPT ![m] = "got"]
    <3>1. pc'[m] = "got" /\ \A k \in Makes \ {m} : pc'[k] = pc[k]
      BY <2>2 DEF JInv, IInv, Shape
    <3>. QED BY <2>1, <2>2, <3>1 DEF Acts, Pays
  <2>. QED BY <2>1, <2>2, GoPays
<1>6. CASE ReadToken(m)
  <2>1. /\ pc[m] = "sleep" /\ UNCHANGED <<job, jobserver_tokens, status>>
        /\ \/ pipe > 0 /\ pipe' = pipe - 1 /\ pc' = [pc EXCEPT ![m] = "got"]
           \/ pipe' = pipe /\ pc' = [pc EXCEPT ![m] = "need"]
    BY <1>6 DEF ReadToken
  <2>2. CASE pipe > 0 /\ pipe' = pipe - 1 /\ pc' = [pc EXCEPT ![m] = "got"]
    <3>1. pc'[m] = "got" /\ \A k \in Makes \ {m} : pc'[k] = pc[k]
      BY <2>2 DEF JInv, IInv, Shape
    <3>. QED BY <2>1, <2>2, <3>1 DEF Acts, Pays
  <2>. QED BY <2>1, <2>2, GoPays
<1>7. CASE CountToken(m)
  <2>1. /\ pc[m] = "got" /\ UNCHANGED <<pipe, job, status>> /\ pc' = [pc EXCEPT ![m] = "start"]
        /\ jobserver_tokens' = [jobserver_tokens EXCEPT ![m] = @ + 1]
    BY <1>7 DEF CountToken
  <2>2. /\ pc'[m] = "start" /\ jobserver_tokens'[m] = jobserver_tokens[m] + 1
        /\ \A k \in Makes \ {m} : pc'[k] = pc[k] /\ jobserver_tokens'[k] = jobserver_tokens[k]
    BY <2>1 DEF JInv, IInv, Shape
  <2>. QED BY <2>1, <2>2 DEF Acts, Pays
<1>8. CASE StartJob(m)
  <2>1. /\ pc[m] = "start" /\ start_waiting_job(m, cur[m], "update", "free_update", "update")
        /\ cur' = [cur EXCEPT ![m] = NoJob] /\ status' = status
    BY <1>8 DEF StartJob
  <2>2. cur[m] \in JobsOf(m) /\ job[cur[m]] = "todo"
    BY <2>1 DEF JInv, IInv, Cursor
  <2>. QED BY <2>1, <2>2, StartPays
<1>9. CASE die(m)
  <2>. USE DEF JInv, IInv
  <2>1. /\ pc[m] = "die" /\ pc' = [pc EXCEPT ![m] = "exit"] /\ UNCHANGED <<job, status>>
        /\ clean_jobserver(m) /\ children(m) = {}
    BY <1>9 DEF die
  <2>2. /\ jobserver_tokens[m] = Cardinality(Kids(m)) /\ jobserver_tokens[m] \in Nat
        /\ status[m] \in {"0", "2"}
        /\ status[m] = "0" => \A j \in JobsOf(m) : job[j] = "done"
    BY <2>1, KidsAre DEF Shape, Counted, Verdicts
  <2>3. status[m] = "0" => jobserver_tokens[m] = 0
    <3>1. status[m] = "0" => Kids(m) = {}
      BY <2>2, KidsAre DEF Active
    <3>. QED BY <2>2, <3>1, KidsAre
  <2>4. /\ jobserver_tokens'[m] = 0
        /\ pipe' = IF jobserver_tokens[m] > 0 THEN pipe + jobserver_tokens[m] - 1 ELSE pipe
        /\ \A k \in Makes \ {m} : jobserver_tokens'[k] = jobserver_tokens[k]
    BY <2>1, <2>2, <2>3 DEF clean_jobserver, Shape
  <2>5. pc'[m] = "exit" /\ \A k \in Makes \ {m} : pc'[k] = pc[k]
    BY <2>1 DEF Shape
  <2>. QED BY <2>1, <2>4, <2>5 DEF Acts, Pays
<1>10. CASE KillSelf(m)
  <2>1. /\ pc[m] = "signal" /\ pc' = [pc EXCEPT ![m] = "exit"] /\ children(m) = {}
        /\ UNCHANGED <<pipe, job, jobserver_tokens, status>>
    BY <1>10 DEF KillSelf
  <2>2. status[m] = "signal" /\ pc'[m] = "exit" /\ \A k \in Makes \ {m} : pc'[k] = pc[k]
    BY <2>1 DEF JInv, IInv, Verdicts, Shape
  <2>. QED BY <2>1, <2>2 DEF Acts, Pays
<1>11. CASE fatal_error_signal(m)
  <2>1. /\ pc[m] \notin {"off", "signal", "exit"} /\ pc' = [pc EXCEPT ![m] = "signal"]
        /\ status' = [status EXCEPT ![m] = "signal"]
        /\ UNCHANGED <<pipe, job, jobserver_tokens>>
    BY <1>11 DEF fatal_error_signal
  <2>2. /\ status[m] # "signal" /\ status'[m] = "signal" /\ pc'[m] = "signal"
        /\ \A k \in Makes \ {m} : pc'[k] = pc[k] /\ status'[k] = status[k]
    BY <2>1 DEF JInv, IInv, Shape, Verdicts
  <2>. QED BY <2>1, <2>2 DEF Acts, Pays
<1>12. CASE FreeDone(m)
  <2>1. /\ pc[m] \in Freeing /\ UNCHANGED <<pipe, job, status>>
        /\ \E p \in {"goal", "kick", "update"} : pc' = [pc EXCEPT ![m] = p]
        /\ jobserver_tokens' = [jobserver_tokens EXCEPT ![m] = @ - 1]
    BY <1>12 DEF FreeDone, CountDown
  <2>2. /\ pc'[m] \in {"goal", "kick", "update"} /\ jobserver_tokens'[m] = jobserver_tokens[m] - 1
        /\ \A k \in Makes \ {m} : pc'[k] = pc[k] /\ jobserver_tokens'[k] = jobserver_tokens[k]
    BY <2>1 DEF JInv, IInv, Shape
  <2>3. jobserver_tokens[m] >= 1
    BY <2>1, KidsAre DEF JInv, IInv, Counted
  <2>. QED BY <2>1, <2>2, <2>3 DEF Acts, Pays
<1>. QED BY <1>1, <1>2, <1>3, <1>4, <1>5, <1>6, <1>7, <1>8, <1>9, <1>10, <1>11, <1>12 DEF MakeStep

\* A make that goes on is still a command its parent waits for, and leaves no
\* child behind.
LEMMA FamilyKept ==
    ASSUME JInv, IInv', NEW m \in Makes, Acts(m)
    PROVE  Parents' /\ Quiet'
<1>. USE DEF JInv, IInv
<1>1. ASSUME NEW k \in Makes \ {Top}, pc'[k] \notin {"off", "exit"}
      PROVE  \E j \in Jobs : Runs[j] = k /\ job'[j] = "running"
  <2>1. CASE pc[k] \notin {"off", "exit"}
    <3>1. PICK j \in Jobs : Runs[j] = k /\ job[j] = "running"
      BY <2>1 DEF Parents
    <3>2. job'[j] = "running"
      BY <3>1 DEF Acts
    <3>. QED BY <3>1, <3>2
  <2>2. CASE pc[k] \in {"off", "exit"}
    <3>1. k # m /\ pc'[k] # pc[k]
      BY <1>1, <2>2 DEF Acts
    <3>. QED BY <3>1 DEF Acts
  <2>. QED BY <2>1, <2>2
<1>2. ASSUME NEW k \in Makes, pc'[k] \in {"off", "exit"}
      PROVE  children(k)' = {}
  <2>1. CASE k = m
    <3>1. children(m) = {} /\ job' = job
      BY <1>2, <2>1 DEF Acts
    <3>. QED BY <2>1, <3>1 DEF children, JobsOf
  <2>2. CASE k # m
    <3>1. pc'[k] = pc[k]
      BY <1>2, <2>2 DEF Acts
    <3>2. children(k) = {}
      BY <1>2, <3>1 DEF Quiet
    <3>3. \A j \in JobsOf(k) : j \in Jobs /\ job'[j] = job[j]
      BY <2>2 DEF Acts, JobsOf
    <3>. QED BY <3>2, <3>3 DEF children, JobsOf
  <2>. QED BY <2>1, <2>2
<1>. QED BY <1>1, <1>2 DEF Parents, Quiet

\* A make that was killed stays so, and a step kills at most the one that takes it.
LEMMA KilledGrow ==
    ASSUME NEW m \in Makes, Acts(m)
    PROVE  /\ Cardinality(Killed) \in Nat /\ Cardinality(Killed') \in Nat
           /\ Cardinality(Killed) <= Cardinality(Killed')
           /\ status[m] # "signal" /\ status'[m] = "signal" =>
                 Cardinality(Killed') = Cardinality(Killed) + 1
           /\ Killed' = {} => Killed = {} /\ status'[m] # "signal"
<1>1. /\ Killed \subseteq Makes /\ Killed' \subseteq Makes
      /\ Killed' = IF status'[m] = "signal" THEN Killed \cup {m} ELSE Killed
      /\ m \in Killed <=> status[m] = "signal"
  BY DEF Killed, Acts
<1>2. IsFiniteSet(Killed) /\ IsFiniteSet(Killed')
  BY <1>1, JobserverFinite, FS_Subset
<1>3. Cardinality(Killed) \in Nat /\ Cardinality(Killed') \in Nat
  BY <1>2, FS_CardinalityType
<1>4. m \notin Killed => Cardinality(Killed \cup {m}) = Cardinality(Killed) + 1
  BY <1>2, FS_AddElement
<1>5. CASE status'[m] = "signal" /\ status[m] # "signal"
  <2>1. Killed' = Killed \cup {m} /\ m \notin Killed
    BY <1>1, <1>5
  <2>. QED BY <1>3, <1>4, <1>5, <2>1
<1>6. CASE ~(status'[m] = "signal" /\ status[m] # "signal")
  <2>1. Killed' = Killed
    BY <1>1, <1>6
  <2>2. Killed' = {} => status'[m] # "signal"
    BY <1>1
  <2>. QED BY <1>3, <1>6, <2>1, <2>2
<1>. QED BY <1>5, <1>6

\* Nothing but the make that goes on changes what makes hold, and the pipe gets
\* what it gives away, unless it is killed.
LEMMA TokensBalance ==
    ASSUME JInv, IInv', NEW m \in Makes, Acts(m), Pays(m)
    PROVE  Covered' /\ Kept' /\ pipe' \in Nat
<1>. USE DEF JInv, IInv
<1>1. /\ \A k \in Makes : jobserver_tokens[k] \in Nat /\ jobserver_tokens'[k] \in Int
      /\ pipe \in Nat
  BY DEF Shape, Others, Covered
<1>2. pipe' \in Nat /\ jobserver_tokens'[m] \in Nat
  BY <1>1 DEF Pays
<1>3. \A k \in Makes \ {m} : Kids(k)' = Kids(k)
  <2>1. \A k \in Makes \ {m} : \A j \in JobsOf(k) : j \in Jobs /\ job'[j] = job[j]
    BY DEF Acts, JobsOf
  <2>. QED BY <2>1 DEF Kids, children, waiting_jobs, JobsOf
<1>4. Covered'
  <2>1. ASSUME NEW k \in Makes \ {m}
        PROVE  /\ jobserver_tokens'[k] >= 0
               /\ pc'[k] = "signal" => jobserver_tokens'[k] >= Cardinality(Kids(k)')
    <3>1. jobserver_tokens'[k] = jobserver_tokens[k] /\ (pc'[k] = "signal" => pc[k] = "signal")
      BY DEF Acts
    <3>. QED BY <1>1, <1>3, <3>1 DEF Covered
  <2>2. ASSUME pc'[m] = "signal"
        PROVE  jobserver_tokens'[m] >= Cardinality(Kids(m)')
    <3>1. CASE job' = job /\ jobserver_tokens'[m] = jobserver_tokens[m]
      <4>1. Kids(m)' = Kids(m)
        BY <3>1 DEF Kids, children, waiting_jobs, JobsOf
      <4>2. pc[m] \notin {"exit"}
        BY DEF Acts
      <4>3. jobserver_tokens[m] >= Cardinality(Kids(m))
        BY <1>1, <4>2, KidsAre DEF Counted, Covered
      <4>. QED BY <3>1, <4>1, <4>3
    <3>2. CASE jobserver_tokens'[m] = jobserver_tokens[m] - 1 /\ jobserver_tokens[m] - 1 >= Cardinality(Kids(m))'
      BY <3>2
    <3>. QED BY <2>2, <3>1, <3>2 DEF Pays
  <2>. QED BY <1>2, <2>1, <2>2 DEF Covered
<1>5. /\ \A k \in Makes : Holdings[k] = Held(k) /\ Holdings'[k] = Held(k)'
      /\ \A k \in Makes : Holdings[k] \in Int /\ Holdings'[k] \in Int
  <2>1. \A k \in Makes : Holdings[k] = Held(k) /\ Holdings'[k] = Held(k)'
    BY DEF Holdings
  <2>2. \A k \in Makes : Held(k) \in Int /\ Held(k)' \in Int
    BY <1>1 DEF Held
  <2>. QED BY <2>1, <2>2
<1>6. \A k \in Makes \ {m} : Held(k)' = Held(k)
  <2>. SUFFICES ASSUME NEW k \in Makes \ {m} PROVE Held(k)' = Held(k)
    OBVIOUS
  <2>1. jobserver_tokens'[k] = jobserver_tokens[k]
    BY DEF Acts
  <2>2. CASE pc'[k] = pc[k]
    BY <2>1, <2>2 DEF Held
  <2>3. CASE pc[k] = "off" /\ pc'[k] = "goal"
    BY <2>1, <2>3 DEF Held
  <2>. QED BY <2>2, <2>3 DEF Acts
<1>7. Sum(Holdings', Makes) = Sum(Holdings, Makes) + (Held(m)' - Held(m))
  <2>1. \A k \in Makes : Holdings[k] \in Int /\ Holdings'[k] \in Int /\ (k # m => Holdings'[k] = Holdings[k])
    BY <1>5, <1>6
  <2>2. DifferAt(Holdings, Holdings', Makes, m)
    BY <2>1 DEF DifferAt
  <2>3. Sum(Holdings', Makes) = Sum(Holdings, Makes) + (Holdings'[m] - Holdings[m])
    BY <2>2, JobserverFinite, SumChange
  <2>. QED BY <1>5, <2>3
<1>8. \/ pipe' + Held(m)' = pipe + Held(m)
      \/ pipe' + Held(m)' <= pipe + Held(m) /\ status'[m] = "signal"
      \/ /\ pipe' + Held(m)' <= pipe + Held(m) + 1
         /\ status[m] # "signal" /\ status'[m] = "signal"
  <2>. DEFINE t == jobserver_tokens[m]
  <2>1. t \in Nat /\ pc[m] # "exit" /\ (pc[m] = "sleep" => t >= 1)
    <3>1. pc[m] = "sleep" => t = Cardinality(Kids(m)) /\ Kids(m) # {}
      BY KidsAre DEF Counted, Sleepers, Kids
    <3>. QED BY <1>1, <3>1, KidsAre DEF Acts
  <2>2. /\ Held(m) = IF t = 0 THEN 0
                     ELSE t - (IF pc[m] = "got" THEN 0
                               ELSE IF pc[m] \in Freeing /\ t > 1 THEN 2 ELSE 1)
        /\ Held(m)' = IF pc'[m] = "exit" \/ jobserver_tokens'[m] = 0 THEN 0
                      ELSE jobserver_tokens'[m]
                           - (IF pc'[m] = "got" THEN 0
                              ELSE IF pc'[m] \in Freeing /\ jobserver_tokens'[m] > 1 THEN 2 ELSE 1)
    BY <2>1 DEF Held
  <2>. QED BY <1>1, <1>2, <2>1, <2>2 DEF Pays
<1>9. Sum(Holdings, Makes) \in Int /\ Held(m) \in Int /\ Held(m)' \in Int
  BY <1>5, JobserverFinite, SumType
<1>10. Kept'
  <2>1. /\ Cardinality(Killed) \in Nat /\ Cardinality(Killed') \in Nat
        /\ Cardinality(Killed) <= Cardinality(Killed')
        /\ status[m] # "signal" /\ status'[m] = "signal" =>
              Cardinality(Killed') = Cardinality(Killed) + 1
        /\ Killed' = {} => Killed = {} /\ status'[m] # "signal"
    BY KilledGrow
  <2>2. Slots \in Int
    BY JobserverAssumption
  <2>3. pipe' + Sum(Holdings', Makes) <= Slots - 1 + Cardinality(Killed')
    BY <1>1, <1>2, <1>7, <1>8, <1>9, <2>1, <2>2 DEF Kept
  <2>4. ASSUME Killed' = {}
        PROVE  pipe' + Sum(Holdings', Makes) = Slots - 1
    <3>1. pipe + Sum(Holdings, Makes) = Slots - 1
      BY <2>1, <2>4 DEF Kept
    <3>2. pipe' + Held(m)' = pipe + Held(m)
      BY <1>8, <2>1, <2>4
    <3>. QED BY <1>1, <1>2, <1>7, <1>9, <2>2, <3>1, <3>2
  <2>5. (Sum(Holdings, Makes))' = Sum(Holdings', Makes)
    BY DEF Sum, MapThenSumSet, MapThenFoldSet
  <2>. QED BY <2>3, <2>4, <2>5 DEF Kept
<1>. QED BY <1>2, <1>4, <1>10

\* A command ends: a submake only when it has exited.
LEMMA ExitsKeeps ==
    ASSUME JInv, IInv', NEW j \in Jobs, Exits(j)
    PROVE  JInv'
<1>. USE DEF JInv, IInv
<1>1. /\ job[j] = "running" /\ UNCHANGED <<keep_going_flag, pipe, pc, cur, jobserver_tokens, job_rfd,
                                            sigterm, status>>
      /\ sigchld' = [sigchld EXCEPT ![Of[j]] = TRUE]
      /\ \E v \in {"good", "bad"} : job' = [job EXCEPT ![j] = v]
      /\ Runs[j] # NoMake => pc[Runs[j]] = "exit"
  BY DEF Exits
<1>2. job'[j] \in {"good", "bad"} /\ \A i \in Jobs \ {j} : job'[i] = job[i]
  BY <1>1 DEF Shape
<1>3. \A k \in Makes : children(k)' = children(k) /\ Kids(k)' = Kids(k)
  BY <1>1, <1>2 DEF Kids, children, waiting_jobs, JobsOf
<1>4. Others'
  BY <1>1 DEF Others
<1>5. Covered' /\ Quiet'
  BY <1>1, <1>3 DEF Covered, Quiet
<1>6. Parents'
  <2>1. \A k \in Makes \ {Top} : k # NoMake
    BY JobserverAssumption
  <2>. QED BY <1>1, <1>2, <2>1 DEF Parents
<1>7. Kept'
  <2>1. Holdings' = Holdings /\ Killed' = Killed
    BY <1>1 DEF Holdings, Held, Killed
  <2>. QED BY <1>1, <2>1 DEF Kept
<1>. QED BY <1>4, <1>5, <1>6, <1>7

\* Signals that are sent, and the handler of one that is not fatal.
LEMMA SignalsKeep ==
    ASSUME JInv, IInv', Others', UNCHANGED <<pipe, pc, jobserver_tokens, status, job>>
    PROVE  JInv'
<1>1. Holdings' = Holdings
  BY DEF Holdings, Held
<1>2. Kept'
  BY <1>1 DEF Kept, JInv, Killed
<1>. QED BY <1>2 DEF JInv, Covered, Parents, Quiet, Kids, children, waiting_jobs, JobsOf

LEMMA OthersKept ==
    ASSUME JInv, NEW m \in Makes, MakeStep(m) \/ fatal_error_signal(m), pipe' \in Nat
    PROVE  Others'
<1>1. keep_going_flag' = keep_going_flag
  BY DEF MakeStep, Reap, start_waiting_jobs, ReapNone, update_file, NeedToken, CheckFree,
         ReadToken, CountToken, StartJob, FreeDone, die, KillSelf, fatal_error_signal
<1>2. sigchld' = sigchld
  BY DEF MakeStep, Reap, start_waiting_jobs, ReapNone, update_file, NeedToken, CheckFree,
         ReadToken, CountToken, StartJob, FreeDone, die, KillSelf, fatal_error_signal
<1>3. \/ job_rfd' = job_rfd
      \/ job_rfd' = [job_rfd EXCEPT ![m] = TRUE]
  BY DEF MakeStep, Reap, start_waiting_jobs, ReapNone, update_file, NeedToken, CheckFree,
         ReadToken, CountToken, StartJob, FreeDone, die, KillSelf, fatal_error_signal
<1>4. \/ sigterm' = sigterm
      \/ sigterm' = [k \in Makes |-> sigterm[k] \/ \E j \in children(m) : job[j] = "running" /\ Runs[j] = k]
  BY DEF MakeStep, Reap, start_waiting_jobs, ReapNone, update_file, NeedToken, CheckFree,
         ReadToken, CountToken, StartJob, FreeDone, die, KillSelf, fatal_error_signal
<1>5. job_rfd' \in [Makes -> BOOLEAN]
  BY <1>3 DEF JInv, Others
<1>6. sigterm' \in [Makes -> BOOLEAN]
  BY <1>4, Zenon DEF JInv, Others
<1>. QED BY <1>1, <1>2, <1>5, <1>6 DEF JInv, Others

LEMMA NextKeepsTokens == JInv /\ [Next]_vars => JInv'
<1>. SUFFICES ASSUME JInv, [Next]_vars PROVE JInv'
  OBVIOUS
<1>1. IInv'
  BY NextKeeps DEF JInv
<1>2. ASSUME NEW m \in Makes, MakeStep(m) \/ fatal_error_signal(m) PROVE JInv'
  <2>1. Acts(m) /\ Pays(m)
    BY <1>2, MakePays
  <2>2. Covered' /\ Kept' /\ pipe' \in Nat
    BY <1>1, <2>1, TokensBalance
  <2>3. Parents' /\ Quiet'
    BY <1>1, <2>1, FamilyKept
  <2>4. Others'
    BY <1>2, <2>2, OthersKept
  <2>. QED BY <1>1, <2>2, <2>3, <2>4 DEF JInv
<1>3. ASSUME NEW m \in Makes, child_handler(m) \/ Kill(m) PROVE JInv'
  <2>1. Others'
    BY <1>3 DEF JInv, Others, child_handler, Kill
  <2>2. UNCHANGED <<pipe, pc, jobserver_tokens, status, job>>
    BY <1>3 DEF child_handler, Kill
  <2>. QED BY <1>1, <2>1, <2>2, SignalsKeep
<1>4. ASSUME NEW j \in Jobs, Exits(j) PROVE JInv'
  BY <1>1, <1>4, ExitsKeeps
<1>5. CASE UNCHANGED vars
  <2>1. Others' /\ UNCHANGED <<pipe, pc, jobserver_tokens, status, job>>
    BY <1>5 DEF JInv, Others, vars
  <2>. QED BY <1>1, <2>1, SignalsKeep
<1>. QED BY <1>2, <1>3, <1>4, <1>5 DEF Next, Finished

LEMMA InitHoldsTokens == Init => JInv
<1>. SUFFICES ASSUME Init PROVE JInv
  OBVIOUS
<1>1. IInv
  BY InitHolds
<1>. USE DEF Init
<1>2. Others
  BY JobserverAssumption DEF Others, InitialTokens
<1>3. Covered /\ Parents
  BY DEF Covered, Parents
<1>4. Quiet
  BY DEF Quiet, children, JobsOf
<1>5. Kept
  <2>1. \A m \in Makes : Holdings[m] = 0
    BY DEF Holdings, Held
  <2>2. Sum(Holdings, Makes) = 0
    BY <2>1, JobserverFinite, SumZero
  <2>3. Killed = {} /\ Cardinality(Killed) = 0
    BY FS_EmptySet DEF Killed
  <2>. QED BY <2>2, <2>3, JobserverAssumption DEF Kept, InitialTokens
<1>. QED BY <1>1, <1>2, <1>3, <1>4, <1>5 DEF JInv

LEMMA TokenInvariance == Spec => []JInv
BY InitHoldsTokens, NextKeepsTokens, PTL DEF Spec

\* What the makes hold is a natural number, and the fold the property sums it up
\* with is the sum the invariant is about.
LEMMA HeldSum ==
    ASSUME JInv
    PROVE  /\ \A m \in Makes : Holdings[m] = Held(m) /\ Held(m) \in Nat
           /\ Sum(Holdings, Makes) \in Nat
           /\ MapThenSumSet(Held, Makes) = Sum(Holdings, Makes)
<1>. DEFINE g == CHOOSE h : h = [s \in SUBSET Makes |->
                                   IF s = {} THEN 0 ELSE Held(First(s)) + h[s \ {First(s)}]]
<1>1. \A m \in Makes : Holdings[m] = Held(m) /\ Held(m) \in Nat
  <2>1. \A m \in Makes : jobserver_tokens[m] \in Nat
    BY DEF JInv, IInv, Shape, Covered
  <2>. QED BY <2>1 DEF Holdings, Held
<1>2. Sum(Holdings, Makes) \in Nat
  BY <1>1, JobserverFinite, SumNat
<1>3. PICK f \in [SUBSET Makes -> Int] : Folds(f, Holdings, Makes) /\ Sum(Holdings, Makes) = f[Makes]
  <2>1. \A m \in Makes : Holdings[m] \in Int
    BY <1>1
  <2>. QED BY <2>1, JobserverFinite, SumFolds
<1>4. \A s \in SUBSET Makes : s # {} => Holdings[First(s)] = Held(First(s))
  BY <1>1, FirstIs
<1>5. f = [s \in SUBSET Makes |-> IF s = {} THEN 0 ELSE Held(First(s)) + f[s \ {First(s)}]]
  BY <1>3, <1>4 DEF Folds
<1>6. g = [s \in SUBSET Makes |-> IF s = {} THEN 0 ELSE Held(First(s)) + g[s \ {First(s)}]]
  BY <1>5
<1>7. Folds(g, Holdings, Makes)
  <2>. HIDE DEF g
  <2>. QED BY <1>4, <1>6 DEF Folds
<1>8. g = f
  <2>. HIDE DEF g
  <2>. QED BY <1>3, <1>7, JobserverFinite, FoldUnique
<1>9. MapThenSumSet(Held, Makes) = g[Makes]
  BY DEF MapThenSumSet, MapThenFoldSet, First
<1>. QED BY <1>1, <1>2, <1>3, <1>8, <1>9

LEMMA KilledCount ==
    /\ Cardinality(Killed) \in Nat /\ Cardinality(Makes) \in Nat
    /\ Cardinality(Killed) <= Cardinality(Makes)
<1>1. Killed \subseteq Makes
  BY DEF Killed
<1>. QED BY <1>1, JobserverFinite, FS_Subset, FS_CardinalityType

\* All variables have their types: the pipe never holds more tokens than main()
\* wrote and one for each make, and no make counts less than none.
THEOREM TypesKept == Spec => []TypeOK
<1>1. JInv => TypeOK
  <2>. SUFFICES ASSUME JInv PROVE TypeOK
    OBVIOUS
  <2>1. pipe \in 0..(Slots - 1 + Cardinality(Makes))
    <3>1. /\ Sum(Holdings, Makes) \in Nat /\ pipe \in Nat /\ Slots \in Nat
          /\ pipe + Sum(Holdings, Makes) <= Slots - 1 + Cardinality(Killed)
      BY HeldSum, JobserverAssumption DEF JInv, Others, Kept
    <3>. QED BY <3>1, KilledCount
  <2>2. jobserver_tokens \in [Makes -> Nat]
    BY DEF JInv, IInv, Shape, Covered
  <2>. QED BY <2>1, <2>2 DEF TypeOK, JInv, IInv, Shape, Others, Places, States
<1>. QED BY <1>1, TokenInvariance, PTL

\* As long as no make is killed, free_child(), new_job() and clean_jobserver()
\* between them neither lose a token nor make one up, however the makes end.  Each
\* one that is killed may take some with it, or leave one too many.
THEOREM TokensConserved == Spec => []TokensKept
<1>1. JInv => TokensKept
  BY HeldSum DEF JInv, Kept, TokensKept
<1>. QED BY <1>1, TokenInvariance, PTL

-----------------------------------------------------------------------------
(* How many commands run.                                                   *)

Running == {j \in Jobs : job[j] = "running"}
RunningOf(m) == {j \in Running : Of[j] = m}
Busy == {m \in Makes : RunningOf(m) # {}}

\* A make runs one command more than it holds tokens.
LEMMA OneWithout ==
    ASSUME JInv, NEW m \in Makes
    PROVE  /\ Cardinality(RunningOf(m)) \in Nat /\ Held(m) \in Nat
           /\ Cardinality(RunningOf(m)) <= IF m \in Busy THEN Held(m) + 1 ELSE Held(m)
<1>1. RunningOf(m) \in SUBSET Jobs /\ RunningOf(m) \subseteq children(m) /\ RunningOf(m) \subseteq Kids(m)
  BY DEF RunningOf, Running, children, JobsOf, Kids
<1>2. Cardinality(RunningOf(m)) \in Nat /\ (Cardinality(RunningOf(m)) = 0 <=> RunningOf(m) = {})
  BY <1>1, JobserverFinite, SubsetSizes
<1>3. Cardinality(RunningOf(m)) <= Cardinality(Kids(m)) /\ Cardinality(Kids(m)) \in Nat
  <2>1. Kids(m) \in SUBSET Jobs
    BY KidsAre DEF JInv, IInv
  <2>2. IsFiniteSet(Kids(m))
    BY <2>1, JobserverFinite, SubsetSizes
  <2>. QED BY <1>1, <2>1, <2>2, JobserverFinite, SubsetSizes
<1>4. Held(m) \in Nat /\ jobserver_tokens[m] \in Nat
  <2>1. jobserver_tokens[m] \in Nat
    BY DEF JInv, IInv, Shape, Covered
  <2>. QED BY <2>1, HeldSum
<1>5. CASE RunningOf(m) = {}
  <2>1. m \notin Busy /\ Cardinality(RunningOf(m)) = 0
    BY <1>2, <1>5 DEF Busy
  <2>. QED BY <1>4, <2>1
<1>6. CASE RunningOf(m) # {}
  <2>1. m \in Busy /\ pc[m] # "exit"
    BY <1>1, <1>6 DEF Busy, JInv, Quiet
  <2>2. /\ jobserver_tokens[m] >= Cardinality(Kids(m))
        /\ pc[m] \in Freeing => jobserver_tokens[m] = Cardinality(Kids(m)) + 1
    BY <1>3, <1>4, <2>1 DEF JInv, IInv, Counted, Covered
  <2>3. Held(m) >= jobserver_tokens[m] - (IF pc[m] \in Freeing THEN 2 ELSE 1)
    BY <1>4, <2>1 DEF Held
  <2>. QED BY <1>2, <1>3, <1>4, <2>1, <2>2, <2>3
<1>. QED BY <1>2, <1>4, <1>5, <1>6

\* Every make but the top one is itself a command that runs.
LEMMA BusyAreCommands ==
    ASSUME JInv
    PROVE  /\ Busy \in SUBSET Makes
           /\ Cardinality(Busy) <= Cardinality({j \in Running : Runs[j] # NoMake}) + 1
<1>. DEFINE subs == {j \in Running : Runs[j] # NoMake}
            img == {Runs[j] : j \in subs}
<1>1. Busy \in SUBSET Makes /\ subs \in SUBSET Jobs /\ IsFiniteSet(subs) /\ IsFiniteSet(Busy)
  <2>1. Busy \in SUBSET Makes /\ subs \in SUBSET Jobs
    BY DEF Busy, Running
  <2>. HIDE DEF subs
  <2>. QED BY <2>1, JobserverFinite, FS_Subset
<1>2. Busy \ {Top} \subseteq img
  <2>. SUFFICES ASSUME NEW m \in Busy, m # Top PROVE m \in img
    OBVIOUS
  <2>1. m \in Makes /\ children(m) # {}
    BY DEF Busy, RunningOf, Running, children, JobsOf
  <2>2. pc[m] \notin {"off", "exit"}
    BY <2>1 DEF JInv, Quiet
  <2>3. PICK j \in Jobs : Runs[j] = m /\ job[j] = "running"
    BY <2>1, <2>2 DEF JInv, Parents
  <2>. QED BY <2>1, <2>3, JobserverAssumption DEF Running
<1>3. IsFiniteSet(img) /\ Cardinality(img) <= Cardinality(subs)
  <2>. DEFINE F == [j \in subs |-> Runs[j]]
  <2>1. img = {F[j] : j \in subs}
    <3>1. \A j \in subs : F[j] = Runs[j]
      OBVIOUS
    <3>. HIDE DEF F, subs
    <3>. QED BY <3>1
  <2>2. F \in [subs -> img]
    OBVIOUS
  <2>3. F \in Surjection(subs, img)
    BY DEF Surjection
  <2>. HIDE DEF F, subs, img
  <2>. QED BY <1>1, <2>3, FS_Surjection
<1>4. Cardinality(Busy \ {Top}) <= Cardinality(img)
  BY <1>2, <1>3, FS_Subset
<1>5. Cardinality(Busy) <= Cardinality(Busy \ {Top}) + 1
  <2>1. Cardinality(Busy) \in Nat
    BY <1>1, FS_CardinalityType
  <2>2. CASE Top \in Busy
    <3>1. Cardinality(Busy \ {Top}) = Cardinality(Busy) - 1
      BY <1>1, <2>2, FS_RemoveElement
    <3>. QED BY <2>1, <3>1
  <2>3. CASE Top \notin Busy
    <3>1. Busy \ {Top} = Busy
      BY <2>3
    <3>. QED BY <2>1, <3>1
  <2>. QED BY <2>2, <2>3
<1>6. /\ Cardinality(Busy) \in Nat /\ Cardinality(Busy \ {Top}) \in Nat
      /\ Cardinality(img) \in Nat /\ Cardinality(subs) \in Nat
  <2>1. IsFiniteSet(Busy \ {Top})
    BY <1>1, FS_Subset
  <2>. HIDE DEF subs, img
  <2>. QED BY <1>1, <1>3, <2>1, FS_CardinalityType
<1>7. Cardinality(Busy) <= Cardinality(subs) + 1
  <2>. HIDE DEF subs, img
  <2>. QED BY <1>3, <1>4, <1>5, <1>6
<1>. QED BY <1>1, <1>7

\* -j is kept across a whole tree of makes: the commands that run and are not makes
\* are never more than Slots, and one more for each make that was killed.
THEOREM NeverMoreThanSlots == Spec => []AtMostSlots
<1>1. JInv => AtMostSlots
  <2>. SUFFICES ASSUME JInv PROVE AtMostSlots
    OBVIOUS
  <2>. DEFINE leaves == {j \in Jobs : job[j] = "running" /\ Runs[j] = NoMake}
              subs == {j \in Running : Runs[j] # NoMake}
              counts == Classes(Running, Makes, Of)
              more == OneMore(Holdings, Makes, Busy)
  <2>1. IsFiniteSet(Running) /\ \A j \in Running : Of[j] \in Makes
    BY JobserverFinite, JobserverAssumption, FS_Subset DEF Running
  <2>2. Cardinality(Running) = Sum(counts, Makes)
    BY <2>1, JobserverFinite, CountByClass
  <2>3. \A m \in Makes : counts[m] \in Int /\ more[m] \in Int /\ counts[m] <= more[m]
    <3>1. \A m \in Makes : counts[m] = Cardinality(RunningOf(m))
      BY DEF Classes, RunningOf
    <3>2. \A m \in Makes : more[m] = IF m \in Busy THEN Held(m) + 1 ELSE Held(m)
      <4>1. \A m \in Makes : Holdings[m] = Held(m)
        BY HeldSum
      <4>. QED BY <4>1 DEF OneMore
    <3>. HIDE DEF counts, more
    <3>. QED BY <3>1, <3>2, OneWithout
  <2>4. Sum(counts, Makes) <= Sum(more, Makes)
    <3>. HIDE DEF counts, more
    <3>. QED BY <2>3, JobserverFinite, SumMonotone
  <2>5. Sum(more, Makes) = Sum(Holdings, Makes) + Cardinality(Busy)
    <3>1. \A m \in Makes : Holdings[m] \in Int
      <4>1. \A m \in Makes : Holdings[m] = Held(m) /\ Held(m) \in Nat
        BY HeldSum
      <4>. QED BY <4>1
    <3>2. Busy \in SUBSET Makes
      BY BusyAreCommands
    <3>. QED BY <3>1, <3>2, JobserverFinite, SumOneMore
  <2>6. Cardinality(Running) = Cardinality(leaves) + Cardinality(subs)
    <3>1. leaves \cup subs = Running /\ leaves \cap subs = {}
      BY DEF Running
    <3>2. IsFiniteSet(leaves) /\ IsFiniteSet(subs)
      BY <2>1, <3>1, FS_Subset
    <3>. HIDE DEF leaves, subs
    <3>3. Cardinality(leaves \cup subs) = Cardinality(leaves) + Cardinality(subs) - Cardinality(leaves \cap subs)
      BY <3>2, FS_Union
    <3>4. Cardinality(leaves \cap subs) = 0
      BY <3>1, FS_EmptySet
    <3>5. Cardinality(leaves) \in Nat /\ Cardinality(subs) \in Nat
      BY <3>2, FS_CardinalityType
    <3>. QED BY <3>1, <3>3, <3>4, <3>5
  <2>7. Cardinality(Busy) <= Cardinality(subs) + 1
    BY BusyAreCommands
  <2>8. pipe \in Nat /\ pipe + Sum(Holdings, Makes) <= Slots - 1 + Cardinality(Killed) /\ Slots \in Nat
    BY JobserverAssumption DEF JInv, Others, Kept
  <2>9. /\ Cardinality(leaves) \in Nat /\ Cardinality(subs) \in Nat /\ Cardinality(Busy) \in Nat
        /\ Sum(Holdings, Makes) \in Nat
    <3>1. leaves \in SUBSET Jobs /\ subs \in SUBSET Jobs /\ Busy \in SUBSET Makes
      BY DEF Running, Busy
    <3>. HIDE DEF leaves, subs
    <3>. QED BY <3>1, HeldSum, JobserverFinite, SubsetSizes
  <2>10. Cardinality(leaves) <= Slots + Cardinality(Killed)
    <3>. HIDE DEF leaves, subs, counts, more
    <3>. QED BY <2>2, <2>4, <2>5, <2>6, <2>7, <2>8, <2>9, KilledCount
  <2>. QED BY <2>10 DEF AtMostSlots
<1>. QED BY <1>1, TokenInvariance, PTL

=============================================================================
