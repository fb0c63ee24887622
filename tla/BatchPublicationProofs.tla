----------------------- MODULE BatchPublicationProofs -----------------------
(***************************************************************************)
(* What the pointer names, for any number of runs, raw objects, contents   *)
(* and faults.                                                             *)
(***************************************************************************)
EXTENDS BatchPublication, SequenceTheorems, TLAPS

-----------------------------------------------------------------------------
(* What an action of the job reads is input a manifest could describe. *)
LEMMA ContentIsData ==
    ASSUME TypeOK, job.run \in Run, Input \in Data, Readable
    PROVE  Content \in Data
<1>1. PICK S \in SUBSET Object : Input \in [S -> Version]
  BY DEF Data
<1>2. Content \in [S -> Version]
  BY <1>1 DEF Content, Readable, TypeOK
<1> QED
  BY <1>2 DEF Data

LEMMA InitType == Init => TypeOK
BY DEF Init, TypeOK, Execution, Job, NoJob, JobOf, Place, Ended, Data

LEMMA JobOfType ==
    ASSUME NEW r \in Run
    PROVE  JobOf(r, r) \in Job /\ JobOf(r, None) \in Job
BY DEF JobOf, Job, Step

LEMMA JobParts ==
    ASSUME job \in Job
    PROVE  /\ job.run \in Run \cup {None}
           /\ job.run = None <=> job = NoJob
           /\ job.run # None => job.at \in Step /\ job.awaited \in Run \cup {None}
BY BatchAssumption DEF Job, NoJob, JobOf

LEMMA JobMade ==
    ASSUME NEW r \in Run, NEW step \in Step, NEW awaited \in Run \cup {None}
    PROVE  [run |-> r, at |-> step, awaited |-> awaited] \in Job
BY DEF Job

LEMMA GoesType ==
    ASSUME NEW r \in Run, NEW place \in Place, exec \in [Run -> Execution], Goes(r, place)
    PROVE  exec' \in [Run -> Execution]
<1>1. ExecAt(r, place) \in Execution
  BY DEF ExecAt, Execution
<1> QED
  BY <1>1 DEF Goes

(* An execution that was launched has its input; the job is of one.        *)
InputIsKnown ==
    /\ \A r \in Run : exec[r].at # "idle" => exec[r].input \in Data
    /\ job.run # None => exec[job.run].at # "idle"

LEMMA TypeStep ==
    ASSUME TypeOK, InputIsKnown, [Next]_vars
    PROVE  TypeOK'
<1> USE BatchAssumption, MarksAssumption
    DEF TypeOK, outputs, catalogVars, bounds, rest, Fault
<1>1. ASSUME NEW o \in Object, Rewrite(o)
      PROVE  TypeOK'
  BY <1>1 DEF Rewrite
<1>2. ASSUME NEW r \in Run, Launch(r)
      PROVE  TypeOK'
  BY <1>2 DEF Launch, Data, Execution, Place
<1>3. ASSUME NEW r \in Run, LookAtCrawler(r)
      PROVE  TypeOK'
  BY <1>3 DEF LookAtCrawler, Execution, Place
<1>4. ASSUME NEW r \in Run, StartJob(r)
      PROVE  TypeOK'
  <2>1. exec' \in [Run -> Execution]
    BY <1>4, GoesType DEF StartJob, Place, Ended
  <2>2. job' \in Job
    BY <1>4, JobOfType DEF StartJob
  <2> QED
    BY <1>4, <2>1, <2>2 DEF StartJob
<1>5. ASSUME NEW r \in Run, StartJobUnanswered(r)
      PROVE  TypeOK'
  <2>1. exec' \in [Run -> Execution]
    <3>1. CASE exec[r].tries = 2
      BY <1>5, <3>1, GoesType DEF StartJobUnanswered, Place, Ended
    <3>2. CASE exec[r].tries # 2
      <4>1. TriedAgain(r) \in Execution
        <5>1. exec[r] \in Execution /\ exec[r].tries + 1 \in 0 .. 2
          BY <3>2 DEF Execution
        <5> QED
          BY <5>1 DEF TriedAgain, Execution, Place
      <4> QED
        BY <1>5, <3>2, <4>1 DEF StartJobUnanswered
    <3> QED
      BY <3>1, <3>2
  <2>2. job' \in Job
    BY <1>5, JobOfType DEF StartJobUnanswered
  <2> QED
    BY <1>5, <2>1, <2>2 DEF StartJobUnanswered
<1>6. ASSUME NEW r \in Run, StartCrawl(r) \/ GiveUpCrawl(r) \/ PollCrawler(r)
      PROVE  TypeOK'
  <2>1. exec' \in [Run -> Execution]
    BY <1>6, GoesType DEF StartCrawl, GiveUpCrawl, PollCrawler, Place, Ended
  <2> QED
    BY <1>6, <2>1 DEF StartCrawl, GiveUpCrawl, PollCrawler
<1>7. ASSUME NEW r \in Run, StopExecution(r)
      PROVE  TypeOK'
  <2>1. exec' \in [Run -> Execution]
    BY <1>7, GoesType DEF StopExecution, Place, Ended
  <2>2. job' \in Job
    <3>1. CASE job.run = r
      <4>1. job.at \in Step
        BY <3>1, JobParts
      <4>2. [run |-> r, at |-> job.at, awaited |-> None] \in Job
        BY <4>1, JobMade
      <4> QED
        BY <1>7, <3>1, <4>2 DEF StopExecution
    <3>2. CASE job.run # r
      BY <1>7, <3>2 DEF StopExecution
    <3> QED
      BY <3>1, <3>2
  <2> QED
    BY <1>7, <2>1, <2>2 DEF StopExecution
<1>8. ASSUME CrawlEnds
      PROVE  TypeOK'
  BY <1>8 DEF CrawlEnds
<1>9. ASSUME NEW step \in Step, job.run # None, JobAt(step)
      PROVE  job' \in Job /\ exec' \in [Run -> Execution]
  BY <1>9, JobParts, JobMade DEF JobAt
<1>10. ASSUME NEW ok \in BOOLEAN, job.run # None, JobEnds(ok)
       PROVE  job' \in Job /\ exec' \in [Run -> Execution]
  <2>1. job' \in Job
    BY <1>10 DEF JobEnds, Job
  <2>2. exec' \in [Run -> Execution]
    BY <1>10, JobParts, GoesType DEF JobEnds, Place, Ended
  <2> QED
    BY <2>1, <2>2
<1>11. ASSUME Stage \/ AssertEmpty \/ PutPointer \/ Commit \/ JobRaises
       PROVE  TypeOK'
  <2>1. job' \in Job /\ exec' \in [Run -> Execution]
    <3>1. CASE Stage \/ AssertEmpty \/ PutPointer
      BY <1>9, <3>1 DEF Stage, AssertEmpty, PutPointer, At, Step
    <3>2. CASE Commit
      BY <1>10, <3>2 DEF Commit, At
    <3>3. CASE JobRaises
      BY <1>10, <3>3 DEF JobRaises, At
    <3> QED
      BY <1>11, <3>1, <3>2, <3>3
  <2>2. log' \in Seq(Run)
    <3>1. CASE PutPointer
      <4>1. job.run \in Run
        BY <3>1, JobParts DEF PutPointer, At
      <4> QED
        BY <3>1, <4>1, AppendProperties DEF PutPointer
    <3>2. CASE ~PutPointer
      BY <1>11, <3>2 DEF Stage, AssertEmpty, Commit, JobRaises
    <3> QED
      BY <3>1, <3>2
  <2> QED
    BY <1>11, <2>1, <2>2, JobParts
       DEF Stage, AssertEmpty, PutPointer, Commit, JobRaises, At
<1>12. ASSUME PutReport
       PROVE  TypeOK'
  <2>1. job' \in Job /\ exec' \in [Run -> Execution]
    BY <1>9, <1>10, <1>12 DEF PutReport, At, Step
  <2> QED
    BY <1>12, <2>1 DEF PutReport, Verdict
<1>13. ASSUME AppendSilver \/ AppendGold \/ PutSummary
       PROVE  TypeOK'
  <2>1. job' \in Job /\ exec' \in [Run -> Execution]
    BY <1>9, <1>13 DEF AppendSilver, AppendGold, PutSummary, At, Step
  <2>2. job.run \in Run /\ Input \in Data /\ Readable
    BY <1>13, JobParts DEF AppendSilver, AppendGold, PutSummary, At, InputIsKnown, Input
  <2>3. Appended(silver[job.run]) \in Data \cup {None, Broken}
        /\ Appended(gold[job.run]) \in Data \cup {None, Broken}
    BY <2>2, ContentIsData DEF Appended
  <2> QED
    BY <1>13, <2>1, <2>2, <2>3 DEF AppendSilver, AppendGold, PutSummary
<1>14. ASSUME JobDies
       PROVE  TypeOK'
  <2>1. job' \in Job /\ exec' \in [Run -> Execution]
    BY <1>10, <1>14, JobParts DEF JobDies
  <2> QED
    BY <1>14, <2>1 DEF JobDies
<1>15. CASE UNCHANGED vars
  BY <1>15 DEF vars
<1> QED
  BY <1>1, <1>2, <1>3, <1>4, <1>5, <1>6, <1>7, <1>8, <1>11, <1>12, <1>13, <1>14, <1>15
     DEF Next, JobStep, ExecStep

-----------------------------------------------------------------------------
(* The inductive invariant.  Nothing of a run is written before it is      *)
(* staged, so a second job of the run stops at its first write; a job past *)
(* it is the run's only one, and has written what its step says.           *)
Unwritten(r) ==
    /\ report[r] = "none"
    /\ silver[r] = None /\ gold[r] = None
    /\ r \notin summary /\ r \notin Named

StagedFirst == \A r \in Run : staged[r] = None => Unwritten(r)

Written(r, step) ==
    /\ step # "stage" => staged[r] = Done /\ (r \in Named <=> step = "commit")
    /\ step \notin {"stage", "report"} => report[r] = "passed"
    /\ step = "silver" => silver[r] = None /\ gold[r] = None
    /\ step = "gold" => silver[r] \in Data /\ gold[r] = None
    /\ step \in {"summary", "pointer", "commit"} => silver[r] \in Data /\ gold[r] \in Data
    /\ step \in {"pointer", "commit"} => r \in summary

JobHasWritten ==
    /\ job.run # None => Written(job.run, job.at)
    /\ job.awaited \in {None, job.run}

(* An execution that has got as far as the crawler has named its run, and  *)
(* a crawl that runs while it polls sees the run's tables.                 *)
CrawlSeesRun ==
    \A r \in Run :
        /\ exec[r].at \in {"crawl", "poll", "succeeded"} => r \in Named
        /\ exec[r].at = "poll" =>
               IF crawler.state = "running" THEN r \in crawler.saw
               ELSE crawler.status = "succeeded" => r \in catalog
        /\ exec[r].at = "succeeded" => r \in catalog

(* All but the types. *)
Rest ==
    /\ InputIsKnown
    /\ StagedFirst
    /\ JobHasWritten
    /\ NamedRunsAreComplete
    /\ CrawlSeesRun

BatchInv == TypeOK /\ Rest

LEMMA NamedStays ==
    ASSUME UNCHANGED log
    PROVE  Named' = Named
BY DEF Named

LEMMA NamedGrows ==
    ASSUME log \in Seq(Run), NEW r \in Run, log' = Append(log, r)
    PROVE  Named' = Named \cup {r}
<1>1. log' \in Seq(Run) /\ Len(log') = Len(log) + 1 /\ log'[Len(log) + 1] = r
      /\ \A i \in 1 .. Len(log) : log'[i] = log[i]
  BY AppendProperties
<1>2. DOMAIN log = 1 .. Len(log) /\ DOMAIN log' = 1 .. Len(log) + 1 /\ Len(log) \in Nat
  BY <1>1
<1> QED
  BY <1>1, <1>2 DEF Named

LEMMA RestInit == Init => Rest
<1> SUFFICES ASSUME Init PROVE Rest
  OBVIOUS
<1>1. Named = {}
  BY DEF Init, Named
<1> QED
  BY <1>1, MarksAssumption
     DEF Init, Rest, InputIsKnown, StagedFirst, Unwritten, JobHasWritten, NoJob, JobOf,
         NamedRunsAreComplete, CrawlSeesRun

(* An execution moves to a place from where nothing is claimed.            *)
LEMMA MovesOn ==
    ASSUME TypeOK, Rest, NEW r \in Run,
           NEW place \in Place \ {"idle", "crawl", "poll", "succeeded"},
           exec[r].at # "idle", Goes(r, place), job'.run \in {job.run, r},
           UNCHANGED <<outputs, catalogVars>>
    PROVE  InputIsKnown' /\ StagedFirst' /\ NamedRunsAreComplete' /\ CrawlSeesRun'
<1>1. Named' = Named
  BY NamedStays DEF outputs
<1>2. exec' = [exec EXCEPT ![r] = ExecAt(r, place)]
  BY DEF Goes
<1>3. InputIsKnown'
  BY <1>2 DEF ExecAt, TypeOK, Rest, InputIsKnown
<1>4. StagedFirst' /\ NamedRunsAreComplete'
  BY <1>1 DEF Rest, StagedFirst, Unwritten, NamedRunsAreComplete, outputs
<1>5. CrawlSeesRun'
  BY <1>1, <1>2 DEF ExecAt, TypeOK, Rest, CrawlSeesRun, outputs, catalogVars
<1> QED
  BY <1>3, <1>4, <1>5

(* The job is as it was, or has just been started.                         *)
LEMMA JobKeeps ==
    ASSUME Rest, NEW r \in Run, UNCHANGED outputs,
           job' \in {job, JobOf(r, r), JobOf(r, None)}
    PROVE  JobHasWritten'
<1>1. Named' = Named
  BY NamedStays DEF outputs
<1>2. CASE job' = job
  BY <1>1, <1>2 DEF Rest, JobHasWritten, Written, outputs
<1>3. CASE job' # job
  <2>1. job'.run = r /\ job'.at = "stage" /\ job'.awaited \in {None, r}
    BY <1>3 DEF JobOf
  <2> QED
    BY <2>1 DEF JobHasWritten, Written
<1> QED
  BY <1>2, <1>3

(* What a step of the job leaves as it was, if it goes on ...              *)
LEMMA JobGoesOn ==
    ASSUME Rest, NEW step \in Step, job.run # None, JobAt(step),
           Named \subseteq Named', UNCHANGED catalogVars
    PROVE  InputIsKnown' /\ CrawlSeesRun'
BY DEF JobAt, Rest, InputIsKnown, CrawlSeesRun, catalogVars

(* ... and if its run is over.                                             *)
LEMMA JobIsOver ==
    ASSUME TypeOK, Rest, NEW ok \in BOOLEAN, job.run \in Run, JobEnds(ok),
           ok => job.run \in Named, UNCHANGED <<log, catalogVars>>
    PROVE  InputIsKnown' /\ CrawlSeesRun' /\ JobHasWritten'
<1>1. Named' = Named
  BY NamedStays
<1>2. job' = NoJob /\ JobHasWritten' /\ job'.run = None
  BY DEF JobEnds, JobHasWritten, NoJob, JobOf
<1>3. exec[job.run].at # "idle"
  BY BatchAssumption DEF Rest, InputIsKnown
<1>4. CASE job.awaited = None
  BY <1>1, <1>2, <1>4 DEF JobEnds, Rest, InputIsKnown, CrawlSeesRun, catalogVars
<1>5. CASE job.awaited # None /\ ok
  <2>1. exec' = [exec EXCEPT ![job.run] = ExecAt(job.run, "crawl")]
    BY <1>5 DEF JobEnds, Goes
  <2> QED
    BY <1>1, <1>2, <1>3, <2>1, <1>5
       DEF ExecAt, TypeOK, Rest, InputIsKnown, CrawlSeesRun, catalogVars
<1>6. CASE job.awaited # None /\ ~ok
  <2>1. exec' = [exec EXCEPT ![job.run] = ExecAt(job.run, "glue_failed")]
    BY <1>6, SMTT(30) DEF JobEnds, Goes
  <2> QED
    BY <1>1, <1>2, <1>3, <2>1, <1>6
       DEF ExecAt, TypeOK, Rest, InputIsKnown, CrawlSeesRun, catalogVars
<1> QED
  BY <1>4, <1>5, <1>6

LEMMA RestStep ==
    ASSUME TypeOK, Rest, [Next]_vars
    PROVE  Rest'
<1> USE BatchAssumption, MarksAssumption
    DEF Rest, InputIsKnown, StagedFirst, Unwritten, JobHasWritten, Written,
        NamedRunsAreComplete, CrawlSeesRun, outputs, catalogVars, bounds, rest, Fault
<1>1. ASSUME NEW o \in Object, Rewrite(o)
      PROVE  Rest'
  BY <1>1, NamedStays DEF Rewrite
<1>2. ASSUME NEW r \in Run, Launch(r)
      PROVE  Rest'
  <2>1. Named' = Named
    BY <1>2, NamedStays DEF Launch
  <2>2. PICK m : /\ m \in Data
                 /\ exec' = [exec EXCEPT ![r] = [at |-> "look", input |-> m,
                                                 before |-> 0, tries |-> 0]]
    <3>1. [o \in {o \in Object : raw[o] # Gone} |-> raw[o]] \in Data
      <4> DEFINE S == {o \in Object : raw[o] # Gone}
      <4>1. [o \in S |-> raw[o]] \in [S -> Version] /\ S \in SUBSET Object
        BY DEF TypeOK
      <4> QED
        BY <4>1 DEF Data
    <3>2. {exec[s].input : s \in Run} \ {None} \subseteq Data
      BY DEF TypeOK, Execution
    <3> QED
      BY <1>2, <3>1, <3>2 DEF Launch
  <2> QED
    BY <1>2, <2>1, <2>2 DEF Launch, TypeOK, Execution
<1>3. ASSUME NEW r \in Run, LookAtCrawler(r)
      PROVE  Rest'
  <2>1. Named' = Named
    BY <1>3, NamedStays DEF LookAtCrawler
  <2> QED
    BY <1>3, <2>1 DEF LookAtCrawler, TypeOK, Execution
<1>4. ASSUME NEW r \in Run, StartJob(r)
      PROVE  Rest'
  <2>1. exec[r].at # "idle" /\ UNCHANGED <<outputs, catalogVars>>
    BY <1>4 DEF StartJob
  <2>2. InputIsKnown' /\ StagedFirst' /\ NamedRunsAreComplete' /\ CrawlSeesRun'
    <3>1. CASE job = NoJob
      <4>1. Goes(r, "glue") /\ job' = JobOf(r, r)
        BY <1>4, <3>1 DEF StartJob
      <4> QED
        BY <2>1, <4>1, MovesOn DEF Place, Ended, JobOf
    <3>2. CASE job # NoJob
      <4>1. Goes(r, "overlapped") /\ job' = job
        BY <1>4, <3>2 DEF StartJob
      <4> QED
        BY <2>1, <4>1, MovesOn DEF Place, Ended
    <3> QED
      BY <3>1, <3>2
  <2>3. JobHasWritten'
    BY <1>4, <2>1, JobKeeps DEF StartJob
  <2> QED
    BY <2>2, <2>3 DEF Rest
<1>5. ASSUME NEW r \in Run, StartJobUnanswered(r)
      PROVE  Rest'
  <2>1. exec[r].at = "start" /\ UNCHANGED <<outputs, catalogVars>>
        /\ job' \in {job, JobOf(r, r), JobOf(r, None)}
    BY <1>5 DEF StartJobUnanswered
  <2>2. InputIsKnown' /\ StagedFirst' /\ NamedRunsAreComplete' /\ CrawlSeesRun'
    <3>1. job'.run \in {job.run, r}
      BY <2>1 DEF JobOf
    <3>2. CASE exec[r].tries = 2
      BY <1>5, <2>1, <3>1, <3>2, MovesOn DEF StartJobUnanswered, Place, Ended
    <3>3. CASE exec[r].tries # 2
      <4>1. exec' = [exec EXCEPT ![r] = TriedAgain(r)]
        BY <1>5, <3>3 DEF StartJobUnanswered
      <4>2. Named' = Named
        BY <2>1, NamedStays DEF outputs
      <4> QED
        BY <2>1, <3>1, <4>1, <4>2
           DEF TriedAgain, TypeOK, Rest, InputIsKnown, StagedFirst, Unwritten,
               NamedRunsAreComplete, CrawlSeesRun, outputs, catalogVars
    <3> QED
      BY <3>2, <3>3
  <2>3. JobHasWritten'
    BY <2>1, JobKeeps
  <2> QED
    BY <2>2, <2>3 DEF Rest
<1>6. ASSUME NEW r \in Run, StartCrawl(r)
      PROVE  Rest'
  <2>1. Named' = Named
    BY <1>6, NamedStays DEF StartCrawl
  <2> QED
    BY <1>6, <2>1 DEF StartCrawl, Goes, ExecAt, TypeOK
<1>7. ASSUME NEW r \in Run, GiveUpCrawl(r)
      PROVE  Rest'
  <2>1. exec[r].at # "idle" /\ UNCHANGED <<outputs, catalogVars>> /\ job' = job
        /\ Goes(r, "crawl_failed")
    BY <1>7 DEF GiveUpCrawl
  <2>2. JobHasWritten'
    BY <2>1, JobKeeps
  <2> QED
    BY <2>1, <2>2, MovesOn DEF Rest, Place, Ended
<1>8. ASSUME NEW r \in Run, PollCrawler(r)
      PROVE  Rest'
  <2>1. exec[r].at = "poll" /\ crawler.state = "ready"
        /\ UNCHANGED <<outputs, catalogVars>> /\ job' = job
    BY <1>8 DEF PollCrawler, CrawlIsOver
  <2>2. JobHasWritten'
    BY <2>1, JobKeeps
  <2>3. CASE crawler.status = "succeeded"
    <3>1. Goes(r, "succeeded")
      BY <1>8, <2>3 DEF PollCrawler
    <3>2. r \in catalog /\ r \in Named
      BY <2>1, <2>3 DEF Rest, CrawlSeesRun
    <3>3. Named' = Named
      BY <2>1, NamedStays DEF outputs
    <3>4. InputIsKnown' /\ StagedFirst' /\ NamedRunsAreComplete'
      BY <2>1, <3>1, <3>3
         DEF Goes, ExecAt, TypeOK, Rest, InputIsKnown, StagedFirst, Unwritten,
             NamedRunsAreComplete, outputs, catalogVars
    <3>5. CrawlSeesRun'
      BY <2>1, <3>1, <3>2, <3>3
         DEF Goes, ExecAt, TypeOK, Rest, CrawlSeesRun, outputs, catalogVars
    <3> QED
      BY <2>2, <3>4, <3>5 DEF Rest
  <2>4. CASE crawler.status # "succeeded"
    <3>1. Goes(r, "crawl_failed")
      BY <1>8, <2>4 DEF PollCrawler
    <3> QED
      BY <2>1, <2>2, <3>1, MovesOn DEF Rest, Place, Ended
  <2> QED
    BY <2>3, <2>4
<1>9. ASSUME NEW r \in Run, StopExecution(r)
      PROVE  Rest'
  <2>1. Named' = Named
    BY <1>9, NamedStays DEF StopExecution
  <2> QED
    BY <1>9, <2>1 DEF StopExecution, Goes, ExecAt, Ended, TypeOK
<1>10. ASSUME CrawlEnds
       PROVE  Rest'
  <2>1. Named' = Named
    BY <1>10, NamedStays DEF CrawlEnds
  <2> QED
    BY <1>10, <2>1 DEF CrawlEnds, TypeOK
<1>11. ASSUME Stage
       PROVE  Rest'
  <2> DEFINE r == job.run
  <2>1. r \in Run /\ job.at = "stage" /\ staged[r] = None /\ JobAt("report")
        /\ staged' = [staged EXCEPT ![r] = Done]
        /\ UNCHANGED <<report, silver, gold, summary, log, catalogVars>>
    BY <1>11, JobParts DEF Stage, At, TypeOK
  <2>2. InputIsKnown' /\ CrawlSeesRun' /\ Named' = Named
    BY <2>1, NamedStays, JobGoesOn DEF Step
  <2>3. StagedFirst' /\ NamedRunsAreComplete' /\ JobHasWritten'
    BY <2>1, <2>2 DEF JobAt, TypeOK
  <2> QED
    BY <2>2, <2>3
<1>12. ASSUME PutReport
       PROVE  Rest'
  <2> DEFINE r == job.run
  <2>1. r \in Run /\ job.at = "report" /\ report' = [report EXCEPT ![r] = Verdict]
        /\ UNCHANGED <<staged, silver, gold, summary, log, catalogVars>>
    BY <1>12, JobParts DEF PutReport, At, TypeOK
  <2>2. Named' = Named /\ staged[r] = Done /\ r \notin Named
    BY <2>1, NamedStays
  <2>3. StagedFirst' /\ NamedRunsAreComplete'
    BY <2>1, <2>2 DEF TypeOK
  <2>4. CASE Passes
    <3>1. JobAt("assert") /\ report'[r] = "passed"
      BY <1>12, <2>1, <2>4 DEF PutReport, Verdict, TypeOK
    <3>2. InputIsKnown' /\ CrawlSeesRun'
      BY <2>1, <2>2, <3>1, JobGoesOn DEF Step
    <3>3. JobHasWritten'
      BY <2>1, <2>2, <3>1 DEF JobAt
    <3> QED
      BY <2>3, <3>2, <3>3
  <2>5. CASE ~Passes
    <3>1. JobEnds(FALSE)
      BY <1>12, <2>5 DEF PutReport
    <3>2. InputIsKnown' /\ CrawlSeesRun' /\ JobHasWritten'
      BY <2>1, <3>1, JobIsOver
    <3> QED
      BY <2>3, <3>2
  <2> QED
    BY <2>4, <2>5
<1>13. ASSUME AssertEmpty
       PROVE  Rest'
  <2> DEFINE r == job.run
  <2>1. r \in Run /\ job.at = "assert" /\ silver[r] = None /\ gold[r] = None
        /\ JobAt("silver") /\ UNCHANGED <<outputs, catalogVars>>
    BY <1>13, JobParts DEF AssertEmpty, At, TypeOK
  <2>2. InputIsKnown' /\ CrawlSeesRun' /\ Named' = Named
    BY <2>1, NamedStays, JobGoesOn DEF Step
  <2>3. StagedFirst' /\ NamedRunsAreComplete' /\ JobHasWritten'
    BY <2>1, <2>2 DEF JobAt
  <2> QED
    BY <2>2, <2>3
<1>14. ASSUME AppendSilver
       PROVE  Rest'
  <2> DEFINE r == job.run
  <2>1. r \in Run /\ job.at = "silver" /\ silver[r] = None /\ Readable /\ JobAt("gold")
        /\ UNCHANGED <<staged, report, gold, summary, log, catalogVars>>
    BY <1>14, JobParts DEF AppendSilver, At, TypeOK
  <2>2. silver' = [silver EXCEPT ![r] = Content] /\ Content \in Data
    <3>1. Input \in Data
      BY <2>1 DEF Input
    <3> QED
      BY <1>14, <2>1, <3>1, ContentIsData DEF AppendSilver, Appended, TypeOK
  <2>3. InputIsKnown' /\ CrawlSeesRun' /\ Named' = Named
    BY <2>1, NamedStays, JobGoesOn DEF Step
  <2>4. staged[r] = Done /\ r \notin Named
    BY <2>1
  <2>5. StagedFirst' /\ NamedRunsAreComplete' /\ JobHasWritten'
    BY <2>1, <2>2, <2>3, <2>4 DEF JobAt, TypeOK
  <2> QED
    BY <2>3, <2>5
<1>15. ASSUME AppendGold
       PROVE  Rest'
  <2> DEFINE r == job.run
  <2>1. r \in Run /\ job.at = "gold" /\ gold[r] = None /\ Readable /\ JobAt("summary")
        /\ UNCHANGED <<staged, report, silver, summary, log, catalogVars>>
    BY <1>15, JobParts DEF AppendGold, At, TypeOK
  <2>2. gold' = [gold EXCEPT ![r] = Content] /\ Content \in Data
    <3>1. Input \in Data
      BY <2>1 DEF Input
    <3> QED
      BY <1>15, <2>1, <3>1, ContentIsData DEF AppendGold, Appended, TypeOK
  <2>3. InputIsKnown' /\ CrawlSeesRun' /\ Named' = Named
    BY <2>1, NamedStays, JobGoesOn DEF Step
  <2>4. staged[r] = Done /\ r \notin Named
    BY <2>1
  <2>5. StagedFirst' /\ NamedRunsAreComplete' /\ JobHasWritten'
    BY <2>1, <2>2, <2>3, <2>4 DEF JobAt, TypeOK
  <2> QED
    BY <2>3, <2>5
<1>16. ASSUME PutSummary
       PROVE  Rest'
  <2> DEFINE r == job.run
  <2>1. r \in Run /\ job.at = "summary" /\ summary' = summary \cup {r} /\ JobAt("pointer")
        /\ UNCHANGED <<staged, report, silver, gold, log, catalogVars>>
    BY <1>16, JobParts DEF PutSummary, At, TypeOK
  <2>2. InputIsKnown' /\ CrawlSeesRun' /\ Named' = Named
    BY <2>1, NamedStays, JobGoesOn DEF Step
  <2>3. StagedFirst' /\ NamedRunsAreComplete' /\ JobHasWritten'
    BY <2>1, <2>2 DEF JobAt
  <2> QED
    BY <2>2, <2>3
<1>17. ASSUME PutPointer
       PROVE  Rest'
  <2> DEFINE r == job.run
  <2>1. r \in Run /\ job.at = "pointer" /\ log' = Append(log, r) /\ JobAt("commit")
        /\ UNCHANGED <<staged, report, silver, gold, summary, catalogVars>>
    BY <1>17, JobParts DEF PutPointer, At, TypeOK
  <2>2. Named' = Named \cup {r}
    BY <2>1, NamedGrows DEF TypeOK
  <2>3. InputIsKnown' /\ CrawlSeesRun'
    BY <2>1, <2>2, JobGoesOn DEF Step
  <2>4. StagedFirst' /\ NamedRunsAreComplete' /\ JobHasWritten'
    BY <2>1, <2>2 DEF JobAt
  <2> QED
    BY <2>3, <2>4
<1>18. ASSUME Commit
       PROVE  Rest'
  <2>1. job.run \in Run /\ job.at = "commit" /\ JobEnds(TRUE)
        /\ UNCHANGED <<outputs, catalogVars>>
    BY <1>18, JobParts DEF Commit, At, TypeOK
  <2>2. InputIsKnown' /\ CrawlSeesRun' /\ JobHasWritten'
    BY <2>1, JobIsOver
  <2>3. StagedFirst' /\ NamedRunsAreComplete'
    BY <2>1, NamedStays
  <2> QED
    BY <2>2, <2>3
<1>19. ASSUME JobRaises
       PROVE  Rest'
  <2>1. job.run \in Run /\ JobEnds(FALSE) /\ UNCHANGED <<outputs, catalogVars>>
    BY <1>19, JobParts DEF JobRaises, At, TypeOK
  <2>2. InputIsKnown' /\ CrawlSeesRun' /\ JobHasWritten'
    BY <2>1, JobIsOver
  <2>3. StagedFirst' /\ NamedRunsAreComplete'
    BY <2>1, NamedStays
  <2> QED
    BY <2>2, <2>3
<1>20. ASSUME JobDies
       PROVE  Rest'
  <2> DEFINE r == job.run
  <2>1. r \in Run /\ JobEnds(FALSE)
        /\ UNCHANGED <<report, summary, log, catalogVars>>
    BY <1>20, JobParts DEF JobDies, TypeOK
  <2>2. InputIsKnown' /\ CrawlSeesRun' /\ JobHasWritten'
    BY <2>1, JobIsOver
  <2>3. Named' = Named
    BY <2>1, NamedStays
  <2>4. CASE UNCHANGED <<staged, silver, gold>>
    BY <2>1, <2>2, <2>3, <2>4
  <2>5. CASE ~UNCHANGED <<staged, silver, gold>>
    <3>1. /\ r \notin Named
          /\ \A s \in Run \ {r} :
                staged'[s] = staged[s] /\ silver'[s] = silver[s] /\ gold'[s] = gold[s]
          /\ staged'[r] # None
      BY <1>20, <2>1, <2>5 DEF JobDies, TypeOK
    <3>2. NamedRunsAreComplete'
      <4>1. \A s \in Named : s \in Run
        BY DEF Named, TypeOK
      <4> QED
        BY <2>1, <2>3, <3>1, <4>1
    <3>3. StagedFirst'
      BY <2>1, <2>3, <3>1
    <3> QED
      BY <2>2, <3>2, <3>3
  <2> QED
    BY <2>4, <2>5
<1>21. CASE UNCHANGED vars
  BY <1>21, NamedStays DEF vars
<1> QED
  BY <1>1, <1>2, <1>3, <1>4, <1>5, <1>6, <1>7, <1>8, <1>9, <1>10, <1>11, <1>12, <1>13,
     <1>14, <1>15, <1>16, <1>17, <1>18, <1>19, <1>20, <1>21
     DEF Next, JobStep, ExecStep

LEMMA BatchInvariant == Spec => []BatchInv
<1>1. Init => BatchInv
  BY InitType, RestInit DEF BatchInv
<1>2. BatchInv /\ [Next]_vars => BatchInv'
  BY TypeStep, RestStep DEF BatchInv, Rest
<1> QED
  BY <1>1, <1>2, PTL DEF Spec

(* Whatever fails, the executions, the job, the outputs and the crawler    *)
(* stay what TypeOK says.                                                  *)
THEOREM BatchTypes == Spec => []TypeOK
BY BatchInvariant, PTL DEF BatchInv

(* A run current.json has ever named passed its gate and has its staging   *)
(* tables, both partitions and its summary.                                *)
THEOREM PointerLeadsToCompleteRuns == Spec => []NamedRunsAreComplete
<1>1. BatchInv => NamedRunsAreComplete
  BY DEF BatchInv, Rest
<1> QED
  BY <1>1, BatchInvariant, PTL

(* An execution that succeeded has named its run, and a crawl has seen its *)
(* tables.                                                                 *)
THEOREM SuccessMeansCataloged == Spec => []SuccessIsCataloged
<1>1. BatchInv => SuccessIsCataloged
  BY DEF BatchInv, Rest, CrawlSeesRun, SuccessIsCataloged
<1> QED
  BY <1>1, BatchInvariant, PTL

-----------------------------------------------------------------------------
(* The refinement: only PutPointer publishes, and a run the pointer named  *)
(* is past every write.                                                    *)
Tables == [r \in Named |-> [silver |-> silver[r], gold |-> gold[r]]]

LEMMA OnlyThePointerPublishes ==
    ASSUME [Next]_vars, ~PutPointer
    PROVE  UNCHANGED log
BY DEF Next, JobStep, ExecStep, Rewrite, Launch, LookAtCrawler, StartJob, StartCrawl,
       GiveUpCrawl, PollCrawler, StartJobUnanswered, StopExecution, Stage, PutReport,
       AssertEmpty, AppendSilver, AppendGold, PutSummary, Commit, JobRaises, JobDies,
       CrawlEnds, outputs, vars

LEMMA PublishedTablesStay ==
    ASSUME TypeOK, Rest, [Next]_vars, NEW r \in Named
    PROVE  silver'[r] = silver[r] /\ gold'[r] = gold[r]
<1>1. r \in Run
  BY DEF Named, TypeOK
<1>2. CASE UNCHANGED <<silver, gold>>
  BY <1>2
<1>3. CASE AppendSilver \/ AppendGold \/ JobDies
  <2>1. job.at \in {"silver", "gold"} => job.run # r
    BY <1>1, <1>3, JobParts
       DEF AppendSilver, AppendGold, JobDies, At, Rest, JobHasWritten, Written, TypeOK
  <2> QED
    BY <1>1, <1>3, <2>1 DEF AppendSilver, AppendGold, JobDies, At, TypeOK
<1> QED
  BY <1>2, <1>3
     DEF Next, JobStep, ExecStep, Rewrite, Launch, LookAtCrawler, StartJob, StartCrawl,
         GiveUpCrawl, PollCrawler, StartJobUnanswered, StopExecution, Stage, PutReport,
         AssertEmpty, PutSummary, PutPointer, Commit, JobRaises, CrawlEnds, outputs, vars

LEMMA PublicationStep ==
    ASSUME TypeOK, Rest, [Next]_vars
    PROVE  [P!PublicationNext]_<<log, Tables>>
<1>1. CASE ~PutPointer
  <2>1. log' = log /\ Named' = Named
    BY <1>1, OnlyThePointerPublishes, NamedStays
  <2>2. Tables' = Tables
    BY <2>1, PublishedTablesStay DEF Tables
  <2> QED
    BY <2>1, <2>2
<1>2. CASE PutPointer
  <2> DEFINE r == job.run
  <2>1. r \in Run /\ job.at = "pointer" /\ log' = Append(log, r) /\ UNCHANGED <<silver, gold>>
    BY <1>2, JobParts DEF PutPointer, At, TypeOK
  <2>2. r \notin Named /\ silver[r] \in Data /\ gold[r] \in Data
    BY <2>1, BatchAssumption DEF Rest, JobHasWritten, Written
  <2>3. Named' = Named \cup {r}
    BY <2>1, NamedGrows DEF TypeOK
  <2>4. Tables' = [s \in Named \cup {r} |->
                     IF s = r THEN [silver |-> silver[r], gold |-> gold[r]] ELSE Tables[s]]
    BY <2>1, <2>3 DEF Tables
  <2>5. P!Named = Named
    BY DEF P!Named, Named
  <2>6. PICK x \in Data, y \in Data : x = silver[r] /\ y = gold[r]
    BY <2>2
  <2>7. P!Publish(r, x, y)
    BY <2>1, <2>2, <2>4, <2>5, <2>6 DEF P!Publish, Tables
  <2>8. \E v, w \in Data : P!Publish(r, v, w)
    BY <2>7
  <2> QED
    BY <2>1, <2>8 DEF P!PublicationNext
<1> QED
  BY <1>1, <1>2

(* The pipeline implements Publication: the pointer names complete runs    *)
(* only, each at most once, and what a named run published never changes.  *)
THEOREM PipelinePublishesOnce == Spec => PublishesOnce
<1>1. Init => P!PublicationInit
  <2> SUFFICES ASSUME Init PROVE P!PublicationInit
    OBVIOUS
  <2>1. log = <<>> /\ Named = {}
    BY DEF Init, Named
  <2> QED
    BY <2>1 DEF P!PublicationInit
<1>2. BatchInv /\ [Next]_vars => [P!PublicationNext]_<<log, Tables>>
  BY PublicationStep DEF BatchInv
<1> QED
  BY <1>1, <1>2, BatchInvariant, PTL DEF Spec, PublishesOnce, P!PublicationSpec, Tables

=============================================================================
