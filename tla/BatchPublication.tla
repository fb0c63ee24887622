-------------------------- MODULE BatchPublication --------------------------
(***************************************************************************)
(* From a run of scripts/run-batch.ps1 to an approved publication: the     *)
(* input manifest, the Step Functions execution, the Glue job              *)
(* src/batch/transform.py, the crawler, and the pointer the dashboards     *)
(* follow.                                                                 *)
(*                                                                         *)
(* The job's data frames are not cached: every Spark action reads the raw  *)
(* objects again, as they are at that moment.  Raw objects are addressed   *)
(* by key alone, and a key may be written again (upload-batch.ps1 always   *)
(* writes raw/batch/historical.csv) or expire.                             *)
(***************************************************************************)
EXTENDS Naturals, Sequences

CONSTANTS Run,        \* publication run ids
          Object,     \* keys of raw objects
          Version,    \* contents a raw object can have
          Bad,        \* contents the quality gate refuses
          MaxRewrites, \* raw objects written again or expired
          MaxFaults,  \* calls, jobs, crawls and executions that fail
          None, Gone, Done, Broken

ASSUME BatchAssumption ==
    /\ Bad \subseteq Version
    /\ MaxRewrites \in Nat /\ MaxFaults \in Nat
    /\ None \notin Run /\ Gone \notin Version

(* Some raw objects with their contents: a manifest with its checksums, or *)
(* what a Spark action read.                                               *)
Data == UNION {[S -> Version] : S \in SUBSET Object}

ASSUME MarksAssumption ==
    /\ None \notin Data /\ Broken \notin Data
    /\ None \notin {Done, Broken} \cup BOOLEAN /\ Done # Broken

VARIABLES raw,        \* the raw objects
          exec,       \* per run, its Step Functions execution
          job,        \* the Glue job run in progress
          staged,     \* per run, staging/m3/<run>/: None, Done or Broken
          report,     \* per run, the verdict of its quality report
          silver,     \* per run, its partition of curated/silver
          gold,       \* per run, its partition of curated/gold
          summary,    \* runs with a KPI summary
          log,        \* the runs current.json has named, the last one now
          crawler,    \* the crawler, and how its last crawl went
          catalog,    \* runs whose silver partition the catalog knows
          rewrites,   \* bound: rewrites so far
          faults      \* bound: faults so far

outputs == <<staged, report, silver, gold, summary, log>>
catalogVars == <<crawler, catalog>>
bounds == <<rewrites, faults>>
rest == <<catalogVars, bounds>>
vars == <<raw, exec, job, outputs, catalogVars, bounds>>

Named == {log[i] : i \in DOMAIN log}

(* Where an execution can be.  The last five end it.                       *)
Ended == {"succeeded", "glue_failed", "overlapped", "crawl_failed", "stopped"}
Place == {"idle", "look", "start", "glue", "crawl", "poll"} \cup Ended

(* before: number of the crawler's last crawl when the execution looked, 0 *)
(* for none; tries: StartJobRun calls that failed.                         *)
Execution == [at : Place, input : Data \cup {None}, before : Nat, tries : 0..2]

(* The job's steps in order, named by the write or check that comes next.  *)
Step == {"stage", "report", "assert", "silver", "gold", "summary", "pointer",
         "commit"}

(* awaited: by the execution that started it, or by None.                  *)
JobOf(r, awaited) == [run |-> r, at |-> "stage", awaited |-> awaited]
NoJob == JobOf(None, None)
Job == [run : Run, at : Step, awaited : Run \cup {None}] \cup {NoJob}

Input == exec[job.run].input

(* There is input, and every raw object of it is still there to be read.   *)
Readable == DOMAIN Input # {} /\ \A o \in DOMAIN Input : raw[o] # Gone

(* What an action of the job reads now.                                    *)
Content == [o \in DOMAIN Input |-> raw[o]]

(* The gate: no conflicting event id, no pump without metadata, rows of    *)
(* both sources, every input row accounted for.                            *)
Passes == \A o \in DOMAIN Input : raw[o] \notin Bad

Verdict == IF Passes THEN "passed" ELSE "failed"

(* An execution moves on. *)
ExecAt(r, place) == [at |-> place, input |-> exec[r].input, before |-> exec[r].before,
                     tries |-> exec[r].tries]

Goes(r, place) == exec' = [exec EXCEPT ![r] = ExecAt(r, place)]

-----------------------------------------------------------------------------
Init ==
    /\ raw \in [Object -> Version]
    /\ exec = [r \in Run |-> [at |-> "idle", input |-> None,
                              before |-> 0, tries |-> 0]]
    /\ job = NoJob
    /\ staged = [r \in Run |-> None]
    /\ report = [r \in Run |-> "none"]
    /\ silver = [r \in Run |-> None]
    /\ gold = [r \in Run |-> None]
    /\ summary = {}
    /\ log = <<>>
    /\ crawler = [state |-> "ready", last |-> 0, status |-> "none", saw |-> {}]
    /\ catalog = {}
    /\ rewrites = 0 /\ faults = 0

(* Something goes wrong, as often as the bound allows. *)
Fault == faults < MaxFaults /\ faults' = faults + 1 /\ UNCHANGED rewrites

(* A raw object is uploaded again or overwritten, or its lifecycle ends.   *)
Rewrite(o) ==
    /\ rewrites < MaxRewrites /\ rewrites' = rewrites + 1
    /\ \E v \in Version \cup {Gone} : raw' = [raw EXCEPT ![o] = v]
    /\ UNCHANGED <<exec, job, outputs, catalogVars, faults>>

-----------------------------------------------------------------------------
(* run-batch.ps1: a manifest of the raw objects there are, or that of an   *)
(* earlier run, and an execution with a run id of its own.                 *)
Launch(r) ==
    /\ exec[r].at = "idle"
    /\ LET here == {o \in Object : raw[o] # Gone}
           earlier == {exec[s].input : s \in Run} \ {None}
       IN  \E m \in earlier \cup {[o \in here |-> raw[o]]} :
              exec' = [exec EXCEPT ![r] = [at |-> "look", input |-> m,
                                           before |-> 0, tries |-> 0]]
    /\ UNCHANGED <<raw, job, outputs, catalogVars, bounds>>

(* GetCrawlerBeforeRun. *)
LookAtCrawler(r) ==
    /\ exec[r].at = "look"
    /\ exec' = [exec EXCEPT ![r] = [at |-> "start", input |-> @.input,
                                    before |-> crawler.last, tries |-> @.tries]]
    /\ UNCHANGED <<raw, job, outputs, catalogVars, bounds>>

(* StartJobRun is accepted, or refused because another run is in progress. *)
StartJob(r) ==
    /\ exec[r].at = "start"
    /\ IF job = NoJob
       THEN /\ job' = JobOf(r, r)
            /\ Goes(r, "glue")
       ELSE /\ job' = job
            /\ Goes(r, "overlapped")
    /\ UNCHANGED <<raw, outputs, catalogVars, bounds>>

TriedAgain(r) == [at |-> "start", input |-> exec[r].input, before |-> exec[r].before,
                  tries |-> exec[r].tries + 1]

(* Mutation of StartJobUnanswered: a failed call is repeated for ever.     *)
StartJobForEver(r) ==
    /\ Fault
    /\ exec[r].at = "start"
    /\ job' \in {job, IF job = NoJob THEN JobOf(r, None) ELSE job}
    /\ exec' = [exec EXCEPT ![r] = TriedAgain(r)]
    /\ UNCHANGED <<raw, outputs, catalogVars>>

(* StartJobRun ends in a service error, whether or not a job was started:  *)
(* the state machine calls it again twice, then fails.                     *)
StartJobUnanswered(r) ==
    /\ Fault
    /\ exec[r].at = "start"
    /\ job' \in {job, IF job = NoJob THEN JobOf(r, None) ELSE job}
    /\ IF exec[r].tries = 2
       THEN Goes(r, "glue_failed")
       ELSE exec' = [exec EXCEPT ![r] = TriedAgain(r)]
    /\ UNCHANGED <<raw, outputs, catalogVars>>

-----------------------------------------------------------------------------
(* transform.py.  JobAt: the job goes on; JobEnds: its run is over, and an *)
(* execution that waits for it learns how it ended.                        *)
At(step) == job.run # None /\ job.at = step

JobAt(step) ==
    /\ job' = [run |-> job.run, at |-> step, awaited |-> job.awaited]
    /\ UNCHANGED exec

JobEnds(ok) ==
    /\ job' = NoJob
    /\ IF job.awaited # None
       THEN Goes(job.run, IF ok THEN "crawl" ELSE "glue_failed")
       ELSE UNCHANGED exec

(* The manifest is loaded, and the three staging tables are written, none  *)
(* of which may exist.                                                     *)
Stage ==
    /\ At("stage")
    /\ Readable /\ staged[job.run] = None
    /\ staged' = [staged EXCEPT ![job.run] = Done]
    /\ JobAt("report")
    /\ UNCHANGED <<raw, report, silver, gold, summary, log, rest>>

(* Mutation of PutReport: the gate's verdict is only reported.             *)
PutReportOnly ==
    /\ At("report")
    /\ Readable
    /\ report' = [report EXCEPT ![job.run] = Verdict]
    /\ JobAt("assert")
    /\ UNCHANGED <<raw, staged, silver, gold, summary, log, rest>>

(* The counts are taken and the report is put in any case; the gate stops  *)
(* the job if it failed.                                                   *)
PutReport ==
    /\ At("report")
    /\ Readable
    /\ report' = [report EXCEPT ![job.run] = Verdict]
    /\ IF Passes THEN JobAt("assert") ELSE JobEnds(FALSE)
    /\ UNCHANGED <<raw, staged, silver, gold, summary, log, rest>>

(* assert_prefix_empty on both partitions. *)
AssertEmpty ==
    /\ At("assert")
    /\ silver[job.run] = None /\ gold[job.run] = None
    /\ JobAt("silver")
    /\ UNCHANGED <<raw, outputs, catalogVars, bounds>>

(* Parquet files appended to a partition: alone they are the data read,    *)
(* beside files already there they are not.                                *)
Appended(partition) == IF partition = None THEN Content ELSE Broken

(* Mutation of AppendSilver: the pointer is put before gold is written.    *)
AppendSilverAndPoint ==
    /\ At("silver")
    /\ Readable
    /\ silver' = [silver EXCEPT ![job.run] = Appended(@)]
    /\ log' = Append(log, job.run)
    /\ JobAt("gold")
    /\ UNCHANGED <<raw, staged, report, gold, summary, rest>>

AppendSilver ==
    /\ At("silver")
    /\ Readable
    /\ silver' = [silver EXCEPT ![job.run] = Appended(@)]
    /\ JobAt("gold")
    /\ UNCHANGED <<raw, staged, report, gold, summary, log, rest>>

AppendGold ==
    /\ At("gold")
    /\ Readable
    /\ gold' = [gold EXCEPT ![job.run] = Appended(@)]
    /\ JobAt("summary")
    /\ UNCHANGED <<raw, staged, report, silver, summary, log, rest>>

PutSummary ==
    /\ At("summary")
    /\ Readable
    /\ summary' = summary \cup {job.run}
    /\ JobAt("pointer")
    /\ UNCHANGED <<raw, staged, report, silver, gold, log, rest>>

PutPointer ==
    /\ At("pointer")
    /\ log' = Append(log, job.run)
    /\ JobAt("commit")
    /\ UNCHANGED <<raw, staged, report, silver, gold, summary, rest>>

Commit ==
    /\ At("commit")
    /\ JobEnds(TRUE)
    /\ UNCHANGED <<raw, outputs, catalogVars, bounds>>

(* An exception of the job's own: nothing to read, or output that is there *)
(* already.                                                                *)
JobRaises ==
    /\ \/ job.run # None
          /\ job.at \in {"stage", "report", "silver", "gold", "summary"}
          /\ ~Readable
       \/ At("stage") /\ staged[job.run] # None
       \/ At("assert") /\ (silver[job.run] # None \/ gold[job.run] # None)
    /\ JobEnds(FALSE)
    /\ UNCHANGED <<raw, outputs, catalogVars, bounds>>

(* A call fails, a worker is lost or the job's timeout strikes, perhaps in *)
(* the middle of a table.                                                  *)
JobDies ==
    /\ Fault
    /\ job # NoJob
    /\ \/ UNCHANGED <<staged, silver, gold>>
       \/ /\ job.at = "stage" /\ staged[job.run] = None
          /\ staged' = [staged EXCEPT ![job.run] = Broken]
          /\ UNCHANGED <<silver, gold>>
       \/ /\ job.at = "silver"
          /\ silver' = [silver EXCEPT ![job.run] = Broken]
          /\ UNCHANGED <<staged, gold>>
       \/ /\ job.at = "gold"
          /\ gold' = [gold EXCEPT ![job.run] = Broken]
          /\ UNCHANGED <<staged, silver>>
    /\ JobEnds(FALSE)
    /\ UNCHANGED <<raw, report, summary, log, catalogVars>>

-----------------------------------------------------------------------------
(* StartCrawler; while a crawl is running it is tried again, five times.   *)
StartCrawl(r) ==
    /\ exec[r].at = "crawl"
    /\ crawler.state = "ready"
    /\ crawler' = [state |-> "running", last |-> crawler.last, status |-> crawler.status,
                   saw |-> {s \in Run : silver[s] # None}]
    /\ Goes(r, "poll")
    /\ UNCHANGED <<raw, job, outputs, catalog, bounds>>

GiveUpCrawl(r) ==
    /\ exec[r].at = "crawl"
    /\ \/ crawler.state = "running" /\ UNCHANGED bounds
       \/ Fault
    /\ Goes(r, "crawl_failed")
    /\ UNCHANGED <<raw, job, outputs, catalogVars>>

CrawlEnds ==
    /\ crawler.state = "running"
    /\ \E status \in {"succeeded", "failed"} :
          /\ IF status = "succeeded" THEN UNCHANGED bounds ELSE Fault
          /\ crawler' = [state |-> "ready", last |-> crawler.last + 1,
                         status |-> status, saw |-> {}]
          /\ catalog' = IF status = "succeeded" THEN catalog \cup crawler.saw ELSE catalog
    /\ UNCHANGED <<raw, exec, job, outputs>>

(* Mutations of CrawlIsOver: whatever crawl was last; only the very next.  *)
AnyCrawlIsOver(r) == TRUE

NextCrawlIsOver(r) == crawler.state = "ready" /\ crawler.last = exec[r].before + 1

(* IsCrawlerReadyAndFresh: ready, and its last crawl is not the one known  *)
(* from before the run.                                                    *)
CrawlIsOver(r) ==
    /\ crawler.state = "ready"
    /\ exec[r].before = 0 \/ crawler.last # exec[r].before

(* PollCrawler until then; DidCrawlSucceed. *)
PollCrawler(r) ==
    /\ exec[r].at = "poll"
    /\ CrawlIsOver(r)
    /\ Goes(r, IF crawler.status = "succeeded" THEN "succeeded" ELSE "crawl_failed")
    /\ UNCHANGED <<raw, job, outputs, catalogVars, bounds>>

(* The state machine's timeout, an abort, an error it does not catch.  Its *)
(* job goes on or dies by itself.                                          *)
StopExecution(r) ==
    /\ Fault
    /\ exec[r].at \notin Ended \cup {"idle"}
    /\ Goes(r, "stopped")
    /\ job' = IF job.run = r THEN [run |-> r, at |-> job.at, awaited |-> None] ELSE job
    /\ UNCHANGED <<raw, outputs, catalogVars>>

-----------------------------------------------------------------------------
JobStep ==
    Stage \/ PutReport \/ AssertEmpty \/ AppendSilver \/ AppendGold
          \/ PutSummary \/ PutPointer \/ Commit \/ JobRaises

ExecStep(r) ==
    LookAtCrawler(r) \/ StartJob(r) \/ StartCrawl(r) \/ GiveUpCrawl(r)
         \/ PollCrawler(r)

Next ==
    \/ \E o \in Object : Rewrite(o)
    \/ \E r \in Run : Launch(r) \/ ExecStep(r) \/ StartJobUnanswered(r)
                        \/ StopExecution(r)
    \/ JobStep \/ JobDies \/ CrawlEnds

Spec == Init /\ [][Next]_vars

(* Step Functions advances its executions, Glue runs its job and crawl to  *)
(* an end.  Nothing obliges anyone to launch, to read or to fail, nor the  *)
(* state machine's timeout to come.                                        *)
FairSpec ==
    /\ Spec
    /\ \A r \in Run : WF_vars(ExecStep(r))
    /\ WF_vars(JobStep)
    /\ WF_vars(CrawlEnds)

-----------------------------------------------------------------------------
TypeOK ==
    /\ raw \in [Object -> Version \cup {Gone}]
    /\ exec \in [Run -> Execution]
    /\ job \in Job
    /\ staged \in [Run -> {None, Done, Broken}]
    /\ report \in [Run -> {"none", "passed", "failed"}]
    /\ silver \in [Run -> Data \cup {None, Broken}]
    /\ gold \in [Run -> Data \cup {None, Broken}]
    /\ summary \subseteq Run
    /\ log \in Seq(Run)
    /\ crawler \in [state : {"ready", "running"}, last : Nat,
                    status : {"none", "succeeded", "failed"}, saw : SUBSET Run]
    /\ catalog \subseteq Run

(* "Readers therefore observe the previous approved run or a complete new  *)
(* run, never a partially written run": a run the pointer has ever named   *)
(* passed its gate and has all its tables and its summary, so a dashboard  *)
(* that got hold of a pointer finds what it leads to.                      *)
NamedRunsAreComplete ==
    \A r \in Named :
        /\ report[r] = "passed"
        /\ staged[r] = Done
        /\ silver[r] \in Data /\ gold[r] \in Data
        /\ r \in summary

(* The tables of every run the pointer has named, as a publication.        *)
P == INSTANCE Publication WITH
        tables <- [r \in Named |-> [silver |-> silver[r], gold |-> gold[r]]]

(* The pipeline keeps the promise made to the pointer's readers: complete  *)
(* runs only, each at most once, never changed afterwards, although a      *)
(* start whose answer was lost is repeated with the same run id.           *)
PublishesOnce == P!PublicationSpec

(* "A publish run is not done until the crawler finishes": an execution    *)
(* succeeds only after a crawl that saw its tables, whatever crawls of     *)
(* other executions came in between.                                       *)
SuccessIsCataloged ==
    \A r \in Run : exec[r].at = "succeeded" => r \in catalog \cap Named

(* An execution ends by itself, without the state machine's timeout: its   *)
(* wait for the crawler is over although others start crawls meanwhile.    *)
ExecutionEnds ==
    \A r \in Run : exec[r].at = "look" ~> exec[r].at \in Ended

-----------------------------------------------------------------------------
(* What the runbook says of a second run with one manifest: "it creates a  *)
(* new publication run partition from the identical input".                *)
ManifestFixesInput ==
    \A r \in Named : silver[r] = exec[r].input

=============================================================================
