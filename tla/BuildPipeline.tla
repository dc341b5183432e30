---------------------------- MODULE BuildPipeline ----------------------------
(***************************************************************************)
(* The build of a demo site for one business: stage 9 (contentDesign.ts),  *)
(* stage 10 (builder.ts), stage 11 (visualQa.ts), stage 12 (deploy.ts),    *)
(* the operator's commands on a build (buildReviewDecision.ts,             *)
(* buildFailureDecision.ts, startBuild, retryFailedJob) and the boot       *)
(* passes that repair builds (reconcile.ts).                               *)
(*                                                                         *)
(* A handler is split where other transactions get in: it reads, its agent *)
(* works for minutes, it commits its result with its continuation          *)
(* (commitWorkflow), and only a later transaction records the end of the   *)
(* job (processJob).  A crash in between runs the handler again.           *)
(*                                                                         *)
(* The ledger of attempts is module WorkflowQueue; here a job is named by  *)
(* its idempotency key and has the status of the latest run of that key.   *)
(***************************************************************************)
EXTENDS Naturals, FiniteSets, BusinessStatus

CONSTANTS
    Projects,         \* ids of site projects, drawn in order
    MaxQaIterations,  \* config.maxQaIterations
    Slots,            \* consumers of the agent-build queue
    NoCommand,        \* no stop command is open at the operator's desk
    MaxFaults,        \* bound: throws, pauses, crashes, failed calls
    MaxCommands       \* bound: commands of the operator

ASSUME BuildConstants ==
    /\ Projects \subseteq Nat \ {0}
    /\ MaxQaIterations \in Nat \ {0}
    /\ Slots \in Nat \ {0}
    /\ MaxFaults \in Nat
    /\ MaxCommands \in Nat

-----------------------------------------------------------------------------
(***************************************************************************)
(* Jobs: <<type, project, number>>.  The project of a content-and-design   *)
(* key is the one it replaces, 0 when there is none.                       *)
(***************************************************************************)
\* One round past the last one that may be built, to show that it never is.
Rounds == 0..MaxQaIterations + 1

\* The build-site job of an iteration the operator orders has a key of its own.
Ordered == MaxQaIterations + 2

FirstDesign == <<"content-and-design", 0, 0>>
GateRetry == <<"content-and-design", 0, 1>>
Rebuild == <<"content-and-design", 0, 2>>
Redesign(p) == <<"content-and-design", p, 0>>
Build(p, i) == <<"build-site", p, i>>
Qa(p, i) == <<"visual-qa", p, i>>
Deploy(p) == <<"deploy-demo", p, 0>>

DesignJobs == {FirstDesign, GateRetry, Rebuild} \cup {Redesign(p) : p \in Projects}
BuildJobs == {Build(p, i) : p \in Projects, i \in Rounds \cup {Ordered}}
QaJobs == {Qa(p, i) : p \in Projects, i \in Rounds}
DeployJobs == {Deploy(p) : p \in Projects}
AgentJobs == DesignJobs \cup BuildJobs \cup QaJobs
Jobs == AgentJobs \cup DeployJobs

ProjectOf(k) == k[2]

\* payload.iteration; the operator's order carries 1.
IterationOf(k) == IF k[3] = Ordered THEN 1 ELSE k[3]

DesignAttempt(k) == IF k = GateRetry THEN 2 ELSE 1

Active == {"queued", "running"}
Parked == {"failed", "needs_human"}
RunStatus == {"none", "succeeded", "skipped", "cancelled", "stale", "retrying"}
             \cup Active \cup Parked

\* Where the handler of a running job stands: it has read the business ("saw..."),
\* its agent works, its result is committed ("done", or "parked" when it is going
\* to end as needs_human), or its container died under it ("lost").
Steps == {"idle", "saw ready", "saw progress", "working", "done", "parked", "lost"}

ProjectState == {"none", "brief", "building", "qa", "ready", "needs_human_review",
                 "deployed", "failed", "cancelled"}
Transient == {"brief", "building", "qa"}
ActiveProject == Transient \cup {"ready", "needs_human_review"}
Closable == Transient \cup {"ready", "failed", "cancelled"}

\* What stands for the exported site in the workspace.
Exports == {"none", "unjudged", "passed", "accepted", "gone"}

VARIABLES
    status,    \* businesses.status
    gaps,      \* unresolved hard production gaps
    state,     \* site_projects.state
    round,     \* site_projects.qa_iterations
    export,    \* the workspace's out/, and whether QA or the operator judged it
    run,       \* the latest run of each key
    at,        \* where its handler stands
    sees,      \* QA jobs whose screenshots show the export as it is now
    desk,      \* a stop command of the operator between its read and its write: the job,
               \* the status it read, and whether its attempt is still the latest
    boot,      \* the boot passes of the core container
    faults, commands

project == <<state, round, export>>
queue == <<run, at, sees>>
bounds == <<faults, commands>>
vars == <<status, gaps, project, queue, desk, boot, bounds>>

TypeOK ==
    /\ status \in Statuses
    /\ gaps \in BOOLEAN
    /\ state \in [Projects -> ProjectState]
    /\ round \in [Projects -> Rounds]
    /\ export \in [Projects -> Exports]
    /\ run \in [Jobs -> RunStatus]
    /\ at \in [Jobs -> Steps]
    /\ sees \subseteq QaJobs
    /\ desk \in (Jobs \X Statuses \X BOOLEAN) \cup {NoCommand}
    /\ boot \in {"up", "stale", "fail", "revert"}
    /\ faults \in Nat
    /\ commands \in Nat

\* The business has passed scoring and waits for the readiness gate.
Init ==
    /\ status = "qualified"
    /\ gaps = FALSE
    /\ state = [p \in Projects |-> "none"]
    /\ round = [p \in Projects |-> 0]
    /\ export = [p \in Projects |-> "none"]
    /\ run = [k \in Jobs |-> "none"]
    /\ at = [k \in Jobs |-> "idle"]
    /\ sees = {}
    /\ desk = NoCommand
    /\ boot = "up"
    /\ faults = 0
    /\ commands = 0

Fault == faults < MaxFaults /\ faults' = faults + 1
Command == commands < MaxCommands /\ commands' = commands + 1

-----------------------------------------------------------------------------
(***************************************************************************)
(* Moves of a job.  A key with an active run takes no second one.          *)
(***************************************************************************)
IsActive(k) == run[k] \in Active

Enqueued(runs, k) == IF IsActive(k) THEN runs ELSE [runs EXCEPT ![k] = "queued"]

\* A key is enqueued anew while a stop command is open for its attempt: the attempt is no
\* longer the latest, and if a retry has closed it the command will find it closed.
Overtaken(k) ==
    IF desk = NoCommand \/ IsActive(k) THEN desk
    ELSE IF desk[1] # k \/ ~desk[3] THEN desk
    ELSE IF run[k] \in Parked THEN <<desk[1], desk[2], FALSE>>
    ELSE NoCommand

Working(k) == run[k] = "running" /\ at[k] = "working"

\* The handler commits; the end of its job is recorded by a later transaction.
Commits(k, runs, step) ==
    /\ run' = runs
    /\ at' = [at EXCEPT ![k] = step]

\* The handler ends and that is recorded with nothing committed before.
Ends(k, outcome) ==
    /\ run' = [run EXCEPT ![k] = outcome]
    /\ at' = [at EXCEPT ![k] = "idle"]

Skips(k) ==
    /\ Ends(k, "skipped")
    /\ sees' = sees \ {k}
    /\ UNCHANGED <<status, gaps, project, desk, boot, bounds>>

\* Mutant of Busy: only the builds are counted against the limit.
BusyBuilding == {k \in BuildJobs : run[k] = "running"}

\* The jobs the consumers of the agent-build queue are busy with.
Busy == {k \in AgentJobs : run[k] = "running"}

\* A consumer takes a job of the agent-build queue.
Takes(k, step) ==
    /\ run[k] = "queued"
    /\ Cardinality(Busy) < Slots
    /\ run' = [run EXCEPT ![k] = "running"]
    /\ at' = [at EXCEPT ![k] = step]

\* A handler throws before it commits: the job is retried (or resumes after a
\* pause), or its retries are used up.
Throw(k) ==
    /\ run[k] = "running"
    /\ at[k] \in {"saw ready", "saw progress", "working"}
    /\ Fault
    /\ \E outcome \in {"queued", "failed"} : Ends(k, outcome)
    /\ sees' = sees \ {k}
    /\ UNCHANGED <<status, gaps, project, desk, boot, commands>>

\* processJob records the end of a handler that has committed.  The workspace of
\* a deployed project was collected before, with the export in it.
Finish(k) ==
    /\ run[k] = "running"
    /\ at[k] \in {"done", "parked"}
    /\ Ends(k, IF at[k] = "parked" THEN "needs_human" ELSE "succeeded")
    /\ export' = IF k \in DeployJobs
                 THEN [export EXCEPT ![ProjectOf(k)] = "gone"] ELSE export
    /\ sees' = sees \ {k}
    /\ UNCHANGED <<status, gaps, state, round, desk, boot, bounds>>

-----------------------------------------------------------------------------
(***************************************************************************)
(* Stage 8: the readiness gate.                                            *)
(***************************************************************************)
Gateable == {"qualified", "needs_review"}

\* readinessHandler.  auto: the campaign is not paused, its stop-point lets a
\* build begin and its build policy wants this business.
Readiness(found, auto) ==
    /\ status \in Gateable
    /\ IF status = "qualified" THEN UNCHANGED commands ELSE Command
    /\ gaps' = found
    /\ status' = IF found THEN "needs_review" ELSE "production_ready"
    /\ IF ~found /\ auto
       THEN run' = Enqueued(run, FirstDesign) /\ desk' = Overtaken(FirstDesign)
       ELSE UNCHANGED <<run, desk>>
    /\ UNCHANGED <<project, at, sees, boot, faults>>

-----------------------------------------------------------------------------
(***************************************************************************)
(* Stage 9: content and design.                                            *)
(***************************************************************************)

\* contentDesignHandler reads the status.
DesignReads(k) ==
    /\ Allowed(status, "site_in_progress")
    /\ Takes(k, IF status = "production_ready" THEN "saw ready" ELSE "saw progress")
    /\ UNCHANGED <<status, gaps, project, sees, desk, boot, bounds>>

\* From any other status the move to site_in_progress is illegal: every retry
\* throws, unless the status comes back in between.
DesignIllegal(k) ==
    /\ run[k] = "queued"
    /\ ~Allowed(status, "site_in_progress")
    /\ Ends(k, "failed")
    /\ UNCHANGED <<status, gaps, project, sees, desk, boot, bounds>>

\* Mutant of StillAsRead: the move is written without comparing the status.
NotCompared(k) == TRUE

StillAsRead(k) ==
    status = IF at[k] = "saw ready" THEN "production_ready" ELSE "site_in_progress"

\* The compare-and-set to site_in_progress; a loser is skipped.
DesignClaims(k) ==
    /\ run[k] = "running"
    /\ at[k] \in {"saw ready", "saw progress"}
    /\ IF StillAsRead(k)
       THEN /\ status' = "site_in_progress"
            /\ at' = [at EXCEPT ![k] = "working"]
            /\ UNCHANGED <<gaps, project, run, sees, desk, boot, bounds>>
       ELSE Skips(k)

\* routeDesignGate: a rejected first attempt is retried once, under a stable key.
DesignRetries(k) ==
    /\ Working(k)
    /\ DesignAttempt(k) = 1
    /\ Commits(k, Enqueued(run, GateRetry), "done")
    /\ desk' = Overtaken(GateRetry)
    /\ UNCHANGED <<status, gaps, project, sees, boot, bounds>>

\* ... a second attempt below the wow floor ends at the operator's desk.
DesignRejected(k) ==
    /\ Working(k)
    /\ DesignAttempt(k) = 2
    /\ Ends(k, "needs_human")
    /\ UNCHANGED <<status, gaps, project, sees, desk, boot, bounds>>

\* The contract is frozen: a new project and its build job, in one transaction.
DesignCommits(k) ==
    /\ Working(k)
    /\ \E p \in Projects :
        /\ state[p] = "none"
        /\ \A q \in Projects : q < p => state[q] # "none"
        /\ state' = [state EXCEPT ![p] = "brief"]
        /\ Commits(k, Enqueued(run, Build(p, 0)), "done")
        /\ desk' = Overtaken(Build(p, 0))
    /\ UNCHANGED <<status, gaps, round, export, sees, boot, bounds>>

-----------------------------------------------------------------------------
(***************************************************************************)
(* Stage 10: the builder.                                                  *)
(***************************************************************************)

\* Mutant of Buildable: whatever was not closed is buildable.
BuildableUntilClosed == ActiveProject

Buildable == Transient

\* buildSiteHandler claims the project; its agent rewrites the workspace from
\* here on, so no screenshot shows it and no verdict is about it any more.
BuildStarts(k) ==
    LET p == ProjectOf(k) IN
    /\ Takes(k, "working")
    /\ state[p] \in Buildable
    /\ state' = [state EXCEPT ![p] = "building"]
    /\ export' = [export EXCEPT ![p] = "unjudged"]
    /\ sees' = {j \in sees : ProjectOf(j) # p}
    /\ UNCHANGED <<status, gaps, round, desk, boot, bounds>>

\* A project that was cancelled, failed or went on is not built.
BuildStale(k) ==
    /\ run[k] = "queued"
    /\ state[ProjectOf(k)] \notin Buildable
    /\ Skips(k)

\* The frozen contract is of an older version: the factory was updated since.
\* The project is closed and its design is made anew.
BuildRegenerates(k) ==
    LET p == ProjectOf(k) IN
    /\ Working(k)
    /\ k[3] = 0
    /\ state[p] = "building"
    /\ Fault
    /\ state' = [state EXCEPT ![p] = "failed"]
    /\ Commits(k, Enqueued(run, Redesign(p)), "done")
    /\ desk' = Overtaken(Redesign(p))
    /\ UNCHANGED <<status, gaps, round, export, sees, boot, commands>>

\* The independent build is green: hand over to QA, unless the project was
\* stopped while the agent worked.
BuildCommits(k) ==
    LET p == ProjectOf(k) IN
    /\ Working(k)
    /\ IF state[p] = "building"
       THEN /\ state' = [state EXCEPT ![p] = "qa"]
            /\ Commits(k, Enqueued(run, Qa(p, IterationOf(k))), "done")
            /\ UNCHANGED <<status, gaps, round, export, sees, desk, boot, bounds>>
       ELSE Skips(k)

-----------------------------------------------------------------------------
(***************************************************************************)
(* Stage 11: visual QA.                                                    *)
(***************************************************************************)

\* visualQaHandler serves the export and takes its screenshots.
QaStarts(k) ==
    /\ Takes(k, "working")
    /\ sees' = sees \cup {k}
    /\ UNCHANGED <<status, gaps, project, desk, boot, bounds>>

\* The guard of a verdict: the project still waits for this iteration's.
Judges(k) ==
    /\ state[ProjectOf(k)] = "qa"
    /\ round[ProjectOf(k)] = IterationOf(k)

Counted(k) == [round EXCEPT ![ProjectOf(k)] = IterationOf(k) + 1]

\* No blocking issue: on to the deploy.
QaPasses(k) ==
    LET p == ProjectOf(k) IN
    /\ Working(k)
    /\ IF Judges(k)
       THEN /\ state' = [state EXCEPT ![p] = "ready"]
            /\ round' = Counted(k)
            /\ export' = [export EXCEPT ![p] = IF k \in sees THEN "passed" ELSE @]
            /\ Commits(k, Enqueued(run, Deploy(p)), "done")
            /\ desk' = Overtaken(Deploy(p))
            /\ UNCHANGED <<status, gaps, sees, boot, bounds>>
       ELSE Skips(k)

\* A page with nothing but motion issues gets one more round.
LastRound(k, motionOnly) ==
    IterationOf(k) + 1 >= MaxQaIterations + (IF motionOnly THEN 1 ELSE 0)

\* parkBuildForHumanReview compares the project and the business.
Parks(k) ==
    /\ state[ProjectOf(k)] = "qa"
    /\ status = "site_in_progress"

\* The rounds are used up: project and business are parked in one transaction,
\* then the workspace is tidied and the job ends as needs_human.
QaParks(k) ==
    LET p == ProjectOf(k) IN
    /\ Working(k)
    /\ \E motionOnly \in BOOLEAN : LastRound(k, motionOnly)
    /\ IF Parks(k)
       THEN /\ state' = [state EXCEPT ![p] = "needs_human_review"]
            /\ status' = "needs_review"
            /\ round' = Counted(k)
            /\ Commits(k, run, "parked")
            /\ UNCHANGED <<gaps, export, sees, desk, boot, bounds>>
       ELSE Skips(k)

\* Another round in the same workspace.
QaFeedsBack(k) ==
    LET p == ProjectOf(k) IN
    /\ Working(k)
    /\ \E motionOnly \in BOOLEAN : ~LastRound(k, motionOnly)
    /\ IF Judges(k)
       THEN /\ round' = Counted(k)
            /\ Commits(k, Enqueued(run, Build(p, IterationOf(k) + 1)), "done")
            /\ desk' = Overtaken(Build(p, IterationOf(k) + 1))
            /\ UNCHANGED <<status, gaps, state, export, sees, boot, bounds>>
       ELSE Skips(k)

-----------------------------------------------------------------------------
(***************************************************************************)
(* Stage 12: the deploy, in the core container.                            *)
(***************************************************************************)
InBuildFlow == status \in {"site_in_progress", "site_ready"}

\* deployHandler before its effects.
DeployStarts(k) ==
    LET p == ProjectOf(k) IN
    /\ boot = "up"
    /\ run[k] = "queued"
    /\ IF state[p] \notin {"ready", "deployed"} \/ (InBuildFlow /\ export[p] = "gone")
       THEN /\ Ends(k, "failed")
            /\ UNCHANGED <<status, gaps, project, sees, desk, boot, bounds>>
       ELSE IF ~InBuildFlow THEN Skips(k)
       ELSE /\ run' = [run EXCEPT ![k] = "running"]
            /\ at' = [at EXCEPT ![k] = "working"]
            /\ UNCHANGED <<status, gaps, project, sees, desk, boot, bounds>>

\* The locked re-check: project first, then business.
DeployFits(p) == state[p] \in {"ready", "deployed"} /\ InBuildFlow

\* The copy is served and healthy: project, business and the request for
\* approval (module Outreach takes it from there) in one transaction.
DeployCommits(k) ==
    LET p == ProjectOf(k) IN
    /\ Working(k)
    /\ IF DeployFits(p)
       THEN /\ state' = [state EXCEPT ![p] = "deployed"]
            /\ status' = "site_ready"
            /\ Commits(k, run, "done")
            /\ UNCHANGED <<gaps, round, export, sees, desk, boot, bounds>>
       ELSE Skips(k)

-----------------------------------------------------------------------------
(***************************************************************************)
(* The operator's commands.                                                *)
(***************************************************************************)

\* The parked QA job of a project is closed by the decision about it.
ReviewClosed(p) ==
    [k \in Jobs |-> IF k \in QaJobs /\ ProjectOf(k) = p /\ run[k] = "needs_human"
                    THEN "cancelled" ELSE run[k]]

AwaitsDecision(p) == state[p] = "needs_human_review" /\ status = "needs_review"

\* executeBuildReviewDecision, deploy_as_is: publish what QA refused.
DeployAsIs(p) ==
    /\ AwaitsDecision(p)
    /\ Command
    /\ state' = [state EXCEPT ![p] = "ready"]
    /\ status' = "site_in_progress"
    /\ export' = [export EXCEPT ![p] = "accepted"]
    /\ run' = Enqueued(ReviewClosed(p), Deploy(p))
    /\ desk' = Overtaken(Deploy(p))
    /\ UNCHANGED <<gaps, round, at, sees, boot, faults>>

\* ... another_iteration: the counter restarts, the job carries iteration 1.
AnotherIteration(p) ==
    /\ AwaitsDecision(p)
    /\ Command
    /\ state' = [state EXCEPT ![p] = "building"]
    /\ status' = "site_in_progress"
    /\ round' = [round EXCEPT ![p] = 0]
    /\ run' = Enqueued(ReviewClosed(p), Build(p, Ordered))
    /\ desk' = Overtaken(Build(p, Ordered))
    /\ UNCHANGED <<gaps, export, at, sees, boot, faults>>

\* ... reject: claimBuildReviewDecision, with no successor.
RejectBuild(p) ==
    /\ AwaitsDecision(p)
    /\ Command
    /\ state' = [state EXCEPT ![p] = "failed"]
    /\ status' = "rejected"
    /\ run' = ReviewClosed(p)
    /\ UNCHANGED <<gaps, round, export, at, sees, desk, boot, faults>>

\* startBuild: only with nothing of a build alive.
StartBuild ==
    /\ Command
    /\ status = "production_ready" \/ (status = "needs_review" /\ ~gaps)
    /\ \A k \in Jobs : ~IsActive(k)
    /\ \A p \in Projects : state[p] \notin ActiveProject
    /\ status' = "production_ready"
    /\ run' = Enqueued(run, FirstDesign)
    /\ desk' = Overtaken(FirstDesign)
    /\ UNCHANGED <<gaps, project, at, sees, boot, faults>>

\* startBuild with `fresh`: what a dead build left behind is closed, so that an open
\* stop command finds its attempt closed, unless a retry has it and may put it back
\* (but not as the latest of its key once this one is enqueued).
StartFreshBuild ==
    /\ Command
    /\ status \in {"production_ready", "site_in_progress"} \/ (status = "needs_review" /\ ~gaps)
    /\ \A k \in Jobs : ~IsActive(k)
    /\ status' = "production_ready"
    /\ state' = [p \in Projects |-> IF state[p] \in ActiveProject THEN "cancelled" ELSE state[p]]
    /\ run' = [k \in Jobs |-> IF k = Rebuild THEN "queued"
                              ELSE IF run[k] \in Parked THEN "cancelled" ELSE run[k]]
    /\ desk' = IF desk # NoCommand /\ desk[3] /\ desk[1] # Rebuild /\ run[desk[1]] = "retrying"
               THEN desk ELSE NoCommand
    /\ UNCHANGED <<gaps, round, export, at, sees, boot, faults>>

\* stopFailedBuild reads the attempt and the business ...
StopReads(k) ==
    /\ desk = NoCommand
    /\ k \notin QaJobs
    /\ run[k] \in Parked
    /\ Command
    /\ desk' = <<k, status, TRUE>>
    /\ UNCHANGED <<status, gaps, project, queue, boot, faults>>

\* ... and closes the attempt, its project and the build of the business, which
\* it leaves alone when its status is no longer the one it read.
StopWrites ==
    /\ desk # NoCommand
    /\ LET k == desk[1]  p == ProjectOf(k)  expected == desk[2]  latest == desk[3] IN
       IF latest => run[k] \in Parked
       THEN /\ run' = IF latest THEN [run EXCEPT ![k] = "cancelled"] ELSE run
            /\ state' = IF k \notin DesignJobs /\ state[p] \in Closable
                        THEN [state EXCEPT ![p] = "cancelled"] ELSE state
            /\ status' = IF expected \in {"site_in_progress", "needs_review"} /\ status = expected
                         THEN "production_ready" ELSE status
       ELSE UNCHANGED <<run, state, status>>
    /\ desk' = NoCommand
    /\ UNCHANGED <<gaps, round, export, at, sees, boot, bounds>>

\* retryFailedJob, in the console: the attempt is closed first ...
RetryClaims(k) ==
    /\ run[k] \in Parked
    /\ Command
    /\ run' = [run EXCEPT ![k] = "retrying"]
    /\ UNCHANGED <<status, gaps, project, at, sees, desk, boot, faults>>

\* A stop command that is open for the attempt finds it closed and does nothing.
StopOutrun(k) == IF desk # NoCommand /\ desk[1] = k /\ desk[3] THEN NoCommand ELSE desk

\* ... and its payload is enqueued by a call to the factory; a call that fails
\* puts the attempt back; a console that dies never makes the call.
RetryEnqueues(k) ==
    /\ run[k] = "retrying"
    /\ \/ /\ run' = [run EXCEPT ![k] = "queued"]
          /\ desk' = StopOutrun(k)
          /\ UNCHANGED faults
       \/ /\ Fault
          /\ run' = [run EXCEPT ![k] = "failed"]
          /\ UNCHANGED desk
    /\ UNCHANGED <<status, gaps, project, at, sees, boot, commands>>

\* The operator takes the business out of the build by force.
GiveUp ==
    /\ status \notin {"qualified", "rejected"}
    /\ status' = "rejected"
    /\ UNCHANGED <<gaps, project, queue, desk, boot, bounds>>

-----------------------------------------------------------------------------
(***************************************************************************)
(* Restarts.                                                               *)
(***************************************************************************)

\* factory-build: its handlers die, and at its boot requeueOrphanedBuildJobs
\* puts their jobs back into the queue before a consumer is registered.
RestartBuilders ==
    /\ Fault
    /\ \E k \in AgentJobs : run[k] = "running"
    /\ run' = [k \in Jobs |-> IF k \in AgentJobs /\ run[k] = "running" THEN "queued" ELSE run[k]]
    /\ at' = [k \in Jobs |-> IF k \in AgentJobs THEN "idle" ELSE at[k]]
    /\ sees' = {}
    /\ UNCHANGED <<status, gaps, project, desk, boot, commands>>

\* factory: a deploy dies with it and is closed at a later boot, when pg-boss
\* has expired its job; then come the passes of reconcileOnStartup.
RestartCore ==
    /\ Fault
    /\ boot = "up"
    /\ at' = [k \in Jobs |-> IF k \in DeployJobs /\ run[k] = "running" THEN "lost" ELSE at[k]]
    /\ boot' = "stale"
    /\ UNCHANGED <<status, gaps, project, run, sees, desk, commands>>

\* markStaleJobs.
MarkStale ==
    /\ boot = "stale"
    /\ \E expired \in SUBSET {k \in DeployJobs : at[k] = "lost"} :
        /\ run' = [k \in Jobs |-> IF k \in expired THEN "stale" ELSE run[k]]
        /\ at' = [k \in Jobs |-> IF k \in expired THEN "idle" ELSE at[k]]
    /\ boot' = "fail"
    /\ UNCHANGED <<status, gaps, project, sees, desk, bounds>>

\* Mutant of NothingAlive: only a running job counts.
NothingRunning == \A k \in Jobs : run[k] # "running"

NothingAlive == \A k \in Jobs : ~IsActive(k)

\* failInterruptedBuilds.
FailInterrupted ==
    /\ boot = "fail"
    /\ state' = [p \in Projects |-> IF NothingAlive /\ state[p] \in Transient
                                    THEN "failed" ELSE state[p]]
    /\ boot' = "revert"
    /\ UNCHANGED <<status, gaps, round, export, queue, desk, bounds>>

\* revertStrandedBusinesses: only a business no build has produced anything for.
RevertStranded ==
    /\ boot = "revert"
    /\ status' = IF /\ status = "site_in_progress"
                    /\ NothingAlive
                    /\ \A p \in Projects : state[p] = "none"
                 THEN "production_ready" ELSE status
    /\ boot' = "up"
    /\ UNCHANGED <<gaps, project, queue, desk, bounds>>

-----------------------------------------------------------------------------
Design(k) == DesignReads(k) \/ DesignIllegal(k) \/ DesignClaims(k) \/ DesignRetries(k)
             \/ DesignRejected(k) \/ DesignCommits(k)
Builder(k) == BuildStarts(k) \/ BuildStale(k) \/ BuildRegenerates(k) \/ BuildCommits(k)
VisualQa(k) == QaStarts(k) \/ QaPasses(k) \/ QaParks(k) \/ QaFeedsBack(k)
Deployer(k) == DeployStarts(k) \/ DeployCommits(k)

Decides(p) == DeployAsIs(p) \/ AnotherIteration(p) \/ RejectBuild(p)

Next ==
    \/ \E found, auto \in BOOLEAN : Readiness(found, auto)
    \/ \E k \in DesignJobs : Design(k)
    \/ \E k \in BuildJobs : Builder(k)
    \/ \E k \in QaJobs : VisualQa(k)
    \/ \E k \in DeployJobs : Deployer(k)
    \/ \E k \in Jobs : Throw(k) \/ Finish(k)
    \/ \E p \in Projects : Decides(p)
    \/ StartBuild \/ StartFreshBuild \/ StopWrites \/ GiveUp
    \/ \E k \in Jobs : StopReads(k) \/ RetryClaims(k) \/ RetryEnqueues(k)
    \/ RestartBuilders \/ RestartCore \/ MarkStale \/ FailInterrupted \/ RevertStranded

Spec == Init /\ [][Next]_vars

-----------------------------------------------------------------------------
(***************************************************************************)
(* Fairness: the queue redelivers and its consumers poll, a handler returns *)
(* or is ended by its time limit, boots and commands run to their end.     *)
(* Nothing is assumed of the operator, and nothing of a fault.             *)
(***************************************************************************)
Fairness ==
    /\ \A k \in DesignJobs : WF_vars(Design(k))
    /\ \A k \in BuildJobs : WF_vars(Builder(k))
    /\ \A k \in QaJobs : WF_vars(VisualQa(k))
    /\ \A k \in DeployJobs : WF_vars(Deployer(k))
    /\ \A k \in Jobs : WF_vars(Finish(k))
    /\ WF_vars(StopWrites)
    /\ WF_vars(MarkStale \/ FailInterrupted \/ RevertStranded)

FairSpec == Spec /\ Fairness

-----------------------------------------------------------------------------
(***************************************************************************)
(* Properties.                                                             *)
(***************************************************************************)

\* "no endless cycles": whatever is retried, redelivered or ordered anew, no round
\* past the budget of MAX_QA_ITERATIONS (one more for motion alone) is built or judged.
RoundsBounded ==
    \A k \in BuildJobs \cup QaJobs : k[3] = MaxQaIterations + 1 => run[k] = "none"

\* What is published, or is going to be, was judged as it is: its export was not
\* touched after the verdict of QA or the operator's acceptance.  It is true with
\* one consumer of the agent-build queue, the default; with two, a build redelivered
\* after its container died rewrites the export while QA looks at it.
Judged == {p \in Projects : export[p] \in {"passed", "accepted", "gone"}}
PublishedWasJudged == \A p \in Projects : state[p] \in {"ready", "deployed"} => p \in Judged

\* A business the operator took out stays out: no claim, park, deploy, decision or
\* boot pass that was on its way when he did draws it back into the build.
RejectedStays == [][status = "rejected" => status' = "rejected"]_vars

\* The pipeline implements what DemoLifecycle promises about every demo.
Stage(p) ==
    CASE state[p] = "none" -> "unborn"
      [] state[p] \in Transient -> "made"
      [] state[p] = "needs_human_review" -> "refused"
      [] state[p] = "ready" -> "approved"
      [] state[p] = "deployed" -> "public"
      [] OTHER -> "dead"

Demo == INSTANCE DemoLifecycle WITH
            Demos <- Projects, stage <- [p \in Projects |-> Stage(p)], judged <- Judged

DemoPromise == Demo!Spec

\* Something of the build is the operator's to settle: an attempt that failed, waits
\* for him or went stale, one whose retry was lost with the console, and a deploy
\* that died with its container and goes stale at a later boot.
OnDesk ==
    \E k \in Jobs : run[k] \in Parked \cup {"stale", "retrying"} \/ at[k] = "lost"

\* An iteration was ordered: its verdict may be dropped, see OrderedIsJudged.
IterationOrdered == \E p \in Projects : run[Build(p, Ordered)] # "none"

\* A business in the build never hangs there with nothing going on and nothing on
\* the operator's desk: it is published or taken out of the build, or it waits for him.
\* One fault is what the code carries, and one consumer is assumed. After two faults a
\* retry may find its project closed by a boot and be skipped as stale, or a redelivered
\* build of an earlier round may make both verdicts drop; a gate of a second consumer may
\* meet the key of the first still running. Nobody's inbox then holds the business.
BuildSettles ==
    status = "site_in_progress"
        ~> (status # "site_in_progress" \/ OnDesk \/ IterationOrdered \/ faults > 1)

\* "The iteration counter RESTARTS at 0: MAX_QA_ITERATIONS is a budget per run, and
\* this is a new run that a human authorised": an iteration the operator ordered is
\* built and then judged, it is not left in QA with no job to judge it.
OrderedIsJudged ==
    \A p \in Projects :
        run[Build(p, Ordered)] = "succeeded" /\ NothingAlive /\ status = "site_in_progress"
            => state[p] # "qa"
=============================================================================
