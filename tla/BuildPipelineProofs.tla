------------------------- MODULE BuildPipelineProofs -------------------------
(***************************************************************************)
(* What the build pipeline guarantees for any number of projects, rounds   *)
(* and commands, checked by TLAPS: types, the budget of rounds, what stays *)
(* rejected, what is published and what DemoLifecycle promises for any     *)
(* number of faults, that a business in the build is carried up to the     *)
(* first one.                                                              *)
(***************************************************************************)
EXTENDS BuildPipeline, FiniteSetTheorems, TLAPS

\* The agent-build queue has one consumer: no two agents work at a time.
OneAgent == \A j, k \in Busy : j = k

\* While QA looks at an export nobody else works on it.
SeesCurrent == \A k \in QaJobs : run[k] = "running" => k \in sees

\* A deploy that has committed has published its project.
DeployedDone ==
    \A k \in DeployJobs : at[k] \in {"done", "parked"} => state[ProjectOf(k)] = "deployed"

RInv == TypeOK /\ RoundsBounded

PInv == RInv /\ OneAgent /\ SeesCurrent /\ PublishedWasJudged /\ DeployedDone

-----------------------------------------------------------------------------
\* The kinds of jobs, with the project and the round their keys name.
LEMMA JobKinds ==
    /\ FirstDesign \in DesignJobs /\ GateRetry \in DesignJobs /\ Rebuild \in DesignJobs
    /\ \A p \in Projects :
        /\ Redesign(p) \in DesignJobs
        /\ Deploy(p) \in DeployJobs
        /\ Build(p, Ordered) \in BuildJobs /\ Build(p, Ordered)[3] = Ordered
        /\ \A i \in Rounds : /\ Build(p, i) \in BuildJobs /\ Build(p, i)[3] = i
                             /\ Qa(p, i) \in QaJobs /\ Qa(p, i)[3] = i
    /\ \A k \in BuildJobs \cup QaJobs \cup DeployJobs : ProjectOf(k) \in Projects
    /\ \A k \in DesignJobs : k[1] = "content-and-design"
    /\ \A k \in BuildJobs : k[1] = "build-site" /\ k[3] \in Rounds \cup {Ordered}
    /\ \A k \in QaJobs : k[1] = "visual-qa" /\ k[3] \in Rounds
    /\ \A k \in DeployJobs : k[1] = "deploy-demo"
    /\ Jobs = DesignJobs \cup BuildJobs \cup QaJobs \cup DeployJobs
    /\ AgentJobs = DesignJobs \cup BuildJobs \cup QaJobs
BY DEF FirstDesign, GateRetry, Rebuild, Redesign, Deploy, Build, Qa, DesignJobs, BuildJobs,
       QaJobs, DeployJobs, Jobs, AgentJobs, ProjectOf

\* The iteration of a job within the budget is within the budget.
LEMMA Iterations ==
    /\ 0 \in Rounds /\ 1 \in Rounds /\ Ordered # MaxQaIterations + 1
    /\ \A k \in BuildJobs \cup QaJobs :
        k[3] # MaxQaIterations + 1 => /\ IterationOf(k) \in Rounds
                                      /\ IterationOf(k) + 1 \in Rounds
                                      /\ IterationOf(k) # MaxQaIterations + 1
BY BuildConstants, JobKinds, SMT DEF Rounds, Ordered, IterationOf

-----------------------------------------------------------------------------
(***************************************************************************)
(* Types.                                                                  *)
(***************************************************************************)

\* The values the actions write.
LEMMA Words ==
    /\ "queued" \in RunStatus /\ "running" \in RunStatus /\ "failed" \in RunStatus
    /\ "needs_human" \in RunStatus /\ "succeeded" \in RunStatus /\ "skipped" \in RunStatus
    /\ "cancelled" \in RunStatus /\ "stale" \in RunStatus /\ "retrying" \in RunStatus
    /\ "idle" \in Steps /\ "saw ready" \in Steps /\ "saw progress" \in Steps
    /\ "working" \in Steps /\ "done" \in Steps /\ "parked" \in Steps /\ "lost" \in Steps
    /\ "brief" \in ProjectState /\ "building" \in ProjectState /\ "qa" \in ProjectState
    /\ "ready" \in ProjectState /\ "needs_human_review" \in ProjectState
    /\ "deployed" \in ProjectState /\ "failed" \in ProjectState /\ "cancelled" \in ProjectState
    /\ "unjudged" \in Exports /\ "passed" \in Exports /\ "accepted" \in Exports
    /\ "gone" \in Exports
    /\ "needs_review" \in Statuses /\ "production_ready" \in Statuses
    /\ "site_in_progress" \in Statuses /\ "site_ready" \in Statuses /\ "rejected" \in Statuses
BY DEF RunStatus, Active, Parked, Steps, ProjectState, Exports, Statuses

\* A command whose key is enqueued anew stays one, of the same job.
LEMMA OvertakenTyped ==
    ASSUME TypeOK
    PROVE  \A k : Overtaken(k) \in (Jobs \X Statuses \X BOOLEAN) \cup {NoCommand}
<1> TAKE k
<1>1. desk \in (Jobs \X Statuses \X BOOLEAN) \cup {NoCommand}
  BY DEF TypeOK
<1>2. CASE Overtaken(k) \in {desk, NoCommand}
  BY <1>1, <1>2
<1>3. CASE desk # NoCommand /\ Overtaken(k) = <<desk[1], desk[2], FALSE>>
  <2>1. PICK j \in Jobs, s \in Statuses, b \in BOOLEAN : desk = <<j, s, b>>
    BY <1>1, <1>3
  <2>2. Overtaken(k) = <<j, s, FALSE>>
    BY <1>3, <2>1
  <2>3. <<j, s, FALSE>> \in Jobs \X Statuses \X BOOLEAN
    OBVIOUS
  <2> QED
    BY <2>2, <2>3
<1> QED
  BY <1>2, <1>3 DEF Overtaken

\* A write to one entry of a table keeps its type.
LEMMA Writes ==
    ASSUME TypeOK
    PROVE  /\ \A k : \A s \in RunStatus : [run EXCEPT ![k] = s] \in [Jobs -> RunStatus]
           /\ \A k : \A s \in Steps : [at EXCEPT ![k] = s] \in [Jobs -> Steps]
           /\ \A p : \A s \in ProjectState : [state EXCEPT ![p] = s] \in [Projects -> ProjectState]
           /\ \A p : \A s \in Exports : [export EXCEPT ![p] = s] \in [Projects -> Exports]
           /\ \A p : \A i \in Rounds : [round EXCEPT ![p] = i] \in [Projects -> Rounds]
           /\ \A k : \A r \in [Jobs -> RunStatus] : Enqueued(r, k) \in [Jobs -> RunStatus]
BY Words DEF TypeOK, Enqueued

\* The counters of the bounds stay numbers.
LEMMA Counters ==
    ASSUME TypeOK
    PROVE  (Fault => faults' \in Nat) /\ (Command => commands' \in Nat)
BY DEF TypeOK, Fault, Command

\* A handler that is skipped changes its job only.
LEMMA SkipTyped ==
    ASSUME TypeOK, NEW k \in Jobs, Skips(k)
    PROVE  TypeOK'
BY Words, Writes DEF TypeOK, Skips, Ends, project, bounds

\* The round a verdict writes: of a job that runs, so of one within the budget.
LEMMA CountedTyped ==
    ASSUME RInv, NEW k \in QaJobs, Working(k)
    PROVE  Counted(k) \in [Projects -> Rounds]
<1>1. k[3] # MaxQaIterations + 1
  BY DEF RInv, RoundsBounded, Working
<1>2. IterationOf(k) + 1 \in Rounds
  BY <1>1, Iterations
<1> QED
  BY <1>2, Writes DEF RInv, Counted

\* The builder and the design stage.
LEMMA DesignTyped ==
    ASSUME TypeOK, NEW k \in DesignJobs, Design(k)
    PROVE  TypeOK'
<1> USE JobKinds, Words, Writes, OvertakenTyped
<1>1. CASE DesignReads(k)
  BY <1>1 DEF TypeOK, DesignReads, Takes, project, bounds
<1>2. CASE DesignIllegal(k)
  BY <1>2 DEF TypeOK, DesignIllegal, Ends, project, bounds
<1>3. CASE DesignClaims(k)
  <2>1. CASE StillAsRead(k)
    <3>1. /\ status' = "site_in_progress"
          /\ at' = [at EXCEPT ![k] = "working"]
          /\ UNCHANGED <<gaps, project, run, sees, desk, boot, bounds>>
      BY <1>3, <2>1 DEF DesignClaims
    <3> QED
      BY <3>1 DEF TypeOK, project, bounds
  <2>2. CASE ~StillAsRead(k)
    BY <1>3, <2>2, SkipTyped DEF DesignClaims
  <2> QED
    BY <2>1, <2>2
<1>4. CASE DesignRetries(k)
  BY <1>4 DEF TypeOK, DesignRetries, Commits, project, bounds
<1>5. CASE DesignRejected(k)
  BY <1>5 DEF TypeOK, DesignRejected, Ends, project, bounds
<1>6. CASE DesignCommits(k)
  <2> PICK p \in Projects : /\ state' = [state EXCEPT ![p] = "brief"]
                            /\ Commits(k, Enqueued(run, Build(p, 0)), "done")
                            /\ desk' = Overtaken(Build(p, 0))
    BY <1>6 DEF DesignCommits
  <2> QED
    BY <1>6 DEF TypeOK, DesignCommits, Commits, bounds
<1> QED
  BY <1>1, <1>2, <1>3, <1>4, <1>5, <1>6 DEF Design

LEMMA BuilderTyped ==
    ASSUME TypeOK, NEW k \in BuildJobs, Builder(k)
    PROVE  TypeOK'
<1> USE JobKinds, Words, Writes
<1>1. CASE BuildStarts(k)
  BY <1>1 DEF TypeOK, BuildStarts, Takes, bounds
<1>2. CASE BuildStale(k)
  BY <1>2, SkipTyped DEF BuildStale
<1>3. CASE BuildRegenerates(k)
  BY <1>3, Counters, OvertakenTyped DEF TypeOK, BuildRegenerates, Commits
<1>4. CASE BuildCommits(k)
  <2>1. CASE state[ProjectOf(k)] = "building"
    <3> DEFINE p == ProjectOf(k)
    <3>1. /\ state' = [state EXCEPT ![p] = "qa"]
          /\ run' = Enqueued(run, Qa(p, IterationOf(k)))
          /\ at' = [at EXCEPT ![k] = "done"]
          /\ UNCHANGED <<status, gaps, round, export, sees, desk, boot, bounds>>
      BY <1>4, <2>1 DEF BuildCommits, Commits
    <3> HIDE DEF p
    <3> QED
      BY <3>1 DEF TypeOK, bounds
  <2>2. CASE state[ProjectOf(k)] # "building"
    BY <1>4, <2>2, SkipTyped DEF BuildCommits
  <2> QED
    BY <2>1, <2>2
<1> QED
  BY <1>1, <1>2, <1>3, <1>4 DEF Builder

LEMMA VisualQaTyped ==
    ASSUME RInv, NEW k \in QaJobs, VisualQa(k)
    PROVE  TypeOK'
<1> USE JobKinds, Words, Writes
<1>0. TypeOK /\ ProjectOf(k) \in Projects
  BY DEF RInv
<1>1. CASE QaStarts(k)
  <2>1. /\ run' = [run EXCEPT ![k] = "running"] /\ at' = [at EXCEPT ![k] = "working"]
        /\ sees' = sees \cup {k}
        /\ UNCHANGED <<status, gaps, project, desk, boot, bounds>>
    BY <1>1 DEF QaStarts, Takes
  <2>2. run \in [Jobs -> RunStatus] /\ at \in [Jobs -> Steps] /\ sees \subseteq QaJobs
    BY <1>0 DEF TypeOK
  <2>3. run' \in [Jobs -> RunStatus]
    BY <2>1, <2>2
  <2>4. at' \in [Jobs -> Steps]
    BY <2>1, <2>2
  <2>5. sees' \subseteq QaJobs
    BY <2>1, <2>2
  <2> QED
    BY <1>0, <2>1, <2>3, <2>4, <2>5 DEF TypeOK, project, bounds
<1>2. CASE QaPasses(k)
  <2>1. CASE Judges(k)
    <3> DEFINE p == ProjectOf(k)
    <3>1. export[p] \in Exports
      BY <1>0 DEF TypeOK
    <3>2. /\ state' = [state EXCEPT ![p] = "ready"]
          /\ round' = Counted(k)
          /\ export' = [export EXCEPT ![p] = IF k \in sees THEN "passed" ELSE export[p]]
          /\ run' = Enqueued(run, Deploy(p))
          /\ at' = [at EXCEPT ![k] = "done"]
          /\ desk' = Overtaken(Deploy(p))
          /\ UNCHANGED <<status, gaps, sees, boot, bounds>>
      BY <1>2, <2>1 DEF QaPasses, Commits
    <3>3. round' \in [Projects -> Rounds]
      BY <1>2, <3>2, CountedTyped DEF QaPasses
    <3>4. export' \in [Projects -> Exports]
      BY <1>0, <3>1, <3>2
    <3> HIDE DEF p
    <3> QED
      BY <1>0, <3>2, <3>3, <3>4, OvertakenTyped DEF TypeOK, bounds
  <2>2. CASE ~Judges(k)
    BY <1>0, <1>2, <2>2, SkipTyped DEF QaPasses
  <2> QED
    BY <2>1, <2>2
<1>3. CASE QaParks(k)
  <2>1. CASE Parks(k)
    <3> DEFINE p == ProjectOf(k)
    <3>1. /\ state' = [state EXCEPT ![p] = "needs_human_review"]
          /\ status' = "needs_review"
          /\ round' = Counted(k)
          /\ run' = run
          /\ at' = [at EXCEPT ![k] = "parked"]
          /\ UNCHANGED <<gaps, export, sees, desk, boot, bounds>>
      BY <1>3, <2>1 DEF QaParks, Commits
    <3>2. round' \in [Projects -> Rounds]
      BY <1>3, <3>1, CountedTyped DEF QaParks
    <3> HIDE DEF p
    <3> QED
      BY <1>0, <3>1, <3>2 DEF TypeOK, bounds
  <2>2. CASE ~Parks(k)
    BY <1>0, <1>3, <2>2, SkipTyped DEF QaParks
  <2> QED
    BY <2>1, <2>2
<1>4. CASE QaFeedsBack(k)
  <2>1. CASE Judges(k)
    <3> DEFINE j == Build(ProjectOf(k), IterationOf(k) + 1)
    <3>1. /\ round' = Counted(k)
          /\ run' = Enqueued(run, j)
          /\ at' = [at EXCEPT ![k] = "done"]
          /\ desk' = Overtaken(j)
          /\ UNCHANGED <<status, gaps, state, export, sees, boot, bounds>>
      BY <1>4, <2>1 DEF QaFeedsBack, Commits
    <3>2. round' \in [Projects -> Rounds]
      BY <1>4, <3>1, CountedTyped DEF QaFeedsBack
    <3> HIDE DEF j
    <3> QED
      BY <1>0, <3>1, <3>2, OvertakenTyped DEF TypeOK, bounds
  <2>2. CASE ~Judges(k)
    BY <1>0, <1>4, <2>2, SkipTyped DEF QaFeedsBack
  <2> QED
    BY <2>1, <2>2
<1> QED
  BY <1>1, <1>2, <1>3, <1>4 DEF VisualQa

LEMMA DeployerTyped ==
    ASSUME TypeOK, NEW k \in DeployJobs, Deployer(k)
    PROVE  TypeOK'
<1> USE JobKinds, Words, Writes
<1>1. CASE DeployStarts(k)
  <2>1. CASE Skips(k)
    BY <2>1, SkipTyped
  <2>2. CASE ~Skips(k)
    <3>1. /\ \/ run' = [run EXCEPT ![k] = "failed"] /\ at' = [at EXCEPT ![k] = "idle"]
             \/ run' = [run EXCEPT ![k] = "running"] /\ at' = [at EXCEPT ![k] = "working"]
          /\ UNCHANGED <<status, gaps, project, sees, desk, boot, bounds>>
      BY <1>1, <2>2, Zenon DEF DeployStarts, Ends
    <3>2. run' \in [Jobs -> RunStatus] /\ at' \in [Jobs -> Steps]
      <4>1. CASE run' = [run EXCEPT ![k] = "failed"] /\ at' = [at EXCEPT ![k] = "idle"]
        BY <4>1
      <4>2. CASE run' = [run EXCEPT ![k] = "running"] /\ at' = [at EXCEPT ![k] = "working"]
        BY <4>2
      <4> QED
        BY <3>1, <4>1, <4>2
    <3> QED
      BY <3>1, <3>2 DEF TypeOK, project, bounds
  <2> QED
    BY <2>1, <2>2
<1>2. CASE DeployCommits(k)
  <2>1. CASE DeployFits(ProjectOf(k))
    <3> DEFINE p == ProjectOf(k)
    <3>1. /\ state' = [state EXCEPT ![p] = "deployed"]
          /\ status' = "site_ready"
          /\ run' = run
          /\ at' = [at EXCEPT ![k] = "done"]
          /\ UNCHANGED <<gaps, round, export, sees, desk, boot, bounds>>
      BY <1>2, <2>1 DEF DeployCommits, Commits
    <3> HIDE DEF p
    <3> QED
      BY <3>1 DEF TypeOK, bounds
  <2>2. CASE ~DeployFits(ProjectOf(k))
    BY <1>2, <2>2, SkipTyped DEF DeployCommits
  <2> QED
    BY <2>1, <2>2
<1> QED
  BY <1>1, <1>2 DEF Deployer

LEMMA JobsTyped ==
    ASSUME TypeOK, NEW k \in Jobs, Throw(k) \/ Finish(k)
    PROVE  TypeOK'
<1> USE JobKinds, Words, Writes
<1>1. CASE Throw(k)
  <2> PICK outcome \in {"queued", "failed"} : Ends(k, outcome)
    BY <1>1 DEF Throw
  <2>1. run' \in [Jobs -> RunStatus] /\ at' \in [Jobs -> Steps]
    BY DEF Ends
  <2> QED
    BY <1>1, <2>1, Counters DEF TypeOK, Throw, project
<1>2. CASE Finish(k)
  BY <1>2 DEF TypeOK, Finish, Ends, bounds
<1> QED
  BY <1>1, <1>2

LEMMA DecisionTyped ==
    ASSUME TypeOK, NEW p \in Projects, Decides(p)
    PROVE  TypeOK'
<1> USE JobKinds, Words, Writes, OvertakenTyped
<1>0. ReviewClosed(p) \in [Jobs -> RunStatus]
  BY DEF TypeOK, ReviewClosed
<1>1. CASE DeployAsIs(p)
  BY <1>0, <1>1, Counters DEF TypeOK, DeployAsIs
<1>2. CASE AnotherIteration(p)
  BY <1>0, <1>2, Counters, Iterations DEF TypeOK, AnotherIteration
<1>3. CASE RejectBuild(p)
  BY <1>0, <1>3, Counters DEF TypeOK, RejectBuild
<1> QED
  BY <1>1, <1>2, <1>3 DEF Decides

LEMMA CommandTyped ==
    ASSUME TypeOK,
           \/ StartBuild \/ StartFreshBuild \/ StopWrites \/ GiveUp
           \/ \E k \in Jobs : StopReads(k) \/ RetryClaims(k) \/ RetryEnqueues(k)
    PROVE  TypeOK'
<1> USE JobKinds, Words, Writes, Counters, OvertakenTyped
<1>1. CASE StartBuild
  BY <1>1 DEF TypeOK, StartBuild, project
<1>2. CASE StartFreshBuild
  BY <1>2 DEF TypeOK, StartFreshBuild
<1>3. CASE StopWrites
  <2>1. desk \in Jobs \X Statuses \X BOOLEAN
    BY <1>3 DEF TypeOK, StopWrites
  <2>2. run' \in [Jobs -> RunStatus] /\ state' \in [Projects -> ProjectState] /\ status' \in Statuses
    <3>1. CASE desk[3] => run[desk[1]] \in Parked
      <4> DEFINE k == desk[1]
      <4>1. /\ run' = [run EXCEPT ![k] = "cancelled"] \/ run' = run
            /\ state' = [state EXCEPT ![ProjectOf(k)] = "cancelled"] \/ state' = state
            /\ status' = "production_ready" \/ status' = status
        BY <1>3, <3>1 DEF StopWrites
      <4> HIDE DEF k
      <4> QED
        <5>1. run' \in [Jobs -> RunStatus]
          <6>1. CASE run' = run
            BY <6>1 DEF TypeOK
          <6>2. CASE run' = [run EXCEPT ![k] = "cancelled"]
            BY <6>2
          <6> QED
            BY <4>1, <6>1, <6>2
        <5>2. state' \in [Projects -> ProjectState]
          <6>1. CASE state' = state
            BY <6>1 DEF TypeOK
          <6>2. CASE state' = [state EXCEPT ![ProjectOf(k)] = "cancelled"]
            BY <6>2
          <6> QED
            BY <4>1, <6>1, <6>2
        <5>3. status' \in Statuses
          <6>1. status \in Statuses
            BY DEF TypeOK
          <6> QED
            BY <4>1, <6>1
        <5> QED
          BY <5>1, <5>2, <5>3
    <3>2. CASE ~(desk[3] => run[desk[1]] \in Parked)
      <4>1. UNCHANGED <<run, state, status>>
        BY <1>3, <3>2 DEF StopWrites
      <4> QED
        BY <4>1 DEF TypeOK
    <3> QED
      BY <3>1, <3>2
  <2> QED
    BY <1>3, <2>2 DEF TypeOK, StopWrites, bounds
<1>4. CASE GiveUp
  BY <1>4 DEF TypeOK, GiveUp, project, queue, bounds
<1>5. ASSUME NEW k \in Jobs, StopReads(k) PROVE TypeOK'
  BY <1>5 DEF TypeOK, StopReads, project, queue
<1>6. ASSUME NEW k \in Jobs, RetryClaims(k) PROVE TypeOK'
  BY <1>6 DEF TypeOK, RetryClaims, project
<1>7. ASSUME NEW k \in Jobs, RetryEnqueues(k) PROVE TypeOK'
  <2>1. run' \in [Jobs -> RunStatus]
    <3> PICK s \in RunStatus : run' = [run EXCEPT ![k] = s]
      BY <1>7 DEF RetryEnqueues
    <3> QED
      OBVIOUS
  <2>3. desk' \in (Jobs \X Statuses \X BOOLEAN) \cup {NoCommand}
    BY <1>7 DEF TypeOK, RetryEnqueues, StopOutrun
  <2>2. faults' \in Nat
    BY <1>7 DEF TypeOK, RetryEnqueues
  <2> QED
    BY <1>7, <2>1, <2>2, <2>3 DEF TypeOK, RetryEnqueues, project
<1> QED
  BY <1>1, <1>2, <1>3, <1>4, <1>5, <1>6, <1>7

LEMMA BootTyped ==
    ASSUME TypeOK,
           RestartBuilders \/ RestartCore \/ MarkStale \/ FailInterrupted \/ RevertStranded
    PROVE  TypeOK'
<1> USE JobKinds, Words, Writes, Counters
<1>1. CASE RestartBuilders
  BY <1>1 DEF TypeOK, RestartBuilders, project
<1>2. CASE RestartCore
  BY <1>2 DEF TypeOK, RestartCore, project
<1>3. CASE MarkStale
  <2> PICK expired \in SUBSET {k \in DeployJobs : at[k] = "lost"} :
        /\ run' = [k \in Jobs |-> IF k \in expired THEN "stale" ELSE run[k]]
        /\ at' = [k \in Jobs |-> IF k \in expired THEN "idle" ELSE at[k]]
    BY <1>3 DEF MarkStale
  <2>1. run' \in [Jobs -> RunStatus] /\ at' \in [Jobs -> Steps]
    BY DEF TypeOK
  <2> QED
    BY <1>3, <2>1 DEF TypeOK, MarkStale, project, bounds
<1>4. CASE FailInterrupted
  BY <1>4 DEF TypeOK, FailInterrupted, queue, bounds
<1>5. CASE RevertStranded
  BY <1>5 DEF TypeOK, RevertStranded, project, queue, bounds
<1> QED
  BY <1>1, <1>2, <1>3, <1>4, <1>5

-----------------------------------------------------------------------------
(***************************************************************************)
(* The budget of rounds.                                                   *)
(***************************************************************************)

\* The jobs of the round past the last.
Over == {k \in BuildJobs \cup QaJobs : k[3] = MaxQaIterations + 1}

\* What is enqueued by name is not among them.
LEMMA NotOver ==
    /\ FirstDesign \notin Over /\ GateRetry \notin Over /\ Rebuild \notin Over
    /\ \A p \in Projects :
        /\ Redesign(p) \notin Over /\ Deploy(p) \notin Over
        /\ Build(p, 0) \notin Over /\ Build(p, Ordered) \notin Over
<1>1. \A k \in DesignJobs \cup DeployJobs : k \notin Over
  BY JobKinds DEF Over
<1>2. \A p \in Projects : Build(p, 0) \notin Over /\ Build(p, Ordered) \notin Over
  <2>1. 0 # MaxQaIterations + 1 /\ Ordered # MaxQaIterations + 1
    BY BuildConstants, SMT DEF Ordered
  <2> QED
    BY <2>1, JobKinds, Iterations DEF Over
<1> QED
  BY <1>1, <1>2, JobKinds

\* An enqueued job is the only one whose status changes, and it does not run.
LEMMA EnqueuedOnly ==
    ASSUME NEW r \in [Jobs -> RunStatus], NEW j, NEW k \in Jobs
    PROVE  /\ k # j => Enqueued(r, j)[k] = r[k]
           /\ Enqueued(r, j)[k] = "running" => r[k] = "running"
BY DEF Enqueued, IsActive, Active

\* A step that touches none of them keeps the budget.
LEMMA BudgetKept ==
    ASSUME RoundsBounded, \A k \in Over : run[k] = "none" => run'[k] = "none"
    PROVE  RoundsBounded'
BY DEF RoundsBounded, Over

LEMMA OverNone ==
    ASSUME RInv
    PROVE  \A k \in Over : k \in Jobs /\ run[k] = "none"
BY JobKinds DEF RInv, RoundsBounded, Over

\* A move of a job that is under way or waits.
LEMMA MoveKeepsBudget ==
    ASSUME RInv, NEW k \in Jobs, run[k] # "none", NEW s, run' = [run EXCEPT ![k] = s]
    PROVE  RoundsBounded'
BY OverNone, BudgetKept DEF RInv, TypeOK

LEMMA EnqueueKeepsBudget ==
    ASSUME RInv, NEW j, j \notin Over, run' = Enqueued(run, j)
    PROVE  RoundsBounded'
<1>1. \A k \in Over : run'[k] = run[k]
  BY OverNone, EnqueuedOnly DEF RInv, TypeOK
<1> QED
  BY <1>1, BudgetKept DEF RInv

LEMMA FrameKeepsBudget ==
    ASSUME RInv, run' = run
    PROVE  RoundsBounded'
BY DEF RInv, RoundsBounded

\* The handlers.
LEMMA HandlersKeepBudget ==
    ASSUME RInv,
           \/ \E k \in DesignJobs : Design(k)
           \/ \E k \in BuildJobs : Builder(k)
           \/ \E k \in QaJobs : VisualQa(k)
           \/ \E k \in DeployJobs : Deployer(k)
           \/ \E k \in Jobs : Throw(k) \/ Finish(k)
    PROVE  RoundsBounded'
<1>0. \A k \in DesignJobs \cup BuildJobs \cup QaJobs \cup DeployJobs : k \in Jobs
  BY JobKinds
<1>1. ASSUME NEW k \in DesignJobs, Design(k) PROVE RoundsBounded'
  <2>1. CASE DesignReads(k)
    BY <1>0, <2>1, MoveKeepsBudget DEF DesignReads, Takes
  <2>2. CASE DesignIllegal(k)
    BY <1>0, <2>2, MoveKeepsBudget DEF DesignIllegal, Ends
  <2>3. CASE DesignClaims(k)
    BY <1>0, <2>3, MoveKeepsBudget, FrameKeepsBudget DEF DesignClaims, Skips, Ends
  <2>4. CASE DesignRetries(k)
    BY <2>4, EnqueueKeepsBudget, NotOver DEF DesignRetries, Commits
  <2>5. CASE DesignRejected(k)
    BY <1>0, <2>5, MoveKeepsBudget DEF DesignRejected, Working, Ends
  <2>6. CASE DesignCommits(k)
    BY <2>6, EnqueueKeepsBudget, NotOver DEF DesignCommits, Commits
  <2> QED
    BY <1>1, <2>1, <2>2, <2>3, <2>4, <2>5, <2>6 DEF Design
<1>2. ASSUME NEW k \in BuildJobs, Builder(k) PROVE RoundsBounded'
  <2>0. k \in Jobs /\ ProjectOf(k) \in Projects
    BY JobKinds
  <2>1. CASE BuildStarts(k)
    BY <2>0, <2>1, MoveKeepsBudget DEF BuildStarts, Takes
  <2>2. CASE BuildStale(k)
    BY <2>0, <2>2, MoveKeepsBudget DEF BuildStale, Skips, Ends
  <2>3. CASE BuildRegenerates(k)
    BY <2>0, <2>3, EnqueueKeepsBudget, NotOver DEF BuildRegenerates, Commits
  <2>4. CASE BuildCommits(k)
    <3>1. CASE state[ProjectOf(k)] = "building"
      <4> DEFINE j == Qa(ProjectOf(k), IterationOf(k))
      <4>1. k[3] # MaxQaIterations + 1
        BY <2>4 DEF RInv, RoundsBounded, BuildCommits, Working
      <4>2. IterationOf(k) \in Rounds /\ IterationOf(k) # MaxQaIterations + 1
        BY <4>1, Iterations
      <4>3. j \notin Over
        BY <2>0, <4>2, JobKinds DEF Over
      <4>4. run' = Enqueued(run, j)
        BY <2>4, <3>1 DEF BuildCommits, Commits
      <4> QED
        BY <4>3, <4>4, EnqueueKeepsBudget
    <3>2. CASE state[ProjectOf(k)] # "building"
      BY <2>0, <2>4, <3>2, MoveKeepsBudget DEF BuildCommits, Working, Skips, Ends
    <3> QED
      BY <3>1, <3>2
  <2> QED
    BY <1>2, <2>1, <2>2, <2>3, <2>4 DEF Builder
<1>3. ASSUME NEW k \in QaJobs, VisualQa(k) PROVE RoundsBounded'
  <2>0. k \in Jobs /\ ProjectOf(k) \in Projects
    BY JobKinds
  <2>1. CASE QaStarts(k)
    BY <2>0, <2>1, MoveKeepsBudget DEF QaStarts, Takes
  <2>2. CASE QaPasses(k)
    <3>1. CASE Judges(k)
      BY <2>0, <2>2, <3>1, EnqueueKeepsBudget, NotOver DEF QaPasses, Commits
    <3>2. CASE ~Judges(k)
      BY <2>0, <2>2, <3>2, MoveKeepsBudget DEF QaPasses, Working, Skips, Ends
    <3> QED
      BY <3>1, <3>2
  <2>3. CASE QaParks(k)
    BY <2>0, <2>3, MoveKeepsBudget, FrameKeepsBudget DEF QaParks, Commits, Working, Skips, Ends
  <2>4. CASE QaFeedsBack(k)
    <3>1. CASE Judges(k)
      <4> DEFINE j == Build(ProjectOf(k), IterationOf(k) + 1)
      <4>1. k[3] # MaxQaIterations + 1
        BY <2>4 DEF RInv, RoundsBounded, QaFeedsBack, Working
      <4>2. IterationOf(k) \in Rounds /\ IterationOf(k) + 1 \in Rounds
        BY <4>1, Iterations
      <4>3. IterationOf(k) + 1 # MaxQaIterations + 1
        <5> PICK motionOnly \in BOOLEAN : ~LastRound(k, motionOnly)
          BY <2>4 DEF QaFeedsBack
        <5> QED
          BY <4>2, BuildConstants, SMT DEF LastRound, Rounds
      <4>4. j \notin Over
        BY <2>0, <4>2, <4>3, JobKinds DEF Over
      <4>5. run' = Enqueued(run, j)
        BY <2>4, <3>1 DEF QaFeedsBack, Commits
      <4> QED
        BY <4>4, <4>5, EnqueueKeepsBudget
    <3>2. CASE ~Judges(k)
      BY <2>0, <2>4, <3>2, MoveKeepsBudget DEF QaFeedsBack, Working, Skips, Ends
    <3> QED
      BY <3>1, <3>2
  <2> QED
    BY <1>3, <2>1, <2>2, <2>3, <2>4 DEF VisualQa
<1>4. ASSUME NEW k \in DeployJobs, Deployer(k) PROVE RoundsBounded'
  <2>1. CASE DeployStarts(k)
    <3>1. run[k] = "queued" /\ \E s \in RunStatus : run' = [run EXCEPT ![k] = s]
      BY <2>1, Words DEF DeployStarts, Skips, Ends
    <3> QED
      BY <1>0, <3>1, MoveKeepsBudget
  <2>2. CASE DeployCommits(k)
    BY <1>0, <2>2, MoveKeepsBudget, FrameKeepsBudget DEF DeployCommits, Commits, Working, Skips, Ends
  <2> QED
    BY <1>4, <2>1, <2>2 DEF Deployer
<1>5. ASSUME NEW k \in Jobs, Throw(k) PROVE RoundsBounded'
  BY <1>5, MoveKeepsBudget DEF Throw, Ends
<1>6. ASSUME NEW k \in Jobs, Finish(k) PROVE RoundsBounded'
  BY <1>6, MoveKeepsBudget DEF Finish, Ends
<1> QED
  BY <1>1, <1>2, <1>3, <1>4, <1>5, <1>6

\* The gate, the operator and the boots.
LEMMA OthersKeepBudget ==
    ASSUME RInv,
           \/ \E found, auto \in BOOLEAN : Readiness(found, auto)
           \/ \E p \in Projects : Decides(p)
           \/ StartBuild \/ StartFreshBuild \/ StopWrites \/ GiveUp
           \/ \E k \in Jobs : StopReads(k) \/ RetryClaims(k) \/ RetryEnqueues(k)
           \/ RestartBuilders \/ RestartCore \/ MarkStale \/ FailInterrupted \/ RevertStranded
    PROVE  RoundsBounded'
<1>0. \A k \in Over : k \in Jobs /\ run[k] = "none"
  BY OverNone
<1>1. ASSUME NEW found \in BOOLEAN, NEW auto \in BOOLEAN, Readiness(found, auto)
      PROVE  RoundsBounded'
  BY <1>1, EnqueueKeepsBudget, FrameKeepsBudget, NotOver DEF Readiness
<1>2. ASSUME NEW p \in Projects, Decides(p) PROVE RoundsBounded'
  <2>1. ReviewClosed(p) \in [Jobs -> RunStatus]
    BY Words DEF ReviewClosed, RInv, TypeOK
  <2>2. \A k \in Over : ReviewClosed(p)[k] = "none"
    BY <1>0 DEF ReviewClosed
  <2>3. \/ run' = ReviewClosed(p)
        \/ \E j : j \notin Over /\ run' = Enqueued(ReviewClosed(p), j)
    BY <1>2, NotOver DEF Decides, DeployAsIs, AnotherIteration, RejectBuild
  <2>4. \A k \in Over : run'[k] = "none"
    BY <1>0, <2>1, <2>2, <2>3, EnqueuedOnly
  <2> QED
    BY <2>4, BudgetKept DEF RInv
<1>3. CASE StartBuild
  BY <1>3, EnqueueKeepsBudget, NotOver DEF StartBuild
<1>4. CASE StartFreshBuild
  <2>1. \A k \in Over : k # Rebuild /\ run[k] \notin Parked
    BY <1>0, NotOver DEF Parked
  <2>2. \A k \in Over : run'[k] = run[k]
    BY <1>0, <1>4, <2>1 DEF StartFreshBuild
  <2> QED
    BY <2>2, BudgetKept DEF RInv
<1>5. CASE StopWrites
  <2>1. CASE desk[3] /\ run[desk[1]] \in Parked
    <3>1. run' = [run EXCEPT ![desk[1]] = "cancelled"]
      BY <1>5, <2>1 DEF StopWrites
    <3>2. \A k \in Over : run'[k] = run[k]
      BY <1>0, <2>1, <3>1 DEF RInv, TypeOK, Parked
    <3> QED
      BY <3>2, BudgetKept DEF RInv
  <2>2. CASE ~(desk[3] /\ run[desk[1]] \in Parked)
    BY <1>5, <2>2, FrameKeepsBudget DEF StopWrites
  <2> QED
    BY <2>1, <2>2
<1>6. CASE GiveUp
  BY <1>6, FrameKeepsBudget DEF GiveUp, queue
<1>7. ASSUME NEW k \in Jobs, StopReads(k) PROVE RoundsBounded'
  BY <1>7, FrameKeepsBudget DEF StopReads, queue
<1>8. ASSUME NEW k \in Jobs, RetryClaims(k) PROVE RoundsBounded'
  BY <1>8, MoveKeepsBudget DEF RetryClaims, Parked
<1>9. ASSUME NEW k \in Jobs, RetryEnqueues(k) PROVE RoundsBounded'
  BY <1>9, MoveKeepsBudget DEF RetryEnqueues
<1>10. CASE RestartBuilders
  BY <1>0, <1>10, BudgetKept DEF RestartBuilders, RInv
<1>11. CASE RestartCore
  BY <1>11, FrameKeepsBudget DEF RestartCore
<1>12. CASE MarkStale
  <2> PICK expired \in SUBSET {k \in DeployJobs : at[k] = "lost"} :
        run' = [k \in Jobs |-> IF k \in expired THEN "stale" ELSE run[k]]
    BY <1>12 DEF MarkStale
  <2>1. \A k \in Over : k \notin expired
    BY JobKinds DEF Over
  <2> QED
    BY <1>0, <2>1, BudgetKept DEF RInv
<1>13. CASE FailInterrupted
  BY <1>13, FrameKeepsBudget DEF FailInterrupted, queue
<1>14. CASE RevertStranded
  BY <1>14, FrameKeepsBudget DEF RevertStranded, queue
<1> QED
  BY <1>1, <1>2, <1>3, <1>4, <1>5, <1>6, <1>7, <1>8, <1>9, <1>10, <1>11, <1>12, <1>13, <1>14

-----------------------------------------------------------------------------
\* Readiness is typed.
LEMMA GateTyped ==
    ASSUME TypeOK, NEW found \in BOOLEAN, NEW auto \in BOOLEAN, Readiness(found, auto)
    PROVE  TypeOK'
<1> USE Words, Writes, JobKinds
<1>1. commands' \in Nat /\ faults' \in Nat
  <2>0. UNCHANGED faults /\ (UNCHANGED commands \/ Command)
    BY DEF Readiness
  <2>1. faults \in Nat /\ commands \in Nat
    BY DEF TypeOK
  <2> QED
    BY <2>0, <2>1, Counters
<1>2. run' \in [Jobs -> RunStatus]
  <2>1. run' = run \/ run' = Enqueued(run, FirstDesign)
    BY DEF Readiness
  <2>2. CASE run' = run
    BY <2>2 DEF TypeOK
  <2>3. CASE run' = Enqueued(run, FirstDesign)
    BY <2>3 DEF TypeOK
  <2> QED
    BY <2>1, <2>2, <2>3
<1>3. status' \in Statuses
  BY DEF Readiness
<1>4. gaps' \in BOOLEAN
  BY Zenon DEF Readiness
<1>5. desk' \in (Jobs \X Statuses \X BOOLEAN) \cup {NoCommand}
  <2>1. desk' = desk \/ desk' = Overtaken(FirstDesign)
    <3>1. CASE ~found /\ auto
      BY <3>1 DEF Readiness
    <3>2. CASE ~(~found /\ auto)
      BY <3>2 DEF Readiness
    <3> QED
      BY <3>1, <3>2
  <2>2. Overtaken(FirstDesign) \in (Jobs \X Statuses \X BOOLEAN) \cup {NoCommand}
    BY OvertakenTyped
  <2>3. desk \in (Jobs \X Statuses \X BOOLEAN) \cup {NoCommand}
    BY DEF TypeOK
  <2> QED
    BY <2>1, <2>2, <2>3
<1> QED
  BY <1>1, <1>2, <1>3, <1>4, <1>5 DEF TypeOK, Readiness, project

LEMMA RInvStep ==
    ASSUME RInv, [Next]_vars
    PROVE  RInv'
<1>1. CASE UNCHANGED vars
  BY <1>1 DEF RInv, TypeOK, RoundsBounded, vars, project, queue, bounds
<1>2. CASE Next
  <2>1. RoundsBounded'
    BY <1>2, HandlersKeepBudget, OthersKeepBudget DEF Next
  <2>2. TypeOK'
    <3>0. TypeOK
      BY DEF RInv
    <3>1. ASSUME NEW k \in DesignJobs, Design(k) PROVE TypeOK'
      BY <3>0, <3>1, DesignTyped
    <3>2. ASSUME NEW k \in BuildJobs, Builder(k) PROVE TypeOK'
      BY <3>0, <3>2, BuilderTyped
    <3>3. ASSUME NEW k \in QaJobs, VisualQa(k) PROVE TypeOK'
      BY <3>3, VisualQaTyped
    <3>4. ASSUME NEW k \in DeployJobs, Deployer(k) PROVE TypeOK'
      BY <3>0, <3>4, DeployerTyped
    <3>5. ASSUME NEW k \in Jobs, Throw(k) \/ Finish(k) PROVE TypeOK'
      BY <3>0, <3>5, JobsTyped
    <3>6. ASSUME NEW p \in Projects, Decides(p) PROVE TypeOK'
      BY <3>0, <3>6, DecisionTyped
    <3>7. ASSUME NEW found \in BOOLEAN, NEW auto \in BOOLEAN, Readiness(found, auto)
          PROVE  TypeOK'
      BY <3>0, <3>7, GateTyped
    <3> QED
      BY <1>2, <3>0, <3>1, <3>2, <3>3, <3>4, <3>5, <3>6, <3>7, CommandTyped, BootTyped DEF Next
  <2> QED
    BY <2>1, <2>2 DEF RInv
<1> QED
  BY <1>1, <1>2

LEMMA RInvInit == Init => RInv
<1> SUFFICES ASSUME Init PROVE RInv
  OBVIOUS
<1>1. TypeOK
  BY Iterations DEF Init, TypeOK, Statuses, ProjectState, Exports, RunStatus, Steps
<1>2. RoundsBounded
  BY JobKinds DEF Init, RoundsBounded
<1> QED
  BY <1>1, <1>2 DEF RInv

\* Every variable of the pipeline keeps its type, whatever the handlers, the
\* operator and the restarts of the two containers do.
THEOREM BuildTypeCorrect == Spec => []TypeOK
<1>1. RInv => TypeOK
  BY DEF RInv
<1> QED
  BY <1>1, RInvInit, RInvStep, PTL DEF Spec

\* No job of a round past the budget is ever enqueued, for any budget
\* (visualQa.ts, the lastRound test; "no endless cycles").
THEOREM RoundsWithinBudget == Spec => []RoundsBounded
<1>1. RInv => RoundsBounded
  BY DEF RInv
<1> QED
  BY <1>1, RInvInit, RInvStep, PTL DEF Spec

\* A rejected business is never drawn back, by a claim, a verdict, a deploy, a
\* decision of the operator on its build or a boot pass.
THEOREM RejectedStaysOut == Spec => RejectedStays
<1>1. ASSUME Next, status = "rejected" PROVE status' = "rejected"
  <2>1. ASSUME NEW k \in DesignJobs, Design(k) PROVE status' = "rejected"
    BY <1>1, <2>1 DEF Design, DesignReads, DesignIllegal, DesignClaims, DesignRetries,
                      DesignRejected, DesignCommits, StillAsRead, Skips
  <2>2. ASSUME NEW k \in BuildJobs, Builder(k) PROVE status' = "rejected"
    BY <1>1, <2>2 DEF Builder, BuildStarts, BuildStale, BuildRegenerates, BuildCommits, Skips
  <2>3. ASSUME NEW k \in QaJobs, VisualQa(k) PROVE status' = "rejected"
    BY <1>1, <2>3 DEF VisualQa, QaStarts, QaPasses, QaParks, QaFeedsBack, Parks, Skips
  <2>4. ASSUME NEW k \in DeployJobs, Deployer(k) PROVE status' = "rejected"
    BY <1>1, <2>4 DEF Deployer, DeployStarts, DeployCommits, DeployFits, InBuildFlow, Skips
  <2>5. ASSUME NEW p \in Projects, Decides(p) PROVE status' = "rejected"
    BY <1>1, <2>5 DEF Decides, DeployAsIs, AnotherIteration, RejectBuild, AwaitsDecision
  <2>6. ASSUME NEW found \in BOOLEAN, NEW auto \in BOOLEAN, Readiness(found, auto)
        PROVE  status' = "rejected"
    BY <1>1, <2>6 DEF Readiness, Gateable
  <2>7. ASSUME NEW k \in Jobs,
               Throw(k) \/ Finish(k) \/ StopReads(k) \/ RetryClaims(k) \/ RetryEnqueues(k)
        PROVE  status' = "rejected"
    BY <1>1, <2>7 DEF Throw, Finish, StopReads, RetryClaims, RetryEnqueues
  <2>8. CASE StartBuild \/ StartFreshBuild \/ StopWrites \/ GiveUp
    BY <1>1, <2>8 DEF StartBuild, StartFreshBuild, StopWrites, GiveUp
  <2>9. CASE RestartBuilders \/ RestartCore \/ MarkStale \/ FailInterrupted \/ RevertStranded
    BY <1>1, <2>9 DEF RestartBuilders, RestartCore, MarkStale, FailInterrupted, RevertStranded
  <2> QED
    BY <1>1, <2>1, <2>2, <2>3, <2>4, <2>5, <2>6, <2>7, <2>8, <2>9 DEF Next
<1>2. [Next]_vars => (status = "rejected" => status' = "rejected")
  BY <1>1 DEF vars
<1> QED
  BY <1>2, PTL DEF Spec, RejectedStays

-----------------------------------------------------------------------------
(***************************************************************************)
(* What is published was judged, with one consumer of the queue.           *)
(***************************************************************************)

\* A consumer that is the only one takes a job only when no agent works.
LEMMA FreeSlot ==
    ASSUME RInv, OneAgent, Slots = 1, Cardinality(Busy) < Slots
    PROVE  Busy = {}
<1> SUFFICES ASSUME NEW j \in Busy PROVE FALSE
  OBVIOUS
<1>1. Busy = {j}
  BY DEF OneAgent
<1>2. Cardinality(Busy) = 1
  BY <1>1, FS_Singleton
<1> QED
  BY <1>2

\* A step that makes no agent job run keeps the agent alone.
LEMMA QuietAlone ==
    ASSUME OneAgent, \A k \in AgentJobs : run'[k] = "running" => run[k] = "running"
    PROVE  OneAgent'
BY DEF OneAgent, Busy

\* ... and keeps the screenshots current if it drops those of no running QA job.
LEMMA QuietSees ==
    ASSUME SeesCurrent,
           \A k \in QaJobs : run'[k] = "running" => run[k] = "running" /\ (k \in sees => k \in sees')
    PROVE  SeesCurrent'
BY DEF SeesCurrent

\* One job ends or changes its step: the others are as they were.
LEMMA OneMove ==
    ASSUME RInv, NEW k \in Jobs, NEW s, run' = [run EXCEPT ![k] = s], s # "running"
    PROVE  /\ \A j \in AgentJobs : run'[j] = "running" => run[j] = "running" /\ j # k
           /\ \A j \in QaJobs : run'[j] = "running" => run[j] = "running" /\ j # k
BY JobKinds DEF RInv, TypeOK

\* A job is enqueued: none starts to run.
LEMMA OneEnqueued ==
    ASSUME RInv, NEW j, run' = Enqueued(run, j)
    PROVE  /\ \A k \in AgentJobs : run'[k] = "running" => run[k] = "running"
           /\ \A k \in QaJobs : run'[k] = "running" => run[k] = "running"
<1>1. \A k \in Jobs : run'[k] = "running" => run[k] = "running"
  BY EnqueuedOnly DEF RInv, TypeOK
<1>2. \A k \in AgentJobs \cup QaJobs : k \in Jobs
  BY JobKinds
<1> QED
  BY <1>1, <1>2

\* A consumer takes a job: it is the only one that runs.
LEMMA Taken ==
    ASSUME PInv, Slots = 1, NEW k \in AgentJobs, NEW step, Takes(k, step)
    PROVE  /\ OneAgent'
           /\ \A j \in QaJobs : run'[j] = "running" => j = k
<1>1. Busy = {}
  BY FreeSlot DEF PInv, Takes
<1>2. \A j \in AgentJobs : run'[j] = "running" => j = k
  BY <1>1, JobKinds DEF Takes, Busy, PInv, RInv, TypeOK
<1> QED
  BY <1>2, JobKinds DEF OneAgent, Busy

\* Who works, and what QA looks at, after a step.
LEMMA AgentStep ==
    ASSUME PInv, Slots = 1, Next
    PROVE  OneAgent' /\ SeesCurrent'
<1>0. RInv /\ OneAgent /\ SeesCurrent
  BY DEF PInv
<1>00. /\ \A k \in DesignJobs \cup BuildJobs \cup QaJobs : k \in AgentJobs /\ k \in Jobs
       /\ \A k \in DeployJobs : k \in Jobs /\ k \notin AgentJobs
       /\ \A k \in DesignJobs \cup BuildJobs \cup DeployJobs : k \notin QaJobs
  BY JobKinds
<1>1. ASSUME NEW k \in DesignJobs, Design(k) PROVE OneAgent' /\ SeesCurrent'
  <2>1. CASE DesignReads(k)
    <3>1. Takes(k, IF status = "production_ready" THEN "saw ready" ELSE "saw progress")
      BY <2>1 DEF DesignReads
    <3> QED
      BY <1>00, <3>1, Taken DEF SeesCurrent
  <2>2. CASE DesignIllegal(k) \/ DesignRejected(k)
    BY <1>0, <1>00, <2>2, OneMove, QuietAlone, QuietSees DEF DesignIllegal, DesignRejected, Ends
  <2>3. CASE DesignClaims(k)
    <3>1. CASE StillAsRead(k)
      BY <1>0, <2>3, <3>1, QuietAlone, QuietSees DEF DesignClaims
    <3>2. CASE ~StillAsRead(k)
      BY <1>0, <1>00, <2>3, <3>2, OneMove, QuietAlone, QuietSees DEF DesignClaims, Skips, Ends
    <3> QED
      BY <3>1, <3>2
  <2>4. CASE DesignRetries(k) \/ DesignCommits(k)
    <3>1. sees' = sees /\ \E j : run' = Enqueued(run, j)
      BY <2>4 DEF DesignRetries, DesignCommits, Commits
    <3> QED
      BY <1>0, <3>1, OneEnqueued, QuietAlone, QuietSees
  <2> QED
    BY <1>1, <2>1, <2>2, <2>3, <2>4 DEF Design
<1>2. ASSUME NEW k \in BuildJobs, Builder(k) PROVE OneAgent' /\ SeesCurrent'
  <2>1. CASE BuildStarts(k)
    <3>1. Takes(k, "working")
      BY <2>1 DEF BuildStarts
    <3> QED
      BY <1>00, <3>1, Taken DEF SeesCurrent
  <2>2. CASE Skips(k)
    BY <1>0, <1>00, <2>2, OneMove, QuietAlone, QuietSees DEF Skips, Ends
  <2>3. CASE BuildRegenerates(k) \/ (BuildCommits(k) /\ ~Skips(k))
    <3>1. sees' = sees /\ \E j : run' = Enqueued(run, j)
      BY <2>3 DEF BuildRegenerates, BuildCommits, Commits
    <3> QED
      BY <1>0, <3>1, OneEnqueued, QuietAlone, QuietSees
  <2> QED
    BY <1>2, <2>1, <2>2, <2>3 DEF Builder, BuildStale
<1>3. ASSUME NEW k \in QaJobs, VisualQa(k) PROVE OneAgent' /\ SeesCurrent'
  <2>1. CASE QaStarts(k)
    <3>1. Takes(k, "working") /\ sees' = sees \cup {k}
      BY <2>1 DEF QaStarts
    <3> QED
      BY <1>00, <3>1, Taken DEF SeesCurrent
  <2>2. CASE Skips(k)
    BY <1>0, <1>00, <2>2, OneMove, QuietAlone, QuietSees DEF Skips, Ends
  <2>3. CASE ~QaStarts(k) /\ ~Skips(k)
    <3>1. sees' = sees /\ (run' = run \/ \E j : run' = Enqueued(run, j))
      BY <1>3, <2>3 DEF VisualQa, QaPasses, QaParks, QaFeedsBack, Commits
    <3>2. CASE run' = run
      BY <1>0, <3>1, <3>2, QuietAlone, QuietSees
    <3>3. CASE \E j : run' = Enqueued(run, j)
      BY <1>0, <3>1, <3>3, OneEnqueued, QuietAlone, QuietSees
    <3> QED
      BY <3>1, <3>2, <3>3
  <2> QED
    BY <2>1, <2>2, <2>3
<1>4. ASSUME NEW k \in DeployJobs, Deployer(k) PROVE OneAgent' /\ SeesCurrent'
  <2>1. k \in Jobs /\ k \notin AgentJobs /\ k \notin QaJobs
    BY <1>00
  <2>2. /\ run' = run \/ \E s : run' = [run EXCEPT ![k] = s]
        /\ sees' = sees \/ sees' = sees \ {k}
    BY <1>4 DEF Deployer, DeployStarts, DeployCommits, Commits, Skips, Ends
  <2>3. \A j \in AgentJobs : run'[j] = run[j]
    BY <1>0, <1>00, <2>1, <2>2 DEF RInv, TypeOK, AgentJobs, Jobs
  <2> QED
    BY <1>0, <1>00, <2>1, <2>2, <2>3, QuietAlone, QuietSees
<1>5. ASSUME NEW k \in Jobs, Throw(k) \/ Finish(k) PROVE OneAgent' /\ SeesCurrent'
  <2>1. sees' = sees \ {k} /\ \E s : s # "running" /\ run' = [run EXCEPT ![k] = s]
    BY <1>5 DEF Throw, Finish, Ends
  <2> QED
    BY <1>0, <2>1, OneMove, QuietAlone, QuietSees
<1>6. ASSUME NEW p \in Projects, Decides(p) PROVE OneAgent' /\ SeesCurrent'
  <2>1. ReviewClosed(p) \in [Jobs -> RunStatus]
    BY Words DEF ReviewClosed, PInv, RInv, TypeOK
  <2>2. \A k \in Jobs : ReviewClosed(p)[k] = "running" => run[k] = "running"
    BY DEF ReviewClosed
  <2>3. /\ sees' = sees
        /\ run' = ReviewClosed(p) \/ \E j : run' = Enqueued(ReviewClosed(p), j)
    BY <1>6 DEF Decides, DeployAsIs, AnotherIteration, RejectBuild
  <2>4. \A k \in Jobs : run'[k] = "running" => run[k] = "running"
    BY <2>1, <2>2, <2>3, EnqueuedOnly
  <2> QED
    BY <1>0, <1>00, <2>3, <2>4, QuietAlone, QuietSees DEF AgentJobs
<1>7. ASSUME NEW found \in BOOLEAN, NEW auto \in BOOLEAN, Readiness(found, auto)
      PROVE  OneAgent' /\ SeesCurrent'
  <2>1. sees' = sees /\ (run' = run \/ run' = Enqueued(run, FirstDesign))
    BY <1>7 DEF Readiness
  <2> QED
    BY <1>0, <2>1, OneEnqueued, QuietAlone, QuietSees
<1>8. CASE StartBuild
  BY <1>0, <1>8, OneEnqueued, QuietAlone, QuietSees DEF StartBuild
<1>9. CASE StartFreshBuild
  <2>1. sees' = sees /\ \A k \in Jobs : run'[k] = "running" => run[k] = "running"
    BY <1>9 DEF StartFreshBuild
  <2> QED
    BY <1>0, <1>00, <2>1, QuietAlone, QuietSees DEF AgentJobs
<1>10. CASE StopWrites
  <2>1. sees' = sees /\ (run' = run \/ run' = [run EXCEPT ![desk[1]] = "cancelled"])
    BY <1>10 DEF StopWrites
  <2>2. \A k \in Jobs : run'[k] = "running" => run[k] = "running"
    BY <1>0, <2>1 DEF RInv, TypeOK
  <2> QED
    BY <1>0, <1>00, <2>1, <2>2, QuietAlone, QuietSees DEF AgentJobs
<1>11. CASE GiveUp
  BY <1>0, <1>11, QuietAlone, QuietSees DEF GiveUp, queue
<1>12. ASSUME NEW k \in Jobs, StopReads(k) PROVE OneAgent' /\ SeesCurrent'
  BY <1>0, <1>12, QuietAlone, QuietSees DEF StopReads, queue
<1>13. ASSUME NEW k \in Jobs, RetryClaims(k) \/ RetryEnqueues(k) PROVE OneAgent' /\ SeesCurrent'
  <2>1. sees' = sees /\ \E s : s # "running" /\ run' = [run EXCEPT ![k] = s]
    BY <1>13 DEF RetryClaims, RetryEnqueues
  <2> QED
    BY <1>0, <2>1, OneMove, QuietAlone, QuietSees
<1>14. CASE RestartBuilders
  <2>1. \A k \in AgentJobs : run'[k] # "running"
    BY <1>14, JobKinds DEF RestartBuilders
  <2> QED
    BY <1>0, <1>00, <2>1, QuietAlone, QuietSees
<1>15. CASE RestartCore
  BY <1>0, <1>15, QuietAlone, QuietSees DEF RestartCore
<1>16. CASE MarkStale
  <2>1. sees' = sees /\ \A k \in Jobs : run'[k] = "running" => run[k] = "running"
    BY <1>16 DEF MarkStale
  <2> QED
    BY <1>0, <1>00, <2>1, QuietAlone, QuietSees DEF AgentJobs
<1>17. CASE FailInterrupted \/ RevertStranded
  BY <1>0, <1>17, QuietAlone, QuietSees DEF FailInterrupted, RevertStranded, queue
<1> QED
  BY <1>1, <1>2, <1>3, <1>4, <1>5, <1>6, <1>7, <1>8, <1>9, <1>10, <1>11, <1>12, <1>13,
     <1>14, <1>15, <1>16, <1>17 DEF Next


-----------------------------------------------------------------------------
(***************************************************************************)
(* The refinement.  A step leaves all projects alone, or changes one, or   *)
(* closes several.                                                         *)
(***************************************************************************)
Stages == [p \in Projects |-> Stage(p)]

\* Nothing happens to any project.
ProjectsRest == state' = state /\ Judged' = Judged

\* Project p moves on, the others stay where they are.
ProjectMoves(p, s) == state' = [state EXCEPT ![p] = s]

LEMMA StageOf ==
    /\ \A p \in Projects :
        /\ state[p] = "none" => Stage(p) = "unborn"
        /\ state[p] \in Transient => Stage(p) = "made"
        /\ state[p] = "needs_human_review" => Stage(p) = "refused"
        /\ state[p] = "ready" => Stage(p) = "approved"
        /\ state[p] = "deployed" => Stage(p) = "public"
        /\ state[p] \in {"failed", "cancelled"} => Stage(p) = "dead"
BY DEF Stage, Transient

LEMMA StageNext ==
    /\ \A p \in Projects :
        /\ state'[p] = "none" => Stage(p)' = "unborn"
        /\ state'[p] \in Transient => Stage(p)' = "made"
        /\ state'[p] = "needs_human_review" => Stage(p)' = "refused"
        /\ state'[p] = "ready" => Stage(p)' = "approved"
        /\ state'[p] = "deployed" => Stage(p)' = "public"
        /\ state'[p] \in {"failed", "cancelled"} => Stage(p)' = "dead"
        /\ state'[p] = state[p] => Stage(p)' = Stage(p)
BY DEF Stage, Transient

\* The stage of one project changes with its state.
LEMMA OneStage ==
    ASSUME TypeOK, NEW p \in Projects, NEW s, ProjectMoves(p, s), NEW g, Stage(p)' = g
    PROVE  Stages' = [Stages EXCEPT ![p] = g]
<1>1. \A q \in Projects : q # p => Stage(q)' = Stage(q)
  BY StageNext DEF TypeOK, ProjectMoves
<1> QED
  BY <1>1 DEF Stages

LEMMA RestStutters ==
    ASSUME ProjectsRest
    PROVE  UNCHANGED <<Stages, Judged>>
BY StageNext DEF ProjectsRest, Stages

\* The steps of the abstract specification.
LEMMA Abstract ==
    ASSUME NEW p \in Projects, NEW g, Stages' = [Stages EXCEPT ![p] = g]
    PROVE  /\ Stage(p) = "unborn" /\ g = "made" /\ Judged' = Judged => Demo!Next
           /\ Stage(p) = "made" /\ g = "refused" /\ Judged' = Judged => Demo!Next
           /\ Stage(p) \in {"made", "refused"} /\ g = "approved" /\ Judged' = Judged \cup {p}
                => Demo!Next
           /\ Stage(p) = "refused" /\ g = "made" /\ Judged' = Judged => Demo!Next
           /\ Stage(p) = "approved" /\ g = "public" /\ p \in Judged /\ Judged' = Judged
                => Demo!Next
BY DEF Stages, Demo!Next, Demo!Begin, Demo!Refuse, Demo!Approve, Demo!Order, Demo!Publish,
       Demo!Moves

LEMMA AbstractWork ==
    ASSUME NEW p \in Projects, Stages' = Stages, Stage(p) = "made", Judged' = Judged \ {p}
    PROVE  Demo!Next
BY DEF Stages, Demo!Next, Demo!Work

LEMMA AbstractDrop ==
    ASSUME NEW ds \in SUBSET Projects, \A p \in ds : Stage(p) \notin {"unborn", "public"},
           Stages' = [p \in Projects |-> IF p \in ds THEN "dead" ELSE Stage(p)],
           Judged' = Judged
    PROVE  Demo!Next
BY DEF Stages, Demo!Next, Demo!Drop

\* What a step owes: the web keeps what is deployed, what is published was judged,
\* and the promise is kept.
Good ==
    /\ \A p \in Projects : state[p] = "deployed" => state'[p] = "deployed"
    /\ PublishedWasJudged'
    /\ Demo!Next \/ UNCHANGED <<Stages, Judged>>

LEMMA RestGood ==
    ASSUME PublishedWasJudged, ProjectsRest
    PROVE  Good
BY RestStutters DEF ProjectsRest, Good, PublishedWasJudged

\* A move of one project that publishes nothing unjudged.
LEMMA MoveKeeps ==
    ASSUME TypeOK, PublishedWasJudged, NEW p \in Projects, NEW s, ProjectMoves(p, s),
           state[p] = "deployed" => s = "deployed",
           s \in {"ready", "deployed"} => p \in Judged',
           \A q \in Projects : q # p /\ q \in Judged => q \in Judged'
    PROVE  /\ \A q \in Projects : state[q] = "deployed" => state'[q] = "deployed"
           /\ PublishedWasJudged'
           /\ state'[p] = s
BY DEF TypeOK, ProjectMoves, PublishedWasJudged

\* Projects that are closed.
LEMMA DropGood ==
    ASSUME TypeOK, PublishedWasJudged, NEW ds \in SUBSET Projects,
           \A p \in ds : state[p] \in ActiveProject \cup {"failed", "cancelled"},
           \A p \in ds : state'[p] \in {"failed", "cancelled"},
           \A p \in Projects : p \notin ds => state'[p] = state[p],
           Judged' = Judged
    PROVE  Good
<1>1. \A p \in ds : Stage(p) \notin {"unborn", "public"}
  BY StageOf DEF ActiveProject, Transient
<1>2. Stages' = [p \in Projects |-> IF p \in ds THEN "dead" ELSE Stage(p)]
  BY StageNext DEF Stages
<1>3. Demo!Next
  BY <1>1, <1>2, AbstractDrop
<1>4. \A p \in Projects : state[p] = "deployed" => state'[p] = "deployed"
  BY DEF ActiveProject, Transient
<1>5. PublishedWasJudged'
  BY DEF PublishedWasJudged
<1> QED
  BY <1>3, <1>4, <1>5 DEF Good

\* Export of one project rewritten, judged or collected.
LEMMA ExportWritten ==
    ASSUME TypeOK, NEW p \in Projects, NEW e, export' = [export EXCEPT ![p] = e]
    PROVE  /\ e \in {"passed", "accepted", "gone"} => Judged' = Judged \cup {p}
           /\ e \notin {"passed", "accepted", "gone"} => Judged' = Judged \ {p}
BY DEF TypeOK, Judged

LEMMA ExportKept ==
    ASSUME export' = export
    PROVE  Judged' = Judged
BY DEF Judged

\* The handlers of the design stage.
LEMMA DesignGood ==
    ASSUME PInv, NEW k \in DesignJobs, Design(k)
    PROVE  Good
<1>0. TypeOK /\ PublishedWasJudged
  BY DEF PInv, RInv
<1>1. CASE DesignCommits(k)
  <2> PICK p \in Projects : state[p] = "none" /\ ProjectMoves(p, "brief")
    BY <1>1 DEF DesignCommits, ProjectMoves
  <2>1. Judged' = Judged
    BY <1>1, ExportKept DEF DesignCommits
  <2>2. /\ \A q \in Projects : state[q] = "deployed" => state'[q] = "deployed"
        /\ PublishedWasJudged'
        /\ state'[p] = "brief"
    BY <1>0, <2>1, MoveKeeps
  <2>3. Stage(p) = "unborn" /\ Stage(p)' = "made"
    BY <2>2, StageOf, StageNext DEF Transient
  <2>4. Stages' = [Stages EXCEPT ![p] = "made"]
    BY <1>0, <2>3, OneStage
  <2> QED
    BY <2>1, <2>2, <2>3, <2>4, Abstract DEF Good
<1>2. CASE ~DesignCommits(k)
  <2>1. UNCHANGED <<state, export>>
    BY <1>2 DEF Design, DesignReads, DesignIllegal, DesignClaims, DesignRetries,
                DesignRejected, Skips, project
  <2> QED
    BY <1>0, <2>1, ExportKept, RestGood DEF ProjectsRest
<1> QED
  BY <1>1, <1>2

\* The builder.
LEMMA BuilderGood ==
    ASSUME PInv, NEW k \in BuildJobs, Builder(k)
    PROVE  Good
<1> DEFINE p == ProjectOf(k)
<1>0. TypeOK /\ PublishedWasJudged /\ p \in Projects
  BY JobKinds DEF PInv, RInv
<1>1. CASE BuildStarts(k)
  <2>1. state[p] \in Transient /\ ProjectMoves(p, "building")
    BY <1>1 DEF BuildStarts, Buildable, ProjectMoves
  <2>2. Judged' = Judged \ {p}
    <3>1. export' = [export EXCEPT ![p] = "unjudged"]
      BY <1>1 DEF BuildStarts
    <3> HIDE DEF p
    <3> QED
      BY <1>0, <3>1 DEF TypeOK, Judged
  <2>3. /\ \A q \in Projects : state[q] = "deployed" => state'[q] = "deployed"
        /\ PublishedWasJudged'
        /\ state'[p] = "building"
    BY <1>0, <2>1, <2>2, MoveKeeps DEF Transient
  <2>4. Stage(p) = "made" /\ Stage(p)' = "made"
    BY <1>0, <2>1, <2>3, StageOf, StageNext DEF Transient
  <2>5. Stages' = [Stages EXCEPT ![p] = "made"]
    BY <1>0, <2>1, <2>4, OneStage
  <2>6. Stages' = Stages
    BY <2>4, <2>5 DEF Stages
  <2> QED
    BY <1>0, <2>2, <2>3, <2>4, <2>6, AbstractWork DEF Good
<1>2. CASE BuildRegenerates(k)
  <2>1. state[p] = "building" /\ state' = [state EXCEPT ![p] = "failed"] /\ Judged' = Judged
    BY <1>2, ExportKept DEF BuildRegenerates
  <2>2. /\ state'[p] = "failed" /\ \A q \in Projects : q # p => state'[q] = state[q]
        /\ state[p] \in ActiveProject
    BY <1>0, <2>1 DEF TypeOK, ActiveProject, Transient
  <2>3. {p} \in SUBSET Projects
    BY <1>0
  <2> HIDE DEF p
  <2> QED
    BY <1>0, <2>1, <2>2, <2>3, DropGood
<1>3. CASE BuildCommits(k) /\ state[p] = "building"
  <2>1. ProjectMoves(p, "qa") /\ Judged' = Judged
    BY <1>3, ExportKept DEF BuildCommits, ProjectMoves
  <2>2. /\ \A q \in Projects : state[q] = "deployed" => state'[q] = "deployed"
        /\ PublishedWasJudged'
        /\ state'[p] = "qa"
    BY <1>0, <1>3, <2>1, MoveKeeps
  <2>3. Stage(p) = "made" /\ Stage(p)' = "made"
    BY <1>0, <1>3, <2>2, StageOf, StageNext DEF Transient
  <2>4. Stages' = [Stages EXCEPT ![p] = "made"]
    BY <1>0, <2>1, <2>3, OneStage
  <2>5. Stages' = Stages
    BY <2>3, <2>4 DEF Stages
  <2> QED
    BY <2>1, <2>2, <2>5 DEF Good
<1>4. CASE Skips(k)
  BY <1>0, <1>4, ExportKept, RestGood DEF ProjectsRest, Skips, project
<1> QED
  BY <1>1, <1>2, <1>3, <1>4 DEF Builder, BuildStale, BuildCommits

\* Visual QA: what it passes, it has seen.
LEMMA VisualQaGood ==
    ASSUME PInv, NEW k \in QaJobs, VisualQa(k)
    PROVE  Good
<1> DEFINE p == ProjectOf(k)
<1>0. TypeOK /\ PublishedWasJudged /\ p \in Projects
  BY JobKinds DEF PInv, RInv
<1>1. CASE QaPasses(k) /\ Judges(k)
  <2>1. state[p] = "qa" /\ ProjectMoves(p, "ready")
    BY <1>1 DEF QaPasses, Judges, ProjectMoves
  <2>2. k \in sees
    BY <1>1 DEF QaPasses, Working, PInv, SeesCurrent
  <2>3. export' = [export EXCEPT ![p] = "passed"]
    BY <1>1, <2>2 DEF QaPasses
  <2>4. Judged' = Judged \cup {p}
    BY <1>0, <2>3, ExportWritten
  <2>5. /\ \A q \in Projects : state[q] = "deployed" => state'[q] = "deployed"
        /\ PublishedWasJudged'
        /\ state'[p] = "ready"
    BY <1>0, <2>1, <2>4, MoveKeeps
  <2>6. Stage(p) = "made" /\ Stage(p)' = "approved"
    BY <1>0, <2>1, <2>5, StageOf, StageNext DEF Transient
  <2>7. Stages' = [Stages EXCEPT ![p] = "approved"]
    BY <1>0, <2>1, <2>6, OneStage
  <2> QED
    BY <1>0, <2>4, <2>5, <2>6, <2>7, Abstract DEF Good
<1>2. CASE QaParks(k) /\ Parks(k)
  <2>1. state[p] = "qa" /\ ProjectMoves(p, "needs_human_review") /\ Judged' = Judged
    BY <1>2, ExportKept DEF QaParks, Parks, ProjectMoves
  <2>2. /\ \A q \in Projects : state[q] = "deployed" => state'[q] = "deployed"
        /\ PublishedWasJudged'
        /\ state'[p] = "needs_human_review"
    BY <1>0, <2>1, MoveKeeps
  <2>3. Stage(p) = "made" /\ Stage(p)' = "refused"
    BY <1>0, <2>1, <2>2, StageOf, StageNext DEF Transient
  <2>4. Stages' = [Stages EXCEPT ![p] = "refused"]
    BY <1>0, <2>1, <2>3, OneStage
  <2> QED
    BY <1>0, <2>1, <2>2, <2>3, <2>4, Abstract DEF Good
<1>3. CASE UNCHANGED <<state, export>>
  BY <1>0, <1>3, ExportKept, RestGood DEF ProjectsRest
<1> QED
  BY <1>1, <1>2, <1>3 DEF VisualQa, QaStarts, QaPasses, QaParks, QaFeedsBack, Skips, project

\* The deploy publishes what was judged.
LEMMA DeployerGood ==
    ASSUME PInv, NEW k \in DeployJobs, Deployer(k)
    PROVE  Good
<1> DEFINE p == ProjectOf(k)
<1>0. TypeOK /\ PublishedWasJudged /\ p \in Projects
  BY JobKinds DEF PInv, RInv
<1>1. CASE DeployCommits(k) /\ DeployFits(p)
  <2>1. state[p] \in {"ready", "deployed"} /\ ProjectMoves(p, "deployed") /\ Judged' = Judged
    BY <1>1, ExportKept DEF DeployCommits, DeployFits, ProjectMoves
  <2>2. p \in Judged
    BY <1>0, <2>1 DEF PublishedWasJudged
  <2>3. /\ \A q \in Projects : state[q] = "deployed" => state'[q] = "deployed"
        /\ PublishedWasJudged'
        /\ state'[p] = "deployed"
    BY <1>0, <2>1, <2>2, MoveKeeps
  <2>4. Stage(p)' = "public" /\ Stages' = [Stages EXCEPT ![p] = "public"]
    BY <1>0, <2>1, <2>3, StageNext, OneStage
  <2>5. CASE state[p] = "ready"
    <3>1. Stage(p) = "approved"
      BY <1>0, <2>5, StageOf
    <3> QED
      BY <1>0, <2>1, <2>2, <2>3, <2>4, <3>1, Abstract DEF Good
  <2>6. CASE state[p] = "deployed"
    <3>1. Stages' = Stages
      BY <1>0, <2>4, <2>6, StageOf DEF Stages
    <3> QED
      BY <2>1, <2>3, <3>1 DEF Good
  <2> QED
    BY <2>1, <2>5, <2>6
<1>2. CASE UNCHANGED <<state, export>>
  BY <1>0, <1>2, ExportKept, RestGood DEF ProjectsRest
<1> QED
  BY <1>1, <1>2 DEF Deployer, DeployStarts, DeployCommits, Skips, project

\* The end of a deploy collects the export of what is on the web.
LEMMA FinishGood ==
    ASSUME PInv, NEW k \in Jobs, Finish(k)
    PROVE  Good
<1>0. TypeOK /\ PublishedWasJudged /\ state' = state
  BY DEF PInv, RInv, Finish
<1>1. CASE k \in DeployJobs
  <2> DEFINE p == ProjectOf(k)
  <2>1. p \in Projects /\ state[p] = "deployed"
    BY <1>1, JobKinds DEF Finish, PInv, DeployedDone
  <2>2. Judged' = Judged \cup {p}
    BY <1>0, <1>1, <2>1, ExportWritten DEF Finish
  <2>3. p \in Judged
    BY <1>0, <2>1 DEF PublishedWasJudged
  <2> QED
    BY <1>0, <2>2, <2>3, RestGood DEF ProjectsRest
<1>2. CASE k \notin DeployJobs
  BY <1>0, <1>2, ExportKept, RestGood DEF ProjectsRest, Finish
<1> QED
  BY <1>1, <1>2

\* The operator's decisions.
LEMMA DecisionGood ==
    ASSUME PInv, NEW p \in Projects, Decides(p)
    PROVE  Good
<1>0. TypeOK /\ PublishedWasJudged /\ state[p] = "needs_human_review"
  BY DEF PInv, RInv, Decides, DeployAsIs, AnotherIteration, RejectBuild, AwaitsDecision
<1>00. Stage(p) = "refused"
  BY <1>0, StageOf
<1>1. CASE DeployAsIs(p)
  <2>1. ProjectMoves(p, "ready")
    BY <1>1 DEF DeployAsIs, ProjectMoves
  <2>2. Judged' = Judged \cup {p}
    BY <1>0, <1>1, ExportWritten DEF DeployAsIs
  <2>3. /\ \A q \in Projects : state[q] = "deployed" => state'[q] = "deployed"
        /\ PublishedWasJudged'
        /\ state'[p] = "ready"
    BY <1>0, <2>1, <2>2, MoveKeeps
  <2>4. Stage(p)' = "approved"
    BY <2>3, StageNext
  <2>5. Stages' = [Stages EXCEPT ![p] = "approved"]
    BY <1>0, <2>1, <2>4, OneStage
  <2> QED
    BY <1>00, <2>2, <2>3, <2>5, Abstract DEF Good
<1>2. CASE AnotherIteration(p)
  <2>1. ProjectMoves(p, "building") /\ Judged' = Judged
    BY <1>2, ExportKept DEF AnotherIteration, ProjectMoves
  <2>2. /\ \A q \in Projects : state[q] = "deployed" => state'[q] = "deployed"
        /\ PublishedWasJudged'
        /\ state'[p] = "building"
    BY <1>0, <2>1, MoveKeeps
  <2>3. Stage(p)' = "made"
    BY <2>2, StageNext DEF Transient
  <2>4. Stages' = [Stages EXCEPT ![p] = "made"]
    BY <1>0, <2>1, <2>3, OneStage
  <2> QED
    BY <1>00, <2>1, <2>2, <2>4, Abstract DEF Good
<1>3. CASE RejectBuild(p)
  <2>1. state' = [state EXCEPT ![p] = "failed"] /\ Judged' = Judged
    BY <1>3, ExportKept DEF RejectBuild
  <2>2. /\ state'[p] = "failed" /\ \A q \in Projects : q # p => state'[q] = state[q]
        /\ state[p] \in ActiveProject
    BY <1>0, <2>1 DEF TypeOK, ActiveProject
  <2>3. {p} \in SUBSET Projects
    OBVIOUS
  <2> QED
    BY <1>0, <2>1, <2>2, <2>3, DropGood
<1> QED
  BY <1>1, <1>2, <1>3 DEF Decides

\* The operator and the boot pass that close builds.
LEMMA ClosingGood ==
    ASSUME PInv, StartFreshBuild \/ StopWrites \/ FailInterrupted
    PROVE  Good
<1>0. TypeOK /\ PublishedWasJudged
  BY DEF PInv, RInv
<1>1. CASE StartFreshBuild
  <2> DEFINE ds == {p \in Projects : state[p] \in ActiveProject}
  <2>1. /\ ds \in SUBSET Projects
        /\ \A p \in ds : state[p] \in ActiveProject /\ state'[p] = "cancelled"
        /\ \A p \in Projects : p \notin ds => state'[p] = state[p]
    BY <1>1 DEF StartFreshBuild
  <2>2. Judged' = Judged
    BY <1>1, ExportKept DEF StartFreshBuild
  <2> HIDE DEF ds
  <2> QED
    BY <1>0, <2>1, <2>2, DropGood
<1>2. CASE FailInterrupted
  <2> DEFINE ds == {p \in Projects : NothingAlive /\ state[p] \in Transient}
  <2>1. /\ ds \in SUBSET Projects
        /\ \A p \in ds : state[p] \in ActiveProject /\ state'[p] = "failed"
        /\ \A p \in Projects : p \notin ds => state'[p] = state[p]
    BY <1>2 DEF FailInterrupted, ActiveProject
  <2>2. Judged' = Judged
    BY <1>2, ExportKept DEF FailInterrupted
  <2> HIDE DEF ds
  <2> QED
    BY <1>0, <2>1, <2>2, DropGood
<1>3. CASE StopWrites
  <2> DEFINE k == desk[1]  p == ProjectOf(k)
  <2>1. Judged' = Judged /\ desk \in Jobs \X Statuses \X BOOLEAN
    BY <1>0, <1>3, ExportKept DEF StopWrites, TypeOK
  <2>2. CASE state' = state
    BY <1>0, <2>1, <2>2, RestGood DEF ProjectsRest
  <2>3. CASE state' # state
    <3>1. /\ k \notin DesignJobs /\ state[p] \in Closable
          /\ state' = [state EXCEPT ![p] = "cancelled"]
      BY <1>3, <2>3 DEF StopWrites
    <3>2. k \in Jobs
      BY <2>1
    <3>3. p \in Projects
      BY <3>1, <3>2, JobKinds
    <3>4. /\ state'[p] = "cancelled" /\ \A q \in Projects : q # p => state'[q] = state[q]
          /\ state[p] \in ActiveProject \cup {"failed", "cancelled"}
      BY <1>0, <3>1, <3>3 DEF TypeOK, ActiveProject, Closable
    <3>5. {p} \in SUBSET Projects
      BY <3>3
    <3> HIDE DEF p
    <3> QED
      BY <1>0, <2>1, <3>4, <3>5, DropGood
  <2> QED
    BY <2>2, <2>3
<1> QED
  BY <1>1, <1>2, <1>3

LEMMA StepGood ==
    ASSUME PInv, Next
    PROVE  Good
<1>1. ASSUME UNCHANGED <<state, export>> PROVE Good
  BY <1>1, ExportKept, RestGood DEF PInv, ProjectsRest
<1>2. ASSUME NEW k \in Jobs,
             Throw(k) \/ StopReads(k) \/ RetryClaims(k) \/ RetryEnqueues(k)
      PROVE  UNCHANGED <<state, export>>
  BY <1>2 DEF Throw, StopReads, RetryClaims, RetryEnqueues, project
<1>3. ASSUME NEW found \in BOOLEAN, NEW auto \in BOOLEAN, Readiness(found, auto)
      PROVE  UNCHANGED <<state, export>>
  BY <1>3 DEF Readiness, project
<1>4. CASE StartBuild \/ GiveUp \/ RestartBuilders \/ RestartCore \/ MarkStale \/ RevertStranded
  BY <1>1, <1>4 DEF StartBuild, GiveUp, RestartBuilders, RestartCore, MarkStale,
                    RevertStranded, project
<1> QED
  BY <1>1, <1>2, <1>3, <1>4, DesignGood, BuilderGood, VisualQaGood, DeployerGood, FinishGood,
     DecisionGood, ClosingGood DEF Next


\* The steps of a deploy are its own.
LEMMA DoneStep ==
    ASSUME PInv, Next, Good
    PROVE  DeployedDone'
<1>1. SUFFICES ASSUME NEW k \in DeployJobs, at'[k] \in {"done", "parked"}
               PROVE  state'[ProjectOf(k)] = "deployed"
  BY DEF DeployedDone
<1>2. TypeOK /\ ProjectOf(k) \in Projects /\ k \in Jobs
  BY JobKinds DEF PInv, RInv
<1>3. CASE at[k] \in {"done", "parked"}
  BY <1>2, <1>3 DEF PInv, DeployedDone, Good
<1>4. CASE at'[k] # at[k]
  <2>1. \A j \in DesignJobs \cup BuildJobs \cup QaJobs : j # k /\ j \in Jobs
    BY JobKinds
  <2>2. ASSUME NEW j \in DesignJobs, Design(j) PROVE FALSE
    <3>1. at' = at \/ \E s : at' = [at EXCEPT ![j] = s]
      BY <2>2 DEF Design, DesignReads, DesignIllegal, DesignClaims, DesignRetries,
                  DesignRejected, DesignCommits, Takes, Ends, Commits, Skips
    <3> QED
      BY <1>2, <1>4, <2>1, <3>1 DEF TypeOK
  <2>3. ASSUME NEW j \in BuildJobs, Builder(j) PROVE FALSE
    <3>1. \E s : at' = [at EXCEPT ![j] = s]
      BY <2>3 DEF Builder, BuildStarts, BuildStale, BuildRegenerates, BuildCommits,
                  Takes, Ends, Commits, Skips
    <3> QED
      BY <1>2, <1>4, <2>1, <3>1 DEF TypeOK
  <2>4. ASSUME NEW j \in QaJobs, VisualQa(j) PROVE FALSE
    <3>1. \E s : at' = [at EXCEPT ![j] = s]
      BY <2>4 DEF VisualQa, QaStarts, QaPasses, QaParks, QaFeedsBack, Takes, Ends, Commits, Skips
    <3> QED
      BY <1>2, <1>4, <2>1, <3>1 DEF TypeOK
  <2>5. ASSUME NEW j \in DeployJobs, DeployStarts(j) PROVE FALSE
    <3>1. at' = [at EXCEPT ![j] = "idle"] \/ at' = [at EXCEPT ![j] = "working"]
      BY <2>5, Zenon DEF DeployStarts, Ends, Skips
    <3>2. at'[k] \in {at[k], "idle", "working"}
      BY <1>2, <3>1 DEF TypeOK
    <3> QED
      BY <1>1, <1>4, <3>2
  <2>6. ASSUME NEW j \in DeployJobs, DeployCommits(j) PROVE state'[ProjectOf(k)] = "deployed"
    <3>1. CASE DeployFits(ProjectOf(j))
      <4>1. at' = [at EXCEPT ![j] = "done"] /\ state' = [state EXCEPT ![ProjectOf(j)] = "deployed"]
        BY <2>6, <3>1 DEF DeployCommits, Commits
      <4>2. j = k
        BY <1>2, <1>4, <4>1 DEF TypeOK
      <4> QED
        BY <1>2, <4>1, <4>2 DEF TypeOK
    <3>2. CASE ~DeployFits(ProjectOf(j))
      <4>1. at' = [at EXCEPT ![j] = "idle"]
        BY <2>6, <3>2 DEF DeployCommits, Skips, Ends
      <4> QED
        BY <1>1, <1>2, <1>4, <4>1 DEF TypeOK
    <3> QED
      BY <3>1, <3>2
  <2>7. ASSUME NEW j \in Jobs, Throw(j) \/ Finish(j) PROVE FALSE
    <3>1. at' = [at EXCEPT ![j] = "idle"]
      BY <2>7 DEF Throw, Finish, Ends
    <3> QED
      BY <1>1, <1>2, <1>4, <3>1 DEF TypeOK
  <2>8. ASSUME NEW p \in Projects, Decides(p) PROVE FALSE
    BY <1>4, <2>8 DEF Decides, DeployAsIs, AnotherIteration, RejectBuild
  <2>9. ASSUME NEW found \in BOOLEAN, NEW auto \in BOOLEAN, Readiness(found, auto) PROVE FALSE
    BY <1>4, <2>9 DEF Readiness
  <2>10. ASSUME NEW j \in Jobs, StopReads(j) \/ RetryClaims(j) \/ RetryEnqueues(j) PROVE FALSE
    BY <1>4, <2>10 DEF StopReads, RetryClaims, RetryEnqueues, queue
  <2>11. ~(StartBuild \/ StartFreshBuild \/ StopWrites \/ GiveUp)
    BY <1>4 DEF StartBuild, StartFreshBuild, StopWrites, GiveUp, queue
  <2>12. ~(FailInterrupted \/ RevertStranded)
    BY <1>4 DEF FailInterrupted, RevertStranded, queue
  <2>13. ~RestartBuilders
    <3>1. k \notin AgentJobs
      BY JobKinds
    <3> QED
      BY <1>2, <1>4, <3>1 DEF RestartBuilders
  <2>14. ~RestartCore
    BY <1>1, <1>2, <1>4 DEF RestartCore
  <2>15. ~MarkStale
    BY <1>1, <1>2, <1>4 DEF MarkStale
  <2> QED
    BY <2>2, <2>3, <2>4, <2>5, <2>6, <2>7, <2>8, <2>9, <2>10, <2>11, <2>12, <2>13, <2>14, <2>15
       DEF Next, Deployer
<1> QED
  BY <1>1, <1>3, <1>4

LEMMA PInvInit == Init => PInv
<1> SUFFICES ASSUME Init PROVE PInv
  OBVIOUS
<1>1. \A k \in Jobs : run[k] = "none" /\ at[k] = "idle"
  BY DEF Init
<1>2. OneAgent /\ SeesCurrent /\ DeployedDone
  BY <1>1, JobKinds DEF OneAgent, SeesCurrent, DeployedDone, Busy
<1>3. PublishedWasJudged
  BY DEF Init, PublishedWasJudged
<1> QED
  BY <1>2, <1>3, RInvInit DEF PInv

LEMMA PInvStep ==
    ASSUME PInv, Slots = 1, [Next]_vars
    PROVE  PInv' /\ (Demo!Next \/ UNCHANGED <<Stages, Judged>>)
<1>1. CASE UNCHANGED vars
  <2>1. RInv'
    BY RInvStep DEF PInv
  <2>2. UNCHANGED <<state, export, run, at, sees>>
    BY <1>1 DEF vars, project, queue
  <2>3. OneAgent' /\ SeesCurrent' /\ DeployedDone'
    BY <2>2 DEF PInv, OneAgent, SeesCurrent, DeployedDone, Busy
  <2>4. Good
    BY <2>2, ExportKept, RestGood DEF PInv, ProjectsRest
  <2> QED
    BY <2>1, <2>3, <2>4 DEF PInv, Good
<1>2. CASE Next
  <2>1. RInv'
    BY RInvStep DEF PInv
  <2>2. OneAgent' /\ SeesCurrent'
    BY <1>2, AgentStep
  <2>3. Good
    BY <1>2, StepGood
  <2>4. DeployedDone'
    BY <1>2, <2>3, DoneStep
  <2> QED
    BY <2>1, <2>2, <2>3, <2>4 DEF PInv, Good
<1> QED
  BY <1>1, <1>2

\* With one consumer of the agent-build queue, a site that is published or going to
\* be was judged as it is: no agent has touched the export since (visualQa.ts judges
\* what its screenshots show, workerConsumerPool.ts runs one agent at a time).
THEOREM JudgedBeforePublished ==
    ASSUME Slots = 1
    PROVE  Spec => []PublishedWasJudged
<1>1. PInv => PublishedWasJudged
  BY DEF PInv
<1>2. PInv /\ [Next]_vars => PInv'
  BY PInvStep
<1> QED
  BY <1>1, <1>2, PInvInit, PTL DEF Spec

\* The pipeline, with one consumer, keeps the promise of DemoLifecycle: what is
\* public was approved as it is and stays public, what QA refused goes on by the
\* operator's word only, what was given up stays dead.
THEOREM ImplementsDemoLifecycle ==
    ASSUME Slots = 1
    PROVE  Spec => DemoPromise
<1>1. Init => Demo!Init
  <2> SUFFICES ASSUME Init PROVE Demo!Init
    OBVIOUS
  <2>1. \A p \in Projects : state[p] = "none" /\ export[p] = "none"
    BY DEF Init
  <2> QED
    BY <2>1, StageOf DEF Demo!Init, Judged
<1>2. PInv /\ [Next]_vars => PInv' /\ [Demo!Next]_(Demo!vars)
  BY PInvStep DEF Stages, Demo!vars
<1> QED
  BY <1>1, <1>2, PInvInit, PTL DEF Spec, DemoPromise, Demo!Spec
-----------------------------------------------------------------------------
(***************************************************************************)
(* With one consumer, and with at most one fault, a business in the build  *)
(* is carried: by a job that is going to move it on or by one on the       *)
(* operator's desk.                                                        *)
(***************************************************************************)

\* The jobs of the rounds, and what one may be asked to do.
Works == BuildJobs \cup QaJobs
HeldBack == Parked \cup {"retrying"}
Waiting == {"queued"} \cup HeldBack
Live(k) == run[k] = "queued" \/ Working(k)

\* The rounds of a project are over.
Past == {"ready", "deployed", "failed", "cancelled"}
Reviewed == Past \cup {"needs_human_review"}

\* What the claim is about, and the time before a fault has made a handler fail.
OneFault == faults <= 1 /\ ~IterationOrdered
Calm == faults = 0 \/ boot # "up"

\* A project that is not there has no round and no jobs; no deploy before the rounds
\* are over; a builder works on a project that it claimed; what only other handlers do.
Unborn ==
    \A p \in Projects : state[p] = "none" =>
        round[p] = 0 /\ \A k \in Works : ProjectOf(k) = p => run[k] = "none"
DeployLate ==
    \A k \in DeployJobs : run[k] # "none" \/ at[k] = "lost" => state[ProjectOf(k)] \in Past
BuildAtWork ==
    \A k \in BuildJobs : /\ Working(k) => state[ProjectOf(k)] \in Past \cup {"building"}
                         /\ at[k] # "parked"
RoundSteps == \A k \in Works : at[k] \notin {"saw ready", "saw progress"}

\* A verdict that parked the project is of one whose rounds are over.
ParkedReviewed ==
    \A k \in QaJobs : at[k] = "parked" \/ run[k] = "needs_human" => state[ProjectOf(k)] \in Reviewed

\* Before a handler failed no round waits to be retried.
CalmWaits ==
    Calm => /\ \A k \in BuildJobs : run[k] \notin HeldBack
            /\ \A k \in QaJobs : run[k] \in HeldBack => state[ProjectOf(k)] \in Reviewed

\* Before the first fault a project in its rounds has one job at most, of this round.
InTurn ==
    faults = 0 => \A k \in Works : Live(k) /\ state[ProjectOf(k)] \in Transient =>
        /\ IterationOf(k) = round[ProjectOf(k)]
        /\ \A j \in Works : Live(j) /\ ProjectOf(j) = ProjectOf(k) => j = k

\* A build that failed has its project for itself, as its agent left it.
HeldAlone ==
    \A k \in BuildJobs : run[k] \in HeldBack =>
        /\ state[ProjectOf(k)] \in Past \cup {"building"}
        /\ state[ProjectOf(k)] = "building" =>
              /\ IterationOf(k) = round[ProjectOf(k)]
              /\ \A j \in Works : (Live(j) \/ run[j] \in HeldBack) /\ ProjectOf(j) = ProjectOf(k) => j = k

RoundsInv ==
    /\ Unborn /\ DeployLate /\ BuildAtWork /\ RoundSteps
    /\ boot # "up" => faults # 0
    /\ OneFault => ParkedReviewed /\ CalmWaits /\ InTurn /\ HeldAlone

\* The attempt of an open stop command waits or went stale, unless a newer one of its key
\* was enqueued, as happens to designs only.
Shelved(k) == run[k] \in HeldBack \/ (k \in DeployJobs /\ run[k] = "stale")

DeskHeld ==
    desk # NoCommand => /\ desk[1] \notin QaJobs
                        /\ desk[3] => Shelved(desk[1])
                        /\ OneFault /\ ~desk[3] => desk[1] \in DesignJobs

\* A job that will move the business on, or waits for the operator to let it.
Carries(k) ==
    LET p == ProjectOf(k) IN
    \/ /\ k \in DesignJobs
       /\ run[k] \in Waiting \/ (run[k] = "running" /\ at[k] \in {"saw progress", "working"})
    \/ /\ k \in BuildJobs
       /\ IterationOf(k) = round[p]
       /\ \/ run[k] \in Waiting /\ state[p] \in Transient
          \/ Working(k) /\ state[p] = "building"
    \/ /\ k \in QaJobs
       /\ IterationOf(k) = round[p]
       /\ \/ (run[k] \in Waiting \/ Working(k)) /\ state[p] = "qa"
          \/ /\ run[k] \in Waiting /\ state[p] = "building"
             /\ \E j \in BuildJobs : ProjectOf(j) = p /\ Working(j)
    \/ /\ k \in DeployJobs
       /\ \/ run[k] \in Waiting \cup {"stale"}
          \/ run[k] = "running" /\ at[k] = "lost"
          \/ Working(k) /\ state[p] \in {"ready", "deployed"}

\* An open stop command is going to take the job away and leave the business in the build.
Threatened(k) ==
    /\ desk # NoCommand
    /\ desk[2] # "site_in_progress"
    /\ \/ desk[3] /\ desk[1] = k
       \/ /\ desk[1] \notin DesignJobs /\ k \notin DesignJobs
          /\ ProjectOf(desk[1]) = ProjectOf(k)

CarriedOn == \E k \in Jobs : Carries(k) /\ ~Threatened(k)

Carried == OneFault /\ status = "site_in_progress" => CarriedOn

CInv == PInv /\ RoundsInv /\ DeskHeld /\ Carried

\* The kinds of jobs are disjoint, and a key names its project and round.
LEMMA JobNames ==
    /\ Works \subseteq Jobs /\ DesignJobs \subseteq Jobs /\ DeployJobs \subseteq Jobs
    /\ \A k \in DesignJobs : k \notin Works /\ k \notin DeployJobs /\ k \in AgentJobs
    /\ \A k \in DeployJobs : k \notin Works /\ k \notin AgentJobs
    /\ \A k \in BuildJobs : k \notin QaJobs /\ k \in Works /\ k \in AgentJobs
    /\ \A k \in QaJobs : k \notin BuildJobs /\ k \in Works /\ k \in AgentJobs
    /\ \A k \in Works \cup DeployJobs : ProjectOf(k) \in Projects
    /\ \A k \in Jobs : k \in DesignJobs \/ k \in BuildJobs \/ k \in QaJobs \/ k \in DeployJobs
    /\ \A p \in Projects : ProjectOf(Deploy(p)) = p
    /\ \A p \in Projects, i \in Rounds :
        /\ ProjectOf(Build(p, i)) = p /\ IterationOf(Build(p, i)) = i
        /\ ProjectOf(Qa(p, i)) = p /\ IterationOf(Qa(p, i)) = i
<1>1. \A i \in Rounds : i # Ordered
  BY BuildConstants, SMT DEF Rounds, Ordered
<1>2. \A p \in Projects, i \in Rounds :
        /\ ProjectOf(Build(p, i)) = p /\ IterationOf(Build(p, i)) = i
        /\ ProjectOf(Qa(p, i)) = p /\ IterationOf(Qa(p, i)) = i
  BY <1>1 DEF ProjectOf, Build, Qa, IterationOf
<1>3. \A p \in Projects : ProjectOf(Deploy(p)) = p
  BY DEF ProjectOf, Deploy
<1> QED
  BY <1>2, <1>3, JobKinds DEF Works

\* A key that had a run has one for ever.
LEMMA Remembered ==
    ASSUME TypeOK, Next
    PROVE  /\ \A k \in Jobs : run[k] # "none" => run'[k] # "none"
           /\ faults' = faults \/ faults' = faults + 1
<1> USE DEF Fault
<1>0. \A j : \A k \in Jobs : run[k] # "none" => Enqueued(run, j)[k] # "none"
  BY DEF TypeOK, Enqueued
<1>1. \A j : \A s : s # "none" => \A k \in Jobs : run[k] # "none" => [run EXCEPT ![j] = s][k] # "none"
  BY DEF TypeOK
<1> DEFINE Goal == /\ \A k \in Jobs : run[k] # "none" => run'[k] # "none"
                   /\ faults' = faults \/ faults' = faults + 1
<1>2. ASSUME run' = run \/ \E j : run' = Enqueued(run, j) \/ \E s : s # "none" /\ run' = [run EXCEPT ![j] = s]
      PROVE  \A k \in Jobs : run[k] # "none" => run'[k] # "none"
  BY <1>0, <1>1, <1>2
<1>3. ASSUME NEW k \in DesignJobs, Design(k) PROVE Goal
  <2>1. UNCHANGED faults
    BY <1>3 DEF Design, DesignReads, DesignIllegal, DesignClaims, DesignRetries, DesignRejected,
                DesignCommits, Skips, bounds
  <2>2. run' = run \/ \E j : run' = Enqueued(run, j) \/ \E s : s # "none" /\ run' = [run EXCEPT ![j] = s]
    BY <1>3 DEF Design, DesignReads, DesignIllegal, DesignClaims, DesignRetries, DesignRejected,
                DesignCommits, Skips, Takes, Ends, Commits
  <2> QED
    BY <1>2, <2>1, <2>2
<1>4. ASSUME NEW k \in BuildJobs, Builder(k) PROVE Goal
  <2>1. faults' = faults \/ faults' = faults + 1
    BY <1>4 DEF Builder, BuildStarts, BuildStale, BuildRegenerates, BuildCommits, Skips, bounds
  <2>2. \E j : run' = Enqueued(run, j) \/ \E s : s # "none" /\ run' = [run EXCEPT ![j] = s]
    BY <1>4 DEF Builder, BuildStarts, BuildStale, BuildRegenerates, BuildCommits, Skips, Takes,
                Ends, Commits
  <2> QED
    BY <1>2, <2>1, <2>2
<1>5. ASSUME NEW k \in QaJobs, VisualQa(k) PROVE Goal
  <2>1. UNCHANGED faults
    BY <1>5 DEF VisualQa, QaStarts, QaPasses, QaParks, QaFeedsBack, Skips, bounds
  <2>2. run' = run \/ \E j : run' = Enqueued(run, j) \/ \E s : s # "none" /\ run' = [run EXCEPT ![j] = s]
    BY <1>5 DEF VisualQa, QaStarts, QaPasses, QaParks, QaFeedsBack, Skips, Takes, Ends, Commits
  <2> QED
    BY <1>2, <2>1, <2>2
<1>6. ASSUME NEW k \in DeployJobs, Deployer(k) PROVE Goal
  <2>1. UNCHANGED faults
    BY <1>6 DEF Deployer, DeployStarts, DeployCommits, Skips, bounds
  <2>2. run' = run \/ \E j : \E s : s # "none" /\ run' = [run EXCEPT ![j] = s]
    BY <1>6 DEF Deployer, DeployStarts, DeployCommits, Skips, Ends, Commits
  <2> QED
    BY <1>2, <2>1, <2>2
<1>7. ASSUME NEW k \in Jobs, Throw(k) \/ Finish(k) \/ StopReads(k) \/ RetryClaims(k) \/ RetryEnqueues(k)
      PROVE  Goal
  <2>1. faults' = faults \/ faults' = faults + 1
    BY <1>7 DEF Throw, Finish, StopReads, RetryClaims, RetryEnqueues, bounds
  <2>2. run' = run \/ \E s : s # "none" /\ run' = [run EXCEPT ![k] = s]
    BY <1>7 DEF Throw, Finish, StopReads, RetryClaims, RetryEnqueues, Ends, queue
  <2> QED
    BY <1>2, <2>1, <2>2
<1>8. ASSUME NEW p \in Projects, Decides(p) PROVE Goal
  <2>1. UNCHANGED faults
    BY <1>8 DEF Decides, DeployAsIs, AnotherIteration, RejectBuild
  <2>2. /\ ReviewClosed(p) \in [Jobs -> RunStatus]
        /\ \A k \in Jobs : run[k] # "none" => ReviewClosed(p)[k] # "none"
    BY Words DEF TypeOK, ReviewClosed
  <2>3. run' = ReviewClosed(p) \/ \E j : run' = Enqueued(ReviewClosed(p), j)
    BY <1>8 DEF Decides, DeployAsIs, AnotherIteration, RejectBuild
  <2>4. \A j : \A k \in Jobs : run[k] # "none" => Enqueued(ReviewClosed(p), j)[k] # "none"
    BY <2>2 DEF Enqueued
  <2> QED
    BY <2>1, <2>2, <2>3, <2>4
<1>9. ASSUME NEW found \in BOOLEAN, NEW auto \in BOOLEAN, Readiness(found, auto) PROVE Goal
  <2>1. UNCHANGED faults /\ (run' = run \/ run' = Enqueued(run, FirstDesign))
    BY <1>9 DEF Readiness
  <2> QED
    BY <1>2, <2>1
<1>10. CASE StartBuild \/ GiveUp
  <2>1. UNCHANGED faults /\ (run' = run \/ run' = Enqueued(run, FirstDesign))
    BY <1>10 DEF StartBuild, GiveUp, queue, bounds
  <2> QED
    BY <1>2, <2>1
<1>11. CASE StartFreshBuild
  BY <1>11 DEF StartFreshBuild
<1>12. CASE StopWrites
  <2>1. UNCHANGED faults /\ (run' = run \/ run' = [run EXCEPT ![desk[1]] = "cancelled"])
    BY <1>12 DEF StopWrites, bounds
  <2> QED
    BY <1>2, <2>1
<1>13. CASE RestartBuilders
  BY <1>13 DEF RestartBuilders
<1>14. CASE RestartCore
  BY <1>14 DEF RestartCore
<1>15. CASE MarkStale
  BY <1>15 DEF MarkStale, bounds
<1>16. CASE FailInterrupted \/ RevertStranded
  BY <1>16 DEF FailInterrupted, RevertStranded, queue, bounds
<1> QED
  BY <1>3, <1>4, <1>5, <1>6, <1>7, <1>8, <1>9, <1>10, <1>11, <1>12, <1>13, <1>14, <1>15, <1>16
     DEF Next

\* The time of the claim only ends.
LEMMA OneFaultBefore ==
    ASSUME TypeOK, Next, OneFault'
    PROVE  OneFault /\ (faults' # faults => faults = 0)
<1>1. faults \in Nat
  BY DEF TypeOK
<1>2. \A p \in Projects : Build(p, Ordered) \in Jobs
  BY JobKinds
<1> QED
  BY <1>1, <1>2, Remembered DEF OneFault, IterationOrdered

-----------------------------------------------------------------------------
(***************************************************************************)
(* Most steps ask nothing new of a round: a job of the rounds goes on as   *)
(* it was or ends, a project stays or is past its rounds.                  *)
(***************************************************************************)
JobEases(k) ==
    /\ run'[k] \in Waiting => run'[k] = run[k]
    /\ run'[k] # "none" => run[k] # "none"
    /\ run'[k] = "running" /\ at'[k] = "working" => Working(k)
    /\ at'[k] \in {"parked", "saw ready", "saw progress"} => at'[k] = at[k]

ProjectEases(p) ==
    \/ state'[p] = state[p] /\ round'[p] = round[p]
    \/ state[p] # "none" /\ state'[p] \in Past

DeployEases(k) ==
    run'[k] # "none" \/ at'[k] = "lost" =>
        \/ state'[ProjectOf(k)] \in Past
        \/ run[k] # "none" \/ at[k] = "lost"

RoundsEase ==
    /\ \A k \in Works : JobEases(k)
    /\ \A p \in Projects : ProjectEases(p)
    /\ \A k \in DeployJobs : DeployEases(k)

\* What eases the rounds keeps their invariant.
LEMMA RestRounds ==
    ASSUME TypeOK, Next, RoundsInv, RoundsEase,
           boot' # "up" => faults' # 0, OneFault' /\ Calm' => Calm
    PROVE  RoundsInv'
<1> USE DEF RoundsEase
<1>1. \A k \in Works \cup DeployJobs : ProjectOf(k) \in Projects
  BY JobNames
<1>2. Unborn'
  <2> SUFFICES ASSUME NEW p \in Projects, state'[p] = "none"
               PROVE  round'[p] = 0 /\ \A k \in Works : ProjectOf(k) = p => run'[k] = "none"
    BY DEF Unborn
  <2>1. state[p] = "none" /\ round'[p] = round[p]
    BY DEF ProjectEases, Past
  <2> QED
    BY <2>1 DEF RoundsInv, Unborn, JobEases
<1>3. DeployLate'
  <2> SUFFICES ASSUME NEW k \in DeployJobs, run'[k] # "none" \/ at'[k] = "lost"
               PROVE  state'[ProjectOf(k)] \in Past
    BY DEF DeployLate
  <2> QED
    BY <1>1 DEF DeployEases, ProjectEases, RoundsInv, DeployLate
<1>4. BuildAtWork'
  <2>0. \A k \in BuildJobs : at'[k] # "parked"
    BY JobNames DEF JobEases, RoundsInv, BuildAtWork
  <2> SUFFICES ASSUME NEW k \in BuildJobs, run'[k] = "running" /\ at'[k] = "working"
               PROVE  state'[ProjectOf(k)] \in Past \cup {"building"}
    BY <2>0 DEF BuildAtWork, Working
  <2>1. Working(k) /\ ProjectOf(k) \in Projects
    BY <1>1, JobNames DEF JobEases
  <2> QED
    BY <2>1 DEF ProjectEases, RoundsInv, BuildAtWork
<1>6. RoundSteps'
  BY DEF RoundSteps, JobEases, RoundsInv
<1>5. ASSUME OneFault'
      PROVE  ParkedReviewed' /\ CalmWaits' /\ InTurn' /\ HeldAlone'
  <2>0. ParkedReviewed /\ CalmWaits /\ InTurn /\ HeldAlone /\ (faults' = 0 => faults = 0)
    BY <1>5, OneFaultBefore DEF RoundsInv
  <2>1. ParkedReviewed'
    <3> SUFFICES ASSUME NEW k \in QaJobs, at'[k] = "parked" \/ run'[k] = "needs_human"
                 PROVE  state'[ProjectOf(k)] \in Reviewed
      BY DEF ParkedReviewed
    <3>1. (at[k] = "parked" \/ run[k] = "needs_human") /\ ProjectOf(k) \in Projects
      BY <1>1, JobNames DEF JobEases, Waiting, HeldBack, Parked
    <3> QED
      BY <2>0, <3>1 DEF ParkedReviewed, ProjectEases, Reviewed
  <2>2. CalmWaits'
    <3>1. ASSUME NEW k \in Works, run'[k] \in HeldBack
          PROVE  run[k] \in HeldBack /\ ProjectOf(k) \in Projects
      BY <1>1, <3>1 DEF JobEases, Waiting
    <3>2. CASE Calm'
      <4>1. Calm
        BY <1>5, <3>2
      <4> QED
        BY <2>0, <3>1, <4>1, JobNames DEF CalmWaits, ProjectEases, Reviewed
    <3> QED
      BY <3>2 DEF CalmWaits
  <2>3. InTurn'
    <3> SUFFICES ASSUME faults' = 0, NEW k \in Works, Live(k)', state'[ProjectOf(k)] \in Transient
                 PROVE  /\ IterationOf(k) = round'[ProjectOf(k)]
                        /\ \A j \in Works : Live(j)' /\ ProjectOf(j) = ProjectOf(k) => j = k
      BY DEF InTurn
    <3>1. \A j \in Works : Live(j)' => Live(j)
      BY DEF JobEases, Live, Working, Waiting
    <3>2. state[ProjectOf(k)] \in Transient /\ round'[ProjectOf(k)] = round[ProjectOf(k)]
      BY <1>1 DEF ProjectEases, Past, Transient
    <3> QED
      BY <2>0, <3>1, <3>2 DEF InTurn
  <2>4. HeldAlone'
    <3> SUFFICES ASSUME NEW k \in BuildJobs, run'[k] \in HeldBack
                 PROVE  /\ state'[ProjectOf(k)] \in Past \cup {"building"}
                        /\ state'[ProjectOf(k)] = "building" =>
                              /\ IterationOf(k) = round'[ProjectOf(k)]
                              /\ \A j \in Works : (Live(j)' \/ run'[j] \in HeldBack)
                                                    /\ ProjectOf(j) = ProjectOf(k) => j = k
      BY DEF HeldAlone
    <3>1. \A j \in Works : /\ Live(j)' => Live(j)
                           /\ run'[j] \in HeldBack => run[j] \in HeldBack
      BY DEF JobEases, Live, Working, Waiting
    <3>2. run[k] \in HeldBack /\ ProjectOf(k) \in Projects
      BY <1>1, <3>1, JobNames
    <3>3. state'[ProjectOf(k)] \notin Past =>
              /\ state[ProjectOf(k)] = state'[ProjectOf(k)]
              /\ round[ProjectOf(k)] = round'[ProjectOf(k)]
      BY <3>2 DEF ProjectEases
    <3>4. state[ProjectOf(k)] \in Past \cup {"building"}
      BY <2>0, <3>2 DEF HeldAlone
    <3>5. state[ProjectOf(k)] = "building" =>
              /\ IterationOf(k) = round[ProjectOf(k)]
              /\ \A j \in Works : (Live(j) \/ run[j] \in HeldBack) /\ ProjectOf(j) = ProjectOf(k) => j = k
      BY <2>0, <3>2 DEF HeldAlone
    <3>6. state'[ProjectOf(k)] = "building" => state'[ProjectOf(k)] \notin Past
      BY DEF Past
    <3> QED
      BY <3>1, <3>3, <3>4, <3>5, <3>6
  <2> QED
    BY <2>1, <2>2, <2>3, <2>4
<1> QED
  BY <1>2, <1>3, <1>4, <1>5, <1>6 DEF RoundsInv

\* Outside the boots the time before a fault only ends.
LEMMA RestBoot ==
    ASSUME TypeOK, Next, RoundsInv, UNCHANGED boot
    PROVE  /\ boot' # "up" => faults' # 0
           /\ Calm' => Calm
           /\ faults' = 0 => faults = 0
<1>1. faults \in Nat /\ (faults' = faults \/ faults' = faults + 1)
  BY Remembered DEF TypeOK
<1> QED
  BY <1>1 DEF RoundsInv, Calm

\* What touches neither a round nor a deploy.
LEMMA Untouched ==
    ASSUME \A k \in Works \cup DeployJobs : run'[k] = run[k] /\ at'[k] = at[k],
           UNCHANGED <<state, round>>
    PROVE  RoundsEase
BY DEF RoundsEase, JobEases, ProjectEases, DeployEases, Working

\* The design stage, but for the commit of a new project.
LEMMA DesignEases ==
    ASSUME TypeOK, NEW k \in DesignJobs, Design(k), ~DesignCommits(k)
    PROVE  RoundsEase /\ UNCHANGED boot
<1>1. UNCHANGED <<state, round, boot>>
  BY DEF Design, DesignReads, DesignIllegal, DesignClaims, DesignRetries, DesignRejected, Skips, project
<1>2. /\ run' = run \/ run' = Enqueued(run, GateRetry) \/ \E s : run' = [run EXCEPT ![k] = s]
      /\ at' = at \/ \E s : at' = [at EXCEPT ![k] = s]
  BY DEF Design, DesignReads, DesignIllegal, DesignClaims, DesignRetries, DesignRejected, Skips,
         Takes, Ends, Commits
<1>3. \A i \in Works \cup DeployJobs : i \in Jobs /\ i # k /\ i # GateRetry
  BY JobNames, JobKinds
<1>4. \A i \in Works \cup DeployJobs : run'[i] = run[i] /\ at'[i] = at[i]
  BY <1>2, <1>3 DEF TypeOK, Enqueued
<1> QED
  BY <1>1, <1>4, Untouched

\* A handler of a round that is over when it starts, or whose verdict is not wanted.
LEMMA SkipEases ==
    ASSUME TypeOK, NEW k \in Jobs, run[k] # "none", Skips(k)
    PROVE  RoundsEase /\ UNCHANGED boot
<1>1. /\ run' = [run EXCEPT ![k] = "skipped"] /\ at' = [at EXCEPT ![k] = "idle"]
      /\ UNCHANGED <<state, round, boot>>
  BY DEF Skips, Ends, project
<1>2. \A j \in Jobs : /\ run'[j] = IF j = k THEN "skipped" ELSE run[j]
                      /\ at'[j] = IF j = k THEN "idle" ELSE at[j]
  BY <1>1 DEF TypeOK
<1>3. \A j \in Works \cup DeployJobs : j \in Jobs
  BY JobNames
<1>4. \A j \in Works : JobEases(j)
  BY <1>2, <1>3 DEF JobEases, Working, Waiting, HeldBack, Parked
<1>5. \A j \in DeployJobs : DeployEases(j)
  BY <1>2, <1>3 DEF DeployEases
<1> QED
  BY <1>1, <1>4, <1>5 DEF RoundsEase, ProjectEases

\* The handler of a round commits and its project goes past its rounds; the job it
\* enqueues is none of a round.
LEMMA PastEases ==
    ASSUME TypeOK, NEW k \in Jobs, run[k] # "none", NEW p \in Projects, state[p] # "none",
           NEW s \in Past, state' = [state EXCEPT ![p] = s],
           \A q \in Projects : q # p => round'[q] = round[q],
           NEW j \in Jobs, j \notin Works, j \in DeployJobs => ProjectOf(j) = p,
           run' = run \/ run' = Enqueued(run, j),
           at' = at \/ at' = [at EXCEPT ![k] = "done"]
    PROVE  RoundsEase
<1>1. \A i \in Jobs : /\ run'[i] = run[i] \/ (i = j /\ run'[i] = "queued")
                      /\ at'[i] = at[i] \/ at'[i] = "done"
  BY DEF TypeOK, Enqueued
<1>2. \A q \in Projects : state'[q] = IF q = p THEN s ELSE state[q]
  BY DEF TypeOK
<1>3. \A i \in Works \cup DeployJobs : i \in Jobs
  BY JobNames
<1>4. \A i \in Works : JobEases(i)
  BY <1>1, <1>3 DEF JobEases, Working
<1>5. \A q \in Projects : ProjectEases(q)
  BY <1>2 DEF ProjectEases
<1>6. \A i \in DeployJobs : DeployEases(i)
  BY <1>1, <1>2, <1>3 DEF DeployEases
<1> QED
  BY <1>4, <1>5, <1>6 DEF RoundsEase

\* A build that is stale, closes its project, or finds it stopped.
LEMMA BuilderEases ==
    ASSUME TypeOK, NEW k \in BuildJobs, BuildStale(k) \/ BuildRegenerates(k) \/ Skips(k),
           Working(k) \/ BuildStale(k)
    PROVE  RoundsEase /\ UNCHANGED boot
<1>1. k \in Jobs /\ ProjectOf(k) \in Projects /\ k \in Works
  BY JobNames
<1>2. CASE BuildStale(k) \/ Skips(k)
  BY <1>1, <1>2, SkipEases DEF BuildStale, Working
<1>3. CASE BuildRegenerates(k)
  <2> DEFINE p == ProjectOf(k)
  <2>1. /\ run[k] # "none" /\ state[p] # "none" /\ "failed" \in Past /\ p \in Projects
        /\ state' = [state EXCEPT ![p] = "failed"] /\ round' = round
        /\ run' = Enqueued(run, Redesign(p)) /\ at' = [at EXCEPT ![k] = "done"]
        /\ UNCHANGED boot
    BY <1>1, <1>3 DEF BuildRegenerates, Working, Commits, Past
  <2>2. Redesign(p) \in Jobs /\ Redesign(p) \notin Works /\ Redesign(p) \notin DeployJobs
    BY <1>1, JobKinds, JobNames
  <2> HIDE DEF p
  <2> QED
    BY <1>1, <2>1, <2>2, PastEases
<1> QED
  BY <1>2, <1>3

\* A verdict that is not wanted, or that passes its project.
LEMMA VerdictEases ==
    ASSUME TypeOK, NEW k \in QaJobs, Working(k), Skips(k) \/ (QaPasses(k) /\ Judges(k))
    PROVE  RoundsEase /\ UNCHANGED boot
<1>1. k \in Jobs /\ ProjectOf(k) \in Projects /\ run[k] # "none"
  BY JobNames DEF Working
<1>2. CASE Skips(k)
  BY <1>1, <1>2, SkipEases
<1>3. CASE QaPasses(k) /\ Judges(k)
  <2> DEFINE p == ProjectOf(k)
  <2>1. /\ state[p] # "none" /\ "ready" \in Past /\ p \in Projects
        /\ state' = [state EXCEPT ![p] = "ready"] /\ round' = Counted(k)
        /\ run' = Enqueued(run, Deploy(p)) /\ at' = [at EXCEPT ![k] = "done"]
        /\ UNCHANGED boot
    BY <1>1, <1>3 DEF QaPasses, Judges, Commits, Past
  <2>2. Deploy(p) \in Jobs /\ Deploy(p) \notin Works /\ ProjectOf(Deploy(p)) = p
    BY <1>1, JobKinds, JobNames
  <2>3. \A q \in Projects : q # p => round'[q] = round[q]
    BY <2>1 DEF Counted, TypeOK
  <2> HIDE DEF p
  <2> QED
    BY <1>1, <2>1, <2>2, <2>3, PastEases
<1> QED
  BY <1>2, <1>3

\* A deploy is asked nothing of a round.
LEMMA DeployerEases ==
    ASSUME TypeOK, NEW k \in DeployJobs, Deployer(k)
    PROVE  RoundsEase /\ UNCHANGED boot
<1>1. k \in Jobs /\ k \notin Works /\ ProjectOf(k) \in Projects
      /\ \A j \in Works \cup DeployJobs : j \in Jobs
  BY JobNames
<1>2. ASSUME run[k] # "none", UNCHANGED <<state, round, boot>>,
             \E s, t : s # "none" /\ run' = [run EXCEPT ![k] = s] /\ at' = [at EXCEPT ![k] = t]
      PROVE  RoundsEase /\ UNCHANGED boot
  <2>1. \A j \in Jobs : j # k => run'[j] = run[j] /\ at'[j] = at[j]
    BY <1>2 DEF TypeOK
  <2> QED
    BY <1>1, <1>2, <2>1 DEF RoundsEase, JobEases, ProjectEases, DeployEases, Working
<1>3. CASE DeployStarts(k)
  <2>1. run[k] # "none" /\ UNCHANGED <<state, round, boot>>
    BY <1>3 DEF DeployStarts, Skips, project
  <2>2. \E s, t : s # "none" /\ run' = [run EXCEPT ![k] = s] /\ at' = [at EXCEPT ![k] = t]
    BY <1>3, Zenon DEF DeployStarts, Skips, Ends
  <2> QED
    BY <1>2, <2>1, <2>2
<1>4. CASE DeployCommits(k)
  <2>1. CASE DeployFits(ProjectOf(k))
    <3> DEFINE p == ProjectOf(k)
    <3>1. /\ run[k] # "none" /\ state[p] # "none" /\ "deployed" \in Past
          /\ state' = [state EXCEPT ![p] = "deployed"] /\ round' = round
          /\ run' = run /\ at' = [at EXCEPT ![k] = "done"] /\ UNCHANGED boot
      BY <1>4, <2>1 DEF DeployCommits, DeployFits, Working, Commits, Past
    <3>2. ProjectOf(k) = p
      OBVIOUS
    <3> HIDE DEF p
    <3> QED
      BY <1>1, <3>1, <3>2, PastEases
  <2>2. CASE ~DeployFits(ProjectOf(k))
    BY <1>1, <1>4, <2>2, SkipEases DEF DeployCommits, Working
  <2> QED
    BY <2>1, <2>2
<1> QED
  BY <1>3, <1>4 DEF Deployer

\* The operator closes, publishes and begins; rounds are asked of nobody.
LEMMA DecisionEases ==
    ASSUME TypeOK, NEW p \in Projects, DeployAsIs(p) \/ RejectBuild(p)
    PROVE  RoundsEase /\ UNCHANGED boot
<1>1. Deploy(p) \in DeployJobs /\ Deploy(p) \in Jobs /\ Deploy(p) \notin Works /\ ProjectOf(Deploy(p)) = p
      /\ \A j \in Works \cup DeployJobs : j \in Jobs
  BY JobNames, JobKinds
<1>2. \E s \in Past : state' = [state EXCEPT ![p] = s]
  BY DEF DeployAsIs, RejectBuild, Past
<1>3. state[p] # "none" /\ UNCHANGED <<round, at, boot>>
  BY DEF DeployAsIs, RejectBuild, AwaitsDecision
<1>4. run' = ReviewClosed(p) \/ run' = Enqueued(ReviewClosed(p), Deploy(p))
  BY DEF DeployAsIs, RejectBuild
<1>5. \A j \in Jobs : \/ run'[j] = run[j]
                      \/ run[j] = "needs_human" /\ run'[j] = "cancelled"
                      \/ j = Deploy(p)
  BY <1>1, <1>4 DEF ReviewClosed, Enqueued
<1>6. \A q \in Projects : ProjectEases(q)
  BY <1>2, <1>3 DEF ProjectEases, TypeOK
<1>7. state'[p] \in Past
  BY <1>2 DEF TypeOK
<1>8. \A j \in Works : JobEases(j)
  BY <1>1, <1>3, <1>5 DEF JobEases, Working, Waiting, HeldBack, Parked
<1>9. \A j \in DeployJobs : DeployEases(j)
  BY <1>1, <1>3, <1>5, <1>7 DEF DeployEases
<1> QED
  BY <1>3, <1>6, <1>8, <1>9 DEF RoundsEase

\* The gate and the operator begin a design at most.
LEMMA StartEases ==
    ASSUME TypeOK,
           \/ \E found, auto \in BOOLEAN : Readiness(found, auto)
           \/ StartBuild \/ GiveUp
           \/ \E k \in Jobs : StopReads(k)
    PROVE  RoundsEase /\ UNCHANGED boot
<1>1. UNCHANGED <<state, round, at, boot>> /\ (run' = run \/ run' = Enqueued(run, FirstDesign))
  BY DEF Readiness, StartBuild, GiveUp, StopReads, queue, project
<1>2. \A j \in Works \cup DeployJobs : j \in Jobs /\ j # FirstDesign
  BY JobNames, JobKinds
<1>3. \A j \in Works \cup DeployJobs : run'[j] = run[j] /\ at'[j] = at[j]
  BY <1>1, <1>2 DEF TypeOK, Enqueued
<1> QED
  BY <1>1, <1>3, Untouched

\* What the operator closes is past its rounds.
LEMMA CloseEases ==
    ASSUME TypeOK, StartFreshBuild \/ StopWrites
    PROVE  RoundsEase /\ UNCHANGED boot
<1>1. \A j \in Works \cup DeployJobs : j \in Jobs /\ j # Rebuild
  BY JobNames, JobKinds
<1>2. UNCHANGED <<round, at, boot>>
  BY DEF StartFreshBuild, StopWrites
<1>3. \A j \in Jobs : \/ run'[j] = run[j]
                      \/ run[j] # "none" /\ run'[j] = "cancelled"
                      \/ j = Rebuild
  <2>1. CASE StartFreshBuild
    BY <2>1 DEF StartFreshBuild, Parked
  <2>2. CASE StopWrites
    <3>1. run' = run \/ (run[desk[1]] \in Parked /\ run' = [run EXCEPT ![desk[1]] = "cancelled"])
      BY <2>2 DEF StopWrites
    <3> QED
      BY <3>1 DEF TypeOK, Parked
  <2> QED
    BY <2>1, <2>2
<1>4. \A p \in Projects : state'[p] = state[p] \/ (state[p] # "none" /\ state'[p] = "cancelled")
  <2>1. CASE StartFreshBuild
    BY <2>1 DEF StartFreshBuild, ActiveProject, Transient
  <2>2. CASE StopWrites
    <3>1. \/ state' = state
          \/ /\ state[ProjectOf(desk[1])] \in Closable
             /\ state' = [state EXCEPT ![ProjectOf(desk[1])] = "cancelled"]
      BY <2>2 DEF StopWrites
    <3> QED
      BY <3>1 DEF TypeOK, Closable, Transient
  <2> QED
    BY <2>1, <2>2
<1>5. \A j \in Works : JobEases(j)
  BY <1>1, <1>2, <1>3 DEF JobEases, Working, Waiting, HeldBack, Parked
<1>6. \A p \in Projects : ProjectEases(p)
  BY <1>2, <1>4 DEF ProjectEases, Past
<1>7. \A j \in DeployJobs : DeployEases(j)
  BY <1>1, <1>2, <1>3 DEF DeployEases
<1> QED
  BY <1>2, <1>5, <1>6, <1>7 DEF RoundsEase

\* Throws, ends and retries of designs and deploys, and what is recorded of a round
\* that has committed.
LEMMA EndEases ==
    ASSUME TypeOK, RoundsInv, NEW k \in Jobs,
           \/ Finish(k) /\ ~(k \in QaJobs /\ at[k] = "parked")
           \/ k \notin Works /\ (Throw(k) \/ RetryClaims(k) \/ RetryEnqueues(k))
    PROVE  RoundsEase /\ UNCHANGED boot
<1>1. \A j \in Works \cup DeployJobs : j \in Jobs
  BY JobNames
<1>2. UNCHANGED <<state, round, boot>> /\ run[k] # "none"
  BY DEF Finish, Throw, RetryClaims, RetryEnqueues, project, Parked
<1>3. PICK s \in RunStatus : s # "none" /\ run' = [run EXCEPT ![k] = s]
                             /\ (Finish(k) => s = IF at[k] = "parked" THEN "needs_human" ELSE "succeeded")
  BY Words DEF Finish, Throw, RetryClaims, RetryEnqueues, Ends
<1>4. at' = at \/ at' = [at EXCEPT ![k] = "idle"]
  BY DEF Finish, Throw, RetryClaims, RetryEnqueues, Ends
<1>5. k \in Works => s = "succeeded"
  <2>1. ASSUME k \in Works PROVE Finish(k) /\ at[k] # "parked"
    BY <2>1 DEF Works, RoundsInv, BuildAtWork
  <2> QED
    BY <1>3, <2>1
<1>6. \A j \in Jobs : /\ run'[j] = IF j = k THEN s ELSE run[j]
                      /\ at'[j] = at[j] \/ at'[j] = "idle"
  BY <1>3, <1>4 DEF TypeOK
<1> QED
  BY <1>1, <1>2, <1>3, <1>5, <1>6
     DEF RoundsEase, JobEases, ProjectEases, DeployEases, Working, Waiting, HeldBack, Parked

\* Boots: only failInterruptedBuilds touches a project.
LEMMA BootRounds ==
    ASSUME TypeOK, Next, RoundsInv, RestartCore \/ MarkStale \/ FailInterrupted \/ RevertStranded
    PROVE  RoundsInv'
<1>1. \A j \in Works \cup DeployJobs : j \in Jobs
  BY JobNames
<1>2. \A j \in Works : run'[j] = run[j] /\ at'[j] = at[j]
  BY JobNames DEF RestartCore, MarkStale, FailInterrupted, RevertStranded, queue
<1>3. \A j \in DeployJobs : DeployEases(j)
  BY <1>1, Zenon DEF RestartCore, MarkStale, FailInterrupted, RevertStranded, queue, DeployEases
<1>4. round' = round /\ \A p \in Projects : ProjectEases(p)
  <2>1. CASE FailInterrupted
    BY <2>1 DEF FailInterrupted, ProjectEases, Transient, Past
  <2>2. CASE ~FailInterrupted
    BY <2>2 DEF RestartCore, MarkStale, RevertStranded, project, ProjectEases
  <2> QED
    BY <2>1, <2>2
<1>5. boot' # "up" => faults' # 0
  <2>1. faults \in Nat
    BY DEF TypeOK
  <2> QED
    BY <2>1 DEF RestartCore, MarkStale, FailInterrupted, RevertStranded, RoundsInv, Fault, bounds
<1>6. OneFault' /\ Calm' => Calm
  <2>1. CASE RestartCore
    <3>1. faults' # faults
      BY <2>1 DEF RestartCore, Fault, TypeOK
    <3> QED
      BY <3>1, OneFaultBefore DEF Calm
  <2>2. CASE ~RestartCore
    BY <2>2 DEF MarkStale, FailInterrupted, RevertStranded, Calm, bounds
  <2> QED
    BY <2>1, <2>2
<1>7. RoundsEase
  BY <1>1, <1>2, <1>3, <1>4 DEF RoundsEase, JobEases, Working
<1> QED
  BY <1>5, <1>6, <1>7, RestRounds

-----------------------------------------------------------------------------
(***************************************************************************)
(* The steps that ask something of a round.                                *)
(***************************************************************************)

\* A handler hands its project over to the next job of a round.
LEMMA HandOver ==
    ASSUME TypeOK, Next, RoundsInv, NEW k \in Jobs, NEW p \in Projects,
           NEW e \in Works, ProjectOf(e) = p, run' = Enqueued(run, e), run[e] # "running",
           at' = [at EXCEPT ![k] = "done"],
           state[p] \in Transient \cup {"none"},
           NEW s \in Transient, state' = [state EXCEPT ![p] = s],
           \A q \in Projects : q # p => round'[q] = round[q],
           UNCHANGED <<boot, faults>>,
           OneFault => \A j \in BuildJobs : ProjectOf(j) = p => run[j] \notin HeldBack,
           \A j \in Works : ProjectOf(j) = p /\ Working(j) => j = k,
           OneFault /\ faults = 0 => /\ IterationOf(e) = round'[p]
                                     /\ \A j \in Works : ProjectOf(j) = p => run[j] # "queued"
    PROVE  RoundsInv'
<1>0. /\ \A j \in Works \cup DeployJobs : j \in Jobs /\ ProjectOf(j) \in Projects
      /\ \A j \in DeployJobs : j # e
      /\ \A j \in BuildJobs : j \in Works
      /\ \A j \in QaJobs : j \in Works
  BY JobNames
<1>1. /\ \A j \in Jobs : run'[j] = IF j = e /\ run[e] # "queued" THEN "queued" ELSE run[j]
      /\ \A j \in Jobs : at'[j] = IF j = k THEN "done" ELSE at[j]
      /\ \A q \in Projects : state'[q] = IF q = p THEN s ELSE state[q]
  BY <1>0 DEF TypeOK, Enqueued, IsActive, Active
<1>2. s # "none" /\ s \notin Past /\ state[p] \notin Reviewed /\ s \notin Reviewed
  BY DEF Transient, Past, Reviewed
<1>3. Unborn'
  BY <1>0, <1>1, <1>2 DEF RoundsInv, Unborn
<1>4. DeployLate'
  BY <1>0, <1>1, <1>2 DEF RoundsInv, DeployLate, Reviewed
<1>5. BuildAtWork'
  BY <1>0, <1>1 DEF RoundsInv, BuildAtWork, Working
<1>6. RoundSteps'
  <2>1. \A j \in Works : at'[j] = at[j] \/ at'[j] = "done"
    BY <1>0, <1>1
  <2> QED
    BY <2>1 DEF RoundsInv, RoundSteps
<1>7. ASSUME OneFault'
      PROVE  ParkedReviewed' /\ CalmWaits' /\ InTurn' /\ HeldAlone'
  <2>0. OneFault /\ ParkedReviewed /\ CalmWaits /\ InTurn /\ HeldAlone
    BY <1>7, OneFaultBefore DEF RoundsInv
  <2>1. ParkedReviewed'
    BY <1>0, <1>1, <1>2, <2>0 DEF ParkedReviewed
  <2>2. CalmWaits'
    BY <1>0, <1>1, <1>2, <2>0 DEF CalmWaits, Calm, HeldBack, Parked
  <2>3. InTurn'
    <3> SUFFICES ASSUME faults = 0, NEW i \in Works, Live(i)', state'[ProjectOf(i)] \in Transient
                 PROVE  /\ IterationOf(i) = round'[ProjectOf(i)]
                        /\ \A j \in Works : Live(j)' /\ ProjectOf(j) = ProjectOf(i) => j = i
      BY DEF InTurn
    <3>1. \A j \in Works : Live(j)' /\ ProjectOf(j) = p => j = e
      BY <1>0, <1>1, <2>0 DEF Live, Working
    <3>2. \A j \in Works : Live(j)' /\ ProjectOf(j) # p => Live(j)
      BY <1>0, <1>1 DEF Live, Working
    <3>3. CASE ProjectOf(i) = p
      BY <2>0, <3>1, <3>3
    <3>4. CASE ProjectOf(i) # p
      <4>1. Live(i) /\ state[ProjectOf(i)] \in Transient /\ round'[ProjectOf(i)] = round[ProjectOf(i)]
        BY <1>0, <1>1, <3>2, <3>4
      <4> QED
        BY <2>0, <3>2, <3>4, <4>1 DEF InTurn
    <3> QED
      BY <3>3, <3>4
  <2>4. HeldAlone'
    <3> SUFFICES ASSUME NEW i \in BuildJobs, run'[i] \in HeldBack
                 PROVE  /\ state'[ProjectOf(i)] \in Past \cup {"building"}
                        /\ state'[ProjectOf(i)] = "building" =>
                              /\ IterationOf(i) = round'[ProjectOf(i)]
                              /\ \A j \in Works : (Live(j)' \/ run'[j] \in HeldBack)
                                                    /\ ProjectOf(j) = ProjectOf(i) => j = i
      BY DEF HeldAlone
    <3>1. run[i] \in HeldBack /\ ProjectOf(i) # p
      BY <1>0, <1>1, <2>0 DEF HeldBack, Parked
    <3>2. /\ state'[ProjectOf(i)] = state[ProjectOf(i)] /\ round'[ProjectOf(i)] = round[ProjectOf(i)]
      BY <1>0, <1>1, <3>1
    <3>3. \A j \in Works : (Live(j)' \/ run'[j] \in HeldBack) /\ ProjectOf(j) # p
                              => Live(j) \/ run[j] \in HeldBack
      BY <1>0, <1>1 DEF Live, Working
    <3>4. /\ state[ProjectOf(i)] \in Past \cup {"building"}
          /\ state[ProjectOf(i)] = "building" =>
                /\ IterationOf(i) = round[ProjectOf(i)]
                /\ \A j \in Works : (Live(j) \/ run[j] \in HeldBack) /\ ProjectOf(j) = ProjectOf(i) => j = i
      BY <2>0, <3>1 DEF HeldAlone
    <3> QED
      BY <3>1, <3>2, <3>3, <3>4
  <2> QED
    BY <2>1, <2>2, <2>3, <2>4
<1>8. boot' # "up" => faults' # 0
  BY DEF RoundsInv
<1> QED
  BY <1>3, <1>4, <1>5, <1>6, <1>7, <1>8 DEF RoundsInv

\* An agent that works is alone in the agent-build queue.
LEMMA AgentAlone ==
    ASSUME PInv, NEW k \in AgentJobs, run[k] = "running"
    PROVE  \A j \in Works : run[j] = "running" => j = k
BY JobNames DEF PInv, OneAgent, Busy

\* A consumer takes a job of a round; a build claims its project.
LEMMA RoundStarts ==
    ASSUME TypeOK, Next, RoundsInv, NEW k \in Works, NEW p \in Projects, p = ProjectOf(k),
           run[k] = "queued", \A j \in Works : run[j] # "running",
           run' = [run EXCEPT ![k] = "running"], at' = [at EXCEPT ![k] = "working"],
           NEW s, state' = [state EXCEPT ![p] = s],
           \/ k \in QaJobs /\ s = state[p]
           \/ k \in BuildJobs /\ s = "building" /\ state[p] \in Transient,
           UNCHANGED <<round, boot, faults>>
    PROVE  RoundsInv'
<1>0. /\ \A j \in Works \cup DeployJobs : j \in Jobs /\ ProjectOf(j) \in Projects
      /\ \A j \in DeployJobs : j # k
      /\ \A j \in BuildJobs : j \in Works /\ j \notin QaJobs
      /\ \A j \in QaJobs : j \in Works
  BY JobNames
<1>1. /\ \A j \in Jobs : run'[j] = IF j = k THEN "running" ELSE run[j]
      /\ \A j \in Jobs : at'[j] = IF j = k THEN "working" ELSE at[j]
      /\ \A q \in Projects : state'[q] = IF q = p THEN s ELSE state[q]
  BY <1>0 DEF TypeOK
<1>2. Unborn'
  <2>1. state[p] # "none" /\ s # "none"
    BY <1>0 DEF RoundsInv, Unborn, Transient
  <2> QED
    BY <1>0, <1>1, <2>1 DEF RoundsInv, Unborn
<1>3. DeployLate'
  <2>1. \A j \in DeployJobs : run'[j] = run[j] /\ at'[j] = at[j]
    BY <1>0, <1>1
  <2>2. state[p] \in Past => s = state[p]
    BY DEF Past, Transient
  <2> QED
    BY <1>0, <1>1, <2>1, <2>2 DEF RoundsInv, DeployLate
<1>4. BuildAtWork'
  BY <1>0, <1>1 DEF RoundsInv, BuildAtWork, Working
<1>5. RoundSteps'
  <2>1. \A j \in Works : at'[j] = at[j] \/ at'[j] = "working"
    BY <1>0, <1>1
  <2> QED
    BY <2>1 DEF RoundsInv, RoundSteps
<1>6. ASSUME OneFault'
      PROVE  ParkedReviewed' /\ CalmWaits' /\ InTurn' /\ HeldAlone'
  <2>0. OneFault /\ ParkedReviewed /\ CalmWaits /\ InTurn /\ HeldAlone
    BY <1>6, OneFaultBefore DEF RoundsInv
  <2>1. state[p] \in Reviewed => s = state[p]
    BY DEF Reviewed, Past, Transient
  <2>2. ParkedReviewed'
    BY <1>0, <1>1, <2>0, <2>1 DEF ParkedReviewed
  <2>3. CalmWaits'
    BY <1>0, <1>1, <2>0, <2>1 DEF CalmWaits, Calm, HeldBack, Parked
  <2>4. \A j \in Works : Live(j)' => Live(j)
    BY <1>0, <1>1 DEF Live, Working
  <2>5. \A q \in Projects : state'[q] \in Transient => state[q] \in Transient
    BY <1>1
  <2>6. InTurn'
    <3> SUFFICES ASSUME faults = 0, NEW i \in Works, Live(i)', state'[ProjectOf(i)] \in Transient
                 PROVE  /\ IterationOf(i) = round'[ProjectOf(i)]
                        /\ \A j \in Works : Live(j)' /\ ProjectOf(j) = ProjectOf(i) => j = i
      BY DEF InTurn
    <3> QED
      BY <1>0, <2>0, <2>4, <2>5 DEF InTurn
  <2>7. HeldAlone'
    <3> SUFFICES ASSUME NEW i \in BuildJobs, run'[i] \in HeldBack
                 PROVE  /\ state'[ProjectOf(i)] \in Past \cup {"building"}
                        /\ state'[ProjectOf(i)] = "building" =>
                              /\ IterationOf(i) = round'[ProjectOf(i)]
                              /\ \A j \in Works : (Live(j)' \/ run'[j] \in HeldBack)
                                                    /\ ProjectOf(j) = ProjectOf(i) => j = i
      BY DEF HeldAlone
    <3>1. run[i] \in HeldBack /\ i # k
      BY <1>0, <1>1 DEF HeldBack, Parked
    <3>2. /\ state[ProjectOf(i)] \in Past \cup {"building"}
          /\ state[ProjectOf(i)] = "building" =>
                /\ IterationOf(i) = round[ProjectOf(i)]
                /\ \A j \in Works : (Live(j) \/ run[j] \in HeldBack) /\ ProjectOf(j) = ProjectOf(i) => j = i
      BY <2>0, <3>1 DEF HeldAlone
    <3>3. \A j \in Works : run'[j] \in HeldBack => run[j] \in HeldBack
      BY <1>0, <1>1 DEF HeldBack, Parked
    <3>4. Live(k)
      BY DEF Live
    <3>5. state[ProjectOf(i)] = "building" => ProjectOf(i) # p
      BY <3>1, <3>2, <3>4
    <3>6. state'[ProjectOf(i)] = state[ProjectOf(i)]
      <4>1. CASE ProjectOf(i) = p
        BY <1>0, <1>1, <3>2, <3>5, <4>1 DEF Past, Transient
      <4>2. CASE ProjectOf(i) # p
        BY <1>0, <1>1, <4>2
      <4> QED
        BY <4>1, <4>2
    <3> QED
      BY <2>4, <3>2, <3>3, <3>6
  <2> QED
    BY <2>2, <2>3, <2>6, <2>7
<1>7. boot' # "up" => faults' # 0
  BY DEF RoundsInv
<1> QED
  BY <1>2, <1>3, <1>4, <1>5, <1>6, <1>7 DEF RoundsInv

\* The last round: the verdict parks its project for the operator.
LEMMA RoundParks ==
    ASSUME PInv, Next, RoundsInv, NEW k \in QaJobs, QaParks(k), Parks(k)
    PROVE  RoundsInv'
<1> DEFINE p == ProjectOf(k)
<1>0. /\ \A j \in Works \cup DeployJobs : j \in Jobs /\ ProjectOf(j) \in Projects
      /\ \A j \in BuildJobs : j \in Works /\ j # k
      /\ \A j \in QaJobs : j \in Works
      /\ p \in Projects /\ k \in Jobs /\ TypeOK
  BY JobNames DEF PInv, RInv
<1>1. /\ run' = run /\ at' = [at EXCEPT ![k] = "parked"] /\ Working(k)
      /\ state' = [state EXCEPT ![p] = "needs_human_review"] /\ state[p] = "qa"
      /\ round' = Counted(k) /\ UNCHANGED <<boot, faults>>
  BY DEF QaParks, Parks, Commits, bounds
<1>2. /\ \A j \in Jobs : at'[j] = IF j = k THEN "parked" ELSE at[j]
      /\ \A q \in Projects : state'[q] = IF q = p THEN "needs_human_review" ELSE state[q]
      /\ \A q \in Projects : q # p => round'[q] = round[q]
  BY <1>0, <1>1 DEF TypeOK, Counted
<1>3. \A j \in Works : run[j] = "running" => j = k
  BY <1>1, AgentAlone, JobNames DEF Working
<1> HIDE DEF p
<1>4. Unborn'
  BY <1>0, <1>1, <1>2 DEF RoundsInv, Unborn
<1>5. DeployLate'
  <2>1. \A j \in DeployJobs : at'[j] = "lost" => at[j] = "lost"
    BY <1>0, <1>2
  <2> QED
    BY <1>0, <1>1, <1>2, <2>1 DEF RoundsInv, DeployLate, Past
<1>6. BuildAtWork'
  BY <1>0, <1>1, <1>2, <1>3 DEF RoundsInv, BuildAtWork, Working
<1>7. RoundSteps'
  <2>1. \A j \in Works : at'[j] = at[j] \/ at'[j] = "parked"
    BY <1>0, <1>2
  <2> QED
    BY <2>1 DEF RoundsInv, RoundSteps
<1>8. ASSUME OneFault'
      PROVE  ParkedReviewed' /\ CalmWaits' /\ InTurn' /\ HeldAlone'
  <2>0. OneFault /\ ParkedReviewed /\ CalmWaits /\ InTurn /\ HeldAlone
    BY <1>0, <1>8, OneFaultBefore DEF RoundsInv
  <2>1. p = ProjectOf(k) /\ "needs_human_review" \in Reviewed
    BY DEF p, Reviewed
  <2>2. ParkedReviewed'
    BY <1>0, <1>1, <1>2, <2>0, <2>1 DEF ParkedReviewed
  <2>3. CalmWaits'
    BY <1>0, <1>1, <1>2, <2>0, <2>1 DEF CalmWaits, Calm
  <2>4. \A j \in Works : Live(j)' => Live(j)
    BY <1>0, <1>1, <1>2 DEF Live, Working
  <2>5. \A q \in Projects : state'[q] \in Transient \cup {"building"} => q # p
    BY <1>2 DEF Transient
  <2>6. InTurn'
    <3> SUFFICES ASSUME faults = 0, NEW i \in Works, Live(i)', state'[ProjectOf(i)] \in Transient
                 PROVE  /\ IterationOf(i) = round'[ProjectOf(i)]
                        /\ \A j \in Works : Live(j)' /\ ProjectOf(j) = ProjectOf(i) => j = i
      BY <1>1 DEF InTurn
    <3>1. ProjectOf(i) # p /\ ProjectOf(i) \in Projects
      BY <1>0, <2>5
    <3> QED
      BY <1>2, <2>0, <2>4, <3>1 DEF InTurn
  <2>7. HeldAlone'
    <3> SUFFICES ASSUME NEW i \in BuildJobs, run[i] \in HeldBack
                 PROVE  /\ state'[ProjectOf(i)] \in Past \cup {"building"}
                        /\ state'[ProjectOf(i)] = "building" =>
                              /\ IterationOf(i) = round'[ProjectOf(i)]
                              /\ \A j \in Works : (Live(j)' \/ run[j] \in HeldBack)
                                                    /\ ProjectOf(j) = ProjectOf(i) => j = i
      BY <1>1 DEF HeldAlone
    <3>1. ProjectOf(i) # p /\ ProjectOf(i) \in Projects
      BY <1>0, <1>1, <2>0 DEF HeldAlone, Past
    <3> QED
      BY <1>2, <2>0, <2>4, <3>1 DEF HeldAlone
  <2> QED
    BY <2>2, <2>3, <2>6, <2>7
<1>9. boot' # "up" => faults' # 0
  BY <1>1 DEF RoundsInv
<1> QED
  BY <1>4, <1>5, <1>6, <1>7, <1>8, <1>9 DEF RoundsInv

\* A handler throws, or dies with its container: if it was the first fault, no round was
\* waiting and each had its project for itself.
LEMMA FirstFault ==
    ASSUME TypeOK, Next, RoundsInv, faults' # faults, OneFault', UNCHANGED boot
    PROVE  /\ OneFault /\ faults = 0 /\ boot = "up" /\ ~Calm' /\ faults' # 0
           /\ ParkedReviewed /\ InTurn /\ HeldAlone
           /\ \A k \in BuildJobs : run[k] \notin HeldBack
           /\ \A k \in QaJobs : run[k] \in HeldBack => state[ProjectOf(k)] \in Reviewed
BY OneFaultBefore DEF RoundsInv, Calm, CalmWaits

\* A round throws, by the first fault if the claim lasts: its project is its own.
LEMMA RoundThrows ==
    ASSUME TypeOK, Next, RoundsInv, NEW k \in Works, Throw(k)
    PROVE  RoundsInv'
<1>0. /\ \A j \in Works \cup DeployJobs : j \in Jobs /\ ProjectOf(j) \in Projects
      /\ \A j \in DeployJobs : j # k
      /\ \A j \in BuildJobs : j \in Works /\ j \notin QaJobs
      /\ \A j \in QaJobs : j \in Works
      /\ k \in BuildJobs \/ k \in QaJobs
  BY JobNames DEF Works
<1>1. PICK outcome \in {"queued", "failed"} : Ends(k, outcome)
  BY DEF Throw
<1>2. /\ run[k] = "running" /\ at[k] \in {"saw ready", "saw progress", "working"}
      /\ UNCHANGED <<state, round, boot>> /\ faults' # faults /\ faults' # 0
  <2>1. faults \in Nat /\ faults' = faults + 1
    BY DEF Throw, Fault, TypeOK
  <2>2. faults' # faults /\ faults' # 0
    BY <2>1
  <2> QED
    BY <2>2, Zenon DEF Throw, project
<1>3. /\ \A j \in Jobs : run'[j] = IF j = k THEN outcome ELSE run[j]
      /\ \A j \in Jobs : at'[j] = IF j = k THEN "idle" ELSE at[j]
  BY <1>0, <1>1 DEF TypeOK, Ends
<1>4. Working(k) /\ Live(k)
  BY <1>2 DEF RoundsInv, RoundSteps, Working, Live
<1>5. Unborn'
  <2>1. run[k] # "none"
    BY <1>2
  <2> QED
    BY <1>0, <1>2, <1>3, <2>1 DEF RoundsInv, Unborn
<1>6. DeployLate'
  BY <1>0, <1>2, <1>3 DEF RoundsInv, DeployLate
<1>7. BuildAtWork'
  BY <1>0, <1>2, <1>3 DEF RoundsInv, BuildAtWork, Working
<1>8. RoundSteps'
  BY <1>0, <1>3, Zenon DEF RoundsInv, RoundSteps
<1>9. ASSUME OneFault'
      PROVE  ParkedReviewed' /\ CalmWaits' /\ InTurn' /\ HeldAlone'
  <2>0. /\ OneFault /\ faults = 0 /\ boot = "up" /\ ~Calm' /\ faults' # 0
        /\ ParkedReviewed /\ InTurn /\ HeldAlone
        /\ \A j \in BuildJobs : run[j] \notin HeldBack
        /\ \A j \in QaJobs : run[j] \in HeldBack => state[ProjectOf(j)] \in Reviewed
    BY <1>2, <1>9, FirstFault
  <2>1. ParkedReviewed'
    <3> SUFFICES ASSUME NEW j \in QaJobs, at'[j] = "parked" \/ run'[j] = "needs_human"
                 PROVE  state[ProjectOf(j)] \in Reviewed
      BY <1>2 DEF ParkedReviewed
    <3>1. at[j] = "parked" \/ run[j] = "needs_human"
      BY <1>0, <1>3
    <3> QED
      BY <2>0, <3>1 DEF ParkedReviewed
  <2>2. CalmWaits' /\ InTurn'
    BY <2>0 DEF CalmWaits, InTurn
  <2>3. HeldAlone'
    <3> SUFFICES ASSUME NEW i \in BuildJobs, run'[i] \in HeldBack
                 PROVE  /\ state[ProjectOf(i)] \in Past \cup {"building"}
                        /\ state[ProjectOf(i)] = "building" =>
                              /\ IterationOf(i) = round[ProjectOf(i)]
                              /\ \A j \in Works : (Live(j)' \/ run'[j] \in HeldBack)
                                                    /\ ProjectOf(j) = ProjectOf(i) => j = i
      BY <1>2 DEF HeldAlone
    <3>1. i = k
      BY <1>0, <1>3, <2>0
    <3>2. state[ProjectOf(k)] \in Past \cup {"building"}
      BY <1>4, <3>1 DEF RoundsInv, BuildAtWork
    <3>3. ASSUME state[ProjectOf(k)] = "building"
          PROVE  /\ IterationOf(k) = round[ProjectOf(k)]
                 /\ \A j \in Works : Live(j) /\ ProjectOf(j) = ProjectOf(k) => j = k
      BY <1>4, <2>0, <3>3 DEF InTurn, Transient
    <3>4. \A j \in Works : j # k => (Live(j)' => Live(j)) /\ run'[j] = run[j]
      BY <1>0, <1>3 DEF Live, Working
    <3>5. state[ProjectOf(k)] = "building" =>
             \A j \in Works : run[j] \in HeldBack => ProjectOf(j) # ProjectOf(k)
      BY <2>0 DEF Works, Reviewed, Past
    <3> QED
      BY <3>1, <3>2, <3>3, <3>4, <3>5
  <2> QED
    BY <2>1, <2>2, <2>3
<1> QED
  BY <1>2, <1>5, <1>6, <1>7, <1>8, <1>9 DEF RoundsInv

\* The container of the builders restarts: their jobs wait anew in the queue.
LEMMA RoundsRestart ==
    ASSUME TypeOK, Next, RoundsInv, RestartBuilders
    PROVE  RoundsInv'
<1>0. /\ \A j \in Works \cup DeployJobs : j \in Jobs /\ ProjectOf(j) \in Projects
      /\ \A j \in DeployJobs : j \notin AgentJobs
      /\ \A j \in Works : j \in AgentJobs
      /\ \A j \in BuildJobs : j \in Works
      /\ \A j \in QaJobs : j \in Works
  BY JobNames DEF Works
<1>1. /\ \A j \in Jobs : run'[j] = IF j \in AgentJobs /\ run[j] = "running" THEN "queued" ELSE run[j]
      /\ \A j \in Jobs : at'[j] = IF j \in AgentJobs THEN "idle" ELSE at[j]
  BY DEF RestartBuilders
<1>2. UNCHANGED <<state, round, boot>> /\ faults' # faults /\ faults' # 0
  BY DEF RestartBuilders, Fault, project, TypeOK
<1>3. /\ \A j \in Works : at'[j] = "idle" /\ (run'[j] = run[j] \/ (run[j] = "running" /\ run'[j] = "queued"))
      /\ \A j \in DeployJobs : at'[j] = at[j] /\ run'[j] = run[j]
  BY <1>0, <1>1
<1>4. Unborn' /\ DeployLate' /\ BuildAtWork' /\ RoundSteps'
  BY <1>0, <1>2, <1>3 DEF RoundsInv, Unborn, DeployLate, BuildAtWork, RoundSteps, Working
<1>5. ASSUME OneFault'
      PROVE  ParkedReviewed' /\ CalmWaits' /\ InTurn' /\ HeldAlone'
  <2>0. /\ ~Calm' /\ faults' # 0 /\ ParkedReviewed
        /\ \A j \in BuildJobs : run[j] \notin HeldBack
    BY <1>2, <1>5, FirstFault
  <2>1. ParkedReviewed'
    BY <1>0, <1>2, <1>3, <2>0 DEF ParkedReviewed
  <2>2. HeldAlone'
    BY <1>0, <1>3, <2>0 DEF HeldAlone, HeldBack, Parked
  <2> QED
    BY <2>0, <2>1, <2>2 DEF CalmWaits, InTurn
<1> QED
  BY <1>2, <1>4, <1>5 DEF RoundsInv

\* An attempt of a round is retried: it waited before, and waits again.
LEMMA RoundRetried ==
    ASSUME TypeOK, Next, RoundsInv, NEW k \in Works, RetryClaims(k) \/ RetryEnqueues(k)
    PROVE  RoundsInv'
<1>0. /\ \A j \in Works \cup DeployJobs : j \in Jobs /\ ProjectOf(j) \in Projects
      /\ \A j \in DeployJobs : j # k
      /\ \A j \in BuildJobs : j \in Works
      /\ \A j \in QaJobs : j \in Works
      /\ k \in BuildJobs \/ k \in QaJobs
  BY JobNames DEF Works
<1>1. /\ run[k] \in HeldBack /\ UNCHANGED <<state, round, at, boot>>
      /\ faults' = faults \/ (faults' # faults /\ faults' # 0 /\ run' = [run EXCEPT ![k] = "failed"])
      /\ \E s \in {"queued", "failed", "retrying"} : run' = [run EXCEPT ![k] = s]
  BY DEF RetryClaims, RetryEnqueues, project, bounds, Fault, TypeOK, HeldBack
<1>2. PICK s \in {"queued", "failed", "retrying"} : run' = [run EXCEPT ![k] = s]
  BY <1>1
<1>3. \A j \in Jobs : run'[j] = IF j = k THEN s ELSE run[j]
  BY <1>0, <1>2 DEF TypeOK
<1>4. run[k] # "none" /\ run[k] # "running"
  BY <1>1 DEF HeldBack, Parked
<1>5. Unborn' /\ DeployLate' /\ BuildAtWork' /\ RoundSteps'
  BY <1>0, <1>1, <1>3, <1>4 DEF RoundsInv, Unborn, DeployLate, BuildAtWork, RoundSteps, Working
<1>6. ASSUME OneFault'
      PROVE  ParkedReviewed' /\ CalmWaits' /\ InTurn' /\ HeldAlone'
  <2>0. OneFault /\ ParkedReviewed /\ CalmWaits /\ InTurn /\ HeldAlone
    BY <1>6, OneFaultBefore DEF RoundsInv
  <2>1. ParkedReviewed'
    BY <1>0, <1>1, <1>3, <2>0 DEF ParkedReviewed
  <2>2. \A j \in Works : run'[j] \in HeldBack => run[j] \in HeldBack
    BY <1>0, <1>1, <1>3
  <2>3. \A j \in Works : Live(j)' => Live(j) \/ j = k
    BY <1>0, <1>1, <1>3 DEF Live, Working
  <2>4. Calm' => Calm
    BY <1>1, <1>6, RestBoot
  <2>5. CalmWaits'
    BY <1>0, <1>1, <2>0, <2>2, <2>4 DEF CalmWaits
  <2>6. InTurn'
    <3> SUFFICES ASSUME faults' = 0, NEW i \in Works, Live(i)', state[ProjectOf(i)] \in Transient
                 PROVE  /\ IterationOf(i) = round[ProjectOf(i)]
                        /\ \A j \in Works : Live(j)' /\ ProjectOf(j) = ProjectOf(i) => j = i
      BY <1>1 DEF InTurn
    <3>1. faults = 0 /\ Calm
      BY <1>1 DEF Calm
    <3>2. state[ProjectOf(k)] \in Reviewed
      BY <1>0, <1>1, <2>0, <3>1 DEF CalmWaits
    <3>3. ProjectOf(i) # ProjectOf(k)
      BY <3>2 DEF Reviewed, Past, Transient
    <3> QED
      BY <2>0, <2>3, <3>1, <3>3 DEF InTurn
  <2>7. HeldAlone'
    <3> SUFFICES ASSUME NEW i \in BuildJobs, run'[i] \in HeldBack
                 PROVE  /\ state[ProjectOf(i)] \in Past \cup {"building"}
                        /\ state[ProjectOf(i)] = "building" =>
                              /\ IterationOf(i) = round[ProjectOf(i)]
                              /\ \A j \in Works : (Live(j)' \/ run'[j] \in HeldBack)
                                                    /\ ProjectOf(j) = ProjectOf(i) => j = i
      BY <1>1 DEF HeldAlone
    <3> QED
      BY <1>0, <1>1, <2>0, <2>2, <2>3 DEF HeldAlone
  <2> QED
    BY <2>1, <2>5, <2>6, <2>7
<1>7. boot' # "up" => faults' # 0
  BY <1>1 DEF RoundsInv
<1> QED
  BY <1>5, <1>6, <1>7 DEF RoundsInv

\* The job of a verdict that parked its project ends and waits for the decision.
LEMMA ReviewWaits ==
    ASSUME TypeOK, Next, RoundsInv, NEW k \in QaJobs, Finish(k), at[k] = "parked"
    PROVE  RoundsInv'
<1>0. /\ \A j \in Works \cup DeployJobs : j \in Jobs /\ ProjectOf(j) \in Projects
      /\ \A j \in DeployJobs : j # k
      /\ \A j \in BuildJobs : j \in Works /\ j # k
      /\ \A j \in QaJobs : j \in Works
      /\ k \in Jobs
  BY JobNames DEF Works
<1>1. /\ run[k] = "running" /\ run' = [run EXCEPT ![k] = "needs_human"]
      /\ at' = [at EXCEPT ![k] = "idle"] /\ UNCHANGED <<state, round, boot, faults>>
  BY DEF Finish, Ends, bounds
<1>2. /\ \A j \in Jobs : run'[j] = IF j = k THEN "needs_human" ELSE run[j]
      /\ \A j \in Jobs : at'[j] = IF j = k THEN "idle" ELSE at[j]
  BY <1>0, <1>1 DEF TypeOK
<1>3. Unborn' /\ DeployLate' /\ BuildAtWork' /\ RoundSteps'
  <2>1. run[k] # "none"
    BY <1>1
  <2>2. RoundSteps'
    BY <1>0, <1>2, Zenon DEF RoundsInv, RoundSteps
  <2> QED
    BY <1>0, <1>1, <1>2, <2>1, <2>2 DEF RoundsInv, Unborn, DeployLate, BuildAtWork, Working
<1>4. ASSUME OneFault'
      PROVE  ParkedReviewed' /\ CalmWaits' /\ InTurn' /\ HeldAlone'
  <2>0. OneFault /\ ParkedReviewed /\ CalmWaits /\ InTurn /\ HeldAlone
    BY <1>4, OneFaultBefore DEF RoundsInv
  <2>1. state[ProjectOf(k)] \in Reviewed
    BY <2>0 DEF ParkedReviewed
  <2>2. ParkedReviewed'
    BY <1>0, <1>1, <1>2, <2>0, <2>1 DEF ParkedReviewed
  <2>3. CalmWaits'
    BY <1>0, <1>1, <1>2, <2>0, <2>1 DEF CalmWaits, Calm
  <2>4. \A j \in Works : Live(j)' => Live(j)
    BY <1>0, <1>1, <1>2 DEF Live, Working
  <2>5. \A j \in Works : run'[j] \in HeldBack /\ j # k => run[j] \in HeldBack
    BY <1>0, <1>2
  <2>6. InTurn'
    BY <1>0, <1>1, <2>0, <2>4 DEF InTurn
  <2>7. HeldAlone'
    <3> SUFFICES ASSUME NEW i \in BuildJobs, run'[i] \in HeldBack
                 PROVE  /\ state[ProjectOf(i)] \in Past \cup {"building"}
                        /\ state[ProjectOf(i)] = "building" =>
                              /\ IterationOf(i) = round[ProjectOf(i)]
                              /\ \A j \in Works : (Live(j)' \/ run'[j] \in HeldBack)
                                                    /\ ProjectOf(j) = ProjectOf(i) => j = i
      BY <1>1 DEF HeldAlone
    <3>1. run[i] \in HeldBack
      BY <1>0, <2>5
    <3>2. state[ProjectOf(i)] = "building" => ProjectOf(i) # ProjectOf(k)
      BY <2>1 DEF Reviewed, Past
    <3> QED
      BY <2>0, <2>4, <2>5, <3>1, <3>2 DEF HeldAlone
  <2> QED
    BY <2>2, <2>3, <2>6, <2>7
<1>5. boot' # "up" => faults' # 0
  BY <1>1 DEF RoundsInv
<1> QED
  BY <1>3, <1>4, <1>5 DEF RoundsInv

\* An ordered iteration ends the claim.
LEMMA RoundOrdered ==
    ASSUME TypeOK, Next, RoundsInv, NEW p \in Projects, AnotherIteration(p)
    PROVE  RoundsInv' /\ ~OneFault'
<1>0. /\ \A j \in Works \cup DeployJobs : j \in Jobs /\ ProjectOf(j) \in Projects
      /\ \A j \in BuildJobs : j \in Works
      /\ Build(p, Ordered) \in Jobs /\ Build(p, Ordered) \notin DeployJobs
      /\ ProjectOf(Build(p, Ordered)) = p
  BY JobNames, JobKinds DEF ProjectOf, Build
<1>1. /\ run' = Enqueued(ReviewClosed(p), Build(p, Ordered)) /\ at' = at
      /\ state' = [state EXCEPT ![p] = "building"] /\ state[p] = "needs_human_review"
      /\ round' = [round EXCEPT ![p] = 0] /\ UNCHANGED <<boot, faults>>
  BY DEF AnotherIteration, AwaitsDecision
<1>2. /\ \A j \in Jobs : \/ run'[j] = run[j]
                         \/ run[j] = "needs_human" /\ run'[j] = "cancelled"
                         \/ j = Build(p, Ordered) /\ run'[j] = "queued"
      /\ run'[Build(p, Ordered)] # "none"
      /\ \A q \in Projects : state'[q] = IF q = p THEN "building" ELSE state[q]
      /\ \A q \in Projects : round'[q] = IF q = p THEN 0 ELSE round[q]
  BY <1>0, <1>1, JobNames DEF ReviewClosed, Enqueued, IsActive, Active, TypeOK
<1>3. Unborn' /\ DeployLate' /\ BuildAtWork' /\ RoundSteps'
  <2>1. Unborn'
    BY <1>0, <1>2, Zenon DEF RoundsInv, Unborn
  <2>2. DeployLate'
    BY <1>0, <1>1, <1>2 DEF RoundsInv, DeployLate, Past
  <2>3. BuildAtWork'
    BY <1>0, <1>1, <1>2 DEF RoundsInv, BuildAtWork, Working
  <2> QED
    BY <1>1, <2>1, <2>2, <2>3 DEF RoundsInv, RoundSteps
<1>4. ~OneFault'
  BY <1>2 DEF OneFault, IterationOrdered
<1> QED
  BY <1>1, <1>3, <1>4 DEF RoundsInv

\* The hand-overs: a design begins a project, a build goes to QA, a verdict feeds back.
LEMMA ProjectBegins ==
    ASSUME PInv, Next, RoundsInv, NEW k \in DesignJobs, DesignCommits(k)
    PROVE  RoundsInv'
<1>0. TypeOK /\ k \in Jobs /\ 0 \in Rounds
  BY JobNames, Iterations DEF PInv, RInv
<1>1. PICK p \in Projects : /\ state[p] = "none"
                            /\ state' = [state EXCEPT ![p] = "brief"]
                            /\ Commits(k, Enqueued(run, Build(p, 0)), "done")
                            /\ UNCHANGED <<round, boot, faults>>
  BY DEF DesignCommits, bounds
<1>2. Build(p, 0) \in Works /\ ProjectOf(Build(p, 0)) = p /\ IterationOf(Build(p, 0)) = 0
  BY <1>0, JobKinds, JobNames
<1>3. round[p] = 0 /\ \A j \in Works : ProjectOf(j) = p => run[j] = "none"
  BY <1>1 DEF RoundsInv, Unborn
<1> DEFINE e == Build(p, 0)
<1>4. /\ e \in Works /\ ProjectOf(e) = p /\ IterationOf(e) = round'[p]
      /\ run' = Enqueued(run, e) /\ at' = [at EXCEPT ![k] = "done"]
      /\ UNCHANGED <<boot, faults>> /\ "brief" \in Transient
      /\ state[p] \in Transient \cup {"none"} /\ \A q \in Projects : q # p => round'[q] = round[q]
  BY <1>1, <1>2, <1>3 DEF Commits, Transient
<1>5. /\ run[e] # "running"
      /\ \A j \in BuildJobs : ProjectOf(j) = p => run[j] \notin HeldBack
      /\ \A j \in Works : ProjectOf(j) = p /\ Working(j) => j = k
      /\ \A j \in Works : ProjectOf(j) = p => run[j] # "queued"
  BY <1>2, <1>3 DEF Works, Working, HeldBack, Parked
<1> HIDE DEF e
<1> QED
  BY <1>0, <1>1, <1>4, <1>5, HandOver

\* A green build goes to the verdict of its round.
LEMMA BuildHandsOver ==
    ASSUME PInv, Next, RoundsInv, NEW k \in BuildJobs, BuildCommits(k), state[ProjectOf(k)] = "building"
    PROVE  RoundsInv'
<1> DEFINE p == ProjectOf(k)
<1> DEFINE e == Qa(p, IterationOf(k))
<1>0. TypeOK /\ k \in Jobs /\ k \in Works /\ k \in AgentJobs /\ p \in Projects /\ Working(k)
  BY JobNames DEF PInv, RInv, BuildCommits
<1>1. IterationOf(k) \in Rounds
  BY <1>0, Iterations DEF PInv, RInv, RoundsBounded, Working
<1>2. e \in QaJobs /\ e \in Works /\ ProjectOf(e) = p /\ IterationOf(e) = IterationOf(k) /\ e # k
  BY <1>0, <1>1, JobKinds, JobNames
<1>3. /\ state[p] = "building" /\ state' = [state EXCEPT ![p] = "qa"]
      /\ run' = Enqueued(run, e) /\ at' = [at EXCEPT ![k] = "done"]
      /\ UNCHANGED <<round, boot, faults>>
      /\ "qa" \in Transient /\ state[p] \in Transient \cup {"none"}
  BY DEF BuildCommits, Commits, bounds, Transient
<1>4. /\ run[e] # "running"
      /\ \A j \in Works : ProjectOf(j) = p /\ Working(j) => j = k
  BY <1>0, <1>2, AgentAlone DEF Working
<1>5. Live(k) /\ run[k] \notin HeldBack \cup {"queued"}
  BY <1>0 DEF Live, Working, HeldBack, Parked
<1>6. OneFault => \A j \in BuildJobs : ProjectOf(j) = p => run[j] \notin HeldBack
  BY <1>0, <1>3, <1>5 DEF RoundsInv, HeldAlone
<1>7. OneFault /\ faults = 0 => /\ IterationOf(e) = round'[p]
                                /\ \A j \in Works : ProjectOf(j) = p => run[j] # "queued"
  <2> SUFFICES ASSUME OneFault, faults = 0
               PROVE  /\ IterationOf(e) = round'[p]
                      /\ \A j \in Works : ProjectOf(j) = p => run[j] # "queued"
    OBVIOUS
  <2>1. /\ IterationOf(k) = round[p]
        /\ \A j \in Works : Live(j) /\ ProjectOf(j) = p => j = k
    BY <1>0, <1>3, <1>5 DEF RoundsInv, InTurn, Transient
  <2> QED
    BY <1>2, <1>3, <1>5, <2>1 DEF Live
<1> HIDE DEF p, e
<1> QED
  BY <1>0, <1>2, <1>3, <1>4, <1>6, <1>7, HandOver

\* A verdict with issues goes to the build of the next round.
LEMMA VerdictFeedsBack ==
    ASSUME PInv, Next, RoundsInv, NEW k \in QaJobs, QaFeedsBack(k), Judges(k)
    PROVE  RoundsInv'
<1> DEFINE p == ProjectOf(k)
<1> DEFINE e == Build(p, IterationOf(k) + 1)
<1>0. TypeOK /\ k \in Jobs /\ k \in Works /\ k \in AgentJobs /\ p \in Projects /\ Working(k)
  BY JobNames DEF PInv, RInv, QaFeedsBack
<1>1. IterationOf(k) + 1 \in Rounds
  BY <1>0, Iterations DEF PInv, RInv, RoundsBounded, Working
<1>2. e \in BuildJobs /\ e \in Works /\ ProjectOf(e) = p /\ IterationOf(e) = IterationOf(k) + 1 /\ e # k
  BY <1>0, <1>1, JobKinds, JobNames
<1>3. /\ state[p] = "qa" /\ IterationOf(k) = round[p] /\ UNCHANGED <<state, boot, faults>>
      /\ run' = Enqueued(run, e) /\ at' = [at EXCEPT ![k] = "done"] /\ round' = Counted(k)
  BY DEF QaFeedsBack, Judges, Commits, bounds
<1>4. /\ "qa" \in Transient /\ state[p] \in Transient \cup {"none"}
      /\ state' = [state EXCEPT ![p] = "qa"]
      /\ \A q \in Projects : q # p => round'[q] = round[q]
      /\ round'[p] = IterationOf(k) + 1
  BY <1>0, <1>3 DEF TypeOK, Transient, Counted
<1>5. /\ run[e] # "running"
      /\ \A j \in Works : ProjectOf(j) = p /\ Working(j) => j = k
  BY <1>0, <1>2, AgentAlone DEF Working
<1>6. OneFault => \A j \in BuildJobs : ProjectOf(j) = p => run[j] \notin HeldBack
  BY <1>3 DEF RoundsInv, HeldAlone, Past
<1>7. Live(k) /\ run[k] # "queued"
  BY <1>0 DEF Live, Working
<1>8. OneFault /\ faults = 0 => /\ IterationOf(e) = round'[p]
                                /\ \A j \in Works : ProjectOf(j) = p => run[j] # "queued"
  <2> SUFFICES ASSUME OneFault, faults = 0
               PROVE  \A j \in Works : ProjectOf(j) = p => run[j] # "queued"
    BY <1>2, <1>4
  <2>1. \A j \in Works : Live(j) /\ ProjectOf(j) = p => j = k
    BY <1>0, <1>3, <1>4, <1>7 DEF RoundsInv, InTurn
  <2> QED
    BY <1>7, <2>1 DEF Live
<1>9. run' = Enqueued(run, e) /\ at' = [at EXCEPT ![k] = "done"] /\ UNCHANGED <<boot, faults>>
  BY <1>3
<1> HIDE DEF p, e
<1> QED
  BY <1>0, <1>2, <1>4, <1>5, <1>6, <1>8, <1>9, HandOver

\* A step that asks nothing new of a round.
LEMMA QuietRounds ==
    ASSUME PInv, Next, RoundsInv, RoundsEase, UNCHANGED boot
    PROVE  RoundsInv'
BY RestBoot, RestRounds DEF PInv, RInv

\* The rounds keep their invariant in every step.
LEMMA RoundsStep ==
    ASSUME PInv, Slots = 1, Next, RoundsInv
    PROVE  RoundsInv'
<1>0. TypeOK /\ RInv /\ OneAgent
  BY DEF PInv, RInv
<1>00. \A k \in BuildJobs \cup QaJobs : k \in Works /\ k \in AgentJobs /\ k \in Jobs /\ ProjectOf(k) \in Projects
  BY JobNames DEF Works
<1>1. ASSUME NEW k \in DesignJobs, Design(k) PROVE RoundsInv'
  BY <1>0, <1>1, DesignEases, QuietRounds, ProjectBegins
<1>2. ASSUME NEW k \in Works, NEW s, NEW p \in Projects, p = ProjectOf(k), Takes(k, "working"),
             state' = [state EXCEPT ![p] = s],
             \/ k \in QaJobs /\ s = state[p]
             \/ k \in BuildJobs /\ s = "building" /\ state[p] \in Transient,
             UNCHANGED <<round, boot, faults>>
      PROVE  RoundsInv'
  <2>1. \A j \in Works : run[j] # "running"
    BY <1>0, <1>2, <1>00, FreeSlot DEF Takes, Busy, Works
  <2> QED
    BY <1>0, <1>2, <2>1, RoundStarts DEF Takes
<1>3. ASSUME NEW k \in BuildJobs, Builder(k) PROVE RoundsInv'
  <2>1. CASE BuildStarts(k)
    BY <1>2, <1>00, <2>1 DEF BuildStarts, Buildable, bounds
  <2>2. CASE BuildStale(k) \/ BuildRegenerates(k) \/ (BuildCommits(k) /\ Skips(k))
    BY <1>0, <2>2, BuilderEases, QuietRounds DEF BuildRegenerates, BuildCommits
  <2>3. CASE BuildCommits(k) /\ ~Skips(k)
    BY <2>3, BuildHandsOver DEF BuildCommits
  <2> QED
    BY <1>3, <2>1, <2>2, <2>3 DEF Builder
<1>4. ASSUME NEW k \in QaJobs, VisualQa(k) PROVE RoundsInv'
  <2>1. CASE QaStarts(k)
    <3>1. UNCHANGED <<state, round, boot, faults>> /\ Takes(k, "working")
      BY <2>1 DEF QaStarts, project, bounds
    <3>2. state' = [state EXCEPT ![ProjectOf(k)] = state[ProjectOf(k)]]
      BY <1>0, <1>00, <3>1 DEF TypeOK
    <3> QED
      BY <1>2, <1>00, <3>1, <3>2
  <2>2. CASE Working(k) /\ (Skips(k) \/ (QaPasses(k) /\ Judges(k)))
    BY <1>0, <2>2, VerdictEases, QuietRounds
  <2>3. CASE QaParks(k) /\ Parks(k)
    BY <2>3, RoundParks
  <2>4. CASE QaFeedsBack(k) /\ Judges(k)
    BY <2>4, VerdictFeedsBack
  <2> QED
    BY <1>4, <2>1, <2>2, <2>3, <2>4 DEF VisualQa, QaPasses, QaParks, QaFeedsBack
<1>5. ASSUME NEW k \in DeployJobs, Deployer(k) PROVE RoundsInv'
  BY <1>0, <1>5, DeployerEases, QuietRounds
<1>6. ASSUME NEW k \in Jobs, Throw(k) \/ RetryClaims(k) \/ RetryEnqueues(k) PROVE RoundsInv'
  <2>1. CASE k \in Works
    BY <1>0, <1>6, <2>1, RoundThrows, RoundRetried
  <2>2. CASE k \notin Works
    BY <1>0, <1>6, <2>2, EndEases, QuietRounds
  <2> QED
    BY <2>1, <2>2
<1>7. ASSUME NEW k \in Jobs, Finish(k) PROVE RoundsInv'
  BY <1>0, <1>7, EndEases, QuietRounds, ReviewWaits
<1>8. ASSUME NEW p \in Projects, Decides(p) PROVE RoundsInv'
  BY <1>0, <1>8, DecisionEases, QuietRounds, RoundOrdered DEF Decides
<1>9. CASE \/ \E found, auto \in BOOLEAN : Readiness(found, auto)
           \/ StartBuild \/ GiveUp
           \/ \E k \in Jobs : StopReads(k)
  BY <1>0, <1>9, StartEases, QuietRounds
<1>10. CASE StartFreshBuild \/ StopWrites
  BY <1>0, <1>10, CloseEases, QuietRounds
<1>11. CASE RestartBuilders
  BY <1>0, <1>11, RoundsRestart
<1>12. CASE RestartCore \/ MarkStale \/ FailInterrupted \/ RevertStranded
  BY <1>0, <1>12, BootRounds
<1> QED
  BY <1>1, <1>3, <1>4, <1>5, <1>6, <1>7, <1>8, <1>9, <1>10, <1>11, <1>12 DEF Next

-----------------------------------------------------------------------------
(***************************************************************************)
(* The operator's desk.                                                    *)
(***************************************************************************)

\* An open stop command stays as it is, ends, or learns that its attempt is not the latest.
DeskTracks ==
    desk' # NoCommand =>
        /\ desk # NoCommand
        /\ desk'[1] = desk[1] /\ desk'[2] = desk[2]
        /\ desk'[3] => desk[3] /\ (Shelved(desk[1]) => Shelved(desk[1])')
        /\ OneFault' /\ ~desk'[3] /\ desk[3] => desk[1] \in DesignJobs

\* The job of an open command.
LEMMA DeskJob ==
    ASSUME TypeOK, desk # NoCommand
    PROVE  desk[1] \in Jobs /\ desk[3] \in BOOLEAN
BY DEF TypeOK

\* A command no key of which is enqueued stays what it is while its attempt waits.
LEMMA DeskRests ==
    ASSUME TypeOK, DeskHeld, desk' = desk,
           \A j \in Jobs : j \notin QaJobs /\ Shelved(j) => Shelved(j)'
    PROVE  DeskTracks
BY DeskJob DEF DeskTracks, DeskHeld

\* A key is enqueued anew beside an open command: only that of a design had an attempt waiting.
LEMMA DeskOvertaken ==
    ASSUME TypeOK, DeskHeld, NEW e \in Jobs, desk' = Overtaken(e),
           \A j \in Jobs : j # e /\ j \notin QaJobs /\ Shelved(j) => Shelved(j)',
           e \in DesignJobs \/ ~Shelved(e) \/ ~OneFault'
    PROVE  DeskTracks
<1> SUFFICES ASSUME desk' # NoCommand PROVE DeskTracks
  BY DEF DeskTracks
<1>1. desk # NoCommand /\ desk[1] \in Jobs /\ desk[1] \notin QaJobs /\ (desk[3] => Shelved(desk[1]))
  BY DeskJob DEF Overtaken, DeskHeld
<1>2. CASE IsActive(e)
  <2>1. desk' = desk /\ ~Shelved(e)
    BY <1>2 DEF Overtaken, IsActive, Active, Shelved, HeldBack, Parked
  <2> QED
    BY <1>1, <2>1 DEF DeskTracks
<1>3. CASE ~IsActive(e) /\ (desk[1] # e \/ ~desk[3])
  <2>1. desk' = desk
    BY <1>1, <1>3 DEF Overtaken
  <2> QED
    BY <1>1, <1>3, <2>1 DEF DeskTracks
<1>4. CASE ~IsActive(e) /\ desk[1] = e /\ desk[3]
  <2>1. desk' = <<desk[1], desk[2], FALSE>>
    BY <1>1, <1>4 DEF Overtaken
  <2> QED
    BY <1>1, <1>4, <2>1 DEF DeskTracks
<1> QED
  BY <1>2, <1>3, <1>4

\* A job that is enqueued leaves the others as they were.
LEMMA EnqueuedShelf ==
    ASSUME TypeOK, NEW e \in Jobs, run' = Enqueued(run, e)
    PROVE  \A j \in Jobs : j # e /\ j \notin QaJobs /\ Shelved(j) => Shelved(j)'
BY DEF TypeOK, Enqueued, Shelved

\* ... and so does one that ends, or moves on, without having waited.
LEMMA MovedShelf ==
    ASSUME TypeOK, DeskHeld, NEW k \in Jobs, NEW s, run' = [run EXCEPT ![k] = s],
           run[k] \in Active \/ s \in HeldBack, desk' = desk
    PROVE  DeskTracks
<1>1. \A j \in Jobs : Shelved(j) => Shelved(j)'
  BY DEF TypeOK, Shelved, Active, HeldBack, Parked
<1> QED
  BY <1>1, DeskRests

\* ... and a step that touches no job leaves all of them.
LEMMA StillShelf ==
    ASSUME TypeOK, DeskHeld, UNCHANGED <<run, desk>>
    PROVE  DeskTracks
BY DeskRests DEF Shelved

\* Every step but the operator's own read.
LEMMA DeskStep ==
    ASSUME PInv, RoundsInv, DeskHeld, Next, ~\E k \in Jobs : StopReads(k)
    PROVE  DeskTracks
<1>0. TypeOK /\ "running" \in Active /\ "queued" \in Active
  BY DEF PInv, RInv, Active
<1>00. /\ \A k \in DesignJobs \cup Works \cup DeployJobs : k \in Jobs
       /\ \A k \in Works \cup DeployJobs : ProjectOf(k) \in Projects
       /\ \A k \in BuildJobs \cup QaJobs : k \in Works
       /\ \A k \in QaJobs : k \notin DeployJobs
       /\ FirstDesign \in DesignJobs /\ GateRetry \in DesignJobs
       /\ \A p \in Projects : Redesign(p) \in DesignJobs
  BY JobNames, JobKinds
<1>01. ASSUME NEW k \in Jobs, Skips(k), run[k] \in Active PROVE DeskTracks
  BY <1>0, <1>01, MovedShelf DEF Skips, Ends
<1>02. ASSUME NEW e \in DesignJobs, run' = Enqueued(run, e), desk' = Overtaken(e) PROVE DeskTracks
  BY <1>0, <1>00, <1>02, EnqueuedShelf, DeskOvertaken
<1>03. ASSUME NEW k \in Jobs, NEW step, Takes(k, step), UNCHANGED desk PROVE DeskTracks
  BY <1>0, <1>03, MovedShelf DEF Takes
<1>04. \A k : Working(k) => run[k] \in Active
  BY DEF Working, Active
<1>05. \A p \in Projects : state[p] \notin Past => ~Shelved(Deploy(p))
  BY JobKinds, JobNames DEF RoundsInv, DeployLate, Shelved, HeldBack, Parked
<1>1. ASSUME NEW k \in DesignJobs, Design(k) PROVE DeskTracks
  <2>1. CASE DesignReads(k)
    BY <1>00, <1>03, <2>1 DEF DesignReads
  <2>2. CASE DesignIllegal(k) \/ DesignRejected(k)
    BY <1>0, <1>00, <1>04, <2>2, MovedShelf DEF DesignIllegal, DesignRejected, Ends
  <2>3. CASE DesignClaims(k)
    <3>1. CASE StillAsRead(k)
      BY <1>0, <2>3, <3>1, StillShelf DEF DesignClaims
    <3>2. CASE ~StillAsRead(k)
      BY <1>0, <1>00, <1>01, <2>3, <3>2 DEF DesignClaims
    <3> QED
      BY <3>1, <3>2
  <2>4. CASE DesignRetries(k)
    BY <1>00, <1>02, <2>4 DEF DesignRetries, Commits
  <2>5. CASE DesignCommits(k)
    <3>1. PICK p \in Projects : /\ state[p] = "none"
                                /\ run' = Enqueued(run, Build(p, 0))
                                /\ desk' = Overtaken(Build(p, 0))
      BY <2>5 DEF DesignCommits, Commits
    <3>2. Build(p, 0) \in BuildJobs /\ ProjectOf(Build(p, 0)) = p
      BY Iterations, JobKinds, JobNames
    <3>3. run[Build(p, 0)] = "none"
      BY <1>00, <3>1, <3>2 DEF RoundsInv, Unborn
    <3>4. ~Shelved(Build(p, 0))
      BY <3>3 DEF Shelved, HeldBack, Parked
    <3> QED
      BY <1>0, <1>00, <3>1, <3>2, <3>4, EnqueuedShelf, DeskOvertaken
  <2> QED
    BY <1>1, <2>1, <2>2, <2>3, <2>4, <2>5 DEF Design
<1>2. ASSUME NEW k \in BuildJobs, Builder(k) PROVE DeskTracks
  <2>1. CASE BuildStarts(k)
    BY <1>00, <1>03, <2>1 DEF BuildStarts
  <2>2. CASE Skips(k) /\ (Working(k) \/ run[k] = "queued")
    BY <1>0, <1>00, <1>01, <1>04, <2>2
  <2>3. CASE BuildRegenerates(k)
    BY <1>00, <1>02, <2>3 DEF BuildRegenerates, Commits
  <2>4. CASE BuildCommits(k) /\ state[ProjectOf(k)] = "building"
    <3> DEFINE e == Qa(ProjectOf(k), IterationOf(k))
    <3>1. k[3] # MaxQaIterations + 1
      BY <2>4 DEF PInv, RInv, RoundsBounded, BuildCommits, Working
    <3>2. e \in QaJobs
      BY <1>00, <3>1, Iterations, JobKinds
    <3>3. run' = Enqueued(run, e) /\ desk' = desk
      BY <2>4 DEF BuildCommits, Commits
    <3> HIDE DEF e
    <3>4. \A j \in Jobs : j \notin QaJobs /\ Shelved(j) => Shelved(j)'
      BY <1>0, <1>00, <3>2, <3>3, EnqueuedShelf
    <3> QED
      BY <1>0, <3>3, <3>4, DeskRests
  <2> QED
    BY <1>2, <2>1, <2>2, <2>3, <2>4 DEF Builder, BuildStale, BuildCommits
<1>3. ASSUME NEW k \in QaJobs, VisualQa(k) PROVE DeskTracks
  <2>1. CASE QaStarts(k)
    BY <1>00, <1>03, <2>1 DEF QaStarts
  <2>2. CASE Working(k) /\ Skips(k)
    BY <1>0, <1>00, <1>01, <1>04, <2>2
  <2>3. CASE QaParks(k) /\ Parks(k)
    BY <1>0, <2>3, StillShelf DEF QaParks, Commits
  <2>4. CASE QaPasses(k) /\ Judges(k)
    <3> DEFINE p == ProjectOf(k)
    <3>1. /\ state[p] \notin Past /\ p \in Projects
          /\ run' = Enqueued(run, Deploy(p)) /\ desk' = Overtaken(Deploy(p))
      BY <1>00, <2>4 DEF QaPasses, Judges, Commits, Past
    <3> HIDE DEF p
    <3>2. Deploy(p) \in Jobs /\ ~Shelved(Deploy(p))
      BY <1>00, <1>05, <3>1, JobKinds
    <3> QED
      BY <1>0, <3>1, <3>2, EnqueuedShelf, DeskOvertaken
  <2>5. CASE QaFeedsBack(k) /\ Judges(k)
    <3> DEFINE p == ProjectOf(k)
    <3> DEFINE e == Build(p, IterationOf(k) + 1)
    <3>1. k[3] # MaxQaIterations + 1
      BY <2>5 DEF PInv, RInv, RoundsBounded, QaFeedsBack, Working
    <3>2. p \in Projects /\ IterationOf(k) + 1 \in Rounds
      BY <1>00, <3>1, Iterations
    <3>3. e \in BuildJobs /\ e \in Jobs /\ ProjectOf(e) = p
      BY <1>00, <3>2, JobKinds, JobNames
    <3>4. state[p] = "qa" /\ run' = Enqueued(run, e) /\ desk' = Overtaken(e)
      BY <2>5 DEF QaFeedsBack, Judges, Commits
    <3> HIDE DEF e, p
    <3>5. OneFault => ~Shelved(e)
      <4>1. OneFault => run[e] \notin HeldBack
        BY <3>3, <3>4 DEF RoundsInv, HeldAlone, Past
      <4>2. e \notin DeployJobs
        BY <3>3, JobNames
      <4> QED
        BY <4>1, <4>2 DEF Shelved
    <3>6. ~Shelved(e) \/ ~OneFault'
      BY <1>0, <3>5, OneFaultBefore
    <3> QED
      BY <1>0, <3>3, <3>4, <3>6, EnqueuedShelf, DeskOvertaken
  <2> QED
    BY <1>3, <2>1, <2>2, <2>3, <2>4, <2>5 DEF VisualQa, QaPasses, QaParks, QaFeedsBack
<1>4. ASSUME NEW k \in DeployJobs, Deployer(k) PROVE DeskTracks
  <2>1. CASE DeployStarts(k)
    <3>1. run[k] \in Active /\ desk' = desk /\ \E s : run' = [run EXCEPT ![k] = s]
      BY <1>0, <2>1 DEF DeployStarts, Skips, Ends
    <3> QED
      BY <1>0, <1>00, <3>1, MovedShelf
  <2>2. CASE Working(k) /\ Skips(k)
    BY <1>0, <1>00, <1>01, <1>04, <2>2
  <2>3. CASE DeployCommits(k) /\ ~Skips(k)
    BY <1>0, <2>3, StillShelf DEF DeployCommits, Commits
  <2> QED
    BY <1>4, <2>1, <2>2, <2>3 DEF Deployer, DeployCommits
<1>5. ASSUME NEW k \in Jobs, Throw(k) \/ Finish(k) PROVE DeskTracks
  <2>1. run[k] \in Active /\ desk' = desk /\ \E s : run' = [run EXCEPT ![k] = s]
    BY <1>0, <1>5 DEF Throw, Finish, Ends
  <2> QED
    BY <1>0, <2>1, MovedShelf
<1>6. ASSUME NEW k \in Jobs, RetryClaims(k) \/ RetryEnqueues(k) PROVE DeskTracks
  <2>1. CASE desk' = desk /\ \E s \in HeldBack : run' = [run EXCEPT ![k] = s]
    BY <1>0, <2>1, MovedShelf
  <2>2. CASE desk' = StopOutrun(k) /\ run' = [run EXCEPT ![k] = "queued"]
    <3>1. \A j \in Jobs : j # k => (Shelved(j) => Shelved(j)')
      BY <1>0, <2>2 DEF TypeOK, Shelved
    <3> SUFFICES ASSUME desk' # NoCommand PROVE DeskTracks
      BY DEF DeskTracks
    <3>2. desk' = desk /\ desk # NoCommand /\ (desk[3] => desk[1] # k)
      BY <2>2 DEF StopOutrun
    <3> QED
      BY <1>0, <3>1, <3>2, DeskJob DEF DeskTracks
  <2>3. "failed" \in HeldBack /\ "retrying" \in HeldBack
    BY DEF HeldBack, Parked
  <2> QED
    BY <1>6, <2>1, <2>2, <2>3 DEF RetryClaims, RetryEnqueues
<1>7. ASSUME NEW p \in Projects, Decides(p) PROVE DeskTracks
  <2>1. \A j \in Jobs : j \notin QaJobs => ReviewClosed(p)[j] = run[j]
    BY DEF ReviewClosed
  <2>2. ASSUME NEW e \in Jobs, run' = Enqueued(ReviewClosed(p), e)
        PROVE  \A j \in Jobs : j # e /\ j \notin QaJobs /\ Shelved(j) => Shelved(j)'
    <3>1. \A j \in Jobs : j # e /\ j \notin QaJobs => run'[j] = run[j]
      BY <2>1, <2>2 DEF Enqueued, ReviewClosed
    <3> QED
      BY <3>1 DEF Shelved
  <2>3. CASE DeployAsIs(p)
    <3>1. state[p] \notin Past /\ run' = Enqueued(ReviewClosed(p), Deploy(p)) /\ desk' = Overtaken(Deploy(p))
      BY <2>3 DEF DeployAsIs, AwaitsDecision, Past
    <3>2. Deploy(p) \in Jobs /\ ~Shelved(Deploy(p))
      BY <1>00, <1>05, <3>1, JobKinds
    <3> QED
      BY <1>0, <2>2, <3>1, <3>2, DeskOvertaken
  <2>4. CASE AnotherIteration(p)
    <3>1. ~OneFault' /\ Build(p, Ordered) \in Jobs
      BY <1>0, <1>00, <2>4, RoundOrdered, JobKinds
    <3>2. run' = Enqueued(ReviewClosed(p), Build(p, Ordered)) /\ desk' = Overtaken(Build(p, Ordered))
      BY <2>4 DEF AnotherIteration
    <3> QED
      BY <1>0, <2>2, <3>1, <3>2, DeskOvertaken
  <2>5. CASE RejectBuild(p)
    <3>1. \A j \in Jobs : j \notin QaJobs => run'[j] = run[j]
      BY <2>1, <2>5 DEF RejectBuild
    <3> QED
      BY <1>0, <2>5, <3>1, DeskRests DEF RejectBuild, Shelved
  <2> QED
    BY <1>7, <2>3, <2>4, <2>5 DEF Decides
<1>8. ASSUME NEW found \in BOOLEAN, NEW auto \in BOOLEAN, Readiness(found, auto) PROVE DeskTracks
  <2>1. \/ run' = Enqueued(run, FirstDesign) /\ desk' = Overtaken(FirstDesign)
        \/ UNCHANGED <<run, desk>>
    BY <1>8 DEF Readiness
  <2> QED
    BY <1>0, <1>00, <1>02, <2>1, StillShelf
<1>9. CASE StartBuild
  BY <1>00, <1>02, <1>9 DEF StartBuild
<1>10. CASE StartFreshBuild
  <2> SUFFICES ASSUME desk' # NoCommand PROVE DeskTracks
    BY DEF DeskTracks
  <2>1. /\ desk' = desk /\ desk # NoCommand /\ desk[3] /\ desk[1] # Rebuild
        /\ run[desk[1]] = "retrying"
    BY <1>10 DEF StartFreshBuild
  <2>2. desk[1] \in Jobs
    BY <1>0, <2>1, DeskJob
  <2>3. run'[desk[1]] = "retrying"
    BY <1>10, <2>1, <2>2 DEF StartFreshBuild, Parked
  <2> QED
    BY <2>1, <2>3 DEF DeskTracks, Shelved, HeldBack
<1>11. CASE StopWrites
  BY <1>11 DEF StopWrites, DeskTracks
<1>12. CASE GiveUp \/ RestartCore \/ FailInterrupted \/ RevertStranded
  <2>1. UNCHANGED <<run, desk>>
    BY <1>12 DEF GiveUp, RestartCore, FailInterrupted, RevertStranded, queue
  <2> QED
    BY <1>0, <2>1, StillShelf
<1>13. CASE RestartBuilders
  <2>1. \A j \in Jobs : Shelved(j) => Shelved(j)'
    BY <1>13 DEF RestartBuilders, Shelved, HeldBack, Parked
  <2> QED
    BY <1>0, <1>13, <2>1, DeskRests DEF RestartBuilders
<1>14. CASE MarkStale
  <2>1. \A j \in Jobs : run'[j] = run[j] \/ (j \in DeployJobs /\ run'[j] = "stale")
    BY <1>14 DEF MarkStale
  <2>2. \A j \in Jobs : Shelved(j) => Shelved(j)'
    BY <2>1 DEF Shelved
  <2> QED
    BY <1>0, <1>14, <2>2, DeskRests DEF MarkStale
<1> QED
  BY <1>1, <1>2, <1>3, <1>4, <1>5, <1>6, <1>7, <1>8, <1>9, <1>10, <1>11, <1>12, <1>13, <1>14
     DEF Next

\* The attempt of an open command waits after every step.
LEMMA DeskHeldStep ==
    ASSUME PInv, RoundsInv, DeskHeld, Next
    PROVE  DeskHeld'
<1>0. TypeOK /\ TypeOK'
  BY RInvStep DEF PInv, RInv, vars
<1>1. ASSUME NEW k \in Jobs, StopReads(k) PROVE DeskHeld'
  <2>1. desk' = <<k, status, TRUE>> /\ k \notin QaJobs /\ run[k] \in Parked /\ run' = run
    BY <1>1 DEF StopReads, queue
  <2> QED
    BY <2>1 DEF DeskHeld, Shelved, HeldBack
<1>2. CASE DeskTracks
  <2> SUFFICES ASSUME desk' # NoCommand
               PROVE  /\ desk'[1] \notin QaJobs
                      /\ desk'[3] => Shelved(desk[1])'
                      /\ OneFault' /\ ~desk'[3] => desk'[1] \in DesignJobs
    BY DEF DeskHeld
  <2>1. OneFault' => OneFault
    BY <1>0, OneFaultBefore
  <2> QED
    BY <1>2, <2>1 DEF DeskTracks, DeskHeld, Shelved
<1> QED
  BY <1>1, <1>2, DeskStep

-----------------------------------------------------------------------------
(***************************************************************************)
(* Every step leaves the business with a job that carries it.              *)
(***************************************************************************)

\* A step while the business is in the build and the claim lasts.
Ongoing ==
    /\ PInv /\ RoundsInv /\ DeskHeld /\ DeskHeld' /\ Next
    /\ OneFault /\ OneFault'
    /\ status = "site_in_progress"
    /\ \A k : Threatened(k)' => Threatened(k)

\* Nobody threatens a job but the operator who opens a command, and he has read the status.
LEMMA ThreatsEnd ==
    ASSUME DeskTracks \/ \E k \in Jobs : StopReads(k) /\ status = "site_in_progress"
    PROVE  \A k : Threatened(k)' => Threatened(k)
<1>1. CASE DeskTracks
  <2> SUFFICES ASSUME NEW k, Threatened(k)' PROVE Threatened(k)
    OBVIOUS
  <2>1. desk' # NoCommand /\ desk # NoCommand /\ desk'[1] = desk[1] /\ desk'[2] = desk[2]
        /\ (desk'[3] => desk[3])
    BY <1>1 DEF DeskTracks, Threatened
  <2> QED
    BY <2>1 DEF Threatened
<1>2. ASSUME NEW j \in Jobs, StopReads(j), status = "site_in_progress"
      PROVE  \A k : ~Threatened(k)'
  <2>1. desk' = <<j, "site_in_progress", TRUE>>
    BY <1>2 DEF StopReads
  <2> QED
    BY <2>1 DEF Threatened
<1> QED
  BY <1>1, <1>2

\* A design that is in the queue or works is threatened by no command.
LEMMA DesignSafe ==
    ASSUME DeskHeld', NEW k \in DesignJobs, run'[k] \in {"queued", "running"}
    PROVE  ~Threatened(k)'
<1>1. ~Shelved(k)'
  BY JobNames DEF Shelved, HeldBack, Parked
<1> QED
  BY <1>1 DEF DeskHeld, Threatened

\* A project without a build that failed and without a deploy is threatened by none.
LEMMA RoundSafe ==
    ASSUME TypeOK, DeskHeld, OneFault, NEW k \in Works \cup DeployJobs,
           \A j \in BuildJobs : ProjectOf(j) = ProjectOf(k) => run[j] \notin HeldBack,
           \A j \in DeployJobs : ProjectOf(j) = ProjectOf(k) => run[j] = "none"
    PROVE  ~Threatened(k)
<1> SUFFICES ASSUME Threatened(k) PROVE FALSE
  OBVIOUS
<1>1. desk # NoCommand /\ desk[1] \in Jobs /\ desk[1] \notin QaJobs /\ k \notin DesignJobs
  BY DeskJob, JobNames DEF Threatened, DeskHeld
<1>2. ProjectOf(desk[1]) = ProjectOf(k) /\ desk[1] \notin DesignJobs
  BY <1>1 DEF Threatened
<1>3. Shelved(desk[1]) /\ (desk[1] \in BuildJobs \/ desk[1] \in DeployJobs)
  BY <1>1, <1>2, JobNames DEF DeskHeld
<1> QED
  BY <1>2, <1>3, JobNames DEF Shelved, HeldBack, Parked

\* A verdict that moves its project finds no command about it.
LEMMA VerdictSafe ==
    ASSUME TypeOK, RoundsInv, DeskHeld, OneFault, NEW p \in Projects,
           state[p] \in {"none", "qa", "needs_human_review"}
    PROVE  \A k \in Works \cup DeployJobs : ProjectOf(k) = p => ~Threatened(k)
<1>1. \A j \in BuildJobs : ProjectOf(j) = p => run[j] \notin HeldBack
  BY DEF RoundsInv, HeldAlone, Past
<1>2. \A j \in DeployJobs : ProjectOf(j) = p => run[j] = "none"
  BY DEF RoundsInv, DeployLate, Past
<1> QED
  BY <1>1, <1>2, RoundSafe

\* A carrier goes on if nothing of it and its project changes ...
LEMMA CarrierRests ==
    ASSUME NEW c \in Jobs, Carries(c), run'[c] = run[c], at'[c] = at[c],
           \/ c \in DesignJobs
           \/ state'[ProjectOf(c)] = state[ProjectOf(c)] /\ round'[ProjectOf(c)] = round[ProjectOf(c)],
           \A j \in BuildJobs :
               Working(j) /\ c \in QaJobs /\ ProjectOf(j) = ProjectOf(c) /\ state[ProjectOf(c)] = "building"
                   => Working(j)'
    PROVE  Carries(c)'
<1>1. CASE c \in DesignJobs
  BY <1>1, JobNames DEF Carries
<1>2. CASE c \in BuildJobs
  BY <1>2, JobNames DEF Carries, Working
<1>3. CASE c \in QaJobs
  BY <1>3, JobNames DEF Carries, Working
<1>4. CASE c \in DeployJobs
  BY <1>4, JobNames DEF Carries, Working
<1> QED
  BY <1>1, <1>2, <1>3, <1>4, JobNames

\* ... and if another job moves that is no build at work beside a verdict that waits.
LEMMA OtherMoves ==
    ASSUME TypeOK, NEW c \in Jobs, Carries(c), NEW k \in Jobs, k # c,
           run' = run \/ \E s : run' = [run EXCEPT ![k] = s],
           at' = at \/ \E s : at' = [at EXCEPT ![k] = s],
           UNCHANGED <<state, round>>,
           ~(k \in BuildJobs /\ Working(k) /\ c \in QaJobs /\ ProjectOf(k) = ProjectOf(c)
                 /\ state[ProjectOf(c)] = "building")
    PROVE  Carries(c)'
<1>1. \A j \in Jobs : j # k => run'[j] = run[j] /\ at'[j] = at[j]
  BY DEF TypeOK
<1>2. \A j \in BuildJobs : j \in Jobs
  BY JobNames
<1> QED
  BY <1>1, <1>2, CarrierRests DEF Working

\* Before the first fault no verdict waits beside a build.
LEMMA NoVerdictWaits ==
    ASSUME RoundsInv, OneFault, faults = 0, NEW k \in BuildJobs, NEW c \in QaJobs, Carries(c),
           Working(k), ProjectOf(k) = ProjectOf(c), state[ProjectOf(c)] = "building"
    PROVE  FALSE
<1>1. Calm /\ Live(k) /\ k \in Works /\ c \in Works /\ c # k
  BY JobNames DEF Calm, Live
<1>2. run[c] \in Waiting
  BY JobNames DEF Carries, Working
<1>3. run[c] \notin HeldBack
  BY <1>1 DEF RoundsInv, CalmWaits, Reviewed, Past
<1>4. Live(c)
  BY <1>2, <1>3 DEF Waiting, Live
<1> QED
  BY <1>1, <1>4 DEF RoundsInv, InTurn, Transient

\* The design stage: a design waits, or has begun a project or another design.
LEMMA DesignCarries ==
    ASSUME Ongoing, NEW c \in Jobs, Carries(c), ~Threatened(c), NEW k \in DesignJobs, Design(k)
    PROVE  CarriedOn'
<1>0. /\ TypeOK /\ TypeOK' /\ RInv /\ OneAgent /\ RoundsInv /\ DeskHeld /\ DeskHeld' /\ OneFault
      /\ status = "site_in_progress" /\ \A j : Threatened(j)' => Threatened(j)
  BY RInvStep DEF Ongoing, PInv, RInv
<1>00. k \in Jobs /\ k \in AgentJobs /\ k \notin BuildJobs
  BY JobNames
<1>01. ASSUME Carries(c)' PROVE CarriedOn'
  BY <1>0, <1>01 DEF CarriedOn
<1>02. ASSUME NEW e \in DesignJobs, run'[e] = "queued" PROVE CarriedOn'
  <2>1. Carries(e)' /\ ~Threatened(e)' /\ e \in Jobs
    BY <1>0, <1>02, DesignSafe, JobNames DEF Carries, Waiting
  <2> QED
    BY <2>1 DEF CarriedOn
<1>1. CASE DesignReads(k) \/ DesignIllegal(k) \/ DesignClaims(k) \/ DesignRejected(k)
  <2>1. /\ UNCHANGED <<state, round>>
        /\ run' = run \/ \E s : run' = [run EXCEPT ![k] = s]
        /\ at' = at \/ \E s : at' = [at EXCEPT ![k] = s]
    BY <1>1 DEF DesignReads, DesignIllegal, DesignClaims, DesignRejected, Takes, Ends, Skips, project
  <2>2. CASE c # k
    BY <1>0, <1>00, <1>01, <2>1, <2>2, OtherMoves
  <2>3. CASE c = k
    <3>1. CASE DesignReads(k)
      <4>1. run'[k] = "running" /\ at'[k] = "saw progress"
        BY <1>0, <1>00, <3>1 DEF DesignReads, Takes, TypeOK
      <4> QED
        BY <1>01, <2>3, <4>1 DEF Carries
    <3>2. CASE DesignIllegal(k) \/ DesignRejected(k)
      <4>1. run'[k] \in HeldBack
        BY <1>0, <1>00, <3>2 DEF DesignIllegal, DesignRejected, Ends, TypeOK, HeldBack, Parked
      <4> QED
        BY <1>01, <2>3, <4>1 DEF Carries, Waiting
    <3>3. CASE DesignClaims(k)
      <4>1. run[k] = "running" /\ at[k] = "saw progress"
        BY <2>3, <3>3, JobNames DEF DesignClaims, Carries, Waiting, HeldBack, Parked, Working
      <4>2. StillAsRead(k)
        BY <1>0, <4>1 DEF StillAsRead
      <4>3. run'[k] = "running" /\ at'[k] = "working"
        BY <1>0, <1>00, <3>3, <4>1, <4>2 DEF DesignClaims, TypeOK
      <4> QED
        BY <1>01, <2>3, <4>3 DEF Carries
    <3> QED
      BY <1>1, <3>1, <3>2, <3>3
  <2> QED
    BY <2>2, <2>3
<1>2. CASE DesignRetries(k)
  <2>1. run' = Enqueued(run, GateRetry) /\ Working(k) /\ k # GateRetry
    BY <1>2 DEF DesignRetries, Commits, DesignAttempt
  <2>2. GateRetry \in DesignJobs /\ GateRetry \in Jobs /\ GateRetry \in AgentJobs
    BY JobKinds, JobNames
  <2>3. run[GateRetry] # "running"
    BY <1>0, <1>00, <2>1, <2>2 DEF Working, OneAgent, Busy
  <2>4. run'[GateRetry] = "queued"
    BY <1>0, <2>1, <2>2, <2>3 DEF Enqueued, IsActive, Active, TypeOK
  <2> QED
    BY <1>02, <2>2, <2>4
<1>3. CASE DesignCommits(k)
  <2>1. PICK p \in Projects : /\ state[p] = "none"
                              /\ state' = [state EXCEPT ![p] = "brief"]
                              /\ Commits(k, Enqueued(run, Build(p, 0)), "done")
                              /\ UNCHANGED round
    BY <1>3 DEF DesignCommits
  <2> DEFINE e == Build(p, 0)
  <2>2. e \in BuildJobs /\ e \in Works /\ e \in Jobs /\ ProjectOf(e) = p /\ IterationOf(e) = 0
    BY Iterations, JobKinds, JobNames
  <2>3. run[e] = "none" /\ round[p] = 0
    BY <1>0, <2>1, <2>2 DEF RoundsInv, Unborn
  <2> HIDE DEF e
  <2>4. run'[e] = "queued" /\ state'[p] = "brief"
    BY <1>0, <2>1, <2>2, <2>3 DEF e, Commits, Enqueued, IsActive, Active, TypeOK
  <2>5. Carries(e)'
    BY <2>1, <2>2, <2>3, <2>4 DEF Carries, Waiting, Transient
  <2>6. ~Threatened(e)'
    BY <1>0, <2>1, <2>2, VerdictSafe
  <2> QED
    BY <2>2, <2>5, <2>6 DEF CarriedOn
<1> QED
  BY <1>1, <1>2, <1>3 DEF Design

\* The builder: the build or the verdict after it carries on, or a design made anew.
LEMMA BuilderCarries ==
    ASSUME Ongoing, Slots = 1, NEW c \in Jobs, Carries(c), ~Threatened(c),
           NEW k \in BuildJobs, Builder(k)
    PROVE  CarriedOn'
<1> DEFINE p == ProjectOf(k)
<1>0. /\ TypeOK /\ TypeOK' /\ RInv /\ OneAgent /\ RoundsInv /\ DeskHeld /\ DeskHeld' /\ OneFault
      /\ \A j : Threatened(j)' => Threatened(j)
  BY RInvStep DEF Ongoing, PInv, RInv
<1>00. k \in Jobs /\ k \in AgentJobs /\ k \in Works /\ p \in Projects
  BY JobNames
<1>01. ASSUME Carries(c)' PROVE CarriedOn'
  BY <1>0, <1>01 DEF CarriedOn
<1>02. \A j \in Works : run[j] = "running" /\ Working(k) => j = k
  BY <1>00, AgentAlone DEF Ongoing, Working
<1>03. ASSUME c \in DeployJobs, ProjectOf(c) = p, state[p] \notin Past PROVE FALSE
  BY <1>0, <1>03, JobNames DEF RoundsInv, DeployLate, Carries, Waiting, HeldBack, Parked, Working
<1>1. CASE Skips(k) /\ ~(Working(k) /\ state[p] = "building")
  <2>1. /\ UNCHANGED <<state, round>> /\ run' = [run EXCEPT ![k] = "skipped"]
        /\ at' = [at EXCEPT ![k] = "idle"]
    BY <1>1 DEF Skips, Ends, project
  <2>2. CASE c # k
    BY <1>0, <1>00, <1>01, <1>1, <2>1, <2>2, OtherMoves
  <2>3. CASE c = k /\ (BuildStale(k) \/ BuildCommits(k))
    BY <1>1, <2>3, JobNames
       DEF BuildStale, BuildCommits, Buildable, Carries, Working, Waiting, HeldBack, Parked
  <2>4. c = k => BuildStale(k) \/ BuildCommits(k)
    <3>1. CASE BuildStarts(k)
      BY <1>0, <1>00, <2>1, <3>1 DEF BuildStarts, Takes, TypeOK
    <3>2. CASE BuildRegenerates(k)
      BY <1>1, <3>2 DEF BuildRegenerates
    <3> QED
      BY <3>1, <3>2 DEF Builder
  <2> QED
    BY <2>2, <2>3, <2>4
<1>2. CASE BuildStarts(k)
  <2>1. /\ run' = [run EXCEPT ![k] = "running"] /\ at' = [at EXCEPT ![k] = "working"]
        /\ state' = [state EXCEPT ![p] = "building"] /\ round' = round
        /\ state[p] \in Transient /\ run[k] = "queued"
    BY <1>2 DEF BuildStarts, Takes, Buildable
  <2>2. \A j \in Works : run[j] # "running"
    BY <1>0, <1>2, FreeSlot, JobNames DEF BuildStarts, Takes, Busy, Works
  <2>3. /\ \A j \in Jobs : run'[j] = IF j = k THEN "running" ELSE run[j]
        /\ \A j \in Jobs : at'[j] = IF j = k THEN "working" ELSE at[j]
        /\ \A q \in Projects : state'[q] = IF q = p THEN "building" ELSE state[q]
    BY <1>0, <1>00, <2>1 DEF TypeOK
  <2>4. CASE c \in DesignJobs
    BY <1>01, <2>3, <2>4, CarrierRests, JobNames
  <2>5. CASE c \in Works \cup DeployJobs /\ ProjectOf(c) # p
    <3>1. ProjectOf(c) \in Projects /\ c # k
      BY <2>5, JobNames
    <3>2. \A j \in BuildJobs : ~Working(j)
      BY <2>2, JobNames DEF Working
    <3> QED
      BY <1>01, <2>1, <2>3, <2>5, <3>1, <3>2, CarrierRests
  <2>6. CASE c \in BuildJobs /\ ProjectOf(c) = p
    <3>1. IterationOf(c) = round'[p] /\ run[c] \in Waiting
      BY <2>1, <2>2, <2>6, JobNames DEF Carries, Working
    <3>2. CASE c = k
      <4>1. Working(k)' /\ state'[p] = "building"
        BY <1>00, <2>3 DEF Working
      <4> QED
        BY <1>01, <3>1, <3>2, <4>1 DEF Carries
    <3>3. CASE c # k
      <4>1. run'[c] \in Waiting /\ state'[p] \in Transient
        BY <1>00, <2>3, <3>1, <3>3 DEF Transient
      <4> QED
        BY <1>01, <2>6, <3>1, <4>1 DEF Carries
    <3> QED
      BY <3>2, <3>3
  <2>7. CASE c \in QaJobs /\ ProjectOf(c) = p
    <3>1. IterationOf(c) = round'[p] /\ run[c] \in Waiting /\ c # k
      BY <2>1, <2>2, <2>7, JobNames DEF Carries, Working
    <3>2. run'[c] \in Waiting /\ state'[p] = "building" /\ Working(k)'
      BY <1>00, <2>3, <3>1 DEF Working
    <3> QED
      BY <1>01, <2>7, <3>1, <3>2 DEF Carries
  <2>8. CASE c \in DeployJobs /\ ProjectOf(c) = p
    BY <1>03, <2>1, <2>8 DEF Transient, Past
  <2> QED
    BY <2>4, <2>5, <2>6, <2>7, <2>8, JobNames DEF Works
<1>3. CASE BuildRegenerates(k)
  <2> DEFINE e == Redesign(p)
  <2>1. e \in DesignJobs /\ e \in Jobs /\ e \in AgentJobs /\ e # k
    BY <1>00, JobKinds, JobNames
  <2>2. run' = Enqueued(run, e) /\ Working(k)
    BY <1>3 DEF BuildRegenerates, Commits
  <2> HIDE DEF e
  <2>3. run[e] # "running"
    BY <1>0, <1>00, <2>1, <2>2 DEF Working, OneAgent, Busy
  <2>4. run'[e] = "queued"
    BY <1>0, <2>1, <2>2, <2>3 DEF Enqueued, IsActive, Active, TypeOK
  <2>5. Carries(e)' /\ ~Threatened(e)'
    BY <1>0, <2>1, <2>4, DesignSafe DEF Carries, Waiting
  <2> QED
    BY <2>1, <2>5 DEF CarriedOn
<1>4. CASE BuildCommits(k) /\ state[p] = "building"
  <2> DEFINE e == Qa(p, IterationOf(k))
  <2>1. k[3] # MaxQaIterations + 1
    BY <1>0, <1>4 DEF RInv, RoundsBounded, BuildCommits, Working
  <2>2. e \in QaJobs /\ e \in Works /\ e \in Jobs /\ ProjectOf(e) = p /\ IterationOf(e) = IterationOf(k) /\ e # k
    BY <1>00, <2>1, Iterations, JobKinds, JobNames
  <2>3. /\ Working(k) /\ run' = Enqueued(run, e) /\ at' = [at EXCEPT ![k] = "done"]
        /\ state' = [state EXCEPT ![p] = "qa"] /\ round' = round
    BY <1>4 DEF BuildCommits, Commits
  <2> HIDE DEF e
  <2>4. run[e] # "running"
    BY <1>02, <2>2, <2>3
  <2>5. /\ \A j \in Jobs : run'[j] = IF j = e THEN "queued" ELSE run[j]
        /\ \A j \in Jobs : at'[j] = IF j = k THEN "done" ELSE at[j]
        /\ \A q \in Projects : state'[q] = IF q = p THEN "qa" ELSE state[q]
    BY <1>0, <1>00, <2>2, <2>3, <2>4 DEF TypeOK, Enqueued, IsActive, Active
  <2>6. CASE c = k
    <3>1. IterationOf(e) = round'[p] /\ run'[e] \in Waiting /\ state'[p] = "qa"
      <4>1. IterationOf(k) = round[p]
        BY <2>6, JobNames DEF Carries
      <4> QED
        BY <1>00, <2>2, <2>3, <2>5, <4>1 DEF Waiting
    <3>2. Carries(e)'
      BY <2>2, <3>1 DEF Carries
    <3>3. ~Threatened(e)
      <4>1. ~Threatened(k)
        BY <2>6
      <4>2. k \notin DesignJobs /\ ProjectOf(e) = ProjectOf(k)
        BY <2>2, JobNames DEF p
      <4> QED
        BY <1>0, <2>2, <4>1, <4>2 DEF Threatened, DeskHeld
    <3> QED
      BY <1>0, <2>2, <3>2, <3>3 DEF CarriedOn
  <2>7. CASE c # k /\ c \in DesignJobs
    BY <1>01, <2>2, <2>5, <2>7, CarrierRests, JobNames
  <2>8. CASE c # k /\ c \in Works \cup DeployJobs /\ ProjectOf(c) # p
    <3>1. ProjectOf(c) \in Projects /\ c # e
      BY <2>2, <2>8, JobNames
    <3>2. \A j \in BuildJobs : Working(j) => j = k
      BY <1>02, <2>3, JobNames DEF Working
    <3>3. run'[c] = run[c] /\ at'[c] = at[c] /\ state'[ProjectOf(c)] = state[ProjectOf(c)]
      BY <2>5, <2>8, <3>1
    <3> QED
      BY <1>01, <2>3, <2>8, <3>2, <3>3, CarrierRests
  <2>9. CASE c # k /\ c \in BuildJobs /\ ProjectOf(c) = p
    <3>1. IterationOf(c) = round'[p] /\ run[c] \in Waiting /\ c # e
      BY <1>02, <2>2, <2>3, <2>9, JobNames DEF Carries, Working
    <3>2. run'[c] \in Waiting /\ state'[p] \in Transient
      BY <1>00, <2>5, <3>1 DEF Transient
    <3> QED
      BY <1>01, <2>9, <3>1, <3>2 DEF Carries
  <2>10. CASE c # k /\ c \in QaJobs /\ ProjectOf(c) = p
    <3>1. IterationOf(c) = round'[p] /\ run[c] \in Waiting
      BY <1>02, <1>4, <2>3, <2>10, JobNames DEF Carries, Working
    <3>2. run'[c] \in Waiting /\ state'[p] = "qa"
      BY <1>00, <2>5, <3>1 DEF Waiting
    <3> QED
      BY <1>01, <2>10, <3>1, <3>2 DEF Carries
  <2>11. CASE c \in DeployJobs /\ ProjectOf(c) = p
    BY <1>03, <1>4, <2>11 DEF Past
  <2> QED
    BY <2>6, <2>7, <2>8, <2>9, <2>10, <2>11, JobNames DEF Works
<1>5. Builder(k) => \/ BuildStarts(k) \/ BuildRegenerates(k) \/ (BuildCommits(k) /\ state[p] = "building")
                    \/ Skips(k) /\ ~(Working(k) /\ state[p] = "building")
  BY DEF Builder, BuildStale, BuildCommits, Working
<1> QED
  BY <1>1, <1>2, <1>3, <1>4, <1>5

\* The verdict: a deploy or another round, unless it parked the business.
LEMMA VerdictCarries ==
    ASSUME Ongoing, Slots = 1, NEW c \in Jobs, Carries(c), ~Threatened(c),
           NEW k \in QaJobs, VisualQa(k), status' = "site_in_progress"
    PROVE  CarriedOn'
<1> DEFINE p == ProjectOf(k)
<1>0. /\ TypeOK /\ TypeOK' /\ RInv /\ OneAgent /\ RoundsInv /\ DeskHeld /\ DeskHeld' /\ OneFault
      /\ status = "site_in_progress" /\ \A j : Threatened(j)' => Threatened(j)
  BY RInvStep DEF Ongoing, PInv, RInv
<1>00. k \in Jobs /\ k \in AgentJobs /\ k \in Works /\ k \notin BuildJobs /\ p \in Projects
  BY JobNames
<1>01. ASSUME Carries(c)' PROVE CarriedOn'
  BY <1>0, <1>01 DEF CarriedOn
<1>02. ASSUME NEW e \in Works \cup DeployJobs, ProjectOf(e) = p, state[p] = "qa", Carries(e)'
       PROVE  CarriedOn'
  BY <1>0, <1>00, <1>02, VerdictSafe, JobNames DEF CarriedOn
<1>1. CASE QaStarts(k)
  <2>1. /\ run' = [run EXCEPT ![k] = "running"] /\ at' = [at EXCEPT ![k] = "working"]
        /\ UNCHANGED <<state, round>>
    BY <1>1 DEF QaStarts, Takes, project
  <2>2. CASE c # k
    BY <1>0, <1>00, <1>01, <2>1, <2>2, OtherMoves
  <2>3. CASE c = k
    <3>1. \A j \in BuildJobs : ~Working(j)
      BY <1>0, <1>1, FreeSlot, JobNames DEF QaStarts, Takes, Busy, Working
    <3>2. IterationOf(k) = round[p] /\ state[p] = "qa"
      BY <2>3, <3>1, JobNames DEF Carries
    <3>3. Working(k)'
      BY <1>0, <1>00, <2>1 DEF TypeOK, Working
    <3>4. Carries(k)'
      BY <2>1, <3>2, <3>3 DEF Carries
    <3> QED
      BY <1>01, <2>3, <3>4
  <2> QED
    BY <2>2, <2>3
<1>2. CASE Working(k) /\ Skips(k) /\ ~Judges(k)
  <2>1. /\ UNCHANGED <<state, round>> /\ run' = [run EXCEPT ![k] = "skipped"]
        /\ at' = [at EXCEPT ![k] = "idle"]
    BY <1>2 DEF Skips, Ends, project
  <2>2. c # k
    BY <1>2, JobNames DEF Carries, Working, Judges, Waiting, HeldBack, Parked
  <2> QED
    BY <1>0, <1>00, <1>01, <2>1, <2>2, OtherMoves
<1>3. CASE QaPasses(k) /\ Judges(k)
  <2> DEFINE e == Deploy(p)
  <2>1. state[p] = "qa" /\ run' = Enqueued(run, e)
    BY <1>3 DEF QaPasses, Judges, Commits
  <2>2. e \in DeployJobs /\ e \in Jobs /\ ProjectOf(e) = p
    BY <1>00, JobKinds, JobNames
  <2> HIDE DEF e
  <2>3. run[e] = "none"
    BY <1>0, <2>1, <2>2 DEF RoundsInv, DeployLate, Past
  <2>4. run'[e] = "queued"
    BY <1>0, <2>1, <2>2, <2>3 DEF Enqueued, IsActive, Active, TypeOK
  <2>5. Carries(e)'
    BY <2>2, <2>4 DEF Carries, Waiting
  <2> QED
    BY <1>02, <2>1, <2>2, <2>5
<1>4. CASE QaFeedsBack(k) /\ Judges(k)
  <2> DEFINE e == Build(p, IterationOf(k) + 1)
  <2>1. /\ state[p] = "qa" /\ run' = Enqueued(run, e) /\ state' = state /\ round' = Counted(k)
        /\ Working(k)
    BY <1>4 DEF QaFeedsBack, Judges, Commits
  <2>2. k[3] # MaxQaIterations + 1
    BY <1>0, <2>1 DEF RInv, RoundsBounded, Working
  <2>3. /\ e \in BuildJobs /\ e \in Jobs /\ e \in Works /\ ProjectOf(e) = p
        /\ IterationOf(e) = IterationOf(k) + 1 /\ e # k
    BY <1>00, <2>2, Iterations, JobKinds, JobNames
  <2>4. run[e] # "running"
    <3>1. run[e] = "running" => e = k
      BY <1>00, <2>1, <2>3, AgentAlone DEF Working, Ongoing
    <3> QED
      BY <2>3, <3>1
  <2> HIDE DEF e
  <2>5. run'[e] = "queued" /\ round'[p] = IterationOf(k) + 1
    BY <1>0, <1>00, <2>1, <2>3, <2>4 DEF Enqueued, IsActive, Active, TypeOK, Counted
  <2>6. Carries(e)'
    BY <2>1, <2>3, <2>5 DEF Carries, Waiting, Transient
  <2> QED
    BY <1>02, <2>1, <2>3, <2>6
<1>5. CASE QaParks(k)
  <2>1. ~Parks(k) /\ Skips(k) /\ Working(k)
    BY <1>0, <1>5 DEF QaParks
  <2>2. ~Judges(k)
    BY <1>0, <2>1 DEF Parks, Judges
  <2> QED
    BY <1>2, <2>1, <2>2
<1> QED
  BY <1>1, <1>2, <1>3, <1>4, <1>5 DEF VisualQa, QaPasses, QaFeedsBack

\* The deploy: it works, it has published, or it waits for the operator.
LEMMA DeployerCarries ==
    ASSUME Ongoing, NEW c \in Jobs, Carries(c), ~Threatened(c),
           NEW k \in DeployJobs, Deployer(k), status' = "site_in_progress"
    PROVE  CarriedOn'
<1> DEFINE p == ProjectOf(k)
<1>0. /\ TypeOK /\ status = "site_in_progress" /\ \A j : Threatened(j)' => Threatened(j)
  BY DEF Ongoing, PInv, RInv
<1>00. k \in Jobs /\ k \notin BuildJobs /\ k \notin DesignJobs /\ k \notin QaJobs
  BY JobNames DEF Works
<1>01. ASSUME Carries(c)' PROVE CarriedOn'
  BY <1>0, <1>01 DEF CarriedOn
<1>1. InBuildFlow
  BY <1>0 DEF InBuildFlow
<1>2. ~(DeployCommits(k) /\ DeployFits(p))
  BY DEF DeployCommits
<1>3. /\ UNCHANGED <<state, round>>
      /\ \E s : run' = [run EXCEPT ![k] = s]
      /\ \E s : at' = [at EXCEPT ![k] = s]
  BY <1>1, <1>2 DEF Deployer, DeployStarts, DeployCommits, Skips, Ends, project
<1>4. CASE c # k
  BY <1>0, <1>00, <1>01, <1>3, <1>4, OtherMoves
<1>5. CASE c = k
  <2>1. ASSUME DeployCommits(k) PROVE FALSE
    <3>1. Working(k) /\ state[p] \notin {"ready", "deployed"}
      BY <1>1, <1>2, <2>1 DEF DeployCommits, DeployFits
    <3> QED
      BY <1>00, <1>5, <3>1 DEF Carries, Working, Waiting, HeldBack, Parked
  <2>2. CASE DeployStarts(k)
    <3>1. CASE run' = [run EXCEPT ![k] = "failed"]
      <4>1. run'[k] = "failed"
        BY <1>0, <1>00, <3>1 DEF TypeOK
      <4> QED
        BY <1>01, <1>5, <4>1 DEF Carries, Waiting, HeldBack, Parked
    <3>2. CASE run' # [run EXCEPT ![k] = "failed"]
      <4>1. /\ state[p] \in {"ready", "deployed"} /\ state' = state
            /\ run' = [run EXCEPT ![k] = "running"] /\ at' = [at EXCEPT ![k] = "working"]
        BY <1>1, <2>2, <3>2 DEF DeployStarts, Ends, project
      <4>2. Working(k)'
        BY <1>0, <1>00, <4>1 DEF TypeOK, Working
      <4> QED
        BY <1>01, <1>5, <4>1, <4>2 DEF Carries
    <3> QED
      BY <3>1, <3>2
  <2> QED
    BY <2>1, <2>2 DEF Deployer
<1> QED
  BY <1>4, <1>5

\* Throws, ends, retries, and the operator reading.
LEMMA JobCarries ==
    ASSUME Ongoing, NEW c \in Jobs, Carries(c), ~Threatened(c), NEW k \in Jobs,
           Throw(k) \/ Finish(k) \/ StopReads(k) \/ RetryClaims(k) \/ RetryEnqueues(k)
    PROVE  CarriedOn'
<1>0. TypeOK /\ RoundsInv /\ OneFault /\ OneFault' /\ Next /\ \A j : Threatened(j)' => Threatened(j)
  BY DEF Ongoing, PInv, RInv
<1>01. ASSUME Carries(c)' PROVE CarriedOn'
  BY <1>0, <1>01 DEF CarriedOn
<1>1. /\ UNCHANGED <<state, round>>
      /\ run' = run \/ \E s : run' = [run EXCEPT ![k] = s]
      /\ at' = at \/ \E s : at' = [at EXCEPT ![k] = s]
  BY DEF Throw, Finish, StopReads, RetryClaims, RetryEnqueues, Ends, project, queue
<1>2. CASE c # k
  <2>1. ASSUME k \in BuildJobs, Working(k), c \in QaJobs, ProjectOf(k) = ProjectOf(c),
               state[ProjectOf(c)] = "building"
        PROVE  FALSE
    <3>1. Throw(k)
      BY <2>1 DEF Working, Finish, StopReads, RetryClaims, RetryEnqueues, Parked
    <3>2. faults = 0
      <4>1. faults \in Nat /\ faults' = faults + 1
        BY <1>0, <3>1 DEF Throw, Fault, TypeOK
      <4>2. faults' # faults
        BY <4>1
      <4> QED
        BY <1>0, <4>2, OneFaultBefore
    <3> QED
      BY <1>0, <2>1, <3>2, NoVerdictWaits
  <2> QED
    BY <1>0, <1>01, <1>1, <1>2, <2>1, OtherMoves
<1>3. CASE c = k
  <2>1. CASE Finish(k)
    BY <1>3, <2>1, JobNames DEF Finish, Carries, Working, Waiting, HeldBack, Parked
  <2>2. CASE StopReads(k)
    <3>1. UNCHANGED <<run, at, state, round>>
      BY <2>2 DEF StopReads, project, queue
    <3> QED
      BY <1>01, <3>1, CarrierRests DEF Working
  <2>3. CASE Throw(k) \/ RetryClaims(k) \/ RetryEnqueues(k)
    <3>1. run'[k] \in Waiting
      BY <1>0, <2>3 DEF Throw, RetryClaims, RetryEnqueues, Ends, TypeOK, Waiting, HeldBack, Parked
    <3>2. run[k] \in HeldBack \/ (run[k] = "running" /\ at[k] \in {"saw ready", "saw progress", "working"})
      BY <2>3 DEF Throw, RetryClaims, RetryEnqueues, HeldBack
    <3>3. CASE k \in DesignJobs \cup DeployJobs
      BY <1>01, <1>3, <3>1, <3>3, JobNames DEF Carries
    <3>4. CASE k \in BuildJobs
      <4>1. state[ProjectOf(k)] \in Transient
        BY <1>3, <3>4, JobNames DEF Carries, Transient
      <4>2. IterationOf(k) = round[ProjectOf(k)]
        BY <1>3, <3>4, JobNames DEF Carries
      <4> QED
        BY <1>01, <1>1, <1>3, <3>1, <3>4, <4>1, <4>2 DEF Carries
    <3>5. CASE k \in QaJobs
      <4>1. IterationOf(k) = round[ProjectOf(k)]
        BY <1>3, <3>5, JobNames DEF Carries
      <4>2. CASE state[ProjectOf(k)] = "qa"
        BY <1>01, <1>1, <1>3, <3>1, <3>5, <4>1, <4>2 DEF Carries
      <4>3. CASE state[ProjectOf(k)] # "qa"
        <5>1. PICK j \in BuildJobs : ProjectOf(j) = ProjectOf(k) /\ Working(j)
          BY <1>3, <3>5, <4>3, JobNames DEF Carries
        <5>2. state[ProjectOf(k)] = "building"
          BY <1>3, <3>5, <4>3, JobNames DEF Carries
        <5>3. j \in Jobs /\ j # k
          BY <3>5, JobNames
        <5>4. Working(j)'
          BY <1>0, <1>1, <5>1, <5>3 DEF TypeOK, Working
        <5> QED
          BY <1>01, <1>1, <1>3, <3>1, <3>5, <4>1, <5>1, <5>2, <5>4 DEF Carries
      <4> QED
        BY <4>2, <4>3
    <3> QED
      BY <3>3, <3>4, <3>5, JobNames
  <2> QED
    BY <2>1, <2>2, <2>3
<1> QED
  BY <1>2, <1>3

\* A stop command that leaves the status alone has read another one, and then the job it
\* closes is not the one that carries the business, nor of the same project.
LEMMA StopCarries ==
    ASSUME Ongoing, NEW c \in Jobs, Carries(c), ~Threatened(c),
           StopWrites, status' = "site_in_progress"
    PROVE  CarriedOn'
<1>0. TypeOK /\ status = "site_in_progress" /\ \A j : Threatened(j)' => Threatened(j)
  BY DEF Ongoing, PInv, RInv
<1>01. ASSUME Carries(c)' PROVE CarriedOn'
  BY <1>0, <1>01 DEF CarriedOn
<1> DEFINE d == desk[1]
<1>1. UNCHANGED <<round, at>> /\ desk # NoCommand
  BY DEF StopWrites
<1>2. CASE UNCHANGED <<run, state>>
  BY <1>01, <1>1, <1>2, CarrierRests DEF Working
<1>3. CASE ~UNCHANGED <<run, state>>
  <2>1. /\ desk[3] => run[d] \in Parked
        /\ run' = IF desk[3] THEN [run EXCEPT ![d] = "cancelled"] ELSE run
        /\ state' = IF d \notin DesignJobs /\ state[ProjectOf(d)] \in Closable
                    THEN [state EXCEPT ![ProjectOf(d)] = "cancelled"] ELSE state
        /\ status' = IF desk[2] \in {"site_in_progress", "needs_review"} /\ status = desk[2]
                     THEN "production_ready" ELSE status
    BY <1>3 DEF StopWrites
  <2>2. desk[2] # "site_in_progress"
    BY <1>0, <2>1
  <2>3. /\ ~(desk[3] /\ d = c)
        /\ d \notin DesignJobs /\ c \notin DesignJobs => ProjectOf(d) # ProjectOf(c)
    BY <1>1, <2>2 DEF Threatened
  <2> HIDE DEF d
  <2>4. run'[c] = run[c]
    BY <1>0, <2>1, <2>3 DEF TypeOK
  <2>5. c \in DesignJobs \/ state'[ProjectOf(c)] = state[ProjectOf(c)]
    BY <1>0, <2>1, <2>3, JobNames DEF TypeOK, Works
  <2>6. \A j \in BuildJobs : Working(j) => Working(j)'
    BY <1>0, <1>1, <2>1, JobNames DEF TypeOK, Working, Parked
  <2> QED
    BY <1>01, <1>1, <2>4, <2>5, <2>6, CarrierRests
<1> QED
  BY <1>2, <1>3

\* A container dies: who worked waits anew, or went with it.
LEMMA RestartCarries ==
    ASSUME Ongoing, NEW c \in Jobs, Carries(c), ~Threatened(c),
           RestartBuilders \/ RestartCore \/ MarkStale
    PROVE  CarriedOn'
<1>0. /\ TypeOK /\ RoundsInv /\ OneFault /\ OneFault' /\ Next
      /\ \A j : Threatened(j)' => Threatened(j)
  BY DEF Ongoing, PInv, RInv
<1>00. /\ \A j \in DesignJobs \cup BuildJobs \cup QaJobs : j \in AgentJobs /\ j \in Jobs /\ j \notin DeployJobs
       /\ \A j \in DeployJobs : j \notin AgentJobs /\ j \notin BuildJobs /\ j \notin QaJobs /\ j \notin DesignJobs
  BY JobNames DEF Works
<1>01. ASSUME Carries(c)' PROVE CarriedOn'
  BY <1>0, <1>01 DEF CarriedOn
<1>1. UNCHANGED <<state, round>>
  BY DEF RestartBuilders, RestartCore, MarkStale, project
<1>2. CASE RestartBuilders
  <2>1. /\ \A j \in Jobs : run'[j] = IF j \in AgentJobs /\ run[j] = "running" THEN "queued" ELSE run[j]
        /\ \A j \in Jobs : at'[j] = IF j \in AgentJobs THEN "idle" ELSE at[j]
    BY <1>2 DEF RestartBuilders
  <2>2. CASE c \in DeployJobs
    BY <1>00, <1>01, <1>1, <2>1, <2>2, CarrierRests
  <2>3. CASE c \in DesignJobs
    <3>1. run[c] \in Waiting \/ run[c] = "running"
      BY <1>00, <2>3, JobNames DEF Carries
    <3>2. run'[c] \in Waiting
      BY <1>00, <2>1, <2>3, <3>1 DEF Waiting
    <3> QED
      BY <1>01, <2>3, <3>2 DEF Carries
  <2>4. CASE c \in BuildJobs
    <3>1. /\ IterationOf(c) = round[ProjectOf(c)] /\ state[ProjectOf(c)] \in Transient
          /\ run[c] \in Waiting \/ run[c] = "running"
      BY <2>4, JobNames DEF Carries, Working, Transient
    <3>2. run'[c] \in Waiting
      BY <1>00, <2>1, <2>4, <3>1 DEF Waiting
    <3> QED
      BY <1>01, <1>1, <2>4, <3>1, <3>2 DEF Carries
  <2>5. CASE c \in QaJobs
    <3>1. faults = 0
      <4>1. faults \in Nat /\ faults' = faults + 1
        BY <1>0, <1>2 DEF RestartBuilders, Fault, TypeOK
      <4>2. faults' # faults
        BY <4>1
      <4> QED
        BY <1>0, <4>2, OneFaultBefore
    <3>2. /\ IterationOf(c) = round[ProjectOf(c)] /\ state[ProjectOf(c)] = "qa"
          /\ run[c] \in Waiting \/ run[c] = "running"
      <4>1. \/ (run[c] \in Waiting \/ Working(c)) /\ state[ProjectOf(c)] = "qa"
            \/ /\ state[ProjectOf(c)] = "building"
               /\ \E j \in BuildJobs : ProjectOf(j) = ProjectOf(c) /\ Working(j)
        BY <2>5, JobNames DEF Carries
      <4> QED
        BY <1>0, <2>5, <3>1, <4>1, NoVerdictWaits, JobNames DEF Carries, Working
    <3>3. run'[c] \in Waiting
      BY <1>00, <2>1, <2>5, <3>2 DEF Waiting
    <3> QED
      BY <1>01, <1>1, <2>5, <3>2, <3>3 DEF Carries
  <2> QED
    BY <2>2, <2>3, <2>4, <2>5, JobNames
<1>3. CASE RestartCore \/ MarkStale
  <2>1. \A j \in Jobs : j \notin DeployJobs => run'[j] = run[j] /\ at'[j] = at[j]
    BY <1>3 DEF RestartCore, MarkStale
  <2>2. CASE c \notin DeployJobs
    BY <1>00, <1>01, <1>1, <2>1, <2>2, CarrierRests DEF Working
  <2>3. CASE c \in DeployJobs
    <3>1. \/ run[c] \in Waiting \cup {"stale"}
          \/ run[c] = "running" /\ at[c] = "lost"
          \/ run[c] = "running" /\ at[c] = "working" /\ state[ProjectOf(c)] \in {"ready", "deployed"}
      BY <1>00, <2>3 DEF Carries, Working
    <3>2. CASE RestartCore
      <4>1. run'[c] = run[c] /\ at'[c] = IF run[c] = "running" THEN "lost" ELSE at[c]
        BY <2>3, <3>2 DEF RestartCore
      <4> QED
        BY <1>01, <2>3, <3>1, <4>1 DEF Carries
    <3>3. CASE MarkStale
      <4>1. run'[c] = "stale" \/ (run'[c] = run[c] /\ at'[c] = at[c])
        BY <3>3 DEF MarkStale
      <4> QED
        BY <1>01, <1>1, <2>3, <3>1, <4>1 DEF Carries, Working
    <3> QED
      BY <1>3, <3>2, <3>3
  <2> QED
    BY <2>2, <2>3
<1> QED
  BY <1>2, <1>3

\* The boot passes: who carries a round is in the queue or works, so that nothing is closed.
LEMMA BootCarries ==
    ASSUME Ongoing, NEW c \in Jobs, Carries(c), ~Threatened(c),
           FailInterrupted \/ RevertStranded
    PROVE  CarriedOn'
<1>0. /\ TypeOK /\ RoundsInv /\ OneFault /\ \A j : Threatened(j)' => Threatened(j)
  BY DEF Ongoing, PInv, RInv
<1>01. ASSUME Carries(c)' PROVE CarriedOn'
  BY <1>0, <1>01 DEF CarriedOn
<1>1. UNCHANGED <<round, run, at>>
  BY DEF FailInterrupted, RevertStranded, project, queue
<1>2. c \in DesignJobs \/ state'[ProjectOf(c)] = state[ProjectOf(c)]
  <2>1. CASE RevertStranded
    BY <2>1 DEF RevertStranded, project
  <2>2. CASE FailInterrupted /\ ~NothingAlive
    <3>1. \A q \in Projects : state'[q] = state[q]
      BY <2>2 DEF FailInterrupted
    <3> QED
      BY <3>1, JobNames DEF Works
  <2>3. CASE FailInterrupted /\ NothingAlive
    <3>1. Calm
      BY <2>3 DEF FailInterrupted, Calm
    <3>2. /\ \A j \in BuildJobs : run[j] \notin HeldBack
          /\ \A j \in QaJobs : run[j] \in HeldBack => state[ProjectOf(j)] \in Reviewed
      BY <1>0, <3>1 DEF RoundsInv, CalmWaits
    <3>3. \A j \in Jobs : run[j] # "queued" /\ run[j] # "running"
      BY <2>3 DEF NothingAlive, IsActive, Active
    <3>4. c \notin BuildJobs
      BY <3>2, <3>3, JobNames DEF Carries, Working, Waiting
    <3>5. c \notin QaJobs
      <4> SUFFICES ASSUME c \in QaJobs PROVE FALSE
        OBVIOUS
      <4>1. run[c] \in HeldBack /\ state[ProjectOf(c)] \in {"qa", "building"}
        BY <3>3, JobNames DEF Carries, Working, Waiting
      <4> QED
        BY <3>2, <4>1 DEF Reviewed, Past
    <3>6. CASE c \in DeployJobs
      <4>1. state[ProjectOf(c)] \in Past /\ ProjectOf(c) \in Projects
        BY <1>0, <3>6, JobNames DEF RoundsInv, DeployLate, Carries, Waiting, HeldBack, Parked, Working
      <4> QED
        BY <2>3, <4>1 DEF FailInterrupted, Transient, Past
    <3> QED
      BY <3>4, <3>5, <3>6, JobNames
  <2> QED
    BY <2>1, <2>2, <2>3
<1> QED
  BY <1>01, <1>1, <1>2, CarrierRests DEF Working

\* The business comes into the build: a design claims it, or the operator publishes
\* what QA refused.
LEMMA EntryCarried ==
    ASSUME PInv, RoundsInv, DeskHeld, DeskHeld', OneFault, OneFault', Next, DeskTracks,
           \/ \E k \in DesignJobs : DesignClaims(k) /\ StillAsRead(k)
           \/ \E p \in Projects : Decides(p) /\ status' = "site_in_progress"
    PROVE  CarriedOn'
<1>0. TypeOK /\ \A j : Threatened(j)' => Threatened(j)
  BY ThreatsEnd DEF PInv, RInv
<1>1. ASSUME NEW k \in DesignJobs, DesignClaims(k), StillAsRead(k) PROVE CarriedOn'
  <2>1. k \in Jobs /\ run'[k] = "running" /\ at'[k] = "working"
    BY <1>0, <1>1, JobNames DEF DesignClaims, TypeOK
  <2> QED
    BY <1>1, <2>1, DesignSafe DEF Carries, CarriedOn
<1>2. ASSUME NEW p \in Projects, Decides(p), status' = "site_in_progress" PROVE CarriedOn'
  <2>1. DeployAsIs(p)
    <3>1. ~AnotherIteration(p)
      BY <1>0, RoundOrdered
    <3>2. ~RejectBuild(p)
      BY <1>2 DEF RejectBuild
    <3> QED
      BY <1>2, <3>1, <3>2 DEF Decides
  <2> DEFINE e == Deploy(p)
  <2>2. e \in DeployJobs /\ e \in Jobs /\ e \notin QaJobs /\ ProjectOf(e) = p
    BY JobKinds, JobNames DEF Works
  <2>3. state[p] = "needs_human_review" /\ run' = Enqueued(ReviewClosed(p), e)
    BY <2>1 DEF DeployAsIs, AwaitsDecision
  <2> HIDE DEF e
  <2>4. run[e] = "none"
    BY <2>2, <2>3 DEF RoundsInv, DeployLate, Past
  <2>5. ReviewClosed(p) \in [Jobs -> RunStatus]
    BY <1>0, Words DEF ReviewClosed, TypeOK
  <2>6. run'[e] = "queued"
    BY <2>2, <2>3, <2>4, <2>5 DEF Enqueued, IsActive, Active
  <2>7. ~Threatened(e)
    BY <1>0, <2>2, <2>3, VerdictSafe
  <2>8. Carries(e)'
    BY <2>2, <2>6 DEF Carries, Waiting
  <2> QED
    BY <1>0, <2>2, <2>7, <2>8 DEF CarriedOn
<1> QED
  BY <1>1, <1>2

\* How a business comes into the build.
LEMMA Entries ==
    ASSUME Next, status # "site_in_progress", status' = "site_in_progress"
    PROVE  \/ \E k \in DesignJobs : DesignClaims(k) /\ StillAsRead(k)
           \/ \E p \in Projects : Decides(p)
<1>1. ASSUME NEW k \in DesignJobs, Design(k) PROVE DesignClaims(k) /\ StillAsRead(k)
  BY <1>1 DEF Design, DesignReads, DesignIllegal, DesignClaims, Skips, DesignRetries, DesignRejected,
              DesignCommits
<1>2. ASSUME NEW k, Skips(k) PROVE FALSE
  BY <1>2 DEF Skips
<1>3. ASSUME NEW k \in BuildJobs, Builder(k) PROVE FALSE
  BY <1>2, <1>3 DEF Builder, BuildStarts, BuildStale, BuildRegenerates, BuildCommits
<1>4. ASSUME NEW k \in QaJobs, VisualQa(k) PROVE FALSE
  BY <1>2, <1>4 DEF VisualQa, QaStarts, QaPasses, QaParks, QaFeedsBack
<1>5. ASSUME NEW k \in DeployJobs, Deployer(k) PROVE FALSE
  BY <1>2, <1>5 DEF Deployer, DeployStarts, DeployCommits
<1>6. ASSUME NEW k \in Jobs, Throw(k) \/ Finish(k) \/ StopReads(k) \/ RetryClaims(k) \/ RetryEnqueues(k)
      PROVE  FALSE
  BY <1>6 DEF Throw, Finish, StopReads, RetryClaims, RetryEnqueues
<1>7. ASSUME NEW found \in BOOLEAN, NEW auto \in BOOLEAN, Readiness(found, auto) PROVE FALSE
  BY <1>7 DEF Readiness
<1>8. ASSUME StartBuild \/ StartFreshBuild \/ StopWrites \/ GiveUp \/ RevertStranded PROVE FALSE
  BY <1>8 DEF StartBuild, StartFreshBuild, StopWrites, GiveUp, RevertStranded
<1>9. ASSUME RestartBuilders \/ RestartCore \/ MarkStale \/ FailInterrupted PROVE FALSE
  BY <1>9 DEF RestartBuilders, RestartCore, MarkStale, FailInterrupted
<1> QED
  BY <1>1, <1>3, <1>4, <1>5, <1>6, <1>7, <1>8, <1>9 DEF Next

\* Every step keeps the business carried.
LEMMA CarriedStep ==
    ASSUME CInv, Slots = 1, Next
    PROVE  Carried'
<1>0. PInv /\ RoundsInv /\ DeskHeld /\ Carried /\ TypeOK
  BY DEF CInv, PInv, RInv
<1> SUFFICES ASSUME OneFault', status' = "site_in_progress" PROVE CarriedOn'
  BY DEF Carried
<1>1. OneFault /\ DeskHeld'
  BY <1>0, OneFaultBefore, DeskHeldStep
<1>2. CASE status # "site_in_progress"
  <2>1. \/ \E k \in DesignJobs : DesignClaims(k) /\ StillAsRead(k)
        \/ \E p \in Projects : Decides(p)
    BY <1>2, Entries
  <2>2. ~\E k \in Jobs : StopReads(k)
    BY <1>2 DEF StopReads
  <2>3. DeskTracks
    BY <1>0, <2>2, DeskStep
  <2> QED
    BY <1>0, <1>1, <2>1, <2>3, EntryCarried
<1>3. CASE status = "site_in_progress"
  <2>1. \A j : Threatened(j)' => Threatened(j)
    BY <1>0, <1>3, DeskStep, ThreatsEnd
  <2>2. Ongoing
    BY <1>0, <1>1, <1>3, <2>1 DEF Ongoing
  <2>3. PICK c \in Jobs : Carries(c) /\ ~Threatened(c)
    BY <1>0, <1>1, <1>3 DEF Carried, CarriedOn
  <2>4. ASSUME NEW k \in DesignJobs, Design(k) PROVE CarriedOn'
    BY <2>2, <2>3, <2>4, DesignCarries
  <2>5. ASSUME NEW k \in BuildJobs, Builder(k) PROVE CarriedOn'
    BY <2>2, <2>3, <2>5, BuilderCarries
  <2>6. ASSUME NEW k \in QaJobs, VisualQa(k) PROVE CarriedOn'
    BY <2>2, <2>3, <2>6, VerdictCarries
  <2>7. ASSUME NEW k \in DeployJobs, Deployer(k) PROVE CarriedOn'
    BY <2>2, <2>3, <2>7, DeployerCarries
  <2>8. ASSUME NEW k \in Jobs,
               Throw(k) \/ Finish(k) \/ StopReads(k) \/ RetryClaims(k) \/ RetryEnqueues(k)
        PROVE  CarriedOn'
    BY <2>2, <2>3, <2>8, JobCarries
  <2>9. CASE StopWrites
    BY <2>2, <2>3, <2>9, StopCarries
  <2>10. CASE RestartBuilders \/ RestartCore \/ MarkStale
    BY <2>2, <2>3, <2>10, RestartCarries
  <2>11. CASE FailInterrupted \/ RevertStranded
    BY <2>2, <2>3, <2>11, BootCarries
  <2>12. ASSUME NEW found \in BOOLEAN, NEW auto \in BOOLEAN, Readiness(found, auto) PROVE FALSE
    BY <1>3, <2>12 DEF Readiness, Gateable
  <2>13. ASSUME NEW p \in Projects, Decides(p) PROVE FALSE
    BY <1>3, <2>13 DEF Decides, DeployAsIs, AnotherIteration, RejectBuild, AwaitsDecision
  <2>14. ASSUME StartBuild \/ StartFreshBuild \/ GiveUp PROVE FALSE
    BY <2>14 DEF StartBuild, StartFreshBuild, GiveUp
  <2> QED
    BY <2>4, <2>5, <2>6, <2>7, <2>8, <2>9, <2>10, <2>11, <2>12, <2>13, <2>14 DEF Next
<1> QED
  BY <1>2, <1>3

\* It holds before the first step.
LEMMA CInvInit == Init => CInv
<1> SUFFICES ASSUME Init PROVE CInv
  OBVIOUS
<1>1. /\ \A k \in Jobs : run[k] = "none" /\ at[k] = "idle"
      /\ \A p \in Projects : state[p] = "none" /\ round[p] = 0
      /\ status = "qualified" /\ desk = NoCommand /\ boot = "up" /\ faults = 0
  BY DEF Init
<1>2. PInv
  BY PInvInit
<1>3. Unborn /\ DeployLate /\ BuildAtWork /\ RoundSteps
  BY <1>1, JobNames DEF Unborn, DeployLate, BuildAtWork, RoundSteps, Working
<1>4. ParkedReviewed /\ CalmWaits /\ InTurn /\ HeldAlone
  BY <1>1, JobNames DEF ParkedReviewed, CalmWaits, InTurn, HeldAlone, Live, Working, HeldBack, Parked
<1>5. DeskHeld /\ Carried
  BY <1>1 DEF DeskHeld, Carried
<1> QED
  BY <1>1, <1>2, <1>3, <1>4, <1>5 DEF CInv, RoundsInv

\* ... and every step keeps it.
LEMMA CInvStep ==
    ASSUME CInv, Slots = 1, [Next]_vars
    PROVE  CInv'
<1>1. CASE Next
  <2>1. PInv'
    BY <1>1, PInvStep DEF CInv
  <2>2. RoundsInv' /\ DeskHeld'
    BY <1>1, RoundsStep, DeskHeldStep DEF CInv
  <2> QED
    BY <1>1, <2>1, <2>2, CarriedStep DEF CInv
<1>2. CASE UNCHANGED vars
  <2>1. PInv'
    BY PInvStep DEF CInv
  <2>2. UNCHANGED <<status, state, round, run, at, desk, boot, faults>>
    BY <1>2 DEF vars, project, queue, bounds
  <2>3. RoundsInv'
    BY <2>2 DEF CInv, RoundsInv, Unborn, DeployLate, BuildAtWork, RoundSteps, OneFault, IterationOrdered,
                ParkedReviewed, CalmWaits, Calm, InTurn, HeldAlone, Live, Working
  <2>4. DeskHeld'
    BY <2>2 DEF CInv, DeskHeld, Shelved, OneFault, IterationOrdered
  <2>5. Carried'
    BY <2>2 DEF CInv, Carried, CarriedOn, Carries, Threatened, Working, OneFault, IterationOrdered
  <2> QED
    BY <2>1, <2>3, <2>4, <2>5 DEF CInv
<1> QED
  BY <1>1, <1>2

\* A business in the build never stands there with nothing going on and nothing on the
\* operator's desk: what BuildSettles says of it before time is counted.
NeverStranded ==
    status = "site_in_progress" => ~NothingAlive \/ OnDesk \/ IterationOrdered \/ faults > 1

\* With one consumer, and as long as there was at most one fault, a business whose status
\* says that it is being built has a job in the queue or at work, or one that the operator's Inbox shows
\* (commitWorkflow enqueues the continuation with the result, reconcile.ts and the stop
\* command give back what has neither).
THEOREM BuildIsCarried ==
    ASSUME Slots = 1
    PROVE  Spec => []NeverStranded
<1>1. CInv => NeverStranded
  <2> SUFFICES ASSUME CInv, status = "site_in_progress", ~IterationOrdered, ~(faults > 1)
               PROVE  ~NothingAlive \/ OnDesk
    BY DEF NeverStranded
  <2>1. OneFault
    BY DEF CInv, PInv, RInv, TypeOK, OneFault
  <2>2. PICK c \in Jobs : Carries(c)
    BY <2>1 DEF CInv, Carried, CarriedOn
  <2>3. run[c] \in Waiting \cup {"stale", "running"}
    BY <2>2 DEF Carries, Working
  <2> QED
    BY <2>3 DEF NothingAlive, IsActive, Active, OnDesk, Waiting, HeldBack, Parked
<1>2. CInv /\ [Next]_vars => CInv'
  BY CInvStep
<1> QED
  BY <1>1, <1>2, CInvInit, PTL DEF Spec
=============================================================================
