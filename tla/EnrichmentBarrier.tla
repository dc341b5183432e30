--------------------------- MODULE EnrichmentBarrier ---------------------------
(***************************************************************************)
(* The fan-in of enrichment for one business: the enrich handler           *)
(* (workers/enrich.ts), the durable barrier of its two branches            *)
(* (orchestrator/enrichmentBarrier.ts), the branch handlers                *)
(* (workers/assets.ts, workers/audit.ts), the failure of a branch that     *)
(* processJob joins to the barrier (orchestrator/queue.ts), and the score  *)
(* handler (workers/score.ts), with an operator and restarts around them.  *)
(*                                                                         *)
(* Businesses share no row of the barrier, so one stands for all.  A       *)
(* thrown error either leaves the job another try or was its last one:     *)
(* WorkflowQueue counts the tries, here every count is possible.           *)
(***************************************************************************)
EXTENDS Naturals

CONSTANTS
    MaxGen,         \* bound: generations
    MaxThrows,      \* bound: errors thrown by handlers
    MaxFaults,      \* bound: restarts
    MaxActs,    \* bound: jobs put back and statuses moved by hand
    LegacyJobs,     \* branches with a job from before the barrier existed
    OperatorMoves   \* bound: where an operator moves the business by hand

Gens == 1..MaxGen
Branches == {"assets", "audit"}
\* The job of a branch of a generation, or (0) one that carries no run id.
Jobs == (0..MaxGen) \X Branches
BranchOf(j) == j[2]

\* "elsewhere" stands for the statuses these stages do not act on and that have
\* no edge back to review, like rejected.
Statuses == {"prequalified", "enriching", "needs_review", "qualified", "elsewhere"}
Enrichable == {"prequalified", "enriching", "needs_review", "qualified"}
Scoreable == {"enriching", "needs_review", "qualified"}
RunStates == {"none", "running", "score_enqueued", "completed", "blocked", "superseded"}
Outcomes == {"pending", "succeeded", "failed", "blocked"}

Over == {"none", "done", "failed", "lost"}
EnrichSteps == {"begin", "wipe", "collect", "check", "start"}
BranchSteps == {"adopt", "authorize", "work", "recheck", "settle", "contradict", "finish"}
ScoreSteps == {"current", "read", "commit"}

ASSUME BarrierConstants ==
    /\ MaxGen \in Nat \ {0}
    /\ MaxThrows \in Nat
    /\ MaxFaults \in Nat
    /\ MaxActs \in Nat
    /\ LegacyJobs \subseteq Branches
    /\ OperatorMoves \subseteq Statuses

VARIABLES
    status,     \* businesses.status
    stable,     \* the last stable status in status_history
    whole,      \* are the facts those of a finished collection
    auditRow,   \* the generation that wrote the newest website_audits row
    newest,     \* the newest generation in enrichment_runs
    run,        \* enrichment_runs by generation
    enrich,     \* where the enrich job is
    enrichSaw,  \* the status its handler read first
    job,        \* where each branch job is
    target,     \* the generation a branch job works for
    expected,   \* the status an audit handler read first, by job
    score,      \* where the score job of each generation is
    scoreSaw,   \* what the score handler read: the status and the facts
    scored,     \* generations with a qualification of stage full
    throws,
    faults,
    acts

business == <<status, stable>>
facts == <<whole, auditRow>>
barrier == <<newest, run>>
branchJobs == <<job, target, expected>>
scoring == <<score, scoreSaw, scored>>
bounds == <<throws, faults, acts>>
enriching == <<enrich, enrichSaw>>
vars == <<business, facts, barrier, enriching, branchJobs, scoring, bounds>>

NoRun == [source |-> "native", state |-> "none", branch |-> [br \in Branches |-> "pending"]]

TypeOK ==
    /\ status \in Statuses
    /\ stable \in Statuses \ {"enriching"}
    /\ whole \in BOOLEAN
    /\ auditRow \in 0..MaxGen
    /\ newest \in 0..MaxGen
    /\ run \in [Gens -> [source : {"native", "legacy"}, state : RunStates,
                         branch : [Branches -> Outcomes]]]
    /\ enrich \in Over \cup {"queued"} \cup EnrichSteps
    /\ enrichSaw \in Statuses
    /\ job \in [Jobs -> Over \cup {"queued"} \cup BranchSteps]
    /\ target \in [Jobs -> 0..MaxGen]
    /\ expected \in [Jobs -> Statuses]
    /\ score \in [Gens -> Over \cup {"queued"} \cup ScoreSteps]
    /\ scoreSaw \in [Gens -> [status : Statuses, whole : BOOLEAN]]
    /\ scored \in SUBSET Gens
    /\ throws \in Nat
    /\ faults \in Nat
    /\ acts \in Nat

Init ==
    /\ status = "prequalified"
    /\ stable = "prequalified"
    /\ whole = FALSE
    /\ auditRow = 0
    /\ newest = 0
    /\ run = [g \in Gens |-> NoRun]
    /\ enrich = "queued"
    /\ enrichSaw = "prequalified"
    /\ job = [j \in Jobs |-> IF j[1] = 0 /\ BranchOf(j) \in LegacyJobs THEN "queued" ELSE "none"]
    /\ target = [j \in Jobs |-> j[1]]
    /\ expected = [j \in Jobs |-> "prequalified"]
    /\ score = [g \in Gens |-> "none"]
    /\ scoreSaw = [g \in Gens |-> [status |-> "prequalified", whole |-> FALSE]]
    /\ scored = {}
    /\ throws = 0
    /\ faults = 0
    /\ acts = 0

SetStatus(s) ==
    /\ status' = s
    /\ stable' = IF s = "enriching" THEN stable ELSE s

\* moveInTransaction: the caller moves on the status it observed, or finds the
\* business already there; otherwise it lost the compare-and-set.
Wins(from, to) == status \in {from, to}
MoveStatus(from, to) == SetStatus(IF Wins(from, to) THEN to ELSE status)

Current(g) == run[g].state \in {"running", "score_enqueued"}

-----------------------------------------------------------------------------
(***************************************************************************)
(* The enrich handler.                                                     *)
(***************************************************************************)

StartEnrich ==
    /\ enrich = "queued"
    /\ enrich' = IF status \in Enrichable THEN "begin" ELSE "done"
    /\ enrichSaw' = status
    /\ UNCHANGED <<business, facts, barrier, branchJobs, scoring, bounds>>

BeginEnrich ==
    /\ enrich = "begin"
    /\ MoveStatus(enrichSaw, "enriching")
    /\ enrich' = IF Wins(enrichSaw, "enriching") THEN "wipe" ELSE "done"
    /\ UNCHANGED <<enrichSaw, facts, barrier, branchJobs, scoring, bounds>>

\* Facts of an earlier collection are deleted before the new ones are mined.
WipeFacts ==
    /\ enrich = "wipe"
    /\ enrich' = "collect"
    /\ whole' = FALSE
    /\ UNCHANGED <<enrichSaw, business, auditRow, barrier, branchJobs, scoring, bounds>>

NoEvidence ==
    /\ enrich = "collect"
    /\ enrich' = "done"
    /\ MoveStatus("enriching", "needs_review")
    /\ UNCHANGED <<enrichSaw, facts, barrier, branchJobs, scoring, bounds>>

CollectFacts ==
    /\ enrich = "collect"
    /\ enrich' = "check"
    /\ whole' = TRUE
    /\ UNCHANGED <<enrichSaw, business, auditRow, barrier, branchJobs, scoring, bounds>>

\* A stale enrichment stops before it begins a generation.
CheckCurrent ==
    /\ enrich = "check"
    /\ enrich' = IF Wins("enriching", "enriching") THEN "start" ELSE "done"
    /\ UNCHANGED <<enrichSaw, business, facts, barrier, branchJobs, scoring, bounds>>

\* The new generation replaces the one in progress; a blocked one keeps its row.
Supersede(g) ==
    [h \in Gens |->
        IF h = g THEN [NoRun EXCEPT !.state = "running"]
        ELSE IF Current(h) THEN [run[h] EXCEPT !.state = "superseded"]
        ELSE run[h]]

\* barrier.start: the generation and both branch jobs commit together.
StartGeneration ==
    LET g == newest + 1 IN
    /\ enrich = "start"
    /\ newest < MaxGen
    /\ newest' = g
    /\ run' = Supersede(g)
    /\ job' = [j \in Jobs |-> IF j[1] = g THEN "queued" ELSE job[j]]
    /\ enrich' = "done"
    /\ UNCHANGED <<enrichSaw, business, facts, target, expected, scoring, bounds>>

-----------------------------------------------------------------------------
(***************************************************************************)
(* The branch handlers.                                                    *)
(***************************************************************************)

GotoStep(j, place) == job' = [job EXCEPT ![j] = place]

StartBranch(j) ==
    /\ job[j] = "queued"
    /\ GotoStep(j, IF j[1] = 0 THEN "adopt" ELSE "authorize")
    /\ expected' = IF BranchOf(j) = "audit" THEN [expected EXCEPT ![j] = status] ELSE expected
    /\ UNCHANGED <<business, facts, barrier, enriching, target, scoring, bounds>>

\* adoptLegacyBranch: a legacy run in progress is shared, a native one is a
\* conflict that needs a human, otherwise a legacy generation begins.
AdoptConflict(j) ==
    /\ job[j] = "adopt"
    /\ \E g \in Gens : Current(g) /\ run[g].source = "native"
    /\ GotoStep(j, "failed")
    /\ UNCHANGED <<business, facts, barrier, enriching, target, expected, scoring, bounds>>

AdoptShared(j) ==
    /\ job[j] = "adopt"
    /\ \E g \in Gens :
          /\ Current(g)
          /\ run[g].source = "legacy"
          /\ target' = [target EXCEPT ![j] = g]
    /\ GotoStep(j, "authorize")
    /\ UNCHANGED <<business, facts, barrier, enriching, expected, scoring, bounds>>

MutAdoptNew(j) ==
    LET g == newest + 1 IN
    /\ job[j] = "adopt"
    /\ newest < MaxGen
    /\ newest' = g
    /\ run' = [run EXCEPT ![g] = [NoRun EXCEPT !.source = "legacy", !.state = "running"]]
    /\ target' = [target EXCEPT ![j] = g]
    /\ GotoStep(j, "authorize")
    /\ UNCHANGED <<business, facts, enriching, expected, scoring, bounds>>

AdoptNew(j) ==
    LET g == newest + 1 IN
    /\ job[j] = "adopt"
    /\ \A h \in Gens : ~Current(h)
    /\ newest < MaxGen
    /\ newest' = g
    /\ run' = [run EXCEPT ![g] = [NoRun EXCEPT !.source = "legacy", !.state = "running"]]
    /\ target' = [target EXCEPT ![j] = g]
    /\ GotoStep(j, "authorize")
    /\ UNCHANGED <<business, facts, enriching, expected, scoring, bounds>>

\* Anything but a pending branch of a running generation is skipped.
Authorize(j) ==
    LET r == run[target[j]] IN
    /\ job[j] = "authorize"
    /\ GotoStep(j, IF r.state = "running" /\ r.branch[BranchOf(j)] = "pending"
                   THEN "work" ELSE "finish")
    /\ UNCHANGED <<business, facts, barrier, enriching, target, expected, scoring, bounds>>

\* The audit may contradict the collected facts; otherwise it checks the status.
Work(j) ==
    /\ job[j] = "work"
    /\ \/ BranchOf(j) = "assets" /\ GotoStep(j, "settle")
       \/ BranchOf(j) = "audit" /\ GotoStep(j, "recheck")
       \/ BranchOf(j) = "audit" /\ GotoStep(j, "contradict")
    /\ UNCHANGED <<business, facts, barrier, enriching, target, expected, scoring, bounds>>

Recheck(j) ==
    /\ job[j] = "recheck"
    /\ GotoStep(j, IF status = expected[j] THEN "settle" ELSE "finish")
    /\ UNCHANGED <<business, facts, barrier, enriching, target, expected, scoring, bounds>>

MutSettle(r, br, outcome) ==
    IF r.state \in {"superseded", "completed"} THEN r
    ELSE [r EXCEPT !.branch[br] = outcome,
                   !.state = IF @ = "blocked" THEN @
                             ELSE IF outcome # "succeeded" THEN "blocked"
                             ELSE IF \A o \in Branches \ {br} : r.branch[o] = "succeeded"
                                  THEN "score_enqueued" ELSE @]

\* settleEnrichmentBranchInTransaction on the row it holds: the first outcome of
\* a branch counts, a bad one blocks the generation, the last good one joins it.
Settle(r, br, outcome) ==
    IF r.state \in {"superseded", "completed"} \/ r.branch[br] # "pending" THEN r
    ELSE [r EXCEPT !.branch[br] = outcome,
                   !.state = IF @ = "blocked" THEN @
                             ELSE IF outcome # "succeeded" THEN "blocked"
                             ELSE IF \A o \in Branches \ {br} : r.branch[o] = "succeeded"
                                  THEN "score_enqueued" ELSE @]

\* settleBranch: the outcome, the audit row of a recorded success and the score
\* job of a join commit together.
CompleteBranch(j) ==
    LET g == target[j]
        r == Settle(run[g], BranchOf(j), "succeeded")
    IN
    /\ job[j] = "settle"
    /\ GotoStep(j, "finish")
    /\ run' = [run EXCEPT ![g] = r]
    /\ auditRow' = IF r # run[g] /\ BranchOf(j) = "audit" THEN g ELSE auditRow
    /\ score' = [score EXCEPT ![g] =
           IF r # run[g] /\ r.state = "score_enqueued" THEN "queued" ELSE @]
    /\ UNCHANGED <<business, whole, newest, enriching, target, expected, scoreSaw, scored, bounds>>

\* A contradiction blocks the branch and sends the business to review.
Contradict(j) ==
    LET g == target[j]
        r == Settle(run[g], "audit", "blocked")
    IN
    /\ job[j] = "contradict"
    /\ expected[j] # "elsewhere"
    /\ GotoStep(j, "finish")
    /\ run' = [run EXCEPT ![g] = r]
    /\ IF r # run[g]
       THEN auditRow' = g /\ MoveStatus(expected[j], "needs_review")
       ELSE UNCHANGED <<auditRow, business>>
    /\ UNCHANGED <<whole, newest, enriching, target, expected, scoring, bounds>>

FinishBranch(j) ==
    /\ job[j] = "finish"
    /\ GotoStep(j, "done")
    /\ UNCHANGED <<business, facts, barrier, enriching, target, expected, scoring, bounds>>

-----------------------------------------------------------------------------
(***************************************************************************)
(* The score handler.                                                      *)
(***************************************************************************)

GotoScore(g, place) == score' = [score EXCEPT ![g] = place]

StartScore(g) ==
    /\ score[g] = "queued"
    /\ GotoScore(g, IF status \in Scoreable THEN "current" ELSE "done")
    /\ scoreSaw' = [scoreSaw EXCEPT ![g].status = status]
    /\ UNCHANGED <<business, facts, barrier, enriching, branchJobs, scored, bounds>>

CheckScore(g) ==
    /\ score[g] = "current"
    /\ GotoScore(g, IF run[g].state = "score_enqueued" THEN "read" ELSE "done")
    /\ UNCHANGED <<business, facts, barrier, enriching, branchJobs, scoreSaw, scored, bounds>>

ReadEvidence(g) ==
    /\ score[g] = "read"
    /\ GotoScore(g, "commit")
    /\ scoreSaw' = [scoreSaw EXCEPT ![g].whole = whole]
    /\ UNCHANGED <<business, facts, barrier, enriching, branchJobs, scored, bounds>>

MutMayCommit(g) == run[g].state \in {"score_enqueued", "superseded"}
MayCommit(g) == run[g].state = "score_enqueued"

\* commitScore: the score and the move, unless the status was lost, and in
\* either case the end of the generation, under the locks of start.
CommitScore(g, to) ==
    /\ score[g] = "commit"
    /\ GotoScore(g, "done")
    /\ IF MayCommit(g)
       THEN /\ run' = [run EXCEPT ![g].state = "completed"]
            /\ MoveStatus(scoreSaw[g].status, to)
            /\ scored' = IF Wins(scoreSaw[g].status, to) THEN scored \cup {g} ELSE scored
       ELSE UNCHANGED <<run, business, scored>>
    /\ UNCHANGED <<facts, newest, enriching, branchJobs, scoreSaw, bounds>>

-----------------------------------------------------------------------------
(***************************************************************************)
(* Errors, restarts and the operator.                                      *)
(***************************************************************************)

MayThrow ==
    /\ throws < MaxThrows
    /\ throws' = throws + 1
    /\ UNCHANGED <<faults, acts>>

EnrichThrows ==
    /\ MayThrow
    /\ enrich \in EnrichSteps
    /\ enrich' \in {"queued", "failed"}
    /\ UNCHANGED <<enrichSaw, business, facts, barrier, branchJobs, scoring>>

ScoreThrows(g) ==
    /\ MayThrow
    /\ score[g] \in ScoreSteps
    /\ \E place \in {"queued", "failed"} : GotoScore(g, place)
    /\ UNCHANGED <<business, facts, barrier, enriching, branchJobs, scoreSaw, scored>>

BranchRetries(j) ==
    /\ MayThrow
    /\ job[j] \in BranchSteps
    /\ GotoStep(j, "queued")
    /\ UNCHANGED <<business, facts, barrier, enriching, target, expected, scoring>>

MutBranchFails(j) ==
    /\ MayThrow
    /\ job[j] \in BranchSteps
    /\ GotoStep(j, "failed")
    /\ UNCHANGED <<business, facts, barrier, enriching, target, expected, scoring>>

\* The last try: processJob records the failure of the job and of its branch,
\* and the review of the business, in one transaction.  A legacy job that threw
\* before it adopted a run has no branch to fail.
BranchFails(j) ==
    LET g == target[j]
        r == Settle(run[g], BranchOf(j), "failed")
    IN
    /\ MayThrow
    /\ job[j] \in BranchSteps
    /\ GotoStep(j, "failed")
    /\ IF job[j] # "adopt" /\ r # run[g]
       THEN /\ run' = [run EXCEPT ![g] = r]
            /\ IF status = "enriching" THEN SetStatus("needs_review") ELSE UNCHANGED business
       ELSE UNCHANGED <<run, business>>
    /\ UNCHANGED <<facts, newest, enriching, target, expected, scoring>>

Queued == enrich = "queued" \/ (\E j \in Jobs : job[j] = "queued") \/ (\E g \in Gens : score[g] = "queued")

\* The container dies and a boot finds its attempts dead: their runs fail, the
\* barrier is not told, and an enriching business nothing works on goes back.
Restart ==
    /\ faults < MaxFaults
    /\ faults' = faults + 1
    /\ enrich' = IF enrich \in EnrichSteps THEN "lost" ELSE enrich
    /\ job' = [j \in Jobs |-> IF job[j] \in BranchSteps THEN "lost" ELSE job[j]]
    /\ score' = [g \in Gens |-> IF score[g] \in ScoreSteps THEN "lost" ELSE score[g]]
    /\ IF status = "enriching" /\ ~Queued THEN SetStatus(stable) ELSE UNCHANGED business
    /\ UNCHANGED <<enrichSaw, facts, barrier, target, expected, scoreSaw, scored, throws, acts>>

\* recollectFacts: the business is enriched again, by the active run if any.
RecollectFacts ==
    /\ status = "needs_review"
    /\ SetStatus("enriching")
    /\ enrich' = IF enrich \in Over THEN "queued" ELSE enrich
    /\ UNCHANGED <<enrichSaw, facts, barrier, branchJobs, scoring, bounds>>

\* /internal/jobs puts an ended job back with its payload.
Requeue ==
    /\ acts < MaxActs
    /\ acts' = acts + 1
    /\ \/ /\ enrich \in Over
          /\ enrich' = "queued"
          /\ UNCHANGED <<job, score>>
       \/ /\ \E j \in Jobs : job[j] \in Over \ {"none"} /\ GotoStep(j, "queued")
          /\ UNCHANGED <<enrich, score>>
       \/ /\ \E g \in Gens : score[g] \in Over \ {"none"} /\ GotoScore(g, "queued")
          /\ UNCHANGED <<enrich, job>>
    /\ UNCHANGED <<enrichSaw, business, facts, barrier, target, expected, scoreSaw, scored, throws, faults>>

OverrideStatus(s) ==
    /\ acts < MaxActs
    /\ acts' = acts + 1
    /\ SetStatus(s)
    /\ UNCHANGED <<facts, barrier, enriching, branchJobs, scoring, throws, faults>>

EnrichStep ==
    StartEnrich \/ BeginEnrich \/ WipeFacts \/ NoEvidence \/ CollectFacts \/ CheckCurrent \/ StartGeneration

BranchStep(j) ==
    \/ StartBranch(j)
    \/ AdoptConflict(j) \/ AdoptShared(j) \/ AdoptNew(j)
    \/ Authorize(j) \/ Work(j) \/ Recheck(j)
    \/ CompleteBranch(j) \/ Contradict(j) \/ FinishBranch(j)

ScoreStep(g) ==
    \/ StartScore(g) \/ CheckScore(g) \/ ReadEvidence(g)
    \/ \E to \in {"needs_review", "qualified"} : CommitScore(g, to)

Next ==
    \/ EnrichStep
    \/ \E j \in Jobs : BranchStep(j) \/ BranchRetries(j) \/ BranchFails(j)
    \/ \E g \in Gens : ScoreStep(g) \/ ScoreThrows(g)
    \/ EnrichThrows \/ Restart \/ RecollectFacts \/ Requeue
    \/ \E s \in OperatorMoves : OverrideStatus(s)

Spec == Init /\ [][Next]_vars

\* Queued jobs are fetched and their handlers run on.
Fairness ==
    /\ WF_vars(EnrichStep)
    /\ \A j \in Jobs : WF_vars(BranchStep(j))
    /\ \A g \in Gens : WF_vars(ScoreStep(g))

FairSpec == Spec /\ Fairness

-----------------------------------------------------------------------------
(***************************************************************************)
(* Properties.                                                             *)
(***************************************************************************)

\* At most one generation is in progress, and only the newest: the partial
\* unique index enrichment_runs_current_business_idx never has to refuse a row.
OneCurrent == \A g \in Gens : Current(g) => g = newest

\* A branch is decided once: retries, acts and the failure of a job whose
\* branch already succeeded never revise an outcome the join was built on.
DecidedOnce ==
    [][\A g \in Gens, br \in Branches :
          run[g].branch[br] # "pending" => run'[g].branch[br] = run[g].branch[br]]_vars

\* Only the newest generation is scored, and once: a score handler that was
\* overtaken by a new generation while it worked commits nothing.
NewestScores ==
    [][\A g \in Gens : g \in scored' /\ g \notin scored =>
          g = newest /\ run[g].state = "score_enqueued"]_vars

\* A row of enrichment_runs, as FanIn describes it.
PhaseOf(r) ==
    CASE r.state = "running" -> "open"
      [] r.state = "score_enqueued" -> "joined"
      [] r.state = "completed" -> "closed"
      [] OTHER -> r.state

EvidenceOf(r) == {br \in Branches : r.branch[br] = "succeeded"}

Fan == INSTANCE FanIn WITH
    phase <- [g \in Gens |-> PhaseOf(run[g])],
    evidence <- [g \in Gens |-> EvidenceOf(run[g])]

\* The rows of enrichment_runs behave as a fan-in: a generation is joined, and
\* its score enqueued, once and only with both branches delivered.
FanInSpec == Fan!FanSpec

\* A score job exists exactly for the generations that were joined.
ScoredByJoin ==
    \A g \in Gens : score[g] # "none" <=>
        \A br \in Branches : run[g].branch[br] = "succeeded" /\ run[g].state # "blocked"

\* No open generation that enrichment began is waited for in silence: without
\* restarts and moves by hand it closes, the business is put before the operator,
\* or a new enrichment is on its way to replace it or failed, as its run then says.
NoSilentStall ==
    \A g \in Gens :
        run[g].state = "running" /\ run[g].source = "native" ~>
            \/ run[g].state # "running" \/ status # "enriching"
            \/ enrich \in {"queued", "failed"} \cup EnrichSteps
            \/ faults > 0 \/ acts > 0

\* Until a restart or an act of the operator, a branch an open generation waits for
\* has its job, unless the business left enriching, or a new enrichment is on its way
\* or failed before the operator: a job that finds its status gone leaves no other
\* trace (audit.ts).
PendingIsAwaited ==
    faults = 0 /\ acts = 0 =>
        \A g \in Gens, br \in Branches :
            /\ run[g].state = "running" /\ run[g].source = "native"
            /\ run[g].branch[br] = "pending"
            /\ status = "enriching" /\ enrich \notin {"queued", "failed"} \cup EnrichSteps
            => job[<<g, br>>] \in {"queued", "authorize", "work", "recheck", "settle", "contradict"}

-----------------------------------------------------------------------------
(***************************************************************************)
(* What the documents say and the code does not do.                        *)
(***************************************************************************)

\* docs/FACTORYFLOW.md:97-98: re-enrichment supersedes the older generation
\* instead of racing it.  A blocked generation is not superseded.
OldGenerationIsSilent == [][auditRow' # auditRow => auditRow' = newest]_vars

\* docs/FACTORYFLOW.md:96-97: a failed or stale branch blocks the run.  A branch
\* whose job was lost, or stopped at a moved status, stays pending.
PendingIsCarried ==
    \A g \in Gens, br \in Branches :
        run[g].state = "running" /\ run[g].source = "native" /\ run[g].branch[br] = "pending" =>
            job[<<g, br>>] \notin Over

\* docs/FACTORYFLOW.md:97: partial evidence cannot be scored.  An enrichment that
\* runs again deletes the facts while the joined generation is scored.
ScoreSeesWholeEvidence ==
    [][\A g \in Gens : g \in scored' /\ g \notin scored => scoreSaw[g].whole]_vars
=============================================================================
