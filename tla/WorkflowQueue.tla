---------------------------- MODULE WorkflowQueue ----------------------------
(***************************************************************************)
(* The job ledger and its workers: orchestrator/queue.ts (processJob),     *)
(* orchestrator/workflowRunStore.ts (enqueue and continuation), the two    *)
(* boot passes of orchestrator/reconcile.ts, and the transactions of other *)
(* services that cancel work under a running worker (archive, inbound,     *)
(* operator).  pg-boss is external: its job table is the part of the state *)
(* the ledger mirrors.                                                     *)
(*                                                                         *)
(* A logical run (workflow_job_runs) has physical attempts                 *)
(* (workflow_jobs), numbered from 1; an attempt and its pg-boss job are    *)
(* named by the pair <<run, sequence>>.  One action is one committed       *)
(* transaction or one call to pg-boss, so every interleaving the database  *)
(* allows between two transactions is a behaviour of this module.          *)
(***************************************************************************)
EXTENDS Naturals

CONSTANTS
    Keys,          \* (job type, idempotency key) pairs
    Runs,          \* the run ids that may be drawn (bounds the enqueues)
    Businesses,    \* campaign-level jobs stand under a business of their own
    Archivable,    \* the businesses an operator may archive
    Workers,       \* concurrent invocations of processJob
    KeyOf,         \* Runs -> Keys: the key a run id would be drawn for
    BizOf,         \* Keys -> Businesses
    GroupOf,       \* Keys -> Groups: the container that consumes the queue
    HomeOf,        \* Workers -> Groups
    RetryLimit,    \* Keys -> Nat: JOB_DEFINITIONS[..].retry.limit
    AgentKeys,     \* jobs whose handler calls an agent and may be paused
    FollowupKeys,  \* send-followup jobs
    MaxSeq,        \* bound: attempts of a run
    NoJob,         \* what an idle worker holds
    MaxFaults      \* bound: crashes, failed transactions, handlers that outlive
                   \* the expiry of their job

\* `factory` runs the groups core and enrich, `factory-build` the group build.
Groups == {"core", "build"}

Seqs == 1..MaxSeq
Attempts == Runs \X Seqs

Active == {"queued", "running", "retry_wait"}
Parked == {"failed", "needs_human"}
RunStatus == {"none", "succeeded", "skipped", "cancelled"} \cup Active \cup Parked
AttemptStatus == RunStatus \cup {"stale"}
Cancellable == Active \cup Parked
LiveBoss == {"created", "retry", "active"}
BossState == {"none", "completed", "failed", "cancelled"} \cup LiveBoss
Phases == {"idle", "gate", "drop", "claim", "handler", "complete", "fail"}

ASSUME QueueConstants ==
    /\ MaxSeq \in Nat \ {0}
    /\ NoJob \notin Attempts
    /\ MaxFaults \in Nat
    /\ KeyOf \in [Runs -> Keys]
    /\ BizOf \in [Keys -> Businesses]
    /\ GroupOf \in [Keys -> Groups]
    /\ HomeOf \in [Workers -> Groups]
    /\ RetryLimit \in [Keys -> Nat]
    /\ Archivable \subseteq Businesses
    /\ AgentKeys \subseteq Keys
    /\ FollowupKeys \subseteq Keys \ AgentKeys

VARIABLES
    runStatus,   \* workflow_job_runs.status, "none" for an id not yet drawn
    runSeq,      \* workflow_job_runs.current_attempt_sequence
    attStatus,   \* workflow_jobs.status
    tries,       \* workflow_jobs.attempts
    thrown,      \* history: handler executions of the attempt that threw
    boss,        \* pgboss.job.state
    refetched,   \* pgboss.job.retry_count
    pc,          \* where each worker is in processJob
    job,         \* the attempt it was handed
    up,          \* the groups whose container is running
    shelf,       \* businesses.archived_at, and where an archive stands
    seen,        \* attempts in the snapshot of an archive's UPDATE
    held,        \* keys whose run an archive has closed and not committed
    faults       \* how many of them so far

ledger  == <<runStatus, runSeq, attStatus, tries, thrown>>
physical == <<boss, refetched>>
worker  == <<pc, job>>
archive == <<shelf, seen, held>>
vars == <<ledger, physical, worker, archive, up, faults>>

TypeOK ==
    /\ runStatus \in [Runs -> RunStatus]
    /\ runSeq \in [Runs -> Nat]
    /\ attStatus \in [Attempts -> AttemptStatus]
    /\ tries \in [Attempts -> Nat]
    /\ thrown \in [Attempts -> Nat]
    /\ boss \in [Attempts -> BossState]
    /\ refetched \in [Attempts -> Nat]
    /\ pc \in [Workers -> Phases]
    /\ job \in [Workers -> Attempts \cup {NoJob}]
    /\ \A w \in Workers : pc[w] # "idle" => job[w] \in Attempts
    /\ up \in [Groups -> BOOLEAN]
    /\ shelf \in [Businesses -> {"open", "attempts", "runs", "archived"}]
    /\ seen \in [Businesses -> SUBSET Attempts]
    /\ held \in [Businesses -> SUBSET Keys]
    /\ faults \in Nat

Init ==
    /\ runStatus = [r \in Runs |-> "none"]
    /\ runSeq = [r \in Runs |-> 0]
    /\ attStatus = [a \in Attempts |-> "none"]
    /\ tries = [a \in Attempts |-> 0]
    /\ thrown = [a \in Attempts |-> 0]
    /\ boss = [a \in Attempts |-> "none"]
    /\ refetched = [a \in Attempts |-> 0]
    /\ pc = [w \in Workers |-> "idle"]
    /\ job = [w \in Workers |-> NoJob]
    /\ up = [g \in Groups |-> TRUE]
    /\ shelf = [b \in Businesses |-> "open"]
    /\ seen = [b \in Businesses |-> {}]
    /\ held = [b \in Businesses |-> {}]
    /\ faults = 0

-----------------------------------------------------------------------------
(***************************************************************************)
(* Enqueue and continuation.                                               *)
(***************************************************************************)
IsActive(r) == runStatus[r] \in Active

\* Mutant of KeyIsFree: the unique index covers queued runs only.
KeyHasNoneQueued(k) == \A s \in Runs : KeyOf[s] = k => runStatus[s] # "queued"

KeyIsFree(k) == \A s \in Runs : KeyOf[s] = k => ~IsActive(s)

\* A committed enqueue of KeyOf[r] that drew the fresh run id r.  The partial
\* unique index on active runs refuses it while the key has an active run: that
\* command ends as `duplicate` and changes nothing but a counter.  An index
\* entry an uncommitted archive is closing makes the insert wait for it.
Enqueue(r) ==
    /\ runStatus[r] = "none"
    /\ KeyIsFree(KeyOf[r])
    /\ KeyOf[r] \notin held[BizOf[KeyOf[r]]]
    /\ runStatus' = [runStatus EXCEPT ![r] = "queued"]
    /\ runSeq' = [runSeq EXCEPT ![r] = 1]
    /\ attStatus' = [attStatus EXCEPT ![<<r, 1>>] = "queued"]
    /\ boss' = [boss EXCEPT ![<<r, 1>>] = "created"]
    /\ UNCHANGED <<tries, thrown, refetched, worker, archive, up, faults>>

\* The fence every result passes before it is written: the attempt and its run
\* are still running and the attempt is still the current one.
Fenced(a) ==
    /\ attStatus[a] = "running"
    /\ runStatus[a[1]] = "running"
    /\ runSeq[a[1]] = a[2]

\* Mutant of Successor: the paused attempt is put back itself.
SuccessorSame(a) == a

Successor(a) == <<a[1], a[2] + 1>>

\* The paused attempt gives its own try back; the successor starts at 0.
TriesAfterPause(a) == [tries EXCEPT ![a] = IF @ = 0 THEN 0 ELSE @ - 1]

\* WorkflowRunStore.continueAfterRateLimit, result `scheduled`: the run
\* goes on with a successor attempt, started after the pause.
ContinueAfterRateLimit(w) ==
    LET a == job[w] IN
    /\ pc[w] = "handler"
    /\ KeyOf[a[1]] \in AgentKeys
    /\ Fenced(a)
    /\ a[2] < MaxSeq
    /\ attStatus' = [attStatus EXCEPT ![a] = "retry_wait", ![Successor(a)] = "queued"]
    /\ tries' = TriesAfterPause(a)
    /\ runStatus' = [runStatus EXCEPT ![a[1]] = "retry_wait"]
    /\ runSeq' = [runSeq EXCEPT ![a[1]] = a[2] + 1]
    /\ boss' = [boss EXCEPT ![Successor(a)] = "created"]
    /\ pc' = [pc EXCEPT ![w] = "complete"]
    /\ UNCHANGED <<thrown, refetched, job, archive, up, faults>>

-----------------------------------------------------------------------------
(***************************************************************************)
(* processJob, from delivery to the answer given to pg-boss.               *)
(***************************************************************************)

\* pg-boss hands a waiting job to a free consumer of its group; a job that
\* was started before is counted as a retry.
FetchJob(w, a) ==
    /\ up[HomeOf[w]]
    /\ pc[w] = "idle"
    /\ GroupOf[KeyOf[a[1]]] = HomeOf[w]
    /\ boss[a] \in {"created", "retry"}
    /\ boss' = [boss EXCEPT ![a] = "active"]
    /\ refetched' = [refetched EXCEPT ![a] = IF boss[a] = "retry" THEN @ + 1 ELSE @]
    /\ pc' = [pc EXCEPT ![w] = "gate"]
    /\ job' = [job EXCEPT ![w] = a]
    /\ UNCHANGED <<ledger, archive, up, faults>>

\* The archive gate reads archived_at outside the claim transaction.
ReadArchived(w) ==
    /\ pc[w] = "gate"
    /\ pc' = [pc EXCEPT ![w] =
         IF shelf[BizOf[KeyOf[job[w][1]]]] = "archived" THEN "drop" ELSE "claim"]
    /\ UNCHANGED <<ledger, physical, job, archive, up, faults>>

\* Archived: the attempt, and its run whatever the run's current attempt, are
\* cancelled if they are still live; the delivery is completed.
DropArchived(w) ==
    LET a == job[w] IN
    /\ pc[w] = "drop"
    /\ attStatus' = [attStatus EXCEPT ![a] = IF @ \in Active THEN "cancelled" ELSE @]
    /\ runStatus' = [runStatus EXCEPT ![a[1]] =
         IF attStatus[a] \in Active /\ @ \in Active THEN "cancelled" ELSE @]
    /\ pc' = [pc EXCEPT ![w] = "complete"]
    /\ UNCHANGED <<runSeq, tries, thrown, physical, job, archive, up, faults>>

\* Mutants of Claimable: a running attempt is taken over; only the sequence is
\* looked at; a run that was paused is not taken up.
ClaimableRunning(a) ==
    /\ attStatus[a] \in {"queued", "running"}
    /\ runSeq[a[1]] = a[2]
    /\ runStatus[a[1]] \in Active

ClaimableCurrent(a) == runSeq[a[1]] = a[2]

ClaimableQueued(a) ==
    /\ attStatus[a] = "queued"
    /\ runSeq[a[1]] = a[2]
    /\ runStatus[a[1]] = "queued"

Claimable(a) ==
    /\ attStatus[a] = "queued"
    /\ runSeq[a[1]] = a[2]
    /\ runStatus[a[1]] \in {"queued", "retry_wait"}

Claim(w) ==
    LET a == job[w] IN
    /\ pc[w] = "claim"
    /\ Claimable(a)
    /\ attStatus' = [attStatus EXCEPT ![a] = "running"]
    /\ tries' = [tries EXCEPT ![a] = @ + 1]
    /\ runStatus' = [runStatus EXCEPT ![a[1]] = "running"]
    /\ pc' = [pc EXCEPT ![w] = "handler"]
    /\ UNCHANGED <<runSeq, thrown, physical, job, archive, up, faults>>

\* "stale job delivery ignored": processJob returns, so pg-boss completes it.
IgnoreDelivery(w) ==
    /\ pc[w] = "claim"
    /\ ~Claimable(job[w])
    /\ pc' = [pc EXCEPT ![w] = "complete"]
    /\ UNCHANGED <<ledger, physical, job, archive, up, faults>>

CommitSuccess(w) ==
    LET a == job[w] IN
    /\ pc[w] = "handler"
    /\ Fenced(a)
    /\ attStatus' = [attStatus EXCEPT ![a] = "succeeded"]
    /\ runStatus' = [runStatus EXCEPT ![a[1]] = "succeeded"]
    /\ pc' = [pc EXCEPT ![w] = "complete"]
    /\ UNCHANGED <<runSeq, tries, thrown, physical, job, archive, up, faults>>

\* JobSkippedError: only the attempt's status is checked; the run is written
\* if this attempt is its current one, whatever the run's status is.
CommitSkip(w) ==
    LET a == job[w] IN
    /\ pc[w] = "handler"
    /\ attStatus[a] = "running"
    /\ attStatus' = [attStatus EXCEPT ![a] = "skipped"]
    /\ runStatus' = [runStatus EXCEPT ![a[1]] =
         IF runSeq[a[1]] = a[2] THEN "skipped" ELSE @]
    /\ pc' = [pc EXCEPT ![w] = "complete"]
    /\ UNCHANGED <<runSeq, tries, thrown, physical, job, archive, up, faults>>

\* Mutant of FailureStatus: the retry limit is read as inclusive.
FailureStatusLate(a) ==
    IF tries[a] > RetryLimit[KeyOf[a[1]]] + 1 THEN "failed" ELSE "queued"

FailureStatus(a) ==
    IF tries[a] > RetryLimit[KeyOf[a[1]]] THEN "failed" ELSE "queued"

\* The handler threw: final on the attempt after the last retry.  processJob
\* rethrows, so pg-boss decides on its own counter whether to retry.
CommitFailure(w) ==
    LET a == job[w] IN
    /\ pc[w] = "handler"
    /\ Fenced(a)
    /\ attStatus' = [attStatus EXCEPT ![a] = FailureStatus(a)]
    /\ runStatus' = [runStatus EXCEPT ![a[1]] = FailureStatus(a)]
    /\ thrown' = [thrown EXCEPT ![a] = @ + 1]
    /\ pc' = [pc EXCEPT ![w] = "fail"]
    /\ UNCHANGED <<runSeq, tries, physical, job, archive, up, faults>>

\* NeedsHumanError parks the run at once and is not rethrown.
CommitNeedsHuman(w) ==
    LET a == job[w] IN
    /\ pc[w] = "handler"
    /\ Fenced(a)
    /\ attStatus' = [attStatus EXCEPT ![a] = "needs_human"]
    /\ runStatus' = [runStatus EXCEPT ![a[1]] = "needs_human"]
    /\ pc' = [pc EXCEPT ![w] = "complete"]
    /\ UNCHANGED <<runSeq, tries, thrown, physical, job, archive, up, faults>>

\* A success, pause or failure whose fence no longer holds, and a skip whose
\* attempt is no longer running, is dropped with a warning.
IgnoreResult(w) ==
    /\ pc[w] = "handler"
    /\ ~Fenced(job[w])
    /\ pc' = [pc EXCEPT ![w] = "complete"]
    /\ UNCHANGED <<ledger, physical, job, archive, up, faults>>

Release(w) ==
    /\ pc' = [pc EXCEPT ![w] = "idle"]
    /\ job' = [job EXCEPT ![w] = NoJob]

\* pg-boss marks a job completed only while it is still active.
BossComplete(w) ==
    LET a == job[w] IN
    /\ pc[w] = "complete"
    /\ boss' = [boss EXCEPT ![a] = IF @ = "active" THEN "completed" ELSE @]
    /\ Release(w)
    /\ UNCHANGED <<ledger, refetched, archive, up, faults>>

AfterFail(a) ==
    IF refetched[a] < RetryLimit[KeyOf[a[1]]] THEN "retry" ELSE "failed"

BossFail(w) ==
    LET a == job[w] IN
    /\ pc[w] = "fail"
    /\ boss' = [boss EXCEPT ![a] = IF @ = "active" THEN AfterFail(a) ELSE @]
    /\ Release(w)
    /\ UNCHANGED <<ledger, refetched, archive, up, faults>>

-----------------------------------------------------------------------------
(***************************************************************************)
(* Faults, expiry and the boot passes.                                     *)
(***************************************************************************)

\* A transaction of processJob rolls back (connection lost, deadlock victim):
\* nothing is written and the error reaches pg-boss as a failure.
DatabaseError(w) ==
    /\ faults < MaxFaults
    /\ pc[w] \in {"gate", "drop", "claim", "handler"}
    /\ pc' = [pc EXCEPT ![w] = "fail"]
    /\ faults' = faults + 1
    /\ UNCHANGED <<ledger, physical, job, archive, up>>

\* A container dies with every handler in it; pg-boss still says `active`.
Crash(g) ==
    /\ faults < MaxFaults
    /\ up[g]
    /\ up' = [up EXCEPT ![g] = FALSE]
    /\ faults' = faults + 1
    /\ pc' = [w \in Workers |-> IF HomeOf[w] = g THEN "idle" ELSE pc[w]]
    /\ job' = [w \in Workers |-> IF HomeOf[w] = g THEN NoJob ELSE job[w]]
    /\ UNCHANGED <<ledger, physical, archive>>

Held(a) == \E w \in Workers : job[w] = a

\* pg-boss's maintenance fails a job that has been active past expireInSeconds;
\* that its handler is still alive is a fault.
BossExpire(a) ==
    /\ boss[a] = "active"
    /\ IF Held(a)
       THEN faults < MaxFaults /\ faults' = faults + 1
       ELSE UNCHANGED faults
    /\ boss' = [boss EXCEPT ![a] = AfterFail(a)]
    /\ UNCHANGED <<ledger, refetched, worker, archive, up>>

\* Mutant of Stale: superseded attempts of the run are taken for the current one.
StaleAnyAttempt(a) ==
    /\ attStatus[a] \in Active
    /\ runStatus[a[1]] \in Active
    /\ boss[a] \notin LiveBoss

Stale(a) ==
    /\ attStatus[a] \in Active
    /\ runStatus[a[1]] \in Active
    /\ runSeq[a[1]] = a[2]
    /\ boss[a] \notin LiveBoss

\* The core container boots: markStaleJobs, one statement over all job types,
\* before any handler is registered.
BootCore ==
    /\ ~up["core"]
    /\ attStatus' = [a \in Attempts |-> IF Stale(a) THEN "stale" ELSE attStatus[a]]
    /\ runStatus' = [r \in Runs |->
         IF \E n \in Seqs : Stale(<<r, n>>) THEN "failed" ELSE runStatus[r]]
    /\ up' = [up EXCEPT !["core"] = TRUE]
    /\ UNCHANGED <<runSeq, tries, thrown, physical, worker, archive, faults>>

Orphan(a) ==
    /\ GroupOf[KeyOf[a[1]]] = "build"
    /\ attStatus[a] = "running"
    /\ boss[a] = "active"

\* The build container boots: requeueOrphanedBuildJobs, one statement.
BootBuild ==
    /\ ~up["build"]
    /\ attStatus' = [a \in Attempts |-> IF Orphan(a) THEN "queued" ELSE attStatus[a]]
    /\ boss' = [a \in Attempts |-> IF Orphan(a) THEN "retry" ELSE boss[a]]
    /\ runStatus' = [r \in Runs |->
         IF runStatus[r] = "running" /\ \E n \in Seqs : n = runSeq[r] /\ Orphan(<<r, n>>)
         THEN "queued" ELSE runStatus[r]]
    /\ up' = [up EXCEPT !["build"] = TRUE]
    /\ UNCHANGED <<runSeq, tries, thrown, refetched, worker, archive, faults>>

-----------------------------------------------------------------------------
(***************************************************************************)
(* Other services that end work.                                           *)
(***************************************************************************)

WaitingFollowups(b) ==
    {a \in Attempts : /\ KeyOf[a[1]] \in FollowupKeys
                      /\ BizOf[KeyOf[a[1]]] = b
                      /\ attStatus[a] \in {"queued", "retry_wait"}}

\* inboundOutreachService.cancelFollowupsInTransaction, and the cancellation
\* of the physical jobs afterwards, which is best effort.
CancelFollowups(b) ==
    LET rows == WaitingFollowups(b) IN
    /\ rows # {}
    /\ attStatus' = [a \in Attempts |-> IF a \in rows THEN "cancelled" ELSE attStatus[a]]
    /\ runStatus' = [r \in Runs |->
         IF IsActive(r) /\ \E n \in Seqs : <<r, n>> \in rows
         THEN "cancelled" ELSE runStatus[r]]
    /\ \E reached \in SUBSET rows :
         boss' = [a \in Attempts |->
             IF a \in reached /\ boss[a] \in LiveBoss THEN "cancelled" ELSE boss[a]]
    /\ UNCHANGED <<runSeq, tries, thrown, refetched, worker, archive, up, faults>>

\* An operator decision closes a parked attempt with transitionCurrentRun,
\* which aborts the transaction unless the run is parked on that attempt.
DismissParked(a) ==
    /\ attStatus[a] \in Parked
    /\ runStatus[a[1]] \in Parked
    /\ runSeq[a[1]] = a[2]
    /\ attStatus' = [attStatus EXCEPT ![a] = "cancelled"]
    /\ runStatus' = [runStatus EXCEPT ![a[1]] = "cancelled"]
    /\ UNCHANGED <<runSeq, tries, thrown, physical, worker, archive, up, faults>>

\* archiveBusiness takes three steps other transactions can fall between
\* (READ COMMITTED gives each statement its own snapshot): the UPDATE of the
\* attempts takes its snapshot; it locks and rechecks those rows and the UPDATE
\* of the runs closes what it sees; archived_at commits.
ArchiveAttempts(b) ==
    /\ shelf[b] = "open"
    /\ shelf' = [shelf EXCEPT ![b] = "attempts"]
    /\ seen' = [seen EXCEPT ![b] =
         {a \in Attempts : BizOf[KeyOf[a[1]]] = b /\ attStatus[a] \in Cancellable}]
    /\ UNCHANGED <<ledger, physical, worker, held, up, faults>>

ArchiveRuns(b) ==
    LET closed == {r \in Runs : BizOf[KeyOf[r]] = b /\ runStatus[r] \in Cancellable} IN
    /\ shelf[b] = "attempts"
    /\ attStatus' = [a \in Attempts |->
         IF a \in seen[b] /\ attStatus[a] \in Cancellable THEN "cancelled" ELSE attStatus[a]]
    /\ runStatus' = [r \in Runs |-> IF r \in closed THEN "cancelled" ELSE runStatus[r]]
    /\ shelf' = [shelf EXCEPT ![b] = "runs"]
    /\ seen' = [seen EXCEPT ![b] = {}]
    /\ held' = [held EXCEPT ![b] = {KeyOf[r] : r \in {s \in closed : IsActive(s)}}]
    /\ UNCHANGED <<runSeq, tries, thrown, physical, worker, up, faults>>

ArchiveCommit(b) ==
    /\ shelf[b] = "runs"
    /\ shelf' = [shelf EXCEPT ![b] = "archived"]
    /\ held' = [held EXCEPT ![b] = {}]
    /\ UNCHANGED <<ledger, physical, worker, seen, up, faults>>

Unarchive(b) ==
    /\ shelf[b] = "archived"
    /\ shelf' = [shelf EXCEPT ![b] = "open"]
    /\ UNCHANGED <<ledger, physical, worker, seen, held, up, faults>>

-----------------------------------------------------------------------------
HandlerEnds(w) ==
    \/ ContinueAfterRateLimit(w)
    \/ CommitSuccess(w)
    \/ CommitSkip(w)
    \/ CommitFailure(w)
    \/ CommitNeedsHuman(w)
    \/ IgnoreResult(w)

\* The steps of a worker that no one outside the program has to cause.
Progress(w) ==
    \/ ReadArchived(w)
    \/ DropArchived(w)
    \/ Claim(w)
    \/ IgnoreDelivery(w)
    \/ HandlerEnds(w)
    \/ BossComplete(w)
    \/ BossFail(w)

Next ==
    \/ \E r \in Runs : Enqueue(r)
    \/ \E w \in Workers, a \in Attempts : FetchJob(w, a)
    \/ \E w \in Workers : Progress(w)
    \/ \E w \in Workers : DatabaseError(w)
    \/ \E g \in Groups : Crash(g)
    \/ \E a \in Attempts : BossExpire(a)
    \/ BootCore
    \/ BootBuild
    \/ \E b \in Businesses : CancelFollowups(b)
    \/ \E a \in Attempts : DismissParked(a)
    \/ \E b \in Archivable : \/ ArchiveAttempts(b)
                             \/ ArchiveRuns(b)
                             \/ ArchiveCommit(b)
                             \/ Unarchive(b)

Spec == Init /\ [][Next]_vars

\* Consumers poll while the process lives, a handler ends (the agent runtimes
\* and HTTP clients have timeouts), and pg-boss maintains its queue.
FairSpec ==
    /\ Spec
    /\ WF_vars(\E w \in Workers, a \in Attempts : FetchJob(w, a))
    /\ \A w \in Workers : WF_vars(Progress(w))
    /\ \A a \in Attempts : WF_vars(BossExpire(a))
    /\ WF_vars(BootCore)
    /\ WF_vars(BootBuild)

-----------------------------------------------------------------------------
(***************************************************************************)
(* Properties.                                                             *)
(***************************************************************************)

\* A key never has two active runs, although continuations, requeues and skips
\* write the run status without looking at the other runs of the key.
OneOpenRun ==
    \A r, s \in Runs : IsActive(r) /\ IsActive(s) /\ KeyOf[r] = KeyOf[s] => r = s

Current(r) == <<r, runSeq[r]>>

\* The ledger's two tables agree: an active run points at an attempt that is
\* running exactly when the run is, and waiting in the queue otherwise.
LedgerAgrees ==
    \A r \in Runs : IsActive(r) =>
        /\ Current(r) \in Attempts
        /\ attStatus[Current(r)] = IF runStatus[r] = "running" THEN "running" ELSE "queued"

\* At-least-once delivery never becomes concurrent execution: no two workers
\* are in the handler of the same attempt, whatever expires, crashes or reboots.
OneHandler ==
    \A v, w \in Workers :
        pc[v] = "handler" /\ pc[w] = "handler" /\ job[v] = job[w] => v = w

\* Of all the workers still in a handler of one key (an archive or a boot pass
\* may have closed a run under one of them), at most one can still commit.
OneCommitter ==
    \A v, w \in Workers :
        /\ pc[v] = "handler" /\ pc[w] = "handler"
        /\ KeyOf[job[v][1]] = KeyOf[job[w][1]]
        /\ Fenced(job[v]) /\ Fenced(job[w])
        => v = w

\* While nothing has failed, an active run is being carried: a running one by a
\* worker in its handler, a waiting one by a live pg-boss job.  This is where
\* the ledger's retry counter and pg-boss's own must agree.
RunIsCarried ==
    faults = 0 =>
        \A r \in Runs : IsActive(r) =>
            IF runStatus[r] = "running"
            THEN \E w \in Workers : pc[w] = "handler" /\ job[w] = Current(r)
            ELSE boss[Current(r)] \in LiveBoss

\* An attempt is executed at most RetryLimit + 1 times, and once more for each
\* fault at most, however deliveries are repeated.
TriesBounded ==
    \A a \in Attempts : tries[a] <= RetryLimit[KeyOf[a[1]]] + 1 + faults

\* A closed run is never opened again, and one that succeeded keeps its result.
RunNeverReopens ==
    [][\A r \in Runs :
         runStatus[r] \notin Active \cup {"none"} =>
             /\ runStatus'[r] \notin Active \cup {"none"}
             /\ runStatus[r] \in {"succeeded", "skipped"} => runStatus'[r] = runStatus[r]]_vars

\* Unless a fault intervenes every accepted run reaches an end.
AcceptedRunsSettle == \A r \in Runs : IsActive(r) ~> ~IsActive(r) \/ faults > 0

\* reconcile.ts:105-107: after the core container boots, an attempt of a core
\* job whose process died is marked stale.
DeadHandlersGoStale ==
    [][~up["core"] /\ up'["core"] =>
         \A a \in Attempts :
            /\ GroupOf[KeyOf[a[1]]] = "core"
            /\ attStatus[a] = "running"
            => attStatus'[a] = "stale"]_vars

\* reconcile.ts:278-280: an attempt fails only when its handler threw on the
\* first execution and on every retry; an interruption spends none of them.
FailedSpentItsBudget ==
    \A a \in Attempts : attStatus[a] = "failed" =>
        thrown[a] = RetryLimit[KeyOf[a[1]]] + 1

\* queue.ts:300-301: a pause leaves the attempt budget untouched, so the
\* attempt that resumes the run has as many tries behind it.
PauseKeepsBudget ==
    [][\A r \in Runs :
         runSeq'[r] = runSeq[r] + 1 /\ runSeq[r] > 0 =>
             tries'[<<r, runSeq'[r]>>] = tries[Current(r)] - 1]_vars

\* archiveService.ts:443-445: attempts and runs stay in step, so no attempt is
\* waiting or running for a run that is closed.
AttemptsFollowRuns ==
    \A a \in Attempts : attStatus[a] \in {"queued", "running"} => IsActive(a[1])

\* queue.ts:131: archived businesses never run work.
ArchivedRunsNothing ==
    [][\A w \in Workers :
         pc[w] # "handler" /\ pc'[w] = "handler" =>
             shelf[BizOf[KeyOf[job[w][1]]]] # "archived"]_vars

\* The ledger a reader sees, as RunLedger describes it.
Outcome(s) ==
    CASE s \in Active -> "open"
      [] s \in {"succeeded", "skipped"} -> "done"
      [] s \in Parked -> "parked"
      [] s = "cancelled" -> "dropped"
      [] OTHER -> "unused"

Ledger == INSTANCE RunLedger WITH ledger <- [r \in Runs |-> Outcome(runStatus[r])]

\* Attempts, retries, pauses, redeliveries, reboots and archives together look
\* like runs that open once per key and end once.
LedgerSpec == Ledger!Spec
=============================================================================
