------------------------- MODULE WorkflowQueueProofs -------------------------
(***************************************************************************)
(* What WorkflowQueue guarantees for any number of keys, runs, attempts,   *)
(* workers, faults and archives, checked by TLAPS.  Every theorem rests on *)
(* the inductive invariant IInv; three have an invariant of their own      *)
(* beside it: Calm, SpareTry and LiveIsCurrent.                            *)
(***************************************************************************)
EXTENDS WorkflowQueue, TLAPS

\* A handler only ever works on an attempt it claimed, and nothing puts an
\* attempt back into the queue while its handler lives.
HandlerOwns ==
    \A w \in Workers : pc[w] = "handler" => attStatus[job[w]] \notin {"none", "queued"}

\* A container that is down runs no handler, and a worker only holds jobs of
\* its own container: a boot pass finds no live handler of its group.
AtHome ==
    \A w \in Workers :
        /\ ~up[HomeOf[w]] => pc[w] = "idle"
        /\ pc[w] # "idle" => GroupOf[KeyOf[job[w][1]]] = HomeOf[w]

\* Attempts past the current one do not exist yet.
FutureUnused ==
    /\ \A r \in Runs : IF runStatus[r] = "none" THEN runSeq[r] = 0 ELSE runSeq[r] \in Seqs
    /\ \A r \in Runs, n \in Seqs : runSeq[r] < n => attStatus[<<r, n>>] = "none"

\* An archive only touches attempts of the business it archives.
SeenIsOwn ==
    \A b \in Businesses : \A a \in seen[b] : BizOf[KeyOf[a[1]]] = b

\* A run that came to an end by itself left no live attempt behind.  (A run
\* cancelled by an archive may: see AttemptsFollowRuns.)
EndedIsOver ==
    \A r \in Runs : runStatus[r] \in {"succeeded", "skipped"} \cup Parked =>
        attStatus[Current(r)] \notin {"queued", "running"}

IInv ==
    /\ TypeOK
    /\ HandlerOwns
    /\ OneHandler
    /\ AtHome
    /\ FutureUnused
    /\ LedgerAgrees
    /\ OneOpenRun
    /\ SeenIsOwn
    /\ EndedIsOver

\* An attempt is named by the pair of its run and its sequence number.
LEMMA PairOfAttempt ==
    /\ \A a \in Attempts : a[1] \in Runs /\ a[2] \in Seqs /\ a = <<a[1], a[2]>>
    /\ \A r \in Runs, n \in Seqs :
         <<r, n>> \in Attempts /\ <<r, n>>[1] = r /\ <<r, n>>[2] = n
BY DEF Attempts

\* Sequence numbers start at 1 and stay within the bound.
LEMMA SeqsAreNat == Seqs \subseteq Nat /\ 1 \in Seqs /\ \A n \in Seqs : n < MaxSeq => n + 1 \in Seqs
BY QueueConstants, SMT DEF Seqs

\* What a step that leaves a part of the state alone preserves.  First the ledger,
LEMMA LedgerFrame ==
    ASSUME IInv, UNCHANGED <<runStatus, runSeq, attStatus>>
    PROVE  FutureUnused' /\ LedgerAgrees' /\ OneOpenRun' /\ EndedIsOver'
BY DEF IInv, FutureUnused, LedgerAgrees, OneOpenRun, EndedIsOver, Current, IsActive

\* then the workers,
LEMMA WorkerFrame ==
    ASSUME IInv, UNCHANGED <<pc, job, up>>
    PROVE  OneHandler' /\ AtHome'
BY DEF IInv, OneHandler, AtHome

\* then the archives.
LEMMA ArchiveFrame ==
    ASSUME IInv, UNCHANGED seen
    PROVE  SeenIsOwn'
BY DEF IInv, SeenIsOwn

\* The enqueue transaction: the unique index keeps the key to one active run.
LEMMA EnqueueStep ==
    ASSUME IInv, NEW r \in Runs, Enqueue(r)
    PROVE  IInv'
<1> USE QueueConstants, PairOfAttempt, SeqsAreNat
    DEF IInv, Current, IsActive, Active, Parked, RunStatus, AttemptStatus, Cancellable, LiveBoss,
        BossState, Phases, Groups, ledger, physical, worker, archive, Enqueue, KeyIsFree
<1>1. OneHandler' /\ AtHome'
  BY WorkerFrame
<1>2. SeenIsOwn'
  BY ArchiveFrame
<1>3. TypeOK'
  BY DEF TypeOK
<1>4. HandlerOwns'
  BY DEF HandlerOwns, TypeOK, FutureUnused, OneHandler, AtHome
<1>5. FutureUnused'
  BY DEF FutureUnused, TypeOK
<1>6. LedgerAgrees'
  BY DEF LedgerAgrees, TypeOK
<1>7. OneOpenRun'
  BY DEF OneOpenRun, TypeOK
<1>8. EndedIsOver'
  BY DEF EndedIsOver, TypeOK
<1> QED BY <1>1, <1>2, <1>3, <1>4, <1>5, <1>6, <1>7, <1>8

\* A pause moves the run to a successor attempt no one has used (FutureUnused).
LEMMA ContinueAfterRateLimitStep ==
    ASSUME IInv, NEW w \in Workers, ContinueAfterRateLimit(w)
    PROVE  IInv'
<1> USE QueueConstants, PairOfAttempt, SeqsAreNat
    DEF IInv, Current, IsActive, Active, Parked, RunStatus, AttemptStatus, Cancellable, LiveBoss,
        BossState, Phases, Groups, ledger, physical, worker, archive,
        ContinueAfterRateLimit, Fenced, Successor, TriesAfterPause
<1>1. SeenIsOwn'
  BY ArchiveFrame
<1>2. TypeOK'
  BY DEF TypeOK, FutureUnused
<1>3. HandlerOwns'
  BY DEF HandlerOwns, TypeOK, FutureUnused, OneHandler, AtHome
<1>4. OneHandler'
  BY DEF OneHandler, TypeOK
<1>5. AtHome'
  BY DEF AtHome, TypeOK
<1>6. FutureUnused'
  BY DEF FutureUnused, TypeOK
<1>7. LedgerAgrees'
  BY DEF LedgerAgrees, TypeOK
<1>8. OneOpenRun'
  BY DEF OneOpenRun, TypeOK
<1>9. EndedIsOver'
  BY DEF EndedIsOver, TypeOK, FutureUnused
<1> QED BY <1>1, <1>2, <1>3, <1>4, <1>5, <1>6, <1>7, <1>8, <1>9

\* A delivery only moves a worker out of idle.
LEMMA FetchJobStep ==
    ASSUME IInv, NEW w \in Workers, NEW a \in Attempts, FetchJob(w, a)
    PROVE  IInv'
<1> USE QueueConstants, PairOfAttempt, SeqsAreNat
    DEF IInv, Current, IsActive, Active, Parked, RunStatus, AttemptStatus, Cancellable, LiveBoss,
        BossState, Phases, Groups, ledger, physical, worker, archive, FetchJob
<1>1. FutureUnused' /\ LedgerAgrees' /\ OneOpenRun' /\ EndedIsOver'
  BY LedgerFrame
<1>2. SeenIsOwn'
  BY ArchiveFrame
<1>3. TypeOK'
  BY DEF TypeOK
<1>4. HandlerOwns'
  BY DEF HandlerOwns, TypeOK
<1>5. OneHandler'
  BY DEF OneHandler, TypeOK
<1>6. AtHome'
  BY DEF AtHome, TypeOK
<1> QED BY <1>1, <1>2, <1>3, <1>4, <1>5, <1>6

\* The archive gate writes nothing.
LEMMA ReadArchivedStep ==
    ASSUME IInv, NEW w \in Workers, ReadArchived(w)
    PROVE  IInv'
<1> USE QueueConstants, PairOfAttempt, SeqsAreNat
    DEF IInv, Current, IsActive, Active, Parked, RunStatus, AttemptStatus, Cancellable, LiveBoss,
        BossState, Phases, Groups, ledger, physical, worker, archive, ReadArchived
<1>1. FutureUnused' /\ LedgerAgrees' /\ OneOpenRun' /\ EndedIsOver'
  BY LedgerFrame
<1>2. SeenIsOwn'
  BY ArchiveFrame
<1>3. TypeOK'
  BY DEF TypeOK
<1>4. HandlerOwns'
  BY DEF HandlerOwns, TypeOK
<1>5. OneHandler'
  BY DEF OneHandler, TypeOK
<1>6. AtHome'
  BY DEF AtHome, TypeOK
<1> QED BY <1>1, <1>2, <1>3, <1>4, <1>5, <1>6

\* A delivery of an archived business closes its attempt and its run together.
LEMMA DropArchivedStep ==
    ASSUME IInv, NEW w \in Workers, DropArchived(w)
    PROVE  IInv'
<1> USE QueueConstants, PairOfAttempt, SeqsAreNat
    DEF IInv, Current, IsActive, Active, Parked, RunStatus, AttemptStatus, Cancellable, LiveBoss,
        BossState, Phases, Groups, ledger, physical, worker, archive, DropArchived
<1>1. SeenIsOwn'
  BY ArchiveFrame
<1>2. TypeOK'
  BY DEF TypeOK
<1>3. HandlerOwns'
  BY DEF HandlerOwns, TypeOK
<1>4. OneHandler'
  BY DEF OneHandler, TypeOK
<1>5. AtHome'
  BY DEF AtHome, TypeOK
<1>6. FutureUnused'
  BY DEF FutureUnused, TypeOK
<1>7. LedgerAgrees'
  BY DEF LedgerAgrees, TypeOK
<1>8. OneOpenRun'
  BY DEF OneOpenRun, TypeOK
<1>9. EndedIsOver'
  BY DEF EndedIsOver, TypeOK
<1> QED BY <1>1, <1>2, <1>3, <1>4, <1>5, <1>6, <1>7, <1>8, <1>9

\* A claim needs a queued attempt, and no handler holds one of those (HandlerOwns).
LEMMA ClaimStep ==
    ASSUME IInv, NEW w \in Workers, Claim(w)
    PROVE  IInv'
<1> USE QueueConstants, PairOfAttempt, SeqsAreNat
    DEF IInv, Current, IsActive, Active, Parked, RunStatus, AttemptStatus, Cancellable, LiveBoss,
        BossState, Phases, Groups, ledger, physical, worker, archive, Claim, Claimable
<1>1. SeenIsOwn'
  BY ArchiveFrame
<1>2. TypeOK'
  BY DEF TypeOK
<1>3. HandlerOwns'
  BY DEF HandlerOwns, TypeOK
<1>4. OneHandler'
  BY DEF OneHandler, TypeOK, HandlerOwns
<1>5. AtHome'
  BY DEF AtHome, TypeOK
<1>6. FutureUnused'
  BY DEF FutureUnused, TypeOK
<1>7. LedgerAgrees'
  BY DEF LedgerAgrees, TypeOK
<1>8. OneOpenRun'
  BY DEF OneOpenRun, TypeOK
<1>9. EndedIsOver'
  BY DEF EndedIsOver, TypeOK
<1> QED BY <1>1, <1>2, <1>3, <1>4, <1>5, <1>6, <1>7, <1>8, <1>9

\* A delivery that is not claimable writes nothing.
LEMMA IgnoreDeliveryStep ==
    ASSUME IInv, NEW w \in Workers, IgnoreDelivery(w)
    PROVE  IInv'
<1> USE QueueConstants, PairOfAttempt, SeqsAreNat
    DEF IInv, Current, IsActive, Active, Parked, RunStatus, AttemptStatus, Cancellable, LiveBoss,
        BossState, Phases, Groups, ledger, physical, worker, archive, IgnoreDelivery
<1>1. FutureUnused' /\ LedgerAgrees' /\ OneOpenRun' /\ EndedIsOver'
  BY LedgerFrame
<1>2. SeenIsOwn'
  BY ArchiveFrame
<1>3. TypeOK'
  BY DEF TypeOK
<1>4. HandlerOwns'
  BY DEF HandlerOwns, TypeOK
<1>5. OneHandler'
  BY DEF OneHandler, TypeOK
<1>6. AtHome'
  BY DEF AtHome, TypeOK
<1> QED BY <1>1, <1>2, <1>3, <1>4, <1>5, <1>6

\* A fenced success closes the attempt and its run together.
LEMMA CommitSuccessStep ==
    ASSUME IInv, NEW w \in Workers, CommitSuccess(w)
    PROVE  IInv'
<1> USE QueueConstants, PairOfAttempt, SeqsAreNat
    DEF IInv, Current, IsActive, Active, Parked, RunStatus, AttemptStatus, Cancellable, LiveBoss,
        BossState, Phases, Groups, ledger, physical, worker, archive, CommitSuccess, Fenced
<1>1. SeenIsOwn'
  BY ArchiveFrame
<1>2. TypeOK'
  BY DEF TypeOK
<1>3. HandlerOwns'
  BY DEF HandlerOwns, TypeOK
<1>4. OneHandler'
  BY DEF OneHandler, TypeOK
<1>5. AtHome'
  BY DEF AtHome, TypeOK
<1>6. FutureUnused'
  BY DEF FutureUnused, TypeOK
<1>7. LedgerAgrees'
  BY DEF LedgerAgrees, TypeOK
<1>8. OneOpenRun'
  BY DEF OneOpenRun, TypeOK
<1>9. EndedIsOver'
  BY DEF EndedIsOver, TypeOK
<1> QED BY <1>1, <1>2, <1>3, <1>4, <1>5, <1>6, <1>7, <1>8, <1>9

\* A skip writes its run only while the attempt is the current one.
LEMMA CommitSkipStep ==
    ASSUME IInv, NEW w \in Workers, CommitSkip(w)
    PROVE  IInv'
<1> USE QueueConstants, PairOfAttempt, SeqsAreNat
    DEF IInv, Current, IsActive, Active, Parked, RunStatus, AttemptStatus, Cancellable, LiveBoss,
        BossState, Phases, Groups, ledger, physical, worker, archive, CommitSkip
<1>1. SeenIsOwn'
  BY ArchiveFrame
<1>2. TypeOK'
  BY DEF TypeOK
<1>3. HandlerOwns'
  BY DEF HandlerOwns, TypeOK
<1>4. OneHandler'
  BY DEF OneHandler, TypeOK
<1>5. AtHome'
  BY DEF AtHome, TypeOK
<1>6. FutureUnused'
  BY DEF FutureUnused, TypeOK
<1>7. LedgerAgrees'
  BY DEF LedgerAgrees, TypeOK
<1>8. OneOpenRun'
  BY DEF OneOpenRun, TypeOK
<1>9. EndedIsOver'
  BY DEF EndedIsOver, TypeOK
<1> QED BY <1>1, <1>2, <1>3, <1>4, <1>5, <1>6, <1>7, <1>8, <1>9

\* A failure sends attempt and run to the same status; the handler is gone.
LEMMA CommitFailureStep ==
    ASSUME IInv, NEW w \in Workers, CommitFailure(w)
    PROVE  IInv'
<1> USE QueueConstants, PairOfAttempt, SeqsAreNat
    DEF IInv, Current, IsActive, Active, Parked, RunStatus, AttemptStatus, Cancellable, LiveBoss,
        BossState, Phases, Groups, ledger, physical, worker, archive, CommitFailure, Fenced, FailureStatus
<1>1. SeenIsOwn'
  BY ArchiveFrame
<1>2. TypeOK'
  BY DEF TypeOK
<1>3. HandlerOwns'
  BY DEF HandlerOwns, TypeOK, FutureUnused, OneHandler, AtHome
<1>4. OneHandler'
  BY DEF OneHandler, TypeOK
<1>5. AtHome'
  BY DEF AtHome, TypeOK
<1>6. FutureUnused'
  BY DEF FutureUnused, TypeOK
<1>7. LedgerAgrees'
  BY DEF LedgerAgrees, TypeOK
<1>8. OneOpenRun'
  BY DEF OneOpenRun, TypeOK
<1>9. EndedIsOver'
  BY DEF EndedIsOver, TypeOK
<1> QED BY <1>1, <1>2, <1>3, <1>4, <1>5, <1>6, <1>7, <1>8, <1>9

\* A NeedsHumanError parks attempt and run together.
LEMMA CommitNeedsHumanStep ==
    ASSUME IInv, NEW w \in Workers, CommitNeedsHuman(w)
    PROVE  IInv'
<1> USE QueueConstants, PairOfAttempt, SeqsAreNat
    DEF IInv, Current, IsActive, Active, Parked, RunStatus, AttemptStatus, Cancellable, LiveBoss,
        BossState, Phases, Groups, ledger, physical, worker, archive, CommitNeedsHuman, Fenced
<1>1. SeenIsOwn'
  BY ArchiveFrame
<1>2. TypeOK'
  BY DEF TypeOK
<1>3. HandlerOwns'
  BY DEF HandlerOwns, TypeOK
<1>4. OneHandler'
  BY DEF OneHandler, TypeOK
<1>5. AtHome'
  BY DEF AtHome, TypeOK
<1>6. FutureUnused'
  BY DEF FutureUnused, TypeOK
<1>7. LedgerAgrees'
  BY DEF LedgerAgrees, TypeOK
<1>8. OneOpenRun'
  BY DEF OneOpenRun, TypeOK
<1>9. EndedIsOver'
  BY DEF EndedIsOver, TypeOK
<1> QED BY <1>1, <1>2, <1>3, <1>4, <1>5, <1>6, <1>7, <1>8, <1>9

\* A result whose fence no longer holds writes nothing.
LEMMA IgnoreResultStep ==
    ASSUME IInv, NEW w \in Workers, IgnoreResult(w)
    PROVE  IInv'
<1> USE QueueConstants, PairOfAttempt, SeqsAreNat
    DEF IInv, Current, IsActive, Active, Parked, RunStatus, AttemptStatus, Cancellable, LiveBoss,
        BossState, Phases, Groups, ledger, physical, worker, archive, IgnoreResult
<1>1. FutureUnused' /\ LedgerAgrees' /\ OneOpenRun' /\ EndedIsOver'
  BY LedgerFrame
<1>2. SeenIsOwn'
  BY ArchiveFrame
<1>3. TypeOK'
  BY DEF TypeOK
<1>4. HandlerOwns'
  BY DEF HandlerOwns, TypeOK
<1>5. OneHandler'
  BY DEF OneHandler, TypeOK
<1>6. AtHome'
  BY DEF AtHome, TypeOK
<1> QED BY <1>1, <1>2, <1>3, <1>4, <1>5, <1>6

\* The answer to pg-boss frees the worker; the ledger does not move.
LEMMA BossCompleteStep ==
    ASSUME IInv, NEW w \in Workers, BossComplete(w)
    PROVE  IInv'
<1> USE QueueConstants, PairOfAttempt, SeqsAreNat
    DEF IInv, Current, IsActive, Active, Parked, RunStatus, AttemptStatus, Cancellable, LiveBoss,
        BossState, Phases, Groups, ledger, physical, worker, archive, BossComplete, Release
<1>1. FutureUnused' /\ LedgerAgrees' /\ OneOpenRun' /\ EndedIsOver'
  BY LedgerFrame
<1>2. SeenIsOwn'
  BY ArchiveFrame
<1>3. TypeOK'
  BY DEF TypeOK
<1>4. HandlerOwns'
  BY DEF HandlerOwns, TypeOK
<1>5. OneHandler'
  BY DEF OneHandler, TypeOK
<1>6. AtHome'
  BY DEF AtHome, TypeOK
<1> QED BY <1>1, <1>2, <1>3, <1>4, <1>5, <1>6

\* The answer to pg-boss frees the worker; the ledger does not move.
LEMMA BossFailStep ==
    ASSUME IInv, NEW w \in Workers, BossFail(w)
    PROVE  IInv'
<1> USE QueueConstants, PairOfAttempt, SeqsAreNat
    DEF IInv, Current, IsActive, Active, Parked, RunStatus, AttemptStatus, Cancellable, LiveBoss,
        BossState, Phases, Groups, ledger, physical, worker, archive, BossFail, Release, AfterFail
<1>1. FutureUnused' /\ LedgerAgrees' /\ OneOpenRun' /\ EndedIsOver'
  BY LedgerFrame
<1>2. SeenIsOwn'
  BY ArchiveFrame
<1>3. TypeOK'
  BY DEF TypeOK
<1>4. HandlerOwns'
  BY DEF HandlerOwns, TypeOK
<1>5. OneHandler'
  BY DEF OneHandler, TypeOK
<1>6. AtHome'
  BY DEF AtHome, TypeOK
<1> QED BY <1>1, <1>2, <1>3, <1>4, <1>5, <1>6

\* A rolled back transaction writes nothing.
LEMMA DatabaseErrorStep ==
    ASSUME IInv, NEW w \in Workers, DatabaseError(w)
    PROVE  IInv'
<1> USE QueueConstants, PairOfAttempt, SeqsAreNat
    DEF IInv, Current, IsActive, Active, Parked, RunStatus, AttemptStatus, Cancellable, LiveBoss,
        BossState, Phases, Groups, ledger, physical, worker, archive, DatabaseError
<1>1. FutureUnused' /\ LedgerAgrees' /\ OneOpenRun' /\ EndedIsOver'
  BY LedgerFrame
<1>2. SeenIsOwn'
  BY ArchiveFrame
<1>3. TypeOK'
  BY DEF TypeOK
<1>4. HandlerOwns'
  BY DEF HandlerOwns, TypeOK
<1>5. OneHandler'
  BY DEF OneHandler, TypeOK
<1>6. AtHome'
  BY DEF AtHome, TypeOK
<1> QED BY <1>1, <1>2, <1>3, <1>4, <1>5, <1>6

\* A crash empties exactly the workers of the container that dies.
LEMMA CrashStep ==
    ASSUME IInv, NEW g \in Groups, Crash(g)
    PROVE  IInv'
<1> USE QueueConstants, PairOfAttempt, SeqsAreNat
    DEF IInv, Current, IsActive, Active, Parked, RunStatus, AttemptStatus, Cancellable, LiveBoss,
        BossState, Phases, Groups, ledger, physical, worker, archive, Crash
<1>1. FutureUnused' /\ LedgerAgrees' /\ OneOpenRun' /\ EndedIsOver'
  BY LedgerFrame
<1>2. SeenIsOwn'
  BY ArchiveFrame
<1>3. TypeOK'
  BY DEF TypeOK
<1>4. HandlerOwns'
  BY DEF HandlerOwns, TypeOK
<1>5. OneHandler'
  BY DEF OneHandler, TypeOK
<1>6. AtHome'
  BY DEF AtHome, TypeOK
<1> QED BY <1>1, <1>2, <1>3, <1>4, <1>5, <1>6

\* An expiry moves pg-boss only; the handler keeps its attempt.
LEMMA BossExpireStep ==
    ASSUME IInv, NEW a \in Attempts, BossExpire(a)
    PROVE  IInv'
<1> USE QueueConstants, PairOfAttempt, SeqsAreNat
    DEF IInv, Current, IsActive, Active, Parked, RunStatus, AttemptStatus, Cancellable, LiveBoss,
        BossState, Phases, Groups, ledger, physical, worker, archive, BossExpire, AfterFail
<1>1. FutureUnused' /\ LedgerAgrees' /\ OneOpenRun' /\ EndedIsOver'
  BY LedgerFrame
<1>2. OneHandler' /\ AtHome'
  BY WorkerFrame
<1>3. SeenIsOwn'
  BY ArchiveFrame
<1>4. TypeOK'
  BY DEF TypeOK
<1>5. HandlerOwns'
  BY DEF HandlerOwns, TypeOK
<1> QED BY <1>1, <1>2, <1>3, <1>4, <1>5

\* markStaleJobs closes the run of every attempt it closes.
LEMMA BootCoreStep ==
    ASSUME IInv, BootCore
    PROVE  IInv'
<1> USE QueueConstants, PairOfAttempt, SeqsAreNat
    DEF IInv, Current, IsActive, Active, Parked, RunStatus, AttemptStatus, Cancellable, LiveBoss,
        BossState, Phases, Groups, ledger, physical, worker, archive, BootCore
<1>1. SeenIsOwn'
  BY ArchiveFrame
<1>2. TypeOK'
  BY DEF TypeOK, Stale
<1>3. HandlerOwns'
  BY DEF HandlerOwns, TypeOK, Stale
<1>4. OneHandler'
  BY DEF OneHandler, TypeOK, Stale
<1>5. AtHome'
  BY DEF AtHome, TypeOK, Stale
<1>6. FutureUnused'
  <2>1. \A r \in Runs : (runStatus'[r] = "none") = (runStatus[r] = "none")
    BY DEF TypeOK, Stale
  <2>2. \A r \in Runs, n \in Seqs : runSeq[r] < n => attStatus'[<<r, n>>] = "none"
    BY DEF FutureUnused, Stale
  <2> QED BY <2>1, <2>2 DEF FutureUnused
<1>7. LedgerAgrees'
  <2> SUFFICES ASSUME NEW r \in Runs, IsActive(r)'
               PROVE  /\ Current(r)' \in Attempts
                      /\ attStatus'[Current(r)'] =
                           IF runStatus'[r] = "running" THEN "running" ELSE "queued"
    BY DEF LedgerAgrees
  <2>1. IsActive(r) /\ runStatus'[r] = runStatus[r] /\ \A n \in Seqs : ~Stale(<<r, n>>)
    BY DEF TypeOK
  <2>2. /\ Current(r) \in Attempts
        /\ attStatus[Current(r)] = IF runStatus[r] = "running" THEN "running" ELSE "queued"
    BY <2>1 DEF LedgerAgrees
  <2>3. runSeq[r] \in Seqs /\ ~Stale(Current(r))
    BY <2>1 DEF FutureUnused
  <2>4. attStatus'[Current(r)] = attStatus[Current(r)]
    BY <2>2, <2>3 DEF TypeOK
  <2> QED BY <2>1, <2>2, <2>4
<1>8. OneOpenRun'
  BY DEF OneOpenRun, TypeOK, Stale
<1>9. EndedIsOver'
  BY DEF EndedIsOver, TypeOK, FutureUnused, Stale
<1> QED BY <1>1, <1>2, <1>3, <1>4, <1>5, <1>6, <1>7, <1>8, <1>9

\* requeueOrphanedBuildJobs runs while no build handler lives (AtHome), so the
\* attempts it puts back into the queue have no handler.
LEMMA BootBuildStep ==
    ASSUME IInv, BootBuild
    PROVE  IInv'
<1> USE QueueConstants, PairOfAttempt, SeqsAreNat
    DEF IInv, Current, IsActive, Active, Parked, RunStatus, AttemptStatus, Cancellable, LiveBoss,
        BossState, Phases, Groups, ledger, physical, worker, archive, BootBuild
<1>1. SeenIsOwn'
  BY ArchiveFrame
<1>2. TypeOK'
  BY DEF TypeOK, Orphan
<1>3. HandlerOwns'
  BY DEF HandlerOwns, TypeOK, FutureUnused, OneHandler, AtHome, Orphan
<1>4. OneHandler'
  BY DEF OneHandler, TypeOK, Orphan
<1>5. AtHome'
  BY DEF AtHome, TypeOK, Orphan
<1>6. FutureUnused'
  BY DEF FutureUnused, TypeOK, Orphan
<1>7. LedgerAgrees'
  <2> SUFFICES ASSUME NEW r \in Runs, IsActive(r)'
               PROVE  /\ Current(r)' \in Attempts
                      /\ attStatus'[Current(r)'] =
                           IF runStatus'[r] = "running" THEN "running" ELSE "queued"
    BY DEF LedgerAgrees
  <2>1. IsActive(r)
    BY DEF TypeOK
  <2>2. /\ Current(r) \in Attempts /\ Current(r)' = Current(r) /\ runSeq[r] \in Seqs
        /\ attStatus[Current(r)] = IF runStatus[r] = "running" THEN "running" ELSE "queued"
    BY <2>1 DEF LedgerAgrees, FutureUnused
  <2>3. CASE Orphan(Current(r))
    <3>1. runStatus[r] = "running" /\ runStatus'[r] = "queued"
      BY <2>2, <2>3 DEF TypeOK, Orphan
    <3> QED BY <2>2, <2>3, <3>1
  <2>4. CASE ~Orphan(Current(r))
    <3>1. runStatus'[r] = runStatus[r] /\ attStatus'[Current(r)] = attStatus[Current(r)]
      BY <2>2, <2>4 DEF TypeOK
    <3> QED BY <2>2, <3>1
  <2> QED BY <2>3, <2>4
<1>8. OneOpenRun'
  BY DEF OneOpenRun, TypeOK, Orphan
<1>9. EndedIsOver'
  BY DEF EndedIsOver, TypeOK, FutureUnused, Orphan
<1> QED BY <1>1, <1>2, <1>3, <1>4, <1>5, <1>6, <1>7, <1>8, <1>9

\* A reply closes waiting follow-up attempts and their runs together.
LEMMA CancelFollowupsStep ==
    ASSUME IInv, NEW b \in Businesses, CancelFollowups(b)
    PROVE  IInv'
<1> USE QueueConstants, PairOfAttempt, SeqsAreNat
    DEF IInv, Current, IsActive, Active, Parked, RunStatus, AttemptStatus, Cancellable, LiveBoss,
        BossState, Phases, Groups, ledger, physical, worker, archive, CancelFollowups
<1>1. OneHandler' /\ AtHome'
  BY WorkerFrame
<1>2. SeenIsOwn'
  BY ArchiveFrame
<1>3. TypeOK'
  BY DEF TypeOK, WaitingFollowups
<1>4. HandlerOwns'
  BY DEF HandlerOwns, TypeOK, WaitingFollowups
<1>5. FutureUnused'
  BY DEF FutureUnused, TypeOK, WaitingFollowups
<1>6. LedgerAgrees'
  <2> SUFFICES ASSUME NEW r \in Runs, IsActive(r)'
               PROVE  /\ Current(r)' \in Attempts
                      /\ attStatus'[Current(r)'] =
                           IF runStatus'[r] = "running" THEN "running" ELSE "queued"
    BY DEF LedgerAgrees
  <2>1. /\ IsActive(r) /\ runStatus'[r] = runStatus[r]
        /\ \A n \in Seqs : <<r, n>> \notin WaitingFollowups(b)
    BY DEF TypeOK
  <2>2. /\ Current(r) \in Attempts /\ runSeq[r] \in Seqs
        /\ attStatus[Current(r)] = IF runStatus[r] = "running" THEN "running" ELSE "queued"
    BY <2>1 DEF LedgerAgrees, FutureUnused
  <2>3. attStatus'[Current(r)] = attStatus[Current(r)]
    BY <2>1, <2>2 DEF TypeOK
  <2> QED BY <2>1, <2>2, <2>3
<1>7. OneOpenRun'
  BY DEF OneOpenRun, TypeOK, WaitingFollowups
<1>8. EndedIsOver'
  BY DEF EndedIsOver, TypeOK, FutureUnused, WaitingFollowups
<1> QED BY <1>1, <1>2, <1>3, <1>4, <1>5, <1>6, <1>7, <1>8

\* An operator closes a parked attempt and its run together.
LEMMA DismissParkedStep ==
    ASSUME IInv, NEW a \in Attempts, DismissParked(a)
    PROVE  IInv'
<1> USE QueueConstants, PairOfAttempt, SeqsAreNat
    DEF IInv, Current, IsActive, Active, Parked, RunStatus, AttemptStatus, Cancellable, LiveBoss,
        BossState, Phases, Groups, ledger, physical, worker, archive, DismissParked
<1>1. OneHandler' /\ AtHome'
  BY WorkerFrame
<1>2. SeenIsOwn'
  BY ArchiveFrame
<1>3. TypeOK'
  BY DEF TypeOK
<1>4. HandlerOwns'
  BY DEF HandlerOwns, TypeOK
<1>5. FutureUnused'
  BY DEF FutureUnused, TypeOK
<1>6. LedgerAgrees'
  BY DEF LedgerAgrees, TypeOK
<1>7. OneOpenRun'
  BY DEF OneOpenRun, TypeOK
<1>8. EndedIsOver'
  BY DEF EndedIsOver, TypeOK
<1> QED BY <1>1, <1>2, <1>3, <1>4, <1>5, <1>6, <1>7, <1>8

\* The first UPDATE of an archive takes its snapshot.
LEMMA ArchiveAttemptsStep ==
    ASSUME IInv, NEW b \in Archivable, ArchiveAttempts(b)
    PROVE  IInv'
<1> USE QueueConstants, PairOfAttempt, SeqsAreNat
    DEF IInv, Current, IsActive, Active, Parked, RunStatus, AttemptStatus, Cancellable, LiveBoss,
        BossState, Phases, Groups, ledger, physical, worker, archive, ArchiveAttempts
<1>1. FutureUnused' /\ LedgerAgrees' /\ OneOpenRun' /\ EndedIsOver'
  BY LedgerFrame
<1>2. OneHandler' /\ AtHome'
  BY WorkerFrame
<1>3. TypeOK'
  BY DEF TypeOK
<1>4. HandlerOwns'
  BY DEF HandlerOwns, TypeOK
<1>5. SeenIsOwn'
  BY DEF SeenIsOwn, TypeOK
<1> QED BY <1>1, <1>2, <1>3, <1>4, <1>5

\* An archive closes every active run of its business, so what its older
\* snapshot missed belongs to no active run.
LEMMA ArchiveRunsStep ==
    ASSUME IInv, NEW b \in Archivable, ArchiveRuns(b)
    PROVE  IInv'
<1> USE QueueConstants, PairOfAttempt, SeqsAreNat
    DEF IInv, Current, IsActive, Active, Parked, RunStatus, AttemptStatus, Cancellable, LiveBoss,
        BossState, Phases, Groups, ledger, physical, worker, archive, ArchiveRuns
<1>1. OneHandler' /\ AtHome'
  BY WorkerFrame
<1>2. TypeOK'
  BY DEF TypeOK
<1>3. HandlerOwns'
  BY DEF HandlerOwns, TypeOK
<1>4. FutureUnused'
  BY DEF FutureUnused, TypeOK
<1>5. LedgerAgrees'
  BY DEF LedgerAgrees, TypeOK, FutureUnused, SeenIsOwn
<1>6. OneOpenRun'
  BY DEF OneOpenRun, TypeOK
<1>7. SeenIsOwn'
  BY DEF SeenIsOwn, TypeOK
<1>8. EndedIsOver'
  BY DEF EndedIsOver, TypeOK, FutureUnused
<1> QED BY <1>1, <1>2, <1>3, <1>4, <1>5, <1>6, <1>7, <1>8

\* The commit of an archive moves no run.
LEMMA ArchiveCommitStep ==
    ASSUME IInv, NEW b \in Archivable, ArchiveCommit(b)
    PROVE  IInv'
<1> USE QueueConstants, PairOfAttempt, SeqsAreNat
    DEF IInv, Current, IsActive, Active, Parked, RunStatus, AttemptStatus, Cancellable, LiveBoss,
        BossState, Phases, Groups, ledger, physical, worker, archive, ArchiveCommit
<1>1. FutureUnused' /\ LedgerAgrees' /\ OneOpenRun' /\ EndedIsOver'
  BY LedgerFrame
<1>2. OneHandler' /\ AtHome'
  BY WorkerFrame
<1>3. SeenIsOwn'
  BY ArchiveFrame
<1>4. TypeOK'
  BY DEF TypeOK
<1>5. HandlerOwns'
  BY DEF HandlerOwns, TypeOK
<1> QED BY <1>1, <1>2, <1>3, <1>4, <1>5

\* Unarchiving moves no run.
LEMMA UnarchiveStep ==
    ASSUME IInv, NEW b \in Archivable, Unarchive(b)
    PROVE  IInv'
<1> USE QueueConstants, PairOfAttempt, SeqsAreNat
    DEF IInv, Current, IsActive, Active, Parked, RunStatus, AttemptStatus, Cancellable, LiveBoss,
        BossState, Phases, Groups, ledger, physical, worker, archive, Unarchive
<1>1. FutureUnused' /\ LedgerAgrees' /\ OneOpenRun' /\ EndedIsOver'
  BY LedgerFrame
<1>2. OneHandler' /\ AtHome'
  BY WorkerFrame
<1>3. SeenIsOwn'
  BY ArchiveFrame
<1>4. TypeOK'
  BY DEF TypeOK
<1>5. HandlerOwns'
  BY DEF HandlerOwns, TypeOK
<1> QED BY <1>1, <1>2, <1>3, <1>4, <1>5

\* The empty ledger satisfies the inductive invariant.
THEOREM InitHolds == Init => IInv
<1> USE QueueConstants, PairOfAttempt, SeqsAreNat
    DEF Init, IInv, Current, IsActive, Active, Parked, RunStatus, AttemptStatus, BossState,
        Phases, Groups
<1> SUFFICES ASSUME Init PROVE IInv
  OBVIOUS
<1>1. TypeOK
  BY DEF TypeOK
<1>2. HandlerOwns /\ OneHandler /\ AtHome
  BY DEF HandlerOwns, OneHandler, AtHome
<1>3. FutureUnused
  BY DEF FutureUnused
<1>4. LedgerAgrees /\ OneOpenRun /\ SeenIsOwn /\ EndedIsOver
  BY DEF LedgerAgrees, OneOpenRun, SeenIsOwn, EndedIsOver
<1> QED BY <1>1, <1>2, <1>3, <1>4

\* Every transaction, delivery, fault and boot pass preserves the invariant.
THEOREM NextPreserves == IInv /\ [Next]_vars => IInv'
<1> SUFFICES ASSUME IInv, [Next]_vars PROVE IInv'
  OBVIOUS
<1>1. CASE \E r \in Runs : Enqueue(r)
  BY <1>1, EnqueueStep
<1>2. CASE \E w \in Workers : ContinueAfterRateLimit(w)
  BY <1>2, ContinueAfterRateLimitStep
<1>3. CASE \E w \in Workers, a \in Attempts : FetchJob(w, a)
  BY <1>3, FetchJobStep
<1>4. CASE \E w \in Workers : ReadArchived(w)
  BY <1>4, ReadArchivedStep
<1>5. CASE \E w \in Workers : DropArchived(w)
  BY <1>5, DropArchivedStep
<1>6. CASE \E w \in Workers : Claim(w)
  BY <1>6, ClaimStep
<1>7. CASE \E w \in Workers : IgnoreDelivery(w)
  BY <1>7, IgnoreDeliveryStep
<1>8. CASE \E w \in Workers : CommitSuccess(w)
  BY <1>8, CommitSuccessStep
<1>9. CASE \E w \in Workers : CommitSkip(w)
  BY <1>9, CommitSkipStep
<1>10. CASE \E w \in Workers : CommitFailure(w)
  BY <1>10, CommitFailureStep
<1>11. CASE \E w \in Workers : CommitNeedsHuman(w)
  BY <1>11, CommitNeedsHumanStep
<1>12. CASE \E w \in Workers : IgnoreResult(w)
  BY <1>12, IgnoreResultStep
<1>13. CASE \E w \in Workers : BossComplete(w)
  BY <1>13, BossCompleteStep
<1>14. CASE \E w \in Workers : BossFail(w)
  BY <1>14, BossFailStep
<1>15. CASE \E w \in Workers : DatabaseError(w)
  BY <1>15, DatabaseErrorStep
<1>16. CASE \E g \in Groups : Crash(g)
  BY <1>16, CrashStep
<1>17. CASE \E a \in Attempts : BossExpire(a)
  BY <1>17, BossExpireStep
<1>18. CASE BootCore
  BY <1>18, BootCoreStep
<1>19. CASE BootBuild
  BY <1>19, BootBuildStep
<1>20. CASE \E b \in Businesses : CancelFollowups(b)
  BY <1>20, CancelFollowupsStep
<1>21. CASE \E a \in Attempts : DismissParked(a)
  BY <1>21, DismissParkedStep
<1>22. CASE \E b \in Archivable : ArchiveAttempts(b)
  BY <1>22, ArchiveAttemptsStep
<1>23. CASE \E b \in Archivable : ArchiveRuns(b)
  BY <1>23, ArchiveRunsStep
<1>24. CASE \E b \in Archivable : ArchiveCommit(b)
  BY <1>24, ArchiveCommitStep
<1>25. CASE \E b \in Archivable : Unarchive(b)
  BY <1>25, UnarchiveStep
<1>26. CASE UNCHANGED vars
  BY <1>26 DEF IInv, TypeOK, HandlerOwns, OneHandler, AtHome, FutureUnused, LedgerAgrees,
    OneOpenRun, SeenIsOwn, EndedIsOver, Current, IsActive, vars, ledger, physical,
    worker, archive
<1> QED
  BY <1>1, <1>2, <1>3, <1>4, <1>5, <1>6, <1>7, <1>8, <1>9, <1>10, <1>11, <1>12, <1>13, <1>14, <1>15, <1>16, <1>17, <1>18, <1>19, <1>20, <1>21, <1>22, <1>23, <1>24, <1>25, <1>26
  DEF Next, Progress, HandlerEnds

\* The inductive invariant holds throughout.
THEOREM Inductive == Spec => []IInv
BY InitHolds, NextPreserves, PTL DEF Spec

-----------------------------------------------------------------------------
(***************************************************************************)
(* The properties.                                                         *)
(***************************************************************************)

\* Every variable keeps its type: statuses of workflow_job_runs, workflow_jobs
\* and pgboss.job, phases of processJob.
THEOREM TypeCorrect == Spec => []TypeOK
BY Inductive, PTL DEF IInv

\* enqueueInTransaction and the writers of run statuses never leave a key with
\* two active runs.
THEOREM KeyHasOneRun == Spec => []OneOpenRun
BY Inductive, PTL DEF IInv

\* processJob, continueAfterRateLimit, the boot passes and every cancelling
\* service keep workflow_job_runs and workflow_jobs in agreement.
THEOREM TablesAgree == Spec => []LedgerAgrees
BY Inductive, PTL DEF IInv

\* The claim transaction lets one worker at a time into an attempt's handler,
\* however often pg-boss delivers it.
THEOREM NoConcurrentHandlers == Spec => []OneHandler
BY Inductive, PTL DEF IInv

\* Of all the workers in handlers of a key, the fences of processJob let one
\* at most write its result.
THEOREM OnlyOneCommits == Spec => []OneCommitter
<1>1. IInv => OneCommitter
  <2> SUFFICES ASSUME IInv,
                      NEW v \in Workers, NEW w \in Workers,
                      pc[v] = "handler", pc[w] = "handler",
                      KeyOf[job[v][1]] = KeyOf[job[w][1]],
                      Fenced(job[v]), Fenced(job[w])
               PROVE  v = w
    BY DEF OneCommitter
  <2>1. job[v] \in Attempts /\ job[w] \in Attempts
    BY DEF IInv, TypeOK
  <2>2. job[v][1] = job[w][1]
    BY <2>1, PairOfAttempt DEF IInv, OneOpenRun, IsActive, Active, Fenced
  <2>3. job[v] = job[w]
    BY <2>1, <2>2, PairOfAttempt DEF Fenced
  <2> QED BY <2>3 DEF IInv, OneHandler
<1> QED BY <1>1, Inductive, PTL

\* The ways the status of a run may change.
StatusMove(s, t) ==
    \/ t = s
    \/ s \in Active /\ t \in RunStatus \ {"none"}
    \/ s \in Parked /\ t = "cancelled"
    \/ s = "cancelled" /\ t = "skipped"

Opens(r) ==
    /\ runStatus[r] = "none"
    /\ \A s \in Runs : KeyOf[s] = KeyOf[r] => ~IsActive(s)
    /\ runStatus' = [runStatus EXCEPT ![r] = "queued"]

\* A step opens one run, or moves some of the runs on.
LEMMA StepMoves ==
    ASSUME IInv, [Next]_vars
    PROVE  \/ \E r \in Runs : Opens(r)
           \/ /\ runStatus' \in [Runs -> RunStatus]
              /\ \A r \in Runs : StatusMove(runStatus[r], runStatus'[r])
<1> DEFINE Moves == \A r \in Runs : StatusMove(runStatus[r], runStatus'[r])
<1> USE PairOfAttempt DEF IInv, TypeOK
<1>0. runStatus' \in [Runs -> RunStatus]
  BY NextPreserves DEF IInv, TypeOK
<1>1. CASE \E r \in Runs : Enqueue(r)
  BY <1>1 DEF Enqueue, KeyIsFree, Opens
<1>2. CASE \E w \in Workers : ContinueAfterRateLimit(w) \/ CommitSuccess(w)
                              \/ CommitFailure(w) \/ CommitNeedsHuman(w)
  <2>1. Moves
    BY <1>2 DEF ContinueAfterRateLimit, CommitSuccess, CommitFailure, CommitNeedsHuman,
      FailureStatus, Fenced, StatusMove, Active, Parked, RunStatus
  <2> QED BY <1>0, <2>1
<1>3. CASE \E w \in Workers : Claim(w)
  <2>1. Moves
    BY <1>3 DEF Claim, Claimable, StatusMove, Active, Parked, RunStatus
  <2> QED BY <1>0, <2>1
<1>4. CASE \E w \in Workers : CommitSkip(w)
  <2> SUFFICES ASSUME NEW w \in Workers, CommitSkip(w), NEW r \in Runs
               PROVE  StatusMove(runStatus[r], runStatus'[r])
    BY <1>0, <1>4
  <2>1. job[w] \in Attempts /\ attStatus[job[w]] = "running"
    BY DEF CommitSkip
  <2>2. CASE r = job[w][1] /\ runSeq[r] = job[w][2]
    <3>1. Current(r) = job[w]
      BY <2>1, <2>2 DEF Current
    <3>2. runStatus[r] \in Active \cup {"cancelled"}
      <4>1. runStatus[r] \notin {"succeeded", "skipped"} \cup Parked
        BY <2>1, <3>1 DEF EndedIsOver
      <4>2. runStatus[r] # "none"
        BY <2>1, <2>2, QueueConstants DEF FutureUnused, Attempts, Seqs
      <4> QED BY <4>1, <4>2 DEF RunStatus
    <3>3. runStatus'[r] = "skipped"
      BY <2>2 DEF CommitSkip
    <3> QED BY <3>2, <3>3 DEF StatusMove, RunStatus
  <2>3. CASE ~(r = job[w][1] /\ runSeq[r] = job[w][2])
    <3>1. runStatus'[r] = runStatus[r]
      BY <2>1, <2>3 DEF CommitSkip
    <3> QED BY <3>1 DEF StatusMove
  <2> QED BY <2>2, <2>3
<1>5. CASE \E w \in Workers : DropArchived(w)
  <2>1. Moves
    BY <1>5 DEF DropArchived, StatusMove, Active, Parked, RunStatus
  <2> QED BY <1>0, <2>1
<1>6. CASE BootCore \/ BootBuild
  <2>1. ASSUME NEW r \in Runs, BootCore PROVE StatusMove(runStatus[r], runStatus'[r])
    <3>1. ASSUME NEW n \in Seqs, Stale(<<r, n>>) PROVE runStatus[r] \in Active
      BY <3>1 DEF Stale
    <3>2. runStatus'[r] = IF \E n \in Seqs : Stale(<<r, n>>) THEN "failed" ELSE runStatus[r]
      BY <2>1 DEF BootCore
    <3> QED BY <3>1, <3>2 DEF StatusMove, RunStatus, Parked
  <2>2. ASSUME NEW r \in Runs, BootBuild PROVE StatusMove(runStatus[r], runStatus'[r])
    <3>1. runStatus'[r] = runStatus[r] \/ (runStatus[r] = "running" /\ runStatus'[r] = "queued")
      BY <2>2 DEF BootBuild
    <3> QED BY <3>1 DEF StatusMove, RunStatus, Active
  <2> QED BY <1>0, <1>6, <2>1, <2>2
<1>7. CASE \E b \in Businesses : CancelFollowups(b)
  <2>1. Moves
    BY <1>7 DEF CancelFollowups, IsActive, StatusMove, Active, Parked, RunStatus
  <2> QED BY <1>0, <2>1
<1>8. CASE (\E a \in Attempts : DismissParked(a)) \/ (\E b \in Archivable : ArchiveRuns(b))
  <2>1. ASSUME NEW a \in Attempts, DismissParked(a), NEW r \in Runs
        PROVE  StatusMove(runStatus[r], runStatus'[r])
    BY <2>1 DEF DismissParked, StatusMove
  <2>2. ASSUME NEW b \in Archivable, ArchiveRuns(b), NEW r \in Runs
        PROVE  StatusMove(runStatus[r], runStatus'[r])
    <3>1. \/ runStatus'[r] = runStatus[r]
          \/ runStatus[r] \in Cancellable /\ runStatus'[r] = "cancelled"
      BY <2>2 DEF ArchiveRuns
    <3> QED BY <3>1 DEF StatusMove, Cancellable, RunStatus
  <2> QED BY <1>0, <1>8, <2>1, <2>2
<1>9. CASE UNCHANGED runStatus
  BY <1>0, <1>9 DEF StatusMove
<1>10. \/ \E w \in Workers, a \in Attempts : FetchJob(w, a)
       \/ \E w \in Workers : \/ ReadArchived(w) \/ IgnoreDelivery(w) \/ IgnoreResult(w)
                             \/ BossComplete(w) \/ BossFail(w) \/ DatabaseError(w)
       \/ \E g \in Groups : Crash(g)
       \/ \E a \in Attempts : BossExpire(a)
       \/ \E b \in Archivable : ArchiveAttempts(b) \/ ArchiveCommit(b) \/ Unarchive(b)
       \/ UNCHANGED vars
       => UNCHANGED runStatus
  BY DEF FetchJob, ReadArchived, IgnoreDelivery, IgnoreResult, BossComplete, BossFail,
    DatabaseError, Crash, BossExpire, ArchiveAttempts, ArchiveCommit, Unarchive, vars, ledger
<1> QED
  BY <1>1, <1>2, <1>3, <1>4, <1>5, <1>6, <1>7, <1>8, <1>9, <1>10
  DEF Next, Progress, HandlerEnds

\* No delivery, retry, requeue or skip opens a closed run again, and the
\* result of a run that succeeded is never overwritten.
THEOREM ClosedRunsStayClosed == Spec => RunNeverReopens
<1>1. IInv /\ [Next]_vars =>
        [\A r \in Runs :
           runStatus[r] \notin Active \cup {"none"} =>
             /\ runStatus'[r] \notin Active \cup {"none"}
             /\ runStatus[r] \in {"succeeded", "skipped"} => runStatus'[r] = runStatus[r]]_vars
  <2> SUFFICES ASSUME IInv, [Next]_vars, NEW r \in Runs,
                      runStatus[r] \notin Active \cup {"none"}
               PROVE  /\ runStatus'[r] \notin Active \cup {"none"}
                      /\ runStatus[r] \in {"succeeded", "skipped"} => runStatus'[r] = runStatus[r]
    OBVIOUS
  <2>1. StatusMove(runStatus[r], runStatus'[r]) \/ runStatus'[r] = runStatus[r]
    BY StepMoves DEF Opens, IInv, TypeOK
  <2>2. runStatus[r] \in RunStatus
    BY DEF IInv, TypeOK
  <2> QED BY <2>1, <2>2 DEF StatusMove, Active, Parked, RunStatus
<1> QED BY <1>1, Inductive, PTL DEF Spec, RunNeverReopens

\* WorkflowQueue implements RunLedger: with attempts, workers and pg-boss hidden,
\* runs open once per key and end once.
THEOREM ImplementsRunLedger == Spec => LedgerSpec
<1> DEFINE seenBy(s) == [r \in Runs |-> Outcome(s[r])]
<1>1. Init => Ledger!Init
  BY DEF Init, Ledger!Init, Outcome, Active, Parked
<1>2. IInv /\ [Next]_vars => [Ledger!Next]_([r \in Runs |-> Outcome(runStatus[r])])
  <2> SUFFICES ASSUME IInv, [Next]_vars PROVE Ledger!Next
    OBVIOUS
  <2>1. ASSUME NEW r \in Runs, Opens(r) PROVE Ledger!Open(r)
    <3>1. runStatus \in [Runs -> RunStatus]
      BY DEF IInv, TypeOK
    <3>2. \A s \in Runs : ~IsActive(s) => Outcome(runStatus[s]) # "open"
      BY DEF Outcome, IsActive, Active, Parked
    <3>3. Outcome(runStatus[r]) = "unused" /\ Outcome("queued") = "open"
      BY <2>1 DEF Opens, Outcome, Active, Parked
    <3>4. [s \in Runs |-> Outcome(runStatus'[s])] =
            [[s \in Runs |-> Outcome(runStatus[s])] EXCEPT ![r] = "open"]
      BY <2>1, <3>1, <3>3 DEF Opens
    <3> QED BY <2>1, <3>2, <3>3, <3>4 DEF Opens, Ledger!Open
  <2>2. ASSUME runStatus' \in [Runs -> RunStatus],
               \A r \in Runs : StatusMove(runStatus[r], runStatus'[r])
        PROVE  Ledger!End
    <3>1. \A s \in RunStatus : Outcome(s) \in Ledger!Outcome
      BY DEF Outcome, Ledger!Outcome
    <3>2. ASSUME NEW r \in Runs
          PROVE  \/ Outcome(runStatus'[r]) = Outcome(runStatus[r])
                 \/ <<Outcome(runStatus[r]), Outcome(runStatus'[r])>> \in Ledger!Moves
      <4>1. StatusMove(runStatus[r], runStatus'[r]) /\ runStatus[r] \in RunStatus
        BY <2>2 DEF IInv, TypeOK
      <4>2. ASSUME runStatus[r] \in Active, runStatus'[r] \in RunStatus \ {"none"}
            PROVE  /\ Outcome(runStatus[r]) = "open"
                   /\ Outcome(runStatus'[r]) \in {"open", "done", "parked", "dropped"}
        BY <4>2 DEF Outcome, Active, Parked, RunStatus
      <4>3. ASSUME runStatus[r] \in Parked, runStatus'[r] = "cancelled"
            PROVE  Outcome(runStatus[r]) = "parked" /\ Outcome(runStatus'[r]) = "dropped"
        BY <4>3 DEF Outcome, Active, Parked
      <4>4. ASSUME runStatus[r] = "cancelled", runStatus'[r] = "skipped"
            PROVE  Outcome(runStatus[r]) = "dropped" /\ Outcome(runStatus'[r]) = "done"
        BY <4>4 DEF Outcome, Active, Parked
      <4> QED BY <4>1, <4>2, <4>3, <4>4 DEF StatusMove, Ledger!Moves
    <3> QED BY <2>2, <3>1, <3>2 DEF Ledger!End
  <2> QED BY <2>1, <2>2, StepMoves DEF Ledger!Next
<1> QED BY <1>1, <1>2, Inductive, PTL DEF Spec, LedgerSpec, Ledger!Spec

-----------------------------------------------------------------------------
(***************************************************************************)
(* Carrying, while nothing has failed.                                     *)
(***************************************************************************)
\* Both containers are running.
AllUp == \A g \in Groups : up[g]

\* Attempts past the current one have no physical job and no tries either.
FutureUncounted ==
    \A r \in Runs, n \in Seqs : runSeq[r] < n =>
        boss[<<r, n>>] = "none" /\ tries[<<r, n>>] = 0 /\ refetched[<<r, n>>] = 0

\* pg-boss and the workers agree who has which job: nothing expires while a worker
\* answers in time, so nothing is delivered twice.
DeliveredOnce ==
    /\ \A w \in Workers : pc[w] # "idle" => boss[job[w]] \in {"active", "cancelled"}
    /\ \A v, w \in Workers : pc[v] # "idle" /\ pc[w] # "idle" /\ job[v] = job[w] => v = w
    /\ \A a \in Attempts : boss[a] = "active" => \E w \in Workers : pc[w] # "idle" /\ job[w] = a

\* The ledger's count of tries is one ahead of pg-boss's count of retries from
\* the claim to the next delivery, and equal to it otherwise.
CountersAgree ==
    /\ \A a \in Attempts : boss[a] = "created" => tries[a] = 0 /\ refetched[a] = 0
    /\ \A a \in Attempts : boss[a] = "retry" => tries[a] = refetched[a] + 1
    /\ \A w \in Workers : pc[w] \in {"gate", "drop", "claim"} => tries[job[w]] = refetched[job[w]]
    /\ \A w \in Workers : pc[w] \in {"handler", "fail"} => tries[job[w]] = refetched[job[w]] + 1

\* The current attempt of an active run, queued.
Waiting(a) == attStatus[a] = "queued" /\ runSeq[a[1]] = a[2] /\ IsActive(a[1])

\* An attempt that waits has a live job, and no worker is about to end that job;
\* a job is cancelled with its attempt only.
WaitingLives ==
    /\ \A a \in Attempts : Waiting(a) => boss[a] \in LiveBoss
    /\ \A a \in Attempts : boss[a] = "cancelled" => attStatus[a] \notin {"queued", "running"}
    /\ \A w \in Workers : pc[w] = "complete" => ~Waiting(job[w])
    /\ \A w \in Workers : pc[w] = "fail" /\ Waiting(job[w]) =>
         tries[job[w]] <= RetryLimit[KeyOf[job[w][1]]]

\* A running run has its worker.
RunningLives ==
    \A r \in Runs : runStatus[r] = "running" =>
        \E w \in Workers : pc[w] = "handler" /\ job[w] = Current(r)

\* What holds until something fails.
Smooth ==
    /\ AllUp
    /\ FutureUncounted
    /\ DeliveredOnce
    /\ CountersAgree
    /\ WaitingLives
    /\ RunningLives

\* Smooth gives what RunIsCarried asks.
LEMMA SmoothCarries == IInv /\ Smooth => RunIsCarried
<1> SUFFICES ASSUME IInv, Smooth, NEW r \in Runs, IsActive(r), runStatus[r] # "running"
             PROVE  boss[Current(r)] \in LiveBoss
  BY DEF RunIsCarried, Smooth, RunningLives
<1>1. Current(r) \in Attempts /\ attStatus[Current(r)] = "queued"
  BY DEF IInv, LedgerAgrees
<1>2. Waiting(Current(r))
  BY <1>1 DEF Waiting, Current
<1> QED BY <1>1, <1>2 DEF Smooth, WaitingLives

\* A running run keeps its worker in a step that starts no run and takes no worker
\* off the current attempt of a run that goes on running.
LEMMA RunningKept ==
    ASSUME IInv, RunningLives,
           \A r \in Runs : runStatus'[r] = "running" =>
               runStatus[r] = "running" /\ runSeq'[r] = runSeq[r],
           \A v \in Workers : pc[v] = "handler" /\ runStatus'[job[v][1]] = "running"
                                /\ job[v] = Current(job[v][1])
               => pc'[v] = "handler" /\ job'[v] = job[v]
    PROVE  RunningLives'
<1> SUFFICES ASSUME NEW r \in Runs, runStatus'[r] = "running"
             PROVE  \E w \in Workers : pc'[w] = "handler" /\ job'[w] = Current(r)'
  BY DEF RunningLives
<1>1. Current(r)' = Current(r) /\ Current(r)[1] = r
  BY DEF Current
<1>2. PICK w \in Workers : pc[w] = "handler" /\ job[w] = Current(r)
  BY DEF RunningLives
<1> QED BY <1>1, <1>2

\* A worker that ends its delivery: the job is one that does not wait.
LEMMA EndsCarries ==
    ASSUME IInv, Smooth, NEW w \in Workers,
           pc[w] \in {"drop", "claim", "handler"},
           pc' = [pc EXCEPT ![w] = "complete"],
           UNCHANGED <<runSeq, tries, boss, refetched, job, up>>,
           \A r \in Runs : runStatus'[r] \in Active => runStatus'[r] = runStatus[r],
           \A a \in Attempts : attStatus'[a] \in {"queued", "running"} => attStatus'[a] = attStatus[a],
           ~Waiting(job[w])',
           ~(pc[w] = "handler" /\ runStatus'[job[w][1]] = "running" /\ job[w] = Current(job[w][1]))
    PROVE  Smooth'
<1> USE PairOfAttempt DEF IInv, TypeOK, Smooth, IsActive, Active, Phases
<1>1. AllUp' /\ FutureUncounted'
  BY DEF AllUp, FutureUncounted
<1>2. DeliveredOnce'
  BY DEF DeliveredOnce
<1>3. CountersAgree'
  BY DEF CountersAgree
<1>4. \A a \in Attempts : Waiting(a)' => Waiting(a)
  BY DEF Waiting
<1>5. WaitingLives'
  BY <1>4 DEF WaitingLives
<1>6. RunningLives'
  BY RunningKept
<1> QED BY <1>1, <1>2, <1>3, <1>5, <1>6

\* A transaction beside the workers that closes runs and attempts: it may take a
\* physical job away with its attempt.
LEMMA ClosesCarries ==
    ASSUME IInv, IInv', Smooth,
           UNCHANGED <<runSeq, tries, refetched, pc, job, up>>,
           \A r \in Runs : runStatus'[r] \in Active => runStatus'[r] = runStatus[r],
           \A a \in Attempts : attStatus'[a] \in {"queued", "running"} => attStatus'[a] = attStatus[a],
           \A a \in Attempts : \/ boss'[a] = boss[a]
                               \/ /\ boss[a] \in LiveBoss /\ boss'[a] = "cancelled"
                                  /\ attStatus'[a] \notin {"queued", "running"}
    PROVE  Smooth'
<1> USE PairOfAttempt DEF IInv, TypeOK, Smooth, IsActive, Active, Phases
<1>1. AllUp'
  BY DEF AllUp
<1>2. FutureUncounted'
  <2>1. \A a \in Attempts : boss[a] = "none" => boss'[a] = "none"
    BY DEF LiveBoss
  <2> QED BY <2>1 DEF FutureUncounted
<1>3. DeliveredOnce'
  BY DEF DeliveredOnce, LiveBoss
<1>4. CountersAgree'
  BY DEF CountersAgree
<1>5. \A a \in Attempts : Waiting(a)' => Waiting(a)
  BY DEF Waiting
<1>6. WaitingLives'
  <2>1. \A a \in Attempts : Waiting(a)' => boss'[a] \in LiveBoss
    BY <1>5 DEF WaitingLives, Waiting
  <2> QED BY <1>5, <2>1 DEF WaitingLives
<1>7. RunningLives'
  BY RunningKept
<1> QED BY <1>1, <1>2, <1>3, <1>4, <1>6, <1>7

\* What the single transactions and deliveries do: an enqueue brings its own job,
LEMMA EnqueueCarries ==
    ASSUME IInv, Smooth, NEW r \in Runs, Enqueue(r)
    PROVE  Smooth'
<1> DEFINE b == <<r, 1>>
<1> USE DEF IInv, TypeOK, Smooth
<1>1. /\ b \in Attempts
      /\ boss[b] = "none" /\ tries[b] = 0 /\ refetched[b] = 0 /\ attStatus[b] = "none"
  BY QueueConstants, PairOfAttempt, SeqsAreNat DEF FutureUncounted, FutureUnused, Enqueue
<1>2. /\ boss' = [boss EXCEPT ![b] = "created"]
      /\ attStatus' = [attStatus EXCEPT ![b] = "queued"]
      /\ UNCHANGED <<tries, refetched, pc, job, up>>
  BY DEF Enqueue, worker
<1>3. AllUp' /\ FutureUncounted'
  BY QueueConstants, PairOfAttempt, SeqsAreNat
     DEF AllUp, FutureUncounted, Enqueue, FutureUnused
<1>4. \A c \in Attempts : Waiting(c)' => c = b \/ Waiting(c)
  BY PairOfAttempt DEF Waiting, IsActive, Active, Enqueue
<1> HIDE DEF b
<1>5. \A w \in Workers : pc[w] # "idle" => job[w] # b
  BY <1>1 DEF DeliveredOnce
<1>6. DeliveredOnce'
  BY <1>1, <1>2, <1>5 DEF DeliveredOnce
<1>7. CountersAgree'
  BY <1>1, <1>2, <1>5 DEF CountersAgree, Phases
<1>8. WaitingLives'
  BY <1>1, <1>2, <1>4, <1>5 DEF WaitingLives, LiveBoss, Phases
<1>9. RunningLives'
  BY RunningKept DEF Enqueue, worker
<1> QED BY <1>3, <1>6, <1>7, <1>8, <1>9

\* a pause hands the run to a successor with a job and counters of its own,
LEMMA ContinueAfterRateLimitCarries ==
    ASSUME IInv, Smooth, NEW w \in Workers, ContinueAfterRateLimit(w)
    PROVE  Smooth'
<1> DEFINE a == job[w]
           b == <<job[w][1], job[w][2] + 1>>
<1> USE DEF IInv, TypeOK, Smooth
<1>1. /\ a \in Attempts /\ b \in Attempts /\ a # b
      /\ boss[b] = "none" /\ tries[b] = 0 /\ refetched[b] = 0 /\ attStatus[b] = "none"
  BY QueueConstants, PairOfAttempt, SeqsAreNat
     DEF FutureUncounted, FutureUnused, ContinueAfterRateLimit, Fenced, Attempts
<1>2. /\ boss' = [boss EXCEPT ![b] = "created"]
      /\ attStatus' = [attStatus EXCEPT ![a] = "retry_wait", ![b] = "queued"]
      /\ \A c \in Attempts : c # a => tries'[c] = tries[c]
      /\ pc[w] = "handler" /\ pc' = [pc EXCEPT ![w] = "complete"]
      /\ UNCHANGED <<refetched, job, up>>
  BY DEF ContinueAfterRateLimit, Successor, TriesAfterPause
<1>3. AllUp'
  BY <1>2 DEF AllUp
<1>4. FutureUncounted'
  <2> SUFFICES ASSUME NEW r \in Runs, NEW n \in Seqs, runSeq'[r] < n
               PROVE  boss'[<<r, n>>] = "none" /\ tries'[<<r, n>>] = 0 /\ refetched'[<<r, n>>] = 0
    BY DEF FutureUncounted
  <2>1. runSeq[r] < n /\ <<r, n>> # a /\ <<r, n>> # b
    BY <1>1, QueueConstants, PairOfAttempt, SeqsAreNat DEF ContinueAfterRateLimit, Fenced
  <2> QED BY <1>1, <1>2, <2>1, PairOfAttempt DEF FutureUncounted
<1>5. \A c \in Attempts : Waiting(c)' => c = b \/ (c # a /\ Waiting(c))
  BY <1>1, PairOfAttempt
     DEF Waiting, IsActive, Active, ContinueAfterRateLimit, Fenced, Successor
<1> HIDE DEF b
<1>6. \A v \in Workers : pc[v] # "idle" => job[v] # b /\ (v # w => job[v] # a)
  BY <1>1, <1>2 DEF DeliveredOnce
<1>7. DeliveredOnce'
  BY <1>1, <1>2, <1>6 DEF DeliveredOnce
<1>8. CountersAgree'
  <2>1. boss[a] \in {"active", "cancelled"}
    BY <1>2 DEF DeliveredOnce
  <2> QED BY <1>1, <1>2, <1>6, <2>1 DEF CountersAgree, Phases
<1>9. WaitingLives'
  BY <1>1, <1>2, <1>5, <1>6 DEF WaitingLives, LiveBoss, Phases
<1>10. RunningLives'
  BY PairOfAttempt, RunningKept DEF ContinueAfterRateLimit, Phases
<1> QED BY <1>3, <1>4, <1>7, <1>8, <1>9, <1>10

\* a delivery brings pg-boss's counter level with the ledger's,
LEMMA FetchJobCarries ==
    ASSUME IInv, Smooth, NEW w \in Workers, NEW a \in Attempts, FetchJob(w, a)
    PROVE  Smooth'
<1> USE DEF IInv, TypeOK, Smooth, FetchJob, ledger, archive, Phases
<1>1. AllUp' /\ FutureUncounted'
  BY PairOfAttempt DEF AllUp, FutureUncounted
<1>2. \A v \in Workers : pc[v] # "idle" => job[v] # a
  BY DEF DeliveredOnce
<1>3. DeliveredOnce'
  <2>1. \A v \in Workers : pc'[v] # "idle" => boss'[job'[v]] \in {"active", "cancelled"}
    BY <1>2 DEF DeliveredOnce
  <2>2. \A u, v \in Workers : pc'[u] # "idle" /\ pc'[v] # "idle" /\ job'[u] = job'[v] => u = v
    BY <1>2 DEF DeliveredOnce
  <2>3. \A c \in Attempts : boss'[c] = "active" => \E v \in Workers : pc'[v] # "idle" /\ job'[v] = c
    <3> SUFFICES ASSUME NEW c \in Attempts, boss'[c] = "active"
                 PROVE  \E v \in Workers : pc'[v] # "idle" /\ job'[v] = c
      OBVIOUS
    <3>1. CASE c = a
      BY <3>1
    <3>2. CASE c # a
      <4>1. PICK v \in Workers : pc[v] # "idle" /\ job[v] = c
        BY <3>2 DEF DeliveredOnce
      <4> QED BY <4>1
    <3> QED BY <3>1, <3>2
  <2> QED BY <2>1, <2>2, <2>3 DEF DeliveredOnce
<1>4. CountersAgree'
  BY <1>2 DEF CountersAgree
<1>5. WaitingLives'
  <2>1. \A c \in Attempts : Waiting(c)' = Waiting(c)
    BY DEF Waiting, IsActive
  <2> QED BY <1>2, <2>1 DEF WaitingLives, LiveBoss
<1>6. RunningLives'
  <2>1. \A v \in Workers : pc[v] = "handler" => pc'[v] = "handler" /\ job'[v] = job[v]
    OBVIOUS
  <2> QED BY <2>1, RunningKept
<1> QED BY <1>1, <1>3, <1>4, <1>5, <1>6

\* the archive gate only decides where the worker goes,
LEMMA ReadArchivedCarries ==
    ASSUME IInv, Smooth, NEW w \in Workers, ReadArchived(w)
    PROVE  Smooth'
<1> USE DEF IInv, TypeOK, Smooth, ReadArchived, ledger, physical, archive, Phases
<1>1. AllUp' /\ FutureUncounted'
  BY DEF AllUp, FutureUncounted
<1>2. DeliveredOnce'
  BY DEF DeliveredOnce
<1>3. CountersAgree'
  BY DEF CountersAgree
<1>4. WaitingLives'
  BY DEF WaitingLives, Waiting, IsActive
<1>5. RunningLives'
  <2>1. \A v \in Workers : pc[v] = "handler" => pc'[v] = "handler" /\ job'[v] = job[v]
    OBVIOUS
  <2> QED BY <2>1, RunningKept
<1> QED BY <1>1, <1>2, <1>3, <1>4, <1>5

\* a claim puts the ledger's counter one ahead and the run under its worker,
LEMMA ClaimCarries ==
    ASSUME IInv, Smooth, NEW w \in Workers, Claim(w)
    PROVE  Smooth'
<1> USE PairOfAttempt DEF IInv, TypeOK, Smooth, Claim, Claimable, physical, archive, Phases
<1>1. AllUp'
  BY DEF AllUp
<1>2. FutureUncounted'
  BY DEF FutureUncounted
<1>3. DeliveredOnce'
  BY DEF DeliveredOnce
<1>4. \A v \in Workers : pc[v] # "idle" /\ v # w => job[v] # job[w]
  BY DEF DeliveredOnce
<1>5. boss[job[w]] \notin {"created", "retry"}
  BY DEF DeliveredOnce
<1>6. CountersAgree'
  BY <1>4, <1>5 DEF CountersAgree
<1>7. \A c \in Attempts : Waiting(c)' => c # job[w] /\ Waiting(c)
  BY DEF Waiting, IsActive, Active
<1>8. WaitingLives'
  BY <1>7 DEF WaitingLives, DeliveredOnce
<1>9. RunningLives'
  <2> SUFFICES ASSUME NEW r \in Runs, runStatus'[r] = "running"
               PROVE  \E v \in Workers : pc'[v] = "handler" /\ job'[v] = Current(r)'
    BY DEF RunningLives
  <2>1. CASE r = job[w][1]
    <3>1. pc'[w] = "handler" /\ job'[w] = job[w] /\ job[w] \in Attempts /\ runSeq'[r] = job[w][2]
      BY <2>1
    <3>2. job[w] = Current(r)'
      BY <2>1, <3>1 DEF Current
    <3> QED BY <3>1, <3>2
  <2>2. CASE r # job[w][1]
    <3>1. PICK v \in Workers : pc[v] = "handler" /\ job[v] = Current(r)
      BY <2>2 DEF RunningLives
    <3> QED BY <3>1 DEF Current
  <2> QED BY <2>1, <2>2
<1> QED BY <1>1, <1>2, <1>3, <1>6, <1>8, <1>9

\* a failure leaves the attempt waiting only with retries to spare,
LEMMA CommitFailureCarries ==
    ASSUME IInv, Smooth, NEW w \in Workers, CommitFailure(w)
    PROVE  Smooth'
<1> USE PairOfAttempt
    DEF IInv, TypeOK, Smooth, CommitFailure, Fenced, physical, archive, Phases
<1>1. AllUp'
  BY DEF AllUp
<1>2. FutureUncounted'
  BY DEF FutureUncounted
<1>3. DeliveredOnce'
  BY DEF DeliveredOnce
<1>4. \A v \in Workers : pc[v] # "idle" /\ v # w => job[v] # job[w]
  BY DEF DeliveredOnce
<1>5. CountersAgree'
  BY DEF CountersAgree
<1>6. /\ \A c \in Attempts : Waiting(c)' => c = job[w] \/ Waiting(c)
      /\ Waiting(job[w])' => ~(tries[job[w]] > RetryLimit[KeyOf[job[w][1]]])
  BY DEF Waiting, IsActive, Active, FailureStatus
<1>7. boss[job[w]] \in LiveBoss
  BY DEF DeliveredOnce, WaitingLives, LiveBoss
<1>8. WaitingLives'
  <2>1. tries[job[w]] \in Nat /\ RetryLimit[KeyOf[job[w][1]]] \in Nat
    BY QueueConstants
  <2>2. \A c \in Attempts : Waiting(c)' => boss[c] \in LiveBoss
    BY <1>6, <1>7 DEF WaitingLives
  <2>3. \A c \in Attempts : boss[c] = "cancelled" => attStatus'[c] \notin {"queued", "running"}
    BY <1>7 DEF WaitingLives, LiveBoss
  <2>4. \A v \in Workers : pc'[v] = "complete" => ~Waiting(job[v])'
    BY <1>4, <1>6 DEF WaitingLives
  <2>5. \A v \in Workers : pc'[v] = "fail" /\ Waiting(job[v])' =>
            tries[job[v]] <= RetryLimit[KeyOf[job[v][1]]]
    BY <1>4, <1>6, <2>1 DEF WaitingLives
  <2> QED BY <2>2, <2>3, <2>4, <2>5 DEF WaitingLives
<1>9. RunningLives'
  BY RunningKept DEF FailureStatus
<1> QED BY <1>1, <1>2, <1>3, <1>5, <1>8, <1>9

\* what pg-boss completes does not wait,
LEMMA BossCompleteCarries ==
    ASSUME IInv, Smooth, NEW w \in Workers, BossComplete(w)
    PROVE  Smooth'
<1> USE DEF IInv, TypeOK, Smooth, BossComplete, Release, ledger, archive, Phases
<1>1. \A v \in Workers : pc[v] # "idle" /\ v # w => job[v] # job[w]
  BY DEF DeliveredOnce
<1>2. AllUp'
  BY DEF AllUp
<1>3. FutureUncounted'
  <2>1. \A a \in Attempts : boss[a] = "none" => boss'[a] = "none"
    OBVIOUS
  <2> QED BY <2>1, PairOfAttempt DEF FutureUncounted
<1>4. DeliveredOnce'
  BY <1>1 DEF DeliveredOnce
<1>5. CountersAgree'
  BY <1>1 DEF CountersAgree
<1>6. \A a \in Attempts : Waiting(a)' = Waiting(a)
  BY DEF Waiting, IsActive
<1>7. WaitingLives'
  BY <1>1, <1>6 DEF WaitingLives
<1>8. RunningLives'
  BY RunningKept
<1> QED BY <1>2, <1>3, <1>4, <1>5, <1>7, <1>8

\* and what waits after a failure pg-boss retries: its counter says so too.
LEMMA BossFailCarries ==
    ASSUME IInv, Smooth, NEW w \in Workers, BossFail(w)
    PROVE  Smooth'
<1> USE DEF IInv, TypeOK, Smooth, BossFail, Release, ledger, archive, Phases
<1>1. \A v \in Workers : pc[v] # "idle" /\ v # w => job[v] # job[w]
  BY DEF DeliveredOnce
<1>2. AllUp'
  BY DEF AllUp
<1>3. FutureUncounted'
  <2>1. \A a \in Attempts : boss[a] = "none" => boss'[a] = "none"
    OBVIOUS
  <2> QED BY <2>1, PairOfAttempt DEF FutureUncounted
<1>4. DeliveredOnce'
  BY <1>1 DEF DeliveredOnce, AfterFail
<1>5. CountersAgree'
  BY <1>1 DEF CountersAgree, AfterFail
<1>6. \A a \in Attempts : Waiting(a)' = Waiting(a)
  BY DEF Waiting, IsActive
<1>7. Waiting(job[w]) => boss'[job[w]] = "retry"
  <2>1. SUFFICES ASSUME Waiting(job[w]) PROVE AfterFail(job[w]) = "retry" /\ boss[job[w]] = "active"
    OBVIOUS
  <2>2. boss[job[w]] = "active"
    BY <2>1 DEF DeliveredOnce, WaitingLives, Waiting
  <2>3. refetched[job[w]] + 1 <= RetryLimit[KeyOf[job[w][1]]]
    BY <2>1 DEF WaitingLives, CountersAgree
  <2> QED BY <2>2, <2>3, QueueConstants, PairOfAttempt DEF AfterFail
<1>8. WaitingLives'
  BY <1>1, <1>6, <1>7 DEF WaitingLives, LiveBoss, AfterFail
<1>9. RunningLives'
  BY RunningKept
<1> QED BY <1>2, <1>3, <1>4, <1>5, <1>8, <1>9

\* The six ways a delivery ends without an error.
LEMMA DeliveryEndCarries ==
    ASSUME IInv, Smooth, NEW w \in Workers,
           \/ DropArchived(w) \/ IgnoreDelivery(w) \/ CommitSuccess(w)
           \/ CommitSkip(w) \/ CommitNeedsHuman(w) \/ IgnoreResult(w)
    PROVE  Smooth'
<1> USE PairOfAttempt
    DEF IInv, TypeOK, Waiting, IsActive, Active, ledger, physical, archive, Current
<1>1. CASE DropArchived(w)
  BY <1>1, EndsCarries DEF DropArchived
<1>2. CASE IgnoreDelivery(w)
  <2>1. ~Waiting(job[w])
    BY <1>2 DEF IgnoreDelivery, Claimable, LedgerAgrees
  <2> QED BY <1>2, <2>1, EndsCarries DEF IgnoreDelivery
<1>3. CASE CommitSuccess(w)
  BY <1>3, EndsCarries DEF CommitSuccess
<1>4. CASE CommitSkip(w)
  <2>1. attStatus'[job[w]] = "skipped" /\ runSeq' = runSeq
    BY <1>4 DEF CommitSkip
  <2>2. ~(runStatus'[job[w][1]] = "running" /\ job[w] = Current(job[w][1]))
    BY <1>4 DEF CommitSkip
  <2>3. \A r \in Runs : runStatus'[r] \in Active => runStatus'[r] = runStatus[r]
    BY <1>4 DEF CommitSkip
  <2>4. \A a \in Attempts : attStatus'[a] \in {"queued", "running"} => attStatus'[a] = attStatus[a]
    BY <1>4 DEF CommitSkip
  <2> QED BY <1>4, <2>1, <2>2, <2>3, <2>4, EndsCarries DEF CommitSkip
<1>5. CASE CommitNeedsHuman(w)
  BY <1>5, EndsCarries DEF CommitNeedsHuman
<1>6. CASE IgnoreResult(w)
  <2>1. ~Waiting(job[w])
    BY <1>6 DEF IgnoreResult, HandlerOwns
  <2>2. ~(runStatus[job[w][1]] = "running" /\ job[w] = Current(job[w][1]))
    BY <1>6 DEF IgnoreResult, Fenced, LedgerAgrees
  <2> QED BY <1>6, <2>1, <2>2, EndsCarries DEF IgnoreResult
<1> QED BY <1>1, <1>2, <1>3, <1>4, <1>5, <1>6

\* The transactions of other services.
LEMMA ServiceCarries ==
    ASSUME IInv, IInv', Smooth,
           \/ \E b \in Businesses : CancelFollowups(b)
           \/ \E a \in Attempts : DismissParked(a)
           \/ \E b \in Archivable : ArchiveRuns(b)
    PROVE  Smooth'
<1> USE DEF IInv, TypeOK, Active, ledger, physical, worker, archive
<1>1. CASE \E b \in Businesses : CancelFollowups(b)
  <2> SUFFICES ASSUME NEW b \in Businesses, CancelFollowups(b) PROVE Smooth'
    BY <1>1
  <2>1. \A r \in Runs : runStatus'[r] \in {runStatus[r], "cancelled"}
    BY DEF CancelFollowups
  <2>2. \A a \in Attempts : IF a \in WaitingFollowups(b) THEN attStatus'[a] = "cancelled"
                                                       ELSE attStatus'[a] = attStatus[a]
    BY DEF CancelFollowups
  <2>3. PICK reached \in SUBSET WaitingFollowups(b) :
          boss' = [a \in Attempts |->
             IF a \in reached /\ boss[a] \in LiveBoss THEN "cancelled" ELSE boss[a]]
    BY DEF CancelFollowups
  <2>4. UNCHANGED <<runSeq, tries, refetched, pc, job, up>>
    BY DEF CancelFollowups
  <2> QED BY <2>1, <2>2, <2>3, <2>4, ClosesCarries
<1>2. CASE \E a \in Attempts : DismissParked(a)
  BY <1>2, ClosesCarries DEF DismissParked
<1>3. CASE \E b \in Archivable : ArchiveRuns(b)
  BY <1>3, ClosesCarries DEF ArchiveRuns
<1> QED BY <1>1, <1>2, <1>3

\* While nothing fails, every step keeps what carries the runs.
Calm == faults = 0 => Smooth

\* Faults only add up, so that a calm state is reached through calm states.
LEMMA CalmStep == IInv /\ Calm /\ [Next]_vars => Calm'
<1> SUFFICES ASSUME IInv, Calm, [Next]_vars, faults' = 0 PROVE Smooth'
  BY DEF Calm
<1>1. faults \in Nat /\ IInv'
  BY NextPreserves DEF IInv, TypeOK
<1>2. faults = 0
  <2>1. faults' = faults \/ faults' = faults + 1
    BY DEF Next, Progress, HandlerEnds, Enqueue, FetchJob, ReadArchived, DropArchived, Claim,
      IgnoreDelivery, ContinueAfterRateLimit, CommitSuccess, CommitSkip, CommitFailure,
      CommitNeedsHuman, IgnoreResult, BossComplete, BossFail, DatabaseError, Crash,
      BossExpire, BootCore, BootBuild, CancelFollowups, DismissParked, ArchiveAttempts,
      ArchiveRuns, ArchiveCommit, Unarchive, vars
  <2> QED BY <1>1, <2>1
<1>3. Smooth
  BY <1>2 DEF Calm
<1>4. CASE \E r \in Runs : Enqueue(r)
  BY <1>3, <1>4, EnqueueCarries
<1>5. CASE \E w \in Workers, a \in Attempts : FetchJob(w, a)
  BY <1>3, <1>5, FetchJobCarries
<1>6. CASE \E w \in Workers : ReadArchived(w) \/ Claim(w) \/ ContinueAfterRateLimit(w)
  BY <1>3, <1>6, ReadArchivedCarries, ClaimCarries, ContinueAfterRateLimitCarries
<1>7. CASE \E w \in Workers : \/ DropArchived(w) \/ IgnoreDelivery(w) \/ CommitSuccess(w)
                              \/ CommitSkip(w) \/ CommitNeedsHuman(w) \/ IgnoreResult(w)
  BY <1>3, <1>7, DeliveryEndCarries
<1>8. CASE \E w \in Workers : CommitFailure(w) \/ BossComplete(w) \/ BossFail(w)
  BY <1>3, <1>8, CommitFailureCarries, BossCompleteCarries, BossFailCarries
<1>9. CASE \/ \E w \in Workers : DatabaseError(w)
           \/ \E g \in Groups : Crash(g)
  BY <1>1, <1>2, <1>9 DEF DatabaseError, Crash
<1>10. CASE \E a \in Attempts : BossExpire(a)
  <2>1. PICK a \in Attempts : BossExpire(a)
    BY <1>10
  <2>2. Held(a)
    BY <1>3, <2>1 DEF BossExpire, Smooth, DeliveredOnce, Held
  <2> QED BY <1>2, <2>1, <2>2 DEF BossExpire
<1>11. CASE BootCore \/ BootBuild
  BY <1>3, <1>11 DEF BootCore, BootBuild, Smooth, AllUp, Groups
<1>12. CASE \/ \E b \in Businesses : CancelFollowups(b)
            \/ \E a \in Attempts : DismissParked(a)
            \/ \E b \in Archivable : ArchiveRuns(b)
  BY <1>1, <1>3, <1>12, ServiceCarries
<1>13. CASE \/ \E b \in Archivable : ArchiveAttempts(b) \/ ArchiveCommit(b) \/ Unarchive(b)
            \/ UNCHANGED vars
  <2>1. UNCHANGED <<ledger, physical, worker, up>>
    BY <1>13 DEF ArchiveAttempts, ArchiveCommit, Unarchive, vars
  <2>2. UNCHANGED <<runStatus, runSeq, attStatus, tries, boss, refetched, pc, job, up>>
    BY <2>1 DEF ledger, physical, worker
  <2>3. AllUp' /\ FutureUncounted' /\ DeliveredOnce' /\ CountersAgree'
    BY <1>3, <2>2 DEF Smooth, AllUp, FutureUncounted, DeliveredOnce, CountersAgree
  <2>4. WaitingLives' /\ RunningLives'
    BY <1>3, <2>2 DEF Smooth, WaitingLives, RunningLives, Waiting, IsActive, Current
  <2> QED BY <2>3, <2>4 DEF Smooth
<1> QED
  BY <1>4, <1>5, <1>6, <1>7, <1>8, <1>9, <1>10, <1>11, <1>12, <1>13
  DEF Next, Progress, HandlerEnds

\* While nothing has failed, the retry counters of the ledger and of pg-boss agree
\* and no delivery is dropped that should have been taken: every active run is
\* carried by a worker in its handler or by a live job.
THEOREM RunsAreCarried == Spec => []RunIsCarried
<1>1. Init => Calm
  BY QueueConstants, PairOfAttempt
     DEF Init, Calm, Smooth, AllUp, FutureUncounted, DeliveredOnce, CountersAgree, WaitingLives,
       RunningLives, Waiting, IsActive, Active
<1>2. IInv /\ Calm => RunIsCarried
  BY SmoothCarries DEF Calm, RunIsCarried
<1> QED BY <1>1, <1>2, Inductive, CalmStep, PTL DEF Spec

-----------------------------------------------------------------------------
(***************************************************************************)
(* Executions and faults.                                                  *)
(***************************************************************************)

\* What waits, and what a container left behind when it stopped, has a try less
\* behind it than what may be running.
SpareTry ==
    \A a \in Attempts :
        attStatus[a] \in {"none", "queued"} \/ (~up["build"] /\ GroupOf[KeyOf[a[1]]] = "build")
            => tries[a] <= RetryLimit[KeyOf[a[1]]] + faults

\* Steps that spend no try,
LEMMA TriesKept ==
    ASSUME IInv, IInv', TriesBounded, SpareTry,
           up'["build"] = up["build"], faults' \in {faults, faults + 1},
           \A a \in Attempts : tries'[a] <= tries[a],
           \A a \in Attempts : attStatus'[a] \in {"none", "queued"} =>
               attStatus[a] \in {"none", "queued"} \/ tries[a] <= RetryLimit[KeyOf[a[1]]]
    PROVE  TriesBounded' /\ SpareTry'
<1> SUFFICES ASSUME NEW a \in Attempts
             PROVE  /\ tries'[a] <= RetryLimit[KeyOf[a[1]]] + 1 + faults'
                    /\ attStatus'[a] \in {"none", "queued"}
                         \/ (~up'["build"] /\ GroupOf[KeyOf[a[1]]] = "build")
                       => tries'[a] <= RetryLimit[KeyOf[a[1]]] + faults'
  BY DEF TriesBounded, SpareTry
<1>1. /\ tries[a] \in Nat /\ tries'[a] \in Nat /\ tries'[a] <= tries[a] /\ faults \in Nat /\ faults' \in Nat
      /\ RetryLimit[KeyOf[a[1]]] \in Nat
  BY QueueConstants, PairOfAttempt DEF IInv, TypeOK
<1> QED BY <1>1 DEF TriesBounded, SpareTry

\* and steps that do not touch the counter, keep the bound.
LEMMA TriesUntouched ==
    ASSUME IInv, IInv', TriesBounded, SpareTry,
           UNCHANGED tries, up'["build"] = up["build"], faults' \in {faults, faults + 1},
           \A a \in Attempts : attStatus'[a] \in {"none", "queued"} =>
               attStatus[a] \in {"none", "queued"}
    PROVE  TriesBounded' /\ SpareTry'
<1>1. \A a \in Attempts : tries[a] \in Nat /\ tries'[a] <= tries[a]
  BY DEF IInv, TypeOK
<1> QED BY <1>1, TriesKept

\* A claim spends the spare try; a stop of a container, being a fault, gives one.
LEMMA TriesStep == IInv /\ TriesBounded /\ SpareTry /\ [Next]_vars => TriesBounded' /\ SpareTry'
<1> SUFFICES ASSUME IInv, TriesBounded, SpareTry, [Next]_vars PROVE TriesBounded' /\ SpareTry'
  OBVIOUS
<1>0. IInv'
  BY NextPreserves
<1>1. CASE \E w \in Workers : ContinueAfterRateLimit(w)
  <2>0. PICK w \in Workers : ContinueAfterRateLimit(w)
    BY <1>1
  <2>1. job[w] \in Attempts /\ faults' = faults /\ up' = up
    BY <2>0 DEF ContinueAfterRateLimit, IInv, TypeOK
  <2>2. attStatus[Successor(job[w])] = "none"
    BY <2>0, <2>1, PairOfAttempt, SeqsAreNat
       DEF ContinueAfterRateLimit, Fenced, Successor, IInv, FutureUnused
  <2>3. \A a \in Attempts : attStatus'[a] \in {"none", "queued"} => attStatus[a] \in {"none", "queued"}
    BY <2>0, <2>1, <2>2 DEF ContinueAfterRateLimit, IInv, TypeOK
  <2>4. \A a \in Attempts : tries'[a] <= tries[a]
    BY <2>0, <2>1 DEF ContinueAfterRateLimit, TriesAfterPause, IInv, TypeOK
  <2> QED BY <1>0, <2>1, <2>3, <2>4, TriesKept
<1>2. CASE \E w \in Workers : Claim(w)
  <2> SUFFICES ASSUME NEW w \in Workers, Claim(w), NEW a \in Attempts
               PROVE  /\ tries'[a] <= RetryLimit[KeyOf[a[1]]] + 1 + faults'
                      /\ attStatus'[a] \in {"none", "queued"}
                           \/ (~up'["build"] /\ GroupOf[KeyOf[a[1]]] = "build")
                         => tries'[a] <= RetryLimit[KeyOf[a[1]]] + faults'
    BY <1>2 DEF TriesBounded, SpareTry
  <2>1. job[w] \in Attempts /\ faults' = faults /\ up' = up
    BY DEF Claim, IInv, TypeOK
  <2>2. tries[a] \in Nat /\ faults \in Nat /\ RetryLimit[KeyOf[a[1]]] \in Nat
    BY QueueConstants, PairOfAttempt DEF IInv, TypeOK
  <2>3. CASE a = job[w]
    <3>1. tries'[a] = tries[a] + 1 /\ attStatus[a] = "queued" /\ attStatus'[a] = "running"
      BY <2>1, <2>3 DEF Claim, Claimable, IInv, TypeOK
    <3>2. GroupOf[KeyOf[a[1]]] = "build" => up["build"]
      BY <2>3 DEF Claim, IInv, AtHome
    <3> QED BY <2>1, <2>2, <3>1, <3>2 DEF SpareTry
  <2>4. CASE a # job[w]
    <3>1. tries'[a] = tries[a] /\ attStatus'[a] = attStatus[a]
      BY <2>4 DEF Claim, IInv, TypeOK
    <3> QED BY <2>1, <3>1 DEF SpareTry, TriesBounded
  <2> QED BY <2>3, <2>4
<1>3. CASE \E w \in Workers : CommitFailure(w)
  <2>0. PICK w \in Workers : CommitFailure(w)
    BY <1>3
  <2>1. faults' = faults /\ up' = up /\ tries' = tries
    BY <2>0 DEF CommitFailure
  <2>2. \A a \in Attempts : tries[a] \in Nat /\ RetryLimit[KeyOf[a[1]]] \in Nat
    BY QueueConstants, PairOfAttempt DEF IInv, TypeOK
  <2>3. \A a \in Attempts : attStatus'[a] \in {"none", "queued"} =>
          attStatus[a] \in {"none", "queued"} \/ tries[a] <= RetryLimit[KeyOf[a[1]]]
    BY <2>0, <2>2 DEF CommitFailure, FailureStatus, IInv, TypeOK
  <2> QED BY <1>0, <2>1, <2>2, <2>3, TriesKept
<1>4. CASE \E g \in Groups : Crash(g)
  <2>1. UNCHANGED <<tries, attStatus>> /\ faults' = faults + 1
    BY <1>4 DEF Crash, ledger
  <2> SUFFICES ASSUME NEW a \in Attempts
               PROVE  tries'[a] <= RetryLimit[KeyOf[a[1]]] + faults'
    BY <1>0, QueueConstants, PairOfAttempt DEF TriesBounded, SpareTry, IInv, TypeOK
  <2>2. tries[a] \in Nat /\ faults \in Nat /\ RetryLimit[KeyOf[a[1]]] \in Nat
    BY QueueConstants, PairOfAttempt DEF IInv, TypeOK
  <2> QED BY <2>1, <2>2 DEF TriesBounded
<1>5. CASE BootBuild
  <2>1. UNCHANGED <<tries, faults>> /\ ~up["build"] /\ up'["build"]
    BY <1>5 DEF BootBuild, IInv, TypeOK, Groups
  <2>2. \A a \in Attempts : \/ attStatus'[a] = attStatus[a]
                            \/ GroupOf[KeyOf[a[1]]] = "build"
    BY <1>5 DEF BootBuild, Orphan
  <2> QED BY <2>1, <2>2 DEF TriesBounded, SpareTry
<1>6. CASE \E r \in Runs : Enqueue(r)
  <2> SUFFICES ASSUME NEW r \in Runs, Enqueue(r) PROVE TriesBounded' /\ SpareTry'
    BY <1>6
  <2>1. attStatus[<<r, 1>>] = "none"
    BY SeqsAreNat DEF Enqueue, IInv, FutureUnused
  <2>2. \A a \in Attempts : attStatus'[a] \in {"none", "queued"} => attStatus[a] \in {"none", "queued"}
    BY <2>1 DEF Enqueue, IInv, TypeOK
  <2> QED BY <1>0, <2>2, TriesUntouched DEF Enqueue
<1>7. CASE \E w \in Workers : \/ (\E a \in Attempts : FetchJob(w, a)) \/ ReadArchived(w)
                              \/ DropArchived(w) \/ IgnoreDelivery(w) \/ CommitSuccess(w)
                              \/ CommitSkip(w) \/ CommitNeedsHuman(w) \/ IgnoreResult(w)
                              \/ BossComplete(w) \/ BossFail(w) \/ DatabaseError(w)
  <2>1. UNCHANGED <<tries, up>> /\ faults' \in {faults, faults + 1}
    BY <1>7 DEF FetchJob, ReadArchived, DropArchived, IgnoreDelivery, CommitSuccess, CommitSkip,
      CommitNeedsHuman, IgnoreResult, BossComplete, BossFail, DatabaseError, ledger
  <2>2. \A a \in Attempts : attStatus'[a] \in {"none", "queued"} => attStatus[a] \in {"none", "queued"}
    BY <1>7 DEF FetchJob, ReadArchived, DropArchived, IgnoreDelivery, CommitSuccess, CommitSkip,
      CommitNeedsHuman, IgnoreResult, BossComplete, BossFail, DatabaseError, ledger, IInv, TypeOK
  <2> QED BY <1>0, <2>1, <2>2, TriesUntouched
<1>8. CASE \/ \E a \in Attempts : BossExpire(a) \/ DismissParked(a)
           \/ BootCore
           \/ \E b \in Businesses : CancelFollowups(b)
           \/ \E b \in Archivable : \/ ArchiveAttempts(b) \/ ArchiveRuns(b)
                                    \/ ArchiveCommit(b) \/ Unarchive(b)
           \/ UNCHANGED vars
  <2>1. UNCHANGED tries /\ up'["build"] = up["build"] /\ faults' \in {faults, faults + 1}
    BY <1>8 DEF BossExpire, DismissParked, BootCore, CancelFollowups, ArchiveAttempts, ArchiveRuns,
      ArchiveCommit, Unarchive, vars, ledger, IInv, TypeOK, Groups
  <2>2. \A a \in Attempts : attStatus'[a] \in {"none", "queued"} => attStatus[a] \in {"none", "queued"}
    BY <1>8 DEF BossExpire, DismissParked, BootCore, CancelFollowups, ArchiveAttempts, ArchiveRuns,
      ArchiveCommit, Unarchive, vars, ledger, IInv, TypeOK
  <2> QED BY <1>0, <2>1, <2>2, TriesUntouched
<1> QED
  BY <1>1, <1>2, <1>3, <1>4, <1>5, <1>6, <1>7, <1>8 DEF Next, Progress, HandlerEnds

\* Redelivery costs executions only where something failed: an attempt runs at most
\* once more than it has retries, and once more for each fault.
THEOREM ExecutionsAreBounded == Spec => []TriesBounded
<1>1. Init => TriesBounded /\ SpareTry
  BY QueueConstants, PairOfAttempt DEF Init, TriesBounded, SpareTry
<1> QED BY <1>1, Inductive, TriesStep, PTL DEF Spec

-----------------------------------------------------------------------------
(***************************************************************************)
(* Attempts and runs, where nothing is archived.                           *)
(***************************************************************************)

\* Only the current attempt of an active run is live; only agents' attempts are
\* paused, so that cancelling a follow-up cancels a current attempt.
LiveIsCurrent ==
    \A a \in Attempts :
        /\ attStatus[a] \in {"queued", "running"} => IsActive(a[1]) /\ runSeq[a[1]] = a[2]
        /\ attStatus[a] = "retry_wait" => KeyOf[a[1]] \in AgentKeys

\* Where no archive runs, no delivery is dropped by the archive gate.
NoneArchived ==
    /\ \A b \in Businesses : shelf[b] = "open"
    /\ \A w \in Workers : pc[w] # "drop"

\* Only an archive puts a business on the shelf.
LEMMA NoneArchivedStep ==
    ASSUME IInv, Archivable = {}, NoneArchived, [Next]_vars
    PROVE  NoneArchived'
<1> USE DEF IInv, TypeOK, NoneArchived, Phases
<1>1. UNCHANGED shelf
  BY DEF Next, Progress, HandlerEnds, Enqueue, FetchJob, ReadArchived, DropArchived, Claim,
    IgnoreDelivery, ContinueAfterRateLimit, CommitSuccess, CommitSkip, CommitFailure,
    CommitNeedsHuman, IgnoreResult, BossComplete, BossFail, DatabaseError, Crash, BossExpire,
    BootCore, BootBuild, CancelFollowups, DismissParked, vars, archive
<1>2. CASE \E w \in Workers : ReadArchived(w)
  BY <1>1, <1>2, QueueConstants, PairOfAttempt DEF ReadArchived
<1>3. ASSUME NEW w \in Workers, ~ \E v \in Workers : ReadArchived(v) PROVE pc'[w] # "drop"
  <2>1. CASE \E v \in Workers : Progress(v) \/ DatabaseError(v)
    <3>1. \E v \in Workers, p \in {"complete", "handler", "fail", "idle"} : pc' = [pc EXCEPT ![v] = p]
      BY <1>3, <2>1 DEF Progress, HandlerEnds, DropArchived, Claim, IgnoreDelivery,
        ContinueAfterRateLimit, CommitSuccess, CommitSkip, CommitFailure, CommitNeedsHuman,
        IgnoreResult, BossComplete, BossFail, Release, DatabaseError
    <3> QED BY <3>1
  <2>2. CASE \E v \in Workers, a \in Attempts : FetchJob(v, a)
    BY <2>2 DEF FetchJob
  <2>3. CASE \E g \in Groups : Crash(g)
    BY <2>3 DEF Crash
  <2>4. CASE UNCHANGED pc
    BY <2>4
  <2> QED BY <2>1, <2>2, <2>3, <2>4 DEF Next, Enqueue, BossExpire, BootCore, BootBuild,
        CancelFollowups, DismissParked, vars, worker
<1> QED BY <1>1, <1>2, <1>3

\* Every step that closes a run closes its live attempt with it.
LEMMA LiveStep ==
    ASSUME IInv, Archivable = {}, NoneArchived, LiveIsCurrent, [Next]_vars
    PROVE  LiveIsCurrent'
<1> USE PairOfAttempt DEF IInv, TypeOK, IsActive, Active, LiveIsCurrent
<1>1. CASE \E r \in Runs : Enqueue(r)
  BY <1>1 DEF Enqueue
<1>2. CASE \E w \in Workers : ContinueAfterRateLimit(w)
  <2>0. PICK w \in Workers : ContinueAfterRateLimit(w)
    BY <1>2
  <2>1. /\ job[w] \in Attempts /\ Successor(job[w]) \in Attempts
        /\ Successor(job[w])[1] = job[w][1] /\ Successor(job[w])[2] = job[w][2] + 1
    BY <2>0, QueueConstants, SeqsAreNat DEF ContinueAfterRateLimit, Successor
  <2> SUFFICES ASSUME NEW a \in Attempts
               PROVE  /\ attStatus'[a] \in {"queued", "running"} =>
                           IsActive(a[1])' /\ runSeq'[a[1]] = a[2]
                      /\ attStatus'[a] = "retry_wait" => KeyOf[a[1]] \in AgentKeys
    OBVIOUS
  <2>2. CASE a[1] = job[w][1]
    <3>1. attStatus[a] \in {"queued", "running"} => a = job[w]
      BY <2>0, <2>1, <2>2 DEF ContinueAfterRateLimit, Fenced
    <3> QED BY <2>0, <2>1, <2>2, <3>1 DEF ContinueAfterRateLimit
  <2>3. CASE a[1] # job[w][1]
    BY <2>0, <2>1, <2>3 DEF ContinueAfterRateLimit
  <2> QED BY <2>2, <2>3
<1>3. CASE \E w \in Workers : Claim(w)
  BY <1>3 DEF Claim, Claimable
<1>4. CASE \E w \in Workers : \/ CommitSuccess(w) \/ CommitFailure(w) \/ CommitNeedsHuman(w)
  BY <1>4 DEF CommitSuccess, CommitFailure, CommitNeedsHuman, Fenced, FailureStatus
<1>5. CASE \E w \in Workers : CommitSkip(w)
  BY <1>5 DEF CommitSkip
<1>6. CASE BootCore
  <2>1. ASSUME NEW a \in Attempts, attStatus'[a] \in {"queued", "running"}
        PROVE  ~ \E n \in Seqs : Stale(<<a[1], n>>)
    <3>1. attStatus[a] \in {"queued", "running"} /\ ~Stale(a)
      BY <1>6, <2>1 DEF BootCore
    <3>2. ASSUME NEW n \in Seqs, Stale(<<a[1], n>>) PROVE <<a[1], n>> = a
      BY <3>1, <3>2 DEF Stale
    <3> QED BY <3>1, <3>2
  <2> QED BY <1>6, <2>1 DEF BootCore
<1>7. CASE BootBuild
  BY <1>7 DEF BootBuild, Orphan
<1>8. CASE \E b \in Businesses : CancelFollowups(b)
  <2>0. PICK b \in Businesses : CancelFollowups(b)
    BY <1>8
  <2>1. \A a \in WaitingFollowups(b) : attStatus[a] = "queued"
    BY QueueConstants DEF WaitingFollowups
  <2>2. ASSUME NEW a \in Attempts, attStatus'[a] \in {"queued", "running"}
        PROVE  ~ \E n \in Seqs : <<a[1], n>> \in WaitingFollowups(b)
    <3>1. attStatus[a] \in {"queued", "running"} /\ a \notin WaitingFollowups(b)
      BY <2>0, <2>2 DEF CancelFollowups
    <3>2. ASSUME NEW n \in Seqs, <<a[1], n>> \in WaitingFollowups(b) PROVE <<a[1], n>> = a
      BY <2>1, <3>1, <3>2
    <3> QED BY <3>1, <3>2
  <2> QED BY <2>0, <2>2 DEF CancelFollowups
<1>9. CASE \E a \in Attempts : DismissParked(a)
  BY <1>9 DEF DismissParked, Parked
<1>10. CASE UNCHANGED <<runStatus, runSeq, attStatus>>
  BY <1>10
<1>11. \/ \E w \in Workers, a \in Attempts : FetchJob(w, a)
       \/ \E w \in Workers : \/ ReadArchived(w) \/ IgnoreDelivery(w) \/ IgnoreResult(w)
                             \/ BossComplete(w) \/ BossFail(w) \/ DatabaseError(w)
       \/ \E g \in Groups : Crash(g)
       \/ \E a \in Attempts : BossExpire(a)
       \/ UNCHANGED vars
       => UNCHANGED <<runStatus, runSeq, attStatus>>
  BY DEF FetchJob, ReadArchived, IgnoreDelivery, IgnoreResult, BossComplete, BossFail,
    DatabaseError, Crash, BossExpire, vars, ledger
<1>12. \A w \in Workers : ~DropArchived(w)
  BY DEF NoneArchived, DropArchived
<1> QED
  BY <1>1, <1>2, <1>3, <1>4, <1>5, <1>6, <1>7, <1>8, <1>9, <1>10, <1>11, <1>12
  DEF Next, Progress, HandlerEnds

\* Where no business is archived, no attempt waits or works for a run that is closed:
\* it is the two statements of the archive alone that let the tables part.
THEOREM AttemptsInStep ==
    ASSUME Archivable = {}
    PROVE  Spec => []AttemptsFollowRuns
<1>1. Init => LiveIsCurrent /\ NoneArchived
  BY DEF Init, LiveIsCurrent, NoneArchived
<1>2. LiveIsCurrent => AttemptsFollowRuns
  BY DEF LiveIsCurrent, AttemptsFollowRuns
<1>3. IInv /\ LiveIsCurrent /\ NoneArchived /\ [Next]_vars => LiveIsCurrent' /\ NoneArchived'
  BY NoneArchivedStep, LiveStep
<1> QED BY <1>1, <1>2, <1>3, Inductive, PTL DEF Spec
=============================================================================
