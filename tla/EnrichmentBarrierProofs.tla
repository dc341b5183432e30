----------------------- MODULE EnrichmentBarrierProofs -----------------------
(***************************************************************************)
(* What the enrichment barrier guarantees for any number of generations,   *)
(* errors, restarts and acts of the operator, checked by TLAPS.  Every     *)
(* theorem rests on one inductive invariant, BInv.                         *)
(***************************************************************************)
EXTENDS EnrichmentBarrier, TLAPS

RunRecord == [source : {"native", "legacy"}, state : RunStates, branch : [Branches -> Outcomes]]

AllSucceeded(r) == \A br \in Branches : r.branch[br] = "succeeded"

\* The state of a generation follows from its branches, as far as it can.
WellFormed(r) ==
    /\ r.state = "none" => r.branch = NoRun.branch
    /\ r.state = "running" =>
           /\ \A br \in Branches : r.branch[br] \in {"pending", "succeeded"}
           /\ ~AllSucceeded(r)
    /\ r.state \in {"score_enqueued", "completed"} => AllSucceeded(r)
    /\ r.state = "blocked" => \E br \in Branches : r.branch[br] \in {"failed", "blocked"}

Shape == \A g \in Gens : WellFormed(run[g])

\* Generations are numbered without gaps.
Numbered == \A g \in Gens : run[g].state # "none" <=> g <= newest

\* A branch job works for a generation that has begun.
JobsHaveRuns ==
    /\ \A j \in Jobs : job[j] \in BranchSteps \ {"adopt"} => target[j] \in Gens /\ target[j] <= newest
    /\ \A j \in Jobs : j[1] > 0 => target[j] = j[1] /\ job[j] # "adopt"
    /\ \A j \in Jobs : j[1] > newest => job[j] = "none"

BInv ==
    /\ TypeOK
    /\ Shape
    /\ Numbered
    /\ OneCurrent
    /\ ScoredByJoin
    /\ JobsHaveRuns

\* Generations are positive numbers, 0 stands for a job that has none.
LEMMA GensAreNat ==
    /\ Gens \subseteq Nat \ {0}
    /\ 0..MaxGen = Gens \cup {0}
    /\ \A n \in 0..MaxGen : n < MaxGen => n + 1 \in Gens
    /\ \A j \in Jobs : j[1] \in 0..MaxGen /\ j[2] \in Branches
BY BarrierConstants, SMT DEF Gens, Jobs

\* The row a settlement writes when it is not refused, field by field.
LEMMA SettleFields ==
    ASSUME NEW r \in RunRecord, NEW br \in Branches, NEW o \in Outcomes \ {"pending"},
           ~(r.state \in {"superseded", "completed"} \/ r.branch[br] # "pending")
    PROVE  /\ Settle(r, br, o) \in RunRecord
           /\ Settle(r, br, o).branch = [r.branch EXCEPT ![br] = o]
           /\ Settle(r, br, o).state =
                 IF r.state = "blocked" THEN "blocked"
                 ELSE IF o # "succeeded" THEN "blocked"
                 ELSE IF \A b \in Branches \ {br} : r.branch[b] = "succeeded"
                      THEN "score_enqueued" ELSE r.state
<1> DEFINE s == Settle(r, br, o)
           st == IF r.state = "blocked" THEN "blocked"
                 ELSE IF o # "succeeded" THEN "blocked"
                 ELSE IF \A b \in Branches \ {br} : r.branch[b] = "succeeded"
                      THEN "score_enqueued" ELSE r.state
<1>1. s = [r EXCEPT !.branch = [r.branch EXCEPT ![br] = o], !.state = st]
  BY DEF Settle, RunRecord
<1>2. st \in RunStates
  BY DEF RunRecord, RunStates
<1> HIDE DEF s, st
<1>3. s \in RunRecord /\ s.branch = [r.branch EXCEPT ![br] = o] /\ s.state = st
  BY <1>1, <1>2 DEF RunRecord
<1> QED
  BY <1>3 DEF s, st

\* What settling a branch does to a row, whatever its outcome: the row stays
\* well formed and a decided branch keeps its outcome.
LEMMA SettleKeeps ==
    ASSUME NEW r \in RunRecord, WellFormed(r), r.state # "none",
           NEW br \in Branches, NEW o \in Outcomes \ {"pending"}
    PROVE  LET s == Settle(r, br, o) IN
           /\ s \in RunRecord
           /\ WellFormed(s)
           /\ s.state # "none"
           /\ s.state \in {"running", "score_enqueued"} => r.state \in {"running", "score_enqueued"}
           /\ \A b \in Branches : r.branch[b] # "pending" => s.branch[b] = r.branch[b]
<1> DEFINE s == Settle(r, br, o)
<1>1. CASE r.state \in {"superseded", "completed"} \/ r.branch[br] # "pending"
  <2>1. s = r
    BY <1>1 DEF Settle
  <2> QED BY <2>1
<1>2. CASE ~(r.state \in {"superseded", "completed"} \/ r.branch[br] # "pending")
  <2>1. /\ s \in RunRecord
        /\ s.branch = [r.branch EXCEPT ![br] = o]
        /\ s.state = IF r.state = "blocked" THEN "blocked"
                     ELSE IF o # "succeeded" THEN "blocked"
                     ELSE IF \A b \in Branches \ {br} : r.branch[b] = "succeeded"
                          THEN "score_enqueued" ELSE r.state
    BY <1>2, SettleFields
  <2> HIDE DEF s
  <2>2. r.state \in RunStates /\ r.branch \in [Branches -> Outcomes]
    BY DEF RunRecord
  <2>3. \A b \in Branches : s.branch[b] = IF b = br THEN o ELSE r.branch[b]
    BY <2>1, <2>2
  <2>4. WellFormed(s)
    <3>1. CASE s.state = "blocked"
      <4>1. r.state = "blocked" \/ o \in {"failed", "blocked"}
        BY <1>2, <2>1, <2>2, <3>1 DEF Outcomes, RunStates
      <4>2. \E b \in Branches : s.branch[b] \in {"failed", "blocked"}
        BY <1>2, <2>3, <4>1 DEF WellFormed
      <4> QED BY <3>1, <4>2 DEF WellFormed
    <3>2. CASE s.state = "score_enqueued"
      BY <1>2, <2>1, <2>2, <2>3, <3>2 DEF WellFormed, AllSucceeded, RunStates
    <3>3. CASE s.state = r.state /\ r.state = "running" /\ o = "succeeded"
      BY <1>2, <2>1, <2>2, <2>3, <3>3 DEF WellFormed, AllSucceeded
    <3> QED BY <1>2, <2>1, <2>2, <3>1, <3>2, <3>3 DEF RunStates, WellFormed, AllSucceeded
  <2>5. s.state # "none" /\ (s.state \in {"running", "score_enqueued"} => r.state \in {"running", "score_enqueued"})
    BY <1>2, <2>1, <2>2 DEF RunStates
  <2> QED BY <1>2, <2>1, <2>3, <2>4, <2>5 DEF s
<1> QED BY <1>1, <1>2

\* A row is joined by the settlement that completes its branches and by no other.
LEMMA SettleJoins ==
    ASSUME NEW r \in RunRecord, WellFormed(r), r.state # "none",
           NEW br \in Branches, NEW o \in Outcomes \ {"pending"}
    PROVE  LET s == Settle(r, br, o) IN
           IF s # r /\ s.state = "score_enqueued"
           THEN AllSucceeded(s) /\ ~AllSucceeded(r)
           ELSE (AllSucceeded(s) /\ s.state # "blocked") <=> (AllSucceeded(r) /\ r.state # "blocked")
<1> DEFINE s == Settle(r, br, o)
<1>1. CASE r.state \in {"superseded", "completed"} \/ r.branch[br] # "pending"
  <2>1. s = r
    BY <1>1 DEF Settle
  <2> QED BY <2>1
<1>2. CASE ~(r.state \in {"superseded", "completed"} \/ r.branch[br] # "pending")
  <2>1. /\ s \in RunRecord
        /\ s.branch = [r.branch EXCEPT ![br] = o]
        /\ s.state = IF r.state = "blocked" THEN "blocked"
                     ELSE IF o # "succeeded" THEN "blocked"
                     ELSE IF \A b \in Branches \ {br} : r.branch[b] = "succeeded"
                          THEN "score_enqueued" ELSE r.state
    BY <1>2, SettleFields
  <2> HIDE DEF s
  <2>2. r.state \in RunStates /\ r.branch \in [Branches -> Outcomes]
    BY DEF RunRecord
  <2>3. \A b \in Branches : s.branch[b] = IF b = br THEN o ELSE r.branch[b]
    BY <2>1, <2>2
  <2>4. s # r /\ ~AllSucceeded(r)
    BY <1>2, <2>3 DEF AllSucceeded, Outcomes
  <2>5. CASE s.state = "score_enqueued"
    <3>1. AllSucceeded(s)
      BY <1>2, <2>1, <2>2, <2>3, <2>5 DEF WellFormed, AllSucceeded, Branches, RunStates
    <3> QED BY <2>4, <2>5, <3>1 DEF s
  <2>6. CASE s.state # "score_enqueued"
    <3>1. ~(AllSucceeded(s) /\ s.state # "blocked")
      BY <1>2, <2>1, <2>2, <2>3, <2>6 DEF AllSucceeded, Branches, RunStates
    <3> QED BY <2>4, <2>6, <3>1 DEF s
  <2> QED BY <2>5, <2>6
<1> QED BY <1>1, <1>2

-----------------------------------------------------------------------------
\* What a step that leaves a part of the state alone preserves: the rows,
LEMMA RowsFrame ==
    ASSUME BInv, UNCHANGED <<run, newest>>
    PROVE  Shape' /\ Numbered' /\ OneCurrent'
BY DEF BInv, Shape, Numbered, OneCurrent, Current

\* the branch jobs,
LEMMA JobsFrame ==
    ASSUME BInv, UNCHANGED <<newest, job, target>>
    PROVE  JobsHaveRuns'
BY DEF BInv, JobsHaveRuns

\* one branch job that moves on from a place where it had its generation,
LEMMA JobMoves ==
    ASSUME BInv, NEW j \in Jobs, NEW place, GotoStep(j, place), UNCHANGED <<newest, target>>,
           job[j] # "none",
           place \in {"queued", "done", "failed", "lost"} \/ job[j] \in BranchSteps \ {"adopt"},
           place # "adopt"
    PROVE  JobsHaveRuns'
BY GensAreNat, SMTT(30) DEF BInv, JobsHaveRuns, GotoStep, TypeOK, BranchSteps

\* and the score jobs.
LEMMA ScoresFrame ==
    ASSUME BInv, UNCHANGED run, \A g \in Gens : score'[g] = "none" <=> score[g] = "none"
    PROVE  ScoredByJoin'
BY DEF BInv, ScoredByJoin

\* A status written by SetStatus is a status, and what is kept as stable is stable.
LEMMA StatusTyped ==
    ASSUME TypeOK, NEW s \in Statuses, SetStatus(s)
    PROVE  status' \in Statuses /\ stable' \in Statuses \ {"enriching"}
BY DEF TypeOK, SetStatus

\* So is the outcome of a compare-and-set.
LEMMA MoveTyped ==
    ASSUME TypeOK, NEW from, NEW to \in Statuses, MoveStatus(from, to)
    PROVE  status' \in Statuses /\ stable' \in Statuses \ {"enriching"}
<1>1. CASE Wins(from, to)
  BY <1>1, StatusTyped DEF MoveStatus
<1>2. CASE ~Wins(from, to)
  <2>1. SetStatus(status) /\ status \in Statuses
    BY <1>2 DEF MoveStatus, TypeOK
  <2> QED BY <2>1, StatusTyped
<1> QED BY <1>1, <1>2

\* The steps of the enrich handler before it begins a generation, and the acts
\* of the operator on the status, touch no row of the barrier and no job of it.
LEMMA EnrichMovesStep ==
    ASSUME BInv,
           \/ StartEnrich \/ BeginEnrich \/ WipeFacts \/ NoEvidence \/ CollectFacts \/ CheckCurrent
           \/ EnrichThrows \/ RecollectFacts \/ \E s \in OperatorMoves : OverrideStatus(s)
    PROVE  BInv'
<1> USE DEF business, facts, barrier, enriching, branchJobs, scoring, bounds
<1>1. UNCHANGED <<barrier, branchJobs, scoring>>
  BY DEF StartEnrich, BeginEnrich, WipeFacts, NoEvidence, CollectFacts, CheckCurrent, EnrichThrows,
         MayThrow, RecollectFacts, OverrideStatus
<1>2. Shape' /\ Numbered' /\ OneCurrent' /\ JobsHaveRuns' /\ ScoredByJoin'
  BY <1>1, RowsFrame, JobsFrame, ScoresFrame
<1>3. TypeOK
  BY DEF BInv
<1>4. /\ status' \in Statuses /\ stable' \in Statuses \ {"enriching"}
      /\ enrich' \in Over \cup {"queued"} \cup EnrichSteps
      /\ enrichSaw' \in Statuses
      /\ whole' \in BOOLEAN /\ auditRow' = auditRow
      /\ throws' \in Nat /\ faults' \in Nat /\ acts' \in Nat
  <2>1. CASE StartEnrich
    BY <1>3, <2>1 DEF StartEnrich, TypeOK, EnrichSteps, Over
  <2>2. CASE BeginEnrich
    <3>1. status' \in Statuses /\ stable' \in Statuses \ {"enriching"}
      BY <1>3, <2>2, MoveTyped DEF BeginEnrich, Statuses
    <3> QED BY <1>3, <2>2, <3>1 DEF BeginEnrich, TypeOK, EnrichSteps, Over
  <2>3. CASE WipeFacts
    BY <1>3, <2>3 DEF WipeFacts, TypeOK, EnrichSteps, Over
  <2>4. CASE NoEvidence
    <3>1. status' \in Statuses /\ stable' \in Statuses \ {"enriching"}
      BY <1>3, <2>4, MoveTyped DEF NoEvidence, Statuses
    <3> QED BY <1>3, <2>4, <3>1 DEF NoEvidence, TypeOK, EnrichSteps, Over
  <2>5. CASE CollectFacts
    BY <1>3, <2>5 DEF CollectFacts, TypeOK, EnrichSteps, Over
  <2>6. CASE CheckCurrent
    BY <1>3, <2>6 DEF CheckCurrent, TypeOK, EnrichSteps, Over
  <2>7. CASE EnrichThrows
    BY <1>3, <2>7 DEF EnrichThrows, MayThrow, TypeOK, EnrichSteps, Over
  <2>8. CASE RecollectFacts
    <3>1. status' \in Statuses /\ stable' \in Statuses \ {"enriching"}
      BY <1>3, <2>8, StatusTyped DEF RecollectFacts, Statuses
    <3> QED BY <1>3, <2>8, <3>1 DEF RecollectFacts, TypeOK, EnrichSteps, Over
  <2>9. CASE \E s \in OperatorMoves : OverrideStatus(s)
    <3>1. status' \in Statuses /\ stable' \in Statuses \ {"enriching"}
      BY <1>3, <2>9, StatusTyped, BarrierConstants DEF OverrideStatus
    <3> QED BY <1>3, <2>9, <3>1 DEF OverrideStatus, TypeOK
  <2> QED BY <2>1, <2>2, <2>3, <2>4, <2>5, <2>6, <2>7, <2>8, <2>9
<1>5. TypeOK'
  BY <1>1, <1>3, <1>4 DEF TypeOK
<1> QED BY <1>2, <1>5 DEF BInv

\* A branch job that moves on without a word to the barrier.
LEMMA BranchMovesStep ==
    ASSUME BInv, NEW j \in Jobs,
           \/ StartBranch(j) \/ AdoptConflict(j) \/ Authorize(j) \/ Work(j) \/ Recheck(j)
           \/ FinishBranch(j) \/ BranchRetries(j)
    PROVE  BInv'
<1> USE DEF business, facts, barrier, enriching, branchJobs, scoring, bounds
<1> DEFINE Places == Over \cup {"queued"} \cup BranchSteps
<1>1. /\ UNCHANGED <<business, facts, barrier, enriching, target, scoring, faults, acts>>
      /\ \E place \in Places : GotoStep(j, place)
      /\ expected' = expected \/ expected' = [expected EXCEPT ![j] = status]
      /\ throws' \in {throws, throws + 1}
  BY SMTT(30) DEF StartBranch, AdoptConflict, Authorize, Work, Recheck, FinishBranch, BranchRetries,
         MayThrow, Over, BranchSteps
<1>2. Shape' /\ Numbered' /\ OneCurrent' /\ ScoredByJoin'
  BY <1>1, RowsFrame, ScoresFrame
<1>3. JobsHaveRuns'
  <2>1. CASE StartBranch(j)
    BY <2>1, GensAreNat, SMTT(30) DEF BInv, JobsHaveRuns, StartBranch, GotoStep, TypeOK, BranchSteps
  <2>2. CASE AdoptConflict(j)
    BY <1>1, <2>2, JobMoves DEF AdoptConflict
  <2>3. CASE Authorize(j)
    BY <1>1, <2>3, JobMoves DEF Authorize, BranchSteps
  <2>4. CASE Work(j)
    BY <1>1, <2>4, JobMoves DEF Work, BranchSteps
  <2>5. CASE Recheck(j)
    BY <1>1, <2>5, JobMoves DEF Recheck, BranchSteps
  <2>6. CASE FinishBranch(j)
    BY <1>1, <2>6, JobMoves DEF FinishBranch, BranchSteps
  <2>7. CASE BranchRetries(j)
    BY <1>1, <2>7, JobMoves DEF BranchRetries, BranchSteps
  <2> QED BY <2>1, <2>2, <2>3, <2>4, <2>5, <2>6, <2>7
<1>4. TypeOK'
  BY <1>1 DEF BInv, TypeOK, GotoStep
<1> QED BY <1>2, <1>3, <1>4 DEF BInv

\* A new generation: it takes the next number, and no other stays current.
LEMMA StartGenerationStep ==
    ASSUME BInv, StartGeneration
    PROVE  BInv'
<1> USE DEF business, facts, barrier, enriching, branchJobs, scoring, bounds
<1> DEFINE g == newest + 1
<1>1. /\ newest \in 0..MaxGen /\ g \in Gens
      /\ newest' = g
      /\ run' = Supersede(g)
      /\ job' = [j \in Jobs |-> IF j[1] = g THEN "queued" ELSE job[j]]
      /\ UNCHANGED <<target, score>>
  BY GensAreNat DEF BInv, TypeOK, StartGeneration
<1>2. \A h \in Gens : run[h] \in RunRecord
  BY DEF BInv, TypeOK, RunRecord
<1>3. /\ run'[g] \in RunRecord
      /\ run'[g].state = "running"
      /\ run'[g].branch = NoRun.branch
  BY <1>1 DEF Supersede, NoRun, RunRecord, RunStates, Outcomes
<1>4. \A h \in Gens \ {g} :
        /\ run'[h] \in RunRecord
        /\ run'[h].branch = run[h].branch
        /\ run'[h].state = IF Current(h) THEN "superseded" ELSE run[h].state
  BY <1>1, <1>2 DEF Supersede, RunRecord, RunStates
<1>5. Shape'
  <2>1. WellFormed(run'[g])
    BY <1>3 DEF WellFormed, AllSucceeded, NoRun, Branches
  <2>2. ASSUME NEW h \in Gens \ {g}
        PROVE  WellFormed(run'[h])
    BY <1>4, <2>2 DEF BInv, Shape, WellFormed, AllSucceeded, Current
  <2> QED BY <2>1, <2>2 DEF Shape, WellFormed, AllSucceeded
<1>6. Numbered'
  BY <1>1, <1>3, <1>4, GensAreNat DEF BInv, Numbered, Current
<1>7. OneCurrent'
  BY <1>1, <1>3, <1>4 DEF OneCurrent, Current
<1>8. ScoredByJoin'
  <2>1. run[g].state = "none" /\ run[g].branch = NoRun.branch
    BY <1>1, GensAreNat DEF BInv, Numbered, Shape, WellFormed
  <2>2. score[g] = "none"
    BY <1>1, <2>1 DEF BInv, ScoredByJoin, NoRun, Branches
  <2>3. \A h \in Gens \ {g} :
          (\A br \in Branches : run'[h].branch[br] = "succeeded" /\ run'[h].state # "blocked")
          <=> (\A br \in Branches : run[h].branch[br] = "succeeded" /\ run[h].state # "blocked")
    BY <1>4 DEF Current
  <2> QED BY <1>1, <1>3, <2>2, <2>3 DEF BInv, ScoredByJoin, NoRun, Branches
<1>9. JobsHaveRuns'
  BY <1>1, GensAreNat, SMTT(30) DEF BInv, JobsHaveRuns, TypeOK, BranchSteps
<1>10. TypeOK'
  <2>1. run' \in [Gens -> RunRecord]
    BY <1>1, <1>3, <1>4 DEF Supersede
  <2>2. job' \in [Jobs -> Over \cup {"queued"} \cup BranchSteps]
    BY <1>1 DEF BInv, TypeOK
  <2>3. newest' \in 0..MaxGen
    BY <1>1, GensAreNat
  <2> QED BY <2>1, <2>2, <2>3 DEF BInv, TypeOK, StartGeneration, RunRecord, Over
<1> QED BY <1>5, <1>6, <1>7, <1>8, <1>9, <1>10 DEF BInv

\* A legacy job joins the legacy generation that is current.
LEMMA AdoptSharedStep ==
    ASSUME BInv, NEW j \in Jobs, AdoptShared(j)
    PROVE  BInv'
<1> USE DEF business, facts, barrier, enriching, branchJobs, scoring, bounds
<1>1. PICK g \in Gens : Current(g) /\ target' = [target EXCEPT ![j] = g]
  BY DEF AdoptShared
<1>2. g <= newest
  BY <1>1 DEF BInv, Numbered, Current
<1>3. UNCHANGED <<run, newest, score>> /\ GotoStep(j, "authorize") /\ job[j] = "adopt"
  BY DEF AdoptShared
<1>4. Shape' /\ Numbered' /\ OneCurrent' /\ ScoredByJoin'
  BY <1>3, RowsFrame, ScoresFrame
<1>5. JobsHaveRuns'
  BY <1>1, <1>2, <1>3, GensAreNat, SMTT(30) DEF BInv, JobsHaveRuns, GotoStep, TypeOK, BranchSteps
<1>6. TypeOK'
  BY <1>1, GensAreNat DEF BInv, TypeOK, AdoptShared, GotoStep, BranchSteps
<1> QED BY <1>4, <1>5, <1>6 DEF BInv

\* A legacy job begins a generation only when none is current.
LEMMA AdoptNewStep ==
    ASSUME BInv, NEW j \in Jobs, AdoptNew(j)
    PROVE  BInv'
<1> USE DEF business, facts, barrier, enriching, branchJobs, scoring, bounds
<1> DEFINE g == newest + 1
           r == [NoRun EXCEPT !.source = "legacy", !.state = "running"]
<1>1. /\ newest \in 0..MaxGen /\ g \in Gens
      /\ newest' = g
      /\ run' = [run EXCEPT ![g] = r]
      /\ target' = [target EXCEPT ![j] = g]
      /\ GotoStep(j, "authorize")
      /\ job[j] = "adopt"
      /\ score' = score
      /\ \A h \in Gens : ~Current(h)
  BY GensAreNat DEF BInv, TypeOK, AdoptNew
<1>2. r \in RunRecord /\ r.state = "running" /\ r.branch = NoRun.branch
  BY DEF NoRun, RunRecord, RunStates, Outcomes
<1> HIDE DEF r
<1>3. run'[g] = r /\ \A h \in Gens \ {g} : run'[h] = run[h]
  BY <1>1 DEF BInv, TypeOK
<1>4. Shape'
  <2>1. WellFormed(r)
    BY <1>2 DEF WellFormed, AllSucceeded, NoRun, Branches
  <2> QED BY <1>3, <2>1 DEF BInv, Shape, WellFormed, AllSucceeded
<1>5. Numbered'
  BY <1>1, <1>2, <1>3, GensAreNat DEF BInv, Numbered
<1>6. OneCurrent'
  BY <1>1, <1>2, <1>3 DEF OneCurrent, Current
<1>7. ScoredByJoin'
  <2>1. run[g].state = "none" /\ run[g].branch = NoRun.branch
    BY <1>1, GensAreNat DEF BInv, Numbered, Shape, WellFormed
  <2>2. score[g] = "none"
    BY <1>1, <2>1 DEF BInv, ScoredByJoin, NoRun, Branches
  <2> QED BY <1>1, <1>2, <1>3, <2>2 DEF BInv, ScoredByJoin, NoRun, Branches
<1>8. JobsHaveRuns'
  BY <1>1, GensAreNat, SMTT(30) DEF BInv, JobsHaveRuns, GotoStep, TypeOK, BranchSteps
<1>9. TypeOK'
  <2>1. run' \in [Gens -> RunRecord]
    BY <1>1, <1>2 DEF BInv, TypeOK, RunRecord
  <2>2. target' \in [Jobs -> 0..MaxGen] /\ newest' \in 0..MaxGen
    BY <1>1, GensAreNat DEF BInv, TypeOK
  <2>3. job' \in [Jobs -> Over \cup {"queued"} \cup BranchSteps]
    BY <1>1 DEF BInv, TypeOK, GotoStep, BranchSteps
  <2> QED BY <2>1, <2>2, <2>3 DEF BInv, TypeOK, AdoptNew, RunRecord
<1> QED BY <1>4, <1>5, <1>6, <1>7, <1>8, <1>9 DEF BInv

\* The outcomes a settlement may have.
LEMMA SettledOutcomes ==
    /\ {"succeeded", "failed", "blocked"} = Outcomes \ {"pending"}
    /\ {"failed", "blocked"} = Outcomes \ {"pending", "succeeded"}
BY DEF Outcomes

\* A settlement that is no success joins nothing.
LEMMA SettleBlocks ==
    ASSUME NEW r \in RunRecord, NEW br \in Branches, NEW o \in {"failed", "blocked"}
    PROVE  ~(Settle(r, br, o) # r /\ Settle(r, br, o).state = "score_enqueued")
<1>0. o \in Outcomes \ {"pending"} /\ o # "succeeded"
  BY SettledOutcomes
<1>1. CASE r.state \in {"superseded", "completed"} \/ r.branch[br] # "pending"
  BY <1>1 DEF Settle
<1>2. CASE ~(r.state \in {"superseded", "completed"} \/ r.branch[br] # "pending")
  <2>1. Settle(r, br, o).state = IF r.state = "blocked" THEN "blocked"
                 ELSE IF o # "succeeded" THEN "blocked"
                 ELSE IF \A b \in Branches \ {br} : r.branch[b] = "succeeded"
                      THEN "score_enqueued" ELSE r.state
    BY <1>0, <1>2, SettleFields
  <2> QED BY <1>0, <2>1
<1> QED BY <1>1, <1>2

\* Settling a branch of a generation that has begun keeps the rows in order.
LEMMA SettledRow ==
    ASSUME BInv, NEW g \in Gens, g <= newest, NEW br \in Branches, NEW o \in Outcomes \ {"pending"},
           newest' = newest,
           run' = [run EXCEPT ![g] = Settle(run[g], br, o)]
    PROVE  /\ Shape' /\ Numbered' /\ OneCurrent'
           /\ run' \in [Gens -> RunRecord]
           /\ run'[g] = Settle(run[g], br, o)
           /\ \A h \in Gens \ {g} : run'[h] = run[h]
<1> DEFINE s == Settle(run[g], br, o)
<1>1. run \in [Gens -> RunRecord] /\ WellFormed(run[g]) /\ run[g].state # "none"
  BY DEF BInv, TypeOK, Shape, Numbered, RunRecord
<1>2. /\ s \in RunRecord
      /\ WellFormed(s)
      /\ s.state # "none"
      /\ s.state \in {"running", "score_enqueued"} => run[g].state \in {"running", "score_enqueued"}
  BY <1>1, SettleKeeps
<1> HIDE DEF s
<1>3. run' = [run EXCEPT ![g] = s]
  BY DEF s
<1>4. run' \in [Gens -> RunRecord] /\ run'[g] = s /\ \A h \in Gens \ {g} : run'[h] = run[h]
  BY <1>1, <1>2, <1>3
<1>5. Shape'
  BY <1>2, <1>4 DEF BInv, Shape, WellFormed, AllSucceeded
<1>6. Numbered'
  BY <1>1, <1>2, <1>4 DEF BInv, Numbered
<1>7. OneCurrent'
  BY <1>2, <1>4 DEF BInv, OneCurrent, Current
<1> QED BY <1>4, <1>5, <1>6, <1>7 DEF s

\* A success enqueues the score exactly when it joins the generation.
LEMMA SettledScore ==
    ASSUME BInv, NEW g \in Gens, g <= newest, NEW br \in Branches, NEW o \in Outcomes \ {"pending"},
           newest' = newest,
           run' = [run EXCEPT ![g] = Settle(run[g], br, o)],
           score' = [score EXCEPT ![g] =
               IF Settle(run[g], br, o) # run[g] /\ Settle(run[g], br, o).state = "score_enqueued"
               THEN "queued" ELSE @]
    PROVE  ScoredByJoin'
<1> DEFINE s == Settle(run[g], br, o)
           Done(r) == AllSucceeded(r) /\ r.state # "blocked"
<1>1. run \in [Gens -> RunRecord] /\ WellFormed(run[g]) /\ run[g].state # "none"
  BY DEF BInv, TypeOK, Shape, Numbered, RunRecord
<1>2. IF s # run[g] /\ s.state = "score_enqueued"
      THEN AllSucceeded(s) /\ ~AllSucceeded(run[g])
      ELSE Done(s) <=> Done(run[g])
  BY <1>1, SettleJoins
<1>3. run'[g] = s /\ \A h \in Gens \ {g} : run'[h] = run[h]
  BY SettledRow
<1> HIDE DEF s
<1>4. score'[g] = (IF s # run[g] /\ s.state = "score_enqueued" THEN "queued" ELSE score[g])
      /\ \A h \in Gens \ {g} : score'[h] = score[h]
  BY DEF BInv, TypeOK, s
<1>5. \A h \in Gens : score[h] # "none" <=> Done(run[h])
  BY DEF BInv, ScoredByJoin, AllSucceeded, Branches
<1>6. \A h \in Gens : score'[h] # "none" <=> Done(run'[h])
  BY <1>2, <1>3, <1>4, <1>5
<1> QED BY <1>6 DEF ScoredByJoin, AllSucceeded, Branches

\* A branch delivers.
LEMMA CompleteBranchStep ==
    ASSUME BInv, NEW j \in Jobs, CompleteBranch(j)
    PROVE  BInv'
<1> USE DEF business, facts, barrier, enriching, branchJobs, scoring, bounds
<1> DEFINE g == target[j]
           s == Settle(run[g], BranchOf(j), "succeeded")
<1>1. job[j] = "settle" /\ g \in Gens /\ g <= newest /\ BranchOf(j) \in Branches
  BY GensAreNat DEF CompleteBranch, BInv, JobsHaveRuns, BranchSteps, BranchOf
<1>2. newest' = newest /\ target' = target /\ run' = [run EXCEPT ![g] = s] /\ GotoStep(j, "finish")
  BY DEF CompleteBranch
<1>3. Shape' /\ Numbered' /\ OneCurrent' /\ run' \in [Gens -> RunRecord]
  BY <1>1, <1>2, SettledOutcomes, SettledRow
<1>4. ScoredByJoin'
  BY <1>1, <1>2, SettledOutcomes, SettledScore DEF CompleteBranch
<1>5. JobsHaveRuns'
  BY <1>1, <1>2, JobMoves DEF BranchSteps
<1>6. TypeOK'
  <2>1. job' \in [Jobs -> Over \cup {"queued"} \cup BranchSteps]
    BY <1>2 DEF BInv, TypeOK, GotoStep, BranchSteps
  <2>2. score' \in [Gens -> Over \cup {"queued"} \cup ScoreSteps] /\ auditRow' \in 0..MaxGen
    BY <1>1, GensAreNat DEF BInv, TypeOK, CompleteBranch
  <2> QED BY <1>3, <2>1, <2>2 DEF BInv, TypeOK, CompleteBranch, RunRecord
<1> QED BY <1>3, <1>4, <1>5, <1>6 DEF BInv

\* A contradictory audit blocks its branch.
LEMMA ContradictStep ==
    ASSUME BInv, NEW j \in Jobs, Contradict(j)
    PROVE  BInv'
<1> USE DEF business, facts, barrier, enriching, branchJobs, scoring, bounds
<1> DEFINE g == target[j]
           s == Settle(run[g], "audit", "blocked")
<1>1. job[j] = "contradict" /\ g \in Gens /\ g <= newest /\ "audit" \in Branches /\ run[g] \in RunRecord
  BY GensAreNat DEF Contradict, BInv, JobsHaveRuns, BranchSteps, Branches, TypeOK, RunRecord
<1>2. newest' = newest /\ target' = target /\ run' = [run EXCEPT ![g] = s] /\ GotoStep(j, "finish")
      /\ score' = score
  BY DEF Contradict
<1>3. Shape' /\ Numbered' /\ OneCurrent' /\ run' \in [Gens -> RunRecord]
  BY <1>1, <1>2, SettledOutcomes, SettledRow
<1>4. ScoredByJoin'
  <2>1. ~(s # run[g] /\ s.state = "score_enqueued")
    BY <1>1, SettleBlocks
  <2>2. score' = [score EXCEPT ![g] = IF s # run[g] /\ s.state = "score_enqueued" THEN "queued" ELSE @]
    BY <1>2, <2>1 DEF BInv, TypeOK
  <2> QED BY <1>1, <1>2, <2>2, SettledOutcomes, SettledScore
<1>5. JobsHaveRuns'
  BY <1>1, <1>2, JobMoves DEF BranchSteps
<1>6. TypeOK'
  <2>1. job' \in [Jobs -> Over \cup {"queued"} \cup BranchSteps]
    BY <1>2 DEF BInv, TypeOK, GotoStep, BranchSteps
  <2>2. TypeOK
    BY DEF BInv
  <2>3. status' \in Statuses /\ stable' \in Statuses \ {"enriching"} /\ auditRow' \in 0..MaxGen
    <3>1. CASE s # run[g]
      <4>1. auditRow' = g /\ MoveStatus(expected[j], "needs_review")
        BY <3>1 DEF Contradict
      <4> QED BY <1>1, <2>2, <4>1, MoveTyped, GensAreNat DEF Statuses
    <3>2. CASE s = run[g]
      BY <2>2, <3>2 DEF Contradict, TypeOK
    <3> QED BY <3>1, <3>2
  <2> QED BY <1>2, <1>3, <2>1, <2>2, <2>3 DEF TypeOK, Contradict, RunRecord
<1> QED BY <1>3, <1>4, <1>5, <1>6 DEF BInv

\* The last try of a branch fails.
LEMMA BranchFailsStep ==
    ASSUME BInv, NEW j \in Jobs, BranchFails(j)
    PROVE  BInv'
<1> USE DEF business, facts, barrier, enriching, branchJobs, scoring, bounds
<1> DEFINE g == target[j]
           s == Settle(run[g], BranchOf(j), "failed")
<1>1. /\ job[j] \in BranchSteps /\ GotoStep(j, "failed") /\ TypeOK
      /\ UNCHANGED <<newest, target, score, expected, whole, auditRow, enrich, enrichSaw,
                     scoreSaw, scored, faults, acts>>
      /\ throws' = throws + 1
  BY DEF BranchFails, MayThrow, BInv
<1>2. JobsHaveRuns'
  BY <1>1, JobMoves DEF BranchSteps
<1>3. job' \in [Jobs -> Over \cup {"queued"} \cup BranchSteps] /\ throws' \in Nat
  BY <1>1 DEF TypeOK, GotoStep, Over
<1>4. CASE job[j] # "adopt" /\ s # run[g]
  <2>1. g \in Gens /\ g <= newest /\ BranchOf(j) \in Branches /\ run[g] \in RunRecord
    BY <1>1, <1>4, GensAreNat DEF BInv, JobsHaveRuns, BranchOf, TypeOK, RunRecord
  <2>2. /\ run' = [run EXCEPT ![g] = s]
        /\ IF status = "enriching" THEN SetStatus("needs_review") ELSE UNCHANGED <<status, stable>>
    BY <1>4 DEF BranchFails
  <2>3. Shape' /\ Numbered' /\ OneCurrent' /\ run' \in [Gens -> RunRecord]
    BY <1>1, <2>1, <2>2, SettledOutcomes, SettledRow
  <2>4. ScoredByJoin'
    <3>1. ~(s # run[g] /\ s.state = "score_enqueued")
      BY <2>1, SettleBlocks
    <3>2. score' = [score EXCEPT ![g] = IF s # run[g] /\ s.state = "score_enqueued" THEN "queued" ELSE @]
      BY <1>1, <3>1 DEF TypeOK
    <3> QED BY <1>1, <2>1, <2>2, <3>2, SettledOutcomes, SettledScore
  <2>5. status' \in Statuses /\ stable' \in Statuses \ {"enriching"}
    <3>1. CASE status = "enriching"
      BY <1>1, <2>2, <3>1, StatusTyped DEF Statuses
    <3>2. CASE status # "enriching"
      BY <1>1, <2>2, <3>2 DEF TypeOK
    <3> QED BY <3>1, <3>2
  <2>6. TypeOK'
    BY <1>1, <1>3, <2>3, <2>5 DEF TypeOK, RunRecord
  <2> QED BY <1>2, <2>3, <2>4, <2>6 DEF BInv
<1>5. CASE ~(job[j] # "adopt" /\ s # run[g])
  <2>1. UNCHANGED <<run, status, stable>>
    BY <1>5 DEF BranchFails
  <2>2. Shape' /\ Numbered' /\ OneCurrent' /\ ScoredByJoin'
    BY <1>1, <2>1, RowsFrame, ScoresFrame
  <2>3. TypeOK'
    BY <1>1, <1>3, <2>1 DEF TypeOK
  <2> QED BY <1>2, <2>2, <2>3 DEF BInv
<1> QED BY <1>4, <1>5

\* The score handler on its way to its commit.
LEMMA ScoreMovesStep ==
    ASSUME BInv, NEW g \in Gens,
           StartScore(g) \/ CheckScore(g) \/ ReadEvidence(g) \/ ScoreThrows(g)
    PROVE  BInv'
<1> USE DEF business, facts, barrier, enriching, branchJobs, scoring, bounds
<1>1. TypeOK
  BY DEF BInv
<1>2. /\ UNCHANGED <<business, facts, barrier, enriching, branchJobs, scored, faults, acts>>
      /\ score[g] # "none"
      /\ \E place \in (Over \ {"none"}) \cup {"queued"} \cup ScoreSteps : GotoScore(g, place)
      /\ throws' \in Nat
  BY <1>1, SMTT(30) DEF StartScore, CheckScore, ReadEvidence, ScoreThrows, MayThrow, ScoreSteps, Over, TypeOK
<1>3. scoreSaw' \in [Gens -> [status : Statuses, whole : BOOLEAN]]
  <2>1. CASE StartScore(g)
    BY <1>1, <2>1 DEF StartScore, TypeOK
  <2>2. CASE ReadEvidence(g)
    BY <1>1, <2>2 DEF ReadEvidence, TypeOK
  <2>3. CASE CheckScore(g) \/ ScoreThrows(g)
    BY <1>1, <2>3 DEF CheckScore, ScoreThrows, TypeOK
  <2> QED BY <2>1, <2>2, <2>3
<1>4. PICK place \in (Over \ {"none"}) \cup {"queued"} \cup ScoreSteps :
        score' = [score EXCEPT ![g] = place]
  BY <1>2 DEF GotoScore
<1>5. Shape' /\ Numbered' /\ OneCurrent' /\ JobsHaveRuns'
  BY <1>2, RowsFrame, JobsFrame
<1>6. ScoredByJoin'
  <2>1. place # "none"
    BY DEF Over, ScoreSteps
  <2>2. \A h \in Gens : score'[h] = "none" <=> score[h] = "none"
    BY <1>1, <1>2, <1>4, <2>1 DEF TypeOK
  <2> QED BY <1>2, <2>2, ScoresFrame
<1>7. TypeOK'
  BY <1>1, <1>2, <1>3, <1>4 DEF TypeOK
<1> QED BY <1>5, <1>6, <1>7 DEF BInv

\* The end of a generation, which no longer is current.
LEMMA CommitScoreStep ==
    ASSUME BInv, NEW g \in Gens, NEW to \in {"needs_review", "qualified"}, CommitScore(g, to)
    PROVE  BInv'
<1> USE DEF business, facts, barrier, enriching, branchJobs, scoring, bounds
<1>1. TypeOK
  BY DEF BInv
<1>2. /\ UNCHANGED <<facts, newest, enriching, branchJobs, scoreSaw, bounds>>
      /\ score' = [score EXCEPT ![g] = "done"]
      /\ score[g] = "commit"
  BY DEF CommitScore, GotoScore
<1>3. JobsHaveRuns'
  BY <1>2, JobsFrame
<1>4. score' \in [Gens -> Over \cup {"queued"} \cup ScoreSteps]
      /\ \A h \in Gens : score'[h] = "none" <=> score[h] = "none"
  BY <1>1, <1>2 DEF TypeOK, Over
<1>5. CASE MayCommit(g)
  <2> DEFINE s == [run[g] EXCEPT !.state = "completed"]
  <2>1. /\ run' = [run EXCEPT ![g] = s]
        /\ MoveStatus(scoreSaw[g].status, to)
        /\ scored' \in SUBSET Gens
        /\ run[g].state = "score_enqueued"
    BY <1>1, <1>5 DEF CommitScore, MayCommit, TypeOK
  <2>2. run[g] \in RunRecord /\ run \in [Gens -> RunRecord]
    BY <1>1 DEF TypeOK, RunRecord
  <2>3. s \in RunRecord /\ s.state = "completed" /\ s.branch = run[g].branch
    BY <2>2 DEF RunRecord, RunStates
  <2> HIDE DEF s
  <2>4. run' \in [Gens -> RunRecord] /\ run'[g] = s /\ \A h \in Gens \ {g} : run'[h] = run[h]
    BY <2>1, <2>2, <2>3
  <2>5. AllSucceeded(run[g])
    BY <2>1 DEF BInv, Shape, WellFormed
  <2>6. Shape'
    <3>1. WellFormed(run'[g])
      BY <2>3, <2>4, <2>5 DEF WellFormed, AllSucceeded
    <3>2. \A h \in Gens \ {g} : WellFormed(run'[h])
      BY <2>4 DEF BInv, Shape
    <3> QED BY <3>1, <3>2 DEF Shape, WellFormed, AllSucceeded
  <2>7. Numbered'
    BY <1>2, <2>1, <2>3, <2>4 DEF BInv, Numbered
  <2>8. OneCurrent'
    BY <1>2, <2>3, <2>4 DEF BInv, OneCurrent, Current
  <2>9. ScoredByJoin'
    BY <1>4, <2>1, <2>3, <2>4 DEF BInv, ScoredByJoin
  <2>10. status' \in Statuses /\ stable' \in Statuses \ {"enriching"}
    <3>1. to \in Statuses
      BY DEF Statuses
    <3> QED BY <1>1, <2>1, <3>1, MoveTyped
  <2>11. TypeOK'
    BY <1>1, <1>2, <1>4, <2>1, <2>4, <2>10 DEF TypeOK, RunRecord
  <2> QED BY <1>3, <2>6, <2>7, <2>8, <2>9, <2>11 DEF BInv
<1>6. CASE ~MayCommit(g)
  <2>1. UNCHANGED <<run, status, stable, scored>>
    BY <1>6 DEF CommitScore
  <2>2. Shape' /\ Numbered' /\ OneCurrent' /\ ScoredByJoin'
    BY <1>2, <1>4, <2>1, RowsFrame, ScoresFrame
  <2>3. TypeOK'
    BY <1>1, <1>2, <1>4, <2>1 DEF TypeOK
  <2> QED BY <1>3, <2>2, <2>3 DEF BInv
<1> QED BY <1>5, <1>6

\* A restart loses handlers and no job.
LEMMA RestartStep ==
    ASSUME BInv, Restart
    PROVE  BInv'
<1> USE DEF business, facts, barrier, enriching, branchJobs, scoring, bounds
<1>1. TypeOK
  BY DEF BInv
<1>2. /\ UNCHANGED <<enrichSaw, facts, barrier, target, expected, scoreSaw, scored, throws, acts>>
      /\ enrich' = IF enrich \in EnrichSteps THEN "lost" ELSE enrich
      /\ job' = [j \in Jobs |-> IF job[j] \in BranchSteps THEN "lost" ELSE job[j]]
      /\ score' = [g \in Gens |-> IF score[g] \in ScoreSteps THEN "lost" ELSE score[g]]
      /\ faults' = faults + 1
  BY DEF Restart
<1>3. status' \in Statuses /\ stable' \in Statuses \ {"enriching"}
  <2>1. CASE status = "enriching" /\ ~Queued
    <3>1. SetStatus(stable) /\ stable \in Statuses
      BY <1>1, <2>1 DEF Restart, TypeOK
    <3> QED BY <1>1, <3>1, StatusTyped
  <2>2. CASE ~(status = "enriching" /\ ~Queued)
    BY <1>1, <2>2 DEF Restart, TypeOK
  <2> QED BY <2>1, <2>2
<1>4. Shape' /\ Numbered' /\ OneCurrent'
  BY <1>2, RowsFrame
<1>5. ScoredByJoin'
  <2>1. \A g \in Gens : score'[g] = "none" <=> score[g] = "none"
    BY <1>2 DEF ScoreSteps
  <2> QED BY <1>2, <2>1, ScoresFrame
<1>6. JobsHaveRuns'
  <2>1. \A j \in Jobs : job'[j] \notin BranchSteps /\ (job'[j] = "none" <=> job[j] = "none")
    BY <1>2 DEF BranchSteps
  <2> QED BY <1>2, <2>1 DEF BInv, JobsHaveRuns, BranchSteps
<1>7. TypeOK'
  BY <1>1, <1>2, <1>3 DEF TypeOK, Over
<1> QED BY <1>4, <1>5, <1>6, <1>7 DEF BInv

\* A job put back was there before.
LEMMA RequeueStep ==
    ASSUME BInv, Requeue
    PROVE  BInv'
<1> USE DEF business, facts, barrier, enriching, branchJobs, scoring, bounds
<1>1. TypeOK
  BY DEF BInv
<1>2. /\ UNCHANGED <<enrichSaw, business, facts, barrier, target, expected, scoreSaw, scored, throws, faults>>
      /\ acts' = acts + 1
  BY DEF Requeue
<1>3. Shape' /\ Numbered' /\ OneCurrent'
  BY <1>2, RowsFrame
<1>4. CASE enrich' = "queued" /\ UNCHANGED <<job, score>>
  <2>1. JobsHaveRuns' /\ ScoredByJoin'
    BY <1>2, <1>4, JobsFrame, ScoresFrame
  <2>2. TypeOK'
    BY <1>1, <1>2, <1>4 DEF TypeOK
  <2> QED BY <1>3, <2>1, <2>2 DEF BInv
<1>5. ASSUME NEW j \in Jobs, job[j] \in Over \ {"none"}, GotoStep(j, "queued"), UNCHANGED <<enrich, score>>
      PROVE  BInv'
  <2>1. JobsHaveRuns'
    BY <1>2, <1>5, JobMoves
  <2>2. ScoredByJoin'
    BY <1>2, <1>5, ScoresFrame
  <2>3. TypeOK'
    BY <1>1, <1>2, <1>5 DEF TypeOK, GotoStep
  <2> QED BY <1>3, <2>1, <2>2, <2>3 DEF BInv
<1>6. ASSUME NEW g \in Gens, score[g] \in Over \ {"none"}, GotoScore(g, "queued"), UNCHANGED <<enrich, job>>
      PROVE  BInv'
  <2>1. score' \in [Gens -> Over \cup {"queued"} \cup ScoreSteps]
        /\ \A h \in Gens : score'[h] = "none" <=> score[h] = "none"
    BY <1>1, <1>6 DEF TypeOK, GotoScore
  <2>2. JobsHaveRuns' /\ ScoredByJoin'
    BY <1>2, <1>6, <2>1, JobsFrame, ScoresFrame
  <2>3. TypeOK'
    BY <1>1, <1>2, <1>6, <2>1 DEF TypeOK
  <2> QED BY <1>3, <2>2, <2>3 DEF BInv
<1> QED BY <1>4, <1>5, <1>6 DEF Requeue

-----------------------------------------------------------------------------
LEMMA InitHolds == Init => BInv
<1> SUFFICES ASSUME Init PROVE BInv
  OBVIOUS
<1>1. /\ run = [g \in Gens |-> NoRun]
      /\ NoRun \in RunRecord /\ NoRun.state = "none"
      /\ \A br \in Branches : NoRun.branch[br] = "pending"
  BY DEF Init, NoRun, RunRecord, RunStates, Outcomes
<1>2. TypeOK
  <2>1. run \in [Gens -> RunRecord]
    BY <1>1
  <2>2. \A j \in Jobs : job[j] \in {"none", "queued"}
    BY DEF Init
  <2> QED
    BY <2>1, GensAreNat, BarrierConstants
    DEF Init, TypeOK, RunRecord, Statuses, Over
<1>3. Shape
  BY <1>1 DEF Shape, WellFormed
<1>4. Numbered /\ OneCurrent
  BY <1>1, GensAreNat DEF Init, Numbered, OneCurrent, Current
<1>5. ScoredByJoin
  BY <1>1 DEF Init, ScoredByJoin, Branches
<1>6. JobsHaveRuns
  BY GensAreNat, SMTT(30) DEF Init, JobsHaveRuns, BranchSteps
<1> QED BY <1>2, <1>3, <1>4, <1>5, <1>6 DEF BInv

LEMMA NextPreserves == BInv /\ [Next]_vars => BInv'
<1> SUFFICES ASSUME BInv, [Next]_vars PROVE BInv'
  OBVIOUS
<1>1. CASE EnrichStep
  BY <1>1, EnrichMovesStep, StartGenerationStep DEF EnrichStep
<1>2. ASSUME NEW j \in Jobs, BranchStep(j) \/ BranchRetries(j) \/ BranchFails(j)
      PROVE  BInv'
  BY <1>2, BranchMovesStep, AdoptSharedStep, AdoptNewStep, CompleteBranchStep, ContradictStep,
     BranchFailsStep DEF BranchStep
<1>3. ASSUME NEW g \in Gens, ScoreStep(g) \/ ScoreThrows(g)
      PROVE  BInv'
  BY <1>3, ScoreMovesStep, CommitScoreStep DEF ScoreStep
<1>4. CASE EnrichThrows \/ RecollectFacts \/ \E s \in OperatorMoves : OverrideStatus(s)
  BY <1>4, EnrichMovesStep
<1>5. CASE Restart
  BY <1>5, RestartStep
<1>6. CASE Requeue
  BY <1>6, RequeueStep
<1>7. CASE UNCHANGED vars
  <2> USE DEF vars, business, facts, barrier, enriching, branchJobs, scoring, bounds
  <2>1. Shape' /\ Numbered' /\ OneCurrent' /\ JobsHaveRuns' /\ ScoredByJoin'
    BY <1>7, RowsFrame, JobsFrame, ScoresFrame
  <2>2. TypeOK'
    BY <1>7 DEF BInv, TypeOK
  <2> QED BY <2>1, <2>2 DEF BInv
<1> QED BY <1>1, <1>2, <1>3, <1>4, <1>5, <1>6, <1>7 DEF Next

\* The invariant holds in every state the barrier reaches.
THEOREM BarrierInductive == Spec => []BInv
BY InitHolds, NextPreserves, PTL DEF Spec

\* Every row, job and counter stays of its type, for any bounds.
THEOREM BarrierTypeCorrect == Spec => []TypeOK
<1>1. BInv => TypeOK
  BY DEF BInv
<1> QED BY <1>1, BarrierInductive, PTL

\* start, adoptLegacyBranch and commitScore keep at most one generation in
\* progress, and it is the newest.
THEOREM OneGenerationCurrent == Spec => []OneCurrent
<1>1. BInv => OneCurrent
  BY DEF BInv
<1> QED BY <1>1, BarrierInductive, PTL

\* settleEnrichmentBranchInTransaction enqueues a score for the generations
\* whose branches all succeeded, and for no other.
THEOREM JoinEnqueuesScore == Spec => []ScoredByJoin
<1>1. BInv => ScoredByJoin
  BY DEF BInv
<1> QED BY <1>1, BarrierInductive, PTL

-----------------------------------------------------------------------------
\* What a step does to the rows of enrichment_runs: a generation begins,
Begins(g) ==
    /\ run[g].state = "none"
    /\ \A h \in Gens : h < g => run[h].state # "none"
    /\ run'[g].state = "running" /\ run'[g].branch = NoRun.branch
    /\ \A h \in Gens \ {g} :
          /\ run'[h].branch = run[h].branch
          /\ run'[h].state = IF Current(h) THEN "superseded" ELSE run[h].state

\* a branch is settled,
Settles(g, br, o) ==
    /\ run[g].state # "none"
    /\ run' = [run EXCEPT ![g] = Settle(run[g], br, o)]

\* or a joined generation is closed.
Closes(g) ==
    /\ run[g].state = "score_enqueued"
    /\ run' = [run EXCEPT ![g].state = "completed"]

LEMMA RunMoves ==
    ASSUME BInv, [Next]_vars
    PROVE  \/ UNCHANGED run
           \/ \E g \in Gens : Begins(g)
           \/ \E g \in Gens, br \in Branches, o \in Outcomes \ {"pending"} : Settles(g, br, o)
           \/ \E g \in Gens : Closes(g)
<1> USE DEF business, facts, barrier, enriching, branchJobs, scoring, bounds
<1> DEFINE g == newest + 1
<1>1. run \in [Gens -> RunRecord] /\ newest \in 0..MaxGen
  BY DEF BInv, TypeOK, RunRecord
<1>2. newest < MaxGen => /\ g \in Gens
                         /\ run[g].state = "none"
                         /\ \A h \in Gens : h < g => run[h].state # "none"
  BY <1>1, GensAreNat DEF BInv, Numbered
<1>3. CASE StartGeneration
  <2>1. newest < MaxGen /\ run' = Supersede(g)
    BY <1>3 DEF StartGeneration
  <2>2. run'[g].state = "running" /\ run'[g].branch = NoRun.branch
    BY <1>2, <2>1 DEF Supersede, NoRun
  <2>3. \A h \in Gens \ {g} :
          /\ run'[h].branch = run[h].branch
          /\ run'[h].state = IF Current(h) THEN "superseded" ELSE run[h].state
    BY <1>1, <2>1 DEF Supersede, RunRecord
  <2> QED BY <1>2, <2>1, <2>2, <2>3 DEF Begins
<1>4. ASSUME NEW j \in Jobs, AdoptNew(j) PROVE Begins(g) /\ g \in Gens
  <2> DEFINE r == [NoRun EXCEPT !.source = "legacy", !.state = "running"]
  <2>1. newest < MaxGen /\ run' = [run EXCEPT ![g] = r] /\ \A h \in Gens : ~Current(h)
    BY <1>4 DEF AdoptNew
  <2>2. r.state = "running" /\ r.branch = NoRun.branch
    BY DEF NoRun
  <2> HIDE DEF r
  <2>3. run'[g] = r /\ \A h \in Gens \ {g} : run'[h] = run[h]
    BY <1>1, <1>2, <2>1
  <2> QED BY <1>2, <2>1, <2>2, <2>3 DEF Begins
<1>5. ASSUME NEW j \in Jobs, job[j] \in BranchSteps \ {"adopt"}
      PROVE  target[j] \in Gens /\ run[target[j]].state # "none" /\ BranchOf(j) \in Branches
  BY <1>5, GensAreNat DEF BInv, JobsHaveRuns, Numbered, BranchOf
<1>6. ASSUME NEW j \in Jobs, CompleteBranch(j)
      PROVE  Settles(target[j], BranchOf(j), "succeeded") /\ target[j] \in Gens /\ BranchOf(j) \in Branches
  BY <1>5, <1>6 DEF CompleteBranch, Settles, BranchSteps
<1>7. ASSUME NEW j \in Jobs, Contradict(j)
      PROVE  Settles(target[j], "audit", "blocked") /\ target[j] \in Gens /\ "audit" \in Branches
  BY <1>5, <1>7 DEF Contradict, Settles, BranchSteps, Branches
<1>8. ASSUME NEW j \in Jobs, BranchFails(j)
      PROVE  \/ UNCHANGED run
             \/ Settles(target[j], BranchOf(j), "failed") /\ target[j] \in Gens /\ BranchOf(j) \in Branches
  BY <1>5, <1>8 DEF BranchFails, Settles
<1>9. ASSUME NEW h \in Gens, NEW to, CommitScore(h, to)
      PROVE  UNCHANGED run \/ Closes(h)
  BY <1>9 DEF CommitScore, MayCommit, Closes
<1>10. \/ StartEnrich \/ BeginEnrich \/ WipeFacts \/ NoEvidence \/ CollectFacts \/ CheckCurrent
       \/ EnrichThrows \/ RecollectFacts \/ Restart \/ Requeue \/ UNCHANGED vars
       \/ \E s \in OperatorMoves : OverrideStatus(s)
       \/ \E j \in Jobs : \/ StartBranch(j) \/ AdoptConflict(j) \/ AdoptShared(j) \/ Authorize(j)
                          \/ Work(j) \/ Recheck(j) \/ FinishBranch(j) \/ BranchRetries(j)
       \/ \E h \in Gens : StartScore(h) \/ CheckScore(h) \/ ReadEvidence(h) \/ ScoreThrows(h)
       => UNCHANGED run
  BY DEF StartEnrich, BeginEnrich, WipeFacts, NoEvidence, CollectFacts, CheckCurrent, EnrichThrows,
         RecollectFacts, Restart, Requeue, vars, OverrideStatus, StartBranch, AdoptConflict, AdoptShared,
         Authorize, Work, Recheck, FinishBranch, BranchRetries, StartScore, CheckScore, ReadEvidence,
         ScoreThrows
<1> HIDE DEF g
<1> QED
  BY <1>3, <1>4, <1>6, <1>7, <1>8, <1>9, <1>10, SettledOutcomes
  DEF Next, EnrichStep, BranchStep, ScoreStep

\* An outcome the join was built on is never revised by a retry, an operator's
\* requeue or the failure of a job whose branch had already reported.
THEOREM OutcomesAreFinal == Spec => DecidedOnce
<1>1. BInv /\ [Next]_vars =>
        [\A g \in Gens, br \in Branches :
           run[g].branch[br] # "pending" => run'[g].branch[br] = run[g].branch[br]]_vars
  <2> SUFFICES ASSUME BInv, [Next]_vars, NEW g \in Gens, NEW br \in Branches,
                      run[g].branch[br] # "pending"
               PROVE  run'[g].branch[br] = run[g].branch[br]
    OBVIOUS
  <2>1. run \in [Gens -> RunRecord] /\ Shape
    BY DEF BInv, TypeOK, RunRecord
  <2>2. ASSUME NEW h \in Gens, Begins(h)
        PROVE  run'[g].branch[br] = run[g].branch[br]
    <3>1. run[h].branch = NoRun.branch
      BY <2>1, <2>2 DEF Shape, WellFormed, Begins
    <3> QED BY <2>2, <3>1 DEF Begins
  <2>3. ASSUME NEW h \in Gens, NEW b \in Branches, NEW o \in Outcomes \ {"pending"}, Settles(h, b, o)
        PROVE  run'[g].branch[br] = run[g].branch[br]
    <3>1. CASE g = h
      <4>1. WellFormed(run[g]) /\ run[g].state # "none" /\ run[g] \in RunRecord
        BY <2>1, <2>3, <3>1 DEF Shape, Settles
      <4>2. Settle(run[g], b, o).branch[br] = run[g].branch[br]
        BY <4>1, SettleKeeps
      <4> QED BY <2>1, <2>3, <3>1, <4>2 DEF Settles
    <3>2. CASE g # h
      BY <2>1, <2>3, <3>2 DEF Settles
    <3> QED BY <3>1, <3>2
  <2>4. ASSUME NEW h \in Gens, Closes(h)
        PROVE  run'[g].branch[br] = run[g].branch[br]
    BY <2>1, <2>4 DEF Closes, RunRecord
  <2> QED BY <2>2, <2>3, <2>4, RunMoves
<1> QED BY <1>1, BarrierInductive, PTL DEF Spec, DecidedOnce

\* commitScore records a score for the newest generation only, while it is
\* joined: a score handler that was overtaken commits nothing.
THEOREM OnlyNewestScores == Spec => NewestScores
<1>1. BInv /\ [Next]_vars =>
        [\A g \in Gens : g \in scored' /\ g \notin scored =>
           g = newest /\ run[g].state = "score_enqueued"]_vars
  <2> SUFFICES ASSUME BInv, [Next]_vars, NEW g \in Gens, g \in scored', g \notin scored
               PROVE  g = newest /\ run[g].state = "score_enqueued"
    OBVIOUS
  <2>1. PICK h \in Gens, to \in {"needs_review", "qualified"} : CommitScore(h, to)
    BY DEF Next, EnrichStep, BranchStep, ScoreStep, StartEnrich, BeginEnrich, WipeFacts, NoEvidence,
           CollectFacts, CheckCurrent, StartGeneration, StartBranch, AdoptConflict, AdoptShared, AdoptNew,
           Authorize, Work, Recheck, CompleteBranch, Contradict, FinishBranch, BranchRetries, BranchFails,
           StartScore, CheckScore, ReadEvidence, ScoreThrows, EnrichThrows, Restart, RecollectFacts,
           Requeue, OverrideStatus, scoring, vars
  <2>2. MayCommit(h) /\ g = h
    BY <2>1 DEF CommitScore
  <2> QED BY <2>2 DEF MayCommit, BInv, OneCurrent, Current
<1> QED BY <1>1, BarrierInductive, PTL DEF Spec, NewestScores

\* The rows of enrichment_runs implement the fan-in: generations begin in order,
\* are joined once with both branches delivered, and replace what is in progress.
THEOREM ImplementsFanIn == Spec => FanInSpec
<1> DEFINE phase == [g \in Gens |-> PhaseOf(run[g])]
           evidence == [g \in Gens |-> EvidenceOf(run[g])]
<1>1. Init => Fan!FanInit
  BY DEF Init, Fan!FanInit, NoRun, PhaseOf, EvidenceOf
<1>2. BInv /\ [Next]_vars => [Fan!FanNext]_<<phase, evidence>>
  <2> SUFFICES ASSUME BInv, [Next]_vars PROVE [Fan!FanNext]_<<phase, evidence>>
    OBVIOUS
  <2>1. run \in [Gens -> RunRecord] /\ run' \in [Gens -> RunRecord] /\ Shape
    BY NextPreserves DEF BInv, TypeOK, RunRecord
  <2>2. CASE UNCHANGED run
    BY <2>2
  <2>3. ASSUME NEW g \in Gens, Begins(g) PROVE Fan!Begin(g)
    <3>1. \A h \in Gens : run[h] \in RunRecord /\ run'[h] \in RunRecord
      BY <2>1
    <3>2. \A h \in Gens : PhaseOf(run[h]) = "none" <=> run[h].state = "none"
      BY DEF PhaseOf
    <3>3. \A h \in Gens : Fan!InProgress(h) <=> Current(h)
      BY <3>1 DEF Fan!InProgress, PhaseOf, Current, RunRecord, RunStates
    <3>4. PhaseOf(run'[g]) = "open"
      BY <2>3 DEF Begins, PhaseOf
    <3>5. \A h \in Gens \ {g} :
            PhaseOf(run'[h]) = IF Current(h) THEN "superseded" ELSE PhaseOf(run[h])
      BY <2>3 DEF Begins, PhaseOf
    <3>6. \A h \in Gens : run'[h].branch = run[h].branch
      BY <2>1, <2>3 DEF Begins, Shape, WellFormed
    <3>7. evidence' = evidence
      BY <3>6 DEF EvidenceOf
    <3>8. phase' = [h \in Gens |-> IF h = g THEN "open" ELSE IF Fan!InProgress(h) THEN "superseded" ELSE phase[h]]
      BY <3>3, <3>4, <3>5
    <3> QED BY <2>3, <3>2, <3>7, <3>8 DEF Fan!Begin, Begins
  <2>4. ASSUME NEW g \in Gens, NEW br \in Branches, NEW o \in Outcomes \ {"pending"}, Settles(g, br, o)
        PROVE  UNCHANGED <<phase, evidence>> \/ Fan!Block(g) \/ Fan!Deliver(g, br)
    <3> DEFINE r == run[g]
               s == Settle(r, br, o)
    <3>1. r \in RunRecord /\ WellFormed(r) /\ r.state # "none"
      BY <2>1, <2>4 DEF Shape, Settles
    <3>2. run' = [run EXCEPT ![g] = s]
      BY <2>4 DEF Settles
    <3>3. CASE r.state \in {"superseded", "completed"} \/ r.branch[br] # "pending"
      <4>1. s = r
        BY <3>3 DEF Settle
      <4> QED BY <2>1, <3>2, <4>1
    <3>4. CASE ~(r.state \in {"superseded", "completed"} \/ r.branch[br] # "pending")
      <4>1. /\ s \in RunRecord
            /\ s.branch = [r.branch EXCEPT ![br] = o]
            /\ s.state = IF r.state = "blocked" THEN "blocked"
                         ELSE IF o # "succeeded" THEN "blocked"
                         ELSE IF \A b \in Branches \ {br} : r.branch[b] = "succeeded"
                              THEN "score_enqueued" ELSE r.state
        BY <3>1, <3>4, SettleFields
      <4>2. r.state \in {"running", "blocked"}
        BY <3>1, <3>4 DEF WellFormed, AllSucceeded, RunRecord, RunStates
      <4> HIDE DEF s
      <4>3. run'[g] = s /\ \A h \in Gens \ {g} : run'[h] = run[h]
        BY <2>1, <3>2
      <4>4. r.branch \in [Branches -> Outcomes] /\ \A b \in Branches : s.branch[b] = IF b = br THEN o ELSE r.branch[b]
        BY <3>1, <4>1 DEF RunRecord
      <4>5. phase' = [phase EXCEPT ![g] = PhaseOf(s)] /\ phase[g] = PhaseOf(r)
        BY <4>3
      <4>6. evidence' = [evidence EXCEPT ![g] = EvidenceOf(s)] /\ evidence[g] = EvidenceOf(r)
        BY <4>3
      <4>7. CASE o # "succeeded"
        <5>1. EvidenceOf(s) = EvidenceOf(r)
          BY <3>4, <4>4, <4>7 DEF EvidenceOf
        <5>2. PhaseOf(s) = "blocked" /\ PhaseOf(r) \in {"open", "blocked"}
          BY <4>1, <4>2, <4>7 DEF PhaseOf
        <5>3. evidence' = evidence
          BY <4>6, <5>1
        <5>4. CASE PhaseOf(r) = "open"
          BY <4>5, <5>2, <5>3, <5>4 DEF Fan!Block
        <5>5. CASE PhaseOf(r) = "blocked"
          <6>1. phase' = phase
            BY <4>5, <5>2, <5>5
          <6> QED BY <5>3, <6>1
        <5> QED BY <5>2, <5>4, <5>5
      <4>8. CASE o = "succeeded"
        <5>1. EvidenceOf(s) = EvidenceOf(r) \cup {br} /\ br \notin EvidenceOf(r)
          BY <3>4, <4>4, <4>8 DEF EvidenceOf
        <5>2. (EvidenceOf(r) \cup {br} = Branches) <=> \A b \in Branches \ {br} : r.branch[b] = "succeeded"
          BY DEF EvidenceOf
        <5>3. PhaseOf(r) \in {"open", "blocked"}
          BY <4>2 DEF PhaseOf
        <5>4. PhaseOf(s) = IF PhaseOf(r) = "open" /\ EvidenceOf(r) \cup {br} = Branches
                          THEN "joined" ELSE PhaseOf(r)
          BY <4>1, <4>2, <4>8, <5>2 DEF PhaseOf
        <5> QED BY <4>5, <4>6, <5>1, <5>3, <5>4 DEF Fan!Deliver
      <4> QED BY <4>7, <4>8
    <3> QED BY <3>3, <3>4
  <2>5. ASSUME NEW g \in Gens, Closes(g) PROVE Fan!Close(g)
    <3> DEFINE s == [run[g] EXCEPT !.state = "completed"]
    <3>1. run' = [run EXCEPT ![g] = s] /\ s.state = "completed" /\ s.branch = run[g].branch
      BY <2>1, <2>5 DEF Closes, RunRecord
    <3> HIDE DEF s
    <3>2. run'[g] = s /\ \A h \in Gens \ {g} : run'[h] = run[h]
      BY <2>1, <3>1
    <3>3. evidence' = evidence
      BY <3>1, <3>2 DEF EvidenceOf
    <3>4. phase' = [phase EXCEPT ![g] = PhaseOf(s)] /\ phase[g] = PhaseOf(run[g])
      BY <3>2
    <3>5. PhaseOf(s) = "closed" /\ PhaseOf(run[g]) = "joined"
      BY <2>5, <3>1 DEF PhaseOf, Closes
    <3> QED BY <3>3, <3>4, <3>5 DEF Fan!Close
  <2> HIDE DEF phase, evidence
  <2> QED BY <2>2, <2>3, <2>4, <2>5, RunMoves DEF Fan!FanNext
<1> QED BY <1>1, <1>2, BarrierInductive, PTL DEF Spec, FanInSpec, Fan!FanSpec, Fan!fan

-----------------------------------------------------------------------------
\* An open generation that enrichment began, and a branch it still waits for.
Open(g) == run[g].state = "running" /\ run[g].source = "native"
Waited(g, br) == Open(g) /\ run[g].branch[br] = "pending"

\* No enrichment is on its way to replace the open generation.
Idle == enrich \notin {"queued", "failed"} \cup EnrichSteps

Undisturbed == faults = 0 /\ acts = 0

InWork == {"queued", "authorize", "work", "recheck", "settle", "contradict"}
AuditAtWork == {"authorize", "work", "recheck", "contradict"}

\* Only the audit reads the status again.
AssetsDoNotRecheck == \A g \in Gens : job[<<g, "assets">>] \notin {"recheck", "contradict"}

\* While the business is enriching and nothing is on its way, an audit at work began in
\* that status: whatever brought the business back to enriching is on its way.
AuditSawEnriching ==
    Undisturbed /\ status = "enriching" /\ Idle =>
        \A g \in Gens : Open(g) /\ job[<<g, "audit">>] \in AuditAtWork =>
            expected[<<g, "audit">>] = "enriching"

\* A settlement opens no generation and leaves nothing to wait for in its branch.
LEMMA SettleCloses ==
    ASSUME NEW r \in RunRecord, NEW br \in Branches, NEW o \in Outcomes \ {"pending"}
    PROVE  LET s == Settle(r, br, o) IN
           /\ s.source = r.source
           /\ s.state = "running" => r.state = "running"
           /\ \A b \in Branches : s.branch[b] = "pending" => r.branch[b] = "pending"
           /\ r.state = "running" => s.branch[br] # "pending"
<1> DEFINE s == Settle(r, br, o)
<1>1. CASE r.state \in {"superseded", "completed"} \/ r.branch[br] # "pending"
  BY <1>1 DEF Settle
<1>2. CASE ~(r.state \in {"superseded", "completed"} \/ r.branch[br] # "pending")
  <2>1. /\ s.branch = [r.branch EXCEPT ![br] = o]
        /\ s.state = "running" => r.state = "running"
    BY <1>2, SettleFields
  <2>2. s.source = r.source
    BY <1>2 DEF Settle, RunRecord
  <2>3. r.branch \in [Branches -> Outcomes]
    BY DEF RunRecord
  <2> QED
    BY <2>1, <2>2, <2>3
<1> QED
  BY <1>1, <1>2

\* A business is brought to enriching, with nothing on its way, only by the generation
\* that begins there.
LEMMA QuietStep ==
    ASSUME BInv, [Next]_vars, Undisturbed', status' = "enriching", Idle'
    PROVE  StartGeneration \/ (Undisturbed /\ status = "enriching" /\ Idle)
<1> USE DEF business, facts, barrier, enriching, branchJobs, scoring, bounds
<1>1. faults \in Nat /\ acts \in Nat /\ enrich \in Over \cup {"queued"} \cup EnrichSteps
  BY DEF BInv, TypeOK
<1>2. ~Restart /\ ~Requeue /\ \A s : ~OverrideStatus(s)
  BY <1>1 DEF Restart, Requeue, OverrideStatus, Undisturbed
<1>3. ASSUME NEW from, NEW to \in {"needs_review", "qualified"}, MoveStatus(from, to)
      PROVE  status = "enriching"
  BY <1>3 DEF MoveStatus, SetStatus
<1>4. CASE EnrichStep \/ EnrichThrows \/ RecollectFacts
  <2>1. ~StartEnrich
    BY DEF StartEnrich, Idle, EnrichSteps, Enrichable
  <2>2. ~BeginEnrich
    BY DEF BeginEnrich, MoveStatus, SetStatus, Wins, Idle, EnrichSteps
  <2>3. ~NoEvidence
    BY DEF NoEvidence, MoveStatus, SetStatus, Wins
  <2>4. ~CheckCurrent /\ ~WipeFacts /\ ~CollectFacts
    BY DEF CheckCurrent, WipeFacts, CollectFacts, Wins, Idle, EnrichSteps
  <2>5. ~EnrichThrows
    BY DEF EnrichThrows, Idle
  <2>6. ~RecollectFacts
    BY <1>1 DEF RecollectFacts, Idle
  <2> QED
    BY <1>4, <2>1, <2>2, <2>3, <2>4, <2>5, <2>6 DEF EnrichStep
<1>5. ASSUME NEW j \in Jobs, BranchStep(j) \/ BranchRetries(j) \/ BranchFails(j)
      PROVE  UNCHANGED <<enrich, faults, acts>> /\ status = "enriching"
  <2>1. CASE Contradict(j)
    BY <1>3, <2>1 DEF Contradict
  <2>2. CASE BranchFails(j)
    BY <2>2 DEF BranchFails, MayThrow, SetStatus
  <2> QED
    BY <1>5, <2>1, <2>2 DEF BranchStep, StartBranch, AdoptConflict, AdoptShared, AdoptNew, Authorize,
       Work, Recheck, CompleteBranch, FinishBranch, BranchRetries, MayThrow
<1>6. ASSUME NEW g \in Gens, ScoreStep(g) \/ ScoreThrows(g)
      PROVE  UNCHANGED <<enrich, faults, acts>> /\ status = "enriching"
  <2>1. ASSUME NEW to \in {"needs_review", "qualified"}, CommitScore(g, to)
        PROVE  UNCHANGED <<enrich, faults, acts>> /\ status = "enriching"
    BY <1>3, <2>1 DEF CommitScore
  <2> QED
    BY <1>6, <2>1 DEF ScoreStep, StartScore, CheckScore, ReadEvidence, ScoreThrows, MayThrow
<1>7. CASE UNCHANGED vars
  BY <1>7 DEF vars, Undisturbed, Idle
<1> QED
  BY <1>2, <1>4, <1>5, <1>6, <1>7 DEF Next, Undisturbed, Idle

LEMMA AssetsNext ==
    ASSUME BInv, AssetsDoNotRecheck, [Next]_vars
    PROVE  AssetsDoNotRecheck'
<1> USE DEF business, facts, barrier, enriching, branchJobs, scoring, bounds
<1> SUFFICES ASSUME NEW g \in Gens PROVE job'[<<g, "assets">>] \notin {"recheck", "contradict"}
  BY Zenon DEF AssetsDoNotRecheck
<1> DEFINE i == <<g, "assets">>
<1>1. job \in [Jobs -> Over \cup {"queued"} \cup BranchSteps] /\ job[i] \notin {"recheck", "contradict"}
  BY DEF BInv, TypeOK, AssetsDoNotRecheck
<1>2. i \in Jobs /\ BranchOf(i) = "assets"
  BY GensAreNat DEF Jobs, Branches, BranchOf
<1> HIDE DEF i
<1>3. ASSUME NEW j \in Jobs, BranchStep(j) \/ BranchRetries(j) \/ BranchFails(j)
      PROVE  job'[i] \notin {"recheck", "contradict"}
  <2>1. CASE Work(j)
    BY <1>1, <1>2, <2>1 DEF Work, GotoStep
  <2>2. CASE ~Work(j)
    <3>1. \E place \in {"adopt", "authorize", "work", "settle", "finish", "done", "queued", "failed"} :
              GotoStep(j, place)
      BY <1>3, <2>2 DEF BranchStep, StartBranch, AdoptConflict, AdoptShared, AdoptNew, Authorize,
         Recheck, CompleteBranch, Contradict, FinishBranch, BranchRetries, BranchFails
    <3> QED
      BY <1>1, <1>2, <3>1 DEF GotoStep
  <2> QED
    BY <2>1, <2>2
<1>4. CASE StartGeneration \/ Restart \/ Requeue
  <2>1. \A j \in Jobs : job'[j] = job[j] \/ job'[j] \in {"queued", "lost"}
    BY <1>1, <1>4 DEF StartGeneration, Restart, Requeue, GotoStep
  <2> QED
    BY <1>1, <1>2, <2>1 DEF i
<1>5. \/ EnrichStep /\ ~StartGeneration
      \/ EnrichThrows \/ RecollectFacts \/ UNCHANGED vars
      \/ \E s \in OperatorMoves : OverrideStatus(s)
      \/ \E h \in Gens : ScoreStep(h) \/ ScoreThrows(h)
      => UNCHANGED job
  BY DEF EnrichStep, StartEnrich, BeginEnrich, WipeFacts, NoEvidence, CollectFacts, CheckCurrent,
         EnrichThrows, RecollectFacts, OverrideStatus, ScoreStep, StartScore, CheckScore, ReadEvidence,
         CommitScore, ScoreThrows, vars
<1> QED
  BY <1>1, <1>3, <1>4, <1>5 DEF Next, i

\* What the job of a branch does to the branches of generation g: the branch of its own
\* generation is awaited as long as it is waited for.
LEMMA AwaitedStep ==
    ASSUME BInv, AssetsDoNotRecheck, NEW g \in Gens, NEW br \in Branches,
           Waited(g, br) => job[<<g, br>>] \in InWork,
           br = "audit" /\ Open(g) /\ job[<<g, br>>] \in AuditAtWork => expected[<<g, br>>] = "enriching",
           status = "enriching",
           NEW j \in Jobs, BranchStep(j) \/ BranchRetries(j) \/ BranchFails(j)
    PROVE  /\ Waited(g, br)' => job'[<<g, br>>] \in InWork
           /\ br = "audit" /\ Open(g)' /\ job'[<<g, br>>] \in AuditAtWork =>
                  expected'[<<g, br>>] = "enriching"
<1> USE DEF business, facts, barrier, enriching, branchJobs, scoring, bounds
<1> DEFINE i == <<g, br>>
<1>1. /\ i \in Jobs /\ BranchOf(i) = br /\ i[1] = g /\ g > 0 /\ i[1] # 0
      /\ target[i] = g /\ job[i] # "adopt"
  BY GensAreNat DEF BInv, JobsHaveRuns, Jobs, BranchOf
<1>2. /\ job \in [Jobs -> Over \cup {"queued"} \cup BranchSteps]
      /\ expected \in [Jobs -> Statuses]
      /\ run \in [Gens -> RunRecord]
      /\ newest \in 0..MaxGen
  BY DEF BInv, TypeOK, RunRecord
<1>3. br = "assets" => job[i] \notin {"recheck", "contradict"}
  BY DEF AssetsDoNotRecheck
<1>h. /\ Waited(g, br) => job[i] \in InWork
      /\ br = "audit" /\ Open(g) /\ job[i] \in AuditAtWork => expected[i] = "enriching"
  OBVIOUS
<1> HIDE DEF i
<1>4. ASSUME UNCHANGED run PROVE (Waited(g, br)' <=> Waited(g, br)) /\ (Open(g)' <=> Open(g))
  BY <1>4 DEF Waited, Open
<1>s. ASSUME NEW t \in Gens, NEW b \in Branches, NEW o \in Outcomes \ {"pending"},
             run' = [run EXCEPT ![t] = Settle(run[t], b, o)]
      PROVE  /\ Waited(g, br)' => Waited(g, br)
             /\ Open(g)' => Open(g)
             /\ t = g /\ b = br => ~Waited(g, br)'
  BY <1>2, <1>s, SettleCloses DEF Waited, Open
<1>b. "succeeded" \in Outcomes \ {"pending"} /\ "blocked" \in Outcomes \ {"pending"}
      /\ "failed" \in Outcomes \ {"pending"}
  BY DEF Outcomes
<1>5. CASE j # i
  <2>1. job'[i] = job[i] /\ expected'[i] = expected[i]
    BY <1>1, <1>2, <1>5 DEF BranchStep, StartBranch, AdoptConflict, AdoptShared, AdoptNew, Authorize,
       Work, Recheck, CompleteBranch, Contradict, FinishBranch, BranchRetries, BranchFails, GotoStep
  <2>t. job[j] \in BranchSteps \ {"adopt"} => target[j] \in Gens /\ BranchOf(j) \in Branches
    BY GensAreNat DEF BInv, JobsHaveRuns, BranchOf
  <2>2. (Waited(g, br)' => Waited(g, br)) /\ (Open(g)' => Open(g))
    <3>1. CASE CompleteBranch(j)
      BY <1>b, <1>s, <2>t, <3>1 DEF CompleteBranch, BranchSteps
    <3>2. CASE Contradict(j)
      BY <1>b, <1>s, <2>t, <3>2 DEF Contradict, BranchSteps, Branches
    <3>3. CASE BranchFails(j)
      <4>1. UNCHANGED run \/ (job[j] # "adopt" /\ run' = [run EXCEPT ![target[j]] =
                                                  Settle(run[target[j]], BranchOf(j), "failed")])
        BY <3>3 DEF BranchFails
      <4>2. job[j] \in BranchSteps
        BY <3>3 DEF BranchFails
      <4> QED
        BY <1>4, <1>b, <1>s, <2>t, <4>1, <4>2
    <3>4. CASE AdoptNew(j)
      <4> DEFINE n == newest + 1
                 r == [NoRun EXCEPT !.source = "legacy", !.state = "running"]
      <4>1. n \in Gens /\ run' = [run EXCEPT ![n] = r]
        BY <1>2, <3>4, GensAreNat DEF AdoptNew
      <4>2. r.source = "legacy"
        BY DEF NoRun
      <4> HIDE DEF n, r
      <4> QED
        BY <1>2, <4>1, <4>2 DEF Waited, Open
    <3>5. CASE ~CompleteBranch(j) /\ ~Contradict(j) /\ ~BranchFails(j) /\ ~AdoptNew(j)
      <4>1. UNCHANGED run
        BY <3>5 DEF BranchStep, StartBranch, AdoptConflict, AdoptShared, Authorize, Work, Recheck,
           FinishBranch, BranchRetries
      <4> QED
        BY <1>4, <4>1
    <3> QED
      BY <3>1, <3>2, <3>3, <3>4, <3>5
  <2> QED
    BY <1>h, <2>1, <2>2 DEF i
<1>6. CASE j = i
  <2> USE DEF InWork, AuditAtWork
  <2>1. CASE StartBranch(i)
    <3>1. /\ UNCHANGED run /\ job'[i] = "authorize"
          /\ br = "audit" => expected'[i] = "enriching"
      BY <1>1, <1>2, <2>1 DEF StartBranch, GotoStep
    <3> QED
      BY <3>1 DEF i
  <2>2. CASE Authorize(i)
    <3>1. /\ UNCHANGED <<run, expected>> /\ job[i] = "authorize"
          /\ job'[i] = IF run[g].state = "running" /\ run[g].branch[br] = "pending"
                       THEN "work" ELSE "finish"
      BY <1>1, <1>2, <2>2 DEF Authorize, GotoStep
    <3> QED
      BY <1>4, <1>h, <3>1 DEF Waited, Open, i
  <2>3. CASE Work(i)
    <3>1. /\ UNCHANGED <<run, expected>> /\ job[i] = "work"
          /\ job'[i] \in {"settle", "recheck", "contradict"}
      BY <1>1, <1>2, <2>3 DEF Work, GotoStep
    <3> QED
      BY <1>4, <1>h, <3>1 DEF i
  <2>4. CASE Recheck(i)
    <3>1. /\ UNCHANGED <<run, expected>> /\ job[i] = "recheck"
          /\ job'[i] = IF status = expected[i] THEN "settle" ELSE "finish"
      BY <1>1, <1>2, <2>4 DEF Recheck, GotoStep
    <3>2. br = "audit"
      BY <1>3, <3>1 DEF Branches
    <3>3. Open(g) => job'[i] = "settle"
      BY <1>h, <3>1, <3>2
    <3> QED
      BY <1>4, <3>1, <3>3 DEF Waited, i
  <2>5. CASE CompleteBranch(i) \/ Contradict(i)
    <3>1. /\ job'[i] = "finish"
          /\ ~Waited(g, br)'
      <4>1. CASE CompleteBranch(i)
        BY <1>1, <1>2, <1>b, <1>s, <4>1 DEF CompleteBranch, GotoStep
      <4>2. CASE Contradict(i)
        <5>1. br = "audit"
          BY <1>3, <4>2 DEF Contradict, Branches
        <5> QED
          BY <1>1, <1>2, <1>b, <1>s, <4>2, <5>1 DEF Contradict, GotoStep
      <4> QED
        BY <2>5, <4>1, <4>2
    <3> QED
      BY <3>1 DEF i
  <2>6. CASE FinishBranch(i)
    <3>1. UNCHANGED run /\ job[i] = "finish" /\ job'[i] = "done"
      BY <1>1, <1>2, <2>6 DEF FinishBranch, GotoStep
    <3> QED
      BY <1>4, <1>h, <3>1 DEF i
  <2>7. CASE BranchRetries(i)
    <3>1. UNCHANGED run /\ job'[i] = "queued"
      BY <1>1, <1>2, <2>7 DEF BranchRetries, GotoStep
    <3> QED
      BY <3>1 DEF i
  <2>8. CASE BranchFails(i)
    <3> DEFINE r == Settle(run[g], br, "failed")
    <3>1. job'[i] = "failed" /\ run' = [run EXCEPT ![g] = r]
      BY <1>1, <1>2, <2>8 DEF BranchFails, GotoStep
    <3>2. ~Waited(g, br)'
      BY <1>b, <1>s, <3>1
    <3> QED
      BY <3>1, <3>2 DEF i
  <2>9. ~AdoptConflict(i) /\ ~AdoptShared(i) /\ ~AdoptNew(i)
    BY <1>1 DEF AdoptConflict, AdoptShared, AdoptNew
  <2> QED
    BY <1>6, <2>1, <2>2, <2>3, <2>4, <2>5, <2>6, <2>7, <2>8, <2>9 DEF BranchStep
<1> QED
  BY <1>5, <1>6

AwaitInv == AssetsDoNotRecheck /\ AuditSawEnriching /\ PendingIsAwaited

LEMMA AwaitNext ==
    ASSUME BInv, AwaitInv, [Next]_vars
    PROVE  AwaitInv'
<1> USE DEF business, facts, barrier, enriching, branchJobs, scoring, bounds
<1> DEFINE Awaited(g, br) == Waited(g, br) => job[<<g, br>>] \in InWork
           InStep(g, br) == br = "audit" /\ Open(g) /\ job[<<g, br>>] \in AuditAtWork =>
                                expected[<<g, br>>] = "enriching"
           Calm == Undisturbed /\ status = "enriching" /\ Idle
<1>1. AwaitInv <=> /\ AssetsDoNotRecheck
                   /\ Calm => \A g \in Gens, br \in Branches : Awaited(g, br) /\ InStep(g, br)
  BY DEF AwaitInv, AuditSawEnriching, PendingIsAwaited, Undisturbed, Idle, Waited, Open, InWork,
         AuditAtWork, Branches
<1>2. AwaitInv' <=> /\ AssetsDoNotRecheck'
                    /\ Calm' => \A g \in Gens, br \in Branches : Awaited(g, br)' /\ InStep(g, br)'
  BY DEF AwaitInv, AuditSawEnriching, PendingIsAwaited, Undisturbed, Idle, Waited, Open, InWork,
         AuditAtWork, Branches
<1>3. AssetsDoNotRecheck /\ AssetsDoNotRecheck'
  BY <1>1, AssetsNext
<1>4. ASSUME Calm', NEW g \in Gens, NEW br \in Branches
      PROVE  Awaited(g, br)' /\ InStep(g, br)'
  <2>1. run \in [Gens -> RunRecord] /\ newest \in 0..MaxGen
    BY DEF BInv, TypeOK, RunRecord
  <2>2. CASE StartGeneration
    <3> DEFINE n == newest + 1
    <3>1. /\ run' = Supersede(n)
          /\ job' = [j \in Jobs |-> IF j[1] = n THEN "queued" ELSE job[j]]
      BY <2>2 DEF StartGeneration
    <3>2. CASE g = n
      <4>1. job'[<<g, br>>] = "queued"
        BY <3>1, <3>2, GensAreNat DEF Jobs
      <4> QED
        BY <4>1 DEF InWork, AuditAtWork
    <3>3. CASE g # n
      <4>1. ~Open(g)'
        BY <2>1, <3>1, <3>3 DEF Supersede, Open, Current, RunRecord
      <4> QED
        BY <4>1 DEF Waited
    <3> QED
      BY <3>2, <3>3
  <2>3. CASE Calm
    <3>1. Awaited(g, br) /\ InStep(g, br) /\ status = "enriching"
      BY <1>1, <2>3
    <3>2. ASSUME NEW j \in Jobs, BranchStep(j) \/ BranchRetries(j) \/ BranchFails(j)
          PROVE  Awaited(g, br)' /\ InStep(g, br)'
      BY <1>3, <3>1, <3>2, AwaitedStep
    <3>3. ASSUME UNCHANGED <<job, expected>>,
                 UNCHANGED run \/ \E h \in Gens : run' = [run EXCEPT ![h].state = "completed"]
          PROVE  Awaited(g, br)' /\ InStep(g, br)'
      <4>1. Open(g)' => run'[g] = run[g]
        BY <2>1, <3>3 DEF Open, RunRecord
      <4>2. (Open(g)' => Open(g)) /\ (Waited(g, br)' => Waited(g, br))
        BY <4>1 DEF Waited, Open
      <4> QED
        BY <3>1, <3>3, <4>2
    <3>4. ASSUME NEW h \in Gens, ScoreStep(h) \/ ScoreThrows(h)
          PROVE  Awaited(g, br)' /\ InStep(g, br)'
      BY <3>3, <3>4 DEF ScoreStep, StartScore, CheckScore, ReadEvidence, CommitScore, ScoreThrows
    <3>5. CASE (EnrichStep /\ ~StartGeneration) \/ EnrichThrows \/ RecollectFacts \/ UNCHANGED vars
      BY <3>3, <3>5 DEF EnrichStep, StartEnrich, BeginEnrich, WipeFacts, NoEvidence, CollectFacts,
         CheckCurrent, EnrichThrows, RecollectFacts, vars
    <3>6. ~Restart /\ ~Requeue /\ \A s : ~OverrideStatus(s)
      BY <1>4 DEF Restart, Requeue, OverrideStatus, Undisturbed, BInv, TypeOK
    <3> QED
      BY <2>2, <3>2, <3>4, <3>5, <3>6 DEF Next
  <2> QED
    BY <1>4, <2>2, <2>3, QuietStep
<1> QED
  BY <1>2, <1>3, <1>4

\* Without a restart or an act of the operator, no generation is left open for a branch
\* nobody works on, however many errors are thrown: the business left enriching, or a new
\* enrichment is on its way or failed.  The audit that stops at a moved status is the case
\* that needs the invariant.
THEOREM PendingBranchesAreAwaited == Spec => []PendingIsAwaited
<1>1. Init => AwaitInv
  <2> SUFFICES ASSUME Init PROVE AwaitInv
    OBVIOUS
  <2>1. \A g \in Gens : run[g].state = "none"
    BY DEF Init, NoRun
  <2>2. \A g \in Gens, br \in Branches : job[<<g, br>>] = "none"
    BY GensAreNat DEF Init, Jobs
  <2> QED
    BY <2>1, <2>2 DEF AwaitInv, AssetsDoNotRecheck, AuditSawEnriching, PendingIsAwaited, Open, Branches
<1>2. BInv /\ AwaitInv /\ [Next]_vars => AwaitInv'
  BY AwaitNext
<1>3. AwaitInv => PendingIsAwaited
  BY DEF AwaitInv
<1> QED
  BY <1>1, <1>2, <1>3, BarrierInductive, PTL DEF Spec
=============================================================================
