# A formal model of the websites factory

This directory specifies the core of the factory in TLA+, checks it with TLC on
small instances and proves the properties that matter most, for instances of
every size, with TLAPS. It is written against the source under `src/src/`;
`PROJECT.json` maps each definition to the lines it stands for.

Contents: [the system](#the-system) · [modules](#the-modules) ·
[runs](#the-runs) · [fairness](#fairness) · [proofs](#the-proofs) ·
[divergences](#where-the-code-and-its-documents-disagree) ·
[not modelled](#what-is-not-modelled) · [plan](#the-plan)

## The system

The factory takes a city and a trade, finds businesses, collects evidence about
them, builds a demo website for the promising ones and, after an operator's
approval, offers it to them. PostgreSQL is the source of truth; pg-boss, in the
same database, delivers jobs at least once. Two containers run the workers:
`factory` (the groups *core* and *enrich*) and `factory-build` (the group
*build*). The operator acts through a web console, a Telegram bot and internal
HTTP endpoints.

    discover → normalize → fast-qualify → enrich → { collect-assets ∥ audit-website }
      → score-and-qa → readiness-gate → content-and-design → build-site ⇄ visual-qa
      → deploy-demo → request-approval → (operator) → send-outreach → send-followup

Beside the pipeline run `poll-replies`, `daily-summary`, `assess-city`,
`enrich-socials` and `refresh-brand`.

### Inventory

| Component | State | Operations | How it meets the others | What is hard | What makes it correct |
|---|---|---|---|---|---|
| Job ledger (`orchestrator/queue.ts`, `workflowRunStore.ts`) | `workflow_job_runs` (logical runs), `workflow_jobs` (attempts), `pgboss.job` | enqueue, continue after a pause, claim, commit a success, skip, failure or need of a human | every handler runs inside `processJob`; every stage enqueues the next in its own transaction | redelivery, expiry under a live handler, two counters of one retry budget, results that arrive late | one open run per key, one worker per attempt, the two tables agree, a closed run stays closed, every accepted run ends |
| Boot reconciliation (`reconcile.ts`) | the same tables, `businesses.status`, `site_projects` | `markStaleJobs`, `revertStrandedBusinesses`, `failInterruptedBuilds`, `requeueOrphanedBuildJobs` | runs in one container while the other works | telling dead attempts from live ones | no live attempt is closed, no dead one is left open |
| Archive (`archiveService.ts`) | `archived_at` of businesses and campaigns | archive, unarchive, delete, for a business or a campaign | cancels runs under running workers | several statements under READ COMMITTED | nothing runs for an archived business, the ledger stays in step |
| Business statuses (`statuses.ts`, `businessStatus.ts`) | `businesses.status`, `status_history` | normal move, override, recovery, all compare-and-set | every stage | a stage acting on a status it read long ago | only allowed edges, history equals the path taken |
| Enrichment fan-in (`enrichmentBarrier.ts`, `workers/{enrich,assets,audit,score}.ts`) | `enrichment_runs`, facts, audits, scores | start a generation, adopt a legacy branch, authorize, settle, commit the score | the failure of a branch is joined in `processJob` | generations that overlap, branches that report late | one generation current, one score per join, old work is silent |
| Build pipeline (`workers/{readiness,contentDesign,builder,visualQa,deploy}.ts`, `buildReviewDecision.ts`, `buildFailureDecision.ts`, `autoAdvance.ts`) | `site_projects`, versions, reviews, the export in the workspace | gate, design, build, judge, review, deploy, rebuild | its jobs are in the ledger, its agents behind the runner, the operator beside it | a bounded repair loop, two deciders, interrupted builds, an export rewritten under a verdict | the loop is bounded, what is published was judged, a rejected business stays out, every build settles |
| Outreach (`outreachDecisionService.ts`, `outreachDeliveryService.ts`, `workers/{approval,outreach}.ts`) | `approvals`, `outreach_messages`, `deals` | request, approve, reject, reserve, finalize, mark failed or doubtful, confirm a manual send | channels, the ledger, inbound events | the gap between the transport and the record | nothing unapproved leaves, nothing leaves twice, what left is on record, the daily budget holds |
| Inbound events (`inboundOutreachService.ts`, `workers/replies.ts`, `outreach/*`) | `outreach_events`, `do_not_contact`, IMAP cursor | poll, take a webhook, record a reply, an opt-out, a bounce; cancel follow-ups | cancels queued runs, moves the business and its deal | overlapping polls and a cursor, repeated deliveries, an event during a send | no mail is passed over, no answer counts twice, an answer undoes nobody's decision, no follow-up after an answer |
| Operator commands (`operatorBusinessCommandService.ts`, `api/*Commands.ts`) | the tables above | start a build, recollect facts, do not contact, deal stage, override, requeue a job | concurrent with every worker | commands decided on a stale view | they never break an invariant of the component they touch |
| Campaigns and discovery (`campaignCommandService.ts`, `campaignFlow.ts`, `normalizationService.ts`, `manualBusinessService.ts`, `workers/{discovery,normalize,fastQualify,assessCity}.ts`) | `campaigns`, businesses and their sources | create, pause, search, hand over, deduplicate, add by hand, judge | enqueue into the ledger, cancelled by the archive, gated by the stop-points of the campaign | duplicates found concurrently, a search that dies half way, a verdict decided before it is committed | one business per place, no lead lost, one verdict, nothing let through that was not |
| Consumer pool, semaphores, settings (`workerConsumerPool.ts`, `agents/semaphore.ts`, `lib/settingsStore.ts`, `workers/main.ts`) | handles, waiters, snapshot of the settings | resize, acquire, release, refresh, reload | bound the concurrency of the handlers | reads that overtake each other, resizing while work waits, registrations that fail | no call begins over the limit, none is lost, everything converges to the saved limits |
| Agent runtimes and runner (`agents/*`, `runner/*`) | workspaces and scratches, reservations, runs and their terminals | open an invocation, stage, run, mirror back, answer, salvage | called by the handlers of the pipeline over two hops | three processes that stop independently, deadlines that pass while the agent works | a handler goes on with its own agent's work only, one request per workspace, every one released |
| Channels (`channels/*`) | none | send by e-mail, WhatsApp, Viber, Instagram | called by the send handlers | an error after the provider accepted | an error says whether the message may have left |
| Account logins and checks (`api/{accounts,checkCache,server}.ts`, `runner/credentials.ts`) | sessions and children of the executor, the token's file and variable, `check:` rows | start, submit a code, cancel, expire, store, check, disconnect | the executor owns the logins, the factory the cached checks; agents use the credential | a child, a token and a check that outlive their login; removal beside a store or a check | one child per provider, an ended login stays ended, every login ends |
| Collectors, media, storage, import, Telegram, console, templates | files and rows | extraction and display | leaves of the pipeline | none of the above | outside these models |

## The modules

| Module | Role |
|---|---|
| `WorkflowQueue` | the job ledger, `processJob`, pg-boss, crashes, both boot passes, archive, cancelled follow-ups, dismissal |
| `RunLedger` | what `workflow_job_runs` promises to its readers; implemented by `WorkflowQueue` |
| `WorkflowQueueProofs` | the inductive invariant and the theorems of the queue |
| `Outreach` | approvals, the two send handlers, the delivery ledger, inbound events, operator commands |
| `OutreachProofs` | theorems of the outreach |
| `EnrichmentBarrier` | enrich, branches, barrier, score, operator and restarts |
| `FanIn` | what the barrier promises of its generations; implemented by `EnrichmentBarrier` |
| `EnrichmentBarrierProofs` | theorems of the barrier |
| `BusinessStatus` | the table of transitions, used by `BuildPipeline` and `Intake` |
| `Intake` | campaigns, search, deduplication, leads by hand, the first verdict, the shelf |
| `IntakeProofs` | theorems of the intake |
| `BuildPipeline` | from the readiness gate to the deploy, the operator's decisions and the boot passes on builds |
| `DemoLifecycle` | what the build promises about every demo; implemented by `BuildPipeline` |
| `BuildPipelineProofs` | theorems of the build |
| `RunnerGateway` | an invocation of a code agent across the factory, the gateway and the executor |
| `ExecutorProofs` | theorems of the runner, and of the logins its executor keeps |
| `Capacity` | settings snapshot, consumer pools, semaphores |
| `CapacityProofs` | theorems of the capacity |
| `InboundPolling` | the mailbox, its cursor, the webhook, events and their consequences |
| `InboundPollingProofs` | theorems of the polls and events |
| `AccountLogin` | logins of Claude and Codex, their credential, disconnection, cached checks |
| `MC…` | instances of each for TLC |

The modules meet at the job ledger. `WorkflowQueue` has every detail of a job
and an opaque handler; `EnrichmentBarrier`, `BuildPipeline`, `Intake` and
`Outreach` have the handlers in detail and a job by its status (or its place in
the handler), with the moves `WorkflowQueue` allows: queued, taken, ended,
failed or parked, put back, lost with its container. An event recorded in
`InboundPolling` is the action of `Outreach` that stops the follow-ups. A
verdict in `Intake` ends with the enrich job `EnrichmentBarrier` begins with,
and the export of `BuildPipeline` is the page of `RunnerGateway`.

One action is one committed transaction, or one step of a handler between two
of its awaits that touch shared state. PostgreSQL serialises transactions that
lock the same row, so a transaction is atomic where it locks what it reads;
where it does not (the two UPDATEs of an archive, the archive gate) it is split
into the snapshots it takes. Rows are records or functions of the key; a status
is the string of the code; ids are model values. Handlers are program counters
named after the next step they take.

### WorkflowQueue

`runStatus` and `runSeq` are `workflow_job_runs`, `attStatus` and `tries` are
`workflow_jobs` with an attempt named `<<run, sequence>>`, `boss` and
`refetched` are the state and the retry count of `pgboss.job`, which is
external. `pc` and `job` place each worker in `processJob`: *gate* (the archive
check), *claim*, *handler*, then *complete* or *fail*, the answer pg-boss gets.
A handler is opaque: it may end in any of the ways the code distinguishes, and
its result must pass `Fenced`, the check `processJob` repeats under a row lock.
`shelf`, `seen` and `held` are an archive in progress: the snapshot of its first
UPDATE and the index entries its second one holds until it commits. `thrown` is
a history variable of the tries that ended in an error.

### Outreach

A message is named by `<<approval, index>>`, index 0 being the initial one. `msg`
is the state of its row (`outreach_messages.state`), `wire` how often it really
left, `calls` how often a transport was called; the two differ when a provider
refuses. `at` is the step of the handler of its job. A transport call is
accepted, refused or ambiguous, as `channels/types.ts` has it. `stopped` notes
whether a reason not to write existed when the job began. The factory has a mode
(live or dry run) that the operator switches at any time and every job reads
when it begins; a channel may be manual, so that a person confirms the send. The
24-hour window is the action that ages a counted row.

### EnrichmentBarrier

`run` is `enrichment_runs` by generation; `job` and `score` place the branch and
score handlers, one job per branch and generation plus, for the jobs from
before the barrier, one without a generation (0). Facts are reduced to whether
they are those of a finished collection (`whole`) and audits to the generation
that wrote the newest (`auditRow`). A thrown error leaves the job another try or
was its last: `WorkflowQueue` counts tries, here both are possible. A restart
loses every running handler and is followed by the boot pass, which fails their
runs and sends an enriching business nobody works on back to its last stable
status. `elsewhere` stands for a status with no edge back, like `rejected`.

### Intake

`mode`, `stage`, `shelvedAt` are a campaign; `search`, `scrape`, `next` its
discover job and how far its handler has handed rows over; `norm` and `look` the
normalize job of a row and what its open transaction has read. A business is
named in the order of insertion and is known by the candidate it was made from
(`card`); `qual` is its fast-qualify job with the payload that job carries, and
`late` holds the verdicts of handlers whose run was cancelled while they worked.
A candidate is a model value with its identities (place, phone, domain, spot),
its name, and who is near it: the lookups and the advisory locks are taken over
these. `clock` is the instant of an archiving, by which the code tells what went
with a campaign from what was archived before.

### BuildPipeline

One business and its site projects. A job is named by its idempotency key
`<<type, project, round>>`; `run` is the status of the key's latest run and `at`
where its handler stands: each handler reads, lets an agent work for minutes,
commits its result together with the next job, and only then is its own end
recorded. `export` stands for `out/` of the project's workspace and whether it
was judged since it was last touched; `sees` are the QA jobs whose screenshots
still show it. `desk` is a stop command of the operator between its read and its
write, with the attempt it is about: a key may be enqueued anew meanwhile, and the
command then closes the attempt it was given for and not the new one; `boot` the boot passes of the core container, one after the other.

### RunnerGateway

The handler of the factory (`client`), the gateway (`gate`, `holder`, `synced`,
`reply`) and the executor (`exec`, `outcome`) are three processes that stop
independently. `file` has, for a workspace and for the scratch of each request,
the agent's report and the page it built; a file is who wrote it and which
invocations had been opened by then, which is all its modification time tells.
`taken` notes whose work a handler went on with. A request id is drawn afresh,
so the reply caches are never hit; the executor's agent may go on after everybody
who waited for it has left.

### Capacity

One worker process, which is one thread: a step is what runs between two awaits.
`row` is the saved limit of each group, `loads` and `inFlight` the reads of the
table under way, `snapshot` the cache; a semaphore is `active`, `limit` and the
queue `waiting`; a pool is `handles` against the consumers `registered` with
pg-boss, and the `chain` of resizes asked for. A consumer's callback (`doing`)
makes one agent call.

### InboundPolling

`box` is the mailbox in the order of its UIDs, `epoch` its UIDVALIDITY, `cursor`
the persisted one, `poll` what each poller has in memory. A message has a kind,
a business and perhaps an id of its provider, which makes its event unique.
`looked` and `passed` are history: what a poll has looked at, and what was there
when a numbering was begun without a cursor.

### AccountLogin

A login is a pair of its provider and a number; `session` is the map of the
executor, `phase` and `finished` are the fields of a session (the code keeps both,
and `finish` looks at both), `child` is its CLI, which lives on for up to two
seconds after SIGTERM. `storing` is the continuation nobody awaits: the store of a
token and its check, or the check after a login of Codex. The credential of Claude
is a file (`token`) and a variable of the executor (`memory`), written and removed in two steps each.
`leaving` is a disconnection, `probe` the answer of a check not yet written to its
row `chip`. The executor and the factory stop independently; files and inserts fail.

## The runs

All runs but `Capacity_live` and `Login_live` set `CHECK_DEADLOCK FALSE`: run ids,
generations, faults and commands are bounded, so a finished system legitimately has
nothing left to do. Faults are crashes, failed transactions or calls, thrown errors and
handlers that outlive the expiry of their job.

| Run | Bounds | What it shows |
|---|---|---|
| `Queue_containers` | a build job and a follow-up, 2 attempts per run, two workers in the build container and one in the other, 1 fault, fair | one worker per attempt, agreeing tables while one container crashes, boots and cancels and the other works; `RunLedger` is implemented; unless the fault intervenes, every accepted run ends |
| `Queue_archive` | 2 runs of one key, 2 workers, archive and unarchive, no faults | of all the workers still at work for a key one can commit, and every open run is carried by pg-boss or a handler: the two retry counters agree |
| `Intake_leads` | one campaign and the leads by hand, three candidates (two of one phone, a namesake near), a target of 2, 1 fault, 1 command, 1 archiving and one more of a campaign, fair | no place becomes two businesses, every row is handed over, every lead is judged, and once; nothing collects data that was not let; what was archived by itself stays archived |
| `Barrier_live` | 2 generations and an asset job from before the barrier; 1 error (and one more of the enrichment that is to replace an abandoned generation), 1 restart or, while that job waits, 1 act of the operator; fair | `FanIn` is implemented, first outcomes are kept and only the newest generation is scored, when handlers are lost, old work meets new and the business is taken away; an open generation closes, is before the operator, or is about to be replaced by an enrichment that waits, works or failed before him |
| `build_demo` | 2 projects, a budget of 2 rounds, 1 consumer, 1 fault, 1 command, fair | what is published was judged, a rejected business stays out, `DemoLifecycle` is implemented, no build is left hanging |
| `build_ordered` | the same without faults | violation: the verdict of an ordered iteration is dropped |
| `Runner_live` | 2 requests of one workspace, 1 fault, fair | a handler takes only its own agent's work, no older page replaces a newer one, everything is released |
| `Capacity_live` | 2 groups, limits 0 and 2, 2 consumers each, 1 save, 1 failure, 2 syncs, fair | calls begin within the limit and are served, handles are known, pools and semaphores converge |
| `Outreach_send` | live, a message and its follow-up, one retry, 1 fault, 1 requeue, the mode switched once, fair | nothing leaves twice, what left is on record, a job that had to stop sends nothing; unless a fault intervenes, no reservation stays queued |
| `Outreach_approvals` | two approvals of one business, on a channel that may be manual, moved back by the operator between them, budget 1, 1 fault, 1 requeue | nothing leaves unapproved; delivery and the move to *contacted* are one; the budget holds over failures, bounces, reclaims and ageing |
| `Poll_mail` | 2 overlapping polls that stop after one mail, an old mail, a reply with an id and a bounce without, an opt-out delivered twice, 1 poll that dies or 1 renumbering, 1 deal stage, fair | one event per message, no event without its consequences, every mail is read although polls overlap and stop |
| `Login_live` | 2 logins of one provider, Claude or Codex, 1 check under way, stops and failures at any time, fair | one child works, an ended login stays as it ended, every login and its child end |

Several properties are stated in the modules and are in no configuration, because
a theorem or a stronger property of the same module covers them: `OneOpenRun`,
`RunNeverReopens` (implied by `LedgerSpec`), `OneCurrent`, `ScoredByJoin`,
`RoundsBounded`, `OneAtWork`, `CursorCovers`, `RepliesReviveNobody`,
`CallsCounted`, `NoIdleSlot`, `NoLeadForgotten` (the safety side of
`LeadsSettle`), `ReservationIsHandled` and `PendingIsAwaited` (those of
`ReservationSettles` and `NoSilentStall`), `NeverStranded` (that of `BuildSettles`),
`OutStaysOut` and the type invariants of most modules are proved below. These, and `TriesBounded`, hold when they are added to the configurations
of their modules.

Why these bounds are enough: two workers, two runs of a key or two generations
are the fewest with which exclusion, succession and overtaking can fail, and
none of the guards counts beyond two. A retry limit of one has a first, a
middle and a last try once a pause or a fault intervenes. Two attempts per run
are the fewest in which an old attempt can be confused with the current one.
Faults are crashes, failed transactions and handlers that outlive the expiry of
their job. They are bounded by one, since it can be placed between any two
steps; larger numbers were tried where the state space allows it. The queue and the
runner with two gave no other result. The barrier with two errors did: when the
enrichment that is to replace an abandoned generation fails as well, that
generation stays open beside the failed run, so that `NoSilentStall` names this
case and its run has it. The build with two faults did too, see `BuildSettles`
below; with one fault and two or three commands it did not, and with one fault no
number of commands strands a business (`BuildIsCarried`). In `Intake`, two rows that share
one identity and a third that shares only the name meet every branch of the
lookup; a target of two leaves a row over. In `Capacity`, a limit that falls
below what is active and rises again needs two consumers and a limit that counts
as one (0) and two. In `AccountLogin` two logins are one that is replaced and the
one that replaces it; nothing bounds stops, failures, disconnections or checks but
that one check is under way at a time. A poll that stops after one of several mails, beside another
that does not, is the fewest with which a cursor can pass a mail. The theorems
below hold without any of these bounds.

## Fairness

Liveness is checked under weak fairness of what the program keeps doing by
itself: consumers poll pg-boss while the process lives, a handler runs on (agent
runtimes, HTTP clients and the browser have timeouts), pg-boss expires jobs, a
container is started again by Docker (`restart: unless-stopped`). Nothing is
assumed of operators, correspondents, errors or restarts. Fairness is stated
per worker and per job, because they do not wait for each other. The liveness
properties of the queue and of outreach conclude "or a fault occurred": the
behaviours with a fault are explored, but after one the code leaves several
cases to a person. `NoSilentStall` admits a thrown error at any point, and one more where a
generation was abandoned, and concludes "or a restart or an act of the operator
occurred". `BuildSettles`, `LeadsSettle`, `RequestsSettle`, `Converges` and
`EveryMailRead` are checked with faults; the first two accept what a failed job
leaves to the operator, and `BuildSettles` also an ordered iteration (see
`OrderedIsJudged`) and a second fault. It is true of one fault and one consumer of
the agent-build queue, the default. After two faults a business may rest in
`site_in_progress` with no job and nothing in the inbox: a boot pass fails the
project whose build is claimed for a retry, and the retried build is skipped as
stale; or a build of an earlier round is redelivered, moves the project to `qa`
again, and the verdicts of both rounds match no row. With two consumers the gate
may order a redesign under a key that is still at work. In `Intake` and `BuildPipeline` a handler that has begun ends
because agents and HTTP calls have deadlines; in `RunnerGateway` those deadlines
are actions of their own and fair. In `Capacity` the timer of the settings is
fair, and so are pg-boss's calls and the agents. In `InboundPolling` the schedule
brings a poll every ten minutes (`workers/main.ts`). In `AccountLogin` only timers
are fair: the one that ends a login after five minutes and the one that sends
SIGKILL.

## The proofs

`WorkflowQueueProofs` proves, from `QueueConstants` alone, for any sets of keys,
runs, businesses and workers, any retry limits and any number of faults:
`TypeCorrect`, `KeyHasOneRun`, `TablesAgree`, `NoConcurrentHandlers`,
`OnlyOneCommits`, `ClosedRunsStayClosed`, `ImplementsRunLedger`,
`RunsAreCarried`, `ExecutionsAreBounded` and, where nothing may be archived
(`Archivable = {}`), `AttemptsInStep`.

They rest on the inductive invariant `IInv`. None of the properties is
inductive alone. That two workers are never in one handler needs to know that
nothing puts an attempt back into the queue while its handler lives
(`HandlerOwns`); the boot pass of the build container does put attempts back,
so that it does not do so under a live handler needs that a stopped container
runs none and that workers hold jobs of their own container only (`AtHome`).
That a successor attempt is fresh needs `FutureUnused`; that closed runs leave
nothing to reopen them needs `EndedIsOver`, and that an archive in progress
cannot touch another business `SeenIsOwn`. The preservation of `IInv` is one
lemma per action, each with one step per conjunct the action can disturb.
`OnlyOneCommits` follows from key exclusion and handler exclusion;
`ClosedRunsStayClosed` and `ImplementsRunLedger` from `IInv` and the lemma
`StepMoves`, which says what each step does to the outcome of a run.

Three theorems have an invariant of their own beside `IInv`. That every active
run is carried while nothing has failed needs `Smooth`: pg-boss says `active` of
exactly the jobs a worker holds (`DeliveredOnce`), so that nothing expires or is
delivered twice; the ledger's count of tries is one ahead of pg-boss's count of
retries from the claim until the next delivery and equal to it otherwise
(`CountersAgree`), so that a failure the ledger puts back is one pg-boss retries;
and a worker that is about to complete a job holds none that waits
(`WaitingLives`). `Calm` says that `Smooth` holds while there were no faults; since
faults only add up, the containers are up, nothing expires and no boot pass
runs. The bound on executions needs that what waits, and what a stopped
container left behind, has a try to spare (`SpareTry`): the boot pass that puts
an attempt back comes after a crash, which is the fault it is counted for. That
attempts follow their runs without an archive needs that only the current
attempt is live, and that follow-ups, which are cancelled by the run, are never
paused (`LiveIsCurrent`). `AttemptsFollowRuns` without that assumption is one of
the divergences below.

`EnrichmentBarrierProofs` proves, from `BarrierConstants` alone, for any number
of generations, errors, restarts and acts of the operator and any legacy jobs:
`BarrierTypeCorrect`, `OneGenerationCurrent`, `JoinEnqueuesScore`,
`OutcomesAreFinal`, `OnlyNewestScores`, `ImplementsFanIn` and
`PendingBranchesAreAwaited`. The inductive invariant is `BInv`. A settlement decides the state of a row from the outcomes
of its branches, so that a score is enqueued exactly at the join needs that the
state of a row follows from its outcomes (`Shape`). That superseding the
newest generation leaves none in progress needs `OneCurrent`, and that the next
number is free needs that generations are numbered without gaps (`Numbered`).
That a branch, however late, reports to a generation that has begun needs
`JobsHaveRuns`. `OutcomesAreFinal`, `OnlyNewestScores` and `ImplementsFanIn`
follow from `BInv` and the lemma `RunMoves`, which says what each step does to
the rows of the generations. `PendingBranchesAreAwaited`, the safety side of
`NoSilentStall`, needs `AwaitInv` beside it: an audit that stops because the status
of its business moved leaves its branch pending, so that one at work for an open
generation began with `enriching` as long as nobody interfered
(`AuditSawEnriching`), and an asset job never stops that way
(`AssetsDoNotRecheck`). Errors are not bounded in it.

`BuildPipelineProofs` proves, from `BuildConstants`, for any projects, budget of
rounds, faults and commands: `BuildTypeCorrect`, `RoundsWithinBudget` and
`RejectedStaysOut`, and under the further assumption `Slots = 1`
`JudgedBeforePublished` and `ImplementsDemoLifecycle`. One consumer of the
agent-build queue is the default of the code, and with two the last two are not
true: a build redelivered after its container died rewrites an export that QA
looks at. `RoundsBounded` is inductive with what the rows know of rounds (`RInv`:
a build or QA job of a round exists only if the round is within the budget, or
carries the one extra round for motion). The judged export needs `PInv`: one
agent at work (`OneAgent`), QA jobs look at the export as it is (`SeesCurrent`),
what is approved was judged, and a deploy that was enqueued belongs to a project
that is approved or published (`DeployedDone`). The refinement follows from
`PInv` and one lemma per action.

The second half of the module proves `BuildIsCarried`, the safety side of
`BuildSettles`, for one consumer and any number of projects, rounds and commands:
as long as there was at most one fault, a business in `site_in_progress` has a job
queued or at work, or one that the operator's Inbox shows (`NeverStranded`). What
is inductive is `CInv`. It says more than that some job is left: one of them
*carries* the business, which means that what its handler reads when it takes the
job up lets it go on, and no stop command that is open will close this job and leave
the status as it is (`Carried`). That a step hands the business over from one
carrier to the next needs

- that a build whose handler failed has its project for itself (`HeldAlone`), so
  that its retry finds the round it left;
- that before a handler failed no round waits to be retried (`CalmWaits`), which is
  why `failInterruptedBuilds` closes no project that a retry would come back to;
- that before the first fault a project in its rounds has one job (`InTurn`);
- that the job of an open stop command still waits (`DeskHeld`);
- that a deploy exists only after the rounds are over (`DeployLate`).

Each limit is needed: two faults or an ordered iteration do strand a business (see
`BuildSettles` under fairness, and `OrderedIsJudged`), and the argument uses
`OneAgent`, which two consumers break.

`ExecutorProofs` proves, from `RunnerConstants`, for any number of
workspaces, requests and faults: `RunnerTypeCorrect`, `AnswersAreOwn`,
`OneRequestAtWork` and `PageNeverOlder`. The inductive invariant is `GInv`. That
a handler takes only its own agent's work follows from the dates of files: a
file an agent writes is dated after every invocation opened so far (`Dated`), an
invocation that was not opened has no file (`Unopened`), a scratch holds what
was staged, which is older than its request (`StagedOld`), or what its own agent
wrote (`ScratchOwn`), so that what a handler finds fresh is its own
(`FoundOwn`). That no older page overwrites a newer one needs that a request at
work holds its workspace (`Held`), also after a restart, and that no page in the
workspace is newer than the request that is being mirrored (`NotOvertaken`).

The logins are the other state of the executor, and their theorems stand at the end
of the same module, which extends `AccountLogin` beside `RunnerGateway` (what the two
would both call `Spec` or `TypeOK` carries `Login` in its name): `LoginTypeCorrect`,
`OneChildOfAProvider` and `EndedLoginsStay`, from `LoginConstants`, for any number of
logins and checks and any failures. The inductive invariant is `LInv`. That a new login leaves no other child at work needs that the
map names every open login (`OneChild` itself) and that the new one is nobody's yet
(`NotStarted`, `SessionStarted`). That an ended login stays as it ended rests on the
guard of `finish`, which looks at the phase beside the flag and would let a login end
twice that was flagged in `awaiting` or `submitting`: `EndedIsOver` says that none is.

`OutreachProofs` proves, from `OutreachConstants`, for any number of businesses,
approvals, follow-ups, faults, requeues and switches of the mode:
`OutreachTypeCorrect`, `BudgetIsHeld`, `DeparturesAreRecorded`,
`SentAtMostOnce`, `StoppedJobsStaySilent`, `NothingLeavesUnapproved` and
`ReservationsAreHandled`, and,
assuming that operators do not set `outreach_approved` by hand,
`DeliveryMovesTheBusiness`. The inductive invariant is `OInv`. All but the budget
and the last theorem speak of one message, so their proofs rest on `StepKinds`: a
step is a step of the message's own handler, or one beside it, after which the
handler is where it was or has been taken off the job, and its row has changed
only by a confirmation or a bounce. That a message is not sent twice needs that
what is about to be sent has its reservation and that a row of which something
left is never one that may be reserved (`WireOf`); that a failed finalization
does not turn what left into a row that may be reserved needs that a handler
remembers it was to send. That nothing leaves unapproved needs that an initial
job compares its own approval with an approved one of the business, and that
follow-ups are enqueued only with an initial message that is out (`ApprovalOf`).
The budget needs that a row under a handler is young (`BudgetOf`), so that
recording a result adds nothing to the count. That a reservation has its handler
until something fails, the safety side of `ReservationSettles`, is inductive beside
`OInv`: a handler is taken off its job by a fault only.

`CapacityProofs` proves, from `CapacityConstants`, for any groups, limits,
consumers, reads and failures: `CapacityTypeCorrect`, `CallsAreCounted`,
`NoSlotIdles`, `CallsBeginWithinLimit` and `PoolsKnowTheirHandles`. The inductive
invariant is `KInv`: a slot handed to a waiter is counted before the waiter runs,
so the count, the queue without repetitions and the rule that nobody waits beside
a free slot hold together or not at all; a resize that failed half way keeps in
`handles` what is registered.

`InboundPollingProofs` proves, from `PollingConstants`, for any mails, pollers,
businesses, faults and calls: `PollingTypeCorrect`, `CursorPassesNothing`,
`AnswersCountOnce` and `NothingRevived`. The inductive invariant is `MInv`: a poll
under way goes through the mailbox without a gap and in the numbering it began
with (`PollShape`), and everything up to the highest UID it remembers was looked
at (`PollCovers`), so that the cursor it stores, be it older than the one another
poll stored meanwhile, passes nothing. That a reply does not take a deal back from
its meeting needs that the status of the business still says so (`DealKept`).

`IntakeProofs` proves, from `IntakeConstants`, for any campaigns, candidates,
scrapes, faults and commands: `IntakeTypeCorrect`, `PlacesStayOne`,
`RowsAreHandedOver`, `LeadsAreJudgedOnce`, `LeadsAreRemembered`,
`GateIsRespected`, `ShelfIsKept` and `NobodyComesBack`. Of candidates it assumes
that being near each other is symmetric. Each theorem has an invariant of its
own, inductive beside a common one, `TInv`: the types, that nothing has happened
to an id no business has yet (`UnknownIdle`), and that what an open transaction
found is a business. That a place stays one business needs that open
transactions hold disjoint locks (`LocksApart`) and that what one of them looked
for and did not find has not come since (`StillNew`). The locks on identities
alone do not give that: namesakes within 150 m may share no identity, and only
the lock on the id made of city and name keeps their insertions apart. That
every row is handed over needs that a handler hands them over in order, each
time from the first one (`RowsInOrder`). That a lead is judged once needs that
one still `discovered` has no row (`JudgedCount`): the row and the status are
written in one compare-and-set. That nothing is collected that was not let
through needs that what lets leads through now is remembered as having let them
(`OpenedKnows`), since a stop-point may be put back later. That a shelved
business stays needs that no two archivings have one instant (`Apart`), which is
how the code tells them apart.

Only model-checked: liveness under fairness, since the prover has no rules for
`ENABLED`. Every safety or action property of a passing run is a theorem. No
recursion is used, so nothing needs induction over data.

## Where the code and its documents disagree

`build_ordered` shows a defect: an iteration the operator orders after the budget
of rounds is used up starts with `qa_iterations` 0 and a job that carries round
1, so that the verdict of QA matches no row, is dropped, and the project stays in
`qa` with no job; `ui/lib/buildReviewActions.ts:122` says that the counter
restarts and a person authorised a new run.

The others are stated at the end of their modules, with the sentence they
translate, and have no run of their own. TLC violates each one when it is added
to the configuration named here, with the bounds given.

| Property | Configuration | The document says | The code does |
|---|---|---|---|
| `DeadHandlersGoStale` | `Queue_containers` | a dead `normalize` is stale immediately | pg-boss still says `active`, so the boot pass spares it |
| `FailedSpentItsBudget` | `Queue_containers` | requeueing an orphaned build leaves its budget untouched | the interruption counts as a try |
| `PauseKeepsBudget` | `Queue_containers` | a pause leaves the attempt budget untouched | the successor starts with a new budget |
| `AttemptsFollowRuns` | `Queue_archive` | jobs and runs are kept in step (`archiveService.ts:443`) | it holds in `Queue_containers`, but the archive cancels attempts and runs in two statements; what an enqueue or a continuation commits between them leaves a cancelled run with a queued attempt |
| `ArchivedRunsNothing` | `Queue_archive` | archived businesses never run work | the gate is read before the claim and may be stale |
| `NeverRetried` | `Outreach_send` | a send is never retried automatically | a refused follow-up is reserved and sent again by its job's retry |
| `DoubtIsRecorded` | `Outreach_send` | a send in doubt becomes `delivery_unknown` | a crash after the transport leaves it `queued` |
| `NothingAfterReply` | `Outreach_send` | the check before sending is the real gate | a reply between check and send does not stop it |
| `OldGenerationIsSilent` | `Barrier_live` | re-enrichment supersedes the older generation | a blocked generation still delivers and its audit becomes the newest |
| `PendingIsCarried` | `Barrier_live` | a failed or stale branch blocks the run | an audit whose business moved leaves its branch pending |
| `ScoreSeesWholeEvidence` | `Barrier_live` | partial evidence is never scored | an enrichment run again deletes facts under a score in progress |
| `RefusedTakesNothing` | `Runner_live` | an old output in a reused workspace is never recovery evidence (`workers/builder.ts:287`) | the handler of a refused request may salvage the page that is being mirrored for the request ahead |
| `NeverRefused` | `Runner_live` | work interrupted by a deploy resumes on its own (`orchestrator/queue.ts:296`) | after a restart of the factory alone the orphan still holds the workspace, and the next request is refused as an error |
| `CancelLeavesCredential` | `Login_live` | a cancelled login leaves the credential untouched (`api/accounts.ts:668`) | a store of its token that has begun does not look at the flag and goes on |
| `ChipForgets` | `Login_live` | the row of a check is dropped so that the chip does not say connected about a deleted credential (`api/server.ts:270`) | a check that had its answer before writes it after |
| `NoChildDuringPing` | `Login_live` | the child is killed before the check, so that no terminal lingers (`api/accounts.ts:492`) | nothing kills it there: it lives on until it ends by itself or the check is over |
| `StartsFromNow` | `Poll_mail` | a poll without a cursor starts from "now" (`workers/replies.ts:110`) | a mailbox that never held a mail leaves no cursor; the next poll starts behind the mail that came in between |

Seen while reading, and part of the models, with no property of their own:

- a lead added by hand loses the operator's choice when its fast-qualify job is
  deduplicated against one of a campaign (`workers/fastQualify.ts:146` says the
  machine must not overrule him);
- `workers/normalize.ts:3` names the listing URL as an identity; no lookup uses it;
- namesakes of two cities are locked at a metre's precision, but are one business
  within 150 m, so two searches at once may insert both;
- `archiveService.ts:355` wants an archived campaign to discover nothing; neither
  discover nor normalize looks at it;
- a lead whose fast-qualify was cancelled by an archive rests at `discovered` after
  it comes back, until it is found again;
- a settings read that ends after a newer one puts the older snapshot back until
  the next refresh (`lib/settingsStore.ts:146`);
- a reply's notification is lost when the process ends between the commit of the
  event and the message, since the event is known from then on
  (`outreach/inbound.ts`).

## What is not modelled

The components marked `not_modelled` or `partly` in `PROJECT.json`, with the
reason there. Within the modelled components:

- queue priorities and backoff delays (any delay is possible in the model); row
  locks: a deadlock aborts a transaction, which is the fault `DatabaseError`;
  whether the lock orders of delivery and confirmation, or of a branch's failure
  and an archive, can meet is not examined;
- handlers that outlive the 30-minute expiry of a send job; a business with
  several channels; the compare-and-set loop of `enforceDoNotContact`, collapsed
  to its result;
- deletion of businesses and campaigns; the filters of discovery and the normal
  forms of identities (constants of `Intake`); what the collectors extract;
- re-enqueueing a stage of a build from the console under a fresh key; the archive
  of a business in the middle of a build; the request for approval after a deploy;
- for the runner: requests other than code, build logs, pruning of scratches,
  provider leases and egress; an invocation's `result.json` is removed and the
  request posted in one step, because the executor lets a run settle for longer
  than lies between the two; one handler per workspace is at work at a time, which
  the exclusive build queue ensures;
- for the capacity: the retirement of legacy queues, overrides by the environment
  and heartbeats;
- for the logins: the store in the settings table (local development), the seeding of
  the executor from a request (`RUNNER_SEED_CLAUDE_CREDENTIAL`, off by default), keys
  of OpenCode, a disconnection requested while another is under way, what the
  terminal's output is parsed from;
- matching of messages to businesses and the wording of an opt-out (constants of
  `InboundPolling`); pg-boss's own cancellation of follow-ups, best effort in the
  code and without effect on the ledger.

The components left out altogether are collectors, request parsing, imports,
storage, the console and the templates: input and output, text and images, with no
state that another component waits for. They are most of the repository's lines,
and a model of them would restate their data.

## The plan

The pipeline is modelled from the campaign to the answer of a business. What
would add most from here:

1. a module of the row locks of delivery, confirmation, failure, archive and
   barrier, and which pairs can wait for each other;
2. deletion and its blocker;
3. the provider broker and the leases of credentials.
