---------------------------- MODULE RunnerGateway ----------------------------
(***************************************************************************)
(* How a code agent runs outside the factory.  A handler of the factory    *)
(* opens an invocation on a workspace and posts it (agents/result.ts,      *)
(* agents/remoteTransport.ts); the gateway reserves the workspace, copies  *)
(* it to a scratch directory of the request, calls the executor and        *)
(* mirrors the scratch back (runner/gateway.ts, runner/workspace.ts); the  *)
(* executor runs the agent there (runner/executor.ts, tmuxRuntime.ts).     *)
(* Each of the three processes may stop while the other two go on, and     *)
(* each hop has a deadline of its own, so an agent can outlive everybody   *)
(* who waits for it.                                                       *)
(*                                                                         *)
(* A directory is a workspace or, named by its request, a scratch.  Of its *)
(* files two matter: result.json, the agent's report, and out/index.html,  *)
(* the deliverable.  A file is who wrote it and, for its modification      *)
(* time, which invocations had been opened by then: staging and mirroring  *)
(* preserve times.  Request ids are drawn afresh, so the replies both      *)
(* processes cache by id are never asked for again.                        *)
(***************************************************************************)
EXTENDS Naturals, FiniteSets

CONSTANTS
    Workspaces,
    Requests,        \* the invocations that may be opened
    WsOf,            \* Requests -> Workspaces
    None,
    MaxFaults        \* bound: processes that stop, file operations that fail

ASSUME RunnerConstants ==
    /\ WsOf \in [Requests -> Workspaces]
    /\ Workspaces \cap Requests = {}
    /\ None \notin Requests
    /\ MaxFaults \in Nat

Dirs == Workspaces \cup Requests
Parts == {"result", "output"}
File == [by : Requests, since : SUBSET Requests]
NoFile == [by |-> None, since |-> {}]

Replies == {"ok", "failed", "violation", "unavailable"}
AtGateway == {"staging", "calling", "syncing"}

VARIABLES
    client,     \* the handler that opened the invocation
    taken,      \* history: the invocation whose work the handler went on with
    gate,       \* where the gateway is with a request
    holder,     \* workspaceReservations
    synced,     \* the parts already mirrored back
    reply,      \* the response of the gateway
    exec,       \* where the executor is with a request
    outcome,    \* the response of the executor
    file,       \* the parts of every directory
    faults

factory == <<client, taken>>
gateway == <<gate, holder, synced, reply>>
executor == <<exec, outcome>>
vars == <<factory, gateway, executor, file, faults>>

TypeOK ==
    /\ client \in [Requests -> {"idle", "waiting", "gone", "done", "salvaged", "failed"}]
    /\ taken \in [Requests -> Requests \cup {None}]
    /\ gate \in [Requests -> {"none", "refused", "replied", "lost"} \cup AtGateway]
    /\ holder \in [Workspaces -> Requests \cup {None}]
    /\ synced \in [Requests -> SUBSET Parts]
    /\ reply \in [Requests -> Replies \cup {"none"}]
    /\ exec \in [Requests -> {"none", "waiting", "running", "ended", "killed"}]
    /\ outcome \in [Requests -> {"none", "ok", "failed", "violation"}]
    /\ file \in [Dirs -> [Parts -> File \cup {NoFile}]]
    /\ faults \in Nat

Init ==
    /\ client = [r \in Requests |-> "idle"]
    /\ taken = [r \in Requests |-> None]
    /\ gate = [r \in Requests |-> "none"]
    /\ holder = [w \in Workspaces |-> None]
    /\ synced = [r \in Requests |-> {}]
    /\ reply = [r \in Requests |-> "none"]
    /\ exec = [r \in Requests |-> "none"]
    /\ outcome = [r \in Requests |-> "none"]
    /\ file = [d \in Dirs |-> [p \in Parts |-> NoFile]]
    /\ faults = 0

Opened == {r \in Requests : client[r] # "idle"}

MutFresh(f, r) == f # NoFile

\* The file is not older than the invocation.
Fresh(f, r) == r \in f.since

Part(d, p) == file[d][p]

-----------------------------------------------------------------------------
(***************************************************************************)
(* The factory.                                                            *)
(***************************************************************************)

MutFree(w) == TRUE

\* No other request of the workspace is at the gateway.
Free(w) == holder[w] = None

\* Open an invocation, removing the report of the last one, and post it.  One
\* handler at a time works for a business.  The two statements are not split:
\* milliseconds lie between them, and an agent's run goes on for
\* RESULT_SETTLE_MS after its report appears.
Open(r) ==
    LET w == WsOf[r] IN
    /\ client[r] = "idle"
    /\ \A q \in Requests : WsOf[q] = w => client[q] # "waiting"
    /\ client' = [client EXCEPT ![r] = "waiting"]
    /\ file' = [file EXCEPT ![w]["result"] = NoFile]
    /\ gate' = [gate EXCEPT ![r] = IF Free(w) THEN "staging" ELSE "refused"]
    /\ holder' = [holder EXCEPT ![w] = IF Free(w) THEN r ELSE @]
    /\ UNCHANGED <<taken, synced, reply, executor, faults>>

Leave(r, how, whose) ==
    /\ client[r] = "waiting"
    /\ client' = [client EXCEPT ![r] = how]
    /\ taken' = [taken EXCEPT ![r] = whose]
    /\ UNCHANGED <<gateway, executor, file, faults>>

\* A report that belongs to the invocation is the answer.
TakeReport(r) ==
    LET f == Part(WsOf[r], "result") IN
    /\ gate[r] = "replied"
    /\ reply[r] = "ok"
    /\ Fresh(f, r)
    /\ Leave(r, "done", f.by)

\* The handler has no answer: an error of the gateway, a report it does not
\* accept, or the deadline of its own request, which may pass at any time.
Unanswered(r) ==
    \/ gate[r] # "replied"
    \/ reply[r] # "ok"
    \/ ~Fresh(Part(WsOf[r], "result"), r)

\* A page built during the invocation is worth verifying without a report.
Salvage(r) ==
    LET f == Part(WsOf[r], "output") IN
    /\ Unanswered(r)
    /\ Fresh(f, r)
    /\ Leave(r, "salvaged", f.by)

Fail(r) ==
    /\ Unanswered(r)
    /\ ~Fresh(Part(WsOf[r], "output"), r)
    /\ Leave(r, "failed", None)

-----------------------------------------------------------------------------
(***************************************************************************)
(* The gateway.                                                            *)
(***************************************************************************)

Release(r) == holder' = [holder EXCEPT ![WsOf[r]] = IF @ = r THEN None ELSE @]

\* Copy the workspace to the scratch and call the executor.
Stage(r) ==
    /\ gate[r] = "staging"
    /\ file' = [file EXCEPT ![r] = file[WsOf[r]]]
    /\ gate' = [gate EXCEPT ![r] = "calling"]
    /\ exec' = [exec EXCEPT ![r] = "waiting"]
    /\ UNCHANGED <<factory, holder, synced, reply, outcome, faults>>

\* After a security violation nothing is mirrored back.
Answered(r, what) ==
    /\ gate[r] = "calling"
    /\ reply' = [reply EXCEPT ![r] = what]
    /\ IF what = "violation"
       THEN gate' = [gate EXCEPT ![r] = "replied"] /\ Release(r)
       ELSE gate' = [gate EXCEPT ![r] = "syncing"] /\ UNCHANGED holder
    /\ UNCHANGED <<factory, synced, executor, file, faults>>

ExecutorAnswers(r) == exec[r] = "ended" /\ Answered(r, outcome[r])

\* The deadline of the call passes, or the executor is gone: the agent may well
\* still work in the scratch that is mirrored now.
ExecutorSilent(r) == exec[r] # "ended" /\ Answered(r, "unavailable")

\* Mirror a part back, its absence included.
Sync(r, p) ==
    /\ gate[r] = "syncing"
    /\ p \notin synced[r]
    /\ file' = [file EXCEPT ![WsOf[r]][p] = Part(r, p)]
    /\ synced' = [synced EXCEPT ![r] = @ \cup {p}]
    /\ UNCHANGED <<factory, gate, holder, reply, executor, faults>>

MutSyncDone(r) ==
    /\ gate[r] = "syncing"
    /\ synced[r] = Parts
    /\ gate' = [gate EXCEPT ![r] = "replied"]
    /\ UNCHANGED <<factory, holder, synced, reply, executor, file, faults>>

SyncDone(r) ==
    /\ gate[r] = "syncing"
    /\ synced[r] = Parts
    /\ gate' = [gate EXCEPT ![r] = "replied"]
    /\ Release(r)
    /\ UNCHANGED <<factory, synced, reply, executor, file, faults>>

-----------------------------------------------------------------------------
(***************************************************************************)
(* The executor.  That sessions queue for its terminal only delays them.   *)
(***************************************************************************)

Run(r) ==
    /\ exec[r] = "waiting"
    /\ exec' = [exec EXCEPT ![r] = "running"]
    /\ UNCHANGED <<factory, gateway, outcome, file, faults>>

\* Somebody may still mirror the scratch; what an agent does to one that nobody
\* will look at any more is left out.
Watched(r) == exec[r] = "running" /\ gate[r] \in {"calling", "syncing"}

\* The agent writes a part of its scratch.
Write(r, p) ==
    /\ Watched(r)
    /\ file' = [file EXCEPT ![r][p] = [by |-> r, since |-> Opened]]
    /\ UNCHANGED <<factory, gateway, executor, faults>>

\* A build begins by removing the page of the last one.
Clean(r) ==
    /\ Watched(r)
    /\ file' = [file EXCEPT ![r]["output"] = NoFile]
    /\ UNCHANGED <<factory, gateway, executor, faults>>

End(r, how) ==
    /\ exec[r] = "running"
    /\ exec' = [exec EXCEPT ![r] = "ended"]
    /\ outcome' = [outcome EXCEPT ![r] = how]
    /\ UNCHANGED <<factory, gateway, file, faults>>

\* The report is there and belongs to the invocation.
Finish(r) == Fresh(Part(r, "result"), r) /\ End(r, "ok")

\* Idle, out of time, at a permission prompt, with a report that does not
\* validate, or closed by the operator.
GiveUp(r) == End(r, "failed")

\* The scan after the run finds what must not leave the scratch.
Withhold(r) == End(r, "violation")

-----------------------------------------------------------------------------
(***************************************************************************)
(* Faults: file operations fail, processes stop.                           *)
(***************************************************************************)

MayFail == faults < MaxFaults /\ faults' = faults + 1

\* A file that cannot be staged or mirrored; the gateway answers with an error.
FileError(r) ==
    /\ MayFail
    /\ gate[r] \in {"staging", "syncing"}
    /\ gate' = [gate EXCEPT ![r] = "replied"]
    /\ reply' = [reply EXCEPT ![r] = "unavailable"]
    /\ Release(r)
    /\ UNCHANGED <<factory, synced, executor, file>>

\* The gateway waits on for nobody: it finishes what it began.
FactoryStops ==
    /\ MayFail
    /\ client' = [r \in Requests |-> IF client[r] = "waiting" THEN "gone" ELSE client[r]]
    /\ UNCHANGED <<taken, gateway, executor, file>>

\* What the gateway knows is in memory only.
GatewayStops ==
    /\ MayFail
    /\ gate' = [r \in Requests |->
           IF gate[r] \in AtGateway \cup {"replied"} THEN "lost" ELSE gate[r]]
    /\ holder' = [w \in Workspaces |-> None]
    /\ UNCHANGED <<factory, synced, reply, executor, file>>

ExecutorStops ==
    /\ MayFail
    /\ exec' = [r \in Requests |-> IF exec[r] = "none" THEN "none" ELSE "killed"]
    /\ UNCHANGED <<factory, gateway, outcome, file>>

Handler(r) == TakeReport(r) \/ Salvage(r) \/ Fail(r)
Gateway(r) ==
    \/ Stage(r) \/ ExecutorAnswers(r) \/ ExecutorSilent(r)
    \/ \E p \in Parts : Sync(r, p)
    \/ SyncDone(r)
Agent(r) == Run(r) \/ Clean(r) \/ Finish(r) \/ GiveUp(r) \/ Withhold(r)
    \/ \E p \in Parts : Write(r, p)
Failure == FactoryStops \/ GatewayStops \/ ExecutorStops \/ \E r \in Requests : FileError(r)

Next ==
    \/ \E r \in Requests : Open(r) \/ Handler(r) \/ Gateway(r) \/ Agent(r)
    \/ Failure

Spec == Init /\ [][Next]_vars

\* Both hops have deadlines, so the handler and the gateway go on whatever the
\* agent does; nothing is assumed of agents.
FairSpec == Spec /\ \A r \in Requests : WF_vars(Handler(r)) /\ WF_vars(Gateway(r))

-----------------------------------------------------------------------------
(***************************************************************************)
(* Properties.                                                             *)
(***************************************************************************)

\* What an admitted handler goes on with, a report or a salvaged page, is the
\* work of its own agent, although the workspace is reused, earlier agents
\* outlive their handlers and their gateway, and half of what they wrote was
\* mirrored.
AnswerIsOwn ==
    \A r \in Requests : gate[r] # "refused" => taken[r] \in {r, None}

\* The gateway stages, calls and mirrors for one request of a workspace at a
\* time, also after a restart that forgot every reservation.
OneAtWork ==
    \A q, r \in Requests :
        gate[q] \in AtGateway /\ gate[r] \in AtGateway /\ WsOf[q] = WsOf[r] => q = r

KeepsPage(w) ==
    LET old == Part(w, "output")
        new == Part(w, "output")'
    IN  old # NoFile /\ new # NoFile => old.since \subseteq new.since

\* The page in a workspace never becomes an older one: the scratch of a request
\* that others have overtaken is not mirrored over their work.
OutputNeverOlder == [][\A w \in Workspaces : KeepsPage(w)]_vars

\* Every handler hears something and every reservation is given back, even when
\* the agent hangs, its terminal stays occupied or a process stops.
RequestsSettle ==
    \A r \in Requests :
        /\ client[r] = "waiting" ~> client[r] # "waiting"
        /\ holder[WsOf[r]] = r ~> holder[WsOf[r]] # r

(***************************************************************************)
(* What the documents say and the code does not do.                        *)
(***************************************************************************)

\* workers/builder.ts:287-288: an old output in a reused workspace is never
\* recovery evidence.  The handler of a refused request still looks for a page,
\* and may find the one that is being mirrored for the request that was ahead.
RefusedTakesNothing == \A r \in Requests : gate[r] = "refused" => taken[r] = None

\* orchestrator/queue.ts:296-301: work interrupted by a deploy resumes on its own.
\* After a restart of the factory alone the orphan still holds the workspace,
\* and the next request is refused with an error that is no pause.
NeverRefused == \A r \in Requests : gate[r] # "refused"
=============================================================================
