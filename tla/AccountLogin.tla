----------------------------- MODULE AccountLogin -----------------------------
(***************************************************************************)
(* Connecting and disconnecting the accounts the agents work with: the     *)
(* login sessions of the executor, one child process each                  *)
(* (api/accounts.ts), the credential a login leaves (runner/credentials.ts,*)
(* or the home of the codex CLI), and the cached checks that colour the    *)
(* console's chips (api/checkCache.ts, api/server.ts).                     *)
(*                                                                         *)
(* Executor and factory are two processes, each of one thread: a step is   *)
(* what runs between two awaits.  The production store is modelled, where  *)
(* the credential of Claude is a file and a variable of the executor.      *)
(***************************************************************************)
EXTENDS Naturals

CONSTANTS
    Providers,    \* those with a login of their own
    MaxSessions,  \* bound: logins started of a provider
    CheckIds,     \* bound: checks under way
    LoginsMayFail \* whether files, inserts and processes may fail

ASSUME LoginConstants ==
    /\ Providers \subseteq {"claude", "codex"}
    /\ MaxSessions \in [Providers -> Nat]
    /\ LoginsMayFail \in BOOLEAN

\* The n-th login of p.
Sessions == UNION {{p} \X (1..MaxSessions[p]) : p \in Providers}

VARIABLES
    started,   \* how many logins of a provider were started; the last one is its newest
    session,   \* the map `sessions`: a provider's login, or 0
    phase,     \* of each login
    finished,  \* the logins with that flag
    child,     \* the CLI of each login
    storing,   \* where the handler stands that was begun by a token or a login
    token,     \* the login whose credential is on the volume, or 0
    memory,    \* the one whose token is in the executor's environment, or 0
    leaving,   \* where the disconnection of a provider stands
    probe,     \* the answer a check has and has not yet written
    chip       \* the row check:<provider>

logins == <<started, session, phase, finished, child, storing>>
credential == <<token, memory>>
console == <<leaving, probe, chip>>
loginVars == <<logins, credential, console>>

OpenPhases == {"starting", "awaiting", "submitting"}
Terminal == {"done", "error", "cancelled"}

\* A child that was sent SIGTERM is dying, and is killed two seconds later.
Running == {"alive", "loggedIn"}

NoAnswer == [of |-> "nobody", ok |-> FALSE]
Answers == [of : Providers, ok : BOOLEAN]

LoginTypeOK ==
    /\ started \in [Providers -> Nat]
    /\ session \in [Providers -> Nat]
    /\ phase \in [Sessions -> {"none", "lost"} \cup OpenPhases \cup Terminal]
    /\ finished \subseteq Sessions
    /\ child \in [Sessions -> {"none", "dying", "gone"} \cup Running]
    /\ storing \in [Sessions -> {"no", "writing", "written", "checking", "over"}]
    /\ token \in [Providers -> Nat]
    /\ memory \in Nat
    /\ leaving \in [Providers -> {"no", "file", "memory", "answered"}]
    /\ probe \in [CheckIds -> Answers \cup {NoAnswer}]
    /\ chip \in [Providers -> {"none", "ok", "bad"}]

-----------------------------------------------------------------------------
\* The executor and the factory have just started and nothing is connected.
LoginInit ==
    /\ started = [p \in Providers |-> 0]
    /\ session = [p \in Providers |-> 0]
    /\ phase = [s \in Sessions |-> "none"]
    /\ finished = {}
    /\ child = [s \in Sessions |-> "none"]
    /\ storing = [s \in Sessions |-> "no"]
    /\ token = [p \in Providers |-> 0]
    /\ memory = 0
    /\ leaving = [p \in Providers |-> "no"]
    /\ probe = [c \in CheckIds |-> NoAnswer]
    /\ chip = [p \in Providers |-> "none"]

\* Mutant of Signalled: the login ends and leaves its child to itself.
LeftAlone(c) == c

\* Mutant of Signalled: the child is known by the signal it was sent.
SignalledByName(c) == IF c \in Running THEN "SIGTERM" ELSE c

\* finish kills a child that runs.
Signalled(c) == IF c \in Running THEN "dying" ELSE c

\* Mutant of Ignored: finish without its guard.
NeverIgnored(s) == FALSE

\* finish returns early: what comes late changes nothing.
Ignored(s) == s \in finished /\ phase[s] \notin {"awaiting", "submitting"}

\* finish, with the children as they are by then.
Finishes(s, end, children) ==
    IF Ignored(s)
    THEN child' = children /\ UNCHANGED <<phase, finished>>
    ELSE /\ phase' = [phase EXCEPT ![s] = end]
         /\ finished' = finished \cup {s}
         /\ child' = [children EXCEPT ![s] = Signalled(@)]

-----------------------------------------------------------------------------
(***************************************************************************)
(* The operator: startSession, submitCode, cancelSession.                  *)
(***************************************************************************)

\* Mutant of Replaced: a second login beside the first.
NoneReplaced(p) == {}

\* The login a new one takes the place of.
Replaced(p) == {<<p, session[p]>>} \cap (Sessions \ finished)

Start(p) ==
    LET new == <<p, started[p] + 1>> IN
    /\ started[p] < MaxSessions[p]
    /\ started' = [started EXCEPT ![p] = @ + 1]
    /\ session' = [session EXCEPT ![p] = started[p] + 1]
    /\ finished' = finished \cup Replaced(p)
    /\ phase' = [s \in Sessions |-> IF s = new THEN "starting"
                                    ELSE IF s \in Replaced(p) THEN "cancelled" ELSE phase[s]]
    /\ child' = [s \in Sessions |-> IF s = new THEN "alive"
                                    ELSE IF s \in Replaced(p) THEN Signalled(child[s]) ELSE child[s]]
    /\ UNCHANGED <<storing, credential, console>>

\* The code is piped to the CLI, which types Enter only while the login is open.
SubmitCode(s) ==
    /\ s[1] = "claude"
    /\ session[s[1]] = s[2]
    /\ s \notin finished
    /\ phase[s] = "awaiting"
    /\ phase' = [phase EXCEPT ![s] = "submitting"]
    /\ UNCHANGED <<started, session, finished, child, storing, credential, console>>

Cancel(s) ==
    /\ session[s[1]] = s[2]
    /\ Finishes(s, "cancelled", child)
    /\ UNCHANGED <<started, session, storing, credential, console>>

\* The timer of the login, or a poll after its five minutes.
Sweep(s) ==
    /\ phase[s] # "none"
    /\ s \notin finished
    /\ Finishes(s, "error", child)
    /\ UNCHANGED <<started, session, storing, credential, console>>

-----------------------------------------------------------------------------
(***************************************************************************)
(* The CLI and what its output and its end do.                             *)
(***************************************************************************)

\* onData reads the output of an open login whose token was not seen yet.
Reads(s) ==
    /\ child[s] \in Running
    /\ s \notin finished
    /\ storing[s] = "no"

ShowsUrl(s) ==
    /\ Reads(s)
    /\ phase[s] = "starting"
    /\ phase' = [phase EXCEPT ![s] = "awaiting"]
    /\ UNCHANGED <<started, session, finished, child, storing, credential, console>>

RejectsCode(s) ==
    /\ s[1] = "claude"
    /\ Reads(s)
    /\ phase[s] = "submitting"
    /\ Finishes(s, "error", child)
    /\ UNCHANGED <<started, session, storing, credential, console>>

\* storeClaudeToken begins; nobody waits for it.
PrintsToken(s) ==
    /\ s[1] = "claude"
    /\ Reads(s)
    /\ storing' = [storing EXCEPT ![s] = "writing"]
    /\ phase' = [phase EXCEPT ![s] = "submitting"]
    /\ UNCHANGED <<started, session, finished, child, credential, console>>

\* The codex CLI polls by itself, and writes its home when the operator has agreed.
LogsIn(s) ==
    /\ s[1] = "codex"
    /\ child[s] = "alive"
    /\ child' = [child EXCEPT ![s] = "loggedIn"]
    /\ token' = [token EXCEPT ![s[1]] = s[2]]
    /\ UNCHANGED <<started, session, phase, finished, storing, memory, console>>

\* The events `close` and `error`.
ChildEnds(s) ==
    LET children == [child EXCEPT ![s] = "gone"] IN
    /\ child[s] \in Running \cup {"dying"}
    /\ \/ /\ s \in finished \/ storing[s] # "no"
          /\ child' = children
          /\ UNCHANGED <<phase, finished, storing>>
       \/ /\ s \notin finished
          /\ storing[s] = "no"
          /\ child[s] = "alive"
          /\ Finishes(s, "error", children)
          /\ UNCHANGED storing
       \/ /\ s \notin finished
          /\ child[s] = "loggedIn"
          /\ child' = children
          /\ phase' = [phase EXCEPT ![s] = "submitting"]
          /\ storing' = [storing EXCEPT ![s] = "checking"]
          /\ UNCHANGED finished
    /\ UNCHANGED <<started, session, credential, console>>

\* SIGKILL.
Dies(s) == child[s] = "dying" /\ ChildEnds(s)

-----------------------------------------------------------------------------
(***************************************************************************)
(* The credential: storeClaudeToken with seedRunnerClaudeCredential, and   *)
(* the check after it, or after a login of codex.                          *)
(***************************************************************************)

WritesToken(s) ==
    /\ storing[s] = "writing"
    /\ storing' = [storing EXCEPT ![s] = "written"]
    /\ token' = [token EXCEPT !["claude"] = s[2]]
    /\ UNCHANGED <<started, session, phase, finished, child, memory, console>>

SetsToken(s) ==
    /\ storing[s] = "written"
    /\ storing' = [storing EXCEPT ![s] = "checking"]
    /\ memory' = s[2]
    /\ UNCHANGED <<started, session, phase, finished, child, token, console>>

\* A write that fails may have emptied the file before.
StoreFails(s) ==
    /\ LoginsMayFail
    /\ storing[s] \in {"writing", "written"}
    /\ storing' = [storing EXCEPT ![s] = "over"]
    /\ Finishes(s, "error", child)
    /\ \E left \in {token["claude"]} \cup (IF storing[s] = "writing" THEN {0} ELSE {}) :
          token' = [token EXCEPT !["claude"] = left]
    /\ UNCHANGED <<started, session, memory, console>>

\* The check has its answer, whatever became of the login in the meantime.
CheckEnds(s) ==
    /\ storing[s] = "checking"
    /\ storing' = [storing EXCEPT ![s] = "over"]
    /\ \E end \in {"done", "error"} : Finishes(s, end, child)
    /\ UNCHANGED <<started, session, credential, console>>

-----------------------------------------------------------------------------
(***************************************************************************)
(* disconnect, and the rows of the checks.                                 *)
(***************************************************************************)

Moves(p, stage) == leaving' = [leaving EXCEPT ![p] = stage]

Disconnect(p) ==
    /\ leaving[p] = "no"
    /\ Moves(p, "file")
    /\ UNCHANGED <<logins, credential, probe, chip>>

\* The file is removed, by clearRunnerClaudeCredential or by `codex logout`.
Removes(p) ==
    /\ leaving[p] = "file"
    /\ token' = [token EXCEPT ![p] = 0]
    /\ Moves(p, IF p = "claude" THEN "memory" ELSE "answered")
    /\ UNCHANGED <<logins, memory, probe, chip>>

RemoveFails(p) ==
    /\ LoginsMayFail
    /\ leaving[p] = "file"
    /\ Moves(p, "answered")
    /\ UNCHANGED <<logins, credential, probe, chip>>

ForgetsToken(p) ==
    /\ leaving[p] = "memory"
    /\ memory' = 0
    /\ Moves(p, "answered")
    /\ UNCHANGED <<logins, token, probe, chip>>

\* invalidateCheck, after an answer and after an error.
Invalidates(p) ==
    /\ leaving[p] = "answered"
    /\ chip' = [chip EXCEPT ![p] = "none"]
    /\ Moves(p, "no")
    /\ UNCHANGED <<logins, credential, probe>>

Connected(p) == IF p = "claude" THEN memory # 0 ELSE token[p] # 0

\* A check has its answer, which may be bad for any reason, ...
Checked(c, p) ==
    /\ probe[c] = NoAnswer
    /\ \E ok \in BOOLEAN :
          /\ ok => Connected(p)
          /\ probe' = [probe EXCEPT ![c] = [of |-> p, ok |-> ok]]
    /\ UNCHANGED <<logins, credential, leaving, chip>>

\* ... and writes it; an error of the write is caught.
WritesCheck(c) ==
    /\ probe[c] # NoAnswer
    /\ probe' = [probe EXCEPT ![c] = NoAnswer]
    /\ \/ chip' = [chip EXCEPT ![probe[c].of] = IF probe[c].ok THEN "ok" ELSE "bad"]
       \/ LoginsMayFail /\ UNCHANGED chip
    /\ UNCHANGED <<logins, credential, leaving>>

\* A row of ten minutes does not count any more.
Expires(p) ==
    /\ chip[p] # "none"
    /\ chip' = [chip EXCEPT ![p] = "none"]
    /\ UNCHANGED <<logins, credential, leaving, probe>>

-----------------------------------------------------------------------------
(***************************************************************************)
(* Processes that stop.                                                    *)
(***************************************************************************)

\* With the executor go its sessions, their children and its handlers; it begins
\* again with the token of the file, which a write it died in may have emptied.
ExecutorEnds ==
    /\ LoginsMayFail
    /\ session' = [p \in Providers |-> 0]
    /\ phase' = [s \in Sessions |-> IF phase[s] \in OpenPhases THEN "lost" ELSE phase[s]]
    /\ finished' = finished \cup {s \in Sessions : phase[s] \in OpenPhases}
    /\ child' = [s \in Sessions |-> IF child[s] = "none" THEN "none" ELSE "gone"]
    /\ storing' = [s \in Sessions |-> IF storing[s] = "no" THEN "no" ELSE "over"]
    /\ IF "claude" \in Providers
       THEN \E left \in {token["claude"]} \cup (IF \E s \in Sessions : storing[s] = "writing" THEN {0} ELSE {}) :
               token' = [token EXCEPT !["claude"] = left] /\ memory' = left
       ELSE UNCHANGED credential
    /\ leaving' = [p \in Providers |-> IF leaving[p] = "no" THEN "no" ELSE "answered"]
    /\ UNCHANGED <<started, probe, chip>>

\* With the factory go its checks, and the answers it would have acted on.
FactoryEnds ==
    /\ LoginsMayFail
    /\ probe' = [c \in CheckIds |-> NoAnswer]
    /\ leaving' = [p \in Providers |-> IF leaving[p] = "answered" THEN "no" ELSE leaving[p]]
    /\ UNCHANGED <<logins, credential, chip>>

-----------------------------------------------------------------------------
Operator(s) == SubmitCode(s) \/ Cancel(s) \/ Sweep(s)
Cli(s) == ShowsUrl(s) \/ RejectsCode(s) \/ PrintsToken(s) \/ LogsIn(s) \/ ChildEnds(s)
Store(s) == WritesToken(s) \/ SetsToken(s) \/ StoreFails(s) \/ CheckEnds(s)
Disconnection(p) == Disconnect(p) \/ Removes(p) \/ RemoveFails(p) \/ ForgetsToken(p) \/ Invalidates(p)

LoginNext ==
    \/ \E p \in Providers : Start(p) \/ Disconnection(p) \/ Expires(p)
    \/ \E s \in Sessions : Operator(s) \/ Cli(s) \/ Store(s)
    \/ \E c \in CheckIds : WritesCheck(c) \/ \E p \in Providers : Checked(c, p)
    \/ ExecutorEnds
    \/ FactoryEnds

LoginSpec == LoginInit /\ [][LoginNext]_loginVars

\* Timers fire: the one that ends a login, and the one that sends SIGKILL.
LoginFairness == \A s \in Sessions : WF_loginVars(Sweep(s)) /\ WF_loginVars(Dies(s))

LoginFairSpec == LoginSpec /\ LoginFairness

-----------------------------------------------------------------------------
(***************************************************************************)
(* Properties.                                                             *)
(***************************************************************************)

\* "two `claude setup-token` children racing for the same token would be worse than
\* either": a child that runs and was not told to end is that of the provider's one
\* session, and that session is open.
OneChild ==
    \A s \in Sessions : child[s] \in Running => session[s[1]] = s[2] /\ s \notin finished

\* "late output cannot resurrect a dead session": what a login ended as, it stays,
\* whatever its child, its store, its check, its timer and the operator do later.
TerminalIsFinal ==
    [][\A s \in finished : s \in finished' /\ phase'[s] = phase[s]]_loginVars

\* "A session that nobody advances dies on its own", and its child with it.
SessionsEnd ==
    \A s \in Sessions : phase[s] \in OpenPhases ~> s \in finished /\ child[s] = "gone"

\* cancelSession: "Kills the child; the credential is untouched."
CancelLeavesCredential ==
    [][\A s \in Sessions : phase[s] = "cancelled" /\ token'[s[1]] = s[2] => token[s[1]] = s[2]]_loginVars

\* storeClaudeToken: "Kill the child before the (slow) ping so no PTY lingers while we
\* wait."
NoChildDuringPing ==
    \A s \in Sessions : storing[s] = "checking" => child[s] \notin Running

\* The route that disconnects: "The cached chip would otherwise keep saying
\* <<connected>> for up to ten minutes about a credential that has just been deleted."
ChipForgets ==
    \A p \in Providers :
        chip[p] = "ok" /\ leaving[p] = "no" => token[p] # 0 \/ (p = "claude" /\ memory # 0)
=============================================================================
