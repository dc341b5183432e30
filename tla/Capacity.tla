------------------------------ MODULE Capacity ------------------------------
(***************************************************************************)
(* How many agents work at a time in one worker process, while the         *)
(* operator changes the limits: the settings rows and the process's        *)
(* snapshot of them (lib/settingsStore.ts), the consumers of each group's  *)
(* agent queue (orchestrator/workerConsumerPool.ts), the semaphore their   *)
(* agent calls pass (agents/semaphore.ts), and syncLiveCapacity, which     *)
(* applies a snapshot to the groups one after the other (workers/main.ts). *)
(*                                                                         *)
(* The process is one thread: a step is what runs between two awaits.      *)
(***************************************************************************)
EXTENDS Naturals, Sequences, FiniteSets

CONSTANTS
    LastGroup,   \* the worker groups of the process are 1..LastGroup, in this order
    Values,      \* numbers the settings can hold
    Default,     \* the number they hold at first
    HandleIds,   \* what names a consumer of a group's queue
    LoadIds,     \* bound: reads of the settings table under way
    MaxSaves,    \* bound: settings saved
    MaxFails,    \* bound: failed reads and calls of pg-boss
    MaxSyncs     \* bound: syncs under way at a time

ASSUME CapacityConstants ==
    /\ LastGroup \in Nat \ {0}
    /\ Values \subseteq Nat
    /\ Default \in Values
    /\ LoadIds \subseteq Nat \ {0}
    /\ MaxSaves \in Nat
    /\ MaxFails \in Nat
    /\ MaxSyncs \in Nat \ {0}

Groups == 1..LastGroup
Limits == [Groups -> Values]

VARIABLES
    row,         \* the settings rows, a limit per group
    loads,       \* reads of the table under way
    inFlight,    \* the module's variable of that name: a read, or 0 for null
    snapshot,    \* cache
    active, limit, waiting,   \* the semaphore of each group
    doing,       \* what the callback of each consumer does
    handles,     \* WorkerConsumerPool.handles, in the order they were registered
    registered,  \* the consumers pg-boss has
    chain,       \* targets of the resizes a pool was asked for, the first under way
    saves, fails

settings == <<row, loads, inFlight, snapshot>>
semaphore == <<active, limit, waiting>>
pool == <<handles, registered, chain>>
bounds == <<saves, fails>>
vars == <<settings, semaphore, doing, pool, bounds>>

\* A read that is under way holds the rows as they were when it was sent, the oldest
\* it can bring back.
NoLoad == [at |-> "none"]
Loaded(rows) == [at |-> "read", rows |-> rows]

\* A callback makes an agent call, which waits for a slot, then holds it.
Doings == {"nothing", "waiting", "holding"}

TypeOK ==
    /\ row \in Limits
    /\ loads \in [LoadIds -> {NoLoad} \cup {Loaded(rows) : rows \in Limits}]
    /\ inFlight \in LoadIds \cup {0}
    /\ snapshot \in Limits
    /\ active \in [Groups -> Nat]
    /\ limit \in [Groups -> Nat \ {0}]
    /\ waiting \in [Groups -> Seq(HandleIds)]
    /\ doing \in [Groups -> [HandleIds -> Doings]]
    /\ handles \in [Groups -> Seq(HandleIds)]
    /\ registered \in [Groups -> SUBSET HandleIds]
    /\ chain \in [Groups -> Seq(Nat \ {0})]
    /\ saves \in Nat
    /\ fails \in Nat

-----------------------------------------------------------------------------
\* A limit that is no positive number counts as 1.
Normal(value) == IF value > 0 THEN value ELSE 1

\* The process has read its settings and its groups are being given their limits.
Init ==
    /\ row = [g \in Groups |-> Default]
    /\ snapshot = row
    /\ loads = [l \in LoadIds |-> NoLoad]
    /\ inFlight = 0
    /\ active = [g \in Groups |-> 0]
    /\ limit = [g \in Groups |-> IF g = 1 THEN Normal(snapshot[1]) ELSE 1]
    /\ waiting = [g \in Groups |-> <<>>]
    /\ doing = [g \in Groups |-> [h \in HandleIds |-> "nothing"]]
    /\ handles = [g \in Groups |-> <<>>]
    /\ registered = [g \in Groups |-> {}]
    /\ chain = [g \in Groups |-> IF g = 1 THEN <<Normal(snapshot[1])>> ELSE <<>>]
    /\ saves = 0
    /\ fails = 0

Fails == fails < MaxFails /\ fails' = fails + 1

-----------------------------------------------------------------------------
(***************************************************************************)
(* The semaphore of a group.                                               *)
(***************************************************************************)

\* Mutant of Admitted: whoever gives a slot back hands it to the next one.
HandsOver(a, l, w) == IF Len(w) > 0 THEN 1 ELSE 0

\* drain: how many of the waiters get a slot.
Admitted(a, l, w) ==
    IF a >= l THEN 0 ELSE IF l - a < Len(w) THEN l - a ELSE Len(w)

\* The slots a group has free, a of them in use and l in all, go to its waiters.
Drains(g, a, l, d) ==
    LET n == Admitted(a, l, waiting[g]) IN
    /\ active' = [active EXCEPT ![g] = a + n]
    /\ waiting' = [waiting EXCEPT ![g] = SubSeq(@, n + 1, Len(@))]
    /\ doing' = [doing EXCEPT ![g] =
                    [h \in HandleIds |-> IF \E i \in 1..n : waiting[g][i] = h
                                         THEN "holding" ELSE d[h]]]

\* resize of the semaphore.
SetsLimit(g, l) ==
    /\ limit' = [limit EXCEPT ![g] = l]
    /\ Drains(g, active[g], l, doing[g])

\* acquire, by the callback of a consumer that has taken a job.
Acquires(g, h) ==
    /\ h \in registered[g]
    /\ doing[g][h] = "nothing"
    /\ \/ /\ active[g] < limit[g]
          /\ active' = [active EXCEPT ![g] = @ + 1]
          /\ doing' = [doing EXCEPT ![g][h] = "holding"]
          /\ UNCHANGED waiting
       \/ /\ active[g] >= limit[g]
          /\ waiting' = [waiting EXCEPT ![g] = Append(@, h)]
          /\ doing' = [doing EXCEPT ![g][h] = "waiting"]
          /\ UNCHANGED active
    /\ UNCHANGED <<settings, limit, pool, bounds>>

\* Mutant of GivenBack: a call that throws keeps its slot.
Leaked(a) == a

GivenBack(a) == IF a > 0 THEN a - 1 ELSE 0

\* release, when the call returned or threw; the callback ends with it.
Releases(g, h) ==
    /\ doing[g][h] = "holding"
    /\ Drains(g, GivenBack(active[g]), limit[g],
              [doing[g] EXCEPT ![h] = "nothing"])
    /\ UNCHANGED <<settings, limit, pool, bounds>>

-----------------------------------------------------------------------------
(***************************************************************************)
(* The consumers of a group.  Resizes wait for each other in resizeChain.  *)
(***************************************************************************)

\* syncLiveCapacity arrives at a group: it reads the limit from the snapshot as it
\* is by then, sets the semaphore and asks the pool, whose resize it awaits.
Applies(g, target, chains) ==
    /\ SetsLimit(g, target)
    /\ chain' = [chains EXCEPT ![g] = Append(@, target)]

\* ... and goes on to the next group when the pool of the one before is done.
GoesOn(g) ==
    LET rest == [chain EXCEPT ![g] = Tail(@)] IN
    IF g < LastGroup THEN Applies(g + 1, Normal(snapshot[g + 1]), rest)
    ELSE chain' = rest /\ UNCHANGED <<semaphore, doing>>

\* applyResize registers a consumer.
Grows(g) ==
    /\ chain[g] # <<>>
    /\ Len(handles[g]) < Head(chain[g])
    /\ \E h \in HandleIds :
        /\ h \notin registered[g]
        /\ doing[g][h] = "nothing"
        /\ registered' = [registered EXCEPT ![g] = @ \cup {h}]
        /\ handles' = [handles EXCEPT ![g] = Append(@, h)]
    /\ UNCHANGED <<settings, semaphore, doing, chain, bounds>>

\* Mutant of Kept: a consumer is forgotten before pg-boss has let it go.
Forgotten(s) == SubSeq(s, 1, Len(s) - 1)

\* The handles the pool is left with when removing the last one failed.
Kept(s) == s

\* ... removes the last one; a callback it runs goes on.
Shrinks(g) ==
    LET last == handles[g][Len(handles[g])] IN
    /\ chain[g] # <<>>
    /\ Len(handles[g]) > Head(chain[g])
    /\ registered' = [registered EXCEPT ![g] = @ \ {last}]
    /\ handles' = [handles EXCEPT ![g] = SubSeq(@, 1, Len(@) - 1)]
    /\ UNCHANGED <<settings, semaphore, doing, chain, bounds>>

ResizeDone(g) ==
    /\ chain[g] # <<>>
    /\ Len(handles[g]) = Head(chain[g])
    /\ GoesOn(g)
    /\ UNCHANGED <<settings, handles, registered, bounds>>

\* A call of pg-boss fails: the resize is given up half way and so is the sync that
\* awaits it, with the groups it has not reached; the resizes behind it go on.
ResizeFails(g) ==
    /\ chain[g] # <<>>
    /\ Len(handles[g]) # Head(chain[g])
    /\ Fails
    /\ handles' = [handles EXCEPT ![g] = IF Len(@) > Head(chain[g]) THEN Kept(@) ELSE @]
    /\ chain' = [chain EXCEPT ![g] = Tail(@)]
    /\ UNCHANGED <<settings, semaphore, doing, registered, saves>>

-----------------------------------------------------------------------------
(***************************************************************************)
(* The settings snapshot.                                                  *)
(***************************************************************************)

\* writeSetting, by the console or by this process.
Saves(g, value) ==
    /\ saves < MaxSaves
    /\ saves' = saves + 1
    /\ row' = [row EXCEPT ![g] = value]
    /\ UNCHANGED <<loads, inFlight, snapshot, semaphore, doing, pool, fails>>

Sends(l) ==
    /\ loads[l] = NoLoad
    /\ loads' = [loads EXCEPT ![l] = Loaded(row)]
    /\ inFlight' = l
    /\ UNCHANGED <<row, snapshot, semaphore, doing, pool, bounds>>

\* refresh, by the timer or a getter: one read at a time.
Refreshes(l) == inFlight = 0 /\ Sends(l)

\* reloadSettings: a read of its own, beside one that is under way.
Reloads(l) == inFlight # 0 /\ Sends(l)

\* Each sync under way awaits one resize.
Syncs == UNION {{g} \X DOMAIN chain[g] : g \in Groups}

\* Mutant of Notified: the listeners are called when something has changed.
NotifiedOfChanges(before, after) == before # after

Notified(before, after) == TRUE

\* The answer arrives: the snapshot is replaced and a sync starts at the first group.
\* `finally` clears inFlight, whosever it is by then.
Arrives(l) ==
    /\ loads[l].at = "read"
    /\ Cardinality(Syncs) < MaxSyncs
    /\ snapshot' = loads[l].rows
    /\ loads' = [loads EXCEPT ![l] = NoLoad]
    /\ inFlight' = 0
    /\ IF Notified(snapshot, snapshot')
       THEN Applies(1, Normal(snapshot'[1]), chain)
       ELSE UNCHANGED <<semaphore, doing, chain>>
    /\ UNCHANGED <<row, handles, registered, bounds>>

\* The read fails: the snapshot is kept, and nobody is told.
ReadFails(l) ==
    /\ loads[l] # NoLoad
    /\ Fails
    /\ loads' = [loads EXCEPT ![l] = NoLoad]
    /\ inFlight' = 0
    /\ UNCHANGED <<row, snapshot, semaphore, doing, pool, saves>>

-----------------------------------------------------------------------------
Consumer(g, h) == Acquires(g, h) \/ Releases(g, h)
Pool(g) == Grows(g) \/ Shrinks(g) \/ ResizeDone(g)
Settings(l) == Refreshes(l) \/ Reloads(l) \/ Arrives(l) \/ ReadFails(l)

Next ==
    \/ \E g \in Groups, h \in HandleIds : Consumer(g, h)
    \/ \E g \in Groups : Pool(g) \/ ResizeFails(g)
    \/ \E g \in Groups, value \in Values : Saves(g, value)
    \/ \E l \in LoadIds : Settings(l)

Spec == Init /\ [][Next]_vars

\* Agent calls end, by their time limits at the latest; pg-boss and Postgres answer;
\* the timer refreshes.
Fairness ==
    /\ \A g \in Groups, h \in HandleIds : WF_vars(Releases(g, h))
    /\ \A g \in Groups : WF_vars(Pool(g))
    /\ \A l \in LoadIds : WF_vars(Arrives(l))
    /\ WF_vars(\E l \in LoadIds : Refreshes(l))

FairSpec == Spec /\ Fairness

-----------------------------------------------------------------------------
(***************************************************************************)
(* Properties.                                                             *)
(***************************************************************************)

\* The semaphore's count is the number of calls under way, and its queue holds the
\* calls that wait, each once: a limit changed under them loses and doubles nothing.
CallsCounted ==
    \A g \in Groups :
        /\ active[g] = Cardinality({h \in HandleIds : doing[g][h] = "holding"})
        /\ Len(waiting[g]) = Cardinality({h \in HandleIds : doing[g][h] = "waiting"})
        /\ \A h \in HandleIds : doing[g][h] = "waiting" <=> \E i \in 1..Len(waiting[g]) : waiting[g][i] = h

\* No call waits beside a free slot, whatever order limits, calls and returns come in.
NoIdleSlot == \A g \in Groups : waiting[g] # <<>> => active[g] >= limit[g]

\* "cap reduction never interrupts active work or releases a waiter early": a call
\* begins only within the limit, also while more calls than it allows are under way.
BeginsWithinLimit ==
    [][\A g \in Groups : active'[g] > active[g] => active'[g] <= limit'[g]]_vars

\* "the next settings refresh retries from the handles that actually exist": the pool
\* knows exactly the consumers pg-boss has, also after a resize that failed half way.
HandlesKnown ==
    \A g \in Groups :
        /\ registered[g] = {handles[g][i] : i \in 1..Len(handles[g])}
        /\ Cardinality(registered[g]) = Len(handles[g])

\* A call that waits is served, however often the limit changes.
CallsServed ==
    \A g \in Groups, h \in HandleIds : doing[g][h] = "waiting" ~> doing[g][h] = "holding"

\* When the operator and the failures have come to rest, every group has the number
\* of consumers and slots its row says: the reads that overtook each other, the syncs
\* that were given up and the resizes that failed are made good by later refreshes.
Converges ==
    <>[](\A g \in Groups : limit[g] = Normal(row[g]) /\ Len(handles[g]) = Normal(row[g]))
=============================================================================
