------------------------------- MODULE Intake -------------------------------
(***************************************************************************)
(* How leads come in: campaigns (campaignCommandService.ts), their search  *)
(* (workers/discovery.ts), the deduplication of what it finds              *)
(* (normalizationService.ts), a lead added by hand                         *)
(* (manualBusinessService.ts), the first verdict on a lead                 *)
(* (workers/fastQualify.ts), the gates between that verdict and data       *)
(* collection (autoAdvance.ts) and the shelf (archiveService.ts).          *)
(*                                                                         *)
(* The ledger of attempts is module WorkflowQueue; here a job has the      *)
(* status of the latest run of its idempotency key.  What happens to an    *)
(* enrich job is module EnrichmentBarrier.                                 *)
(***************************************************************************)
EXTENDS Naturals, Sequences, FiniteSets, Functions, BusinessStatus

CONSTANTS
    Searches,       \* campaigns an operator launches
    ByHand,         \* the campaign of the leads added by hand
    Candidates,     \* rows a search may return
    Identity,       \* of a candidate: <<"place" | "phone" | "domain" | "spot", value>>
    Name, City,     \* of a candidate, of a campaign
    Near,           \* pairs of candidates less than 150 m apart
    Barred,         \* candidates on the do-not-contact list
    Taste,          \* verdict of the filters on a candidate
    Scrapes,        \* what one run of a search may return
    Target,         \* campaigns.target_count
    Links,          \* candidates whose link an operator may paste
    AutoStages,     \* stop-points an operator sets
    Leads,          \* ids of businesses, drawn in order
    NoCandidate, NoLook,
    MaxFaults,      \* bound: throws and crashes
    MaxCommands,    \* bound: commands of the operator
    MaxShelvings    \* bound: archivings, one more for a campaign

Campaigns == Searches \cup {ByHand}
Tasks == Campaigns \X Candidates
Kinds == {"place", "phone", "domain", "spot"}
Verdicts == {"prequalified", "needs_review", "rejected"}
Active == {"queued", "running"}
JobStatus == {"none", "queued", "running", "done", "failed", "cancelled"}

ASSUME IntakeConstants ==
    /\ ByHand \notin Searches
    /\ Identity \in [Candidates -> SUBSET (Kinds \X Nat)]
    /\ Near \subseteq Candidates \X Candidates
    /\ \A j, k \in Candidates : <<j, k>> \in Near => <<k, j>> \in Near
    /\ Barred \subseteq Candidates
    /\ Taste \in [Candidates -> Verdicts]
    /\ Scrapes \subseteq Seq(Candidates)
    /\ Target \in Nat
    /\ Links \subseteq Candidates
    /\ AutoStages \subseteq {"discover", "enrich", "build"} /\ "discover" \in AutoStages
    /\ Leads \subseteq Nat \ {0}
    /\ NoCandidate \notin Candidates
    /\ NoLook \notin [lead : Leads \cup {0}, again : BOOLEAN]
    /\ MaxFaults \in Nat
    /\ MaxCommands \in Nat
    /\ MaxShelvings \in Nat

VARIABLES
    mode,       \* campaigns.status, "none" before the campaign exists
    stage,      \* campaigns.auto_stage
    shelvedAt,  \* campaigns.archived_at, 0 when not archived
    search,     \* the discover job of a campaign
    scrape,     \* what its last handler found
    next,       \* the row that handler hands over next
    norm,       \* the normalize job of a campaign and candidate, or the
                \* operator's call that normalizes a lead by hand
    look,       \* what its open transaction has read
    card,       \* the candidate a business was made from
    home,       \* businesses.campaign_id
    status,     \* businesses.status
    sources,    \* candidates whose listing is evidence of the business
    archivedAt, \* businesses.archived_at, 0 when not archived
    qual,       \* the fast-qualify run: its status, payload.operatorChosen and
                \* payload.campaignId
    verdict,    \* what its handler has decided and not committed
    late,       \* verdicts of handlers whose run was cancelled under them
    rows,       \* qualifications of stage 'fast'
    enrich,     \* the enrich job
    opened,     \* history: campaigns that ever let data collection begin
    asked,      \* history: businesses whose data the operator asked for
    shelf,      \* history: businesses archived one by one and not restored so
    clock,      \* instants at which something was archived
    faults, commands

campaigns == <<mode, stage, shelvedAt, opened>>
searching == <<search, scrape, next>>
normalizing == <<norm, look>>
business == <<card, home, sources>>
shelves == <<archivedAt, shelf, clock>>
judging == <<qual, verdict, late, rows>>
vars == <<campaigns, searching, normalizing, business, status, shelves, judging,
          enrich, asked, faults, commands>>

NoLead == 0

TypeOK ==
    /\ mode \in [Campaigns -> {"none", "running", "paused"}]
    /\ stage \in [Campaigns -> AutoStages]
    /\ shelvedAt \in [Campaigns -> Nat]
    /\ search \in [Campaigns -> JobStatus]
    /\ scrape \in [Campaigns -> Scrapes \cup {<< >>}]
    /\ next \in [Campaigns -> Nat]
    /\ norm \in [Tasks -> JobStatus]
    /\ look \in [Tasks -> [lead : Leads \cup {NoLead}, again : BOOLEAN] \cup {NoLook}]
    /\ card \in [Leads -> Candidates \cup {NoCandidate}]
    /\ home \in [Leads -> Campaigns]
    /\ status \in [Leads -> Statuses]
    /\ sources \in [Leads -> SUBSET Candidates]
    /\ archivedAt \in [Leads -> Nat]
    /\ qual \in [Leads -> [state : JobStatus, chosen : BOOLEAN, campaign : Campaigns]]
    /\ verdict \in [Leads -> Verdicts \cup {"none"}]
    /\ late \in [Leads -> SUBSET Verdicts]
    /\ rows \in [Leads -> Nat]
    /\ enrich \in [Leads -> JobStatus]
    /\ opened \subseteq Campaigns
    /\ asked \subseteq Leads
    /\ shelf \subseteq Leads
    /\ clock \in Nat /\ faults \in Nat /\ commands \in Nat

Init ==
    /\ mode = [c \in Campaigns |-> "none"]
    /\ stage = [c \in Campaigns |-> "discover"]
    /\ shelvedAt = [c \in Campaigns |-> 0]
    /\ search = [c \in Campaigns |-> "none"]
    /\ scrape = [c \in Campaigns |-> << >>]
    /\ next = [c \in Campaigns |-> 1]
    /\ norm = [t \in Tasks |-> "none"]
    /\ look = [t \in Tasks |-> NoLook]
    /\ card = [b \in Leads |-> NoCandidate]
    /\ home = [b \in Leads |-> ByHand]
    /\ status = [b \in Leads |-> "discovered"]
    /\ sources = [b \in Leads |-> {}]
    /\ archivedAt = [b \in Leads |-> 0]
    /\ qual = [b \in Leads |-> [state |-> "none", chosen |-> FALSE, campaign |-> ByHand]]
    /\ verdict = [b \in Leads |-> "none"]
    /\ late = [b \in Leads |-> {}]
    /\ rows = [b \in Leads |-> 0]
    /\ enrich = [b \in Leads |-> "none"]
    /\ opened = {} /\ asked = {} /\ shelf = {}
    /\ clock = 0 /\ faults = 0 /\ commands = 0

Fault == faults < MaxFaults /\ faults' = faults + 1
Command == commands < MaxCommands /\ commands' = commands + 1

-----------------------------------------------------------------------------
(***************************************************************************)
(* Campaigns.                                                              *)
(***************************************************************************)

\* autoAdvanceBlock with autoStageAllows, for the step into data collection.
LetsThrough(c) == mode[c] # "paused" /\ stage[c] \in {"enrich", "build"}

\* What an operator may have let begin is remembered (history).
Opened == opened' = opened \cup {c \in Campaigns : LetsThrough(c)'}

\* CampaignCommandService.create: a second one of the month finds the first.
Create(c, s) ==
    /\ mode[c] = "none"
    /\ mode' = [mode EXCEPT ![c] = "running"]
    /\ stage' = [stage EXCEPT ![c] = s]
    /\ search' = [search EXCEPT ![c] = "queued"]
    /\ Opened
    /\ UNCHANGED <<shelvedAt, scrape, next, normalizing, business, status, shelves, judging,
                   enrich, asked, faults, commands>>

\* setCampaignRunning and setCampaignFlow: the two knobs of the console.
Turn(c, m, s) ==
    /\ Command
    /\ mode[c] # "none"
    /\ <<m, s>> # <<mode[c], stage[c]>>
    /\ m = mode[c] \/ s = stage[c]
    /\ mode' = [mode EXCEPT ![c] = m]
    /\ stage' = [stage EXCEPT ![c] = s]
    /\ Opened
    /\ UNCHANGED <<shelvedAt, searching, normalizing, business, status, shelves, judging,
                   enrich, asked, faults>>

-----------------------------------------------------------------------------
(***************************************************************************)
(* The search of a campaign: neither its pause nor its shelf is looked at. *)
(***************************************************************************)

\* Mutant of Limited: one row too few.
LimitedShort(c) == {i \in DOMAIN scrape[c] : i < Target}

\* candidates.slice(0, campaign.targetCount): the rows to hand over.
Limited(c) == {i \in DOMAIN scrape[c] : i <= Target}

\* discoverHandler has its scrape; an empty one or a failed one throws.
SearchReads(c) ==
    /\ search[c] = "queued"
    /\ search' = [search EXCEPT ![c] = "running"]
    /\ \E rowsFound \in Scrapes : scrape' = [scrape EXCEPT ![c] = rowsFound]
    /\ next' = [next EXCEPT ![c] = 1]
    /\ UNCHANGED <<campaigns, normalizing, business, status, shelves, judging, enrich, asked,
                   faults, commands>>

\* The idempotency key of a normalize job: the place, else the listing.
PlaceOf(k) == {id \in Identity[k] : id[1] = "place"}
SameKey(j, k) == j = k \/ (PlaceOf(k) # {} /\ PlaceOf(j) = PlaceOf(k))

\* enqueue('normalize', ...) for one candidate after the other, each on its own.
HandOver(c) ==
    /\ search[c] = "running"
    /\ next[c] \in Limited(c)
    /\ LET k == scrape[c][next[c]] IN
       norm' = IF \E j \in Candidates : SameKey(j, k) /\ norm[<<c, j>>] \in Active
               THEN norm ELSE [norm EXCEPT ![<<c, k>>] = "queued"]
    /\ next' = [next EXCEPT ![c] = @ + 1]
    /\ UNCHANGED <<campaigns, search, scrape, look, business, status, shelves, judging, enrich,
                   asked, faults, commands>>

SearchEnds(c) ==
    /\ search[c] = "running"
    /\ next[c] \notin Limited(c)
    /\ search' = [search EXCEPT ![c] = "done"]
    /\ UNCHANGED <<campaigns, scrape, next, normalizing, business, status, shelves, judging,
                   enrich, asked, faults, commands>>

\* gosom fails, nothing is found or the container dies: the job runs again, from
\* a new scrape, or its retries are used up.
SearchThrows(c) ==
    /\ search[c] = "running"
    /\ Fault
    /\ \E outcome \in {"queued", "failed"} : search' = [search EXCEPT ![c] = outcome]
    /\ UNCHANGED <<campaigns, scrape, next, normalizing, business, status, shelves, judging,
                   enrich, asked, commands>>

-----------------------------------------------------------------------------
(***************************************************************************)
(* Normalization: one transaction, from its advisory locks to its commit.  *)
(***************************************************************************)

\* Mutant of Locks: only what the search returned is locked, not the id.
LocksWithoutName(t) ==
    {IF id[1] = "spot" THEN <<"spot", Name[t[2]], id[2]>> ELSE id : id \in Identity[t[2]]}

\* identityLocks: a spot is locked with the name, at a metre; business-id:<base>
\* is made of the campaign's city and the name.
Locks(t) ==
    {IF id[1] = "spot" THEN <<"spot", Name[t[2]], id[2]>> ELSE id : id \in Identity[t[2]]}
    \cup {<<"name", Name[t[2]], City[t[1]]>>}

InTransaction == {t \in Tasks : look[t] # NoLook}
Known == {b \in Leads : card[b] # NoCandidate}

By(kind, k) == {b \in Known : \E id \in Identity[k] : id[1] = kind /\ id \in Identity[card[b]]}
Namesakes(k) == {b \in Known : Name[card[b]] = Name[k] /\ <<card[b], k>> \in Near}

\* The lookups of normalize, each only when those before it found nothing.
Matches(k) ==
    CASE By("place", k) # {} -> By("place", k)
      [] By("place", k) = {} /\ By("phone", k) # {} -> By("phone", k)
      [] By("place", k) = {} /\ By("phone", k) = {} /\ By("domain", k) # {} -> By("domain", k)
      [] OTHER -> Namesakes(k)

\* What is read of the match: may it still have to be qualified?
Read(b) == [lead |-> b, again |-> status[b] = "discovered" /\ archivedAt[b] = 0]

\* normalize has its locks and looks the candidate up.
LooksUp(t) ==
    /\ norm[t] = "queued"
    /\ \A u \in InTransaction : Locks(t) \cap Locks(u) = {}
    /\ norm' = [norm EXCEPT ![t] = "running"]
    /\ IF Matches(t[2]) = {}
       THEN look' = [look EXCEPT ![t] = [lead |-> NoLead, again |-> FALSE]]
       ELSE \E b \in Matches(t[2]) : look' = [look EXCEPT ![t] = Read(b)]
    /\ UNCHANGED <<campaigns, searching, business, status, shelves, judging, enrich, asked,
                   faults, commands>>

\* Mutant of Qualifying: the queue's own word for a waiting job.
QualifyingCreated(b, c) ==
    [qual EXCEPT ![b] = [state |-> "created", chosen |-> c = ByHand, campaign |-> c]]

\* The fast-qualify job of a business; an active one keeps its own payload.
Qualifying(b, c) ==
    IF qual[b].state \in Active THEN qual
    ELSE [qual EXCEPT ![b] = [state |-> "queued", chosen |-> c = ByHand, campaign |-> c]]

\* Mutant of Closes: the locks are the session's, not the transaction's.
ClosesLocked(t) == norm' = [norm EXCEPT ![t] = "done"] /\ UNCHANGED look

Closes(t) ==
    /\ norm' = [norm EXCEPT ![t] = "done"]
    /\ look' = [look EXCEPT ![t] = NoLook]

\* A duplicate: its listing is one more source of the business.
Attaches(t) ==
    /\ look[t] # NoLook
    /\ look[t].lead # NoLead
    /\ LET b == look[t].lead IN
       /\ sources' = [sources EXCEPT ![b] = @ \cup {t[2]}]
       /\ qual' = IF look[t].again THEN Qualifying(b, t[1]) ELSE qual
    /\ Closes(t)
    /\ UNCHANGED <<campaigns, searching, card, home, status, shelves, verdict, late, rows,
                   enrich, asked, faults, commands>>

StartsQualifying(b, c) == Qualifying(b, c)

\* A new business, with its source and its fast-qualify job.
Inserts(t) ==
    /\ look[t] # NoLook
    /\ look[t].lead = NoLead
    /\ \E b \in Leads \ Known :
         /\ \A a \in Leads \ Known : b <= a
         /\ card' = [card EXCEPT ![b] = t[2]]
         /\ home' = [home EXCEPT ![b] = t[1]]
         /\ sources' = [sources EXCEPT ![b] = {t[2]}]
         /\ qual' = StartsQualifying(b, t[1])
    /\ Closes(t)
    /\ UNCHANGED <<campaigns, searching, status, shelves, verdict, late, rows, enrich, asked,
                   faults, commands>>

\* The transaction is rolled back; a call of the console has no retry.
NormalizeThrows(t) ==
    /\ look[t] # NoLook
    /\ Fault
    /\ \E outcome \in {"queued", "failed"} :
         /\ t[1] = ByHand => outcome = "failed"
         /\ norm' = [norm EXCEPT ![t] = outcome]
    /\ look' = [look EXCEPT ![t] = NoLook]
    /\ UNCHANGED <<campaigns, searching, business, status, shelves, judging, enrich, asked,
                   commands>>

\* addByLink: the operator's link was found on the map.
AddByLink(k) ==
    /\ Command
    /\ norm[<<ByHand, k>>] \notin Active
    /\ mode' = [mode EXCEPT ![ByHand] = IF @ = "none" THEN "running" ELSE @]
    /\ norm' = [norm EXCEPT ![<<ByHand, k>>] = "queued"]
    /\ UNCHANGED <<stage, shelvedAt, opened, searching, look, business, status, shelves, judging,
                   enrich, asked, faults>>

-----------------------------------------------------------------------------
(***************************************************************************)
(* The first verdict.                                                      *)
(***************************************************************************)

\* The operator's choice overrules the filters, the do-not-contact list overrules
\* both.
Decision(b) ==
    CASE card[b] \in Barred -> "rejected"
      [] card[b] \notin Barred /\ qual[b].chosen -> "prequalified"
      [] OTHER -> Taste[card[b]]

\* A worker takes the job; fastQualifyHandler reads and decides.
Judges(b) ==
    /\ qual[b].state = "queued"
    /\ IF archivedAt[b] # 0
       THEN qual' = [qual EXCEPT ![b].state = "cancelled"] /\ UNCHANGED verdict
       ELSE IF status[b] # "discovered"
       THEN qual' = [qual EXCEPT ![b].state = "done"] /\ UNCHANGED verdict
       ELSE /\ qual' = [qual EXCEPT ![b].state = "running"]
            /\ verdict' = [verdict EXCEPT ![b] = Decision(b)]
    /\ UNCHANGED <<campaigns, searching, normalizing, business, status, shelves, late, rows,
                   enrich, asked, faults, commands>>

\* Mutant of MayAdvance: the campaign that found it again is asked.
MayAdvanceFinder(b) == LetsThrough(qual[b].campaign)

\* mayAutoAdvance asks the campaign the business belongs to.
MayAdvance(b) == LetsThrough(home[b])

\* Mutant of StillOpen: the status is not looked at again under the lock.
NotLookedAgain(b) == TRUE

StillOpen(b) == status[b] = "discovered"

\* The transaction of a handler with verdict v; too late, it leaves no trace.
Gives(b, v) ==
    IF StillOpen(b)
    THEN /\ status' = [status EXCEPT ![b] = v]
         /\ rows' = [rows EXCEPT ![b] = @ + 1]
         /\ enrich' = IF v = "prequalified" /\ MayAdvance(b) /\ enrich[b] \notin Active
                      THEN [enrich EXCEPT ![b] = "queued"] ELSE enrich
    ELSE UNCHANGED <<status, rows, enrich>>

\* The handler of the current run commits; the end of its job is recorded, or is
\* lost with the container and the job runs again.
VerdictCommits(b) ==
    /\ verdict[b] # "none"
    /\ Gives(b, verdict[b])
    /\ \/ qual' = [qual EXCEPT ![b].state = "done"] /\ UNCHANGED faults
       \/ qual' = [qual EXCEPT ![b].state = "queued"] /\ Fault
    /\ verdict' = [verdict EXCEPT ![b] = "none"]
    /\ UNCHANGED <<campaigns, searching, normalizing, business, shelves, late, asked, commands>>

\* A handler whose run was cancelled while it worked commits all the same.
LateVerdictCommits(b) ==
    \E v \in late[b] :
        /\ Gives(b, v)
        /\ late' = [late EXCEPT ![b] = @ \ {v}]
        /\ UNCHANGED <<campaigns, searching, normalizing, business, shelves, qual, verdict,
                       asked, faults, commands>>

JudgeThrows(b) ==
    /\ verdict[b] # "none"
    /\ Fault
    /\ \E outcome \in {"queued", "failed"} : qual' = [qual EXCEPT ![b].state = outcome]
    /\ verdict' = [verdict EXCEPT ![b] = "none"]
    /\ UNCHANGED <<campaigns, searching, normalizing, business, status, shelves, late, rows,
                   enrich, asked, commands>>

\* startEnrichment: the operator asks for the data of a lead on the list.
CollectData(b) ==
    /\ Command
    /\ status[b] = "prequalified"
    /\ enrich[b] \notin Active
    /\ enrich' = [enrich EXCEPT ![b] = "queued"]
    /\ asked' = asked \cup {b}
    /\ UNCHANGED <<campaigns, searching, normalizing, business, status, shelves, judging,
                   faults>>

\* markDoNotContact: an override, from any status.
MarkDoNotContact(b) ==
    /\ Command
    /\ b \in Known
    /\ status[b] # "do_not_contact"
    /\ status' = [status EXCEPT ![b] = "do_not_contact"]
    /\ UNCHANGED <<campaigns, searching, normalizing, business, shelves, judging, enrich, asked,
                   faults>>

-----------------------------------------------------------------------------
(***************************************************************************)
(* The shelf.                                                              *)
(***************************************************************************)
Cancellable == Active \cup {"failed"}

\* cancelInFlightWork and the instant of the archiving, for businesses bs.
Shelves(bs) ==
    /\ clock' = clock + 1
    /\ archivedAt' = [b \in Leads |-> IF b \in bs THEN clock + 1 ELSE archivedAt[b]]
    /\ qual' = [b \in Leads |-> IF b \in bs /\ qual[b].state \in Cancellable
                                THEN [qual[b] EXCEPT !.state = "cancelled"] ELSE qual[b]]
    /\ enrich' = [b \in Leads |-> IF b \in bs /\ enrich[b] \in Cancellable
                                  THEN "cancelled" ELSE enrich[b]]
    /\ late' = [b \in Leads |-> IF b \in bs THEN late[b] \cup ({verdict[b]} \ {"none"})
                                ELSE late[b]]
    /\ verdict' = [b \in Leads |-> IF b \in bs THEN "none" ELSE verdict[b]]

Archive(b) ==
    /\ clock < MaxShelvings
    /\ b \in Known
    /\ archivedAt[b] = 0
    /\ Shelves({b})
    /\ shelf' = shelf \cup {b}
    /\ UNCHANGED <<campaigns, searching, normalizing, business, status, rows, asked, faults,
                   commands>>

Unarchive(b) ==
    /\ archivedAt[b] # 0
    /\ archivedAt' = [archivedAt EXCEPT ![b] = 0]
    /\ shelf' = shelf \ {b}
    /\ UNCHANGED <<campaigns, searching, normalizing, business, status, clock, judging, enrich,
                   asked, faults, commands>>

\* A campaign takes its live businesses with it, all at one instant, and pauses.
ArchiveCampaign(c) ==
    /\ clock <= MaxShelvings
    /\ mode[c] # "none"
    /\ shelvedAt[c] = 0
    /\ Shelves({b \in Known : home[b] = c /\ archivedAt[b] = 0})
    /\ shelvedAt' = [shelvedAt EXCEPT ![c] = clock + 1]
    /\ mode' = [mode EXCEPT ![c] = "paused"]
    /\ UNCHANGED <<stage, opened, searching, normalizing, business, status, shelf, rows, asked,
                   faults, commands>>

\* Mutant of ShelvedWith: everything of the campaign comes back.
ShelvedOf(c) == {b \in Known : home[b] = c}

\* Only what went with the campaign comes back, known by the instant.
ShelvedWith(c) == {b \in Known : home[b] = c /\ archivedAt[b] = shelvedAt[c]}

UnarchiveCampaign(c) ==
    /\ shelvedAt[c] # 0
    /\ archivedAt' = [b \in Leads |-> IF b \in ShelvedWith(c) THEN 0 ELSE archivedAt[b]]
    /\ shelvedAt' = [shelvedAt EXCEPT ![c] = 0]
    /\ UNCHANGED <<mode, stage, opened, searching, normalizing, business, status, shelf, clock,
                   judging, enrich, asked, faults, commands>>

-----------------------------------------------------------------------------
Operator ==
    \/ \E c \in Searches, s \in AutoStages : Create(c, s)
    \/ \E c \in Campaigns, m \in {"running", "paused"}, s \in AutoStages : Turn(c, m, s)
    \/ \E k \in Links : AddByLink(k)
    \/ \E b \in Leads : CollectData(b) \/ MarkDoNotContact(b) \/ Archive(b) \/ Unarchive(b)
    \/ \E c \in Campaigns : ArchiveCampaign(c) \/ UnarchiveCampaign(c)

Next ==
    \/ Operator
    \/ \E c \in Searches : SearchReads(c) \/ HandOver(c) \/ SearchEnds(c) \/ SearchThrows(c)
    \/ \E t \in Tasks : LooksUp(t) \/ Attaches(t) \/ Inserts(t) \/ NormalizeThrows(t)
    \/ \E b \in Leads : Judges(b) \/ VerdictCommits(b) \/ LateVerdictCommits(b) \/ JudgeThrows(b)

Spec == Init /\ [][Next]_vars

\* Workers poll their queues and handlers end; an operator owes nothing.
FairSpec ==
    /\ Spec
    /\ \A c \in Searches : WF_vars(SearchReads(c)) /\ WF_vars(HandOver(c)) /\ WF_vars(SearchEnds(c))
    /\ \A t \in Tasks : WF_vars(LooksUp(t)) /\ WF_vars(Attaches(t) \/ Inserts(t))
    /\ \A b \in Leads : WF_vars(Judges(b)) /\ WF_vars(VerdictCommits(b))

-----------------------------------------------------------------------------
(***************************************************************************)
(* Properties.                                                             *)
(***************************************************************************)

\* Two businesses never share a place, a phone or a domain, and within one city
\* namesakes are never close to each other, however many normalizations overlap:
\* the advisory locks make the lookups of one see what the other inserted.  The
\* coordinates of namesakes may differ by more than the metre a spot is locked at;
\* it is the lock on the id made of city and name that keeps them apart
\* (normalizationService.ts:34, 40, 116-146).
OnePlaceOneBusiness ==
    \A a, b \in Known : a # b =>
        /\ \A id \in Identity[card[a]] : id[1] # "spot" => id \notin Identity[card[b]]
        /\ Name[card[a]] = Name[card[b]] /\ City[home[a]] = City[home[b]]
               => <<card[a], card[b]>> \notin Near

\* A search that is done has handed over every row within the campaign's limit,
\* although its handler may have died half way and run again over another scrape,
\* and rows of one place share a key (discovery.ts:313-321).
AllHandedOver ==
    \A c \in Searches : search[c] = "done" =>
        \A i \in DOMAIN scrape[c] : i <= Target =>
            \E j \in Candidates : SameKey(j, scrape[c][i]) /\ norm[<<c, j>>] # "none"

\* A discovered lead is always on somebody's list: its qualification is queued or
\* running, failed or was cancelled with its shelving, never over and never missing.
\* A duplicate that is not queued again because a run is active relies on that run
\* (normalizationService.ts:156, 205-217; fastQualify.ts:187-202).
NoLeadForgotten ==
    \A b \in Known : status[b] = "discovered" =>
        \/ qual[b].state \in Active \cup {"failed", "cancelled"}
        \/ late[b] # {}

\* A lead is judged once, by handlers that overlap after an archive and its undoing
\* as much as by one that is run again after its commit (fastQualify.ts:187-202).
JudgedOnce == \A b \in Known : rows[b] <= 1

\* Data collection begins only for a business whose own campaign has at some time
\* let it, or for one whose data the operator asked for: finding it again in another
\* campaign opens nothing (fastQualify.ts:208-210, autoAdvance.ts:38-61).
OnlyIfLetThrough ==
    \A b \in Known : enrich[b] # "none" => home[b] \in opened \/ b \in asked

\* What the operator archived by itself stays archived when its campaign is archived
\* and comes back (archiveService.ts:368-407).
ShelvedByHandStays == \A b \in shelf : archivedAt[b] # 0

\* A verdict that was in hand when the operator forbade contact, or when another
\* handler rejected the lead, does not bring the lead back
\* (fastQualify.ts:179-201).
OutStaysOut ==
    [][\A b \in Known : status[b] \in {"do_not_contact", "rejected"} =>
           status'[b] \in {status[b], "do_not_contact"}]_vars

\* With workers that poll and handlers that end, and once operators and faults are
\* quiet, searches are over, every row handed over is evidence of a business unless
\* its job failed, and every lead has its verdict unless its job failed or was
\* cancelled with its shelving.
LeadsSettle ==
    <>[](/\ \A c \in Searches : search[c] \notin Active
         /\ \A t \in Tasks : norm[t] # "none" =>
                norm[t] = "failed" \/ \E b \in Known : t[2] \in sources[b]
         /\ \A b \in Known :
                status[b] = "discovered" => qual[b].state \in {"failed", "cancelled"})
=============================================================================
