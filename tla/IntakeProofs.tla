----------------------------- MODULE IntakeProofs -----------------------------
(***************************************************************************)
(* What the intake guarantees for any campaigns, candidates, businesses,   *)
(* faults, commands and shelvings, checked by TLAPS.  The invariants speak *)
(* of different parts of the state: TInv is their common base, and each of *)
(* the others is inductive beside it.                                      *)
(***************************************************************************)
EXTENDS Intake, TLAPS

CampaignType ==
    /\ mode \in [Campaigns -> {"none", "running", "paused"}]
    /\ stage \in [Campaigns -> AutoStages]
    /\ shelvedAt \in [Campaigns -> Nat]
    /\ opened \subseteq Campaigns

SearchType ==
    /\ search \in [Campaigns -> JobStatus]
    /\ scrape \in [Campaigns -> Scrapes \cup {<< >>}]
    /\ next \in [Campaigns -> Nat]

NormType ==
    /\ norm \in [Tasks -> JobStatus]
    /\ look \in [Tasks -> [lead : Leads \cup {NoLead}, again : BOOLEAN] \cup {NoLook}]

LeadType ==
    /\ card \in [Leads -> Candidates \cup {NoCandidate}]
    /\ home \in [Leads -> Campaigns]
    /\ status \in [Leads -> Statuses]
    /\ sources \in [Leads -> SUBSET Candidates]

ShelfType ==
    /\ archivedAt \in [Leads -> Nat]
    /\ shelf \subseteq Leads
    /\ clock \in Nat

JudgeType ==
    /\ qual \in [Leads -> [state : JobStatus, chosen : BOOLEAN, campaign : Campaigns]]
    /\ verdict \in [Leads -> Verdicts \cup {"none"}]
    /\ late \in [Leads -> SUBSET Verdicts]
    /\ rows \in [Leads -> Nat]
    /\ enrich \in [Leads -> JobStatus]
    /\ asked \subseteq Leads

BoundsType == faults \in Nat /\ commands \in Nat

\* Nothing has happened to an id no business has yet.
UnknownIdle ==
    \A b \in Leads \ Known :
        /\ status[b] = "discovered"
        /\ qual[b].state = "none"
        /\ verdict[b] = "none"
        /\ late[b] = {}
        /\ rows[b] = 0
        /\ enrich[b] = "none"
        /\ b \notin shelf

\* What an open transaction has found is a business.
FoundIsKnown ==
    \A t \in InTransaction : look[t].lead # NoLead => look[t].lead \in Known

TInv ==
    /\ CampaignType
    /\ SearchType
    /\ NormType
    /\ LeadType
    /\ ShelfType
    /\ JudgeType
    /\ BoundsType
    /\ UnknownIdle
    /\ FoundIsKnown

LEMMA TypeParts ==
    TypeOK <=> CampaignType /\ SearchType /\ NormType /\ LeadType /\ ShelfType
               /\ JudgeType /\ BoundsType
BY DEF TypeOK, CampaignType, SearchType, NormType, LeadType, ShelfType, JudgeType, BoundsType

LEMMA InitTInv == Init => TInv
<1> SUFFICES ASSUME Init PROVE TInv
  OBVIOUS
<1>1. CampaignType
  BY IntakeConstants DEF Init, CampaignType
<1>2. SearchType
  BY DEF Init, SearchType, JobStatus
<1>3. NormType
  BY DEF Init, NormType, JobStatus
<1>4. LeadType
  BY DEF Init, LeadType, Statuses, Campaigns
<1>5. ShelfType /\ BoundsType
  BY DEF Init, ShelfType, BoundsType
<1>6. JudgeType
  BY DEF Init, JudgeType, JobStatus, Campaigns
<1>7. UnknownIdle
  BY DEF Init, UnknownIdle
<1>8. FoundIsKnown
  BY DEF Init, FoundIsKnown, InTransaction
<1> QED
  BY <1>1, <1>2, <1>3, <1>4, <1>5, <1>6, <1>7, <1>8 DEF TInv

-----------------------------------------------------------------------------
(***************************************************************************)
(* Every action keeps the base.                                            *)
(***************************************************************************)

\* A part of the state that a step leaves alone keeps its type.
LEMMA Kept ==
    /\ CampaignType /\ UNCHANGED campaigns => CampaignType'
    /\ SearchType /\ UNCHANGED searching => SearchType'
    /\ NormType /\ UNCHANGED normalizing => NormType'
    /\ LeadType /\ UNCHANGED <<business, status>> => LeadType'
    /\ ShelfType /\ UNCHANGED shelves => ShelfType'
    /\ JudgeType /\ UNCHANGED <<judging, enrich, asked>> => JudgeType'
    /\ BoundsType /\ UNCHANGED <<faults, commands>> => BoundsType'
    /\ UnknownIdle /\ UNCHANGED <<card, status, judging, enrich, shelf>> => UnknownIdle'
    /\ FoundIsKnown /\ UNCHANGED <<look, card>> => FoundIsKnown'
<1>1. CampaignType /\ UNCHANGED campaigns => CampaignType'
  BY DEF CampaignType, campaigns
<1>2. SearchType /\ UNCHANGED searching => SearchType'
  BY DEF SearchType, searching
<1>3. NormType /\ UNCHANGED normalizing => NormType'
  BY DEF NormType, normalizing
<1>4. LeadType /\ UNCHANGED <<business, status>> => LeadType'
  BY DEF LeadType, business
<1>5. ShelfType /\ UNCHANGED shelves => ShelfType'
  BY DEF ShelfType, shelves
<1>6. JudgeType /\ UNCHANGED <<judging, enrich, asked>> => JudgeType'
  BY DEF JudgeType, judging
<1>7. BoundsType /\ UNCHANGED <<faults, commands>> => BoundsType'
  BY DEF BoundsType
<1>8. UnknownIdle /\ UNCHANGED <<card, status, judging, enrich, shelf>> => UnknownIdle'
  BY DEF UnknownIdle, Known, judging
<1>9. FoundIsKnown /\ UNCHANGED <<look, card>> => FoundIsKnown'
  BY DEF FoundIsKnown, InTransaction, Known
<1> QED
  BY <1>1, <1>2, <1>3, <1>4, <1>5, <1>6, <1>7, <1>8, <1>9

LEMMA CountersTyped ==
    /\ BoundsType /\ Command /\ UNCHANGED faults => BoundsType'
    /\ BoundsType /\ Fault /\ UNCHANGED commands => BoundsType'
BY IntakeConstants DEF BoundsType, Command, Fault

LEMMA CreateTInv ==
    ASSUME TInv, NEW c \in Searches, NEW s \in AutoStages, Create(c, s) PROVE TInv'
<1>1. CampaignType'
  <2>1. mode' \in [Campaigns -> {"none", "running", "paused"}]
    BY DEF TInv, CampaignType, Create
  <2>2. stage' \in [Campaigns -> AutoStages]
    BY DEF TInv, CampaignType, Create
  <2>3. shelvedAt' \in [Campaigns -> Nat] /\ opened' \subseteq Campaigns
    BY DEF TInv, CampaignType, Create, Opened
  <2> QED
    BY <2>1, <2>2, <2>3 DEF CampaignType
<1>2. SearchType'
  BY DEF TInv, SearchType, Create, JobStatus
<1>3. UNCHANGED <<normalizing, business, status, shelves, judging, enrich, asked, faults, commands>>
  BY DEF Create
<1> QED
  BY <1>1, <1>2, <1>3, Kept DEF TInv, normalizing, business, shelves

LEMMA TurnTInv ==
    ASSUME TInv, NEW c \in Campaigns, NEW m \in {"running", "paused"}, NEW s \in AutoStages,
           Turn(c, m, s)
    PROVE  TInv'
<1>1. CampaignType'
  <2>1. mode' \in [Campaigns -> {"none", "running", "paused"}]
    BY DEF TInv, CampaignType, Turn
  <2>2. stage' \in [Campaigns -> AutoStages]
    BY DEF TInv, CampaignType, Turn
  <2>3. shelvedAt' \in [Campaigns -> Nat] /\ opened' \subseteq Campaigns
    BY DEF TInv, CampaignType, Turn, Opened
  <2> QED
    BY <2>1, <2>2, <2>3 DEF CampaignType
<1>2. BoundsType'
  BY CountersTyped DEF TInv, Turn
<1>3. UNCHANGED <<searching, normalizing, business, status, shelves, judging, enrich, asked>>
  BY DEF Turn
<1> QED
  BY <1>1, <1>2, <1>3, Kept DEF TInv, normalizing, business, shelves

LEMMA AddByLinkTInv ==
    ASSUME TInv, NEW k \in Links, AddByLink(k) PROVE TInv'
<1>1. CampaignType'
  BY DEF TInv, CampaignType, AddByLink, Campaigns
<1>2. NormType'
  BY DEF TInv, NormType, AddByLink, JobStatus
<1>3. BoundsType'
  BY CountersTyped DEF TInv, AddByLink
<1>4. UNCHANGED <<searching, look, business, status, shelves, judging, enrich, asked>>
  BY DEF AddByLink
<1> QED
  BY <1>1, <1>2, <1>3, <1>4, Kept DEF TInv, business, shelves

LEMMA SearchReadsTInv ==
    ASSUME TInv, NEW c \in Searches, SearchReads(c) PROVE TInv'
<1>1. SearchType'
  BY DEF TInv, SearchType, SearchReads, JobStatus
<1>2. UNCHANGED <<campaigns, normalizing, business, status, shelves, judging, enrich, asked, faults,
                  commands>>
  BY DEF SearchReads
<1> QED
  BY <1>1, <1>2, Kept DEF TInv, normalizing, business, shelves

LEMMA HandOverTInv ==
    ASSUME TInv, NEW c \in Searches, HandOver(c) PROVE TInv'
<1>1. next[c] \in DOMAIN scrape[c] /\ scrape[c] \in Seq(Candidates) /\ c \in Campaigns
  BY IntakeConstants DEF TInv, SearchType, HandOver, Limited, Campaigns
<1>2. scrape[c][next[c]] \in Candidates
  BY <1>1
<1>3. SearchType'
  BY <1>1 DEF TInv, SearchType, HandOver
<1>4. norm' \in [Tasks -> JobStatus]
  BY <1>1, <1>2 DEF TInv, NormType, HandOver, JobStatus, Tasks
<1>5. NormType'
  BY <1>4 DEF TInv, NormType, HandOver
<1>6. UNCHANGED <<campaigns, look, business, status, shelves, judging, enrich, asked, faults,
                  commands>>
  BY DEF HandOver
<1> QED
  BY <1>3, <1>5, <1>6, Kept DEF TInv, business, shelves

LEMMA SearchEndsTInv ==
    ASSUME TInv, NEW c \in Searches, SearchEnds(c) PROVE TInv'
<1>1. SearchType'
  BY DEF TInv, SearchType, SearchEnds, JobStatus
<1>2. UNCHANGED <<campaigns, normalizing, business, status, shelves, judging, enrich, asked, faults,
                  commands>>
  BY DEF SearchEnds
<1> QED
  BY <1>1, <1>2, Kept DEF TInv, normalizing, business, shelves

LEMMA SearchThrowsTInv ==
    ASSUME TInv, NEW c \in Searches, SearchThrows(c) PROVE TInv'
<1>1. SearchType'
  BY DEF TInv, SearchType, SearchThrows, JobStatus
<1>2. UNCHANGED <<campaigns, normalizing, business, status, shelves, judging, enrich, asked, commands>>
  BY DEF SearchThrows
<1>3. BoundsType'
  BY CountersTyped DEF TInv, SearchThrows
<1> QED
  BY <1>1, <1>2, <1>3, Kept DEF TInv, normalizing, business, shelves

\* What a lookup finds is a business.
LEMMA MatchesKnown ==
    ASSUME NEW k PROVE Matches(k) \subseteq Known
BY DEF Matches, By, Namesakes

LEMMA LooksUpTInv ==
    ASSUME TInv, NEW t \in Tasks, LooksUp(t) PROVE TInv'
<1>1. Matches(t[2]) \subseteq Known /\ Known \subseteq Leads
  BY MatchesKnown DEF Known
<1>2. PICK f \in [lead : Leads \cup {NoLead}, again : BOOLEAN] :
         /\ look' = [look EXCEPT ![t] = f]
         /\ f.lead # NoLead => f.lead \in Known
  <2>1. CASE Matches(t[2]) = {}
    <3> DEFINE f == [lead |-> NoLead, again |-> FALSE]
    <3>1. look' = [look EXCEPT ![t] = f]
      BY <2>1 DEF LooksUp
    <3>2. f \in [lead : Leads \cup {NoLead}, again : BOOLEAN] /\ f.lead = NoLead
      OBVIOUS
    <3> QED
      BY <3>1, <3>2
  <2>2. CASE Matches(t[2]) # {}
    <3>1. PICK b \in Matches(t[2]) : look' = [look EXCEPT ![t] = Read(b)]
      BY <2>2 DEF LooksUp
    <3>2. Read(b) \in [lead : Leads \cup {NoLead}, again : BOOLEAN] /\ Read(b).lead = b
      BY <1>1, <3>1 DEF Read
    <3> QED
      BY <1>1, <3>1, <3>2
  <2> QED
    BY <2>1, <2>2
<1>3. NormType'
  BY <1>2 DEF TInv, NormType, LooksUp, JobStatus
<1>4. UNCHANGED <<campaigns, searching, business, status, shelves, judging, enrich, asked, faults,
                  commands>>
  BY DEF LooksUp
<1>5. FoundIsKnown'
  <2>1. Known' = Known
    BY <1>4 DEF Known, business
  <2> SUFFICES ASSUME NEW u \in Tasks, look'[u] # NoLook, look'[u].lead # NoLead
               PROVE  look'[u].lead \in Known
    BY <2>1 DEF FoundIsKnown, InTransaction
  <2>2. look'[u] = IF u = t THEN f ELSE look[u]
    BY <1>2 DEF TInv, NormType
  <2> QED
    BY <1>2, <2>2 DEF TInv, FoundIsKnown, InTransaction
<1> QED
  BY <1>3, <1>4, <1>5, Kept DEF TInv, business, shelves

\* A job of qualification is of its business and leaves the others alone.
LEMMA QualifyingTyped ==
    ASSUME JudgeType, NEW b \in Leads, NEW c \in Campaigns
    PROVE  /\ Qualifying(b, c) \in [Leads -> [state : JobStatus, chosen : BOOLEAN, campaign : Campaigns]]
           /\ \A a \in Leads \ {b} : Qualifying(b, c)[a] = qual[a]
BY DEF JudgeType, Qualifying, JobStatus

LEMMA AttachesTInv ==
    ASSUME TInv, NEW t \in Tasks, Attaches(t) PROVE TInv'
<1> DEFINE b == look[t].lead
<1>1. b \in Known /\ b \in Leads /\ t[1] \in Campaigns /\ t[2] \in Candidates
  BY DEF TInv, FoundIsKnown, InTransaction, Known, Attaches, Tasks
<1>2. NormType'
  BY DEF TInv, NormType, Attaches, Closes, JobStatus
<1>3. LeadType'
  BY <1>1 DEF TInv, LeadType, Attaches
<1>4. /\ qual' \in [Leads -> [state : JobStatus, chosen : BOOLEAN, campaign : Campaigns]]
      /\ \A a \in Leads \ {b} : qual'[a] = qual[a]
  <2>1. qual' = Qualifying(b, t[1]) \/ qual' = qual
    BY DEF Attaches
  <2> QED
    BY <1>1, <2>1, QualifyingTyped DEF TInv, JudgeType
<1>5. JudgeType'
  BY <1>4 DEF TInv, JudgeType, Attaches
<1>6. UnknownIdle'
  BY <1>1, <1>4 DEF TInv, UnknownIdle, Known, Attaches, shelves
<1>7. FoundIsKnown'
  BY DEF TInv, NormType, FoundIsKnown, InTransaction, Known, Attaches, Closes
<1>8. UNCHANGED <<campaigns, searching, shelves, faults, commands>>
  BY DEF Attaches
<1> QED
  BY <1>2, <1>3, <1>5, <1>6, <1>7, <1>8, Kept DEF TInv

\* The id a new business takes, and what that changes.
LEMMA InsertsChange ==
    ASSUME TInv, NEW t \in Tasks, Inserts(t)
    PROVE  \E b \in Leads \ Known :
              /\ look[t] # NoLook /\ look[t].lead = NoLead
              /\ card' = [card EXCEPT ![b] = t[2]]
              /\ home' = [home EXCEPT ![b] = t[1]]
              /\ sources' = [sources EXCEPT ![b] = {t[2]}]
              /\ qual' = Qualifying(b, t[1])
              /\ Known' = Known \cup {b}
              /\ t[1] \in Campaigns /\ t[2] \in Candidates
<1>1. t[1] \in Campaigns /\ t[2] \in Candidates
  BY DEF Tasks
<1>2. PICK b \in Leads \ Known :
         /\ look[t] # NoLook /\ look[t].lead = NoLead
         /\ card' = [card EXCEPT ![b] = t[2]]
         /\ home' = [home EXCEPT ![b] = t[1]]
         /\ sources' = [sources EXCEPT ![b] = {t[2]}]
         /\ qual' = Qualifying(b, t[1])
  BY DEF Inserts, StartsQualifying
<1>3. Known' = Known \cup {b}
  BY <1>1, <1>2, IntakeConstants DEF TInv, LeadType, Known
<1> QED
  BY <1>1, <1>2, <1>3

LEMMA InsertsTInv ==
    ASSUME TInv, NEW t \in Tasks, Inserts(t) PROVE TInv'
<1>1. PICK b \in Leads \ Known :
         /\ card' = [card EXCEPT ![b] = t[2]]
         /\ home' = [home EXCEPT ![b] = t[1]]
         /\ sources' = [sources EXCEPT ![b] = {t[2]}]
         /\ qual' = Qualifying(b, t[1])
         /\ Known' = Known \cup {b}
         /\ t[1] \in Campaigns /\ t[2] \in Candidates
  BY InsertsChange
<1>2. NormType'
  BY DEF TInv, NormType, Inserts, Closes, JobStatus
<1>3. LeadType'
  BY <1>1 DEF TInv, LeadType, Inserts
<1>4. /\ qual' \in [Leads -> [state : JobStatus, chosen : BOOLEAN, campaign : Campaigns]]
      /\ \A a \in Leads \ {b} : qual'[a] = qual[a]
  BY <1>1, QualifyingTyped DEF TInv
<1>5. JudgeType'
  BY <1>4 DEF TInv, JudgeType, Inserts
<1>6. UnknownIdle'
  <2>1. UNCHANGED <<status, verdict, late, rows, enrich, shelf>>
    BY DEF Inserts, shelves
  <2> QED
    BY <1>1, <1>4, <2>1 DEF TInv, UnknownIdle
<1>7. FoundIsKnown'
  BY <1>1 DEF TInv, NormType, FoundIsKnown, InTransaction, Inserts, Closes
<1>8. UNCHANGED <<campaigns, searching, shelves, faults, commands>>
  BY DEF Inserts
<1> QED
  BY <1>2, <1>3, <1>5, <1>6, <1>7, <1>8, Kept DEF TInv

LEMMA NormalizeThrowsTInv ==
    ASSUME TInv, NEW t \in Tasks, NormalizeThrows(t) PROVE TInv'
<1>1. NormType'
  BY DEF TInv, NormType, NormalizeThrows, JobStatus
<1>2. BoundsType'
  BY CountersTyped DEF TInv, NormalizeThrows
<1>3. FoundIsKnown'
  BY DEF TInv, NormType, FoundIsKnown, InTransaction, Known, NormalizeThrows, business
<1>4. UNCHANGED <<campaigns, searching, business, status, shelves, judging, enrich, asked>>
  BY DEF NormalizeThrows
<1> QED
  BY <1>1, <1>2, <1>3, <1>4, Kept DEF TInv, business, shelves

\* What a verdict of a handler, in time or late, may do.
LEMMA GivesTyped ==
    ASSUME TInv, NEW b \in Leads, NEW v \in Verdicts, Gives(b, v)
    PROVE  /\ status' \in [Leads -> Statuses]
           /\ rows' \in [Leads -> Nat]
           /\ enrich' \in [Leads -> JobStatus]
           /\ \A a \in Leads \ {b} : status'[a] = status[a] /\ rows'[a] = rows[a] /\ enrich'[a] = enrich[a]
<1>1. v \in Statuses
  BY DEF Verdicts, Statuses
<1>2. status \in [Leads -> Statuses] /\ rows \in [Leads -> Nat] /\ enrich \in [Leads -> JobStatus]
  BY DEF TInv, LeadType, JudgeType
<1>3. CASE StillOpen(b)
  BY <1>1, <1>2, <1>3 DEF Gives, JobStatus
<1>4. CASE ~StillOpen(b)
  BY <1>2, <1>4 DEF Gives
<1> QED
  BY <1>3, <1>4

LEMMA JudgesTInv ==
    ASSUME TInv, NEW b \in Leads, Judges(b) PROVE TInv'
<1>1. b \in Known
  BY DEF TInv, UnknownIdle, Judges
<1>2. Decision(b) \in Verdicts
  BY <1>1, IntakeConstants DEF TInv, LeadType, Known, Decision, Verdicts
<1>3. qual' \in [Leads -> [state : JobStatus, chosen : BOOLEAN, campaign : Campaigns]]
      /\ \A a \in Leads \ {b} : qual'[a] = qual[a]
  BY DEF TInv, JudgeType, Judges, JobStatus
<1>4. verdict' \in [Leads -> Verdicts \cup {"none"}]
      /\ \A a \in Leads \ {b} : verdict'[a] = verdict[a]
  BY <1>2 DEF TInv, JudgeType, Judges
<1>5. JudgeType'
  BY <1>3, <1>4 DEF TInv, JudgeType, Judges
<1>6. UNCHANGED <<campaigns, searching, normalizing, business, status, shelves, late, rows, enrich,
                  faults, commands>>
  BY DEF Judges
<1>7. UnknownIdle'
  BY <1>1, <1>3, <1>4, <1>6 DEF TInv, UnknownIdle, Known, business, shelves
<1> QED
  BY <1>5, <1>6, <1>7, Kept DEF TInv, normalizing, business

LEMMA VerdictCommitsTInv ==
    ASSUME TInv, NEW b \in Leads, VerdictCommits(b) PROVE TInv'
<1>1. b \in Known /\ verdict[b] \in Verdicts
  BY DEF TInv, UnknownIdle, JudgeType, VerdictCommits
<1>2. /\ status' \in [Leads -> Statuses]
      /\ rows' \in [Leads -> Nat]
      /\ enrich' \in [Leads -> JobStatus]
      /\ \A a \in Leads \ {b} : status'[a] = status[a] /\ rows'[a] = rows[a] /\ enrich'[a] = enrich[a]
  BY <1>1, GivesTyped DEF VerdictCommits
<1>3. qual' \in [Leads -> [state : JobStatus, chosen : BOOLEAN, campaign : Campaigns]]
      /\ \A a \in Leads \ {b} : qual'[a] = qual[a]
  BY DEF TInv, JudgeType, VerdictCommits, JobStatus
<1>4. verdict' \in [Leads -> Verdicts \cup {"none"}]
      /\ \A a \in Leads \ {b} : verdict'[a] = verdict[a]
  BY DEF TInv, JudgeType, VerdictCommits
<1>5. UNCHANGED <<campaigns, searching, normalizing, business, shelves, late, asked, commands>>
  BY DEF VerdictCommits
<1>6. JudgeType' /\ LeadType'
  BY <1>2, <1>3, <1>4, <1>5 DEF TInv, JudgeType, LeadType, business
<1>7. UnknownIdle'
  BY <1>1, <1>2, <1>3, <1>4, <1>5 DEF TInv, UnknownIdle, Known, business, shelves
<1>8. BoundsType'
  BY IntakeConstants DEF TInv, BoundsType, VerdictCommits, Fault
<1> QED
  BY <1>5, <1>6, <1>7, <1>8, Kept DEF TInv, normalizing, business

LEMMA LateVerdictCommitsTInv ==
    ASSUME TInv, NEW b \in Leads, LateVerdictCommits(b) PROVE TInv'
<1>1. PICK v \in late[b] : Gives(b, v) /\ late' = [late EXCEPT ![b] = @ \ {v}]
  BY DEF LateVerdictCommits
<1>2. b \in Known /\ v \in Verdicts
  BY <1>1 DEF TInv, UnknownIdle, JudgeType
<1>3. /\ status' \in [Leads -> Statuses]
      /\ rows' \in [Leads -> Nat]
      /\ enrich' \in [Leads -> JobStatus]
      /\ \A a \in Leads \ {b} : status'[a] = status[a] /\ rows'[a] = rows[a] /\ enrich'[a] = enrich[a]
  BY <1>1, <1>2, GivesTyped
<1>4. late' \in [Leads -> SUBSET Verdicts] /\ \A a \in Leads \ {b} : late'[a] = late[a]
  BY <1>1 DEF TInv, JudgeType
<1>5. UNCHANGED <<campaigns, searching, normalizing, business, shelves, qual, verdict, asked, faults,
                  commands>>
  BY DEF LateVerdictCommits
<1>6. JudgeType' /\ LeadType'
  BY <1>3, <1>4, <1>5 DEF TInv, JudgeType, LeadType, business
<1>7. UnknownIdle'
  BY <1>2, <1>3, <1>4, <1>5 DEF TInv, UnknownIdle, Known, business, shelves
<1> QED
  BY <1>5, <1>6, <1>7, Kept DEF TInv, normalizing, business

LEMMA JudgeThrowsTInv ==
    ASSUME TInv, NEW b \in Leads, JudgeThrows(b) PROVE TInv'
<1>1. b \in Known
  BY DEF TInv, UnknownIdle, JudgeThrows
<1>2. qual' \in [Leads -> [state : JobStatus, chosen : BOOLEAN, campaign : Campaigns]]
      /\ \A a \in Leads \ {b} : qual'[a] = qual[a]
  BY DEF TInv, JudgeType, JudgeThrows, JobStatus
<1>3. verdict' \in [Leads -> Verdicts \cup {"none"}]
      /\ \A a \in Leads \ {b} : verdict'[a] = verdict[a]
  BY DEF TInv, JudgeType, JudgeThrows
<1>4. UNCHANGED <<campaigns, searching, normalizing, business, status, shelves, late, rows, enrich,
                  asked, commands>>
  BY DEF JudgeThrows
<1>5. JudgeType'
  BY <1>2, <1>3, <1>4 DEF TInv, JudgeType
<1>6. UnknownIdle'
  BY <1>1, <1>2, <1>3, <1>4 DEF TInv, UnknownIdle, Known, business, shelves
<1>7. BoundsType'
  BY CountersTyped DEF TInv, JudgeThrows
<1> QED
  BY <1>4, <1>5, <1>6, <1>7, Kept DEF TInv, normalizing, business

LEMMA CollectDataTInv ==
    ASSUME TInv, NEW b \in Leads, CollectData(b) PROVE TInv'
<1>1. b \in Known
  BY DEF TInv, UnknownIdle, CollectData
<1>2. JudgeType'
  BY DEF TInv, JudgeType, CollectData, JobStatus, judging
<1>3. UNCHANGED <<campaigns, searching, normalizing, business, status, shelves, judging>>
  BY DEF CollectData
<1>4. \A a \in Leads \ {b} : enrich'[a] = enrich[a]
  BY DEF TInv, JudgeType, CollectData
<1>5. UnknownIdle'
  BY <1>1, <1>3, <1>4 DEF TInv, UnknownIdle, Known, business, shelves, judging
<1>6. BoundsType'
  BY CountersTyped DEF TInv, CollectData
<1> QED
  BY <1>2, <1>3, <1>5, <1>6, Kept DEF TInv, normalizing, business

LEMMA MarkDoNotContactTInv ==
    ASSUME TInv, NEW b \in Leads, MarkDoNotContact(b) PROVE TInv'
<1>1. b \in Known
  BY DEF MarkDoNotContact
<1>2. LeadType'
  BY DEF TInv, LeadType, MarkDoNotContact, Statuses, business
<1>3. UNCHANGED <<campaigns, searching, normalizing, business, shelves, judging, enrich, asked>>
  BY DEF MarkDoNotContact
<1>4. \A a \in Leads \ {b} : status'[a] = status[a]
  BY DEF TInv, LeadType, MarkDoNotContact
<1>5. UnknownIdle'
  BY <1>1, <1>3, <1>4 DEF TInv, UnknownIdle, Known, business, shelves, judging
<1>6. BoundsType'
  BY CountersTyped DEF TInv, MarkDoNotContact
<1> QED
  BY <1>2, <1>3, <1>5, <1>6, Kept DEF TInv, normalizing, business

\* Shelving businesses cancels what is theirs and leaves the others alone.
LEMMA ShelvesTyped ==
    ASSUME TInv, NEW bs \in SUBSET Known, Shelves(bs),
           UNCHANGED <<business, status, rows, asked>>, shelf' \in SUBSET Known
    PROVE  JudgeType' /\ ShelfType' /\ UnknownIdle'
<1>1. Known \subseteq Leads /\ Known' = Known
  BY DEF Known, business
<1>2. qual' \in [Leads -> [state : JobStatus, chosen : BOOLEAN, campaign : Campaigns]]
  <2> SUFFICES ASSUME NEW b \in Leads
               PROVE  (IF b \in bs /\ qual[b].state \in Cancellable
                       THEN [qual[b] EXCEPT !.state = "cancelled"] ELSE qual[b])
                      \in [state : JobStatus, chosen : BOOLEAN, campaign : Campaigns]
    BY DEF Shelves
  <2> QED
    BY DEF TInv, JudgeType, JobStatus
<1>3. verdict' \in [Leads -> Verdicts \cup {"none"}] /\ enrich' \in [Leads -> JobStatus]
  BY DEF TInv, JudgeType, Shelves, JobStatus
<1>4. late' \in [Leads -> SUBSET Verdicts]
  <2> SUFFICES ASSUME NEW b \in Leads
               PROVE  (IF b \in bs THEN late[b] \cup ({verdict[b]} \ {"none"}) ELSE late[b])
                      \in SUBSET Verdicts
    BY DEF Shelves
  <2> QED
    BY DEF TInv, JudgeType
<1>5. JudgeType'
  BY <1>2, <1>3, <1>4 DEF TInv, JudgeType
<1>6. ShelfType'
  BY <1>1 DEF TInv, ShelfType, Shelves
<1>7. UnknownIdle'
  <2> SUFFICES ASSUME NEW b \in Leads \ Known
               PROVE  /\ status'[b] = "discovered" /\ qual'[b].state = "none" /\ verdict'[b] = "none"
                      /\ late'[b] = {} /\ rows'[b] = 0 /\ enrich'[b] = "none" /\ b \notin shelf'
    BY <1>1 DEF UnknownIdle
  <2>1. b \notin bs
    OBVIOUS
  <2> QED
    BY <2>1 DEF TInv, UnknownIdle, Shelves
<1> QED
  BY <1>5, <1>6, <1>7

LEMMA ArchiveTInv ==
    ASSUME TInv, NEW b \in Leads, Archive(b) PROVE TInv'
<1>1. shelf \subseteq Known /\ Known \subseteq Leads
  BY DEF TInv, UnknownIdle, ShelfType, Known
<1>2. {b} \in SUBSET Known /\ Shelves({b}) /\ shelf' \in SUBSET Known
  BY <1>1 DEF Archive
<1>3. UNCHANGED <<campaigns, searching, normalizing, business, status, rows, asked, faults, commands>>
  BY DEF Archive
<1>4. JudgeType' /\ ShelfType' /\ UnknownIdle'
  BY <1>2, <1>3, ShelvesTyped
<1> QED
  BY <1>3, <1>4, Kept DEF TInv, normalizing, business

LEMMA ArchiveCampaignTInv ==
    ASSUME TInv, NEW c \in Campaigns, ArchiveCampaign(c) PROVE TInv'
<1> DEFINE bs == {b \in Known : home[b] = c /\ archivedAt[b] = 0}
<1>1. shelf \subseteq Known
  BY DEF TInv, UnknownIdle, ShelfType, Known
<1>2. bs \in SUBSET Known /\ Shelves(bs) /\ shelf' \in SUBSET Known
  BY <1>1 DEF ArchiveCampaign
<1>3. UNCHANGED <<stage, opened, searching, normalizing, business, status, rows, asked, faults, commands>>
  BY DEF ArchiveCampaign
<1>4. JudgeType' /\ ShelfType' /\ UnknownIdle'
  BY <1>2, <1>3, ShelvesTyped
<1>5. CampaignType'
  BY <1>3 DEF TInv, CampaignType, ShelfType, ArchiveCampaign
<1> QED
  BY <1>3, <1>4, <1>5, Kept DEF TInv, normalizing, business

LEMMA UnarchiveTInv ==
    ASSUME TInv, NEW b \in Leads, Unarchive(b) PROVE TInv'
<1>1. ShelfType'
  BY DEF TInv, ShelfType, Unarchive
<1>2. UNCHANGED <<campaigns, searching, normalizing, business, status, judging, enrich, asked, faults,
                  commands>>
  BY DEF Unarchive
<1>3. UnknownIdle'
  BY <1>2 DEF TInv, UnknownIdle, Known, Unarchive, business, judging
<1> QED
  BY <1>1, <1>2, <1>3, Kept DEF TInv, normalizing, business

LEMMA UnarchiveCampaignTInv ==
    ASSUME TInv, NEW c \in Campaigns, UnarchiveCampaign(c) PROVE TInv'
<1>1. CampaignType'
  BY DEF TInv, CampaignType, UnarchiveCampaign
<1>2. ShelfType'
  BY DEF TInv, ShelfType, UnarchiveCampaign
<1>3. UNCHANGED <<searching, normalizing, business, status, shelf, judging, enrich, asked, faults,
                  commands>>
  BY DEF UnarchiveCampaign
<1> QED
  BY <1>1, <1>2, <1>3, Kept DEF TInv, normalizing, business

LEMMA TInvStep == TInv /\ [Next]_vars => TInv'
<1> SUFFICES ASSUME TInv, [Next]_vars PROVE TInv'
  OBVIOUS
<1>1. CASE \E c \in Searches, s \in AutoStages : Create(c, s)
  BY <1>1, CreateTInv
<1>2. CASE \E c \in Campaigns, m \in {"running", "paused"}, s \in AutoStages : Turn(c, m, s)
  BY <1>2, TurnTInv
<1>3. CASE \E k \in Links : AddByLink(k)
  BY <1>3, AddByLinkTInv
<1>4. CASE \E b \in Leads : CollectData(b) \/ MarkDoNotContact(b) \/ Archive(b) \/ Unarchive(b)
  BY <1>4, CollectDataTInv, MarkDoNotContactTInv, ArchiveTInv, UnarchiveTInv
<1>5. CASE \E c \in Campaigns : ArchiveCampaign(c) \/ UnarchiveCampaign(c)
  BY <1>5, ArchiveCampaignTInv, UnarchiveCampaignTInv
<1>6. CASE \E c \in Searches : SearchReads(c) \/ HandOver(c) \/ SearchEnds(c) \/ SearchThrows(c)
  BY <1>6, SearchReadsTInv, HandOverTInv, SearchEndsTInv, SearchThrowsTInv
<1>7. CASE \E t \in Tasks : LooksUp(t) \/ Attaches(t) \/ Inserts(t) \/ NormalizeThrows(t)
  BY <1>7, LooksUpTInv, AttachesTInv, InsertsTInv, NormalizeThrowsTInv
<1>8. CASE \E b \in Leads : Judges(b) \/ VerdictCommits(b) \/ LateVerdictCommits(b) \/ JudgeThrows(b)
  BY <1>8, JudgesTInv, VerdictCommitsTInv, LateVerdictCommitsTInv, JudgeThrowsTInv
<1>9. CASE UNCHANGED vars
  BY <1>9, Kept DEF TInv, vars, campaigns, searching, normalizing, business, shelves, judging
<1> QED
  BY <1>1, <1>2, <1>3, <1>4, <1>5, <1>6, <1>7, <1>8, <1>9 DEF Next, Operator

\* The base is an invariant: every id no business has is untouched, and what an
\* open transaction of normalize has found is a business.
THEOREM IntakeBase == Spec => []TInv
BY InitTInv, TInvStep, PTL DEF Spec

\* The variables keep the types of the tables they stand for.
THEOREM IntakeTypeCorrect == Spec => []TypeOK
<1>1. TInv => TypeOK
  BY TypeParts DEF TInv
<1> QED
  BY <1>1, IntakeBase, PTL

-----------------------------------------------------------------------------
(***************************************************************************)
(* Places: the advisory locks.                                             *)
(***************************************************************************)

\* Open transactions hold disjoint locks.
LocksApart == \A t, u \in InTransaction : t # u => Locks(t) \cap Locks(u) = {}

\* Businesses a and b, of candidates j and k in campaigns c and d, are two places.
TwoPlaces(j, c, k, d) ==
    /\ \A id \in Identity[j] : id[1] # "spot" => id \notin Identity[k]
    /\ Name[j] = Name[k] /\ City[c] = City[d] => <<j, k>> \notin Near

\* What a transaction did not find when it looked has not come since.
StillNew ==
    \A t \in InTransaction : look[t].lead = NoLead =>
        \A b \in Known : TwoPlaces(card[b], home[b], t[2], t[1])

PInv == LocksApart /\ StillNew /\ OnePlaceOneBusiness

LEMMA TwoPlacesSymmetric ==
    ASSUME NEW j \in Candidates, NEW k \in Candidates, NEW c, NEW d, TwoPlaces(j, c, k, d)
    PROVE  TwoPlaces(k, d, j, c)
BY IntakeConstants DEF TwoPlaces

\* Two candidates that are not two places share a lock.
LEMMA OnePlaceOneLock ==
    ASSUME NEW t \in Tasks, NEW u \in Tasks, Locks(t) \cap Locks(u) = {}
    PROVE  TwoPlaces(u[2], u[1], t[2], t[1])
<1>1. ASSUME NEW id \in Identity[u[2]], id[1] # "spot", id \in Identity[t[2]] PROVE FALSE
  <2>1. id \in Locks(u) /\ id \in Locks(t)
    BY <1>1 DEF Locks
  <2> QED
    BY <2>1
<1>2. ASSUME Name[u[2]] = Name[t[2]], City[u[1]] = City[t[1]] PROVE FALSE
  <2>1. <<"name", Name[t[2]], City[t[1]]>> \in Locks(t)
    BY DEF Locks
  <2>2. <<"name", Name[t[2]], City[t[1]]>> \in Locks(u)
    BY <1>2 DEF Locks
  <2> QED
    BY <2>1, <2>2
<1> QED
  BY <1>1, <1>2 DEF TwoPlaces

\* A candidate for which the lookups find nothing is a place of its own.
LEMMA NoMatchNewPlace ==
    ASSUME TInv, NEW t \in Tasks, Matches(t[2]) = {}, NEW b \in Known
    PROVE  TwoPlaces(card[b], home[b], t[2], t[1])
<1> DEFINE k == t[2]
<1>0. k \in Candidates /\ card[b] \in Candidates
  BY DEF Tasks, TInv, LeadType, Known
<1>1. By("place", k) = {} /\ By("phone", k) = {} /\ By("domain", k) = {} /\ Namesakes(k) = {}
  BY DEF Matches
<1>2. ASSUME NEW id \in Identity[card[b]], id[1] # "spot", id \in Identity[k] PROVE FALSE
  <2>1. id[1] \in {"place", "phone", "domain"}
    BY <1>0, <1>2, IntakeConstants DEF Kinds
  <2> QED
    BY <1>1, <1>2, <2>1 DEF By
<1>3. Name[card[b]] = Name[k] => <<card[b], k>> \notin Near
  BY <1>1 DEF Namesakes
<1> QED
  BY <1>2, <1>3 DEF TwoPlaces

LEMMA PlacesKept ==
    ASSUME PInv, UNCHANGED <<look, card, home>> PROVE PInv'
<1>1. UNCHANGED <<InTransaction, Known>>
  BY DEF InTransaction, Known
<1>2. LocksApart'
  BY <1>1 DEF PInv, LocksApart, Locks
<1>3. StillNew'
  BY <1>1 DEF PInv, StillNew, TwoPlaces
<1>4. OnePlaceOneBusiness'
  BY <1>1 DEF PInv, OnePlaceOneBusiness
<1> QED
  BY <1>2, <1>3, <1>4 DEF PInv

\* A transaction that ends without a business.
LEMMA PlacesClose ==
    ASSUME TInv, PInv, NEW t \in Tasks, look' = [look EXCEPT ![t] = NoLook],
           UNCHANGED <<card, home>>
    PROVE  PInv'
<1>1. InTransaction' = InTransaction \ {t} /\ UNCHANGED Known
  BY DEF InTransaction, Known, TInv, NormType
<1>2. \A u \in InTransaction' : look'[u] = look[u]
  BY <1>1 DEF TInv, NormType, InTransaction
<1>3. LocksApart'
  BY <1>1 DEF PInv, LocksApart, Locks
<1>4. StillNew'
  BY <1>1, <1>2 DEF PInv, StillNew, TwoPlaces
<1>5. OnePlaceOneBusiness'
  BY <1>1 DEF PInv, OnePlaceOneBusiness
<1> QED
  BY <1>3, <1>4, <1>5 DEF PInv

LEMMA PlacesLooksUp ==
    ASSUME TInv, PInv, NEW t \in Tasks, LooksUp(t) PROVE PInv'
<1>1. UNCHANGED <<card, home>> /\ UNCHANGED Known
  BY DEF LooksUp, business, Known
<1>2. /\ \A u \in Tasks \ {t} : look'[u] = look[u]
      /\ look'[t] \in [lead : Leads \cup {NoLead}, again : BOOLEAN]
      /\ look'[t].lead = NoLead => Matches(t[2]) = {}
  <2>1. CASE Matches(t[2]) = {}
    <3> DEFINE f == [lead |-> NoLead, again |-> FALSE]
    <3>1. look' = [look EXCEPT ![t] = f]
      BY <2>1 DEF LooksUp
    <3>2. f \in [lead : Leads \cup {NoLead}, again : BOOLEAN] /\ f.lead = NoLead
      OBVIOUS
    <3>3. look'[t] = f /\ \A u \in Tasks \ {t} : look'[u] = look[u]
      BY <3>1 DEF TInv, NormType
    <3> QED
      BY <2>1, <3>2, <3>3
  <2>2. CASE Matches(t[2]) # {}
    <3>1. PICK b \in Matches(t[2]) : look' = [look EXCEPT ![t] = Read(b)]
      BY <2>2 DEF LooksUp
    <3>2. b \in Leads /\ b # NoLead
      BY <3>1, MatchesKnown, IntakeConstants DEF Known, NoLead
    <3>3. Read(b) \in [lead : Leads \cup {NoLead}, again : BOOLEAN] /\ Read(b).lead = b
      BY <3>2 DEF Read
    <3> QED
      BY <3>1, <3>2, <3>3 DEF TInv, NormType
  <2> QED
    BY <2>1, <2>2
<1>3. InTransaction' = InTransaction \cup {t}
  BY <1>2, IntakeConstants DEF InTransaction, NoLead
<1>4. LocksApart'
  BY <1>3 DEF PInv, LocksApart, LooksUp, Locks
<1>5. StillNew'
  <2> SUFFICES ASSUME NEW u \in InTransaction', look'[u].lead = NoLead, NEW b \in Known
               PROVE  TwoPlaces(card[b], home[b], u[2], u[1])
    BY <1>1 DEF StillNew, TwoPlaces
  <2>1. CASE u = t
    BY <1>2, <2>1, NoMatchNewPlace
  <2>2. CASE u # t
    BY <1>2, <1>3, <2>2 DEF PInv, StillNew, InTransaction
  <2> QED
    BY <2>1, <2>2
<1>6. OnePlaceOneBusiness'
  BY <1>1 DEF PInv, OnePlaceOneBusiness
<1> QED
  BY <1>4, <1>5, <1>6 DEF PInv

LEMMA PlacesInserts ==
    ASSUME TInv, PInv, NEW t \in Tasks, Inserts(t) PROVE PInv'
<1>1. PICK b \in Leads \ Known :
         /\ look[t] # NoLook /\ look[t].lead = NoLead
         /\ card' = [card EXCEPT ![b] = t[2]]
         /\ home' = [home EXCEPT ![b] = t[1]]
         /\ Known' = Known \cup {b}
         /\ t[1] \in Campaigns /\ t[2] \in Candidates
  BY InsertsChange
<1>2. look' = [look EXCEPT ![t] = NoLook]
  BY DEF Inserts, Closes
<1>3. /\ InTransaction' = InTransaction \ {t}
      /\ t \in InTransaction
      /\ \A u \in InTransaction' : look'[u] = look[u]
  BY <1>1, <1>2 DEF InTransaction, TInv, NormType
<1>4. /\ card'[b] = t[2] /\ home'[b] = t[1]
      /\ \A a \in Known : card'[a] = card[a] /\ home'[a] = home[a] /\ card[a] \in Candidates
  BY <1>1 DEF TInv, LeadType, Known
<1>5. LocksApart'
  BY <1>3 DEF PInv, LocksApart, Locks
<1>6. StillNew'
  <2> SUFFICES ASSUME NEW u \in InTransaction', look[u].lead = NoLead, NEW a \in Known'
               PROVE  TwoPlaces(card'[a], home'[a], u[2], u[1])
    BY <1>3 DEF StillNew, TwoPlaces
  <2>1. CASE a \in Known
    BY <1>3, <1>4, <2>1 DEF PInv, StillNew
  <2>2. CASE a = b
    <3>1. t \in Tasks /\ u \in Tasks /\ t # u /\ Locks(u) \cap Locks(t) = {}
      BY <1>3 DEF PInv, LocksApart, InTransaction
    <3> QED
      BY <1>4, <2>2, <3>1, OnePlaceOneLock
  <2> QED
    BY <1>1, <2>1, <2>2
<1>7. OnePlaceOneBusiness'
  <2>1. \A a \in Known : TwoPlaces(card[a], home[a], t[2], t[1])
    BY <1>1, <1>3 DEF PInv, StillNew
  <2>2. \A a \in Known : TwoPlaces(t[2], t[1], card[a], home[a])
    BY <1>1, <1>4, <2>1, TwoPlacesSymmetric
  <2>3. \A a, d \in Known : a # d => TwoPlaces(card[a], home[a], card[d], home[d])
    BY DEF PInv, OnePlaceOneBusiness, TwoPlaces
  <2>4. \A a, d \in Known' : a # d => TwoPlaces(card'[a], home'[a], card'[d], home'[d])
    BY <1>1, <1>4, <2>1, <2>2, <2>3
  <2> QED
    BY <2>4 DEF OnePlaceOneBusiness, TwoPlaces
<1> QED
  BY <1>5, <1>6, <1>7 DEF PInv

LEMMA PlacesStep == TInv /\ PInv /\ [Next]_vars => PInv'
<1> SUFFICES ASSUME TInv, PInv, [Next]_vars PROVE PInv'
  OBVIOUS
<1>1. CASE \E t \in Tasks : LooksUp(t)
  BY <1>1, PlacesLooksUp
<1>2. CASE \E t \in Tasks : Attaches(t) \/ NormalizeThrows(t)
  BY <1>2, PlacesClose DEF Attaches, Closes, NormalizeThrows, business
<1>3. CASE \E t \in Tasks : Inserts(t)
  BY <1>3, PlacesInserts
<1>4. CASE Operator
  <2>1. UNCHANGED <<look, card, home>>
    BY <1>4 DEF Operator, Create, Turn, AddByLink, CollectData, MarkDoNotContact, Archive, Unarchive,
                ArchiveCampaign, UnarchiveCampaign, normalizing, business
  <2> QED
    BY <2>1, PlacesKept
<1>5. CASE \E c \in Searches : SearchReads(c) \/ HandOver(c) \/ SearchEnds(c) \/ SearchThrows(c)
  BY <1>5, PlacesKept DEF SearchReads, HandOver, SearchEnds, SearchThrows, normalizing, business
<1>6. CASE \E b \in Leads : Judges(b) \/ VerdictCommits(b) \/ LateVerdictCommits(b) \/ JudgeThrows(b)
  BY <1>6, PlacesKept DEF Judges, VerdictCommits, LateVerdictCommits, JudgeThrows, normalizing, business
<1>7. CASE UNCHANGED vars
  BY <1>7, PlacesKept DEF vars, normalizing, business
<1> QED
  BY <1>1, <1>2, <1>3, <1>4, <1>5, <1>6, <1>7 DEF Next

LEMMA InitPInv == Init => PInv
<1> SUFFICES ASSUME Init PROVE PInv
  OBVIOUS
<1>1. InTransaction = {} /\ Known = {}
  BY DEF Init, InTransaction, Known
<1> QED
  BY <1>1 DEF PInv, LocksApart, StillNew, OnePlaceOneBusiness

\* However many normalizations overlap, no two businesses share a place, a phone
\* or a domain, and namesakes of one city are not near each other.
THEOREM PlacesStayOne == Spec => []OnePlaceOneBusiness
<1>1. Spec => [](TInv /\ PInv)
  BY InitTInv, InitPInv, TInvStep, PlacesStep, PTL DEF Spec
<1>2. TInv /\ PInv => OnePlaceOneBusiness
  BY DEF PInv
<1> QED
  BY <1>1, <1>2, PTL

-----------------------------------------------------------------------------
(***************************************************************************)
(* The rows of a search.                                                   *)
(***************************************************************************)

\* The row i of the scrape in hand has a normalize job of its key.
Delivered(c, i) ==
    \E j \in Candidates : SameKey(j, scrape[c][i]) /\ norm[<<c, j>>] # "none"

\* A search hands its rows over from the first on, and leaves none out.
RowsInOrder ==
    \A c \in Searches :
        /\ next[c] >= 1
        /\ search[c] = "running" => \A i \in Limited(c) : i < next[c] => Delivered(c, i)
        /\ search[c] = "done" => \A i \in Limited(c) : Delivered(c, i)

\* A normalize job may end, but its row does not disappear.
LEMMA NormKeeps ==
    ASSUME TInv, [Next]_vars, NEW t \in Tasks, norm[t] # "none" PROVE norm'[t] # "none"
<1> USE DEF TInv, NormType
<1>1. CASE \E k \in Links : AddByLink(k)
  BY <1>1 DEF AddByLink
<1>2. CASE \E c \in Searches : HandOver(c)
  BY <1>2 DEF HandOver
<1>3. CASE \E u \in Tasks : LooksUp(u) \/ Attaches(u) \/ Inserts(u) \/ NormalizeThrows(u)
  BY <1>3 DEF LooksUp, Attaches, Inserts, Closes, NormalizeThrows
<1>4. CASE UNCHANGED norm
  BY <1>4
<1>5. CASE Operator /\ ~ \E k \in Links : AddByLink(k)
  <2>1. UNCHANGED norm
    BY <1>5 DEF Operator, Create, Turn, CollectData, MarkDoNotContact, Archive, Unarchive,
                ArchiveCampaign, UnarchiveCampaign, normalizing
  <2> QED
    BY <2>1
<1>6. CASE \E c \in Searches : SearchReads(c) \/ SearchEnds(c) \/ SearchThrows(c)
  BY <1>6 DEF SearchReads, SearchEnds, SearchThrows, normalizing
<1>7. CASE \E b \in Leads : Judges(b) \/ VerdictCommits(b) \/ LateVerdictCommits(b) \/ JudgeThrows(b)
  BY <1>7 DEF Judges, VerdictCommits, LateVerdictCommits, JudgeThrows, normalizing
<1>8. CASE UNCHANGED vars
  BY <1>8 DEF vars, normalizing
<1> QED
  BY <1>1, <1>2, <1>3, <1>4, <1>5, <1>6, <1>7, <1>8 DEF Next

\* What was delivered of a scrape stays delivered.
LEMMA DeliveredStays ==
    ASSUME TInv, [Next]_vars, NEW c \in Searches, scrape'[c] = scrape[c],
           NEW i, Delivered(c, i)
    PROVE  Delivered(c, i)'
<1>1. PICK j \in Candidates : SameKey(j, scrape[c][i]) /\ norm[<<c, j>>] # "none"
  BY DEF Delivered
<1>2. <<c, j>> \in Tasks
  BY DEF Tasks, Campaigns
<1>3. norm'[<<c, j>>] # "none"
  BY <1>1, <1>2, NormKeeps
<1>4. SameKey(j, scrape'[c][i])
  BY <1>1
<1> QED
  BY <1>3, <1>4 DEF Delivered, SameKey, PlaceOf

\* A search whose own state a step leaves alone.
LEMMA RowsKept ==
    ASSUME TInv, RowsInOrder, [Next]_vars, NEW c \in Searches,
           search'[c] = search[c], scrape'[c] = scrape[c], next'[c] = next[c]
    PROVE  /\ next'[c] >= 1
           /\ search'[c] = "running" => \A i \in Limited(c)' : i < next'[c] => Delivered(c, i)'
           /\ search'[c] = "done" => \A i \in Limited(c)' : Delivered(c, i)'
<1>1. Limited(c)' = Limited(c)
  BY DEF Limited
<1> QED
  BY <1>1, DeliveredStays DEF RowsInOrder

\* The row handed over is delivered, by its own job or by one of its key.
LEMMA HandsOver ==
    ASSUME TInv, NEW c \in Searches, HandOver(c), NEW i, i = next[c]
    PROVE  Delivered(c, i)'
<1> DEFINE k == scrape[c][next[c]]
<1>1. next[c] \in DOMAIN scrape[c] /\ scrape[c] \in Seq(Candidates) /\ c \in Campaigns
  BY IntakeConstants DEF TInv, SearchType, HandOver, Limited, Campaigns
<1>2. k \in Candidates /\ <<c, k>> \in Tasks
  BY <1>1 DEF Tasks
<1>3. scrape' = scrape
  BY DEF HandOver
<1>4. PICK j \in Candidates : SameKey(j, k) /\ norm'[<<c, j>>] # "none"
  <2>1. CASE \E j \in Candidates : SameKey(j, k) /\ norm[<<c, j>>] \in Active
    <3>1. norm' = norm
      BY <2>1 DEF HandOver
    <3> QED
      BY <2>1, <3>1 DEF Active
  <2>2. CASE ~ \E j \in Candidates : SameKey(j, k) /\ norm[<<c, j>>] \in Active
    <3>1. norm' = [norm EXCEPT ![<<c, k>>] = "queued"]
      BY <2>2 DEF HandOver
    <3>2. norm'[<<c, k>>] = "queued"
      BY <1>2, <3>1 DEF TInv, NormType
    <3>3. SameKey(k, k)
      BY DEF SameKey
    <3> QED
      BY <1>2, <3>2, <3>3
  <2> QED
    BY <2>1, <2>2
<1> QED
  BY <1>3, <1>4 DEF Delivered, SameKey, PlaceOf

LEMMA RowsStep == TInv /\ RowsInOrder /\ [Next]_vars => RowsInOrder'
<1> SUFFICES ASSUME TInv, RowsInOrder, [Next]_vars, NEW d \in Searches
             PROVE  /\ next'[d] >= 1
                    /\ search'[d] = "running" => \A i \in Limited(d)' : i < next'[d] => Delivered(d, i)'
                    /\ search'[d] = "done" => \A i \in Limited(d)' : Delivered(d, i)'
  BY DEF RowsInOrder
<1>0. /\ d \in Campaigns /\ next[d] \in Nat /\ scrape[d] \in Seq(Candidates)
      /\ DOMAIN scrape[d] = 1..Len(scrape[d]) /\ Len(scrape[d]) \in Nat
  <2>1. d \in Campaigns /\ next[d] \in Nat /\ scrape[d] \in Scrapes \cup {<< >>}
    BY DEF TInv, SearchType, Campaigns
  <2>2. << >> \in Seq(Candidates)
    OBVIOUS
  <2>3. scrape[d] \in Seq(Candidates)
    BY <2>1, <2>2, IntakeConstants
  <2> QED
    BY <2>1, <2>3
<1>1. CASE UNCHANGED <<search, scrape, next>>
  BY <1>1, RowsKept
<1>2. CASE \E c \in Searches, s \in AutoStages : Create(c, s)
  <2>1. PICK c \in Searches, s \in AutoStages : Create(c, s)
    BY <1>2
  <2>2. search' = [search EXCEPT ![c] = "queued"] /\ scrape' = scrape /\ next' = next
    BY <2>1 DEF Create
  <2>3. CASE d = c
    BY <2>2, <2>3, <1>0 DEF TInv, SearchType, RowsInOrder
  <2>4. CASE d # c
    BY <2>2, <2>4, <1>0, RowsKept DEF TInv, SearchType
  <2> QED
    BY <2>3, <2>4
<1>3. CASE \E c \in Searches : SearchReads(c)
  <2>1. PICK c \in Searches : SearchReads(c)
    BY <1>3
  <2>2. CASE d = c
    <3>1. search'[d] = "running" /\ next'[d] = 1
      BY <2>1, <2>2, <1>0 DEF SearchReads, TInv, SearchType
    <3>2. PICK rowsFound \in Scrapes : scrape' = [scrape EXCEPT ![c] = rowsFound]
      BY <2>1 DEF SearchReads
    <3>3. scrape'[d] \in Seq(Candidates)
      BY <1>0, <2>2, <3>2, IntakeConstants DEF TInv, SearchType
    <3>4. \A i \in DOMAIN scrape'[d] : i >= 1
      BY <3>3
    <3>5. \A i \in Limited(d)' : ~(i < 1)
      BY <3>4, <3>3 DEF Limited
    <3> QED
      BY <3>1, <3>5
  <2>3. CASE d # c
    BY <2>1, <2>3, <1>0, RowsKept DEF SearchReads, TInv, SearchType
  <2> QED
    BY <2>2, <2>3
<1>4. CASE \E c \in Searches : HandOver(c)
  <2>1. PICK c \in Searches : HandOver(c)
    BY <1>4
  <2>2. search' = search /\ scrape' = scrape /\ next' = [next EXCEPT ![c] = @ + 1]
    BY <2>1 DEF HandOver
  <2>3. CASE d = c
    <3>1. search[d] = "running" /\ next'[d] = next[d] + 1 /\ Limited(d)' = Limited(d)
      BY <2>1, <2>2, <2>3, <1>0 DEF HandOver, TInv, SearchType, Limited
    <3>2. ASSUME NEW i \in Limited(d), i < next'[d] PROVE Delivered(d, i)'
      <4>1. i \in Nat
        BY <1>0, <3>2 DEF Limited
      <4>2. CASE i < next[d]
        <5>1. Delivered(d, i)
          BY <3>1, <3>2, <4>2 DEF RowsInOrder
        <5> QED
          BY <2>2, <5>1, DeliveredStays
      <4>3. CASE i = next[d]
        BY <2>1, <2>3, <4>3, HandsOver
      <4> QED
        BY <1>0, <3>1, <3>2, <4>1, <4>2, <4>3
    <3> QED
      BY <1>0, <2>2, <3>1, <3>2 DEF RowsInOrder
  <2>4. CASE d # c
    BY <2>2, <2>4, <1>0, RowsKept DEF TInv, SearchType
  <2> QED
    BY <2>3, <2>4
<1>5. CASE \E c \in Searches : SearchEnds(c)
  <2>1. PICK c \in Searches : SearchEnds(c)
    BY <1>5
  <2>2. search' = [search EXCEPT ![c] = "done"] /\ scrape' = scrape /\ next' = next
    BY <2>1 DEF SearchEnds
  <2>3. CASE d = c
    <3>1. search[d] = "running" /\ next[d] \notin Limited(d) /\ search'[d] = "done"
      BY <2>1, <2>2, <2>3, <1>0 DEF SearchEnds, TInv, SearchType
    <3>2. \A i \in Limited(d) : i < next[d]
      <4> SUFFICES ASSUME NEW i \in Limited(d), ~(i < next[d]) PROVE FALSE
        OBVIOUS
      <4>1. i \in 1..Len(scrape[d]) /\ i <= Target /\ next[d] <= i /\ next[d] >= 1
        BY <1>0 DEF Limited, RowsInOrder
      <4>2. next[d] \in 1..Len(scrape[d]) /\ next[d] <= Target
        BY <1>0, <4>1, IntakeConstants
      <4> QED
        BY <1>0, <3>1, <4>2 DEF Limited
    <3>3. Limited(d)' = Limited(d)
      BY <2>2 DEF Limited
    <3> QED
      BY <2>2, <3>1, <3>2, <3>3, DeliveredStays DEF RowsInOrder
  <2>4. CASE d # c
    BY <2>2, <2>4, <1>0, RowsKept DEF TInv, SearchType
  <2> QED
    BY <2>3, <2>4
<1>6. CASE \E c \in Searches : SearchThrows(c)
  <2>1. PICK c \in Searches, outcome \in {"queued", "failed"} :
           search' = [search EXCEPT ![c] = outcome] /\ scrape' = scrape /\ next' = next
    BY <1>6 DEF SearchThrows
  <2>2. CASE d = c
    BY <2>1, <2>2, <1>0 DEF TInv, SearchType, RowsInOrder
  <2>3. CASE d # c
    BY <2>1, <2>3, <1>0, RowsKept DEF TInv, SearchType
  <2> QED
    BY <2>2, <2>3
<1>7. CASE Operator /\ ~ \E c \in Searches, s \in AutoStages : Create(c, s)
  <2>1. UNCHANGED <<search, scrape, next>>
    BY <1>7 DEF Operator, Turn, AddByLink, CollectData, MarkDoNotContact, Archive, Unarchive,
                ArchiveCampaign, UnarchiveCampaign, searching
  <2> QED
    BY <1>1, <2>1
<1>8. CASE \E t \in Tasks : LooksUp(t) \/ Attaches(t) \/ Inserts(t) \/ NormalizeThrows(t)
  BY <1>1, <1>8 DEF LooksUp, Attaches, Inserts, NormalizeThrows, searching
<1>9. CASE \E b \in Leads : Judges(b) \/ VerdictCommits(b) \/ LateVerdictCommits(b) \/ JudgeThrows(b)
  BY <1>1, <1>9 DEF Judges, VerdictCommits, LateVerdictCommits, JudgeThrows, searching
<1>10. CASE UNCHANGED vars
  BY <1>1, <1>10 DEF vars, searching
<1> QED
  BY <1>2, <1>3, <1>4, <1>5, <1>6, <1>7, <1>8, <1>9, <1>10 DEF Next

\* A search that is done has left no row within the limit without a job of its key.
THEOREM RowsAreHandedOver == Spec => []AllHandedOver
<1>1. Init => RowsInOrder
  BY DEF Init, RowsInOrder, Campaigns
<1>2. Spec => [](TInv /\ RowsInOrder)
  BY InitTInv, <1>1, TInvStep, RowsStep, PTL DEF Spec
<1>3. TInv /\ RowsInOrder => AllHandedOver
  BY DEF RowsInOrder, AllHandedOver, Limited, Delivered
<1> QED
  BY <1>2, <1>3, PTL

-----------------------------------------------------------------------------
(***************************************************************************)
(* The first verdict.                                                      *)
(***************************************************************************)

\* A lead whose first verdict is out, and only such a one, may have its row.
JudgedCount ==
    \A b \in Leads : rows[b] <= 1 /\ (status[b] = "discovered" => rows[b] = 0)

LEMMA JudgedStep == TInv /\ JudgedCount /\ [Next]_vars => JudgedCount'
<1> SUFFICES ASSUME TInv, JudgedCount, [Next]_vars PROVE JudgedCount'
  OBVIOUS
<1>0. status \in [Leads -> Statuses] /\ rows \in [Leads -> Nat]
  BY DEF TInv, LeadType, JudgeType
<1>1. CASE UNCHANGED <<status, rows>>
  BY <1>1 DEF JudgedCount
<1>2. ASSUME NEW b \in Leads, NEW v \in Verdicts, Gives(b, v) PROVE JudgedCount'
  <2>1. CASE StillOpen(b)
    <3>1. status' = [status EXCEPT ![b] = v] /\ rows' = [rows EXCEPT ![b] = @ + 1]
      BY <1>2, <2>1 DEF Gives
    <3>2. v # "discovered" /\ rows[b] = 0
      BY <2>1 DEF Verdicts, StillOpen, JudgedCount
    <3> QED
      BY <1>0, <3>1, <3>2 DEF JudgedCount
  <2>2. CASE ~StillOpen(b)
    BY <1>1, <1>2, <2>2 DEF Gives
  <2> QED
    BY <2>1, <2>2
<1>3. CASE \E b \in Leads : VerdictCommits(b)
  BY <1>2, <1>3 DEF VerdictCommits, TInv, JudgeType
<1>4. CASE \E b \in Leads : LateVerdictCommits(b)
  BY <1>2, <1>4 DEF LateVerdictCommits, TInv, JudgeType
<1>5. CASE \E b \in Leads : Judges(b) \/ JudgeThrows(b)
  BY <1>1, <1>5 DEF Judges, JudgeThrows
<1>6. CASE \E b \in Leads : MarkDoNotContact(b)
  BY <1>0, <1>6 DEF MarkDoNotContact, JudgedCount, judging
<1>7. CASE Operator /\ ~ \E b \in Leads : MarkDoNotContact(b)
  <2>1. UNCHANGED <<status, rows>>
    BY <1>7 DEF Operator, Create, Turn, AddByLink, CollectData, Archive, Unarchive, ArchiveCampaign,
                UnarchiveCampaign, judging
  <2> QED
    BY <1>1, <2>1
<1>8. CASE \E c \in Searches : SearchReads(c) \/ HandOver(c) \/ SearchEnds(c) \/ SearchThrows(c)
  BY <1>1, <1>8 DEF SearchReads, HandOver, SearchEnds, SearchThrows, judging
<1>9. CASE \E t \in Tasks : LooksUp(t) \/ Attaches(t) \/ Inserts(t) \/ NormalizeThrows(t)
  BY <1>1, <1>9 DEF LooksUp, Attaches, Inserts, NormalizeThrows, judging
<1>10. CASE UNCHANGED vars
  BY <1>1, <1>10 DEF vars, judging
<1> QED
  BY <1>3, <1>4, <1>5, <1>6, <1>7, <1>8, <1>9, <1>10 DEF Next

\* Handlers that overlap, come late or run again leave one row per lead.
THEOREM LeadsAreJudgedOnce == Spec => []JudgedOnce
<1>1. Init => JudgedCount
  BY DEF Init, JudgedCount
<1>2. Spec => [](TInv /\ JudgedCount)
  BY InitTInv, <1>1, TInvStep, JudgedStep, PTL DEF Spec
<1>3. JudgedCount => JudgedOnce
  BY DEF JudgedCount, JudgedOnce, Known
<1> QED
  BY <1>2, <1>3, PTL

LEMMA OutStep ==
    ASSUME TInv, [Next]_vars, NEW b \in Leads, status[b] \in {"do_not_contact", "rejected"}
    PROVE  status'[b] \in {status[b], "do_not_contact"}
<1>0. status \in [Leads -> Statuses]
  BY DEF TInv, LeadType
<1>1. ASSUME NEW a \in Leads, NEW v \in Verdicts, Gives(a, v) PROVE status'[b] = status[b]
  BY <1>0, <1>1 DEF Gives, StillOpen
<1>2. CASE \E a \in Leads : VerdictCommits(a)
  BY <1>1, <1>2 DEF VerdictCommits, TInv, JudgeType
<1>3. CASE \E a \in Leads : LateVerdictCommits(a)
  BY <1>1, <1>3 DEF LateVerdictCommits, TInv, JudgeType
<1>4. CASE \E a \in Leads : MarkDoNotContact(a)
  BY <1>0, <1>4 DEF MarkDoNotContact
<1>5. CASE \E a \in Leads : Judges(a) \/ JudgeThrows(a)
  BY <1>5 DEF Judges, JudgeThrows
<1>6. CASE Operator /\ ~ \E a \in Leads : MarkDoNotContact(a)
  <2>1. UNCHANGED status
    BY <1>6 DEF Operator, Create, Turn, AddByLink, CollectData, Archive, Unarchive, ArchiveCampaign,
                UnarchiveCampaign
  <2> QED
    BY <2>1
<1>7. CASE \E c \in Searches : SearchReads(c) \/ HandOver(c) \/ SearchEnds(c) \/ SearchThrows(c)
  BY <1>7 DEF SearchReads, HandOver, SearchEnds, SearchThrows
<1>8. CASE \E t \in Tasks : LooksUp(t) \/ Attaches(t) \/ Inserts(t) \/ NormalizeThrows(t)
  BY <1>8 DEF LooksUp, Attaches, Inserts, NormalizeThrows
<1>9. CASE UNCHANGED vars
  BY <1>9 DEF vars
<1> QED
  BY <1>2, <1>3, <1>4, <1>5, <1>6, <1>7, <1>8, <1>9 DEF Next

\* No verdict, however late, brings back who was rejected or must not be contacted.
THEOREM NobodyComesBack == Spec => OutStaysOut
<1>1. TInv /\ [Next]_vars =>
        [\A b \in Known : status[b] \in {"do_not_contact", "rejected"} =>
            status'[b] \in {status[b], "do_not_contact"}]_vars
  BY OutStep DEF Known
<1> QED
  BY <1>1, IntakeBase, PTL DEF Spec, OutStaysOut

\* The lead b is on somebody's list.
Listed(b) == qual[b].state \in Active \cup {"failed", "cancelled"} \/ late[b] # {}

LEMMA ListedStep == TInv /\ NoLeadForgotten /\ [Next]_vars => NoLeadForgotten'
<1> SUFFICES ASSUME TInv, NoLeadForgotten, [Next]_vars, NEW b \in Leads, b \in Known',
                    status'[b] = "discovered"
             PROVE  Listed(b)'
  BY DEF NoLeadForgotten, Listed, Known
<1>0. /\ status \in [Leads -> Statuses] /\ late \in [Leads -> SUBSET Verdicts]
      /\ qual \in [Leads -> [state : JobStatus, chosen : BOOLEAN, campaign : Campaigns]]
  BY DEF TInv, LeadType, JudgeType
<1>1. CASE b \in Known /\ status[b] = "discovered" /\ UNCHANGED <<qual, late>>
  BY <1>1 DEF NoLeadForgotten, Listed
<1>2. ASSUME NEW a \in Leads, NEW v \in Verdicts, Gives(a, v)
      PROVE  a # b /\ status[b] = "discovered"
  BY <1>0, <1>2 DEF Gives, StillOpen, Verdicts
<1>3. CASE \E a \in Leads : VerdictCommits(a)
  <2>1. PICK a \in Leads : VerdictCommits(a)
    BY <1>3
  <2>2. a # b /\ status[b] = "discovered" /\ b \in Known
    BY <1>2, <2>1 DEF VerdictCommits, TInv, JudgeType, Known, business
  <2>3. qual'[b] = qual[b] /\ late'[b] = late[b]
    BY <1>0, <2>1, <2>2 DEF VerdictCommits
  <2> QED
    BY <2>2, <2>3 DEF NoLeadForgotten, Listed
<1>4. CASE \E a \in Leads : LateVerdictCommits(a)
  <2>0. PICK a \in Leads : LateVerdictCommits(a)
    BY <1>4
  <2>1. PICK v \in late[a] :
           /\ Gives(a, v)
           /\ late' = [late EXCEPT ![a] = @ \ {v}]
           /\ UNCHANGED <<business, qual>>
    BY <2>0 DEF LateVerdictCommits
  <2>2. a # b /\ status[b] = "discovered" /\ b \in Known
    BY <1>0, <1>2, <2>1 DEF Known, business
  <2> QED
    BY <1>0, <2>1, <2>2 DEF NoLeadForgotten, Listed
<1>5. CASE \E a \in Leads : Judges(a)
  <2>1. PICK a \in Leads : Judges(a)
    BY <1>5
  <2>2. b \in Known /\ status[b] = "discovered" /\ late' = late
    BY <2>1 DEF Judges, Known, business
  <2>3. CASE a = b
    BY <1>0, <2>1, <2>2, <2>3 DEF Judges, Listed, Active
  <2>4. CASE a # b
    BY <1>0, <2>1, <2>2, <2>4 DEF Judges, NoLeadForgotten, Listed
  <2> QED
    BY <2>3, <2>4
<1>6. CASE \E a \in Leads : JudgeThrows(a)
  <2>1. PICK a \in Leads, outcome \in {"queued", "failed"} :
           /\ qual' = [qual EXCEPT ![a].state = outcome]
           /\ UNCHANGED <<business, status, late>>
    BY <1>6 DEF JudgeThrows
  <2>2. b \in Known /\ status[b] = "discovered"
    BY <2>1 DEF Known, business
  <2> QED
    BY <1>0, <2>1, <2>2 DEF NoLeadForgotten, Listed, Active
<1>7. CASE \E t \in Tasks : Attaches(t)
  <2>1. PICK t \in Tasks : Attaches(t)
    BY <1>7
  <2>2. b \in Known /\ status[b] = "discovered" /\ late' = late
    BY <2>1 DEF Attaches, Known
  <2>3. look[t].lead \in Leads /\ t[1] \in Campaigns
    BY <2>1 DEF Attaches, TInv, FoundIsKnown, InTransaction, Known, Tasks
  <2>4. qual' = qual \/ qual' = Qualifying(look[t].lead, t[1])
    BY <2>1 DEF Attaches
  <2>5. qual'[b].state \in Active \/ qual'[b] = qual[b]
    <3>1. CASE qual' = qual
      BY <3>1
    <3>2. CASE qual' = Qualifying(look[t].lead, t[1])
      BY <1>0, <2>3, <3>2 DEF Qualifying, Active
    <3> QED
      BY <2>4, <3>1, <3>2
  <2> QED
    BY <2>2, <2>5 DEF NoLeadForgotten, Listed
<1>8. CASE \E t \in Tasks : Inserts(t)
  <2>1. PICK t \in Tasks : Inserts(t)
    BY <1>8
  <2>2. PICK a \in Leads \ Known :
           qual' = Qualifying(a, t[1]) /\ Known' = Known \cup {a} /\ t[1] \in Campaigns
    BY <2>1, InsertsChange
  <2>3. UNCHANGED <<status, late>>
    BY <2>1 DEF Inserts
  <2>4. CASE a = b
    BY <1>0, <2>2, <2>4 DEF Qualifying, Active, Listed
  <2>5. CASE a # b
    <3>1. b \in Known /\ status[b] = "discovered" /\ qual'[b] = qual[b]
      BY <1>0, <2>2, <2>3, <2>5 DEF Qualifying
    <3> QED
      BY <2>3, <3>1 DEF NoLeadForgotten, Listed
  <2> QED
    BY <2>4, <2>5
<1>9. CASE \E a \in Leads : MarkDoNotContact(a)
  <2>1. b \in Known /\ status[b] = "discovered" /\ UNCHANGED <<qual, late>>
    BY <1>0, <1>9 DEF MarkDoNotContact, Known, business, judging
  <2> QED
    BY <1>1, <2>1
<1>10. ASSUME NEW bs, Shelves(bs), UNCHANGED <<card, status>> PROVE Listed(b)'
  <2>1. b \in Known /\ status[b] = "discovered"
    BY <1>10 DEF Known
  <2>2. Listed(b)
    BY <2>1 DEF NoLeadForgotten, Listed
  <2>3. late[b] \subseteq late'[b]
    BY <1>10 DEF Shelves
  <2>4. qual'[b].state = qual[b].state \/ qual'[b].state = "cancelled"
    BY <1>0, <1>10 DEF Shelves
  <2> QED
    BY <2>2, <2>3, <2>4 DEF Listed
<1>11. CASE \E a \in Leads : Archive(a)
  BY <1>10, <1>11 DEF Archive, business
<1>12. CASE \E c \in Campaigns : ArchiveCampaign(c)
  BY <1>10, <1>12 DEF ArchiveCampaign, business
<1>13. CASE UNCHANGED <<card, status, qual, late>>
  BY <1>1, <1>13 DEF Known
<1>14. CASE \/ \E c \in Searches, s \in AutoStages : Create(c, s)
            \/ \E c \in Campaigns, m \in {"running", "paused"}, s \in AutoStages : Turn(c, m, s)
            \/ \E k \in Links : AddByLink(k)
            \/ \E a \in Leads : CollectData(a) \/ Unarchive(a)
            \/ \E c \in Campaigns : UnarchiveCampaign(c)
  BY <1>13, <1>14 DEF Create, Turn, AddByLink, CollectData, Unarchive, UnarchiveCampaign, business,
                      judging
<1>15. CASE \E c \in Searches : SearchReads(c) \/ HandOver(c) \/ SearchEnds(c) \/ SearchThrows(c)
  BY <1>13, <1>15 DEF SearchReads, HandOver, SearchEnds, SearchThrows, business, judging
<1>16. CASE \E t \in Tasks : LooksUp(t) \/ NormalizeThrows(t)
  BY <1>13, <1>16 DEF LooksUp, NormalizeThrows, business, judging
<1>17. CASE UNCHANGED vars
  BY <1>13, <1>17 DEF vars, business, judging
<1> QED
  BY <1>3, <1>4, <1>5, <1>6, <1>7, <1>8, <1>9, <1>11, <1>12, <1>14, <1>15, <1>16, <1>17
     DEF Next, Operator

\* A discovered lead always has a job that is to judge it, failed to, or was shelved.
THEOREM LeadsAreRemembered == Spec => []NoLeadForgotten
<1>1. Init => NoLeadForgotten
  BY DEF Init, NoLeadForgotten, Known
<1> QED
  BY InitTInv, <1>1, TInvStep, ListedStep, PTL DEF Spec

-----------------------------------------------------------------------------
(***************************************************************************)
(* The gate into data collection.                                          *)
(***************************************************************************)

\* What lets leads through now is remembered as having let them.
OpenedKnows == \A c \in Campaigns : LetsThrough(c) => c \in opened

GInv == OpenedKnows /\ OnlyIfLetThrough

LEMMA GateKept ==
    ASSUME GInv, UNCHANGED <<mode, stage, opened, card, home, enrich, asked>> PROVE GInv'
BY DEF GInv, OpenedKnows, OnlyIfLetThrough, LetsThrough, Known

\* A verdict opens data collection only where the business's own campaign lets it.
LEMMA GateGives ==
    ASSUME TInv, GInv, NEW b \in Leads, NEW v \in Verdicts, Gives(b, v),
           UNCHANGED <<mode, stage, opened, card, home, asked>>
    PROVE  GInv'
<1>0. enrich \in [Leads -> JobStatus] /\ home \in [Leads -> Campaigns]
  BY DEF TInv, JudgeType, LeadType
<1>1. OpenedKnows'
  BY DEF GInv, OpenedKnows, LetsThrough
<1>2. CASE enrich' = enrich
  BY <1>2, GateKept
<1>3. CASE enrich' # enrich
  <2>1. MayAdvance(b) /\ \A a \in Leads \ {b} : enrich'[a] = enrich[a]
    BY <1>0, <1>3 DEF Gives
  <2>2. home[b] \in opened
    BY <1>0, <2>1 DEF MayAdvance, GInv, OpenedKnows
  <2>3. OnlyIfLetThrough'
    BY <2>1, <2>2 DEF GInv, OnlyIfLetThrough, Known
  <2> QED
    BY <1>1, <2>3 DEF GInv
<1> QED
  BY <1>2, <1>3

\* The operator turns a knob, and what that lets begin is remembered.
LEMMA GateTurns ==
    ASSUME GInv, Opened, UNCHANGED <<card, home, enrich, asked>> PROVE GInv'
<1>1. OpenedKnows'
  BY DEF Opened, OpenedKnows
<1>2. OnlyIfLetThrough'
  BY DEF GInv, Opened, OnlyIfLetThrough, Known
<1> QED
  BY <1>1, <1>2 DEF GInv

LEMMA GateStep == TInv /\ GInv /\ [Next]_vars => GInv'
<1> SUFFICES ASSUME TInv, GInv, [Next]_vars PROVE GInv'
  OBVIOUS
<1>0. /\ mode \in [Campaigns -> {"none", "running", "paused"}]
      /\ enrich \in [Leads -> JobStatus] /\ home \in [Leads -> Campaigns]
  BY DEF TInv, CampaignType, LeadType, JudgeType
<1>1. CASE \E c \in Searches, s \in AutoStages : Create(c, s)
  BY <1>1, GateTurns DEF Create, business
<1>2. CASE \E c \in Campaigns, m \in {"running", "paused"}, s \in AutoStages : Turn(c, m, s)
  BY <1>2, GateTurns DEF Turn, business
<1>3. CASE \E k \in Links : AddByLink(k)
  <2>1. \A c \in Campaigns : LetsThrough(c)' => LetsThrough(c)
    BY <1>0, <1>3 DEF AddByLink, LetsThrough
  <2>2. UNCHANGED <<opened, card, home, enrich, asked>>
    BY <1>3 DEF AddByLink, business
  <2> QED
    BY <2>1, <2>2 DEF GInv, OpenedKnows, OnlyIfLetThrough, Known
<1>4. CASE \E b \in Leads : CollectData(b)
  <2>1. PICK b \in Leads : CollectData(b)
    BY <1>4
  <2>2. /\ UNCHANGED <<mode, stage, opened, card, home>> /\ asked' = asked \cup {b}
        /\ \A a \in Leads \ {b} : enrich'[a] = enrich[a]
    BY <1>0, <2>1 DEF CollectData, campaigns, business
  <2> QED
    BY <2>2 DEF GInv, OpenedKnows, LetsThrough, OnlyIfLetThrough, Known
<1>5. CASE \E b \in Leads : MarkDoNotContact(b) \/ Unarchive(b)
  BY <1>5, GateKept DEF MarkDoNotContact, Unarchive, campaigns, business
<1>6. ASSUME NEW bs, Shelves(bs), UNCHANGED <<stage, opened, card, home, asked>>,
             \A c \in Campaigns : LetsThrough(c)' => LetsThrough(c)
      PROVE  GInv'
  <2>1. \A b \in Leads : enrich'[b] # "none" => enrich[b] # "none"
    BY <1>6 DEF Shelves, Cancellable, Active
  <2> QED
    BY <1>6, <2>1 DEF GInv, OpenedKnows, OnlyIfLetThrough, Known
<1>7. CASE \E b \in Leads : Archive(b)
  BY <1>6, <1>7 DEF Archive, campaigns, business, LetsThrough
<1>8. CASE \E c \in Campaigns : ArchiveCampaign(c)
  <2>1. PICK c \in Campaigns : ArchiveCampaign(c)
    BY <1>8
  <2>2. \A d \in Campaigns : LetsThrough(d)' => LetsThrough(d)
    BY <1>0, <2>1 DEF ArchiveCampaign, LetsThrough
  <2> QED
    BY <1>6, <2>1, <2>2 DEF ArchiveCampaign, business
<1>9. CASE \E c \in Campaigns : UnarchiveCampaign(c)
  BY <1>9, GateKept DEF UnarchiveCampaign, business
<1>10. CASE \E c \in Searches : SearchReads(c) \/ HandOver(c) \/ SearchEnds(c) \/ SearchThrows(c)
  BY <1>10, GateKept DEF SearchReads, HandOver, SearchEnds, SearchThrows, campaigns, business
<1>11. CASE \E t \in Tasks : LooksUp(t) \/ Attaches(t) \/ NormalizeThrows(t)
  BY <1>11, GateKept DEF LooksUp, Attaches, NormalizeThrows, campaigns, business
<1>12. CASE \E t \in Tasks : Inserts(t)
  <2>1. PICK t \in Tasks : Inserts(t)
    BY <1>12
  <2>2. PICK b \in Leads \ Known :
           home' = [home EXCEPT ![b] = t[1]] /\ Known' = Known \cup {b}
    BY <2>1, InsertsChange
  <2>3. UNCHANGED <<mode, stage, opened, enrich, asked>> /\ enrich[b] = "none"
    BY <2>1, <2>2 DEF Inserts, campaigns, TInv, UnknownIdle
  <2> QED
    BY <1>0, <2>2, <2>3 DEF GInv, OpenedKnows, LetsThrough, OnlyIfLetThrough
<1>13. CASE \E b \in Leads : Judges(b) \/ JudgeThrows(b)
  BY <1>13, GateKept DEF Judges, JudgeThrows, campaigns, business
<1>14. CASE \E b \in Leads : VerdictCommits(b)
  BY <1>14, GateGives DEF VerdictCommits, campaigns, business, TInv, JudgeType
<1>15. CASE \E b \in Leads : LateVerdictCommits(b)
  BY <1>15, GateGives DEF LateVerdictCommits, campaigns, business, TInv, JudgeType
<1>16. CASE UNCHANGED vars
  BY <1>16, GateKept DEF vars, campaigns, business
<1> QED
  BY <1>1, <1>2, <1>3, <1>4, <1>5, <1>7, <1>8, <1>9, <1>10, <1>11, <1>12, <1>13, <1>14, <1>15, <1>16
     DEF Next, Operator

\* Data collection begins where the business's own campaign let it, or by hand.
THEOREM GateIsRespected == Spec => []OnlyIfLetThrough
<1>1. Init => GInv
  BY DEF Init, GInv, OpenedKnows, OnlyIfLetThrough, LetsThrough, Known, Campaigns
<1>2. Spec => [](TInv /\ GInv)
  BY InitTInv, <1>1, TInvStep, GateStep, PTL DEF Spec
<1>3. GInv => OnlyIfLetThrough
  BY DEF GInv
<1> QED
  BY <1>2, <1>3, PTL

-----------------------------------------------------------------------------
(***************************************************************************)
(* The shelf.                                                              *)
(***************************************************************************)

\* No two archivings have one instant: what was archived by itself did not go with
\* its campaign.
Apart ==
    /\ \A c \in Campaigns : shelvedAt[c] <= clock
    /\ \A b \in shelf : /\ archivedAt[b] # 0
                        /\ archivedAt[b] <= clock
                        /\ shelvedAt[home[b]] # 0 => archivedAt[b] # shelvedAt[home[b]]

LEMMA ApartKept ==
    ASSUME TInv, Apart, UNCHANGED <<shelvedAt, archivedAt, shelf, clock>>,
           \A b \in Known : home'[b] = home[b]
    PROVE  Apart'
BY DEF TInv, UnknownIdle, ShelfType, Apart

LEMMA ApartStep == TInv /\ Apart /\ [Next]_vars => Apart'
<1> SUFFICES ASSUME TInv, Apart, [Next]_vars PROVE Apart'
  OBVIOUS
<1>0. /\ shelvedAt \in [Campaigns -> Nat] /\ archivedAt \in [Leads -> Nat] /\ clock \in Nat
      /\ home \in [Leads -> Campaigns] /\ shelf \subseteq Leads
  BY DEF TInv, CampaignType, LeadType, ShelfType
<1>1. CASE \E b \in Leads : Archive(b)
  <2>1. PICK b \in Leads : Archive(b)
    BY <1>1
  <2>2. /\ clock' = clock + 1 /\ shelf' = shelf \cup {b} /\ shelvedAt' = shelvedAt /\ home' = home
        /\ \A a \in Leads : archivedAt'[a] = IF a = b THEN clock + 1 ELSE archivedAt[a]
    BY <2>1 DEF Archive, Shelves, campaigns, business
  <2> QED
    BY <1>0, <2>2 DEF Apart
<1>2. CASE \E b \in Leads : Unarchive(b)
  <2>1. PICK b \in Leads : Unarchive(b)
    BY <1>2
  <2>2. /\ clock' = clock /\ shelf' = shelf \ {b} /\ shelvedAt' = shelvedAt /\ home' = home
        /\ archivedAt' = [archivedAt EXCEPT ![b] = 0]
    BY <2>1 DEF Unarchive, campaigns, business
  <2> QED
    BY <1>0, <2>2 DEF Apart
<1>3. CASE \E c \in Campaigns : ArchiveCampaign(c)
  <2>1. PICK c \in Campaigns : ArchiveCampaign(c)
    BY <1>3
  <2>2. /\ clock' = clock + 1 /\ shelf' = shelf /\ home' = home
        /\ shelvedAt' = [shelvedAt EXCEPT ![c] = clock + 1]
        /\ \A a \in Leads : archivedAt[a] # 0 => archivedAt'[a] = archivedAt[a]
    BY <2>1 DEF ArchiveCampaign, Shelves, business
  <2> QED
    BY <1>0, <2>2 DEF Apart
<1>4. CASE \E c \in Campaigns : UnarchiveCampaign(c)
  <2>1. PICK c \in Campaigns : UnarchiveCampaign(c)
    BY <1>4
  <2>2. /\ clock' = clock /\ shelf' = shelf /\ home' = home /\ shelvedAt[c] # 0
        /\ shelvedAt' = [shelvedAt EXCEPT ![c] = 0]
        /\ \A a \in Leads : archivedAt'[a] = IF a \in ShelvedWith(c) THEN 0 ELSE archivedAt[a]
    BY <2>1 DEF UnarchiveCampaign, business
  <2>3. \A b \in shelf : b \notin ShelvedWith(c)
    BY <2>2 DEF Apart, ShelvedWith
  <2> QED
    BY <1>0, <2>2, <2>3 DEF Apart
<1>5. CASE \E t \in Tasks : Inserts(t)
  <2>1. PICK t \in Tasks : Inserts(t)
    BY <1>5
  <2>2. PICK b \in Leads \ Known : home' = [home EXCEPT ![b] = t[1]]
    BY <2>1, InsertsChange
  <2>3. \A a \in Known : home'[a] = home[a]
    BY <1>0, <2>2 DEF Known
  <2>4. UNCHANGED <<shelvedAt, archivedAt, shelf, clock>>
    BY <2>1 DEF Inserts, campaigns, shelves
  <2> QED
    BY <2>3, <2>4, ApartKept
<1>6. CASE UNCHANGED <<shelvedAt, archivedAt, shelf, clock, home>>
  BY <1>6, ApartKept
<1>7. CASE \/ \E c \in Searches, s \in AutoStages : Create(c, s)
           \/ \E c \in Campaigns, m \in {"running", "paused"}, s \in AutoStages : Turn(c, m, s)
           \/ \E k \in Links : AddByLink(k)
           \/ \E b \in Leads : CollectData(b) \/ MarkDoNotContact(b)
  BY <1>6, <1>7 DEF Create, Turn, AddByLink, CollectData, MarkDoNotContact, campaigns, business, shelves
<1>8. CASE \E c \in Searches : SearchReads(c) \/ HandOver(c) \/ SearchEnds(c) \/ SearchThrows(c)
  BY <1>6, <1>8 DEF SearchReads, HandOver, SearchEnds, SearchThrows, campaigns, business, shelves
<1>9. CASE \E t \in Tasks : LooksUp(t) \/ Attaches(t) \/ NormalizeThrows(t)
  BY <1>6, <1>9 DEF LooksUp, Attaches, NormalizeThrows, campaigns, business, shelves
<1>10. CASE \E b \in Leads : Judges(b) \/ VerdictCommits(b) \/ LateVerdictCommits(b) \/ JudgeThrows(b)
  BY <1>6, <1>10 DEF Judges, VerdictCommits, LateVerdictCommits, JudgeThrows, campaigns, business, shelves
<1>11. CASE UNCHANGED vars
  BY <1>6, <1>11 DEF vars, campaigns, business, shelves
<1> QED
  BY <1>1, <1>2, <1>3, <1>4, <1>5, <1>7, <1>8, <1>9, <1>10, <1>11 DEF Next, Operator

\* A business archived by itself does not come back with its campaign.
THEOREM ShelfIsKept == Spec => []ShelvedByHandStays
<1>1. Init => Apart
  BY DEF Init, Apart
<1>2. Spec => [](TInv /\ Apart)
  BY InitTInv, <1>1, TInvStep, ApartStep, PTL DEF Spec
<1>3. Apart => ShelvedByHandStays
  BY DEF Apart, ShelvedByHandStays
<1> QED
  BY <1>2, <1>3, PTL
=============================================================================
