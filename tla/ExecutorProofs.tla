---------------------------- MODULE ExecutorProofs ----------------------------
(***************************************************************************)
(* Theorems about what the executor keeps, checked by TLAPS: the way of an *)
(* agent's work into a workspace, for any number of workspaces, requests   *)
(* and faults, from one inductive invariant, GInv; and the logins of the   *)
(* accounts, for any number of logins, checks and failures, from another,  *)
(* LInv.  The two share the process and no state.                          *)
(***************************************************************************)
EXTENDS RunnerGateway, AccountLogin, TLAPS

\* A file is no younger than the last invocation.
Dated == \A d \in Dirs, p \in Parts : file[d][p].since \subseteq Opened

\* Whoever is at the gateway holds its workspace.
Held == \A r \in Requests : gate[r] \in AtGateway => holder[WsOf[r]] = r

\* Nothing is at the gateway before it is opened.
Unopened == \A r \in Requests : client[r] = "idle" => gate[r] = "none"

\* While one request of a workspace is at the gateway, every other one that is
\* waited for has been refused.
Queued ==
    \A q, r \in Requests :
        (q # r /\ WsOf[q] = WsOf[r] /\ gate[q] \in AtGateway /\ client[r] = "waiting")
            => gate[r] = "refused"

\* What is about to be staged is older than the request ...
StagedOld ==
    \A r \in Requests, p \in Parts :
        gate[r] = "staging" => ~Fresh(file[WsOf[r]][p], r)

\* ... so what is fresh in its scratch is its own,
ScratchOwn ==
    \A r \in Requests, p \in Parts :
        Fresh(file[r][p], r) => file[r][p].by = r

\* and so is what its handler finds fresh in the workspace.
FoundOwn ==
    \A r \in Requests, p \in Parts :
        (client[r] = "waiting" /\ gate[r] # "refused" /\ Fresh(file[WsOf[r]][p], r))
            => file[WsOf[r]][p].by = r

\* A page that may still be mirrored is not older than the one it replaces.
NotOvertaken ==
    \A r \in Requests :
        (/\ gate[r] \in {"calling", "syncing"}
         /\ "output" \notin synced[r]
         /\ file[WsOf[r]]["output"] # NoFile
         /\ file[r]["output"] # NoFile)
            => file[WsOf[r]]["output"].since \subseteq file[r]["output"].since

GInv ==
    /\ TypeOK
    /\ Dated
    /\ Held
    /\ Unopened
    /\ Queued
    /\ StagedOld
    /\ ScratchOwn
    /\ FoundOwn
    /\ NotOvertaken
    /\ AnswerIsOwn

\* Workspaces, requests and None are told apart.
LEMMA DirFacts ==
    /\ \A r \in Requests : WsOf[r] \in Workspaces /\ WsOf[r] \in Dirs /\ r \in Dirs
    /\ \A r, q \in Requests : WsOf[r] # q
    /\ None \notin Requests
    /\ "result" \in Parts /\ "output" \in Parts
BY RunnerConstants DEF Dirs, Parts

LEMMA InitInv == Init => GInv
<1> SUFFICES ASSUME Init PROVE GInv
  OBVIOUS
<1>1. \A d \in Dirs, p \in Parts : file[d][p] = NoFile
  BY DEF Init
<1>2. \A r \in Requests : gate[r] = "none" /\ taken[r] = None /\ client[r] = "idle"
  BY DEF Init
<1>3. TypeOK
  BY RunnerConstants DEF Init, TypeOK, Replies, AtGateway, File
<1>4. Dated /\ StagedOld /\ ScratchOwn /\ FoundOwn
  BY <1>1, <1>2, DirFacts DEF Dated, StagedOld, ScratchOwn, FoundOwn, Fresh, NoFile
<1>5. Held /\ Unopened /\ Queued /\ NotOvertaken /\ AnswerIsOwn
  BY <1>2 DEF Held, Unopened, Queued, NotOvertaken, AnswerIsOwn, AtGateway
<1> QED
  BY <1>3, <1>4, <1>5 DEF GInv

-----------------------------------------------------------------------------
(***************************************************************************)
(* The factory's steps.                                                    *)
(***************************************************************************)

LEMMA OpenKeeps ==
    ASSUME GInv, NEW x \in Requests, Open(x)
    PROVE  GInv'
<1> DEFINE w == WsOf[x]
<1>w. w \in Workspaces /\ w \in Dirs
  BY DirFacts
<1>t. TypeOK
  BY DEF GInv
<1>1. /\ client[x] = "idle"
      /\ \A q \in Requests : WsOf[q] = w => client[q] # "waiting"
      /\ client' = [client EXCEPT ![x] = "waiting"]
      /\ file' = [file EXCEPT ![w]["result"] = NoFile]
      /\ gate' = [gate EXCEPT ![x] = IF Free(w) THEN "staging" ELSE "refused"]
      /\ holder' = [holder EXCEPT ![w] = IF Free(w) THEN x ELSE @]
      /\ UNCHANGED <<taken, synced, reply, exec, outcome, faults>>
  BY DEF Open, executor
<1>2. gate[x] = "none"
  BY <1>1 DEF GInv, Unopened
<1>3. /\ \A r \in Requests : r # x => client'[r] = client[r] /\ gate'[r] = gate[r]
      /\ client'[x] = "waiting"
      /\ gate'[x] = IF Free(w) THEN "staging" ELSE "refused"
  BY <1>1, <1>t DEF TypeOK
<1>4. /\ \A d \in Dirs, p \in Parts : file'[d][p] = file[d][p] \/ file'[d][p] = NoFile
      /\ \A d \in Dirs : file'[d]["output"] = file[d]["output"]
      /\ \A r \in Requests : file'[r] = file[r]
  BY <1>1, <1>t, <1>w, DirFacts DEF TypeOK
<1>5. /\ holder'[w] = IF Free(w) THEN x ELSE holder[w]
      /\ \A v \in Workspaces : v # w => holder'[v] = holder[v]
  BY <1>1, <1>t, <1>w DEF TypeOK
<1> HIDE DEF w
<1>6. TypeOK'
  <2>1. file' \in [Dirs -> [Parts -> File \cup {NoFile}]]
    <3>1. file[w] \in [Parts -> File \cup {NoFile}]
      BY <1>t, <1>w DEF TypeOK
    <3>2. [file[w] EXCEPT !["result"] = NoFile] \in [Parts -> File \cup {NoFile}]
      BY <3>1
    <3> QED
      BY <1>1, <1>t, <1>w, <3>2 DEF TypeOK
  <2>2. gate' \in [Requests -> {"none", "refused", "replied", "lost"} \cup AtGateway]
    BY <1>1, <1>t DEF TypeOK, AtGateway
  <2>3. holder' \in [Workspaces -> Requests \cup {None}]
    BY <1>1, <1>t, <1>w DEF TypeOK
  <2>4. client' \in [Requests -> {"idle", "waiting", "gone", "done", "salvaged", "failed"}]
    BY <1>1, <1>t DEF TypeOK
  <2> QED
    BY <1>1, <1>t, <2>1, <2>2, <2>3, <2>4 DEF TypeOK
<1>7. Opened \subseteq Opened' /\ x \notin Opened
  BY <1>1, <1>3 DEF Opened
<1>8. Dated'
  BY <1>4, <1>7 DEF GInv, Dated, NoFile
<1>9. \A d \in Dirs, p \in Parts : ~Fresh(file'[d][p], x)
  BY <1>4, <1>7 DEF GInv, Dated, NoFile, Fresh
<1>10. Held'
  <2> SUFFICES ASSUME NEW r \in Requests, gate'[r] \in AtGateway
               PROVE  holder'[WsOf[r]] = r
    BY DEF Held
  <2>1. CASE r = x
    BY <2>1, <1>3, <1>5 DEF AtGateway, w
  <2>2. CASE r # x
    <3>1. holder[WsOf[r]] = r
      BY <2>2, <1>3 DEF GInv, Held
    <3> QED
      BY <3>1, <1>5, DirFacts DEF Free
  <2> QED
    BY <2>1, <2>2
<1>11. Unopened'
  BY <1>3 DEF GInv, Unopened
<1>12. Queued'
  <2> SUFFICES ASSUME NEW q \in Requests, NEW r \in Requests, q # r, WsOf[q] = WsOf[r],
                      gate'[q] \in AtGateway, client'[r] = "waiting"
               PROVE  gate'[r] = "refused"
    BY DEF Queued
  <2>1. CASE q = x
    BY <2>1, <1>1, <1>3 DEF w
  <2>2. CASE r = x
    <3>1. holder[w] = q
      BY <2>2, <1>3 DEF GInv, Held, w
    <3> QED
      BY <2>2, <3>1, <1>3, DirFacts DEF Free
  <2>3. CASE q # x /\ r # x
    BY <2>3, <1>3 DEF GInv, Queued
  <2> QED
    BY <2>1, <2>2, <2>3
<1>13. StagedOld'
  <2> SUFFICES ASSUME NEW r \in Requests, NEW p \in Parts, gate'[r] = "staging"
               PROVE  ~Fresh(file'[WsOf[r]][p], r)
    BY DEF StagedOld, Fresh
  <2>1. CASE r = x
    BY <2>1, <1>9, DirFacts
  <2>2. CASE r # x
    BY <2>2, <1>3, <1>4, DirFacts DEF GInv, StagedOld, Fresh, NoFile
  <2> QED
    BY <2>1, <2>2
<1>14. ScratchOwn'
  BY <1>4 DEF GInv, ScratchOwn, Fresh
<1>15. FoundOwn'
  <2> SUFFICES ASSUME NEW r \in Requests, NEW p \in Parts, client'[r] = "waiting",
                      gate'[r] # "refused", Fresh(file'[WsOf[r]][p], r)
               PROVE  file'[WsOf[r]][p].by = r
    BY DEF FoundOwn, Fresh
  <2>1. r # x
    BY <1>9, DirFacts
  <2>2. file'[WsOf[r]][p] = file[WsOf[r]][p]
    BY <1>4, DirFacts DEF Fresh, NoFile
  <2> QED
    BY <2>1, <2>2, <1>3 DEF GInv, FoundOwn, Fresh
<1>16. NotOvertaken'
  <2> SUFFICES ASSUME NEW r \in Requests, gate'[r] \in {"calling", "syncing"}
               PROVE  gate[r] = gate'[r]
    BY <1>1, <1>4, DirFacts DEF GInv, NotOvertaken
  <2> QED
    BY <1>3
<1>17. AnswerIsOwn'
  BY <1>1, <1>2, <1>3 DEF GInv, AnswerIsOwn
<1> QED
  BY <1>6, <1>8, <1>10, <1>11, <1>12, <1>13, <1>14, <1>15, <1>16, <1>17 DEF GInv

\* A handler leaves with what it found.
LEMMA HandlerKeeps ==
    ASSUME GInv, NEW x \in Requests, Handler(x)
    PROVE  GInv'
<1>t. TypeOK
  BY DEF GInv
<1>1. PICK how \in {"done", "salvaged", "failed"}, whose \in Requests \cup {None} :
          Leave(x, how, whose) /\ (gate[x] # "refused" => whose \in {x, None})
  <2>w. WsOf[x] \in Dirs /\ "result" \in Parts /\ "output" \in Parts
    BY DirFacts
  <2>1. CASE TakeReport(x)
    <3>1. PICK f \in File \cup {NoFile} : f = file[WsOf[x]]["result"]
      BY <1>t, <2>w DEF TypeOK
    <3>2. gate[x] = "replied" /\ Fresh(f, x) /\ Leave(x, "done", f.by)
      BY <2>1, <3>1 DEF TakeReport, Part
    <3>3. f.by = x
      BY <2>w, <3>1, <3>2 DEF GInv, FoundOwn, Leave
    <3> QED
      BY <3>2, <3>3
  <2>2. CASE Salvage(x)
    <3>1. PICK f \in File \cup {NoFile} : f = file[WsOf[x]]["output"]
      BY <1>t, <2>w DEF TypeOK
    <3>2. Fresh(f, x) /\ Leave(x, "salvaged", f.by)
      BY <2>2, <3>1 DEF Salvage, Part
    <3>3. gate[x] # "refused" => f.by = x
      BY <2>w, <3>1, <3>2 DEF GInv, FoundOwn, Leave
    <3>4. f.by \in Requests \cup {None}
      BY <3>1 DEF File, NoFile
    <3> QED
      BY <3>2, <3>3, <3>4
  <2>3. CASE Fail(x)
    BY <2>3 DEF Fail
  <2> QED
    BY <2>1, <2>2, <2>3 DEF Handler
<1>2. /\ client[x] = "waiting"
      /\ client' = [client EXCEPT ![x] = how]
      /\ taken' = [taken EXCEPT ![x] = whose]
      /\ UNCHANGED <<gate, holder, synced, reply, exec, outcome, file, faults>>
  BY <1>1 DEF Leave, gateway, executor
<1>3. /\ \A r \in Requests : client'[r] = "waiting" => client[r] = "waiting"
      /\ \A r \in Requests : client'[r] = "idle" <=> client[r] = "idle"
  BY <1>2, <1>t DEF TypeOK
<1>4. TypeOK'
  BY <1>1, <1>2, <1>t DEF TypeOK
<1>5. Opened' = Opened
  BY <1>3 DEF Opened
<1>6. Dated' /\ Held' /\ StagedOld' /\ ScratchOwn' /\ NotOvertaken'
  BY <1>2, <1>5 DEF GInv, Dated, Held, StagedOld, ScratchOwn, NotOvertaken, Fresh
<1>7. Unopened' /\ Queued' /\ FoundOwn'
  BY <1>2, <1>3 DEF GInv, Unopened, Queued, FoundOwn, Fresh
<1>8. AnswerIsOwn'
  BY <1>1, <1>2, <1>t DEF GInv, AnswerIsOwn, TypeOK
<1> QED
  BY <1>4, <1>6, <1>7, <1>8 DEF GInv

-----------------------------------------------------------------------------
(***************************************************************************)
(* The gateway's steps.                                                    *)
(***************************************************************************)

LEMMA StageKeeps ==
    ASSUME GInv, NEW x \in Requests, Stage(x)
    PROVE  GInv'
<1> DEFINE w == WsOf[x]
<1>w. w \in Workspaces /\ w \in Dirs /\ x \in Dirs
  BY DirFacts
<1>t. TypeOK
  BY DEF GInv
<1>1. /\ gate[x] = "staging"
      /\ file' = [file EXCEPT ![x] = file[w]]
      /\ gate' = [gate EXCEPT ![x] = "calling"]
      /\ exec' = [exec EXCEPT ![x] = "waiting"]
      /\ UNCHANGED <<client, taken, holder, synced, reply, outcome, faults>>
  BY DEF Stage, factory
<1>2. /\ gate'[x] = "calling"
      /\ \A r \in Requests : r # x => gate'[r] = gate[r]
  BY <1>1, <1>t DEF TypeOK
<1>3. /\ file'[x] = file[w]
      /\ \A d \in Dirs : d # x => file'[d] = file[d]
      /\ \A r \in Requests : file'[WsOf[r]] = file[WsOf[r]]
  BY <1>1, <1>t, <1>w, DirFacts DEF TypeOK
<1>4. TypeOK'
  <2>1. file' \in [Dirs -> [Parts -> File \cup {NoFile}]]
    BY <1>1, <1>t, <1>w DEF TypeOK
  <2>2. gate' \in [Requests -> {"none", "refused", "replied", "lost"} \cup AtGateway]
    BY <1>1, <1>t DEF TypeOK, AtGateway
  <2>3. exec' \in [Requests -> {"none", "waiting", "running", "ended", "killed"}]
    BY <1>1, <1>t DEF TypeOK
  <2> QED
    BY <1>1, <1>t, <2>1, <2>2, <2>3 DEF TypeOK
<1>5. Dated'
  BY <1>1, <1>3, <1>w DEF GInv, Dated, Opened
<1>6. Held' /\ Queued' /\ Unopened'
  BY <1>1, <1>2 DEF GInv, Held, Queued, Unopened, AtGateway
<1>7. StagedOld' /\ FoundOwn'
  BY <1>1, <1>2, <1>3 DEF GInv, StagedOld, FoundOwn, Fresh
<1>8. ScratchOwn'
  BY <1>1, <1>3, DirFacts DEF GInv, ScratchOwn, StagedOld, Fresh
<1>9. NotOvertaken'
  <2> SUFFICES ASSUME NEW r \in Requests, gate'[r] \in {"calling", "syncing"},
                      "output" \notin synced'[r], file'[WsOf[r]]["output"] # NoFile,
                      file'[r]["output"] # NoFile
               PROVE  file'[WsOf[r]]["output"].since \subseteq file'[r]["output"].since
    BY DEF NotOvertaken
  <2>1. CASE r = x
    BY <2>1, <1>3, DirFacts
  <2>2. CASE r # x
    BY <2>2, <1>1, <1>2, <1>3, DirFacts DEF GInv, NotOvertaken
  <2> QED
    BY <2>1, <2>2
<1>10. AnswerIsOwn'
  BY <1>1, <1>2 DEF GInv, AnswerIsOwn
<1> QED
  BY <1>4, <1>5, <1>6, <1>7, <1>8, <1>9, <1>10 DEF GInv

\* A request comes nearer to its reply, or gets it and releases its workspace.
LEMMA ProgressKeeps ==
    ASSUME GInv, NEW x \in Requests, NEW g \in {"syncing", "replied"},
           gate[x] \in AtGateway,
           g = "syncing" => gate[x] = "calling" /\ holder' = holder,
           g = "replied" => Release(x),
           gate' = [gate EXCEPT ![x] = g],
           reply' \in [Requests -> Replies \cup {"none"}],
           faults' \in Nat,
           UNCHANGED <<client, taken, synced, exec, outcome, file>>
    PROVE  GInv'
<1>w. WsOf[x] \in Workspaces
  BY DirFacts
<1>t. TypeOK
  BY DEF GInv
<1>1. /\ gate'[x] = g
      /\ \A r \in Requests : r # x => gate'[r] = gate[r]
  BY <1>t DEF TypeOK
<1>2. \A r \in Requests :
          /\ gate'[r] \in AtGateway => gate[r] \in AtGateway
          /\ gate'[r] = "refused" <=> gate[r] = "refused"
          /\ gate'[r] = "none" <=> gate[r] = "none"
          /\ gate'[r] = "staging" => gate[r] = "staging"
          /\ gate'[r] \in {"calling", "syncing"} => gate[r] \in {"calling", "syncing"}
  BY <1>1 DEF AtGateway
<1>3. \A r \in Requests : gate'[r] \in AtGateway => holder'[WsOf[r]] = holder[WsOf[r]]
  <2> SUFFICES ASSUME NEW r \in Requests, gate'[r] \in AtGateway, g = "replied"
               PROVE  holder'[WsOf[r]] = holder[WsOf[r]]
    OBVIOUS
  <2>1. r # x
    BY <1>1 DEF AtGateway
  <2>2. holder[WsOf[r]] = r
    BY <1>2 DEF GInv, Held
  <2>3. holder' = [holder EXCEPT ![WsOf[x]] = IF @ = x THEN None ELSE @]
    BY DEF Release
  <2> QED
    BY <2>1, <2>2, <2>3, <1>t, <1>w, DirFacts DEF TypeOK
<1>4. TypeOK'
  <2>1. gate' \in [Requests -> {"none", "refused", "replied", "lost"} \cup AtGateway]
    BY <1>t DEF TypeOK, AtGateway
  <2>2. holder' \in [Workspaces -> Requests \cup {None}]
    <3>1. CASE g = "syncing"
      BY <3>1, <1>t DEF TypeOK
    <3>2. CASE g = "replied"
      BY <3>2, <1>t, <1>w DEF TypeOK, Release
    <3> QED
      BY <3>1, <3>2
  <2> QED
    BY <1>t, <2>1, <2>2 DEF TypeOK
<1>5. Dated' /\ ScratchOwn'
  BY DEF GInv, Dated, ScratchOwn, Opened, Fresh
<1>6. Held' /\ Queued' /\ Unopened'
  BY <1>2, <1>3 DEF GInv, Held, Queued, Unopened
<1>7. StagedOld' /\ FoundOwn' /\ NotOvertaken'
  BY <1>2 DEF GInv, StagedOld, FoundOwn, NotOvertaken, Fresh
<1>8. AnswerIsOwn'
  BY <1>2 DEF GInv, AnswerIsOwn
<1> QED
  BY <1>4, <1>5, <1>6, <1>7, <1>8 DEF GInv

LEMMA AnsweredKeeps ==
    ASSUME GInv, NEW x \in Requests, NEW what \in Replies \cup {"none"}, Answered(x, what)
    PROVE  GInv'
<1>1. TypeOK
  BY DEF GInv
<1>2. /\ gate[x] = "calling"
      /\ reply' = [reply EXCEPT ![x] = what]
      /\ IF what = "violation"
         THEN gate' = [gate EXCEPT ![x] = "replied"] /\ Release(x)
         ELSE gate' = [gate EXCEPT ![x] = "syncing"] /\ UNCHANGED holder
      /\ UNCHANGED <<client, taken, synced, exec, outcome, file, faults>>
  BY DEF Answered, factory, executor
<1>3. reply' \in [Requests -> Replies \cup {"none"}] /\ faults' \in Nat /\ gate[x] \in AtGateway
  BY <1>1, <1>2 DEF TypeOK, AtGateway
<1>4. CASE what = "violation"
  BY <1>2, <1>3, <1>4, ProgressKeeps
<1>5. CASE what # "violation"
  BY <1>2, <1>3, <1>5, ProgressKeeps
<1> QED
  BY <1>4, <1>5

LEMMA SyncKeeps ==
    ASSUME GInv, NEW x \in Requests, NEW part \in Parts, Sync(x, part)
    PROVE  GInv'
<1> DEFINE w == WsOf[x]
<1>w. w \in Workspaces /\ w \in Dirs /\ x \in Dirs
  BY DirFacts
<1>t. TypeOK
  BY DEF GInv
<1>1. /\ gate[x] = "syncing"
      /\ part \notin synced[x]
      /\ file' = [file EXCEPT ![w][part] = file[x][part]]
      /\ synced' = [synced EXCEPT ![x] = @ \cup {part}]
      /\ UNCHANGED <<client, taken, gate, holder, reply, exec, outcome, faults>>
  BY DEF Sync, Part, factory, executor
<1>2. /\ file'[w][part] = file[x][part]
      /\ \A p \in Parts : p # part => file'[w][p] = file[w][p]
      /\ \A d \in Dirs : d # w => file'[d] = file[d]
      /\ \A r \in Requests : file'[r] = file[r]
  BY <1>1, <1>t, <1>w, DirFacts DEF TypeOK
<1>3. \A r \in Requests : WsOf[r] = w /\ gate[r] \in AtGateway => r = x
  BY <1>1 DEF GInv, Held, AtGateway
<1>4. /\ part \in synced'[x]
      /\ \A r \in Requests : r # x => synced'[r] = synced[r]
  BY <1>1, <1>t DEF TypeOK
<1>5. TypeOK'
  <2>1. file' \in [Dirs -> [Parts -> File \cup {NoFile}]]
    <3>1. file[w] \in [Parts -> File \cup {NoFile}] /\ file[x][part] \in File \cup {NoFile}
      BY <1>t, <1>w DEF TypeOK
    <3>2. [file[w] EXCEPT ![part] = file[x][part]] \in [Parts -> File \cup {NoFile}]
      BY <3>1
    <3> QED
      BY <1>1, <1>t, <1>w, <3>2 DEF TypeOK
  <2>2. synced' \in [Requests -> SUBSET Parts]
    BY <1>1, <1>t DEF TypeOK
  <2> QED
    BY <1>1, <1>t, <2>1, <2>2 DEF TypeOK
<1>6. Dated'
  <2> SUFFICES ASSUME NEW d \in Dirs, NEW p \in Parts
               PROVE  file'[d][p].since \subseteq Opened'
    BY DEF Dated
  <2>1. Opened' = Opened
    BY <1>1 DEF Opened
  <2>2. \E e \in Dirs, q \in Parts : file'[d][p] = file[e][q]
    BY <1>2, <1>w
  <2> QED
    BY <2>1, <2>2 DEF GInv, Dated
<1>7. Held' /\ Queued' /\ Unopened' /\ AnswerIsOwn'
  BY <1>1 DEF GInv, Held, Queued, Unopened, AnswerIsOwn
<1>8. StagedOld'
  <2> SUFFICES ASSUME NEW r \in Requests, gate[r] = "staging"
               PROVE  file'[WsOf[r]] = file[WsOf[r]]
    BY <1>1 DEF GInv, StagedOld, Fresh
  <2>1. WsOf[r] # w
    BY <1>1, <1>3 DEF AtGateway
  <2> QED
    BY <2>1, <1>2, DirFacts
<1>9. ScratchOwn'
  BY <1>2 DEF GInv, ScratchOwn, Fresh
<1>10. FoundOwn'
  <2> SUFFICES ASSUME NEW r \in Requests, NEW p \in Parts, client[r] = "waiting",
                      gate[r] # "refused", Fresh(file'[WsOf[r]][p], r)
               PROVE  file'[WsOf[r]][p].by = r
    BY <1>1 DEF FoundOwn, Fresh
  <2>1. CASE r = x
    BY <2>1, <1>2 DEF GInv, FoundOwn, ScratchOwn, Fresh
  <2>2. CASE r # x
    <3>1. WsOf[r] # w
      BY <2>2, <1>1 DEF GInv, Queued, AtGateway
    <3>2. file'[WsOf[r]] = file[WsOf[r]]
      BY <3>1, <1>2, DirFacts
    <3> QED
      BY <3>2 DEF GInv, FoundOwn, Fresh
  <2> QED
    BY <2>1, <2>2
<1>11. NotOvertaken'
  <2> SUFFICES ASSUME NEW r \in Requests, gate[r] \in {"calling", "syncing"},
                      "output" \notin synced'[r], file'[WsOf[r]]["output"] # NoFile,
                      file'[r]["output"] # NoFile
               PROVE  file'[WsOf[r]]["output"].since \subseteq file'[r]["output"].since
    BY <1>1 DEF NotOvertaken
  <2>1. CASE r = x
    <3>1. part # "output" /\ "output" \notin synced[x]
      BY <2>1, <1>1, <1>4, <1>t DEF TypeOK
    <3>2. file'[w]["output"] = file[w]["output"]
      BY <3>1, <1>2, DirFacts
    <3> QED
      BY <2>1, <3>1, <3>2, <1>2 DEF GInv, NotOvertaken
  <2>2. CASE r # x
    <3>1. WsOf[r] # w
      BY <2>2, <1>3 DEF AtGateway
    <3>2. file'[WsOf[r]] = file[WsOf[r]]
      BY <3>1, <1>2, DirFacts
    <3> QED
      BY <2>2, <3>2, <1>2, <1>4 DEF GInv, NotOvertaken
  <2> QED
    BY <2>1, <2>2
<1> QED
  BY <1>5, <1>6, <1>7, <1>8, <1>9, <1>10, <1>11 DEF GInv

LEMMA GatewayKeeps ==
    ASSUME GInv, NEW x \in Requests, Gateway(x)
    PROVE  GInv'
<1>1. TypeOK
  BY DEF GInv
<1>2. CASE Stage(x)
  BY <1>2, StageKeeps
<1>3. CASE ExecutorAnswers(x)
  <2>1. outcome[x] \in Replies \cup {"none"}
    BY <1>1 DEF TypeOK, Replies
  <2> QED
    BY <1>3, <2>1, AnsweredKeeps DEF ExecutorAnswers
<1>4. CASE ExecutorSilent(x)
  <2>1. "unavailable" \in Replies \cup {"none"}
    BY DEF Replies
  <2> QED
    BY <1>4, <2>1, AnsweredKeeps DEF ExecutorSilent
<1>5. CASE \E p \in Parts : Sync(x, p)
  BY <1>5, SyncKeeps
<1>6. CASE SyncDone(x)
  <2>1. /\ gate[x] \in AtGateway
        /\ gate' = [gate EXCEPT ![x] = "replied"]
        /\ Release(x)
        /\ UNCHANGED <<client, taken, synced, reply, exec, outcome, file, faults>>
    BY <1>6 DEF SyncDone, AtGateway, factory, executor
  <2>2. reply' \in [Requests -> Replies \cup {"none"}] /\ faults' \in Nat
    BY <1>1, <2>1 DEF TypeOK
  <2> QED
    BY <2>1, <2>2, ProgressKeeps
<1> QED
  BY <1>2, <1>3, <1>4, <1>5, <1>6 DEF Gateway

-----------------------------------------------------------------------------
(***************************************************************************)
(* The steps of the executor, and the faults.                              *)
(***************************************************************************)

\* Files and everything the invariant says of requests stay as they are.
LEMMA OnlyExecutor ==
    ASSUME GInv, TypeOK', UNCHANGED <<client, taken, gate, holder, synced, file>>
    PROVE  GInv'
<1>1. Dated' /\ Held' /\ Unopened' /\ Queued' /\ StagedOld'
  BY DEF GInv, Dated, Held, Unopened, Queued, StagedOld, Opened, Fresh
<1>2. ScratchOwn' /\ FoundOwn' /\ NotOvertaken' /\ AnswerIsOwn'
  BY DEF GInv, ScratchOwn, FoundOwn, NotOvertaken, AnswerIsOwn, Fresh
<1> QED
  BY <1>1, <1>2 DEF GInv

\* The agent changes its scratch, and what it writes is its own and new.
LEMMA ScratchKeeps ==
    ASSUME GInv, NEW x \in Requests, NEW part \in Parts,
           NEW f \in {NoFile, [by |-> x, since |-> Opened]},
           file' = [file EXCEPT ![x][part] = f],
           UNCHANGED <<client, taken, gate, holder, synced, reply, exec, outcome, faults>>
    PROVE  GInv'
<1>t. TypeOK
  BY DEF GInv
<1>0. f \in File \cup {NoFile} /\ f.since \subseteq Opened /\ (x \in f.since => f.by = x)
  BY DEF File, NoFile, Opened
<1>1. /\ file'[x][part] = f
      /\ \A p \in Parts : p # part => file'[x][p] = file[x][p]
      /\ \A d \in Dirs : d # x => file'[d] = file[d]
      /\ \A r \in Requests : file'[WsOf[r]] = file[WsOf[r]]
  BY <1>t, DirFacts DEF TypeOK
<1>2. Opened' = Opened
  BY DEF Opened
<1>3. TypeOK'
  <2>1. file[x] \in [Parts -> File \cup {NoFile}]
    BY <1>t, DirFacts DEF TypeOK
  <2>2. [file[x] EXCEPT ![part] = f] \in [Parts -> File \cup {NoFile}]
    BY <2>1, <1>0
  <2>3. file' \in [Dirs -> [Parts -> File \cup {NoFile}]]
    BY <1>t, DirFacts, <2>2 DEF TypeOK
  <2> QED
    BY <1>t, <2>3 DEF TypeOK
<1>4. Dated'
  <2> SUFFICES ASSUME NEW d \in Dirs, NEW p \in Parts
               PROVE  file'[d][p].since \subseteq Opened
    BY <1>2 DEF Dated
  <2>1. file'[d][p] = f \/ file'[d][p] = file[d][p]
    BY <1>1
  <2> QED
    BY <2>1, <1>0 DEF GInv, Dated
<1>5. Held' /\ Unopened' /\ Queued' /\ AnswerIsOwn'
  BY DEF GInv, Held, Unopened, Queued, AnswerIsOwn
<1>6. StagedOld' /\ FoundOwn'
  BY <1>1 DEF GInv, StagedOld, FoundOwn, Fresh
<1>7. ScratchOwn'
  <2> SUFFICES ASSUME NEW r \in Requests, NEW p \in Parts, Fresh(file'[r][p], r)
               PROVE  file'[r][p].by = r
    BY DEF ScratchOwn, Fresh
  <2>1. CASE r = x /\ p = part
    BY <2>1, <1>0, <1>1 DEF Fresh
  <2>2. CASE ~(r = x /\ p = part)
    <3>1. file'[r][p] = file[r][p]
      BY <2>2, <1>1, DirFacts
    <3> QED
      BY <3>1 DEF GInv, ScratchOwn, Fresh
  <2> QED
    BY <2>1, <2>2
<1>8. NotOvertaken'
  <2> SUFFICES ASSUME NEW r \in Requests, gate[r] \in {"calling", "syncing"},
                      "output" \notin synced[r], file[WsOf[r]]["output"] # NoFile,
                      file'[r]["output"] # NoFile
               PROVE  file[WsOf[r]]["output"].since \subseteq file'[r]["output"].since
    BY <1>1 DEF NotOvertaken
  <2>1. CASE r = x /\ part = "output"
    <3>1. file'[r]["output"].since = Opened
      BY <2>1, <1>1
    <3> QED
      BY <3>1, DirFacts DEF GInv, Dated
  <2>2. CASE ~(r = x /\ part = "output")
    <3>1. file'[r]["output"] = file[r]["output"]
      BY <2>2, <1>1, DirFacts
    <3> QED
      BY <3>1 DEF GInv, NotOvertaken
  <2> QED
    BY <2>1, <2>2
<1> QED
  BY <1>3, <1>4, <1>5, <1>6, <1>7, <1>8 DEF GInv

LEMMA AgentKeeps ==
    ASSUME GInv, NEW x \in Requests, Agent(x)
    PROVE  GInv'
<1>t. TypeOK
  BY DEF GInv
<1>1. CASE Run(x)
  <2>1. exec' \in [Requests -> {"none", "waiting", "running", "ended", "killed"}]
    BY <1>1, <1>t DEF Run, TypeOK
  <2>2. TypeOK' /\ UNCHANGED <<client, taken, gate, holder, synced, file>>
    BY <1>1, <1>t, <2>1 DEF Run, TypeOK, factory, gateway
  <2> QED
    BY <2>2, OnlyExecutor
<1>2. CASE Clean(x)
  <2>1. /\ file' = [file EXCEPT ![x]["output"] = NoFile]
        /\ UNCHANGED <<client, taken, gate, holder, synced, reply, exec, outcome, faults>>
    BY <1>2 DEF Clean, factory, gateway, executor
  <2> QED
    BY <2>1, ScratchKeeps, DirFacts
<1>3. CASE \E p \in Parts : Write(x, p)
  <2>1. PICK p \in Parts : Write(x, p)
    BY <1>3
  <2>2. /\ file' = [file EXCEPT ![x][p] = [by |-> x, since |-> Opened]]
        /\ UNCHANGED <<client, taken, gate, holder, synced, reply, exec, outcome, faults>>
    BY <2>1 DEF Write, factory, gateway, executor
  <2> QED
    BY <2>2, ScratchKeeps
<1>4. CASE Finish(x) \/ GiveUp(x) \/ Withhold(x)
  <2>1. PICK how \in {"ok", "failed", "violation"} : End(x, how)
    BY <1>4 DEF Finish, GiveUp, Withhold
  <2>2. /\ exec' \in [Requests -> {"none", "waiting", "running", "ended", "killed"}]
        /\ outcome' \in [Requests -> {"none", "ok", "failed", "violation"}]
    BY <2>1, <1>t DEF End, TypeOK
  <2>3. TypeOK' /\ UNCHANGED <<client, taken, gate, holder, synced, file>>
    BY <2>1, <1>t, <2>2 DEF End, TypeOK, factory, gateway
  <2> QED
    BY <2>3, OnlyExecutor
<1> QED
  BY <1>1, <1>2, <1>3, <1>4 DEF Agent

LEMMA FactoryStopsKeeps ==
    ASSUME GInv, FactoryStops
    PROVE  GInv'
<1>t. TypeOK
  BY DEF GInv
<1>1. /\ client' = [r \in Requests |-> IF client[r] = "waiting" THEN "gone" ELSE client[r]]
      /\ faults' = faults + 1
      /\ UNCHANGED <<taken, gate, holder, synced, reply, exec, outcome, file>>
  BY DEF FactoryStops, MayFail, gateway, executor
<1>2. \A r \in Requests :
          client'[r] # "waiting" /\ (client'[r] = "idle" <=> client[r] = "idle")
  BY <1>1
<1>3. TypeOK'
  BY <1>1, <1>t DEF TypeOK
<1>4. Opened' = Opened
  BY <1>2 DEF Opened
<1>5. Dated' /\ Held' /\ StagedOld' /\ ScratchOwn' /\ NotOvertaken' /\ AnswerIsOwn'
  BY <1>1, <1>4 DEF GInv, Dated, Held, StagedOld, ScratchOwn, NotOvertaken, AnswerIsOwn, Fresh
<1>6. Unopened' /\ Queued' /\ FoundOwn'
  BY <1>1, <1>2 DEF GInv, Unopened, Queued, FoundOwn, Fresh
<1> QED
  BY <1>3, <1>5, <1>6 DEF GInv

LEMMA GatewayStopsKeeps ==
    ASSUME GInv, GatewayStops
    PROVE  GInv'
<1>t. TypeOK
  BY DEF GInv
<1>1. /\ gate' = [r \in Requests |->
             IF gate[r] \in AtGateway \cup {"replied"} THEN "lost" ELSE gate[r]]
      /\ holder' = [v \in Workspaces |-> None]
      /\ faults' = faults + 1
      /\ UNCHANGED <<client, taken, synced, reply, exec, outcome, file>>
  BY DEF GatewayStops, MayFail, factory, executor
<1>2. \A r \in Requests :
          /\ gate'[r] \notin AtGateway
          /\ gate'[r] = "refused" <=> gate[r] = "refused"
          /\ gate[r] = "none" => gate'[r] = "none"
  BY <1>1 DEF AtGateway
<1>3. TypeOK'
  <2>1. gate' \in [Requests -> {"none", "refused", "replied", "lost"} \cup AtGateway]
    BY <1>1, <1>t DEF TypeOK
  <2> QED
    BY <1>1, <1>t, <2>1 DEF TypeOK
<1>4. Dated' /\ ScratchOwn' /\ FoundOwn' /\ AnswerIsOwn' /\ Unopened'
  BY <1>1, <1>2 DEF GInv, Dated, ScratchOwn, FoundOwn, AnswerIsOwn, Unopened, Opened, Fresh
<1>5. Held' /\ Queued' /\ StagedOld' /\ NotOvertaken'
  BY <1>2 DEF Held, Queued, StagedOld, NotOvertaken, AtGateway
<1> QED
  BY <1>3, <1>4, <1>5 DEF GInv

LEMMA FailureKeeps ==
    ASSUME GInv, Failure
    PROVE  GInv'
<1>t. TypeOK
  BY DEF GInv
<1>1. CASE ExecutorStops
  <2>1. exec' \in [Requests -> {"none", "waiting", "running", "ended", "killed"}]
    BY <1>1 DEF ExecutorStops
  <2>2. TypeOK' /\ UNCHANGED <<client, taken, gate, holder, synced, file>>
    BY <1>1, <1>t, <2>1 DEF ExecutorStops, MayFail, TypeOK, factory, gateway
  <2> QED
    BY <2>2, OnlyExecutor
<1>2. CASE \E r \in Requests : FileError(r)
  <2>1. PICK x \in Requests : FileError(x)
    BY <1>2
  <2>2. /\ gate[x] \in AtGateway
        /\ gate' = [gate EXCEPT ![x] = "replied"]
        /\ reply' = [reply EXCEPT ![x] = "unavailable"]
        /\ Release(x)
        /\ faults' = faults + 1
        /\ UNCHANGED <<client, taken, synced, exec, outcome, file>>
    BY <2>1 DEF FileError, MayFail, AtGateway, factory, executor
  <2>3. reply' \in [Requests -> Replies \cup {"none"}] /\ faults' \in Nat
    BY <1>t, <2>2 DEF TypeOK, Replies
  <2> QED
    BY <2>2, <2>3, ProgressKeeps
<1> QED
  BY <1>1, <1>2, FactoryStopsKeeps, GatewayStopsKeeps DEF Failure

LEMMA StutterKeeps ==
    ASSUME GInv, UNCHANGED vars
    PROVE  GInv'
<1>1. TypeOK' /\ UNCHANGED <<client, taken, gate, holder, synced, file>>
  BY DEF GInv, TypeOK, vars, factory, gateway, executor
<1> QED
  BY <1>1, OnlyExecutor

LEMMA StepInv == GInv /\ [Next]_vars => GInv'
<1> SUFFICES ASSUME GInv, [Next]_vars PROVE GInv'
  OBVIOUS
<1>1. CASE \E r \in Requests : Open(r) \/ Handler(r) \/ Gateway(r) \/ Agent(r)
  BY <1>1, OpenKeeps, HandlerKeeps, GatewayKeeps, AgentKeeps
<1>2. CASE Failure
  BY <1>2, FailureKeeps
<1>3. CASE UNCHANGED vars
  BY <1>3, StutterKeeps
<1> QED
  BY <1>1, <1>2, <1>3 DEF Next

-----------------------------------------------------------------------------
(***************************************************************************)
(* The theorems.                                                           *)
(***************************************************************************)

\* The inductive invariant holds for every number of requests and faults.
THEOREM RunnerInvariant == Spec => []GInv
BY InitInv, StepInv, PTL DEF Spec

\* Every variable of the three processes keeps its type.
THEOREM RunnerTypeCorrect == Spec => []TypeOK
<1>1. GInv => TypeOK
  BY DEF GInv
<1> QED
  BY <1>1, RunnerInvariant, PTL

\* An admitted handler goes on with the work of its own agent only.
THEOREM AnswersAreOwn == Spec => []AnswerIsOwn
<1>1. GInv => AnswerIsOwn
  BY DEF GInv
<1> QED
  BY <1>1, RunnerInvariant, PTL

\* The gateway works for one request of a workspace at a time.
THEOREM OneRequestAtWork == Spec => []OneAtWork
<1>1. GInv => OneAtWork
  BY DEF GInv, Held, OneAtWork
<1> QED
  BY <1>1, RunnerInvariant, PTL

\* Only a mirroring changes the page of a workspace.
LEMMA StepKeepsPage ==
    ASSUME GInv, [Next]_vars, NEW w \in Workspaces
    PROVE  KeepsPage(w)
<1>t. TypeOK
  BY DEF GInv
<1>w. w \in Dirs /\ \A r \in Requests : r # w
  BY RunnerConstants DEF Dirs
<1>0. ASSUME file'[w]["output"] = file[w]["output"]
      PROVE  KeepsPage(w)
  BY <1>0 DEF KeepsPage, Part
<1>1. CASE UNCHANGED file
  BY <1>0, <1>1
<1>2. ASSUME NEW x \in Requests, Open(x)
      PROVE  KeepsPage(w)
  <2>1. file' = [file EXCEPT ![WsOf[x]]["result"] = NoFile]
    BY <1>2 DEF Open
  <2>2. file'[w]["output"] = file[w]["output"]
    BY <2>1, <1>t, <1>w, DirFacts DEF TypeOK
  <2> QED
    BY <2>2, <1>0
<1>3. ASSUME NEW x \in Requests, Stage(x)
      PROVE  KeepsPage(w)
  BY <1>0, <1>3, <1>t, <1>w DEF Stage, TypeOK
<1>4. ASSUME NEW x \in Requests, NEW p \in Parts, Write(x, p)
      PROVE  KeepsPage(w)
  BY <1>0, <1>4, <1>t, <1>w DEF Write, TypeOK
<1>5. ASSUME NEW x \in Requests, Clean(x)
      PROVE  KeepsPage(w)
  BY <1>0, <1>5, <1>t, <1>w DEF Clean, TypeOK
<1>6. ASSUME NEW x \in Requests, NEW p \in Parts, Sync(x, p)
      PROVE  KeepsPage(w)
  <2>1. /\ gate[x] = "syncing"
        /\ p \notin synced[x]
        /\ file' = [file EXCEPT ![WsOf[x]][p] = file[x][p]]
    BY <1>6 DEF Sync, Part
  <2>2. CASE w = WsOf[x] /\ p = "output"
    <3>1. file'[w]["output"] = file[x]["output"]
      BY <2>1, <2>2, <1>t, <1>w, DirFacts DEF TypeOK
    <3> QED
      BY <3>1, <2>1, <2>2 DEF KeepsPage, Part, GInv, NotOvertaken
  <2>3. CASE ~(w = WsOf[x] /\ p = "output")
    <3>1. file'[w]["output"] = file[w]["output"]
      BY <2>1, <2>3, <1>t, <1>w, DirFacts DEF TypeOK
    <3> QED
      BY <3>1, <1>0
  <2> QED
    BY <2>2, <2>3
<1>7. ASSUME NEW x \in Requests, Handler(x)
      PROVE  UNCHANGED file
  BY <1>7 DEF Handler, TakeReport, Salvage, Fail, Leave
<1>8. ASSUME NEW x \in Requests, ExecutorAnswers(x) \/ ExecutorSilent(x) \/ SyncDone(x)
      PROVE  UNCHANGED file
  BY <1>8 DEF ExecutorAnswers, ExecutorSilent, Answered, SyncDone
<1>9. ASSUME NEW x \in Requests, Run(x) \/ Finish(x) \/ GiveUp(x) \/ Withhold(x)
      PROVE  UNCHANGED file
  BY <1>9 DEF Run, Finish, GiveUp, Withhold, End
<1>10. ASSUME Failure \/ UNCHANGED vars
       PROVE  UNCHANGED file
  BY <1>10 DEF Failure, FactoryStops, GatewayStops, ExecutorStops, FileError, vars
<1>11. CASE \E r \in Requests : Gateway(r)
  BY <1>11, <1>1, <1>3, <1>6, <1>8 DEF Gateway
<1>12. CASE \E r \in Requests : Agent(r)
  BY <1>12, <1>1, <1>4, <1>5, <1>9 DEF Agent
<1> QED
  BY <1>1, <1>2, <1>7, <1>10, <1>11, <1>12 DEF Next

\* Older work is never mirrored over newer work.
THEOREM PageNeverOlder == Spec => OutputNeverOlder
<1>1. GInv /\ [Next]_vars => [\A w \in Workspaces : KeepsPage(w)]_vars
  BY StepKeepsPage
<1> QED
  BY <1>1, RunnerInvariant, PTL DEF Spec, OutputNeverOlder

-----------------------------------------------------------------------------
(***************************************************************************)
(* The logins.                                                             *)
(***************************************************************************)

\* A login that ended is in a phase nothing leads out of.
EndedIsOver ==
    \A s \in Sessions : s \in finished => phase[s] \in Terminal \cup {"lost"}

\* Nothing has happened to a login that was not started.
NotStarted ==
    \A s \in Sessions : s[2] > started[s[1]] =>
        /\ phase[s] = "none" /\ child[s] = "none" /\ storing[s] = "no"
        /\ s \notin finished

\* The map knows only logins that were started.
SessionStarted == \A p \in Providers : session[p] \in Nat /\ session[p] <= started[p]

LInv == LoginTypeOK /\ OneChild /\ EndedIsOver /\ NotStarted /\ SessionStarted

LEMMA SessionPairs ==
    ASSUME NEW s \in Sessions
    PROVE  s = <<s[1], s[2]>> /\ s[1] \in Providers /\ s[2] \in Nat \ {0}
BY LoginConstants DEF Sessions

LEMMA LoginStarts ==
    ASSUME LoginInit
    PROVE  LInv
<1>1. LoginTypeOK
  BY DEF LoginInit, LoginTypeOK
<1>2. OneChild
  BY DEF LoginInit, OneChild, Running
<1>3. EndedIsOver /\ NotStarted /\ SessionStarted
  BY DEF LoginInit, EndedIsOver, NotStarted, SessionStarted
<1> QED
  BY <1>1, <1>2, <1>3 DEF LInv

\* The rest of the state: checks, credentials and disconnections.
LEMMA LoginsRest ==
    ASSUME LInv, UNCHANGED logins, LoginTypeOK'
    PROVE  LInv'
BY DEF LInv, logins, OneChild, EndedIsOver, NotStarted, SessionStarted, Sessions

\* finish: the login ends unless it had, and its child does not run on.
LEMMA FinishKeeps ==
    ASSUME LInv, NEW s \in Sessions, s[2] <= started[s[1]],
           NEW end \in Terminal, NEW children, Finishes(s, end, children),
           children = child \/ children = [child EXCEPT ![s] = "gone"],
           UNCHANGED <<started, session>>,
           \A t \in Sessions : t # s => storing'[t] = storing[t]
    PROVE  /\ OneChild' /\ EndedIsOver' /\ NotStarted' /\ SessionStarted'
           /\ phase' \in [Sessions -> {"none", "lost"} \cup OpenPhases \cup Terminal]
           /\ finished' \in SUBSET Sessions
           /\ child' \in [Sessions -> {"none", "dying", "gone"} \cup Running]
           /\ \A t \in finished : t \in finished' /\ phase'[t] = phase[t]
<1>0. LoginTypeOK
  BY DEF LInv
<1>1. /\ started \in [Providers -> Nat] /\ session \in [Providers -> Nat]
      /\ phase \in [Sessions -> {"none", "lost"} \cup OpenPhases \cup Terminal]
      /\ finished \subseteq Sessions
      /\ child \in [Sessions -> {"none", "dying", "gone"} \cup Running]
  BY <1>0 DEF LoginTypeOK
<1>2. /\ children \in [Sessions -> {"none", "dying", "gone"} \cup Running]
      /\ \A t \in Sessions : t # s => children[t] = child[t]
      /\ children[s] \in Running => children[s] = child[s]
  BY <1>1 DEF Running
<1>3. CASE Ignored(s)
  <2>1. child' = children /\ UNCHANGED <<phase, finished>>
    BY <1>3 DEF Finishes
  <2> QED
    BY <1>1, <1>2, <2>1, SessionPairs DEF LInv, OneChild, EndedIsOver, NotStarted, SessionStarted
<1>4. CASE ~Ignored(s)
  <2>1. /\ phase' = [phase EXCEPT ![s] = end]
        /\ finished' = finished \cup {s}
        /\ child' = [children EXCEPT ![s] = Signalled(children[s])]
    BY <1>4 DEF Finishes
  <2>2. s \notin finished
    BY <1>4 DEF Ignored, LInv, EndedIsOver, Terminal
  <2>3. /\ Signalled(children[s]) \in {"none", "dying", "gone"}
        /\ Signalled(children[s]) \notin Running
    BY <1>2 DEF Signalled, Running
  <2>4. OneChild'
    <3>1. ASSUME NEW t \in Sessions, child'[t] \in Running
          PROVE  session'[t[1]] = t[2] /\ t \notin finished'
      <4>1. t # s /\ child[t] \in Running
        BY <1>2, <2>1, <2>3, <3>1
      <4> QED
        BY <2>1, <4>1 DEF LInv, OneChild
    <3> QED
      BY <3>1 DEF OneChild, Running, Sessions
  <2>5. EndedIsOver'
    BY <1>1, <2>1 DEF LInv, EndedIsOver, Terminal, Sessions
  <2>6. NotStarted' /\ SessionStarted'
    <3>1. ~(s[2] > started[s[1]])
      BY <1>1, SessionPairs
    <3> QED
      BY <1>1, <1>2, <2>1, <3>1 DEF LInv, NotStarted, SessionStarted, Sessions
  <2> QED
    BY <1>1, <1>2, <2>1, <2>2, <2>3, <2>4, <2>5, <2>6
<1> QED
  BY <1>3, <1>4

\* A new login takes the place of the one that is open.
LEMMA StartKeeps ==
    ASSUME LInv, NEW p \in Providers, Start(p)
    PROVE  LInv' /\ \A t \in finished : t \in finished' /\ phase'[t] = phase[t]
<1> DEFINE new == <<p, started[p] + 1>>  old == Replaced(p)
<1>0. LoginTypeOK
  BY DEF LInv
<1>1. /\ started \in [Providers -> Nat] /\ session \in [Providers -> Nat]
      /\ phase \in [Sessions -> {"none", "lost"} \cup OpenPhases \cup Terminal]
      /\ finished \subseteq Sessions
      /\ child \in [Sessions -> {"none", "dying", "gone"} \cup Running]
  BY <1>0 DEF LoginTypeOK
<1>2. /\ started' = [started EXCEPT ![p] = started[p] + 1]
      /\ session' = [session EXCEPT ![p] = started[p] + 1]
      /\ finished' = finished \cup old
      /\ phase' = [s \in Sessions |-> IF s = new THEN "starting"
                                            ELSE IF s \in old THEN "cancelled" ELSE phase[s]]
      /\ child' = [s \in Sessions |-> IF s = new THEN "alive"
                                            ELSE IF s \in old THEN Signalled(child[s])
                                            ELSE child[s]]
      /\ UNCHANGED <<storing, credential, console>>
  BY DEF Start
<1>3. /\ old \subseteq Sessions \ finished
      /\ \A s \in Sessions : s \in old <=> s[1] = p /\ s[2] = session[p] /\ s \notin finished
      /\ \A s \in old : s[2] <= started[p] /\ s # new
  <2>1. old \subseteq Sessions \ finished
    BY DEF Replaced
  <2>2. \A s \in Sessions : s \in old <=> s[1] = p /\ s[2] = session[p] /\ s \notin finished
    BY SessionPairs DEF Replaced
  <2>3. session[p] <= started[p]
    BY DEF LInv, SessionStarted
  <2>4. \A s \in old : s[2] <= started[p] /\ s # new
    <3>1. session[p] \in Nat /\ started[p] \in Nat /\ new[2] = started[p] + 1
      BY <1>1
    <3>2. ASSUME NEW s \in old PROVE s[2] = session[p]
      BY <2>1, <2>2
    <3> HIDE DEF new, old
    <3> QED
      BY <2>3, <3>1, <3>2
  <2> QED
    BY <2>1, <2>2, <2>4
<1>4. new \notin finished
  <2>1. ASSUME new \in finished PROVE FALSE
    <3>1. new \in Sessions /\ new[2] > started[new[1]]
      BY <1>1, <2>1
    <3> QED
      BY <2>1, <3>1 DEF LInv, NotStarted
  <2> QED
    BY <2>1
<1>5. \A s \in Sessions : s = new <=> s[1] = p /\ s[2] = started[p] + 1
  BY SessionPairs
<1>6. /\ \A s \in Sessions : Signalled(child[s]) \in {"none", "dying", "gone"}
      /\ \A s \in Sessions : Signalled(child[s]) \notin Running
  BY <1>1 DEF Signalled, Running
<1> HIDE DEF new, old
<1>7. LoginTypeOK'
  <2>1. started' \in [Providers -> Nat] /\ session' \in [Providers -> Nat]
    BY <1>1, <1>2
  <2>2. phase' \in [Sessions -> {"none", "lost"} \cup OpenPhases \cup Terminal]
    BY <1>1, <1>2 DEF OpenPhases, Terminal
  <2>3. finished' \subseteq Sessions
    BY <1>1, <1>2, <1>3
  <2>4. child' \in [Sessions -> {"none", "dying", "gone"} \cup Running]
    BY <1>1, <1>2, <1>6 DEF Running
  <2>5. UNCHANGED <<storing, token, memory, leaving, probe, chip>>
    BY <1>2 DEF credential, console
  <2> QED
    BY <1>0, <2>1, <2>2, <2>3, <2>4, <2>5
       DEF LoginTypeOK, Sessions, OpenPhases, Terminal, Running, Answers,
           NoAnswer
<1>8. OneChild'
  <2>1. ASSUME NEW s \in Sessions, child'[s] \in Running
        PROVE  session'[s[1]] = s[2] /\ s \notin finished'
    <3>1. CASE s = new
      BY <1>1, <1>2, <1>3, <1>4, <1>5, <3>1
    <3>2. CASE s # new
      <4>1. s \notin old /\ child[s] \in Running
        BY <1>2, <1>6, <2>1, <3>2
      <4>2. session[s[1]] = s[2] /\ s \notin finished
        BY <4>1 DEF LInv, OneChild
      <4>3. s[1] # p /\ s[1] \in Providers
        BY <1>3, <4>1, <4>2, SessionPairs
      <4> QED
        BY <1>1, <1>2, <4>1, <4>2, <4>3
    <3> QED
      BY <3>1, <3>2
  <2> QED
    BY <2>1 DEF OneChild, Running, Sessions
<1>9. EndedIsOver' /\ \A t \in finished : t \in finished' /\ phase'[t] = phase[t]
  BY <1>1, <1>2, <1>3, <1>4 DEF LInv, EndedIsOver, Terminal, Sessions
<1>10. NotStarted'
  <2>1. ASSUME NEW s \in Sessions, s[2] > started'[s[1]]
        PROVE  /\ phase'[s] = "none" /\ child'[s] = "none" /\ storing'[s] = "no"
               /\ s \notin finished'
    <3>1. s[1] \in Providers /\ s[2] \in Nat
      BY SessionPairs
    <3>2. s[2] > started[s[1]] /\ s # new /\ s \notin old
      <4>1. started[s[1]] \in Nat /\ started[p] \in Nat
            /\ started'[s[1]] = IF s[1] = p THEN started[p] + 1 ELSE started[s[1]]
        BY <1>1, <1>2, <3>1
      <4>2. s[2] > started[s[1]] /\ s # new
        BY <1>5, <2>1, <3>1, <4>1
      <4>3. s \in old => s[2] <= started[s[1]]
        BY <1>3
      <4> QED
        BY <3>1, <4>1, <4>2, <4>3
    <3>3. phase[s] = "none" /\ child[s] = "none" /\ storing[s] = "no" /\ s \notin finished
      BY <3>2 DEF LInv, NotStarted
    <3> QED
      BY <1>2, <3>2, <3>3
  <2> QED
    BY <2>1 DEF NotStarted, Sessions
<1>11. SessionStarted'
  BY <1>1, <1>2 DEF LInv, SessionStarted
<1> QED
  BY <1>7, <1>8, <1>9, <1>10, <1>11 DEF LInv

\* With the executor every child is gone, and every open login is lost.
LEMMA StopKeeps ==
    ASSUME LInv, ExecutorEnds
    PROVE  LInv' /\ \A t \in finished : t \in finished' /\ phase'[t] = phase[t]
<1>0. LoginTypeOK
  BY DEF LInv
<1>1. /\ session' = [p \in Providers |-> 0]
      /\ phase' = [s \in Sessions |-> IF phase[s] \in OpenPhases THEN "lost" ELSE phase[s]]
      /\ finished' = finished \cup {s \in Sessions : phase[s] \in OpenPhases}
      /\ child' = [s \in Sessions |-> IF child[s] = "none" THEN "none" ELSE "gone"]
      /\ storing' = [s \in Sessions |-> IF storing[s] = "no" THEN "no" ELSE "over"]
      /\ leaving' = [p \in Providers |-> IF leaving[p] = "no" THEN "no" ELSE "answered"]
      /\ UNCHANGED <<started, probe, chip>>
  BY DEF ExecutorEnds
<1>2. token' \in [Providers -> Nat] /\ memory' \in Nat
  <2>1. CASE "claude" \in Providers
    <3>1. PICK left \in {token["claude"], 0} :
             token' = [token EXCEPT !["claude"] = left] /\ memory' = left
      BY <2>1 DEF ExecutorEnds
    <3> QED
      BY <1>0, <2>1, <3>1 DEF LoginTypeOK
  <2>2. CASE "claude" \notin Providers
    BY <1>0, <2>2 DEF LoginTypeOK, ExecutorEnds, credential
  <2> QED
    BY <2>1, <2>2
<1>3. LoginTypeOK'
  BY <1>0, <1>1, <1>2
     DEF LoginTypeOK, Sessions, OpenPhases, Terminal, Running, Answers,
         NoAnswer
<1>4. OneChild'
  BY <1>1 DEF OneChild, Running, Sessions
<1>5. EndedIsOver' /\ \A t \in finished : t \in finished' /\ phase'[t] = phase[t]
  BY <1>0, <1>1 DEF LInv, EndedIsOver, LoginTypeOK, Terminal, OpenPhases, Sessions
<1>6. NotStarted'
  <2>1. ASSUME NEW s \in Sessions, s[2] > started[s[1]]
        PROVE  /\ phase'[s] = "none" /\ child'[s] = "none" /\ storing'[s] = "no"
               /\ s \notin finished'
    <3>1. phase[s] = "none" /\ child[s] = "none" /\ storing[s] = "no" /\ s \notin finished
      BY <2>1 DEF LInv, NotStarted
    <3> QED
      BY <1>1, <3>1 DEF OpenPhases
  <2> QED
    BY <1>1, <2>1 DEF NotStarted, Sessions
<1>7. SessionStarted'
  <2>1. started \in [Providers -> Nat]
    BY <1>0 DEF LoginTypeOK
  <2> QED
    BY <1>1, <2>1 DEF SessionStarted
<1> QED
  BY <1>3, <1>4, <1>5, <1>6, <1>7 DEF LInv

\* The steps of one login: its operator, its CLI and its store.
LEMMA LoginStepKeeps ==
    ASSUME LInv, NEW s \in Sessions,
           Operator(s) \/ Cli(s) \/ Store(s)
    PROVE  LInv' /\ \A t \in finished : t \in finished' /\ phase'[t] = phase[t]
<1>0. LoginTypeOK /\ s = <<s[1], s[2]>> /\ s[1] \in Providers /\ s[2] \in Nat \ {0}
  BY SessionPairs DEF LInv
<1>1. /\ started \in [Providers -> Nat] /\ session \in [Providers -> Nat]
      /\ phase \in [Sessions -> {"none", "lost"} \cup OpenPhases \cup Terminal]
      /\ finished \subseteq Sessions
      /\ child \in [Sessions -> {"none", "dying", "gone"} \cup Running]
      /\ storing \in [Sessions -> {"no", "writing", "written", "checking", "over"}]
      /\ token \in [Providers -> Nat] /\ memory \in Nat
  BY <1>0 DEF LoginTypeOK
\* What was started: all that has a phase, a child, a store or a place in the map.
<1>2. ASSUME \/ phase[s] # "none" \/ child[s] # "none" \/ storing[s] # "no"
             \/ session[s[1]] = s[2]
      PROVE  s[2] <= started[s[1]]
  <2>1. started[s[1]] \in Nat
    BY <1>0, <1>1
  <2>2. CASE session[s[1]] = s[2]
    BY <1>0, <2>2 DEF LInv, SessionStarted
  <2>3. CASE phase[s] # "none" \/ child[s] # "none" \/ storing[s] # "no"
    BY <1>0, <2>1, <2>3 DEF LInv, NotStarted
  <2> QED
    BY <1>2, <2>2, <2>3
\* A step that is, or may be, the end of the login.
<1>3. ASSUME NEW end \in Terminal, NEW children, Finishes(s, end, children),
             children = child \/ children = [child EXCEPT ![s] = "gone"],
             s[2] <= started[s[1]], UNCHANGED <<started, session, console>>,
             storing' = storing \/ storing' = [storing EXCEPT ![s] = "over"],
             token' \in [Providers -> Nat], memory' \in Nat
      PROVE  LInv' /\ \A t \in finished : t \in finished' /\ phase'[t] = phase[t]
  <2>1. \A t \in Sessions : t # s => storing'[t] = storing[t]
    BY <1>1, <1>3
  <2>2. storing' \in [Sessions -> {"no", "writing", "written", "checking", "over"}]
    BY <1>1, <1>3
  <2>3. /\ OneChild' /\ EndedIsOver' /\ NotStarted' /\ SessionStarted'
        /\ phase' \in [Sessions -> {"none", "lost"} \cup OpenPhases \cup Terminal]
        /\ finished' \in SUBSET Sessions
        /\ child' \in [Sessions -> {"none", "dying", "gone"} \cup Running]
        /\ \A t \in finished : t \in finished' /\ phase'[t] = phase[t]
    BY <1>3, <2>1, FinishKeeps
  <2>4. LoginTypeOK'
    BY <1>0, <1>3, <2>2, <2>3
       DEF LoginTypeOK, Sessions, OpenPhases, Terminal, Running, Answers,
           NoAnswer, console
  <2> QED
    BY <2>3, <2>4 DEF LInv
\* A step that ends no login and lets no child run that did not.
<1>4. ASSUME UNCHANGED <<started, session, finished, console>>,
             s[2] <= started[s[1]],
             phase' = phase \/ (s \notin finished /\ \E o \in OpenPhases : phase' = [phase EXCEPT ![s] = o]),
             \/ child' = child
             \/ child' = [child EXCEPT ![s] = "gone"]
             \/ child[s] \in Running /\ child' = [child EXCEPT ![s] = "loggedIn"],
             \/ storing' = storing
             \/ \E w \in {"writing", "written", "checking"} : storing' = [storing EXCEPT ![s] = w],
             token' \in [Providers -> Nat], memory' \in Nat
      PROVE  LInv' /\ \A t \in finished : t \in finished' /\ phase'[t] = phase[t]
  <2>1. /\ \A t \in Sessions : t # s => phase'[t] = phase[t] /\ child'[t] = child[t]
                                             /\ storing'[t] = storing[t]
        /\ \A t \in finished : phase'[t] = phase[t]
    BY <1>1, <1>4
  <2>2. \A t \in Sessions : child'[t] \in Running => child[t] \in Running
    BY <1>1, <1>4, <2>1 DEF Running
  <2>3. phase' \in [Sessions -> {"none", "lost"} \cup OpenPhases \cup Terminal]
    <3>1. CASE phase' = phase
      BY <1>1, <3>1
    <3>2. CASE \E o \in OpenPhases : phase' = [phase EXCEPT ![s] = o]
      BY <1>1, <3>2
    <3> QED
      BY <1>4, <3>1, <3>2
  <2>4. child' \in [Sessions -> {"none", "dying", "gone"} \cup Running]
    BY <1>1, <1>4 DEF Running
  <2>5. storing' \in [Sessions -> {"no", "writing", "written", "checking", "over"}]
    BY <1>1, <1>4
  <2>6. LoginTypeOK'
    BY <1>0, <1>4, <2>3, <2>4, <2>5
       DEF LoginTypeOK, Sessions, OpenPhases, Terminal, Running, Answers,
           NoAnswer, console
  <2>7. OneChild'
    BY <1>4, <2>2 DEF LInv, OneChild, Running, Sessions
  <2>8. EndedIsOver'
    BY <1>1, <1>4, <2>1 DEF LInv, EndedIsOver, Terminal, Sessions
  <2>9. NotStarted' /\ SessionStarted'
    <3>1. \A t \in Sessions : t[2] > started[t[1]] => t # s
      BY <1>0, <1>1, <1>4
    <3> QED
      BY <1>4, <2>1, <3>1 DEF LInv, NotStarted, SessionStarted, Sessions
  <2> QED
    BY <1>4, <2>1, <2>6, <2>7, <2>8, <2>9 DEF LInv
<1> USE DEF credential, OpenPhases, Terminal
<1>5. CASE Operator(s)
  <2>1. CASE SubmitCode(s)
    BY <1>1, <1>2, <1>4, <2>1 DEF SubmitCode
  <2>2. CASE Cancel(s)
    BY <1>1, <1>2, <1>3, <2>2 DEF Cancel
  <2>3. CASE Sweep(s)
    BY <1>1, <1>2, <1>3, <2>3 DEF Sweep
  <2> QED
    BY <1>5, <2>1, <2>2, <2>3 DEF Operator
<1>6. CASE Cli(s)
  <2>0. Reads(s) => s \notin finished /\ child[s] # "none"
    BY DEF Reads, Running
  <2>1. CASE ShowsUrl(s)
    BY <1>1, <1>2, <1>4, <2>0, <2>1 DEF ShowsUrl
  <2>2. CASE RejectsCode(s)
    BY <1>1, <1>2, <1>3, <2>0, <2>2 DEF RejectsCode
  <2>3. CASE PrintsToken(s)
    BY <1>1, <1>2, <1>4, <2>0, <2>3 DEF PrintsToken
  <2>4. CASE LogsIn(s)
    <3>1. child[s] \in Running /\ child[s] # "none"
      BY <2>4 DEF LogsIn, Running
    <3>2. token' \in [Providers -> Nat]
      BY <1>0, <1>1, <2>4 DEF LogsIn
    <3> QED
      BY <1>1, <1>2, <1>4, <2>4, <3>1, <3>2 DEF LogsIn
  <2>5. CASE ChildEnds(s)
    <3>0. child[s] # "none"
      BY <2>5 DEF ChildEnds, Running
    <3>1. /\ UNCHANGED <<started, session, token, memory, console>>
          /\ \/ child' = [child EXCEPT ![s] = "gone"] /\ UNCHANGED <<phase, finished, storing>>
             \/ Finishes(s, "error", [child EXCEPT ![s] = "gone"]) /\ UNCHANGED storing
             \/ /\ s \notin finished
                /\ child' = [child EXCEPT ![s] = "gone"]
                /\ phase' = [phase EXCEPT ![s] = "submitting"]
                /\ storing' = [storing EXCEPT ![s] = "checking"]
                /\ UNCHANGED finished
      BY <2>5 DEF ChildEnds
    <3> QED
      BY <1>1, <1>2, <1>3, <1>4, <3>0, <3>1
  <2> QED
    BY <1>6, <2>1, <2>2, <2>3, <2>4, <2>5 DEF Cli
<1>7. CASE Store(s)
  <2>1. CASE WritesToken(s)
    <3>1. token' \in [Providers -> Nat]
      BY <1>0, <1>1, <2>1 DEF WritesToken
    <3> QED
      BY <1>1, <1>2, <1>4, <2>1, <3>1 DEF WritesToken
  <2>2. CASE SetsToken(s)
    BY <1>0, <1>1, <1>2, <1>4, <2>2 DEF SetsToken
  <2>3. CASE StoreFails(s)
    <3>1. token' \in [Providers -> Nat]
      <4>1. PICK left \in {token["claude"], 0} : token' = [token EXCEPT !["claude"] = left]
        BY <2>3 DEF StoreFails
      <4>2. CASE "claude" \in Providers
        BY <1>1, <4>1, <4>2
      <4>3. CASE "claude" \notin Providers
        BY <1>1, <4>1, <4>3
      <4> QED
        BY <4>2, <4>3
    <3> QED
      BY <1>1, <1>2, <1>3, <2>3, <3>1 DEF StoreFails
  <2>4. CASE CheckEnds(s)
    BY <1>1, <1>2, <1>3, <2>4 DEF CheckEnds
  <2> QED
    BY <1>7, <2>1, <2>2, <2>3, <2>4 DEF Store
<1> QED
  BY <1>5, <1>6, <1>7

LEMMA LoginSteps ==
    ASSUME LInv, [LoginNext]_loginVars
    PROVE  LInv' /\ \A t \in finished : t \in finished' /\ phase'[t] = phase[t]
<1>0. LoginTypeOK
  BY DEF LInv
<1>1. ASSUME UNCHANGED logins, LoginTypeOK'
      PROVE  LInv' /\ \A t \in finished : t \in finished' /\ phase'[t] = phase[t]
  BY <1>1, LoginsRest DEF logins
<1>2. ASSUME UNCHANGED logins, token' \in [Providers -> Nat], memory' \in Nat,
             leaving' \in [Providers -> {"no", "file", "memory", "answered"}],
             probe' \in [CheckIds -> Answers \cup {NoAnswer}],
             chip' \in [Providers -> {"none", "ok", "bad"}]
      PROVE  LoginTypeOK'
  BY <1>0, <1>2 DEF LoginTypeOK, logins, Sessions, OpenPhases, Terminal,
                    Running, Answers, NoAnswer
<1>3. /\ token \in [Providers -> Nat] /\ memory \in Nat
      /\ leaving \in [Providers -> {"no", "file", "memory", "answered"}]
      /\ probe \in [CheckIds -> Answers \cup {NoAnswer}]
      /\ chip \in [Providers -> {"none", "ok", "bad"}]
  BY <1>0 DEF LoginTypeOK
<1>4. ASSUME NEW p \in Providers, Start(p) \/ Disconnection(p) \/ Expires(p)
      PROVE  LInv' /\ \A t \in finished : t \in finished' /\ phase'[t] = phase[t]
  <2>1. CASE Start(p)
    BY <2>1, StartKeeps
  <2>2. CASE Disconnection(p) \/ Expires(p)
    <3>1. UNCHANGED logins /\ probe' = probe
      BY <2>2 DEF Disconnection, Disconnect, Removes, RemoveFails,
                  ForgetsToken, Invalidates, Expires
    <3>2. token' \in [Providers -> Nat] /\ memory' \in Nat
      BY <1>3, <2>2
         DEF Disconnection, Disconnect, Removes, RemoveFails, ForgetsToken,
             Invalidates, Expires, credential
    <3>3. leaving' \in [Providers -> {"no", "file", "memory", "answered"}]
      BY <1>3, <2>2
         DEF Disconnection, Disconnect, Removes, RemoveFails, ForgetsToken,
             Invalidates, Expires, Moves
    <3>4. chip' \in [Providers -> {"none", "ok", "bad"}]
      BY <1>3, <2>2
         DEF Disconnection, Disconnect, Removes, RemoveFails, ForgetsToken,
             Invalidates, Expires
    <3> QED
      BY <1>1, <1>2, <1>3, <3>1, <3>2, <3>3, <3>4
  <2> QED
    BY <1>4, <2>1, <2>2
<1>5. ASSUME NEW s \in Sessions, Operator(s) \/ Cli(s) \/ Store(s)
      PROVE  LInv' /\ \A t \in finished : t \in finished' /\ phase'[t] = phase[t]
  BY <1>5, LoginStepKeeps
<1>6. ASSUME NEW c \in CheckIds, WritesCheck(c)
      PROVE  LInv' /\ \A t \in finished : t \in finished' /\ phase'[t] = phase[t]
  <2>1. probe' = [probe EXCEPT ![c] = NoAnswer] /\ UNCHANGED <<logins, credential, leaving>>
    BY <1>6 DEF WritesCheck
  <2>2. chip' \in [Providers -> {"none", "ok", "bad"}]
    <3>1. chip' = [chip EXCEPT ![probe[c].of] = IF probe[c].ok THEN "ok" ELSE "bad"] \/ chip' = chip
      BY <1>6 DEF WritesCheck
    <3> QED
      BY <1>3, <3>1
  <2>3. probe' \in [CheckIds -> Answers \cup {NoAnswer}]
    BY <1>3, <2>1
  <2> QED
    BY <1>1, <1>2, <1>3, <2>1, <2>2, <2>3 DEF credential
<1>7. ASSUME NEW c \in CheckIds, NEW p \in Providers, Checked(c, p)
      PROVE  LInv' /\ \A t \in finished : t \in finished' /\ phase'[t] = phase[t]
  <2>1. PICK ok \in BOOLEAN : probe' = [probe EXCEPT ![c] = [of |-> p, ok |-> ok]]
    BY <1>7 DEF Checked
  <2>2. probe' \in [CheckIds -> Answers \cup {NoAnswer}]
    <3>1. [of |-> p, ok |-> ok] \in Answers
      BY DEF Answers
    <3> QED
      BY <1>3, <2>1, <3>1
  <2>3. UNCHANGED <<logins, credential, leaving, chip>>
    BY <1>7 DEF Checked
  <2> QED
    BY <1>1, <1>2, <1>3, <2>2, <2>3 DEF credential
<1>8. CASE ExecutorEnds
  BY <1>8, StopKeeps
<1>9. CASE FactoryEnds
  <2>1. /\ probe' = [c \in CheckIds |-> NoAnswer]
        /\ leaving' = [p \in Providers |-> IF leaving[p] = "answered" THEN "no" ELSE leaving[p]]
        /\ UNCHANGED <<logins, credential, chip>>
    BY <1>9 DEF FactoryEnds
  <2>2. probe' \in [CheckIds -> Answers \cup {NoAnswer}]
    BY <2>1
  <2>3. leaving' \in [Providers -> {"no", "file", "memory", "answered"}]
    BY <1>3, <2>1
  <2> QED
    BY <1>1, <1>2, <1>3, <2>1, <2>2, <2>3 DEF credential
<1>10. CASE UNCHANGED loginVars
  <2>1. UNCHANGED <<logins, credential, console>>
    BY <1>10 DEF loginVars
  <2> QED
    BY <1>1, <1>2, <1>3, <2>1 DEF credential, console
<1> QED
  BY <1>4, <1>5, <1>6, <1>7, <1>8, <1>9, <1>10 DEF LoginNext

\* Whatever bounds the logins, started, cancelled, timed out, stored, checked,
\* disconnected and lost in any order, keep LInv.
LEMMA LoginInductive == LoginSpec => []LInv
<1>1. LoginInit => LInv
  BY LoginStarts
<1>2. LInv /\ [LoginNext]_loginVars => LInv'
  BY LoginSteps
<1> QED
  BY <1>1, <1>2, PTL DEF LoginSpec

\* The sessions, their children and stores, the credentials and the cached checks keep
\* their types.
THEOREM LoginTypeCorrect == LoginSpec => []LoginTypeOK
<1>1. LInv => LoginTypeOK
  BY DEF LInv
<1> QED
  BY <1>1, LoginInductive, PTL

\* startSession and finish (api/accounts.ts): a child that runs and was not told to end
\* belongs to the provider's one session, and that session is open.
THEOREM OneChildOfAProvider == LoginSpec => []OneChild
<1>1. LInv => OneChild
  BY DEF LInv
<1> QED
  BY <1>1, LoginInductive, PTL

\* finish's guard: nothing that comes late, be it output, the end of the child, a store, a
\* check, the timer or the operator, changes how a login ended.
THEOREM EndedLoginsStay == LoginSpec => TerminalIsFinal
<1>1. LInv /\ [LoginNext]_loginVars
        => [\A s \in finished : s \in finished' /\ phase'[s] = phase[s]]_loginVars
  BY LoginSteps
<1> QED
  BY <1>1, LoginInductive, PTL DEF LoginSpec, TerminalIsFinal
=============================================================================
