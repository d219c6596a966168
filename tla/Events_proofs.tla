----------------------------- MODULE Events_proofs -----------------------------
(***************************************************************************)
(* Proofs about the events GWCloud takes over from outside.  GWFlowIndex,  *)
(* for every set of superevents, any cap and any number of edits: types,   *)
(* and that what the portal lists is indexed, still owed, or given up at   *)
(* the cap.  GwoscIngest, for any catalogue, any configurations and names, *)
(* any number of retries and kills: what the completed_jobs table says of  *)
(* an event is true of GWCloud and final.                                  *)
(***************************************************************************)
EXTENDS GWFlowIndex, GwoscIngest, TLAPS

-------------------------------------------------------------------------------
(* The gwflow listing and its index.                                        *)

\* The superevent whose document is being written has an active row, unless a late
\* request pruned it; what this run has still to do, or is doing, is owed unless the
\* portal dropped it.
WorkInv ==
  /\ pc = "doc" => at \in Sname /\ at \notin todo
                  /\ (row[at] = "active" \/ (row[at] = "pruned" /\ at \in blind))
                  /\ (at \in present => at \in owed)
  /\ todo \cap present \subseteq owed
  /\ es # NoLoad => es.at \in Sname

\* What this run takes for gone and is listed was listed again since, or was left
\* out by the names listing.
PruneInv ==
  /\ pc = "list" => present \ upstream \subseteq owed \cup blind
  /\ pc = "prune" => prune \cap present \subseteq owed \cup blind
  /\ pc # "prune" => prune = {}

\* A superevent that nothing brings again, below the cap, is active and indexed, or
\* pruned for a names listing that left it out, or by a late request.
Listed(s) ==
  s \in present /\ s \notin owed /\ ~GivenUp(s) =>
    \/ row[s] = "pruned" /\ s \in blind
    \/ row[s] = "active" /\ (s \in overtaken \/ (doc[s].there /\ ~doc[s].pruned))

IInv == TypeOK /\ WorkInv /\ PruneInv /\ \A s \in Sname : Listed(s)

\* What a failure leaves: the superevent is owed, or its count is at the cap.
LEMMA FailureIsOwedOrCapped ==
  ASSUME TypeOK, NEW s \in Sname, RowFails(s)
  PROVE  /\ fails' \in [Sname -> 0..RetryCap] /\ owed' \subseteq owed
         /\ \A r \in Sname : r # s => fails'[r] = fails[r] /\ (r \in owed' <=> r \in owed)
         /\ s \in owed => s \in owed' \/ fails'[s] >= RetryCap
<1> USE BoundAssumption DEF TypeOK
<1>1. fails[s] \in 0..RetryCap /\ fails'[s] = IF fails[s] < RetryCap THEN fails[s] + 1 ELSE fails[s]
  BY DEF RowFails
<1>2. fails'[s] \in 0..RetryCap /\ (GivesUp(s) => fails'[s] >= RetryCap)
  BY <1>1 DEF GivesUp
<1>3. fails' \in [Sname -> 0..RetryCap] /\ \A r \in Sname : r # s => fails'[r] = fails[r]
  <2> HIDE BoundAssumption
  <2>1. fails' = [fails EXCEPT ![s] = fails'[s]]
    BY DEF RowFails
  <2>2. QED
    BY <1>2, <2>1
<1>4. owed' = owed \/ (GivesUp(s) /\ owed' = owed \ {s})
  BY DEF RowFails
<1>5. QED
  BY <1>2, <1>3, <1>4

\* IInv is inductive: below the cap only UpdateDoc takes a superevent off the
\* list, and it has just written its document from an active row; a prune that is
\* overtaken by a commit meets a superevent that is owed.
THEOREM IndexInvariant == Spec => []IInv
<1> USE BoundAssumption DEF portal, cron, past
<1>1. Init => IInv
  BY DEF Init, IInv, TypeOK, WorkInv, PruneInv, Listed, Doc, NoDoc, NoLoad, NoSname
<1>2. ASSUME IInv, [Next]_vars PROVE IInv'
  <2> USE <1>2 DEF IInv, TypeOK, WorkInv, PruneInv, Listed, GivenUp, Doc
  <2>1. ASSUME NEW s \in Sname, PortalCommits(s) PROVE IInv'
    BY <2>1 DEF PortalCommits, Edit
  <2>2. ASSUME NEW s \in Sname, PortalRemoves(s) PROVE IInv'
    BY <2>2 DEF PortalRemoves, Edit
  <2>3. CASE Refresh
    BY <2>3 DEF Refresh
  <2>4. CASE StartRun
    BY <2>4 DEF StartRun
  <2>5. ASSUME NEW s \in Sname, UpsertRow(s) PROVE IInv'
    <3>1. row' \in [Sname -> {"none", "active", "pruned"}] /\ row'[s] = "active"
          /\ \A r \in Sname \ {s} : row'[r] = row[r]
      BY <2>5 DEF UpsertRow, Activated
    <3>2. QED
      BY <2>5, <3>1 DEF UpsertRow
  <2>6. ASSUME NEW s \in Sname, UpsertFails(s) PROVE IInv'
    BY <2>6, FailureIsOwedOrCapped DEF UpsertFails
  <2>7. CASE UpdateDoc
    <3>1. doc' \in [Sname -> Doc] /\ fails' \in [Sname -> 0..RetryCap]
      BY <2>7 DEF UpdateDoc, Written
    <3>2. /\ doc'[at].there /\ ~doc'[at].pruned
          /\ \A s \in Sname \ {at} : doc'[s] = doc[s] /\ fails'[s] = fails[s]
      BY <2>7 DEF UpdateDoc, Written
    <3>3. QED
      BY <2>7, <3>1, <3>2 DEF UpdateDoc, NoSname
  <2>8. CASE DocFails
    BY <2>8, FailureIsOwedOrCapped DEF DocFails, NoSname
  <2>9. CASE ListPortal
    BY <2>9 DEF ListPortal
  <2>10. CASE ListCloud
    <3>1. Listing \subseteq Sname
      BY DEF Listing, Hits
    <3>2. QED
      BY <2>10, <3>1 DEF ListCloud
  <2>11. ASSUME NEW s \in Sname, PruneRow(s) PROVE IInv'
    <3>1. row' \in [Sname -> {"none", "active", "pruned"}] /\ row'[s] = "pruned"
          /\ \A r \in Sname \ {s} : row'[r] = row[r]
      BY <2>11 DEF PruneRow
    <3>2. QED
      BY <2>11, <3>1 DEF PruneRow
  <2>12. CASE EndRun
    BY <2>12 DEF EndRun
  <2>13. ASSUME NEW s \in Sname, EsLoad(s) PROVE IInv'
    BY <2>13 DEF EsLoad
  <2>14. CASE EsWrite
    <3>1. /\ doc' \in [Sname -> Doc] /\ doc'[es.at].there /\ doc'[es.at].pruned = es.pruned
          /\ \A s \in Sname \ {es.at} : doc'[s] = doc[s]
      BY <2>14 DEF EsWrite
    <3>2. /\ overtaken' \subseteq Sname
          /\ \A s \in Sname \ {es.at} : s \in overtaken' <=> s \in overtaken
          /\ es.pruned # (row[es.at] = "pruned") => es.at \in overtaken'
      BY <2>14 DEF EsWrite
    <3>3. QED
      BY <2>14, <3>1, <3>2 DEF EsWrite, NoLoad
  <2>15. CASE EsFails
    BY <2>15 DEF EsFails, NoLoad
  <2>16. CASE RunStops
    <3>1. doc' \in [Sname -> Doc] /\ late' \subseteq Sname
          /\ \A s \in Sname : doc'[s] = doc[s] \/ (doc'[s].there /\ ~doc'[s].pruned)
      <4>1. CASE pc = "doc" /\ doc' = Written(at)
        BY <2>16, <4>1 DEF RunStops, Written
      <4>2. CASE UNCHANGED doc
        BY <2>16, <4>2 DEF RunStops
      <4>3. QED
        BY <2>16, <4>1, <4>2 DEF RunStops
    <3>2. edits' \in 0..MaxEdits
      BY <2>16 DEF RunStops, Edit
    <3>3. QED
      BY <2>16, <3>1, <3>2 DEF RunStops
  <2>17. ASSUME NEW s \in late, LatePrune(s) PROVE IInv'
    <3>1. row' \in [Sname -> {"none", "active", "pruned"}] /\ row'[s] = "pruned"
          /\ \A r \in Sname \ {s} : row'[r] = row[r]
      BY <2>17 DEF LatePrune
    <3>2. s \in Sname /\ blind' = blind \cup {s} /\ late' = late \ {s}
      BY <2>17 DEF LatePrune
    <3>3. QED
      BY <2>17, <3>1, <3>2 DEF LatePrune
  <2>18. CASE UNCHANGED vars
    BY <2>18 DEF vars
  <2>19. QED
    BY <2>1, <2>2, <2>3, <2>4, <2>5, <2>6, <2>7, <2>8, <2>9, <2>10, <2>11, <2>12, <2>13,
       <2>14, <2>15, <2>16, <2>17, <2>18 DEF Next, Cron
<1>3. QED
  BY <1>1, <1>2, PTL DEF Spec

-------------------------------------------------------------------------------
\* The types of rows, documents, counts and both processes hold.
THEOREM TypesHold == Spec => []TypeOK
BY IndexInvariant, PTL DEF IInv

\* A superevent the portal lists is active and indexed, comes again in the stream,
\* or was given up at the cap, but for what a short names listing, a prune that
\* nobody waits for any more, or a document written from an old row did to it.
THEOREM ListedIsIndexed == Spec => []IndexedUnlessOwed
<1>1. IInv => IndexedUnlessOwed
  BY DEF IInv, TypeOK, Listed, IndexedUnlessOwed
<1>2. QED
  BY <1>1, IndexInvariant, PTL

-------------------------------------------------------------------------------
(* The GWOSC cron.                                                          *)

\* An event is under way.
Working == step \notin {"idle", "pick"}

\* What a run has still to look at is open and not under way; the event under way
\* is open and below the cap.
IngestInv ==
  /\ \A e \in queue : closed[e] = "open" /\ e # cur
  /\ cur \in Event <=> Working
  /\ cur \in Event => closed[cur] = "open" /\ errors[cur] < MaxRetry

\* What all_succeeded and none_succeeded say of the configurations tried so far.
UploadInv ==
  /\ step \notin {"upload", "label"} => noneOk
  /\ step \in {"upload", "label"} =>
       /\ keys \subseteq Config[cur]
       /\ allOk => \A k \in Config[cur] \ keys : Whole(cur, k)
       /\ ~noneOk => \E k \in Config[cur] : Whole(cur, k)
  /\ step = "label" =>
       /\ \A k \in Key : First(k, keys) => <<cur, k>> \in jobs
       /\ Name[cur] # NoName

GwoscInv == GwoscTypeOK /\ IngestInv /\ UploadInv /\ SuccessIsWhole /\ ClosedPartialHasJob

\* Jobs and labels are not taken back, and with them what was said of an event.
LEMMA WholeStays ==
  ASSUME jobs \subseteq jobs', labelled \subseteq labelled'
  PROVE  /\ \A e, k : Whole(e, k) => Whole(e, k)'
         /\ UNCHANGED closed /\ SuccessIsWhole => SuccessIsWhole'
         /\ UNCHANGED closed /\ ClosedPartialHasJob => ClosedPartialHasJob'
<1>1. \A e, k : Whole(e, k) => Whole(e, k)'
  BY DEF Whole
<1>2. ASSUME UNCHANGED closed, SuccessIsWhole PROVE SuccessIsWhole'
  BY <1>1, <1>2 DEF SuccessIsWhole
<1>3. ASSUME UNCHANGED closed, ClosedPartialHasJob PROVE ClosedPartialHasJob'
  BY <1>1, <1>3 DEF ClosedPartialHasJob
<1>4. QED
  BY <1>1, <1>2, <1>3

\* An event that ends with a failure is counted, and the next one is taken.
LEMMA FailureKeeps ==
  ASSUME GwoscInv, Working, Failure, UNCHANGED <<catalog, closed, labelled, kills>>,
         jobs \subseteq jobs', jobs' \subseteq Event \X Key,
         ids \subseteq ids', ids' \subseteq {Name[e] : e \in Event}
  PROVE  GwoscInv'
<1> USE RankAssumption, CountAssumption DEF GwoscInv, GwoscTypeOK, NoEvent
<1>1. /\ step' = "pick" /\ cur' = NoEvent /\ keys' = {} /\ allOk' = TRUE /\ noneOk' = TRUE
      /\ UNCHANGED <<queue, known>> /\ errors' = [errors EXCEPT ![cur] = @ + 1]
  BY DEF Failure, NextEvent, Recorded
<1>2. cur \in Event /\ errors[cur] < MaxRetry
  BY DEF IngestInv
<1>3. errors' \in [Event -> 0..MaxRetry]
  <2>1. \A n \in 0..MaxRetry : n < MaxRetry => n + 1 \in 0..MaxRetry
    BY CountAssumption
  <2>2. errors \in [Event -> 0..MaxRetry] /\ errors[cur] + 1 \in 0..MaxRetry
    BY <1>2, <2>1
  <2>3. QED
    BY <1>1, <1>2, <2>2
<1>4. GwoscTypeOK'
  BY <1>1, <1>3
<1>5. IngestInv'
  BY <1>1 DEF IngestInv, Working
<1>6. UploadInv'
  BY <1>1 DEF UploadInv
<1>7. QED
  BY <1>4, <1>5, <1>6, WholeStays

\* A run that ends, for whatever reason, leaves nothing behind but what it stored.
LEMMA EndKeeps ==
  ASSUME GwoscInv, EndIngest, UNCHANGED <<catalog, closed, errors, cloud>>,
         kills' \in 0..MaxKills
  PROVE  GwoscInv'
<1> USE RankAssumption DEF GwoscInv, GwoscTypeOK, NoEvent, cloud
<1>1. GwoscTypeOK'
  BY DEF EndIngest
<1>2. IngestInv' /\ UploadInv'
  BY DEF EndIngest, IngestInv, UploadInv, Working
<1>3. QED
  BY <1>1, <1>2, WholeStays

\* While an event is under way, the others are left alone.
LEMMA UploadKeeps ==
  ASSUME GwoscInv, Working, Working', GwoscTypeOK', UploadInv',
         UNCHANGED <<closed, errors, queue, cur>>,
         jobs \subseteq jobs', labelled \subseteq labelled'
  PROVE  GwoscInv'
<1>1. IngestInv'
  BY DEF GwoscInv, IngestInv
<1>2. QED
  BY <1>1, WholeStays DEF GwoscInv

\* GwoscInv is inductive: an event is closed as a success only after each key was
\* tried in this run and none failed, and what was uploaded is never taken back.
THEOREM GwoscInvariant == GwoscSpec => []GwoscInv
<1> USE RankAssumption, DataAssumption, CountAssumption DEF NoEvent
<1>1. GwoscInit => GwoscInv
  BY DEF GwoscInit, GwoscInv, GwoscTypeOK, IngestInv, Working, UploadInv, SuccessIsWhole,
         ClosedPartialHasJob
<1>2. ASSUME GwoscInv, [GwoscNext]_gwoscVars PROVE GwoscInv'
  <2> USE <1>2 DEF GwoscInv, GwoscTypeOK, cloud
  <2>1. ASSUME NEW e \in Event, Publish(e) PROVE GwoscInv'
    <3>1. GwoscTypeOK' /\ IngestInv' /\ UploadInv'
      BY <2>1 DEF Publish, local, IngestInv, Working, UploadInv, Whole, First
    <3>2. QED
      BY <2>1, <3>1, WholeStays DEF Publish
  <2>2. CASE StartIngest
    <3>1. GwoscTypeOK' /\ IngestInv' /\ UploadInv'
      BY <2>2 DEF StartIngest, InDelta, IngestInv, Working, UploadInv
    <3>2. QED
      BY <2>2, <3>1, WholeStays DEF StartIngest
  <2>3. ASSUME NEW e \in Event, GiveUp(e) PROVE GwoscInv'
    <3>1. GwoscTypeOK' /\ IngestInv' /\ UploadInv'
      BY <2>3 DEF GiveUp, IngestInv, Working, UploadInv
    <3>2. SuccessIsWhole' /\ ClosedPartialHasJob'
      BY <2>3 DEF GiveUp, SuccessIsWhole, ClosedPartialHasJob, Whole
    <3>3. QED
      BY <3>1, <3>2
  <2>4. ASSUME NEW e \in Event, TakeEvent(e) PROVE GwoscInv'
    <3>1. e \in queue /\ errors[e] < MaxRetry
      <4>1. e \in queue /\ ~(errors[e] >= MaxRetry)
        BY <2>4 DEF TakeEvent, First, AtCap
      <4>2. errors[e] \in 0..MaxRetry
        OBVIOUS
      <4>3. QED
        BY <4>1, <4>2
    <3>2. GwoscTypeOK' /\ IngestInv' /\ UploadInv'
      BY <2>4, <3>1 DEF TakeEvent, IngestInv, Working, UploadInv
    <3>3. QED
      BY <2>4, <3>2, WholeStays DEF TakeEvent
  <2>5. CASE EndOfList
    BY <2>5, EndKeeps DEF EndOfList
  <2>6. CASE EventJsonFails \/ DownloadFails \/ ReadFails \/ AllFailed
    BY <2>6, FailureKeeps DEF EventJsonFails, DownloadFails, ReadFails, AllFailed, Uploaded,
                              Working
  <2>7. CASE CloseUnfit
    <3>1. cur \in Event
      BY <2>7 DEF CloseUnfit, IngestInv, Working
    <3>2. GwoscTypeOK' /\ IngestInv' /\ UploadInv'
      BY <2>7, <3>1 DEF CloseUnfit, NextEvent, IngestInv, Working, UploadInv
    <3>3. SuccessIsWhole' /\ ClosedPartialHasJob'
      BY <2>7, <3>1 DEF CloseUnfit, SuccessIsWhole, ClosedPartialHasJob, Whole
    <3>4. QED
      BY <3>2, <3>3
  <2>8. CASE IdKnown \/ CreateId \/ DownloadOk
    <3>1. Working /\ Working' /\ cur \in Event
      BY <2>8 DEF IdKnown, CreateId, DownloadOk, NeedsId, Fit, Download, Working, IngestInv
    <3>2. GwoscTypeOK' /\ UploadInv'
      BY <2>8, <3>1 DEF IdKnown, CreateId, DownloadOk, NeedsId, Fit, Download, UploadInv
    <3>3. QED
      BY <2>8, <3>1, <3>2, UploadKeeps DEF IdKnown, CreateId, DownloadOk, Download
  <2>9. CASE CreateIdFails
    <3>1. Working /\ cur \in Event
      BY <2>9 DEF CreateIdFails, NeedsId, Fit, Working, IngestInv
    <3>2. QED
      BY <2>9, <3>1, FailureKeeps DEF CreateIdFails
  <2>10. ASSUME NEW k \in Key, Upload(k) PROVE GwoscInv'
    <3>1. Working /\ Working' /\ cur \in Event
      BY <2>10 DEF Upload, Working, IngestInv
    <3>2. GwoscTypeOK'
      <4>1. jobs' \subseteq Event \X Key /\ labelled' \subseteq jobs'
        BY <2>10, <3>1 DEF Upload
      <4>2. keys' \subseteq Key /\ noneOk' \in BOOLEAN /\ step' \in {"upload", "label"}
        BY <2>10 DEF Upload
      <4>3. QED
        BY <2>10, <4>1, <4>2 DEF Upload
    <3>3. jobs \subseteq jobs' /\ labelled \subseteq labelled'
      BY <2>10 DEF Upload
    <3>4. UploadInv'
      <4>1. \A i \in Config[cur] : Whole(cur, i) => Whole(cur, i)'
        BY <2>10, <3>3, WholeStays DEF Upload
      <4>2. CASE Name[cur] = NoName
        <5>1. noneOk' = FALSE /\ keys' = keys \ {k} /\ step' = "upload"
          BY <2>10, <4>2 DEF Upload
        <5>2. k \in Config[cur] /\ Whole(cur, k)'
          BY <2>10, <4>2 DEF Upload, First, UploadInv, Whole
        <5>3. QED
          BY <2>10, <4>1, <5>1, <5>2 DEF Upload, UploadInv
      <4>3. CASE Name[cur] # NoName
        <5>1. step' = "label" /\ UNCHANGED <<noneOk, keys>> /\ <<cur, k>> \in jobs'
          BY <2>10, <4>3 DEF Upload
        <5>2. \A i \in Key : First(i, keys) => i = k
          BY <2>10 DEF Upload, First
        <5>3. QED
          BY <2>10, <4>1, <4>3, <5>1, <5>2 DEF Upload, UploadInv, First
      <4>4. QED
        BY <4>2, <4>3
    <3>5. QED
      BY <2>10, <3>1, <3>2, <3>3, <3>4, UploadKeeps DEF Upload
  <2>11. ASSUME NEW k \in Key, UploadFails(k) PROVE GwoscInv'
    <3>1. Working /\ Working' /\ cur \in Event
      BY <2>11 DEF UploadFails, KeyFails, Working, IngestInv
    <3>2. GwoscTypeOK'
      <4>1. jobs' \subseteq Event \X Key /\ labelled' \subseteq jobs'
        BY <2>11, <3>1 DEF UploadFails
      <4>2. QED
        BY <2>11, <4>1 DEF UploadFails, KeyFails, Remembers
    <3>3. jobs \subseteq jobs' /\ labelled \subseteq labelled'
      BY <2>11 DEF UploadFails
    <3>4. UploadInv'
      BY <2>11, <3>3, WholeStays DEF UploadFails, KeyFails, Remembers, UploadInv
    <3>5. QED
      BY <2>11, <3>1, <3>2, <3>3, <3>4, UploadKeeps DEF UploadFails
  <2>12. ASSUME NEW k \in Key, Label(k) PROVE GwoscInv'
    <3>1. Working /\ Working' /\ cur \in Event /\ <<cur, k>> \in jobs
      BY <2>12 DEF Label, Working, IngestInv, UploadInv
    <3>2. GwoscTypeOK'
      BY <2>12, <3>1 DEF Label
    <3>3. jobs \subseteq jobs' /\ labelled \subseteq labelled'
      BY <2>12 DEF Label
    <3>4. UploadInv'
      <4>1. \A i \in Config[cur] : Whole(cur, i) => Whole(cur, i)'
        BY <2>12, <3>3, WholeStays DEF Label
      <4>2. k \in Config[cur] /\ Whole(cur, k)'
        BY <2>12, <3>1 DEF Label, First, UploadInv, Whole
      <4>3. QED
        BY <2>12, <4>1, <4>2 DEF Label, UploadInv
    <3>5. QED
      BY <2>12, <3>1, <3>2, <3>3, <3>4, UploadKeeps DEF Label
  <2>13. ASSUME NEW k \in Key, LabelFails(k) PROVE GwoscInv'
    <3>1. Working /\ Working' /\ cur \in Event /\ <<cur, k>> \in jobs
      BY <2>13 DEF LabelFails, KeyFails, Working, IngestInv, UploadInv
    <3>2. GwoscTypeOK'
      BY <2>13, <3>1 DEF LabelFails, KeyFails, Remembers
    <3>3. jobs \subseteq jobs' /\ labelled \subseteq labelled'
      BY <2>13 DEF LabelFails
    <3>4. UploadInv'
      BY <2>13, <3>3, WholeStays DEF LabelFails, KeyFails, Remembers, UploadInv
    <3>5. QED
      BY <2>13, <3>1, <3>2, <3>3, <3>4, UploadKeeps DEF LabelFails
  <2>14. CASE Save
    <3>1. cur \in Event /\ EndIngest /\ UNCHANGED <<catalog, errors, cloud, kills>>
      BY <2>14 DEF Save, Uploaded, IngestInv, Working
    <3>2. closed' \in [Event -> {"open", "retries", "unfit", "success", "partial", "empty"}]
      BY <2>14 DEF Save
    <3>3. GwoscTypeOK' /\ IngestInv' /\ UploadInv'
      BY <3>1, <3>2 DEF EndIngest, IngestInv, Working, UploadInv
    <3>4. \A e, k : Whole(e, k)' <=> Whole(e, k)
      BY <3>1 DEF Whole
    <3>5. /\ allOk => \A k \in Config[cur] : Whole(cur, k)
          /\ ~noneOk => \E k \in Config[cur] : Whole(cur, k)
      BY <2>14 DEF Save, Uploaded, UploadInv
    <3>6. /\ closed'[cur] = "success" => allOk /\ ~noneOk
          /\ closed'[cur] = "partial" => ~noneOk
          /\ \A e \in Event \ {cur} : closed'[e] = closed[e]
      BY <2>14, <3>1 DEF Save, Settled
    <3>7. SuccessIsWhole' /\ ClosedPartialHasJob'
      BY <3>4, <3>5, <3>6 DEF SuccessIsWhole, ClosedPartialHasJob
    <3>8. QED
      BY <3>3, <3>7
  <2>15. CASE Kill
    BY <2>15, EndKeeps DEF Kill
  <2>16. CASE UNCHANGED gwoscVars
    <3>1. IngestInv' /\ UploadInv' /\ GwoscTypeOK'
      BY <2>16 DEF gwoscVars, local, IngestInv, Working, UploadInv, Whole, First
    <3>2. QED
      BY <2>16, <3>1, WholeStays DEF gwoscVars
  <2>17. QED
    BY <2>1, <2>2, <2>3, <2>4, <2>5, <2>6, <2>7, <2>8, <2>9, <2>10, <2>11, <2>12, <2>13,
       <2>14, <2>15, <2>16 DEF GwoscNext, RunStep
<1>3. QED
  BY <1>1, <1>2, PTL DEF GwoscSpec

-------------------------------------------------------------------------------
\* The tables of the cron, the records of GWCloud and the run keep their types;
\* no event is tried more often than the cap allows.
THEOREM GwoscTypesHold == GwoscSpec => []GwoscTypeOK
BY GwoscInvariant, PTL DEF GwoscInv

\* An event closed as a success has each configuration on GWCloud, labelled.
THEOREM SuccessesAreWhole == GwoscSpec => []SuccessIsWhole
BY GwoscInvariant, PTL DEF GwoscInv

\* An event closed after a failed upload has a job to show for it.
THEOREM PartialsHaveJobs == GwoscSpec => []ClosedPartialHasJob
BY GwoscInvariant, PTL DEF GwoscInv

\* The cron implements VerdictSpec: what GWCloud stores is a Progress, and what is
\* written to completed_jobs is a Judge of an event that was open, borne out by it.
THEOREM EventsAreJudgedOnce == GwoscSpec => EventsAreJudged
<1> DEFINE good == {j \in jobs : Whole(j[1], j[2])}
           Said(v) == CASE v = "open" -> "open"
                        [] v = "success" -> "whole"
                        [] v = "partial" -> "some"
                        [] v \in {"retries", "unfit", "empty"} -> "given up"
           said == [e \in Event |-> Said(closed[e])]
<1>1. GwoscInit => EventVerdict!Init
  BY DEF GwoscInit, EventVerdict!Init
<1>2. ASSUME GwoscInv, [GwoscNext]_gwoscVars
      PROVE  [EventVerdict!Next]_<<good, {}, said>>
  <2> USE <1>2 DEF GwoscInv, GwoscTypeOK
  <2>1. ASSUME NEW e \in Event, NEW v \in {"retries", "unfit", "success", "partial", "empty"},
               closed[e] = "open", closed' = [closed EXCEPT ![e] = v],
               UNCHANGED <<jobs, labelled>>,
               v = "success" => Config[e] # {} /\ \A k \in Config[e] : Whole(e, k),
               v = "partial" => \E k \in Config[e] : Whole(e, k)
        PROVE  EventVerdict!Judge(e)
    <3>1. said[e] = "open" /\ Said(v) \in EventVerdict!Verdict
      BY <2>1 DEF EventVerdict!Verdict
    <3>2. said' = [said EXCEPT ![e] = Said(v)]
      BY <2>1
    <3>3. UNCHANGED <<good, {}>>
      BY <2>1 DEF Whole
    <3>4. \A k \in Config[e] : Whole(e, k) => <<e, k>> \in good
      BY DEF Whole
    <3>5. EventVerdict!BornOut(e, Said(v))
      <4>1. CASE v = "success"
        <5>1. EventVerdict!Of(e) # {} /\ EventVerdict!Of(e) \subseteq good
          <6>1. PICK k \in Config[e] : Whole(e, k)
            BY <2>1, <4>1
          <6>2. <<e, k>> \in EventVerdict!Of(e)
            BY <6>1 DEF EventVerdict!Of
          <6>3. QED
            BY <2>1, <3>4, <4>1, <6>2 DEF EventVerdict!Of
        <5>2. QED
          BY <4>1, <5>1 DEF EventVerdict!BornOut
      <4>2. CASE v = "partial"
        <5>1. EventVerdict!Of(e) \cap good # {}
          BY <2>1, <3>4, <4>2 DEF EventVerdict!Of
        <5>2. QED
          BY <4>2, <5>1 DEF EventVerdict!BornOut
      <4>3. CASE v \in {"retries", "unfit", "empty"}
        BY <4>3 DEF EventVerdict!BornOut
      <4>4. QED
        BY <4>1, <4>2, <4>3
    <3>6. QED
      BY <3>1, <3>2, <3>3, <3>5 DEF EventVerdict!Judge
  <2>2. ASSUME UNCHANGED closed, jobs \subseteq jobs', labelled \subseteq labelled'
        PROVE  EventVerdict!Progress
    <3>1. good \subseteq good'
      BY <2>2, WholeStays
    <3>2. said' = said
      BY <2>2
    <3>3. QED
      BY <3>1, <3>2 DEF EventVerdict!Progress
  <2>3. ASSUME NEW e \in Event, GiveUp(e) PROVE EventVerdict!Judge(e)
    BY <2>1, <2>3 DEF GiveUp, First, IngestInv, cloud
  <2>4. ASSUME CloseUnfit PROVE \E e \in Event : EventVerdict!Judge(e)
    <3>1. PICK e \in Event : e = cur /\ closed[e] = "open"
      BY <2>4 DEF CloseUnfit, IngestInv, Working
    <3>2. closed' = [closed EXCEPT ![e] = "unfit"] /\ UNCHANGED <<jobs, labelled>>
      BY <2>4, <3>1 DEF CloseUnfit, cloud
    <3>3. QED
      BY <2>1, <3>1, <3>2
  <2>5. ASSUME Save PROVE \E e \in Event : EventVerdict!Judge(e)
    <3>1. PICK e \in Event : e = cur /\ closed[e] = "open"
      BY <2>5 DEF Save, Uploaded, IngestInv, Working
    <3>2. /\ allOk => \A k \in Config[e] : Whole(e, k)
          /\ ~noneOk => \E k \in Config[e] : Whole(e, k)
      BY <2>5, <3>1 DEF Save, Uploaded, UploadInv
    <3>3. PICK v \in {"success", "partial", "empty"} :
            /\ closed' = [closed EXCEPT ![e] = v]
            /\ v = "success" => allOk /\ ~noneOk
            /\ v = "partial" => ~noneOk
      BY <2>5, <3>1 DEF Save, Settled
    <3>4. UNCHANGED <<jobs, labelled>>
      BY <2>5 DEF Save, cloud
    <3>5. v = "success" => Config[e] # {} /\ \A k \in Config[e] : Whole(e, k)
      BY <3>2, <3>3
    <3>6. v = "partial" => \E k \in Config[e] : Whole(e, k)
      BY <3>2, <3>3
    <3>7. QED
      BY <2>1, <3>1, <3>3, <3>4, <3>5, <3>6
  <2>6. \/ UNCHANGED closed /\ jobs \subseteq jobs' /\ labelled \subseteq labelled'
        \/ (\E e \in Event : GiveUp(e)) \/ CloseUnfit \/ Save
    <3>1. CASE \E k \in Key : Upload(k) \/ UploadFails(k) \/ Label(k) \/ LabelFails(k)
      BY <3>1 DEF Upload, UploadFails, Label, LabelFails
    <3>2. CASE CreateId \/ CreateIdFails \/ \E e \in Event : TakeEvent(e) \/ Publish(e)
      BY <3>2 DEF CreateId, CreateIdFails, TakeEvent, Publish, cloud
    <3>3. QED
      BY <3>1, <3>2
         DEF GwoscNext, RunStep, gwoscVars, cloud, StartIngest, EndOfList, EventJsonFails,
             IdKnown, DownloadFails, DownloadOk, ReadFails, AllFailed, Kill
  <2>7. QED
    <3>1. \/ EventVerdict!Progress \/ UNCHANGED <<good, {}, said>>
          \/ \E e \in Event : EventVerdict!Judge(e)
      BY <2>2, <2>3, <2>4, <2>5, <2>6
    <3>2. QED
      BY <3>1 DEF EventVerdict!Next
<1>3. QED
  BY <1>1, <1>2, GwoscInvariant, PTL DEF GwoscSpec, EventsAreJudged, EventVerdict!Spec
===============================================================================
