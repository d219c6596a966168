-------------------------- MODULE GWFlowFiles_proofs ---------------------------
(***************************************************************************)
(* Proofs about GWFlowFiles, for every set of files and of threads and     *)
(* every bound: type correctness, that a file marked uploaded has the      *)
(* bytes its row promises, and that no file outlives its row.              *)
(***************************************************************************)
EXTENDS GWFlowFiles, TLAPS

Flag(b) == IF b THEN 1 ELSE 0

\* A row is deleted once for each time the portal dropped its file.
DropInv ==
  \A p \in Path : src[p] # 0 /\ gen[p] + Flag(row[p] # 0 /\ man[p] = 0) <= drops

\* The file at hand has a row and is off the list; files that ran out of
\* retries before the run were set aside, so that counting stops at the cap.
CronInv ==
  /\ pc \in {"fetch", "upload", "wait"} <=> at \in Path
  /\ pc = "wait" <=> mine # {}
  /\ pc \in {"idle", "meta"} => queue = {}
  /\ at \in Path => row[at] # 0 /\ at \notin queue /\ at \notin over /\ done < MaxFiles
  /\ \A q \in queue : row[q] # 0
  /\ \A q \in queue \cup {at} : q \in Path /\ errors[q] >= MaxRetry => q \in over

\* A request was made for a row; it belongs to an older one than the present
\* row when that was deleted since.
ReqInv ==
  \A t \in Thread : req[t].pc # "idle" =>
    /\ req[t].path \in Path
    /\ req[t].gen <= gen[req[t].path]
    /\ row[req[t].path] = 0 => req[t].gen < gen[req[t].path]

TInv == TypeOK /\ DropInv /\ CronInv /\ ReqInv

\* Two requests at one file spoil it.
PairInv ==
  \A t, u \in Thread : t # u /\ req[t].pc # "idle" /\ req[u].pc # "idle"
                        /\ req[t].path = req[u].path => req[t].path \in spoiled

\* What a request that is alone with its file is about to put in place, or has.
WriteInv ==
  \A t \in Thread : req[t].pc = "write" /\ RowThere(t) /\ req[t].path \in up \ spoiled =>
    req[t].md5 = row[req[t].path]
SaveInv ==
  \A t \in Thread : req[t].pc = "save" /\ RowThere(t) /\ req[t].path \notin spoiled =>
    disk[req[t].path] = req[t].md5

RaceInv == PairInv /\ WriteInv /\ SaveInv

FileInv == RaceInv /\ UploadedIsGenuine /\ NoFileWithoutRow

-------------------------------------------------------------------------------
\* The initial states have the types.
LEMMA InitTypes == Init => TInv
<1> USE PathAssumption, BoundAssumption
<1> SUFFICES ASSUME Init PROVE TInv
  OBVIOUS
<1>1. TypeOK
  BY DEF Init, TypeOK, StoreTypes, CronTypes, ReqTypes, Request, Version, NoReq, NoPath
<1>2. DropInv /\ CronInv /\ ReqInv
  BY DEF Init, DropInv, CronInv, ReqInv, NoReq, NoPath, Flag
<1>3. QED
  BY <1>1, <1>2 DEF TInv

\* Every variable keeps its type, every request the row it was made for, and no
\* failure is counted past the cap.
THEOREM TypeInvariant == Spec => []TInv
<1> USE PathAssumption, BoundAssumption
<1>1. Init => TInv
  BY InitTypes
<1>2. ASSUME TInv, [Next]_vars PROVE TInv'
  <2> USE <1>2 DEF TInv, TypeOK, StoreTypes, CronTypes, ReqTypes, Request, Version, Mixed,
                   DropInv, CronInv, ReqInv, Flag, NoPath, NoReq, portal, store, local
  <2>a. at \in Path => errors[at] + 1 \in 0..MaxRetry /\ done + 1 \in 0..MaxFiles
    OBVIOUS
  <2>b. ASSUME CountFailure, at \in Path, UNCHANGED <<queue, over, done>>
         PROVE  /\ pc' = "files" /\ at' = NoPath /\ mine' = {} /\ queue' = queue
                /\ over' = over /\ done' = done /\ errors' \in [Path -> 0..MaxRetry]
    BY <2>a, <2>b DEF CountFailure, NextFile
  <2>1. ASSUME NEW p \in Path, Rewrite(p) PROVE TInv'
    BY <2>1 DEF Rewrite
  <2>2. ASSUME NEW p \in Path, List(p) PROVE TInv'
    BY <2>2 DEF List
  <2>3. ASSUME NEW p \in Path, Drop(p) PROVE TInv'
    BY <2>3 DEF Drop
  <2>4. ASSUME NEW p \in Path, OperatorUnmarks(p) PROVE TInv'
    BY <2>4 DEF OperatorUnmarks
  <2>5. CASE StartRun
    BY <2>5 DEF StartRun
  <2>6. CASE Upsert
    <3>0. /\ row' = man /\ UNCHANGED <<src, man, drops, local, errors, req, kills, pc>>
          /\ queue = {} /\ at \notin Path /\ pc = "meta"
          /\ gen' = [p \in Path |-> IF p \in removed THEN gen[p] + 1 ELSE gen[p]]
          /\ removed \subseteq Path
          /\ \A p \in removed : gen[p] + 1 \in 0..MaxDrops /\ row[p] # 0 /\ man[p] = 0
      BY <2>6 DEF Upsert, removed
    <3>1. StoreTypes'
      <4>1. gen' \in [Path -> 0..MaxDrops]
        BY <3>0
      <4>2. up' \subseteq Path /\ disk' \in [Path -> Version \cup {Mixed}]
        <5>1. up' \subseteq up
          BY <2>6 DEF Upsert
        <5>2. PICK gone : disk' = [q \in Path |-> IF q \in gone THEN 0 ELSE disk[q]]
          BY <2>6 DEF Upsert, Unlink
        <5>3. QED
          BY <5>1, <5>2
      <4>3. QED
        BY <3>0, <4>1, <4>2
    <3>2. CronTypes'
      BY <2>6 DEF Upsert, removed, active, SameFile, Unlink
    <3>3. ReqTypes'
      BY <2>6 DEF Upsert, removed, active, SameFile, Unlink
    <3>4. DropInv'
      BY <3>0 DEF removed
    <3>5. CronInv'
      BY <3>0
    <3>6. ReqInv'
      <4> SUFFICES ASSUME NEW t \in Thread, req[t].pc # "idle"
                   PROVE  /\ req[t].path \in Path /\ req[t].gen <= gen'[req[t].path]
                          /\ row'[req[t].path] = 0 => req[t].gen < gen'[req[t].path]
        BY <3>0
      <4> DEFINE p == req[t].path
      <4>1. p \in Path /\ req[t].gen <= gen[p] /\ (row[p] = 0 => req[t].gen < gen[p])
        OBVIOUS
      <4>2. req[t] \in Request
        OBVIOUS
      <4>3. req[t].gen \in Nat /\ gen[p] \in Nat
        <5>1. req[t].gen \in 0..MaxDrops
          BY <4>2
        <5>2. gen[p] \in 0..MaxDrops
          BY <4>1
        <5>3. QED
          BY <5>1, <5>2
      <4>4. gen'[p] = IF row[p] # 0 /\ man[p] = 0 THEN gen[p] + 1 ELSE gen[p]
        BY <3>0, <4>1 DEF removed
      <4>5. QED
        BY <3>0, <4>1, <4>3, <4>4
    <3>7. QED
      BY <3>1, <3>2, <3>3, <3>4, <3>5, <3>6
  <2>7. CASE UpsertRollsBack
    BY <2>7 DEF UpsertRollsBack, removed, Unlink
  <2>8. CASE ListPending
    BY <2>8 DEF ListPending, Pending, FailuresOver
  <2>9. ASSUME NEW p \in Path, SkipOverRetry(p) \/ TakeFile(p) PROVE TInv'
    <3>1. CASE SkipOverRetry(p)
      BY <3>1 DEF SkipOverRetry, First
    <3>2. CASE TakeFile(p)
      <4>1. StoreTypes' /\ CronTypes' /\ ReqTypes'
        BY <3>2 DEF TakeFile, First
      <4>2. DropInv' /\ CronInv' /\ ReqInv'
        BY <3>2 DEF TakeFile, First
      <4>3. QED
        BY <4>1, <4>2
    <3>3. QED
      BY <2>9, <3>1, <3>2
  <2>10. CASE EndMirror \/ ClusterOffline
    <3>1. CronTypes'
      <4>1. EndRun /\ UNCHANGED <<errors, kills, spoiled>>
        BY <2>10 DEF EndMirror, ClusterOffline
      <4>2. 0 \in 0..MaxFiles
        OBVIOUS
      <4>3. QED
        BY <4>1, <4>2 DEF EndRun
    <3>2. StoreTypes' /\ ReqTypes'
      BY <2>10 DEF EndMirror, ClusterOffline, EndRun
    <3>3. DropInv' /\ CronInv' /\ ReqInv'
      BY <2>10 DEF EndMirror, ClusterOffline, EndRun
    <3>4. QED
      BY <3>1, <3>2, <3>3
  <2>11. CASE Kill
    BY <2>11 DEF Kill, EndRun
  <2>12. CASE FetchOk
    BY <2>12 DEF FetchOk
  <2>13. CASE FetchFails \/ UploadFails
    <3>1. CronTypes'
      <4>1. CountFailure /\ at \in Path /\ UNCHANGED <<queue, over, done, kills, spoiled>>
        BY <2>13 DEF FetchFails, UploadFails
      <4>2. QED
        BY <4>1, <2>b
    <3>2. StoreTypes' /\ ReqTypes'
      BY <2>13 DEF FetchFails, UploadFails, CountFailure, NextFile
    <3>3. DropInv' /\ ReqInv'
      BY <2>13 DEF FetchFails, UploadFails, CountFailure, NextFile
    <3>4. CronInv'
      BY <2>13 DEF FetchFails, UploadFails, CountFailure, NextFile
    <3>5. QED
      BY <3>1, <3>2, <3>3, <3>4
  <2>14. CASE AnswerLost
    BY <2>14 DEF AnswerLost, CountFailure, NextFile
  <2>15. ASSUME NEW t \in Thread, StartUpload(t) PROVE TInv'
    BY <2>15 DEF StartUpload, active
  <2>16. ASSUME NEW t \in Thread, Replace(t) PROVE TInv'
    BY <2>16 DEF Replace
  <2>17. ASSUME NEW t \in Thread, Mismatch(t) PROVE TInv'
    <3>1. CronTypes'
      <4>1. UNCHANGED <<queue, over, kills>> /\ spoiled' \subseteq Path
        BY <2>17 DEF Mismatch
      <4>2. CASE t \in mine
        <5>1. CountFailure /\ at \in Path /\ UNCHANGED done
          BY <2>17, <4>2 DEF Mismatch, Answer
        <5>2. QED
          BY <4>1, <5>1, <2>b
      <4>3. CASE t \notin mine
        <5>1. UNCHANGED <<pc, at, mine, done, errors>>
          BY <2>17, <4>3 DEF Mismatch, Answer
        <5>2. QED
          BY <4>1, <5>1
      <4>4. QED
        BY <4>2, <4>3
    <3>2. StoreTypes' /\ ReqTypes'
      <4>1. UNCHANGED <<src, man, drops, row, gen, up>> /\ req' = [req EXCEPT ![t] = NoReq]
        BY <2>17 DEF Mismatch, Answer
      <4>2. disk' \in [Path -> Version \cup {Mixed}]
        BY <2>17 DEF Mismatch, Unlink
      <4>3. NoReq \in Request
        OBVIOUS
      <4>4. QED
        BY <4>1, <4>2, <4>3
    <3>3. DropInv' /\ ReqInv'
      <4>1. UNCHANGED <<src, row, gen, man, drops>> /\ req' = [req EXCEPT ![t] = NoReq]
        BY <2>17 DEF Mismatch, Answer
      <4>2. QED
        BY <4>1
    <3>4. CronInv'
      <4>1. UNCHANGED <<row, queue, over>>
        BY <2>17 DEF Mismatch
      <4>2. CASE t \in mine
        <5>1. CountFailure /\ at \in Path /\ UNCHANGED done
          BY <2>17, <4>2 DEF Mismatch, Answer
        <5>2. /\ pc' = "files" /\ at' = NoPath /\ mine' = {}
              /\ errors' = [errors EXCEPT ![at] = @ + 1]
          BY <5>1 DEF CountFailure, NextFile
        <5>3. QED
          BY <4>1, <5>1, <5>2
      <4>3. CASE t \notin mine
        <5>1. UNCHANGED <<pc, at, mine, done, errors>>
          BY <2>17, <4>3 DEF Mismatch, Answer
        <5>2. QED
          BY <4>1, <5>1
      <4>4. QED
        BY <4>2, <4>3
    <3>5. QED
      BY <3>1, <3>2, <3>3, <3>4
  <2>18. ASSUME NEW t \in Thread, WriteFails(t) PROVE TInv'
    <3>1. CronTypes'
      <4>1. UNCHANGED <<queue, over, kills>> /\ spoiled' \subseteq Path
        BY <2>18 DEF WriteFails
      <4>2. CASE t \in mine
        <5>1. CountFailure /\ at \in Path /\ UNCHANGED done
          BY <2>18, <4>2 DEF WriteFails, Answer
        <5>2. QED
          BY <4>1, <5>1, <2>b
      <4>3. CASE t \notin mine
        <5>1. UNCHANGED <<pc, at, mine, done, errors>>
          BY <2>18, <4>3 DEF WriteFails, Answer
        <5>2. QED
          BY <4>1, <5>1
      <4>4. QED
        BY <4>2, <4>3
    <3>2. StoreTypes' /\ ReqTypes'
      BY <2>18 DEF WriteFails, Answer, NextFile, CountFailure
    <3>3. DropInv' /\ ReqInv'
      <4>1. UNCHANGED <<src, row, gen, man, drops>> /\ req' = [req EXCEPT ![t] = NoReq]
        BY <2>18 DEF WriteFails, Answer
      <4>2. QED
        BY <4>1
    <3>4. CronInv'
      <4>1. UNCHANGED <<row, queue, over>>
        BY <2>18 DEF WriteFails
      <4>2. CASE t \in mine
        <5>1. CountFailure /\ at \in Path /\ UNCHANGED done
          BY <2>18, <4>2 DEF WriteFails, Answer
        <5>2. /\ pc' = "files" /\ at' = NoPath /\ mine' = {}
              /\ errors' = [errors EXCEPT ![at] = @ + 1]
          BY <5>1 DEF CountFailure, NextFile
        <5>3. QED
          BY <4>1, <5>1, <5>2
      <4>3. CASE t \notin mine
        <5>1. UNCHANGED <<pc, at, mine, done, errors>>
          BY <2>18, <4>3 DEF WriteFails, Answer
        <5>2. QED
          BY <4>1, <5>1
      <4>4. QED
        BY <4>2, <4>3
    <3>5. QED
      BY <3>1, <3>2, <3>3, <3>4
  <2>19. ASSUME NEW t \in Thread, SaveUploaded(t) PROVE TInv'
    <3>1. CronTypes'
      <4>1. UNCHANGED <<queue, over, kills>> /\ spoiled' \subseteq Path
        <5>1. /\ UNCHANGED <<queue, over, kills>> /\ req[t].pc = "save"
              /\ spoiled' \in {spoiled, spoiled \cup {req[t].path}}
          BY <2>19 DEF SaveUploaded
        <5>2. req[t].path \in Path
          BY <5>1
        <5>3. QED
          BY <5>1, <5>2
      <4>2. CASE t \in mine /\ ~RowThere(t)
        <5>1. CountFailure /\ at \in Path /\ UNCHANGED done
          BY <2>19, <4>2 DEF SaveUploaded, Answer
        <5>2. QED
          BY <4>1, <5>1, <2>b
      <4>3. CASE t \in mine /\ RowThere(t)
        <5>1. /\ NextFile /\ at \in Path /\ done' = done + 1
              /\ errors' = [errors EXCEPT ![at] = 0]
          BY <2>19, <4>3 DEF SaveUploaded, Answer
        <5>2. done' \in 0..MaxFiles /\ errors' \in [Path -> 0..MaxRetry]
          BY <2>a, <5>1
        <5>3. QED
          <6>1. pc' = "files" /\ at' = NoPath /\ mine' = {}
            BY <5>1 DEF NextFile
          <6>2. QED
            BY <4>1, <5>2, <6>1
      <4>4. CASE t \notin mine
        <5>1. UNCHANGED <<pc, at, mine, done, errors>>
          BY <2>19, <4>4 DEF SaveUploaded, Answer
        <5>2. QED
          BY <4>1, <5>1
      <4>5. QED
        BY <4>2, <4>3, <4>4
    <3>2. StoreTypes' /\ ReqTypes'
      BY <2>19 DEF SaveUploaded, Answer, NextFile, CountFailure, RowThere
    <3>3. DropInv' /\ CronInv' /\ ReqInv'
      BY <2>19 DEF SaveUploaded, Answer, NextFile, CountFailure, RowThere
    <3>4. QED
      BY <3>1, <3>2, <3>3
  <2>20. CASE UNCHANGED vars
    BY <2>20 DEF vars
  <2>21. QED
    BY <2>1, <2>2, <2>3, <2>4, <2>5, <2>6, <2>7, <2>8, <2>9, <2>10, <2>11, <2>12, <2>13,
       <2>14, <2>15, <2>16, <2>17, <2>18, <2>19, <2>20
       DEF Next, CronStep, ThreadStep
<1>3. QED
  BY <1>1, <1>2, PTL DEF Spec

\* FileInv is inductive: the only request that marks a file no other touches
\* found the md5 its row has, and what it replaced went with the old row.
THEOREM FileInvariant == Spec => []FileInv
<1> USE PathAssumption, BoundAssumption
<1>1. Init => FileInv
  BY DEF Init, FileInv, RaceInv, PairInv, WriteInv, SaveInv, UploadedIsGenuine,
         NoFileWithoutRow, NoReq
<1>2. ASSUME TInv, TInv', FileInv, [Next]_vars PROVE FileInv'
  <2> USE <1>2 DEF TInv, TypeOK, StoreTypes, CronTypes, ReqTypes, Request, Version,
                   CronInv, ReqInv, FileInv, RaceInv, PairInv, WriteInv,
                   SaveInv, UploadedIsGenuine, NoFileWithoutRow, RowThere,
                   NoPath, NoReq, portal, store, local
  <2>1. ASSUME NEW p \in Path, Rewrite(p) \/ List(p) PROVE FileInv'
    BY <2>1 DEF Rewrite, List
  <2>2. ASSUME NEW p \in Path, Drop(p) \/ OperatorUnmarks(p) PROVE FileInv'
    BY <2>2 DEF Drop, OperatorUnmarks
  <2>3. CASE StartRun \/ ListPending
    BY <2>3 DEF StartRun, ListPending
  <2>4. CASE Upsert
    BY <2>4 DEF Upsert, removed, active, SameFile, Unlink
  <2>5. CASE UpsertRollsBack
    BY <2>5 DEF UpsertRollsBack, removed, Unlink
  <2>6. ASSUME NEW p \in Path, SkipOverRetry(p) \/ TakeFile(p) PROVE FileInv'
    BY <2>6 DEF SkipOverRetry, TakeFile
  <2>7. CASE EndMirror \/ ClusterOffline \/ Kill
    BY <2>7 DEF EndMirror, ClusterOffline, Kill, EndRun
  <2>8. CASE FetchOk \/ FetchFails \/ UploadFails \/ AnswerLost
    BY <2>8 DEF FetchOk, FetchFails, UploadFails, AnswerLost, CountFailure, NextFile
  <2>9. ASSUME NEW t \in Thread, StartUpload(t) PROVE FileInv'
    BY <2>9 DEF StartUpload, active
  <2>10. ASSUME NEW t \in Thread, Replace(t) PROVE FileInv'
    BY <2>10 DEF Replace, GoodBytes
  <2>11. ASSUME NEW t \in Thread, Mismatch(t) PROVE FileInv'
    BY <2>11 DEF Mismatch, Answer, Unlink
  <2>12. ASSUME NEW t \in Thread, WriteFails(t) PROVE FileInv'
    BY <2>12 DEF WriteFails, Answer
  <2>13. ASSUME NEW t \in Thread, SaveUploaded(t) PROVE FileInv'
    BY <2>13 DEF SaveUploaded, Answer
  <2>14. CASE UNCHANGED vars
    BY <2>14 DEF vars
  <2>15. QED
    BY <2>1, <2>2, <2>3, <2>4, <2>5, <2>6, <2>7, <2>8, <2>9, <2>10, <2>11, <2>12, <2>13,
       <2>14 DEF Next, CronStep, ThreadStep
<1>3. QED
  BY <1>1, <1>2, TypeInvariant, PTL DEF Spec

-------------------------------------------------------------------------------
\* The type invariant of GWFlowFiles holds.
THEOREM TypesHold == Spec => []TypeOK
BY TypeInvariant, PTL DEF TInv

\* A file marked uploaded has the bytes its row promises, unless two requests
\* met at it or a rollback passed over it.
THEOREM UploadsAreGenuine == Spec => []UploadedIsGenuine
BY FileInvariant, PTL DEF FileInv

\* Nothing stays in place of a row that is gone, unless an upload of it was
\* under way.
THEOREM FilesGoWithRows == Spec => []NoFileWithoutRow
BY FileInvariant, PTL DEF FileInv

===============================================================================
