------------------------ MODULE SupportingFiles_proofs -------------------------
(***************************************************************************)
(* Proofs about SupportingFiles, for any files, any number of requests,    *)
(* submissions and kills: the job is submitted complete, somebody submits  *)
(* it, and the job controller's id is kept.                                *)
(***************************************************************************)
EXTENDS SupportingFiles, TLAPS

\* While the rows of a new job are not there, other requests find nothing to do.
NewInv ==
  /\ job = "none" => \A r \in Req : pc[r] \in {"idle", "prune", "lookup"}
  /\ job = "none" => rows = {} /\ edit = NoEdit
  /\ \A r \in Req : pc[r] = "rows" =>
       /\ rows = {} /\ unup = {}
       /\ \A q \in Req \ {r} : pc[q] \in {"idle", "prune", "lookup"}

\* Where a request holds a file, and what it has done to it.
FileInv ==
  /\ \A r \in Req : pc[r] \in {"write", "clear", "check"} => file[r] \in File
  /\ \A f \in wanted \ unup : disk[f] = "whole" \/ f \in shared \/ f \in lost
  /\ \A r \in Req : pc[r] = "clear" => disk[file[r]] = "whole" \/ file[r] \in shared

\* A request that is about to submit found no file left, and none comes back.
PostInv ==
  /\ \A r \in Req : pc[r] \in {"post", "save"} => unup = {}
  /\ \A r \in Req : pc[r] = "save" => got[r] # 0

\* The last file was cleared by a request that goes on to submit.
LastInv ==
  rows # {} /\ unup = {} =>
    \/ posts > 0 \/ excuse \cap {"killed", "post failed"} # {}
    \/ \E r \in Req : pc[r] \in {"check", "post"}

\* The id the job controller gave is in the row, or on its way there.
IdInv ==
  posts > 0 =>
    excuse # {} \/ (job = "live" /\ jcid # 0) \/ \E r \in Req : pc[r] = "save"

IInv == TypeOK /\ NewInv /\ FileInv /\ PostInv /\ LastInv /\ IdInv

Pcs == {"idle", "rows", "prune", "delete", "lookup", "next", "write",
        "clear", "check", "post", "save"}

\* A request goes to another point and leaves the others where they are.
LEMMA GotoMoves ==
  ASSUME TypeOK, NEW r \in Req, NEW p \in Pcs, Goto(r, p)
  PROVE  /\ pc' \in [Req -> Pcs] /\ pc'[r] = p
         /\ \A q \in Req : q # r => pc'[q] = pc[q]
BY DEF TypeOK, Goto, Pcs

\* A request ends and forgets its files and its answer.
LEMMA FinishEnds ==
  ASSUME TypeOK, NEW r \in Req, Finish(r)
  PROVE  /\ pc' \in [Req -> Pcs] /\ pc'[r] = "idle"
         /\ \A q \in Req : q # r => pc'[q] = pc[q]
         /\ todo' \in [Req -> SUBSET File]
         /\ file' \in [Req -> File \cup {NoFile}]
         /\ \A q \in Req : q # r => file'[q] = file[q] /\ got'[q] = got[q]
         /\ got' \in [Req -> 0..MaxPosts]
<1>1. Goto(r, "idle")
  BY DEF Finish
<1>2. pc' \in [Req -> Pcs] /\ pc'[r] = "idle" /\ \A q \in Req : q # r => pc'[q] = pc[q]
  BY <1>1, GotoMoves DEF Pcs
<1>3. todo' \in [Req -> SUBSET File] /\ file' \in [Req -> File \cup {NoFile}]
      /\ \A q \in Req : q # r => file'[q] = file[q]
  BY DEF TypeOK, Finish
<1>4. got' \in [Req -> 0..MaxPosts] /\ \A q \in Req : q # r => got'[q] = got[q]
  <2>1. 0 \in 0..MaxPosts
    BY BoundAssumption
  <2>2. QED
    BY <2>1 DEF TypeOK, Finish
<1>5. QED
  BY <1>2, <1>3, <1>4

\* The initial states have the invariant.
LEMMA InitInv == Init => IInv
<1> SUFFICES ASSUME Init PROVE IInv
  OBVIOUS
<1>1. TypeOK
  <2>1. jcid \in 0..MaxPosts /\ posts \in 0..MaxPosts /\ edit \in NoEdit..MaxPosts
        /\ kills \in 0..MaxKills
    BY BoundAssumption DEF Init, NoEdit
  <2>2. got \in [Req -> 0..MaxPosts]
    BY BoundAssumption DEF Init
  <2>3. QED
    BY <2>1, <2>2 DEF Init, TypeOK
<1>2. NewInv /\ FileInv /\ PostInv /\ LastInv /\ IdInv
  BY DEF Init, NewInv, FileInv, PostInv, LastInv, IdInv
<1>3. QED
  BY <1>1, <1>2 DEF IInv

\* IInv is inductive: a token is cleared only by a request that wrote the file,
\* and what is submitted was seen without a file left after that.
THEOREM UploadInvariant == Spec => []IInv
<1> USE BoundAssumption DEF record, request, history
<1>0. 0 \in 0..MaxPosts
  OBVIOUS
<1>1. ASSUME IInv, [Next]_vars PROVE IInv'
  <2> USE <1>1 DEF IInv
  <2>1. CASE Expire
    BY <2>1 DEF Expire, TypeOK, NewInv, FileInv, PostInv, LastInv, IdInv
  <2>2. CASE EditLoad \/ EditSave
    <3>1. /\ edit' \in NoEdit..MaxPosts /\ jcid' \in 0..MaxPosts
          /\ job' \in {job, "live"} /\ (job = "none" => FALSE)
          /\ excuse \subseteq excuse' /\ excuse' \subseteq excuse \cup {"stale edit"}
          /\ UNCHANGED <<rows, unup, disk, expired, posts, request, kills, wanted, lost, shared>>
      <4>1. jcid \in 0..MaxPosts /\ edit \in NoEdit..MaxPosts
        BY DEF TypeOK
      <4>2. CASE EditLoad
        <5>1. jcid \in NoEdit..MaxPosts
          BY <4>1 DEF NoEdit
        <5>2. QED
          BY <4>1, <4>2, <5>1 DEF EditLoad
      <4>3. CASE EditSave
        <5>1. edit \in 0..MaxPosts /\ NoEdit \in NoEdit..MaxPosts
          <6>1. edit # -1 /\ edit \in -1..MaxPosts
            BY <4>1, <4>3 DEF EditSave, NoEdit
          <6>2. edit \in 0..MaxPosts /\ -1 \in -1..MaxPosts
            BY <6>1
          <6>3. QED
            BY <6>2 DEF NoEdit
        <5>2. job # "none"
          BY <4>3 DEF EditSave, NewInv
        <5>3. QED
          BY <4>3, <5>1, <5>2 DEF EditSave
      <4>4. QED
        BY <2>2, <4>2, <4>3
    <3>2. TypeOK'
      BY <3>1 DEF TypeOK
    <3>3. IdInv'
      BY <2>2, <3>1 DEF EditLoad, EditSave, IdInv
    <3>4. NewInv' /\ FileInv' /\ PostInv' /\ LastInv'
      BY <3>1 DEF NewInv, FileInv, PostInv, LastInv
    <3>5. QED
      BY <3>2, <3>3, <3>4
  <2>3. ASSUME NEW r \in Req, CreateJob(r) PROVE IInv'
    <3>1. /\ pc' \in [Req -> Pcs] /\ pc'[r] = "rows"
          /\ \A q \in Req : q # r => pc'[q] = pc[q]
          /\ pc[r] = "idle" /\ job = "none" /\ job' = "live"
          /\ UNCHANGED <<jcid, rows, unup, disk, expired, posts, todo, file, got, edit, kills,
                         history>>
      BY <2>3, GotoMoves DEF CreateJob, Pcs
    <3>2. TypeOK'
      BY <1>0, <3>1 DEF TypeOK, Pcs
    <3>3. NewInv'
      BY <3>1 DEF NewInv, TypeOK
    <3>4. FileInv'
      BY <3>1 DEF TypeOK, FileInv
    <3>5. PostInv'
      BY <3>1 DEF NewInv, PostInv
    <3>6. LastInv'
      BY <3>1 DEF NewInv, LastInv
    <3>7. IdInv'
      BY <3>1 DEF PostInv, IdInv
    <3>8. QED
      BY <3>2, <3>3, <3>4, <3>5, <3>6, <3>7
  <2>4. ASSUME NEW r \in Req, SaveFromParsed(r) PROVE IInv'
    <3>1. /\ pc' \in [Req -> Pcs] /\ \A q \in Req : q # r => pc'[q] = pc[q]
          /\ pc[r] = "rows" /\ rows' \subseteq File /\ unup' = rows' /\ wanted' = rows'
          /\ IF rows' = {} THEN pc'[r] = "post" ELSE pc'[r] = "idle"
          /\ todo' \in [Req -> SUBSET File] /\ file' \in [Req -> File \cup {NoFile}]
          /\ \A q \in Req : q # r => file'[q] = file[q] /\ got'[q] = got[q]
          /\ got' \in [Req -> 0..MaxPosts]
          /\ UNCHANGED <<job, jcid, disk, expired, posts, edit, kills, lost, excuse, shared>>
      BY <2>4, GotoMoves, FinishEnds DEF SaveFromParsed, Parsed, BulkCreate, Pcs, TypeOK
    <3>2. TypeOK'
      BY <1>0, <3>1 DEF TypeOK, Pcs
    <3>3. NewInv'
      BY <3>1 DEF NewInv
    <3>4. FileInv'
      BY <3>1 DEF TypeOK, FileInv
    <3>5. PostInv'
      BY <3>1 DEF NewInv, PostInv
    <3>6. LastInv'
      BY <3>1 DEF NewInv, LastInv
    <3>7. IdInv'
      BY <3>1 DEF PostInv, IdInv
    <3>8. QED
      BY <3>2, <3>3, <3>4, <3>5, <3>6, <3>7
  <2>5. ASSUME NEW r \in Req, NEW F \in SUBSET File, Start(r, F) PROVE IInv'
    <3>1. /\ pc' \in [Req -> Pcs] /\ pc'[r] = "prune"
          /\ \A q \in Req : q # r => pc'[q] = pc[q]
          /\ pc[r] = "idle" /\ todo' \in [Req -> SUBSET File]
          /\ UNCHANGED <<record, disk, expired, posts, file, got, edit, kills, history>>
      BY <2>5, GotoMoves DEF Start, TypeOK, Pcs
    <3>2. TypeOK'
      BY <1>0, <3>1 DEF TypeOK, Pcs
    <3>3. NewInv'
      BY <3>1 DEF NewInv
    <3>4. FileInv'
      BY <3>1 DEF TypeOK, FileInv
    <3>5. PostInv'
      BY <3>1 DEF NewInv, PostInv
    <3>6. LastInv'
      BY <3>1 DEF NewInv, LastInv
    <3>7. IdInv'
      BY <3>1 DEF PostInv, IdInv
    <3>8. QED
      BY <3>2, <3>3, <3>4, <3>5, <3>6, <3>7
  <2>6. ASSUME NEW r \in Req, PruneSelect(r) PROVE IInv'
    <3>1. /\ pc' \in [Req -> Pcs] /\ \A q \in Req : q # r => pc'[q] = pc[q]
          /\ pc[r] = "prune" /\ pc'[r] \in {"delete", "lookup"}
          /\ pc'[r] = "delete" => job = "live" /\ unup # {}
          /\ UNCHANGED <<record, disk, expired, posts, todo, file, got, edit, kills, history>>
      BY <2>6, GotoMoves DEF PruneSelect, Pcs
    <3>2. TypeOK'
      BY <1>0, <3>1 DEF TypeOK, Pcs
    <3>3. NewInv'
      BY <3>1 DEF NewInv
    <3>4. FileInv'
      BY <3>1 DEF TypeOK, FileInv
    <3>5. PostInv'
      BY <3>1 DEF NewInv, PostInv
    <3>6. LastInv'
      BY <3>1 DEF NewInv, LastInv
    <3>7. IdInv'
      BY <3>1 DEF PostInv, IdInv
    <3>8. QED
      BY <3>2, <3>3, <3>4, <3>5, <3>6, <3>7
  <2>7. ASSUME NEW r \in Req, PruneDelete(r) PROVE IInv'
    <3>1. /\ pc' \in [Req -> Pcs] /\ pc'[r] = "lookup"
          /\ \A q \in Req : q # r => pc'[q] = pc[q]
          /\ pc[r] = "delete" /\ job' = "gone" /\ rows' = {} /\ unup' = {} /\ jcid' = 0
          /\ lost' = lost \cup unup
          /\ excuse' = IF jcid # 0 THEN excuse \cup {"pruned"} ELSE excuse
          /\ UNCHANGED <<disk, expired, posts, todo, file, got, edit, kills, wanted, shared>>
      BY <2>7, GotoMoves DEF PruneDelete, RowsGo, Pcs
    <3>2. TypeOK'
      BY <1>0, <3>1 DEF TypeOK, Pcs
    <3>3. NewInv'
      BY <3>1 DEF NewInv
    <3>4. FileInv'
      BY <3>1 DEF TypeOK, FileInv
    <3>5. PostInv'
      BY <3>1 DEF NewInv, PostInv
    <3>6. LastInv'
      BY <3>1 DEF NewInv, LastInv
    <3>7. IdInv'
      BY <3>1 DEF PostInv, IdInv
    <3>8. QED
      BY <3>2, <3>3, <3>4, <3>5, <3>6, <3>7
  <2>8. ASSUME NEW r \in Req, LookUp(r) PROVE IInv'
    <3>1. /\ pc' \in [Req -> Pcs] /\ \A q \in Req : q # r => pc'[q] = pc[q]
          /\ pc[r] = "lookup" /\ pc'[r] \in {"next", "idle"}
          /\ pc'[r] = "next" => unup # {}
          /\ todo' \in [Req -> SUBSET File] /\ file' \in [Req -> File \cup {NoFile}]
          /\ \A q \in Req : q # r => file'[q] = file[q] /\ got'[q] = got[q]
          /\ got' \in [Req -> 0..MaxPosts]
          /\ UNCHANGED <<record, disk, expired, posts, edit, kills, history>>
      BY <2>8, GotoMoves, FinishEnds DEF LookUp, Pcs, TypeOK
    <3>2. TypeOK'
      BY <1>0, <3>1 DEF TypeOK, Pcs
    <3>3. NewInv'
      <4>1. rows = {} => unup = {}
        BY DEF TypeOK
      <4>2. QED
        BY <3>1, <4>1 DEF NewInv
    <3>4. FileInv'
      BY <3>1 DEF TypeOK, FileInv
    <3>5. PostInv'
      BY <3>1 DEF NewInv, PostInv
    <3>6. LastInv'
      BY <3>1 DEF NewInv, LastInv
    <3>7. IdInv'
      BY <3>1 DEF PostInv, IdInv
    <3>8. QED
      BY <3>2, <3>3, <3>4, <3>5, <3>6, <3>7
  <2>9. ASSUME NEW r \in Req, OpenFile(r) PROVE IInv'
    <3>1. /\ pc' \in [Req -> Pcs] /\ pc'[r] = "write"
          /\ \A q \in Req : q # r => pc'[q] = pc[q]
          /\ pc[r] = "next" /\ file'[r] \in File
          /\ todo' \in [Req -> SUBSET File] /\ file' \in [Req -> File \cup {NoFile}]
          /\ \A q \in Req : q # r => file'[q] = file[q]
          /\ disk' = [disk EXCEPT ![file'[r]] = "partial"]
          /\ shared' = IF file'[r] \notin unup \/ \E q \in Req \ {r} : file[q] = file'[r]
                       THEN shared \cup {file'[r]} ELSE shared
          /\ UNCHANGED <<record, expired, posts, got, edit, kills, wanted, lost, excuse>>
      <4>1. PICK f \in todo[r] :
              /\ file' = [file EXCEPT ![r] = f]
              /\ todo' = [todo EXCEPT ![r] = @ \ {f}]
              /\ disk' = [disk EXCEPT ![f] = "partial"]
              /\ shared' = IF f \notin unup \/ \E q \in Req \ {r} : file[q] = f
                           THEN shared \cup {f} ELSE shared
        BY <2>9 DEF OpenFile
      <4>2. todo[r] \subseteq File /\ todo \in [Req -> SUBSET File]
            /\ file \in [Req -> File \cup {NoFile}]
        BY DEF TypeOK
      <4>3. file'[r] = f /\ f \in File /\ \A q \in Req : q # r => file'[q] = file[q]
        BY <4>1, <4>2
      <4>4. todo' \in [Req -> SUBSET File] /\ file' \in [Req -> File \cup {NoFile}]
        BY <4>1, <4>2
      <4>5. Goto(r, "write") /\ pc[r] = "next"
            /\ UNCHANGED <<record, expired, posts, got, edit, kills, wanted, lost, excuse>>
        BY <2>9 DEF OpenFile
      <4>6. pc' \in [Req -> Pcs] /\ pc'[r] = "write"
            /\ \A q \in Req : q # r => pc'[q] = pc[q]
        BY <4>5, GotoMoves DEF Pcs
      <4>7. QED
        BY <4>1, <4>3, <4>4, <4>5, <4>6
    <3>2. TypeOK'
      BY <1>0, <3>1 DEF TypeOK, Pcs
    <3>3. NewInv'
      BY <3>1 DEF NewInv
    <3>4. FileInv'
      <4> DEFINE f == file'[r]
      <4>1. disk \in [File -> {"absent", "partial", "whole"}] /\ f \in File
            /\ wanted \subseteq File
        BY <3>1 DEF TypeOK
      <4>2. \A g \in File : g # f => disk'[g] = disk[g]
        BY <3>1, <4>1
      <4>3. shared \subseteq shared' /\ (f \notin unup => f \in shared')
            /\ \A q \in Req : q # r /\ file[q] = f => f \in shared'
        BY <3>1
      <4>4. \A g \in wanted' \ unup' : disk'[g] = "whole" \/ g \in shared' \/ g \in lost'
        BY <3>1, <4>1, <4>2, <4>3 DEF FileInv
      <4>5. \A q \in Req : pc'[q] = "clear" => disk'[file'[q]] = "whole" \/ file'[q] \in shared'
        BY <3>1, <4>1, <4>2, <4>3 DEF FileInv
      <4>6. \A q \in Req : pc'[q] \in {"write", "clear", "check"} => file'[q] \in File
        BY <3>1 DEF FileInv
      <4>7. QED
        BY <4>4, <4>5, <4>6 DEF FileInv
    <3>5. PostInv'
      BY <3>1 DEF NewInv, PostInv
    <3>6. LastInv'
      BY <3>1 DEF NewInv, LastInv
    <3>7. IdInv'
      BY <3>1 DEF PostInv, IdInv
    <3>8. QED
      BY <3>2, <3>3, <3>4, <3>5, <3>6, <3>7
  <2>10. ASSUME NEW r \in Req, WriteFile(r) PROVE IInv'
    <3>1. /\ pc' \in [Req -> Pcs] /\ pc'[r] = "clear"
          /\ \A q \in Req : q # r => pc'[q] = pc[q]
          /\ pc[r] = "write" /\ disk' = [disk EXCEPT ![file[r]] = "whole"]
          /\ UNCHANGED <<record, expired, posts, todo, file, got, edit, kills, history>>
      BY <2>10, GotoMoves DEF WriteFile, Pcs
    <3>2. TypeOK'
      BY <1>0, <3>1 DEF TypeOK, Pcs
    <3>3. NewInv'
      BY <3>1 DEF NewInv
    <3>4. FileInv'
      BY <3>1 DEF TypeOK, FileInv
    <3>5. PostInv'
      BY <3>1 DEF NewInv, PostInv
    <3>6. LastInv'
      BY <3>1 DEF NewInv, LastInv
    <3>7. IdInv'
      BY <3>1 DEF PostInv, IdInv
    <3>8. QED
      BY <3>2, <3>3, <3>4, <3>5, <3>6, <3>7
  <2>11. ASSUME NEW r \in Req, UploadFails(r) PROVE IInv'
    <3>1. /\ pc' \in [Req -> Pcs] /\ pc'[r] = "idle"
          /\ \A q \in Req : q # r => pc'[q] = pc[q]
          /\ pc[r] \in {"next", "write", "clear"}
          /\ todo' \in [Req -> SUBSET File] /\ file' \in [Req -> File \cup {NoFile}]
          /\ \A q \in Req : q # r => file'[q] = file[q] /\ got'[q] = got[q]
          /\ got' \in [Req -> 0..MaxPosts]
          /\ UNCHANGED <<record, disk, expired, posts, edit, kills, history>>
      BY <2>11, FinishEnds DEF UploadFails
    <3>2. TypeOK'
      BY <1>0, <3>1 DEF TypeOK, Pcs
    <3>3. NewInv'
      BY <3>1 DEF NewInv
    <3>4. FileInv'
      BY <3>1 DEF TypeOK, FileInv
    <3>5. PostInv'
      BY <3>1 DEF NewInv, PostInv
    <3>6. LastInv'
      BY <3>1 DEF NewInv, LastInv
    <3>7. IdInv'
      BY <3>1 DEF PostInv, IdInv
    <3>8. QED
      BY <3>2, <3>3, <3>4, <3>5, <3>6, <3>7
  <2>12. ASSUME NEW r \in Req, ClearToken(r) PROVE IInv'
    <3>1. /\ pc' \in [Req -> Pcs] /\ pc'[r] = "check"
          /\ \A q \in Req : q # r => pc'[q] = pc[q]
          /\ pc[r] = "clear" /\ unup' = unup \ {file[r]} /\ rows' = rows \cup {file[r]}
          /\ UNCHANGED <<job, jcid, disk, expired, posts, todo, file, got, edit, kills,
                         history>>
      BY <2>12, GotoMoves DEF ClearToken, Pcs
    <3>2. TypeOK'
      <4>1. file[r] \in File
        BY <3>1 DEF FileInv
      <4>2. rows' \subseteq File /\ unup' \subseteq rows'
        BY <3>1, <4>1 DEF TypeOK
      <4>3. QED
        BY <1>0, <3>1, <4>2 DEF TypeOK, Pcs
    <3>3. NewInv'
      BY <3>1 DEF NewInv
    <3>4. FileInv'
      BY <3>1 DEF TypeOK, FileInv
    <3>5. PostInv'
      BY <3>1 DEF NewInv, PostInv
    <3>6. LastInv'
      BY <3>1 DEF NewInv, LastInv
    <3>7. IdInv'
      BY <3>1 DEF PostInv, IdInv
    <3>8. QED
      BY <3>2, <3>3, <3>4, <3>5, <3>6, <3>7
  <2>13. ASSUME NEW r \in Req, CheckRest(r) PROVE IInv'
    <3>1. /\ pc' \in [Req -> Pcs] /\ \A q \in Req : q # r => pc'[q] = pc[q]
          /\ pc[r] = "check" /\ pc'[r] \in {"post", "next", "idle"}
          /\ pc'[r] = "post" <=> unup = {}
          /\ todo' \in [Req -> SUBSET File] /\ file' \in [Req -> File \cup {NoFile}]
          /\ \A q \in Req : q # r => file'[q] = file[q] /\ got'[q] = got[q]
          /\ got' \in [Req -> 0..MaxPosts]
          /\ UNCHANGED <<record, disk, expired, posts, edit, kills, history>>
      BY <2>13, GotoMoves, FinishEnds DEF CheckRest, NoneLeft, NextFile, Pcs, TypeOK
    <3>2. TypeOK'
      BY <1>0, <3>1 DEF TypeOK, Pcs
    <3>3. NewInv'
      BY <3>1 DEF NewInv
    <3>4. FileInv'
      BY <3>1 DEF TypeOK, FileInv
    <3>5. PostInv'
      BY <3>1 DEF NewInv, PostInv
    <3>6. LastInv'
      BY <3>1 DEF NewInv, LastInv
    <3>7. IdInv'
      BY <3>1 DEF PostInv, IdInv
    <3>8. QED
      BY <3>2, <3>3, <3>4, <3>5, <3>6, <3>7
  <2>14. ASSUME NEW r \in Req, PostAnswered(r) PROVE IInv'
    <3>1. /\ pc' \in [Req -> Pcs] /\ pc'[r] = "save"
          /\ \A q \in Req : q # r => pc'[q] = pc[q]
          /\ pc[r] = "post"
          /\ got' \in [Req -> 0..MaxPosts] /\ got'[r] # 0
          /\ posts' > 0 /\ posts' \in 0..MaxPosts
          /\ \A q \in Req : q # r => got'[q] = got[q]
          /\ UNCHANGED <<record, disk, expired, todo, file, edit, kills, history>>
      <4>1. posts + 1 \in 0..MaxPosts /\ posts + 1 > 0 /\ posts + 1 # 0
        <5>1. posts \in 0..MaxPosts /\ posts < MaxPosts
          BY <2>14 DEF PostAnswered, TypeOK
        <5>2. QED
          BY <5>1
      <4>2. /\ got' \in [Req -> 0..MaxPosts] /\ got'[r] = posts + 1
            /\ \A q \in Req : q # r => got'[q] = got[q]
        BY <2>14, <4>1 DEF PostAnswered, TypeOK
      <4>3. /\ posts' = posts + 1 /\ Goto(r, "save") /\ pc[r] = "post"
            /\ UNCHANGED <<record, disk, expired, todo, file, edit, kills, history>>
        BY <2>14 DEF PostAnswered
      <4>4. pc' \in [Req -> Pcs] /\ pc'[r] = "save"
            /\ \A q \in Req : q # r => pc'[q] = pc[q]
        BY <4>3, GotoMoves DEF Pcs
      <4>5. QED
        BY <4>1, <4>2, <4>3, <4>4
    <3>2. TypeOK'
      BY <1>0, <3>1 DEF TypeOK, Pcs
    <3>3. NewInv'
      BY <3>1 DEF NewInv
    <3>4. FileInv'
      BY <3>1 DEF TypeOK, FileInv
    <3>5. PostInv'
      BY <3>1 DEF NewInv, PostInv
    <3>6. LastInv'
      BY <3>1 DEF NewInv, LastInv
    <3>7. IdInv'
      BY <3>1 DEF PostInv, IdInv
    <3>8. QED
      BY <3>2, <3>3, <3>4, <3>5, <3>6, <3>7
  <2>15. ASSUME NEW r \in Req, PostFails(r) PROVE IInv'
    <3>1. /\ pc' \in [Req -> Pcs] /\ pc'[r] = "idle"
          /\ \A q \in Req : q # r => pc'[q] = pc[q]
          /\ pc[r] = "post" /\ posts' \in {posts, posts + 1} \cap 0..MaxPosts
          /\ excuse' = excuse \cup {"post failed"}
          /\ todo' \in [Req -> SUBSET File] /\ file' \in [Req -> File \cup {NoFile}]
          /\ \A q \in Req : q # r => file'[q] = file[q] /\ got'[q] = got[q]
          /\ got' \in [Req -> 0..MaxPosts]
          /\ UNCHANGED <<record, disk, expired, edit, kills, wanted, lost, shared>>
      BY <2>15, FinishEnds DEF PostFails
    <3>2. TypeOK'
      BY <1>0, <3>1 DEF TypeOK, Pcs
    <3>3. NewInv'
      BY <3>1 DEF NewInv
    <3>4. FileInv'
      BY <3>1 DEF TypeOK, FileInv
    <3>5. PostInv'
      BY <3>1 DEF NewInv, PostInv
    <3>6. LastInv'
      BY <3>1 DEF NewInv, LastInv
    <3>7. IdInv'
      BY <3>1 DEF PostInv, IdInv
    <3>8. QED
      BY <3>2, <3>3, <3>4, <3>5, <3>6, <3>7
  <2>16. ASSUME NEW r \in Req, SaveId(r) PROVE IInv'
    <3>1. /\ pc' \in [Req -> Pcs] /\ \A q \in Req : q # r => pc'[q] = pc[q]
          /\ pc[r] = "save" /\ pc'[r] \in {"next", "idle"} /\ job' = "live" /\ jcid' = got[r]
          /\ todo' \in [Req -> SUBSET File] /\ file' \in [Req -> File \cup {NoFile}]
          /\ \A q \in Req : q # r => file'[q] = file[q] /\ got'[q] = got[q]
          /\ got' \in [Req -> 0..MaxPosts]
          /\ UNCHANGED <<rows, unup, disk, expired, posts, edit, kills, history>>
      BY <2>16, GotoMoves, FinishEnds DEF SaveId, SaveRow, NextFile, Pcs, TypeOK
    <3>2. TypeOK'
      BY <1>0, <3>1 DEF TypeOK, Pcs
    <3>3. NewInv'
      BY <3>1 DEF NewInv
    <3>4. FileInv'
      BY <3>1 DEF TypeOK, FileInv
    <3>5. PostInv'
      BY <3>1 DEF NewInv, PostInv
    <3>6. LastInv'
      BY <3>1 DEF NewInv, LastInv
    <3>7. IdInv'
      BY <3>1 DEF PostInv, IdInv
    <3>8. QED
      BY <3>2, <3>3, <3>4, <3>5, <3>6, <3>7
  <2>17. ASSUME NEW r \in Req, Kill(r) PROVE IInv'
    <3>1. /\ pc' \in [Req -> Pcs] /\ pc'[r] = "idle"
          /\ \A q \in Req : q # r => pc'[q] = pc[q]
          /\ kills' \in 0..MaxKills /\ excuse' = excuse \cup {"killed"}
          /\ todo' \in [Req -> SUBSET File] /\ file' \in [Req -> File \cup {NoFile}]
          /\ \A q \in Req : q # r => file'[q] = file[q] /\ got'[q] = got[q]
          /\ got' \in [Req -> 0..MaxPosts]
          /\ UNCHANGED <<record, disk, expired, posts, edit, wanted, lost, shared>>
      <4>1. kills' \in 0..MaxKills
        <5>1. kills \in 0..MaxKills /\ kills < MaxKills /\ kills' = kills + 1
          BY <2>17 DEF Kill, TypeOK
        <5>2. QED
          BY <5>1
      <4>2. QED
        BY <2>17, <4>1, FinishEnds DEF Kill
    <3>2. TypeOK'
      BY <1>0, <3>1 DEF TypeOK, Pcs
    <3>3. NewInv'
      BY <3>1 DEF NewInv
    <3>4. FileInv'
      BY <3>1 DEF TypeOK, FileInv
    <3>5. PostInv'
      BY <3>1 DEF NewInv, PostInv
    <3>6. LastInv'
      BY <3>1 DEF NewInv, LastInv
    <3>7. IdInv'
      BY <3>1 DEF PostInv, IdInv
    <3>8. QED
      BY <3>2, <3>3, <3>4, <3>5, <3>6, <3>7
  <2>18. CASE UNCHANGED vars
    BY <2>18 DEF vars, TypeOK, NewInv, FileInv, PostInv, LastInv, IdInv
  <2>19. QED
    BY <2>1, <2>2, <2>3, <2>4, <2>5, <2>6, <2>7, <2>8, <2>9, <2>10, <2>11, <2>12,
       <2>13, <2>14, <2>15, <2>16, <2>17, <2>18 DEF Next, ReqStep
<1>2. QED
  BY InitInv, <1>1, PTL DEF Spec

-------------------------------------------------------------------------------
\* The types of rows, files and requests hold.
THEOREM TypesHold == Spec => []TypeOK
BY UploadInvariant, PTL DEF IInv

\* When the last file has come somebody submits the job.
THEOREM LastUploadSubmits == Spec => []SomebodySubmits
<1>1. IInv => SomebodySubmits
  BY DEF IInv, LastInv, SomebodySubmits, busy
<1>2. QED
  BY <1>1, UploadInvariant, PTL

\* The id of an accepted job reaches its row.
THEOREM IdsAreKept == Spec => []AcceptedHasId
<1>1. IInv => AcceptedHasId
  BY DEF IInv, IdInv, AcceptedHasId, busy
<1>2. QED
  BY <1>1, UploadInvariant, PTL

\* The job controller gets no job with a file of its ini missing or half written,
\* but for files two requests wrote at a time and those a prune deleted.
THEOREM SubmissionsAreComplete == Spec => SubmittedComplete
<1>1. ASSUME IInv, [Next]_vars
      PROVE  [posts' > posts => \A f \in wanted : disk[f] = "whole" \/ f \in shared \/ f \in lost]_vars
  <2>1. ASSUME NEW r \in Req, pc[r] = "post"
        PROVE  \A f \in wanted : disk[f] = "whole" \/ f \in shared \/ f \in lost
    BY <1>1, <2>1 DEF IInv, FileInv, PostInv
  <2>2. ASSUME posts' = posts PROVE ~(posts' > posts)
    <3>1. posts \in 0..MaxPosts
      BY <1>1 DEF IInv, TypeOK
    <3>2. QED
      BY <2>2, <3>1, BoundAssumption
  <2>3. QED
    BY <1>1, <2>1, <2>2
       DEF Next, ReqStep, vars, Expire, EditLoad, EditSave, CreateJob, SaveFromParsed, Start,
           PruneSelect, PruneDelete, LookUp, OpenFile, WriteFile, UploadFails, ClearToken,
           CheckRest, PostAnswered, PostFails, SaveId, Kill
<1>2. QED
  BY <1>1, UploadInvariant, PTL DEF Spec, SubmittedComplete
===============================================================================
