------------------------------ MODULE GWFlowFiles ------------------------------
(***************************************************************************)
(* The files of one superevent: the portal lists them with their md5,      *)
(* upsert_gwflow_job keeps a GWFlowFile row for each (bilbyui/views.py),   *)
(* phase_file_mirror of the gwflow cron fetches those whose row says       *)
(* uploaded=False through the job controller and uploads them, and         *)
(* upload_gwflow_file puts them in place.  A request to GWCloud outlives   *)
(* the cron that made it: a killed cron leaves an upload behind while the  *)
(* next one changes the rows or uploads the file again.                    *)
(*                                                                         *)
(* The bytes of a file and its md5 are a version number, 0 being neither.  *)
(***************************************************************************)
EXTENDS Integers

CONSTANTS
  Path,                   \* files, as ranks in the order of the pending list
  Volatile,               \* bound: the files that change after they were written
  Thread,                 \* uploads GWCloud works on at a time
  MaxRetry,               \* settings.MAX_RETRY_ATTEMPTS
  MaxFiles,               \* settings.MAX_FILES_PER_RUN
  MaxVer,                 \* bound: versions of a file
  MaxDrops,               \* bound: files the portal drops or an operator unmarks
  MaxKills                \* bound: runs killed, answers lost, rollbacks

ASSUME PathAssumption == Path \subseteq Nat \ {0} /\ Volatile \subseteq Path
ASSUME BoundAssumption ==
  /\ MaxRetry \in Nat \ {0} /\ MaxFiles \in Nat \ {0}
  /\ MaxVer \in Nat \ {0} /\ MaxDrops \in Nat /\ MaxKills \in Nat

VARIABLES
  src, man, drops,        \* version on the cluster; listed by the portal (0: not)
  row, gen,               \* GWFlowFile: md5_sum (0: no row); how often deleted
  up, disk,               \* uploaded; version in place
  pc,                     \* the cron
  queue, at, mine,        \* pending files still to do; the one at hand; its request
  over, done,             \* locals over_retry and files_done
  errors,                 \* sqlite: failure_count of the file's key
  req,                    \* the upload requests
  kills,                  \* kills, lost answers and rollbacks so far
  spoiled                 \* history: files that a race or a rollback may have hurt

portal == <<src, man, drops>>
store  == <<row, gen, up, disk>>
local  == <<queue, at, mine, over, done>>
vars   == <<portal, store, pc, local, errors, req, kills, spoiled>>

Mixed  == -1                      \* bytes of no version
NoPath == 0
NoReq  == [pc |-> "idle", path |-> NoPath, gen |-> 0, md5 |-> 0, got |-> 0]

-------------------------------------------------------------------------------
Init ==
  /\ src = [p \in Path |-> 1] /\ man = [p \in Path |-> 0] /\ drops = 0
  /\ row = [p \in Path |-> 0] /\ gen = [p \in Path |-> 0]
  /\ up = {} /\ disk = [p \in Path |-> 0]
  /\ pc = "idle" /\ queue = {} /\ at = NoPath /\ mine = {} /\ over = {} /\ done = 0
  /\ errors = [p \in Path |-> 0]
  /\ req = [t \in Thread |-> NoReq] /\ kills = 0
  /\ spoiled = {}

\* An analyst writes the file again.
Rewrite(p) ==
  /\ p \in Volatile /\ src[p] < MaxVer
  /\ src' = [src EXCEPT ![p] = @ + 1]
  /\ UNCHANGED <<man, drops, store, pc, local, errors, req, kills, spoiled>>

\* The portal commits: it lists the file as it is now, or drops it.
List(p) ==
  /\ man[p] # src[p]
  /\ man' = [man EXCEPT ![p] = src[p]]
  /\ UNCHANGED <<src, drops, store, pc, local, errors, req, kills, spoiled>>

Drop(p) ==
  /\ p \in Volatile /\ man[p] # 0 /\ drops < MaxDrops
  /\ drops' = drops + 1
  /\ man' = [man EXCEPT ![p] = 0]
  /\ UNCHANGED <<src, store, pc, local, errors, req, kills, spoiled>>

\* The runbook: an operator sets uploaded=False.
OperatorUnmarks(p) ==
  /\ pc = "idle" /\ p \in up \cap Volatile /\ drops < MaxDrops
  /\ drops' = drops + 1
  /\ up' = up \ {p}
  /\ UNCHANGED <<src, man, row, gen, disk, pc, local, errors, req, kills, spoiled>>

-------------------------------------------------------------------------------
(* upsert_gwflow_job, called by phase_metadata for the superevent.          *)

StartRun ==
  /\ pc = "idle"
  /\ pc' = "meta"
  /\ UNCHANGED <<portal, store, local, errors, req, kills, spoiled>>

removed == {p \in Path : row[p] # 0 /\ man[p] = 0}
active  == {p \in Path : \E t \in Thread : req[t].pc # "idle" /\ req[t].path = p}

\* An existing row keeps its mark only under the same md5.
SameFile(p) == row[p] # 0 /\ man[p] = row[p]

\* Slip: the file stays when its row goes.
Leave(gone) == disk' = disk
Unlink(gone) == disk' = [p \in Path |-> IF p \in gone THEN 0 ELSE disk[p]]

\* In one transaction the rows follow the manifest; the files of the rows that
\* go are unlinked on the way, and a new row has a new id and no file.
Upsert ==
  /\ pc = "meta" /\ row # man
  /\ row' = man
  /\ gen' = [p \in Path |-> IF p \in removed THEN gen[p] + 1 ELSE gen[p]]
  /\ up' = {p \in up : SameFile(p)}
  /\ Unlink(removed \cup {p \in Path : row[p] = 0 /\ man[p] # 0})
  /\ spoiled' = {p \in spoiled : row[p] = man[p]} \cup (spoiled \cap active)
  /\ UNCHANGED <<portal, pc, local, errors, req, kills>>

\* The transaction is rolled back after some files were unlinked.
UpsertRollsBack ==
  /\ pc = "meta" /\ removed # {} /\ kills < MaxKills
  /\ kills' = kills + 1
  /\ \E gone \in SUBSET removed : Unlink(gone) /\ spoiled' = spoiled \cup gone
  /\ UNCHANGED <<portal, row, gen, up, pc, local, errors, req>>

-------------------------------------------------------------------------------
(* phase_file_mirror.                                                       *)

EndRun == pc' = "idle" /\ queue' = {} /\ at' = NoPath /\ mine' = {} /\ over' = {} /\ done' = 0

\* Slip: the list is cut to the cap before the files given up are skipped.
FirstPending == {p \in Path : row[p] # 0 /\ p \notin up
                   /\ \A q \in Path : q < p => row[q] = 0 \/ q \in up}
\* get_gwflow_pending_files
Pending == {p \in Path : row[p] # 0 /\ p \notin up}

\* failures_over
FailuresOver == {p \in Path : errors[p] >= MaxRetry}

ListPending ==
  /\ pc = "meta"
  /\ pc' = "files"
  /\ queue' = Pending
  /\ over' = FailuresOver
  /\ UNCHANGED <<portal, store, at, mine, done, errors, req, kills, spoiled>>

First(p) == p \in queue /\ \A q \in queue : p <= q

SkipOverRetry(p) ==
  /\ pc = "files" /\ done < MaxFiles /\ First(p) /\ p \in over
  /\ queue' = queue \ {p}
  /\ UNCHANGED <<portal, store, pc, at, mine, over, done, errors, req, kills, spoiled>>

TakeFile(p) ==
  /\ pc = "files" /\ done < MaxFiles /\ First(p) /\ p \notin over
  /\ pc' = "fetch"
  /\ queue' = queue \ {p} /\ at' = p
  /\ UNCHANGED <<portal, store, mine, over, done, errors, req, kills, spoiled>>

\* The list is done, or a cap is reached; MAX_BYTES_PER_RUN may be by any file.
EndMirror ==
  /\ pc = "files" /\ (queue = {} \/ done > 0)
  /\ EndRun
  /\ UNCHANGED <<portal, store, errors, req, kills, spoiled>>

NextFile == pc' = "files" /\ at' = NoPath /\ mine' = {}

\* record_failure
CountFailure == NextFile /\ errors' = [errors EXCEPT ![at] = @ + 1]

Md5Matches(p) == src[p] = row[p]

\* fetch_to_staging
FetchOk ==
  /\ pc = "fetch" /\ Md5Matches(at)
  /\ pc' = "upload"
  /\ UNCHANGED <<portal, store, local, errors, req, kills, spoiled>>

\* FetchError or MD5Mismatch; a 503 to create_file_downloads is the former.
FetchFails ==
  /\ pc = "fetch"
  /\ CountFailure
  /\ UNCHANGED <<portal, store, queue, over, done, req, kills, spoiled>>

\* The download is answered 503: ClusterOffline ends the phase.
ClusterOffline ==
  /\ pc = "fetch"
  /\ EndRun
  /\ UNCHANGED <<portal, store, errors, req, kills, spoiled>>

\* The request fails before GWCloud sees it.
UploadFails ==
  /\ pc = "upload"
  /\ CountFailure
  /\ UNCHANGED <<portal, store, queue, over, done, req, kills, spoiled>>

\* The answer does not come, but the request goes on.
AnswerLost ==
  /\ pc = "wait" /\ kills < MaxKills
  /\ kills' = kills + 1
  /\ CountFailure
  /\ UNCHANGED <<portal, store, queue, over, done, req, spoiled>>

Kill ==
  /\ pc # "idle" /\ kills < MaxKills
  /\ kills' = kills + 1
  /\ EndRun
  /\ UNCHANGED <<portal, store, errors, req, spoiled>>

-------------------------------------------------------------------------------
(* upload_gwflow_file, by a thread of GWCloud.                              *)

\* It reads the row and opens <id>.part, which a second request for the file
\* opens too; one that is alone with the file makes a fresh start.  The bytes
\* may be garbled on the way.
StartUpload(t) ==
  /\ pc = "upload" /\ req[t].pc = "idle"
  /\ pc' = "wait" /\ mine' = {t}
  /\ \E bytes \in {src[at], Mixed} :
       req' = [req EXCEPT ![t] = [pc |-> "write", path |-> at, gen |-> gen[at],
                                  md5 |-> row[at], got |-> bytes]]
  /\ spoiled' = CASE at \in active -> spoiled \cup {at}
                   [] at \notin active \cup up -> spoiled \ {at}
                   [] OTHER -> spoiled
  /\ UNCHANGED <<portal, store, queue, at, over, done, errors, kills>>

\* What the cron that still waits for the request makes of its end.
Answer(t, ok) ==
  /\ req' = [req EXCEPT ![t] = NoReq]
  /\ CASE t \notin mine -> UNCHANGED <<pc, at, mine, done, errors>>
       [] t \in mine /\ ok ->
            NextFile /\ done' = done + 1 /\ errors' = [errors EXCEPT ![at] = 0]
       [] t \in mine /\ ~ok -> CountFailure /\ UNCHANGED done

RowThere(t) == row[req[t].path] # 0 /\ gen[req[t].path] = req[t].gen

\* Slip: the bytes are taken as they come.
AnyVersion(t) == TRUE
GoodBytes(t) == req[t].got = req[t].md5

\* The part file replaces the file; if another request wrote to it too, what it
\* holds is anybody's guess.  If the row went meanwhile the file stays behind
\* without one (under its old id, should the portal list the file again).
Replace(t) ==
  /\ req[t].pc = "write" /\ GoodBytes(t)
  /\ req' = [req EXCEPT ![t].pc = "save"]
  /\ LET p == req[t].path IN
       IF RowThere(t) \/ row[p] = 0
       THEN \E bytes \in {req[t].got} \cup (IF p \in spoiled THEN {Mixed} ELSE {}) :
              /\ disk' = [disk EXCEPT ![p] = bytes]
              /\ spoiled' = IF RowThere(t) THEN spoiled ELSE spoiled \cup {p}
       ELSE UNCHANGED <<disk, spoiled>>
  /\ UNCHANGED <<portal, row, gen, up, pc, local, errors, kills>>

\* MD5 checksum mismatch: part file and file go.
Mismatch(t) ==
  /\ req[t].pc = "write" /\ ~GoodBytes(t)
  /\ IF RowThere(t) \/ row[req[t].path] = 0
     THEN Unlink({req[t].path}) ELSE UNCHANGED disk
  /\ spoiled' = IF req[t].path \in up THEN spoiled \cup {req[t].path} ELSE spoiled
  /\ Answer(t, FALSE)
  /\ UNCHANGED <<portal, row, gen, up, queue, over, kills>>

\* The part file cannot be written, or another request took it away.
WriteFails(t) ==
  /\ req[t].pc = "write"
  /\ Answer(t, FALSE)
  /\ UNCHANGED <<portal, store, queue, over, kills, spoiled>>

\* save(update_fields=["uploaded", "file_size"]): the row may have another md5
\* by now, or be gone.
SaveUploaded(t) ==
  /\ req[t].pc = "save"
  /\ IF RowThere(t)
     THEN /\ up' = up \cup {req[t].path}
          /\ spoiled' = IF row[req[t].path] # req[t].md5
                        THEN spoiled \cup {req[t].path} ELSE spoiled
     ELSE UNCHANGED <<up, spoiled>>
  /\ Answer(t, RowThere(t))
  /\ UNCHANGED <<portal, row, gen, disk, queue, over, kills>>

-------------------------------------------------------------------------------
ThreadStep(t) == Replace(t) \/ Mismatch(t) \/ WriteFails(t) \/ SaveUploaded(t)

CronStep ==
  \/ StartRun \/ Upsert \/ ListPending
  \/ \E p \in Path : SkipOverRetry(p) \/ TakeFile(p)
  \/ EndMirror \/ FetchOk \/ FetchFails \/ ClusterOffline
  \/ UploadFails \/ \E t \in Thread : StartUpload(t)

Next ==
  \/ \E p \in Path : Rewrite(p) \/ List(p) \/ Drop(p) \/ OperatorUnmarks(p)
  \/ CronStep \/ UpsertRollsBack \/ AnswerLost \/ Kill
  \/ \E t \in Thread : ThreadStep(t)

Spec == Init /\ [][Next]_vars

(***************************************************************************)
(* Fairness: cron starts runs and they go on, GWCloud ends the requests it *)
(* works on, and the cluster is not offline each time a file is asked for. *)
(* Failures are counted, so nothing is assumed of them; an upsert may fail *)
(* for good, it is given up at a cap of its own.                           *)
(***************************************************************************)
FetchAnswers(p) == at = p /\ (FetchOk \/ FetchFails)
Fairness ==
  /\ WF_vars(CronStep)
  /\ \A t \in Thread : WF_vars(ThreadStep(t))
  /\ \A p \in Path : SF_vars(FetchAnswers(p))

FairSpec == Spec /\ Fairness

-------------------------------------------------------------------------------
(* Properties.                                                              *)

Version == 0..MaxVer

StoreTypes ==
  /\ src \in [Path -> Version] /\ man \in [Path -> Version] /\ drops \in 0..MaxDrops
  /\ row \in [Path -> Version] /\ gen \in [Path -> 0..MaxDrops]
  /\ up \subseteq Path /\ disk \in [Path -> Version \cup {Mixed}]

CronTypes ==
  /\ pc \in {"idle", "meta", "files", "fetch", "upload", "wait"}
  /\ queue \subseteq Path /\ at \in Path \cup {NoPath} /\ mine \subseteq Thread
  /\ over \subseteq Path /\ done \in 0..MaxFiles
  /\ errors \in [Path -> 0..MaxRetry]
  /\ kills \in 0..MaxKills /\ spoiled \subseteq Path

Request == [pc : {"idle", "write", "save"}, path : Path \cup {NoPath},
            gen : 0..MaxDrops, md5 : Version, got : Version \cup {Mixed}]
ReqTypes == req \in [Thread -> Request]

TypeOK == StoreTypes /\ CronTypes /\ ReqTypes

\* A file marked uploaded is in place with the bytes its row promises, unless
\* two requests met at it or a rollback passed over it.
UploadedIsGenuine == \A p \in up : disk[p] = row[p] \/ p \in spoiled

\* A row that goes takes its file with it: unless an upload of it was under way,
\* nothing is in place without a row.
NoFileWithoutRow ==
  \A p \in Path : row[p] = 0 => p \notin up /\ (disk[p] = 0 \/ p \in spoiled)

\* A file whose row an upsert wrote, and that stays as the portal lists it, is
\* mirrored in the end, or given up after MAX_RETRY_ATTEMPTS failures.
EventuallyMirrored ==
  \A p \in Path, v \in 1..MaxVer :
    (row[p] = v /\ man[p] = v /\ src[p] = v) ~>
      (man[p] # v \/ src[p] # v \/ errors[p] = MaxRetry \/ (p \in up /\ row[p] = v))

===============================================================================
