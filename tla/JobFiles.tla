------------------------------- MODULE JobFiles -------------------------------
(***************************************************************************)
(* Jobs run elsewhere and uploaded (bilbyui/views.py: upload_bilby_job,    *)
(* upload_hdf5_bilby_job, upload_external_bilby_job), the listing of their *)
(* files and their download by token.  An upload unpacks into a staging    *)
(* directory, and in one database transaction creates the job, copies its  *)
(* supporting files, moves the directory into place and packs an archive   *)
(* of it; a rollback takes back rows only.  A listing hands out a download *)
(* token per file, which anybody who holds it may use until it expires.    *)
(*                                                                         *)
(* Ids are not used twice, so an upload is named by the id its job gets.   *)
(* Of a job's files one stands for all.  Elasticsearch is external.        *)
(***************************************************************************)
EXTENDS Naturals

CONSTANTS
  Upload,             \* uploads
  Token, NoToken,     \* download tokens; no token
  Of,                 \* the job that a token is created for, if it is
  Reader              \* requests for files, at one time

ASSUME TokenAssumption == NoToken \notin Token /\ Of \in [Token -> Upload]

VARIABLES
  pass,               \* the upload token that all use: "live", "old" (expired), "gone"
  step, kind,         \* an upload's next step; "archive", "hdf5" or "external"
  row,                \* its job: "none", "pending" (in the transaction), "committed"
  sup, url,           \* jobs with supporting file rows; external jobs with their url
  staging, dir,       \* staging directories; job directory: "none", "moved", "packed"
  copies,             \* jobs whose supporting files were copied
  doc,                \* jobs with a document in Elasticsearch
  private,            \* jobs their owner has made private
  tok,                \* a download token: "none", "live", "old", "gone"
  rpc, want,          \* a reader's next step, what it is about
  answer,             \* what the reader was told last
  passed,             \* history: uploads that began while the upload token was live
  began,              \* history: readers whose token was live when they began
  lapsed,             \* history: tokens whose time ran out
  cut                 \* history: uploads killed

database == <<pass, row, sup, url, tok>>
files    == <<staging, dir, copies>>
uploads  == <<step, kind, passed, cut>>
readers  == <<rpc, want, answer, began>>
vars     == <<database, files, uploads, readers, doc, private, lapsed>>

Kind == {"archive", "hdf5", "external"}

Init ==
  /\ pass = "live" /\ step = [u \in Upload |-> "new"] /\ kind = [u \in Upload |-> "external"]
  /\ row = [u \in Upload |-> "none"] /\ sup = {} /\ url = {}
  /\ staging = {} /\ dir = [u \in Upload |-> "none"] /\ copies = {}
  /\ doc = {} /\ private = {}
  /\ tok = [t \in Token |-> "none"]
  /\ rpc = [r \in Reader |-> "idle"] /\ want = [r \in Reader |-> NoToken]
  /\ answer = [r \in Reader |-> "none"]
  /\ passed = {} /\ began = {} /\ lapsed = {} /\ cut = {}

-------------------------------------------------------------------------------
(* Time.                                                                    *)

ExpirePass ==
  /\ pass = "live" /\ pass' = "old"
  /\ UNCHANGED <<row, sup, url, tok, files, uploads, readers, doc, private, lapsed>>

ExpireToken(t) ==
  /\ tok[t] = "live" /\ tok' = [tok EXCEPT ![t] = "old"] /\ lapsed' = lapsed \cup {t}
  /\ UNCHANGED <<pass, row, sup, url, files, uploads, readers, doc, private>>

-------------------------------------------------------------------------------
(* Uploads.                                                                 *)

Goto(u, s) == step' = [step EXCEPT ![u] = s]

\* Slip: expired tokens are not pruned first.
PassKept == pass
PassPruned == IF pass = "old" THEN "gone" ELSE pass

\* resolve_generate_bilby_job_upload_token, for anybody: it prunes as well.
GeneratePass ==
  /\ pass = "old" /\ pass' = PassPruned
  /\ UNCHANGED <<row, sup, url, tok, files, uploads, readers, doc, private, lapsed>>

\* BilbyJobUploadToken.get_by_token prunes ...
StartUpload(u, k) ==
  /\ step[u] = "new" /\ k \in Kind \ {"external"}
  /\ Goto(u, "token") /\ kind' = [kind EXCEPT ![u] = k]
  /\ passed' = IF pass = "live" THEN passed \cup {u} ELSE passed
  /\ pass' = PassPruned
  /\ UNCHANGED <<row, sup, url, tok, files, readers, doc, private, lapsed, cut>>

\* ... and selects; without a token the upload ends here.
FindPass(u) ==
  /\ step[u] = "token"
  /\ Goto(u, IF pass = "gone" THEN "failed" ELSE "stage")
  /\ UNCHANGED <<database, kind, files, readers, doc, private, lapsed, passed, cut>>

\* An external job is uploaded by a user who is logged in.
StartExternal(u) ==
  /\ step[u] = "new"
  /\ Goto(u, "create") /\ kind' = [kind EXCEPT ![u] = "external"]
  /\ UNCHANGED <<database, files, readers, doc, private, lapsed, passed, cut>>

\* The upload is written to a temporary directory, unpacked and validated:
\* directories, ini file, name, embargo.
Stage(u) ==
  /\ step[u] = "stage"
  /\ Goto(u, "create") /\ staging' = staging \cup {u}
  /\ UNCHANGED <<database, kind, dir, copies, readers, doc, private, lapsed, passed, cut>>

\* Slip: the rows of an upload are seen before it is over.
Outright(u) == "committed"

\* Only external jobs are created outside a transaction.
Created(u) == IF kind[u] = "external" THEN "committed" ELSE "pending"

\* _create_bilby_job_record, for the uploader, then saved for the token's user;
\* each save writes the document.
CreateJob(u) ==
  /\ step[u] = "create"
  /\ Goto(u, CASE kind[u] = "external" -> "url"
               [] kind[u] = "archive"  -> "support"
               [] kind[u] = "hdf5"     -> "move")
  /\ row' = [row EXCEPT ![u] = Created(u)] /\ doc' = doc \cup {u}
  /\ UNCHANGED <<pass, sup, url, tok, kind, files, readers, private, lapsed, passed, cut>>

AddUrl(u) ==
  /\ step[u] = "url"
  /\ Goto(u, "done") /\ url' = url \cup {u}
  /\ UNCHANGED <<pass, row, sup, tok, kind, files, readers, doc, private, lapsed, passed, cut>>

\* save_from_parsed(uploaded=True), and every source is copied.
SaveSupporting(u) ==
  /\ step[u] = "support"
  /\ Goto(u, "move")
  /\ sup' = sup \cup {u} /\ copies' = copies \cup {u}
  /\ UNCHANGED <<pass, row, url, tok, kind, staging, dir, readers, doc, private, lapsed, passed,
                 cut>>

\* shutil.move
MoveStaging(u) ==
  /\ step[u] = "move"
  /\ Goto(u, "pack")
  /\ staging' = staging \ {u} /\ dir' = [dir EXCEPT ![u] = "moved"]
  /\ UNCHANGED <<database, kind, copies, readers, doc, private, lapsed, passed, cut>>

\* Slip: tar's return code is not looked at.
PackAnyhow(u) ==
  /\ step[u] = "pack"
  /\ Goto(u, "commit")
  /\ \E d \in {"moved", "packed"} : dir' = [dir EXCEPT ![u] = d]
  /\ UNCHANGED <<database, kind, staging, copies, readers, doc, private, lapsed, passed, cut>>

PackArchive(u) ==
  /\ step[u] = "pack"
  /\ Goto(u, "commit") /\ dir' = [dir EXCEPT ![u] = "packed"]
  /\ UNCHANGED <<database, kind, staging, copies, readers, doc, private, lapsed, passed, cut>>

CommitUpload(u) ==
  /\ step[u] = "commit"
  /\ Goto(u, "done") /\ row' = [row EXCEPT ![u] = "committed"]
  /\ UNCHANGED <<pass, sup, url, tok, kind, files, readers, doc, private, lapsed, passed, cut>>

Working == {"token", "stage", "create", "url", "support", "move", "pack", "commit"}

\* The transaction is rolled back: rows go, files and document stay.
Rollback(u) ==
  /\ row' = IF row[u] = "pending" THEN [row EXCEPT ![u] = "none"] ELSE row
  /\ sup' = sup \ {u}

\* A bad archive, embargoed data, a name that is taken, a missing supporting
\* file, a full disk: the temporary directory is removed.
UploadFails(u) ==
  /\ step[u] \in Working \ {"token"}
  /\ Goto(u, "failed")
  /\ Rollback(u) /\ staging' = staging \ {u}
  /\ UNCHANGED <<pass, url, tok, kind, dir, copies, readers, doc, private, lapsed, passed, cut>>

UploadKilled(u) ==
  /\ step[u] \in Working
  /\ Goto(u, "failed") /\ cut' = cut \cup {u}
  /\ Rollback(u)
  /\ UNCHANGED <<pass, url, tok, kind, files, readers, doc, private, lapsed, passed>>

UploadStep(u) ==
  \/ \E k \in Kind : StartUpload(u, k)
  \/ FindPass(u) \/ StartExternal(u) \/ Stage(u) \/ CreateJob(u) \/ AddUrl(u)
  \/ SaveSupporting(u) \/ MoveStaging(u) \/ PackArchive(u) \/ CommitUpload(u)
  \/ UploadFails(u) \/ UploadKilled(u)

\* The owner changes the job's privacy.
SetPrivate(u) ==
  /\ row[u] = "committed"
  /\ private' = IF u \in private THEN private \ {u} ELSE private \cup {u}
  /\ UNCHANGED <<database, files, uploads, readers, doc, lapsed>>

-------------------------------------------------------------------------------
(* Listing, exchange and download, for a viewer who is not the owner.       *)

Visible(u) == row[u] = "committed" /\ u \notin private

Turn(r, s) == rpc' = [rpc EXCEPT ![r] = s]

Tell(r, what) ==
  /\ rpc' = [rpc EXCEPT ![r] = "idle"] /\ answer' = [answer EXCEPT ![r] = what]
  /\ want' = [want EXCEPT ![r] = NoToken]

\* resolve_bilby_result_files, _build_result_files: get_job, then the files ...
OpenListing(r, t) ==
  /\ rpc[r] = "idle" /\ tok[t] = "none" /\ t \notin {want[q] : q \in Reader}
  /\ Visible(Of[t])
  /\ Turn(r, "list") /\ want' = [want EXCEPT ![r] = t]
  /\ UNCHANGED <<database, files, uploads, answer, began, doc, private, lapsed>>

\* ... of a directory, for which tokens are created; an external job has its url.
List(r) ==
  /\ rpc[r] = "list"
  /\ LET u == Of[want[r]] IN
       IF kind[u] = "external"
       THEN Tell(r, IF u \in url THEN "url" ELSE "nothing") /\ UNCHANGED tok
       ELSE IF dir[u] = "none" THEN Tell(r, "nothing") /\ UNCHANGED tok
       ELSE Tell(r, "listed") /\ tok' = [tok EXCEPT ![want[r]] = "live"]
  /\ UNCHANGED <<pass, row, sup, url, files, uploads, began, doc, private, lapsed>>

\* Slip: what is not yet expired is pruned.
PruneWrong == [t \in Token |-> IF tok[t] = "live" THEN "gone" ELSE tok[t]]

\* FileDownloadToken.prune
Pruned == [t \in Token |-> IF tok[t] = "old" THEN "gone" ELSE tok[t]]

Begin(r, t, s) ==
  /\ rpc[r] = "idle" /\ tok[t] # "none"
  /\ want' = [want EXCEPT ![r] = t] /\ Turn(r, s)
  /\ began' = IF tok[t] = "live" THEN began \cup {r} ELSE began \ {r}
  /\ tok' = Pruned
  /\ UNCHANGED <<pass, row, sup, url, files, uploads, answer, doc, private, lapsed>>

\* GenerateFileDownloadIds, file_download_redirect: the job is opened again, and
\* for an uploaded job the tokens themselves are the download ids.
BeginExchange(r, t) == Visible(Of[t]) /\ Begin(r, t, "exchange")

\* file_download
BeginDownload(r, t) == Begin(r, t, "download")

\* Slip: a pruned token is as good as one that is there.
FoundOnce(r) == TRUE

Found(r) == tok[want[r]] \in {"live", "old"}

Exchange(r) ==
  /\ rpc[r] = "exchange"
  /\ Tell(r, IF Found(r) THEN "exchanged" ELSE "refused")
  /\ UNCHANGED <<database, files, uploads, began, doc, private, lapsed>>

\* The file must be there.
Download(r) ==
  /\ rpc[r] = "download"
  /\ Tell(r, IF Found(r) /\ dir[Of[want[r]]] # "none" THEN "served" ELSE "refused")
  /\ UNCHANGED <<database, files, uploads, began, doc, private, lapsed>>

ReaderStep(r) ==
  \/ \E t \in Token : OpenListing(r, t) \/ BeginExchange(r, t) \/ BeginDownload(r, t)
  \/ List(r) \/ Exchange(r) \/ Download(r)

Next ==
  \/ ExpirePass \/ GeneratePass \/ \E t \in Token : ExpireToken(t)
  \/ \E u \in Upload : UploadStep(u) \/ SetPrivate(u)
  \/ \E r \in Reader : ReaderStep(r)

Spec == Init /\ [][Next]_vars

-------------------------------------------------------------------------------
(* Properties.                                                              *)

TypeOK ==
  /\ pass \in {"live", "old", "gone"}
  /\ step \in [Upload -> Working \cup {"new", "done", "failed"}] /\ kind \in [Upload -> Kind]
  /\ row \in [Upload -> {"none", "pending", "committed"}]
  /\ sup \subseteq Upload /\ url \subseteq Upload
  /\ staging \subseteq Upload /\ dir \in [Upload -> {"none", "moved", "packed"}]
  /\ copies \subseteq Upload /\ doc \subseteq Upload /\ private \subseteq Upload
  /\ tok \in [Token -> {"none", "live", "old", "gone"}]
  /\ rpc \in [Reader -> {"idle", "list", "exchange", "download"}]
  /\ want \in [Reader -> Token \cup {NoToken}]
  /\ answer \in [Reader -> {"none", "url", "nothing", "listed", "exchanged", "served",
                            "refused"}]
  /\ passed \subseteq Upload /\ cut \subseteq Upload
  /\ began \subseteq Reader /\ lapsed \subseteq Token

Whole(u) ==
  IF kind[u] = "external" THEN u \in url
  ELSE dir[u] = "packed" /\ (kind[u] = "archive" => u \in sup \cap copies)

\* Uploads are whole or nothing, wherever they fail: a job that others see has
\* its directory, its archive, its supporting files, or is an external job still
\* being uploaded, or cut off, before its url; an upload that is over and was
\* not killed leaves no staging directory.
WholeOrNothing ==
  \A u \in Upload :
    /\ row[u] = "committed" => Whole(u) \/ (kind[u] = "external" /\ step[u] # "done")
    /\ step[u] \in {"done", "failed"} /\ u \in staging => u \in cut

Says(r, what) == answer[r] # what /\ answer'[r] = what

\* What is left of a failed upload is never served, nor a file by a token that
\* had expired before the request, however many requests prune at a time.
ServedIsOwed ==
  [][\A r \in Reader : Says(r, "served") => r \in began /\ row[Of[want[r]]] = "committed"]_vars

\* A token is refused only once its time ran out: other requests' pruning spares
\* it, and its file is there.
LiveIsServed == [][\A r \in Reader : Says(r, "refused") => want[r] \in lapsed]_vars

\* Every upload that got past its token had one that was live when it began.
UploadsHadPass ==
  \A u \in Upload : row[u] # "none" /\ kind[u] # "external" => u \in passed

===============================================================================
