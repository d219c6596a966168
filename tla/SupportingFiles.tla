---------------------------- MODULE SupportingFiles ----------------------------
(***************************************************************************)
(* A bilby job whose ini names supporting files is created without being   *)
(* submitted; the client uploads the files with one token each, and the    *)
(* request that finds no file left to upload submits the job to the job    *)
(* controller (bilbyui/views.py, models.py).  Requests are threads of the  *)
(* web server, there is no transaction around them, and each first prunes  *)
(* the jobs whose files did not come in time.  This is the life of one job *)
(* under a few such requests, and under edits of its owner.                *)
(***************************************************************************)
EXTENDS Integers, FiniteSets

CONSTANTS
  File,                   \* the supporting files a job may have
  Req,                    \* requests at work at a time
  MaxPosts,               \* bound: submissions the job controller accepts
  MaxKills                \* bound: requests that die with their worker

ASSUME BoundAssumption == MaxPosts \in Nat \ {0} /\ MaxKills \in Nat

VARIABLES
  job,                    \* the BilbyJob row: "none" yet, "live", "gone"
  jcid,                   \* its job_controller_id, 0 being NULL
  rows, unup,             \* its SupportingFile rows; those with an upload token
  disk,                   \* each file in the upload directory
  expired,                \* older than UPLOAD_SUPPORTING_FILE_EXPIRY?
  posts,                  \* job controller: jobs it has accepted for this row
  pc, todo, file,         \* per request: where it is, files to do, file at hand
  got,                    \* per request: the id the job controller answered
  edit,                   \* an edit under way: the job_controller_id it loaded
  kills,                  \* requests that died
  wanted,                 \* history: the files the ini names
  lost,                   \* history: files a prune deleted before they came
  excuse,                 \* history: what else has gone wrong so far
  shared                  \* history: files that two requests wrote at a time

record  == <<job, jcid, rows, unup>>
request == <<pc, todo, file, got>>
history == <<wanted, lost, excuse, shared>>
vars    == <<record, disk, expired, posts, request, edit, kills, history>>

NoFile == "no file"
NoEdit == -1
busy   == {r \in Req : pc[r] # "idle"}

-------------------------------------------------------------------------------
Init ==
  /\ job = "none" /\ jcid = 0 /\ rows = {} /\ unup = {}
  /\ disk = [f \in File |-> "absent"]
  /\ expired = FALSE /\ posts = 0
  /\ pc = [r \in Req |-> "idle"] /\ todo = [r \in Req |-> {}]
  /\ file = [r \in Req |-> NoFile] /\ got = [r \in Req |-> 0]
  /\ edit = NoEdit /\ kills = 0
  /\ wanted = {} /\ lost = {} /\ excuse = {} /\ shared = {}

Goto(r, p) == pc' = [pc EXCEPT ![r] = p]
Finish(r) ==
  /\ Goto(r, "idle")
  /\ todo' = [todo EXCEPT ![r] = {}]
  /\ file' = [file EXCEPT ![r] = NoFile] /\ got' = [got EXCEPT ![r] = 0]

\* A day passes.
Expire ==
  /\ job # "none" /\ ~expired
  /\ expired' = TRUE
  /\ UNCHANGED <<record, disk, posts, request, edit, kills, history>>

-------------------------------------------------------------------------------
(* create_bilby_job_from_ini_string: the job, then the rows of its files;   *)
(* create_bilby_job makes one that has none.                                *)

CreateJob(r) ==
  /\ pc[r] = "idle" /\ job = "none"
  /\ Goto(r, "rows")
  /\ job' = "live"
  /\ UNCHANGED <<jcid, rows, unup, disk, expired, posts, todo, file, got, edit, kills,
                 history>>

\* parse_supporting_files: those the ini names, of whatever kind.
Parsed == SUBSET File
\* One row, and one upload token, for each.
BulkCreate(F) == rows' = F /\ unup' = F

\* A job without supporting files is submitted at once.
SaveFromParsed(r) ==
  /\ pc[r] = "rows"
  /\ \E F \in Parsed :
       /\ BulkCreate(F) /\ wanted' = F
       /\ IF F = {} THEN Goto(r, "post") /\ UNCHANGED <<todo, file, got>>
                    ELSE Finish(r)
  /\ UNCHANGED <<job, jcid, disk, expired, posts, edit, kills, lost, excuse, shared>>

-------------------------------------------------------------------------------
(* uploadSupportingFiles: prune, look the tokens up, take the files.        *)

Start(r, F) ==
  /\ pc[r] = "idle" /\ F \subseteq rows
  /\ Goto(r, "prune")
  /\ todo' = [todo EXCEPT ![r] = F]
  /\ UNCHANGED <<record, disk, expired, posts, file, got, edit, kills, history>>

\* prune_supporting_files_jobs selects the expired jobs with a file missing...
PruneSelect(r) ==
  /\ pc[r] = "prune"
  /\ Goto(r, IF job = "live" /\ expired /\ unup # {} THEN "delete" ELSE "lookup")
  /\ UNCHANGED <<record, disk, expired, posts, todo, file, got, edit, kills, history>>

\* on_delete=CASCADE
RowsGo == rows' = {} /\ unup' = {}

\* ...and deletes what it selected, with the rows of the files.
PruneDelete(r) ==
  /\ pc[r] = "delete"
  /\ Goto(r, "lookup")
  /\ job' = "gone" /\ RowsGo /\ jcid' = 0
  /\ lost' = lost \cup unup
  /\ excuse' = IF jcid # 0 THEN excuse \cup {"pruned"} ELSE excuse
  /\ UNCHANGED <<disk, expired, posts, todo, file, got, edit, kills, wanted, shared>>

\* Every token must be there; a request of another job's is done with here.
LookUp(r) ==
  /\ pc[r] = "lookup"
  /\ IF todo[r] # {} /\ todo[r] \subseteq unup
     THEN Goto(r, "next") /\ UNCHANGED <<todo, file, got>>
     ELSE Finish(r)
  /\ UNCHANGED <<record, disk, expired, posts, edit, kills, history>>

\* The row of the job is read and the file opened, which empties it.
OpenFile(r) ==
  /\ pc[r] = "next" /\ job = "live"
  /\ \E f \in todo[r] :
       /\ file' = [file EXCEPT ![r] = f]
       /\ todo' = [todo EXCEPT ![r] = @ \ {f}]
       /\ disk' = [disk EXCEPT ![f] = "partial"]
       /\ shared' = IF f \notin unup \/ \E q \in Req \ {r} : file[q] = f
                    THEN shared \cup {f} ELSE shared
  /\ Goto(r, "write")
  /\ UNCHANGED <<record, expired, posts, got, edit, kills, wanted, lost, excuse>>

WriteFile(r) ==
  /\ pc[r] = "write"
  /\ Goto(r, "clear")
  /\ disk' = [disk EXCEPT ![file[r]] = "whole"]
  /\ UNCHANGED <<record, expired, posts, todo, file, got, edit, kills, history>>

\* The job is gone when it is read or when a row that refers to it is saved, or
\* the disk is full: the request fails, whatever it has done before.
UploadFails(r) ==
  /\ \/ pc[r] \in {"next", "clear"} /\ job = "gone"
     \/ pc[r] = "write"
  /\ Finish(r)
  /\ UNCHANGED <<record, disk, expired, posts, edit, kills, history>>

\* After a file that was not the last.
NextFile(r) ==
  IF todo[r] # {} THEN Goto(r, "next") /\ UNCHANGED <<todo, file, got>> ELSE Finish(r)

\* upload_token.save() writes the whole row, and a new one if it was deleted.
ClearToken(r) ==
  /\ pc[r] = "clear" /\ job = "live"
  /\ rows' = rows \cup {file[r]} /\ unup' = unup \ {file[r]}
  /\ Goto(r, "check")
  /\ UNCHANGED <<job, jcid, disk, expired, posts, todo, file, got, edit, kills, history>>

\* Slip: the last file of the request is taken for the last of the job.
LastOfRequest(r) == todo[r] = {}
\* Slip: every file of the job is looked at.
NoRowLeft(r) == rows = {}
\* get_unuploaded_supporting_files(job) finds none
NoneLeft(r) == unup = {}

CheckRest(r) ==
  /\ pc[r] = "check"
  /\ IF NoneLeft(r) THEN Goto(r, "post") /\ UNCHANGED <<todo, file, got>> ELSE NextFile(r)
  /\ UNCHANGED <<record, disk, expired, posts, edit, kills, history>>

-------------------------------------------------------------------------------
(* BilbyJob.submit                                                          *)

PostAnswered(r) ==
  /\ pc[r] = "post" /\ posts < MaxPosts
  /\ posts' = posts + 1
  /\ got' = [got EXCEPT ![r] = posts + 1]
  /\ Goto(r, "save")
  /\ UNCHANGED <<record, disk, expired, todo, file, edit, kills, history>>

\* The job controller refuses or is away, or accepts and its answer is lost.
\* Nothing retries: the tokens are spent.
PostFails(r) ==
  /\ pc[r] = "post"
  /\ posts' \in {posts, posts + 1} \cap 0..MaxPosts
  /\ excuse' = excuse \cup {"post failed"}
  /\ Finish(r)
  /\ UNCHANGED <<record, disk, expired, edit, kills, wanted, lost, shared>>

\* Slip: the answer is not stored.
KeepNoId(r) == UNCHANGED <<job, jcid>>
\* self.save() writes the whole row, and a new one if it was deleted.
SaveRow(r) == job' = "live" /\ jcid' = got[r]

SaveId(r) ==
  /\ pc[r] = "save"
  /\ SaveRow(r)
  /\ NextFile(r)
  /\ UNCHANGED <<rows, unup, disk, expired, posts, edit, kills, history>>

-------------------------------------------------------------------------------
(* update_job by the owner: load the row, change a field, save the row.     *)

EditLoad ==
  /\ job = "live" /\ edit = NoEdit
  /\ edit' = jcid
  /\ UNCHANGED <<record, disk, expired, posts, request, kills, history>>

EditSave ==
  /\ edit # NoEdit
  /\ edit' = NoEdit
  /\ job' = "live" /\ jcid' = edit
  /\ excuse' = IF edit # jcid THEN excuse \cup {"stale edit"} ELSE excuse
  /\ UNCHANGED <<rows, unup, disk, expired, posts, request, kills, wanted, lost, shared>>

\* The worker dies with its request.
Kill(r) ==
  /\ pc[r] # "idle" /\ kills < MaxKills
  /\ kills' = kills + 1
  /\ Finish(r)
  /\ excuse' = excuse \cup {"killed"}
  /\ UNCHANGED <<record, disk, expired, posts, edit, wanted, lost, shared>>

ReqStep(r) ==
  \/ CreateJob(r) \/ SaveFromParsed(r)
  \/ \E F \in SUBSET File : Start(r, F)
  \/ PruneSelect(r) \/ PruneDelete(r) \/ LookUp(r)
  \/ OpenFile(r) \/ WriteFile(r) \/ UploadFails(r) \/ ClearToken(r) \/ CheckRest(r)
  \/ PostAnswered(r) \/ PostFails(r) \/ SaveId(r) \/ Kill(r)

Next == Expire \/ EditLoad \/ EditSave \/ \E r \in Req : ReqStep(r)

Spec == Init /\ [][Next]_vars

-------------------------------------------------------------------------------
(* Properties.                                                              *)

TypeOK ==
  /\ job \in {"none", "live", "gone"} /\ jcid \in 0..MaxPosts
  /\ rows \subseteq File /\ unup \subseteq rows
  /\ disk \in [File -> {"absent", "partial", "whole"}]
  /\ expired \in BOOLEAN /\ posts \in 0..MaxPosts
  /\ pc \in [Req -> {"idle", "rows", "prune", "delete", "lookup", "next", "write",
                     "clear", "check", "post", "save"}]
  /\ todo \in [Req -> SUBSET File] /\ file \in [Req -> File \cup {NoFile}]
  /\ got \in [Req -> 0..MaxPosts] /\ edit \in NoEdit..MaxPosts /\ kills \in 0..MaxKills
  /\ excuse \subseteq {"pruned", "post failed", "stale edit", "killed"}
  /\ wanted \subseteq File /\ lost \subseteq File /\ shared \subseteq File

\* The job is submitted only when every file its ini names has come whole: the
\* request that finds none left to upload is right about it, unless two requests
\* used the file's token at a time, or a prune had deleted the row of the file
\* before it came: a deleted row is no row left to upload.
SubmittedComplete ==
  [][posts' > posts =>
       \A f \in wanted : disk[f] = "whole" \/ f \in shared \/ f \in lost]_vars

\* When every file has come and nobody is at work on the job, it was submitted:
\* of two requests that bring the last files at the same time, one sees that
\* none is left.  Only a request that died or failed to submit leaves it behind.
SomebodySubmits ==
  job = "live" /\ rows # {} /\ unup = {} /\ busy = {} =>
    posts > 0 \/ excuse \cap {"killed", "post failed"} # {}

\* When nobody is at work on a job the job controller accepted, it has an id of
\* the job controller, unless a known mishap came between.
AcceptedHasId ==
  posts > 0 /\ busy = {} => (job = "live" /\ jcid # 0) \/ excuse # {}

===============================================================================
