------------------------------ MODULE GwoscIngest ------------------------------
(***************************************************************************)
(* The GWOSC cron (gwosc_cron/gwosc_ingest.py): every hour it takes the    *)
(* events of the GWOSC catalogue that are not in its completed_jobs table, *)
(* one after the other, and uploads the Bilby configurations of an event's *)
(* h5 file to GWCloud as external jobs, until one event is done with.      *)
(* Events that fail are counted in job_errors and closed at the cap.       *)
(* GWCloud refuses a second job of the same name, and a second event id.   *)
(***************************************************************************)
EXTENDS Integers, FiniteSets

CONSTANTS
  Event,              \* catalogue entries, as ranks in the order of allevents
  Key,                \* top-level keys of h5 files, as ranks
  Config,             \* [Event -> SUBSET Key]: the keys that hold a configuration
  Name, NoName,       \* [Event -> commonName]; NoName when it is no event id
  Unfit,              \* ignored catalogue, no preferred job or no data url
  MaxRetry,           \* MAX_RETRY_ATTEMPTS
  MaxKills            \* bound: runs killed

ASSUME RankAssumption == Event \subseteq Nat \ {0} /\ Key \subseteq Nat \ {0}
ASSUME DataAssumption == Config \in [Event -> SUBSET Key] /\ Unfit \subseteq Event
ASSUME CountAssumption == MaxRetry \in Nat \ {0} /\ MaxKills \in Nat

VARIABLES
  catalog,            \* the events GWOSC publishes
  closed,             \* sqlite completed_jobs: how an event ended, or "open"
  errors,             \* sqlite job_errors: failure_count
  jobs,               \* jobs on GWCloud, named <<event, key>>
  labelled,           \* those that have their event id
  ids,                \* event ids on GWCloud
  step,
  queue, cur,         \* the rest of jobs_delta; event_name
  known,              \* gwcloud_event_ids, read when the run started
  keys, allOk, noneOk,\* the rest of h5; all_succeeded and none_succeeded
  kills

cloud  == <<jobs, labelled, ids>>
local  == <<queue, cur, known, keys, allOk, noneOk>>
gwoscVars   == <<catalog, closed, errors, cloud, step, local, kills>>

NoEvent == 0
-------------------------------------------------------------------------------
GwoscInit ==
  /\ catalog = {} /\ closed = [e \in Event |-> "open"] /\ errors = [e \in Event |-> 0]
  /\ jobs = {} /\ labelled = {} /\ ids = {}
  /\ step = "idle" /\ queue = {} /\ cur = NoEvent /\ known = {}
  /\ keys = {} /\ allOk = TRUE /\ noneOk = TRUE /\ kills = 0

Publish(e) ==
  /\ e \notin catalog
  /\ catalog' = catalog \cup {e}
  /\ UNCHANGED <<closed, errors, cloud, step, local, kills>>

EndIngest ==
  step' = "idle" /\ queue' = {} /\ cur' = NoEvent /\ known' = {}
  /\ keys' = {} /\ allOk' = TRUE /\ noneOk' = TRUE

NextEvent ==
  /\ step' = "pick" /\ cur' = NoEvent /\ keys' = {} /\ allOk' = TRUE /\ noneOk' = TRUE
  /\ UNCHANGED <<queue, known>>

\* Slip: not counted.
Uncounted(e) == errors
\* record_job_failure
Recorded(e) == [errors EXCEPT ![e] = @ + 1]
Failure == errors' = Recorded(cur) /\ NextEvent

\* Slip: an event that was done in part is taken up again.
NoSuccess(e) == closed[e] # "success"
InDelta(e) == closed[e] = "open"

\* Under the lock: jobs_delta and the event ids; with nothing to do it exits.
StartIngest ==
  /\ step = "idle"
  /\ queue' = {e \in catalog : InDelta(e)} /\ queue' # {}
  /\ step' = "pick" /\ known' = ids
  /\ UNCHANGED <<catalog, closed, errors, cloud, cur, keys, allOk, noneOk, kills>>

First(e, S) == e \in S /\ \A d \in S : e <= d

AtCap(e) == errors[e] >= MaxRetry

\* max_retries_exceeded
GiveUp(e) ==
  /\ step = "pick" /\ First(e, queue) /\ AtCap(e)
  /\ closed' = [closed EXCEPT ![e] = "retries"]
  /\ queue' = queue \ {e}
  /\ UNCHANGED <<catalog, errors, cloud, step, cur, known, keys, allOk, noneOk, kills>>

TakeEvent(e) ==
  /\ step = "pick" /\ First(e, queue) /\ ~AtCap(e)
  /\ step' = "event" /\ queue' = queue \ {e} /\ cur' = e
  /\ UNCHANGED <<catalog, closed, errors, cloud, known, keys, allOk, noneOk, kills>>

\* The list is done: the run ends without an upload.
EndOfList ==
  /\ step = "pick" /\ queue = {}
  /\ EndIngest
  /\ UNCHANGED <<catalog, closed, errors, cloud, kills>>

\* No jsonurl, a network error, malformed json, missing keys.
EventJsonFails ==
  /\ step = "event"
  /\ Failure
  /\ UNCHANGED <<catalog, closed, cloud, kills>>

\* ignored_event, no preferred job, no dataurl
CloseUnfit ==
  /\ step = "event" /\ cur \in Unfit
  /\ closed' = [closed EXCEPT ![cur] = "unfit"]
  /\ NextEvent
  /\ UNCHANGED <<catalog, errors, cloud, kills>>

Fit == step = "event" /\ cur \notin Unfit
Download == step' = "download" /\ UNCHANGED <<queue, cur, known, keys, allOk, noneOk>>

\* The event id is in the list read at the start, or none is needed.
IdKnown ==
  /\ Fit /\ Name[cur] \in known \cup {NoName}
  /\ Download
  /\ UNCHANGED <<catalog, closed, errors, cloud, kills>>

NeedsId == Fit /\ Name[cur] \notin known \cup {NoName}

CreateId ==
  /\ NeedsId /\ Name[cur] \notin ids
  /\ ids' = ids \cup {Name[cur]}
  /\ Download
  /\ UNCHANGED <<catalog, closed, errors, jobs, labelled, kills>>

\* It fails, after GWCloud created the id or before; it must when the id is there.
CreateIdFails ==
  /\ NeedsId
  /\ ids' \in {ids, ids \cup {Name[cur]}}
  /\ Failure
  /\ UNCHANGED <<catalog, closed, jobs, labelled, kills>>

\* The h5 file cannot be downloaded or opened.
DownloadFails ==
  /\ step = "download"
  /\ Failure
  /\ UNCHANGED <<catalog, closed, cloud, kills>>

DownloadOk ==
  /\ step = "download"
  /\ step' = "upload" /\ keys' = Config[cur]
  /\ UNCHANGED <<catalog, closed, errors, cloud, queue, cur, known, allOk, noneOk, kills>>

\* A key whose configuration cannot be read: the keys before it are uploaded.
ReadFails ==
  /\ step = "upload" /\ keys # {}
  /\ Failure
  /\ UNCHANGED <<catalog, closed, cloud, kills>>

\* upload_external_job
Upload(k) ==
  /\ step = "upload" /\ First(k, keys) /\ <<cur, k>> \notin jobs
  /\ jobs' = jobs \cup {<<cur, k>>}
  /\ IF Name[cur] = NoName
     THEN noneOk' = FALSE /\ keys' = keys \ {k} /\ UNCHANGED step
     ELSE step' = "label" /\ UNCHANGED <<noneOk, keys>>
  /\ UNCHANGED <<catalog, closed, errors, labelled, ids, queue, cur, known, allOk, kills>>

\* Slip: a failure is forgotten when the next configuration succeeds.
Forgets == TRUE
Remembers == FALSE
\* GWDCUnknownException: the other configurations are tried all the same.
KeyFails(k) == allOk' = Remembers /\ keys' = keys \ {k} /\ step' = "upload"

\* It fails, after GWCloud created the job or before; it must when a job has
\* the name.
UploadFails(k) ==
  /\ step = "upload" /\ First(k, keys)
  /\ jobs' \in {jobs, jobs \cup {<<cur, k>>}}
  /\ KeyFails(k)
  /\ UNCHANGED <<catalog, closed, errors, labelled, ids, queue, cur, known, noneOk, kills>>

\* set_event_id, in the same try block
Label(k) ==
  /\ step = "label" /\ First(k, keys)
  /\ labelled' = labelled \cup {<<cur, k>>}
  /\ step' = "upload" /\ noneOk' = FALSE /\ keys' = keys \ {k}
  /\ UNCHANGED <<catalog, closed, errors, jobs, ids, queue, cur, known, allOk, kills>>

LabelFails(k) ==
  /\ step = "label" /\ First(k, keys)
  /\ labelled' \in {labelled, labelled \cup {<<cur, k>>}}
  /\ KeyFails(k)
  /\ UNCHANGED <<catalog, closed, errors, jobs, ids, queue, cur, known, noneOk, kills>>

Uploaded == step = "upload" /\ keys = {}
\* Slip: an event is closed whatever came of it.
Whatever == TRUE
\* All went well, or some did: a second attempt would meet the jobs of the first.
Settled == allOk \/ ~noneOk

AllFailed ==
  /\ Uploaded /\ ~Settled
  /\ Failure
  /\ UNCHANGED <<catalog, closed, cloud, kills>>

\* completed_submit, and the end of the run
Save ==
  /\ Uploaded /\ Settled
  /\ closed' = [closed EXCEPT ![cur] = CASE ~allOk -> "partial"
                                         [] allOk /\ noneOk -> "empty"
                                         [] OTHER -> "success"]
  /\ EndIngest
  /\ UNCHANGED <<catalog, errors, cloud, kills>>

\* The process is killed, or an exception nobody catches ends it.
Kill ==
  /\ step # "idle" /\ kills < MaxKills
  /\ kills' = kills + 1
  /\ EndIngest
  /\ UNCHANGED <<catalog, closed, errors, cloud>>

-------------------------------------------------------------------------------
RunStep ==
  \/ StartIngest \/ EndOfList \/ EventJsonFails \/ CloseUnfit
  \/ \E e \in Event : GiveUp(e) \/ TakeEvent(e)
  \/ IdKnown \/ CreateId \/ CreateIdFails \/ DownloadFails \/ DownloadOk \/ ReadFails
  \/ \E k \in Key : Upload(k) \/ UploadFails(k) \/ Label(k) \/ LabelFails(k)
  \/ AllFailed \/ Save

GwoscNext == (\E e \in Event : Publish(e)) \/ RunStep \/ Kill

GwoscSpec == GwoscInit /\ [][GwoscNext]_gwoscVars

\* Cron starts the script every hour and it goes on; nothing is assumed of what
\* GWOSC and GWCloud answer.
GwoscFairSpec == GwoscSpec /\ WF_gwoscVars(RunStep)

-------------------------------------------------------------------------------
(* Properties.                                                              *)

GwoscTypeOK ==
  /\ catalog \subseteq Event
  /\ closed \in [Event -> {"open", "retries", "unfit", "success", "partial", "empty"}]
  /\ errors \in [Event -> 0..MaxRetry]
  /\ jobs \subseteq Event \X Key /\ labelled \subseteq jobs
  /\ ids \subseteq {Name[e] : e \in Event}
  /\ step \in {"idle", "pick", "event", "download", "upload", "label"}
  /\ queue \subseteq catalog /\ cur \in catalog \cup {NoEvent} /\ known \subseteq ids
  /\ keys \subseteq Key /\ allOk \in BOOLEAN /\ noneOk \in BOOLEAN
  /\ kills \in 0..MaxKills

Whole(e, k) == <<e, k>> \in jobs /\ (Name[e] # NoName => <<e, k>> \in labelled)

\* An event is closed as a success only with each of its configurations on
\* GWCloud under its event id, however many runs failed or were killed before.
SuccessIsWhole ==
  \A e \in Event : closed[e] = "success" =>
    Config[e] # {} /\ \A k \in Config[e] : Whole(e, k)

\* An event closed after a failed upload has a job to show for it: one that got
\* nothing is retried.
ClosedPartialHasJob ==
  \A e \in Event : closed[e] = "partial" => \E k \in Config[e] : Whole(e, k)

\* What the cron has said of its events, in the terms of VerdictSpec.
EventVerdict == INSTANCE VerdictSpec WITH
  Item <- Event, Part <- Key, Needed <- Config,
  good <- {j \in jobs : Whole(j[1], j[2])}, bad <- {},
  verdict <- [e \in Event |-> CASE closed[e] = "open" -> "open"
                                [] closed[e] = "success" -> "whole"
                                [] closed[e] = "partial" -> "some"
                                [] closed[e] \in {"retries", "unfit", "empty"} -> "given up"]

\* What completed_jobs says of an event is said once, is not taken back, and stays
\* true of GWCloud: as a success with each configuration there under its event id,
\* as done with one of them at least.
EventsAreJudged == EventVerdict!Spec

\* One event whose uploads keep failing, in whatever way the code counts, does not
\* keep the others from being tried: each event is closed in the end, provided that
\* kills, and exceptions that nobody catches, end finitely many runs (MaxKills).
EventuallyClosed == \A e \in Event : e \in catalog ~> closed[e] # "open"

===============================================================================
