------------------------------ MODULE JobListing ------------------------------
(***************************************************************************)
(* Bilby jobs in the database, their documents in Elasticsearch, and what  *)
(* a user is shown of them (bilbyui/models.py, services/jobs.py).  Every   *)
(* save of a job rewrites its row, deletes and recreates its ini key/value *)
(* pairs and then writes its document, each step in a transaction of its   *)
(* own and from the instance loaded when the request began; deleting a job *)
(* removes the document first.  The list of public jobs asks Elasticsearch *)
(* and then the database, the page of one job the database twice.          *)
(*                                                                         *)
(* Of a job only the flag private is kept (edits of other fields write it  *)
(* back as they loaded it), of its key/value pairs how many full sets of   *)
(* them there are.  Jobs without an ini string, which are never indexed,   *)
(* are left out.  The user and job services and Elasticsearch are external.*)
(***************************************************************************)
EXTENDS Integers, FiniteSets

CONSTANTS
  Job, NoJob,         \* job ids, never used twice; no job
  Embargoed,          \* real data with a trigger time after EMBARGO_START_TIME, or with none
  Writer,             \* requests, cron jobs and commands that write jobs
  MaxStarts           \* bound: operations started by writers

ASSUME JobAssumption == IsFiniteSet(Job) /\ NoJob \notin Job /\ Embargoed \subseteq Job
ASSUME BoundAssumption == MaxStarts \in Nat

VARIABLES
  row,                \* the row's flag: "public", "private", or "none"
  sets,               \* full sets of key/value pairs the job has (2: more than one)
  doc, params,        \* the document's flag; documents that have params
  stale,              \* documents changed since searches last took notice
  born,               \* ids handed out
  pc, job, flag,      \* a writer's next step, its job, the flag of its instance
  sees,               \* whether the pairs were there when it read them for the document
  starts,
  rpc, viewer,        \* the reader's next step; "embargo" or "ligo"
  asked, hits, count, \* jobs it asks for; records found; qs_before.count()
  shown,              \* jobs shown to the viewer
  lone,               \* history: writers no other writer of their job overlapped
  clean,              \* history: jobs whose last rewrite was lone and did not fail
  calm                \* history: nothing was written since the reader began, and all was clean

store   == <<row, sets>>
index   == <<doc, params, stale>>
writers == <<pc, job, flag, sees>>
reader  == <<rpc, viewer, asked, hits, count, shown>>
vars    == <<store, index, born, writers, starts, reader, lone, clean, calm>>

Flag   == {"public", "private"}
Viewer == {"embargo", "ligo"}

Init ==
  /\ row = [j \in Job |-> "none"] /\ sets = [j \in Job |-> 0]
  /\ doc = [j \in Job |-> "none"] /\ params = {} /\ stale = {} /\ born = {}
  /\ pc = [w \in Writer |-> "idle"] /\ job = [w \in Writer |-> NoJob]
  /\ flag = [w \in Writer |-> "public"] /\ sees = [w \in Writer |-> FALSE] /\ starts = 0
  /\ rpc = "idle" /\ viewer = "ligo" /\ asked = {} /\ hits = {} /\ count = 0 /\ shown = {}
  /\ lone = {} /\ clean = {} /\ calm = FALSE

-------------------------------------------------------------------------------
(* Writers.                                                                 *)

OnJob(j) == {w \in Writer : pc[w] # "idle" /\ job[w] = j}

Begin(w, j, step, f) ==
  /\ pc[w] = "idle" /\ starts < MaxStarts
  /\ starts' = starts + 1
  /\ pc' = [pc EXCEPT ![w] = step] /\ job' = [job EXCEPT ![w] = j]
  /\ flag' = [flag EXCEPT ![w] = f]
  /\ lone' = IF OnJob(j) = {} THEN lone \cup {w} ELSE lone \ (OnJob(j) \cup {w})
  /\ calm' = FALSE
  /\ UNCHANGED <<store, index, sees, reader, clean>>

Goto(w, step) == pc' = [pc EXCEPT ![w] = step]

End(w) ==
  /\ pc' = [pc EXCEPT ![w] = "idle"] /\ job' = [job EXCEPT ![w] = NoJob]
  /\ flag' = [flag EXCEPT ![w] = "public"] /\ sees' = [sees EXCEPT ![w] = FALSE]

\* A new job is saved.
Create(w, j, f) ==
  /\ j \notin born /\ born' = born \cup {j}
  /\ Begin(w, j, "row", f)

\* update_job with private, from the owner.
EditPrivacy(w, j, f) ==
  /\ row[j] # "none"
  /\ Begin(w, j, "row", f) /\ UNCHANGED born

\* Any other save of a loaded instance: name, description, event id, the job
\* controller's id after submit, es_ingest.
Resave(w, j) ==
  /\ row[j] # "none"
  /\ Begin(w, j, "row", row[j]) /\ UNCHANGED born

\* Signals of labels and event ids write the document of a loaded instance.
Reindex(w, j) ==
  /\ row[j] # "none"
  /\ Begin(w, j, "look", row[j]) /\ UNCHANGED born

\* prune_supporting_files_jobs collects the job for deletion.
Remove(w, j) ==
  /\ row[j] # "none"
  /\ Begin(w, j, "unlist", "public") /\ UNCHANGED born

\* super().save(): it updates the row, or inserts it if it is gone.
SaveRow(w) ==
  /\ pc[w] = "row"
  /\ Goto(w, "wipe")
  /\ row' = [row EXCEPT ![job[w]] = flag[w]]
  /\ UNCHANGED <<sets, index, born, job, flag, sees, starts, reader, lone, clean, calm>>

\* Slip: the pairs there were stay.
KeepPairs(w) ==
  /\ pc[w] = "wipe"
  /\ Goto(w, "fill")
  /\ UNCHANGED <<store, index, born, job, flag, sees, starts, reader, lone, clean, calm>>

\* parse_ini_file deletes the pairs there are ...
WipePairs(w) ==
  /\ pc[w] = "wipe"
  /\ Goto(w, "fill")
  /\ sets' = [sets EXCEPT ![job[w]] = 0]
  /\ UNCHANGED <<row, index, born, job, flag, sees, starts, reader, lone, clean, calm>>

\* ... and creates them anew.
FillPairs(w) ==
  /\ pc[w] = "fill" /\ row[job[w]] # "none"
  /\ Goto(w, "look")
  /\ sets' = [sets EXCEPT ![job[w]] = IF @ = 0 THEN 1 ELSE 2]
  /\ clean' = IF w \in lone THEN clean \cup {job[w]} ELSE clean
  /\ UNCHANGED <<row, index, born, job, flag, sees, starts, reader, lone, calm>>

\* elastic_search_update: the user is looked up, the pairs are read ...
ReadPairs(w) ==
  /\ pc[w] = "look"
  /\ Goto(w, "put")
  /\ sees' = [sees EXCEPT ![w] = sets[job[w]] > 0]
  /\ UNCHANGED <<store, index, born, job, flag, starts, reader, lone, clean, calm>>

\* ... and the document is updated, the params it had left in it when none are
\* given, ...
UpdateDoc(w) ==
  /\ pc[w] = "put" /\ doc[job[w]] # "none"
  /\ End(w)
  /\ doc' = [doc EXCEPT ![job[w]] = flag[w]]
  /\ params' = IF sees[w] THEN params \cup {job[w]} ELSE params
  /\ stale' = stale \cup {job[w]}
  /\ clean' = IF w \in lone THEN clean ELSE clean \ {job[w]}
  /\ UNCHANGED <<store, born, starts, reader, lone, calm>>

DocNotFound(w) ==
  /\ pc[w] = "put" /\ doc[job[w]] = "none"
  /\ Goto(w, "insert")
  /\ UNCHANGED <<store, index, born, job, flag, sees, starts, reader, lone, clean, calm>>

\* ... or inserted whole.
InsertDoc(w) ==
  /\ pc[w] = "insert"
  /\ End(w)
  /\ doc' = [doc EXCEPT ![job[w]] = flag[w]]
  /\ params' = IF sees[w] THEN params \cup {job[w]} ELSE params \ {job[w]}
  /\ stale' = stale \cup {job[w]}
  /\ clean' = IF w \in lone THEN clean ELSE clean \ {job[w]}
  /\ UNCHANGED <<store, born, starts, reader, lone, calm>>

\* Slip: only the row is deleted.
Unlisted(j) == doc[j]
NoDoc(j) == "none"

\* bilby_job_delete_signal, before the row goes.
RemoveDoc(w) ==
  /\ pc[w] = "unlist"
  /\ Goto(w, "delete")
  /\ doc' = [doc EXCEPT ![job[w]] = NoDoc(job[w])] /\ params' = params \ {job[w]}
  /\ stale' = stale \cup {job[w]}
  /\ UNCHANGED <<store, born, job, flag, sees, starts, reader, lone, clean, calm>>

DeleteRow(w) ==
  /\ pc[w] = "delete"
  /\ End(w)
  /\ row' = [row EXCEPT ![job[w]] = "none"] /\ sets' = [sets EXCEPT ![job[w]] = 0]
  /\ clean' = IF w \in lone THEN clean \cup {job[w]} ELSE clean \ {job[w]}
  /\ UNCHANGED <<index, born, starts, reader, lone, calm>>

\* Any step may fail or be the last before a kill: a name that is taken, an ini
\* that does not parse, pairs for a row that is gone, Elasticsearch out of
\* reach; a user lookup that fails ends the operation without an error.
Fail(w) ==
  /\ pc[w] # "idle"
  /\ End(w)
  /\ clean' = clean \ {job[w]}
  /\ UNCHANGED <<store, index, born, starts, reader, lone, calm>>

WriterStep(w) ==
  \/ SaveRow(w) \/ WipePairs(w) \/ FillPairs(w)
  \/ ReadPairs(w) \/ UpdateDoc(w) \/ DocNotFound(w) \/ InsertDoc(w)
  \/ RemoveDoc(w) \/ DeleteRow(w) \/ Fail(w)

-------------------------------------------------------------------------------
(* Readers: a viewer who owns none of the jobs.                             *)

\* Elasticsearch makes the documents written since the last time searchable.
Refresh ==
  /\ stale # {} /\ stale' = {}
  /\ UNCHANGED <<store, doc, params, born, writers, starts, reader, lone, clean, calm>>

\* Slip: the query for documents leaves the flag out.
AnyDoc(j, v) == doc[j] # "none" /\ (v = "embargo" => j \in params \ Embargoed)

\* The query string: _private_info_.private:false, and for those subject to the
\* embargo params.trigger_time or ini.n_simulation.
Matches(j, v) == doc[j] = "public" /\ (v = "embargo" => j \in params \ Embargoed)

\* embargo_filter and private=False; without pairs there is no trigger time.
Passes(j, v) == row[j] = "public" /\ (v = "embargo" => sets[j] > 0 /\ j \notin Embargoed)

\* The subquery for trigger_time returns more than one row.
FilterRaises(S, v) == v = "embargo" /\ \E j \in S : row[j] = "public" /\ sets[j] > 1

writing == <<store, index, born, writers, starts, lone, clean>>

AllClean == born \subseteq clean /\ stale = {} /\ \A w \in Writer : pc[w] = "idle"

\* list_public_jobs asks Elasticsearch, which may answer with what a document
\* was before it changed; the embargo of a job never changes.
Search(v) ==
  /\ rpc = "idle"
  /\ viewer' = v /\ asked' = Job
  /\ \E old \in SUBSET {j \in stale : v = "embargo" => j \notin Embargoed} :
       hits' = old \cup {j \in Job \ stale : Matches(j, v)}
  /\ rpc' = IF hits' = {} THEN "done" ELSE "before"
  /\ calm' = AllClean
  /\ UNCHANGED <<count, shown, writing>>

CountBefore ==
  /\ rpc = "before"
  /\ rpc' = "after" /\ count' = Cardinality({j \in hits : row[j] # "none"})
  /\ UNCHANGED <<viewer, asked, hits, shown, calm, writing>>

\* "query violated embargo or included private job": the whole page is empty.
CountAfter ==
  /\ rpc = "after"
  /\ rpc' = IF ~FilterRaises(hits, viewer)
                 /\ count = Cardinality({j \in hits : Passes(j, viewer)})
            THEN "fetch" ELSE "done"
  /\ UNCHANGED <<viewer, asked, hits, count, shown, calm, writing>>

\* The jobs are fetched by the filtered query; a record without one has no row.
FetchJobs ==
  /\ rpc = "fetch"
  /\ rpc' = "done"
  /\ shown' = IF FilterRaises(hits, viewer) THEN {} ELSE {j \in hits : Passes(j, viewer)}
  /\ UNCHANGED <<viewer, asked, hits, count, calm, writing>>

\* _get_view_job_or_404: get_by_id looks at the flags of the row (is_ligo_job is
\* set of jobs under embargo only, which the filter hides as well) ...
OpenJob(j, v) ==
  /\ rpc = "idle"
  /\ viewer' = v /\ asked' = {j}
  /\ hits' = IF row[j] = "public" THEN {j} ELSE {}
  /\ rpc' = IF hits' = {} THEN "done" ELSE "view"
  /\ calm' = AllClean
  /\ UNCHANGED <<count, shown, writing>>

\* ... and then the database is asked again, with bilby_job_filter.
ViewJob ==
  /\ rpc = "view"
  /\ rpc' = "done"
  /\ shown' = IF FilterRaises(hits, viewer) THEN {} ELSE {j \in hits : Passes(j, viewer)}
  /\ UNCHANGED <<viewer, asked, hits, count, calm, writing>>

Answer ==
  /\ rpc = "done"
  /\ rpc' = "idle" /\ viewer' = "ligo" /\ asked' = {} /\ hits' = {} /\ count' = 0
  /\ shown' = {} /\ calm' = FALSE
  /\ UNCHANGED writing

ReaderStep ==
  \/ \E v \in Viewer : Search(v) \/ \E j \in Job : OpenJob(j, v)
  \/ CountBefore \/ CountAfter \/ FetchJobs \/ ViewJob \/ Answer

Next ==
  \/ \E w \in Writer :
       \/ WriterStep(w)
       \/ \E j \in Job :
            \/ \E f \in Flag : Create(w, j, f) \/ EditPrivacy(w, j, f)
            \/ Resave(w, j) \/ Reindex(w, j) \/ Remove(w, j)
  \/ Refresh \/ ReaderStep

Spec == Init /\ [][Next]_vars

-------------------------------------------------------------------------------
(* Properties.                                                              *)

TypeOK ==
  /\ row \in [Job -> Flag \cup {"none"}] /\ sets \in [Job -> 0..2]
  /\ doc \in [Job -> Flag \cup {"none"}] /\ params \subseteq Job
  /\ stale \subseteq Job /\ born \subseteq Job
  /\ pc \in [Writer -> {"idle", "row", "wipe", "fill", "look", "put", "insert", "unlist",
                        "delete"}]
  /\ job \in [Writer -> Job \cup {NoJob}] /\ flag \in [Writer -> Flag]
  /\ sees \in [Writer -> BOOLEAN] /\ starts \in 0..MaxStarts
  /\ rpc \in {"idle", "before", "after", "fetch", "view", "done"} /\ viewer \in Viewer
  /\ asked \subseteq Job /\ hits \subseteq Job /\ count \in Nat /\ shown \subseteq Job
  /\ lone \subseteq Writer /\ clean \subseteq Job /\ calm \in BOOLEAN

\* Index and database agree on a job: same flag, one set of pairs, and params.
Synced(j) ==
  IF row[j] = "none" THEN doc[j] = "none" /\ j \notin params
  ELSE doc[j] = row[j] /\ sets[j] = 1 /\ j \in params

\* "keep the mysql database and elastic search database in sync": a save or a
\* delete that no other operation on the job overlaps, and that does not fail,
\* leaves row, pairs and document in agreement, whatever the state it found.
LoneSaveRepairs == \A j \in clean : OnJob(j) = {} => Synced(j)

Allowed(j, v) == row[j] = "public" /\ (v = "embargo" => j \notin Embargoed)

\* When nothing is written while a request is served and the last save of every
\* job was lone, the answer is complete: every job the viewer may see that was
\* asked for, and no page left empty or broken by the checks.
CalmAnswerIsComplete ==
  rpc = "done" /\ calm => shown = {j \in asked : Allowed(j, viewer)}

===============================================================================
