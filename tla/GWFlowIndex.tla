------------------------------ MODULE GWFlowIndex ------------------------------
(***************************************************************************)
(* Superevents live twice in GWCloud: as GWFlowJob rows, and as documents  *)
(* of a search index that is written after the row, outside of its         *)
(* transaction, and shows what was written after a while.  The gwflow cron *)
(* writes both, and finds out by a search what GWCloud has and the portal  *)
(* has not; es_ingest writes documents beside it.  What a listing shows    *)
(* to a user who is not of LIGO, and what comes on its later pages, is     *)
(* left out: the cron is of LIGO and its superevents fit on a page.        *)
(***************************************************************************)
EXTENDS Integers, FiniteSets

CONSTANTS
  Sname,
  RetryCap,           \* MAX_RETRY_ATTEMPTS
  MaxEdits            \* bound: changes upstream, and runs that stop half-way

ASSUME FiniteAssumption == IsFiniteSet(Sname)
ASSUME BoundAssumption == RetryCap \in Nat \ {0} /\ MaxEdits \in Nat

VARIABLES
  present, owed,      \* portal: listed superevents; changes the stream still brings
  row, fails,         \* GWFlowJob: none, active or pruned; job_errors: failure_count
  doc, index,         \* documents as written, and as searches see them
  pc, todo, at,       \* the cron; the rest of the stream; its superevent
  upstream, prune,    \* current_snames, pruned_snames
  late,               \* told pruned by a request that nobody waits for any more
  es,                 \* es_ingest: its superevent, and the row as it was loaded
  blind,              \* history: left out by a names listing, and pruned for it, or
                      \*   pruned by such a request
  overtaken,          \* history: es_ingest wrote a document from a row of the past
  edits

portal == <<present, owed>>
cron   == <<pc, todo, at, upstream, prune>>
past   == <<blind, overtaken>>
vars   == <<portal, row, fails, doc, index, cron, late, es, past, edits>>

NoSname == "none"
NoDoc   == [pruned |-> TRUE, there |-> FALSE]
NoLoad  == [at |-> NoSname, pruned |-> FALSE]

-------------------------------------------------------------------------------
Init ==
  /\ present = {} /\ owed = {}
  /\ row = [s \in Sname |-> "none"] /\ fails = [s \in Sname |-> 0]
  /\ doc = [s \in Sname |-> NoDoc] /\ index = doc
  /\ pc = "idle" /\ todo = {} /\ at = NoSname /\ upstream = {} /\ prune = {}
  /\ late = {} /\ es = NoLoad /\ blind = {} /\ overtaken = {} /\ edits = 0

Edit == edits < MaxEdits /\ edits' = edits + 1

PortalCommits(s) ==
  /\ Edit
  /\ present' = present \cup {s} /\ owed' = owed \cup {s}
  /\ UNCHANGED <<row, fails, doc, index, cron, late, es, past>>

PortalRemoves(s) ==
  /\ Edit /\ s \in present
  /\ present' = present \ {s} /\ owed' = owed \ {s}
  /\ UNCHANGED <<row, fails, doc, index, cron, late, es, past>>

\* The index shows what was written.
Refresh ==
  /\ index # doc /\ index' = doc
  /\ UNCHANGED <<portal, row, fails, doc, cron, late, es, past, edits>>

-------------------------------------------------------------------------------
(* list_gwflow_jobs, without the pruned ones: a search, reconciled with the  *)
(* rows.                                                                     *)

Hits == {s \in Sname : index[s].there /\ ~index[s].pruned}
\* One hit whose row is pruned makes the whole page empty.
Reconciled == \A s \in Hits : row[s] = "active"
Listing == IF Reconciled THEN Hits ELSE {}

-------------------------------------------------------------------------------
(* phase_metadata and upsert_gwflow_job.                                    *)

StartRun ==
  /\ pc = "idle" /\ pc' = "rows" /\ todo' = owed
  /\ UNCHANGED <<portal, row, fails, doc, index, at, upstream, prune, late, es,
                 past, edits>>

\* Slip: the upsert leaves is_pruned as it is.
Upserted(s) == IF row[s] = "none" THEN "active" ELSE row[s]
Activated(s) == "active"

UpsertRow(s) ==
  /\ pc = "rows" /\ s \in todo
  /\ pc' = "doc" /\ at' = s /\ todo' = todo \ {s}
  /\ row' = [row EXCEPT ![s] = Activated(s)]
  /\ UNCHANGED <<portal, fails, doc, index, upstream, prune, late, es, past, edits>>

\* Slip: a failed row does not hold the watermark back.
PassesAtOnce(s) == TRUE
\* The watermark may pass a row that failed only at the cap.
GivesUp(s) == fails[s] + 1 >= RetryCap

\* record_failure: unless it is given up, the superevent comes again in the next
\* run, and it may do so even then, behind another that failed.
RowFails(s) ==
  /\ fails' = [fails EXCEPT ![s] = IF @ < RetryCap THEN @ + 1 ELSE @]
  /\ owed' \in IF GivesUp(s) THEN {owed, owed \ {s}} ELSE {owed}

\* The portal does not give the detail, or GWCloud refuses the row.
UpsertFails(s) ==
  /\ pc = "rows" /\ s \in todo
  /\ RowFails(s) /\ todo' = todo \ {s}
  /\ UNCHANGED <<present, row, doc, index, pc, at, upstream, prune, late, es,
                 past, edits>>

\* The document says what the row that the request saved said.
Written(s) == [doc EXCEPT ![s] = [pruned |-> FALSE, there |-> TRUE]]

UpdateDoc ==
  /\ pc = "doc"
  /\ doc' = Written(at)
  /\ fails' = [fails EXCEPT ![at] = 0] /\ owed' = owed \ {at}
  /\ at' = NoSname /\ pc' = "rows"
  /\ blind' = blind \ {s \in {at} : row[s] = "active"} /\ overtaken' = overtaken \ {at}
  /\ UNCHANGED <<present, row, index, todo, upstream, prune, es, edits, late>>

\* The index does not answer: the row is there, the document is not.
DocFails ==
  /\ pc = "doc"
  /\ RowFails(at) /\ at' = NoSname /\ pc' = "rows"
  /\ UNCHANGED <<present, row, doc, index, todo, upstream, prune, late, es,
                 past, edits>>

\* current_snames: a listing that failed is empty, and one whose pages were no
\* lists, or moved while they were read, is short.
ListPortal ==
  /\ pc = "rows" /\ todo = {} /\ pc' = "list"
  /\ \E missed \in SUBSET present :
       upstream' = present \ missed /\ blind' = blind \cup missed
  /\ UNCHANGED <<portal, row, fails, doc, index, todo, at, prune, late, es,
                 overtaken, edits>>

ListCloud ==
  /\ pc = "list" /\ pc' = "prune"
  /\ prune' = Listing \ upstream
  /\ UNCHANGED <<portal, row, fails, doc, index, todo, at, upstream, late, es,
                 past, edits>>

\* upsert_gwflow_job without metadata: the document stays as it is.
PruneRow(s) ==
  /\ pc = "prune" /\ s \in prune
  /\ prune' = prune \ {s} /\ row' = [row EXCEPT ![s] = "pruned"]
  /\ UNCHANGED <<portal, fails, doc, index, pc, todo, at, upstream, late, es,
                 past, edits>>

EndRun ==
  /\ pc = "prune" /\ prune = {} /\ pc' = "idle"
  /\ upstream' = {} /\ blind' = {s \in blind : row[s] = "pruned"}
  /\ UNCHANGED <<portal, row, fails, doc, index, todo, at, prune, late, es,
                 overtaken, edits>>

\* The cron is killed, or GWCloud fails when the prune asks or tells it, which
\* aborts the run.  What was asked of GWCloud may be done: a document at once, a
\* prune whenever.
RunStops ==
  /\ Edit /\ pc # "idle" /\ pc' = "idle"
  /\ todo' = {} /\ at' = NoSname /\ upstream' = {} /\ prune' = {}
  /\ \/ UNCHANGED <<doc, late>>
     \/ pc = "doc" /\ doc' = Written(at) /\ UNCHANGED late
     \/ \E s \in prune : late' = late \cup {s} /\ UNCHANGED doc
  /\ blind' = {s \in blind : row[s] = "pruned"}
  /\ UNCHANGED <<portal, row, fails, index, es, overtaken>>

LatePrune(s) ==
  /\ s \in late /\ late' = late \ {s}
  /\ row' = [row EXCEPT ![s] = "pruned"] /\ blind' = blind \cup {s}
  /\ UNCHANGED <<portal, fails, doc, index, cron, es, overtaken, edits>>

-------------------------------------------------------------------------------
(* es_ingest --gwflow: the superevents that the portal lists, one by one.    *)

EsLoad(s) ==
  /\ es = NoLoad /\ s \in present /\ row[s] # "none"
  /\ es' = [at |-> s, pruned |-> row[s] = "pruned"]
  /\ UNCHANGED <<portal, row, fails, doc, index, cron, late, past, edits>>

EsWrite ==
  /\ es # NoLoad
  /\ doc' = [doc EXCEPT ![es.at] = [pruned |-> es.pruned, there |-> TRUE]]
  /\ overtaken' = IF es.pruned = (row[es.at] = "pruned")
                    THEN overtaken \ {es.at} ELSE overtaken \cup {es.at}
  /\ es' = NoLoad
  /\ UNCHANGED <<portal, row, fails, index, cron, blind, edits, late>>

\* It is counted and said, and the next one is taken.
EsFails ==
  /\ es # NoLoad /\ es' = NoLoad
  /\ UNCHANGED <<portal, row, fails, doc, index, cron, late, past, edits>>

-------------------------------------------------------------------------------
Cron ==
  \/ StartRun \/ UpdateDoc \/ DocFails \/ ListPortal \/ ListCloud \/ EndRun
  \/ \E s \in Sname : UpsertRow(s) \/ UpsertFails(s) \/ PruneRow(s)

Next ==
  \/ \E s \in Sname : PortalCommits(s) \/ PortalRemoves(s) \/ EsLoad(s)
  \/ \E s \in late : LatePrune(s)
  \/ Refresh \/ Cron \/ RunStops \/ EsWrite \/ EsFails

Spec == Init /\ [][Next]_vars

\* Cron starts runs and they go on, and the index shows what was written.  That a
\* superevent does not fail for ever is not assumed: its failures are counted.
FairSpec == Spec /\ WF_vars(Cron) /\ WF_vars(Refresh)

-------------------------------------------------------------------------------
(* Properties.                                                              *)

Doc == [pruned : BOOLEAN, there : BOOLEAN]
TypeOK ==
  /\ present \subseteq Sname /\ owed \subseteq present
  /\ row \in [Sname -> {"none", "active", "pruned"}] /\ fails \in [Sname -> 0..RetryCap]
  /\ doc \in [Sname -> Doc] /\ index \in [Sname -> Doc]
  /\ pc \in {"idle", "rows", "doc", "list", "prune"}
  /\ todo \subseteq Sname /\ at \in Sname \cup {NoSname}
  /\ upstream \subseteq Sname /\ prune \subseteq Sname
  /\ late \subseteq Sname /\ es \in [at : Sname \cup {NoSname}, pruned : BOOLEAN]
  /\ blind \subseteq Sname /\ overtaken \subseteq Sname /\ edits \in 0..MaxEdits

GivenUp(s) == fails[s] >= RetryCap

\* A superevent the portal lists has an active row and a document that says so,
\* unless the stream brings it again or its count stands at the cap, where the code
\* leaves a row without its document for good: no failure between the row and its
\* document, and no prune that overlaps a commit, loses one below the cap.
IndexedUnlessOwed ==
  \A s \in present : s \notin owed /\ ~GivenUp(s) =>
    /\ s \in blind \/ row[s] = "active"
    /\ s \in blind \cup overtaken \/ (doc[s].there /\ ~doc[s].pruned)

\* A superevent that the portal lists for good, and that is not given up, is active
\* and in the index for good in the end: an index that was down, and a prune that
\* raced with the commit, are made up for.
EventuallyListed ==
  \A s \in Sname : <>[](s \in present /\ ~GivenUp(s) /\ s \notin blind \cup overtaken) =>
    <>[](row[s] = "active" /\ index[s].there /\ ~index[s].pruned)

-------------------------------------------------------------------------------
(* What the repository says and the code does not do.                       *)

\* "Prune diffing: check for snames present in GWCloud but missing upstream": a
\* superevent that searches show as active and that is gone upstream is pruned.
EventuallyPruned ==
  \A s \in Sname : (s \notin present /\ row[s] = "active" /\ s \in Hits) ~>
                     (s \in present \/ row[s] = "pruned" \/ s \notin Hits)

===============================================================================
