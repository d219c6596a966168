# gwcloud_bilby in TLA+

A model of the parts of GWCloud Bilby that keep state across failures: the two
ingestion crons, the Django services they and the users call, and the bundle
that runs jobs on a cluster. Paths below are relative to the repository, `cron`
is `gwflow_cron/`, `bilbyui` is `src/bilbyui/`.

- [The system](#the-system): components, state, operations, interactions
- [Modules](#modules): how each corresponds to the code
- [Runs](#runs): what TLC explores, the bounds, the fairness
- [Proofs](#proofs): what TLAPS proves, and how
- [Divergences](#divergences): where the code does not do what it says
- [Not modelled](#not-modelled), [Plan](#plan)

## The system

GWCloud is a web service (Django, GraphQL) that owns parameter-estimation jobs.
Work is done elsewhere: a *job controller* takes submissions and file downloads,
and calls the *bundle* on a cluster, which talks to Slurm or HTCondor. Two cron
processes bring results in from outside: `gwosc_cron` from the GWOSC catalogue,
`gwflow_cron` from the cbcflow portal. Listings are served from a search index
that is written after the database.

    cbcflow portal --pages--> gwflow_cron --GraphQL--> GWCloud (rows, files) --> index
                                  |  \--job controller (files)--> cluster
    GWOSC ----------json--> gwosc_cron ---GraphQL--> GWCloud
    user --tokens, uploads--> GWCloud --POST--> job controller --> bundle --> Slurm/Condor

| component | state | operations | what is hard | what makes it correct |
|---|---|---|---|---|
| gwflow cron, metadata phase (`cron/gwflow_ingest.py`, `state.py`, `portal.py`) | sqlite: watermark, last_sname, job_errors, changed_snames; GWCloud's GWFlowJob rows | stream changed rows, upsert, count failures, advance the position, prune | each sqlite statement and request commits alone; rows tie on a timestamp; the portal changes meanwhile; kills; upserts that outlive their caller | no update behind the position is lost, position monotone, no version regresses, every version settles |
| gwflow cron, children phase (`bilby_children.py`) | sqlite: job_errors rows with a job_ref; GWCloud's jobs and links | list analyses, archive, upload, store the id, link, clear | an upload whose answer is lost; caps and breaks in the middle; retries over runs | nothing listed is forgotten, no id needed is dropped, given up stays given up |
| gwflow cron, file phase (`fetch.py`, `job_controller.py`; `bilbyui/views.py` upload_gwflow_file) | GWFlowFile rows, files on disk, job_errors | list pending, download, upload, reconcile rows | requests outlive the cron; rows change under an upload; rollback after unlink | what is marked uploaded is the listed bytes |
| gwflow listing and index (`bilbyui/services/gwflow.py`, `utils/gwflow_es.py`) | rows, documents, the delayed index | search, reconcile, prune, `es_ingest --gwflow` | two stores, two writers of documents; index down after the row is written; short listings | what is listed upstream is active and indexed, owed or given up, and listed in the end |
| supporting files, submission (`views.py`, `models.py`) | job row, file rows with tokens, files, job controller id | create, look up tokens, write, clear, submit, prune, edit | no transaction; each request may be overtaken at each statement | submitted with every file its ini named, by somebody, with an id |
| job records and their listing (`models.py`, `services/jobs.py`, `utils/parse_ini_file.py`, `utils/embargo.py`) | job row, its ini key/value pairs, its document, the delayed index | save, label, delete, `es_ingest`; public list, page of a job | row, pairs and document are written one after the other from an instance loaded before; several queries make one answer | index and database agree again, an answer is complete |
| uploaded jobs and their files (`views.py`, `models.py`) | upload token, job row, staging and job directory, download tokens | upload archive, HDF5 or external job; list, exchange, download | a rollback takes back rows, not files; tokens expire and are pruned by anybody meanwhile | whole or nothing, served exactly while a token lives |
| GWOSC cron (`gwosc_cron/gwosc_ingest.py`) | sqlite: completed_jobs, job_errors; GWCloud's jobs, event ids | take an event, create its id, upload each configuration, label | partly done events; names that exist already; kills | success means whole, a closed partial has a job, none starves |
| bundle, Slurm (`bundle/core`, `bundle/scheduler/slurm.py`) | job record, slurm_ids; the cluster's states | submit, status, cancel | the master script submits while status reads; sacct silent; lost answers | completed is true, errors have a cause, a record as long as it is needed |
| bundle, HTCondor (`bundle/scheduler/condor.py`) | the event log | status | the log is written by all nodes | the state read off it is true |

Properties that cross components: what the metadata phase leaves as a marker is
what the children phase finds (`OwedToChildren` there, `NothingForgotten` here);
the prune at the end of the metadata phase depends on rows, documents and the index,
and is in `GWFlowIndex` with all of them. `GWFlowMetadata` has of it only that it may
end the run.

## Modules

Every action ends where the code commits, sends a request, or can be killed.
What lies between two such points is one action, with all its assignments.
History variables (marked in the modules) have no counterpart in the code, and no
guard reads them; only the bytes that `GWFlowFiles!Replace` puts in place depend
on one, `spoiled`, which says that another request may have written to them.

| module | code | abstractions |
|---|---|---|
| `GWFlowMetadata` | the stream of `phase_metadata`, `state.py`, `portal.py`; upserts, those included that are carried out after their caller is gone (`late`) | superevents and timestamps are ranks; a version is its commit timestamp; pages are numbered and the list moves under them; markers (`bilby:<sname>`) have their counts; the prune is in `GWFlowIndex`; the children phase is one step, `LaterPhases`, which is done with, fails or leaves any superevent it has to look at |
| `MirrorSpec` | abstract: versions are published; a copy takes any published version newer than it, and regresses only by a request that was asked and not waited for, once for each | refined by `GWFlowMetadata` under `published <- log`, `copy <- mver`, `asked <- late` |
| `VerdictSpec` | abstract: work's parts end well or badly for good; a verdict on it is given once, stays, and is borne out by the parts | refined by `SlurmJob`, `CondorJob` and `GwoscIngest` (see below) |
| `GWFlowChildren` | `phase_bilby_children`, its sqlite rows | the archive is a name; a malformed detail shows any part of the analyses; event ids are best effort in the code and left out; `MAX_BYTES_PER_RUN` may bite as soon as something was uploaded |
| `GWFlowFiles` | `phase_file_mirror`, `fetch_to_staging`, `_reconcile_gwflow_files`, `upload_gwflow_file`, pending files | bytes and md5 are version numbers, `Mixed` being neither; files listed without an md5 are left out, as nothing could be said of them |
| `GWFlowIndex` | upsert of row and document, `list_gwflow_jobs` as the cron asks it, prune and late prunes, `es_ingest --gwflow` | what the stream brings is a set, `owed`, with a failure count each; the order of the watermark is `GWFlowMetadata`'s; the cron is of LIGO and its superevents fit on a page: what other users see, search terms and later pages are left out |
| `SupportingFiles` | creation, `uploadSupportingFiles`, `prune_supporting_files_jobs`, `submit`, `update_job` | one job; a request is a thread with a program counter; `wanted` is what the ini names, whatever becomes of the rows |
| `JobListing` | `BilbyJob.save`, `parse_ini_to_mysql`, `elastic_search_update`, delete and label signals, `list_public_jobs`, `get_job`, `embargo_filter` | of a job only the flag `private`, of its pairs how many full sets there are; the viewer owns none of the jobs |
| `JobFiles` | `upload_bilby_job`, `upload_hdf5_bilby_job`, `upload_external_bilby_job`, `BilbyJobUploadToken`, `FileDownloadToken`, result files, exchange, download | one file stands for all of a job's; time is an action that makes a token old |
| `GwoscIngest` | the whole script | catalogue entries and h5 keys are ranks in their order; reading the h5 file is one outcome per key |
| `SlurmJob` | `submit`, the master script, `status`, `cancel` | `After` gives the stages a stage waits for (`--dependency=afterok`); any `sbatch` of the script may be refused, and the script goes on; data generation is left out, as nothing looks at its exit code |
| `CondorJob` | `condor_status` and `CondorScheduler.status` | the DAG is a constant; hold, release and eviction are one event, as they are to the code |

`VerdictSpec` is what the three components that follow work done elsewhere promise
about it. A `SlurmJob` has the master script and the stages for parts, its verdict is
what a poll that said complete said: *whole* for a completed job, *some* when the poll
read slurm_ids before the script had ended (then only some stages are known to have
completed, see the [divergences](#divergences)), *stopped* for an error. The parts of a
`CondorJob` are the nodes of the DAG; its *whole* is the plots and all that comes before
them, *stopped* needs a node that failed or was removed.
The items of `GwoscIngest` are the events, with a part for each configuration that went
well once its job is on GWCloud with its event id; a *success* is whole, a *partial*
some, the others (cap reached, unfit, nothing to upload) are given up. A verdict
written a second time, or before the parts bear it out, is no step of `VerdictSpec`.

The names of `CondorJob` and `GwoscIngest` carry a prefix (`CondorInit`, `gwoscVars`)
where they would clash with those of `SlurmJob` and `GWFlowIndex`: `Bundle_proofs` and
`Events_proofs` extend both modules of a pair.

`MC*` modules only give constants to these for TLC. The constants of a `.cfg`
named `Max...` are bounds or the settings of the same name.

Guards worth a remark:

- `GWFlowMetadata!SetWatermark` and `SetLastSname` are two actions because
  `state.py` commits in each. A kill between them hides rows, which are `excused`.
- `GWFlowMetadata!UpsertFails` and `Crash` may leave the request to GWCloud, which
  carries it out (`LateUpsert`) or not; `GWFlowIndex!RunStops` does the same with a
  prune (`LatePrune`). Upserts are late in the one and prunes in the other.
- `GWFlowMetadata!Forgotten`: what changed in the last run and has a marker at the cap
  is brought up by nothing once `changed_snames` is emptied.
- `GWFlowIndex!ListPortal` may leave out any superevents: `iter_current_snames` asks for
  page after page, passes over pages that are no list, and fails to an empty set.
- `GWFlowIndex!UpdateDoc` writes what its own request saved, though a late prune may
  have come between; `EsWrite` writes the row as `EsLoad` found it.
- `GWFlowChildren!DetailOk`: `find_bilby_pe_analyses` returns what it can read.
- `SupportingFiles!ClearToken` inserts the file's row again when a prune took it and
  its job is there, as `save()` does.
- `GWFlowFiles`: a request holds the row's id (`gen`); a deleted and re-listed
  file is another row with another path on disk.
- `SlurmJob!PollUnfinished` goes on to read slurm_ids, as `slurm_status` does.
- `SupportingFiles!EditSave` and `SaveId` write the whole row, `job' = "live"`
  included: Django's `save()` inserts a row that is gone. So does `SaveRow` of
  `JobListing`.
- `GWFlowMetadata!TakePage`: a page is computed from what the portal lists when it
  is asked, as `page=` does; a row whose place moved onto a page read before is
  never seen, and is `excused` unless the position is frozen.
- `JobListing!UpdateDoc` leaves the params of a document in place when it has none
  to write, as a partial update does; `InsertDoc` writes the whole of it.
- `JobFiles!Begin` prunes before it looks, in two steps: `FileDownloadToken.prune`
  and the `get` are two statements.

## Runs

Twelve runs, ten modules. A run that expects a violation exhibits one of the
[divergences](#divergences).

| run | instance | shows |
|---|---|---|
| `GWFlowMetadata` | 2 superevents, pages of 1 row, 2 commits, 2 retries of a superevent, 1 look at a marker, 1 kill or late upsert, 1 withdrawal | NoLostUpdate, OwedToChildren, WatermarkNeverRetreats, the refinement (MirrorsPortal) |
| `GWFlowMetadataLive` | the same, markers with 1 look, no kill, no late upsert, nothing withdrawn, fair | EventuallySettled |
| `GWFlowChildren` | 1 superevent, 2 analyses, 2 edits, 2 retries, 1 file per run, 1 malformed detail, 1 kill, fair | NothingForgotten, OrphanHasRef, GiveUpIsFinal, MarkerOutlivesWork, EventuallyLinked |
| `GWFlowFiles` | 2 files, the second changing, 2 threads, 2 versions, 2 retries, 1 file per run, 1 kill or lost answer, fair | UploadedIsGenuine, NoFileWithoutRow, EventuallyMirrored |
| `GWFlowIndex` | 2 superevents, 2 retries, 3 changes upstream or runs that stop half-way, fair | IndexedUnlessOwed, EventuallyListed |
| `GWFlowIndexPrune` | the same, 4 changes | violated: EventuallyPruned |
| `SupportingFiles` | 2 files, 2 requests, 2 submissions, 1 death | SubmittedComplete, SomebodySubmits, AcceptedHasId |
| `JobListing` | 2 jobs, one under embargo; 2 writers, 3 operations, 1 reader | LoneSaveRepairs, CalmAnswerIsComplete |
| `JobFiles` | 2 uploads, 2 download tokens, 2 readers | WholeOrNothing, UploadsHadPass, ServedIsOwed, LiveIsServed |
| `GwoscIngest` | 4 events (two of one name, one unfit, one without id), 2 keys, 2 retries, 1 kill, fair | SuccessIsWhole, ClosedPartialHasJob, EventuallyClosed, the refinement (EventsAreJudged) |
| `SlurmJob` | 3 stages, the second and third behind the first, 2 silences of sacct, 2 kills or lost answers, fair | CompletedIsReal, NothingForgotten, EventuallyReported, the refinement (SlurmIsJudged) |
| `CondorJob` | generation, analysis, then final_result beside plot; 2 evictions, 1 abort, fair | CompletedDagIsReal, EventuallyDagReported, the refinement (DagIsJudged) |

The type invariants, `ErrorHasCause` and `StopHasCause` are theorems (below) and not
checked again by a run; the last two are also part of the refinements.

**Why the bounds are enough.** `MaxRetry` and `MaxLook` are one setting of
the code, for superevents and for their markers; they are two constants so that a run
can have the smaller value for markers. Two superevents are the least that tie, overtake
each other and let one fail while the other succeeds; two commits the least that
put a new version behind an old one; with two retries a count is neither fresh
nor exhausted, which is where `>=` and `<` differ. One file per run makes the
cap bite in the middle of each list. Two threads or requests are all that any of
the races needs, because they meet at one row or one file. Three operations on
jobs are two that overlap and one that finds what they left. Pages of one row
make every place in the list a boundary. The three stages and
the four nodes are those of the bundle's tests (`bundle/tests/test_submit.py:113-128`,
`440-452`), with the generation in the DAG. Prunes and documents need no more than two
superevents, one whose document spoils the listing of the other. For the safety properties and
the refinements the proofs remove the bounds.

**Deadlock** is not looked for in `GwoscIngest`, `SlurmJob`, `CondorJob` and
`JobFiles`: an ingest with nothing left to do, a job that was reported, and
uploads and tokens that are all used up really stop.

**Fairness.** Cron starts a process over and over and a started process goes on
(weak fairness of its steps), and the client polls. Failures are *counted* by
the code, so nothing is assumed of requests whose failure is counted. Strong
fairness is assumed only where the code neither counts nor bounds failures: the
page of a superevent (`FetchPage` in `GWFlowMetadata`), that page once more as the
children phase depends on it (`Metadata`) and the listing of pending files before that
phase (`StartChildren` of `GWFlowChildren`), a cluster that is offline (`FetchAnswers`).
An index that is down and an upsert that fails are counted, and nothing is assumed of
them.
`SupportingFiles`, `JobListing` and `JobFiles` have no liveness property: nothing in
that code retries.

**What the properties leave out**, and why:

- `NoLostUpdate` and `OwedToChildren` excuse rows given up at the cap, rows whose
  detail is no object (both intended), malformed rows, rows hidden by a kill between
  the two commits of the position, rows that the pages passed over (those that moved
  to a page already read, or were on a page that was no list), and versions that an
  upsert carried out late wrote over. All of them are in `excused`, until the next
  commit of the superevent. `OwedToChildren` excuses `Forgotten` markers besides.
- `MirrorsPortal` lets a version regress, but only by a request that its caller stopped
  waiting for, and once for each.
- `NothingForgotten`, `MarkerOutlivesWork` and `EventuallyLinked` of `GWFlowChildren`
  excuse the analyses that a malformed detail left out (`hidden`).
- `IndexedUnlessOwed` and `EventuallyListed` excuse superevents given up at the cap (the
  code leaves an active row without its document), those that a short names listing or a
  late prune took for gone (`blind`), and those whose document `es_ingest` wrote from an
  old row (`overtaken`).
- `EventuallyMirrored` speaks of files whose row, manifest and bytes agree for good.
- `SubmittedComplete` excuses files that two requests wrote to (`shared`) and files whose
  rows a prune took (`lost`): with those the code submits the job incomplete.
- `OrphanHasRef` excuses an id that never reached sqlite (killed or answer lost).
- `UploadedIsGenuine` excuses files at which two requests met, whose row changed
  under an upload, or which a rollback passed over (`spoiled`).
- `CompletedIsReal` of `SlurmJob` speaks of polls that read slurm_ids after the
  master script had ended; `EventuallyReported` leaves out jobs with a stage that `sbatch`
  refused, on whose line every poll raises. `NothingForgotten` of `SlurmJob` holds until
  something is reported, a process is killed or an answer lost.
- `CompletedDagIsReal` speaks of the plots and what they are made from, not of nodes
  beside them.
- `SomebodySubmits`, `AcceptedHasId` excuse a request that died, a submission
  that failed, a stale edit, a prune of a job already submitted.
- `LoneSaveRepairs` and `CalmAnswerIsComplete` speak of saves that no other
  operation on the job overlaps and that do not fail; after others, row, pairs and
  document may disagree until the next such save (see the divergences).
- `WholeOrNothing` lets an external job lack its url until its upload is over or
  cut off, and a killed upload leave its staging directory.
- `EventuallyDagReported` of `CondorJob` holds unless a node was removed from the
  queue: an abort that is followed by another event is passed over.
- `EventuallyClosed` counts on finitely many runs that end in an exception
  nobody catches (`MaxKills`): the code has no counter for those.

## Proofs

Every property a run checks is a theorem, for every value of the constants (any number
of superevents, files, jobs, events, writers, readers, stages, any DAG, any caps, any
number of failures and kills), but for liveness. The proofs of a module are in
`<Module>_proofs`, those of `SlurmJob` and `CondorJob` in `Bundle_proofs`, those of
`GWFlowIndex` and `GwoscIngest` in `Events_proofs`.

| module | theorem | states |
|---|---|---|
| `GWFlowMetadata` | `NoUpdateIsLost` | `[]NoLostUpdate` |
| | `ChildrenStayOwed` | `[]OwedToChildren` |
| | `WatermarkIsMonotone` | `WatermarkNeverRetreats` |
| | `ImplementsMirror` | `MirrorsPortal`: `GWFlowMetadata` implements `MirrorSpec` |
| `GWFlowChildren` | `NoAnalysisIsForgotten`, `OrphansKeepTheirRef` | `[]NothingForgotten`, `[]OrphanHasRef` |
| | `MarkersOutliveWork`, `GivingUpIsFinal` | `MarkerOutlivesWork`, `GiveUpIsFinal` |
| `GWFlowFiles` | `UploadsAreGenuine`, `FilesGoWithRows` | `[]UploadedIsGenuine`, `[]NoFileWithoutRow` |
| `GWFlowIndex` | `ListedIsIndexed` | `[]IndexedUnlessOwed` |
| `SupportingFiles` | `LastUploadSubmits`, `IdsAreKept`, `SubmissionsAreComplete` | `[]SomebodySubmits`, `[]AcceptedHasId`, `SubmittedComplete` |
| `SlurmJob` | `CompletedJobsAreComplete`, `ErrorsHaveCause`, `NoRecordIsLost` | `[]CompletedIsReal`, `[]ErrorHasCause`, `[]NothingForgotten` |
| | `SlurmJobsAreJudged` | `SlurmIsJudged`: `SlurmJob` implements `VerdictSpec` |
| `CondorJob` | `CompletedDagsAreComplete`, `StopsHaveCause` | `[]CompletedDagIsReal`, `[]StopHasCause` |
| | `DagsAreJudged` | `DagIsJudged`: `CondorJob` implements `VerdictSpec` |
| `GwoscIngest` | `SuccessesAreWhole`, `PartialsHaveJobs` | `[]SuccessIsWhole`, `[]ClosedPartialHasJob` |
| | `EventsAreJudgedOnce` | `EventsAreJudged`: `GwoscIngest` implements `VerdictSpec` |
| `JobListing` | `AgreementIsRestored`, `CalmReadersSeeAll` | `[]LoneSaveRepairs`, `[]CalmAnswerIsComplete` |
| `JobFiles` | `UploadsAreWhole`, `UploadsBeginLive`, `OnlyOwedIsServed`, `LiveTokensServe` | `[]WholeOrNothing`, `[]UploadsHadPass`, `ServedIsOwed`, `LiveIsServed` |

Each has `TypesHold` (`[]TypeOK`) too, under the names `CondorTypesHold` and
`GwoscTypesHold` for two of them. They assume only the named assumptions on the
constants at the head of each module, which the code's settings satisfy:
superevents and files are positive numbers, their rank in the order the code
sorts them by; caps are positive, bounds are natural numbers; model values that
stand for "none" are not among the things they stand for.
Of a DAG only that the generation has no parents is assumed, and of the stages of a
Slurm job that they wait for earlier ones, as the script can name no others.

The arguments, one inductive invariant each (`IInv` unless named otherwise):

- **`GWFlowMetadata`**. `NoLostUpdate` speaks of a position between rows, and the
  step that moves it must know that every row at or before the one at hand was dealt
  with. `CurInv`: the row at hand comes before what is left of its page, and the
  detail is as new as the row. `BarInv`: no row to come is
  older than the watermark. `StartInv`: the position the run started from was sound,
  so a row skipped by the tie check was dealt with. `PageInv`: the list has no more
  rows up to one read than there were on the pages read, whatever was committed or
  withdrawn meanwhile; hence a page brings nothing from behind the watermark.
  `StreamInv`: as long as nothing failed, each listed superevent is on the page to do,
  dealt with, or unread and behind the page. `TearInv`: between the two commits of the
  position, only rows after the one at hand are hidden. `SetLastSname` needs them all. For
  `MirrorSpec`, `LogInv`: what GWCloud holds, was sent or is on its way was published,
  and what is sent is as new as what GWCloud holds and as what is on its way.
- **`OwedToChildren`** (`OInv`) has the same shape with markers for versions, and three
  facts more: rows at hand come after the position the run started from (`OrderInv`);
  a position that moved in this run has only pages read behind it (`PlaceInv`), so
  that a page never brings a row the position has passed; a row committed again after
  its page was read has a newer one that is unread and behind the page (`FreshInv`), so
  that an upsert never owes children behind the position before it left the marker.
- **`GWFlowChildren`**: an analysis of the superevent at hand is still to do, linked,
  counted, hidden by its detail, or its superevent was committed again (`WorkInv`); what GWCloud answered stays
  true (`CloudInv`); what is at hand has a row of its own (`RunInv`).
- **`GWFlowFiles`**: two requests at one file spoil it (`PairInv`); so a request that
  marks an unspoiled file was alone with it and put in place what the row it read
  promises (`WriteInv`, `SaveInv`), and a row deleted since has a higher `gen`
  (`ReqInv`). `CronInv` bounds the counts: what was at the cap was set aside.
- **`GWFlowIndex`**: the document being written is of an active row, unless a late prune
  took it, and what the run has still to do is owed (`WorkInv`); what it takes for gone is
  owed again or was left out by the names listing (`PruneInv`). A failure leaves its
  superevent owed or at the cap (`FailureIsOwedOrCapped`).
- **`SupportingFiles`**: whoever clears the last token is on the way to submit
  (`LastInv`), and once nothing is left to upload nothing ever is (`PostInv`); the id is in the
  row or about to be saved (`IdInv`).
- **`SlurmJob`**: what a poll saw of a stage cannot change any more, and slurm_ids is
  complete when the script has ended (`PollInv`, `ClusterInv`, `RecordInv`). For the
  refinement a poll that says completed too early must have seen a stage at least
  (`EarlyInv`): it read a slurm_ids of one line or more, or it would have ended.
- **`CondorJob`** (`CondorInv`): DAGMan submits a node only when its parents ended well
  (`OrderInv`), and an event once in the log stays (`WritingAdds`, `WritingKeeps`). So
  the nodes that ended well are closed under parents, and if the plots were submitted, all
  that was submitted has ended and nothing failed, they contain the plots and hence all
  that comes before them (`BeforePlots` is the least closed set with the plots).
- **`GwoscIngest`** (`GwoscInv`): what a run has still to look at is open and apart from
  the event under way, which is below the cap (`IngestInv`), so that nothing is
  closed twice. As long as `all_succeeded` is true, each key tried in this run has its
  job and its event id; once `none_succeeded` is false, one has (`UploadInv`). Nothing
  else is carried over from run to run: a job left by a killed one makes the upload of
  its name fail, which `all_succeeded` remembers. The lemmas say what a failure
  (`FailureKeeps`), the end of a run (`EndKeeps`) and a step within an event
  (`UploadKeeps`) keep; `WholeStays`: what GWCloud has stays.
- **Refinements of `VerdictSpec`**: a step of the cluster or of an upload is a `Progress`,
  as ended stages, events of the log and jobs stay; the step that reports or closes is a
  `Judge` of what was open, borne out because of the invariant; all else stutters.
- **`JobListing`**: a writer nobody overlaps finds at each statement what it wrote
  before (`LoneInv`); a calm reader counts the same jobs at each query.
- **`JobFiles`**: what each step of an upload finds done (`UploadInv`), a token's job was
  committed with its directory (`TokenInv`), a token in use is pruned only after its time
  (`ReaderInv`).

Checked by TLC alone: liveness, as reasoning under fairness is out of the prover's
reach: `EventuallySettled`, `EventuallyLinked`, `EventuallyMirrored`, `EventuallyListed`,
`EventuallyClosed`, `EventuallyReported` and `EventuallyDagReported`. The violation of
`EventuallyPruned` is a counterexample and needs no proof.

## Divergences

Exhibited by a run, with the quotation in `PROJECT.json`:

- `GWFlowIndexPrune`: the prune does not touch the document, and a single
  document that says active of a pruned row empties every listing it is a hit of
  (`services/gwflow.py:108`), the one the next prune is computed from included.

Met while modelling, visible in the modules, not given a run of their own:

- `cron/gwflow_ingest.py:146`: `set_watermark` and `set_last_sname` commit apart; a
  kill between them hides later rows of the same timestamp (`Crash`), which
  `gwflow_cron/tests/test_metadata_phase.py:134` expects to be processed.
- `cron/portal.py:48`: the stream is paged by number; a superevent committed again
  while it is read moves an unread row onto a page already read, and the watermark
  passes it. A page that is no list (`portal.py:61`) is skipped with the same effect.
- `bilbyui/views.py:987`: two requests that clear the last two tokens both submit the job.
- `bilbyui/models.py:348`: a save writes the row, the pairs and the document as loaded.
  A rename or an `es_ingest` begun before makes a job public again that was made
  private meanwhile, and a save inserts a job again that was deleted meanwhile.
- `bilbyui/utils/parse_ini_file.py:26`: two saves that overlap may leave two sets of
  key/value pairs, on which the subquery of `embargo_filter` fails until the next save.
- `bilbyui/services/jobs.py:163`: while jobs are written, the list of public jobs
  may be empty, since its two counts differ.
- `bilbyui/utils/embargo.py`: `should_embargo_job` says jobs without a trigger time are
  never embargoed, the filter of the queries hides them.
- `bilbyui/views.py:660`: an upload that fails after its directory was moved leaves
  directory, copies and document behind; no listing shows them.
- `bilbyui/views.py:718`: an external job cut off before its url stays without one.
- `bilbyui/models.py`: a job made private later is served to whoever holds a download
  token until that expires.
- `cron/gwflow_ingest.py:165`: when the listing of the portal fails, the empty
  set stands for it and everything GWCloud lists is pruned; a page that is no list, or
  that moves while the list is read, has the same effect for some (`ListPortal` of
  `GWFlowIndex`, `blind`).
- `bilbyui/views.py:1845`: a request is carried out whenever it comes: an upsert whose
  caller timed out or was killed takes a superevent back to an older version, a prune
  prunes one that came back (`LateUpsert`, `LatePrune`).
- `cron/gwflow_ingest.py:151`: a superevent given up after its row was written keeps the
  active row without its document.
- `cron/bilby_children.py:25`: a detail that is no object, or malformed, has no analyses,
  and the marker is cleared as if all were linked (`gwflow_ingest.py:309`).
- `bilbyui/management/commands/es_ingest.py:130`: the document is written from a row
  loaded before; pruned or made active meanwhile, it is indexed as it was (`EsWrite`).
- `cron/gwflow_ingest.py:151`: a row given up does not hold the watermark, so
  resetting it as `cron/README.md:89` advises does not bring it back before the
  next commit of the superevent.
- `cron/gwflow_ingest.py:90`: `ensure_pending` leaves a marker at the cap alone,
  and the next run empties `changed_snames`: killed before the children phase, a
  changed superevent with such a marker is not looked at (`Forgotten`).
- `cron/gwflow_ingest.py:284`: killed between the upload and `set_job_ref`, the
  id is lost and the repeated upload is refused for its name.
- `bilbyui/views.py:1835`: files are unlinked within a transaction that may roll
  back; the rows then stay marked uploaded.
- `cron/job_controller.py:42`: a 503 to `create_file_downloads` is counted as a
  failure of the file; `cron/README.md:87` calls it transient.
- `cron/gwflow_ingest.py:350`: a file at the cap is skipped though its bytes
  match again.
- `bilbyui/services/jobs.py:214`: `update_job` saves the row it loaded, and so
  can write NULL over the id a submission stored meanwhile.
- `bilbyui/models.py:313`: a job whose last file arrives between the select and
  the delete of a prune is deleted.
- `bilbyui/models.py:327`: a prune between the clearing of the last token and the check
  for what is left (`views.py:987`) takes the rows of all files with the job; nothing is
  left to upload, and the job is inserted again and submitted without the file that had
  not come (`lost` of `SubmittedComplete`).
- `bilbyui/views.py:977`: a second request for a token truncates the file the
  first one has completed.
- `gwosc_cron/gwosc_ingest.py:436`: when only `set_event_id` failed, the event is
  recorded as one whose every upload failed, and its retries meet the job's name.
- `gwosc_cron/gwosc_ingest.py:331`: event ids are read once per run; a second
  entry of one event in a run tries to create the id again.
- `bundle/core/status.py:124`: a stage that `sbatch` refuses leaves a line without an id
  in slurm_ids, as the master script has no `set -e` (`bundle/tests/test_submit.py:113-128`);
  each poll raises `IndexError` there, and the client is never told that the job is over
  (`PollRaises`).
- `bundle/core/status.py:138`: while the master script is still submitting, the
  stages noted so far can all be completed, and the job is declared so.
- `bundle/core/cancel.py:18`: cancel stops the master script only.
- `bundle/core/submit.py:472`: killed between `sbatch` and the record, a job that
  runs is reported as missing.
- `bundle/scheduler/condor.py:152`: "If all submitted stages have finished, and the
  plotting stage has been submitted, then the job has finished"; `final_result` stands
  beside `plot` in the DAG (`bundle/tests/test_submit.py:440-452`, `550-552`), and
  completed may be answered before it was submitted.
- `bundle/core/submit.py:288`: nothing looks at the exit code of the data generation; the
  job is submitted without data.
- `bundle/scheduler/condor.py:115`: an abort followed by another event before the
  next poll is not reported.

## Not modelled

`PROJECT.json` lists every component with its status. Left out, and why:

- `derive_job_status`: the latest entry of a history, a pure maximum; the deletion of
  a job's directory and the bundle's path join: one call, no state between steps.
- The owner's own job list (one query), search terms and paging of the public list
  (cuts of the same answer), the job controller's states shown beside a job. That no list
  shows a hidden job is one filter in one query, of which there is nothing to check.
- Listings of superevents for users who are not of LIGO, and their later pages: the same
  code with one more filter; the cron's own search is what the prune depends on.
- Files of jobs on the cluster, whose download ids the job controller makes, and
  downloads of supporting and gwflow files (the same tokens, without expiry races of
  their own).
- ini parsing and parameter output: conversions through bilby_pipe; their one effect on
  state, the key/value pairs, is in `JobListing`.
- Edit views, templates, GraphQL types: rendering around services that are modelled.
- Authentication, deployment, migrations: library code, configuration, generated code.
- `condor.py`'s submit is one condor call in five attempts; its cancel raises
  `NotImplementedError`.

## Plan

Done, in this order: `GWFlowMetadata` with `MirrorSpec`; `GWFlowChildren`,
`GWFlowFiles`, `SupportingFiles`, `GwoscIngest`, `SlurmJob`, `CondorJob`, `GWFlowIndex`;
pages of the stream; `JobListing`, `JobFiles`; the proofs of safety; `VerdictSpec` and its
three refinements. Worth doing next:

1. An abstract specification of a job's submission (complete, by somebody, with an id)
   that `SupportingFiles` implements up to the divergences.
2. `JobFiles` with the download ids of the job controller; the owner's list and the job
   controller's states in `JobListing`.
