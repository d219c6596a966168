---------------------------- MODULE GWFlowChildren ----------------------------
(***************************************************************************)
(* phase_bilby_children of the gwflow cron: for every superevent it owes,  *)
(* it reads the superevent's analyses from the portal, uploads each bilby  *)
(* analysis to GWCloud as a job named after it, remembers the job's id in  *)
(* sqlite, and links the job to the superevent.  phase_metadata appears as *)
(* one step (GWFlowMetadata has its detail), phase_file_mirror as a point  *)
(* where the run can end.                                                  *)
(*                                                                         *)
(* A key <<s, u>> is the job_errors row bilby:s/u; its job in GWCloud has  *)
(* the unique name s--u.  Each action ends at a request or at a commit.    *)
(***************************************************************************)
EXTENDS Integers

CONSTANTS
  Sname,                  \* superevents, as ranks in the order of their names
  Uid, NoUid,             \* analysis uids; what is none
  MaxRetry,               \* settings.MAX_RETRY_ATTEMPTS
  MaxFiles,               \* settings.MAX_FILES_PER_RUN
  MaxEdits,               \* bound: number of changes the portal makes
  MaxCrashes,             \* bound: number of times the process is killed
  MaxShort                \* bound: malformed details the portal answers

ASSUME NameAssumption == Sname \subseteq Nat \ {0} /\ NoUid \notin Uid
ASSUME LimitAssumption ==
  /\ MaxRetry \in Nat \ {0} /\ MaxFiles \in Nat \ {0}
  /\ MaxEdits \in Nat /\ MaxCrashes \in Nat /\ MaxShort \in Nat

VARIABLES
  listed, dirty, edits,   \* the portal: keys listed; changed, not yet streamed
  jobs, linked,           \* GWCloud: keys with an uploaded job, a linked one
  perr, cerr,             \* sqlite: failure_count of bilby:s and of bilby:s/u
  ref,                    \* sqlite: keys whose row has a job_ref
  changed,                \* sqlite: changed_snames
  pc,                     \* where the process stands, "idle" when none runs
  processing,             \* superevents still to do, the least one at hand
  over,                   \* local over_retry
  todo, seen,             \* uids of the detail still to do; linked when asked
  uid,                    \* the analysis at hand
  files,                  \* local files_done
  crashes, shorts,        \* how often it was killed; read a malformed detail
  lost,                   \* history: uploads whose answer never reached sqlite
  hidden                  \* history: keys the last detail read did not show

portal == <<listed, dirty, edits>>
cloud  == <<jobs, linked>>
sqlite == <<perr, cerr, ref, changed>>
inner  == <<todo, seen, uid>>
local  == <<processing, over, inner, files>>
past   == <<crashes, lost, shorts, hidden>>
vars   == <<portal, cloud, sqlite, pc, local, past>>

Key   == Sname \X Uid
NoKey == -1                       \* the count of a row that does not exist

-------------------------------------------------------------------------------
cur == CHOOSE s \in processing : \A q \in processing : s <= q
key == <<cur, uid>>

UnderCap(n) == n >= 0 /\ n < MaxRetry
\* record_failure: the count saturates at the cap it is compared with.
Counted(n) == IF n < 0 THEN 1 ELSE IF n < MaxRetry THEN n + 1 ELSE MaxRetry
\* Slip: a row that ran out of retries starts over.
Revived(n) == IF UnderCap(n) THEN n ELSE 0
\* ensure_pending: INSERT OR IGNORE with failure_count 0
Ensured(n) == IF n < 0 THEN 0 ELSE n

ChildrenUnder(s) == {u \in Uid : UnderCap(cerr[<<s, u>>])}
\* what failures_under makes a run look at, whatever changed
Retryable(s) == UnderCap(perr[s]) \/ ChildrenUnder(s) # {}

\* Slip: the rows of the analyses are not looked at.
NoneRemain(s) == TRUE
\* no key bilby:s/... is left to retry
NoRemaining(s) == ChildrenUnder(s) = {}

Init ==
  /\ listed = {} /\ dirty = {} /\ edits = 0
  /\ jobs = {} /\ linked = {}
  /\ perr = [s \in Sname |-> NoKey] /\ cerr = [k \in Key |-> NoKey]
  /\ ref = {} /\ changed = {}
  /\ pc = "idle" /\ processing = {} /\ over = {}
  /\ todo = {} /\ seen = {} /\ uid = NoUid /\ files = 0
  /\ crashes = 0 /\ shorts = 0 /\ lost = {} /\ hidden = {}

-------------------------------------------------------------------------------
\* The portal commits a new list of analyses for a superevent.
Edit(s, A) ==
  /\ edits < MaxEdits
  /\ edits' = edits + 1
  /\ listed' = {k \in listed : k[1] # s} \cup ({s} \X A)
  /\ dirty' = dirty \cup {s}
  /\ hidden' = {k \in hidden : k[1] # s}
  /\ UNCHANGED <<cloud, sqlite, pc, local, crashes, shorts, lost>>

\* The runbook: an operator resets the row of an analysis that was given up.
OperatorResets(k) ==
  /\ pc = "idle" /\ cerr[k] = MaxRetry
  /\ cerr' = [cerr EXCEPT ![k] = 0]
  /\ UNCHANGED <<portal, cloud, perr, ref, changed, pc, local, past>>

-------------------------------------------------------------------------------
(* The run up to phase_bilby_children.                                      *)

\* phase_metadata gets through some of the changed superevents: it empties
\* changed_snames, and for each one fills it and ensures the marker.
Metadata(S) ==
  /\ pc = "idle" /\ S \subseteq dirty
  /\ pc' = "files"
  /\ changed' = S
  /\ perr' = [s \in Sname |-> IF s \in S THEN Ensured(perr[s]) ELSE perr[s]]
  /\ dirty' = dirty \ S
  /\ UNCHANGED <<listed, edits, cloud, cerr, ref, local, past>>

EndRun ==
  /\ pc' = "idle" /\ processing' = {} /\ over' = {}
  /\ todo' = {} /\ seen' = {} /\ uid' = NoUid /\ files' = 0

\* phase_file_mirror cannot list the pending files: run is aborted.
FileMirrorRaises ==
  /\ pc = "files"
  /\ EndRun
  /\ UNCHANGED <<portal, cloud, sqlite, past>>

\* Slip: only what changed in this run is looked at.
ProcessChanged ==
  /\ processing' = changed
  /\ perr' = [s \in Sname |-> IF s \in processing' THEN Ensured(perr[s]) ELSE perr[s]]

\* changed | retry_snames, each with a marker of its own
ProcessOwed ==
  /\ processing' = changed \cup {s \in Sname : Retryable(s)}
  /\ perr' = [s \in Sname |-> IF s \in processing' THEN Ensured(perr[s]) ELSE perr[s]]

StartChildren ==
  /\ pc = "files"
  /\ pc' = "detail"
  /\ over' = {k \in Key : cerr[k] >= MaxRetry}
  /\ ProcessOwed
  /\ UNCHANGED <<portal, cloud, cerr, ref, changed, inner, files, past>>

-------------------------------------------------------------------------------
(* One superevent.                                                          *)

NextSuperevent ==
  /\ processing' = processing \ {cur}
  /\ pc' = "detail" /\ todo' = {} /\ seen' = {} /\ uid' = NoUid

\* find_bilby_pe_analyses takes from the detail the analyses it can read: of a
\* malformed one only some, of one that is no dict none, and never raises.
DetailOk ==
  /\ pc = "detail" /\ processing # {}
  /\ pc' = "linked"
  /\ LET All == {u \in Uid : <<cur, u>> \in listed}
     IN \E A \in SUBSET All :
          /\ todo' = A
          /\ shorts' = IF A = All THEN shorts ELSE shorts + 1
          /\ shorts' <= MaxShort
          /\ hidden' = {k \in hidden : k[1] # cur} \cup ({cur} \X (All \ A))
  /\ UNCHANGED <<portal, cloud, sqlite, processing, over, seen, uid, files, crashes,
                 lost>>

\* GWCloud answers which analyses are linked.
LinkedOk ==
  /\ pc = "linked"
  /\ pc' = "next"
  /\ seen' = {u \in Uid : <<cur, u>> \in linked}
  /\ UNCHANGED <<portal, cloud, sqlite, processing, over, todo, uid, files, past>>

\* Either question fails: counted against the superevent.
SupereventFails ==
  /\ pc \in {"detail", "linked"} /\ processing # {}
  /\ NextSuperevent
  /\ perr' = [perr EXCEPT ![cur] = Counted(@)]
  /\ UNCHANGED <<portal, cloud, cerr, ref, changed, over, files, past>>

\* After the analyses: the marker goes when nothing is left to retry.
CloseSuperevent ==
  /\ pc = "next" /\ todo = {}
  /\ NextSuperevent
  /\ perr' = IF NoRemaining(cur) THEN [perr EXCEPT ![cur] = NoKey] ELSE perr
  /\ UNCHANGED <<portal, cloud, cerr, ref, changed, over, files, past>>

EndChildren ==
  /\ pc = "detail" /\ processing = {}
  /\ EndRun
  /\ UNCHANGED <<portal, cloud, sqlite, past>>

-------------------------------------------------------------------------------
(* One analysis.                                                            *)

\* clear_failure
DeleteRow(k) ==
  /\ cerr' = [cerr EXCEPT ![k] = NoKey]
  /\ ref' = ref \ {k}

NextAnalysis == pc' = "next" /\ todo' = todo \ {uid} /\ uid' = NoUid

AlreadyLinked(u) ==
  /\ pc = "next" /\ u \in todo \cap seen
  /\ todo' = todo \ {u}
  /\ DeleteRow(<<cur, u>>)
  /\ UNCHANGED <<portal, cloud, perr, changed, pc, processing, over, seen, uid, files, past>>

GivenUp(u) ==
  /\ pc = "next" /\ u \in todo \ seen /\ <<cur, u>> \in over
  /\ todo' = todo \ {u}
  /\ UNCHANGED <<portal, cloud, sqlite, pc, processing, over, seen, uid, files, past>>

\* With a stored job_ref the archive is not built again.
Resume(k) == IF k \in ref THEN "relink" ELSE "fetch"

Begin(u) ==
  /\ pc = "next" /\ u \in todo \ seen /\ <<cur, u>> \notin over
  /\ pc' = Resume(<<cur, u>>)
  /\ uid' = u
  /\ cerr' = [cerr EXCEPT ![<<cur, u>>] = Ensured(@)]
  /\ UNCHANGED <<portal, cloud, perr, ref, changed, processing, over, todo, seen, files, past>>

FetchOk ==
  /\ pc = "fetch"
  /\ pc' = "upload"
  /\ UNCHANGED <<portal, cloud, sqlite, local, past>>

\* ClusterOffline: the whole phase breaks off.
ClusterOffline ==
  /\ pc = "fetch"
  /\ EndRun
  /\ UNCHANGED <<portal, cloud, sqlite, past>>

\* A cap of the run is reached; MAX_BYTES_PER_RUN may be as soon as anything
\* was uploaded.
CapReached ==
  /\ pc = "upload" /\ files > 0
  /\ EndRun
  /\ UNCHANGED <<portal, cloud, sqlite, past>>

\* GWCloud refuses a second job of the same name.
UploadOk ==
  /\ pc = "upload" /\ files < MaxFiles /\ key \notin jobs
  /\ pc' = "setref"
  /\ jobs' = jobs \cup {key}
  /\ UNCHANGED <<portal, linked, sqlite, local, past>>

\* Slip: the row goes with the failure.
RowForgotten ==
  /\ NextAnalysis
  /\ DeleteRow(key)

CountFailure ==
  /\ NextAnalysis
  /\ cerr' = [cerr EXCEPT ![key] = Counted(@)]
  /\ UNCHANGED ref

\* record_failure on anything an analysis raises.
FetchFails ==
  /\ pc = "fetch"
  /\ CountFailure
  /\ UNCHANGED <<portal, cloud, perr, changed, processing, over, seen, files, past>>

\* The upload fails, refused or before GWCloud took the archive.
UploadFails ==
  /\ pc = "upload" /\ files < MaxFiles
  /\ CountFailure
  /\ UNCHANGED <<portal, cloud, perr, changed, processing, over, seen, files, past>>

\* GWCloud took the archive and the answer is lost.
UploadAnswerLost ==
  /\ pc = "upload" /\ files < MaxFiles /\ key \notin jobs
  /\ jobs' = jobs \cup {key} /\ lost' = lost \cup {key}
  /\ CountFailure
  /\ UNCHANGED <<portal, linked, perr, changed, processing, over, seen, files, crashes,
                 shorts, hidden>>

\* Slip: the id is not stored.
SetNoRef(k) == UNCHANGED ref
StoreRef(k) == ref' = ref \cup {k}

SetJobRef ==
  /\ pc = "setref"
  /\ pc' = "link"
  /\ StoreRef(key)
  /\ UNCHANGED <<portal, cloud, perr, cerr, changed, local, past>>

LinkOk ==
  /\ pc \in {"link", "relink"}
  /\ pc' = IF pc = "link" THEN "clear" ELSE "reclear"
  /\ linked' = linked \cup {key}
  /\ UNCHANGED <<portal, jobs, sqlite, local, past>>

\* The link fails, before or after GWCloud stored it.
LinkFails ==
  /\ pc \in {"link", "relink"}
  /\ linked' \in {linked, linked \cup {key}}
  /\ CountFailure
  /\ UNCHANGED <<portal, jobs, perr, changed, processing, over, seen, files, past>>

\* The row goes; only what this run uploaded counts for its caps.
ClearFailure ==
  /\ pc \in {"clear", "reclear"}
  /\ NextAnalysis
  /\ files' = IF pc = "clear" THEN files + 1 ELSE files
  /\ DeleteRow(key)
  /\ UNCHANGED <<portal, cloud, perr, changed, processing, over, seen, past>>

\* Killed anywhere.  Between the upload and set_job_ref the id is lost.
Crash ==
  /\ pc # "idle" /\ crashes < MaxCrashes
  /\ crashes' = crashes + 1
  /\ lost' = IF pc = "setref" THEN lost \cup {key} ELSE lost
  /\ EndRun
  /\ UNCHANGED <<portal, cloud, sqlite, shorts, hidden>>

AnalysisStep ==
  \/ \E u \in Uid : AlreadyLinked(u) \/ GivenUp(u) \/ Begin(u)
  \/ FetchOk \/ FetchFails \/ ClusterOffline \/ CapReached
  \/ UploadOk \/ UploadFails \/ UploadAnswerLost \/ SetJobRef
  \/ LinkOk \/ LinkFails \/ ClearFailure

RunStep ==
  \/ \E S \in SUBSET Sname : Metadata(S)
  \/ FileMirrorRaises \/ StartChildren
  \/ DetailOk \/ LinkedOk \/ SupereventFails \/ CloseSuperevent \/ EndChildren
  \/ AnalysisStep

Next ==
  \/ \E s \in Sname, A \in SUBSET Uid : Edit(s, A)
  \/ \E k \in Key : OperatorResets(k)
  \/ RunStep \/ Crash

Spec == Init /\ [][Next]_vars

(***************************************************************************)
(* Fairness: cron starts a run again and again and a started run goes on;  *)
(* phase_metadata gets to every changed superevent in the end (that is     *)
(* GWFlowMetadata!EventuallySettled), the pending files can be listed, and *)
(* the cluster is not offline for ever.  Every other request may fail as   *)
(* often as it likes: it is counted.                                       *)
(***************************************************************************)
FetchAnswers(k) == pc = "fetch" /\ key = k /\ (FetchOk \/ FetchFails)
Fairness ==
  /\ WF_vars(RunStep) /\ SF_vars(StartChildren)
  /\ \A s \in Sname : SF_vars(\E S \in SUBSET Sname : s \in S /\ Metadata(S))
  /\ \A k \in Key : SF_vars(FetchAnswers(k))

FairSpec == Spec /\ Fairness

-------------------------------------------------------------------------------
(* Properties.                                                              *)

Pc == {"idle", "files", "detail", "linked", "next", "fetch", "upload", "setref",
       "link", "relink", "clear", "reclear"}

StoreTypes ==
  /\ listed \subseteq Key /\ dirty \subseteq Sname /\ edits \in 0..MaxEdits
  /\ jobs \subseteq Key /\ linked \subseteq Key
  /\ perr \in [Sname -> NoKey..MaxRetry] /\ cerr \in [Key -> NoKey..MaxRetry]
  /\ ref \subseteq Key /\ changed \subseteq Sname

LocalTypes ==
  /\ pc \in Pc /\ processing \subseteq Sname /\ over \subseteq Key
  /\ todo \subseteq Uid /\ seen \subseteq Uid /\ uid \in Uid \cup {NoUid}
  /\ files \in 0..MaxFiles /\ crashes \in 0..MaxCrashes /\ shorts \in 0..MaxShort
  /\ lost \subseteq Key /\ hidden \subseteq Key

TypeOK == StoreTypes /\ LocalTypes

Settled(k) == k \in linked \/ cerr[k] = MaxRetry \/ perr[k[1]] = MaxRetry

\* Every analysis the portal lists is linked, given up after MAX_RETRY_ATTEMPTS
\* (itself or its superevent), or bound to be looked at again: its superevent
\* is still to be streamed, or a job_errors row under the cap names it.  No
\* failure, break or kill loses one; a malformed detail does, for it counts as
\* a detail that lists no more than what can be read of it.
NothingForgotten ==
  \A k \in listed : Settled(k) \/ k[1] \in dirty \/ Retryable(k[1]) \/ k \in hidden

\* An uploaded job that is not linked has its id in sqlite, unless the process
\* holds it at this moment or it was lost on the way there: whoever deletes a
\* row deletes no id that is still needed.
OrphanHasRef ==
  \A k \in jobs \ linked : k \in ref \cup lost \/ (pc = "setref" /\ key = k)

\* An analysis that ran out of retries stays given up until an operator resets
\* its row or GWCloud turns out to have linked it, and so does a superevent
\* until it is closed: a new change does not restart the count.
GiveUpIsFinal ==
  [][/\ \A k \in Key : cerr[k] = MaxRetry =>
          cerr'[k] = MaxRetry \/ k \in linked \/ (pc = "idle" /\ cerr'[k] = 0)
     /\ \A s \in Sname : perr[s] = MaxRetry => perr'[s] \in {MaxRetry, NoKey}]_vars

\* The marker of a superevent is removed only when all its analyses are linked,
\* given up, unlisted or hidden by the malformed detail just read, or the
\* superevent is to be streamed again.
MarkerOutlivesWork ==
  [][\A s \in Sname : perr[s] >= 0 /\ perr'[s] = NoKey =>
       \/ s \in dirty
       \/ \A k \in listed :
            k[1] = s => k \in linked \cup hidden \/ cerr[k] = MaxRetry]_vars

\* Once the portal answers well-formed details, every listed analysis is linked in
\* the end, or unlisted, or given up; or it was hidden when the marker went, and
\* then nothing brings it up again until the portal commits the superevent anew.
EventuallyLinked ==
  \A k \in Key : k \in listed ~>
    (k \notin listed \/ Settled(k) \/ (k \in hidden /\ ~Retryable(k[1])))

===============================================================================
