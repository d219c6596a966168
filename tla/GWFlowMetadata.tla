---------------------------- MODULE GWFlowMetadata ----------------------------
(***************************************************************************)
(* phase_metadata of the gwflow cron (gwflow_cron/gwflow_ingest.py) over   *)
(* its sqlite file (gwflow_cron/state.py): it streams the superevents that *)
(* changed on the cbcflow portal since a watermark, upserts each one into  *)
(* GWCloud, counts failures per superevent, and advances the watermark     *)
(* behind the last row it is done with.  What it then marks pruned is the  *)
(* matter of GWFlowIndex: is_pruned is no part of the state here.          *)
(*                                                                         *)
(* Each action is the code between two points where the process can die or *)
(* the portal can change: a request, or one sqlite commit.  A row of the   *)
(* stream is <<commit_timestamp, sname>>; superevents are named by their   *)
(* rank in string order and timestamps by their order, 0 being None.       *)
(* The portal serves the stream in pages with a number (?page=2), so that  *)
(* rows move from page to page while it is read; and an upsert whose       *)
(* caller gave up or was killed may still be carried out by GWCloud later. *)
(***************************************************************************)
EXTENDS Integers, FiniteSets

CONSTANTS
  Sname,                  \* superevents, as ranks in the order of their names
  Withdrawable,           \* those the portal may withdraw
  PageSize,               \* rows on a page of the stream
  MaxRetry,               \* settings.MAX_RETRY_ATTEMPTS, for superevents
  MaxLook,                \* the same setting, for their markers
  MaxTs,                  \* bound: number of commits the portal makes
  MaxFaults               \* bound: number of kills, and of upserts that go astray

ASSUME SnameAssumption ==
  Sname \subseteq Nat \ {0} /\ IsFiniteSet(Sname) /\ Withdrawable \subseteq Sname
ASSUME BoundAssumption ==
  /\ PageSize \in Nat \ {0} /\ MaxRetry \in Nat \ {0} /\ MaxLook \in Nat \ {0}
  /\ MaxTs \in Nat /\ MaxFaults \in Nat

VARIABLES
  present, ts, clock,     \* the portal: listed superevents, their last commit
  log,                    \* history: every commit of a superevent, as a row
  mver,                   \* GWCloud: version mirrored (0: no GWFlowJob)
  late,                   \* upserts on their way whose caller is gone, as rows
  wm, last,               \* sqlite sync_state: watermark, last_sname
  errors,                 \* sqlite job_errors: failure_count of key sname
  marker, changed,        \* failure_count of key bilby:sname; changed_snames
  pc,                     \* where the process stands, "idle" when none runs
  startWm, startLast,     \* locals start_wm and start_last_sname
  frozen,                 \* local has_failure_in_run
  queue, nread, more,     \* rows left of the page; places on pages read, is there a next
  cur, det,               \* the row at hand, its detail
  faults,                 \* how often one of the two happened
  seen,                   \* history: rows on pages of this run
  excused,                \* history: the newest row was given up or malformed, or its
                          \*   detail was; or was hidden by a half-written position; or
                          \*   passed over by pages; or its upsert was written over
  owed                    \* history: upserted, and neither seen, given up nor forgotten
                          \*   since by phase_bilby_children

portal  == <<present, ts, clock, log>>
cloud   == <<mver, late>>
sqlite  == <<wm, last, errors, marker, changed>>
paging  == <<nread, more, seen>>
loop    == <<startWm, startLast, frozen, queue, paging>>
row     == <<cur, det>>
local   == <<loop, row>>
history == <<excused, owed>>
vars    == <<portal, cloud, sqlite, pc, local, faults, history>>

Row   == (1..MaxTs) \X Sname
NoRow == <<0, 0>>
rowOf(s) == <<ts[s], s>>

-------------------------------------------------------------------------------
\* (row_ts, row_sname) <= (ts, sname), Python's order on tuples.
AtOrBefore(r, q) == r[1] < q[1] \/ (r[1] = q[1] /\ r[2] <= q[2])

\* iter_changed: superevents with commit_timestamp >= since (all if since is
\* None), and their places in the order of commit_timestamp and sname.
Changed == {s \in present : ts[s] >= startWm}
UpTo(r) == {s \in Changed : AtOrBefore(rowOf(s), r)}
\* Slip: the request leaves the ordering out.
PlaceByName(s) == Cardinality({x \in Changed : x <= s})
Place(s) == Cardinality(UpTo(rowOf(s)))

\* A page is sorted by commit_timestamp, then sname.
NextInOrder(r) == \A q \in queue : AtOrBefore(r, q)

\* The tie resume check on a row of the stream.
TieSkip(r, w, l) == w # 0 /\ l # 0 /\ AtOrBefore(r, <<w, l>>)

\* record_failure: the count saturates at the cap it is compared with.
Counted(n, cap) == IF n < cap THEN n + 1 ELSE cap
\* Slip: no cap on retries.
NeverGivesUp(s) == FALSE
GivesUp(s) == Counted(errors[s], MaxRetry) >= MaxRetry

\* ensure_pending leaves a row that is there alone, and failures_under leaves out
\* what stands at the cap.
NoMarker == -1
Pending(s) == IF marker[s] = NoMarker THEN 0 ELSE marker[s]
Retryable(s) == marker[s] \in 0..MaxLook - 1

\* is a later run with this position blind to the row?
Passed(r, w, l) == r[1] < w \/ TieSkip(r, w, l)

\* The code gives a row up, or passes it by.
Drop(r) == excused' = IF r = rowOf(r[2]) THEN excused \cup {r[2]} ELSE excused

Mirrored(s) == mver[s] >= ts[s]

Init ==
  /\ present = {} /\ ts = [s \in Sname |-> 0] /\ clock = 0 /\ log = {}
  /\ mver = [s \in Sname |-> 0] /\ late = {}
  /\ wm = 0 /\ last = 0 /\ errors = [s \in Sname |-> 0]
  /\ marker = [s \in Sname |-> NoMarker] /\ changed = {}
  /\ pc = "idle"
  /\ startWm = 0 /\ startLast = 0 /\ frozen = FALSE
  /\ queue = {} /\ nread = 0 /\ more = FALSE /\ cur = NoRow /\ det = 0
  /\ faults = 0
  /\ seen = {} /\ excused = {} /\ owed = {}

-------------------------------------------------------------------------------
(* The portal: a commit touches any number of superevents, which then share *)
(* its timestamp; a superevent can be withdrawn.                            *)

Commit(S) ==
  /\ clock < MaxTs
  /\ clock' = clock + 1
  /\ ts' = [s \in Sname |-> IF s \in S THEN clock + 1 ELSE ts[s]]
  /\ log' = log \cup {<<clock + 1, s>> : s \in S}
  /\ present' = present \cup S
  /\ excused' = excused \ S
  /\ UNCHANGED <<cloud, sqlite, pc, local, faults, owed>>

Withdraw(s) ==
  /\ s \in present \cap Withdrawable
  /\ present' = present \ {s}
  /\ UNCHANGED <<ts, clock, log, cloud, sqlite, pc, local, faults, history>>

-------------------------------------------------------------------------------
(* GWCloud: upsert_gwflow_job overwrites whatever version it holds.         *)

Overwrite(s, v) == mver' = [mver EXCEPT ![s] = v]

Fault == faults < MaxFaults /\ faults' = faults + 1

\* The upsert at hand has not been carried out, and its caller goes away.
GoesAstray == late' = late \cup {<<det, cur[2]>>}

\* Slip: the request is sent once more by what carries it.
LateUpsertAgain(r) ==
  /\ r \in late
  /\ Overwrite(r[2], r[1])
  /\ excused' = IF Mirrored(r[2]) /\ r[1] < ts[r[2]]
                  THEN excused \cup {r[2]} ELSE excused
  /\ UNCHANGED <<late, portal, sqlite, pc, local, faults, owed>>

LateUpsert(r) ==
  /\ r \in late
  /\ late' = late \ {r}
  /\ Overwrite(r[2], r[1])
  /\ excused' = IF Mirrored(r[2]) /\ r[1] < ts[r[2]]
                  THEN excused \cup {r[2]} ELSE excused
  /\ UNCHANGED <<portal, sqlite, pc, local, faults, owed>>

-------------------------------------------------------------------------------
(* One run of the process.                                                  *)

\* Superevents that would have been looked at only because they had changed:
\* their markers stand at the cap.
Forgotten == {s \in changed : marker[s] = MaxLook}

\* run takes the flock (a second process leaves at once); phase_metadata
\* empties changed_snames, whoever has read it, and reads the position.
StartRun ==
  /\ pc = "idle"
  /\ pc' = "row"
  /\ changed' = {} /\ owed' = owed \ Forgotten
  /\ startWm' = wm /\ startLast' = last /\ frozen' = FALSE
  /\ nread' = 0 /\ more' = TRUE /\ seen' = {}
  /\ UNCHANGED <<portal, cloud, wm, last, errors, marker, queue, row, faults, excused>>

NextPage == {rowOf(s) : s \in {s \in Changed : Place(s) \in nread + 1..nread + PageSize}}

\* A page is read; a row whose place is now on a page already read, and was not
\* when that was read, is passed over, unless the position is frozen.
TakePage(rows) ==
  /\ pc = "row" /\ queue = {} /\ more
  /\ nread = 0 \/ Cardinality(Changed) > nread
  /\ queue' = rows /\ seen' = seen \cup rows
  /\ nread' = nread + PageSize /\ more' = (Cardinality(Changed) > nread')
  /\ excused' = excused \cup {s \in Changed : ~frozen /\ Place(s) <= nread
                                                /\ rowOf(s) \notin seen}
  /\ UNCHANGED <<portal, cloud, sqlite, pc, startWm, startLast, frozen, row, faults,
                 owed>>

FetchPage == TakePage(NextPage)

\* "Skipping portal page with non-list results".
SkipPage == TakePage({})

\* The locals of the loop are not read again.
LeaveStream ==
  /\ pc' = "prune"
  /\ startWm' = 0 /\ startLast' = 0 /\ frozen' = FALSE /\ queue' = {}
  /\ nread' = 0 /\ more' = FALSE /\ seen' = {}

\* The request for a page fails three times: the rest of the stream is lost
\* to this run, which goes on to the prune.
StreamFails ==
  /\ pc = "row" /\ queue = {} /\ more
  /\ LeaveStream
  /\ UNCHANGED <<portal, cloud, sqlite, row, faults, history>>

\* A row is taken, unless the position covers it, it is no dict, or it lacks
\* commit_timestamp or sname.
TakeRow(s) ==
  /\ pc = "row"
  /\ \E r \in queue :
       /\ r[2] = s
       /\ NextInOrder(r)
       /\ queue' = queue \ {r}
       /\ IF TieSkip(r, startWm, startLast)
          THEN UNCHANGED <<pc, cur, excused>>
          ELSE \/ pc' = "get" /\ cur' = r /\ UNCHANGED excused
               \/ Drop(r) /\ UNCHANGED <<pc, cur>>
  /\ UNCHANGED <<portal, cloud, sqlite, startWm, startLast, frozen, paging, det, faults,
                 owed>>

\* The last page is done with, or there is no such page any more.
EndStream ==
  /\ pc = "row" /\ queue = {}
  /\ ~more \/ (nread > 0 /\ Cardinality(Changed) <= nread)
  /\ LeaveStream
  /\ UNCHANGED <<portal, cloud, sqlite, row, faults, history>>

NextIteration == pc' = "row" /\ cur' = NoRow /\ det' = 0

\* get_superevent answers with what the portal holds by then.
GetDetail ==
  /\ pc = "get" /\ cur[2] \in present
  /\ pc' = "upsert"
  /\ det' = ts[cur[2]]
  /\ UNCHANGED <<portal, cloud, sqlite, loop, cur, faults, history>>

GetNoDict ==
  /\ pc = "get"
  /\ NextIteration
  /\ Drop(cur)
  /\ UNCHANGED <<portal, cloud, sqlite, loop, faults, owed>>

GetFails ==
  /\ pc = "get"
  /\ pc' = "failed"
  /\ UNCHANGED <<portal, cloud, sqlite, local, faults, history>>

Upsert == Overwrite(cur[2], det)

UpsertOk ==
  /\ pc = "upsert"
  /\ pc' = "clear"
  /\ Upsert
  /\ owed' = owed \cup {cur[2]}
  /\ det' = 0
  /\ UNCHANGED <<portal, late, sqlite, loop, cur, faults, excused>>

\* The request fails, or is not waited for any longer: GWCloud carried it out,
\* does not, or will.
UpsertFails ==
  /\ pc = "upsert"
  /\ pc' = "failed"
  /\ \/ Upsert /\ UNCHANGED <<late, faults>>
     \/ GoesAstray /\ Fault /\ UNCHANGED mver
     \/ UNCHANGED <<cloud, faults>>
  /\ det' = 0
  /\ UNCHANGED <<portal, sqlite, loop, cur, history>>

ClearFailure ==
  /\ pc = "clear"
  /\ pc' = "record"
  /\ errors' = [errors EXCEPT ![cur[2]] = 0]
  /\ UNCHANGED <<portal, cloud, wm, last, marker, changed, local, faults,
                 history>>

RecordChanged ==
  /\ pc = "record"
  /\ pc' = "ensure"
  /\ changed' = changed \cup {cur[2]}
  /\ UNCHANGED <<portal, cloud, wm, last, errors, marker, local, faults,
                 history>>

\* Slip: the position advances past a failed row.
EnsurePendingNotFrozen ==
  /\ pc = "ensure"
  /\ marker' = [marker EXCEPT ![cur[2]] = Pending(cur[2])]
  /\ pc' = "setwm"
  /\ UNCHANGED <<portal, cloud, wm, last, errors, changed, local, faults, history>>

\* Slip: the marker is left out.
EnsureNothing ==
  /\ pc = "ensure"
  /\ IF frozen THEN NextIteration ELSE pc' = "setwm" /\ UNCHANGED <<cur, det>>
  /\ UNCHANGED <<portal, cloud, sqlite, loop, faults, history>>

EnsurePending ==
  /\ pc = "ensure"
  /\ marker' = [marker EXCEPT ![cur[2]] = Pending(cur[2])]
  /\ IF frozen THEN NextIteration ELSE pc' = "setwm" /\ UNCHANGED <<cur, det>>
  /\ UNCHANGED <<portal, cloud, wm, last, errors, changed, loop,
                 faults, history>>

SetWatermark ==
  /\ pc = "setwm"
  /\ pc' = "setlast"
  /\ wm' = cur[1]
  /\ UNCHANGED <<portal, cloud, last, errors, marker, changed, local, faults,
                 history>>

SetLastSname ==
  /\ pc = "setlast"
  /\ NextIteration
  /\ last' = cur[2]
  /\ UNCHANGED <<portal, cloud, wm, errors, marker, changed, loop,
                 faults, history>>

RecordFailure ==
  /\ pc = "failed"
  /\ NextIteration
  /\ errors' = [errors EXCEPT ![cur[2]] = Counted(@, MaxRetry)]
  /\ IF GivesUp(cur[2])
     THEN Drop(cur) /\ UNCHANGED frozen
     ELSE frozen' = TRUE /\ UNCHANGED excused
  /\ UNCHANGED <<portal, cloud, wm, last, marker, changed, startWm, startLast,
                 queue, paging, faults, owed>>

\* The prune asks and tells GWCloud what is listed no more (GWFlowIndex).
Prune ==
  /\ pc = "prune"
  /\ pc' = "later"
  /\ UNCHANGED <<portal, cloud, sqlite, local, faults, history>>

EndRun ==
  /\ pc' = "idle"
  /\ startWm' = 0 /\ startLast' = 0 /\ frozen' = FALSE
  /\ queue' = {} /\ nread' = 0 /\ more' = FALSE /\ seen' = {}
  /\ cur' = NoRow /\ det' = 0

\* phase_bilby_children takes what changed in this run and what its markers under
\* the cap bring up; what it is done with loses its marker, a failure is counted,
\* and the rest keeps one: there is more to do, or the run stopped short.
ToProcess == changed \cup {s \in Sname : Retryable(s)}
Marked(s, done, failed) ==
  CASE s \in done                 -> NoMarker
    [] s \in failed               -> Counted(Pending(s), MaxLook)
    [] s \in ToProcess \ (done \cup failed) -> Pending(s)
    [] OTHER                      -> marker[s]

LaterPhases ==
  /\ pc = "later"
  /\ \E done \in SUBSET ToProcess : \E failed \in SUBSET (ToProcess \ done) :
       /\ marker' = [s \in Sname |-> Marked(s, done, failed)]
       /\ owed' = owed \ (done \cup {s \in failed : Marked(s, done, failed) = MaxLook})
  /\ EndRun
  /\ UNCHANGED <<portal, cloud, wm, last, errors, changed, faults, excused>>

\* GWCloud fails while the prune asks or tells it: run is aborted.
PruneFails ==
  /\ pc = "prune"
  /\ EndRun
  /\ UNCHANGED <<portal, cloud, sqlite, faults, history>>

\* Killed anywhere.  Between its two commits the position is half written: it
\* hides rows after the one at hand that tie with the new watermark.
Crash ==
  /\ pc # "idle" /\ Fault
  /\ EndRun
  /\ UNCHANGED late \/ (pc = "upsert" /\ GoesAstray)
  /\ excused' = IF pc = "setlast"
                  THEN excused \cup {s \in present : ~AtOrBefore(rowOf(s), cur)
                                                     /\ TieSkip(rowOf(s), wm, last)}
                  ELSE excused
  /\ UNCHANGED <<portal, mver, sqlite, owed>>

\* The runbook: an operator resets a job_errors row that ran out of retries.
OperatorResets(s) ==
  /\ pc = "idle"
  /\ \/ /\ errors[s] >= MaxRetry
        /\ errors' = [errors EXCEPT ![s] = 0] /\ UNCHANGED marker
     \/ /\ marker[s] >= MaxLook
        /\ marker' = [marker EXCEPT ![s] = 0] /\ UNCHANGED errors
  /\ UNCHANGED <<portal, cloud, wm, last, changed, pc, local, faults, history>>

RowStep ==
  \/ GetDetail \/ GetNoDict \/ GetFails
  \/ UpsertOk \/ UpsertFails
  \/ ClearFailure \/ RecordChanged \/ EnsurePending
  \/ SetWatermark \/ SetLastSname \/ RecordFailure

PhaseStep == Prune \/ PruneFails \/ LaterPhases

Next ==
  \/ \E S \in SUBSET Sname : S # {} /\ Commit(S)
  \/ \E s \in Sname : Withdraw(s) \/ TakeRow(s) \/ OperatorResets(s)
  \/ \E r \in late : LateUpsert(r)
  \/ StartRun \/ FetchPage \/ SkipPage \/ StreamFails \/ EndStream
  \/ RowStep \/ PhaseStep \/ Crash

Spec == Init /\ [][Next]_vars

(***************************************************************************)
(* Fairness: cron starts a run again and again and a started run goes on;  *)
(* the portal does not fail, or garble, every request for the page of a    *)
(* superevent for ever.  Nothing is assumed of the requests made for one   *)
(* row: failing is counted.                                                *)
(***************************************************************************)
Fairness ==
  /\ WF_vars(StartRun) /\ WF_vars(FetchPage \/ SkipPage \/ StreamFails)
  /\ WF_vars(\E s \in Sname : TakeRow(s)) /\ WF_vars(EndStream)
  /\ WF_vars(RowStep) /\ WF_vars(PhaseStep)
  /\ \A s \in Sname : SF_vars(FetchPage /\ rowOf(s) \in NextPage)

FairSpec == Spec /\ Fairness

-------------------------------------------------------------------------------
(* Properties.                                                              *)

Pc == {"idle", "row", "get", "upsert", "clear", "record", "ensure",
       "setwm", "setlast", "failed", "prune", "later"}

StoreTypes ==
  /\ present \subseteq Sname /\ ts \in [Sname -> 0..MaxTs] /\ clock \in 0..MaxTs
  /\ log \subseteq Row
  /\ mver \in [Sname -> 0..MaxTs] /\ late \subseteq (0..MaxTs) \X Sname
  /\ wm \in 0..MaxTs /\ last \in Sname \cup {0}
  /\ errors \in [Sname -> 0..MaxRetry]
  /\ marker \in [Sname -> {NoMarker} \cup 0..MaxLook] /\ changed \subseteq Sname

LocalTypes ==
  /\ pc \in Pc /\ faults \in 0..MaxFaults
  /\ startWm \in 0..MaxTs /\ startLast \in Sname \cup {0}
  /\ queue \subseteq Row /\ nread \in Nat /\ cur \in Row \cup {NoRow} /\ det \in 0..MaxTs

HistoryTypes ==
  /\ seen \subseteq Row /\ excused \subseteq Sname
  /\ owed \subseteq Sname

FlagTypes == frozen \in BOOLEAN /\ more \in BOOLEAN

TypeOK == StoreTypes /\ LocalTypes /\ HistoryTypes /\ FlagTypes

\* Whether the next run would never look at the superevent's newest row.
Behind(s) == s \in present /\ Passed(rowOf(s), wm, last)

\* A superevent whose newest row lies behind the position is mirrored at that
\* version, whatever failed and wherever the process died; the exceptions are
\* the rows given up after MAX_RETRY_ATTEMPTS, those that are malformed or whose
\* detail is, those a kill between set_watermark and set_last_sname hides, those
\* that moved to a page already read or were on a page that was no list, and the
\* versions that an older upsert, gone astray, was carried out after.
NoLostUpdate ==
  pc # "setlast" => \A s \in Sname : Behind(s) => Mirrored(s) \/ s \in excused

\* Whether phase_bilby_children will look at a superevent: in this run or the
\* next ones, or because it has changed in this one.
LookedAt(s) == Retryable(s) \/ (s \in changed /\ marker[s] # NoMarker)

\* With the same exceptions, a superevent behind the position that was upserted is
\* one that phase_bilby_children will look at, until that phase is done with it or
\* counted it up to the cap, although a kill, or an error of the prune, keeps the
\* phase away: but for those Forgotten, whose marker stood at the cap when a run
\* that never came to that phase upserted them.
OwedToChildren ==
  pc # "setlast" => \A s \in Sname :
      Behind(s) /\ s \in owed => LookedAt(s) \/ s \in excused

\* The watermark never goes back: the stream is ordered and starts at it.
WatermarkNeverRetreats == [][wm' >= wm]_vars

\* GWCloud holds versions of the superevent that the portal published, each newer
\* than the one before but for an upsert that its caller did not wait for:
\* phase_metadata implements MirrorSpec.
Mirror == INSTANCE MirrorSpec
            WITH Item <- Sname, published <- log, copy <- mver, asked <- late
MirrorsPortal == Mirror!Spec

\* Every version the portal publishes is mirrored in the end, or superseded,
\* withdrawn or excused: a failing row holds the position back until it
\* succeeds or is given up, and no other row waits for ever behind it.
EventuallySettled ==
  \A s \in Sname, t \in 1..MaxTs :
    (s \in present /\ ts[s] = t) ~>
      (s \notin present \/ ts[s] # t \/ mver[s] >= t \/ s \in excused)

===============================================================================
