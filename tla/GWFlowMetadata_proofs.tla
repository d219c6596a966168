------------------------ MODULE GWFlowMetadata_proofs -------------------------
(***************************************************************************)
(* Proofs about GWFlowMetadata, for every set of superevents and every     *)
(* bound: type correctness, that no update is lost and no children are     *)
(* forgotten, that the watermark never retreats, and that MirrorSpec is    *)
(* implemented.                                                            *)
(***************************************************************************)
EXTENDS GWFlowMetadata, FiniteSetTheorems, TLAPS

\* Where the process has a row at hand, and where it is still in the stream.
RowPc    == {"get", "upsert", "clear", "record", "ensure", "setwm", "setlast", "failed"}
StreamPc == RowPc \cup {"row"}

\* Rows this run has not dealt with, and rows the watermark may still be set to.
Todo == queue \cup IF pc \in {"get", "upsert", "failed"} THEN {cur} ELSE {}
Bar  == queue \cup IF pc \in RowPc THEN {cur} ELSE {}

Done(s) == Mirrored(s) \/ s \in excused

PortalInv ==
  /\ \A s \in present : ts[s] >= 1
  /\ \A s \in Sname : ts[s] <= clock

CurInv ==
  /\ pc \in RowPc => cur \in Row /\ cur \notin queue /\ \A q \in queue : AtOrBefore(cur, q)
  /\ pc \notin RowPc \cup {"row"} => queue = {}
  /\ pc = "upsert" => cur[1] <= det
  /\ pc \in {"setwm", "setlast"} => ~frozen

BarInv == \A r \in Bar : r[1] >= wm /\ r[1] <= ts[r[2]]

StartInv ==
  /\ wm <= clock /\ startWm <= wm
  /\ pc \in StreamPc =>
       \A s \in present : Passed(rowOf(s), startWm, startLast) => Done(s)

\* The list as it is by now has no more rows up to one read than were on the
\* pages read, nor more rows before the watermark.
Below == {s \in Changed : ts[s] < wm}

PageInv ==
  /\ \A r \in seen : r[1] <= clock
  /\ pc \in StreamPc => /\ \A r \in Bar : Cardinality(UpTo(r)) <= nread
                       /\ Cardinality(Below) <= nread

\* As long as nothing failed, each superevent is still to come on the page, done
\* with, or not read and behind every row of the page.
StreamInv ==
  pc \in StreamPc /\ ~frozen =>
    \A s \in present :
      \/ rowOf(s) \in Todo
      \/ Done(s)
      \/ rowOf(s) \notin seen /\ \A r \in Bar : ~AtOrBefore(rowOf(s), r)

\* Half-way through the position only rows after the one at hand are hidden wrongly.
TearInv ==
  pc = "setlast" =>
    /\ wm = cur[1]
    /\ \A s \in present : AtOrBefore(rowOf(s), cur) => Done(s)

TInv == TypeOK /\ PortalInv /\ (pc \in RowPc => cur \in Row)

RunInv == CurInv /\ BarInv /\ StartInv /\ StreamInv /\ TearInv /\ NoLostUpdate

IInv == TInv /\ PageInv /\ RunInv

\* Whatever is mirrored, or asked for, was published; what is asked for at the row
\* at hand is behind nothing asked for before.
LogInv ==
  /\ \A s \in Sname : ts[s] # 0 => rowOf(s) \in log
  /\ \A r \in log : r[1] <= ts[r[2]]
  /\ late \subseteq log
  /\ \A s \in Sname : mver[s] <= ts[s]
  /\ pc = "upsert" => /\ <<det, cur[2]>> \in log /\ mver[cur[2]] <= det
                      /\ \A r \in late : r[2] = cur[2] => r[1] <= det

\* The same for the children that are owed: rows not yet marked, ...
Left == queue \cup IF pc \in RowPc \ {"setwm", "setlast"} THEN {cur} ELSE {}

Cared(s) == s \in owed => LookedAt(s) \/ s \in excused

\* ... rows that come after the position, the one the run started from and this one, ...
OrderInv ==
  /\ pc \in RowPc => ~Passed(cur, startWm, startLast)
  /\ pc # "setlast" => \A r \in Bar : Passed(r, wm, last) => Passed(r, startWm, startLast)

\* ... a position that moved in this run and has only pages read behind it, ...
PlaceInv ==
  pc \in StreamPc \ {"setlast"} =>
    (wm = startWm /\ last = startLast) \/ Cardinality(UpTo(<<wm, last>>)) <= nread

\* ... rows that were committed again since the page was read, ...
FreshInv ==
  \A r \in Bar : rowOf(r[2]) # r =>
    rowOf(r[2]) \notin seen /\ \A q \in Bar : ~AtOrBefore(rowOf(r[2]), q)

\* ... and StartInv, StreamInv, TearInv with markers for versions.
MarkInv ==
  /\ pc \in StreamPc =>
       \A s \in present : Passed(rowOf(s), startWm, startLast) => Cared(s)
  /\ pc \in StreamPc /\ ~frozen =>
       \A s \in present :
         \/ rowOf(s) \in Left
         \/ Cared(s)
         \/ rowOf(s) \notin seen /\ \A r \in Bar : ~AtOrBefore(rowOf(s), r)
  /\ pc = "ensure" => cur[2] \in changed
  /\ pc = "setwm" => LookedAt(cur[2])
  /\ pc = "setlast" => \A s \in present : AtOrBefore(rowOf(s), cur) => Cared(s)

OInv == OrderInv /\ PlaceInv /\ FreshInv /\ MarkInv /\ OwedToChildren

-------------------------------------------------------------------------------
\* A row is a timestamp and a superevent.
LEMMA RowParts ==
  /\ \A r \in Row : r[1] \in 1..MaxTs /\ r[2] \in Sname /\ r = <<r[1], r[2]>>
  /\ \A t \in 1..MaxTs, s \in Sname : <<t, s>> \in Row
  BY DEF Row

\* The initial states have the types.
LEMMA InitTypes == Init => TInv
<1> USE SnameAssumption, BoundAssumption DEF TInv, TypeOK
<1> SUFFICES ASSUME Init PROVE TInv
  OBVIOUS
<1> USE DEF Init
<1>1. StoreTypes /\ PortalInv
  BY DEF StoreTypes, PortalInv
<1>2. LocalTypes /\ (pc \in RowPc => cur \in Row)
  BY DEF LocalTypes, Pc, RowPc
<1>3. HistoryTypes
  BY DEF HistoryTypes
<1>4. FlagTypes
  BY DEF FlagTypes
<1>5. QED
  BY <1>1, <1>2, <1>3, <1>4

\* Every variable keeps its type; a superevent the portal lists was
\* committed; a step of a row has a row at hand.
THEOREM TypeInvariant == Spec => []TInv
<1> USE SnameAssumption, BoundAssumption, RowParts DEF TInv, TypeOK
<1>1. Init => TInv
  BY InitTypes
<1>2. ASSUME TInv, [Next]_vars PROVE TInv'
  <2> USE <1>2 DEF StoreTypes, LocalTypes, HistoryTypes, PortalInv, RowPc, Pc, rowOf,
                   Drop, portal, cloud, sqlite, paging, loop, row, local, history
  <2>0. ASSUME FetchPage \/ SkipPage
        PROVE  frozen' \in BOOLEAN /\ more' \in BOOLEAN
    <3>1. more' \in BOOLEAN
      <4> HIDE DEF paging
      <4>1. more' = (Cardinality(Changed) > nread')
        BY <2>0, Zenon DEF FetchPage, SkipPage, TakePage
      <4>2. (Cardinality(Changed) > nread') \in BOOLEAN
        OBVIOUS
      <4>3. QED
        BY <4>1, <4>2, Zenon
    <3>2. frozen' = frozen
      BY <2>0 DEF FetchPage, SkipPage, TakePage
    <3>3. QED
      BY <3>1, <3>2 DEF FlagTypes
  <2>1. frozen' \in BOOLEAN /\ more' \in BOOLEAN
    BY <2>0
       DEF FlagTypes, Next, RowStep, PhaseStep, vars, Commit, Withdraw, TakeRow,
           OperatorResets, StartRun, StreamFails, EndStream, LeaveStream, GetDetail,
           GetNoDict, GetFails, UpsertOk, UpsertFails, ClearFailure, RecordChanged,
           EnsurePending, SetWatermark, SetLastSname, RecordFailure, LateUpsert,
           Prune, PruneFails, LaterPhases, EndRun, Crash
  <2> USE <2>1 DEF FlagTypes
  <2>2. ASSUME NEW S \in SUBSET Sname, Commit(S) PROVE TInv'
    BY <2>2 DEF Commit
  <2>3. ASSUME NEW s \in Sname, Withdraw(s) PROVE TInv'
    BY <2>3 DEF Withdraw
  <2>4. ASSUME NEW s \in Sname, TakeRow(s) PROVE TInv'
    BY <2>4 DEF TakeRow
  <2>5. ASSUME NEW s \in Sname, OperatorResets(s) PROVE TInv'
    BY <2>5 DEF OperatorResets
  <2>6. CASE StartRun
    BY <2>6 DEF StartRun
  <2>7. CASE FetchPage \/ SkipPage
    <3>1. \A s \in Changed : s \in Sname /\ rowOf(s) \in Row
      BY DEF Changed
    <3>2. NextPage \subseteq Row
      BY <3>1 DEF NextPage
    <3>3. /\ queue' \in {NextPage, {}} /\ seen' \in {seen \cup NextPage, seen}
          /\ excused' = excused \cup {s \in Changed : ~frozen /\ Place(s) <= nread
                                                     /\ rowOf(s) \notin seen}
          /\ nread' = nread + PageSize /\ pc' = "row"
          /\ UNCHANGED <<portal, cloud, sqlite, startWm, startLast, row, faults,
                         owed>>
      <4> HIDE DEF portal, cloud, sqlite, row, rowOf
      <4>1. CASE FetchPage
        BY <4>1, Zenon DEF FetchPage, TakePage
      <4>2. CASE SkipPage
        BY <4>2, Zenon DEF SkipPage, TakePage
      <4>3. QED
        BY <2>7, <4>1, <4>2
    <3>4. /\ queue' \subseteq Row /\ seen' \subseteq Row /\ excused' \subseteq Sname
          /\ nread' \in Nat /\ pc' = "row"
          /\ UNCHANGED <<portal, cloud, sqlite, startWm, startLast, row, faults,
                         owed>>
      BY <3>1, <3>2, <3>3
    <3>5. StoreTypes' /\ PortalInv' /\ (pc \in RowPc => cur \in Row)'
      BY <3>4
    <3>6. LocalTypes'
      BY <3>4
    <3>7. HistoryTypes' /\ FlagTypes'
      BY <3>4
    <3>8. QED
      BY <3>5, <3>6, <3>7
  <2>8. CASE StreamFails \/ EndStream
    BY <2>8 DEF StreamFails, EndStream, LeaveStream
  <2>9. CASE GetDetail \/ GetNoDict \/ GetFails
    <3>1. CASE GetDetail
      BY <3>1 DEF GetDetail
    <3>2. CASE GetNoDict
      BY <3>2 DEF GetNoDict, NextIteration
    <3>3. CASE GetFails
      BY <3>3 DEF GetFails
    <3>4. QED
      BY <2>9, <3>1, <3>2, <3>3
  <2>10. CASE UpsertOk \/ UpsertFails
    <3>1. cur \in Row /\ cur[2] \in Sname
      BY <2>10 DEF UpsertOk, UpsertFails
    <3>2. CASE UpsertOk
      BY <3>1, <3>2 DEF UpsertOk, Upsert, Overwrite
    <3>3. CASE UpsertFails
      <4>1. mver' \in [Sname -> 0..MaxTs] /\ faults' \in 0..MaxFaults
            /\ late' \subseteq (0..MaxTs) \X Sname
        BY <3>1, <3>3 DEF UpsertFails, Upsert, Overwrite, GoesAstray, Fault
      <4>2. pc' = "failed" /\ det' = 0 /\ UNCHANGED <<portal, sqlite, loop, cur, history>>
        BY <3>3 DEF UpsertFails
      <4>3. QED
        BY <3>1, <4>1, <4>2
    <3>4. QED
      BY <2>10, <3>2, <3>3
  <2>11. CASE ClearFailure \/ RecordChanged \/ EnsurePending
    BY <2>11 DEF ClearFailure, RecordChanged, EnsurePending, Pending, NoMarker,
                 NextIteration
  <2>12. CASE SetWatermark \/ SetLastSname
    BY <2>12 DEF SetWatermark, SetLastSname, NextIteration
  <2>13. CASE RecordFailure
    BY <2>13 DEF RecordFailure, Counted, NextIteration
  <2>14. CASE LaterPhases
    <3>1. marker' \in [Sname -> {NoMarker} \cup 0..MaxLook] /\ owed' \subseteq Sname
      BY <2>14 DEF LaterPhases, Marked, ToProcess, Pending, Counted, NoMarker
    <3>2. /\ EndRun
          /\ UNCHANGED <<portal, cloud, wm, last, errors, changed, faults, excused>>
      BY <2>14 DEF LaterPhases
    <3>3. QED
      BY <3>1, <3>2 DEF EndRun
  <2>15. ASSUME NEW r \in late, LateUpsert(r) PROVE TInv'
    <3>1. r[1] \in 0..MaxTs /\ r[2] \in Sname
      BY <2>15
    <3>2. QED
      BY <2>15, <3>1 DEF LateUpsert, Overwrite
  <2>16. CASE Prune \/ PruneFails
    BY <2>16 DEF Prune, PruneFails, EndRun
  <2>17. CASE Crash
    BY <2>17 DEF Crash, EndRun, Fault, GoesAstray
  <2>18. CASE UNCHANGED vars
    BY <2>18 DEF vars
  <2>19. QED
    BY <2>2, <2>3, <2>4, <2>5, <2>6, <2>7, <2>8, <2>9, <2>10, <2>11, <2>12, <2>13, <2>14,
       <2>15, <2>16, <2>17, <2>18 DEF Next, RowStep, PhaseStep
<1>3. QED
  BY <1>1, <1>2, PTL DEF Spec

\* LogInv is inductive.
THEOREM LogInvariant == Spec => []LogInv
<1> USE SnameAssumption, BoundAssumption, RowParts
<1>1. Init => LogInv
  BY DEF Init, LogInv
<1>2. ASSUME TInv, TInv', LogInv, [Next]_vars PROVE LogInv'
  <2> USE <1>2 DEF TInv, TypeOK, StoreTypes, LocalTypes, LogInv, RowPc, rowOf, cloud, portal
  <2>1. ASSUME NEW S \in SUBSET Sname, Commit(S) PROVE LogInv'
    <3>1. /\ \A s \in Sname : ts'[s] = IF s \in S THEN clock + 1 ELSE ts[s]
          /\ log' = log \cup {<<clock + 1, s>> : s \in S}
          /\ UNCHANGED <<cloud, pc, cur, det>>
      BY <2>1 DEF Commit, local, row
    <3>2. \A s \in Sname : ts'[s] >= ts[s] /\ ts[s] \in Nat /\ ts'[s] \in Nat
      BY <3>1 DEF PortalInv
    <3>3. \A s \in Sname : ts'[s] # 0 => <<ts'[s], s>> \in log'
      BY <3>1
    <3>4. ASSUME NEW r \in log' PROVE r[1] <= ts'[r[2]]
      <4>0. r \in Row /\ r[1] \in Nat /\ r[2] \in Sname
        BY <3>4
      <4>1. CASE r \in log
        <5>1. r[1] <= ts[r[2]]
          BY <4>1
        <5>2. ts[r[2]] \in Nat /\ ts'[r[2]] \in Nat /\ ts'[r[2]] >= ts[r[2]]
          BY <3>2, <4>0
        <5>3. QED
          BY <4>0, <5>1, <5>2
      <4>2. CASE r \notin log
        BY <3>1, <3>2, <4>2
      <4>3. QED
        BY <4>1, <4>2
    <3>5. QED
      BY <3>1, <3>2, <3>3, <3>4
  <2>2. CASE GetDetail
    <3>1. /\ pc = "get" /\ cur[2] \in present /\ det' = ts[cur[2]]
          /\ UNCHANGED <<portal, cloud, cur>>
      BY <2>2 DEF GetDetail
    <3>2. PICK s \in present : s = cur[2]
      BY <3>1
    <3>3. s \in Sname /\ ts[s] >= 1 /\ ts[s] \in Nat
      BY DEF PortalInv
    <3>4. <<ts[s], s>> \in log
      BY <3>3
    <3>5. \A r \in late : r[2] = s => r[1] <= ts[s]
      OBVIOUS
    <3>6. mver[s] <= ts[s]
      BY <3>3
    <3>7. QED
      BY <3>1, <3>2, <3>4, <3>5, <3>6
  <2>3. CASE UpsertOk \/ UpsertFails
    <3>1. pc = "upsert" /\ pc' # "upsert" /\ UNCHANGED portal
      BY <2>3 DEF UpsertOk, UpsertFails
    <3>2. \/ mver' = [mver EXCEPT ![cur[2]] = det] /\ late' = late
          \/ mver' = mver /\ late' = late \cup {<<det, cur[2]>>}
          \/ UNCHANGED cloud
      BY <2>3 DEF UpsertOk, UpsertFails, Upsert, Overwrite, GoesAstray
    <3>3. det <= ts[cur[2]]
      BY <3>1
    <3>4. QED
      BY <3>1, <3>2, <3>3
  <2>4. CASE Crash
    <3>1. UNCHANGED <<portal, mver>> /\ pc' # "upsert"
          /\ (late' = late \/ (pc = "upsert" /\ late' = late \cup {<<det, cur[2]>>}))
      BY <2>4 DEF Crash, GoesAstray, EndRun
    <3>2. QED
      BY <3>1
  <2>5. ASSUME NEW r \in late, LateUpsert(r) PROVE LogInv'
    <3>1. /\ late' \subseteq late /\ mver' = [mver EXCEPT ![r[2]] = r[1]]
          /\ UNCHANGED <<portal, pc, cur, det>>
      BY <2>5 DEF LateUpsert, Overwrite, local, row
    <3>2. r \in log /\ r[1] <= ts[r[2]]
      BY <2>5
    <3>3. QED
      BY <3>1, <3>2, <2>5
  <2>6. ASSUME UNCHANGED <<ts, log, cloud>>, pc' = "upsert" => UNCHANGED <<pc, cur, det>>
        PROVE  LogInv'
    BY <2>6
  <2>7. ASSUME NEW s \in Sname, Withdraw(s) \/ TakeRow(s) \/ OperatorResets(s) PROVE LogInv'
    BY <2>6, <2>7 DEF Withdraw, TakeRow, OperatorResets, local, row
  <2>8. CASE StartRun \/ StreamFails \/ EndStream
    BY <2>6, <2>8 DEF StartRun, StreamFails, EndStream, LeaveStream
  <2>9. CASE FetchPage \/ SkipPage
    BY <2>6, <2>9 DEF FetchPage, SkipPage, TakePage, row
  <2>10. CASE GetNoDict \/ GetFails \/ ClearFailure \/ RecordChanged \/ EnsurePending
    BY <2>6, <2>10 DEF GetNoDict, GetFails, ClearFailure, RecordChanged, EnsurePending,
                       NextIteration
  <2>11. CASE SetWatermark \/ SetLastSname \/ RecordFailure
    BY <2>6, <2>11 DEF SetWatermark, SetLastSname, RecordFailure, NextIteration
  <2>12. CASE PhaseStep
    BY <2>6, <2>12 DEF PhaseStep, Prune, PruneFails, LaterPhases, EndRun
  <2>13. CASE UNCHANGED vars
    BY <2>6, <2>13 DEF vars, local, row
  <2>14. QED
    BY <2>1, <2>2, <2>3, <2>4, <2>5, <2>7, <2>8, <2>9, <2>10, <2>11, <2>12, <2>13
       DEF Next, RowStep
<1>3. QED
  BY <1>1, <1>2, TypeInvariant, PTL DEF Spec

\* A part of what the portal lists has no more members than the whole.
LEMMA Fewer ==
  ASSUME TInv, NEW A, NEW B, A \subseteq B, B \subseteq Sname
  PROVE  /\ Cardinality(A) \in Nat /\ Cardinality(B) \in Nat
         /\ Cardinality(A) <= Cardinality(B)
<1>1. IsFiniteSet(B)
  BY SnameAssumption, FS_Subset
<1>2. QED
  BY <1>1, FS_Subset, FS_CardinalityType

\* The list loses nothing up to a row that comes no later.
LEMMA UpToGrows ==
  ASSUME TInv, NEW x \in Changed, NEW y \in Changed, AtOrBefore(rowOf(x), rowOf(y))
  PROVE  Place(x) <= Place(y)
<1>1. x \in Sname /\ y \in Sname /\ Sname \subseteq Nat
  BY SnameAssumption DEF TInv, TypeOK, StoreTypes, Changed
<1>2. \A s \in Changed : s \in Sname /\ ts[s] \in Nat
  BY <1>1 DEF TInv, TypeOK, StoreTypes, Changed
<1>3. ASSUME NEW s \in Changed, AtOrBefore(rowOf(s), rowOf(x))
      PROVE  AtOrBefore(rowOf(s), rowOf(y))
  <2>1. s \in Nat /\ ts[s] \in Nat /\ ts[x] \in Nat /\ ts[y] \in Nat
        /\ x \in Nat /\ y \in Nat
    BY <1>1, <1>2
  <2>2. ts[s] < ts[x] \/ (ts[s] = ts[x] /\ s <= x)
    BY <1>3 DEF AtOrBefore, rowOf
  <2>3. ts[x] < ts[y] \/ (ts[x] = ts[y] /\ x <= y)
    BY DEF AtOrBefore, rowOf
  <2>4. ts[s] < ts[y] \/ (ts[s] = ts[y] /\ s <= y)
    BY <2>1, <2>2, <2>3
  <2>5. QED
    BY <2>4 DEF AtOrBefore, rowOf
<1>4. UpTo(rowOf(x)) \subseteq UpTo(rowOf(y)) /\ UpTo(rowOf(y)) \subseteq Sname
  BY <1>2, <1>3 DEF UpTo
<1>5. QED
  BY <1>4, Fewer DEF Place

\* No step lets more rows of the list come up to the pages read than were on them.
LEMMA PagesKept ==
  ASSUME IInv, TInv', [Next]_vars
  PROVE  PageInv'
<1> USE SnameAssumption, BoundAssumption, RowParts
<1>1. UpTo(cur) \subseteq Sname /\ Below \subseteq Sname /\ Changed \subseteq Sname
  BY DEF IInv, TInv, TypeOK, StoreTypes, UpTo, Below, Changed
<1>2. ASSUME pc' \in StreamPc => pc \in StreamPc, Bar' \subseteq Bar, nread' = nread,
             seen' \subseteq seen, clock' \in Nat, clock' >= clock,
             \A r \in Bar : UpTo(r)' \subseteq UpTo(r), Below' \subseteq Below
      PROVE  PageInv'
  <2>1. \A r \in seen' : r[1] <= clock'
    <3>1. seen \subseteq Row /\ clock \in Nat
      BY DEF IInv, TInv, TypeOK, HistoryTypes, StoreTypes
    <3>2. QED
      BY <1>2, <3>1 DEF IInv, PageInv
  <2>2. ASSUME pc' \in StreamPc, NEW r \in Bar' PROVE Cardinality(UpTo(r)') <= nread'
    <3>1. r \in Bar /\ UpTo(r)' \subseteq UpTo(r) /\ UpTo(r) \subseteq Sname
      BY <1>1, <1>2, <2>2 DEF UpTo
    <3>2. Cardinality(UpTo(r)) <= nread /\ nread \in Nat
      BY <1>2, <2>2, <3>1 DEF IInv, PageInv, TInv, TypeOK, LocalTypes
    <3>3. QED
      BY <1>2, <3>1, <3>2, Fewer DEF IInv
  <2>3. ASSUME pc' \in StreamPc PROVE Cardinality(Below') <= nread'
    <3>1. Cardinality(Below) <= nread /\ nread \in Nat
      BY <1>2, <2>3 DEF IInv, PageInv, TInv, TypeOK, LocalTypes
    <3>2. QED
      BY <1>1, <1>2, <3>1, Fewer DEF IInv
  <2>4. QED
    BY <2>1, <2>2, <2>3 DEF PageInv, Below
<1>3. ASSUME pc' \notin StreamPc, seen' = {} PROVE PageInv'
  BY <1>3 DEF PageInv
<1> USE DEF portal, cloud, sqlite, paging, loop, row, local, history
<1>4. ASSUME pc' \in StreamPc => pc \in StreamPc, Bar' \subseteq Bar,
             UNCHANGED <<portal, wm, startWm, nread, seen>>
      PROVE  PageInv'
  <2>1. \A r : UpTo(r)' = UpTo(r)
    BY <1>4 DEF UpTo, Changed, rowOf
  <2>2. Below' = Below
    BY <1>4 DEF Below, Changed
  <2>3. clock' \in Nat /\ clock' >= clock
    BY <1>4 DEF IInv, TInv, TypeOK, StoreTypes
  <2>4. QED
    BY <1>2, <1>4, <2>1, <2>2, <2>3
<1>5. ASSUME NEW S \in SUBSET Sname, Commit(S) PROVE PageInv'
  <2>1. \A r \in Bar : r \in Row /\ r[1] <= clock
    BY DEF IInv, RunInv, BarInv, CurInv, TInv, TypeOK, LocalTypes, StoreTypes,
           PortalInv, Bar
  <2>2. \A s \in S : ts'[s] = clock + 1 /\ s \in Sname
    BY <1>5 DEF Commit, IInv, TInv, TypeOK, StoreTypes
  <2>3. \A s \in Sname \ S : ts'[s] = ts[s] /\ (s \in present' <=> s \in present)
    BY <1>5 DEF Commit, IInv, TInv, TypeOK, StoreTypes
  <2>4. clock \in Nat /\ wm <= clock /\ wm \in Nat /\ startWm' = startWm /\ wm' = wm
        /\ clock' = clock + 1 /\ present' \subseteq Sname
    BY <1>5 DEF Commit, IInv, RunInv, StartInv, TInv, TypeOK, StoreTypes
  <2>5. ASSUME NEW r \in Bar PROVE UpTo(r)' \subseteq UpTo(r)
    BY <2>1, <2>2, <2>3, <2>4 DEF UpTo, Changed, AtOrBefore, rowOf
  <2>6. Below' \subseteq Below
    BY <2>2, <2>3, <2>4 DEF Below, Changed
  <2>7. UNCHANGED <<pc, queue, cur, nread, seen>>
    BY <1>5 DEF Commit
  <2>8. Bar' = Bar
    BY <2>7 DEF Bar
  <2>9. QED
    BY <1>2, <2>4, <2>5, <2>6, <2>7, <2>8
<1>6. ASSUME NEW s \in Sname, Withdraw(s) PROVE PageInv'
  <2>1. UNCHANGED <<pc, queue, cur, nread, seen, clock, ts, wm, startWm>>
        /\ present' \subseteq present
    BY <1>6 DEF Withdraw
  <2>2. \A r \in Bar : UpTo(r)' \subseteq UpTo(r)
    BY <2>1 DEF UpTo, Changed, rowOf
  <2>3. Below' \subseteq Below /\ Bar' = Bar
    BY <2>1 DEF Below, Changed, Bar
  <2>4. clock' \in Nat /\ clock' >= clock
    BY <2>1 DEF IInv, TInv, TypeOK, StoreTypes
  <2>5. QED
    BY <1>2, <2>1, <2>2, <2>3, <2>4
<1>7. ASSUME NEW s \in Sname, TakeRow(s) PROVE PageInv'
  BY <1>4, <1>7 DEF TakeRow, Bar, RowPc, StreamPc
<1>8. CASE StartRun
  <2>1. startWm' = wm /\ wm' = wm /\ ts' = ts /\ nread' = 0 /\ seen' = {} /\ wm \in Nat
        /\ pc' = "row" /\ queue' = {} /\ present' \subseteq Sname /\ ts' \in [Sname -> Nat]
    BY <1>8 DEF StartRun, IInv, RunInv, CurInv, RowPc, TInv, TypeOK, StoreTypes
  <2>2. Below' = {} /\ Bar' = {}
    BY <2>1 DEF Below, Changed, Bar, RowPc
  <2>3. Cardinality(Below') <= nread'
    BY <2>1, <2>2, FS_EmptySet
  <2>4. QED
    BY <2>1, <2>2, <2>3 DEF PageInv, Below
<1>9. CASE FetchPage
  <2>1. UNCHANGED <<portal, wm, startWm>> /\ nread' = nread + PageSize /\ pc = "row"
        /\ pc' = "row" /\ queue' = NextPage /\ seen' = seen \cup NextPage /\ nread \in Nat
    BY <1>9 DEF FetchPage, TakePage, IInv, TInv, TypeOK, LocalTypes
  <2>2. Bar' = NextPage /\ Below' = Below /\ \A r : UpTo(r)' = UpTo(r)
    BY <2>1 DEF Bar, RowPc, Below, UpTo, Changed, rowOf
  <2>3. ASSUME NEW r \in NextPage
        PROVE  Cardinality(UpTo(r)) <= nread' /\ r[1] <= clock
    <3>1. PICK x \in Changed : r = rowOf(x) /\ Place(x) \in nread + 1..nread + PageSize
      BY <2>3 DEF NextPage
    <3>2. Place(x) <= nread'
      BY <2>1, <3>1
    <3>3. r[1] = ts[x] /\ ts[x] <= clock
      BY <1>1, <3>1 DEF rowOf, IInv, TInv, PortalInv
    <3>4. QED
      BY <3>1, <3>2, <3>3 DEF Place
  <2>4. Cardinality(Below) <= nread /\ Cardinality(Below) \in Nat
    BY <1>1, <2>1, Fewer DEF IInv, PageInv, StreamPc
  <2>5. \A r \in seen' : r[1] <= clock'
    BY <2>1, <2>3 DEF IInv, PageInv
  <2>6. \A r \in Bar' : Cardinality(UpTo(r)') <= nread'
    BY <2>2, <2>3
  <2>7. Cardinality(Below') <= nread'
    BY <2>1, <2>2, <2>4
  <2>8. QED
    BY <2>5, <2>6, <2>7 DEF PageInv, Below
<1>10. CASE SkipPage
  <2>1. UNCHANGED <<portal, wm, startWm>> /\ nread' = nread + PageSize /\ pc = "row"
        /\ pc' = "row" /\ queue' = {} /\ seen' = seen /\ nread \in Nat
    BY <1>10 DEF SkipPage, TakePage, IInv, TInv, TypeOK, LocalTypes
  <2>2. Bar' = {} /\ Below' = Below
    BY <2>1 DEF Bar, RowPc, Below, Changed
  <2>3. Cardinality(Below) <= nread /\ Cardinality(Below) \in Nat
    BY <1>1, <2>1, Fewer DEF IInv, PageInv, StreamPc
  <2>4. Cardinality(Below') <= nread'
    BY <2>1, <2>2, <2>3
  <2>5. QED
    BY <2>1, <2>2, <2>4 DEF IInv, PageInv, Below
<1>11. CASE SetWatermark
  <2>1. UNCHANGED <<portal, startWm, nread, seen, queue, cur>> /\ wm' = cur[1]
        /\ pc = "setwm" /\ pc' = "setlast" /\ cur \in Row /\ nread \in Nat
    BY <1>11 DEF SetWatermark, IInv, TInv, RowPc, TypeOK, LocalTypes
  <2>2. Bar' = Bar /\ cur \in Bar /\ \A r : UpTo(r)' = UpTo(r)
    BY <2>1 DEF Bar, RowPc, UpTo, Changed, rowOf
  <2>3. Below' \subseteq UpTo(cur)
    BY <2>1 DEF Below, UpTo, Changed, AtOrBefore, rowOf
  <2>4. Cardinality(UpTo(cur)) <= nread
    BY <2>1, <2>2 DEF IInv, PageInv, StreamPc, RowPc
  <2>5. Cardinality(Below') <= nread'
    BY <1>1, <2>1, <2>3, <2>4, Fewer DEF IInv
  <2>6. \A r \in Bar' : Cardinality(UpTo(r)') <= nread'
    BY <2>1, <2>2 DEF IInv, PageInv, StreamPc, RowPc
  <2>7. QED
    BY <2>1, <2>5, <2>6 DEF IInv, PageInv, Below
<1>12. CASE GetDetail \/ GetFails \/ UpsertOk \/ UpsertFails
  BY <1>4, <1>12 DEF GetDetail, GetFails, UpsertOk, UpsertFails, Bar, RowPc, StreamPc
<1>13. CASE ClearFailure \/ RecordChanged \/ EnsurePending
  BY <1>4, <1>13 DEF ClearFailure, RecordChanged, EnsurePending, NextIteration, Bar,
                     RowPc, StreamPc
<1>14. CASE GetNoDict \/ SetLastSname \/ RecordFailure
  BY <1>4, <1>14 DEF GetNoDict, SetLastSname, RecordFailure, NextIteration, Bar, RowPc,
                     StreamPc
<1>15. CASE Prune
  BY <1>4, <1>15 DEF Prune, Bar, RowPc, StreamPc
<1>16. CASE StreamFails \/ EndStream
  BY <1>3, <1>16 DEF StreamFails, EndStream, LeaveStream, RowPc, StreamPc
<1>17. CASE PruneFails \/ LaterPhases \/ Crash
  BY <1>3, <1>17 DEF PruneFails, LaterPhases, Crash, EndRun, RowPc, StreamPc
<1>18. CASE \/ UNCHANGED vars
            \/ \E s \in Sname : OperatorResets(s)
            \/ \E r \in late : LateUpsert(r)
  BY <1>4, <1>18 DEF vars, OperatorResets, LateUpsert, Bar, RowPc, StreamPc
<1>19. QED
  BY <1>5, <1>6, <1>7, <1>8, <1>9, <1>10, <1>11, <1>12, <1>13, <1>14, <1>15, <1>16,
     <1>17, <1>18 DEF Next, RowStep, PhaseStep

\* What a page brings is after the watermark, and after nothing that is not yet
\* dealt with but was on no page, unless it is on this one.
LEMMA PageIsNext ==
  ASSUME IInv, pc = "row", queue = {}
  PROVE  /\ \A r \in NextPage : r \in Row /\ r[1] >= wm /\ r[1] <= ts[r[2]]
         /\ \A s \in Changed : \/ Place(s) <= nread
                               \/ rowOf(s) \in NextPage
                               \/ \A r \in NextPage : ~AtOrBefore(rowOf(s), r)
<1> USE SnameAssumption, BoundAssumption
<1>1. nread \in Nat /\ wm \in Nat /\ Below \subseteq Sname
  <2>1. nread \in Nat
    BY DEF IInv, TInv, TypeOK, LocalTypes
  <2>2. wm \in Nat /\ present \subseteq Sname
    BY DEF IInv, TInv, TypeOK, StoreTypes
  <2>3. QED
    BY <2>1, <2>2 DEF Below, Changed
<1>2. \A s \in Changed : s \in Sname /\ ts[s] \in 1..MaxTs /\ rowOf(s) \in Row
  BY RowParts DEF IInv, TInv, TypeOK, StoreTypes, PortalInv, Changed, rowOf
<1>3. \A s \in Changed : Place(s) \in Nat
  BY <1>2, Fewer DEF Place, UpTo, IInv
<1>4. ASSUME NEW r \in NextPage PROVE r \in Row /\ r[1] >= wm /\ r[1] <= ts[r[2]]
  <2>1. PICK x \in Changed : r = rowOf(x) /\ Place(x) > nread
    BY <1>1, <1>3 DEF NextPage
  <2>2. r \in Row /\ r[1] = ts[x] /\ r[2] = x /\ ts[x] \in Nat
    BY <1>2, <2>1 DEF rowOf
  <2>3. ASSUME ts[x] < wm PROVE UpTo(r) \subseteq Below
    <3>1. ASSUME NEW s \in UpTo(r) PROVE s \in Changed /\ ts[s] < wm
      <4>1. s \in Changed /\ AtOrBefore(rowOf(s), r) /\ ts[s] \in Nat
        BY <1>2, <3>1 DEF UpTo
      <4>2. ts[s] <= ts[x]
        BY <2>2, <4>1 DEF AtOrBefore, rowOf
      <4>3. QED
        BY <1>1, <2>2, <2>3, <4>1, <4>2
    <3>2. QED
      BY <3>1 DEF Below
  <2>4. Cardinality(Below) <= nread
    BY DEF IInv, PageInv, StreamPc
  <2>5. ASSUME ts[x] < wm PROVE FALSE
    <3>1. Place(x) <= Cardinality(Below) /\ Cardinality(Below) \in Nat
      BY <1>1, <2>1, <2>3, <2>5, Fewer DEF Place, IInv
    <3>2. QED
      BY <1>1, <1>3, <2>1, <2>4, <3>1
  <2>6. QED
    BY <1>1, <2>2, <2>5
<1>5. ASSUME NEW s \in Changed, Place(s) > nread, rowOf(s) \notin NextPage,
             NEW r \in NextPage, AtOrBefore(rowOf(s), r)
      PROVE  FALSE
  <2>1. PICK x \in Changed : r = rowOf(x) /\ Place(x) <= nread + PageSize
    BY <1>1, <1>3 DEF NextPage
  <2>2. Place(s) <= Place(x)
    BY <1>5, <2>1, UpToGrows DEF IInv
  <2>3. QED
    BY <1>1, <1>3, <1>5, <2>1, <2>2 DEF NextPage
<1>6. QED
  BY <1>1, <1>3, <1>4, <1>5

\* IInv is inductive.  A row counts as dealt with only when StreamInv says so;
\* the tie rule is sound because StartInv and NoLostUpdate speak of the same
\* position, TearInv bounds what a half-written position hides, and PageInv keeps a
\* row that moves between pages from coming up before the watermark.
THEOREM UpdateInvariant == Spec => []IInv
<1> USE SnameAssumption, BoundAssumption, RowParts
<1>1. Init => IInv
  <2> SUFFICES ASSUME Init PROVE IInv
    OBVIOUS
  <2>1. TInv
    BY InitTypes
  <2>2. RunInv
    BY DEF Init, RunInv, CurInv, BarInv, StartInv, StreamInv, TearInv, NoLostUpdate, Bar,
           RowPc, StreamPc, Behind
  <2>3. PageInv
    BY DEF Init, PageInv, StreamPc, RowPc
  <2>4. QED
    BY <2>1, <2>2, <2>3 DEF IInv
<1>2. ASSUME IInv, LogInv, TInv', [Next]_vars PROVE RunInv'
  <2> USE <1>2 DEF IInv, RunInv, TInv, TypeOK, StoreTypes, LocalTypes, HistoryTypes,
                   PortalInv, CurInv, BarInv, StartInv, StreamInv, TearInv, NoLostUpdate,
                   RowPc, StreamPc, Todo, Bar, Done, Mirrored,
                   AtOrBefore, TieSkip, Passed, Behind, rowOf, Drop,
                   portal, cloud, sqlite, paging, loop, row, local, history
  <2>1. ASSUME NEW S \in SUBSET Sname, Commit(S) PROVE RunInv'
    <3>1. \A s \in S : s \in Sname /\ ts'[s] = clock + 1
      BY <2>1 DEF Commit
    <3>2. \A s \in Sname \ S : /\ ts'[s] = ts[s] /\ (s \in present' <=> s \in present)
                             /\ excused \ S \subseteq excused'
      BY <2>1 DEF Commit
    <3>3. UNCHANGED <<cloud, sqlite, pc, local>> /\ clock' = clock + 1
      BY <2>1 DEF Commit
    <3>4. \A r \in Bar : r \in Row /\ r[1] <= clock
      OBVIOUS
    <3>5. CurInv' /\ BarInv'
      BY <3>1, <3>2, <3>3
    <3>6. \A s \in Sname \ S : Done(s) => Done(s)'
      BY <3>2, <3>3
    <3>7. ASSUME NEW s \in S
          PROVE  ~Passed(<<clock + 1, s>>, startWm, startLast)
                 /\ ~Passed(<<clock + 1, s>>, wm, last)
      BY <3>7
    <3>8. StartInv' /\ TearInv' /\ NoLostUpdate'
      BY <3>1, <3>2, <3>3, <3>4, <3>6, <3>7
    <3>9. StreamInv'
      <4>1. ASSUME NEW s \in S
            PROVE  rowOf(s)' \notin seen' /\ \A r \in Bar' : ~AtOrBefore(rowOf(s)', r)
        BY <3>1, <3>3, <3>4, <4>1 DEF PageInv
      <4>2. \A s \in Sname \ S : rowOf(s)' = rowOf(s)
        BY <3>2
      <4>3. Todo' = Todo /\ Bar' = Bar /\ seen' = seen /\ frozen' = frozen /\ pc' = pc
        BY <3>3
      <4>4. ASSUME pc' \in StreamPc, ~frozen', NEW s \in present'
            PROVE  \/ rowOf(s)' \in Todo'
                   \/ Done(s)'
                   \/ rowOf(s)' \notin seen' /\ \A r \in Bar' : ~AtOrBefore(rowOf(s)', r)
        <5>1. CASE s \in S
          BY <4>1, <5>1
        <5>2. CASE s \notin S
          <6>1. s \in Sname \ S /\ s \in present /\ rowOf(s)' = rowOf(s)
            BY <3>2, <4>2, <4>4, <5>2
          <6> HIDE DEF Todo, Bar, Done, AtOrBefore, rowOf
          <6>2. \/ rowOf(s) \in Todo
                \/ Done(s)
                \/ rowOf(s) \notin seen /\ \A r \in Bar : ~AtOrBefore(rowOf(s), r)
            BY <4>3, <4>4, <6>1
          <6>3. QED
            BY <3>6, <4>3, <6>1, <6>2
        <5>3. QED
          BY <5>1, <5>2
      <4>5. QED
        BY <4>4
    <3>10. QED
      BY <3>5, <3>8, <3>9
  <2>2. ASSUME NEW s \in Sname, Withdraw(s) PROVE RunInv'
    BY <2>2 DEF Withdraw
  <2>3. ASSUME NEW s \in Sname, TakeRow(s) PROVE RunInv'
    BY <2>3 DEF TakeRow, NextInOrder
  <2>4. ASSUME NEW s \in Sname, OperatorResets(s) PROVE RunInv'
    BY <2>4 DEF OperatorResets
  <2>5. CASE StartRun
    BY <2>5 DEF StartRun
  <2>6. CASE FetchPage
    <3>1. pc = "row" /\ pc' = "row" /\ queue = {} /\ queue' = NextPage
          /\ seen' = seen \cup NextPage /\ excused \subseteq excused'
          /\ (~frozen => \A s \in Changed : Place(s) <= nread /\ rowOf(s) \notin seen
                                             => s \in excused')
          /\ UNCHANGED <<portal, cloud, sqlite, startWm, startLast, frozen, row, faults,
                         owed>>
      BY <2>6 DEF FetchPage, TakePage
    <3>2. /\ \A r \in NextPage : r \in Row /\ r[1] >= wm /\ r[1] <= ts[r[2]]
          /\ \A s \in Changed : \/ Place(s) <= nread
                                \/ rowOf(s) \in NextPage
                                \/ \A r \in NextPage : ~AtOrBefore(rowOf(s), r)
      BY <3>1, PageIsNext
    <3>3. \A s : Done(s) => Done(s)'
      BY <3>1
    <3>4. CurInv' /\ BarInv' /\ StartInv' /\ TearInv' /\ NoLostUpdate'
      BY <3>1, <3>2, <3>3
    <3>5. ASSUME NEW s \in present, ~frozen, ~Done(s)'
          PROVE  \/ rowOf(s) \in NextPage
                 \/ /\ rowOf(s) \notin seen \cup NextPage
                    /\ \A r \in NextPage : ~AtOrBefore(rowOf(s), r)
      <4>1. ~Done(s) /\ rowOf(s) \notin seen
        BY <3>1, <3>3, <3>5
      <4>2. s \in Changed
        BY <3>1, <4>1 DEF Changed
      <4>3. QED
        BY <3>1, <3>2, <3>5, <4>1, <4>2
    <3>6. StreamInv'
      BY <3>1, <3>5
    <3>7. QED
      BY <3>4, <3>6
  <2>7. CASE StreamFails \/ EndStream
    BY <2>7 DEF StreamFails, EndStream, LeaveStream
  <2>8. CASE GetDetail
    BY <2>8 DEF GetDetail
  <2>9. CASE GetNoDict
    BY <2>9 DEF GetNoDict, NextIteration
  <2>10. CASE GetFails
    BY <2>10 DEF GetFails
  <2>11. CASE UpsertOk
    <3>1. /\ pc = "upsert" /\ pc' = "clear" /\ mver' = [mver EXCEPT ![cur[2]] = det]
          /\ UNCHANGED <<portal, sqlite, loop, cur, excused>>
      BY <2>11 DEF UpsertOk, Upsert, Overwrite
    <3>2. mver[cur[2]] <= det /\ cur[1] <= det
      BY <3>1 DEF LogInv
    <3>3. QED
      BY <3>1, <3>2
  <2>12. CASE UpsertFails
    <3>1. \/ Upsert /\ late' = late
          \/ late' = late \cup {<<det, cur[2]>>} /\ mver' = mver
          \/ UNCHANGED cloud
      BY <2>12 DEF UpsertFails, GoesAstray
    <3>2. /\ pc = "upsert" /\ pc' = "failed"
          /\ UNCHANGED <<portal, sqlite, loop, cur, history>>
      BY <2>12 DEF UpsertFails
    <3>3. mver[cur[2]] <= det
      BY <3>2 DEF LogInv
    <3>4. QED
      BY <3>1, <3>2, <3>3 DEF Upsert, Overwrite
  <2>13. CASE ClearFailure \/ RecordChanged
    BY <2>13 DEF ClearFailure, RecordChanged
  <2>14. CASE EnsurePending
    BY <2>14 DEF EnsurePending, NextIteration
  <2>15. CASE SetWatermark
    <3>1. UNCHANGED <<portal, cloud, last, errors, marker, changed, local, faults,
                      history>> /\ wm' = cur[1] /\ pc = "setwm" /\ pc' = "setlast"
      BY <2>15 DEF SetWatermark
    <3>2. CurInv' /\ BarInv'
      BY <3>1
    <3>3. StartInv' /\ StreamInv' /\ NoLostUpdate'
      BY <3>1
    <3>4. ASSUME NEW s \in present, AtOrBefore(rowOf(s), cur) PROVE Done(s)
      <4>1. rowOf(s) \notin queue
        BY <3>1, <3>4
      <4>2. cur \in Bar /\ Todo = queue
        BY <3>1
      <4>3. QED
        BY <3>1, <3>4, <4>1, <4>2
    <3>5. TearInv'
      BY <3>1, <3>4
    <3>6. QED
      BY <3>2, <3>3, <3>5
  <2>16. CASE SetLastSname
    <3>1. \A q \in queue : ~AtOrBefore(q, cur)
      BY <2>16 DEF SetLastSname
    <3>2. ASSUME NEW s \in present, AtOrBefore(rowOf(s), cur) PROVE Done(s)
      BY <2>16, <3>2 DEF SetLastSname
    <3>3. wm' = cur[1] /\ last' = cur[2] /\ pc' = "row" /\ cur \in Row
      BY <2>16 DEF SetLastSname, NextIteration
    <3>4. NoLostUpdate'
      BY <2>16, <3>2, <3>3 DEF SetLastSname, NextIteration
    <3>5. CurInv' /\ BarInv' /\ StartInv' /\ StreamInv' /\ TearInv'
      BY <2>16 DEF SetLastSname, NextIteration
    <3>6. QED
      BY <3>4, <3>5
  <2>17. CASE RecordFailure
    BY <2>17 DEF RecordFailure, Counted, NextIteration
  <2>18. CASE LaterPhases
    BY <2>18 DEF LaterPhases, EndRun
  <2>19. ASSUME NEW r \in late, LateUpsert(r) PROVE RunInv'
    <3>1. /\ late' = late \ {r} /\ mver' = [mver EXCEPT ![r[2]] = r[1]]
          /\ excused' = IF mver[r[2]] >= ts[r[2]] /\ r[1] < ts[r[2]]
                          THEN excused \cup {r[2]} ELSE excused
          /\ UNCHANGED <<portal, sqlite, pc, local, faults, owed>>
      BY <2>19 DEF LateUpsert, Overwrite
    <3>2. r[1] \in Nat /\ r[2] \in Sname
      BY <2>19
    <3>3. \A s \in Sname : Done(s) => Done(s)'
      BY <3>1, <3>2
    <3>4. /\ \A s : rowOf(s)' = rowOf(s)
          /\ Todo' = Todo /\ Bar' = Bar
      BY <3>1
    <3>5. CurInv' /\ BarInv'
      BY <3>1, <3>2
    <3>6. StreamInv'
      <4> HIDE DEF Todo, Bar, Done, AtOrBefore, rowOf
      <4>1. UNCHANGED <<pc, frozen, present, seen>> /\ present \subseteq Sname
        BY <3>1
      <4>2. QED
        BY <3>3, <3>4, <4>1
    <3>7. StartInv' /\ TearInv' /\ NoLostUpdate'
      BY <3>1, <3>3
    <3>8. QED
      BY <3>5, <3>6, <3>7
  <2>20. CASE Prune \/ PruneFails
    BY <2>20 DEF Prune, PruneFails, EndRun
  <2>21. CASE Crash
    BY <2>21 DEF Crash, EndRun, GoesAstray
  <2>22. CASE SkipPage
    BY <2>22 DEF SkipPage, TakePage
  <2>23. CASE UNCHANGED vars
    BY <2>23 DEF vars
  <2>24. QED
    BY <2>1, <2>2, <2>3, <2>4, <2>5, <2>6, <2>7, <2>8, <2>9, <2>10, <2>11, <2>12, <2>13,
       <2>14, <2>15, <2>16, <2>17, <2>18, <2>19, <2>20, <2>21, <2>22, <2>23
       DEF Next, RowStep, PhaseStep
<1>3. ASSUME IInv, LogInv, TInv', [Next]_vars PROVE IInv'
  BY <1>2, <1>3, PagesKept DEF IInv
<1>4. QED
  BY <1>1, <1>3, TypeInvariant, LogInvariant, PTL DEF Spec

-------------------------------------------------------------------------------
\* The position stays among the pages read.
LEMMA PlaceKept ==
  ASSUME IInv, IInv', PlaceInv, [Next]_vars
  PROVE  PlaceInv'
<1> USE SnameAssumption, BoundAssumption, RowParts
<1> USE DEF portal, cloud, sqlite, paging, loop, row, local, history
<1>1. /\ nread \in Nat /\ wm \in Nat /\ clock \in Nat /\ wm <= clock
      /\ present \subseteq Sname /\ ts \in [Sname -> Nat]
  BY DEF IInv, RunInv, StartInv, TInv, TypeOK, StoreTypes, LocalTypes
<1>2. ASSUME pc' \in StreamPc \ {"setlast"} => pc \in StreamPc \ {"setlast"},
             nread' \in Nat, nread' >= nread, UNCHANGED <<wm, last, startWm, startLast>>,
             UpTo(<<wm, last>>)' \subseteq UpTo(<<wm, last>>)
      PROVE  PlaceInv'
  <2>1. UpTo(<<wm, last>>) \subseteq Sname
    BY <1>1 DEF UpTo, Changed
  <2>2. /\ Cardinality(UpTo(<<wm, last>>)') <= Cardinality(UpTo(<<wm, last>>))
        /\ Cardinality(UpTo(<<wm, last>>)') \in Nat
        /\ Cardinality(UpTo(<<wm, last>>)) \in Nat
    BY <1>2, <2>1, Fewer DEF IInv
  <2>3. QED
    BY <1>1, <1>2, <2>2 DEF PlaceInv
<1>3. ASSUME pc' \in StreamPc \ {"setlast"} => pc \in StreamPc \ {"setlast"},
             UNCHANGED <<portal, wm, last, startWm, startLast, nread>>
      PROVE  PlaceInv'
  <2>1. UpTo(<<wm, last>>)' = UpTo(<<wm, last>>)
    BY <1>3 DEF UpTo, Changed, rowOf
  <2>2. QED
    BY <1>1, <1>2, <1>3, <2>1
<1>4. ASSUME NEW S \in SUBSET Sname, Commit(S) PROVE PlaceInv'
  <2>1. \A s \in S : ts'[s] = clock + 1 /\ s \in Sname
    BY <1>1, <1>4 DEF Commit
  <2>2. \A s \in Sname \ S : ts'[s] = ts[s] /\ (s \in present' <=> s \in present)
    BY <1>1, <1>4 DEF Commit
  <2>3. UNCHANGED <<pc, wm, last, startWm, startLast, nread>> /\ present' \subseteq Sname
    BY <1>1, <1>4 DEF Commit
  <2>4. UpTo(<<wm, last>>)' \subseteq UpTo(<<wm, last>>)
    BY <1>1, <2>1, <2>2, <2>3 DEF UpTo, Changed, AtOrBefore, rowOf
  <2>5. QED
    BY <1>1, <1>2, <2>3, <2>4
<1>5. ASSUME NEW s \in Sname, Withdraw(s) PROVE PlaceInv'
  <2>1. UNCHANGED <<pc, ts, wm, last, startWm, startLast, nread>>
        /\ present' \subseteq present
    BY <1>5 DEF Withdraw
  <2>2. UpTo(<<wm, last>>)' \subseteq UpTo(<<wm, last>>)
    BY <2>1 DEF UpTo, Changed, rowOf
  <2>3. QED
    BY <1>1, <1>2, <2>1, <2>2
<1>6. CASE FetchPage \/ SkipPage
  <2>1. UNCHANGED <<portal, wm, last, startWm, startLast>> /\ pc = "row"
        /\ nread' = nread + PageSize
    BY <1>6 DEF FetchPage, SkipPage, TakePage
  <2>2. UpTo(<<wm, last>>)' = UpTo(<<wm, last>>)
    BY <2>1 DEF UpTo, Changed, rowOf
  <2>3. QED
    BY <1>1, <1>2, <2>1, <2>2 DEF StreamPc
<1>7. CASE StartRun
  BY <1>7 DEF StartRun, PlaceInv
<1>8. CASE SetWatermark
  BY <1>8 DEF SetWatermark, PlaceInv
<1>9. CASE SetLastSname
  <2>1. pc = "setlast" /\ wm' = wm /\ last' = cur[2] /\ UNCHANGED <<portal, startWm, nread>>
    BY <1>9 DEF SetLastSname
  <2>2. wm = cur[1] /\ cur \in Row /\ cur \in Bar
    BY <2>1 DEF IInv, RunInv, TearInv, TInv, RowPc, Bar
  <2>3. <<wm, last>>' = cur
    BY <2>1, <2>2
  <2>4. UpTo(<<wm, last>>)' = UpTo(cur)
    BY <2>1, <2>3 DEF UpTo, Changed, rowOf
  <2>5. Cardinality(UpTo(cur)) <= nread
    BY <2>1, <2>2 DEF IInv, PageInv, StreamPc, RowPc
  <2>6. QED
    BY <2>1, <2>4, <2>5 DEF PlaceInv
<1>10. ASSUME NEW s \in Sname, TakeRow(s) PROVE PlaceInv'
  BY <1>3, <1>10 DEF TakeRow, StreamPc, RowPc
<1>11. CASE GetDetail \/ GetFails \/ UpsertOk \/ UpsertFails
  BY <1>3, <1>11 DEF GetDetail, GetFails, UpsertOk, UpsertFails, RowPc, StreamPc
<1>12. CASE ClearFailure \/ RecordChanged \/ EnsurePending
  BY <1>3, <1>12 DEF ClearFailure, RecordChanged, EnsurePending, NextIteration, RowPc,
                     StreamPc
<1>13. CASE GetNoDict \/ RecordFailure
  BY <1>3, <1>13 DEF GetNoDict, RecordFailure, NextIteration, RowPc, StreamPc
<1>14. CASE Prune
  BY <1>14 DEF Prune, RowPc, StreamPc, PlaceInv
<1>15. CASE StreamFails \/ EndStream \/ PruneFails \/ LaterPhases \/ Crash
  BY <1>15 DEF StreamFails, EndStream, LeaveStream, PruneFails, LaterPhases, Crash, EndRun,
               RowPc, StreamPc, PlaceInv
<1>16. CASE \/ UNCHANGED vars
            \/ \E s \in Sname : OperatorResets(s)
            \/ \E r \in late : LateUpsert(r)
  BY <1>3, <1>16 DEF vars, OperatorResets, LateUpsert
<1>17. QED
  BY <1>4, <1>5, <1>6, <1>7, <1>8, <1>9, <1>10, <1>11, <1>12, <1>13, <1>14, <1>15, <1>16
     DEF Next, RowStep, PhaseStep

\* Nothing on a page just read lies behind a position that moved in this run.
LEMMA PageIsAhead ==
  ASSUME IInv, PlaceInv, pc = "row", queue = {}, NEW r \in NextPage, Passed(r, wm, last)
  PROVE  Passed(r, startWm, startLast)
<1> USE SnameAssumption, BoundAssumption, RowParts
<1>1. r \in Row /\ r[1] >= wm /\ wm \in Nat /\ nread \in Nat
  BY PageIsNext DEF IInv, TInv, TypeOK, StoreTypes, LocalTypes
<1>2. AtOrBefore(r, <<wm, last>>) /\ last \in Nat
  BY <1>1 DEF Passed, TieSkip, IInv, TInv, TypeOK, StoreTypes
<1>3. PICK x \in Changed : r = rowOf(x) /\ Place(x) \in nread + 1..nread + PageSize
  BY DEF NextPage
<1>4. Changed \subseteq Sname /\ \A s \in Changed : s \in Nat /\ ts[s] \in Nat
  BY DEF Changed, IInv, TInv, TypeOK, StoreTypes
<1>5. UpTo(r) \subseteq UpTo(<<wm, last>>) /\ UpTo(<<wm, last>>) \subseteq Sname
  BY <1>1, <1>2, <1>4 DEF UpTo, AtOrBefore, rowOf
<1>6. /\ Place(x) <= Cardinality(UpTo(<<wm, last>>)) /\ Place(x) \in Nat
      /\ Cardinality(UpTo(<<wm, last>>)) \in Nat
  BY <1>3, <1>5, Fewer DEF Place, IInv
<1>7. ~(Cardinality(UpTo(<<wm, last>>)) <= nread)
  BY <1>1, <1>3, <1>6
<1>8. QED
  BY <1>7 DEF PlaceInv, StreamPc

\* OInv is inductive as long as IInv holds.
THEOREM OwedInvariant == Spec => []OInv
<1> USE SnameAssumption, BoundAssumption, RowParts
<1>1. Init => OInv
  BY DEF Init, OInv, OrderInv, PlaceInv, FreshInv, MarkInv, OwedToChildren, Bar, RowPc,
         StreamPc, Behind
<1>2. ASSUME IInv, IInv', OInv, [Next]_vars
      PROVE  OrderInv' /\ FreshInv' /\ MarkInv' /\ OwedToChildren'
  <2> DEFINE Goal == OrderInv /\ FreshInv /\ MarkInv /\ OwedToChildren
  <2> SUFFICES Goal'
    OBVIOUS
  <2> USE <1>2 DEF Goal, IInv, RunInv, TInv, TypeOK, StoreTypes, LocalTypes, HistoryTypes,
                   PortalInv, CurInv, BarInv, StartInv, TearInv, OInv, OrderInv,
                   FreshInv, MarkInv, OwedToChildren,
                   RowPc, StreamPc, Left, Bar, Cared, LookedAt, Retryable,
                   AtOrBefore, TieSkip, Passed, Behind, rowOf, Drop,
                   portal, cloud, sqlite, paging, loop, row, local, history
  <2>1. ASSUME NEW S \in SUBSET Sname, Commit(S) PROVE Goal'
    <3>1. \A s \in S : s \in Sname /\ ts'[s] = clock + 1
      BY <2>1 DEF Commit
    <3>2. \A s \in Sname \ S : /\ ts'[s] = ts[s] /\ (s \in present' <=> s \in present)
                             /\ excused \ S \subseteq excused'
      BY <2>1 DEF Commit
    <3>3. UNCHANGED <<cloud, sqlite, pc, local, owed>> /\ clock' = clock + 1
      BY <2>1 DEF Commit
    <3>4. \A r \in Bar : r \in Row /\ r[1] <= clock
      OBVIOUS
    <3>5. \A s \in Sname \ S : Cared(s) => Cared(s)'
      BY <3>2, <3>3
    <3>6. ASSUME NEW s \in S
          PROVE  /\ ~Passed(<<clock + 1, s>>, startWm, startLast)
                 /\ ~Passed(<<clock + 1, s>>, wm, last)
      BY <3>6
    <3>7. ASSUME NEW s \in S
          PROVE  /\ rowOf(s)' \notin seen' /\ \A r \in Bar' : ~AtOrBefore(rowOf(s)', r)
      BY <3>1, <3>3, <3>4, <3>7 DEF PageInv
    <3>8. \A s \in Sname \ S : rowOf(s)' = rowOf(s)
      BY <3>2
    <3>9. Bar' = Bar /\ Left' = Left /\ seen' = seen
      BY <3>3
    <3>10. OrderInv'
      BY <3>3
    <3>11. FreshInv'
      <4> HIDE DEF Bar, AtOrBefore, rowOf
      <4>1. \A r \in Bar : r[2] \in Sname
        BY <3>4
      <4>2. QED
        BY <3>7, <3>8, <3>9, <4>1
    <3>12. OwedToChildren'
      BY <3>1, <3>2, <3>3, <3>5, <3>6
    <3>13. MarkInv'
      <4>1. ASSUME pc' \in StreamPc, NEW s \in present', Passed(rowOf(s), startWm, startLast)'
            PROVE  Cared(s)'
        BY <3>1, <3>2, <3>3, <3>5, <3>6, <4>1
      <4>2. ASSUME pc' = "setlast", NEW s \in present', AtOrBefore(rowOf(s), cur)'
            PROVE  Cared(s)'
        BY <3>1, <3>2, <3>3, <3>4, <3>5, <4>2
      <4>3. ASSUME pc' \in StreamPc, ~frozen', NEW s \in present'
            PROVE  \/ rowOf(s)' \in Left'
                   \/ Cared(s)'
                   \/ rowOf(s)' \notin seen' /\ \A r \in Bar' : ~AtOrBefore(rowOf(s)', r)
        <5>1. CASE s \in S
          BY <3>7, <5>1
        <5>2. CASE s \notin S
          <6>1. s \in Sname \ S /\ s \in present /\ rowOf(s)' = rowOf(s)
                /\ pc' = pc /\ frozen' = frozen
            BY <3>2, <3>3, <3>8, <4>3, <5>2
          <6> HIDE DEF Left, Bar, Cared, AtOrBefore, rowOf
          <6>2. \/ rowOf(s) \in Left
                \/ Cared(s)
                \/ rowOf(s) \notin seen /\ \A r \in Bar : ~AtOrBefore(rowOf(s), r)
            BY <4>3, <6>1
          <6>3. QED
            BY <3>5, <3>9, <6>1, <6>2
        <5>3. QED
          BY <5>1, <5>2
      <4>4. /\ pc' = "ensure" => cur'[2] \in changed'
            /\ pc' = "setwm" => LookedAt(cur[2])'
        BY <3>3 DEF LookedAt, Retryable
      <4>5. QED
        BY <4>1, <4>2, <4>3, <4>4
    <3>14. QED
      BY <3>10, <3>11, <3>12, <3>13
  <2>2. ASSUME NEW s \in Sname, Withdraw(s) PROVE Goal'
    BY <2>2 DEF Withdraw
  <2>3. ASSUME NEW s \in Sname, TakeRow(s) PROVE Goal'
    BY <2>3 DEF TakeRow, NextInOrder
  <2>4. ASSUME NEW s \in Sname, OperatorResets(s) PROVE Goal'
    BY <2>4 DEF OperatorResets
  <2>5. CASE StartRun
    <3>1. /\ pc = "idle" /\ pc' = "row" /\ owed' = owed \ Forgotten
          /\ startWm' = wm /\ startLast' = last /\ seen' = {}
          /\ UNCHANGED <<portal, cloud, wm, last, errors, marker, queue, row, excused>>
      BY <2>5 DEF StartRun
    <3>2. ASSUME NEW s \in Sname, Cared(s) PROVE Cared(s)'
      <4>1. marker[s] \in {NoMarker} \cup 0..MaxLook
        OBVIOUS
      <4>2. s \in Forgotten <=> s \in changed /\ marker[s] = MaxLook
        BY DEF Forgotten
      <4>3. QED
        BY <3>1, <3>2, <4>1, <4>2
    <3>3. queue' = {}
      BY <3>1
    <3>4. QED
      BY <3>1, <3>2, <3>3
  <2>6. CASE FetchPage
    <3>1. pc = "row" /\ pc' = "row" /\ queue = {} /\ queue' = NextPage
          /\ seen' = seen \cup NextPage /\ excused \subseteq excused'
          /\ (~frozen => \A s \in Changed : Place(s) <= nread /\ rowOf(s) \notin seen
                                             => s \in excused')
          /\ UNCHANGED <<portal, cloud, sqlite, startWm, startLast, frozen, row, faults,
                         owed>>
      BY <2>6 DEF FetchPage, TakePage
    <3>2. /\ \A r \in NextPage : r \in Row /\ rowOf(r[2]) = r
          /\ \A s \in Changed : \/ Place(s) <= nread
                                \/ rowOf(s) \in NextPage
                                \/ \A r \in NextPage : ~AtOrBefore(rowOf(s), r)
      BY <3>1, PageIsNext DEF NextPage
    <3>3. \A s : Cared(s) => Cared(s)'
      BY <3>1
    <3>4. \A r \in NextPage : Passed(r, wm, last) => Passed(r, startWm, startLast)
      BY <3>1, PageIsAhead
    <3>5. OrderInv'
      BY <3>1, <3>4
    <3>6. FreshInv'
      BY <3>1, <3>2
    <3>7. ASSUME NEW s \in present, ~frozen, ~Cared(s)'
          PROVE  \/ rowOf(s) \in NextPage
                 \/ /\ rowOf(s) \notin seen \cup NextPage
                    /\ \A r \in NextPage : ~AtOrBefore(rowOf(s), r)
      <4>1. ~Cared(s) /\ rowOf(s) \notin seen
        BY <3>1, <3>3, <3>7
      <4>2. s \in Changed
        BY <3>1, <4>1 DEF Changed
      <4>3. QED
        BY <3>1, <3>2, <3>7, <4>1, <4>2
    <3>8. MarkInv'
      BY <3>1, <3>7
    <3>9. OwedToChildren'
      BY <3>1, <3>3
    <3>10. QED
      BY <3>5, <3>6, <3>8, <3>9
  <2>7. CASE SkipPage
    BY <2>7 DEF SkipPage, TakePage
  <2>8. CASE StreamFails \/ EndStream
    BY <2>8 DEF StreamFails, EndStream, LeaveStream
  <2>9. CASE GetDetail \/ GetFails
    BY <2>9 DEF GetDetail, GetFails
  <2>10. CASE GetNoDict
    BY <2>10 DEF GetNoDict, NextIteration
  <2>11. CASE UpsertOk
    BY <2>11 DEF UpsertOk, Upsert, LookedAt, Retryable
  <2>12. CASE UpsertFails
    BY <2>12 DEF UpsertFails, LookedAt, Retryable
  <2>13. CASE ClearFailure \/ RecordChanged
    BY <2>13 DEF ClearFailure, RecordChanged
  <2>14. CASE EnsurePending
    <3>1. /\ pc = "ensure" /\ marker' = [marker EXCEPT ![cur[2]] = Pending(cur[2])]
          /\ pc' = "row" \/ (pc' = "setwm" /\ ~frozen /\ cur' = cur)
          /\ UNCHANGED <<portal, cloud, wm, last, errors, changed, loop, history>>
      BY <2>14 DEF EnsurePending, NextIteration
    <3>2. ASSUME NEW s \in Sname, s = cur[2] PROVE LookedAt(s)'
      <4>1. s \in changed'
        BY <3>1, <3>2
      <4>2. marker'[s] \in 0..MaxLook
        BY <3>1, <3>2 DEF Pending, NoMarker
      <4>3. QED
        BY <4>1, <4>2 DEF NoMarker
    <3>3. ASSUME NEW s \in Sname, Cared(s) PROVE Cared(s)'
      <4>1. CASE s = cur[2]
        BY <3>2, <4>1
      <4>2. CASE s # cur[2]
        BY <3>1, <3>3, <4>2
      <4>3. QED
        BY <4>1, <4>2
    <3>4. Bar' \subseteq Bar /\ \A s : rowOf(s)' = rowOf(s)
      BY <3>1
    <3>5. OrderInv' /\ FreshInv' /\ OwedToChildren'
      BY <3>1, <3>3, <3>4
    <3>6. MarkInv'
      BY <3>1, <3>2, <3>3
    <3>7. QED
      BY <3>5, <3>6
  <2>15. CASE SetWatermark
    <3>1. UNCHANGED <<portal, cloud, last, errors, marker, changed, local, faults,
                      history>> /\ wm' = cur[1] /\ pc = "setwm" /\ pc' = "setlast"
      BY <2>15 DEF SetWatermark
    <3>2. OrderInv' /\ FreshInv' /\ OwedToChildren'
      BY <3>1
    <3>3. ASSUME NEW s \in present, AtOrBefore(rowOf(s), cur) PROVE Cared(s)
      <4>1. rowOf(s) \notin queue
        BY <3>1, <3>3
      <4>2. cur \in Bar /\ Left = queue
        BY <3>1
      <4>3. QED
        BY <3>1, <3>3, <4>1, <4>2
    <3>4. MarkInv'
      <4>1. \A s : Cared(s)' <=> Cared(s)
        BY <3>1
      <4>2. /\ Left' = Left /\ Bar' = Bar
            /\ \A s : rowOf(s)' = rowOf(s)
        BY <3>1
      <4> HIDE DEF Left, Bar, Cared, AtOrBefore, rowOf, Passed
      <4>3. QED
        BY <3>1, <3>3, <4>1, <4>2 DEF Passed, TieSkip
    <3>5. QED
      BY <3>2, <3>4
  <2>16. CASE SetLastSname
    BY <2>16 DEF SetLastSname, NextIteration
  <2>17. CASE RecordFailure
    BY <2>17 DEF RecordFailure, Counted, NextIteration
  <2>18. CASE LaterPhases
    <3>1. PICK done \in SUBSET ToProcess : \E failed \in SUBSET (ToProcess \ done) :
            /\ marker' = [s \in Sname |-> Marked(s, done, failed)]
            /\ owed' = owed \ (done \cup {s \in failed : Marked(s, done, failed) = MaxLook})
      BY <2>18 DEF LaterPhases
    <3>0. PICK failed \in SUBSET (ToProcess \ done) :
            /\ marker' = [s \in Sname |-> Marked(s, done, failed)]
            /\ owed' = owed \ (done \cup {s \in failed : Marked(s, done, failed) = MaxLook})
      BY <3>1
    <3>2. /\ EndRun /\ pc = "later"
          /\ UNCHANGED <<portal, cloud, wm, last, errors, changed, faults, excused>>
      BY <2>18 DEF LaterPhases
    <3>3. ASSUME NEW s \in Sname, Cared(s) PROVE Cared(s)'
      <4>1. ASSUME s \in owed', s \notin excused PROVE LookedAt(s)'
        <5>1. s \in owed /\ LookedAt(s) /\ s \notin done
          BY <3>0, <3>3, <4>1
        <5>2. s \in ToProcess /\ marker[s] \in {NoMarker} \cup 0..MaxLook
          BY <5>1 DEF ToProcess, LookedAt
        <5>3. CASE s \in failed
          <6>1. marker'[s] = Counted(Pending(s), MaxLook) /\ marker'[s] # MaxLook
            BY <3>0, <4>1, <5>1, <5>3 DEF Marked
          <6>2. marker'[s] \in 0..MaxLook - 1
            BY <5>2, <6>1 DEF Counted, Pending, NoMarker
          <6>3. QED
            BY <6>2 DEF LookedAt, Retryable
        <5>4. CASE s \notin failed
          <6>1. marker'[s] = Pending(s)
            BY <3>0, <5>1, <5>2, <5>4 DEF Marked
          <6>2. marker'[s] \in 0..MaxLook - 1 \/ marker'[s] = marker[s]
            BY <5>2, <6>1 DEF Pending, NoMarker
          <6>3. QED
            BY <3>2, <5>1, <6>2 DEF LookedAt, Retryable
        <5>5. QED
          BY <5>3, <5>4
      <4>2. QED
        BY <3>2, <4>1
    <3>4. QED
      BY <3>2, <3>3 DEF EndRun
  <2>19. ASSUME NEW r \in late, LateUpsert(r) PROVE Goal'
    <3>1. excused \subseteq excused' /\ UNCHANGED <<portal, sqlite, pc, local, faults, owed>>
      BY <2>19 DEF LateUpsert
    <3>2. \A s : Cared(s) => Cared(s)'
      BY <3>1 DEF LookedAt, Retryable
    <3>3. QED
      BY <3>1, <3>2 DEF LookedAt, Retryable
  <2>20. CASE Prune \/ PruneFails
    BY <2>20 DEF Prune, PruneFails, EndRun, LookedAt, Retryable
  <2>21. CASE Crash
    BY <2>21 DEF Crash, EndRun
  <2>22. CASE UNCHANGED vars
    BY <2>22 DEF vars
  <2> HIDE DEF Goal, vars, portal, cloud, sqlite, paging, loop, row, local, history
  <2>23. QED
    BY <2>1, <2>2, <2>3, <2>4, <2>5, <2>6, <2>7, <2>8, <2>9, <2>10, <2>11, <2>12, <2>13,
       <2>14, <2>15, <2>16, <2>17, <2>18, <2>19, <2>20, <2>21, <2>22
       DEF Next, RowStep, PhaseStep
<1>3. ASSUME IInv, IInv', OInv, [Next]_vars PROVE OInv'
  BY <1>2, <1>3, PlaceKept DEF OInv
<1>4. QED
  BY <1>1, <1>3, UpdateInvariant, PTL DEF Spec

-------------------------------------------------------------------------------
\* The type invariant of GWFlowMetadata holds.
THEOREM TypesHold == Spec => []TypeOK
BY TypeInvariant, PTL DEF TInv

\* phase_metadata loses no update but those it gave up or found malformed, that a
\* kill between the two commits of the position hid, that the pages passed over, or
\* that an older upsert was carried out after.
THEOREM NoUpdateIsLost == Spec => []NoLostUpdate
BY UpdateInvariant, PTL DEF IInv, RunInv

\* A kill between the phases, or anywhere else, forgets no children, but for the
\* same rows and for superevents whose marker stands at the cap.
THEOREM ChildrenStayOwed == Spec => []OwedToChildren
BY OwedInvariant, PTL DEF OInv

\* set_watermark never takes the watermark back.
THEOREM WatermarkIsMonotone == Spec => WatermarkNeverRetreats
<1>1. ASSUME IInv, [Next]_vars PROVE [wm' >= wm]_vars
  <2> USE <1>1 DEF IInv, TInv, TypeOK, StoreTypes, sqlite, cloud
  <2>1. CASE SetWatermark
    BY <2>1, RowParts DEF SetWatermark, RunInv, BarInv, Bar, RowPc
  <2>2. CASE wm' = wm
    BY <2>2
  <2>3. QED
    BY <2>1, <2>2
       DEF Next, RowStep, PhaseStep, vars, Commit, Withdraw, TakeRow, OperatorResets,
           StartRun, FetchPage, SkipPage, TakePage, StreamFails, EndStream, GetDetail,
           GetNoDict, GetFails, UpsertOk, UpsertFails, ClearFailure, RecordChanged,
           EnsurePending,
           SetLastSname, RecordFailure, LateUpsert, Prune, PruneFails, LaterPhases, Crash
<1>2. QED
  BY <1>1, UpdateInvariant, PTL DEF Spec, WatermarkNeverRetreats

\* The mirror implements MirrorSpec: a commit on the portal is a Publish, an
\* upsert that reaches GWCloud is a Sync, one whose caller goes away is an Ask, and
\* a Land when it is carried out after all; every other step stutters.
THEOREM ImplementsMirror == Spec => MirrorsPortal
<1>1. Init => Mirror!Init
  BY DEF Init, Mirror!Init
<1>2. ASSUME TInv, LogInv, [Next]_vars PROVE [Mirror!Next]_<<log, mver, late>>
  <2> USE <1>2 DEF TInv, TypeOK, StoreTypes, LocalTypes, portal, cloud
  <2>1. ASSUME NEW S \in SUBSET Sname, Commit(S) PROVE Mirror!Publish
    <3>1. \A q \in log : q[1] \in Nat /\ q[1] <= clock /\ clock \in Nat
      BY RowParts DEF PortalInv, LogInv
    <3>2. log' = log \cup {<<clock + 1, s>> : s \in S} /\ UNCHANGED cloud
      BY <2>1 DEF Commit
    <3>3. \A p \in log' \ log : p[1] = clock + 1
      BY <3>2
    <3>4. QED
      BY <3>1, <3>2, <3>3 DEF Mirror!Publish
  <2>2. ASSUME pc = "upsert"
        PROVE  /\ <<det, cur[2]>> \in log /\ Mirror!UpToDate(<<det, cur[2]>>)
    BY <2>2, RowParts DEF LogInv, RowPc, Mirror!UpToDate
  <2>3. CASE UpsertOk \/ UpsertFails
    <3>1. pc = "upsert" /\ log' = log
      BY <2>3 DEF UpsertOk, UpsertFails
    <3>2. \/ mver' = [mver EXCEPT ![cur[2]] = det] /\ late' = late
          \/ mver' = mver /\ late' = late \cup {<<det, cur[2]>>}
          \/ UNCHANGED cloud
      BY <2>3 DEF UpsertOk, UpsertFails, Upsert, Overwrite, GoesAstray
    <3>3. QED
      BY <2>2, <3>1, <3>2 DEF Mirror!Next, Mirror!Sync, Mirror!Ask, Mirror!Put
  <2>4. CASE Crash
    <3>1. log' = log /\ mver' = mver
          /\ (late' = late \/ (pc = "upsert" /\ late' = late \cup {<<det, cur[2]>>}))
      BY <2>4 DEF Crash, GoesAstray
    <3>2. QED
      BY <2>2, <3>1 DEF Mirror!Next, Mirror!Ask
  <2>5. ASSUME NEW r \in late, LateUpsert(r) PROVE Mirror!Land(r)
    BY <2>5 DEF LateUpsert, Overwrite, Mirror!Land, Mirror!Put
  <2>6. CASE UNCHANGED <<log, mver, late>>
    BY <2>6
  <2>7. QED
    BY <2>1, <2>3, <2>4, <2>5, <2>6
       DEF Mirror!Next, Next, RowStep, PhaseStep, vars, Withdraw, TakeRow,
           OperatorResets, StartRun, FetchPage, SkipPage, TakePage, StreamFails,
           EndStream, GetDetail, GetNoDict, GetFails, ClearFailure, RecordChanged,
           EnsurePending, SetWatermark, SetLastSname, RecordFailure, Prune,
           PruneFails, LaterPhases
<1>3. QED
  BY <1>1, <1>2, TypeInvariant, LogInvariant, PTL DEF Spec, MirrorsPortal, Mirror!Spec
===============================================================================
