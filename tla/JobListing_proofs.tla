-------------------------- MODULE JobListing_proofs ---------------------------
(***************************************************************************)
(* Proofs about JobListing, for any jobs, any number of writers and of     *)
(* operations: type correctness, that a lone save or delete leaves         *)
(* database and index in agreement, that a calm answer is complete.        *)
(***************************************************************************)
EXTENDS JobListing, FiniteSetTheorems, TLAPS

\* A writer at work has a job.
TInv == TypeOK /\ \A w \in Writer : pc[w] # "idle" => job[w] \in Job

\* What a writer that nobody overlaps has established at each of its steps.
Progress(w) ==
  /\ pc[w] \in {"wipe", "fill"} => row[job[w]] = flag[w]
  /\ pc[w] = "fill" => sets[job[w]] = 0
  /\ pc[w] \in {"look", "put", "insert"} /\ job[w] \in clean =>
       row[job[w]] = flag[w] /\ sets[job[w]] = 1
  /\ pc[w] \in {"put", "insert"} /\ job[w] \in clean => sees[w]
  /\ pc[w] = "delete" => doc[job[w]] = "none" /\ job[w] \notin params

Alone(w) == \A u \in Writer \ {w} : pc[u] # "idle" => job[u] # job[w]

LoneInv == \A w \in lone : pc[w] # "idle" => Alone(w) /\ Progress(w)

IInv == TInv /\ LoneInv /\ LoneSaveRepairs

-------------------------------------------------------------------------------
\* A writer's operation begins: nothing it reads or writes has changed yet.
LEMMA BeginStep ==
  ASSUME IInv, NEW w \in Writer, NEW j \in Job, NEW step, NEW f \in Flag,
         step \in {"row", "look", "unlist"}, step = "look" => f = row[j],
         Begin(w, j, step, f), born' \subseteq Job
  PROVE  IInv'
<1> USE DEF IInv, TInv, Begin, store, index, reader
<1>1. TInv'
  <2>1. TypeOK'
    <3>1. /\ pc' \in [Writer -> {"idle", "row", "wipe", "fill", "look", "put", "insert",
                                 "unlist", "delete"}]
          /\ job' \in [Writer -> Job \cup {NoJob}] /\ flag' \in [Writer -> Flag]
      BY DEF TypeOK
    <3>2. lone' \subseteq Writer
      BY DEF TypeOK
    <3>3. starts' \in 0..MaxStarts
      BY BoundAssumption DEF TypeOK
    <3>4. calm' \in BOOLEAN
      OBVIOUS
    <3>5. QED
      BY <3>1, <3>2, <3>3, <3>4 DEF TypeOK
  <2>2. \A u \in Writer : pc'[u] # "idle" => job'[u] \in Job
    BY DEF TypeOK
  <2>3. QED
    BY <2>1, <2>2
<1>2. ASSUME NEW u \in lone', pc'[u] # "idle" PROVE Alone(u)' /\ Progress(u)'
  <2>1. CASE u = w
    <3>1. OnJob(j) = {}
      BY <2>1, <1>2 DEF TypeOK
    <3>2. j \in clean => Synced(j)
      BY <3>1 DEF LoneSaveRepairs
    <3>3. pc'[w] = step /\ job'[w] = j /\ flag'[w] = f
      BY DEF TypeOK
    <3>4. Alone(w)'
      BY <3>1, <3>3 DEF Alone, OnJob, TypeOK
    <3>5. Progress(w)'
      BY <3>2, <3>3 DEF Progress, Synced, Flag
    <3>6. QED
      BY <2>1, <3>4, <3>5
  <2>2. CASE u # w
    <3>1. u \in lone /\ pc[u] # "idle" /\ job[u] # j
      BY <1>2, <2>2 DEF OnJob, TypeOK
    <3>2. Alone(u) /\ Progress(u)
      BY <3>1 DEF LoneInv
    <3>3. QED
      BY <2>2, <3>1, <3>2 DEF Alone, Progress, TypeOK
  <2>3. QED
    BY <2>1, <2>2
<1>3. LoneSaveRepairs'
  <2> SUFFICES ASSUME NEW i \in clean, OnJob(i)' = {} PROVE Synced(i)'
    BY DEF LoneSaveRepairs
  <2>1. OnJob(i) = {}
    BY DEF OnJob, TypeOK
  <2>2. QED
    BY <2>1 DEF LoneSaveRepairs, Synced
<1>4. QED
  BY <1>1, <1>2, <1>3 DEF LoneInv

\* A step of a writer disturbs only its own job: the other writers keep what
\* they established, the jobs of others keep their agreement.
LEMMA OtherWriters ==
  ASSUME IInv, TInv', NEW w \in Writer, pc[w] # "idle", lone' = lone,
         \A u \in Writer \ {w} : /\ pc'[u] = pc[u] /\ job'[u] = job[u]
                                 /\ flag'[u] = flag[u] /\ sees'[u] = sees[u],
         pc'[w] # "idle" => job'[w] = job[w],
         \A j \in Job \ {job[w]} :
            /\ row'[j] = row[j] /\ sets'[j] = sets[j] /\ doc'[j] = doc[j]
            /\ j \in params' <=> j \in params
            /\ j \in clean' <=> j \in clean
  PROVE  /\ \A u \in lone : u # w /\ pc'[u] # "idle" => Alone(u)' /\ Progress(u)'
         /\ \A j \in clean' : j # job[w] /\ OnJob(j)' = {} => Synced(j)'
         /\ w \in lone /\ pc'[w] # "idle" => Alone(w)'
         /\ w \in lone =>
              \A u \in Writer \ {w} : pc'[u] # "idle" => job'[u] # job[w]
<1> USE DEF IInv, TInv
<1>1. ASSUME NEW u \in lone, u # w, pc'[u] # "idle" PROVE Alone(u)' /\ Progress(u)'
  <2>1. u \in Writer /\ pc[u] # "idle" /\ job[u] \in Job
    BY <1>1 DEF TypeOK
  <2>2. Alone(u) /\ Progress(u)
    BY <2>1 DEF LoneInv
  <2>3. job[u] # job[w]
    BY <1>1, <2>2 DEF Alone
  <2>4. Alone(u)'
    BY <1>1, <2>2, <2>1 DEF Alone
  <2>5. Progress(u)'
    BY <1>1, <2>1, <2>2, <2>3 DEF Progress
  <2>6. QED
    BY <2>4, <2>5
<1>2. ASSUME NEW j \in clean', j # job[w], OnJob(j)' = {} PROVE Synced(j)'
  <2>1. j \in Job /\ j \in clean
    BY <1>2 DEF TypeOK
  <2>2. OnJob(j) = {}
    BY <1>2 DEF OnJob
  <2>3. Synced(j)
    BY <2>1, <2>2 DEF LoneSaveRepairs
  <2>4. QED
    BY <1>2, <2>1, <2>3 DEF Synced
<1>3. w \in lone => Alone(w)
  BY DEF LoneInv
<1>4. w \in lone /\ pc'[w] # "idle" => Alone(w)'
  BY <1>3 DEF Alone
<1>5. w \in lone => \A u \in Writer \ {w} : pc'[u] # "idle" => job'[u] # job[w]
  BY <1>3 DEF Alone
<1>6. QED
  BY <1>1, <1>2, <1>4, <1>5

-------------------------------------------------------------------------------
\* What types a writer's own variables have.
WriterTypeOK ==
  /\ pc \in [Writer -> {"idle", "row", "wipe", "fill", "look", "put", "insert", "unlist",
                        "delete"}]
  /\ job \in [Writer -> Job \cup {NoJob}]
  /\ flag \in [Writer -> Flag] /\ sees \in [Writer -> BOOLEAN]
  /\ \A w \in Writer : pc[w] # "idle" => job[w] \in Job

\* A writer that ends is idle.
LEMMA EndTypes == ASSUME TInv, NEW w \in Writer, End(w) PROVE WriterTypeOK' /\ pc'[w] = "idle"
  BY DEF TInv, TypeOK, End, WriterTypeOK, Flag

\* Every variable keeps its type in a step of a writer.
LEMMA WriterTypes == ASSUME TInv, NEW w \in Writer, WriterStep(w) PROVE TInv'
<1> USE DEF TInv, TypeOK, WriterTypeOK, Goto, store, index, reader
<1>1. CASE SaveRow(w)
  BY <1>1 DEF SaveRow, Flag
<1>2. CASE WipePairs(w)
  BY <1>2 DEF WipePairs
<1>3. CASE FillPairs(w)
  BY <1>3 DEF FillPairs
<1>4. CASE ReadPairs(w)
  BY <1>4 DEF ReadPairs
<1>5. CASE UpdateDoc(w)
  BY <1>5, EndTypes DEF UpdateDoc, Flag
<1>6. CASE DocNotFound(w)
  BY <1>6 DEF DocNotFound
<1>7. CASE InsertDoc(w)
  BY <1>7, EndTypes DEF InsertDoc, Flag
<1>8. CASE RemoveDoc(w)
  BY <1>8 DEF RemoveDoc, NoDoc
<1>9. CASE DeleteRow(w)
  BY <1>9, EndTypes DEF DeleteRow
<1>10. CASE Fail(w)
  BY <1>10, EndTypes DEF Fail
<1>11. QED
  BY <1>1, <1>2, <1>3, <1>4, <1>5, <1>6, <1>7, <1>8, <1>9, <1>10 DEF WriterStep

\* A step of a writer keeps the invariant.
LEMMA WriterKeeps == ASSUME IInv, NEW w \in Writer, WriterStep(w) PROVE IInv'
<1> DEFINE j == job[w]
<1>1. TInv'
  BY WriterTypes DEF IInv
<1>2. pc[w] # "idle" /\ j \in Job
  BY DEF IInv, TInv, WriterStep, SaveRow, WipePairs, FillPairs, ReadPairs, UpdateDoc,
         DocNotFound, InsertDoc, RemoveDoc, DeleteRow, Fail
<1> USE DEF End, Goto, store, index, reader
<1>3. lone' = lone
  BY DEF WriterStep, SaveRow, WipePairs, FillPairs, ReadPairs, UpdateDoc,
         DocNotFound, InsertDoc, RemoveDoc, DeleteRow, Fail
<1>4. /\ \A u \in Writer \ {w} : /\ pc'[u] = pc[u] /\ job'[u] = job[u]
                                  /\ flag'[u] = flag[u] /\ sees'[u] = sees[u]
      /\ pc'[w] # "idle" => job'[w] = j /\ flag'[w] = flag[w]
  BY DEF IInv, TInv, TypeOK, WriterStep, SaveRow, WipePairs, FillPairs, ReadPairs,
         UpdateDoc, DocNotFound, InsertDoc, RemoveDoc, DeleteRow, Fail
<1>5. \A i \in Job \ {j} :
         /\ row'[i] = row[i] /\ sets'[i] = sets[i] /\ doc'[i] = doc[i]
         /\ i \in params' <=> i \in params
         /\ i \in clean' <=> i \in clean
  BY DEF IInv, TInv, TypeOK, WriterStep, SaveRow, WipePairs, FillPairs, ReadPairs,
         UpdateDoc, DocNotFound, InsertDoc, RemoveDoc, DeleteRow, Fail
<1>6. /\ \A u \in lone : u # w /\ pc'[u] # "idle" => Alone(u)' /\ Progress(u)'
      /\ \A i \in clean' : i # j /\ OnJob(i)' = {} => Synced(i)'
      /\ w \in lone /\ pc'[w] # "idle" => Alone(w)'
      /\ w \in lone => \A u \in Writer \ {w} : pc'[u] # "idle" => job'[u] # j
  BY <1>1, <1>2, <1>3, <1>4, <1>5, OtherWriters
<1>7. w \in lone /\ pc'[w] # "idle" => Progress(w)'
  <2> SUFFICES ASSUME w \in lone, pc'[w] # "idle" PROVE Progress(w)'
    OBVIOUS
  <2>1. Progress(w)
    BY <1>2 DEF IInv, LoneInv
  <2> USE <1>2, <1>4, <2>1 DEF Progress, IInv, TInv, TypeOK
  <2>2. CASE SaveRow(w)
    BY <2>2 DEF SaveRow
  <2>3. CASE WipePairs(w)
    BY <2>3 DEF WipePairs
  <2>4. CASE FillPairs(w)
    BY <2>4 DEF FillPairs
  <2>5. CASE ReadPairs(w)
    <3>1. sees'[w] = (sets[j] > 0) /\ pc'[w] = "put"
      BY <2>5 DEF ReadPairs
    <3>2. ASSUME sets[j] = 1 PROVE sees'[w]
      <4>1. sets[j] > 0
        BY <3>2
      <4>2. QED
        BY <3>1, <4>1, Zenon
    <3>3. QED
      BY <2>5, <3>1, <3>2 DEF ReadPairs
  <2>6. CASE DocNotFound(w)
    BY <2>6 DEF DocNotFound
  <2>7. CASE RemoveDoc(w)
    BY <2>7 DEF RemoveDoc, NoDoc
  <2>8. CASE UpdateDoc(w) \/ InsertDoc(w) \/ DeleteRow(w) \/ Fail(w)
    BY <2>8 DEF UpdateDoc, InsertDoc, DeleteRow, Fail
  <2>9. QED
    BY <2>2, <2>3, <2>4, <2>5, <2>6, <2>7, <2>8 DEF WriterStep
<1>8. ASSUME NEW i \in clean', i = j, OnJob(i)' = {} PROVE Synced(i)'
  <2>1. pc'[w] = "idle"
    BY <1>1, <1>2, <1>4, <1>8 DEF OnJob, TInv, TypeOK
  <2>2. w \in lone => Alone(w) /\ Progress(w)
    BY <1>2 DEF IInv, LoneInv
  <2> USE <1>2, <1>8, <2>1, <2>2 DEF Progress, Synced, IInv, TInv, TypeOK
  <2>3. CASE UpdateDoc(w) \/ InsertDoc(w)
    <3>1. w \in lone /\ i \in clean
      BY <2>3, <1>8 DEF UpdateDoc, InsertDoc
    <3>2. row[i] = flag[w] /\ sets[i] = 1 /\ sees[w]
      BY <3>1, <2>3 DEF UpdateDoc, InsertDoc
    <3>3. row' = row /\ sets' = sets /\ doc'[i] = flag[w]
      BY <2>3 DEF UpdateDoc, InsertDoc
    <3>4. i \in params'
      BY <2>3, <3>2 DEF UpdateDoc, InsertDoc
    <3>5. flag[w] # "none"
      BY DEF Flag
    <3>6. QED
      BY <3>2, <3>3, <3>4, <3>5
  <2>4. CASE DeleteRow(w)
    <3>1. w \in lone
      BY <2>4, <1>8 DEF DeleteRow
    <3>2. row'[i] = "none" /\ doc'[i] = doc[i] /\ params' = params
      BY <2>4 DEF DeleteRow
    <3>3. doc[i] = "none" /\ i \notin params
      BY <3>1, <2>4 DEF DeleteRow
    <3>4. QED
      BY <3>2, <3>3
  <2>5. ~Fail(w)
    BY <1>8 DEF Fail
  <2>6. QED
    BY <2>3, <2>4, <2>5 DEF WriterStep, SaveRow, WipePairs, FillPairs, ReadPairs,
       DocNotFound, RemoveDoc
<1>9. QED
  <2>1. LoneInv'
    BY <1>3, <1>6, <1>7 DEF LoneInv
  <2>2. LoneSaveRepairs'
    BY <1>6, <1>8 DEF LoneSaveRepairs
  <2>3. QED
    BY <1>1, <2>1, <2>2 DEF IInv

-------------------------------------------------------------------------------
\* Readers and the index's refresh change nothing the invariant is about.
LEMMA ReaderKeeps == ASSUME IInv, ReaderStep \/ Refresh \/ UNCHANGED vars PROVE IInv'
<1>1. UNCHANGED <<row, sets, doc, params, born, pc, job, flag, sees, starts, lone, clean>>
  BY DEF ReaderStep, Search, OpenJob, CountBefore, CountAfter, FetchJobs, ViewJob, Answer,
         writing, store, index, writers, Refresh, vars
<1>2. TypeOK'
  <2>1. stale' \subseteq Job
    BY DEF ReaderStep, Search, OpenJob, CountBefore, CountAfter, FetchJobs, ViewJob, Answer,
           writing, index, Refresh, vars, IInv, TInv, TypeOK
  <2>2. /\ rpc' \in {"idle", "before", "after", "fetch", "view", "done"}
        /\ viewer' \in Viewer
    BY DEF ReaderStep, Search, OpenJob, CountBefore, CountAfter, FetchJobs, ViewJob, Answer,
           reader, Refresh, vars, IInv, TInv, TypeOK, Viewer
  <2>3. asked' \subseteq Job /\ hits' \subseteq Job /\ shown' \subseteq Job
    BY DEF ReaderStep, Search, OpenJob, CountBefore, CountAfter, FetchJobs, ViewJob, Answer,
           reader, Refresh, vars, IInv, TInv, TypeOK
  <2>4. calm' \in BOOLEAN
    BY DEF ReaderStep, Search, OpenJob, CountBefore, CountAfter, FetchJobs, ViewJob, Answer,
           Refresh, vars, IInv, TInv, TypeOK, AllClean
  <2>5. count' \in Nat
    <3>1. CASE CountBefore
      <4>1. IsFiniteSet({j \in hits : row[j] # "none"})
        BY JobAssumption, FS_Subset DEF IInv, TInv, TypeOK
      <4>2. QED
        BY <3>1, <4>1, FS_CardinalityType DEF CountBefore
    <3>2. CASE ~CountBefore
      BY <3>2 DEF ReaderStep, Search, OpenJob, CountAfter, FetchJobs, ViewJob, Answer,
             reader, Refresh, vars, IInv, TInv, TypeOK
    <3>3. QED
      BY <3>1, <3>2
  <2>6. QED
    BY <1>1, <2>1, <2>2, <2>3, <2>4, <2>5 DEF IInv, TInv, TypeOK
<1>3. QED
  BY <1>1, <1>2 DEF IInv, TInv, LoneInv, Alone, Progress, LoneSaveRepairs, OnJob, Synced

\* The invariant is inductive.
THEOREM AgreementInvariant == Spec => []IInv
<1>1. Init => IInv
  <2> SUFFICES ASSUME Init PROVE IInv
    OBVIOUS
  <2>1. TypeOK
    <3> USE DEF Init
    <3>1. /\ row \in [Job -> Flag \cup {"none"}] /\ sets \in [Job -> 0..2]
          /\ doc \in [Job -> Flag \cup {"none"}] /\ params \subseteq Job
          /\ stale \subseteq Job /\ born \subseteq Job
      OBVIOUS
    <3>2. WriterTypeOK
      BY DEF WriterTypeOK, Flag
    <3>3. starts \in 0..MaxStarts /\ count \in Nat
      BY BoundAssumption
    <3>4. /\ rpc \in {"idle", "before", "after", "fetch", "view", "done"} /\ viewer \in Viewer
          /\ asked \subseteq Job /\ hits \subseteq Job /\ shown \subseteq Job
      BY DEF Viewer
    <3>5. lone \subseteq Writer /\ clean \subseteq Job /\ calm \in BOOLEAN
      OBVIOUS
    <3>6. QED
      BY <3>1, <3>2, <3>3, <3>4, <3>5 DEF TypeOK, WriterTypeOK
  <2>2. \A w \in Writer : pc[w] = "idle"
    BY DEF Init
  <2>3. LoneInv /\ LoneSaveRepairs
    BY DEF Init, LoneInv, LoneSaveRepairs
  <2>4. QED
    BY <2>1, <2>2, <2>3 DEF IInv, TInv
<1>2. ASSUME IInv, [Next]_vars PROVE IInv'
  <2>1. CASE \E w \in Writer : WriterStep(w)
    BY <1>2, <2>1, WriterKeeps
  <2>2. ASSUME NEW w \in Writer, NEW j \in Job, NEW f \in Flag,
               Create(w, j, f) \/ EditPrivacy(w, j, f)
        PROVE  IInv'
    <3>1. Begin(w, j, "row", f) /\ born' \subseteq Job
      BY <1>2, <2>2 DEF Create, EditPrivacy, IInv, TInv, TypeOK
    <3>2. QED
      BY <1>2, <3>1, BeginStep
  <2>3. ASSUME NEW w \in Writer, NEW j \in Job,
               Resave(w, j) \/ Reindex(w, j) \/ Remove(w, j)
        PROVE  IInv'
    <3>1. born' \subseteq Job /\ row[j] \in Flag /\ "public" \in Flag
      BY <1>2, <2>3 DEF Resave, Reindex, Remove, IInv, TInv, TypeOK, Flag
    <3>2. \/ Begin(w, j, "row", row[j]) \/ Begin(w, j, "look", row[j])
          \/ Begin(w, j, "unlist", "public")
      BY <2>3 DEF Resave, Reindex, Remove
    <3>3. QED
      BY <1>2, <3>1, <3>2, BeginStep
  <2>4. CASE ReaderStep \/ Refresh \/ UNCHANGED vars
    BY <1>2, <2>4, ReaderKeeps
  <2>5. QED
    BY <1>2, <2>1, <2>2, <2>3, <2>4 DEF Next
<1>3. QED
  BY <1>1, <1>2, PTL DEF Spec

\* The type invariant of JobListing holds.
THEOREM TypesHold == Spec => []TypeOK
BY AgreementInvariant, PTL DEF IInv, TInv

\* A save or a delete that nothing overlaps and that does not fail leaves the
\* row, the key/value pairs and the document of its job in agreement.
THEOREM AgreementIsRestored == Spec => []LoneSaveRepairs
BY AgreementInvariant, PTL DEF IInv

-------------------------------------------------------------------------------
\* An id not handed out has left no trace.
FreshInv ==
  \A j \in Job \ born :
    /\ row[j] = "none" /\ doc[j] = "none" /\ j \notin params
    /\ \A w \in Writer : pc[w] # "idle" => job[w] # j

Answered == {j \in asked : Allowed(j, viewer)}

\* As long as nothing is written, what the reader holds is what it would get.
CalmInv ==
  /\ rpc # "done" => shown = {}
  /\ calm =>
       /\ AllClean /\ \A j \in Job : Synced(j)
       /\ rpc \in {"before", "after", "fetch"} => hits = Answered
       /\ rpc = "view" => {j \in hits : Allowed(j, viewer)} = Answered
       /\ rpc = "after" => count = Cardinality(hits)
       /\ rpc = "done" => shown = Answered

\* Ids are handed out before anything is written for them.
LEMMA FreshKept == ASSUME TInv, FreshInv, [Next]_vars PROVE FreshInv'
<1> USE DEF FreshInv, TInv, TypeOK
<1>1. ASSUME NEW w \in Writer, WriterStep(w) PROVE FreshInv'
  <2> USE <1>1 DEF End, Goto, store, index
  <2>1. born' = born
    BY DEF WriterStep, SaveRow, WipePairs, FillPairs, ReadPairs, UpdateDoc, DocNotFound,
           InsertDoc, RemoveDoc, DeleteRow, Fail
  <2>2. pc[w] # "idle" /\ job[w] \in Job
    BY DEF WriterStep, SaveRow, WipePairs, FillPairs, ReadPairs, UpdateDoc, DocNotFound,
           InsertDoc, RemoveDoc, DeleteRow, Fail
  <2>3. \A j \in Job \ {job[w]} :
           row'[j] = row[j] /\ doc'[j] = doc[j] /\ (j \in params' <=> j \in params)
    BY DEF WriterStep, SaveRow, WipePairs, FillPairs, ReadPairs, UpdateDoc, DocNotFound,
           InsertDoc, RemoveDoc, DeleteRow, Fail
  <2>4. /\ \A u \in Writer \ {w} : pc'[u] = pc[u] /\ job'[u] = job[u]
        /\ pc'[w] # "idle" => job'[w] = job[w]
    BY DEF WriterStep, SaveRow, WipePairs, FillPairs, ReadPairs, UpdateDoc, DocNotFound,
           InsertDoc, RemoveDoc, DeleteRow, Fail
  <2>5. QED
    BY <2>1, <2>2, <2>3, <2>4
<1>2. ASSUME NEW w \in Writer, NEW j \in Job, NEW f \in Flag,
             \/ Create(w, j, f) \/ EditPrivacy(w, j, f)
             \/ Resave(w, j) \/ Reindex(w, j) \/ Remove(w, j)
      PROVE  FreshInv'
  <2>1. born \subseteq born' /\ j \in born'
    BY <1>2 DEF Create, EditPrivacy, Resave, Reindex, Remove
  <2>2. /\ UNCHANGED <<row, doc, params>>
        /\ \A u \in Writer \ {w} : pc'[u] = pc[u] /\ job'[u] = job[u]
        /\ job'[w] = j
    BY <1>2 DEF Create, EditPrivacy, Resave, Reindex, Remove, Begin, store, index
  <2>3. QED
    BY <2>1, <2>2
<1>3. CASE ReaderStep \/ Refresh \/ UNCHANGED vars
  BY <1>3 DEF ReaderStep, Search, OpenJob, CountBefore, CountAfter, FetchJobs, ViewJob, Answer,
         writing, store, index, writers, Refresh, vars
<1>4. QED
  BY <1>1, <1>2, <1>3 DEF Next, Flag

\* When all is clean, index and database agree on every job.
LEMMA CleanIsSynced ==
  ASSUME IInv, FreshInv, AllClean PROVE \A j \in Job : Synced(j)
BY DEF IInv, FreshInv, AllClean, LoneSaveRepairs, Synced, OnJob

\* When index and database agree, search, filter and permission agree.
LEMMA SyncedAgree ==
  ASSUME NEW j \in Job, NEW v \in Viewer, Synced(j)
  PROVE  /\ Matches(j, v) <=> Allowed(j, v)
         /\ Passes(j, v) <=> Allowed(j, v)
         /\ Allowed(j, v) => row[j] # "none"
         /\ row[j] = "public" => sets[j] = 1
BY DEF Synced, Matches, Passes, Allowed

\* A calm reader's step.
LEMMA CalmStep ==
  ASSUME IInv, FreshInv, CalmInv, ReaderStep PROVE CalmInv'
<1> USE DEF CalmInv, IInv, TInv, TypeOK
<1>1. UNCHANGED writing /\ (AllClean' <=> AllClean)
  BY DEF ReaderStep, Search, OpenJob, CountBefore, CountAfter, FetchJobs, ViewJob, Answer,
         writing, store, index, writers, AllClean
<1>2. /\ \A j \in Job : Synced(j)' <=> Synced(j)
      /\ row' = row /\ stale' = stale
  BY <1>1 DEF writing, store, index, Synced
<1>3. AllClean => stale = {} /\ \A j \in Job : Synced(j)
  BY CleanIsSynced DEF AllClean
<1>4. ASSUME NEW v \in Viewer, Search(v) PROVE CalmInv'
  <2>1. calm' => AllClean
    BY <1>4 DEF Search
  <2>2. ASSUME AllClean PROVE hits' = Answered'
    BY <1>2, <1>3, <1>4, <2>2, SyncedAgree DEF Search, Answered, Allowed
  <2>3. rpc' \in {"before", "done"} /\ shown' = shown /\ shown = {}
        /\ (rpc' = "done" => hits' = {})
    BY <1>4 DEF Search
  <2>4. QED
    BY <1>1, <1>2, <1>3, <2>1, <2>2, <2>3
<1>5. ASSUME NEW j \in Job, NEW v \in Viewer, OpenJob(j, v) PROVE CalmInv'
  <2>1. calm' => AllClean
    BY <1>5 DEF OpenJob
  <2>2. rpc' \in {"view", "done"} /\ shown' = shown /\ shown = {}
        /\ (rpc' = "done" => hits' = {})
    BY <1>5 DEF OpenJob
  <2>3. {i \in hits' : Allowed(i, viewer)'} = Answered'
    BY <1>2, <1>5 DEF OpenJob, Answered, Allowed
  <2>4. QED
    BY <1>1, <1>2, <1>3, <2>1, <2>2, <2>3
<1>6. CASE CountBefore
  <2>1. ASSUME calm PROVE {j \in hits : row[j] # "none"} = hits
    BY <1>3, <1>6, <2>1, SyncedAgree DEF CountBefore, Answered, Allowed
  <2>2. calm' = calm /\ hits' = hits /\ shown' = shown /\ asked' = asked /\ viewer' = viewer
    BY <1>6 DEF CountBefore
  <2>3. rpc' = "after" /\ Answered' = Answered
    BY <1>2, <1>6, <2>2 DEF CountBefore, Answered, Allowed
  <2>4. calm => count' = Cardinality(hits')
    BY <1>6, <2>1, <2>2 DEF CountBefore
  <2>5. QED
    BY <1>1, <1>2, <1>6, <2>2, <2>3, <2>4 DEF CountBefore
<1>7. CASE CountAfter
  <2>1. calm' = calm /\ hits' = hits /\ shown' = shown /\ asked' = asked /\ viewer' = viewer
    BY <1>7 DEF CountAfter
  <2>2. Answered' = Answered /\ rpc' \in {"fetch", "done"} /\ shown = {}
    BY <1>2, <1>7, <2>1 DEF CountAfter, Answered, Allowed
  <2>3. ASSUME calm PROVE rpc' = "fetch"
    <3>1. {j \in hits : Passes(j, viewer)} = hits
      BY <1>3, <1>7, <2>3, SyncedAgree DEF CountAfter, Answered
    <3>2. ~FilterRaises(hits, viewer)
      BY <1>3, <1>7, <2>3, SyncedAgree DEF CountAfter, FilterRaises
    <3>3. QED
      BY <1>7, <2>3, <3>1, <3>2 DEF CountAfter
  <2>4. QED
    BY <1>1, <1>2, <1>7, <2>1, <2>2, <2>3 DEF CountAfter
<1>8. CASE FetchJobs \/ ViewJob
  <2>1. calm' = calm /\ asked' = asked /\ viewer' = viewer /\ rpc' = "done"
    BY <1>8 DEF FetchJobs, ViewJob
  <2>2. Answered' = Answered
    BY <1>2, <2>1 DEF Answered, Allowed
  <2>3. ASSUME calm PROVE shown' = Answered
    <3>1. {j \in hits : Allowed(j, viewer)} = Answered
      BY <1>8, <2>3 DEF FetchJobs, ViewJob, Answered
    <3>2. \A j \in hits : Passes(j, viewer) <=> Allowed(j, viewer)
      BY <1>3, <2>3, SyncedAgree
    <3>3. ~FilterRaises(hits, viewer)
      BY <1>3, <2>3, SyncedAgree DEF FilterRaises
    <3>4. QED
      BY <1>8, <3>1, <3>2, <3>3 DEF FetchJobs, ViewJob
  <2>4. QED
    BY <1>1, <1>2, <2>1, <2>2, <2>3
<1>9. CASE Answer
  BY <1>9 DEF Answer
<1>10. QED
  BY <1>4, <1>5, <1>6, <1>7, <1>8, <1>9 DEF ReaderStep

\* The answer given to a calm reader is complete.
THEOREM CalmReadersSeeAll == Spec => []CalmAnswerIsComplete
<1>1. Init => FreshInv /\ CalmInv
  BY DEF Init, FreshInv, CalmInv
<1>2. ASSUME IInv, FreshInv, CalmInv, [Next]_vars PROVE FreshInv' /\ CalmInv'
  <2>1. FreshInv'
    BY <1>2, FreshKept DEF IInv
  <2>2. CASE ReaderStep
    BY <1>2, <2>1, <2>2, CalmStep
  <2>3. ASSUME NEW w \in Writer, WriterStep(w) PROVE CalmInv'
    <3>1. pc[w] # "idle" /\ calm' = calm /\ UNCHANGED reader
      BY <2>3 DEF WriterStep, SaveRow, WipePairs, FillPairs, ReadPairs, UpdateDoc, DocNotFound,
             InsertDoc, RemoveDoc, DeleteRow, Fail
    <3>2. ~calm
      BY <1>2, <3>1 DEF CalmInv, AllClean
    <3>3. QED
      BY <1>2, <3>1, <3>2 DEF CalmInv, reader
  <2>4. ASSUME NEW w \in Writer, NEW j \in Job, NEW f \in Flag,
               \/ Create(w, j, f) \/ EditPrivacy(w, j, f)
               \/ Resave(w, j) \/ Reindex(w, j) \/ Remove(w, j)
        PROVE  CalmInv'
    BY <1>2, <2>4 DEF Create, EditPrivacy, Resave, Reindex, Remove, Begin, CalmInv, reader
  <2>5. ASSUME Refresh PROVE CalmInv'
    <3>1. stale # {} /\ calm' = calm /\ UNCHANGED reader
      BY <2>5 DEF Refresh
    <3>2. QED
      BY <1>2, <3>1 DEF CalmInv, AllClean, reader
  <2>6. ASSUME UNCHANGED vars PROVE CalmInv'
    BY <1>2, <2>6 DEF vars, CalmInv, AllClean, reader, writers, store, index, Synced, Answered,
           Allowed
  <2>7. QED
    <3>1. \/ ReaderStep \/ Refresh \/ UNCHANGED vars
          \/ \E w \in Writer :
               \/ WriterStep(w)
               \/ \E j \in Job, f \in Flag :
                    \/ Create(w, j, f) \/ EditPrivacy(w, j, f)
                    \/ Resave(w, j) \/ Reindex(w, j) \/ Remove(w, j)
      BY <1>2 DEF Next, Flag
    <3>2. QED
      BY <2>1, <2>2, <2>3, <2>4, <2>5, <2>6, <3>1
<1>3. CalmInv => CalmAnswerIsComplete
  BY DEF CalmInv, CalmAnswerIsComplete, Answered
<1>4. QED
  BY <1>1, <1>2, <1>3, AgreementInvariant, PTL DEF Spec
===============================================================================
