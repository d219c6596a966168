--------------------------- MODULE JobFiles_proofs ----------------------------
(***************************************************************************)
(* Proofs about JobFiles, for any uploads, tokens and readers: type        *)
(* correctness, that uploads are whole or nothing and begin under a live   *)
(* token, and that files are served by live tokens only, and by all.       *)
(***************************************************************************)
EXTENDS JobFiles, TLAPS

InTransaction == {"support", "move", "pack", "commit"}

\* What each step of an upload finds done by the steps before it.
UploadInv(u) ==
  /\ step[u] \in {"new", "token", "stage", "create"} => row[u] = "none"
  /\ step[u] = "token" => kind[u] # "external" /\ (pass # "gone" => u \in passed)
  /\ step[u] = "stage" => kind[u] # "external" /\ u \in passed
  /\ step[u] = "create" /\ kind[u] # "external" => u \in passed
  /\ step[u] \in InTransaction => row[u] = "pending" /\ kind[u] # "external" /\ u \in passed
  /\ step[u] \in {"move", "pack", "commit"} /\ kind[u] = "archive" => u \in sup \cap copies
  /\ step[u] = "commit" => dir[u] = "packed"
  /\ step[u] = "url" => row[u] = "committed" /\ kind[u] = "external"
  /\ step[u] = "done" => Whole(u)
  /\ row[u] = "pending" => step[u] \in InTransaction
  /\ row[u] = "committed" => \/ step[u] = "done"
                             \/ kind[u] = "external" /\ step[u] \in {"url", "failed"}
  /\ row[u] # "none" /\ kind[u] # "external" => u \in passed
  /\ u \in staging => \/ u \in cut
                      \/ step[u] \in {"create", "support", "move"} /\ kind[u] # "external"

\* A token was created for a job that others saw, and whose directory was there;
\* it is pruned only when its time has run out.
TokenInv ==
  \A t \in Token :
    /\ tok[t] # "none" => row[Of[t]] = "committed" /\ dir[Of[t]] # "none"
    /\ tok[t] \in {"old", "gone"} => t \in lapsed

\* A reader's token.
ReaderInv ==
  \A r \in Reader :
    /\ rpc[r] # "idle" => want[r] \in Token
    /\ rpc[r] = "list" => /\ tok[want[r]] = "none" /\ row[Of[want[r]]] = "committed"
                          /\ \A q \in Reader \ {r} : want[q] # want[r]
    /\ rpc[r] \in {"exchange", "download"} =>
         tok[want[r]] # "none" /\ (r \in began \/ tok[want[r]] = "gone")

IInv == TypeOK /\ (\A u \in Upload : UploadInv(u)) /\ TokenInv /\ ReaderInv

-------------------------------------------------------------------------------
\* Every variable keeps its type in a step of an upload.
LEMMA UploadTypes == ASSUME TypeOK, NEW u \in Upload, UploadStep(u) PROVE TypeOK'
<1> USE DEF TypeOK, Goto, Rollback, Working, Kind, database, files, uploads, readers
<1>1. ASSUME NEW k \in Kind, StartUpload(u, k) PROVE TypeOK'
  BY <1>1 DEF StartUpload, PassPruned
<1>2. CASE FindPass(u) \/ StartExternal(u)
  BY <1>2 DEF FindPass, StartExternal
<1>3. CASE Stage(u) \/ MoveStaging(u) \/ PackArchive(u)
  BY <1>3 DEF Stage, MoveStaging, PackArchive
<1>4. CASE CreateJob(u)
  BY <1>4 DEF CreateJob, Created
<1>5. CASE AddUrl(u) \/ SaveSupporting(u) \/ CommitUpload(u)
  BY <1>5 DEF AddUrl, SaveSupporting, CommitUpload
<1>6. CASE UploadFails(u) \/ UploadKilled(u)
  BY <1>6 DEF UploadFails, UploadKilled
<1>7. QED
  BY <1>1, <1>2, <1>3, <1>4, <1>5, <1>6 DEF UploadStep

\* A step of an upload leaves other uploads alone; what is committed stays, and a
\* directory that is there stays.
LEMMA UploadFrame ==
  ASSUME TypeOK, NEW u \in Upload, UploadStep(u), UploadInv(u)
  PROVE  /\ UNCHANGED <<tok, readers, private, lapsed>>
         /\ row[u] = "committed" => row'[u] = "committed"
         /\ dir[u] # "none" => dir'[u] # "none"
         /\ pass' # "gone" => pass' = pass
         /\ \A x \in Upload \ {u} :
              /\ step'[x] = step[x] /\ kind'[x] = kind[x]
              /\ row'[x] = row[x] /\ dir'[x] = dir[x]
              /\ x \in sup' <=> x \in sup
              /\ x \in copies' <=> x \in copies
              /\ x \in staging' <=> x \in staging
              /\ x \in url' <=> x \in url
              /\ x \in passed' <=> x \in passed
              /\ x \in cut' <=> x \in cut
<1> USE DEF TypeOK, Goto, Rollback, Kind, database, files, readers
<1>1. ASSUME NEW k \in Kind, StartUpload(u, k) PROVE pass' # "gone" => pass' = pass
  BY <1>1 DEF StartUpload, PassPruned
<1>2. ~(\E k \in Kind : StartUpload(u, k)) => pass' = pass
  BY DEF UploadStep, FindPass, StartExternal, Stage, CreateJob, AddUrl, SaveSupporting,
         MoveStaging, PackArchive, CommitUpload, UploadFails, UploadKilled
<1>3. UNCHANGED <<tok, readers, private, lapsed>>
  BY DEF UploadStep, StartUpload, FindPass, StartExternal, Stage, CreateJob, AddUrl,
         SaveSupporting, MoveStaging, PackArchive, CommitUpload, UploadFails, UploadKilled
<1>4. /\ row[u] = "committed" => row'[u] = "committed"
      /\ dir[u] # "none" => dir'[u] # "none"
  BY DEF UploadInv, InTransaction, UploadStep, StartUpload, FindPass, StartExternal, Stage,
         CreateJob, AddUrl, SaveSupporting, MoveStaging, PackArchive, CommitUpload,
         UploadFails, UploadKilled
<1>5. ASSUME NEW x \in Upload \ {u}
      PROVE  /\ step'[x] = step[x] /\ kind'[x] = kind[x]
             /\ row'[x] = row[x] /\ dir'[x] = dir[x]
  BY DEF UploadStep, StartUpload, FindPass, StartExternal, Stage, CreateJob, AddUrl,
         SaveSupporting, MoveStaging, PackArchive, CommitUpload, UploadFails, UploadKilled
<1>6. ASSUME NEW x \in Upload \ {u}
      PROVE  /\ x \in sup' <=> x \in sup
             /\ x \in copies' <=> x \in copies
             /\ x \in staging' <=> x \in staging
             /\ x \in url' <=> x \in url
             /\ x \in passed' <=> x \in passed
             /\ x \in cut' <=> x \in cut
  BY DEF UploadStep, StartUpload, FindPass, StartExternal, Stage, CreateJob, AddUrl,
         SaveSupporting, MoveStaging, PackArchive, CommitUpload, UploadFails, UploadKilled
<1>7. QED
  BY <1>1, <1>2, <1>3, <1>4, <1>5, <1>6

\* A step of an upload keeps what its own next steps rely on.
LEMMA UploadKeeps ==
  ASSUME IInv, NEW u \in Upload, UploadStep(u)
  PROVE  UploadInv(u)'
<1> USE DEF IInv, TypeOK, UploadInv, Goto, Rollback, Kind, InTransaction, Whole, database,
            files, uploads, readers
<1>1. ASSUME NEW k \in Kind, StartUpload(u, k) PROVE UploadInv(u)'
  BY <1>1 DEF StartUpload, PassPruned
<1>2. CASE FindPass(u)
  BY <1>2 DEF FindPass
<1>3. CASE StartExternal(u)
  BY <1>3 DEF StartExternal
<1>4. CASE Stage(u)
  BY <1>4 DEF Stage
<1>5. CASE CreateJob(u)
  BY <1>5 DEF CreateJob, Created
<1>6. CASE AddUrl(u)
  BY <1>6 DEF AddUrl
<1>7. CASE SaveSupporting(u)
  BY <1>7 DEF SaveSupporting
<1>8. CASE MoveStaging(u)
  BY <1>8 DEF MoveStaging
<1>9. CASE PackArchive(u)
  BY <1>9 DEF PackArchive
<1>10. CASE CommitUpload(u)
  BY <1>10 DEF CommitUpload
<1>11. CASE UploadFails(u)
  BY <1>11 DEF UploadFails, Working
<1>12. CASE UploadKilled(u)
  BY <1>12 DEF UploadKilled, Working
<1>13. QED
  BY <1>1, <1>2, <1>3, <1>4, <1>5, <1>6, <1>7, <1>8, <1>9, <1>10, <1>11, <1>12
     DEF UploadStep

\* A step of an upload keeps the invariant.
LEMMA UploadPreserves ==
  ASSUME IInv, NEW u \in Upload, UploadStep(u)
  PROVE  IInv'
<1>1. TypeOK' /\ UploadInv(u)'
  BY UploadTypes, UploadKeeps DEF IInv
<1>2. TypeOK /\ UploadInv(u)
  BY DEF IInv
<1>3. ASSUME NEW x \in Upload \ {u} PROVE UploadInv(x)'
  <2>1. /\ pass' # "gone" => pass' = pass
        /\ step'[x] = step[x] /\ kind'[x] = kind[x] /\ row'[x] = row[x] /\ dir'[x] = dir[x]
        /\ x \in sup' <=> x \in sup
        /\ x \in copies' <=> x \in copies
        /\ x \in staging' <=> x \in staging
        /\ x \in url' <=> x \in url
        /\ x \in passed' <=> x \in passed
        /\ x \in cut' <=> x \in cut
    BY <1>2, UploadFrame
  <2>2. UploadInv(x) /\ (Whole(x)' <=> Whole(x))
    BY <2>1 DEF IInv, Whole
  <2>3. QED
    BY <2>1, <2>2 DEF UploadInv, InTransaction
<1>4. /\ UNCHANGED <<tok, readers, lapsed>>
      /\ \A x \in Upload : /\ row[x] = "committed" => row'[x] = "committed"
                           /\ dir[x] # "none" => dir'[x] # "none"
  BY <1>2, UploadFrame
<1>5. TokenInv'
  BY <1>4, TokenAssumption DEF IInv, TokenInv
<1>6. ReaderInv'
  BY <1>4, TokenAssumption DEF IInv, ReaderInv, readers
<1>7. QED
  BY <1>1, <1>3, <1>5, <1>6 DEF IInv

-------------------------------------------------------------------------------
\* A token may run out at any time.
LEMMA ExpiryPreserves ==
  ASSUME IInv, ExpirePass \/ GeneratePass \/ \E t \in Token : ExpireToken(t)
  PROVE  IInv'
<1> USE DEF files, uploads, readers
<1>1. CASE ExpirePass \/ GeneratePass
  <2> USE <1>1 DEF ExpirePass, GeneratePass, PassPruned
  <2>1. TypeOK'
    BY DEF IInv, TypeOK
  <2>2. \A u \in Upload : UploadInv(u)'
    BY DEF IInv, UploadInv, InTransaction, Whole
  <2>3. TokenInv' /\ ReaderInv'
    BY DEF IInv, TokenInv, ReaderInv
  <2>4. QED
    BY <2>1, <2>2, <2>3 DEF IInv
<1>2. ASSUME NEW t \in Token, ExpireToken(t) PROVE IInv'
  <2> USE <1>2 DEF ExpireToken
  <2>1. TypeOK'
    BY DEF IInv, TypeOK
  <2>2. \A u \in Upload : UploadInv(u)'
    BY DEF IInv, UploadInv, InTransaction, Whole
  <2>3. \A x \in Token : /\ tok'[x] = "none" <=> tok[x] = "none"
                         /\ tok'[x] = "gone" <=> tok[x] = "gone"
    BY DEF IInv, TypeOK
  <2>4. TokenInv' /\ ReaderInv'
    BY <2>3 DEF IInv, TokenInv, ReaderInv
  <2>5. QED
    BY <2>1, <2>2, <2>4 DEF IInv
<1>3. QED
  BY <1>1, <1>2

\* So may a job's privacy change.
LEMMA PrivacyPreserves ==
  ASSUME IInv, NEW u \in Upload, SetPrivate(u)
  PROVE  IInv'
<1> USE DEF SetPrivate, database, files, uploads, readers
<1>1. TypeOK'
  BY DEF IInv, TypeOK
<1>2. \A x \in Upload : UploadInv(x)'
  BY DEF IInv, UploadInv, InTransaction, Whole
<1>3. TokenInv' /\ ReaderInv'
  BY DEF IInv, TokenInv, ReaderInv
<1>4. QED
  BY <1>1, <1>2, <1>3 DEF IInv

\* Pruning never takes a token that is still live, and makes none.
LEMMA PruningSpares ==
  ASSUME TypeOK
  PROVE  /\ Pruned \in [Token -> {"none", "live", "gone"}]
         /\ \A t \in Token : /\ Pruned[t] = "none" <=> tok[t] = "none"
                             /\ Pruned[t] = "live" <=> tok[t] = "live"
                             /\ tok[t] = "gone" => Pruned[t] = "gone"
                             /\ Pruned[t] = "gone" => tok[t] \in {"old", "gone"}
BY DEF TypeOK, Pruned

\* A step of a reader keeps the invariant.
LEMMA ReaderPreserves ==
  ASSUME IInv, NEW r \in Reader, ReaderStep(r)
  PROVE  IInv'
<1> USE DEF Tell, Turn, database, files, uploads
<1>1. /\ UNCHANGED <<pass, step, kind, row, sup, url, staging, dir, copies, doc, private,
                     passed, cut, lapsed>>
      /\ \A q \in Reader \ {r} : rpc'[q] = rpc[q] /\ want'[q] = want[q]
  BY DEF IInv, TypeOK, ReaderStep, OpenListing, List, BeginExchange, BeginDownload, Begin,
         Exchange, Download
<1>2. \A u \in Upload : UploadInv(u)'
  BY <1>1 DEF IInv, UploadInv, InTransaction, Whole
<1>3. ASSUME NEW t \in Token, OpenListing(r, t) PROVE TypeOK' /\ TokenInv' /\ ReaderInv'
  <2> USE <1>3 DEF OpenListing, Visible
  <2>1. TypeOK'
    BY DEF IInv, TypeOK
  <2>2. TokenInv'
    BY DEF IInv, TokenInv
  <2>3. ReaderInv'
    BY <1>1, TokenAssumption DEF IInv, TypeOK, ReaderInv
  <2>4. QED
    BY <2>1, <2>2, <2>3
<1>4. ASSUME List(r) PROVE TypeOK' /\ TokenInv' /\ ReaderInv'
  <2> USE <1>4 DEF List
  <2>1. TypeOK'
    BY DEF IInv, TypeOK, ReaderInv
  <2>2. PICK t \in Token : t = want[r]
    BY DEF IInv, ReaderInv
  <2>3. tok[t] = "none" /\ row[Of[t]] = "committed" /\ \A q \in Reader \ {r} : want[q] # t
    BY <2>2 DEF IInv, ReaderInv
  <2>4. \/ tok' = tok
        \/ dir[Of[t]] # "none" /\ tok' = [tok EXCEPT ![t] = "live"]
    BY <2>2 DEF IInv
  <2>5. TokenInv'
    BY <2>3, <2>4, TokenAssumption DEF IInv, TypeOK, TokenInv
  <2>6. ReaderInv'
    BY <1>1, <2>2, <2>3, <2>4, TokenAssumption DEF IInv, TypeOK, ReaderInv
  <2>7. QED
    BY <2>1, <2>5, <2>6
<1>5. ASSUME NEW t \in Token, NEW s \in {"exchange", "download"}, Begin(r, t, s)
      PROVE  TypeOK' /\ TokenInv' /\ ReaderInv'
  <2> USE <1>5 DEF Begin
  <2>1. TypeOK'
    BY PruningSpares DEF IInv, TypeOK
  <2>2. TokenInv'
    BY PruningSpares DEF IInv, TokenInv
  <2>3. ASSUME NEW q \in Reader \ {r}
        PROVE  /\ rpc[q] = "list" => \A p \in Reader \ {q} :
                                         want[p] # want[q] /\ tok[want[q]] = "none"
               /\ rpc[q] \in {"exchange", "download"} => (q \in began' <=> q \in began)
    BY DEF IInv, ReaderInv
  <2>4. rpc'[r] # "list" /\ want'[r] = t /\ tok[t] # "none"
        /\ (r \in began' \/ Pruned[t] = "gone")
    BY PruningSpares DEF IInv, TypeOK
  <2>5. ReaderInv'
    BY <1>1, <2>3, <2>4, PruningSpares DEF IInv, TypeOK, ReaderInv
  <2>6. QED
    BY <2>1, <2>2, <2>5
<1>6. CASE Exchange(r) \/ Download(r)
  <2> USE <1>6 DEF Exchange, Download
  <2>1. TypeOK'
    BY DEF IInv, TypeOK
  <2>2. TokenInv'
    BY DEF IInv, TokenInv
  <2>3. ReaderInv'
    BY <1>1, TokenAssumption DEF IInv, TypeOK, ReaderInv
  <2>4. QED
    BY <1>2, <2>1, <2>2, <2>3 DEF IInv
<1>7. QED
  BY <1>2, <1>3, <1>4, <1>5, <1>6 DEF IInv, ReaderStep, BeginExchange, BeginDownload

-------------------------------------------------------------------------------
\* The invariant holds at first.
LEMMA InitInv == Init => IInv
<1> SUFFICES ASSUME Init PROVE IInv
  OBVIOUS
<1> USE DEF Init
<1>1. TypeOK
  BY DEF TypeOK, Working, Kind
<1>2. \A u \in Upload : UploadInv(u)
  BY DEF UploadInv, InTransaction
<1>3. TokenInv /\ ReaderInv
  BY DEF TokenInv, ReaderInv
<1>4. QED
  BY <1>1, <1>2, <1>3 DEF IInv

\* Uploads do their steps in order, a token is for a file that was there, a
\* reader's token was live when it began or was pruned: it always holds.
THEOREM WorkInOrder == Spec => []IInv
<1>1. ASSUME IInv, UNCHANGED vars PROVE IInv'
  <2> USE <1>1 DEF vars, database, files, uploads, readers
  <2>1. TypeOK'
    BY DEF IInv, TypeOK
  <2>2. \A u \in Upload : UploadInv(u)'
    BY DEF IInv, UploadInv, InTransaction, Whole
  <2>3. TokenInv' /\ ReaderInv'
    BY DEF IInv, TokenInv, ReaderInv
  <2>4. QED
    BY <2>1, <2>2, <2>3 DEF IInv
<1>2. IInv /\ [Next]_vars => IInv'
  BY <1>1, UploadPreserves, ExpiryPreserves, PrivacyPreserves, ReaderPreserves DEF Next
<1>3. QED
  BY <1>2, InitInv, PTL DEF Spec

\* Every variable keeps its type.
THEOREM TypesHold == Spec => []TypeOK
<1>1. IInv => TypeOK
  BY DEF IInv
<1>2. QED
  BY <1>1, WorkInOrder, PTL

\* Uploads are whole or nothing, wherever they fail or are killed.
THEOREM UploadsAreWhole == Spec => []WholeOrNothing
<1>1. IInv => WholeOrNothing
  BY DEF IInv, UploadInv, WholeOrNothing, InTransaction
<1>2. QED
  BY <1>1, WorkInOrder, PTL

\* Whoever's pruning comes between, an upload with a job began with a live token.
THEOREM UploadsBeginLive == Spec => []UploadsHadPass
<1>1. IInv => UploadsHadPass
  BY DEF IInv, UploadInv, UploadsHadPass
<1>2. QED
  BY <1>1, WorkInOrder, PTL

\* An answer to a download is what became of its token.
LEMMA AnswersFit ==
  ASSUME IInv, [Next]_vars, NEW r \in Reader, NEW what \in {"served", "refused"},
         Says(r, what)
  PROVE  /\ what = "served" => Download(r) /\ Found(r)
         /\ what = "refused" =>
              \/ Exchange(r) /\ ~Found(r)
              \/ Download(r) /\ ~(Found(r) /\ dir[Of[want[r]]] # "none")
<1> USE DEF IInv, TypeOK, Says
<1>1. ASSUME NEW u \in Upload, UploadStep(u) PROVE FALSE
  BY <1>1, UploadFrame DEF readers
<1>2. CASE UNCHANGED vars \/ ExpirePass \/ GeneratePass \/ (\E t \in Token : ExpireToken(t))
                          \/ \E u \in Upload : SetPrivate(u)
  BY <1>2 DEF vars, readers, ExpirePass, GeneratePass, ExpireToken, SetPrivate
<1>3. ASSUME NEW q \in Reader, ReaderStep(q), ~(Exchange(r) \/ Download(r)) PROVE FALSE
  <2>1. ASSUME NEW t \in Token, OpenListing(q, t) \/ BeginExchange(q, t) \/ BeginDownload(q, t)
        PROVE  FALSE
    BY <2>1 DEF OpenListing, BeginExchange, BeginDownload, Begin
  <2>2. CASE List(q)
    BY <2>2 DEF List, Tell
  <2>3. CASE q # r /\ (Exchange(q) \/ Download(q))
    BY <2>3 DEF Exchange, Download, Tell
  <2>4. QED
    BY <1>3, <2>1, <2>2, <2>3 DEF ReaderStep
<1>4. CASE Exchange(r) \/ Download(r)
  BY <1>4 DEF Exchange, Download, Tell
<1>5. QED
  BY <1>1, <1>2, <1>3, <1>4 DEF Next

\* What is served belongs to a whole job, and its token was live when asked.
THEOREM OnlyOwedIsServed == Spec => ServedIsOwed
<1>1. IInv /\ [Next]_vars =>
        [\A r \in Reader : Says(r, "served") =>
            r \in began /\ row[Of[want[r]]] = "committed"]_vars
  <2> SUFFICES ASSUME IInv, [Next]_vars, NEW r \in Reader, Says(r, "served")
               PROVE  r \in began /\ row[Of[want[r]]] = "committed"
    OBVIOUS
  <2>1. Download(r) /\ Found(r)
    BY AnswersFit
  <2>2. want[r] \in Token /\ tok[want[r]] # "none" /\ r \in began
    BY <2>1 DEF IInv, ReaderInv, Download, Found
  <2>3. QED
    BY <2>2 DEF IInv, TokenInv
<1>2. QED
  BY <1>1, WorkInOrder, PTL DEF Spec, ServedIsOwed

\* A token is refused only once its time ran out.
THEOREM LiveTokensServe == Spec => LiveIsServed
<1>1. IInv /\ [Next]_vars =>
        [\A r \in Reader : Says(r, "refused") => want[r] \in lapsed]_vars
  <2> SUFFICES ASSUME IInv, [Next]_vars, NEW r \in Reader, Says(r, "refused")
               PROVE  want[r] \in lapsed
    OBVIOUS
  <2>1. \/ Exchange(r) /\ ~Found(r)
        \/ Download(r) /\ ~(Found(r) /\ dir[Of[want[r]]] # "none")
    BY AnswersFit
  <2>2. want[r] \in Token /\ tok[want[r]] # "none"
    BY <2>1 DEF IInv, ReaderInv, Exchange, Download
  <2>3. QED
    BY <2>1, <2>2 DEF IInv, TypeOK, TokenInv, Found
<1>2. QED
  BY <1>1, WorkInOrder, PTL DEF Spec, LiveIsServed

===============================================================================
