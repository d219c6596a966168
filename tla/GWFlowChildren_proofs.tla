------------------------- MODULE GWFlowChildren_proofs -------------------------
(***************************************************************************)
(* Proofs about GWFlowChildren, for any superevents, analyses, caps and    *)
(* bounds: no listed analysis is forgotten, no id of an uploaded job is    *)
(* dropped while it is needed, and giving up is final.                     *)
(***************************************************************************)
EXTENDS GWFlowChildren, WellFoundedInduction, TLAPS

\* Where an analysis is at hand, and where a superevent is.
AnalysisPc == {"fetch", "upload", "setref", "link", "relink", "clear", "reclear"}
ListPc     == AnalysisPc \cup {"linked", "next"}

\* Before the phase nothing is at hand; in it, what is at hand has a row.
RunInv ==
  /\ pc \in {"idle", "files"} => processing = {} /\ over = {}
  /\ pc \in ListPc => processing # {}
  /\ pc \in {"idle", "files", "detail", "linked"} => seen = {}
  /\ pc \in AnalysisPc => uid \in Uid /\ cerr[key] >= 0
  /\ pc \in {"setref", "link", "clear"} => files < MaxFiles
  /\ \A s \in processing : perr[s] >= 0
  /\ \A k \in over : cerr[k] = MaxRetry \/ k \in linked

\* What the answers to the run's questions say of GWCloud stays true.
CloudInv ==
  /\ \A u \in seen : <<cur, u>> \in linked
  /\ pc \in {"setref", "link", "relink"} => key \in jobs
  /\ pc \in {"clear", "reclear"} => key \in linked

\* Nothing is linked or noted as uploaded that GWCloud has no job for, and the
\* id goes no later than the row.
RefInv == linked \subseteq jobs /\ ref \subseteq jobs /\ \A k \in ref : cerr[k] >= 0

\* An analysis of the superevent at hand is still to do, needs nothing now, or was
\* not in the detail.
WorkInv ==
  pc \in ListPc =>
    cur \in dirty \/ \A u \in Uid : <<cur, u>> \in listed =>
      \/ u \in todo \/ <<cur, u>> \in linked \/ cerr[<<cur, u>>] \in 0..MaxRetry
      \/ <<cur, u>> \in hidden

IInv == /\ TypeOK /\ RunInv /\ CloudInv /\ WorkInv
        /\ OrphanHasRef /\ RefInv /\ NothingForgotten

-------------------------------------------------------------------------------
\* The superevent at hand is one of those still to do.
LEMMA CurIsThere ==
  ASSUME TypeOK, processing # {}
  PROVE  cur \in processing /\ cur \in Sname
<1> DEFINE R == OpToRel(<, Nat)
           L == {p \in Nat \X Nat : p[1] < p[2]}
<1>1. processing \subseteq Nat /\ processing \subseteq Sname
  BY NameAssumption DEF TypeOK, LocalTypes
<1>2. R = L
  BY Zenon DEF OpToRel
<1>3. PICK s \in processing : \A q \in processing : <<q, s>> \notin L
  <2>1. IsWellFoundedOn(L, Nat)
    BY NatLessThanWellFounded, <1>2, Zenon
  <2> HIDE DEF L
  <2>2. QED
    BY <1>1, <2>1, WFMin, Zenon
<1>4. \A q \in processing : s <= q
  <2> TAKE q \in processing
  <2>1. q \in Nat /\ s \in Nat /\ <<q, s>> \notin L
    BY <1>1, <1>3
  <2>2. QED
    BY <2>1
<1>5. \E x \in processing : \A q \in processing : x <= q
  BY <1>4
<1>6. cur \in processing
  BY <1>5, Zenon DEF cur
<1>7. QED
  BY <1>1, <1>6

\* The counts stay under the cap, and a count that is there stays there.
LEMMA Counts ==
  ASSUME NEW n \in NoKey..MaxRetry
  PROVE  /\ Counted(n) \in 0..MaxRetry /\ (n = MaxRetry => Counted(n) = MaxRetry)
         /\ Counted(n) # 0
         /\ Ensured(n) \in 0..MaxRetry /\ (n >= 0 => Ensured(n) = n)
<1>1. MaxRetry \in Nat \ {0} /\ n \in Int /\ n >= -1 /\ n <= MaxRetry
  BY LimitAssumption DEF NoKey
<1>2. Counted(n) \in 0..MaxRetry /\ (n = MaxRetry => Counted(n) = MaxRetry) /\ Counted(n) # 0
  BY <1>1 DEF Counted
<1>3. Ensured(n) \in 0..MaxRetry /\ (n >= 0 => Ensured(n) = n)
  BY <1>1 DEF Ensured
<1>4. QED
  BY <1>2, <1>3

\* A count that is there is under the cap or at it.
LEMMA UnderOrAt ==
  ASSUME NEW n \in NoKey..MaxRetry
  PROVE  /\ n >= 0 => UnderCap(n) \/ n = MaxRetry
         /\ UnderCap(n) => n \in 0..MaxRetry /\ n # MaxRetry
         /\ n \in 0..MaxRetry <=> n >= 0
BY LimitAssumption DEF UnderCap, NoKey

\* Every step that leaves the superevents still to do alone leaves the one at hand.
LEMMA CurStays ==
  /\ processing' = processing => cur' = cur
  /\ processing' = processing /\ uid' = uid => key' = key
BY DEF cur, key

\* The rows have the counts they may have.
LEMMA Ranges ==
  /\ NoKey \in NoKey..MaxRetry /\ 0 \in NoKey..MaxRetry /\ 0..MaxRetry \subseteq NoKey..MaxRetry
  /\ MaxRetry \in 0..MaxRetry /\ 0 # MaxRetry
BY LimitAssumption DEF NoKey

\* While a superevent is at hand its analyses have keys, and so has the one at hand.
LEMMA KeyIsThere ==
  ASSUME TypeOK, RunInv, pc \in ListPc
  PROVE  /\ cur \in Sname /\ cur \in processing
         /\ perr[cur] \in 0..MaxRetry
         /\ \A u \in Uid : <<cur, u>> \in Key /\ cerr[<<cur, u>>] \in NoKey..MaxRetry
         /\ pc \in AnalysisPc => key \in Key /\ cerr[key] \in 0..MaxRetry /\ key[1] = cur
<1>1. cur \in Sname /\ cur \in processing
  BY CurIsThere DEF RunInv
<1>2. perr[cur] \in 0..MaxRetry
  BY <1>1, UnderOrAt DEF TypeOK, StoreTypes, RunInv
<1>3. \A u \in Uid : <<cur, u>> \in Key /\ cerr[<<cur, u>>] \in NoKey..MaxRetry
  BY <1>1 DEF Key, TypeOK, StoreTypes
<1>4. ASSUME pc \in AnalysisPc
      PROVE  key \in Key /\ cerr[key] \in 0..MaxRetry /\ key[1] = cur
  <2>1. key = <<cur, uid>> /\ uid \in Uid /\ cerr[key] >= 0
    BY <1>4 DEF RunInv, key
  <2>2. QED
    BY <1>3, <2>1, UnderOrAt
<1>5. QED
  BY <1>1, <1>2, <1>3, <1>4

\* A step that touches only rows of the superevent at hand, and leaves its marker,
\* forgets nothing.
LEMMA MarkerKeeps ==
  ASSUME TypeOK, NothingForgotten, TypeOK', pc \in ListPc, RunInv,
         UNCHANGED <<listed, dirty, hidden>>, linked \subseteq linked',
         perr'[cur] \in 0..MaxRetry,
         \A s \in Sname : s # cur => perr'[s] = perr[s],
         \A k \in Key : k[1] # cur => cerr'[k] = cerr[k]
  PROVE  NothingForgotten'
<1>1. ASSUME NEW s \in Sname, s # cur PROVE ChildrenUnder(s)' = ChildrenUnder(s)
  <2>1. \A u \in Uid : <<s, u>> \in Key /\ <<s, u>>[1] # cur
    BY <1>1 DEF Key
  <2>2. QED
    BY <2>1 DEF ChildrenUnder
<1>2. ASSUME NEW k \in listed
      PROVE  Settled(k)' \/ k[1] \in dirty' \/ Retryable(k[1])' \/ k \in hidden'
  <2>1. k \in Key /\ k[1] \in Sname
    BY DEF TypeOK, StoreTypes, Key
  <2>2. CASE k[1] = cur
    <3>1. UnderCap(perr'[cur]) \/ perr'[cur] = MaxRetry
      BY UnderOrAt, Ranges
    <3>2. QED
      BY <2>2, <3>1 DEF Settled, Retryable
  <2>3. CASE k[1] # cur
    <3>1. perr'[k[1]] = perr[k[1]] /\ cerr'[k] = cerr[k]
          /\ ChildrenUnder(k[1])' = ChildrenUnder(k[1])
      BY <1>1, <2>1, <2>3
    <3>2. Settled(k) \/ k[1] \in dirty \/ Retryable(k[1]) \/ k \in hidden
      BY DEF NothingForgotten
    <3>3. QED
      BY <3>1, <3>2 DEF Settled, Retryable
  <2>4. QED
    BY <2>2, <2>3
<1>3. QED
  BY <1>2 DEF NothingForgotten

\* The initial states have the invariant.
LEMMA InitInv == Init => IInv
<1> SUFFICES ASSUME Init PROVE IInv
  OBVIOUS
<1>1. TypeOK
  <2>1. /\ NoKey \in NoKey..MaxRetry
        /\ 0 \in 0..MaxFiles /\ 0 \in 0..MaxCrashes /\ 0 \in 0..MaxEdits /\ 0 \in 0..MaxShort
    BY LimitAssumption DEF NoKey
  <2>2. QED
    BY <2>1 DEF Init, TypeOK, StoreTypes, LocalTypes, Pc
<1>2. RunInv /\ CloudInv /\ WorkInv
  BY DEF Init, RunInv, CloudInv, WorkInv, ListPc, AnalysisPc
<1>3. OrphanHasRef /\ RefInv /\ NothingForgotten
  BY DEF Init, OrphanHasRef, RefInv, NothingForgotten
<1>4. QED
  BY <1>1, <1>2, <1>3 DEF IInv

\* IInv is inductive: while a superevent is at hand its marker is there, so that
\* no row that goes takes the last reason to come back with it.
THEOREM ChildrenInvariant == Spec => []IInv
<1> USE NameAssumption, LimitAssumption
    DEF portal, cloud, sqlite, inner, local, past, ListPc, AnalysisPc
<1>1. ASSUME IInv, [Next]_vars PROVE IInv'
  <2> USE <1>1 DEF IInv
  <2>1. ASSUME NEW s \in Sname, NEW A \in SUBSET Uid, Edit(s, A) PROVE IInv'
    <3>1. StoreTypes'
      BY <2>1, CurIsThere, CurStays, Counts, UnderOrAt DEF Edit, TypeOK, StoreTypes,
         LocalTypes, Key
    <3>2. LocalTypes'
      BY <2>1, CurIsThere, CurStays, Counts, UnderOrAt DEF Edit, TypeOK, StoreTypes,
         LocalTypes, Pc, RunInv
    <3>3. RunInv'
      BY <2>1, CurIsThere, CurStays, Counts, UnderOrAt DEF Edit, TypeOK, StoreTypes,
         LocalTypes, RunInv, Key, key
    <3>4. CloudInv'
      BY <2>1, CurIsThere, CurStays, Counts, UnderOrAt DEF Edit, TypeOK, RunInv,
         CloudInv, RefInv, key
    <3>5. WorkInv'
      BY <2>1, CurIsThere, CurStays, Counts, UnderOrAt DEF Edit, TypeOK, StoreTypes,
         LocalTypes, RunInv, CloudInv, WorkInv, key, Key
    <3>6. OrphanHasRef'
      BY <2>1, CurIsThere, CurStays, Counts, UnderOrAt DEF Edit, TypeOK, RunInv,
         CloudInv, OrphanHasRef, key
    <3>7. RefInv'
      BY <2>1, CurIsThere, CurStays, Counts, UnderOrAt DEF Edit, TypeOK, StoreTypes,
         LocalTypes, RunInv, CloudInv, RefInv, key, Key
    <3>8. NothingForgotten'
      <4>1. /\ UNCHANGED <<linked, perr, cerr>> /\ dirty' = dirty \cup {s}
            /\ listed' = {k \in listed : k[1] # s} \cup ({s} \X A)
            /\ hidden' = {k \in hidden : k[1] # s}
        BY <2>1 DEF Edit
      <4>2. ASSUME NEW k \in listed'
            PROVE  Settled(k)' \/ k[1] \in dirty' \/ Retryable(k[1])' \/ k \in hidden'
        <5>1. CASE k[1] = s
          BY <4>1, <5>1
        <5>2. CASE k[1] # s
          BY <4>1, <5>2 DEF NothingForgotten, Settled, Retryable, ChildrenUnder
        <5>3. QED
          BY <5>1, <5>2
      <4>3. QED
        BY <4>2 DEF NothingForgotten
    <3>9. QED
      BY <3>1, <3>2, <3>3, <3>4, <3>5, <3>6, <3>7, <3>8 DEF TypeOK
  <2>2. ASSUME NEW k \in Key, OperatorResets(k) PROVE IInv'
    <3>1. StoreTypes'
      BY <2>2, Ranges DEF OperatorResets, TypeOK, StoreTypes
    <3>2. LocalTypes'
      BY <2>2, CurIsThere, CurStays, Counts, UnderOrAt DEF OperatorResets, TypeOK,
         StoreTypes, LocalTypes, Pc, RunInv
    <3>3. RunInv'
      BY <2>2, CurIsThere, CurStays, Counts, UnderOrAt DEF OperatorResets, TypeOK,
         StoreTypes, LocalTypes, RunInv, Key, key
    <3>4. CloudInv'
      BY <2>2, CurIsThere, CurStays, Counts, UnderOrAt DEF OperatorResets, TypeOK,
         RunInv, CloudInv, RefInv, key
    <3>5. WorkInv'
      BY <2>2, CurIsThere, CurStays, Counts, UnderOrAt DEF OperatorResets, TypeOK,
         StoreTypes, LocalTypes, RunInv, CloudInv, WorkInv, key, Key
    <3>6. OrphanHasRef'
      BY <2>2, CurIsThere, CurStays, Counts, UnderOrAt DEF OperatorResets, TypeOK,
         RunInv, CloudInv, OrphanHasRef, key
    <3>7. RefInv'
      BY <2>2, CurIsThere, CurStays, Counts, UnderOrAt DEF OperatorResets, TypeOK,
         StoreTypes, LocalTypes, RunInv, CloudInv, RefInv, key, Key
    <3>8. NothingForgotten'
      <4>1. /\ UNCHANGED <<listed, dirty, linked, perr, hidden>> /\ cerr'[k] = 0 /\ cerr[k] = MaxRetry
            /\ \A q \in Key : q # k => cerr'[q] = cerr[q]
        BY <2>2 DEF OperatorResets, TypeOK, StoreTypes
      <4>2. UnderCap(0) /\ ~UnderCap(MaxRetry)
        BY LimitAssumption DEF UnderCap
      <4>3. \A s \in Sname : ChildrenUnder(s) \subseteq ChildrenUnder(s)'
        BY <4>1, <4>2 DEF ChildrenUnder, Key
      <4>4. ChildrenUnder(k[1])' # {}
        <5>1. k[2] \in Uid /\ k = <<k[1], k[2]>>
          BY DEF Key
        <5>2. QED
          BY <4>1, <4>2, <5>1 DEF ChildrenUnder
      <4>5. ASSUME NEW q \in listed
            PROVE  Settled(q)' \/ q[1] \in dirty' \/ Retryable(q[1])' \/ q \in hidden'
        <5>1. q \in Key /\ q[1] \in Sname
          BY DEF TypeOK, StoreTypes, Key
        <5>2. Settled(q) \/ q[1] \in dirty \/ Retryable(q[1]) \/ q \in hidden
          BY DEF NothingForgotten
        <5>3. QED
          BY <4>1, <4>3, <4>4, <5>1, <5>2 DEF Settled, Retryable
      <4>6. QED
        BY <4>1, <4>5 DEF NothingForgotten
    <3>9. QED
      BY <3>1, <3>2, <3>3, <3>4, <3>5, <3>6, <3>7, <3>8 DEF TypeOK
  <2>3. ASSUME NEW S \in SUBSET Sname, Metadata(S) PROVE IInv'
    <3>1. StoreTypes'
      BY <2>3, Counts, Ranges DEF Metadata, TypeOK, StoreTypes
    <3>2. LocalTypes'
      BY <2>3, CurIsThere, CurStays, Counts, UnderOrAt DEF Metadata, TypeOK,
         StoreTypes, LocalTypes, Pc, RunInv
    <3>3. RunInv'
      BY <2>3, CurIsThere, CurStays, Counts, UnderOrAt DEF Metadata, TypeOK,
         StoreTypes, LocalTypes, RunInv, Key, key
    <3>4. CloudInv'
      BY <2>3, CurIsThere, CurStays, Counts, UnderOrAt DEF Metadata, TypeOK, RunInv,
         CloudInv, RefInv, key
    <3>5. WorkInv'
      BY <2>3, CurIsThere, CurStays, Counts, UnderOrAt DEF Metadata, TypeOK,
         StoreTypes, LocalTypes, RunInv, CloudInv, WorkInv, key, Key
    <3>6. OrphanHasRef'
      BY <2>3, CurIsThere, CurStays, Counts, UnderOrAt DEF Metadata, TypeOK, RunInv,
         CloudInv, OrphanHasRef, key
    <3>7. RefInv'
      BY <2>3, CurIsThere, CurStays, Counts, UnderOrAt DEF Metadata, TypeOK,
         StoreTypes, LocalTypes, RunInv, CloudInv, RefInv, key, Key
    <3>8. NothingForgotten'
      <4>1. /\ UNCHANGED <<listed, linked, cerr, hidden>> /\ dirty' = dirty \ S
            /\ \A s \in S : perr'[s] \in 0..MaxRetry
            /\ \A s \in Sname \ S : perr'[s] = perr[s]
        BY <2>3, Counts DEF Metadata, TypeOK, StoreTypes
      <4>2. \A s \in S : UnderCap(perr'[s]) \/ perr'[s] = MaxRetry
        BY <4>1, UnderOrAt, Ranges
      <4>3. ASSUME NEW k \in listed
            PROVE  Settled(k)' \/ k[1] \in dirty' \/ Retryable(k[1])' \/ k \in hidden'
        <5>1. k[1] \in Sname
          BY DEF TypeOK, StoreTypes, Key
        <5>2. Settled(k) \/ k[1] \in dirty \/ Retryable(k[1]) \/ k \in hidden
          BY DEF NothingForgotten
        <5>3. QED
          BY <4>1, <4>2, <5>1, <5>2 DEF Settled, Retryable, ChildrenUnder
      <4>4. QED
        BY <4>1, <4>3 DEF NothingForgotten
    <3>9. QED
      BY <3>1, <3>2, <3>3, <3>4, <3>5, <3>6, <3>7, <3>8 DEF TypeOK
  <2>4. CASE FileMirrorRaises \/ EndChildren \/ ClusterOffline \/ CapReached
    <3>1. StoreTypes'
      <4>1. UNCHANGED <<listed, dirty, edits, jobs, linked, perr, cerr, ref, changed>>
        BY <2>4 DEF FileMirrorRaises, EndChildren, ClusterOffline, CapReached,
           portal, cloud, sqlite
      <4>2. QED
        BY <4>1 DEF TypeOK, StoreTypes
    <3>2. LocalTypes'
      BY <2>4, CurIsThere, CurStays, Counts, UnderOrAt DEF FileMirrorRaises,
         EndChildren, ClusterOffline, CapReached, EndRun, TypeOK, StoreTypes,
         LocalTypes, Pc, RunInv
    <3>3. RunInv'
      BY <2>4, CurIsThere, CurStays, Counts, UnderOrAt DEF FileMirrorRaises,
         EndChildren, ClusterOffline, CapReached, EndRun, TypeOK, StoreTypes,
         LocalTypes, RunInv, Key, key
    <3>4. CloudInv'
      BY <2>4, CurIsThere, CurStays, Counts, UnderOrAt DEF FileMirrorRaises,
         EndChildren, ClusterOffline, CapReached, EndRun, TypeOK, RunInv, CloudInv,
         RefInv, key
    <3>5. WorkInv'
      BY <2>4, CurIsThere, CurStays, Counts, UnderOrAt DEF FileMirrorRaises,
         EndChildren, ClusterOffline, CapReached, EndRun, TypeOK, StoreTypes,
         LocalTypes, RunInv, CloudInv, WorkInv, key, Key
    <3>6. OrphanHasRef'
      BY <2>4, CurIsThere, CurStays, Counts, UnderOrAt DEF FileMirrorRaises,
         EndChildren, ClusterOffline, CapReached, EndRun, TypeOK, RunInv, CloudInv,
         OrphanHasRef, key
    <3>7. RefInv'
      BY <2>4, CurIsThere, CurStays, Counts, UnderOrAt DEF FileMirrorRaises,
         EndChildren, ClusterOffline, CapReached, EndRun, TypeOK, StoreTypes,
         LocalTypes, RunInv, CloudInv, RefInv, key, Key
    <3>8. NothingForgotten'
      BY <2>4, CurIsThere, CurStays, Counts, UnderOrAt DEF FileMirrorRaises,
         EndChildren, ClusterOffline, CapReached, EndRun, TypeOK, StoreTypes,
         LocalTypes, RunInv, CloudInv, WorkInv, NothingForgotten, Settled, Retryable,
         ChildrenUnder, key, Key
    <3>9. QED
      BY <3>1, <3>2, <3>3, <3>4, <3>5, <3>6, <3>7, <3>8 DEF TypeOK
  <2>5. CASE StartChildren
    <3>1. StoreTypes'
      BY <2>5, Counts, Ranges DEF StartChildren, ProcessOwed, TypeOK, StoreTypes
    <3>2. LocalTypes'
      BY <2>5, CurIsThere, CurStays, Counts, UnderOrAt DEF StartChildren, ProcessOwed,
         TypeOK, StoreTypes, LocalTypes, Pc, RunInv
    <3>3. RunInv'
      BY <2>5, CurIsThere, CurStays, Counts, UnderOrAt DEF StartChildren, ProcessOwed,
         TypeOK, StoreTypes, LocalTypes, RunInv, Key, key
    <3>4. CloudInv'
      BY <2>5, CurIsThere, CurStays, Counts, UnderOrAt DEF StartChildren, ProcessOwed,
         TypeOK, RunInv, CloudInv, RefInv, key
    <3>5. WorkInv'
      BY <2>5, CurIsThere, CurStays, Counts, UnderOrAt DEF StartChildren, ProcessOwed,
         TypeOK, StoreTypes, LocalTypes, RunInv, CloudInv, WorkInv, key, Key
    <3>6. OrphanHasRef'
      BY <2>5, CurIsThere, CurStays, Counts, UnderOrAt DEF StartChildren, ProcessOwed,
         TypeOK, RunInv, CloudInv, OrphanHasRef, key
    <3>7. RefInv'
      BY <2>5, CurIsThere, CurStays, Counts, UnderOrAt DEF StartChildren, ProcessOwed,
         TypeOK, StoreTypes, LocalTypes, RunInv, CloudInv, RefInv, key, Key
    <3>8. NothingForgotten'
      <4>1. \A s \in Sname : /\ perr[s] \in NoKey..MaxRetry
                            /\ perr'[s] \in {perr[s], Ensured(perr[s])}
        BY <2>5 DEF StartChildren, ProcessOwed, TypeOK, StoreTypes
      <4>2. \A s \in Sname : (UnderCap(perr[s]) => UnderCap(perr'[s]))
                            /\ (perr[s] = MaxRetry => perr'[s] = MaxRetry)
        BY <4>1, Counts, UnderOrAt, Ranges
      <4>3. UNCHANGED <<listed, dirty, linked, cerr, hidden>>
        BY <2>5 DEF StartChildren
      <4>4. ASSUME NEW k \in listed
            PROVE  Settled(k)' \/ k[1] \in dirty' \/ Retryable(k[1])' \/ k \in hidden'
        <5>1. k[1] \in Sname
          BY DEF TypeOK, StoreTypes, Key
        <5>2. Settled(k) \/ k[1] \in dirty \/ Retryable(k[1]) \/ k \in hidden
          BY DEF NothingForgotten
        <5>3. QED
          BY <4>2, <4>3, <5>1, <5>2 DEF Settled, Retryable, ChildrenUnder
      <4>5. QED
        BY <4>3, <4>4 DEF NothingForgotten
    <3>9. QED
      BY <3>1, <3>2, <3>3, <3>4, <3>5, <3>6, <3>7, <3>8 DEF TypeOK
  <2>6. CASE DetailOk
    <3>1. PICK A \in SUBSET {u \in Uid : <<cur, u>> \in listed} :
            /\ todo' = A /\ shorts' \in {shorts, shorts + 1} /\ shorts' <= MaxShort
            /\ hidden' = {k \in hidden : k[1] # cur}
                           \cup ({cur} \X ({u \in Uid : <<cur, u>> \in listed} \ A))
      BY <2>6 DEF DetailOk
    <3>2. /\ pc = "detail" /\ processing # {} /\ pc' = "linked"
          /\ UNCHANGED <<portal, cloud, sqlite, processing, over, seen, uid, files,
                         crashes, lost, cur, key>>
      BY <2>6, CurStays DEF DetailOk
    <3>3. cur \in Sname /\ cur \in processing /\ perr[cur] \in 0..MaxRetry
      BY <3>2, CurIsThere, UnderOrAt DEF TypeOK, StoreTypes, RunInv
    <3>4. shorts' \in 0..MaxShort
      BY <3>1 DEF TypeOK, LocalTypes
    <3>5. TypeOK'
      BY <3>1, <3>2, <3>3, <3>4 DEF TypeOK, StoreTypes, LocalTypes, Pc, Key
    <3>6. RunInv' /\ CloudInv' /\ OrphanHasRef' /\ RefInv'
      BY <3>2 DEF RunInv, CloudInv, OrphanHasRef, RefInv
    <3>7. WorkInv'
      BY <3>1, <3>2 DEF WorkInv
    <3>8. NothingForgotten'
      <4>1. ASSUME NEW k \in listed
            PROVE  Settled(k)' \/ k[1] \in dirty' \/ Retryable(k[1])' \/ k \in hidden'
        <5>1. CASE k[1] = cur
          <6>1. UnderCap(perr[cur]) \/ perr[cur] = MaxRetry
            BY <3>3, UnderOrAt, Ranges
          <6>2. QED
            BY <3>2, <5>1, <6>1 DEF Settled, Retryable
        <5>2. CASE k[1] # cur
          BY <3>1, <3>2, <5>2 DEF NothingForgotten, Settled, Retryable, ChildrenUnder
        <5>3. QED
          BY <5>1, <5>2
      <4>2. QED
        BY <3>2, <4>1 DEF NothingForgotten
    <3>9. QED
      BY <3>5, <3>6, <3>7, <3>8
  <2>7. CASE LinkedOk
    <3>1. StoreTypes'
      BY <2>7, CurIsThere, CurStays, Counts, UnderOrAt DEF LinkedOk, TypeOK,
         StoreTypes, LocalTypes, Key
    <3>2. LocalTypes'
      BY <2>7, CurIsThere, CurStays, Counts, UnderOrAt DEF LinkedOk, TypeOK,
         StoreTypes, LocalTypes, Pc, RunInv
    <3>3. RunInv'
      BY <2>7, CurIsThere, CurStays, Counts, UnderOrAt DEF LinkedOk, TypeOK,
         StoreTypes, LocalTypes, RunInv, Key, key
    <3>4. CloudInv'
      BY <2>7, CurIsThere, CurStays, Counts, UnderOrAt DEF LinkedOk, TypeOK, RunInv,
         CloudInv, RefInv, key
    <3>5. WorkInv'
      BY <2>7, CurIsThere, CurStays, Counts, UnderOrAt DEF LinkedOk, TypeOK,
         StoreTypes, LocalTypes, RunInv, CloudInv, WorkInv, key, Key
    <3>6. OrphanHasRef'
      BY <2>7, CurIsThere, CurStays, Counts, UnderOrAt DEF LinkedOk, TypeOK, RunInv,
         CloudInv, OrphanHasRef, key
    <3>7. RefInv'
      BY <2>7, CurIsThere, CurStays, Counts, UnderOrAt DEF LinkedOk, TypeOK,
         StoreTypes, LocalTypes, RunInv, CloudInv, RefInv, key, Key
    <3>8. NothingForgotten'
      BY <2>7 DEF LinkedOk, NothingForgotten, Settled, Retryable, ChildrenUnder
    <3>9. QED
      BY <3>1, <3>2, <3>3, <3>4, <3>5, <3>6, <3>7, <3>8 DEF TypeOK
  <2>8. CASE SupereventFails
    <3>1. StoreTypes'
      BY <2>8, CurIsThere, Counts, Ranges DEF SupereventFails, NextSuperevent, TypeOK,
         StoreTypes
    <3>2. LocalTypes'
      BY <2>8, CurIsThere, CurStays, Counts, UnderOrAt DEF SupereventFails,
         NextSuperevent, TypeOK, StoreTypes, LocalTypes, Pc, RunInv
    <3>3. RunInv'
      BY <2>8, CurIsThere, CurStays, Counts, UnderOrAt DEF SupereventFails,
         NextSuperevent, TypeOK, StoreTypes, LocalTypes, RunInv, Key, key
    <3>4. CloudInv'
      BY <2>8, CurIsThere, CurStays, Counts, UnderOrAt DEF SupereventFails,
         NextSuperevent, TypeOK, RunInv, CloudInv, RefInv, key
    <3>5. WorkInv'
      BY <2>8, CurIsThere, CurStays, Counts, UnderOrAt DEF SupereventFails,
         NextSuperevent, TypeOK, StoreTypes, LocalTypes, RunInv, CloudInv, WorkInv,
         key, Key
    <3>6. OrphanHasRef'
      BY <2>8, CurIsThere, CurStays, Counts, UnderOrAt DEF SupereventFails,
         NextSuperevent, TypeOK, RunInv, CloudInv, OrphanHasRef, key
    <3>7. RefInv'
      BY <2>8, CurIsThere, CurStays, Counts, UnderOrAt DEF SupereventFails,
         NextSuperevent, TypeOK, StoreTypes, LocalTypes, RunInv, CloudInv,
         RefInv, key, Key
    <3>8. NothingForgotten'
      <4>1. cur \in Sname /\ perr'[cur] \in 0..MaxRetry
        BY <2>8, CurIsThere, Counts DEF SupereventFails, TypeOK, StoreTypes
      <4>2. UnderCap(perr'[cur]) \/ perr'[cur] = MaxRetry
        BY <4>1, UnderOrAt, Ranges
      <4>3. \A s \in Sname : s # cur => perr'[s] = perr[s]
        BY <2>8 DEF SupereventFails, TypeOK, StoreTypes
      <4>4. UNCHANGED <<listed, dirty, linked, cerr, hidden>>
        BY <2>8 DEF SupereventFails
      <4>5. ASSUME NEW k \in listed
            PROVE  Settled(k)' \/ k[1] \in dirty' \/ Retryable(k[1])' \/ k \in hidden'
        <5>1. k[1] \in Sname
          BY DEF TypeOK, StoreTypes, Key
        <5>2. Settled(k) \/ k[1] \in dirty \/ Retryable(k[1]) \/ k \in hidden
          BY DEF NothingForgotten
        <5>3. QED
          BY <4>2, <4>3, <4>4, <5>1, <5>2 DEF Settled, Retryable, ChildrenUnder
      <4>6. QED
        BY <4>4, <4>5 DEF NothingForgotten
    <3>9. QED
      BY <3>1, <3>2, <3>3, <3>4, <3>5, <3>6, <3>7, <3>8 DEF TypeOK
  <2>9. CASE CloseSuperevent
    <3>1. StoreTypes'
      BY <2>9, KeyIsThere, Counts, Ranges DEF CloseSuperevent, NextSuperevent,
         NoRemaining, TypeOK, StoreTypes
    <3>2. LocalTypes'
      BY <2>9, CurIsThere, CurStays, Counts, UnderOrAt DEF CloseSuperevent,
         NextSuperevent, NoRemaining, ChildrenUnder, TypeOK, StoreTypes, LocalTypes,
         Pc, RunInv
    <3>3. RunInv'
      BY <2>9, CurIsThere, CurStays, Counts, UnderOrAt DEF CloseSuperevent,
         NextSuperevent, NoRemaining, ChildrenUnder, TypeOK, StoreTypes, LocalTypes,
         RunInv, Key, key
    <3>4. CloudInv'
      BY <2>9, CurIsThere, CurStays, Counts, UnderOrAt DEF CloseSuperevent,
         NextSuperevent, NoRemaining, ChildrenUnder, TypeOK, RunInv, CloudInv,
         RefInv, key
    <3>5. WorkInv'
      BY <2>9, CurIsThere, CurStays, Counts, UnderOrAt DEF CloseSuperevent,
         NextSuperevent, NoRemaining, ChildrenUnder, TypeOK, StoreTypes, LocalTypes,
         RunInv, CloudInv, WorkInv, key, Key
    <3>6. OrphanHasRef'
      BY <2>9, CurIsThere, CurStays, Counts, UnderOrAt DEF CloseSuperevent,
         NextSuperevent, NoRemaining, ChildrenUnder, TypeOK, RunInv, CloudInv,
         OrphanHasRef, key
    <3>7. RefInv'
      BY <2>9, CurIsThere, CurStays, Counts, UnderOrAt DEF CloseSuperevent,
         NextSuperevent, NoRemaining, ChildrenUnder, TypeOK, StoreTypes, LocalTypes,
         RunInv, CloudInv, RefInv, key, Key
    <3>8. NothingForgotten'
      BY <2>9, CurIsThere, CurStays, Counts, UnderOrAt DEF CloseSuperevent,
         NextSuperevent, NoRemaining, ChildrenUnder, TypeOK, StoreTypes, LocalTypes,
         RunInv, CloudInv, WorkInv, NothingForgotten, Settled, Retryable, key, Key
    <3>9. QED
      BY <3>1, <3>2, <3>3, <3>4, <3>5, <3>6, <3>7, <3>8 DEF TypeOK
  <2>10. ASSUME NEW u \in Uid, AlreadyLinked(u) PROVE IInv'
    <3>1. StoreTypes'
      BY <2>10, KeyIsThere, Counts, Ranges DEF AlreadyLinked, DeleteRow, TypeOK,
         StoreTypes
    <3>2. LocalTypes'
      BY <2>10, CurIsThere, CurStays, Counts, UnderOrAt DEF AlreadyLinked, DeleteRow,
         TypeOK, StoreTypes, LocalTypes, Pc, RunInv
    <3>3. RunInv'
      BY <2>10, KeyIsThere, CurStays DEF AlreadyLinked, DeleteRow, TypeOK, StoreTypes,
         LocalTypes, RunInv, CloudInv
    <3>4. CloudInv'
      BY <2>10, CurIsThere, CurStays, Counts, UnderOrAt DEF AlreadyLinked, DeleteRow,
         TypeOK, RunInv, CloudInv, RefInv, key
    <3>5. WorkInv'
      BY <2>10, CurIsThere, CurStays, Counts, UnderOrAt DEF AlreadyLinked, DeleteRow,
         TypeOK, StoreTypes, LocalTypes, RunInv, CloudInv, WorkInv, key, Key
    <3>6. OrphanHasRef'
      BY <2>10, CurIsThere, CurStays, Counts, UnderOrAt DEF AlreadyLinked, DeleteRow,
         TypeOK, RunInv, CloudInv, OrphanHasRef, key
    <3>7. RefInv'
      BY <2>10, CurIsThere, CurStays, Counts, UnderOrAt DEF AlreadyLinked, DeleteRow,
         TypeOK, StoreTypes, LocalTypes, RunInv, CloudInv, RefInv, key, Key
    <3>8. NothingForgotten'
      <4>1. /\ UNCHANGED <<listed, dirty, perr, hidden>> /\ linked \subseteq linked'
            /\ pc \in ListPc
        BY <2>10 DEF AlreadyLinked, DeleteRow
      <4>2. perr'[cur] \in 0..MaxRetry /\ <<cur, u>> \in Key /\ <<cur, u>>[1] = cur
        BY <2>10, <4>1, KeyIsThere DEF AlreadyLinked
      <4>3. \A k \in Key : k[1] # cur => cerr'[k] = cerr[k]
        BY <2>10, <4>2 DEF AlreadyLinked, DeleteRow, TypeOK, StoreTypes
      <4>4. TypeOK'
        BY <3>1, <3>2 DEF TypeOK
      <4>5. QED
        BY <4>1, <4>2, <4>3, <4>4, MarkerKeeps
    <3>9. QED
      BY <3>1, <3>2, <3>3, <3>4, <3>5, <3>6, <3>7, <3>8 DEF TypeOK
  <2>11. ASSUME NEW u \in Uid, GivenUp(u) PROVE IInv'
    <3>1. StoreTypes'
      BY <2>11, CurIsThere, CurStays, Counts, UnderOrAt DEF GivenUp, TypeOK,
         StoreTypes, LocalTypes, Key
    <3>2. LocalTypes'
      BY <2>11, CurIsThere, CurStays, Counts, UnderOrAt DEF GivenUp, TypeOK,
         StoreTypes, LocalTypes, Pc, RunInv
    <3>3. RunInv'
      BY <2>11, CurIsThere, CurStays, Counts, UnderOrAt DEF GivenUp, TypeOK,
         StoreTypes, LocalTypes, RunInv, Key, key
    <3>4. CloudInv'
      BY <2>11, CurIsThere, CurStays, Counts, UnderOrAt DEF GivenUp, TypeOK, RunInv,
         CloudInv, RefInv, key
    <3>5. WorkInv'
      BY <2>11, CurIsThere, CurStays, Counts, UnderOrAt DEF GivenUp, TypeOK,
         StoreTypes, LocalTypes, RunInv, CloudInv, WorkInv, key, Key
    <3>6. OrphanHasRef'
      BY <2>11, CurIsThere, CurStays, Counts, UnderOrAt DEF GivenUp, TypeOK, RunInv,
         CloudInv, OrphanHasRef, key
    <3>7. RefInv'
      BY <2>11, CurIsThere, CurStays, Counts, UnderOrAt DEF GivenUp, TypeOK,
         StoreTypes, LocalTypes, RunInv, CloudInv, RefInv, key, Key
    <3>8. NothingForgotten'
      BY <2>11 DEF GivenUp, NothingForgotten, Settled, Retryable, ChildrenUnder
    <3>9. QED
      BY <3>1, <3>2, <3>3, <3>4, <3>5, <3>6, <3>7, <3>8 DEF TypeOK
  <2>12. ASSUME NEW u \in Uid, Begin(u) PROVE IInv'
    <3>1. StoreTypes'
      BY <2>12, KeyIsThere, Counts, Ranges DEF Begin, Resume, TypeOK, StoreTypes
    <3>2. LocalTypes'
      BY <2>12, CurIsThere, CurStays, Counts, UnderOrAt DEF Begin, Resume, TypeOK,
         StoreTypes, LocalTypes, Pc, RunInv
    <3>3. RunInv'
      BY <2>12, CurIsThere, CurStays, Counts, UnderOrAt DEF Begin, Resume, TypeOK,
         StoreTypes, LocalTypes, RunInv, Key, key
    <3>4. CloudInv'
      BY <2>12, CurIsThere, CurStays, Counts, UnderOrAt DEF Begin, Resume, TypeOK,
         RunInv, CloudInv, RefInv, key
    <3>5. WorkInv'
      BY <2>12, CurIsThere, CurStays, Counts, UnderOrAt DEF Begin, Resume, TypeOK,
         StoreTypes, LocalTypes, RunInv, CloudInv, WorkInv, key, Key
    <3>6. OrphanHasRef'
      BY <2>12, CurIsThere, CurStays, Counts, UnderOrAt DEF Begin, Resume, TypeOK,
         RunInv, CloudInv, OrphanHasRef, key
    <3>7. RefInv'
      BY <2>12, CurIsThere, CurStays, Counts, UnderOrAt DEF Begin, Resume, TypeOK,
         StoreTypes, LocalTypes, RunInv, CloudInv, RefInv, key, Key
    <3>8. NothingForgotten'
      <4>1. /\ UNCHANGED <<listed, dirty, perr, hidden>> /\ linked \subseteq linked'
            /\ pc \in ListPc
        BY <2>12 DEF Begin, Resume
      <4>2. perr'[cur] \in 0..MaxRetry /\ <<cur, u>> \in Key /\ <<cur, u>>[1] = cur
        BY <2>12, <4>1, KeyIsThere DEF Begin
      <4>3. \A k \in Key : k[1] # cur => cerr'[k] = cerr[k]
        BY <2>12, <4>2 DEF Begin, Resume, TypeOK, StoreTypes
      <4>4. TypeOK'
        BY <3>1, <3>2 DEF TypeOK
      <4>5. QED
        BY <4>1, <4>2, <4>3, <4>4, MarkerKeeps
    <3>9. QED
      BY <3>1, <3>2, <3>3, <3>4, <3>5, <3>6, <3>7, <3>8 DEF TypeOK
  <2>13. CASE FetchOk
    <3>1. StoreTypes'
      BY <2>13, CurIsThere, CurStays, Counts, UnderOrAt DEF FetchOk, TypeOK,
         StoreTypes, LocalTypes, Key
    <3>2. LocalTypes'
      BY <2>13, CurIsThere, CurStays, Counts, UnderOrAt DEF FetchOk, TypeOK,
         StoreTypes, LocalTypes, Pc, RunInv
    <3>3. RunInv'
      BY <2>13, CurIsThere, CurStays, Counts, UnderOrAt DEF FetchOk, TypeOK,
         StoreTypes, LocalTypes, RunInv, Key, key
    <3>4. CloudInv'
      BY <2>13, CurIsThere, CurStays, Counts, UnderOrAt DEF FetchOk, TypeOK, RunInv,
         CloudInv, RefInv, key
    <3>5. WorkInv'
      BY <2>13, CurIsThere, CurStays, Counts, UnderOrAt DEF FetchOk, TypeOK,
         StoreTypes, LocalTypes, RunInv, CloudInv, WorkInv, key, Key
    <3>6. OrphanHasRef'
      BY <2>13, CurIsThere, CurStays, Counts, UnderOrAt DEF FetchOk, TypeOK, RunInv,
         CloudInv, OrphanHasRef, key
    <3>7. RefInv'
      BY <2>13, CurIsThere, CurStays, Counts, UnderOrAt DEF FetchOk, TypeOK,
         StoreTypes, LocalTypes, RunInv, CloudInv, RefInv, key, Key
    <3>8. NothingForgotten'
      BY <2>13, CurIsThere, CurStays, Counts, UnderOrAt DEF FetchOk, TypeOK,
         StoreTypes, LocalTypes, RunInv, CloudInv, WorkInv, NothingForgotten, Settled,
         Retryable, ChildrenUnder, key, Key
    <3>9. QED
      BY <3>1, <3>2, <3>3, <3>4, <3>5, <3>6, <3>7, <3>8 DEF TypeOK
  <2>14. CASE FetchFails \/ UploadFails
    <3>1. StoreTypes'
      BY <2>14, KeyIsThere, Counts, Ranges DEF FetchFails, UploadFails, CountFailure,
         NextAnalysis, TypeOK, StoreTypes
    <3>2. LocalTypes'
      BY <2>14, KeyIsThere DEF FetchFails, UploadFails, CountFailure, NextAnalysis,
         TypeOK, LocalTypes, Pc
    <3>3. RunInv'
      <4>1. /\ pc' = "next" /\ cerr' = [cerr EXCEPT ![key] = Counted(@)]
            /\ UNCHANGED <<perr, processing, over, seen, files, linked>>
            /\ pc \in {"fetch", "upload"}
        BY <2>14 DEF FetchFails, UploadFails, CountFailure, NextAnalysis, cloud
      <4>2. \A k \in over : cerr'[k] = MaxRetry \/ k \in linked'
        BY <4>1, Counts, UnderOrAt, Ranges DEF TypeOK, StoreTypes, LocalTypes, RunInv
      <4>3. QED
        BY <4>1, <4>2, Ranges DEF RunInv, ListPc, AnalysisPc
    <3>4. CloudInv'
      BY <2>14, CurIsThere, CurStays, Counts, UnderOrAt DEF FetchFails, UploadFails,
         CountFailure, NextAnalysis, TypeOK, RunInv, CloudInv, RefInv, key
    <3>5. WorkInv'
      BY <2>14, CurIsThere, CurStays, Counts, UnderOrAt DEF FetchFails, UploadFails,
         CountFailure, NextAnalysis, TypeOK, StoreTypes, LocalTypes, RunInv, CloudInv,
         WorkInv, key, Key
    <3>6. OrphanHasRef'
      BY <2>14, CurIsThere, CurStays, Counts, UnderOrAt DEF FetchFails, UploadFails,
         CountFailure, NextAnalysis, TypeOK, RunInv, CloudInv, OrphanHasRef, key
    <3>7. RefInv'
      BY <2>14, CurIsThere, CurStays, Counts, UnderOrAt DEF FetchFails, UploadFails,
         CountFailure, NextAnalysis, TypeOK, StoreTypes, LocalTypes, RunInv, CloudInv,
         RefInv, key, Key
    <3>8. NothingForgotten'
      <4>1. /\ UNCHANGED <<listed, dirty, perr, hidden>> /\ linked \subseteq linked'
            /\ pc \in ListPc
        BY <2>14 DEF FetchFails, UploadFails, CountFailure, NextAnalysis
      <4>2. perr'[cur] \in 0..MaxRetry /\ key \in Key /\ key[1] = cur
        BY <2>14, <4>1, KeyIsThere DEF FetchFails, UploadFails
      <4>3. \A k \in Key : k[1] # cur => cerr'[k] = cerr[k]
        BY <2>14, <4>2 DEF FetchFails, UploadFails, CountFailure, NextAnalysis, TypeOK,
           StoreTypes
      <4>4. TypeOK'
        BY <3>1, <3>2 DEF TypeOK
      <4>5. QED
        BY <4>1, <4>2, <4>3, <4>4, MarkerKeeps
    <3>9. QED
      BY <3>1, <3>2, <3>3, <3>4, <3>5, <3>6, <3>7, <3>8 DEF TypeOK
  <2>15. CASE UploadOk
    <3>1. StoreTypes'
      BY <2>15, KeyIsThere, Counts, Ranges DEF UploadOk, TypeOK, StoreTypes
    <3>2. LocalTypes'
      BY <2>15, CurIsThere, CurStays, Counts, UnderOrAt DEF UploadOk, TypeOK,
         StoreTypes, LocalTypes, Pc, RunInv
    <3>3. RunInv'
      BY <2>15, CurIsThere, CurStays, Counts, UnderOrAt DEF UploadOk, TypeOK,
         StoreTypes, LocalTypes, RunInv, Key, key
    <3>4. CloudInv'
      BY <2>15, CurIsThere, CurStays, Counts, UnderOrAt DEF UploadOk, TypeOK, RunInv,
         CloudInv, RefInv, key
    <3>5. WorkInv'
      BY <2>15, CurIsThere, CurStays, Counts, UnderOrAt DEF UploadOk, TypeOK,
         StoreTypes, LocalTypes, RunInv, CloudInv, WorkInv, key, Key
    <3>6. OrphanHasRef'
      BY <2>15, CurIsThere, CurStays, Counts, UnderOrAt DEF UploadOk, TypeOK, RunInv,
         CloudInv, OrphanHasRef, key
    <3>7. RefInv'
      BY <2>15, CurIsThere, CurStays, Counts, UnderOrAt DEF UploadOk, TypeOK,
         StoreTypes, LocalTypes, RunInv, CloudInv, RefInv, key, Key
    <3>8. NothingForgotten'
      BY <2>15, CurIsThere, CurStays, Counts, UnderOrAt DEF UploadOk, TypeOK,
         StoreTypes, LocalTypes, RunInv, CloudInv, WorkInv, NothingForgotten, Settled,
         Retryable, ChildrenUnder, key, Key
    <3>9. QED
      BY <3>1, <3>2, <3>3, <3>4, <3>5, <3>6, <3>7, <3>8 DEF TypeOK
  <2>16. CASE UploadAnswerLost
    <3>1. StoreTypes'
      BY <2>16, KeyIsThere, Counts, Ranges DEF UploadAnswerLost, CountFailure,
         NextAnalysis, TypeOK, StoreTypes
    <3>2. LocalTypes'
      BY <2>16, KeyIsThere DEF UploadAnswerLost, CountFailure, NextAnalysis, TypeOK,
         LocalTypes, Pc
    <3>3. RunInv'
      BY <2>16, CurIsThere, CurStays, Counts, UnderOrAt DEF UploadAnswerLost,
         CountFailure, NextAnalysis, TypeOK, StoreTypes, LocalTypes, RunInv, Key, key
    <3>4. CloudInv'
      BY <2>16, CurIsThere, CurStays, Counts, UnderOrAt DEF UploadAnswerLost,
         CountFailure, NextAnalysis, TypeOK, RunInv, CloudInv, RefInv, key
    <3>5. WorkInv'
      BY <2>16, CurIsThere, CurStays, Counts, UnderOrAt DEF UploadAnswerLost,
         CountFailure, NextAnalysis, TypeOK, StoreTypes, LocalTypes, RunInv, CloudInv,
         WorkInv, key, Key
    <3>6. OrphanHasRef'
      BY <2>16, CurIsThere, CurStays, Counts, UnderOrAt DEF UploadAnswerLost,
         CountFailure, NextAnalysis, TypeOK, RunInv, CloudInv, OrphanHasRef, key
    <3>7. RefInv'
      BY <2>16, CurIsThere, CurStays, Counts, UnderOrAt DEF UploadAnswerLost,
         CountFailure, NextAnalysis, TypeOK, StoreTypes, LocalTypes, RunInv, CloudInv,
         RefInv, key, Key
    <3>8. NothingForgotten'
      <4>1. /\ UNCHANGED <<listed, dirty, perr, hidden>> /\ linked \subseteq linked'
            /\ pc \in ListPc
        BY <2>16 DEF UploadAnswerLost, CountFailure, NextAnalysis
      <4>2. perr'[cur] \in 0..MaxRetry /\ key \in Key /\ key[1] = cur
        BY <2>16, <4>1, KeyIsThere DEF UploadAnswerLost
      <4>3. \A k \in Key : k[1] # cur => cerr'[k] = cerr[k]
        BY <2>16, <4>2 DEF UploadAnswerLost, CountFailure, NextAnalysis, TypeOK, StoreTypes
      <4>4. TypeOK'
        BY <3>1, <3>2 DEF TypeOK
      <4>5. QED
        BY <4>1, <4>2, <4>3, <4>4, MarkerKeeps
    <3>9. QED
      BY <3>1, <3>2, <3>3, <3>4, <3>5, <3>6, <3>7, <3>8 DEF TypeOK
  <2>17. CASE SetJobRef
    <3>1. StoreTypes'
      BY <2>17, KeyIsThere, Counts, Ranges DEF SetJobRef, StoreRef, TypeOK, StoreTypes
    <3>2. LocalTypes'
      BY <2>17, CurIsThere, CurStays, Counts, UnderOrAt DEF SetJobRef, StoreRef,
         TypeOK, StoreTypes, LocalTypes, Pc, RunInv
    <3>3. RunInv'
      BY <2>17, CurIsThere, CurStays, Counts, UnderOrAt DEF SetJobRef, StoreRef,
         TypeOK, StoreTypes, LocalTypes, RunInv, Key, key
    <3>4. CloudInv'
      BY <2>17, CurIsThere, CurStays, Counts, UnderOrAt DEF SetJobRef, StoreRef,
         TypeOK, RunInv, CloudInv, RefInv, key
    <3>5. WorkInv'
      BY <2>17, CurIsThere, CurStays, Counts, UnderOrAt DEF SetJobRef, StoreRef,
         TypeOK, StoreTypes, LocalTypes, RunInv, CloudInv, WorkInv, key, Key
    <3>6. OrphanHasRef'
      BY <2>17, CurIsThere, CurStays, Counts, UnderOrAt DEF SetJobRef, StoreRef,
         TypeOK, RunInv, CloudInv, OrphanHasRef, key
    <3>7. RefInv'
      BY <2>17, CurIsThere, CurStays, Counts, UnderOrAt DEF SetJobRef, StoreRef,
         TypeOK, StoreTypes, LocalTypes, RunInv, CloudInv, RefInv, key, Key
    <3>8. NothingForgotten'
      BY <2>17, CurIsThere, CurStays, Counts, UnderOrAt DEF SetJobRef, StoreRef,
         TypeOK, StoreTypes, LocalTypes, RunInv, CloudInv, WorkInv, NothingForgotten,
         Settled, Retryable, ChildrenUnder, key, Key
    <3>9. QED
      BY <3>1, <3>2, <3>3, <3>4, <3>5, <3>6, <3>7, <3>8 DEF TypeOK
  <2>18. CASE LinkOk
    <3>1. StoreTypes'
      BY <2>18, KeyIsThere, Counts, Ranges DEF LinkOk, TypeOK, StoreTypes
    <3>2. LocalTypes'
      BY <2>18, CurIsThere, CurStays, Counts, UnderOrAt DEF LinkOk, TypeOK,
         StoreTypes, LocalTypes, Pc, RunInv
    <3>3. RunInv'
      BY <2>18, CurIsThere, CurStays, Counts, UnderOrAt DEF LinkOk, TypeOK,
         StoreTypes, LocalTypes, RunInv, Key, key
    <3>4. CloudInv'
      BY <2>18, CurIsThere, CurStays, Counts, UnderOrAt DEF LinkOk, TypeOK, RunInv,
         CloudInv, RefInv, key
    <3>5. WorkInv'
      BY <2>18, CurIsThere, CurStays, Counts, UnderOrAt DEF LinkOk, TypeOK,
         StoreTypes, LocalTypes, RunInv, CloudInv, WorkInv, key, Key
    <3>6. OrphanHasRef'
      BY <2>18, CurIsThere, CurStays, Counts, UnderOrAt DEF LinkOk, TypeOK, RunInv,
         CloudInv, OrphanHasRef, key
    <3>7. RefInv'
      BY <2>18, CurIsThere, CurStays, Counts, UnderOrAt DEF LinkOk, TypeOK,
         StoreTypes, LocalTypes, RunInv, CloudInv, RefInv, key, Key
    <3>8. NothingForgotten'
      BY <2>18, CurIsThere, CurStays, Counts, UnderOrAt DEF LinkOk, TypeOK,
         StoreTypes, LocalTypes, RunInv, CloudInv, WorkInv, NothingForgotten, Settled,
         Retryable, ChildrenUnder, key, Key
    <3>9. QED
      BY <3>1, <3>2, <3>3, <3>4, <3>5, <3>6, <3>7, <3>8 DEF TypeOK
  <2>19. CASE LinkFails
    <3>1. StoreTypes'
      BY <2>19, KeyIsThere, Counts, Ranges DEF LinkFails, CountFailure, NextAnalysis,
         TypeOK, StoreTypes
    <3>2. LocalTypes'
      BY <2>19, CurIsThere, CurStays, Counts, UnderOrAt DEF LinkFails, CountFailure,
         NextAnalysis, TypeOK, StoreTypes, LocalTypes, Pc, RunInv
    <3>3. RunInv'
      BY <2>19, CurIsThere, CurStays, Counts, UnderOrAt DEF LinkFails, CountFailure,
         NextAnalysis, TypeOK, StoreTypes, LocalTypes, RunInv, Key, key
    <3>4. CloudInv'
      BY <2>19, CurIsThere, CurStays, Counts, UnderOrAt DEF LinkFails, CountFailure,
         NextAnalysis, TypeOK, RunInv, CloudInv, RefInv, key
    <3>5. WorkInv'
      BY <2>19, CurIsThere, CurStays, Counts, UnderOrAt DEF LinkFails, CountFailure,
         NextAnalysis, TypeOK, StoreTypes, LocalTypes, RunInv, CloudInv, WorkInv, key,
         Key
    <3>6. OrphanHasRef'
      BY <2>19, CurIsThere, CurStays, Counts, UnderOrAt DEF LinkFails, CountFailure,
         NextAnalysis, TypeOK, RunInv, CloudInv, OrphanHasRef, key
    <3>7. RefInv'
      BY <2>19, CurIsThere, CurStays, Counts, UnderOrAt DEF LinkFails, CountFailure,
         NextAnalysis, TypeOK, StoreTypes, LocalTypes, RunInv, CloudInv, RefInv,
         key, Key
    <3>8. NothingForgotten'
      <4>1. /\ UNCHANGED <<listed, dirty, perr, hidden>> /\ linked \subseteq linked'
            /\ pc \in ListPc
        BY <2>19 DEF LinkFails, CountFailure, NextAnalysis
      <4>2. perr'[cur] \in 0..MaxRetry /\ key \in Key /\ key[1] = cur
        BY <2>19, <4>1, KeyIsThere DEF LinkFails
      <4>3. \A k \in Key : k[1] # cur => cerr'[k] = cerr[k]
        BY <2>19, <4>2 DEF LinkFails, CountFailure, NextAnalysis, TypeOK, StoreTypes
      <4>4. TypeOK'
        BY <3>1, <3>2 DEF TypeOK
      <4>5. QED
        BY <4>1, <4>2, <4>3, <4>4, MarkerKeeps
    <3>9. QED
      BY <3>1, <3>2, <3>3, <3>4, <3>5, <3>6, <3>7, <3>8 DEF TypeOK
  <2>20. CASE ClearFailure
    <3>1. StoreTypes'
      BY <2>20, KeyIsThere, Counts, Ranges DEF ClearFailure, DeleteRow, NextAnalysis,
         TypeOK, StoreTypes
    <3>2. LocalTypes'
      BY <2>20, CurIsThere, CurStays, Counts, UnderOrAt DEF ClearFailure, DeleteRow,
         NextAnalysis, TypeOK, StoreTypes, LocalTypes, Pc, RunInv
    <3>3. RunInv'
      BY <2>20, KeyIsThere, CurStays DEF ClearFailure, DeleteRow, NextAnalysis, TypeOK,
         StoreTypes, LocalTypes, RunInv, CloudInv
    <3>4. CloudInv'
      BY <2>20, CurIsThere, CurStays, Counts, UnderOrAt DEF ClearFailure, DeleteRow,
         NextAnalysis, TypeOK, RunInv, CloudInv, RefInv, key
    <3>5. WorkInv'
      BY <2>20, CurIsThere, CurStays, Counts, UnderOrAt DEF ClearFailure, DeleteRow,
         NextAnalysis, TypeOK, StoreTypes, LocalTypes, RunInv, CloudInv, WorkInv, key,
         Key
    <3>6. OrphanHasRef'
      BY <2>20, CurIsThere, CurStays, Counts, UnderOrAt DEF ClearFailure, DeleteRow,
         NextAnalysis, TypeOK, RunInv, CloudInv, OrphanHasRef, key
    <3>7. RefInv'
      BY <2>20, CurIsThere, CurStays, Counts, UnderOrAt DEF ClearFailure, DeleteRow,
         NextAnalysis, TypeOK, StoreTypes, LocalTypes, RunInv, CloudInv, RefInv,
         key, Key
    <3>8. NothingForgotten'
      <4>1. /\ UNCHANGED <<listed, dirty, perr, hidden>> /\ linked \subseteq linked'
            /\ pc \in ListPc
        BY <2>20 DEF ClearFailure, DeleteRow, NextAnalysis
      <4>2. perr'[cur] \in 0..MaxRetry /\ key \in Key /\ key[1] = cur
        BY <2>20, <4>1, KeyIsThere DEF ClearFailure
      <4>3. \A k \in Key : k[1] # cur => cerr'[k] = cerr[k]
        BY <2>20, <4>2 DEF ClearFailure, DeleteRow, NextAnalysis, TypeOK, StoreTypes
      <4>4. TypeOK'
        BY <3>1, <3>2 DEF TypeOK
      <4>5. QED
        BY <4>1, <4>2, <4>3, <4>4, MarkerKeeps
    <3>9. QED
      BY <3>1, <3>2, <3>3, <3>4, <3>5, <3>6, <3>7, <3>8 DEF TypeOK
  <2>21. CASE Crash
    <3>1. StoreTypes'
      BY <2>21, CurIsThere, CurStays, Counts, UnderOrAt DEF Crash, EndRun, TypeOK,
         StoreTypes, LocalTypes, Key
    <3>2. LocalTypes'
      BY <2>21, KeyIsThere DEF Crash, EndRun, TypeOK, LocalTypes, Pc
    <3>3. RunInv'
      BY <2>21, CurIsThere, CurStays, Counts, UnderOrAt DEF Crash, EndRun, TypeOK,
         StoreTypes, LocalTypes, RunInv, Key, key
    <3>4. CloudInv'
      BY <2>21, CurIsThere, CurStays, Counts, UnderOrAt DEF Crash, EndRun, TypeOK,
         RunInv, CloudInv, RefInv, key
    <3>5. WorkInv'
      BY <2>21, CurIsThere, CurStays, Counts, UnderOrAt DEF Crash, EndRun, TypeOK,
         StoreTypes, LocalTypes, RunInv, CloudInv, WorkInv, key, Key
    <3>6. OrphanHasRef'
      BY <2>21, CurIsThere, CurStays, Counts, UnderOrAt DEF Crash, EndRun, TypeOK,
         RunInv, CloudInv, OrphanHasRef, key
    <3>7. RefInv'
      BY <2>21, CurIsThere, CurStays, Counts, UnderOrAt DEF Crash, EndRun, TypeOK,
         StoreTypes, LocalTypes, RunInv, CloudInv, RefInv, key, Key
    <3>8. NothingForgotten'
      BY <2>21 DEF Crash, NothingForgotten, Settled, Retryable, ChildrenUnder
    <3>9. QED
      BY <3>1, <3>2, <3>3, <3>4, <3>5, <3>6, <3>7, <3>8 DEF TypeOK
  <2>22. CASE UNCHANGED vars
    <3>1. StoreTypes'
      BY <2>22, CurIsThere, CurStays, Counts, UnderOrAt DEF vars, TypeOK, StoreTypes,
         LocalTypes, Key
    <3>2. LocalTypes'
      BY <2>22, CurIsThere, CurStays, Counts, UnderOrAt DEF vars, TypeOK, StoreTypes,
         LocalTypes, Pc, RunInv
    <3>3. RunInv'
      BY <2>22, CurIsThere, CurStays, Counts, UnderOrAt DEF vars, TypeOK, StoreTypes,
         LocalTypes, RunInv, Key, key
    <3>4. CloudInv'
      BY <2>22, CurIsThere, CurStays, Counts, UnderOrAt DEF vars, TypeOK, RunInv,
         CloudInv, RefInv, key
    <3>5. WorkInv'
      BY <2>22, CurIsThere, CurStays, Counts, UnderOrAt DEF vars, TypeOK, StoreTypes,
         LocalTypes, RunInv, CloudInv, WorkInv, key, Key
    <3>6. OrphanHasRef'
      BY <2>22, CurIsThere, CurStays, Counts, UnderOrAt DEF vars, TypeOK, RunInv,
         CloudInv, OrphanHasRef, key
    <3>7. RefInv'
      BY <2>22, CurIsThere, CurStays, Counts, UnderOrAt DEF vars, TypeOK, StoreTypes,
         LocalTypes, RunInv, CloudInv, RefInv, key, Key
    <3>8. NothingForgotten'
      BY <2>22, CurIsThere, CurStays, Counts, UnderOrAt DEF vars, TypeOK, StoreTypes,
         LocalTypes, RunInv, CloudInv, WorkInv, NothingForgotten, Settled, Retryable,
         ChildrenUnder, key, Key
    <3>9. QED
      BY <3>1, <3>2, <3>3, <3>4, <3>5, <3>6, <3>7, <3>8 DEF TypeOK
  <2>23. QED
    BY <2>1, <2>2, <2>3, <2>4, <2>5, <2>6, <2>7, <2>8, <2>9, <2>10, <2>11, <2>12,
       <2>13, <2>14, <2>15, <2>16, <2>17, <2>18, <2>19, <2>20, <2>21, <2>22
       DEF Next, RunStep, AnalysisStep
<1>2. QED
  BY InitInv, <1>1, PTL DEF Spec

\* The types hold.
THEOREM TypesHold == Spec => []TypeOK
BY ChildrenInvariant, PTL DEF IInv

\* No failure, broken-off phase or kill loses an analysis the portal lists, other than
\* a malformed detail that does not show it.
THEOREM NoAnalysisIsForgotten == Spec => []NothingForgotten
BY ChildrenInvariant, PTL DEF IInv

\* The id of an uploaded job stays in sqlite until the job is linked.
THEOREM OrphansKeepTheirRef == Spec => []OrphanHasRef
BY ChildrenInvariant, PTL DEF IInv

\* A marker goes only with the last analysis that could be tried again: the step
\* that removes it is CloseSuperevent, and then nothing is left to do.
THEOREM MarkersOutliveWork == Spec => MarkerOutlivesWork
<1> USE NameAssumption, LimitAssumption
<1>1. ASSUME IInv, IInv', [Next]_vars, NEW s \in Sname, perr[s] >= 0, perr'[s] = NoKey
      PROVE  \/ s \in dirty
             \/ \A k \in listed :
                  k[1] = s => k \in linked \cup hidden \/ cerr[k] = MaxRetry
  <2>1. perr[s] \in 0..MaxRetry /\ perr'[s] # perr[s]
    BY <1>1, UnderOrAt, Ranges DEF IInv, TypeOK, StoreTypes, NoKey
  <2>2. CloseSuperevent /\ s = cur /\ NoRemaining(cur)
    <3>1. perr \in [Sname -> NoKey..MaxRetry] /\ processing \subseteq Sname
      BY <1>1 DEF IInv, TypeOK, StoreTypes, LocalTypes
    <3>2. \A n \in NoKey..MaxRetry : Ensured(n) # NoKey /\ Counted(n) # NoKey
      BY Counts DEF NoKey
    <3>3. ~ SupereventFails
      <4>1. SupereventFails => cur \in Sname /\ Counted(perr[cur]) # NoKey
                                 /\ perr' = [perr EXCEPT ![cur] = Counted(@)]
        BY <3>1, <3>2, <1>1, CurIsThere DEF SupereventFails, IInv
      <4>2. QED
        BY <1>1, <2>1, <3>1, <4>1
    <3>4. ~ StartChildren /\ \A S \in SUBSET Sname : ~ Metadata(S)
      BY <1>1, <2>1, <3>1, <3>2 DEF StartChildren, ProcessOwed, Metadata
    <3>5. perr' # perr
      BY <2>1
    <3>6. CloseSuperevent
      BY <1>1, <3>3, <3>4, <3>5 DEF Next, RunStep, AnalysisStep, vars, sqlite, Edit,
         OperatorResets, FileMirrorRaises, DetailOk, LinkedOk, EndChildren, AlreadyLinked,
         GivenUp, Begin, FetchOk, FetchFails, ClusterOffline, CapReached, UploadOk,
         UploadFails, UploadAnswerLost, SetJobRef, LinkOk, LinkFails, ClearFailure, Crash
    <3>7. cur \in Sname
      BY <1>1, <3>6, CurIsThere DEF CloseSuperevent, IInv, RunInv, ListPc
    <3>8. QED
      BY <1>1, <2>1, <3>1, <3>6, <3>7 DEF CloseSuperevent
  <2>3. cur \in dirty \/ \A u \in Uid : <<cur, u>> \in listed =>
          <<cur, u>> \in linked \cup hidden \/ cerr[<<cur, u>>] \in 0..MaxRetry
    BY <1>1, <2>2 DEF IInv, WorkInv, CloseSuperevent, ListPc
  <2>4. \A u \in Uid : cerr[<<cur, u>>] \in 0..MaxRetry => cerr[<<cur, u>>] = MaxRetry
    <3>1. ASSUME NEW u \in Uid, cerr[<<cur, u>>] \in 0..MaxRetry
          PROVE  cerr[<<cur, u>>] = MaxRetry
      <4>1. ~ UnderCap(cerr[<<cur, u>>])
        BY <2>2 DEF NoRemaining, ChildrenUnder
      <4>2. QED
        BY <3>1, <4>1 DEF UnderCap
    <3>2. QED
      BY <3>1
  <2>5. \A k \in listed : k[1] = s => \E u \in Uid : k = <<cur, u>>
    BY <1>1, <2>2 DEF IInv, TypeOK, StoreTypes, Key
  <2>6. QED
    BY <2>2, <2>3, <2>4, <2>5
<1>2. IInv /\ IInv' /\ [Next]_vars =>
        [\A s \in Sname : perr[s] >= 0 /\ perr'[s] = NoKey =>
           \/ s \in dirty
           \/ \A k \in listed :
                k[1] = s => k \in linked \cup hidden \/ cerr[k] = MaxRetry]_vars
  <2>1. ASSUME IInv, IInv', [Next]_vars
        PROVE  \A s \in Sname : perr[s] >= 0 /\ perr'[s] = NoKey =>
                 \/ s \in dirty
                 \/ \A k \in listed :
                      k[1] = s => k \in linked \cup hidden \/ cerr[k] = MaxRetry
    BY <1>1, <2>1
  <2>2. QED
    BY <2>1
<1>3. QED
  BY <1>2, ChildrenInvariant, PTL DEF Spec, MarkerOutlivesWork

\* Only the operator, or GWCloud saying that it is linked, takes an analysis at the
\* cap off it; only closing it takes a superevent off it.
THEOREM GivingUpIsFinal == Spec => GiveUpIsFinal
<1> USE NameAssumption, LimitAssumption
<1>1. ASSUME IInv, [Next]_vars
      PROVE  /\ \A k \in Key : cerr[k] = MaxRetry =>
                  cerr'[k] = MaxRetry \/ k \in linked \/ (pc = "idle" /\ cerr'[k] = 0)
             /\ \A s \in Sname : perr[s] = MaxRetry => perr'[s] \in {MaxRetry, NoKey}
  <2>1. perr \in [Sname -> NoKey..MaxRetry] /\ cerr \in [Key -> NoKey..MaxRetry]
    BY <1>1 DEF IInv, TypeOK, StoreTypes
  <2>2. Counted(MaxRetry) = MaxRetry /\ Ensured(MaxRetry) = MaxRetry
    BY DEF Counted, Ensured
  <2>3. CASE \E k \in Key : OperatorResets(k)
    BY <2>1, <2>3 DEF OperatorResets
  <2>4. CASE \E S \in SUBSET Sname : Metadata(S)
    BY <2>1, <2>2, <2>4 DEF Metadata
  <2>5. CASE StartChildren
    BY <2>1, <2>2, <2>5 DEF StartChildren, ProcessOwed
  <2>6. CASE SupereventFails
    BY <2>1, <2>2, <2>6 DEF SupereventFails
  <2>7. CASE CloseSuperevent
    BY <2>1, <2>7 DEF CloseSuperevent
  <2>8. CASE \E u \in Uid : AlreadyLinked(u)
    <3>1. PICK u \in Uid : AlreadyLinked(u)
      BY <2>8
    <3>2. <<cur, u>> \in linked
      BY <1>1, <3>1 DEF AlreadyLinked, IInv, CloudInv
    <3>3. QED
      BY <2>1, <3>1, <3>2 DEF AlreadyLinked, DeleteRow
  <2>9. CASE \E u \in Uid : Begin(u)
    BY <2>1, <2>2, <2>9 DEF Begin
  <2>10. CASE CountFailure /\ UNCHANGED perr
    BY <2>1, <2>2, <2>10 DEF CountFailure
  <2>11. CASE ClearFailure
    <3>1. key \in linked
      BY <1>1, <2>11 DEF ClearFailure, IInv, CloudInv
    <3>2. QED
      BY <2>1, <2>11, <3>1 DEF ClearFailure, DeleteRow
  <2>12. CASE UNCHANGED <<perr, cerr>>
    BY <2>12
  <2>13. QED
    BY <1>1, <2>3, <2>4, <2>5, <2>6, <2>7, <2>8, <2>9, <2>10, <2>11, <2>12
    DEF Next, RunStep, AnalysisStep, vars, sqlite, Edit, FileMirrorRaises, DetailOk,
        LinkedOk, EndChildren, GivenUp, FetchOk, FetchFails, ClusterOffline, CapReached,
        UploadOk, UploadFails, UploadAnswerLost, SetJobRef, LinkOk, LinkFails, Crash
<1>2. QED
  BY <1>1, ChildrenInvariant, PTL DEF Spec, GiveUpIsFinal

===============================================================================
