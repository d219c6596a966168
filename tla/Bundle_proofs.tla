----------------------------- MODULE Bundle_proofs -----------------------------
(***************************************************************************)
(* Proofs about the jobs of the bundle.  SlurmJob, for any number of       *)
(* stages and dependencies, of lapses and kills: what a poll that read all *)
(* of slurm_ids says of the end of a job is true, and no poll loses the    *)
(* record of a job that is still at work and not reported.                 *)
(* CondorJob, for any DAG and any number of evictions and aborts: what     *)
(* status reads off the log is true of the plots and all that leads to     *)
(* them.                                                                   *)
(* Both implement VerdictSpec: a job is judged once, and rightly.          *)
(***************************************************************************)
EXTENDS SlurmJob, CondorJob, TLAPS

-------------------------------------------------------------------------------
(* Jobs on Slurm.                                                           *)

\* Nothing is on the cluster before sbatch, and the script notes every stage.
ClusterInv ==
  /\ sub \in {"start", "ready", "generated"} => script = "unsent" /\ rec = "none"
  /\ sub = "sent" => script # "unsent"
  /\ script = "unsent" => \A i \in Stage : stage[i] = "unsent"
  /\ script = "completed" => ids = N
  /\ rec # "none" => script # "unsent"

\* What a poll has gathered so far is true, and stays true.
PollInv ==
  /\ pc # "idle" => sub = "done" /\ reported = "none"
  /\ pc = "submit" => script # "unsent"
  /\ whole /\ pc \in {"file", "stages"} => script = "completed"
  /\ pc = "stages" => n \in 1..ids /\ (whole => n = N)
  /\ allDone => \A i \in Stage : i < at => stage[i] = "completed"
  /\ hadError => \E i \in Stage : stage[i] \in Failed
  /\ pc = "submit" => ~whole

\* A job that was sent, and of which nothing was lost, has its record.
RecordInv ==
  sub = "done" /\ kills = 0 /\ reported = "none" /\ script # "unsent" => rec # "none"

\* A job reported completed too early had at least one stage noted, and it ended well.
EarlyInv == reported = "completed" => stage[1] = "completed"

IInv == TypeOK /\ EarlyInv /\ ClusterInv /\ PollInv /\ RecordInv /\ CompletedIsReal /\ ErrorHasCause

\* IInv is inductive.  A poll is right because what it saw of a stage cannot
\* change any more, and because slurm_ids is complete when the script has ended.
THEOREM PollInvariant == Spec => []IInv
<1> USE StageAssumption, BoundAssumption
    DEF cluster, local, answer, bundle, Stage, Active, Failed, SlurmState, Refused
<1>1. Init => IInv
  <2> SUFFICES ASSUME Init PROVE IInv
    OBVIOUS
  <2>1. TypeOK
    <3>1. at \in 1..(N + 1) /\ n \in 0..N /\ ids \in 0..N /\ stage \in [Stage -> SlurmState]
      BY DEF Init
    <3>2. lapses \in 0..MaxLapses /\ kills \in 0..MaxKills
      BY DEF Init
    <3>3. /\ whole \in BOOLEAN /\ allDone \in BOOLEAN
          /\ hadError \in BOOLEAN /\ wholeReport \in BOOLEAN
      BY DEF Init
    <3>4. QED
      BY <3>1, <3>2, <3>3 DEF Init, TypeOK
  <2>2. ClusterInv /\ RecordInv /\ EarlyInv /\ CompletedIsReal /\ ErrorHasCause
    BY DEF Init, ClusterInv, RecordInv, EarlyInv, CompletedIsReal, ErrorHasCause
  <2>3. PollInv
    BY DEF Init, PollInv
  <2>4. QED
    BY <2>1, <2>2, <2>3 DEF IInv
<1>2. ASSUME IInv, [Next]_vars PROVE IInv'
  <2> USE <1>2 DEF IInv, TypeOK, ClusterInv, PollInv, RecordInv, EarlyInv,
                   CompletedIsReal, ErrorHasCause
  <2>1. CASE Prepare \/ PrepareFails
    BY <2>1 DEF Prepare, PrepareFails
  <2>2. CASE GenerateData
    BY <2>2 DEF GenerateData
  <2>3. CASE Sbatch \/ SbatchFails
    BY <2>3 DEF Sbatch, SbatchFails
  <2>4. CASE SaveJob \/ KilledBeforeSave
    BY <2>4 DEF SaveJob, KilledBeforeSave
  <2>5. CASE StartScript
    BY <2>5 DEF StartScript
  <2>6. ASSUME NEW i \in Stage, SubmitStage(i) PROVE IInv'
    BY <2>6 DEF SubmitStage
  <2>7. ASSUME NEW i \in Stage, NoteStage(i) PROVE IInv'
    BY <2>7 DEF NoteStage
  <2>8. CASE EndScript
    BY <2>8 DEF EndScript
  <2>9. CASE ScriptFails
    BY <2>9 DEF ScriptFails
  <2>10. ASSUME NEW i \in Stage, StartStage(i) PROVE IInv'
    BY <2>10 DEF StartStage
  <2>11. ASSUME NEW i \in Stage, EndStage(i) PROVE IInv'
    BY <2>11 DEF EndStage
  <2>12. CASE Cancel
    BY <2>12 DEF Cancel
  <2>13. CASE StartPoll
    BY <2>13 DEF StartPoll
  <2>14. ASSUME EndPoll PROVE PollInv' /\ at' = 1 /\ n' = 0 /\ pc' = "idle"
                               /\ whole' = FALSE /\ allDone' = TRUE /\ hadError' = FALSE
    BY <2>14 DEF EndPoll
  <2>15. CASE PollUnfinished
    BY <2>15 DEF PollUnfinished, Sacct, Silence
  <2>16. CASE NoRecord \/ PollScriptFailed
    <3>1. EndPoll /\ wholeReport' = whole /\ UNCHANGED <<sub, cluster, lapses, kills>>
      BY <2>16 DEF NoRecord, PollScriptFailed, Complete
    <3>2. CASE NoRecord
      BY <2>14, <3>1, <3>2 DEF NoRecord, Complete
    <3>3. CASE PollScriptFailed
      <4>1. script \in Failed /\ rec' = "none" /\ reported' = "error"
        BY <3>3 DEF PollScriptFailed, Complete, Unfinished, Silence
      <4>2. QED
        BY <2>14, <3>1, <4>1
    <3>4. QED
      BY <2>16, <3>2, <3>3
  <2>17. CASE PollSubmitted
    BY <2>17 DEF PollSubmitted, ScriptEnded, Tracking
  <2>18. CASE PollNoFile \/ PollRaises \/ PollAgain
    <3>1. EndPoll /\ UNCHANGED <<sub, cluster, rec, answer, lapses, kills>>
      BY <2>18 DEF PollNoFile, PollRaises, PollAgain
    <3>2. QED
      BY <2>14, <3>1
  <2>19. CASE PollFile
    BY <2>19 DEF PollFile
  <2>20. CASE PollStage
    <3>1. PICK v \in {stage[at], Silence} :
            /\ Sacct(stage[at], v)
            /\ allDone' = (allDone /\ IsDone(v))
            /\ hadError' = (hadError \/ v \in Failed)
      BY <2>20 DEF PollStage
    <3>2. /\ pc = "stages" /\ at <= n /\ at \in Stage /\ at' = at + 1
          /\ UNCHANGED <<sub, cluster, rec, pc, n, whole, answer, kills>>
      BY <2>20 DEF PollStage
    <3>3. allDone' \in BOOLEAN /\ hadError' \in BOOLEAN
      BY <3>1, Zenon
    <3>4. lapses' \in 0..MaxLapses
      BY <3>1 DEF Sacct
    <3>5. allDone' => \A i \in Stage : i < at' => stage[i] = "completed"
      <4>1. allDone' => allDone /\ IsDone(v)
        BY <3>1, Zenon
      <4>2. IsDone(v) => stage[at] = "completed"
        BY <3>1 DEF IsDone, Silence
      <4>3. QED
        BY <3>2, <4>1, <4>2
    <3>6. hadError' => \E i \in Stage : stage[i] \in Failed
      BY <3>1, <3>2 DEF Silence
    <3>7. TypeOK'
      BY <3>2, <3>3, <3>4
    <3>8. ClusterInv' /\ RecordInv' /\ EarlyInv' /\ CompletedIsReal' /\ ErrorHasCause'
      BY <3>2
    <3>9. PollInv'
      BY <3>2, <3>5, <3>6
    <3>10. QED
      BY <3>7, <3>8, <3>9
  <2>21. CASE PollComplete
    <3>1. /\ pc = "stages" /\ at > n /\ Over /\ rec' = "none" /\ EndPoll
          /\ reported' = IF hadError THEN "error" ELSE "completed"
          /\ wholeReport' = whole /\ UNCHANGED <<sub, cluster, lapses, kills>>
      BY <2>21 DEF PollComplete, Complete
    <3>2. EarlyInv' /\ CompletedIsReal' /\ ErrorHasCause'
      BY <3>1 DEF Over
    <3>3. TypeOK' /\ ClusterInv' /\ RecordInv'
      BY <2>14, <3>1
    <3>4. QED
      BY <2>14, <3>1, <3>2, <3>3
  <2>22. CASE AnswerLost
    <3>1. /\ EndPoll /\ rec' = "none" /\ kills < MaxKills /\ kills' = kills + 1
          /\ UNCHANGED <<sub, cluster, answer, lapses>>
      BY <2>22 DEF AnswerLost
    <3>2. QED
      BY <2>14, <3>1
  <2>23. CASE PollKilled
    <3>1. /\ EndPoll /\ kills < MaxKills /\ kills' = kills + 1
          /\ UNCHANGED <<sub, cluster, rec, answer, lapses>>
      BY <2>23 DEF PollKilled
    <3>2. QED
      BY <2>14, <3>1
  <2>24. CASE UNCHANGED vars
    BY <2>24 DEF vars
  <2>25. QED
    BY <2>1, <2>2, <2>3, <2>4, <2>5, <2>6, <2>7, <2>8, <2>9, <2>10, <2>11, <2>12, <2>13,
       <2>14, <2>15, <2>16, <2>17, <2>18, <2>19, <2>20, <2>21, <2>22, <2>23, <2>24
       DEF Next, SubmitStep, ScriptStep, StageStep, PollStep
<1>3. QED
  BY <1>1, <1>2, PTL DEF Spec

-------------------------------------------------------------------------------
\* The types of the record, the poll and the cluster hold; a record without the
\* submit id means that the script has ended.
THEOREM TypesHold == Spec => []TypeOK
BY PollInvariant, PTL DEF IInv

\* A job reported complete by a poll that saw all of slurm_ids is complete.
THEOREM CompletedJobsAreComplete == Spec => []CompletedIsReal
BY PollInvariant, PTL DEF IInv

\* A job reported in error has something that failed or was cancelled.
THEOREM ErrorsHaveCause == Spec => []ErrorHasCause
BY PollInvariant, PTL DEF IInv

\* A job with a stage at work keeps its record until it is reported.
THEOREM NoRecordIsLost == Spec => []NothingForgotten
<1>1. IInv => NothingForgotten
  BY StageAssumption
     DEF IInv, ClusterInv, RecordInv, NothingForgotten, Active, Stage
<1>2. QED
  BY <1>1, PollInvariant, PTL

\* The status of a Slurm job implements VerdictSpec: what ends on the cluster is a
\* Progress, and the poll that says complete is a Judge that the cluster bears out.
THEOREM SlurmJobsAreJudged == Spec => SlurmIsJudged
<1> USE StageAssumption DEF Stage, Parts, ScriptPart, Failed, Active, Refused
<1> DEFINE good == SlurmParts({"completed"})
           bad  == SlurmParts(Failed)
           said == [i \in {"job"} |-> CASE reported = "none" -> "open"
                                        [] reported = "completed" /\ wholeReport -> "whole"
                                        [] reported = "completed" /\ ~wholeReport -> "some"
                                        [] reported = "error" -> "stopped"
                                        [] reported = "missing" -> "given up"]
<1>1. Init => SlurmVerdict!Init
  <2> SUFFICES ASSUME Init PROVE SlurmVerdict!Init
    OBVIOUS
  <2>1. good = {} /\ bad = {}
    BY DEF Init, SlurmParts
  <2>2. said = [i \in {"job"} |-> "open"]
    BY DEF Init
  <2>3. QED
    BY <2>1, <2>2 DEF SlurmVerdict!Init
<1>2. ASSUME IInv, [Next]_vars PROVE [SlurmVerdict!Next]_<<good, bad, said>>
  <2> USE <1>2 DEF IInv, TypeOK
  <2>1. good \subseteq good' /\ bad \subseteq bad'
    <3>1. /\ \A i \in Stage : stage[i] \in {"completed"} \cup Failed => stage'[i] = stage[i]
          /\ script \in {"completed"} \cup Failed => script' = script
      <4>1. CASE UNCHANGED cluster
        BY <4>1 DEF cluster
      <4>2. CASE \E i \in Stage : SubmitStage(i) \/ StartStage(i) \/ EndStage(i)
        BY <4>2 DEF SubmitStage, StartStage, EndStage
      <4>3. CASE Sbatch \/ StartScript \/ EndScript \/ ScriptFails \/ Cancel
        BY <4>3 DEF Sbatch, StartScript, EndScript, ScriptFails, Cancel, ClusterInv
      <4>4. CASE \E i \in Stage : NoteStage(i)
        BY <4>4 DEF NoteStage
      <4>5. QED
        BY <4>1, <4>2, <4>3, <4>4
           DEF Next, SubmitStep, ScriptStep, StageStep, PollStep, vars, cluster,
               Prepare, PrepareFails, GenerateData, SbatchFails, SaveJob, KilledBeforeSave,
               StartPoll, NoRecord, PollUnfinished, PollScriptFailed, PollSubmitted,
               PollNoFile, PollFile, PollStage, PollRaises, PollAgain, PollComplete, AnswerLost,
               PollKilled
    <3>2. QED
      BY <3>1 DEF SlurmParts
  <2>2. CASE UNCHANGED <<reported, wholeReport>>
    <3>1. said' = said
      BY <2>2
    <3>2. QED
      BY <2>1, <3>1 DEF SlurmVerdict!Next, SlurmVerdict!Progress
  <2>3. CASE NoRecord \/ PollScriptFailed \/ PollComplete
    <3>1. reported = "none" /\ UNCHANGED cluster
      BY <2>3 DEF NoRecord, PollScriptFailed, PollComplete, PollInv
    <3>2. UNCHANGED <<good, bad>>
      BY <3>1 DEF SlurmParts, cluster
    <3>3. said["job"] = "open" /\ said = [i \in {"job"} |-> "open"]
      BY <3>1
    <3>4. PICK v \in SlurmVerdict!Verdict :
            SlurmVerdict!BornOut("job", v) /\ said' = [said EXCEPT !["job"] = v]
      <4>1. CASE NoRecord
        <5>1. reported' = "missing"
          BY <4>1 DEF NoRecord, Complete
        <5>2. SlurmVerdict!BornOut("job", "given up")
          BY DEF SlurmVerdict!BornOut
        <5>3. QED
          BY <3>3, <5>1, <5>2 DEF SlurmVerdict!Verdict
      <4>2. CASE PollScriptFailed
        <5>1. reported' = "error" /\ script \in Failed
          BY <4>2 DEF PollScriptFailed, Complete, Unfinished, Silence, PollInv, SlurmState
        <5>2. ScriptPart \in Parts /\ <<"job", ScriptPart>> \in bad
          BY <5>1 DEF SlurmParts
        <5>3. SlurmVerdict!BornOut("job", "stopped")
          BY <5>2 DEF SlurmVerdict!BornOut
        <5>4. QED
          BY <3>3, <5>1, <5>3 DEF SlurmVerdict!Verdict
      <4>3. CASE PollComplete /\ hadError
        <5>1. reported' = "error"
          BY <4>3 DEF PollComplete, Complete
        <5>2. PICK i \in Stage : stage[i] \in Failed
          BY <4>3 DEF PollInv
        <5>3. i \in Parts /\ <<"job", i>> \in bad
          BY <5>2 DEF SlurmParts
        <5>4. SlurmVerdict!BornOut("job", "stopped")
          BY <5>3 DEF SlurmVerdict!BornOut
        <5>5. QED
          BY <3>3, <5>1, <5>4 DEF SlurmVerdict!Verdict
      <4>4. CASE PollComplete /\ ~hadError
        <5>1. /\ reported' = "completed" /\ wholeReport' = whole
              /\ allDone /\ pc = "stages" /\ at > n
          BY <4>4 DEF PollComplete, Complete, Over
        <5>2. n \in 1..N /\ \A i \in 1..n : stage[i] = "completed"
          BY <5>1 DEF PollInv
        <5>3. CASE whole
          <6>1. script = "completed" /\ \A i \in Stage : stage[i] = "completed"
            BY <5>1, <5>2, <5>3 DEF PollInv
          <6>2. SlurmVerdict!Of("job") \subseteq good /\ <<"job", 1>> \in SlurmVerdict!Of("job")
            BY <6>1 DEF SlurmVerdict!Of, SlurmParts
          <6>3. SlurmVerdict!BornOut("job", "whole")
            BY <6>2 DEF SlurmVerdict!BornOut
          <6>4. QED
            BY <3>3, <5>1, <5>3, <6>3 DEF SlurmVerdict!Verdict
        <5>4. CASE ~whole
          <6>1. <<"job", 1>> \in SlurmVerdict!Of("job") \cap good
            BY <5>2 DEF SlurmVerdict!Of, SlurmParts
          <6>2. SlurmVerdict!BornOut("job", "some")
            BY <6>1 DEF SlurmVerdict!BornOut
          <6>3. QED
            BY <3>3, <5>1, <5>4, <6>2 DEF SlurmVerdict!Verdict
        <5>5. QED
          BY <5>3, <5>4
      <4>5. QED
        BY <2>3, <4>1, <4>2, <4>3, <4>4
    <3>5. SlurmVerdict!Judge("job")
      BY <3>2, <3>3, <3>4 DEF SlurmVerdict!Judge
    <3>6. QED
      BY <3>5 DEF SlurmVerdict!Next
  <2>4. QED
    BY <2>2, <2>3
       DEF Next, SubmitStep, ScriptStep, StageStep, PollStep, vars, bundle, answer,
           Prepare, PrepareFails, GenerateData, Sbatch, SbatchFails, SaveJob,
           KilledBeforeSave, StartScript, SubmitStage, NoteStage, EndScript, ScriptFails,
           StartStage, EndStage, Cancel, StartPoll, PollUnfinished, PollSubmitted,
           PollNoFile, PollFile, PollStage, PollRaises, PollAgain, AnswerLost, PollKilled
<1>3. QED
  BY <1>1, <1>2, PollInvariant, PTL DEF Spec, SlurmIsJudged, SlurmVerdict!Spec

-------------------------------------------------------------------------------
(* Jobs on HTCondor.                                                        *)

\* What an event does to the log: one node more has an event of its type.
LEMMA WritingAdds ==
  ASSUME log \in Seq(Entry), NEW m \in Node, NEW t \in EventType, Write(m, t), NEW u
  PROVE  With(u)' = With(u) \cup (IF u = t THEN {m} ELSE {})
<1> DEFINE e == [node |-> m, type |-> t]
<1>1. e \in Entry
  BY DEF Entry
<1>2. log' = Append(log, e) /\ Len(log) \in Nat
  BY DEF Write
<1>3. ToSet(log') = ToSet(log) \cup {e}
  <2>1. DOMAIN log = 1..Len(log) /\ DOMAIN log' = 1..(Len(log) + 1)
    BY <1>1, <1>2
  <2>2. \A i \in 1..Len(log) : log'[i] = log[i]
    BY <1>1, <1>2
  <2>3. log'[Len(log) + 1] = e
    BY <1>1, <1>2
  <2> HIDE DEF e
  <2>4. \A i : i \in DOMAIN log' <=> i \in DOMAIN log \/ i = Len(log) + 1
    BY <1>2, <2>1
  <2>5. QED
    BY <2>1, <2>2, <2>3, <2>4 DEF ToSet
<1>4. e.node = m /\ e.type = t
  OBVIOUS
<1> HIDE DEF e
<1>5. \A d \in ToSet(log') : d \in ToSet(log) \/ d = e
  BY <1>3
<1>6. QED
  BY <1>3, <1>4 DEF With

\* DAGMan's order: a node writes events only once it was submitted, and it was
\* submitted only after its parents had ended well.
OrderInv ==
  /\ \A t \in EventType : With(t) \subseteq With("submit")
  /\ \A m \in With("submit") : Parents[m] \subseteq With("ok")

CondorInv == CondorTypeOK /\ OrderInv /\ CompletedDagIsReal /\ StopHasCause

\* Writing an event of a node that is, or may be, submitted keeps the order.
LEMMA WritingKeeps ==
  ASSUME CondorInv, NEW m \in Node, NEW t \in EventType, Write(m, t),
         t = "submit" => Parents[m] \subseteq With("ok"),
         t # "submit" => m \in With("submit"),
         evictions' \in 0..MaxEvictions, aborts' \in 0..MaxAborts, outcome' = outcome
  PROVE  CondorInv'
<1> USE DEF CondorInv, CondorTypeOK
<1>1. \A u : With(u)' = With(u) \cup (IF u = t THEN {m} ELSE {})
  BY WritingAdds
<1>2. log' \in Seq(Entry)
  BY DEF Write, Entry
<1>3. OrderInv'
  BY <1>1 DEF OrderInv
<1>4. \A u : With(u) \subseteq Node
  BY DEF With
<1>5. \A u : With(u) \subseteq With(u)' /\ With(u)' \subseteq Node
  BY <1>1, <1>4
<1>6. CompletedDagIsReal' /\ StopHasCause'
  BY <1>4, <1>5 DEF CompletedDagIsReal, StopHasCause
<1>7. QED
  BY <1>2, <1>3, <1>6

\* What status makes of the log when it stops polling.
LEMMA PollJudges ==
  ASSUME CondorInv, Poll
  PROVE  /\ outcome = "none" /\ UNCHANGED <<log, evictions, aborts>>
         /\ \/ outcome' = "completed" /\ BeforePlots \subseteq With("ok")
            \/ outcome' = "error" /\ With("failed") # {}
            \/ outcome' = "cancelled" /\ With("aborted") # {}
<1> USE DEF CondorInv, CondorTypeOK
<1>1. /\ outcome = "none" /\ log # <<>> /\ ~StillRunning /\ outcome' = StatusOf
      /\ UNCHANGED <<log, evictions, aborts>>
  BY DEF Poll
<1> DEFINE latest == Last(log)
<1>2. latest \in Entry /\ latest \in ToSet(log)
  <2>1. Len(log) \in Nat /\ Len(log) # 0 /\ DOMAIN log = 1..Len(log)
    BY <1>1
  <2>2. log[Len(log)] \in Entry
    BY <2>1
  <2>3. QED
    BY <2>1, <2>2 DEF Last, ToSet
<1>3. latest.node \in Node /\ latest.type \in EventType /\ latest.node \in With(latest.type)
  BY <1>2 DEF Entry, With
<1>4. CASE Removed(latest.type)
  BY <1>1, <1>3, <1>4 DEF StatusOf, Removed
<1>5. CASE latest.type \in {"submit", "execute", "evicted"}
  BY <1>1, <1>5 DEF StatusOf, Removed, StillRunning
<1>6. CASE latest.type \in {"ok", "failed"}
  <2>1. outcome' = AfterTermination
    BY <1>1, <1>6 DEF StatusOf, Removed
  <2>2. AfterTermination # "running"
    BY <1>1, <2>1 DEF StillRunning
  <2>3. CASE AnyFailed
    BY <1>1, <2>1, <2>3 DEF AfterTermination, AnyFailed
  <2>4. CASE ~AnyFailed
    <3>1. outcome' = "completed" /\ AllEnded /\ With("failed") = {}
      BY <2>1, <2>2, <2>4 DEF AfterTermination, AnyFailed
    <3>2. Plot \in With("ok") /\ With("submit") \subseteq With("ok")
      BY <3>1 DEF AllEnded, Terminated
    <3>3. \A m \in With("ok") : Parents[m] \subseteq With("ok")
      BY DEF OrderInv, EventType
    <3>4. With("ok") \in SUBSET Node
      BY DEF With
    <3>5. BeforePlots \subseteq With("ok")
      BY <3>2, <3>3, <3>4 DEF BeforePlots
    <3>6. QED
      BY <1>1, <3>1, <3>5
  <2>5. QED
    BY <2>3, <2>4
<1>7. QED
  BY <1>3, <1>4, <1>5, <1>6 DEF EventType, Removed

\* CondorInv is inductive: completed is true because the nodes that ended well
\* contain the plots and, with each node, its parents.
THEOREM CondorInvariant == CondorSpec => []CondorInv
<1> USE CondorBoundAssumption
<1>1. CondorInit => CondorInv
  <2> SUFFICES ASSUME CondorInit PROVE CondorInv
    OBVIOUS
  <2>1. log = <<>> /\ log \in Seq(Entry) /\ DOMAIN log = {}
    BY DEF CondorInit
  <2>2. \A u : With(u) = {}
    BY <2>1 DEF With, ToSet
  <2>3. QED
    BY <2>1, <2>2 DEF CondorInit, CondorInv, CondorTypeOK, OrderInv, CompletedDagIsReal,
                      StopHasCause
<1>2. ASSUME CondorInv, [CondorNext]_condorVars PROVE CondorInv'
  <2> USE <1>2 DEF CondorInv, CondorTypeOK, EventType
  <2>1. ASSUME NEW m \in Node, Submit(m) PROVE CondorInv'
    BY <2>1, WritingKeeps DEF Submit
  <2>2. ASSUME NEW m \in Node, Execute(m) PROVE CondorInv'
    BY <2>2, WritingKeeps DEF Execute
  <2>3. ASSUME NEW m \in Node, Evict(m) PROVE CondorInv'
    BY <2>3, WritingKeeps DEF Evict
  <2>4. ASSUME NEW m \in Node, Abort(m) PROVE CondorInv'
    BY <2>4, WritingKeeps DEF Abort
  <2>5. ASSUME NEW m \in Node, Terminate(m) PROVE CondorInv'
    BY <2>5, WritingKeeps DEF Terminate
  <2>6. CASE Poll
    <3>1. \A u : With(u)' = With(u)
      BY <2>6, PollJudges DEF With
    <3>2. QED
      BY <2>6, <3>1, PollJudges DEF OrderInv, CompletedDagIsReal, StopHasCause
  <2>7. CASE UNCHANGED condorVars
    <3>1. \A u : With(u)' = With(u)
      BY <2>7 DEF condorVars, With
    <3>2. QED
      BY <2>7, <3>1 DEF condorVars, OrderInv, CompletedDagIsReal, StopHasCause
  <2>8. QED
    BY <2>1, <2>2, <2>3, <2>4, <2>5, <2>6, <2>7 DEF CondorNext, Work
<1>3. QED
  BY <1>1, <1>2, PTL DEF CondorSpec

-------------------------------------------------------------------------------
\* The log, the counts and the report keep their types.
THEOREM CondorTypesHold == CondorSpec => []CondorTypeOK
BY CondorInvariant, PTL DEF CondorInv

\* A DAG is reported completed only when its plots, and each node they are made
\* from, ended well.
THEOREM CompletedDagsAreComplete == CondorSpec => []CompletedDagIsReal
BY CondorInvariant, PTL DEF CondorInv

\* A DAG reported failed or cancelled has a node that was.
THEOREM StopsHaveCause == CondorSpec => []StopHasCause
BY CondorInvariant, PTL DEF CondorInv

\* The status of a DAG implements VerdictSpec: an event of the log is a Progress,
\* the poll that ends the polling is a Judge, borne out by the log.
THEOREM DagsAreJudged == CondorSpec => DagIsJudged
<1> DEFINE good == CondorNodes(With("ok"))
           bad  == CondorNodes(With("failed") \cup With("aborted"))
           said == [i \in {"job"} |-> CASE outcome = "none" -> "open"
                                        [] outcome = "completed" -> "whole"
                                        [] outcome \in {"error", "cancelled"} -> "stopped"]
<1>1. CondorInit => DagVerdict!Init
  <2> SUFFICES ASSUME CondorInit PROVE DagVerdict!Init
    OBVIOUS
  <2>1. \A u : With(u) = {}
    BY DEF CondorInit, With, ToSet
  <2>2. QED
    BY <2>1 DEF CondorInit, CondorNodes, DagVerdict!Init
<1>2. ASSUME CondorInv, [CondorNext]_condorVars PROVE [DagVerdict!Next]_<<good, bad, said>>
  <2> USE <1>2 DEF CondorInv, CondorTypeOK
  <2>1. ASSUME NEW m \in Node, NEW t \in EventType, Write(m, t), outcome' = outcome
        PROVE  DagVerdict!Progress
    <3>1. \A u : With(u) \subseteq With(u)'
      BY <2>1, WritingAdds
    <3>2. QED
      BY <2>1, <3>1 DEF DagVerdict!Progress, CondorNodes
  <2>2. CASE Poll
    <3>1. \A u : With(u)' = With(u)
      BY <2>2, PollJudges DEF With
    <3>2. UNCHANGED <<good, bad>>
      BY <3>1 DEF CondorNodes
    <3>3. PICK v \in {"whole", "stopped"} :
            DagVerdict!BornOut("job", v) /\ said' = [said EXCEPT !["job"] = v]
      <4>1. said = [i \in {"job"} |-> "open"]
        BY <2>2, PollJudges
      <4>2. CASE outcome' = "completed" /\ BeforePlots \subseteq With("ok")
        <5>1. DagVerdict!BornOut("job", "whole")
          <6>1. Plot \in BeforePlots
            BY DagAssumption DEF BeforePlots
          <6>2. QED
            BY <4>2, <6>1 DEF DagVerdict!BornOut, DagVerdict!Of, CondorNodes
        <5>2. QED
          BY <4>1, <4>2, <5>1
      <4>3. CASE outcome' \in {"error", "cancelled"} /\ With("failed") \cup With("aborted") # {}
        <5>1. PICK m \in With("failed") \cup With("aborted") : m \in Node
          BY <4>3 DEF With
        <5>2. <<"job", m>> \in bad
          BY <5>1 DEF CondorNodes
        <5>3. DagVerdict!BornOut("job", "stopped")
          BY <5>1, <5>2 DEF DagVerdict!BornOut
        <5>4. QED
          BY <4>1, <4>3, <5>3
      <4>4. QED
        BY <2>2, <4>2, <4>3, PollJudges
    <3>4. said["job"] = "open"
      BY <2>2, PollJudges
    <3>5. DagVerdict!Judge("job")
      BY <3>2, <3>3, <3>4 DEF DagVerdict!Judge, DagVerdict!Verdict
    <3>6. QED
      BY <3>5 DEF DagVerdict!Next
  <2>3. CASE UNCHANGED condorVars
    <3>1. \A u : With(u)' = With(u)
      BY <2>3 DEF condorVars, With
    <3>2. UNCHANGED <<good, bad>>
      BY <3>1 DEF CondorNodes
    <3>3. UNCHANGED said
      BY <2>3 DEF condorVars
    <3>4. QED
      BY <3>2, <3>3
  <2>4. QED
    BY <2>1, <2>2, <2>3 DEF CondorNext, Work, Submit, Execute, Evict, Abort, Terminate,
                            EventType, DagVerdict!Next
<1>3. QED
  BY <1>1, <1>2, CondorInvariant, PTL DEF CondorSpec, DagIsJudged, DagVerdict!Spec
===============================================================================
