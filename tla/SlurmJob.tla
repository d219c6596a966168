------------------------------- MODULE SlurmJob -------------------------------
(***************************************************************************)
(* One job on a Slurm cluster, as the bundle runs it (bundle/core): submit *)
(* hands the master script to sbatch and stores the submit id; the script, *)
(* itself a Slurm job, submits the stages one by one and appends their ids *)
(* to slurm_ids; status is polled until it answers that the job is         *)
(* complete; cancel may be called at any time.  The cluster, and the       *)
(* client that calls the bundle and keeps its records, are external.       *)
(***************************************************************************)
EXTENDS Integers

CONSTANTS
  N,                  \* stages of the job, in the order in which the script submits them
  After,              \* [1..N -> SUBSET 1..N]: the stages each depends on, all earlier
  MaxLapses,          \* bound: times sacct gives no answer
  MaxKills            \* bound: bundle processes killed, or answers lost

ASSUME StageAssumption ==
  /\ N \in Nat \ {0}
  /\ After \in [1..N -> SUBSET (1..N)] /\ \A i \in 1..N : \A j \in After[i] : j < i
ASSUME BoundAssumption == MaxLapses \in Nat /\ MaxKills \in Nat

VARIABLES
  sub,                \* submit: "start", "ready", "generated", "sent" (sbatch ran), "done"
  script, stage,      \* Slurm states of the script and of the stages
  ids,                \* lines of slurm_ids
  rec,                \* the bundle's record: "none", "submitting", "tracking"
  pc, at, n,          \* the poll; the stage it asks for; the lines it read
  whole,              \* local: the script had ended when slurm_ids was read
  allDone, hadError,  \* locals of slurm_status
  reported,           \* what the poll that said complete said
  wholeReport,        \* history: whole, of that poll
  lapses, kills

cluster == <<script, stage, ids>>
local   == <<at, n, whole, allDone, hadError>>
answer  == <<reported, wholeReport>>
vars    == <<sub, cluster, rec, pc, local, answer, lapses, kills>>

Stage   == 1..N
Active  == {"queued", "running"}
Failed  == {"failed", "cancelled"}
Refused == "refused"
Silence == "unknown"

-------------------------------------------------------------------------------
Init ==
  /\ sub = "start" /\ script = "unsent"
  /\ stage = [i \in Stage |-> "unsent"] /\ ids = 0
  /\ rec = "none" /\ pc = "idle" /\ at = 1 /\ n = 0
  /\ whole = FALSE /\ allDone = TRUE /\ hadError = FALSE
  /\ reported = "none" /\ wholeReport = FALSE
  /\ lapses = 0 /\ kills = 0

-------------------------------------------------------------------------------
(* submit                                                                   *)

\* The ini is prepared, the supporting files are fetched, the scripts written.
Prepare ==
  /\ sub = "start"
  /\ sub' = "ready"
  /\ UNCHANGED <<cluster, rec, pc, local, answer, lapses, kills>>

\* A bad ini, a supporting file that cannot be had, a full disk: nothing is sent.
PrepareFails ==
  /\ sub = "start"
  /\ sub' = "done"
  /\ UNCHANGED <<cluster, rec, pc, local, answer, lapses, kills>>

\* The data is generated on the head node, well or not: nobody looks.
GenerateData ==
  /\ sub = "ready"
  /\ sub' = "generated"
  /\ UNCHANGED <<cluster, rec, pc, local, answer, lapses, kills>>

Sbatch ==
  /\ sub = "generated"
  /\ sub' = "sent" /\ script' = "queued"
  /\ UNCHANGED <<stage, ids, rec, pc, local, answer, lapses, kills>>

\* It fails, or what it prints is no number: nothing is stored.
SbatchFails ==
  /\ sub = "generated"
  /\ sub' = "done"
  /\ UNCHANGED <<cluster, rec, pc, local, answer, lapses, kills>>

SaveJob ==
  /\ sub = "sent"
  /\ sub' = "done" /\ rec' = "submitting"
  /\ UNCHANGED <<cluster, pc, local, answer, lapses, kills>>

KilledBeforeSave ==
  /\ sub = "sent" /\ kills < MaxKills
  /\ kills' = kills + 1 /\ sub' = "done"
  /\ UNCHANGED <<cluster, rec, pc, local, answer, lapses>>

-------------------------------------------------------------------------------
(* The cluster.                                                             *)

bundle == <<sub, rec, pc, local, answer, lapses, kills>>

StartScript ==
  /\ script = "queued" /\ script' = "running"
  /\ UNCHANGED <<stage, ids, bundle>>

\* The script submits the next stage, and then notes its id.  Its sbatch may fail,
\* and does when it names the id of a stage that has none; the script, which is
\* not run with set -e, goes on, and notes a line without an id.
SubmitStage(i) ==
  /\ script = "running" /\ i = ids + 1 /\ stage[i] = "unsent"
  /\ \E s \in {"queued", Refused} :
       /\ (\E j \in After[i] : stage[j] = Refused) => s = Refused
       /\ stage' = [stage EXCEPT ![i] = s]
  /\ UNCHANGED <<script, ids, bundle>>

NoteStage(i) ==
  /\ script = "running" /\ i = ids + 1 /\ stage[i] # "unsent"
  /\ ids' = i
  /\ UNCHANGED <<script, stage, bundle>>

EndScript ==
  /\ script = "running" /\ ids = N
  /\ script' = "completed"
  /\ UNCHANGED <<stage, ids, bundle>>

ScriptFails ==
  /\ script \in Active /\ script' = "failed"
  /\ UNCHANGED <<stage, ids, bundle>>

\* --dependency=afterok
StartStage(i) ==
  /\ stage[i] = "queued" /\ \A j \in After[i] : stage[j] = "completed"
  /\ stage' = [stage EXCEPT ![i] = "running"]
  /\ UNCHANGED <<script, ids, bundle>>

EndStage(i) ==
  /\ stage[i] = "running"
  /\ \E s \in {"completed"} \cup Failed : stage' = [stage EXCEPT ![i] = s]
  /\ UNCHANGED <<script, ids, bundle>>

-------------------------------------------------------------------------------
(* cancel: scancel of the submit id, as long as the record has one.         *)

Cancel ==
  /\ sub = "done" /\ rec = "submitting"
  /\ script' = IF script \in Active THEN "cancelled" ELSE script
  /\ UNCHANGED <<stage, ids, sub, rec, pc, local, answer, lapses, kills>>

-------------------------------------------------------------------------------
(* status                                                                   *)

EndPoll ==
  /\ pc' = "idle" /\ at' = 1 /\ n' = 0
  /\ whole' = FALSE /\ allDone' = TRUE /\ hadError' = FALSE

Complete(what) ==
  /\ EndPoll
  /\ reported' = what /\ wholeReport' = whole

\* It is polled until it says complete.
StartPoll ==
  /\ sub = "done" /\ reported = "none" /\ pc = "idle" /\ rec # "none"
  /\ pc' = IF rec = "submitting" THEN "submit" ELSE "file"
  /\ whole' = (rec = "tracking")
  /\ UNCHANGED <<sub, cluster, rec, at, n, allDone, hadError, answer, lapses, kills>>

\* "Job does not exist. Perhaps it failed to start?"
NoRecord ==
  /\ sub = "done" /\ reported = "none" /\ pc = "idle" /\ rec = "none"
  /\ Complete("missing")
  /\ UNCHANGED <<sub, cluster, rec, lapses, kills>>

\* What sacct says of a job: its state, or nothing.
Sacct(s, v) ==
  \/ v = s /\ UNCHANGED lapses
  \/ v = Silence /\ lapses < MaxLapses /\ lapses' = lapses + 1

\* Slip: "less than running" for "at most running".
OnlyQueued(v) == v \in {Silence, "queued"}
Unfinished(v) == v \in {Silence} \cup Active

\* Slip: the record goes with the submit id.
Dropped == "none"
Tracking == "tracking"
ScriptEnded == script = "completed"

\* get_submit_status: the script is still at work; slurm_ids is read all the same.
PollUnfinished ==
  /\ pc = "submit"
  /\ \E v \in {script, Silence} : Sacct(script, v) /\ Unfinished(v)
  /\ pc' = "file"
  /\ UNCHANGED <<sub, cluster, rec, at, n, whole, allDone, hadError, answer, kills>>

PollScriptFailed ==
  /\ pc = "submit" /\ ~Unfinished(script) /\ script # "completed"
  /\ rec' = "none" /\ Complete("error")
  /\ UNCHANGED <<sub, cluster, lapses, kills>>

\* The submit id is removed from the record.
PollSubmitted ==
  /\ pc = "submit" /\ ScriptEnded
  /\ rec' = Tracking /\ whole' = TRUE /\ pc' = "file"
  /\ UNCHANGED <<sub, cluster, at, n, allDone, hadError, answer, lapses, kills>>

\* There is no slurm_ids file before its first line.
PollNoFile ==
  /\ pc = "file" /\ ids = 0
  /\ EndPoll
  /\ UNCHANGED <<sub, cluster, rec, answer, lapses, kills>>

PollFile ==
  /\ pc = "file" /\ ids > 0
  /\ pc' = "stages" /\ n' = ids
  /\ UNCHANGED <<sub, cluster, rec, at, whole, allDone, hadError, answer, lapses, kills>>

\* Slip: what is not known to run is taken for done.
NotActive(v) == v \notin Active
IsDone(v) == v = "completed"

PollStage ==
  /\ pc = "stages" /\ at <= n /\ stage[at] # Refused
  /\ \E v \in {stage[at], Silence} :
       /\ Sacct(stage[at], v)
       /\ allDone' = (allDone /\ IsDone(v))
       /\ hadError' = (hadError \/ v \in Failed)
  /\ at' = at + 1
  /\ UNCHANGED <<sub, cluster, rec, pc, n, whole, answer, kills>>

\* A line without an id raises an IndexError: the poll gives no answer at all, and
\* the record stays as it is.
PollRaises ==
  /\ pc = "stages" /\ at <= n /\ stage[at] = Refused
  /\ EndPoll
  /\ UNCHANGED <<sub, cluster, rec, answer, lapses, kills>>

\* Slip: an error does not end the job.
AllIsDone == allDone
Over == allDone \/ hadError

PollAgain ==
  /\ pc = "stages" /\ at > n /\ ~Over
  /\ EndPoll
  /\ UNCHANGED <<sub, cluster, rec, answer, lapses, kills>>

PollComplete ==
  /\ pc = "stages" /\ at > n /\ Over
  /\ rec' = "none"
  /\ Complete(IF hadError THEN "error" ELSE "completed")
  /\ UNCHANGED <<sub, cluster, lapses, kills>>

\* The record is deleted, but the answer does not arrive.
AnswerLost ==
  /\ \/ pc = "stages" /\ at > n /\ Over
     \/ pc = "submit" /\ script \in Failed
  /\ kills < MaxKills
  /\ kills' = kills + 1
  /\ rec' = "none" /\ EndPoll
  /\ UNCHANGED <<sub, cluster, answer, lapses>>

PollKilled ==
  /\ pc # "idle" /\ kills < MaxKills
  /\ kills' = kills + 1
  /\ EndPoll
  /\ UNCHANGED <<sub, cluster, rec, answer, lapses>>

-------------------------------------------------------------------------------
SubmitStep  == Prepare \/ PrepareFails \/ GenerateData \/ Sbatch \/ SbatchFails \/ SaveJob
ScriptStep  == StartScript \/ EndScript \/ \E i \in Stage : SubmitStage(i) \/ NoteStage(i)
StageStep(i) == StartStage(i) \/ EndStage(i)
PollStep ==
  \/ StartPoll \/ NoRecord \/ PollUnfinished \/ PollScriptFailed \/ PollSubmitted
  \/ PollNoFile \/ PollFile \/ PollStage \/ PollRaises \/ PollAgain \/ PollComplete

Next ==
  \/ SubmitStep \/ KilledBeforeSave \/ ScriptStep \/ ScriptFails
  \/ \E i \in Stage : StageStep(i)
  \/ Cancel \/ PollStep \/ AnswerLost \/ PollKilled

Spec == Init /\ [][Next]_vars

\* The client polls, and the cluster works off what it was given.
FairSpec ==
  /\ Spec /\ WF_vars(SubmitStep) /\ WF_vars(PollStep) /\ WF_vars(ScriptStep)
  /\ \A i \in Stage : WF_vars(StageStep(i))

-------------------------------------------------------------------------------
(* Properties.                                                              *)

SlurmState == {"unsent", "completed"} \cup Active \cup Failed

TypeOK ==
  /\ sub \in {"start", "ready", "generated", "sent", "done"}
  /\ script \in SlurmState
  /\ stage \in [Stage -> SlurmState \cup {Refused}] /\ ids \in 0..N
  /\ rec \in {"none", "submitting", "tracking"}
  /\ pc \in {"idle", "submit", "file", "stages"} /\ at \in 1..(N + 1) /\ n \in 0..N
  /\ whole \in BOOLEAN /\ allDone \in BOOLEAN /\ hadError \in BOOLEAN
  /\ reported \in {"none", "completed", "error", "missing"} /\ wholeReport \in BOOLEAN
  /\ lapses \in 0..MaxLapses /\ kills \in 0..MaxKills
  /\ rec = "tracking" => script = "completed"

\* A poll that read slurm_ids after the master script ended and says the job is
\* completed is right: no stage is left out, running, failed or refused by sbatch.
CompletedIsReal ==
  reported = "completed" /\ wholeReport => \A i \in Stage : stage[i] = "completed"

\* A job is reported in error only if something of it failed or was cancelled.
ErrorHasCause ==
  reported = "error" => script \in Failed \/ \E i \in Stage : stage[i] \in Failed

\* As long as stages are queued or running, no answer was lost and nothing was
\* reported, the bundle has the record that a poll needs.
NothingForgotten ==
  sub = "done" /\ kills = 0 /\ reported = "none" /\ (\E i \in Stage : stage[i] \in Active)
    => rec # "none"

\* What status has said of the job, in the terms of VerdictSpec; its parts are the
\* script and the stages.
Parts == 0..N
ScriptPart == 0
SlurmParts(S) == {<<"job", i>> : i \in {j \in Stage : stage[j] \in S}
                                          \cup {j \in {ScriptPart} : script \in S}}
SlurmVerdict == INSTANCE VerdictSpec WITH
  Item <- {"job"}, Part <- Parts, Needed <- [i \in {"job"} |-> Parts],
  good <- SlurmParts({"completed"}), bad <- SlurmParts(Failed),
  verdict <- [i \in {"job"} |-> CASE reported = "none" -> "open"
                                   [] reported = "completed" /\ wholeReport -> "whole"
                                   [] reported = "completed" /\ ~wholeReport -> "some"
                                   [] reported = "error" -> "stopped"
                                   [] reported = "missing" -> "given up"]

\* The job is judged once and for good, whatever goes on meanwhile: completed by a
\* poll that saw all of slurm_ids only with the script and each stage, completed
\* by an earlier one only with some stage, in error with a part that failed.
SlurmIsJudged == SlurmVerdict!Spec

\* Once submit has returned, the client is told in the end that the job is over,
\* unless slurm_ids has the line of a stage that sbatch refused: every poll that
\* comes to it raises.
EventuallyReported ==
  (sub = "done") ~> (reported # "none" \/ \E i \in 1..ids : stage[i] = Refused)

===============================================================================
