------------------------------- MODULE CondorJob -------------------------------
(***************************************************************************)
(* A job on an HTCondor cluster: DAGMan, which is external, submits the    *)
(* nodes of the job's DAG as their parents end, and the nodes write their  *)
(* events to one log; each status poll of the bundle works the state of    *)
(* the job out from that log alone (bundle/scheduler/condor.py).           *)
(***************************************************************************)
EXTENDS Integers, Sequences, SequencesExt

CONSTANTS
  Node, Parents,      \* the DAG: [Node -> SUBSET Node]
  Generation, Plot,   \* its first node, and the one that status knows by its name
  MaxEvictions,       \* bound: evictions, holds and releases
  MaxAborts           \* bound: nodes removed from the queue

ASSUME DagAssumption ==
  /\ Parents \in [Node -> SUBSET Node]
  /\ Generation \in Node /\ Plot \in Node /\ Parents[Generation] = {}
ASSUME CondorBoundAssumption == MaxEvictions \in Nat /\ MaxAborts \in Nat

VARIABLES
  log,                \* the event log: nodes and event types
  evictions, aborts,
  outcome             \* the state with which status said complete

condorVars == <<log, evictions, aborts, outcome>>

EventType == {"submit", "execute", "evicted", "aborted", "ok", "failed"}
Entry == [node : Node, type : EventType]
Write(m, t) == log' = Append(log, [node |-> m, type |-> t])

\* The nodes that have an event of a type, and the last event of a node.
With(t)  == {m \in Node : \E e \in ToSet(log) : e.node = m /\ e.type = t}
LastOf(m) == LET i == CHOOSE i \in DOMAIN log :
                        log[i].node = m /\ \A j \in DOMAIN log : log[j].node = m => j <= i
             IN log[i].type

-------------------------------------------------------------------------------
(* DAGMan and the cluster.                                                  *)

CondorInit == log = <<>> /\ evictions = 0 /\ aborts = 0 /\ outcome = "none"

Submit(m) ==
  /\ m \notin With("submit") /\ Parents[m] \subseteq With("ok")
  /\ Write(m, "submit")
  /\ UNCHANGED <<evictions, aborts, outcome>>

Execute(m) ==
  /\ m \in With("submit") /\ LastOf(m) \in {"submit", "evicted"}
  /\ Write(m, "execute")
  /\ UNCHANGED <<evictions, aborts, outcome>>

Evict(m) ==
  /\ m \in With("submit") /\ LastOf(m) = "execute" /\ evictions < MaxEvictions
  /\ evictions' = evictions + 1
  /\ Write(m, "evicted")
  /\ UNCHANGED <<aborts, outcome>>

Abort(m) ==
  /\ m \in With("submit") /\ LastOf(m) \in {"submit", "execute", "evicted"}
  /\ aborts < MaxAborts
  /\ aborts' = aborts + 1
  /\ Write(m, "aborted")
  /\ UNCHANGED <<evictions, outcome>>

Terminate(m) ==
  /\ m \in With("submit") /\ LastOf(m) = "execute"
  /\ \E t \in {"ok", "failed"} : Write(m, t)
  /\ UNCHANGED <<evictions, aborts, outcome>>

-------------------------------------------------------------------------------
(* CondorScheduler.status and condor_status.                                *)

Terminated == With("ok") \cup With("failed")
\* Slip: all that was submitted has ended, whether or not the plots have begun.
NothingLeft == With("submit") \subseteq Terminated
\* All that was submitted has ended, and the plots were begun.
AllEnded == With("submit") \subseteq Terminated /\ Plot \in With("submit")

\* Slip: only the plots are asked for their return value.
PlotFailed == Plot \in With("failed")
AnyFailed == With("failed") # {}

AfterTermination ==
  IF AnyFailed THEN "error" ELSE IF AllEnded THEN "completed" ELSE "running"

\* Slip: an eviction, a hold or a release is taken for a removal.
Interrupted(t) == t \in {"aborted", "evicted"}
Removed(t) == t = "aborted"

\* The latest event decides.
StatusOf ==
  LET latest == Last(log) IN
  CASE Removed(latest.type) -> "cancelled"
    [] latest.type = "submit" -> IF latest.node = Generation THEN "queued" ELSE "running"
    [] latest.type \in {"execute", "evicted"} -> "running"
    [] latest.type \in {"ok", "failed"} -> AfterTermination

StillRunning == StatusOf \in {"queued", "running"}

\* The record is deleted and nobody polls again.
Poll ==
  /\ outcome = "none" /\ log # <<>>
  /\ ~StillRunning
  /\ outcome' = StatusOf
  /\ UNCHANGED <<log, evictions, aborts>>

-------------------------------------------------------------------------------
Work(m) == Submit(m) \/ Execute(m) \/ Terminate(m)
CondorNext ==
  \/ \E m \in Node : Work(m) \/ Evict(m) \/ Abort(m)
  \/ Poll

CondorSpec == CondorInit /\ [][CondorNext]_condorVars

\* The client polls and the cluster works; what it is interrupted by is bounded.
CondorFairSpec == CondorSpec /\ WF_condorVars(Poll) /\ \A m \in Node : WF_condorVars(Work(m))

-------------------------------------------------------------------------------
(* Properties.                                                              *)

CondorTypeOK ==
  /\ log \in Seq(Entry) /\ evictions \in 0..MaxEvictions /\ aborts \in 0..MaxAborts
  /\ outcome \in {"none", "completed", "error", "cancelled"}

\* The plots and all that comes before them in the DAG.
BeforePlots ==
  {m \in Node : \A S \in SUBSET Node :
      Plot \in S /\ (\A k \in S : Parents[k] \subseteq S) => m \in S}

\* Completed is said only of a job whose plots, and every node they are made from,
\* ended well: a pause of DAGMan between two nodes is not the end.  A node that
\* stands beside the plots, as final_result does, may not even be submitted yet.
CompletedDagIsReal == outcome = "completed" => BeforePlots \subseteq With("ok")

\* A job is given up on only with cause: as failed or cancelled when one of its
\* nodes failed or was removed, never for an eviction.
StopHasCause ==
  /\ outcome = "error" => With("failed") # {}
  /\ outcome = "cancelled" => With("aborted") # {}

\* What status has said of the job, in the terms of VerdictSpec.
CondorNodes(S) == {<<"job", m>> : m \in S}
DagVerdict == INSTANCE VerdictSpec WITH
  Item <- {"job"}, Part <- Node, Needed <- [i \in {"job"} |-> BeforePlots],
  good <- CondorNodes(With("ok")), bad <- CondorNodes(With("failed") \cup With("aborted")),
  verdict <- [i \in {"job"} |-> CASE outcome = "none" -> "open"
                                   [] outcome = "completed" -> "whole"
                                   [] outcome \in {"error", "cancelled"} -> "stopped"]

\* However the nodes interleave, the job is judged once and for good: completed
\* with the plots and what they are made from, stopped with a node that failed or
\* was removed.
DagIsJudged == DagVerdict!Spec

\* However the nodes interleave, a job is reported in the end, completed or not,
\* as long as nobody removes nodes from the queue.
EventuallyDagReported == <>(outcome # "none" \/ aborts > 0)

===============================================================================
