------------------------------ MODULE MirrorSpec ------------------------------
(***************************************************************************)
(* What the gwflow cron promises about the metadata it mirrors: GWCloud    *)
(* only ever holds, of each superevent, versions that the cbcflow portal   *)
(* published of it.  The one it holds goes back only by a request that was *)
(* not behind it when it was made, and that was carried out so late that a *)
(* newer one had overtaken it; it is carried out once.                     *)
(***************************************************************************)
EXTENDS Integers

CONSTANT Item             \* what is mirrored

VARIABLES
  published,              \* the versions published, as pairs <<version, item>>
  copy,                   \* copy[i]: the version mirrored, 0 if none
  asked                   \* requests not carried out yet that nobody waits for

Init == published = {} /\ copy = [i \in Item |-> 0] /\ asked = {}

\* Some items get new versions, all in one commit.
Publish ==
  /\ published \subseteq published'
  /\ \A p \in published' \ published, q \in published : p[1] > q[1]
  /\ UNCHANGED <<copy, asked>>

\* A published version that the copy is not ahead of.
UpToDate(p) == p \in published /\ p[2] \in Item /\ copy[p[2]] <= p[1]

Put(p) == copy' = [copy EXCEPT ![p[2]] = p[1]]

Sync(p) == UpToDate(p) /\ Put(p) /\ UNCHANGED <<published, asked>>
Ask(p)  == UpToDate(p) /\ asked' = asked \cup {p} /\ UNCHANGED <<published, copy>>
Land(p) == p \in asked /\ Put(p) /\ asked' = asked \ {p} /\ UNCHANGED published

Next ==
  \/ Publish
  \/ \E p \in published : Sync(p) \/ Ask(p)
  \/ \E p \in asked : Land(p)

Spec == Init /\ [][Next]_<<published, copy, asked>>
===============================================================================
