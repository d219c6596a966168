------------------------------ MODULE VerdictSpec ------------------------------
(***************************************************************************)
(* What those that follow work done elsewhere promise about it: the bundle *)
(* about a job on a cluster, the GWOSC cron about an event it uploads.     *)
(* Work has parts, which go well or badly for good; a verdict is given     *)
(* once, is not taken back, and says what the parts bear out.              *)
(***************************************************************************)
CONSTANTS
  Item, Part,             \* what is judged, and what it may be made of
  Needed                  \* [Item -> SUBSET Part]: the parts each is whole with

VARIABLES
  good, bad,              \* parts that went well, and badly: pairs <<item, part>>
  verdict                 \* of each item: "open", or one of Verdict

\* All went well; some did; something went wrong; given up, which needs no reason.
Verdict == {"whole", "some", "stopped", "given up"}

Of(i) == {<<i, p>> : p \in Needed[i]}

BornOut(i, v) ==
  CASE v = "whole"    -> Of(i) # {} /\ Of(i) \subseteq good
    [] v = "some"     -> Of(i) \cap good # {}
    [] v = "stopped"  -> \E p \in Part : <<i, p>> \in bad
    [] v = "given up" -> TRUE

Init ==
  /\ good = {} /\ bad = {}
  /\ verdict = [i \in Item |-> "open"]

\* Parts end, and stay as they ended.
Progress ==
  /\ good \subseteq good' /\ bad \subseteq bad'
  /\ UNCHANGED verdict

Judge(i) ==
  /\ verdict[i] = "open"
  /\ \E v \in Verdict : BornOut(i, v) /\ verdict' = [verdict EXCEPT ![i] = v]
  /\ UNCHANGED <<good, bad>>

Next == Progress \/ \E i \in Item : Judge(i)

Spec == Init /\ [][Next]_<<good, bad, verdict>>
===============================================================================
