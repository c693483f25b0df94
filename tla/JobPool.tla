------------------------------- MODULE JobPool -------------------------------
(***************************************************************************)
(* What the subagent runtime promises to the agent that uses it: a pool    *)
(* that works on at most Max jobs at a time.  A job is pending, then       *)
(* active, then settled.  A settled job is settled for good.  A resident   *)
(* (a teammate) is on the books for as long as it likes and does not count *)
(* against the pool's size.  A restart makes every unsettled job pending   *)
(* again, or loses the books altogether.                                   *)
(***************************************************************************)
EXTENDS Naturals, FiniteSets

CONSTANTS Job, Max

VARIABLE stage

Stage == {"absent", "pending", "active", "resident", "settled"}

Active == {j \in Job : stage[j] = "active"}

Init == stage = [j \in Job |-> "absent"]

Move(j, from, to) ==
  /\ stage[j] \in from
  /\ stage' = [stage EXCEPT ![j] = to]

Submit(j) == Move(j, {"absent"}, "pending")

Hire(j) == Move(j, {"absent"}, "resident")

Start(j) ==
  /\ Cardinality(Active) < Max
  /\ Move(j, {"pending"}, "active")

Settle(j) == Move(j, {"pending", "active", "resident"}, "settled")

\* What a job may be after a restart that kept the books.
After(before) ==
  CASE before \in {"absent", "pending", "settled"} -> {before}
    [] before = "active"   -> {"pending"}
    [] before = "resident" -> {"pending", "settled"}

Restart ==
  /\ stage' \in [Job -> Stage]
  /\ \/ \A j \in Job : stage'[j] \in After(stage[j])
     \/ \A j \in Job : stage'[j] = "absent"

Next ==
  \/ \E j \in Job : Submit(j) \/ Hire(j) \/ Start(j) \/ Settle(j)
  \/ Restart

Spec == Init /\ [][Next]_stage
=============================================================================
