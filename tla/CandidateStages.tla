--------------------------- MODULE CandidateStages --------------------------
(***************************************************************************)
(* What the files of a run promise a reader: a run is logged as a          *)
(* candidate, then offered, then replayed.  No stage is skipped and none   *)
(* is taken back.                                                          *)
(***************************************************************************)
CONSTANT Run

VARIABLE stage

Stage == {"none", "logged", "offered", "replayed"}

StagesInit == stage = [r \in Run |-> "none"]

Advance(r, from, to) ==
  /\ stage[r] = from
  /\ stage' = [stage EXCEPT ![r] = to]

LogCandidate(r) == Advance(r, "none", "logged")
Offer(r)        == Advance(r, "logged", "offered")
ReplayOnce(r)   == Advance(r, "offered", "replayed")

StagesNext == \E r \in Run : LogCandidate(r) \/ Offer(r) \/ ReplayOnce(r)

StagesSpec == StagesInit /\ [][StagesNext]_stage
=============================================================================
