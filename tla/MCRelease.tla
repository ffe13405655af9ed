------------------------------ MODULE MCRelease ------------------------------
(* Two operators and one useful candidate: release ids, files and approvals of
   different runs never meet, and what a twin does to a candidate is what its own
   promotion by another path does. *)
EXTENDS Release, TLC
MCCandidate == {1}
MCDigest == {"d"}
MCProfile == [c \in MCCandidate |->
  [digest |-> "d", class |-> "useful", flags |-> {"useful_change"}]]
(* Bound on everything together: four commands, decisions, promotions or upsets, or three and a
   death. *)
InBounds == now + work + deaths <= MaxWork
MCOperators == Permutations(Operator)
=============================================================================
