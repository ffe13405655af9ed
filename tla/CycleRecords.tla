---------------------------- MODULE CycleRecords ----------------------------
(***************************************************************************)
(* What one evolution cycle says about one mutation: score, usefulness,    *)
(* status and outcome, and which counters of the metrics and of the        *)
(* portfolio count it (pure operators).                                    *)
(*                                                                         *)
(* A mutation is known by its digest, which determines its kind and its    *)
(* target.  How far a trial got is a number of gates: 0 cargo check        *)
(* failed, 1 test failed, 2 run failed, 3 all passed.                      *)
(***************************************************************************)
EXTENDS Naturals

CONSTANTS Digest,   \* mutations, by digest
          Pattern,  \* pattern ids: a plan, or a kind with a target
          KindOf    \* kind of a mutation

Kind == {"AppendComment", "ReplaceText", "ParameterTune", "AddTestSkeleton", "AddMetricField",
         "AddUnitTest", "AddReplayAssertion", "AddLearningSummaryField", "AddMetricUpdate"}
Gates == 0..3

ASSUME RecordsAssumption == KindOf \in [Digest -> Kind]

Entry == [run : Nat, digest : Digest, pattern : Pattern, gates : Gates,
          duplicate : BOOLEAN, retained : BOOLEAN, destroyed : BOOLEAN]

UsefulTemplate(k) == k # "AppendComment"

(* score_cycle: 3 for cargo check, 4 for test, 3 for run; a cosmetic one at most 2. *)
Score(k, g) ==
  LET earned == CASE g = 0 -> 0 [] g = 1 -> 3 [] g = 2 -> 7 [] g = 3 -> 10
  IN IF ~ UsefulTemplate(k) /\ earned > 2 THEN 2 ELSE earned

Accepted(g) == g >= 2
Useful(d, g) == UsefulTemplate(KindOf[d]) /\ g = 3

(* A duplicate rejection is scored 0, not useful: no gate was passed. *)
EntryScore(e)  == Score(KindOf[e.digest], e.gates)
EntryUseful(e) == Useful(e.digest, e.gates)

(* Mutant: an accepted result that is no candidate has a status of its own. *)
StatusSkipped(e) ==
  IF e.retained THEN "promoted"
  ELSE IF ~ Accepted(e.gates) THEN "failed"
  ELSE IF EntryUseful(e) THEN "candidate" ELSE "skipped"

(* build_log_entry_with_plan, with CANDIDATE_THRESHOLD 5 *)
Status(e) ==
  IF e.retained THEN "promoted"
  ELSE IF ~ Accepted(e.gates) THEN "failed"
  ELSE IF EntryScore(e) >= 5 /\ EntryUseful(e) THEN "candidate" ELSE "passed"

(* Mutant: the score decides alone what is stored. *)
StoredByScore(e) == EntryScore(e) >= 5 /\ Status(e) # "failed"

(* maybe_store_candidate *)
Stored(e) == EntryScore(e) >= 5 /\ Status(e) # "failed" /\ EntryUseful(e)

(* classify_run_outcome; the reasons of policy and operator are never given to a cycle. *)
Outcome(e) ==
  IF e.duplicate THEN "duplicate"
  ELSE IF e.retained THEN "already_promoted"
  ELSE IF Status(e) \in {"passed", "candidate"} THEN "passed"
  ELSE IF KindOf[e.digest] = "AppendComment" THEN "cosmetic" ELSE "cargo_gate"

Counter == {"total", "passed", "failed", "cargo_gate_failed", "replay_failed_runs",
            "safety_rejected", "duplicate_rejected", "cosmetic_rejected", "already_promoted",
            "candidates", "promoted", "replay_passed", "replay_failed"}

(* apply_outcome_counts *)
OutcomeCounters ==
  [duplicate        |-> {"safety_rejected", "duplicate_rejected"},
   already_promoted |-> {"already_promoted"},
   passed           |-> {"passed"},
   cosmetic         |-> {"safety_rejected", "cosmetic_rejected"},
   cargo_gate       |-> {"failed", "cargo_gate_failed"}]

(* Mutant: a promotion counts as a candidate once more. *)
RunCountersTwice(e) ==
  {"total"} \cup OutcomeCounters[Outcome(e)]
            \cup (IF EntryScore(e) >= 5 /\ Accepted(e.gates) THEN {"candidates"} ELSE {})
            \cup (IF e.retained THEN {"promoted"} ELSE {})

(* update_metrics_after_log: the counters an entry adds one to. *)
RunCounters(e) ==
  {"total"} \cup OutcomeCounters[Outcome(e)]
            \cup (IF Status(e) = "candidate" THEN {"candidates"} ELSE {})
            \cup (IF e.retained THEN {"promoted"} ELSE {})

(* update_metrics_after_replay *)
ReplayCounters(ok) ==
  IF ok THEN {"replay_passed"} ELSE {"replay_failed", "replay_failed_runs", "failed"}

Class(k, useful) ==
  CASE k \in {"AddUnitTest", "AddReplayAssertion", "AddMetricUpdate", "AddLearningSummaryField"} ->
         "useful"
    [] k = "ReplaceText" -> IF useful THEN "useful" ELSE "legacy"
    [] k = "AppendComment" -> "cosmetic"
    [] OTHER -> "legacy"

Share == {"seen", "useful_success", "cosmetic", "candidates", "replay_passed", "promoted"}

(* update_portfolio_after_log: what an entry adds to the share of its kind. *)
KindShare(e) ==
  LET class == Class(KindOf[e.digest], EntryUseful(e))
  IN {"seen"} \cup (IF class = "useful" /\ e.gates >= 2 THEN {"useful_success"} ELSE {})
              \cup (IF class = "cosmetic" THEN {"cosmetic"} ELSE {})
              \cup (IF class = "useful" /\ Status(e) = "candidate" THEN {"candidates"} ELSE {})
              \cup (IF class = "useful" /\ e.retained THEN {"promoted"} ELSE {})

(* update_portfolio_after_replay *)
ReplayShare(d, ok) ==
  IF ok /\ Class(KindOf[d], TRUE) = "useful" THEN {"replay_passed"} ELSE {}
=============================================================================
