---------------------------- MODULE CampaignReport ----------------------------
(***************************************************************************)
(* The report of a campaign: which counters each way a cycle can end       *)
(* raises, the reason given when nothing useful was found, and the report  *)
(* recomputed from fresh reviews (pure operators).                         *)
(***************************************************************************)
EXTENDS Recombination, Sequences

(* What a cycle adds one to.  rejected_plan_count and the blockers are left out: they are
   only printed. *)
Count == {"total", "passed", "failed", "useful", "generated", "rejected",
          "duplicate", "failedValidator", "notUseful", "belowScore", "failedReplay",
          "alreadyPromoted", "replayAttempted", "replayPassed", "replayFailed", "ready"}
Plans == {"generated", "accepted", "filtered", "targetMiss", "kindMiss", "repeated", "none"}

Report == [count : [Count -> Nat], plans : [Plans -> Nat],
           tried : BOOLEAN, used : BOOLEAN, leaks : Nat, candidates : Seq(Nat),
           reason : Reason \cup {"none"}]

EmptyReport ==
  [count |-> [c \in Count |-> 0], plans |-> [c \in Plans |-> 0],
   tried |-> FALSE, used |-> FALSE, leaks |-> 0, candidates |-> <<>>, reason |-> "none"]

Raise(report, counts) ==
  [report EXCEPT !.count = [c \in Count |-> IF c \in counts THEN @[c] + 1 ELSE @[c]]]

WithDiagnosis(report, d) ==
  [report EXCEPT !.plans = [c \in Plans |-> @[c] + d[c]]]

(* merge_recombination_diagnostics *)
WithFallback(report, found) ==
  [report EXCEPT !.tried = TRUE, !.used = @ \/ found]

(* A cycle that ended with an error: it may have logged the rejection of a duplicate. *)
DuplicateCounts == {"total", "failed", "generated", "rejected", "duplicate"}
ErrorCounts     == {"total", "failed", "rejected", "failedValidator"}

(* A cycle that ended well, by the entry found last in the log. *)
EntryCounts(status) ==
  {"total", "generated", IF status = "failed" THEN "failed" ELSE "passed"}
Rejection(cause) == {"rejected", cause}
ReplayCounts(ok) ==
  {"replayAttempted"} \cup (IF ok THEN {"replayPassed"}
                            ELSE {"replayFailed"} \cup Rejection("failedReplay"))
UsefulCounts(allowed) == {"useful"} \cup (IF allowed THEN {"ready"} ELSE {})

(* infer_zero_candidate_reason: the first of these that holds. *)
ZeroReason(report) ==
  LET p == report.plans
      c == report.count
      none == p["accepted"] = 0
  IN IF report.tried /\ ~ report.used /\ none /\ p["filtered"] > 0
       THEN "task_constraints_too_narrow"
     ELSE IF p["none"] > 0 /\ p["generated"] = 0 THEN "no_valid_plan"
     ELSE IF p["targetMiss"] > 0 /\ none /\ p["targetMiss"] >= p["kindMiss"]
       THEN "allowed_targets_filtered_all"
     ELSE IF p["kindMiss"] > 0 /\ none THEN "allowed_kinds_filtered_all"
     ELSE IF p["repeated"] > 0 /\ none THEN "repeated_target_pressure_too_high"
     ELSE IF c["duplicate"] > 0 THEN "all_candidates_duplicate"
     ELSE IF c["belowScore"] > 0 THEN "all_candidates_below_min_score"
     ELSE IF c["alreadyPromoted"] > 0 THEN "all_candidates_already_promoted"
     ELSE IF p["filtered"] > 0 THEN "task_constraints_too_narrow"
     ELSE IF p["none"] > 0 THEN "no_valid_plan" ELSE "unknown_zero_yield"

(* The end of run_campaign: the leaks once more, and why nothing useful was found. *)
Closed(report, sandboxes) ==
  LET r == [report EXCEPT !.leaks = @ + sandboxes]
  IN IF r.count["total"] > 0 /\ r.count["useful"] = 0
     THEN [r EXCEPT !.reason = ZeroReason(r)] ELSE r

(* Runs of a report's candidates that a predicate holds of; a run may be listed twice. *)
Among(report, P(_)) == Cardinality({i \in DOMAIN report.candidates : P(report.candidates[i])})

(* Mutant: the rejections of an earlier count stay in the sum. *)
CountedTwice(report, replay, ok, allowed, promoted) ==
  LET failed == Len(report.candidates) - Among(report, LAMBDA r : r \in ok)
      gone   == Among(report, LAMBDA r : r \in promoted)
  IN [report EXCEPT !.count["rejected"] = @ + failed + gone,
                    !.count["failedReplay"] = failed, !.count["replayFailed"] = failed,
                    !.count["replayPassed"] = Len(report.candidates) - failed,
                    !.count["replayAttempted"] = IF replay THEN Len(report.candidates) ELSE 0]

(* reconcile_campaign_candidate_state, from the candidates whose replay is ok, that may be
   promoted, and that are promoted already. *)
Reconciled(report, replay, ok, allowed, promoted) ==
  LET passed == Among(report, LAMBDA r : r \in ok)
      failed == Len(report.candidates) - passed
      gone   == Among(report, LAMBDA r : r \in promoted)
      count  == report.count
  IN IF report.candidates = <<>> THEN report
     ELSE [report EXCEPT
             !.count["replayAttempted"] = IF replay THEN Len(report.candidates) ELSE 0,
             !.count["replayPassed"] = passed,
             !.count["replayFailed"] = failed,
             !.count["failedReplay"] = failed,
             !.count["ready"] = Among(report, LAMBDA r : r \in allowed),
             !.count["alreadyPromoted"] = gone,
             !.count["rejected"] =
               Less(Less(@, count["failedReplay"]), count["alreadyPromoted"]) + failed + gone]
=============================================================================
