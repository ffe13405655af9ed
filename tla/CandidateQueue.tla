--------------------------- MODULE CandidateQueue ---------------------------
(***************************************************************************)
(* How the promotion queue judges one stored candidate: the review's       *)
(* blockers, the lifecycle label the governance commands read, and the     *)
(* candidate state the operator sees.  Pure operators; Governance keeps    *)
(* the queue file itself.                                                  *)
(*                                                                         *)
(* A candidate's summary, mutation and report never change once stored, so *)
(* they are the constant Profile.  What a later refresh can see differently*)
(* is a record of facts:                                                   *)
(*   replay    the replay status the report shows ("unknown" when the      *)
(*             review itself failed)                                       *)
(*   promoted  a retained_in_core entry with the candidate's digest exists *)
(*   present   the target file already contains the payload                *)
(*   named     it already has a test of the payload's test's name          *)
(*   hindered  autonomy_status lists a blocker                             *)
(***************************************************************************)
EXTENDS Naturals

CONSTANTS Candidate,  \* run ids of the stored candidates
          Digest,     \* mutation digests
          Profile     \* what summary, mutation and report say of a candidate

Class == {"useful", "cosmetic", "unsafe", "legacy"}
Flag  == {"useful_change", "low_score", "high_risk", "forbidden", "low_quality"}

ASSUME ProfileAssumption ==
  Profile \in [Candidate -> [digest : Digest, class : Class, flags : SUBSET Flag]]

DigestOf(c) == Profile[c].digest
ClassOf(c)  == Profile[c].class
Has(c, flag) == flag \in Profile[c].flags

ReplayStatus == {"not_run", "ok", "failed", "unknown"}
Facts == [replay : ReplayStatus, promoted : BOOLEAN, present : BOOLEAN,
          named : BOOLEAN, hindered : BOOLEAN]

-----------------------------------------------------------------------------
(* check_promotion_gate: the first reason that refuses the mutation. *)
GateReason(c) ==
  IF ClassOf(c) = "cosmetic"  THEN "cosmetic"
  ELSE IF Has(c, "low_score") THEN "score"
  ELSE IF Has(c, "high_risk") THEN "risk"
  ELSE IF Has(c, "forbidden") THEN "forbidden"
  ELSE "open"

When(condition, blocker) == IF condition THEN {blocker} ELSE {}

(* collect_blockers; a review that cannot be made is a blocker of its own. *)
Blockers(c, f) ==
  IF f.replay = "unknown" THEN {"review_unavailable"}
  ELSE When(~ Has(c, "useful_change"), "useful_change_false")
       \cup When(Has(c, "low_score"), "score_below_threshold")
       \cup When(Has(c, "low_quality"), "quality_score_low")
       \cup When(f.promoted, "already_promoted")
       \cup When(f.replay # "ok", "replay_not_ok")
       \cup When(ClassOf(c) = "cosmetic", "appendcomment_cosmetic")
       \cup When(GateReason(c) = "forbidden", "forbidden_target")
       \cup When(GateReason(c) \in {"risk", "cosmetic"}, "promotion_gate_blocked")
       \cup When(f.present, "target_already_contains_payload")
       \cup When(f.named, "duplicate_test_function_name")
       \cup When(f.hindered, "autonomy_blocked")

PromotionAllowed(c, f) == Blockers(c, f) = {}

(* classify_lifecycle: the ladder is tried from the top.  The report exists:
   the refresh rebuilds a missing one before it classifies. *)
Lifecycle(c, f) ==
  IF ClassOf(c) = "cosmetic"    THEN "cosmetic_rejected"
  ELSE IF ClassOf(c) = "unsafe" THEN "unsafe_rejected"
  ELSE IF ClassOf(c) = "legacy" THEN "unknown"
  ELSE IF ~ Has(c, "useful_change")              THEN "blocked"
  ELSE IF "already_promoted" \in Blockers(c, f)  THEN "already_promoted"
  ELSE IF f.replay = "not_run"                   THEN "needs_replay"
  ELSE IF f.replay # "ok"                        THEN "replay_failed"
  ELSE IF PromotionAllowed(c, f)                 THEN "ready"
  ELSE "blocked"

(* The second label of classify_lifecycle, the one an approval remembers. *)
PromotionState(c, f) ==
  IF Lifecycle(c, f) \in {"ready", "already_promoted", "needs_replay"}
  THEN Lifecycle(c, f) ELSE "blocked"

(* Mutant: a useful candidate with a replay is ready, whatever blocks it. *)
ReadyOnReplay(c, f) == IF f.replay = "ok" /\ ClassOf(c) = "useful" THEN "Ready" ELSE "Blocked"

(* classify_candidate_state: the state the queue shows and release checks.  The
   rungs no stored candidate reaches are left out: a duplicate is refused before
   it is stored, the report exists here, and a summary whose cargo gates failed
   is neither useful nor replayed ok. *)
CandidateState(c, f) ==
  IF ClassOf(c) = "legacy"                         THEN "Legacy"
  ELSE IF ClassOf(c) \in {"unsafe", "cosmetic"}    THEN "Quarantined"
  ELSE IF "already_promoted" \in Blockers(c, f)    THEN "AlreadyPromoted"
  ELSE IF f.replay \notin {"ok", "not_run"}        THEN "Unreplayable"
  ELSE IF "forbidden_target" \in Blockers(c, f)    THEN "Blocked"
  ELSE IF f.replay = "ok" /\ Has(c, "useful_change") /\ Blockers(c, f) = {}
       THEN "Ready"
  ELSE "Blocked"

(* validate_approval_candidate: what --approve-candidate refuses.  It asks
   for less than PromotionAllowed. *)
Approvable(c, f) ==
  /\ ClassOf(c) = "useful"
  /\ Lifecycle(c, f) # "already_promoted"
  /\ f.replay = "ok"
  /\ ~ Has(c, "high_risk")
  /\ "forbidden_target" \notin Blockers(c, f)
  /\ Has(c, "useful_change")
=============================================================================
