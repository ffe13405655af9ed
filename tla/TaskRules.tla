------------------------------ MODULE TaskRules ------------------------------
(***************************************************************************)
(* Task contracts: which contracts are valid, which plans and hypotheses a *)
(* contract admits, and the contract drafted after a campaign that found   *)
(* nothing (pure operators).                                               *)
(*                                                                         *)
(* A pattern of a contract is a prefix ("tests/*") or a file; Covers says  *)
(* which files it matches.  Scores are in tenths, risks in hundredths.     *)
(***************************************************************************)
EXTENDS Naturals, FiniteSets

CONSTANTS Target,      \* files a mutation may aim at
          Pattern,     \* target patterns
          Covers,      \* files each pattern matches
          BadPattern,  \* patterns with ".." or an absolute path
          Kind,        \* mutation kinds
          Objective    \* mutation objectives

SafeTargets  == {"tests/*", "src/evolution/*", "src/promotion/*", "src/sandbox/*"}
SafeTargetsWithRuntime == SafeTargets \cup {"src/runtime/*"}
SafeKinds    == {"AddUnitTest", "AddReplayAssertion", "AddLearningSummaryField",
                 "AddMetricUpdate"}
HardForbidden  == {"src/core/*", "src/main.rs", "src/lib.rs", "Cargo.toml"}
RequiredDenied == {"DeleteCode", "RewriteFunction", "FreeDiff", "DependencyAdd"}

ASSUME RulesAssumption ==
  /\ Covers \in [Pattern -> SUBSET Target]
  /\ SafeTargetsWithRuntime \cup HardForbidden \subseteq Pattern
  /\ SafeKinds \subseteq Kind
  /\ BadPattern \cap (SafeTargetsWithRuntime \cup HardForbidden) = {}

Task == [targets : SUBSET Pattern, forbidden : SUBSET Pattern, kinds : SUBSET Kind,
         objectives : SUBSET Objective, denied : SUBSET RequiredDenied,
         maxRisk : Nat, minScore : Nat, cycles : Nat,
         replay : BOOLEAN, benchmark : BOOLEAN, autoPromote : BOOLEAN]

(* validate_task_contract *)
Valid(t) ==
  /\ t.cycles > 0 /\ t.cycles <= 100
  /\ t.maxRisk <= 35
  /\ t.autoPromote = FALSE
  /\ HardForbidden \subseteq t.forbidden
  /\ RequiredDenied \subseteq t.denied
  /\ (t.targets \cup t.forbidden) \cap BadPattern = {}

Matches(target, patterns) == \E p \in patterns : target \in Covers[p]

-----------------------------------------------------------------------------
(* Plans *)

Plan == [target : Target, kind : Kind, objective : Objective, risk : Nat]

(* An empty list of targets, kinds or objectives allows them all. *)
AdmitsTarget(t, target) ==
  /\ t.targets = {} \/ Matches(target, t.targets)
  /\ ~ Matches(target, t.forbidden)
AdmitsKind(t, kind) == t.kinds = {} \/ kind \in t.kinds

(* task_allows and the risk limit of the planner; collect_cycle_diagnostics repeats them. *)
Admits(t, plan) ==
  /\ AdmitsTarget(t, plan.target)
  /\ AdmitsKind(t, plan.kind)
  /\ t.objectives = {} \/ plan.objective \in t.objectives
  /\ plan.risk <= t.maxRisk

GeneratedTests == "tests/evolution_generated_tests.rs"

(* collect_cycle_diagnostics: how many plans there are and why the task leaves none. *)
Diagnosis(plans, t, overused) ==
  LET admitted == {p \in plans : Admits(t, p)}
      repeated == {p \in admitted : overused /\ p.target = GeneratedTests}
  IN [generated  |-> Cardinality(plans),
      accepted   |-> Cardinality(admitted \ repeated),
      filtered   |-> Cardinality(plans \ admitted),
      targetMiss |-> Cardinality({p \in plans : ~ AdmitsTarget(t, p.target)}),
      kindMiss   |-> Cardinality({p \in plans : ~ AdmitsKind(t, p.kind)}),
      repeated   |-> Cardinality(repeated),
      none       |-> IF admitted \ repeated = {} THEN 1 ELSE 0]

(* select_task_compatible_from_hypotheses: much the same tests, on a hypothesis, which has no
   objective to test.  ReplaceText counts as useful here, and the label of no SafeKind passes
   the test of the allowed kinds; none of the useful kinds can be denied. *)
Fits(t, h) ==
  /\ h.kind \in SafeKinds \cup {"ReplaceText"}
  /\ ~ Matches(h.target, HardForbidden \cup t.forbidden)
  /\ t.targets = {} \/ Matches(h.target, t.targets)
  /\ h.kind \in SafeKinds => AdmitsKind(t, h.kind)
  /\ h.risk <= t.maxRisk

-----------------------------------------------------------------------------
(* The draft after a campaign without a useful candidate *)

Least(a, b) == IF a <= b THEN a ELSE b
Most(a, b)  == IF a >= b THEN a ELSE b
Less(a, b)  == IF a >= b THEN a - b ELSE 0

SaneTargets(ps) ==
  IF ps \cap SafeTargetsWithRuntime = {} THEN {"tests/*"} ELSE ps \cap SafeTargetsWithRuntime
SaneKinds(ks) ==
  IF ks \cap SafeKinds = {} THEN {"AddUnitTest", "AddReplayAssertion"} ELSE ks \cap SafeKinds

BroadTargets(ps, runtime) ==
  SaneTargets(ps) \cup (IF runtime THEN SafeTargetsWithRuntime ELSE SafeTargets)
OtherKinds(ks) ==
  IF SaneKinds(ks) = {"AddUnitTest"}
  THEN {"AddReplayAssertion", "AddMetricUpdate", "AddLearningSummaryField"}
  ELSE SaneKinds(ks) \cup {"AddReplayAssertion"}

Reason == {"task_constraints_too_narrow", "no_valid_plan", "allowed_targets_filtered_all",
           "allowed_kinds_filtered_all", "repeated_target_pressure_too_high",
           "all_candidates_duplicate", "all_candidates_below_min_score",
           "all_candidates_already_promoted", "unknown_zero_yield"}
(* Reasons with a template in analyze_zero_yield; the others give a diagnosis only. *)
DraftReason == {"task_constraints_too_narrow", "allowed_targets_filtered_all",
                "allowed_kinds_filtered_all", "all_candidates_below_min_score",
                "all_candidates_duplicate", "all_candidates_already_promoted"}

DraftTargets(t, reason) ==
  CASE reason \in {"task_constraints_too_narrow", "allowed_targets_filtered_all"} ->
         BroadTargets(t.targets, TRUE)
    [] reason \in {"all_candidates_below_min_score", "all_candidates_duplicate"} ->
         BroadTargets(t.targets, FALSE)
    [] reason = "all_candidates_already_promoted" ->
         BroadTargets(t.targets, FALSE) \ {"tests/*"}
    [] OTHER -> SaneTargets(t.targets)

DraftKinds(t, reason) ==
  CASE reason \in {"task_constraints_too_narrow", "allowed_kinds_filtered_all"} -> SafeKinds
    [] reason = "all_candidates_duplicate" -> OtherKinds(t.kinds)
    [] OTHER -> SaneKinds(t.kinds)

DraftScore(t, reason) ==
  LET high == Most(t.minScore, 50)
  IN CASE reason = "task_constraints_too_narrow" -> Most(Less(high, 5), 50)
       [] reason = "all_candidates_below_min_score" -> Most(Less(high, 10), 50)
       [] OTHER -> high

(* Mutant: a narrow list of targets is broadened as it stands. *)
BroadenedAsIs(t, reason) ==
  [t EXCEPT !.autoPromote = FALSE, !.replay = TRUE, !.denied = RequiredDenied,
            !.maxRisk = Least(t.maxRisk, 25),
            !.minScore = DraftScore(t, reason),
            !.cycles = Least(t.cycles + 1, 5),
            !.targets = t.targets \cup SafeTargets,
            !.kinds = DraftKinds(t, reason)]

(* analyze_zero_yield *)
Adjusted(t, reason) ==
  [t EXCEPT !.autoPromote = FALSE, !.replay = TRUE, !.denied = RequiredDenied,
            !.maxRisk = Least(t.maxRisk, 25),
            !.minScore = DraftScore(t, reason),
            !.cycles = Least(t.cycles + 1, Least(t.cycles + 2, 5)),
            !.targets = DraftTargets(t, reason),
            !.kinds = DraftKinds(t, reason)]

(* validate_adjusted_task *)
ValidDraft(t, original) ==
  /\ Valid(t)
  /\ t.replay = TRUE
  /\ t.maxRisk <= 25 /\ t.minScore >= 50
  /\ t.targets \subseteq SafeTargetsWithRuntime
  /\ t.kinds \subseteq SafeKinds
  /\ t.cycles <= Least(original.cycles + 2, 5)
=============================================================================
