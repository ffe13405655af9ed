---------------------------- MODULE Recombination ----------------------------
(***************************************************************************)
(* Recombined hypotheses: what is tried when no plan of the graph fits the *)
(* task.  Each source file of the graph suggests mutations by what its     *)
(* path says of it; the evolution policy on file has a say in their kinds  *)
(* (pure operators).                                                       *)
(*                                                                         *)
(* Of the scores only their order counts, and it hangs on all the          *)
(* memories: any hypothesis may be the best.                               *)
(***************************************************************************)
EXTENDS TaskRules

CONSTANT Says  \* what each target's path says of it; "source" is a file below src/ that is
               \* not forbidden, "evolution" one below src/evolution/ or src/runtime

MetricsFile == "src/evolution/metrics.rs"

ASSUME RecombinationAssumption ==
  /\ Says \in [Target -> SUBSET {"source", "validator", "replay", "metrics", "evolution"}]
  /\ {GeneratedTests, MetricsFile} \subseteq Target

-----------------------------------------------------------------------------
(* Policy *)

StrategyKinds ==
  [ReplaySafety        |-> {"AddReplayAssertion", "AddUnitTest"},
   MetricsReporting    |-> {"AddMetricUpdate", "AddLearningSummaryField"},
   ValidationHardening |-> {"AddUnitTest"},
   RegressionAvoidance |-> {"AddReplayAssertion", "AddUnitTest", "AddMetricUpdate"},
   CandidateReview     |-> {"AddReplayAssertion", "AddMetricUpdate"},
   TestExpansion       |-> {"AddUnitTest", "AddReplayAssertion"}]

(* build_policy, of the strategy that scored best: its kinds that the task allows, or
   all when there is none. *)
PolicyKinds(strategy, kinds) ==
  LET both == IF kinds = {} THEN StrategyKinds[strategy] ELSE StrategyKinds[strategy] \cap kinds
  IN IF both = {} THEN SafeKinds ELSE both

-----------------------------------------------------------------------------
(* Hypotheses *)

Suggested(condition, kind, target) ==
  IF condition THEN {[kind |-> kind, target |-> target]} ELSE {}

(* candidate_options: a risky file is answered by a test, one about metrics by more of
   them, whatever else by a unit test. *)
Options(file, unitTestsWorked) ==
  LET says == Says[file]
      found ==
        Suggested("validator" \in says, "AddUnitTest", GeneratedTests)
        \cup Suggested("replay" \in says, "AddReplayAssertion", GeneratedTests)
        \cup Suggested("evolution" \in says, "AddReplayAssertion", GeneratedTests)
        \cup Suggested("evolution" \in says /\ unitTestsWorked, "AddUnitTest", GeneratedTests)
        \cup Suggested("metrics" \in says, "AddMetricUpdate", MetricsFile)
        \cup Suggested("metrics" \in says, "AddLearningSummaryField", MetricsFile)
  IN IF found = {} THEN Suggested(TRUE, "AddUnitTest", GeneratedTests) ELSE found

(* estimate_risk; each failed trial on the file costs four hundredths, ten at most count. *)
Risk(file, target, failures) ==
  Least(45, Most(2, Less(8 + 4 * Least(failures, 10)
                           + (IF "evolution" \in Says[file] THEN 5 ELSE 0)
                           + (IF target = MetricsFile THEN 1 ELSE 0),
                         IF target = GeneratedTests THEN 5 ELSE 0)))

(* collect_candidate_files. *)
CandidateFiles(files) == {file \in files : "source" \in Says[file]}

(* load_recombined_hypotheses, from the files of the graph, the failed trials on each and the
   kinds of the policy.  A policy that was not on file when asked for rules out no file. *)
Hypotheses(files, failures, unitTestsWorked, kinds, onFile) ==
  UNION {
    LET options == Options(file, unitTestsWorked)
        allowed == {o \in options : o.kind \in kinds}
    IN {[target |-> o.target, kind |-> o.kind, risk |-> Risk(file, o.target, failures[file])] :
          o \in IF allowed = {} /\ ~ onFile THEN options ELSE allowed}
    : file \in CandidateFiles(files)}
=============================================================================
