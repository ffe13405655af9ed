----------------------------- MODULE BenchRules -----------------------------
(***************************************************************************)
(* The repair benchmark's rules: the fixtures of its cases, how a case     *)
(* comes out, what a run counts, what is a regression and what the gate    *)
(* makes of it.                                                            *)
(***************************************************************************)
EXTENDS FixRules

-----------------------------------------------------------------------------
(* Cases *)

(* write_rust_fixture; nobody writes a .gitignore. *)
Fixture(ci, smoke, validation) ==
  [module    |-> NoFile,
   workflow  |-> IF ci THEN <<"test step">> ELSE NoFile,
   smoke     |-> IF smoke THEN <<"smoke test">> ELSE NoFile,
   readme    |-> IF validation THEN <<"other", "validation">> ELSE <<"other">>,
   gitignore |-> NoFile]

Complete == Fixture(TRUE, TRUE, TRUE)

(* A case: its project, the `--only` of its fix and the problem it expects, none
   for a directory that is no Rust project. *)
CaseOf ==
  [missing_ci |->
     [files |-> Fixture(FALSE, TRUE, TRUE), build |-> "complete", only |-> "ci",
      problem |-> {"MissingCi"}],
   missing_smoke_test |->
     [files |-> Fixture(TRUE, FALSE, TRUE), build |-> "complete", only |-> "tests",
      problem |-> {"MissingSmokeTest"}],
   readme_missing_validation |->
     [files |-> Fixture(TRUE, TRUE, FALSE), build |-> "complete", only |-> "docs",
      problem |-> {"MissingReadmeValidation"}],
   simple_missing_module |->
     [files |-> Complete, build |-> "needs module", only |-> "cargo-check",
      problem |-> {"CargoCheckFailure"}],
   unknown_empty_project |->
     [files |-> [f \in File |-> NoFile], build |-> "complete", only |-> "all", problem |-> {}],
   missing_gitignore_target |->
     [files |-> [Complete EXCEPT !["gitignore"] = <<"other">>], build |-> "complete",
      only |-> "hygiene", problem |-> {"MissingGitignoreTarget"}],
   missing_clippy_ci |->
     [files |-> Complete, build |-> "complete", only |-> "ci", problem |-> {"MissingClippyCi"}],
   missing_readme_usage_section |->
     [files |-> Complete, build |-> "complete", only |-> "docs",
      problem |-> {"MissingReadmeUsageSection"}]]

Suite == {"phase21", "phase24x"}

CasesOf(suite) ==
  IF suite = "phase24x" THEN DOMAIN CaseOf
  ELSE {"missing_ci", "missing_smoke_test", "readme_missing_validation", "simple_missing_module",
        "unknown_empty_project"}

(* How EVA and the toolchain under test do on a case: all works, the validation
   commands fail, or the problem is not found. *)
Fitness == {"works", "unvalidated", "undetected"}

(* run_bench_case: the fix, applied to the fixture; the files a case expects are
   looked for by name only. *)
Outcome ==
  [case \in DOMAIN CaseOf |-> [fitness \in Fitness |->
     LET c        == CaseOf[case]
         detected == IF c.problem = {} \/ fitness = "undetected" THEN {}
                     ELSE Selected(c.files, c.build, c.only)
         repaired == {problem \in detected :
                        Blockers(RuleBased(problem, c.files), [max |-> 3, cap |-> "low"],
                                 c.files) = {}}
         after    == PerformAll(c.files, [i \in 1 .. Cardinality(repaired) |->
                                  Repair(CHOOSE problem \in repaired : TRUE, c.files)]).files
     IN [detected  |-> detected = c.problem,
         observed  |-> \A problem \in c.problem : after[Planned[problem]] # NoFile,
         validated |-> repaired # {} /\ fitness = "works" /\ ~ CheckFails(after, c.build)]]]

(* classify_case_result.  The fix always writes its evidence, so that a case
   with an expected problem is at least partial. *)
Classify(case, result) ==
  IF CaseOf[case].problem = {} THEN (IF result.validated THEN "failed" ELSE "partial")
  ELSE IF result.detected /\ result.observed /\ result.validated THEN "passed" ELSE "partial"

-----------------------------------------------------------------------------
(* What a run counts *)

Actionable(suite) == {case \in CasesOf(suite) : CaseOf[case].problem # {}}

(* run_repair_bench, summarize_metrics, benchmark_from_report: a run on the cases of a
   suite, by how fit EVA and the toolchain are for each; every case has its evidence. *)
RunOf(suite, fit) ==
  LET Counted(status) == Cardinality({case \in CasesOf(suite) :
                                        Classify(case, Outcome[case][fit[case]]) = status})
      Rate(field)     == <<Cardinality({case \in Actionable(suite) :
                                          Outcome[case][fit[case]][field]}),
                           Cardinality(Actionable(suite))>>
  IN [suite |-> suite, passed |-> Counted("passed"), failed |-> Counted("failed"),
      detection |-> Rate("detected"), repair |-> Rate("observed"),
      validation |-> Rate("validated"), evidence |-> <<1, 1>>]

DefaultBaseline ==
  [suite |-> "phase21", passed |-> 4, failed |-> 0, detection |-> <<1, 1>>, repair |-> <<1, 1>>,
   validation |-> <<1, 1>>, evidence |-> <<1, 1>>]

Below(rate, other) == rate[1] * other[2] < other[1] * rate[2]

(* Mutant: only failed cases count, and an actionable one is at least partial. *)
RegressionsOfFailures(baseline, current) ==
  IF current.failed > baseline.failed THEN {"failed_cases increased"} ELSE {}

(* detect_repair_bench_regressions; an actionable case that failed there is none. *)
Regressions(baseline, current) ==
  (IF current.failed > baseline.failed THEN {"failed_cases increased"} ELSE {})
  \cup (IF current.passed < baseline.passed THEN {"passed_cases decreased"} ELSE {})
  \cup {rate \in {"detection", "repair", "validation", "evidence"} :
          Below(current[rate], baseline[rate])}

GateStatus(baseline, current) ==
  IF Regressions(baseline, current) = {} THEN "passed"
  ELSE IF baseline.suite # current.suite THEN "warn" ELSE "failed"
=============================================================================
