------------------------------- MODULE Doctor -------------------------------
(***************************************************************************)
(* `doctor <target>`: what it finds missing in a project, the fix commands *)
(* it suggests, its score and its verdict.                                 *)
(***************************************************************************)
EXTENDS FixRules, CommandLine

(* The `--only` of the fix command suggested for a finding. *)
OnlyOf == [rust_ci_missing |-> "ci", rust_ci_clippy_missing |-> "ci", smoke_test_missing |-> "tests",
           readme_validation_missing |-> "docs", readme_usage_missing |-> "docs",
           gitignore_target_missing |-> "hygiene"]

Suggestible == DOMAIN OnlyOf

SuggestedArgs(code) == <<"fix", ".", "--only", OnlyOf[code]>>

(* parse_fix_only_from_command: the first of the five, in this order, that the text names. *)
OnlyNamed(args) ==
  LET all   == <<"cargo-check", "ci", "tests", "docs", "hygiene">>
      named == {k \in 1 .. 5 : \E i \in 2 .. Len(args) : args[i - 1] = "--only" /\ args[i] = all[k]}
  IN all[CHOOSE k \in named : \A other \in named : k <= other]

(* The problem the fix command has for each. *)
ProblemOf ==
  [rust_ci_missing |-> "MissingCi", rust_ci_clippy_missing |-> "MissingClippyCi",
   smoke_test_missing |-> "MissingSmokeTest", readme_validation_missing |-> "MissingReadmeValidation",
   readme_usage_missing |-> "MissingReadmeUsageSection",
   gitignore_target_missing |-> "MissingGitignoreTarget"]

(* Mutant: the usage section is missed in a README without validation commands, too. *)
LacksUsageAnyway(code, files) ==
  CASE code = "readme_usage_missing"   -> files["readme"] # NoFile /\ ~ Has(files["readme"], "usage")
    [] code = "rust_ci_missing"        -> files["workflow"] = NoFile
    [] code = "rust_ci_clippy_missing" ->
         files["workflow"] # NoFile /\ ~ Has(files["workflow"], "clippy and test")
    [] code = "smoke_test_missing"     -> files["smoke"] = NoFile
    [] code = "readme_validation_missing" ->
         files["readme"] # NoFile /\ ~ Has(files["readme"], "validation")
    [] code = "gitignore_target_missing" -> ~ Has(files["gitignore"], "target entry")

(* build_findings, the checks of a Rust project. *)
Lacks(code, files) ==
  CASE code = "rust_ci_missing"        -> files["workflow"] = NoFile
    [] code = "rust_ci_clippy_missing" ->
         files["workflow"] # NoFile /\ ~ Has(files["workflow"], "clippy and test")
    [] code = "smoke_test_missing"     -> files["smoke"] = NoFile
    [] code = "readme_validation_missing" ->
         files["readme"] # NoFile /\ ~ Has(files["readme"], "validation")
    [] code = "readme_usage_missing"   ->
         Has(files["readme"], "validation") /\ ~ Has(files["readme"], "usage")
    [] code = "gitignore_target_missing" -> ~ Has(files["gitignore"], "target entry")

(* One for every finding, in the order in which the doctor looks. *)
SuggestedFor(code, files) == IF Lacks(code, files) THEN <<code>> ELSE <<>>

Suggestions(files) ==
  SuggestedFor("rust_ci_missing", files) \o SuggestedFor("rust_ci_clippy_missing", files)
  \o SuggestedFor("smoke_test_missing", files) \o SuggestedFor("readme_validation_missing", files)
  \o SuggestedFor("readme_usage_missing", files) \o SuggestedFor("gitignore_target_missing", files)

-----------------------------------------------------------------------------
(* Findings by level: a project without a manifest is looked at no further. *)
Critical(project, validation) ==
  (IF project.rust THEN {} ELSE {"cargo_toml_missing"})
  \cup (IF validation = "failed" THEN {"validation_failed"} ELSE {})

Warned(project) ==
  IF project.rust
  THEN Range(Suggestions(project.files)) \cup (IF project.dirty THEN {"workspace_dirty"} ELSE {})
  ELSE {}

Informed(project) ==
  IF ~ project.rust \/ project.files["readme"] = NoFile THEN {"readme_missing"} ELSE {}

Less(score, points) == IF score < points THEN 0 ELSE score - points

(* score_findings before the validation, whose failure costs as much again and
   caps the score; so does a missing manifest. *)
Score(project, validation) ==
  LET found  == Less(100, 2 * Cardinality(Informed(project)) + 10 * Cardinality(Warned(project))
                            + (IF project.rust THEN 0 ELSE 40))
      tested == IF validation = "failed" THEN Less(found, 40) ELSE found
  IN IF Critical(project, validation) # {} /\ tested > 60 THEN 60 ELSE tested

Verdict(project, validation) ==
  IF Critical(project, validation) # {} \/ Score(project, validation) < 60 THEN "critical"
  ELSE IF Score(project, validation) >= 85 THEN "passed" ELSE "warn"

(* run_validation is asked for, and only run in a Rust project. *)
Report(project, validation) ==
  [suggestions |-> IF project.rust THEN Suggestions(project.files) ELSE <<>>,
   score       |-> Score(project, validation),
   status      |-> Verdict(project, validation)]
=============================================================================
