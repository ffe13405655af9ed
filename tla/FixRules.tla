------------------------------ MODULE FixRules ------------------------------
(***************************************************************************)
(* What the fix command says about a project: the problems it looks for    *)
(* and their order, the file each is repaired in, the deterministic repair *)
(* and what speaks against a proposed one.                                 *)
(***************************************************************************)
EXTENDS Naturals, Sequences, FiniteSets, Functions

CONSTANTS NoFile,  \* content of a file that does not exist
          NoReply  \* an LLM provider that fails, or is refused by its own checks

File == {"module", "workflow", "smoke", "readme", "gitignore"}

(* The pieces of text the detectors look for and the repairs write.  "test step"
   is a workflow up to its only `- run: cargo test` line, "clippy and test" the
   same with a clippy step before it. *)
Piece == {"other", "stub", "test step", "clippy and test", "smoke test", "validation", "usage",
          "target entry"}

INSTANCE PatchOps WITH Path <- File, Text <- Piece

(* How the project's modules stand: all there, one declared in the crate root
   without a file, one declared in a nested module, another compile error. *)
Builds == {"complete", "needs module", "needs nested", "broken"}

Problem == {"CargoCheckFailure", "MissingCi", "MissingClippyCi", "MissingSmokeTest",
            "MissingReadmeValidation", "MissingReadmeUsageSection", "MissingGitignoreTarget"}

Has(content, piece) == content # NoFile /\ \E i \in DOMAIN content : content[i] = piece

-----------------------------------------------------------------------------
(* Detection *)

CheckFails(files, build) ==
  \/ build \in {"needs nested", "broken"}
  \/ build = "needs module" /\ files["module"] = NoFile

(* detect_problem: one detector per problem; a README is only missed by `--only docs`. *)
Detects(problem, files, build, only) ==
  CASE problem = "CargoCheckFailure"         -> CheckFails(files, build) /\ build # "broken"
    [] problem = "MissingCi"                 -> files["workflow"] = NoFile
    [] problem = "MissingClippyCi"           ->
         files["workflow"] # NoFile /\ ~ Has(files["workflow"], "clippy and test")
    [] problem = "MissingSmokeTest"          -> files["smoke"] = NoFile
    [] problem = "MissingReadmeValidation"   ->
         IF files["readme"] = NoFile THEN only = "docs" ELSE ~ Has(files["readme"], "validation")
    [] problem = "MissingReadmeUsageSection" ->
         Has(files["readme"], "validation") /\ ~ Has(files["readme"], "usage")
    [] problem = "MissingGitignoreTarget"    -> ~ Has(files["gitignore"], "target entry")

Categories(only) ==
  CASE only = "cargo-check" -> <<"CargoCheckFailure">>
    [] only = "ci"          -> <<"MissingCi", "MissingClippyCi">>
    [] only = "tests"       -> <<"MissingSmokeTest">>
    [] only = "docs"        -> <<"MissingReadmeValidation", "MissingReadmeUsageSection">>
    [] only = "hygiene"     -> <<"MissingGitignoreTarget">>
    [] only = "all"         -> <<"CargoCheckFailure", "MissingCi", "MissingClippyCi",
                                 "MissingSmokeTest", "MissingReadmeValidation",
                                 "MissingReadmeUsageSection", "MissingGitignoreTarget">>

(* The problem a run selects: the first one found; none is an empty set. *)
Selected(files, build, only) ==
  LET kinds == Categories(only) IN
  {kinds[i] : i \in {i \in DOMAIN kinds :
                       /\ Detects(kinds[i], files, build, only)
                       /\ \A j \in 1 .. i - 1 : ~ Detects(kinds[j], files, build, only)}}

RunsCargo(only) == only \in {"cargo-check", "all"}

(* The one file each problem is repaired in. *)
Planned == [CargoCheckFailure |-> "module", MissingCi |-> "workflow",
            MissingClippyCi |-> "workflow", MissingSmokeTest |-> "smoke",
            MissingReadmeValidation |-> "readme", MissingReadmeUsageSection |-> "readme",
            MissingGitignoreTarget |-> "gitignore"]

-----------------------------------------------------------------------------
(* Repairs *)

(* Mutant: the usage section is written under another heading. *)
WrittenSansHeading ==
  [CargoCheckFailure |-> "stub", MissingCi |-> "test step", MissingClippyCi |-> "clippy and test",
   MissingSmokeTest |-> "smoke test", MissingReadmeValidation |-> "validation",
   MissingReadmeUsageSection |-> "other", MissingGitignoreTarget |-> "target entry"]

(* What each repair writes. *)
Written ==
  [CargoCheckFailure |-> "stub", MissingCi |-> "test step", MissingClippyCi |-> "clippy and test",
   MissingSmokeTest |-> "smoke test", MissingReadmeValidation |-> "validation",
   MissingReadmeUsageSection |-> "usage", MissingGitignoreTarget |-> "target entry"]

(* The one operation of a repair: a step inserted into the workflow, a section
   appended to a file that is there, or a new file. *)
RepairKind(problem, files) ==
  IF problem = "MissingClippyCi" THEN "ReplaceExactText"
  ELSE IF Planned[problem] \in {"readme", "gitignore"} /\ files[Planned[problem]] # NoFile
  THEN "AppendFile" ELSE "CreateFile"

Repair(problem, files) ==
  [path |-> Planned[problem], kind |-> RepairKind(problem, files), text |-> Written[problem],
   find |-> "test step"]

(* validate_patch_path lets .gitignore through nowhere. *)
Patchable == File \ {"gitignore"}

(* A proposal: the list of files it says it changes, which a model may fill in
   as it likes, and its operations. *)
RuleBased(problem, files) ==
  LET op == Repair(problem, files) IN [files |-> <<op.path>>, ops |-> <<op>>, rules |-> TRUE]

(* Mutant: only the list of files is held against the scope. *)
InScopeByList(proposal, problem) == Range(proposal.files) \subseteq {Planned[problem]}

(* enforce_fix_scope, and the paths validate_patch_proposal refuses. *)
InScope(proposal, problem) ==
  Range(proposal.files) \cup PathsOf(proposal.ops) \subseteq {Planned[problem]}

(* build_fix_proposal: a reply that is refused falls back to the rules. *)
ProposalFrom(reply, problem, files) ==
  IF reply # NoReply /\ PathsOf(reply.ops) \subseteq Patchable /\ InScope(reply, problem)
  THEN [files |-> reply.files, ops |-> reply.ops, rules |-> FALSE]
  ELSE RuleBased(problem, files)

(* simulate_fix: refused paths, and what the dry run foresees on the files as they are. *)
Simulated(ops, files) ==
  (IF PathsOf(ops) \subseteq Patchable THEN {} ELSE {"path_not_allowed"})
  \cup DryRunBlockers(files, ops)

(* What run_fix finds against a proposal: its size and risk, and what the dry run does. *)
Blockers(proposal, request, files) ==
  (IF Len(proposal.files) > request.max THEN {"max_files_exceeded"} ELSE {})
  \cup (IF Len(proposal.files) > 1 /\ request.cap = "low" THEN {"risk_cap_exceeded"} ELSE {})
  \cup Simulated(proposal.ops, files)
=============================================================================
