--------------------------- MODULE MCFixPipeline ----------------------------
(* Small instances of FixPipeline for TLC. *)
EXTENDS FixPipeline, CommandLine, TLC

Operators == Permutations(Proc)

Project(workflow, readme) ==
  [module |-> NoFile, workflow |-> workflow, smoke |-> <<"smoke test">>, readme |-> readme,
   gitignore |-> <<"other">>]

SomeProjects == {Project(NoFile, <<"other">>), Project(<<"test step">>, NoFile)}

(* The request of a command line, in an environment that has a provider. *)
Line(args) ==
  LET request == FixRequestOf(<<".", "--max-files", "1">> \o args, TRUE)
  IN [only |-> request.only, apply |-> request.apply, max |-> request.max, cap |-> request.cap,
      llm |-> request.llm]

Lines == {Line(<<"--apply", "--no-llm">>), Line(<<"--only", "docs", "--apply">>),
          Line(<<"--only", "ci", "--dry-run", "--apply">>),
          Line(<<"--only", "cargo-check", "--apply", "--dry-run", "--provider", "none">>),
          Line(<<"--only", "hygiene", "--risk", "medium", "--no-llm", "--apply">>)}

On(path, kind, text, find) == [path |-> path, kind |-> kind, text |-> text, find |-> find]

(* Answers of a provider: a good one, one that lists its file twice, one that hides a
   file outside the scope, one with two edits of the same text. *)
Replies == {[files |-> <<"readme">>,
             ops |-> <<On("readme", "ReplaceFileIfExists", "other", "other")>>],
            [files |-> <<"readme", "readme">>,
             ops |-> <<On("readme", "AppendFile", "other", "other")>>],
            [files |-> <<"readme">>, ops |-> <<On("smoke", "CreateFile", "other", "other")>>],
            [files |-> <<"workflow">>,
             ops |-> <<On("workflow", "ReplaceExactText", "other", "test step"),
                       On("workflow", "ReplaceExactText", "other", "test step")>>]}

Edits == {[path |-> "smoke", content |-> NoFile], [path |-> "readme", content |-> NoFile],
          [path |-> "workflow", content |-> <<"test step", "test step">>]}
=============================================================================
