--------------------------- MODULE MCQualityTools ---------------------------
(* The benchmark with two operators and three versions of EVA, a project under the doctor, and
   the benchmark of repositories from GitHub with two workers.  They share no file and no state, so
   that a behaviour uses one of the three and the others rest. *)
EXTENDS RepairBench, ExternalTrial, GithubBench

Operators == Permutations(Operator) \cup Permutations(Worker)

SomeBenchArgs == {<<"repair-bench", "--suite", "phase24x", "--suite", "phase21">>,
                  <<"repair-bench-gate">>,
                  <<"repair-bench-gate", "--suite", "phase24x", "--baseline", "latest">>,
                  <<"repair-bench-gate", "--baseline-file", "kept", "--suite", "phase99">>}

SomeReportArgs == {<<"doctor", "--evidence-dir", ".", ".", "--validate">>,
                   <<"external-trial", "gone", ".">>, <<"external-trial", "--only", ".">>}

AllWork == [case \in DOMAIN CaseOf |-> "works"]

(* A version that loses the CI repair, and one that loses two other cases. *)
SomeFit == {AllWork, [AllWork EXCEPT !["missing_ci"] = "unvalidated"],
            [AllWork EXCEPT !["missing_smoke_test"] = "undetected",
                            !["missing_clippy_ci"] = "unvalidated"]}

Project(workflow, smoke, readme) ==
  [module |-> NoFile, workflow |-> workflow, smoke |-> smoke, readme |-> readme,
   gitignore |-> <<"target entry">>]

SomeProjects == {Project(<<"test step">>, NoFile, <<"other">>),
                 Project(NoFile, <<"smoke test">>, NoFile)}

SomeEdits == {[path |-> "workflow", content |-> <<"test step", "test step">>],
              [path |-> "workflow", content |-> NoFile],
              [path |-> "gitignore", content |-> <<"other">>],
              [path |-> "readme", content |-> <<"other", "validation">>]}

(* Two repositories that share a workspace, and
   answers that name one of them twice. *)
SomeRepos == <<"a/b_c", "a_b/c", "x/y">>

SomePaths == [r \in Range(SomeRepos) |-> IF r = "x/y" THEN "x_y" ELSE "a_b_c"]

Listed(name, stars, size, tested) ==
  [name |-> name, gone |-> FALSE, stars |-> stars, size |-> size, forks |-> 0, issues |-> 0,
   license |-> "MIT", tested |-> tested]

SomeAnswers == {
  <<Listed("a_b/c", 10, 3000, TRUE), Listed("x/y", 10, 3000, TRUE),
    Listed("a/b_c", 10, 3000, TRUE)>>,
  <<Listed("a_b/c", 1, 3000, TRUE), [Listed("x/y", 700, 100, FALSE) EXCEPT !.forks = 3],
    Listed("a/b_c", 700, 200, FALSE), [Listed("a_b/c", 10, 3000, TRUE) EXCEPT !.license = "GPL"],
    Listed("a_b/c", 20, 200, TRUE)>>}

SomeSearch ==
  [licenses |-> {"MIT"}, excluded |-> {}, smallest |-> 50, largest |-> 100000, target |-> 3000,
   tested |-> TRUE, stars |-> 5, most |-> 2]

SomeCrate(toml, fault, lock) == [toml |-> toml, fault |-> fault, lock |-> lock]

SomeUpstream ==
  [r \in Range(SomeRepos) |->
     CASE r = "a/b_c" -> {SomeCrate(TRUE, "tests", "current"), SomeCrate(TRUE, "nothing", "stale")}
       [] r = "a_b/c" -> {SomeCrate(TRUE, "flaky", "none"), SomeCrate(FALSE, "nothing", "none")}
       [] r = "x/y"   -> {SomeCrate(TRUE, "build", "none"), SomeCrate(TRUE, "manifest", "none")}]

VARIABLE scene  \* what is being used: "bench", "project" or "github"

BenchRests   == BenchInit /\ fit = AllWork
TrialRests   == TrialInit /\ project = [files |-> CHOOSE files \in OldFiles : TRUE, rust |-> FALSE,
                                       git |-> FALSE, dirty |-> FALSE]
GithubRests  == GithubInit /\ space = [path \in Path |-> NoSpace]

Init ==
  \/ scene = "bench" /\ BenchInit /\ TrialRests /\ GithubRests
  \/ scene = "project" /\ BenchRests /\ TrialInit /\ GithubRests
  \/ scene = "github" /\ BenchRests /\ TrialRests /\ GithubInit
Next == \/ scene = "bench" /\ BenchNext /\ UNCHANGED <<trialVars, githubVars, scene>>
        \/ scene = "project" /\ TrialNext /\ UNCHANGED <<benchVars, githubVars, scene>>
        \/ scene = "github" /\ GithubNext /\ UNCHANGED <<benchVars, trialVars, scene>>
Spec == Init /\ [][Next]_<<benchVars, trialVars, githubVars, scene>>
=============================================================================
