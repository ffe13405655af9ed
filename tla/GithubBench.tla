---------------------------- MODULE GithubBench ----------------------------
(***************************************************************************)
(* The benchmark pipeline: `github_repo_discover` writes the cases,        *)
(* `github_repo_prepare` clones them and keeps those that fail, and        *)
(* `benchmark_batch` reproduces the failures and tries a probe on each.    *)
(* Several may run at once, a developer works in the clones, and any of    *)
(* them may die or be stopped by an error.                                 *)
(***************************************************************************)
EXTENDS RepoDiscovery

CONSTANTS Worker,     \* who runs commands
          Answers,    \* what GitHub or a fixture may answer
          Search,     \* repo_discovery_config.json
          Upstream,   \* the projects a clone of each repository may be
          CaseLimits,     \* numbers of cases a batch may be limited to
          MaxWork,    \* bound: commands begun
          MaxTrouble, \* bound: changes by a developer and commands that die or err
          NoSpace,    \* a workspace that is not there, or empty
          Foreign,    \* a workspace that is no repository
          NoOutput,   \* a file that is not there
          Broken      \* a file cut off while written

Fault == {"manifest", "build", "tests", "flaky", "nothing"}

(* A project by what cargo finds wrong with it and with its Cargo.lock. *)
Crate == [toml : BOOLEAN, fault : Fault, lock : {"none", "current", "stale"}]

(* What lies in a workspace: the repository that was cloned there, as it is by now. *)
Workspace == [repo : Range(Repo), probe : BOOLEAN, toml : BOOLEAN, fault : Fault,
              lock : {"none", "current", "stale"}]

ASSUME GithubBenchAssumption ==
  /\ Answers \subseteq Seq(Item) /\ Search \in Config
  /\ Upstream \in [Range(Repo) -> SUBSET Crate]
  /\ CaseLimits \subseteq Nat
  /\ NoSpace \notin Workspace /\ Foreign \notin Workspace
  /\ MaxWork \in Nat /\ MaxTrouble \in Nat

VARIABLES
  manifests, \* the files below benchmarks/: "cases", "prepared", "ready", "report"
  space,    \* the workspaces: nothing, a directory that is no repository, or a project
  job,      \* the command each worker is in
  spent,    \* commands, and changes and stops, so far
  touched,  \* history: workspaces a developer changed
  kept      \* history: workspaces a batch has left with its probe in them

githubVars == <<manifests, space, job, spent, touched, kept>>

NoJob == [step |-> "idle"]
Doing(w, step) == job[w].step = step
Turn(w, state) == job' = [job EXCEPT ![w] = state]
Spend(kind, bound) == spent[kind] < bound /\ spent' = [spent EXCEPT ![kind] = @ + 1]

IsProject(path) == space[path] \notin {NoSpace, Foreign}
HasToml(path) == IsProject(path) /\ space[path].toml

GithubInit ==
  /\ manifests = [f \in {"cases", "prepared", "ready", "report"} |-> NoOutput]
  /\ space \in [Path -> {NoSpace, Foreign}]
  /\ job = [w \in Worker |-> NoJob]
  /\ spent = [work |-> 0, trouble |-> 0]
  /\ touched = {} /\ kept = {}

-----------------------------------------------------------------------------
(* What cargo may say of a project; "probe" is the build of the probe alone, for which a virtual
   workspace has no place. *)
Verdicts(project, command, locked) ==
  IF project.fault \in {"manifest", "build"} \/ (locked /\ project.lock = "stale") THEN {FALSE}
  ELSE CASE command = "check" \/ project.fault = "nothing" -> {TRUE}
         [] command = "test" /\ project.fault = "tests" -> {FALSE}
         [] OTHER -> BOOLEAN

(* Unless it is told not to, cargo writes the Cargo.lock it needs. *)
AfterCargo(project, locked) ==
  IF project.fault = "manifest" \/ locked THEN project ELSE [project EXCEPT !.lock = "current"]

-----------------------------------------------------------------------------
(* The command writes its files, one after the other and in place. *)
Output(file, value) == [file |-> file, value |-> value]
Writing(outputs) == [step |-> "write", outputs |-> outputs]

WriteFile(w) ==
  /\ Doing(w, "write")
  /\ LET output == Head(job[w].outputs)
         rest   == Tail(job[w].outputs) IN
     /\ manifests' = [manifests EXCEPT ![output.file] = output.value]
     /\ Turn(w, IF rest = <<>> THEN NoJob ELSE Writing(rest))
  /\ UNCHANGED <<space, spent, touched, kept>>

Discover(w) ==
  /\ Doing(w, "idle") /\ Spend("work", MaxWork)
  /\ \E items \in Answers : Turn(w, Writing(<<Output("cases", Manifest(items, Search))>>))
  /\ UNCHANGED <<manifests, space, touched, kept>>

Readable(file) == manifests[file] \notin {NoOutput, Broken}

-----------------------------------------------------------------------------
(* prepare_case leaves what it learns of a case; "seen" is history, the project it looked at. *)
Metadata(project) == project.fault # "manifest"

Reproducible(result) == ~result.error /\ ~(result.metadata /\ result.check /\ result.test)

(* Mutant: a failure of the tests is taken for one of the build. *)
FailureTypeOfAny(result) == IF result.metadata /\ result.check /\ result.test THEN "test" ELSE "check"

FailureType(result) == IF result.metadata /\ result.check THEN "test" ELSE "check"

(* What is counted of the cases of a preparation. *)
PreparedTotals(results) ==
  LET count(Is(_)) == Len(SelectSeq(results, Is))
  IN [total        |-> Len(results),
      reproducible |-> count(Reproducible),
      errors       |-> count(LAMBDA r : r.error),
      failures     |-> [metadata |-> count(LAMBDA r : ~r.error /\ ~r.metadata),
                        check    |-> count(LAMBDA r : ~r.error /\ ~r.check),
                        test     |-> count(LAMBDA r : ~r.error /\ ~r.test)]]

Ready(results) ==
  LET failing == {n \in DOMAIN results : Reproducible(results[n])}
      ordered == Sorted(failing, {pair \in failing \X failing : pair[1] < pair[2]})
      case(r) == [repo |-> r.repo, path |-> r.path, seen |-> r.seen, type |-> FailureType(r)]
  IN [i \in DOMAIN ordered |-> case(results[ordered[i]])]

(* The next case, or the files when there is none left. *)
Prepared(cases, results) ==
  IF Len(results) < Len(cases)
  THEN [step |-> "inspect", case |-> cases[Len(results) + 1], cases |-> cases, results |-> results]
  ELSE Writing(<<Output("prepared", [cases |-> results, totals |-> PreparedTotals(results)]),
                 Output("ready", Ready(results))>>)

PrepareBegin(w) ==
  /\ Doing(w, "idle") /\ Spend("work", MaxWork)
  /\ Turn(w, IF Readable("cases") THEN Prepared(manifests["cases"], <<>>) ELSE NoJob)
  /\ UNCHANGED <<manifests, space, touched, kept>>

Try(w) == Turn(w, [job[w] EXCEPT !.step = "check"])

GiveUp(w) ==
  LET failed == [repo |-> job[w].case.repo, path |-> job[w].case.path, error |-> TRUE]
  IN Turn(w, Prepared(job[w].cases, Append(job[w].results, failed)))

Cloned(repo, project) ==
  [repo |-> repo, probe |-> FALSE, toml |-> project.toml, fault |-> project.fault,
   lock |-> project.lock]

(* ensure_workspace and the look for a Cargo.toml: what is there is used as it is, whatever was
   cloned there and in whatever state; git may fail to clone. *)
Inspect(w) ==
  /\ Doing(w, "inspect")
  /\ LET case == job[w].case
         path == case.path IN
     \/ HasToml(path) /\ Try(w) /\ UNCHANGED space
     \/ ~HasToml(path) /\ GiveUp(w) /\ UNCHANGED space
     \/ /\ space[path] = NoSpace
        /\ \E project \in Upstream[case.repo] :
             /\ space' = [space EXCEPT ![path] = Cloned(case.repo, project)]
             /\ IF project.toml THEN Try(w) ELSE GiveUp(w)
  /\ UNCHANGED <<manifests, spent, touched, kept>>

(* cargo metadata and cargo check, then cargo test: locked when there is a Cargo.lock, which
   the first may have written for the second. *)
PrepareCheck(w) ==
  /\ Doing(w, "check")
  /\ LET path    == job[w].case.path
         project == space[path]
         locked  == project.lock # "none" IN
     /\ \E check \in Verdicts(project, "check", locked) :
          Turn(w, [step |-> "test", case |-> job[w].case, cases |-> job[w].cases,
                   results |-> job[w].results,
                   seen |-> project, metadata |-> Metadata(project), check |-> check])
     /\ space' = [space EXCEPT ![path] = AfterCargo(project, locked)]
  /\ UNCHANGED <<manifests, spent, touched, kept>>

PrepareTest(w) ==
  /\ Doing(w, "test")
  /\ LET case    == job[w].case
         project == space[case.path]
         locked  == project.lock # "none" IN
     /\ \E test \in Verdicts(project, "test", locked) :
          Turn(w, Prepared(job[w].cases, Append(job[w].results,
            [repo |-> case.repo, path |-> case.path, error |-> FALSE, seen |-> job[w].seen,
             metadata |-> job[w].metadata, check |-> job[w].check, test |-> test])))
     /\ space' = [space EXCEPT ![case.path] = AfterCargo(project, locked)]
  /\ UNCHANGED <<manifests, spent, touched, kept>>

-----------------------------------------------------------------------------
(* benchmark_batch: the runner knows the type of failure only, and never locks. *)
Totals(results) ==
  LET count(Is(_)) == Len(SelectSeq(results, Is))
  IN [total        |-> Len(results),
      reproducible |-> count(LAMBDA m : m.end # "unreproducible" /\ m.end # "missing"),
      fixed        |-> count(LAMBDA m : m.end = "success"),
      rolledBack   |-> count(LAMBDA m : m.end = "rolled back"),
      attempted    |-> count(LAMBDA m : m.end \in {"success", "rolled back"})]

Batched(cases, results) ==
  IF Len(results) < Len(cases)
  THEN [step |-> "reproduce", case |-> cases[Len(results) + 1], cases |-> cases,
        results |-> results]
  ELSE Writing(<<Output("report", [cases |-> results, totals |-> Totals(results)])>>)

(* The runner is done with a case; "on" is history, the project it was done on. *)
Settled(w, end) ==
  Turn(w, Batched(job[w].cases, Append(job[w].results,
         [case |-> job[w].case, end |-> end, on |-> space[job[w].case.path]])))

BatchBegin(w) ==
  /\ Doing(w, "idle") /\ Spend("work", MaxWork)
  /\ IF Readable("ready")
     THEN \E limit \in CaseLimits :
            Turn(w, Batched(SubSeq(manifests["ready"], 1, AtMost(Len(manifests["ready"]), limit)), <<>>))
     ELSE Turn(w, NoJob)
  /\ UNCHANGED <<manifests, space, touched, kept>>

(* Cargo runs in the workspace of the case and passes or fails. *)
Outcomes(w, command) == Verdicts(space[job[w].case.path], command, FALSE)
Run(w) ==
  /\ space' = [space EXCEPT ![job[w].case.path] = AfterCargo(@, FALSE)]
  /\ UNCHANGED <<manifests, spent, touched>>

Reproduce(w) ==
  /\ Doing(w, "reproduce") /\ HasToml(job[w].case.path)
  /\ Run(w) /\ UNCHANGED kept
  /\ \E passed \in Outcomes(w, job[w].case.type) :
       IF passed THEN Settled(w, "unreproducible") ELSE Turn(w, [job[w] EXCEPT !.step = "probe"])

Missing(w) ==
  /\ Doing(w, "reproduce") /\ ~HasToml(job[w].case.path)
  /\ Settled(w, "missing")
  /\ UNCHANGED <<manifests, space, spent, touched, kept>>

Probe(w) ==
  /\ Doing(w, "probe")
  /\ space' = [space EXCEPT ![job[w].case.path].probe = TRUE]
  /\ Turn(w, [job[w] EXCEPT !.step = "validate"])
  /\ UNCHANGED <<manifests, spent, touched, kept>>

Validate(w) ==
  /\ Doing(w, "validate")
  /\ Run(w) /\ UNCHANGED kept
  /\ \E passed \in Outcomes(w, IF job[w].case.type = "check" THEN "check" ELSE "probe") :
       Turn(w, [step |-> "rerun", case |-> job[w].case, cases |-> job[w].cases,
                results |-> job[w].results, valid |-> passed])

(* The probe stays where it is taken for a fix. *)
Keep(w, end) ==
  /\ Settled(w, end)
  /\ kept' = IF end = "success" THEN kept \cup {job[w].case.path} ELSE kept

RollBack(w) == Turn(w, [job[w] EXCEPT !.step = "remove"]) /\ UNCHANGED kept

(* Mutant: a probe is removed when it cannot be built, and not when it does not help. *)
RerunKeeping(w) ==
  /\ Doing(w, "rerun")
  /\ Run(w)
  /\ \E passed \in Outcomes(w, job[w].case.type) :
       IF passed /\ job[w].valid THEN Keep(w, "success")
       ELSE IF job[w].valid THEN Keep(w, "rolled back") ELSE RollBack(w)

Rerun(w) ==
  /\ Doing(w, "rerun")
  /\ Run(w)
  /\ \E passed \in Outcomes(w, job[w].case.type) :
       IF passed /\ job[w].valid THEN Keep(w, "success") ELSE RollBack(w)

RemoveProbe(w) ==
  /\ Doing(w, "remove")
  /\ space' = [space EXCEPT ![job[w].case.path].probe = FALSE]
  /\ Settled(w, "rolled back")
  /\ UNCHANGED <<manifests, spent, touched, kept>>

-----------------------------------------------------------------------------
Using(w, path) == job[w].step \notin {"idle", "write"} /\ job[w].case.path = path

(* A developer works on a project, or removes a workspace that no command is in. *)
WorkOn ==
  /\ Spend("trouble", MaxTrouble)
  /\ \E path \in Path :
       /\ IsProject(path)
       /\ \/ /\ \E fault \in Fault : space' = [space EXCEPT ![path].fault = fault]
             \/ space' = [space EXCEPT ![path].lock = "stale"]
          \/ /\ \A w \in Worker : ~Using(w, path)
             /\ space' = [space EXCEPT ![path] = NoSpace]
       /\ touched' = touched \cup {path}
  /\ UNCHANGED <<manifests, job, kept>>

(* A command dies, or is stopped by an error: cargo cannot be started, or a file not written or
   removed.  Nothing is cleaned up, and a batch writes no report of the cases it had done. *)
Stop(w) ==
  /\ ~Doing(w, "idle") /\ Spend("trouble", MaxTrouble)
  /\ Turn(w, NoJob)
  /\ kept' = kept \cup (IF job[w].step \in {"validate", "rerun", "remove"}
                        THEN {job[w].case.path} ELSE {})
  /\ manifests' \in {manifests} \cup (IF Doing(w, "write")
                             THEN {[manifests EXCEPT ![Head(job[w].outputs).file] = Broken]} ELSE {})
  /\ UNCHANGED <<space, touched>>

(* It is killed while git clones, which leaves a repository without files. *)
StopCloning(w) ==
  /\ Doing(w, "inspect") /\ space[job[w].case.path] = NoSpace /\ Spend("trouble", MaxTrouble)
  /\ space' = [space EXCEPT ![job[w].case.path] =
       Cloned(job[w].case.repo, [toml |-> FALSE, fault |-> "nothing", lock |-> "none"])]
  /\ Turn(w, NoJob)
  /\ UNCHANGED <<manifests, touched, kept>>

GithubNext ==
  \/ WorkOn
  \/ \E w \in Worker :
       \/ Discover(w) \/ PrepareBegin(w) \/ Inspect(w) \/ PrepareCheck(w) \/ PrepareTest(w)
       \/ BatchBegin(w) \/ Reproduce(w) \/ Missing(w) \/ Probe(w) \/ Validate(w) \/ Rerun(w)
       \/ RemoveProbe(w) \/ WriteFile(w) \/ Stop(w) \/ StopCloning(w)

GithubSpec == GithubInit /\ [][GithubNext]_githubVars

-----------------------------------------------------------------------------
(* Properties *)

Reported == IF Readable("report") THEN Range(manifests["report"].cases) ELSE {}

(* What a batch reports, of cases whose workspace nobody changed: it works on the repository
   that was asked for, unless another one shares its workspace; it cannot reproduce a failure
   only where a test is flaky or where the preparation, which locks, met a stale Cargo.lock;
   and a fix is never one: the probe repairs nothing, so the test was flaky. *)
ReportIsTrue ==
  \A m \in Reported : m.case.path \notin touched =>
    /\ m.end # "missing"
    /\ m.on.repo = m.case.repo \/ \E r \in Range(Repo) \ {m.case.repo} : PathOf[r] = m.case.path
    /\ m.end = "unreproducible" => m.on.fault = "flaky" \/ m.case.seen.lock = "stale"
    /\ m.end = "success" => m.on.fault = "flaky"

(* A probe in a workspace belongs to a batch that is trying it, or is what a fix was reported
   for, or was kept by a batch that was stopped. *)
ProbesAccounted ==
  \A path \in Path : IsProject(path) /\ space[path].probe =>
    \/ path \in kept
    \/ \E w \in Worker : job[w].step \in {"validate", "rerun", "remove"} /\ job[w].case.path = path
=============================================================================
