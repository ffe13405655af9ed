--------------------------- MODULE ExternalTrial ----------------------------
(***************************************************************************)
(* `doctor` and `external-trial` on a project that a developer works on    *)
(* and whose suggested fixes somebody applies: the trial asks the doctor   *)
(* and then tries every suggested fix dry.                                 *)
(***************************************************************************)
EXTENDS Doctor

CONSTANTS OldFiles,    \* files the project may have at first
          DevEdits,    \* what a developer may make of a file, as [path, content]
          ReportArgs,  \* command lines of doctors and trials; the project is "."
          MaxReports,  \* bound: doctors and trials begun
          MaxEdits,    \* bound: edits by the developer
          NoReport,    \* before the first of them ends
          NoTrial,     \* no trial is running
          NoRepo       \* it is between two projects

ASSUME TrialAssumption ==
  /\ NoFile \notin Seq(Piece)
  /\ OldFiles \subseteq [File -> Content]
  /\ DevEdits \subseteq [path : File, content : Content]
  /\ \A args \in ReportArgs : args \in Seq(STRING) /\ args # <<>>
  /\ MaxReports \in Nat /\ MaxEdits \in Nat

VARIABLES
  project,  \* its files, whether it is Rust and in git, and what git says of it
  trial,    \* the trial that is running
  report,   \* history: what the last doctor or trial reported
  begun,    \* doctors and trials so far
  edits     \* edits so far

trialVars == <<project, trial, report, begun, edits>>

TrialInit ==
  /\ project \in [files : OldFiles, rust : BOOLEAN, git : BOOLEAN, dirty : {FALSE}]
  /\ trial = NoTrial /\ report = NoReport
  /\ begun = 0 /\ edits = 0

Begin == begun < MaxReports /\ begun' = begun + 1

RequestsTo(command) == {args \in ReportArgs : Head(args) = command}
DoctorRequests == {DoctorRequestOf(Tail(args)) : args \in RequestsTo("doctor")}
TrialRequests  == {TrialRequestOf(Tail(args)) : args \in RequestsTo("external-trial")}

(* Evidence or an edit in a repository is something git shows. *)
Touched == [project EXCEPT !.dirty = project.git]

(* doctor writes its evidence into the project, for git to see; of a target that is no
   directory it says so, and writes nothing. *)
DoctorRun(request) ==
  /\ Begin
  /\ IF request.target = "."
     THEN /\ \E validation \in IF request.validate /\ project.rust THEN {"passed", "failed"}
                               ELSE {"not run"} :
               report' = <<[of |-> project, said |-> Report(project, validation)]>>
          /\ project' = Touched
     ELSE UNCHANGED <<report, project>>
  /\ UNCHANGED <<trial, edits>>

(* external-trial keeps its evidence elsewhere. *)
TrialBegin(request) ==
  /\ trial = NoTrial /\ Begin
  /\ trial' = IF request = NotUnderstood THEN NoTrial
              ELSE [left |-> request.targets, skipped |-> 0, at |-> NoRepo, done |-> <<>>]
  /\ UNCHANGED <<project, report, edits>>

(* One target after the other; what is no directory is skipped. *)
TrialRepo ==
  /\ trial # NoTrial /\ trial.at = NoRepo /\ trial.left # <<>>
  /\ trial' = IF Head(trial.left) = "."
              THEN [trial EXCEPT !.left = Tail(@),
                      !.at = [of |-> project, said |-> Report(project, "not run"),
                              fixes |-> <<>>, undisturbed |-> TRUE]]
              ELSE [trial EXCEPT !.left = Tail(@), !.skipped = @ + 1]
  /\ UNCHANGED <<project, report, begun, edits>>

(* The dry run of one suggested fix on the files as they are by now. *)
DryRunOf(only) ==
  LET found == Selected(project.files, "complete", only) IN
  [detected |-> found,
   blockers |-> UNION {Blockers(RuleBased(problem, project.files), [max |-> 3, cap |-> "low"],
                                project.files) : problem \in found}]

OnlyOfDryRun == [code \in Suggestible |-> OnlyNamed(SuggestedArgs(code))]

TrialFix ==
  /\ trial # NoTrial /\ trial.at # NoRepo
  /\ Len(trial.at.fixes) < Len(trial.at.said.suggestions)
  /\ LET code == trial.at.said.suggestions[Len(trial.at.fixes) + 1]
     IN trial' = [trial EXCEPT !.at.fixes = Append(@, DryRunOf(OnlyOfDryRun[code]))]
  /\ UNCHANGED <<project, report, begun, edits>>

TrialRepoEnd ==
  /\ trial # NoTrial /\ trial.at # NoRepo
  /\ Len(trial.at.fixes) = Len(trial.at.said.suggestions)
  /\ trial' = [trial EXCEPT !.done = Append(@, trial.at), !.at = NoRepo]
  /\ UNCHANGED <<project, report, begun, edits>>

TrialEnd ==
  /\ trial # NoTrial /\ trial.at = NoRepo /\ trial.left = <<>>
  /\ report' = trial.done
  /\ trial' = NoTrial
  /\ UNCHANGED <<project, begun, edits>>

-----------------------------------------------------------------------------
(* The project between the commands *)

Disturbed == IF trial = NoTrial \/ trial.at = NoRepo THEN trial
             ELSE [trial EXCEPT !.at.undisturbed = FALSE]

Develop ==
  /\ edits < MaxEdits /\ edits' = edits + 1
  /\ \E edit \in DevEdits :
       project' = [Touched EXCEPT !.files[edit.path] = edit.content]
  /\ trial' = Disturbed
  /\ UNCHANGED <<report, begun>>

(* What somebody does who follows a suggestion: the command suggested, with --apply. *)
Asked == [code \in Suggestible |->
            FixRequestOf(Tail(SuggestedArgs(code)) \o <<"--apply">>, FALSE)]

(* Its evidence stays in the project even when it is blocked. *)
Follow(code) ==
  /\ project.rust /\ Lacks(code, project.files)
  /\ LET found == DryRunOf(Asked[code].only)
         files == IF found.blockers # {} \/ ~ Asked[code].apply THEN project.files
                  ELSE PerformAll(project.files, [i \in 1 .. Cardinality(found.detected) |->
                         Repair(CHOOSE problem \in found.detected : TRUE, project.files)]).files
     IN project' = [Touched EXCEPT !.files = files]
  /\ trial' = Disturbed
  /\ UNCHANGED <<report, begun, edits>>

-----------------------------------------------------------------------------
TrialNext == \/ \E request \in DoctorRequests : DoctorRun(request)
             \/ \E request \in TrialRequests : TrialBegin(request)
             \/ TrialRepo \/ TrialFix \/ TrialRepoEnd \/ TrialEnd \/ Develop
             \/ \E code \in Suggestible : Follow(code)

TrialSpec == TrialInit /\ [][TrialNext]_trialVars

-----------------------------------------------------------------------------
(* Properties *)

(* A trial finds by each dry run exactly the problem the doctor suggested it for, unless somebody
   edited under it, and nothing speaks against the repair but the path of .gitignore and a
   workflow without exactly one test step; a project the doctor passes has at most one
   suggestion left. *)
DoctorAndFixAgree ==
  report # NoReport => \A n \in DOMAIN report :
    LET repo == report[n]
        suggested == repo.said.suggestions IN
    /\ repo.said.status = "passed" => Len(suggested) <= 1
    /\ "fixes" \in DOMAIN repo /\ repo.undisturbed =>
         \A i \in DOMAIN suggested :
           /\ repo.fixes[i].detected = {ProblemOf[suggested[i]]}
           /\ repo.fixes[i].blockers = {}
              \/ suggested[i] = "gitignore_target_missing"
              \/ /\ suggested[i] = "rust_ci_clippy_missing"
                 /\ Cardinality({k \in DOMAIN repo.of.files["workflow"] :
                                   repo.of.files["workflow"][k] = "test step"}) # 1

(* What is left to do in a project: a repair may uncover the next thing missing in the
   same file. *)
LeftToDo(files) ==
  (IF files["workflow"] = NoFile THEN 2 ELSE IF Has(files["workflow"], "clippy and test") THEN 0 ELSE 1)
  + (IF files["smoke"] = NoFile THEN 1 ELSE 0)
  + (IF files["readme"] = NoFile THEN 0 ELSE IF ~ Has(files["readme"], "validation") THEN 2
     ELSE IF Has(files["readme"], "usage") THEN 0 ELSE 1)
  + (IF Has(files["gitignore"], "target entry") THEN 0 ELSE 1)

(* Whoever keeps following the doctor's suggestions comes to an end: each that is not
   blocked leaves less to do, and the files of no other are touched. *)
SuggestionsSettle ==
  [][\A code \in Suggestible :
       Follow(code) /\ DryRunOf(Asked[code].only).blockers = {} =>
         /\ LeftToDo(project'.files) < LeftToDo(project.files)
         /\ \A f \in File \ {Planned[ProblemOf[code]]} : project'.files[f] = project.files[f]]_trialVars
=============================================================================
