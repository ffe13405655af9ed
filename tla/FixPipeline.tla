---------------------------- MODULE FixPipeline -----------------------------
(***************************************************************************)
(* `fix <target> [--apply]`: detect one problem, build a proposal, try it   *)
(* dry, apply it, validate, report.  Commands and a developer work on the   *)
(* same project; cargo and git are what the commands see of them.           *)
(***************************************************************************)
EXTENDS FixRules

CONSTANTS Proc,      \* processes that run fix
          Request,   \* the command lines they may be given
          Reply,     \* what the model behind an LLM provider may answer
          OldFiles,  \* files a project may have at first
          OldBuilds, \* how its modules may stand at first
          Tracked,   \* files git tracks at first
          DevEdits,  \* what a developer may make of a file, as [path, content]
          MaxEdits,  \* bound: edits by the developer and operations that fail on disk
          MaxLength  \* bound: no command starts on a longer file

ASSUME FixAssumption ==
  /\ Request \subseteq [only : {"cargo-check", "ci", "tests", "docs", "hygiene", "all"},
                        apply : BOOLEAN, max : Nat, cap : {"low", "medium"}, llm : BOOLEAN]
  /\ Reply \subseteq [files : Seq(File), ops : Seq(Op)]
  /\ OldFiles \subseteq [File -> Content]
  /\ OldBuilds \subseteq Builds
  /\ Tracked \subseteq File
  /\ DevEdits \subseteq [path : File, content : Content]
  /\ MaxEdits \in Nat /\ MaxLength \in Nat

(* A file that does not exist has no content. *)
ASSUME NoFileAssumption == NoFile \notin Seq(Piece)

VARIABLES
  files,    \* the project's files
  build,    \* how its modules stand
  lock,     \* Cargo.lock: none, behind the manifest, or current
  git,      \* what git knows: whether this is a repository, tracks Cargo.lock, and the commit
  proc,     \* the command each process is in
  edits,    \* edits and failures on disk so far
  last      \* history: the file the last step wrote, or how the command it ended came out

vars == <<files, build, lock, git, proc, edits, last>>

Idle == [step |-> "idle"]
Nothing == [status |-> "none"]
At(p, step) == proc[p].step = step
Become(p, state) == proc' = [proc EXCEPT ![p] = state]
Finish(p) == Become(p, Idle)

(* Paths as git status --short is read: lines are trimmed before the path is cut
   off after three characters, so that the path of a file edited but not staged
   (" M path") loses its first letter. *)
Named == [path : File \cup {"lock"}, cut : BOOLEAN]

Init ==
  /\ files \in OldFiles
  /\ build \in OldBuilds
  /\ lock \in {"none", "behind"}
  /\ git \in [repository : BOOLEAN, lock : BOOLEAN, files : {files}]
  /\ git.lock => git.repository /\ lock = "behind"
  /\ proc = [p \in Proc |-> Idle]
  /\ edits = 0
  /\ last = Nothing

-----------------------------------------------------------------------------
(* git and cargo *)

(* git_status_short, and git_status_path of every line. *)
Status(lockNow) ==
  IF ~ git.repository THEN {}
  ELSE {[path |-> f, cut |-> f \in Tracked] :
          f \in {g \in File : IF g \in Tracked THEN files[g] # git.files[g] ELSE files[g] # NoFile}}
       \cup {[path |-> "lock", cut |-> git.lock] :
               n \in {m \in {1} : IF git.lock THEN lockNow # "behind" ELSE lockNow # "none"}}

(* Any cargo command that resolves dependencies writes Cargo.lock. *)
CargoResolves == lock' = "current"

-----------------------------------------------------------------------------
(* Commands *)

(* A command remembers (history) whether it alone changed the file it is to repair
   since it looked. *)
Told(state, path) ==
  IF state.step # "idle" /\ path = Planned[state.problem] THEN [state EXCEPT !.alone = FALSE]
  ELSE state

(* run_fix up to detect_problem; a target that is no directory, and one without
   Cargo.toml, end it before.  `cargo check` is the first detector. *)
Detect(p, request) ==
  /\ At(p, "idle")
  /\ \A f \in File : files[f] # NoFile => Len(files[f]) <= MaxLength
  /\ IF RunsCargo(request.only) THEN CargoResolves ELSE lock' = lock
  /\ \/ /\ Selected(files, build, request.only) = {}
        /\ proc' = proc
        /\ last' = [status |-> "NoActionableProblem"]
     \/ \E problem \in Selected(files, build, request.only) :
          /\ Become(p, [step |-> "propose", request |-> request, problem |-> problem,
                        alone |-> TRUE])
          /\ last' = Nothing
  /\ UNCHANGED <<files, build, git, edits>>

(* Mutant: a proposal without blockers is applied in a dry run too. *)
ProposeUnasked(p, reply) ==
  LET c        == proc[p]
      proposal == ProposalFrom(reply, c.problem, files)
      blockers == Blockers(proposal, c.request, files)
  IN /\ At(p, "propose")
     /\ ~ c.request.llm => reply = NoReply
     /\ IF blockers = {}
        THEN /\ Become(p, [step |-> "apply", apply |-> c.request.apply, problem |-> c.problem,
                           alone |-> c.alone, proposal |-> proposal, next |-> 1])
             /\ last' = Nothing
        ELSE /\ Finish(p)
             /\ last' = [status |-> CASE c.request.apply -> "Blocked"
                                      [] blockers = {}   -> "ProposalCreated"
                                      [] OTHER           -> "DryRunFailed",
                         problem |-> c.problem, alone |-> c.alone, rules |-> proposal.rules,
                         only |-> c.request.only, max |-> c.request.max]
     /\ UNCHANGED <<files, build, lock, git, edits>>

(* Build the proposal, try it dry, and end a dry run or a blocked one. *)
Propose(p, reply) ==
  LET c        == proc[p]
      proposal == ProposalFrom(reply, c.problem, files)
      blockers == Blockers(proposal, c.request, files)
  IN /\ At(p, "propose")
     /\ ~ c.request.llm => reply = NoReply
     /\ IF c.request.apply /\ blockers = {}
        THEN /\ Become(p, [step |-> "apply", apply |-> c.request.apply, problem |-> c.problem,
                           alone |-> c.alone, proposal |-> proposal, next |-> 1])
             /\ last' = Nothing
        ELSE /\ Finish(p)
             /\ last' = [status |-> CASE c.request.apply -> "Blocked"
                                      [] blockers = {}   -> "ProposalCreated"
                                      [] OTHER           -> "DryRunFailed",
                         problem |-> c.problem, alone |-> c.alone, rules |-> proposal.rules,
                         only |-> c.request.only, max |-> c.request.max]
     /\ UNCHANGED <<files, build, lock, git, edits>>

(* One operation of apply_fix_proposal.  There is no snapshot: one that fails
   ends the command, without a report, and leaves the earlier ones. *)
ApplyOp(p) ==
  LET c  == proc[p]
      op == c.proposal.ops[c.next]
  IN /\ At(p, "apply") /\ c.next <= Len(c.proposal.ops)
     /\ IF Refusal(op, files[op.path]) = "none"
        THEN /\ files' = Perform(files, op)
             /\ proc' = [q \in Proc |-> IF q = p THEN [c EXCEPT !.next = @ + 1]
                                        ELSE Told(proc[q], op.path)]
             /\ last' = [status |-> "wrote", apply |-> c.apply, problem |-> c.problem,
                         path |-> op.path]
        ELSE /\ Finish(p)
             /\ last' = [status |-> "stopped", ops |-> c.proposal.ops, alone |-> c.alone]
             /\ files' = files
     /\ UNCHANGED <<build, lock, git, edits>>

(* What is on disk may refuse an operation too: a directory, a read, an open or a
   write that fails ends the command like a refusal, and a write may have emptied
   the file it failed on. *)
FailOp(p) ==
  LET c  == proc[p]
      op == c.proposal.ops[c.next]
  IN /\ At(p, "apply") /\ c.next <= Len(c.proposal.ops)
     /\ edits < MaxEdits /\ edits' = edits + 1
     /\ Refusal(op, files[op.path]) = "none"
     /\ \/ /\ files' = files
           /\ Finish(p)
        \/ /\ op.kind # "AppendFile"
           /\ files' = [files EXCEPT ![op.path] = << >>]
           /\ proc' = [q \in Proc |-> IF q = p THEN Idle ELSE Told(proc[q], op.path)]
     /\ last' = [status |-> "failed"]
     /\ UNCHANGED <<build, lock, git>>

(* The status before validation is taken. *)
ValidateBegin(p) ==
  LET c == proc[p] IN
  /\ At(p, "apply") /\ c.next > Len(c.proposal.ops)
  /\ Become(p, [step |-> "validate", problem |-> c.problem, alone |-> c.alone,
                rules |-> c.proposal.rules, changed |-> PathsOf(c.proposal.ops),
                before |-> Status(lock), lock |-> lock])
  /\ last' = Nothing
  /\ UNCHANGED <<files, build, lock, git, edits>>

(* compute_validation_side_effects *)
SideEffects(c, after, lockAfter) ==
  {n \in after : n \notin c.before /\ n \notin [path : c.changed, cut : {FALSE}]}
  \cup IF c.lock = "none" /\ lockAfter # "none" THEN {[path |-> "lock", cut |-> FALSE]} ELSE {}

(* run_fix_validation: three commands of cargo, of which the formatter may fail on its own. *)
Verdicts == IF CheckFails(files, build) THEN {"partial", "failed"} ELSE {"passed", "partial"}

(* The report. *)
ValidateEnd(p) ==
  LET c == proc[p] IN
  /\ At(p, "validate")
  /\ CargoResolves
  /\ \E verdict \in Verdicts :
       last' = [status |-> IF verdict = "passed" THEN "ValidationPassed" ELSE "ValidationFailed",
                lock |-> c.lock, listed |-> c.before, effects |-> SideEffects(c, Status("current"), "current")]
  /\ Finish(p)
  /\ UNCHANGED <<files, build, git, edits>>

(* The developer edits a file, or changes which modules are declared. *)
Develop ==
  /\ edits < MaxEdits
  /\ edits' = edits + 1
  /\ \/ \E e \in DevEdits : /\ files[e.path] # e.content
                            /\ files' = [files EXCEPT ![e.path] = e.content]
                            /\ proc' = [q \in Proc |-> Told(proc[q], e.path)]
                            /\ build' = build
     \/ /\ build' \in Builds \ {build}
        /\ proc' = [q \in Proc |-> Told(proc[q], "module")]
        /\ files' = files
  /\ last' = Nothing
  /\ UNCHANGED <<lock, git>>

Next ==
  \/ \E p \in Proc : \/ \E request \in Request : Detect(p, request)
                     \/ \E reply \in Reply \cup {NoReply} : Propose(p, reply)
                     \/ ApplyOp(p) \/ FailOp(p) \/ ValidateBegin(p) \/ ValidateEnd(p)
  \/ Develop

Spec == Init /\ [][Next]_vars

-----------------------------------------------------------------------------
(* Properties *)

Proposals == [files : Seq(File), ops : Seq(Op), rules : BOOLEAN]
Pending   == [step : {"propose"}, request : Request, problem : Problem, alone : BOOLEAN]
Applying  == [step : {"apply"}, apply : {TRUE}, problem : Problem, alone : BOOLEAN,
              proposal : Proposals, next : Nat \ {0}]
Validated == [step : {"validate"}, problem : Problem, alone : BOOLEAN, rules : BOOLEAN,
              changed : SUBSET File, before : SUBSET Named, lock : {"none", "behind", "current"}]
Commands  == {Idle} \cup Pending \cup Applying \cup Validated

TypeOK ==
  /\ files \in [File -> Content]
  /\ build \in Builds /\ lock \in {"none", "behind", "current"}
  /\ git \in [repository : BOOLEAN, lock : BOOLEAN, files : [File -> Content]]
  /\ proc \in [Proc -> Commands]
  /\ edits \in 0 .. MaxEdits

(* A fix writes only when it was asked to apply, only the one file its problem is
   repaired in, whatever a provider answers and whoever works beside it. *)
WritesInScope ==
  last.status = "wrote" =>
    last.apply /\ last.path = Planned[last.problem] /\ last.path \in Patchable

(* The repairs no apply gets past the dry run: of .gitignore, which no patch may
   name, of a workflow without exactly one test step, and of a module missed in a
   nested one once its file is there. *)
Hopeless(problem) ==
  \/ problem = "MissingGitignoreTarget"
  \/ problem = "MissingClippyCi" /\ Cardinality({i \in DOMAIN files["workflow"] :
                                               files["workflow"][i] = "test step"}) # 1
  \/ problem = "CargoCheckFailure" /\ files["module"] # NoFile

(* Which problems the rules settle, for a run nobody interferes with: one that got to
   validation removed its problem, unless the module is missed in a nested one; one that
   was blocked leaves its problem for every later run to select again, with all those
   behind it in the order, and is one of three that no repair of the rules is let
   through for.  Nothing else stays (fix.rs detect_problem, simulate_fix). *)
RepairSettles ==
  /\ \A p \in Proc :
       LET c == proc[p] IN
       At(p, "validate") /\ c.rules /\ c.alone
         => (Detects(c.problem, files, build, "docs")
               <=> c.problem = "CargoCheckFailure" /\ build = "needs nested")
  /\ last.status \in {"Blocked", "DryRunFailed"} /\ last.rules /\ last.alone
       /\ last.max > 0
       => Hopeless(last.problem) /\ Detects(last.problem, files, build, last.only)

(* An I/O error aside, an apply stops in the middle, with its earlier operations
   written and no report, only if others changed that file or a provider gave two operations
   on one file, which the dry run tries on the file as it is. *)
StopsOnlyByRace ==
  last.status = "stopped" => ~ last.alone \/ ~ OnePerFile(last.ops)
=============================================================================
