----------------------------- MODULE FixProofs ------------------------------
(* Theorems about FixPipeline, for every project, provider and number of commands. *)
EXTENDS FixPipeline, FiniteSetTheorems, TLAPS

-----------------------------------------------------------------------------
(* Repairs and proposals *)

(* A repair is one operation on the file its problem is repaired in. *)
LEMMA RepairIsOp ==
  ASSUME NEW problem \in Problem, NEW fs
  PROVE  Repair(problem, fs) \in Op /\ Repair(problem, fs).path = Planned[problem]
<1>1. Planned[problem] \in File
  BY DEF Problem, Planned, File
<1>2. Written[problem] \in Piece
  <2>1. \/ problem = "CargoCheckFailure" \/ problem = "MissingCi" \/ problem = "MissingClippyCi"
        \/ problem = "MissingSmokeTest" \/ problem = "MissingReadmeValidation"
        \/ problem = "MissingReadmeUsageSection" \/ problem = "MissingGitignoreTarget"
    BY DEF Problem
  <2>2. CASE problem = "CargoCheckFailure"  BY <2>2 DEF Written, Piece
  <2>3. CASE problem = "MissingCi"  BY <2>3 DEF Written, Piece
  <2>4. CASE problem = "MissingClippyCi"  BY <2>4 DEF Written, Piece
  <2>5. CASE problem = "MissingSmokeTest"  BY <2>5 DEF Written, Piece
  <2>6. CASE problem = "MissingReadmeValidation"  BY <2>6 DEF Written, Piece
  <2>7. CASE problem = "MissingReadmeUsageSection"  BY <2>7 DEF Written, Piece
  <2>8. CASE problem = "MissingGitignoreTarget"  BY <2>8 DEF Written, Piece
  <2> QED BY <2>1, <2>2, <2>3, <2>4, <2>5, <2>6, <2>7, <2>8
<1>3. RepairKind(problem, fs) \in Kind
  BY DEF RepairKind, Kind
<1>4. "test step" \in Piece
  BY DEF Piece
<1> QED BY <1>1, <1>2, <1>3, <1>4 DEF Repair, Op

(* Whatever a provider answers, the proposal of run_fix is of the one planned file. *)
LEMMA ProposalScoped ==
  ASSUME NEW problem \in Problem, NEW fs, NEW reply \in Reply \cup {NoReply}
  PROVE  /\ ProposalFrom(reply, problem, fs) \in Proposals
         /\ PathsOf(ProposalFrom(reply, problem, fs).ops) \subseteq {Planned[problem]}
<1>1. CASE reply # NoReply /\ PathsOf(reply.ops) \subseteq Patchable /\ InScope(reply, problem)
  BY <1>1, FixAssumption DEF ProposalFrom, Proposals, InScope
<1>2. CASE ~ (reply # NoReply /\ PathsOf(reply.ops) \subseteq Patchable /\ InScope(reply, problem))
  <2> DEFINE op == Repair(problem, fs)
  <2>1. op \in Op /\ op.path = Planned[problem]
    BY RepairIsOp
  <2>2. op.path \in File
    BY <2>1 DEF Op
  <2>3. ProposalFrom(reply, problem, fs) = [files |-> <<op.path>>, ops |-> <<op>>, rules |-> TRUE]
    BY <1>2 DEF ProposalFrom, RuleBased
  <2> HIDE DEF op
  <2>4. <<op.path>> \in Seq(File) /\ <<op>> \in Seq(Op) /\ PathsOf(<<op>>) = {op.path}
    BY <2>1, <2>2 DEF PathsOf
  <2> QED BY <2>1, <2>3, <2>4 DEF Proposals
<1> QED BY <1>1, <1>2

LEMMA UnblockedIsPatchable ==
  ASSUME NEW proposal, NEW request, NEW fs, Blockers(proposal, request, fs) = {}
  PROVE  PathsOf(proposal.ops) \subseteq Patchable
BY DEF Blockers, Simulated

(* An operation that is not refused leaves contents of files. *)
LEMMA PerformType ==
  ASSUME NEW fs \in [File -> Content], NEW op \in Op, Refusal(op, fs[op.path]) = "none"
  PROVE  Perform(fs, op) \in [File -> Content]
<1>1. op.path \in File /\ op.text \in Piece /\ op.kind \in Kind
  BY DEF Op
<1>2. After(op, fs[op.path]) \in Seq(Piece)
  <2> DEFINE content == fs[op.path]
  <2>0. content \in Seq(Piece) \cup {NoFile}
    BY <1>1 DEF Content
  <2>1. CASE op.kind = "AppendFile"
    <3>1. content # NoFile
      BY <2>1 DEF Refusal
    <3> QED BY <1>1, <2>0, <2>1, <3>1 DEF After
  <2>2. CASE op.kind = "ReplaceExactText"
    <3>1. content # NoFile
      BY <2>2 DEF Refusal
    <3>2. content \in Seq(Piece)
      BY <2>0, <3>1
    <3> DEFINE new == [i \in DOMAIN content |-> IF content[i] = op.find THEN op.text ELSE content[i]]
    <3>3. DOMAIN content = 1 .. Len(content) /\ Len(content) \in Nat
      BY <3>2
    <3>4. new \in [1 .. Len(content) -> Piece]
      BY <1>1, <3>2, <3>3
    <3>5. new \in Seq(Piece)
      BY <3>3, <3>4
    <3> QED BY <2>2, <3>5 DEF After
  <2>3. CASE op.kind \notin {"AppendFile", "ReplaceExactText"}
    BY <1>1, <2>3 DEF After
  <2> QED BY <2>1, <2>2, <2>3
<1> QED BY <1>1, <1>2 DEF Perform, Content

-----------------------------------------------------------------------------
(* Commands *)

LEMMA StepOf ==
  ASSUME NEW c \in Commands
  PROVE  /\ c.step = "propose" => c \in Pending
         /\ c.step = "apply" => c \in Applying
         /\ c.step = "validate" => c \in Validated
<1>1. c = Idle => c.step = "idle"
  BY DEF Idle
<1>2. c \in Pending => c.step = "propose"
  BY DEF Pending
<1>3. c \in Applying => c.step = "apply"
  BY DEF Applying
<1>4. c \in Validated => c.step = "validate"
  BY DEF Validated
<1> QED BY <1>1, <1>2, <1>3, <1>4 DEF Commands

LEMMA ToldIsCommand ==
  ASSUME NEW c \in Commands, NEW path
  PROVE  /\ Told(c, path) \in Commands /\ Told(c, path).step = c.step
         /\ c.step = "apply" => /\ Told(c, path).problem = c.problem
                                /\ Told(c, path).proposal = c.proposal
<1>1. CASE c.step = "idle"
  BY <1>1 DEF Told
<1>2. CASE c \in Pending
  BY <1>2 DEF Told, Commands, Pending
<1>3. CASE c \in Applying
  BY <1>3 DEF Told, Commands, Applying
<1>4. CASE c \in Validated
  BY <1>4 DEF Told, Commands, Validated
<1> QED BY <1>1, <1>2, <1>3, <1>4 DEF Commands, Idle

LEMMA StatusType ==
  ASSUME TypeOK, NEW lockNow
  PROVE  Status(lockNow) \subseteq Named
<1>1. git.lock \in BOOLEAN
  BY DEF TypeOK
<1>2. \A f \in File : [path |-> f, cut |-> f \in Tracked] \in Named
  BY DEF Named
<1>3. [path |-> "lock", cut |-> git.lock] \in Named
  BY <1>1 DEF Named
<1> QED BY <1>2, <1>3 DEF Status

(* What a command that applies a proposal holds: operations on the planned file of
   its problem only, which is one that may be patched.  Proposals are kept across
   steps of other commands, so that WritesInScope does not speak of its own step alone. *)
ScopeInv ==
  \A p \in Proc : At(p, "apply") =>
    PathsOf(proc[p].proposal.ops) \subseteq {Planned[proc[p].problem]} \cap Patchable

Inv == TypeOK /\ ScopeInv /\ WritesInScope

-----------------------------------------------------------------------------
(* Each action preserves the invariant. *)

LEMMA InitInv == Init => Inv
<1> SUFFICES ASSUME Init PROVE Inv
  OBVIOUS
<1>1. proc = [p \in Proc |-> Idle] /\ Idle \in Commands /\ Idle.step = "idle"
  BY DEF Init, Commands, Idle
<1>2. TypeOK
  BY <1>1, FixAssumption DEF Init, TypeOK
<1>3. ScopeInv
  BY <1>1 DEF ScopeInv, At
<1>4. WritesInScope
  BY DEF Init, Nothing, WritesInScope
<1> QED BY <1>2, <1>3, <1>4 DEF Inv

LEMMA SelectedIsProblem ==
  ASSUME NEW fs, NEW bd, NEW request \in Request
  PROVE  Selected(fs, bd, request.only) \subseteq Problem
<1>1. Categories(request.only) \in Seq(Problem)
  <2>1. request.only \in {"cargo-check", "ci", "tests", "docs", "hygiene", "all"}
    BY FixAssumption
  <2>2. CASE request.only = "cargo-check"  BY <2>2 DEF Categories, Problem
  <2>3. CASE request.only = "ci"  BY <2>3 DEF Categories, Problem
  <2>4. CASE request.only = "tests"  BY <2>4 DEF Categories, Problem
  <2>5. CASE request.only = "docs"  BY <2>5 DEF Categories, Problem
  <2>6. CASE request.only = "hygiene"  BY <2>6 DEF Categories, Problem
  <2>7. CASE request.only = "all"  BY <2>7 DEF Categories, Problem
  <2> QED BY <2>1, <2>2, <2>3, <2>4, <2>5, <2>6, <2>7
<1>2. \A i \in DOMAIN Categories(request.only) : Categories(request.only)[i] \in Problem
  BY <1>1
<1> QED BY <1>2 DEF Selected

LEMMA DetectInv ==
  ASSUME Inv, NEW p \in Proc, NEW request \in Request, Detect(p, request)
  PROVE  Inv'
<1> DEFINE new(problem) == [step |-> "propose", request |-> request, problem |-> problem,
                            alone |-> TRUE]
<1>1. \A problem \in Problem : new(problem) \in Commands /\ new(problem).step = "propose"
  BY DEF Commands, Pending
<1>2. \/ proc' = proc
      \/ \E problem \in Problem : proc' = [proc EXCEPT ![p] = new(problem)]
  BY SelectedIsProblem DEF Detect, Become
<1> HIDE DEF new
<1>3. proc' \in [Proc -> Commands] /\ \A q \in Proc : At(q, "apply")' => proc'[q] = proc[q]
  BY <1>1, <1>2 DEF Inv, TypeOK, At
<1>4. lock' \in {"none", "behind", "current"}
  BY DEF Detect, CargoResolves, Inv, TypeOK
<1>5. TypeOK'
  BY <1>3, <1>4 DEF Detect, Inv, TypeOK
<1>6. ScopeInv'
  BY <1>3 DEF Inv, ScopeInv, At
<1>7. last' = Nothing \/ last' = [status |-> "NoActionableProblem"]
  BY DEF Detect
<1>8. WritesInScope'
  BY <1>7 DEF Nothing, WritesInScope
<1> QED BY <1>5, <1>6, <1>8 DEF Inv

LEMMA ApplyingRecord ==
  ASSUME NEW a \in {TRUE}, NEW k \in Problem, NEW b \in BOOLEAN, NEW x \in Proposals
  PROVE  [step |-> "apply", apply |-> a, problem |-> k, alone |-> b, proposal |-> x,
          next |-> 1] \in Applying
BY DEF Applying

LEMMA ProposeInv ==
  ASSUME Inv, NEW p \in Proc, NEW reply \in Reply \cup {NoReply}, Propose(p, reply)
  PROVE  Inv'
<1> DEFINE c        == proc[p]
           proposal == ProposalFrom(reply, c.problem, files)
           new      == [step |-> "apply", apply |-> c.request.apply, problem |-> c.problem,
                        alone |-> c.alone, proposal |-> proposal, next |-> 1]
<1>1. c \in Pending
  BY StepOf DEF Propose, At, Inv, TypeOK
<1>2. c.problem \in Problem /\ c.alone \in BOOLEAN
  BY <1>1 DEF Pending
<1>3. proposal \in Proposals /\ PathsOf(proposal.ops) \subseteq {Planned[c.problem]}
  BY <1>2, ProposalScoped
<1>4. \/ proc' = [proc EXCEPT ![p] = Idle] /\ last'.status \in {"Blocked", "ProposalCreated", "DryRunFailed"}
      \/ /\ proc' = [proc EXCEPT ![p] = new] /\ last' = Nothing
         /\ new \in Applying /\ PathsOf(proposal.ops) \subseteq Patchable
  <2>1. CASE c.request.apply /\ Blockers(proposal, c.request, files) = {}
    <3>1. proc' = [proc EXCEPT ![p] = new] /\ last' = Nothing
      BY <2>1 DEF Propose, Become
    <3>2. PathsOf(proposal.ops) \subseteq Patchable
      BY <2>1, UnblockedIsPatchable
    <3>3. c.request.apply \in {TRUE}
      BY <1>1, <2>1, FixAssumption DEF Pending
    <3>4. new \in Applying
      BY <1>2, <1>3, <3>3, ApplyingRecord
    <3> QED BY <3>1, <3>2, <3>4
  <2>2. CASE ~ (c.request.apply /\ Blockers(proposal, c.request, files) = {})
    BY <2>2 DEF Propose, Finish, Become
  <2> QED BY <2>1, <2>2
<1> HIDE DEF proposal
<1>5. Idle \in Commands /\ (new \in Applying => new \in Commands)
  BY DEF Commands
<1>6. proc' \in [Proc -> Commands]
  BY <1>4, <1>5 DEF Inv, TypeOK
<1>7. TypeOK'
  BY <1>6 DEF Propose, Inv, TypeOK
<1>8. ScopeInv'
  BY <1>3, <1>4 DEF Inv, TypeOK, ScopeInv, At, Idle
<1>9. WritesInScope'
  BY <1>4 DEF Nothing, WritesInScope
<1> QED BY <1>7, <1>8, <1>9 DEF Inv

LEMMA NextOperation ==
  ASSUME NEW c \in Applying, NEW n \in Nat \ {0}
  PROVE  [c EXCEPT !.next = n] \in Applying
BY DEF Applying

LEMMA ApplyOpInv ==
  ASSUME Inv, NEW p \in Proc, ApplyOp(p)
  PROVE  Inv'
<1> DEFINE c  == proc[p]
           op == c.proposal.ops[c.next]
<1>1. c \in Applying /\ c \in Commands
  BY StepOf DEF ApplyOp, At, Inv, TypeOK
<1>2. /\ c.proposal \in Proposals /\ c.next \in Nat \ {0} /\ c.problem \in Problem
      /\ c.proposal.ops \in Seq(Op)
  BY <1>1 DEF Applying, Proposals
<1>3. c.next \in DOMAIN c.proposal.ops /\ op \in Op
  BY <1>2 DEF ApplyOp
<1>4. op.path \in {Planned[c.problem]} \cap Patchable
  <2>1. op.path \in PathsOf(c.proposal.ops)
    BY <1>3 DEF PathsOf
  <2>2. At(p, "apply")
    BY DEF ApplyOp
  <2> HIDE DEF op
  <2> QED BY <2>1, <2>2 DEF Inv, ScopeInv
<1>5. [c EXCEPT !.next = @ + 1] \in Commands
  <2>1. c.next + 1 \in Nat \ {0}
    BY <1>2
  <2> QED BY <1>1, <2>1, NextOperation DEF Commands
<1>6. CASE Refusal(op, files[op.path]) = "none"
  <2> DEFINE after(q) == IF q = p THEN [c EXCEPT !.next = @ + 1] ELSE Told(proc[q], op.path)
  <2>1. /\ files' = Perform(files, op)
        /\ proc' = [q \in Proc |-> after(q)]
        /\ last' = [status |-> "wrote", apply |-> c.apply, problem |-> c.problem,
                    path |-> op.path]
    BY <1>6 DEF ApplyOp
  <2>2. \A q \in Proc : after(q) \in Commands
    BY <1>5, ToldIsCommand DEF Inv, TypeOK
  <2>3. \A q \in Proc : after(q).step = "apply" =>
          /\ proc[q].step = "apply" /\ after(q).problem = proc[q].problem
          /\ after(q).proposal = proc[q].proposal
    <3> TAKE q \in Proc
    <3>1. CASE q = p
      BY <1>1, <3>1 DEF ApplyOp, At, Applying
    <3>2. CASE q # p
      BY <3>2, ToldIsCommand DEF Inv, TypeOK
    <3> QED BY <3>1, <3>2
  <2> HIDE DEF after
  <2>4. proc' \in [Proc -> Commands]
    BY <2>1, <2>2
  <2>5. files' \in [File -> Content]
    BY <1>3, <1>6, <2>1, PerformType DEF Inv, TypeOK
  <2>6. TypeOK'
    BY <2>4, <2>5 DEF ApplyOp, Inv, TypeOK
  <2>7. ScopeInv'
    BY <2>1, <2>3 DEF Inv, ScopeInv, At
  <2>8. c.apply = TRUE
    BY <1>1 DEF Applying
  <2>9. WritesInScope'
    BY <1>4, <2>1, <2>8 DEF WritesInScope
  <2> QED BY <2>6, <2>7, <2>9 DEF Inv
<1>7. CASE Refusal(op, files[op.path]) # "none"
  <2>1. /\ files' = files /\ proc' = [proc EXCEPT ![p] = Idle]
        /\ last' = [status |-> "stopped", ops |-> c.proposal.ops, alone |-> c.alone]
    BY <1>7 DEF ApplyOp, Finish, Become
  <2>2. Idle \in Commands /\ Idle.step = "idle"
    BY DEF Commands, Idle
  <2>3. TypeOK'
    BY <2>1, <2>2 DEF ApplyOp, Inv, TypeOK
  <2>4. ScopeInv'
    BY <2>1, <2>2 DEF Inv, TypeOK, ScopeInv, At
  <2>5. WritesInScope'
    BY <2>1 DEF WritesInScope
  <2> QED BY <2>3, <2>4, <2>5 DEF Inv
<1> QED BY <1>6, <1>7

(* A failure on disk: nothing changes but that the command ends, or its file is
   emptied and the others are told. *)
LEMMA FailOpCases ==
  ASSUME Inv, NEW p \in Proc, FailOp(p)
  PROVE  /\ build' = build /\ lock' = lock /\ git' = git
         /\ edits' \in 0 .. MaxEdits /\ last' = [status |-> "failed"]
         /\ \/ files' = files /\ proc' = [proc EXCEPT ![p] = Idle]
            \/ \E path \in File :
                 /\ files' = [files EXCEPT ![path] = << >>]
                 /\ proc' = [q \in Proc |-> IF q = p THEN Idle ELSE Told(proc[q], path)]
<1> DEFINE c  == proc[p]
           op == c.proposal.ops[c.next]
<1>1. c \in Applying
  BY StepOf DEF FailOp, At, Inv, TypeOK
<1>2. c.next \in Nat \ {0} /\ c.proposal.ops \in Seq(Op)
  BY <1>1 DEF Applying, Proposals
<1>3. op.path \in File
  <2>1. op \in Op
    BY <1>2 DEF FailOp
  <2> HIDE DEF op
  <2> QED BY <2>1 DEF Op
<1>4. edits' \in 0 .. MaxEdits
  BY FixAssumption DEF FailOp, Inv, TypeOK
<1>5. CASE files' = files /\ Finish(p)
  BY <1>4, <1>5 DEF FailOp, Finish, Become
<1>6. CASE /\ files' = [files EXCEPT ![op.path] = << >>]
           /\ proc' = [q \in Proc |-> IF q = p THEN Idle ELSE Told(proc[q], op.path)]
  <2> HIDE DEF op
  <2> QED BY <1>3, <1>4, <1>6 DEF FailOp
<1> QED BY <1>5, <1>6 DEF FailOp

LEMMA FailOpInv ==
  ASSUME Inv, NEW p \in Proc, FailOp(p)
  PROVE  Inv'
<1>1. Idle \in Commands /\ Idle.step = "idle"
  BY DEF Commands, Idle
<1>2. CASE files' = files /\ proc' = [proc EXCEPT ![p] = Idle]
  <2>1. TypeOK' /\ ScopeInv'
    BY <1>1, <1>2, FailOpCases DEF Inv, TypeOK, ScopeInv, At
  <2> QED BY <2>1, FailOpCases DEF Inv, WritesInScope
<1>3. ASSUME NEW path \in File, files' = [files EXCEPT ![path] = << >>],
             proc' = [q \in Proc |-> IF q = p THEN Idle ELSE Told(proc[q], path)]
      PROVE  Inv'
  <2>1. \A q \in Proc : /\ Told(proc[q], path) \in Commands
                        /\ Told(proc[q], path).step = proc[q].step
                        /\ proc[q].step = "apply" =>
                             /\ Told(proc[q], path).problem = proc[q].problem
                             /\ Told(proc[q], path).proposal = proc[q].proposal
    BY ToldIsCommand DEF Inv, TypeOK
  <2>2. proc' \in [Proc -> Commands]
    BY <1>1, <1>3, <2>1
  <2>3. << >> \in Content
    BY DEF Content
  <2>4. files' \in [File -> Content]
    BY <1>3, <2>3 DEF Inv, TypeOK
  <2>5. TypeOK'
    BY <2>2, <2>4, FailOpCases DEF Inv, TypeOK
  <2>6. ScopeInv'
    BY <1>1, <1>3, <2>1 DEF Inv, ScopeInv, At
  <2> QED BY <2>5, <2>6, FailOpCases DEF Inv, WritesInScope
<1> QED BY <1>2, <1>3, FailOpCases

LEMMA ValidatingRecord ==
  ASSUME NEW k \in Problem, NEW b \in BOOLEAN, NEW r \in BOOLEAN, NEW paths \in SUBSET File,
         NEW names \in SUBSET Named, NEW l \in {"none", "behind", "current"}
  PROVE  [step |-> "validate", problem |-> k, alone |-> b, rules |-> r, changed |-> paths,
          before |-> names, lock |-> l] \in Validated
BY DEF Validated

LEMMA ValidateBeginInv ==
  ASSUME Inv, NEW p \in Proc, ValidateBegin(p)
  PROVE  Inv'
<1> DEFINE c   == proc[p]
           new == [step |-> "validate", problem |-> c.problem, alone |-> c.alone,
                   rules |-> c.proposal.rules, changed |-> PathsOf(c.proposal.ops),
                   before |-> Status(lock), lock |-> lock]
<1>1. c \in Applying
  BY StepOf DEF ValidateBegin, At, Inv, TypeOK
<1>2. /\ c.problem \in Problem /\ c.alone \in BOOLEAN /\ c.proposal.rules \in BOOLEAN
      /\ c.proposal.ops \in Seq(Op)
  BY <1>1 DEF Applying, Proposals
<1>3. PathsOf(c.proposal.ops) \subseteq File
  <2>1. \A i \in DOMAIN c.proposal.ops : c.proposal.ops[i] \in Op
    BY <1>2
  <2>2. \A i \in DOMAIN c.proposal.ops : c.proposal.ops[i].path \in File
    BY <2>1 DEF Op
  <2> HIDE DEF c
  <2> QED BY <2>2 DEF PathsOf
<1>4. Status(lock) \subseteq Named /\ lock \in {"none", "behind", "current"}
  BY StatusType DEF Inv, TypeOK
<1>5. new \in Validated
  BY <1>2, <1>3, <1>4, ValidatingRecord
<1>6. new.step = "validate" /\ proc' = [proc EXCEPT ![p] = new] /\ last' = Nothing
  BY DEF ValidateBegin, Become
<1> HIDE DEF new
<1>7. TypeOK'
  BY <1>5, <1>6 DEF ValidateBegin, Inv, TypeOK, Commands
<1>8. ScopeInv'
  BY <1>6 DEF Inv, TypeOK, ScopeInv, At
<1>9. WritesInScope'
  BY <1>6 DEF Nothing, WritesInScope
<1> QED BY <1>7, <1>8, <1>9 DEF Inv

LEMMA ValidateEndInv ==
  ASSUME Inv, NEW p \in Proc, ValidateEnd(p)
  PROVE  Inv'
<1>1. proc' = [proc EXCEPT ![p] = Idle] /\ Idle \in Commands /\ Idle.step = "idle"
  BY DEF ValidateEnd, Finish, Become, Commands, Idle
<1>2. last'.status # "wrote"
  <2>1. PICK verdict, effects :
          last' = [status |-> IF verdict = "passed" THEN "ValidationPassed" ELSE "ValidationFailed",
                   lock |-> proc[p].lock, listed |-> proc[p].before, effects |-> effects]
    BY DEF ValidateEnd
  <2> QED BY <2>1
<1>3. TypeOK'
  BY <1>1 DEF ValidateEnd, CargoResolves, Inv, TypeOK
<1>4. ScopeInv'
  BY <1>1 DEF Inv, TypeOK, ScopeInv, At
<1>5. WritesInScope'
  BY <1>2 DEF WritesInScope
<1> QED BY <1>3, <1>4, <1>5 DEF Inv

LEMMA DevelopInv ==
  ASSUME Inv, Develop
  PROVE  Inv'
<1>1. PICK path : proc' = [q \in Proc |-> Told(proc[q], path)]
  BY DEF Develop
<1>2. \A q \in Proc : /\ Told(proc[q], path) \in Commands
                      /\ Told(proc[q], path).step = proc[q].step
                      /\ proc[q].step = "apply" =>
                           /\ Told(proc[q], path).problem = proc[q].problem
                           /\ Told(proc[q], path).proposal = proc[q].proposal
  BY ToldIsCommand DEF Inv, TypeOK
<1>3. proc' \in [Proc -> Commands]
  BY <1>1, <1>2
<1>4. files' \in [File -> Content] /\ build' \in Builds
  BY FixAssumption DEF Develop, Inv, TypeOK
<1>5. edits' \in 0 .. MaxEdits
  BY FixAssumption DEF Develop, Inv, TypeOK
<1>6. TypeOK'
  BY <1>3, <1>4, <1>5 DEF Develop, Inv, TypeOK
<1>7. ScopeInv'
  BY <1>1, <1>2 DEF Inv, ScopeInv, At
<1>8. WritesInScope'
  BY DEF Develop, Nothing, WritesInScope
<1> QED BY <1>6, <1>7, <1>8 DEF Inv

LEMMA NextInv == Inv /\ [Next]_vars => Inv'
<1> SUFFICES ASSUME Inv, [Next]_vars PROVE Inv'
  OBVIOUS
<1>1. CASE UNCHANGED vars
  BY <1>1 DEF vars, Inv, TypeOK, ScopeInv, At, WritesInScope
<1>2. CASE Next
  BY <1>2, DetectInv, ProposeInv, ApplyOpInv, FailOpInv, ValidateBeginInv, ValidateEndInv, DevelopInv
  DEF Next
<1> QED BY <1>1, <1>2

-----------------------------------------------------------------------------
(* Types, for all constants that satisfy FixAssumption. *)
THEOREM TypeCorrect == Spec => []TypeOK
<1>1. Inv => TypeOK
  BY DEF Inv
<1> QED BY <1>1, InitInv, NextInv, PTL DEF Spec

(* A fix writes only when asked to apply and only the file its problem is repaired in
   (enforce_fix_scope, validate_patch_path), for any answers of a provider and any
   number of commands beside each other. *)
THEOREM FixesStayInScope == Spec => []WritesInScope
<1>1. Inv => WritesInScope
  BY DEF Inv
<1> QED BY <1>1, InitInv, NextInv, PTL DEF Spec

-----------------------------------------------------------------------------
(* What a problem depends on *)

LEMMA ProblemCases ==
  ASSUME NEW k \in Problem
  PROVE  \/ k = "CargoCheckFailure" \/ k = "MissingCi" \/ k = "MissingClippyCi"
         \/ k = "MissingSmokeTest" \/ k = "MissingReadmeValidation"
         \/ k = "MissingReadmeUsageSection" \/ k = "MissingGitignoreTarget"
BY DEF Problem

(* Only the planned file, and for the first kind how the modules stand. *)
LEMMA DetectsLocally ==
  ASSUME NEW k \in Problem, NEW fs, NEW gs, NEW bd, NEW ce, NEW only,
         fs[Planned[k]] = gs[Planned[k]], k = "CargoCheckFailure" => bd = ce
  PROVE  Detects(k, fs, bd, only) <=> Detects(k, gs, ce, only)
<1>1. CASE k = "CargoCheckFailure"  BY <1>1 DEF Detects, Planned, CheckFails
<1>2. CASE k = "MissingCi"  BY <1>2 DEF Detects, Planned
<1>3. CASE k = "MissingClippyCi"  BY <1>3 DEF Detects, Planned
<1>4. CASE k = "MissingSmokeTest"  BY <1>4 DEF Detects, Planned
<1>5. CASE k = "MissingReadmeValidation"  BY <1>5 DEF Detects, Planned
<1>6. CASE k = "MissingReadmeUsageSection"  BY <1>6 DEF Detects, Planned
<1>7. CASE k = "MissingGitignoreTarget"  BY <1>7 DEF Detects, Planned
<1> QED BY <1>1, <1>2, <1>3, <1>4, <1>5, <1>6, <1>7, ProblemCases

LEMMA HasLocal ==
  ASSUME NEW content \in Seq(Piece), NEW text \in Piece, NEW i \in DOMAIN content,
         content[i] = text
  PROVE  Has(content, text) /\ content # NoFile
BY NoFileAssumption DEF Has

(* An operation that is not refused leaves its text in its file. *)
LEMMA WritesText ==
  ASSUME NEW fs \in [File -> Content], NEW op \in Op, Refusal(op, fs[op.path]) = "none"
  PROVE  Has(Perform(fs, op)[op.path], op.text) /\ Perform(fs, op)[op.path] # NoFile
<1> DEFINE content == fs[op.path]
           new     == After(op, content)
<1>1. op.path \in File /\ op.text \in Piece /\ op.kind \in Kind /\ content \in Content
  BY DEF Op
<1>2. Perform(fs, op)[op.path] = new
  BY <1>1 DEF Perform
<1>3. CASE op.kind = "AppendFile"
  <2>1. content \in Seq(Piece)
    BY <1>1, <1>3 DEF Refusal, Content
  <2>2. new = Append(content, op.text)
    BY <1>3 DEF After
  <2> HIDE DEF content, new
  <2>3. new \in Seq(Piece) /\ Len(content) + 1 \in DOMAIN new /\ new[Len(content) + 1] = op.text
    BY <1>1, <2>1, <2>2
  <2> QED BY <1>1, <1>2, <2>3, HasLocal
<1>4. CASE op.kind = "ReplaceExactText"
  <2>1. content # NoFile /\ Matches(op, content) # {}
    BY <1>4 DEF Refusal
  <2>2. content \in Seq(Piece)
    BY <1>1, <2>1 DEF Content
  <2>3. PICK i \in DOMAIN content : content[i] = op.find
    BY <2>1 DEF Matches
  <2>4. new = [j \in DOMAIN content |-> IF content[j] = op.find THEN op.text ELSE content[j]]
    BY <1>4 DEF After
  <2> HIDE DEF content, new
  <2>5. DOMAIN content = 1 .. Len(content) /\ Len(content) \in Nat
    BY <2>2
  <2>6. new \in [1 .. Len(content) -> Piece]
    BY <1>1, <2>2, <2>4, <2>5
  <2>7. new \in Seq(Piece) /\ i \in DOMAIN new /\ new[i] = op.text
    BY <2>3, <2>4, <2>5, <2>6
  <2> QED BY <1>1, <1>2, <2>7, HasLocal
<1>5. CASE op.kind \notin {"AppendFile", "ReplaceExactText"}
  <2>1. new = <<op.text>>
    BY <1>5 DEF After
  <2> HIDE DEF new
  <2>2. new \in Seq(Piece) /\ 1 \in DOMAIN new /\ new[1] = op.text
    BY <1>1, <2>1
  <2> QED BY <1>1, <1>2, <2>2, HasLocal
<1> QED BY <1>3, <1>4, <1>5

(* A problem whose repair is in the planned file is gone, but for a nested module. *)
Settled(k, fs, bd) ==
  ~ Detects(k, fs, bd, "docs") \/ (k = "CargoCheckFailure" /\ bd = "needs nested")

LEMMA TextSettles ==
  ASSUME NEW k \in Problem, NEW fs, NEW bd, fs[Planned[k]] # NoFile,
         Has(fs[Planned[k]], Written[k])
  PROVE  Settled(k, fs, bd)
<1>1. CASE k = "CargoCheckFailure"  BY <1>1 DEF Settled, Detects, Planned, CheckFails
<1>2. CASE k = "MissingCi"  BY <1>2 DEF Settled, Detects, Planned
<1>3. CASE k = "MissingClippyCi"  BY <1>3 DEF Settled, Detects, Planned, Written
<1>4. CASE k = "MissingSmokeTest"  BY <1>4 DEF Settled, Detects, Planned
<1>5. CASE k = "MissingReadmeValidation"  BY <1>5 DEF Settled, Detects, Planned, Written
<1>6. CASE k = "MissingReadmeUsageSection"  BY <1>6 DEF Settled, Detects, Planned, Written
<1>7. CASE k = "MissingGitignoreTarget"  BY <1>7 DEF Settled, Detects, Planned, Written
<1> QED BY <1>1, <1>2, <1>3, <1>4, <1>5, <1>6, <1>7, ProblemCases

-----------------------------------------------------------------------------
(* A command that alone changed its planned file since it looked: its problem is
   there until it repairs it, and gone from then on. *)
Kept(c, fs, bd) ==
  /\ c.step = "propose" /\ c.alone => Detects(c.problem, fs, bd, c.request.only)
  /\ c.step = "apply" /\ c.alone /\ c.proposal.rules =>
       /\ Len(c.proposal.ops) = 1
       /\ c.proposal.ops[1].path = Planned[c.problem]
       /\ c.proposal.ops[1].text = Written[c.problem]
       /\ c.next > 1 => Settled(c.problem, fs, bd)
  /\ c.step = "validate" /\ c.alone /\ c.rules => Settled(c.problem, fs, bd)

AloneInv == \A p \in Proc : Kept(proc[p], files, build)

LEMMA IdleKept ==
  ASSUME NEW fs, NEW bd PROVE Kept(Idle, fs, bd)
BY DEF Kept, Idle

(* What others do to another file, or to their own, takes nothing away. *)
LEMMA ToldKept ==
  ASSUME NEW c \in Commands, NEW path \in File, NEW fs, NEW gs, NEW bd, NEW ce,
         Kept(c, fs, bd), \A f \in File : f # path => gs[f] = fs[f],
         path # "module" => ce = bd
  PROVE  Kept(Told(c, path), gs, ce)
<1>1. CASE c.step = "idle"
  BY <1>1 DEF Told, Kept
<1>0. c.step # "idle" => c \in Pending \/ c \in Applying \/ c \in Validated
  <2>1. Idle.step = "idle"
    BY DEF Idle
  <2> QED BY <2>1 DEF Commands
<1>2. CASE c.step # "idle" /\ path = Planned[c.problem]
  <2>1. Told(c, path).alone = FALSE
    <3>1. CASE c \in Pending  BY <1>2, <3>1 DEF Told, Pending
    <3>2. CASE c \in Applying  BY <1>2, <3>2 DEF Told, Applying
    <3>3. CASE c \in Validated  BY <1>2, <3>3 DEF Told, Validated
    <3> QED BY <1>0, <1>2, <3>1, <3>2, <3>3
  <2> QED BY <2>1 DEF Kept
<1>3. CASE c.step # "idle" /\ path # Planned[c.problem]
  <2>1. Told(c, path) = c
    BY <1>3 DEF Told
  <2>2. c.problem \in Problem
    <3>1. CASE c \in Pending  BY <3>1 DEF Pending
    <3>2. CASE c \in Applying  BY <3>2 DEF Applying
    <3>3. CASE c \in Validated  BY <3>3 DEF Validated
    <3> QED BY <1>0, <1>3, <3>1, <3>2, <3>3
  <2>3. Planned[c.problem] \in File
    BY <2>2, RepairIsOp DEF Op
  <2>4. gs[Planned[c.problem]] = fs[Planned[c.problem]]
    BY <1>3, <2>3
  <2>5. c.problem = "CargoCheckFailure" => bd = ce
    BY <1>3 DEF Planned
  <2>6. \A only : Detects(c.problem, fs, bd, only) <=> Detects(c.problem, gs, ce, only)
    BY <2>2, <2>4, <2>5, DetectsLocally
  <2>7. Settled(c.problem, fs, bd) => Settled(c.problem, gs, ce)
    BY <2>5, <2>6 DEF Settled
  <2> QED BY <2>1, <2>6, <2>7 DEF Kept
<1> QED BY <1>1, <1>2, <1>3

-----------------------------------------------------------------------------
LEMMA DetectAlone ==
  ASSUME Inv, AloneInv, NEW p \in Proc, NEW request \in Request, Detect(p, request)
  PROVE  AloneInv'
<1> DEFINE new(k) == [step |-> "propose", request |-> request, problem |-> k, alone |-> TRUE]
<1>1. files' = files /\ build' = build
  BY DEF Detect
<1>2. \A k \in Selected(files, build, request.only) : Detects(k, files, build, request.only)
  BY DEF Selected
<1>3. \A k : /\ new(k).step = "propose" /\ new(k).problem = k
             /\ new(k).request = request
  OBVIOUS
<1>4. \/ proc' = proc
      \/ \E k \in Selected(files, build, request.only) : proc' = [proc EXCEPT ![p] = new(k)]
  BY DEF Detect, Become
<1> HIDE DEF new
<1>5. \A k \in Selected(files, build, request.only) : Kept(new(k), files, build)
  BY <1>2, <1>3 DEF Kept
<1> QED BY <1>1, <1>4, <1>5 DEF AloneInv, Inv, TypeOK

LEMMA ProposeAlone ==
  ASSUME Inv, AloneInv, NEW p \in Proc, NEW reply \in Reply \cup {NoReply}, Propose(p, reply)
  PROVE  AloneInv'
<1> DEFINE c        == proc[p]
           op       == Repair(c.problem, files)
           proposal == ProposalFrom(reply, c.problem, files)
           new      == [step |-> "apply", apply |-> c.request.apply, problem |-> c.problem,
                        alone |-> c.alone, proposal |-> proposal, next |-> 1]
<1>1. files' = files /\ build' = build
  BY DEF Propose
<1>2. proc' = [proc EXCEPT ![p] = Idle] \/ proc' = [proc EXCEPT ![p] = new]
  BY DEF Propose, Finish, Become
<1>3. proposal.rules =>
        /\ Len(proposal.ops) = 1
        /\ proposal.ops[1].path = Planned[c.problem] /\ proposal.ops[1].text = Written[c.problem]
  <2>1. op.path = Planned[c.problem] /\ op.text = Written[c.problem]
    BY DEF Repair
  <2>2. proposal.rules => proposal.ops = <<op>>
    BY DEF ProposalFrom, RuleBased
  <2> HIDE DEF op, proposal
  <2> QED BY <2>1, <2>2
<1>4. /\ new.step = "apply" /\ new.problem = c.problem /\ new.proposal = proposal
      /\ new.next = 1
  OBVIOUS
<1> HIDE DEF new, proposal
<1>5. Kept(new, files, build)
  BY <1>3, <1>4 DEF Kept
<1> QED BY <1>1, <1>2, <1>5, IdleKept DEF AloneInv, Inv, TypeOK

LEMMA ApplyOpAlone ==
  ASSUME Inv, AloneInv, NEW p \in Proc, ApplyOp(p)
  PROVE  AloneInv'
<1> DEFINE c  == proc[p]
           op == c.proposal.ops[c.next]
           on == [c EXCEPT !.next = @ + 1]
<1>1. c \in Applying /\ build' = build
  BY StepOf DEF ApplyOp, At, Inv, TypeOK
<1>2. c.proposal.ops \in Seq(Op) /\ c.next \in Nat \ {0} /\ c.problem \in Problem
  BY <1>1 DEF Applying, Proposals
<1>3. c.next <= Len(c.proposal.ops) /\ c.next \in DOMAIN c.proposal.ops /\ op \in Op
  BY <1>2 DEF ApplyOp
<1>4. op.path \in File
  BY <1>3 DEF Op
<1>5. CASE Refusal(op, files[op.path]) = "none"
  <2>1. /\ files' = Perform(files, op)
        /\ proc' = [q \in Proc |-> IF q = p THEN on ELSE Told(proc[q], op.path)]
    BY <1>5 DEF ApplyOp
  <2>2. \A f \in File : f # op.path => files'[f] = files[f]
    BY <1>4, <2>1 DEF Perform, Inv, TypeOK
  <2>3. /\ on.step = "apply" /\ on.problem = c.problem /\ on.proposal = c.proposal
        /\ on.alone = c.alone
    BY <1>1 DEF Applying
  <2>4. Kept(on, files', build')
    <3> SUFFICES ASSUME c.alone, c.proposal.rules
                 PROVE  /\ Len(c.proposal.ops) = 1
                        /\ c.proposal.ops[1].path = Planned[c.problem]
                        /\ c.proposal.ops[1].text = Written[c.problem]
                        /\ Settled(c.problem, files', build')
      <4> HIDE DEF on, c
      <4> QED BY <2>3 DEF Kept
    <3>1. /\ Len(c.proposal.ops) = 1 /\ c.proposal.ops[1].path = Planned[c.problem]
          /\ c.proposal.ops[1].text = Written[c.problem]
      BY <1>1 DEF AloneInv, Kept, Applying
    <3>2. op = c.proposal.ops[1]
      BY <1>2, <1>3, <3>1
    <3>3. Has(files'[op.path], op.text) /\ files'[op.path] # NoFile
      BY <1>3, <1>5, <2>1, WritesText DEF Inv, TypeOK
    <3>4. op.path = Planned[c.problem] /\ op.text = Written[c.problem]
      BY <3>1, <3>2
    <3> HIDE DEF op
    <3>5. Settled(c.problem, files', build')
      BY <1>2, <3>3, <3>4, TextSettles
    <3> QED BY <3>1, <3>5
  <2>5. \A q \in Proc : q # p => Kept(Told(proc[q], op.path), files', build')
    <3> TAKE q \in Proc
    <3>1. proc[q] \in Commands /\ Kept(proc[q], files, build)
      BY DEF Inv, TypeOK, AloneInv
    <3> HIDE DEF op
    <3> QED BY <1>1, <1>4, <2>2, <3>1, ToldKept
  <2> HIDE DEF on, op
  <2> QED BY <2>1, <2>4, <2>5 DEF AloneInv
<1>6. CASE Refusal(op, files[op.path]) # "none"
  <2>1. files' = files /\ proc' = [proc EXCEPT ![p] = Idle]
    BY <1>6 DEF ApplyOp, Finish, Become
  <2> QED BY <1>1, <2>1, IdleKept DEF AloneInv, Inv, TypeOK
<1> QED BY <1>5, <1>6

LEMMA FailOpAlone ==
  ASSUME Inv, AloneInv, NEW p \in Proc, FailOp(p)
  PROVE  AloneInv'
<1>1. CASE files' = files /\ proc' = [proc EXCEPT ![p] = Idle]
  BY <1>1, FailOpCases, IdleKept DEF AloneInv, Inv, TypeOK
<1>2. ASSUME NEW path \in File, files' = [files EXCEPT ![path] = << >>],
             proc' = [q \in Proc |-> IF q = p THEN Idle ELSE Told(proc[q], path)]
      PROVE  AloneInv'
  <2>1. \A f \in File : f # path => files'[f] = files[f]
    BY <1>2 DEF Inv, TypeOK
  <2>2. ASSUME NEW q \in Proc PROVE Kept(Told(proc[q], path), files', build')
    <3>1. proc[q] \in Commands /\ Kept(proc[q], files, build) /\ build' = build
      BY FailOpCases DEF Inv, TypeOK, AloneInv
    <3> QED BY <2>1, <3>1, ToldKept
  <2>3. Kept(Idle, files', build')
    BY IdleKept
  <2> QED BY <1>2, <2>2, <2>3 DEF AloneInv
<1> QED BY <1>1, <1>2, FailOpCases

LEMMA ValidateBeginAlone ==
  ASSUME Inv, AloneInv, NEW p \in Proc, ValidateBegin(p)
  PROVE  AloneInv'
<1> DEFINE c   == proc[p]
           new == [step |-> "validate", problem |-> c.problem, alone |-> c.alone,
                   rules |-> c.proposal.rules, changed |-> PathsOf(c.proposal.ops),
                   before |-> Status(lock), lock |-> lock]
<1>1. c \in Applying /\ files' = files /\ build' = build
  BY StepOf DEF ValidateBegin, At, Inv, TypeOK
<1>2. c.next \in Nat /\ c.next > Len(c.proposal.ops) /\ Kept(c, files, build) /\ c.step = "apply"
  BY <1>1 DEF ValidateBegin, Applying, AloneInv
<1>3. /\ new.step = "validate" /\ new.problem = c.problem /\ new.alone = c.alone
      /\ new.rules = c.proposal.rules
  OBVIOUS
<1>4. proc' = [proc EXCEPT ![p] = new]
  BY DEF ValidateBegin, Become
<1> HIDE DEF new
<1>5. Kept(new, files, build)
  BY <1>2, <1>3 DEF Kept
<1> QED BY <1>1, <1>4, <1>5 DEF AloneInv, Inv, TypeOK

LEMMA DevelopAlone ==
  ASSUME Inv, AloneInv, Develop
  PROVE  AloneInv'
<1>1. PICK path \in File :
        /\ proc' = [q \in Proc |-> Told(proc[q], path)]
        /\ \A f \in File : f # path => files'[f] = files[f]
        /\ path # "module" => build' = build
  <2>1. CASE \E e \in DevEdits : /\ files' = [files EXCEPT ![e.path] = e.content]
                                 /\ proc' = [q \in Proc |-> Told(proc[q], e.path)]
                                 /\ build' = build
    BY <2>1, FixAssumption DEF Inv, TypeOK
  <2>2. CASE proc' = [q \in Proc |-> Told(proc[q], "module")] /\ files' = files
    BY <2>2 DEF File
  <2> QED BY <2>1, <2>2 DEF Develop
<1>2. \A q \in Proc : proc[q] \in Commands /\ Kept(proc[q], files, build)
  BY DEF Inv, TypeOK, AloneInv
<1>3. \A q \in Proc : Kept(Told(proc[q], path), files', build')
  BY <1>1, <1>2, ToldKept
<1> QED BY <1>1, <1>3 DEF AloneInv

LEMMA NextAlone == Inv /\ AloneInv /\ [Next]_vars => AloneInv'
<1> SUFFICES ASSUME Inv, AloneInv, [Next]_vars PROVE AloneInv'
  OBVIOUS
<1>1. CASE UNCHANGED vars
  BY <1>1 DEF vars, AloneInv
<1>2. ASSUME NEW p \in Proc, ValidateEnd(p) PROVE AloneInv'
  BY <1>2, IdleKept DEF ValidateEnd, Finish, Become, AloneInv, Inv, TypeOK
<1>3. CASE Next
  BY <1>2, <1>3, DetectAlone, ProposeAlone, ApplyOpAlone, FailOpAlone, ValidateBeginAlone, DevelopAlone
  DEF Next
<1> QED BY <1>1, <1>3

LEMMA InitAlone == Init => AloneInv
BY IdleKept DEF Init, AloneInv

-----------------------------------------------------------------------------
(* What the dry run holds against a repair of the rules *)

LEMMA ForeseenNone ==
  ASSUME NEW op, NEW content,
         \/ op.kind = "ReplaceExactText" /\ content # NoFile /\ Cardinality(Matches(op, content)) = 1
         \/ op.kind = "CreateFile" /\ content = NoFile
         \/ op.kind = "AppendFile" /\ content # NoFile
  PROVE  Foreseen(op, content) = "none"
<1>1. Cardinality(Matches(op, content)) = 1 => Matches(op, content) # {}
  BY FS_EmptySet
<1> QED BY <1>1 DEF Foreseen, Refusal

(* It finds nothing in the repair of a problem that is there, unless it is hopeless. *)
LEMMA RepairForeseen ==
  ASSUME Inv, NEW k \in Problem, NEW only, Detects(k, files, build, only), ~ Hopeless(k)
  PROVE  Foreseen(Repair(k, files), files[Planned[k]]) = "none"
<1> DEFINE op      == Repair(k, files)
           content == files[Planned[k]]
<1>1. op.kind = RepairKind(k, files) /\ op.find = "test step"
  BY DEF Repair
<1>2. ASSUME k = "MissingClippyCi"
      PROVE  op.kind = "ReplaceExactText" /\ content # NoFile /\ Cardinality(Matches(op, content)) = 1
  <2>1. content # NoFile /\ content = files["workflow"] /\ op.kind = "ReplaceExactText"
    BY <1>1, <1>2 DEF Detects, Planned, RepairKind
  <2>2. Matches(op, content) = {i \in DOMAIN files["workflow"] : files["workflow"][i] = "test step"}
    <3> HIDE DEF op
    <3> QED BY <1>1, <2>1 DEF Matches
  <2>3. Cardinality({i \in DOMAIN files["workflow"] : files["workflow"][i] = "test step"}) = 1
    BY <1>2 DEF Hopeless
  <2> QED BY <2>1, <2>2, <2>3, Zenon
<1>3. ASSUME k \in {"CargoCheckFailure", "MissingCi", "MissingSmokeTest"}
      PROVE  op.kind = "CreateFile" /\ content = NoFile
  <2>1. RepairKind(k, files) = "CreateFile"
    BY <1>3 DEF RepairKind, Planned
  <2>2. CASE k = "CargoCheckFailure"
    <3>1. content = NoFile
      BY <2>2 DEF Hopeless, Planned
    <3> QED BY <1>1, <2>1, <3>1
  <2>3. CASE k = "MissingCi"
    <3>1. content = NoFile
      BY <2>3 DEF Detects, Planned
    <3> QED BY <1>1, <2>1, <3>1
  <2>4. CASE k = "MissingSmokeTest"
    <3>1. content = NoFile
      BY <2>4 DEF Detects, Planned
    <3> QED BY <1>1, <2>1, <3>1
  <2> QED BY <1>3, <2>2, <2>3, <2>4
<1>4. ASSUME k \in {"MissingReadmeValidation", "MissingReadmeUsageSection"}
      PROVE  \/ op.kind = "CreateFile" /\ content = NoFile
             \/ op.kind = "AppendFile" /\ content # NoFile
  <2>1. RepairKind(k, files) = IF content # NoFile THEN "AppendFile" ELSE "CreateFile"
    BY <1>4 DEF RepairKind, Planned
  <2> QED BY <1>1, <2>1
<1>5. \/ k = "MissingClippyCi" \/ k \in {"CargoCheckFailure", "MissingCi", "MissingSmokeTest"}
      \/ k \in {"MissingReadmeValidation", "MissingReadmeUsageSection"}
  BY ProblemCases DEF Hopeless
<1> HIDE DEF op, content
<1>6. Foreseen(op, content) = "none"
  BY <1>2, <1>3, <1>4, <1>5, ForeseenNone
<1> QED BY <1>6 DEF op, content

(* So a repair of the rules that is blocked is a hopeless one, or no file was allowed. *)
LEMMA BlockedIsHopeless ==
  ASSUME Inv, NEW k \in Problem, NEW request \in Request, request.max > 0,
         Detects(k, files, build, request.only),
         Blockers(RuleBased(k, files), request, files) # {}
  PROVE  Hopeless(k)
<1> DEFINE op == Repair(k, files)
<1>1. op \in Op /\ op.path = Planned[k]
  BY RepairIsOp
<1>2. RuleBased(k, files) = [files |-> <<op.path>>, ops |-> <<op>>, rules |-> TRUE]
  BY DEF RuleBased
<1>3. /\ RuleBased(k, files).ops = <<op>>
      /\ Len(RuleBased(k, files).files) = 1
  <2> HIDE DEF op
  <2> QED BY <1>2
<1>4. request.max \in Nat
  BY FixAssumption
<1>5. Simulated(<<op>>, files) # {}
  <2> HIDE DEF op
  <2> QED BY <1>3, <1>4 DEF Blockers
<1>6. PathsOf(<<op>>) = {Planned[k]}
  <2> HIDE DEF op
  <2> QED BY <1>1 DEF PathsOf
<1>7. DryRunBlockers(files, <<op>>) = {Foreseen(op, files[Planned[k]])} \ {"none"}
  <2> HIDE DEF op
  <2> QED BY <1>1 DEF DryRunBlockers
<1>8. CASE Planned[k] \notin Patchable
  <2>1. Planned[k] = "gitignore"
    BY <1>1, <1>8 DEF Op, Patchable
  <2>2. k = "MissingGitignoreTarget"
    BY <2>1, ProblemCases DEF Planned
  <2> QED BY <2>2 DEF Hopeless
<1>9. CASE Planned[k] \in Patchable
  <2>1. Foreseen(op, files[Planned[k]]) # "none"
    <3> HIDE DEF op
    <3> QED BY <1>5, <1>6, <1>7, <1>9 DEF Simulated
  <2> QED BY <2>1, RepairForeseen
<1> QED BY <1>8, <1>9

(* The second part of RepairSettles. *)
BlockedInv ==
  last.status \in {"Blocked", "DryRunFailed"} /\ last.rules /\ last.alone /\ last.max > 0
    => Hopeless(last.problem) /\ Detects(last.problem, files, build, last.only)

LEMMA ProposeBlocked ==
  ASSUME Inv, AloneInv, NEW p \in Proc, NEW reply \in Reply \cup {NoReply}, Propose(p, reply)
  PROVE  BlockedInv'
<1> DEFINE c        == proc[p]
           proposal == ProposalFrom(reply, c.problem, files)
           blockers == Blockers(proposal, c.request, files)
           out      == [status |-> CASE c.request.apply -> "Blocked"
                                     [] blockers = {}   -> "ProposalCreated"
                                     [] OTHER           -> "DryRunFailed",
                        problem |-> c.problem, alone |-> c.alone, rules |-> proposal.rules,
                        only |-> c.request.only, max |-> c.request.max]
<1>1. c \in Pending /\ files' = files /\ build' = build
  BY StepOf DEF Propose, At, Inv, TypeOK
<1>2. c.problem \in Problem /\ c.request \in Request /\ c.step = "propose"
  BY <1>1 DEF Pending
<1>3. c.alone => Detects(c.problem, files, build, c.request.only)
  BY <1>2 DEF AloneInv, Kept
<1>4. proposal.rules => proposal = RuleBased(c.problem, files)
  <2>1. \/ proposal = RuleBased(c.problem, files)
        \/ proposal = [files |-> reply.files, ops |-> reply.ops, rules |-> FALSE]
    BY DEF ProposalFrom
  <2> HIDE DEF proposal
  <2> QED BY <2>1
<1>5. \/ last' = Nothing
      \/ last' = out /\ ~ (c.request.apply /\ blockers = {})
  BY DEF Propose
<1>6. /\ out.problem = c.problem /\ out.alone = c.alone /\ out.rules = proposal.rules
      /\ out.only = c.request.only /\ out.max = c.request.max
      /\ out.status \in {"Blocked", "DryRunFailed"} => c.request.apply \/ blockers # {}
  <2> HIDE DEF proposal, blockers, c
  <2> QED OBVIOUS
<1> HIDE DEF out
<1>7. CASE last' = out /\ ~ (c.request.apply /\ blockers = {})
  <2>1. PICK k, only : k = c.problem /\ only = c.request.only
    OBVIOUS
  <2>2. last'.problem = k /\ last'.only = only
    BY <1>6, <1>7, <2>1
  <2>3. ASSUME out.status \in {"Blocked", "DryRunFailed"}, out.rules, out.alone, out.max > 0
        PROVE  Hopeless(k) /\ Detects(k, files, build, only)
    <3>1. proposal.rules /\ c.alone /\ c.request.max > 0 /\ blockers # {}
      <4> HIDE DEF proposal, blockers
      <4> QED BY <1>6, <1>7, <2>3
    <3>2. Detects(c.problem, files, build, c.request.only)
      BY <1>3, <3>1
    <3>3. Blockers(RuleBased(c.problem, files), c.request, files) # {}
      BY <1>4, <3>1
    <3>4. Hopeless(c.problem)
      BY <1>2, <3>1, <3>2, <3>3, BlockedIsHopeless
    <3> QED BY <2>1, <3>2, <3>4
  <2>4. ASSUME last'.status \in {"Blocked", "DryRunFailed"}, last'.rules, last'.alone, last'.max > 0
        PROVE  Hopeless(k)' /\ Detects(k, files', build', only)
    <3>1. Hopeless(k) /\ Detects(k, files, build, only)
      BY <1>7, <2>3, <2>4
    <3> QED BY <1>1, <3>1 DEF Hopeless
  <2>5. Hopeless(last.problem)' <=> Hopeless(k)'
    BY <2>2 DEF Hopeless
  <2>6. Detects(last.problem, files, build, last.only)' <=> Detects(k, files', build', only)
    BY <2>2
  <2> QED BY <2>4, <2>5, <2>6 DEF BlockedInv
<1>8. CASE last' = Nothing
  BY <1>8 DEF BlockedInv, Nothing
<1> QED BY <1>5, <1>7, <1>8

(* No other step ends a command so. *)
LEMMA NextBlocked == Inv /\ AloneInv /\ BlockedInv /\ [Next]_vars => BlockedInv'
<1> SUFFICES ASSUME Inv, AloneInv, BlockedInv, [Next]_vars PROVE BlockedInv'
  OBVIOUS
<1>1. CASE UNCHANGED vars
  BY <1>1 DEF vars, BlockedInv, Hopeless
<1>2. ASSUME last'.status \notin {"Blocked", "DryRunFailed"} PROVE BlockedInv'
  BY <1>2 DEF BlockedInv
<1>3. ASSUME NEW p \in Proc, NEW request \in Request, Detect(p, request) PROVE BlockedInv'
  <2>1. last' = Nothing \/ last' = [status |-> "NoActionableProblem"]
    BY <1>3 DEF Detect
  <2> QED BY <1>2, <2>1 DEF Nothing
<1>4. ASSUME NEW p \in Proc, ApplyOp(p) PROVE BlockedInv'
  <2>1. last'.status \in {"wrote", "stopped"}
    <3>1. \/ \E a, k, f : last' = [status |-> "wrote", apply |-> a, problem |-> k, path |-> f]
          \/ \E o, b : last' = [status |-> "stopped", ops |-> o, alone |-> b]
      BY <1>4, Zenon DEF ApplyOp
    <3> QED BY <3>1
  <2> QED BY <1>2, <2>1
<1>5. ASSUME NEW p \in Proc, FailOp(p) \/ ValidateBegin(p) PROVE BlockedInv'
  BY <1>2, <1>5 DEF FailOp, ValidateBegin, Nothing
<1>6. ASSUME NEW p \in Proc, ValidateEnd(p) PROVE BlockedInv'
  <2>1. PICK verdict, effects :
          last' = [status |-> IF verdict = "passed" THEN "ValidationPassed" ELSE "ValidationFailed",
                   lock |-> proc[p].lock, listed |-> proc[p].before, effects |-> effects]
    BY <1>6 DEF ValidateEnd
  <2>2. last'.status \in {"ValidationPassed", "ValidationFailed"}
    BY <2>1
  <2> QED BY <1>2, <2>2
<1>7. CASE Develop
  BY <1>2, <1>7 DEF Develop, Nothing
<1>8. CASE Next
  BY <1>3, <1>4, <1>5, <1>6, <1>7, <1>8, ProposeBlocked DEF Next
<1> QED BY <1>1, <1>8

LEMMA InitBlocked == Init => BlockedInv
BY DEF Init, BlockedInv, Nothing

(* What a run settles by the rules (build_rule_based_fix_proposal) when nobody interferes,
   and what it leaves to hide the problems behind it: exactly the module missed in a nested
   one, .gitignore, and a workflow without one test step (detect_problem, simulate_fix). *)
THEOREM RepairsSettle == Spec => []RepairSettles
<1>1. Inv /\ AloneInv /\ BlockedInv => RepairSettles
  <2> SUFFICES ASSUME Inv, AloneInv, BlockedInv, NEW p \in Proc,
                      At(p, "validate"), proc[p].rules, proc[p].alone
               PROVE  Detects(proc[p].problem, files, build, "docs")
                        <=> proc[p].problem = "CargoCheckFailure" /\ build = "needs nested"
    BY DEF BlockedInv, RepairSettles
  <2>1. Settled(proc[p].problem, files, build)
    BY DEF AloneInv, Kept, At
  <2>2. proc[p].problem = "CargoCheckFailure" /\ build = "needs nested"
          => Detects(proc[p].problem, files, build, "docs")
    BY DEF Detects, CheckFails
  <2> QED BY <2>1, <2>2 DEF Settled
<1> QED BY <1>1, InitInv, NextInv, InitAlone, NextAlone, InitBlocked, NextBlocked, PTL DEF Spec

-----------------------------------------------------------------------------
(* What the dry run foresaw *)

(* A proposal without blockers has operations none of which is refused on the files it
   was tried on: the dry run sees more than an apply, never less. *)
LEMMA ForeseenAll ==
  ASSUME NEW proposal, NEW request, NEW fs, Blockers(proposal, request, fs) = {},
         NEW i \in DOMAIN proposal.ops
  PROVE  Refusal(proposal.ops[i], fs[proposal.ops[i].path]) = "none"
<1> DEFINE op == proposal.ops[i]
<1>1. DryRunBlockers(fs, proposal.ops) = {}
  BY DEF Blockers, Simulated
<1>2. Foreseen(op, fs[op.path]) = "none"
  BY <1>1 DEF DryRunBlockers
<1>3. "exact_text_not_found" # "none"
  OBVIOUS
<1> HIDE DEF op
<1> QED
  <2>1. Refusal(op, fs[op.path]) = "none"
    BY <1>2, <1>3 DEF Foreseen
  <2> QED BY <2>1 DEF op

(* A command that alone changed the file it repairs, with one operation a file, is refused
   none of the operations it has yet to perform. *)
Unrefused(c, fs) ==
  c.step = "apply" /\ c.alone /\ OnePerFile(c.proposal.ops) =>
    \A i \in DOMAIN c.proposal.ops :
      c.next <= i => Refusal(c.proposal.ops[i], fs[c.proposal.ops[i].path]) = "none"

ForeseenInv == \A p \in Proc : Unrefused(proc[p], files)

LEMMA IdleUnrefused ==
  ASSUME NEW fs PROVE Unrefused(Idle, fs)
BY DEF Unrefused, Idle

(* Others change another file, or the command knows. *)
LEMMA ToldUnrefused ==
  ASSUME NEW c \in Commands, NEW path \in File, NEW fs, NEW gs,
         c.step = "apply" => PathsOf(c.proposal.ops) \subseteq {Planned[c.problem]},
         Unrefused(c, fs), \A f \in File : f # path => gs[f] = fs[f]
  PROVE  Unrefused(Told(c, path), gs)
<1>1. CASE c.step # "apply"
  BY <1>1, ToldIsCommand DEF Unrefused
<1>2. CASE c.step = "apply" /\ path = Planned[c.problem]
  <2>1. c \in Applying
    BY <1>2, StepOf
  <2>2. Told(c, path).alone = FALSE
    BY <1>2, <2>1 DEF Told, Applying
  <2> QED BY <2>2 DEF Unrefused
<1>3. CASE c.step = "apply" /\ path # Planned[c.problem]
  <2>1. Told(c, path) = c /\ c \in Applying
    BY <1>3, StepOf DEF Told
  <2>2. c.problem \in Problem
    BY <2>1 DEF Applying
  <2>3. Planned[c.problem] \in File
    BY <2>2, RepairIsOp DEF Op
  <2>4. \A i \in DOMAIN c.proposal.ops : c.proposal.ops[i].path = Planned[c.problem]
    BY <1>3 DEF PathsOf
  <2>5. gs[Planned[c.problem]] = fs[Planned[c.problem]]
    BY <1>3, <2>3
  <2> QED BY <2>1, <2>4, <2>5 DEF Unrefused
<1> QED BY <1>1, <1>2, <1>3

-----------------------------------------------------------------------------
LEMMA ProposeForeseen ==
  ASSUME Inv, ForeseenInv, NEW p \in Proc, NEW reply \in Reply \cup {NoReply},
         Propose(p, reply)
  PROVE  ForeseenInv' /\ StopsOnlyByRace'
<1> DEFINE c        == proc[p]
           proposal == ProposalFrom(reply, c.problem, files)
           new      == [step |-> "apply", apply |-> c.request.apply, problem |-> c.problem,
                        alone |-> c.alone, proposal |-> proposal, next |-> 1]
<1>1. files' = files
  BY DEF Propose
<1>2. \/ proc' = [proc EXCEPT ![p] = Idle] /\ last'.status \in {"Blocked", "ProposalCreated", "DryRunFailed"}
      \/ /\ proc' = [proc EXCEPT ![p] = new] /\ last' = Nothing
         /\ Blockers(proposal, c.request, files) = {}
  <2>1. CASE c.request.apply /\ Blockers(proposal, c.request, files) = {}
    BY <2>1 DEF Propose, Become
  <2>2. CASE ~ (c.request.apply /\ Blockers(proposal, c.request, files) = {})
    BY <2>2 DEF Propose, Finish, Become
  <2> QED BY <2>1, <2>2
<1>3. new.proposal = proposal
  OBVIOUS
<1> HIDE DEF new, proposal
<1>4. Blockers(proposal, c.request, files) = {} => Unrefused(new, files)
  BY <1>3, ForeseenAll DEF Unrefused
<1>5. ForeseenInv'
  BY <1>1, <1>2, <1>4, IdleUnrefused DEF ForeseenInv, Inv, TypeOK
<1>6. StopsOnlyByRace'
  BY <1>2 DEF StopsOnlyByRace, Nothing
<1> QED BY <1>5, <1>6

LEMMA ApplyOpForeseen ==
  ASSUME Inv, ForeseenInv, NEW p \in Proc, ApplyOp(p)
  PROVE  ForeseenInv' /\ StopsOnlyByRace'
<1> DEFINE c  == proc[p]
           op == c.proposal.ops[c.next]
           on == [c EXCEPT !.next = @ + 1]
<1>1. c \in Applying /\ c.step = "apply" /\ Unrefused(c, files)
  BY StepOf DEF ApplyOp, At, Inv, TypeOK, ForeseenInv
<1>2. c.proposal.ops \in Seq(Op) /\ c.next \in Nat \ {0} /\ c.problem \in Problem
  BY <1>1 DEF Applying, Proposals
<1>3. c.next \in DOMAIN c.proposal.ops /\ op \in Op
  BY <1>2 DEF ApplyOp
<1>4. op.path \in File
  BY <1>3 DEF Op
<1>5. CASE Refusal(op, files[op.path]) = "none"
  <2>1. /\ files' = Perform(files, op)
        /\ proc' = [q \in Proc |-> IF q = p THEN on ELSE Told(proc[q], op.path)]
        /\ last'.status = "wrote"
    BY <1>5 DEF ApplyOp
  <2>2. \A f \in File : f # op.path => files'[f] = files[f]
    BY <1>4, <2>1 DEF Perform, Inv, TypeOK
  <2>3. /\ on.proposal = c.proposal /\ on.alone = c.alone /\ on.next = c.next + 1
    BY <1>1 DEF Applying
  <2>4. Unrefused(on, files')
    <3> SUFFICES ASSUME c.alone, OnePerFile(c.proposal.ops), NEW i \in DOMAIN c.proposal.ops,
                        c.next + 1 <= i
                 PROVE  Refusal(c.proposal.ops[i], files'[c.proposal.ops[i].path]) = "none"
      <4> HIDE DEF on, c
      <4> QED BY <2>3 DEF Unrefused
    <3>1. i \in Nat /\ c.next <= i /\ i # c.next
      BY <1>2
    <3>2. c.proposal.ops[i].path # op.path
      BY <1>3, <3>1 DEF OnePerFile
    <3>3. c.proposal.ops[i] \in Op
      BY <1>2
    <3>4. c.proposal.ops[i].path \in File
      BY <3>3 DEF Op
    <3>5. Refusal(c.proposal.ops[i], files[c.proposal.ops[i].path]) = "none"
      BY <1>1, <3>1 DEF Unrefused
    <3> HIDE DEF op, c
    <3> QED BY <2>2, <3>2, <3>4, <3>5
  <2>5. \A q \in Proc : q # p => Unrefused(Told(proc[q], op.path), files')
    <3> TAKE q \in Proc
    <3>1. proc[q] \in Commands /\ Unrefused(proc[q], files)
      BY DEF Inv, TypeOK, ForeseenInv
    <3>2. proc[q].step = "apply" => PathsOf(proc[q].proposal.ops) \subseteq {Planned[proc[q].problem]}
      BY DEF Inv, ScopeInv, At
    <3> HIDE DEF op
    <3> QED BY <1>4, <2>2, <3>1, <3>2, ToldUnrefused
  <2> HIDE DEF on, op
  <2>6. ForeseenInv'
    BY <2>1, <2>4, <2>5 DEF ForeseenInv
  <2>7. StopsOnlyByRace'
    BY <2>1 DEF StopsOnlyByRace
  <2> QED BY <2>6, <2>7
<1>6. CASE Refusal(op, files[op.path]) # "none"
  <2>1. /\ files' = files /\ proc' = [proc EXCEPT ![p] = Idle]
        /\ last' = [status |-> "stopped", ops |-> c.proposal.ops, alone |-> c.alone]
    BY <1>6 DEF ApplyOp, Finish, Become
  <2>2. ~ (c.alone /\ OnePerFile(c.proposal.ops))
    BY <1>1, <1>2, <1>3, <1>6 DEF Unrefused
  <2>3. ForeseenInv'
    BY <2>1, IdleUnrefused DEF ForeseenInv, Inv, TypeOK
  <2>4. StopsOnlyByRace'
    BY <2>1, <2>2 DEF StopsOnlyByRace
  <2> QED BY <2>3, <2>4
<1> QED BY <1>5, <1>6

LEMMA FailOpForeseen ==
  ASSUME Inv, ForeseenInv, NEW p \in Proc, FailOp(p)
  PROVE  ForeseenInv' /\ StopsOnlyByRace'
<1>1. ASSUME files' = files, proc' = [proc EXCEPT ![p] = Idle]
      PROVE  ForeseenInv'
  BY <1>1, IdleUnrefused DEF ForeseenInv, Inv, TypeOK
<1>2. ASSUME NEW path \in File, files' = [files EXCEPT ![path] = << >>],
             proc' = [q \in Proc |-> IF q = p THEN Idle ELSE Told(proc[q], path)]
      PROVE  ForeseenInv'
  <2>1. \A f \in File : f # path => files'[f] = files[f]
    BY <1>2 DEF Inv, TypeOK
  <2>2. ASSUME NEW q \in Proc PROVE Unrefused(Told(proc[q], path), files')
    <3>1. /\ proc[q] \in Commands /\ Unrefused(proc[q], files)
          /\ proc[q].step = "apply" => PathsOf(proc[q].proposal.ops) \subseteq {Planned[proc[q].problem]}
      BY DEF Inv, TypeOK, ForeseenInv, ScopeInv, At
    <3> QED BY <2>1, <3>1, ToldUnrefused
  <2>3. Unrefused(Idle, files')
    BY IdleUnrefused
  <2> QED BY <1>2, <2>2, <2>3 DEF ForeseenInv
<1>3. StopsOnlyByRace'
  BY FailOpCases DEF StopsOnlyByRace
<1> QED BY <1>1, <1>2, <1>3, FailOpCases

LEMMA DevelopForeseen ==
  ASSUME Inv, ForeseenInv, Develop
  PROVE  ForeseenInv' /\ StopsOnlyByRace'
<1>1. PICK path \in File :
        /\ proc' = [q \in Proc |-> Told(proc[q], path)]
        /\ \A f \in File : f # path => files'[f] = files[f]
  <2>1. CASE \E e \in DevEdits : /\ files' = [files EXCEPT ![e.path] = e.content]
                                 /\ proc' = [q \in Proc |-> Told(proc[q], e.path)]
    BY <2>1, FixAssumption DEF Inv, TypeOK
  <2>2. CASE proc' = [q \in Proc |-> Told(proc[q], "module")] /\ files' = files
    BY <2>2 DEF File
  <2> QED BY <2>1, <2>2 DEF Develop
<1>2. \A q \in Proc :
        /\ proc[q] \in Commands /\ Unrefused(proc[q], files)
        /\ proc[q].step = "apply" => PathsOf(proc[q].proposal.ops) \subseteq {Planned[proc[q].problem]}
  BY DEF Inv, TypeOK, ForeseenInv, ScopeInv, At
<1>3. ASSUME NEW q \in Proc PROVE Unrefused(Told(proc[q], path), files')
  <2>1. /\ proc[q] \in Commands /\ Unrefused(proc[q], files)
        /\ proc[q].step = "apply" => PathsOf(proc[q].proposal.ops) \subseteq {Planned[proc[q].problem]}
    BY <1>2
  <2>2. \A f \in File : f # path => files'[f] = files[f]
    BY <1>1
  <2> QED BY <2>1, <2>2, ToldUnrefused
<1>4. last' = Nothing
  BY DEF Develop
<1> QED BY <1>1, <1>3, <1>4 DEF ForeseenInv, StopsOnlyByRace, Nothing

(* The other steps change no file, and no command that applies. *)
LEMMA NextForeseen == Inv /\ ForeseenInv /\ StopsOnlyByRace /\ [Next]_vars => ForeseenInv' /\ StopsOnlyByRace'
<1> SUFFICES ASSUME Inv, ForeseenInv, StopsOnlyByRace, [Next]_vars
             PROVE  ForeseenInv' /\ StopsOnlyByRace'
  OBVIOUS
<1>1. CASE UNCHANGED vars
  BY <1>1 DEF vars, ForeseenInv, StopsOnlyByRace
<1>2. ASSUME NEW p \in Proc, files' = files, \A q \in Proc \ {p} : proc'[q] = proc[q],
             proc'[p].step # "apply", last'.status # "stopped"
      PROVE  ForeseenInv' /\ StopsOnlyByRace'
  BY <1>2 DEF ForeseenInv, StopsOnlyByRace, Unrefused
<1>3. ASSUME NEW p \in Proc, ValidateEnd(p) PROVE ForeseenInv' /\ StopsOnlyByRace'
  <2>1. last'.status # "stopped" /\ files' = files /\ proc' = [proc EXCEPT ![p] = Idle]
    BY <1>3 DEF ValidateEnd, Finish, Become
  <2>2. proc'[p].step # "apply" /\ \A q \in Proc \ {p} : proc'[q] = proc[q]
    BY <2>1 DEF Idle, Inv, TypeOK
  <2> QED BY <1>2, <2>1, <2>2
<1>4. ASSUME NEW p \in Proc, ValidateBegin(p) PROVE ForeseenInv' /\ StopsOnlyByRace'
  <2>1. last'.status # "stopped" /\ files' = files
    BY <1>4 DEF ValidateBegin, Nothing
  <2>2. proc'[p].step # "apply" /\ \A q \in Proc \ {p} : proc'[q] = proc[q]
    BY <1>4 DEF ValidateBegin, Become, Inv, TypeOK
  <2> QED BY <1>2, <2>1, <2>2
<1>5. ASSUME NEW p \in Proc, NEW request \in Request, Detect(p, request)
      PROVE  ForeseenInv' /\ StopsOnlyByRace'
  <2>1. last' = Nothing \/ last' = [status |-> "NoActionableProblem"]
    BY <1>5 DEF Detect
  <2>2. files' = files /\ last'.status # "stopped"
    BY <1>5, <2>1 DEF Detect, Nothing
  <2>3. CASE proc' = proc
    BY <2>2, <2>3 DEF ForeseenInv, StopsOnlyByRace
  <2>4. CASE proc' # proc
    <3>1. proc'[p].step # "apply" /\ \A q \in Proc \ {p} : proc'[q] = proc[q]
      BY <1>5, <2>4 DEF Detect, Become, Inv, TypeOK
    <3> QED BY <1>2, <2>2, <3>1
  <2> QED BY <2>3, <2>4
<1>6. CASE Next
  BY <1>3, <1>4, <1>5, <1>6, ProposeForeseen, ApplyOpForeseen, FailOpForeseen,
     DevelopForeseen DEF Next
<1> QED BY <1>1, <1>6

LEMMA InitForeseen == Init => ForeseenInv /\ StopsOnlyByRace
BY IdleUnrefused DEF Init, ForeseenInv, StopsOnlyByRace, Nothing

(* An apply (apply_fix_proposal, which keeps no snapshot) that stops after some of its
   operations met a file that others changed, or had two operations on one file, which
   simulate_fix tries on the file as it is: for any provider, developer and commands. *)
THEOREM StopsAlwaysByRace == Spec => []StopsOnlyByRace
BY InitInv, NextInv, InitForeseen, NextForeseen, PTL DEF Spec
=============================================================================
