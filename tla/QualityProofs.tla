--------------------------- MODULE QualityProofs ----------------------------
(***************************************************************************)
(* Theorems about the quality tools, for any operators, workers, arguments *)
(* and projects: the gate of the repair benchmark, the benchmark of        *)
(* repositories from GitHub, and the doctor beside the fix command.        *)
(***************************************************************************)
EXTENDS RepairBench, GithubBench, ExternalTrial, FiniteSetTheorems, TLAPS

-----------------------------------------------------------------------------
(* The gate *)

LEMMA RunsCount ==
  ASSUME NEW run \in AnyRun
  PROVE  run.passed \in Nat
  <1>1. PICK suite \in Suite, some \in Fit : run = RunOf(suite, some)
    BY DEF AnyRun
  <1>2. IsFiniteSet(CasesOf(suite))
    <2> DEFINE all == <<"missing_ci", "missing_smoke_test", "readme_missing_validation",
                        "simple_missing_module", "unknown_empty_project",
                        "missing_gitignore_target", "missing_clippy_ci",
                        "missing_readme_usage_section">>
               names == {all[i] : i \in 1 .. 8}
    <2>1. all \in Surjection(1 .. 8, names)
      BY DEF Surjection
    <2>2. IsFiniteSet(names)
      BY <2>1, FS_NatSurjection DEF ExistsSurjection
    <2>3. CasesOf(suite) \subseteq names
      BY DEF CasesOf, CaseOf
    <2>4. QED BY <2>2, <2>3, FS_Subset
  <1>3. \A cases \in SUBSET CasesOf(suite) : Cardinality(cases) \in Nat
    BY <1>2, FS_Subset, FS_CardinalityType
  <1>4. run.passed = Cardinality({case \in CasesOf(suite) :
                                    Classify(case, Outcome[case][some[case]]) = "passed"})
    BY <1>1 DEF RunOf
  <1>5. QED BY <1>3, <1>4

Baseline == AnyRun \cup {DefaultBaseline, Torn}

(* A command whose suite is not known has failed. *)
Requested == {request \in Requests : request.suite \in Suite}

BenchProc ==
  {Idle} \cup [step : {"cases"}, request : Requested, known : Nat, at : {0}, baseline : Baseline]
         \cup [step : {"append", "save", "judge"}, request : Requested, known : Nat, at : Nat,
               baseline : Baseline, run : AnyRun]

(* What a command was compared with was the latest run when it began. *)
Compares(files, request, known, baseline) ==
  /\ known <= Len(files)
  /\ request.baseline = "latest" /\ known # 0 => baseline = files[known]

IsAt(files, run, at) == at \in DOMAIN files /\ files[at] = run

BenchInv ==
  /\ fit \in Fit
  /\ saved \in Seq(AnyRun \cup {Torn})
  /\ latest = IF saved = <<>> THEN None ELSE saved[Len(saved)]
  /\ proc \in [Operator -> BenchProc]
  /\ \A p \in Operator : proc[p].step # "idle" =>
       /\ Compares(saved, proc[p].request, proc[p].known, proc[p].baseline)
       /\ proc[p].step = "judge" => IsAt(saved, proc[p].run, proc[p].at)
  /\ verdicts \in Seq([request : Requests, known : Nat, at : Nat, run : AnyRun,
                       status : {"passed", "warn", "failed"}])
  /\ \A i \in DOMAIN verdicts :
       LET verdict == verdicts[i] IN
       /\ IsAt(saved, verdict.run, verdict.at) /\ verdict.known <= Len(saved)
       /\ verdict.status = "passed" /\ verdict.request.baseline = "latest" /\ verdict.known # 0
            => \/ saved[verdict.known] = Torn
               \/ saved[verdict.known].passed <= verdict.run.passed

LEMMA InitBench == BenchInit => BenchInv
  <1> SUFFICES ASSUME BenchInit PROVE BenchInv
    OBVIOUS
  <1>1. Idle \in BenchProc /\ Idle.step = "idle"
    BY DEF BenchProc, Idle
  <1>2. \A S : <<>> \in Seq(S) /\ DOMAIN <<>> = {}
    OBVIOUS
  <1>3. QED BY <1>1, <1>2 DEF BenchInit, BenchInv

(* More is saved, and nothing before it is changed: all that was compared stands. *)
LEMMA SavesStand ==
  ASSUME BenchInv, NEW run \in AnyRun \cup {Torn}, saved' = Append(saved, run)
  PROVE  /\ saved' \in Seq(AnyRun \cup {Torn}) /\ saved' # <<>> /\ Len(saved') = Len(saved) + 1
         /\ saved'[Len(saved')] = run /\ Len(saved') \in DOMAIN saved'
         /\ \A k \in DOMAIN saved : k \in DOMAIN saved' /\ saved'[k] = saved[k]
         /\ \A request, baseline, known \in Nat :
              Compares(saved, request, known, baseline) => Compares(saved', request, known, baseline)
         /\ \A it, at : IsAt(saved, it, at) => IsAt(saved', it, at)
  <1>1. saved \in Seq(AnyRun \cup {Torn}) /\ Len(saved) \in Nat
    BY DEF BenchInv
  <1>2. /\ saved' \in Seq(AnyRun \cup {Torn}) /\ saved' # <<>> /\ Len(saved') = Len(saved) + 1
        /\ saved'[Len(saved')] = run /\ Len(saved') \in DOMAIN saved'
        /\ \A k \in DOMAIN saved : k \in DOMAIN saved' /\ saved'[k] = saved[k]
    BY <1>1
  <1>3. \A request, baseline, known \in Nat :
          Compares(saved, request, known, baseline) => Compares(saved', request, known, baseline)
    BY <1>1, <1>2 DEF Compares
  <1>4. \A it, at : IsAt(saved, it, at) => IsAt(saved', it, at)
    BY <1>2 DEF IsAt
  <1>5. QED BY <1>2, <1>3, <1>4

(* Nothing but the commands changes, or nothing that is compared. *)
LEMMA BenchBeginKeeps ==
  ASSUME BenchAssumption, BenchInv, NEW p \in Operator, BenchBegin(p)
  PROVE  BenchInv'
  <1> USE DEF BenchInv
  <1>0. /\ UNCHANGED <<history, latest, fit, saved, verdicts>>
        /\ Len(saved) \in Nat
    BY DEF BenchBegin
  <1>1. \A q \in Operator : UNCHANGED proc[q] \/ q = p
    BY DEF BenchBegin, Become
  <1>2. CASE proc' = [proc EXCEPT ![p] = Idle]
    BY <1>0, <1>2 DEF BenchProc, Idle, Compares, IsAt
  <1>3. CASE proc' # [proc EXCEPT ![p] = Idle]
    <2>0. PICK request \in Requested : \E baseline \in Baselines(request) :
            proc' = [proc EXCEPT ![p] = [step |-> "cases", request |-> request,
                       known |-> Len(saved), at |-> 0, baseline |-> baseline]]
      BY <1>3 DEF BenchBegin, Become, Fails, Requested
    <2>1. PICK baseline \in Baselines(request) :
            proc' = [proc EXCEPT ![p] = [step |-> "cases", request |-> request,
                       known |-> Len(saved), at |-> 0, baseline |-> baseline]]
      BY <2>0
    <2>2. baseline \in Baseline
      <3>1. latest # None => latest \in AnyRun \cup {Torn}
        BY <1>0
      <3>2. QED BY <3>1 DEF Baselines, Baseline
    <2>3. request.baseline = "latest" /\ Len(saved) # 0 => baseline = saved[Len(saved)]
      <3>1. SUFFICES ASSUME request.baseline = "latest", Len(saved) # 0
                     PROVE  baseline = saved[Len(saved)]
        OBVIOUS
      <3>2. saved[Len(saved)] \in AnyRun \cup {Torn} /\ latest = saved[Len(saved)]
        BY <3>1, <1>0
      <3>3. latest # None
        BY <3>2 DEF BenchAssumption, AnyRun
      <3>4. QED BY <3>1, <3>2, <3>3 DEF Baselines
    <2>4. PICK fresh : fresh = [step |-> "cases", request |-> request, known |-> Len(saved),
                                at |-> 0, baseline |-> baseline]
      OBVIOUS
    <2>5. fresh \in BenchProc /\ fresh.step = "cases" /\ Compares(saved, fresh.request, fresh.known,
                                                                 fresh.baseline)
      BY <1>0, <2>2, <2>3, <2>4 DEF BenchProc, Compares
    <2>6. proc' = [proc EXCEPT ![p] = fresh]
      BY <2>1, <2>4
    <2>7. proc' \in [Operator -> BenchProc]
      BY <2>5, <2>6
    <2>8. \A q \in Operator : proc'[q] = IF q = p THEN fresh ELSE proc[q]
      BY <2>6
    <2>9. \A q \in Operator : proc'[q].step # "idle" =>
            /\ Compares(saved, proc'[q].request, proc'[q].known, proc'[q].baseline)
            /\ proc'[q].step = "judge" => IsAt(saved, proc'[q].run, proc'[q].at)
      BY <2>5, <2>8
    <2>10. QED BY <1>0, <2>7, <2>9 DEF Compares, IsAt
  <1>4. QED BY <1>2, <1>3

LEMMA BenchCasesKeeps ==
  ASSUME BenchAssumption, BenchInv, NEW p \in Operator, BenchCases(p)
  PROVE  BenchInv'
  <1> USE DEF BenchInv
  <1>1. /\ UNCHANGED <<history, latest, fit, saved, verdicts>> /\ proc[p].step = "cases"
        /\ proc[p] \in BenchProc /\ Compares(saved, proc[p].request, proc[p].known, proc[p].baseline)
    BY DEF BenchCases, At
  <1>2. PICK next : next = [step |-> "append", request |-> proc[p].request,
                            known |-> proc[p].known, at |-> 0, baseline |-> proc[p].baseline,
                            run |-> RunOf(proc[p].request.suite, fit)]
    OBVIOUS
  <1>3. proc' = [proc EXCEPT ![p] = next]
    BY <1>2 DEF BenchCases, Become
  <1>4. next \in BenchProc /\ next.step = "append"
        /\ Compares(saved, next.request, next.known, next.baseline)
    <2>1. PICK k : k = proc[p]
      OBVIOUS
    <2>2. k \in [step : {"cases"}, request : Requested, known : Nat, at : {0}, baseline : Baseline]
      BY <1>1, <2>1 DEF BenchProc, Idle
    <2>3. RunOf(k.request.suite, fit) \in AnyRun
      BY <2>2 DEF Requested, AnyRun
    <2>4. next \in [step : {"append", "save", "judge"}, request : Requested, known : Nat, at : Nat,
                    baseline : Baseline, run : AnyRun]
      BY <1>2, <2>1, <2>2, <2>3
    <2>5. QED BY <1>1, <1>2, <2>4 DEF BenchProc
  <1>5. proc' \in [Operator -> BenchProc] /\ \A q \in Operator :
          proc'[q] = IF q = p THEN next ELSE proc[q]
    BY <1>3, <1>4
  <1>6. \A q \in Operator : proc'[q].step # "idle" =>
          /\ Compares(saved, proc'[q].request, proc'[q].known, proc'[q].baseline)
          /\ proc'[q].step = "judge" => IsAt(saved, proc'[q].run, proc'[q].at)
    BY <1>4, <1>5
  <1>7. QED BY <1>1, <1>5, <1>6 DEF Compares, IsAt

Worked == [step : {"append", "save", "judge"}, request : Requested, known : Nat, at : Nat,
           baseline : Baseline, run : AnyRun]

LEMMA WorkedIs ==
  ASSUME BenchInv, NEW p \in Operator, proc[p].step \in {"append", "save", "judge"}
  PROVE  /\ proc[p] \in Worked /\ Compares(saved, proc[p].request, proc[p].known, proc[p].baseline)
         /\ proc[p].step = "judge" => IsAt(saved, proc[p].run, proc[p].at)
  BY DEF BenchInv, BenchProc, Idle, Worked

(* A command that ends, or goes on with what it had, while nothing else changes. *)
LEMMA BenchGoesOn ==
  ASSUME BenchInv, NEW p \in Operator, NEW next \in BenchProc, proc' = [proc EXCEPT ![p] = next],
         UNCHANGED <<latest, fit, saved, verdicts>>,
         next.step # "idle" => Compares(saved, next.request, next.known, next.baseline),
         next.step # "judge"
  PROVE  BenchInv'
  <1> USE DEF BenchInv
  <1>1. proc' \in [Operator -> BenchProc] /\ \A q \in Operator :
          proc'[q] = IF q = p THEN next ELSE proc[q]
    OBVIOUS
  <1>2. \A q \in Operator : proc'[q].step # "idle" =>
          /\ Compares(saved, proc'[q].request, proc'[q].known, proc'[q].baseline)
          /\ proc'[q].step = "judge" => IsAt(saved, proc'[q].run, proc'[q].at)
    BY <1>1
  <1>3. QED BY <1>1, <1>2 DEF Compares, IsAt

LEMMA BenchAppendKeeps ==
  ASSUME BenchInv, NEW p \in Operator, BenchAppend(p)
  PROVE  BenchInv'
  <1>1. PICK k : k = proc[p]
    OBVIOUS
  <1>2. k \in Worked /\ Compares(saved, k.request, k.known, k.baseline)
    BY <1>1, WorkedIs DEF BenchAppend, At
  <1>3. PICK next : next = [k EXCEPT !.step = "save"]
    OBVIOUS
  <1>4. next \in Worked /\ next.step = "save" /\ next.request = k.request
        /\ next.known = k.known /\ next.baseline = k.baseline
    BY <1>2, <1>3 DEF Worked
  <1>5. next \in BenchProc
    BY <1>4 DEF Worked, BenchProc
  <1>6. proc' = [proc EXCEPT ![p] = next]
    BY <1>1, <1>3 DEF BenchAppend, Become
  <1>7. QED BY <1>2, <1>4, <1>5, <1>6, BenchGoesOn DEF BenchAppend

(* A file is written; the command goes on to judge what it wrote there, or ends. *)
LEMMA BenchSaves ==
  ASSUME BenchInv, NEW p \in Operator, NEW run \in AnyRun \cup {Torn}, NEW next \in BenchProc,
         proc' = [proc EXCEPT ![p] = next], latest' = run, saved' = Append(saved, run),
         UNCHANGED <<fit, verdicts>>,
         next.step # "idle" => /\ Compares(saved, next.request, next.known, next.baseline)
                               /\ next.known \in Nat
                               /\ next.run = run /\ next.at = Len(saved')
  PROVE  BenchInv'
  <1> USE DEF BenchInv
  <1>1. /\ saved' \in Seq(AnyRun \cup {Torn}) /\ saved' # <<>> /\ Len(saved') = Len(saved) + 1
        /\ saved'[Len(saved')] = run /\ Len(saved') \in DOMAIN saved'
        /\ \A k \in DOMAIN saved : k \in DOMAIN saved' /\ saved'[k] = saved[k]
        /\ \A request, baseline, known \in Nat :
             Compares(saved, request, known, baseline) => Compares(saved', request, known, baseline)
        /\ \A it, at : IsAt(saved, it, at) => IsAt(saved', it, at)
    BY SavesStand
  <1>2. latest' = IF saved' = <<>> THEN None ELSE saved'[Len(saved')]
    BY <1>1
  <1>3. proc' \in [Operator -> BenchProc] /\ \A q \in Operator :
          proc'[q] = IF q = p THEN next ELSE proc[q]
    OBVIOUS
  <1>4. ASSUME NEW q \in Operator, proc'[q].step # "idle"
        PROVE  /\ Compares(saved', proc'[q].request, proc'[q].known, proc'[q].baseline)
               /\ proc'[q].step = "judge" => IsAt(saved', proc'[q].run, proc'[q].at)
    <2>1. CASE q = p
      BY <1>1, <1>3, <1>4, <2>1 DEF Compares, IsAt
    <2>2. CASE q # p
      <3>1. PICK k : k = proc[q]
        OBVIOUS
      <3>2. k \in BenchProc /\ k.step # "idle" /\ Compares(saved, k.request, k.known, k.baseline)
            /\ (k.step = "judge" => IsAt(saved, k.run, k.at)) /\ proc'[q] = k
        BY <1>3, <1>4, <2>2, <3>1
      <3>3. k.known \in Nat
        BY <3>2 DEF BenchProc, Idle
      <3>4. QED BY <1>1, <3>2, <3>3 DEF Compares, IsAt
    <2>3. QED BY <2>1, <2>2
  <1>5. ASSUME NEW i \in DOMAIN verdicts
        PROVE  LET verdict == verdicts[i] IN
               /\ IsAt(saved', verdict.run, verdict.at) /\ verdict.known <= Len(saved')
               /\ verdict.status = "passed" /\ verdict.request.baseline = "latest"
                  /\ verdict.known # 0
                    => \/ saved'[verdict.known] = Torn
                       \/ saved'[verdict.known].passed <= verdict.run.passed
    <2>1. PICK verdict : verdict = verdicts[i]
      OBVIOUS
    <2>0. verdicts[i] \in [request : Requests, known : Nat, at : Nat, run : AnyRun,
                           status : {"passed", "warn", "failed"}]
      <3>1. verdicts \in Seq([request : Requests, known : Nat, at : Nat, run : AnyRun,
                              status : {"passed", "warn", "failed"}])
        OBVIOUS
      <3>2. \A S : \A q \in Seq(S) : \A n \in DOMAIN q : q[n] \in S
        OBVIOUS
      <3>3. QED BY <1>5, <3>1, <3>2
    <2>2. /\ verdict.known \in Nat /\ verdict.known <= Len(saved)
          /\ IsAt(saved, verdict.run, verdict.at)
      BY <1>5, <2>0, <2>1
    <2>3. verdict.status = "passed" /\ verdict.request.baseline = "latest" /\ verdict.known # 0
            => \/ saved[verdict.known] = Torn
               \/ saved[verdict.known].passed <= verdict.run.passed
      BY <1>5, <2>1
    <2>4. verdict.known # 0 => verdict.known \in DOMAIN saved
      BY <2>2
    <2>5. IsAt(saved', verdict.run, verdict.at) /\ verdict.known <= Len(saved')
      BY <1>1, <2>2 DEF IsAt
    <2>6. QED BY <1>1, <2>1, <2>3, <2>4, <2>5
  <1>6. QED BY <1>1, <1>2, <1>3, <1>4, <1>5 DEF Compares, IsAt

LEMMA BenchSaveKeeps ==
  ASSUME BenchInv, NEW p \in Operator, BenchSave(p)
  PROVE  BenchInv'
  <1>1. PICK k : k = proc[p]
    OBVIOUS
  <1>2. k \in Worked /\ Compares(saved, k.request, k.known, k.baseline)
    BY <1>1, WorkedIs DEF BenchSave, At
  <1>3. k.run \in AnyRun /\ k.known \in Nat /\ saved \in Seq(AnyRun \cup {Torn})
    BY <1>2 DEF Worked, BenchInv
  <1>4. saved' = Append(saved, k.run) /\ latest' = k.run /\ UNCHANGED <<fit, verdicts>>
    BY <1>1 DEF BenchSave
  <1>5. Len(saved') \in Nat
    BY <1>3, <1>4
  <1>6. CASE k.request.gate
    <2>1. PICK next : next = [k EXCEPT !.step = "judge", !.at = Len(saved')]
      OBVIOUS
    <2>2. next \in Worked /\ next.request = k.request /\ next.known = k.known
          /\ next.baseline = k.baseline /\ next.run = k.run /\ next.at = Len(saved')
      BY <1>2, <1>5, <2>1 DEF Worked
    <2>3. next \in BenchProc /\ proc' = [proc EXCEPT ![p] = next]
      BY <1>1, <1>6, <2>1, <2>2 DEF BenchSave, Become, BenchProc, Worked
    <2>4. QED BY <1>2, <1>3, <1>4, <2>2, <2>3, BenchSaves
  <1>7. CASE ~ k.request.gate
    <2>1. proc' = [proc EXCEPT ![p] = Idle] /\ Idle \in BenchProc /\ Idle.step = "idle"
      BY <1>1, <1>7 DEF BenchSave, Become, BenchProc, Idle
    <2>2. QED BY <1>3, <1>4, <2>1, BenchSaves
  <1>8. QED BY <1>6, <1>7

(* What passes against a baseline has no fewer cases pass. *)
LEMMA PassesHold ==
  ASSUME NEW baseline \in AnyRun, NEW run \in AnyRun, GateStatus(baseline, run) = "passed"
  PROVE  baseline.passed <= run.passed
  <1>1. baseline.passed \in Nat /\ run.passed \in Nat
    BY RunsCount
  <1>2. Regressions(baseline, run) = {}
    BY DEF GateStatus
  <1>3. ~ (run.passed < baseline.passed)
    BY <1>2 DEF Regressions
  <1>4. QED BY <1>1, <1>3

LEMMA GateJudgeKeeps ==
  ASSUME BenchAssumption, BenchInv, NEW p \in Operator, GateJudge(p)
  PROVE  BenchInv'
  <1>1. PICK k : k = proc[p]
    OBVIOUS
  <1>2. k \in Worked /\ Compares(saved, k.request, k.known, k.baseline) /\ IsAt(saved, k.run, k.at)
    BY <1>1, WorkedIs DEF GateJudge, At
  <1>3. PICK said : said = [request |-> k.request, known |-> k.known, at |-> k.at,
                            run |-> k.run, status |-> GateStatus(k.baseline, k.run)]
    OBVIOUS
  <1>4. said \in [request : Requests, known : Nat, at : Nat, run : AnyRun,
                  status : {"passed", "warn", "failed"}]
    BY <1>2, <1>3 DEF Worked, GateStatus, Requested
  <1>5. ASSUME said.status = "passed", said.request.baseline = "latest", said.known # 0,
               saved[said.known] # Torn
        PROVE  saved[said.known].passed <= said.run.passed
    <2>1. saved \in Seq(AnyRun \cup {Torn}) /\ k.known \in Nat /\ k.known \in DOMAIN saved
      BY <1>2, <1>3, <1>5 DEF BenchInv, Worked, Compares
    <2>2. saved[k.known] \in AnyRun /\ k.run \in AnyRun /\ k.baseline = saved[k.known]
      BY <1>2, <1>3, <1>5, <2>1 DEF Worked, Compares
    <2>3. GateStatus(saved[k.known], k.run) = "passed"
      BY <1>3, <1>5, <2>2
    <2>4. QED BY <1>3, <2>2, <2>3, PassesHold
  <1>6. /\ verdicts' = Append(verdicts, said) /\ proc' = [proc EXCEPT ![p] = Idle]
        /\ UNCHANGED <<latest, fit, saved>> /\ Idle \in BenchProc /\ Idle.step = "idle"
    BY <1>1, <1>3 DEF GateJudge, Become, BenchProc, Idle
  <1>7. proc' \in [Operator -> BenchProc] /\ \A q \in Operator :
          proc'[q] = IF q = p THEN Idle ELSE proc[q]
    BY <1>6 DEF BenchInv
  <1>8. \A q \in Operator : proc'[q].step # "idle" =>
          /\ Compares(saved, proc'[q].request, proc'[q].known, proc'[q].baseline)
          /\ proc'[q].step = "judge" => IsAt(saved, proc'[q].run, proc'[q].at)
    BY <1>6, <1>7 DEF BenchInv
  <1>9. verdicts' \in Seq([request : Requests, known : Nat, at : Nat, run : AnyRun,
                           status : {"passed", "warn", "failed"}])
    BY <1>4, <1>6 DEF BenchInv
  <1>10. ASSUME NEW i \in DOMAIN verdicts'
         PROVE  verdicts'[i] = said \/ (i \in DOMAIN verdicts /\ verdicts'[i] = verdicts[i])
    BY <1>6, <1>10 DEF BenchInv
  <1>11. said.known <= Len(saved) /\ IsAt(saved, said.run, said.at)
    BY <1>2, <1>3 DEF Compares
  <1>12. \A i \in DOMAIN verdicts' :
           LET verdict == verdicts'[i] IN
           /\ IsAt(saved, verdict.run, verdict.at) /\ verdict.known <= Len(saved)
           /\ verdict.status = "passed" /\ verdict.request.baseline = "latest"
              /\ verdict.known # 0
                => \/ saved[verdict.known] = Torn
                   \/ saved[verdict.known].passed <= verdict.run.passed
    BY <1>5, <1>10, <1>11 DEF BenchInv
  <1>13. QED BY <1>6, <1>7, <1>8, <1>9, <1>12 DEF BenchInv, Compares, IsAt

LEMMA DieKeeps ==
  ASSUME BenchInv, NEW p \in Operator, Die(p)
  PROVE  BenchInv'
  <1>1. /\ proc' = [proc EXCEPT ![p] = Idle] /\ UNCHANGED <<fit, verdicts>>
        /\ Idle \in BenchProc /\ Idle.step = "idle" /\ Idle.step # "judge"
    BY DEF Die, Become, BenchProc, Idle
  <1>2. CASE UNCHANGED <<latest, saved>>
    BY <1>1, <1>2, BenchGoesOn
  <1>3. CASE latest' = Torn /\ saved' = Append(saved, Torn)
    BY <1>1, <1>3, BenchSaves
  <1>4. QED BY <1>2, <1>3 DEF Die

LEMMA BenchNextKeeps ==
  ASSUME BenchAssumption, BenchInv, [BenchNext]_benchVars
  PROVE  BenchInv'
  <1>1. CASE UNCHANGED benchVars
    BY <1>1 DEF BenchInv, benchVars, Compares, IsAt
  <1>2. CASE Upgrade
    BY <1>2 DEF Upgrade, BenchInv, Compares, IsAt
  <1>3. ASSUME NEW p \in Operator,
               BenchBegin(p) \/ BenchCases(p) \/ BenchAppend(p) \/ BenchSave(p)
                 \/ GateJudge(p) \/ Die(p)
        PROVE  BenchInv'
    BY <1>3, BenchBeginKeeps, BenchCasesKeeps, BenchAppendKeeps, BenchSaveKeeps,
       GateJudgeKeeps, DieKeeps
  <1>4. QED BY <1>1, <1>2, <1>3 DEF BenchNext

(* The run a verdict was given on is the one that was saved, and it was not a file cut off. *)
LEMMA LinesHold ==
  ASSUME BenchAssumption, BenchInv
  PROVE  GateHoldsTheLine
  <1> SUFFICES ASSUME NEW i \in DOMAIN verdicts, NEW j \in DOMAIN verdicts,
                      verdicts[j].status = "passed",
                      verdicts[j].request.baseline = "latest",
                      verdicts[i].at <= verdicts[j].known
               PROVE  \/ verdicts[j].run.passed >= verdicts[i].run.passed
                      \/ \E k \in verdicts[i].at + 1 .. verdicts[j].known :
                           \/ saved[k] = Torn
                           \/ saved[k].suite # verdicts[j].run.suite
                           \/ saved[k].passed <= verdicts[j].run.passed
    BY DEF GateHoldsTheLine
  <1>1. PICK earlier, later : earlier = verdicts[i] /\ later = verdicts[j]
    OBVIOUS
  <1>2. /\ earlier \in [request : Requests, known : Nat, at : Nat, run : AnyRun,
                        status : {"passed", "warn", "failed"}]
        /\ later \in [request : Requests, known : Nat, at : Nat, run : AnyRun,
                      status : {"passed", "warn", "failed"}]
        /\ saved \in Seq(AnyRun \cup {Torn})
    <2>1. /\ verdicts \in Seq([request : Requests, known : Nat, at : Nat, run : AnyRun,
                               status : {"passed", "warn", "failed"}])
          /\ saved \in Seq(AnyRun \cup {Torn})
      BY DEF BenchInv
    <2>2. \A S : \A q \in Seq(S) : \A n \in DOMAIN q : q[n] \in S
      OBVIOUS
    <2>3. QED BY <1>1, <2>1, <2>2
  <1>3. /\ earlier.at \in Nat /\ later.known \in Nat
        /\ earlier.run \in AnyRun /\ later.run \in AnyRun
    BY <1>2
  <1>4. earlier.at \in DOMAIN saved /\ saved[earlier.at] = earlier.run
    BY <1>1 DEF BenchInv, IsAt
  <1>5. \/ later.known = 0 \/ saved[later.known] = Torn
        \/ saved[later.known].passed <= later.run.passed
    BY <1>1 DEF BenchInv
  <1>6. earlier.at <= later.known /\ later.known # 0
    <2>1. earlier.at >= 1
      BY <1>2, <1>4
    <2>2. earlier.at <= later.known
      BY <1>1
    <2>3. QED BY <1>3, <2>1, <2>2
  <1>7. earlier.run # Torn /\ earlier.run.passed \in Nat /\ later.run.passed \in Nat
    BY <1>3, RunsCount DEF BenchAssumption, AnyRun
  <1>8. CASE later.known = earlier.at
    BY <1>1, <1>4, <1>5, <1>6, <1>7, <1>8
  <1>9. CASE later.known # earlier.at
    <2>1. later.known \in earlier.at + 1 .. later.known
      BY <1>3, <1>6, <1>9
    <2>2. saved[later.known] = Torn \/ saved[later.known].passed <= later.run.passed
      BY <1>5, <1>6
    <2>3. QED BY <1>1, <2>1, <2>2
  <1>10. QED BY <1>8, <1>9

(* The gate of the repair benchmark never lets a suite get worse against the latest run,
   unless a run between had lowered the line: a verdict is given on what was saved, against
   what was saved when the command began. *)
THEOREM GateAlwaysHolds == BenchSpec => []GateHoldsTheLine
  <1>1. BenchAssumption
    BY BenchAssumption
  <1>2. BenchInv /\ [BenchNext]_benchVars => BenchInv'
    BY <1>1, BenchNextKeeps
  <1>3. BenchInv => GateHoldsTheLine
    BY <1>1, LinesHold
  <1>4. QED BY <1>2, <1>3, InitBench, PTL DEF BenchSpec

-----------------------------------------------------------------------------
(* Sorting *)

Orders(set, before) ==
  \A x, y \in set :
    /\ <<x, x>> \notin before
    /\ x = y \/ <<x, y>> \in before \/ <<y, x>> \in before
    /\ \A z \in set : <<x, y>> \in before /\ <<y, z>> \in before => <<x, z>> \in before

(* As many elements are before the i-th as its place says, so that there is one at
   each place. *)
LEMMA SortedIs ==
  ASSUME NEW set, IsFiniteSet(set), NEW before, Orders(set, before)
  PROVE  /\ Cardinality(set) \in Nat
         /\ Sorted(set, before) \in [1 .. Cardinality(set) -> set]
  <1> DEFINE n    == Cardinality(set)
             B(x) == {y \in set : <<y, x>> \in before}
  <1>1. n \in Nat
    BY FS_CardinalityType
  <1>2. ASSUME NEW x \in set
        PROVE  IsFiniteSet(B(x)) /\ Cardinality(B(x)) \in 0 .. n - 1
    <2>1. IsFiniteSet(B(x)) /\ Cardinality(B(x)) <= n /\ Cardinality(B(x)) \in Nat
      BY FS_Subset, FS_CardinalityType
    <2>2. B(x) # set
      BY <1>2 DEF Orders
    <2>3. Cardinality(B(x)) # n
      BY <2>2, FS_Subset
    <2>4. QED BY <1>1, <2>1, <2>3
  <1>3. ASSUME NEW x \in set, NEW y \in set, <<x, y>> \in before
        PROVE  Cardinality(B(x)) < Cardinality(B(y))
    <2>1. B(x) \subseteq B(y) /\ x \in B(y) /\ x \notin B(x)
      BY <1>3 DEF Orders
    <2>2. IsFiniteSet(B(y)) /\ B(x) \in SUBSET B(y) /\ B(x) # B(y)
      BY <1>2, <2>1
    <2>3. Cardinality(B(x)) <= Cardinality(B(y)) /\ Cardinality(B(x)) # Cardinality(B(y))
      BY <2>2, FS_Subset
    <2>4. Cardinality(B(x)) \in Nat /\ Cardinality(B(y)) \in Nat
      BY <1>2, FS_CardinalityType
    <2>5. \A a, b \in Nat : a <= b /\ a # b => a < b
      OBVIOUS
    <2>6. QED BY <2>3, <2>4, <2>5
  <1>4. PICK rank : rank = [x \in set |-> Cardinality(B(x))]
    OBVIOUS
  <1>5. rank \in [set -> 0 .. n - 1] /\ \A x \in set : rank[x] = Cardinality(B(x))
    BY <1>2, <1>4
  <1> HIDE DEF B
  <1>6. \A x, y \in set : <<x, y>> \in before => rank[x] < rank[y]
    BY <1>3, <1>5
  <1>7. \A x, y \in set : rank[x] = rank[y] => x = y
    <2>1. SUFFICES ASSUME NEW x \in set, NEW y \in set, x # y PROVE rank[x] # rank[y]
      OBVIOUS
    <2>2. <<x, y>> \in before \/ <<y, x>> \in before
      BY <2>1 DEF Orders
    <2>3. rank[x] \in Int /\ rank[y] \in Int
      BY <1>1, <1>5
    <2>4. QED BY <1>6, <2>2, <2>3
  <1>8. rank \in Injection(set, 0 .. n - 1)
    BY <1>5, <1>7 DEF Injection, IsInjective
  <1>9. IsFiniteSet(0 .. n - 1) /\ Cardinality(0 .. n - 1) = n
    BY <1>1, FS_Interval
  <1>10. rank \in Surjection(set, 0 .. n - 1)
    BY <1>8, <1>9, FS_Injection
  <1>11. \A i \in 1 .. n : \E x \in set : rank[x] = i - 1
    <2>1. \A k \in 0 .. n - 1 : \E x \in set : rank[x] = k
      BY <1>10 DEF Surjection
    <2>2. \A i \in 1 .. n : i - 1 \in 0 .. n - 1
      BY <1>1
    <2>3. QED BY <2>1, <2>2
  <1>12. ASSUME NEW i \in 1 .. n
         PROVE  (CHOOSE x \in set : Cardinality(B(x)) = i - 1) \in set
    BY <1>5, <1>11
  <1>13. PICK made : made = [i \in 1 .. n |-> CHOOSE x \in set : Cardinality(B(x)) = i - 1]
    OBVIOUS
  <1>14. made \in [1 .. n -> set]
    BY <1>12, <1>13
  <1>15. Sorted(set, before) = made
    BY <1>13 DEF Sorted, B
  <1>16. QED BY <1>1, <1>14, <1>15

Case == {case \in [repo : Range(Repo), path : Path] : case.path = PathOf[case.repo]}

(* Repositories of different names come one before the other. *)
LEMMA PrecedesOrders ==
  ASSUME RepoDiscoveryAssumption, NEW config \in Config, NEW those \in SUBSET Item,
         \A x, y \in those : x.name = y.name => x = y
  PROVE  Orders(those, {pair \in those \X those : Precedes(config, pair[1], pair[2])})
  <1> DEFINE before == {pair \in those \X those : Precedes(config, pair[1], pair[2])}
  <1>1. \A x, y \in those : <<x, y>> \in before <=> Precedes(config, x, y)
    OBVIOUS
  <1>2. \A x \in those : RepoScore(x, config) \in Int
    <2>1. SUFFICES ASSUME NEW x \in those PROVE RepoScore(x, config) \in Int
      OBVIOUS
    <2>2. x.stars \in Nat /\ x.size \in Nat /\ x.issues \in Nat /\ config.target \in Nat
      BY DEF Item, Config
    <2>3. AtMost(x.stars, 500) \in Int /\ AtMost(x.issues, 25) \in Int
      BY <2>2 DEF AtMost
    <2>4. PICK wanted \in Int :
            wanted = IF config.target = 0 THEN 1 ELSE config.target
      BY <2>2
    <2>5. PICK off \in Int :
            off = IF x.size > config.target THEN x.size - config.target
                                            ELSE config.target - x.size
      BY <2>2
    <2>6. PICK sum \in Int :
            sum = AtMost(x.stars, 500) + (IF HasTests(x) THEN 125 ELSE 0)
                    + 4 * AtMost(x.issues, 25)
      BY <2>3
    <2>7. RepoScore(x, config) = sum * wanted - 100 * off
      BY <2>4, <2>5, <2>6 DEF RepoScore
    <2>8. sum * wanted \in Int
      OBVIOUS
    <2>9. QED BY <2>7, <2>8
  <1>3. \A x \in those : Place(x) \in DOMAIN Repo /\ Repo[Place(x)] = x.name
    <2>1. \A x \in those : \E i \in DOMAIN Repo : Repo[i] = x.name
      BY DEF Item, Range
    <2>2. QED BY <2>1 DEF Place
  <1>4. \A x \in those : Place(x) \in Int /\ x.size \in Int
    BY <1>3 DEF RepoDiscoveryAssumption, Item
  <1>5. \A x, y \in those : Place(x) = Place(y) => x = y
    BY <1>3
  <1> HIDE DEF before
  <1>6. ASSUME NEW x \in those, NEW y \in those
        PROVE  /\ <<x, x>> \notin before
               /\ x = y \/ <<x, y>> \in before \/ <<y, x>> \in before
    BY <1>1, <1>2, <1>4, <1>5 DEF Precedes
  <1>7. ASSUME NEW x \in those, NEW y \in those, NEW z \in those,
               <<x, y>> \in before, <<y, z>> \in before
        PROVE  <<x, z>> \in before
    BY <1>1, <1>2, <1>4, <1>7 DEF Precedes
  <1>8. QED BY <1>6, <1>7 DEF Orders, before

LEMMA ManifestIs ==
  ASSUME RepoDiscoveryAssumption, NEW items \in Seq(Item), NEW config \in Config
  PROVE  Manifest(items, config) \in Seq(Case)
  <1> DEFINE admitted == {k \in DOMAIN items : Admitted(items[k], config)}
             chosen   == {n \in admitted :
                            \A j \in admitted : j < n => items[j].name # items[n].name}
             firsts   == {items[k] : k \in chosen}
             those    == {item \in firsts : config.tested => HasTests(item)}
  <1>1. those \in SUBSET Item
    OBVIOUS
  <1>2. \A x, y \in those : x.name = y.name => x = y
    <2>1. SUFFICES ASSUME NEW n \in chosen, NEW k \in chosen, items[n].name = items[k].name
                   PROVE  items[n] = items[k]
      OBVIOUS
    <2>2. n \in Nat /\ k \in Nat /\ n \in admitted /\ k \in admitted
      OBVIOUS
    <2>3. ~ (n < k) /\ ~ (k < n)
      BY <2>1
    <2>4. QED BY <2>2, <2>3
  <1>3. IsFiniteSet(those)
    <2> DEFINE all == {items[k] : k \in 1 .. Len(items)}
    <2>1. PICK f : f = [k \in 1 .. Len(items) |-> items[k]]
      OBVIOUS
    <2>2. f \in Surjection(1 .. Len(items), all)
      BY <2>1 DEF Surjection
    <2>3. IsFiniteSet(all)
      BY <2>2, FS_NatSurjection DEF ExistsSurjection
    <2>4. those \subseteq all
      OBVIOUS
    <2>5. QED BY <2>3, <2>4, FS_Subset
  <1>4. PICK before : before = {pair \in those \X those : Precedes(config, pair[1], pair[2])}
    OBVIOUS
  <1>5. Filtered(items, config) = Sorted(those, before)
    BY <1>4 DEF Filtered
  <1> HIDE DEF those
  <1>6. PICK found : found = Filtered(items, config)
    OBVIOUS
  <1>7. found \in Seq(Item)
    <2>1. Orders(those, before)
      BY <1>1, <1>2, <1>4, PrecedesOrders
    <2>2. Cardinality(those) \in Nat /\ found \in [1 .. Cardinality(those) -> those]
      BY <1>3, <1>5, <1>6, <2>1, SortedIs
    <2>3. QED BY <1>1, <2>2
  <1>8. PICK n : n = AtMost(Len(found), config.most)
    OBVIOUS
  <1>9. n \in Nat /\ n <= Len(found)
    BY <1>7, <1>8 DEF AtMost, Config
  <1>10. \A i \in 1 .. n : found[i].name \in Range(Repo)
    <2>1. \A i \in 1 .. n : i \in DOMAIN found /\ found[i] \in Item
      BY <1>7, <1>9
    <2>2. QED BY <2>1 DEF Item
  <1>11. \A i \in 1 .. n :
           [repo |-> found[i].name, path |-> PathOf[found[i].name]] \in Case
    BY <1>10 DEF Case, RepoDiscoveryAssumption
  <1>12. PICK made : made = [i \in 1 .. n |-> [repo |-> found[i].name,
                                               path |-> PathOf[found[i].name]]]
    OBVIOUS
  <1>13. made \in Seq(Case)
    BY <1>9, <1>11, <1>12
  <1>14. QED BY <1>6, <1>8, <1>12, <1>13 DEF Manifest

-----------------------------------------------------------------------------
(* The benchmark of GitHub's repositories: what is known of a package holds for as long as
   no developer has touched its workspace.  "at" is where the projects lie and "by" what was
   touched, so that what is known can be said of two states. *)

Lies(at, path) == at[path] \in Workspace
Stands(at, path) == at[path] \in Workspace /\ at[path].toml

Spaces ==
  {at \in [Path -> Workspace \cup {NoSpace, Foreign}] :
     \A path \in Path : Lies(at, path) => PathOf[at[path].repo] = path}

(* The package is still the one that was looked at, in what does not depend on its lock. *)
Fresh(at, by, path, seen) == path \in by \/ (Stands(at, path) /\ at[path].fault = seen.fault)

ErrorResult == {r \in [repo : Range(Repo), path : Path, error : {TRUE}] : r.path = PathOf[r.repo]}

LookedAt == [repo : Range(Repo), path : Path, error : {FALSE}, seen : Workspace,
             metadata : BOOLEAN, check : BOOLEAN, test : BOOLEAN]

(* What the commands of a preparation said is explained by what is wrong with the package. *)
Explained(by, path, r) ==
  /\ r.metadata \/ r.seen.fault = "manifest"
  /\ r.check \/ r.seen.fault \in {"manifest", "build"} \/ r.seen.lock = "stale"
  /\ r.check => path \in by \/ r.seen.fault \notin {"manifest", "build"}

LookedResult(at, by) ==
  {r \in LookedAt : /\ r.path = PathOf[r.repo]
                    /\ Fresh(at, by, r.path, r.seen)
                    /\ Explained(by, r.path, r)
                    /\ r.check /\ ~r.test => r.path \in by \/ r.seen.fault \in {"tests", "flaky"}}

Result(at, by) == ErrorResult \cup LookedResult(at, by)

(* A case that is ready for a batch. *)
ReadyCase(at, by) ==
  {c \in [repo : Range(Repo), path : Path, seen : Workspace, type : {"check", "test"}] :
     /\ c.path = PathOf[c.repo]
     /\ Fresh(at, by, c.path, c.seen)
     /\ c.type = "check" => c.seen.fault \in {"manifest", "build"} \/ c.seen.lock = "stale"
     /\ c.type = "test" => c.path \in by \/ c.seen.fault \in {"tests", "flaky"}}

IsTrue(m) ==
  /\ m.end # "missing"
  /\ m.on.repo = m.case.repo \/ \E r \in Range(Repo) \ {m.case.repo} : PathOf[r] = m.case.path
  /\ m.end = "unreproducible" => m.on.fault = "flaky" \/ m.case.seen.lock = "stale"
  /\ m.end = "success" => m.on.fault = "flaky"

Ended(at, by) ==
  {m \in [case : ReadyCase(at, by),
          end : {"missing", "unreproducible", "success", "rolled back"},
          on : Workspace \cup {NoSpace, Foreign}] :
     m.case.path \in by \/ IsTrue(m)}

(* What a command is about to write. *)
Writes(at, by, outputs) ==
  \/ \E cases \in Seq(Case) : outputs = <<Output("cases", cases)>>
  \/ \E prepared : \E ready \in Seq(ReadyCase(at, by)) :
       outputs = <<Output("prepared", prepared), Output("ready", ready)>>
  \/ \E ready \in Seq(ReadyCase(at, by)) : outputs = <<Output("ready", ready)>>
  \/ \E totals : \E ends \in Seq(Ended(at, by)) :
       outputs = <<Output("report", [cases |-> ends, totals |-> totals])>>

(* What a file that can be read holds. *)
MayHold(at, by, file, value) ==
  value \notin {NoOutput, Broken} =>
    /\ file = "cases" => value \in Seq(Case)
    /\ file = "ready" => value \in Seq(ReadyCase(at, by))
    /\ file = "report" => \E totals : \E ends \in Seq(Ended(at, by)) :
                             value = [cases |-> ends, totals |-> totals]

Filed(at, by, files) ==
  /\ DOMAIN files = {"cases", "prepared", "ready", "report"}
  /\ \A file \in DOMAIN files : MayHold(at, by, file, files[file])

(* The failure is one that cargo finds without a lock. *)
FailsAnyway(fault, type) ==
  fault \in {"manifest", "build"} \/ (type = "test" /\ fault \in {"tests", "flaky"})

Inspecting(at, by) ==
  [step : {"inspect", "check"}, case : Case, cases : Seq(Case), results : Seq(Result(at, by))]

Testing(at, by) ==
  [step : {"test"}, case : Case, cases : Seq(Case), results : Seq(Result(at, by)),
   seen : Workspace, metadata : BOOLEAN, check : BOOLEAN]

Trying(at, by) ==
  [step : {"reproduce", "probe", "validate"}, case : ReadyCase(at, by),
   cases : Seq(ReadyCase(at, by)), results : Seq(Ended(at, by))]

Rerunning(at, by) ==
  [step : {"rerun", "remove"}, case : ReadyCase(at, by), cases : Seq(ReadyCase(at, by)),
   results : Seq(Ended(at, by)), valid : BOOLEAN]

JobIs(at, by, j) ==
  \/ j = NoJob
  \/ \E outputs : j = Writing(outputs) /\ Writes(at, by, outputs)
  \/ /\ j \in Inspecting(at, by)
     /\ j.step = "check" => Stands(at, j.case.path)
  \/ /\ j \in Testing(at, by)
     /\ Stands(at, j.case.path)
     /\ Fresh(at, by, j.case.path, j.seen)
     /\ Explained(by, j.case.path, j)
     /\ j.check => j.case.path \in by \/ at[j.case.path].lock = "current"
  \/ /\ j \in Trying(at, by) \cup Rerunning(at, by)
     /\ j.step # "reproduce" =>
          /\ Stands(at, j.case.path)
          /\ j.case.path \in by \/ FailsAnyway(at[j.case.path].fault, j.case.type)

Probed(at, jobs, left) ==
  \A path \in Path : Lies(at, path) /\ at[path].probe =>
    \/ path \in left
    \/ \E w \in Worker : jobs[w].step \in {"validate", "rerun", "remove"}
                         /\ jobs[w].case.path = path

GithubInv ==
  /\ space \in Spaces
  /\ DOMAIN job = Worker
  /\ \A w \in Worker : JobIs(space, touched, job[w])
  /\ Filed(space, touched, manifests)
  /\ Probed(space, job, kept)

(* From one state to another: nothing is touched less, and where nobody has touched it, a
   project that builds is the same one, and its lock stays current. *)
Lasts(at, by, at2, by2) ==
  /\ by \subseteq by2
  /\ \A path \in Path \ by2 : Stands(at, path) =>
       /\ Stands(at2, path) /\ at2[path].fault = at[path].fault
       /\ at[path].lock = "current" => at2[path].lock = "current"

LEMMA SeqGrows ==
  ASSUME NEW S, NEW T, S \subseteq T
  PROVE  Seq(S) \subseteq Seq(T)
  <1>1. ASSUME NEW q \in Seq(S) PROVE q \in Seq(T)
    OBVIOUS
  <1>2. QED BY <1>1

LEMMA AppendIn ==
  ASSUME NEW S, NEW q \in Seq(S), NEW x \in S
  PROVE  Append(q, x) \in Seq(S)
  OBVIOUS

LEMMA FreshLasts ==
  ASSUME NEW at, NEW by, NEW at2, NEW by2, Lasts(at, by, at2, by2),
         NEW path \in Path, NEW seen, Fresh(at, by, path, seen)
  PROVE  Fresh(at2, by2, path, seen)
  BY DEF Lasts, Fresh

(* What is known stays known. *)
LEMMA KnownLasts ==
  ASSUME NEW at, NEW by, NEW at2, NEW by2, Lasts(at, by, at2, by2)
  PROVE  /\ Result(at, by) \subseteq Result(at2, by2)
         /\ ReadyCase(at, by) \subseteq ReadyCase(at2, by2)
         /\ Ended(at, by) \subseteq Ended(at2, by2)
         /\ Seq(Result(at, by)) \subseteq Seq(Result(at2, by2))
         /\ Seq(ReadyCase(at, by)) \subseteq Seq(ReadyCase(at2, by2))
         /\ Seq(Ended(at, by)) \subseteq Seq(Ended(at2, by2))
  <1>1. by \subseteq by2
    BY DEF Lasts
  <1>2. LookedResult(at, by) \subseteq LookedResult(at2, by2)
    <2>1. SUFFICES ASSUME NEW r \in LookedResult(at, by) PROVE r \in LookedResult(at2, by2)
      OBVIOUS
    <2>2. r \in LookedAt /\ r.path \in Path
      BY DEF LookedResult, LookedAt
    <2>3. Fresh(at2, by2, r.path, r.seen)
      BY <2>2, FreshLasts DEF LookedResult
    <2>4. Explained(by2, r.path, r)
      BY <1>1 DEF Explained, LookedResult
    <2>5. QED BY <1>1, <2>2, <2>3, <2>4 DEF LookedResult
  <1>3. Result(at, by) \subseteq Result(at2, by2)
    BY <1>2 DEF Result
  <1>4. ReadyCase(at, by) \subseteq ReadyCase(at2, by2)
    <2>1. SUFFICES ASSUME NEW c \in ReadyCase(at, by) PROVE c \in ReadyCase(at2, by2)
      OBVIOUS
    <2>2. c \in [repo : Range(Repo), path : Path, seen : Workspace, type : {"check", "test"}]
          /\ c.path \in Path /\ Fresh(at, by, c.path, c.seen)
      BY DEF ReadyCase
    <2>3. Fresh(at2, by2, c.path, c.seen)
      BY <2>2, FreshLasts
    <2>4. QED BY <1>1, <2>2, <2>3 DEF ReadyCase
  <1>5. Ended(at, by) \subseteq Ended(at2, by2)
    <2>1. SUFFICES ASSUME NEW m \in Ended(at, by) PROVE m \in Ended(at2, by2)
      OBVIOUS
    <2>2. m \in [case : ReadyCase(at2, by2),
                 end : {"missing", "unreproducible", "success", "rolled back"},
                 on : Workspace \cup {NoSpace, Foreign}]
      BY <1>4 DEF Ended
    <2>3. m.case.path \in by2 \/ IsTrue(m)
      BY <1>1 DEF Ended
    <2>4. QED BY <2>2, <2>3 DEF Ended
  <1>6. QED BY <1>3, <1>4, <1>5, SeqGrows

LEMMA WritesLast ==
  ASSUME NEW at, NEW by, NEW at2, NEW by2, Lasts(at, by, at2, by2),
         NEW outputs, Writes(at, by, outputs)
  PROVE  Writes(at2, by2, outputs)
  <1>1. /\ Seq(ReadyCase(at, by)) \subseteq Seq(ReadyCase(at2, by2))
        /\ Seq(Ended(at, by)) \subseteq Seq(Ended(at2, by2))
    BY KnownLasts
  <1>2. QED BY <1>1 DEF Writes

LEMMA WrittenLasts ==
  ASSUME NEW at, NEW by, NEW at2, NEW by2, Lasts(at, by, at2, by2),
         NEW files, Filed(at, by, files)
  PROVE  Filed(at2, by2, files)
  <1>1. /\ Seq(ReadyCase(at, by)) \subseteq Seq(ReadyCase(at2, by2))
        /\ Seq(Ended(at, by)) \subseteq Seq(Ended(at2, by2))
    BY KnownLasts
  <1>2. QED BY <1>1 DEF Filed, MayHold

LEMMA CasesArePlaces ==
  ASSUME RepoDiscoveryAssumption, NEW at, NEW by
  PROVE  /\ \A case \in Case : case.path \in Path
         /\ \A case \in ReadyCase(at, by) : case.path \in Path
  BY DEF Case, ReadyCase

(* A command goes on with what it has, as long as the package it is in stays there. *)
LEMMA JobLasts ==
  ASSUME RepoDiscoveryAssumption, NEW at, NEW by, NEW at2, NEW by2, Lasts(at, by, at2, by2),
         NEW j, JobIs(at, by, j),
         j.step \notin {"idle", "write"} /\ Stands(at, j.case.path) => Stands(at2, j.case.path)
  PROVE  JobIs(at2, by2, j)
  <1>0. /\ Seq(Result(at, by)) \subseteq Seq(Result(at2, by2))
        /\ ReadyCase(at, by) \subseteq ReadyCase(at2, by2)
        /\ Seq(ReadyCase(at, by)) \subseteq Seq(ReadyCase(at2, by2))
        /\ Seq(Ended(at, by)) \subseteq Seq(Ended(at2, by2))
        /\ by \subseteq by2
    BY KnownLasts DEF Lasts
  <1>1. CASE j = NoJob
    BY <1>1 DEF JobIs
  <1>2. CASE \E outputs : j = Writing(outputs) /\ Writes(at, by, outputs)
    BY <1>2, WritesLast DEF JobIs
  <1>3. CASE j \in Inspecting(at, by) /\ (j.step = "check" => Stands(at, j.case.path))
    <2>1. j.step \in {"inspect", "check"} /\ j \in Inspecting(at2, by2)
      BY <1>0, <1>3 DEF Inspecting
    <2>2. QED BY <1>3, <2>1 DEF JobIs
  <1>4. CASE /\ j \in Testing(at, by)
             /\ Stands(at, j.case.path)
             /\ Fresh(at, by, j.case.path, j.seen)
             /\ Explained(by, j.case.path, j)
             /\ j.check => j.case.path \in by \/ at[j.case.path].lock = "current"
    <2>1. j.step = "test" /\ j \in Testing(at2, by2) /\ j.case.path \in Path
      BY <1>0, <1>4, CasesArePlaces DEF Testing
    <2>2. Fresh(at2, by2, j.case.path, j.seen) /\ Stands(at2, j.case.path)
      BY <1>4, <2>1, FreshLasts
    <2>3. Explained(by2, j.case.path, j)
      BY <1>0, <1>4 DEF Explained
    <2>4. j.check => j.case.path \in by2 \/ at2[j.case.path].lock = "current"
      BY <1>0, <1>4, <2>1 DEF Lasts
    <2>5. QED BY <2>1, <2>2, <2>3, <2>4 DEF JobIs
  <1>5. CASE /\ j \in Trying(at, by) \cup Rerunning(at, by)
             /\ j.step # "reproduce" =>
                  /\ Stands(at, j.case.path)
                  /\ j.case.path \in by \/ FailsAnyway(at[j.case.path].fault, j.case.type)
    <2>1. j.step \notin {"idle", "write"} /\ j \in Trying(at2, by2) \cup Rerunning(at2, by2)
      BY <1>0, <1>5 DEF Trying, Rerunning
    <2>2. j.case.path \in Path
      BY <1>5, CasesArePlaces DEF Trying, Rerunning
    <2>3. ASSUME j.step # "reproduce"
          PROVE  /\ Stands(at2, j.case.path)
                 /\ j.case.path \in by2 \/ FailsAnyway(at2[j.case.path].fault, j.case.type)
      BY <1>0, <1>5, <2>1, <2>2, <2>3 DEF Lasts
    <2>4. QED BY <2>1, <2>3 DEF JobIs
  <1>6. QED BY <1>1, <1>2, <1>3, <1>4, <1>5 DEF JobIs

LEMMA JobShapes ==
  ASSUME NEW at, NEW by, NEW j, JobIs(at, by, j)
  PROVE  /\ j.step = "write" => \E outputs : j = Writing(outputs) /\ Writes(at, by, outputs)
         /\ j.step \in {"inspect", "check"} =>
              /\ j \in Inspecting(at, by)
              /\ j.step = "check" => Stands(at, j.case.path)
         /\ j.step = "test" =>
              /\ j \in Testing(at, by)
              /\ Stands(at, j.case.path)
              /\ Fresh(at, by, j.case.path, j.seen)
              /\ Explained(by, j.case.path, j)
              /\ j.check => j.case.path \in by \/ at[j.case.path].lock = "current"
         /\ j.step \in {"reproduce", "probe", "validate", "rerun", "remove"} =>
              /\ j.step \in {"reproduce", "probe", "validate"} => j \in Trying(at, by)
              /\ j.step \in {"rerun", "remove"} => j \in Rerunning(at, by)
              /\ j.case \in ReadyCase(at, by) /\ j.cases \in Seq(ReadyCase(at, by))
              /\ j.results \in Seq(Ended(at, by))
              /\ j.step # "reproduce" =>
                   /\ Stands(at, j.case.path)
                   /\ j.case.path \in by \/ FailsAnyway(at[j.case.path].fault, j.case.type)
  <1>1. CASE j = NoJob
    BY <1>1 DEF NoJob
  <1>2. CASE \E outputs : j = Writing(outputs) /\ Writes(at, by, outputs)
    BY <1>2 DEF Writing
  <1>3. CASE j \in Inspecting(at, by) /\ (j.step = "check" => Stands(at, j.case.path))
    BY <1>3 DEF Inspecting
  <1>4. CASE /\ j \in Testing(at, by)
             /\ Stands(at, j.case.path)
             /\ Fresh(at, by, j.case.path, j.seen)
             /\ Explained(by, j.case.path, j)
             /\ j.check => j.case.path \in by \/ at[j.case.path].lock = "current"
    BY <1>4 DEF Testing
  <1>5. CASE /\ j \in Trying(at, by) \cup Rerunning(at, by)
             /\ j.step # "reproduce" =>
                  /\ Stands(at, j.case.path)
                  /\ j.case.path \in by \/ FailsAnyway(at[j.case.path].fault, j.case.type)
    BY <1>5 DEF Trying, Rerunning
  <1>6. QED BY <1>1, <1>2, <1>3, <1>4, <1>5 DEF JobIs

LEMMA JobPlaces ==
  ASSUME RepoDiscoveryAssumption, NEW at, NEW by, NEW j, JobIs(at, by, j)
  PROVE  j.step \in {"idle", "write"} \/ j.case.path \in Path
  <1>1. CASE j = NoJob
    BY <1>1 DEF NoJob
  <1>2. CASE \E outputs : j = Writing(outputs) /\ Writes(at, by, outputs)
    BY <1>2 DEF Writing
  <1>3. CASE j \in Inspecting(at, by) \cup Testing(at, by)
    BY <1>3, CasesArePlaces DEF Inspecting, Testing
  <1>4. CASE j \in Trying(at, by) \cup Rerunning(at, by)
    BY <1>4, CasesArePlaces DEF Trying, Rerunning
  <1>5. QED BY <1>1, <1>2, <1>3, <1>4 DEF JobIs

Put(at, path, package) == [at EXCEPT ![path] = package]

(* A project that builds is the same one. *)
Same(old, new) ==
  /\ new.toml /\ new.fault = old.fault
  /\ old.lock = "current" => new.lock = "current"

(* Another package lies in a workspace, or the same one after something was done to it. *)
LEMMA SpaceChanges ==
  ASSUME NEW at \in Spaces, NEW path \in Path, NEW package \in Workspace,
         PathOf[package.repo] = path, Stands(at, path) => Same(at[path], package)
  PROVE  /\ Put(at, path, package) \in Spaces
         /\ \A by : Lasts(at, by, Put(at, path, package), by)
         /\ Put(at, path, package)[path] = package
         /\ \A q \in Path : Stands(at, q) => Stands(Put(at, path, package), q)
         /\ \A q \in Path \ {path} : Put(at, path, package)[q] = at[q]
  <1>0. PICK at2 : at2 = Put(at, path, package)
    OBVIOUS
  <1>1. /\ at2 \in [Path -> Workspace \cup {NoSpace, Foreign}]
        /\ at2[path] = package /\ \A q \in Path \ {path} : at2[q] = at[q]
    BY <1>0 DEF Spaces, Put
  <1>2. at2 \in Spaces
    BY <1>1 DEF Spaces, Lies
  <1>3. \A q \in Path : Stands(at, q) =>
          /\ Stands(at2, q) /\ at2[q].fault = at[q].fault
          /\ at[q].lock = "current" => at2[q].lock = "current"
    BY <1>1 DEF Stands, Same
  <1>4. \A by : Lasts(at, by, at2, by)
    BY <1>3 DEF Lasts
  <1>5. QED BY <1>0, <1>1, <1>2, <1>3, <1>4

LEMMA CargoLeaves ==
  ASSUME NEW package \in Workspace, NEW locked \in BOOLEAN
  PROVE  /\ AfterCargo(package, locked) \in Workspace
         /\ AfterCargo(package, locked).repo = package.repo
         /\ AfterCargo(package, locked).fault = package.fault
         /\ AfterCargo(package, locked).toml = package.toml
         /\ AfterCargo(package, locked).probe = package.probe
         /\ package.lock = "current" => AfterCargo(package, locked).lock = "current"
         /\ ~locked /\ package.fault # "manifest" =>
              AfterCargo(package, locked).lock = "current"
  BY DEF Workspace, AfterCargo

LEMMA CargoRuns ==
  ASSUME NEW at \in Spaces, NEW path \in Path, Stands(at, path), NEW locked \in BOOLEAN
  PROVE  LET at2 == Put(at, path, AfterCargo(at[path], locked)) IN
         /\ at2 \in Spaces /\ (\A by : Lasts(at, by, at2, by))
         /\ at2[path] = AfterCargo(at[path], locked)
         /\ \A q \in Path : Stands(at, q) => Stands(at2, q)
         /\ \A q \in Path : Lies(at2, q) /\ at2[q].probe => Lies(at, q) /\ at[q].probe
  <1>0. PICK at2 : at2 = Put(at, path, AfterCargo(at[path], locked))
    OBVIOUS
  <1>1. PICK package : package = AfterCargo(at[path], locked)
    OBVIOUS
  <1>2. /\ package \in Workspace /\ package.repo = at[path].repo
        /\ package.fault = at[path].fault /\ package.toml = at[path].toml
        /\ package.probe = at[path].probe
        /\ at[path].lock = "current" => package.lock = "current"
    BY <1>1, CargoLeaves DEF Stands
  <1>3. PathOf[package.repo] = path
    BY <1>2 DEF Spaces, Stands, Lies
  <1>4. package.toml
    BY <1>2 DEF Stands
  <1>5. /\ at2 \in Spaces /\ (\A by : Lasts(at, by, at2, by)) /\ at2[path] = package
        /\ \A q \in Path : Stands(at, q) => Stands(at2, q)
        /\ \A q \in Path \ {path} : at2[q] = at[q]
    <2>1. at2 = Put(at, path, package)
      BY <1>0, <1>1
    <2>2. Same(at[path], package)
      BY <1>2, <1>4 DEF Same
    <2>3. package \in Workspace
      BY <1>2
    <2>4. /\ Put(at, path, package) \in Spaces
          /\ \A by : Lasts(at, by, Put(at, path, package), by)
          /\ Put(at, path, package)[path] = package
          /\ \A q \in Path : Stands(at, q) => Stands(Put(at, path, package), q)
          /\ \A q \in Path \ {path} : Put(at, path, package)[q] = at[q]
      BY <1>3, <2>2, <2>3, SpaceChanges
    <2>5. QED BY <2>1, <2>4
  <1>6. \A q \in Path : Lies(at2, q) /\ at2[q].probe => Lies(at, q) /\ at[q].probe
    BY <1>2, <1>5 DEF Lies, Stands
  <1>7. QED BY <1>0, <1>1, <1>5, <1>6

LEMMA ProbedLasts ==
  ASSUME NEW at, NEW jobs, NEW left, Probed(at, jobs, left), DOMAIN jobs = Worker,
         NEW at2, NEW w \in Worker, NEW next, NEW left2, left \subseteq left2,
         NEW jobs2, jobs2 = [jobs EXCEPT ![w] = next],
         \A q \in Path : Lies(at2, q) /\ at2[q].probe => Lies(at, q) /\ at[q].probe,
         jobs[w].step \in {"validate", "rerun", "remove"} =>
           \/ next.step \in {"validate", "rerun", "remove"}
              /\ next.case.path = jobs[w].case.path
           \/ jobs[w].case.path \in left2
           \/ ~ at2[jobs[w].case.path].probe
  PROVE  Probed(at2, jobs2, left2)
  <1> SUFFICES ASSUME NEW path \in Path, Lies(at2, path), at2[path].probe
               PROVE  \/ path \in left2
                      \/ \E u \in Worker : jobs2[u].step \in {"validate", "rerun", "remove"}
                                           /\ jobs2[u].case.path = path
    BY DEF Probed
  <1>1. \A u \in Worker : jobs2[u] = IF u = w THEN next ELSE jobs[u]
    OBVIOUS
  <1>2. path \in left \/ \E u \in Worker : jobs[u].step \in {"validate", "rerun", "remove"}
                                           /\ jobs[u].case.path = path
    BY DEF Probed
  <1>3. QED BY <1>1, <1>2

(* One worker takes a step: the others go on with what they have. *)
LEMMA GithubStep ==
  ASSUME RepoDiscoveryAssumption, GithubInv, NEW w \in Worker, NEW next,
         job' = [job EXCEPT ![w] = next],
         space' \in Spaces, Lasts(space, touched, space', touched'),
         \A q \in Path : Stands(space, q) => Stands(space', q),
         JobIs(space', touched', next), Filed(space', touched', manifests'),
         Probed(space', job', kept')
  PROVE  GithubInv'
  <1>1. DOMAIN job' = Worker /\ \A u \in Worker : job'[u] = IF u = w THEN next ELSE job[u]
    BY DEF GithubInv
  <1>2. ASSUME NEW u \in Worker PROVE JobIs(space', touched', job'[u])
    <2>1. CASE u = w
      BY <1>1, <2>1
    <2>2. CASE u # w
      <3>1. PICK k : k = job[u]
        OBVIOUS
      <3>2. JobIs(space, touched, k) /\ job'[u] = k
        BY <1>1, <2>2, <3>1 DEF GithubInv
      <3>3. k.step \notin {"idle", "write"} /\ Stands(space, k.case.path) => k.case.path \in Path
        BY <3>2, JobPlaces
      <3>4. JobIs(space', touched', k)
        BY <3>2, <3>3, JobLasts
      <3>5. QED BY <3>2, <3>4
    <2>3. QED BY <2>1, <2>2
  <1>3. QED BY <1>1, <1>2 DEF GithubInv

LEMMA ResultShapes ==
  ASSUME NEW at, NEW by, NEW r \in Result(at, by)
  PROVE  /\ r.error \in BOOLEAN
         /\ ~r.error => r \in LookedResult(at, by)
  BY DEF Result, ErrorResult, LookedResult, LookedAt

(* What did not all succeed is a failure, of the type its commands tell. *)
LEMMA ReadyOf ==
  ASSUME NEW at, NEW by, NEW r \in Result(at, by), Reproducible(r)
  PROVE  [repo |-> r.repo, path |-> r.path, seen |-> r.seen, type |-> FailureType(r)]
           \in ReadyCase(at, by)
  <1>1. r \in LookedResult(at, by)
    BY ResultShapes DEF Reproducible
  <1>2. /\ r \in LookedAt /\ r.path = PathOf[r.repo] /\ Fresh(at, by, r.path, r.seen)
        /\ Explained(by, r.path, r)
        /\ r.check /\ ~r.test => r.path \in by \/ r.seen.fault \in {"tests", "flaky"}
    BY <1>1 DEF LookedResult
  <1>3. /\ r.repo \in Range(Repo) /\ r.path \in Path /\ r.seen \in Workspace
        /\ r.metadata \in BOOLEAN /\ r.check \in BOOLEAN /\ r.test \in BOOLEAN
    BY <1>2 DEF LookedAt
  <1>4. PICK c : c = [repo |-> r.repo, path |-> r.path, seen |-> r.seen,
                      type |-> FailureType(r)]
    OBVIOUS
  <1>5. FailureType(r) \in {"check", "test"}
    BY DEF FailureType
  <1>6. /\ c \in [repo : Range(Repo), path : Path, seen : Workspace, type : {"check", "test"}]
        /\ c.repo = r.repo /\ c.path = r.path /\ c.seen = r.seen /\ c.type = FailureType(r)
    BY <1>3, <1>4, <1>5
  <1>7. c.type = "check" => c.seen.fault \in {"manifest", "build"} \/ c.seen.lock = "stale"
    BY <1>2, <1>6 DEF FailureType, Explained
  <1>8. c.type = "test" => c.path \in by \/ c.seen.fault \in {"tests", "flaky"}
    <2>1. ASSUME c.type = "test" PROVE r.metadata /\ r.check
      BY <1>6, <2>1 DEF FailureType
    <2>2. ~(r.metadata /\ r.check /\ r.test)
      BY DEF Reproducible
    <2>3. QED BY <1>2, <1>6, <2>1, <2>2
  <1>9. QED BY <1>2, <1>4, <1>6, <1>7, <1>8 DEF ReadyCase

LEMMA ReadyIs ==
  ASSUME NEW at, NEW by, NEW results \in Seq(Result(at, by))
  PROVE  Ready(results) \in Seq(ReadyCase(at, by))
  <1> DEFINE failing == {n \in DOMAIN results : Reproducible(results[n])}
  <1>1. IsFiniteSet(failing)
    <2>1. IsFiniteSet(1 .. Len(results)) /\ failing \subseteq 1 .. Len(results)
      BY FS_Interval
    <2>2. QED BY <2>1, FS_Subset
  <1>2. PICK before : before = {pair \in failing \X failing : pair[1] < pair[2]}
    OBVIOUS
  <1>3. Orders(failing, before)
    <2>1. \A x, y \in failing : <<x, y>> \in before <=> x < y
      BY <1>2
    <2>2. \A x \in failing : x \in Nat
      OBVIOUS
    <2> HIDE DEF failing
    <2>3. \A x, y \in failing :
            /\ <<x, x>> \notin before
            /\ x = y \/ <<x, y>> \in before \/ <<y, x>> \in before
      <3>1. \A x, y \in Nat : ~ (x < x) /\ (x = y \/ x < y \/ y < x)
        OBVIOUS
      <3>2. QED BY <2>1, <2>2, <3>1
    <2>4. \A x, y, z \in failing : <<x, y>> \in before /\ <<y, z>> \in before
                                     => <<x, z>> \in before
      BY <2>1, <2>2
    <2>5. QED BY <2>3, <2>4 DEF Orders
  <1>4. PICK ordered : ordered = Sorted(failing, before)
    OBVIOUS
  <1>5. PICK n \in Nat : ordered \in [1 .. n -> failing]
    BY <1>1, <1>3, <1>4, SortedIs
  <1>6. \A i \in 1 .. n : results[ordered[i]] \in Result(at, by) /\ Reproducible(results[ordered[i]])
    <2>1. \A k \in failing : results[k] \in Result(at, by) /\ Reproducible(results[k])
      OBVIOUS
    <2>2. QED BY <1>5, <2>1
  <1>7. PICK made : made = [i \in 1 .. n |->
          [repo |-> results[ordered[i]].repo, path |-> results[ordered[i]].path,
           seen |-> results[ordered[i]].seen, type |-> FailureType(results[ordered[i]])]]
    OBVIOUS
  <1>8. \A i \in 1 .. n :
          [repo |-> results[ordered[i]].repo, path |-> results[ordered[i]].path,
           seen |-> results[ordered[i]].seen, type |-> FailureType(results[ordered[i]])]
             \in ReadyCase(at, by)
    BY <1>6, ReadyOf
  <1>9. made \in [1 .. n -> ReadyCase(at, by)]
    BY <1>7, <1>8
  <1>10. Ready(results) = made
    <2>1. DOMAIN ordered = 1 .. n
      BY <1>5
    <2>2. QED BY <1>2, <1>4, <1>7, <2>1 DEF Ready
  <1>11. QED BY <1>9, <1>10

LEMMA PreparedIs ==
  ASSUME NEW at, NEW by, NEW cases \in Seq(Case), NEW results \in Seq(Result(at, by))
  PROVE  /\ JobIs(at, by, Prepared(cases, results))
         /\ Prepared(cases, results).step \in {"inspect", "write"}
  <1>1. PICK next : next = Prepared(cases, results)
    OBVIOUS
  <1>2. CASE Len(results) < Len(cases)
    <2>1. cases[Len(results) + 1] \in Case
      BY <1>2
    <2>2. next = [step |-> "inspect", case |-> cases[Len(results) + 1], cases |-> cases,
                  results |-> results]
      BY <1>1, <1>2 DEF Prepared
    <2>3. next \in Inspecting(at, by) /\ next.step = "inspect"
      BY <2>1, <2>2 DEF Inspecting
    <2>4. QED BY <1>1, <2>3 DEF JobIs
  <1>3. CASE ~ (Len(results) < Len(cases))
    <2>1. PICK prepared : prepared = [cases |-> results, totals |-> PreparedTotals(results)]
      OBVIOUS
    <2>2. PICK ready \in Seq(ReadyCase(at, by)) : ready = Ready(results)
      BY ReadyIs
    <2>3. PICK outputs : outputs = <<Output("prepared", prepared), Output("ready", ready)>>
      OBVIOUS
    <2>4. next = Writing(outputs)
      BY <1>1, <1>3, <2>1, <2>2, <2>3 DEF Prepared
    <2>5. Writes(at, by, outputs)
      BY <2>3 DEF Writes
    <2>6. Writing(outputs).step = "write"
      BY DEF Writing
    <2>7. QED BY <1>1, <2>4, <2>5, <2>6 DEF JobIs
  <1>4. QED BY <1>2, <1>3

LEMMA BatchedIs ==
  ASSUME NEW at, NEW by, NEW cases \in Seq(ReadyCase(at, by)), NEW results \in Seq(Ended(at, by))
  PROVE  /\ JobIs(at, by, Batched(cases, results))
         /\ Batched(cases, results).step \in {"reproduce", "write"}
  <1>1. PICK next : next = Batched(cases, results)
    OBVIOUS
  <1>2. CASE Len(results) < Len(cases)
    <2>1. cases[Len(results) + 1] \in ReadyCase(at, by)
      BY <1>2
    <2>2. next = [step |-> "reproduce", case |-> cases[Len(results) + 1], cases |-> cases,
                  results |-> results]
      BY <1>1, <1>2 DEF Batched
    <2>3. next \in Trying(at, by) /\ next.step = "reproduce"
      BY <2>1, <2>2 DEF Trying
    <2>4. QED BY <1>1, <2>3 DEF JobIs
  <1>3. CASE ~ (Len(results) < Len(cases))
    <2>1. PICK totals : totals = Totals(results)
      OBVIOUS
    <2>2. PICK outputs : outputs = <<Output("report", [cases |-> results, totals |-> totals])>>
      OBVIOUS
    <2>3. next = Writing(outputs)
      BY <1>1, <1>3, <2>1, <2>2 DEF Batched
    <2>4. Writes(at, by, outputs)
      BY <2>2 DEF Writes
    <2>5. Writing(outputs).step = "write"
      BY DEF Writing
    <2>6. QED BY <1>1, <2>3, <2>4, <2>5 DEF JobIs
  <1>4. QED BY <1>2, <1>3

-----------------------------------------------------------------------------
(* The steps of the benchmark *)

LEMMA NothingMoves ==
  ASSUME NEW at, NEW by
  PROVE  Lasts(at, by, at, by)
  BY DEF Lasts

(* A worker's step that writes no file and touches nothing. *)
LEMMA GithubMoves ==
  ASSUME RepoDiscoveryAssumption, GithubInv, NEW w \in Worker, NEW next,
         job' = [job EXCEPT ![w] = next], touched' = touched, manifests' = manifests,
         space' \in Spaces, Lasts(space, touched, space', touched),
         \A q \in Path : Stands(space, q) => Stands(space', q),
         JobIs(space', touched, next), Probed(space', job', kept')
  PROVE  GithubInv'
  <1>1. Lasts(space, touched, space', touched') /\ JobIs(space', touched', next)
    OBVIOUS
  <1>2. Filed(space', touched', manifests')
    <2>1. Filed(space, touched, manifests)
      BY DEF GithubInv
    <2>2. Filed(space', touched', manifests)
      BY <1>1, <2>1, WrittenLasts
    <2>3. QED BY <2>2
  <1>3. QED BY <1>1, <1>2, GithubStep

(* The same, when nothing is done to a package either. *)
LEMMA GithubPlans ==
  ASSUME RepoDiscoveryAssumption, GithubInv, NEW w \in Worker, NEW next,
         job' = [job EXCEPT ![w] = next], UNCHANGED <<manifests, space, touched, kept>>,
         JobIs(space, touched, next),
         job[w].step \notin {"validate", "rerun", "remove"}
  PROVE  GithubInv'
  <1>1. /\ space' \in Spaces /\ Lasts(space, touched, space', touched)
        /\ JobIs(space', touched, next)
        /\ \A q \in Path : Stands(space, q) => Stands(space', q)
    BY NothingMoves DEF GithubInv
  <1>2. Probed(space', job', kept')
    <2>1. Probed(space, job, kept) /\ DOMAIN job = Worker
      BY DEF GithubInv
    <2>2. \A q \in Path : Lies(space', q) /\ space'[q].probe => Lies(space, q) /\ space[q].probe
      OBVIOUS
    <2>3. QED BY <2>1, <2>2, ProbedLasts
  <1>3. QED BY <1>1, <1>2, GithubMoves

LEMMA NoJobIs ==
  ASSUME NEW at, NEW by
  PROVE  JobIs(at, by, NoJob) /\ NoJob.step = "idle"
  BY DEF JobIs, NoJob

LEMMA DiscoverKeeps ==
  ASSUME RepoDiscoveryAssumption, GithubBenchAssumption, GithubInv,
         NEW w \in Worker, Discover(w)
  PROVE  GithubInv'
  <1>1. PICK items \in Answers : Turn(w, Writing(<<Output("cases", Manifest(items, Search))>>))
    BY DEF Discover
  <1>2. PICK outputs : outputs = <<Output("cases", Manifest(items, Search))>>
    OBVIOUS
  <1>3. Manifest(items, Search) \in Seq(Case)
    BY ManifestIs DEF GithubBenchAssumption
  <1>4. JobIs(space, touched, Writing(outputs))
    BY <1>2, <1>3 DEF JobIs, Writes
  <1>5. /\ job' = [job EXCEPT ![w] = Writing(outputs)]
        /\ UNCHANGED <<manifests, space, touched, kept>>
        /\ job[w].step \notin {"validate", "rerun", "remove"}
    BY <1>1, <1>2 DEF Discover, Turn, Doing
  <1>6. QED BY <1>4, <1>5, GithubPlans

LEMMA PrepareBeginKeeps ==
  ASSUME RepoDiscoveryAssumption, GithubInv, NEW w \in Worker, PrepareBegin(w)
  PROVE  GithubInv'
  <1>1. PICK next : next = IF Readable("cases") THEN Prepared(manifests["cases"], <<>>) ELSE NoJob
    OBVIOUS
  <1>2. JobIs(space, touched, next)
    <2>1. CASE Readable("cases")
      <3>1. manifests["cases"] \in Seq(Case)
        BY <2>1 DEF GithubInv, Filed, MayHold, Readable
      <3>2. <<>> \in Seq(Result(space, touched))
        OBVIOUS
      <3>3. QED BY <1>1, <2>1, <3>1, <3>2, PreparedIs
    <2>2. CASE ~ Readable("cases")
      BY <1>1, <2>2, NoJobIs
    <2>3. QED BY <2>1, <2>2
  <1>3. /\ job' = [job EXCEPT ![w] = next] /\ UNCHANGED <<manifests, space, touched, kept>>
        /\ job[w].step \notin {"validate", "rerun", "remove"}
    BY <1>1 DEF PrepareBegin, Turn, Doing
  <1>4. QED BY <1>2, <1>3, GithubPlans

LEMMA BatchBeginKeeps ==
  ASSUME RepoDiscoveryAssumption, GithubBenchAssumption, GithubInv,
         NEW w \in Worker, BatchBegin(w)
  PROVE  GithubInv'
  <1>1. /\ UNCHANGED <<manifests, space, touched, kept>>
        /\ job[w].step \notin {"validate", "rerun", "remove"}
    BY DEF BatchBegin, Doing
  <1>2. CASE Readable("ready")
    <2>1. PICK limit \in CaseLimits :
            job' = [job EXCEPT ![w] =
              Batched(SubSeq(manifests["ready"], 1, AtMost(Len(manifests["ready"]), limit)), <<>>)]
      BY <1>2 DEF BatchBegin, Turn
    <2>2. PICK ready \in Seq(ReadyCase(space, touched)) : ready = manifests["ready"]
      BY <1>2 DEF GithubInv, Filed, MayHold, Readable
    <2>3. AtMost(Len(ready), limit) \in Nat /\ AtMost(Len(ready), limit) <= Len(ready)
      BY DEF AtMost, GithubBenchAssumption
    <2>4. PICK cases : cases = SubSeq(ready, 1, AtMost(Len(ready), limit))
      OBVIOUS
    <2>5. cases \in Seq(ReadyCase(space, touched))
      BY <2>3, <2>4
    <2>6. <<>> \in Seq(Ended(space, touched))
      OBVIOUS
    <2>7. JobIs(space, touched, Batched(cases, <<>>))
      BY <2>5, <2>6, BatchedIs
    <2>8. job' = [job EXCEPT ![w] = Batched(cases, <<>>)]
      BY <2>1, <2>2, <2>4
    <2>9. QED BY <1>1, <2>7, <2>8, GithubPlans
  <1>3. CASE ~ Readable("ready")
    <2>1. job' = [job EXCEPT ![w] = NoJob]
      BY <1>3 DEF BatchBegin, Turn
    <2>2. QED BY <1>1, <2>1, NoJobIs, GithubPlans
  <1>4. QED BY <1>2, <1>3

LEMMA JobAt ==
  ASSUME GithubInv, NEW w \in Worker
  PROVE  JobIs(space, touched, job[w]) /\ space \in Spaces /\ DOMAIN job = Worker
         /\ Probed(space, job, kept)
  BY DEF GithubInv

LEMMA GivesUp ==
  ASSUME NEW at, NEW by, NEW case \in Case, NEW cases \in Seq(Case),
         NEW results \in Seq(Result(at, by))
  PROVE  JobIs(at, by, Prepared(cases, Append(results, [repo |-> case.repo, path |-> case.path,
                                                       error |-> TRUE])))
  <1>1. PICK r : r = [repo |-> case.repo, path |-> case.path, error |-> TRUE]
    OBVIOUS
  <1>2. case.repo \in Range(Repo) /\ case.path \in Path /\ case.path = PathOf[case.repo]
    BY DEF Case
  <1>3. r \in Result(at, by)
    BY <1>1, <1>2 DEF Result, ErrorResult
  <1>4. Append(results, r) \in Seq(Result(at, by))
    BY <1>3
  <1>5. QED BY <1>1, <1>4, PreparedIs

(* Only a developer removes a package, so that a clone is made where nothing has been known. *)
LEMMA Clones ==
  ASSUME RepoDiscoveryAssumption, GithubBenchAssumption, NEW at \in Spaces,
         NEW case \in Case, at[case.path] = NoSpace, NEW package \in Crate
  PROVE  LET at2 == Put(at, case.path, Cloned(case.repo, package)) IN
         /\ at2 \in Spaces /\ (\A by : Lasts(at, by, at2, by))
         /\ \A q \in Path : Stands(at, q) => Stands(at2, q)
         /\ package.toml => Stands(at2, case.path)
         /\ \A q \in Path : Lies(at2, q) /\ at2[q].probe => Lies(at, q) /\ at[q].probe
  <1>1. case.repo \in Range(Repo) /\ case.path \in Path /\ case.path = PathOf[case.repo]
    BY DEF Case
  <1>2. PICK clone : clone = Cloned(case.repo, package)
    OBVIOUS
  <1>3. /\ clone \in Workspace /\ clone.repo = case.repo /\ ~clone.probe
        /\ clone.toml = package.toml
    BY <1>1, <1>2 DEF Cloned, Crate, Workspace
  <1>4. ~ Stands(at, case.path)
    BY DEF Stands, GithubBenchAssumption
  <1>5. /\ Put(at, case.path, clone) \in Spaces
        /\ \A by : Lasts(at, by, Put(at, case.path, clone), by)
        /\ Put(at, case.path, clone)[case.path] = clone
        /\ \A q \in Path : Stands(at, q) => Stands(Put(at, case.path, clone), q)
        /\ \A q \in Path \ {case.path} : Put(at, case.path, clone)[q] = at[q]
    BY <1>1, <1>3, <1>4, SpaceChanges
  <1>6. PICK at2 : at2 = Put(at, case.path, clone)
    OBVIOUS
  <1>7. \A q \in Path : Lies(at2, q) /\ at2[q].probe => Lies(at, q) /\ at[q].probe
    BY <1>3, <1>5, <1>6 DEF Lies
  <1>8. package.toml => Stands(at2, case.path)
    BY <1>3, <1>5, <1>6 DEF Stands
  <1>9. QED BY <1>2, <1>5, <1>6, <1>7, <1>8

LEMMA InspectKeeps ==
  ASSUME RepoDiscoveryAssumption, GithubBenchAssumption, GithubInv,
         NEW w \in Worker, Inspect(w)
  PROVE  GithubInv'
  <1>1. PICK k : k = job[w]
    OBVIOUS
  <1>2. PICK case : case = k.case
    OBVIOUS
  <1>3. k.step = "inspect" /\ UNCHANGED <<manifests, touched, kept>>
    BY <1>1 DEF Inspect, Doing
  <1>4. /\ k \in Inspecting(space, touched) /\ space \in Spaces /\ DOMAIN job = Worker
        /\ Probed(space, job, kept)
    BY <1>1, <1>3, JobAt, JobShapes
  <1>5. /\ case \in Case /\ k.cases \in Seq(Case) /\ k.results \in Seq(Result(space, touched))
        /\ case.path \in Path /\ case.repo \in Range(Repo)
    BY <1>2, <1>4 DEF Inspecting, Case
  <1>6. PICK tried : tried = [k EXCEPT !.step = "check"]
    OBVIOUS
  <1>7. /\ tried \in Inspecting(space, touched) /\ tried.step = "check" /\ tried.case = case
        /\ tried.cases = k.cases /\ tried.results = k.results
    BY <1>2, <1>4, <1>6 DEF Inspecting
  <1>8. PICK failed : failed = [repo |-> case.repo, path |-> case.path, error |-> TRUE]
    OBVIOUS
  <1>9. PICK stopped : stopped = Prepared(k.cases, Append(k.results, failed))
    OBVIOUS
  <1>10. /\ Try(w) => job' = [job EXCEPT ![w] = tried]
         /\ GiveUp(w) => job' = [job EXCEPT ![w] = stopped]
    BY <1>1, <1>2, <1>6, <1>8, <1>9 DEF Try, GiveUp, Turn
  <1>11. CASE HasToml(case.path) /\ Try(w) /\ UNCHANGED space
    <2>1. Stands(space, case.path)
      BY <1>4, <1>5, <1>11 DEF HasToml, IsProject, Stands, Spaces
    <2>2. JobIs(space, touched, tried)
      BY <1>7, <2>1 DEF JobIs
    <2>3. QED BY <1>1, <1>3, <1>10, <1>11, <2>2, GithubPlans
  <1>12. CASE GiveUp(w) /\ UNCHANGED space
    <2>1. JobIs(space, touched, stopped)
      BY <1>5, <1>8, <1>9, GivesUp
    <2>2. QED BY <1>1, <1>3, <1>10, <1>12, <2>1, GithubPlans
  <1>13. CASE /\ space[case.path] = NoSpace
              /\ \E package \in Upstream[case.repo] :
                   /\ space' = [space EXCEPT ![case.path] = Cloned(case.repo, package)]
                   /\ IF package.toml THEN Try(w) ELSE GiveUp(w)
    <2>1. PICK package \in Upstream[case.repo] :
            /\ space' = [space EXCEPT ![case.path] = Cloned(case.repo, package)]
            /\ IF package.toml THEN Try(w) ELSE GiveUp(w)
      BY <1>13
    <2>2. package \in Crate
      BY <1>5 DEF GithubBenchAssumption
    <2>3. PICK at2 : at2 = Put(space, case.path, Cloned(case.repo, package))
      OBVIOUS
    <2>4. /\ at2 \in Spaces /\ (\A by : Lasts(space, by, at2, by))
          /\ \A q \in Path : Stands(space, q) => Stands(at2, q)
          /\ package.toml => Stands(at2, case.path)
          /\ \A q \in Path : Lies(at2, q) /\ at2[q].probe => Lies(space, q) /\ space[q].probe
      <3>1. space[case.path] = NoSpace
        BY <1>13
      <3>2. QED BY <1>4, <1>5, <2>2, <2>3, <3>1, Clones
    <2>5. Seq(Result(space, touched)) \subseteq Seq(Result(at2, touched))
      BY <2>4, KnownLasts
    <2>6. PICK next : next = IF package.toml THEN tried ELSE stopped
      OBVIOUS
    <2>7. JobIs(at2, touched, next)
      <3>1. CASE package.toml
        <4>1. tried \in Inspecting(at2, touched)
          BY <1>7, <2>5 DEF Inspecting
        <4>2. QED BY <1>7, <2>4, <2>6, <3>1, <4>1 DEF JobIs
      <3>2. CASE ~package.toml
        BY <1>5, <1>8, <1>9, <2>5, <2>6, <3>2, GivesUp
      <3>3. QED BY <3>1, <3>2
    <2>8. job' = [job EXCEPT ![w] = next]
      BY <1>10, <2>1, <2>6
    <2>9. Probed(at2, job', kept')
      BY <1>1, <1>3, <1>4, <2>4, <2>8, ProbedLasts
    <2>10. space' = at2
      BY <2>1, <2>3 DEF Put
    <2>11. QED BY <1>3, <2>4, <2>7, <2>8, <2>9, <2>10, GithubMoves
  <1>14. QED BY <1>1, <1>2, <1>11, <1>12, <1>13 DEF Inspect

(* What cargo says tells what is wrong. *)
LEMMA VerdictsAre ==
  ASSUME NEW package \in Workspace, NEW locked \in BOOLEAN
  PROVE  /\ package.fault = "manifest" \/ (locked /\ package.lock = "stale") =>
              \A command : Verdicts(package, command, locked) = {FALSE}
         /\ package.fault = "build" => \A command : Verdicts(package, command, locked) = {FALSE}
         /\ package.fault \in {"tests", "flaky", "nothing"}
            /\ ~ (locked /\ package.lock = "stale") =>
              /\ Verdicts(package, "check", locked) = {TRUE}
              /\ package.fault = "nothing" => Verdicts(package, "test", locked) = {TRUE}
              /\ package.fault = "tests" => Verdicts(package, "test", locked) = {FALSE}
         /\ \A command : Verdicts(package, command, locked) \subseteq BOOLEAN
         /\ package.fault \in {"manifest", "build", "tests", "flaky", "nothing"}
  <1>1. package.fault \in {"manifest", "build", "tests", "flaky", "nothing"}
    BY DEF Workspace, Fault
  <1>2. package.fault = "manifest" \/ (locked /\ package.lock = "stale") =>
          \A command : Verdicts(package, command, locked) = {FALSE}
    BY DEF Verdicts
  <1>3. package.fault = "build" => \A command : Verdicts(package, command, locked) = {FALSE}
    BY DEF Verdicts
  <1>4. ASSUME package.fault \in {"tests", "flaky", "nothing"},
               ~ (locked /\ package.lock = "stale")
        PROVE  /\ Verdicts(package, "check", locked) = {TRUE}
               /\ package.fault = "nothing" => Verdicts(package, "test", locked) = {TRUE}
               /\ package.fault = "tests" => Verdicts(package, "test", locked) = {FALSE}
    BY <1>4 DEF Verdicts
  <1>5. \A command : Verdicts(package, command, locked) \subseteq BOOLEAN
    BY DEF Verdicts
  <1>6. QED BY <1>1, <1>2, <1>3, <1>4, <1>5

LEMMA VerdictsTell ==
  ASSUME NEW package \in Workspace, NEW locked \in BOOLEAN
  PROVE  /\ \A check \in Verdicts(package, "check", locked) :
              /\ check \in BOOLEAN
              /\ check => /\ package.fault \notin {"manifest", "build"}
                          /\ ~ (locked /\ package.lock = "stale")
              /\ ~check => \/ package.fault \in {"manifest", "build"}
                           \/ locked /\ package.lock = "stale"
         /\ \A test \in Verdicts(package, "test", locked) :
              /\ test \in BOOLEAN
              /\ ~test => package.fault # "nothing" \/ (locked /\ package.lock = "stale")
  BY VerdictsAre

LEMMA FailuresTell ==
  ASSUME NEW package \in Workspace, NEW type \in {"check", "test"},
         NEW passed \in Verdicts(package, type, FALSE)
  PROVE  /\ passed \in BOOLEAN
         /\ ~passed => FailsAnyway(package.fault, type)
         /\ passed => ~FailsAnyway(package.fault, type) \/ package.fault = "flaky"
  BY VerdictsAre DEF FailsAnyway

LEMMA PrepareCheckKeeps ==
  ASSUME RepoDiscoveryAssumption, GithubInv, NEW w \in Worker, PrepareCheck(w)
  PROVE  GithubInv'
  <1>1. PICK k : k = job[w]
    OBVIOUS
  <1>2. PICK path : path = k.case.path
    OBVIOUS
  <1>3. k.step = "check" /\ UNCHANGED <<manifests, touched, kept>>
    BY <1>1 DEF PrepareCheck, Doing
  <1>4. /\ k \in Inspecting(space, touched) /\ space \in Spaces /\ DOMAIN job = Worker
        /\ Probed(space, job, kept) /\ Stands(space, path)
    BY <1>1, <1>2, <1>3, JobAt, JobShapes
  <1>5. /\ k.case \in Case /\ k.cases \in Seq(Case) /\ k.results \in Seq(Result(space, touched))
        /\ path \in Path
    BY <1>2, <1>4 DEF Inspecting, Case
  <1>6. PICK package \in Workspace : package = space[path]
    BY <1>4 DEF Stands
  <1>7. PICK locked \in BOOLEAN : locked = (package.lock # "none")
    OBVIOUS
  <1>8. PICK check \in Verdicts(package, "check", locked) :
          job' = [job EXCEPT ![w] =
            [step |-> "test", case |-> k.case, cases |-> k.cases, results |-> k.results,
             seen |-> package, metadata |-> Metadata(package), check |-> check]]
    BY <1>1, <1>2, <1>6, <1>7 DEF PrepareCheck, Turn
  <1>9. PICK at2 : at2 = Put(space, path, AfterCargo(space[path], locked))
    OBVIOUS
  <1>10. space' = at2
    BY <1>1, <1>2, <1>6, <1>7, <1>9 DEF PrepareCheck, Put
  <1>11. /\ at2 \in Spaces /\ (\A by : Lasts(space, by, at2, by))
         /\ at2[path] = AfterCargo(package, locked)
         /\ \A q \in Path : Stands(space, q) => Stands(at2, q)
         /\ \A q \in Path : Lies(at2, q) /\ at2[q].probe => Lies(space, q) /\ space[q].probe
    BY <1>4, <1>5, <1>6, <1>9, CargoRuns
  <1>12. PICK next : next = [step |-> "test", case |-> k.case, cases |-> k.cases,
                             results |-> k.results, seen |-> package,
                             metadata |-> Metadata(package), check |-> check]
    OBVIOUS
  <1>13. check \in BOOLEAN /\ Metadata(package) \in BOOLEAN
    BY VerdictsTell DEF Metadata
  <1>14. next \in Testing(at2, touched)
    <2>1. k.results \in Seq(Result(at2, touched))
      BY <1>5, <1>11, KnownLasts
    <2>2. QED BY <1>5, <1>12, <1>13, <2>1 DEF Testing
  <1>15. /\ next.case.path = path /\ next.seen = package /\ next.step = "test"
         /\ next.check <=> check
         /\ next.metadata <=> Metadata(package)
    <2>1. next.case.path = path /\ next.seen = package /\ next.step = "test"
      BY <1>2, <1>12
    <2>2. next.check = check /\ next.metadata = Metadata(package)
      BY <1>12
    <2>3. QED BY <2>1, <2>2
  <1>16. Stands(at2, path) /\ Fresh(at2, touched, path, package)
    <2>1. at2[path].fault = package.fault
      BY <1>6, <1>11, CargoLeaves
    <2>2. QED BY <1>4, <1>5, <1>11, <2>1 DEF Fresh
  <1>17. Explained(touched, path, next)
    BY <1>15, VerdictsTell DEF Explained, Metadata
  <1>18. next.check => at2[path].lock = "current"
    <2>1. ASSUME check
          PROVE  package.fault # "manifest" /\ (locked => package.lock = "current")
      BY <1>7, <2>1, VerdictsTell DEF Workspace
    <2>2. QED BY <1>11, <1>15, <2>1, CargoLeaves
  <1>19. JobIs(at2, touched, next)
    BY <1>14, <1>15, <1>16, <1>17, <1>18 DEF JobIs
  <1>20. job' = [job EXCEPT ![w] = next]
    BY <1>8, <1>12
  <1>21. Probed(at2, job', kept')
    BY <1>1, <1>3, <1>4, <1>11, <1>20, ProbedLasts
  <1>22. QED BY <1>3, <1>10, <1>11, <1>19, <1>20, <1>21, GithubMoves

LEMMA PrepareTestKeeps ==
  ASSUME RepoDiscoveryAssumption, GithubInv, NEW w \in Worker, PrepareTest(w)
  PROVE  GithubInv'
  <1>1. PICK k : k = job[w]
    OBVIOUS
  <1>2. PICK path : path = k.case.path
    OBVIOUS
  <1>3. k.step = "test" /\ UNCHANGED <<manifests, touched, kept>>
    BY <1>1 DEF PrepareTest, Doing
  <1>4. /\ k \in Testing(space, touched) /\ space \in Spaces /\ DOMAIN job = Worker
        /\ Probed(space, job, kept) /\ Stands(space, path)
        /\ Fresh(space, touched, path, k.seen) /\ Explained(touched, path, k)
        /\ k.check => path \in touched \/ space[path].lock = "current"
    BY <1>1, <1>2, <1>3, JobAt, JobShapes
  <1>5. /\ k.case \in Case /\ k.cases \in Seq(Case) /\ k.results \in Seq(Result(space, touched))
        /\ path \in Path /\ path = PathOf[k.case.repo] /\ k.case.repo \in Range(Repo)
        /\ k.seen \in Workspace /\ k.metadata \in BOOLEAN /\ k.check \in BOOLEAN
    BY <1>2, <1>4 DEF Testing, Case
  <1>6. PICK package \in Workspace : package = space[path]
    BY <1>4 DEF Stands
  <1>7. PICK locked \in BOOLEAN : locked = (package.lock # "none")
    OBVIOUS
  <1>8. PICK test \in Verdicts(package, "test", locked) :
          job' = [job EXCEPT ![w] = Prepared(k.cases, Append(k.results,
            [repo |-> k.case.repo, path |-> path, error |-> FALSE, seen |-> k.seen,
             metadata |-> k.metadata, check |-> k.check, test |-> test]))]
    BY <1>1, <1>2, <1>6, <1>7 DEF PrepareTest, Turn
  <1>9. PICK at2 : at2 = Put(space, path, AfterCargo(space[path], locked))
    OBVIOUS
  <1>10. space' = at2
    BY <1>1, <1>2, <1>6, <1>7, <1>9 DEF PrepareTest, Put
  <1>11. /\ at2 \in Spaces /\ (\A by : Lasts(space, by, at2, by))
         /\ \A q \in Path : Stands(space, q) => Stands(at2, q)
         /\ \A q \in Path : Lies(at2, q) /\ at2[q].probe => Lies(space, q) /\ space[q].probe
    BY <1>4, <1>5, <1>6, <1>9, CargoRuns
  <1>12. PICK r : r = [repo |-> k.case.repo, path |-> path, error |-> FALSE, seen |-> k.seen,
                       metadata |-> k.metadata, check |-> k.check, test |-> test]
    OBVIOUS
  <1>13. /\ r \in LookedAt /\ r.repo = k.case.repo /\ r.path = path /\ r.seen = k.seen
    BY <1>5, <1>12, VerdictsTell DEF LookedAt
  <1>14. r.metadata = k.metadata /\ r.check = k.check /\ r.test = test
    BY <1>12
  <1>15. Fresh(at2, touched, path, r.seen)
    BY <1>4, <1>5, <1>11, <1>13, FreshLasts
  <1>16. Explained(touched, path, r)
    BY <1>4, <1>13, <1>14 DEF Explained
  <1>17. ASSUME k.check, ~test, path \notin touched
         PROVE  k.seen.fault \in {"tests", "flaky"}
    <2>1. package.fault = k.seen.fault /\ package.lock = "current"
      BY <1>4, <1>6, <1>17 DEF Fresh
    <2>2. k.seen.fault \notin {"manifest", "build"}
      BY <1>4, <1>17 DEF Explained
    <2>3. k.seen.fault # "nothing"
      BY <1>17, <2>1, VerdictsTell
    <2>4. QED BY <1>5, <2>2, <2>3 DEF Workspace, Fault
  <1>18. r \in Result(at2, touched)
    <2>1. r.check /\ ~r.test => r.path \in touched \/ r.seen.fault \in {"tests", "flaky"}
      BY <1>13, <1>14, <1>17
    <2>2. QED BY <1>5, <1>13, <1>15, <1>16, <2>1 DEF Result, LookedResult
  <1>19. Append(k.results, r) \in Seq(Result(at2, touched))
    <2>1. k.results \in Seq(Result(at2, touched))
      BY <1>5, <1>11, KnownLasts
    <2>2. QED BY <1>18, <2>1
  <1>20. PICK next : next = Prepared(k.cases, Append(k.results, r))
    OBVIOUS
  <1>21. JobIs(at2, touched, next)
    BY <1>5, <1>19, <1>20, PreparedIs
  <1>22. job' = [job EXCEPT ![w] = next]
    BY <1>8, <1>12, <1>20
  <1>23. Probed(at2, job', kept')
    BY <1>1, <1>3, <1>4, <1>11, <1>22, ProbedLasts
  <1>24. QED BY <1>3, <1>10, <1>11, <1>21, <1>22, <1>23, GithubMoves

(* An end that the package explains. *)
Explains(at, by, c, end) ==
  \/ c.path \in by
  \/ /\ Stands(at, c.path) /\ end # "missing"
     /\ end = "unreproducible" => at[c.path].fault = "flaky" \/ c.seen.lock = "stale"
     /\ end = "success" => at[c.path].fault = "flaky"

EndOf(at, c, end) == [case |-> c, end |-> end, on |-> at[c.path]]

LEMMA EndIs ==
  ASSUME RepoDiscoveryAssumption, NEW at \in Spaces, NEW by, NEW c \in ReadyCase(at, by),
         NEW end \in {"missing", "unreproducible", "success", "rolled back"},
         Explains(at, by, c, end)
  PROVE  EndOf(at, c, end) \in Ended(at, by)
  <1>1. PICK m : m = EndOf(at, c, end)
    OBVIOUS
  <1>2. c.path \in Path
    BY CasesArePlaces
  <1>3. at[c.path] \in Workspace \cup {NoSpace, Foreign}
    BY <1>2 DEF Spaces
  <1>4. /\ m \in [case : ReadyCase(at, by),
                  end : {"missing", "unreproducible", "success", "rolled back"},
                  on : Workspace \cup {NoSpace, Foreign}]
        /\ m.case = c /\ m.end = end /\ m.on = at[c.path]
    BY <1>1, <1>3 DEF EndOf
  <1>5. ASSUME c.path \notin by
        PROVE  m.on.repo = m.case.repo
               \/ \E r \in Range(Repo) \ {m.case.repo} : PathOf[r] = m.case.path
    <2>1. at[c.path] \in Workspace
      BY <1>5 DEF Explains, Stands
    <2>2. at[c.path].repo \in Range(Repo) /\ PathOf[at[c.path].repo] = c.path
      BY <1>2, <2>1 DEF Spaces, Lies, Workspace
    <2>3. QED BY <1>4, <2>2
  <1>6. c.path \in by \/ IsTrue(m)
    BY <1>4, <1>5 DEF Explains, IsTrue
  <1>7. QED BY <1>1, <1>4, <1>6 DEF Ended

LEMMA SettledIs ==
  ASSUME RepoDiscoveryAssumption, NEW at \in Spaces, NEW by, NEW c \in ReadyCase(at, by),
         NEW cases \in Seq(ReadyCase(at, by)), NEW results \in Seq(Ended(at, by)),
         NEW end \in {"missing", "unreproducible", "success", "rolled back"},
         Explains(at, by, c, end), NEW at2, Lasts(at, by, at2, by)
  PROVE  /\ JobIs(at2, by, Batched(cases, Append(results, EndOf(at, c, end))))
         /\ Batched(cases, Append(results, EndOf(at, c, end))).step \in {"reproduce", "write"}
  <1>1. PICK m : m = EndOf(at, c, end)
    OBVIOUS
  <1>2. m \in Ended(at2, by) /\ cases \in Seq(ReadyCase(at2, by)) /\ results \in Seq(Ended(at2, by))
    <2>1. m \in Ended(at, by)
      BY <1>1, EndIs
    <2>2. /\ Ended(at, by) \subseteq Ended(at2, by)
          /\ Seq(ReadyCase(at, by)) \subseteq Seq(ReadyCase(at2, by))
          /\ Seq(Ended(at, by)) \subseteq Seq(Ended(at2, by))
      BY KnownLasts
    <2>3. QED BY <2>1, <2>2
  <1>3. Append(results, m) \in Seq(Ended(at2, by))
    BY <1>2, AppendIn
  <1>4. QED BY <1>1, <1>2, <1>3, BatchedIs

(* What a batch knows of the case it is in. *)
LEMMA TryingIs ==
  ASSUME RepoDiscoveryAssumption, GithubInv, NEW w \in Worker,
         job[w].step \in {"reproduce", "probe", "validate", "rerun", "remove"}
  PROVE  /\ job[w].case \in ReadyCase(space, touched) /\ job[w].case.path \in Path
         /\ job[w].cases \in Seq(ReadyCase(space, touched))
         /\ job[w].results \in Seq(Ended(space, touched))
         /\ job[w].case.type \in {"check", "test"}
         /\ Fresh(space, touched, job[w].case.path, job[w].case.seen)
         /\ job[w].case.type = "check" =>
              job[w].case.seen.fault \in {"manifest", "build"} \/ job[w].case.seen.lock = "stale"
         /\ job[w].case.type = "test" =>
              job[w].case.path \in touched \/ job[w].case.seen.fault \in {"tests", "flaky"}
         /\ job[w].step # "reproduce" =>
              /\ Stands(space, job[w].case.path)
              /\ job[w].case.path \in touched
                 \/ FailsAnyway(space[job[w].case.path].fault, job[w].case.type)
  <1>1. PICK k : k = job[w]
    OBVIOUS
  <1>2. /\ k.case \in ReadyCase(space, touched)
        /\ k.cases \in Seq(ReadyCase(space, touched))
        /\ k.results \in Seq(Ended(space, touched))
        /\ k.step # "reproduce" =>
             /\ Stands(space, k.case.path)
             /\ k.case.path \in touched \/ FailsAnyway(space[k.case.path].fault, k.case.type)
    BY <1>1, JobAt, JobShapes
  <1>3. PICK c \in ReadyCase(space, touched) : c = k.case
    BY <1>2
  <1>4. /\ c.path \in Path /\ c.type \in {"check", "test"}
        /\ Fresh(space, touched, c.path, c.seen)
        /\ c.type = "check" => c.seen.fault \in {"manifest", "build"} \/ c.seen.lock = "stale"
        /\ c.type = "test" => c.path \in touched \/ c.seen.fault \in {"tests", "flaky"}
    BY DEF ReadyCase
  <1>5. QED BY <1>1, <1>2, <1>3, <1>4

LEMMA MissingKeeps ==
  ASSUME RepoDiscoveryAssumption, GithubInv, NEW w \in Worker, Missing(w)
  PROVE  GithubInv'
  <1>1. PICK k : k = job[w]
    OBVIOUS
  <1>2. k.step = "reproduce" /\ ~HasToml(k.case.path)
        /\ UNCHANGED <<manifests, space, touched, kept>>
    BY <1>1 DEF Missing, Doing
  <1>3. /\ k.case \in ReadyCase(space, touched) /\ k.case.path \in Path
        /\ k.cases \in Seq(ReadyCase(space, touched)) /\ k.results \in Seq(Ended(space, touched))
        /\ Fresh(space, touched, k.case.path, k.case.seen)
        /\ space \in Spaces
    BY <1>1, <1>2, TryingIs, JobAt
  <1>4. ~ Stands(space, k.case.path)
    BY <1>2, GithubBenchAssumption DEF HasToml, IsProject, Stands, GithubBenchAssumption
  <1>5. Explains(space, touched, k.case, "missing")
    BY <1>3, <1>4 DEF Explains, Fresh
  <1>6. PICK next : next = Batched(k.cases, Append(k.results, EndOf(space, k.case, "missing")))
    OBVIOUS
  <1>7. JobIs(space, touched, next)
    BY <1>3, <1>5, <1>6, NothingMoves, SettledIs
  <1>8. job' = [job EXCEPT ![w] = next]
    BY <1>1, <1>6 DEF Missing, Settled, Turn, EndOf
  <1>9. QED BY <1>1, <1>2, <1>7, <1>8, GithubPlans

LEMMA RunIs ==
  ASSUME GithubInv, NEW w \in Worker, NEW path \in Path, path = job[w].case.path,
         Stands(space, path), Run(w)
  PROVE  /\ space' \in Spaces /\ Lasts(space, touched, space', touched)
         /\ \A q \in Path : Stands(space, q) => Stands(space', q)
         /\ \A q \in Path : Lies(space', q) /\ space'[q].probe => Lies(space, q) /\ space[q].probe
         /\ space'[path].fault = space[path].fault
         /\ UNCHANGED <<manifests, touched>>
  <1>1. space \in Spaces /\ space[path] \in Workspace
    BY DEF GithubInv, Stands
  <1>2. PICK at2 : at2 = Put(space, path, AfterCargo(space[path], FALSE))
    OBVIOUS
  <1>3. /\ at2 \in Spaces /\ (\A by : Lasts(space, by, at2, by))
        /\ at2[path] = AfterCargo(space[path], FALSE)
        /\ \A q \in Path : Stands(space, q) => Stands(at2, q)
        /\ \A q \in Path : Lies(at2, q) /\ at2[q].probe => Lies(space, q) /\ space[q].probe
    BY <1>1, <1>2, CargoRuns
  <1>4. at2[path].fault = space[path].fault
    BY <1>1, <1>3, CargoLeaves
  <1>5. space' = at2 /\ UNCHANGED <<manifests, touched>>
    BY <1>2 DEF Run, Put
  <1>6. QED BY <1>3, <1>4, <1>5

LEMMA ReproduceKeeps ==
  ASSUME RepoDiscoveryAssumption, GithubInv, NEW w \in Worker, Reproduce(w)
  PROVE  GithubInv'
  <1>1. PICK k : k = job[w]
    OBVIOUS
  <1>2. PICK c : c = k.case
    OBVIOUS
  <1>3. k.step = "reproduce" /\ HasToml(c.path) /\ Run(w) /\ kept' = kept
    BY <1>1, <1>2 DEF Reproduce, Doing
  <1>4. /\ c \in ReadyCase(space, touched) /\ c.path \in Path /\ c.type \in {"check", "test"}
        /\ k.cases \in Seq(ReadyCase(space, touched)) /\ k.results \in Seq(Ended(space, touched))
        /\ Fresh(space, touched, c.path, c.seen)
        /\ c.type = "check" => c.seen.fault \in {"manifest", "build"} \/ c.seen.lock = "stale"
        /\ c.type = "test" => c.path \in touched \/ c.seen.fault \in {"tests", "flaky"}
    BY <1>1, <1>2, <1>3, TryingIs
  <1>5. /\ space \in Spaces /\ DOMAIN job = Worker /\ Probed(space, job, kept)
        /\ k \in Trying(space, touched)
    BY <1>1, <1>3, JobAt, JobShapes
  <1>6. Stands(space, c.path)
    BY <1>3, <1>4, <1>5 DEF HasToml, IsProject, Stands, Spaces
  <1>7. /\ space' \in Spaces /\ Lasts(space, touched, space', touched)
        /\ \A q \in Path : Stands(space, q) => Stands(space', q)
        /\ \A q \in Path : Lies(space', q) /\ space'[q].probe => Lies(space, q) /\ space[q].probe
        /\ space'[c.path].fault = space[c.path].fault
        /\ UNCHANGED <<manifests, touched>>
    BY <1>1, <1>2, <1>3, <1>4, <1>6, RunIs
  <1>8. PICK passed \in Verdicts(space[c.path], c.type, FALSE) :
          IF passed THEN Settled(w, "unreproducible")
          ELSE job' = [job EXCEPT ![w] = [k EXCEPT !.step = "probe"]]
    BY <1>1, <1>2 DEF Reproduce, Outcomes, Turn
  <1>9. space[c.path] \in Workspace
    BY <1>6 DEF Stands
  <1>10. PICK next : next = IF passed
                              THEN Batched(k.cases, Append(k.results, EndOf(space, c, "unreproducible")))
                              ELSE [k EXCEPT !.step = "probe"]
    OBVIOUS
  <1>11. job' = [job EXCEPT ![w] = next]
    BY <1>1, <1>2, <1>8, <1>10 DEF Settled, Turn, EndOf
  <1>12. JobIs(space', touched, next)
    <2>1. CASE passed
      <3>1. Explains(space, touched, c, "unreproducible")
        <4>1. ~FailsAnyway(space[c.path].fault, c.type) \/ space[c.path].fault = "flaky"
          BY <1>4, <1>8, <1>9, <2>1, FailuresTell
        <4>2. QED BY <1>4, <1>6, <4>1 DEF Explains, Fresh, FailsAnyway
      <3>2. QED BY <1>4, <1>5, <1>7, <1>10, <2>1, <3>1, SettledIs
    <2>2. CASE ~passed
      <3>1. FailsAnyway(space'[c.path].fault, c.type)
        BY <1>4, <1>7, <1>8, <1>9, <2>2, FailuresTell
      <3>2. next = [k EXCEPT !.step = "probe"]
        BY <1>10, <2>2
      <3>3. k \in Trying(space', touched)
        BY <1>5, <1>7, KnownLasts DEF Trying
      <3>4. next \in Trying(space', touched) /\ next.case = c
        BY <1>2, <3>2, <3>3 DEF Trying
      <3>5. QED BY <1>4, <1>6, <1>7, <3>1, <3>4 DEF JobIs
    <2>3. QED BY <2>1, <2>2
  <1>13. Probed(space', job', kept')
    BY <1>1, <1>3, <1>5, <1>7, <1>11, ProbedLasts
  <1>14. QED BY <1>7, <1>11, <1>12, <1>13, GithubMoves

LEMMA ValidateKeeps ==
  ASSUME RepoDiscoveryAssumption, GithubInv, NEW w \in Worker, Validate(w)
  PROVE  GithubInv'
  <1>1. PICK k : k = job[w]
    OBVIOUS
  <1>2. PICK c : c = k.case
    OBVIOUS
  <1>3. k.step = "validate" /\ Run(w) /\ kept' = kept
    BY <1>1 DEF Validate, Doing
  <1>4. /\ c \in ReadyCase(space, touched) /\ c.path \in Path
        /\ k.cases \in Seq(ReadyCase(space, touched)) /\ k.results \in Seq(Ended(space, touched))
        /\ Stands(space, c.path)
        /\ c.path \in touched \/ FailsAnyway(space[c.path].fault, c.type)
    BY <1>1, <1>2, <1>3, TryingIs
  <1>5. DOMAIN job = Worker /\ Probed(space, job, kept)
    BY JobAt
  <1>6. /\ space' \in Spaces /\ Lasts(space, touched, space', touched)
        /\ \A q \in Path : Stands(space, q) => Stands(space', q)
        /\ \A q \in Path : Lies(space', q) /\ space'[q].probe => Lies(space, q) /\ space[q].probe
        /\ space'[c.path].fault = space[c.path].fault
        /\ UNCHANGED <<manifests, touched>>
    BY <1>1, <1>2, <1>3, <1>4, RunIs
  <1>7. PICK command : command = IF c.type = "check" THEN "check" ELSE "probe"
    OBVIOUS
  <1>8. PICK passed \in Verdicts(space[c.path], command, FALSE) :
          job' = [job EXCEPT ![w] =
            [step |-> "rerun", case |-> c, cases |-> k.cases, results |-> k.results,
             valid |-> passed]]
    BY <1>1, <1>2, <1>7 DEF Validate, Outcomes, Turn
  <1>9. passed \in BOOLEAN
    BY <1>4, VerdictsAre DEF Stands
  <1>10. PICK next : next = [step |-> "rerun", case |-> c, cases |-> k.cases,
                             results |-> k.results, valid |-> passed]
    OBVIOUS
  <1>11. next \in Rerunning(space', touched) /\ next.case = c /\ next.step = "rerun"
    <2>1. /\ c \in ReadyCase(space', touched) /\ k.cases \in Seq(ReadyCase(space', touched))
          /\ k.results \in Seq(Ended(space', touched))
      BY <1>4, <1>6, KnownLasts
    <2>2. QED BY <1>9, <1>10, <2>1 DEF Rerunning
  <1>12. JobIs(space', touched, next)
    BY <1>4, <1>6, <1>11 DEF JobIs
  <1>13. job' = [job EXCEPT ![w] = next]
    BY <1>8, <1>10
  <1>14. Probed(space', job', kept')
    BY <1>1, <1>2, <1>3, <1>5, <1>6, <1>11, <1>13, ProbedLasts
  <1>15. QED BY <1>6, <1>12, <1>13, <1>14, GithubMoves

LEMMA RerunKeeps ==
  ASSUME RepoDiscoveryAssumption, GithubInv, NEW w \in Worker, Rerun(w)
  PROVE  GithubInv'
  <1>1. PICK k : k = job[w]
    OBVIOUS
  <1>2. PICK c : c = k.case
    OBVIOUS
  <1>3. k.step = "rerun" /\ Run(w)
    BY <1>1 DEF Rerun, Doing
  <1>4. /\ c \in ReadyCase(space, touched) /\ c.path \in Path /\ c.type \in {"check", "test"}
        /\ k.cases \in Seq(ReadyCase(space, touched)) /\ k.results \in Seq(Ended(space, touched))
        /\ Stands(space, c.path)
        /\ c.path \in touched \/ FailsAnyway(space[c.path].fault, c.type)
    BY <1>1, <1>2, <1>3, TryingIs
  <1>5. /\ space \in Spaces /\ DOMAIN job = Worker /\ Probed(space, job, kept)
        /\ k \in Rerunning(space, touched)
    BY <1>1, <1>3, JobAt, JobShapes
  <1>6. /\ space' \in Spaces /\ Lasts(space, touched, space', touched)
        /\ \A q \in Path : Stands(space, q) => Stands(space', q)
        /\ \A q \in Path : Lies(space', q) /\ space'[q].probe => Lies(space, q) /\ space[q].probe
        /\ space'[c.path].fault = space[c.path].fault
        /\ UNCHANGED <<manifests, touched>>
    BY <1>1, <1>2, <1>3, <1>4, RunIs
  <1>7. PICK passed \in Verdicts(space[c.path], c.type, FALSE) :
          IF passed /\ k.valid THEN Keep(w, "success") ELSE RollBack(w)
    BY <1>1, <1>2 DEF Rerun, Outcomes
  <1>8. CASE passed /\ k.valid
    <2>1. PICK next : next = Batched(k.cases, Append(k.results, EndOf(space, c, "success")))
      OBVIOUS
    <2>2. job' = [job EXCEPT ![w] = next] /\ kept' = kept \cup {c.path}
      BY <1>1, <1>2, <1>7, <1>8, <2>1 DEF Keep, Settled, Turn, EndOf
    <2>3. Explains(space, touched, c, "success")
      <3>1. ~FailsAnyway(space[c.path].fault, c.type) \/ space[c.path].fault = "flaky"
        BY <1>4, <1>7, <1>8, FailuresTell DEF Stands
      <3>2. QED BY <1>4, <3>1 DEF Explains
    <2>4. JobIs(space', touched, next)
      BY <1>4, <1>5, <1>6, <2>1, <2>3, SettledIs
    <2>5. Probed(space', job', kept')
      BY <1>1, <1>2, <1>5, <1>6, <2>2, ProbedLasts
    <2>6. QED BY <1>6, <2>2, <2>4, <2>5, GithubMoves
  <1>9. CASE ~(passed /\ k.valid)
    <2>1. PICK next : next = [k EXCEPT !.step = "remove"]
      OBVIOUS
    <2>2. job' = [job EXCEPT ![w] = next] /\ kept' = kept
      BY <1>1, <1>7, <1>9, <2>1 DEF RollBack, Turn
    <2>3. k \in Rerunning(space', touched)
      BY <1>5, <1>6, KnownLasts DEF Rerunning
    <2>4. next \in Rerunning(space', touched) /\ next.case = c /\ next.step = "remove"
      BY <1>2, <2>1, <2>3 DEF Rerunning
    <2>5. JobIs(space', touched, next)
      BY <1>4, <1>6, <2>4 DEF JobIs
    <2>6. Probed(space', job', kept')
      BY <1>1, <1>2, <1>5, <1>6, <2>2, <2>4, ProbedLasts
    <2>7. QED BY <1>6, <2>2, <2>5, <2>6, GithubMoves
  <1>10. QED BY <1>8, <1>9

WithProbe(package, probe) == [package EXCEPT !.probe = probe]

(* The probe is put into a package, or taken out of it. *)
LEMMA ProbeSets ==
  ASSUME NEW at \in Spaces, NEW path \in Path, Stands(at, path), NEW probe \in BOOLEAN
  PROVE  LET at2 == Put(at, path, WithProbe(at[path], probe)) IN
         /\ at2 \in Spaces /\ (\A by : Lasts(at, by, at2, by))
         /\ \A q \in Path : Stands(at, q) => Stands(at2, q)
         /\ at2[path].probe <=> probe
         /\ at2[path].fault = at[path].fault
  <1>1. PICK package : package = WithProbe(at[path], probe)
    OBVIOUS
  <1>2. at[path] \in Workspace /\ at[path].toml /\ PathOf[at[path].repo] = path
    BY DEF Stands, Spaces, Lies
  <1>3. /\ package \in Workspace /\ package.repo = at[path].repo
        /\ package.fault = at[path].fault /\ package.toml = at[path].toml
        /\ package.lock = at[path].lock /\ package.probe = probe
    BY <1>1, <1>2 DEF Workspace, WithProbe
  <1>4. Same(at[path], package) /\ PathOf[package.repo] = path
    BY <1>2, <1>3 DEF Same
  <1>5. /\ Put(at, path, package) \in Spaces
        /\ \A by : Lasts(at, by, Put(at, path, package), by)
        /\ Put(at, path, package)[path] = package
        /\ \A q \in Path : Stands(at, q) => Stands(Put(at, path, package), q)
        /\ \A q \in Path \ {path} : Put(at, path, package)[q] = at[q]
    BY <1>3, <1>4, SpaceChanges
  <1>6. Put(at, path, package)[path].probe <=> probe
    BY <1>3, <1>5
  <1>7. Put(at, path, package)[path].fault = at[path].fault
    BY <1>3, <1>5
  <1>8. QED BY <1>1, <1>5, <1>6, <1>7

LEMMA ProbeKeeps ==
  ASSUME RepoDiscoveryAssumption, GithubInv, NEW w \in Worker, Probe(w)
  PROVE  GithubInv'
  <1>1. PICK k : k = job[w]
    OBVIOUS
  <1>2. PICK c : c = k.case
    OBVIOUS
  <1>3. k.step = "probe" /\ UNCHANGED <<manifests, touched, kept>>
    BY <1>1 DEF Probe, Doing
  <1>4. /\ c \in ReadyCase(space, touched) /\ c.path \in Path
        /\ Stands(space, c.path)
        /\ c.path \in touched \/ FailsAnyway(space[c.path].fault, c.type)
    BY <1>1, <1>2, <1>3, TryingIs
  <1>5. /\ space \in Spaces /\ DOMAIN job = Worker /\ Probed(space, job, kept)
        /\ k \in Trying(space, touched)
    BY <1>1, <1>3, JobAt, JobShapes
  <1>6. PICK at2 : at2 = Put(space, c.path, WithProbe(space[c.path], TRUE))
    OBVIOUS
  <1>7. /\ at2 \in Spaces /\ (\A by : Lasts(space, by, at2, by))
        /\ \A q \in Path : Stands(space, q) => Stands(at2, q)
        /\ \A q \in Path : q # c.path => at2[q] = space[q]
        /\ at2[c.path].fault = space[c.path].fault
    <2>1. at2 \in Spaces /\ (\A by : Lasts(space, by, at2, by))
      BY <1>4, <1>5, <1>6, ProbeSets
    <2>2. \A q \in Path : Stands(space, q) => Stands(at2, q)
      BY <1>4, <1>5, <1>6, ProbeSets
    <2>3. \A q \in Path : q # c.path => at2[q] = space[q]
      BY <1>5, <1>6 DEF Put, Spaces
    <2>4. at2[c.path].fault = space[c.path].fault
      BY <1>4, <1>5, <1>6, ProbeSets
    <2>5. QED BY <2>1, <2>2, <2>3, <2>4
  <1>8. space' = at2
    BY <1>1, <1>2, <1>6 DEF Probe, Put, WithProbe
  <1>9. PICK next : next = [k EXCEPT !.step = "validate"]
    OBVIOUS
  <1>10. job' = [job EXCEPT ![w] = next]
    BY <1>1, <1>9 DEF Probe, Turn
  <1>11. k \in Trying(at2, touched)
    BY <1>5, <1>7, KnownLasts DEF Trying
  <1>12. next \in Trying(at2, touched) /\ next.case = c /\ next.step = "validate"
    BY <1>2, <1>9, <1>11 DEF Trying
  <1>13. JobIs(at2, touched, next)
    BY <1>4, <1>7, <1>12 DEF JobIs
  <1>14. Probed(at2, job', kept')
    <2>1. SUFFICES ASSUME NEW path \in Path, Lies(at2, path), at2[path].probe
                   PROVE  \/ path \in kept
                          \/ \E u \in Worker : job'[u].step \in {"validate", "rerun", "remove"}
                                               /\ job'[u].case.path = path
      BY <1>3 DEF Probed
    <2>2. \A u \in Worker : job'[u] = IF u = w THEN next ELSE job[u]
      BY <1>5, <1>10
    <2>3. CASE path = c.path
      BY <1>12, <2>2, <2>3
    <2>4. CASE path # c.path
      <3>1. path \in kept \/ \E u \in Worker : job[u].step \in {"validate", "rerun", "remove"}
                                               /\ job[u].case.path = path
        BY <1>5, <1>7, <2>1, <2>4 DEF Probed, Lies
      <3>2. QED BY <1>1, <1>3, <2>2, <3>1
    <2>5. QED BY <2>3, <2>4
  <1>15. QED BY <1>3, <1>7, <1>8, <1>10, <1>13, <1>14, GithubMoves

LEMMA RemoveProbeKeeps ==
  ASSUME RepoDiscoveryAssumption, GithubInv, NEW w \in Worker, RemoveProbe(w)
  PROVE  GithubInv'
  <1>1. PICK k : k = job[w]
    OBVIOUS
  <1>2. PICK c : c = k.case
    OBVIOUS
  <1>3. k.step = "remove" /\ UNCHANGED <<manifests, touched, kept>>
    BY <1>1 DEF RemoveProbe, Doing
  <1>4. /\ c \in ReadyCase(space, touched) /\ c.path \in Path
        /\ k.cases \in Seq(ReadyCase(space, touched)) /\ k.results \in Seq(Ended(space, touched))
        /\ Stands(space, c.path)
    BY <1>1, <1>2, <1>3, TryingIs
  <1>5. space \in Spaces /\ DOMAIN job = Worker /\ Probed(space, job, kept)
    BY JobAt
  <1>6. PICK at2 : at2 = Put(space, c.path, WithProbe(space[c.path], FALSE))
    OBVIOUS
  <1>7. /\ at2 \in Spaces /\ (\A by : Lasts(space, by, at2, by))
        /\ \A q \in Path : Stands(space, q) => Stands(at2, q)
        /\ \A q \in Path : q # c.path => at2[q] = space[q]
        /\ ~at2[c.path].probe
    <2>1. at2 \in Spaces /\ (\A by : Lasts(space, by, at2, by))
      BY <1>4, <1>5, <1>6, ProbeSets
    <2>2. \A q \in Path : Stands(space, q) => Stands(at2, q)
      BY <1>4, <1>5, <1>6, ProbeSets
    <2>3. \A q \in Path : q # c.path => at2[q] = space[q]
      BY <1>5, <1>6 DEF Put, Spaces
    <2>4. ~at2[c.path].probe
      BY <1>4, <1>5, <1>6, ProbeSets
    <2>5. QED BY <2>1, <2>2, <2>3, <2>4
  <1>8. space' = at2
    BY <1>1, <1>2, <1>6 DEF RemoveProbe, Put, WithProbe
  <1>9. PICK next : next = Batched(k.cases, Append(k.results, EndOf(space, c, "rolled back")))
    OBVIOUS
  <1>10. job' = [job EXCEPT ![w] = next]
    BY <1>1, <1>2, <1>9 DEF RemoveProbe, Settled, Turn, EndOf
  <1>11. JobIs(at2, touched, next)
    <2>1. Explains(space, touched, c, "rolled back")
      BY <1>4 DEF Explains
    <2>2. QED BY <1>4, <1>5, <1>7, <1>9, <2>1, SettledIs
  <1>12. \A q \in Path : Lies(at2, q) /\ at2[q].probe => Lies(space, q) /\ space[q].probe
    BY <1>7 DEF Lies
  <1>13. Probed(at2, job', kept')
    BY <1>1, <1>2, <1>3, <1>5, <1>7, <1>10, <1>12, ProbedLasts
  <1>14. QED BY <1>3, <1>7, <1>8, <1>10, <1>11, <1>13, GithubMoves

LEMMA FiledIs ==
  ASSUME NEW at, NEW by, NEW files, Filed(at, by, files), NEW file \in DOMAIN files,
         NEW value, MayHold(at, by, file, value)
  PROVE  Filed(at, by, [files EXCEPT ![file] = value])
  BY DEF Filed

LEMMA OutputIs ==
  ASSUME NEW file, NEW value
  PROVE  Output(file, value).file = file /\ Output(file, value).value = value
  BY DEF Output

(* The first of the files that are to be written may be, and the others are left to be written. *)
LEMMA WritesOne ==
  ASSUME NEW at, NEW by, NEW outputs, Writes(at, by, outputs)
  PROVE  /\ Head(outputs).file \in {"cases", "prepared", "ready", "report"}
         /\ MayHold(at, by, Head(outputs).file, Head(outputs).value)
         /\ Tail(outputs) = <<>> \/ Writes(at, by, Tail(outputs))
  <1>1. CASE \E cases \in Seq(Case) : outputs = <<Output("cases", cases)>>
    <2>1. PICK cases \in Seq(Case) : outputs = <<Output("cases", cases)>>
      BY <1>1
    <2>2. PICK o : o = Output("cases", cases)
      OBVIOUS
    <2>3. Head(outputs) = o /\ Tail(outputs) = <<>> /\ o.file = "cases" /\ o.value = cases
      BY <2>1, <2>2, OutputIs
    <2>4. QED BY <2>3 DEF MayHold
  <1>2. CASE \E prepared : \E ready \in Seq(ReadyCase(at, by)) :
               outputs = <<Output("prepared", prepared), Output("ready", ready)>>
    <2>1. PICK prepared : \E ready \in Seq(ReadyCase(at, by)) :
               outputs = <<Output("prepared", prepared), Output("ready", ready)>>
      BY <1>2
    <2>2. PICK ready \in Seq(ReadyCase(at, by)) :
               outputs = <<Output("prepared", prepared), Output("ready", ready)>>
      BY <2>1
    <2>3. PICK o, other : o = Output("prepared", prepared) /\ other = Output("ready", ready)
      OBVIOUS
    <2>4. Head(outputs) = o /\ Tail(outputs) = <<other>> /\ o.file = "prepared"
      BY <2>2, <2>3, OutputIs
    <2>5. Writes(at, by, Tail(outputs))
      BY <2>3, <2>4 DEF Writes
    <2>6. QED BY <2>4, <2>5 DEF MayHold
  <1>3. CASE \E ready \in Seq(ReadyCase(at, by)) : outputs = <<Output("ready", ready)>>
    <2>1. PICK ready \in Seq(ReadyCase(at, by)) : outputs = <<Output("ready", ready)>>
      BY <1>3
    <2>2. PICK o : o = Output("ready", ready)
      OBVIOUS
    <2>3. Head(outputs) = o /\ Tail(outputs) = <<>> /\ o.file = "ready" /\ o.value = ready
      BY <2>1, <2>2, OutputIs
    <2>4. QED BY <2>3 DEF MayHold
  <1>4. CASE \E totals : \E ends \in Seq(Ended(at, by)) :
               outputs = <<Output("report", [cases |-> ends, totals |-> totals])>>
    <2>1. PICK totals : \E ends \in Seq(Ended(at, by)) :
               outputs = <<Output("report", [cases |-> ends, totals |-> totals])>>
      BY <1>4
    <2>2. PICK ends \in Seq(Ended(at, by)) :
               outputs = <<Output("report", [cases |-> ends, totals |-> totals])>>
      BY <2>1
    <2>3. PICK value : value = [cases |-> ends, totals |-> totals]
      OBVIOUS
    <2>4. PICK o : o = Output("report", value)
      OBVIOUS
    <2>5. Head(outputs) = o /\ Tail(outputs) = <<>> /\ o.file = "report" /\ o.value = value
      BY <2>2, <2>3, <2>4, OutputIs
    <2>6. MayHold(at, by, "report", value)
      BY <2>3 DEF MayHold
    <2>7. QED BY <2>5, <2>6
  <1>5. QED BY <1>1, <1>2, <1>3, <1>4 DEF Writes

LEMMA WriteFileKeeps ==
  ASSUME RepoDiscoveryAssumption, GithubInv, NEW w \in Worker, WriteFile(w)
  PROVE  GithubInv'
  <1>1. job[w].step = "write" /\ UNCHANGED <<space, touched, kept>>
    BY DEF WriteFile, Doing
  <1>2. PICK outputs : job[w] = Writing(outputs) /\ Writes(space, touched, outputs)
    BY <1>1, JobAt, JobShapes
  <1>3. job[w].outputs = outputs
    BY <1>2 DEF Writing
  <1>4. PICK file, value : file = Head(outputs).file /\ value = Head(outputs).value
    OBVIOUS
  <1>5. PICK next : next = IF Tail(outputs) = <<>> THEN NoJob ELSE Writing(Tail(outputs))
    OBVIOUS
  <1>6. job' = [job EXCEPT ![w] = next] /\ manifests' = [manifests EXCEPT ![file] = value]
    BY <1>3, <1>4, <1>5 DEF WriteFile, Turn
  <1>7. Filed(space, touched, manifests')
    <2>1. Filed(space, touched, manifests)
      BY DEF GithubInv
    <2>2. file \in DOMAIN manifests /\ MayHold(space, touched, file, value)
      BY <1>2, <1>4, <2>1, WritesOne DEF Filed
    <2>3. Filed(space, touched, [manifests EXCEPT ![file] = value])
      BY <2>1, <2>2, FiledIs
    <2>4. QED BY <1>6, <2>3
  <1>8. JobIs(space, touched, next)
    <2>1. CASE Tail(outputs) = <<>>
      BY <1>5, <2>1, NoJobIs
    <2>2. CASE Tail(outputs) # <<>>
      BY <1>2, <1>5, <2>2, WritesOne DEF JobIs
    <2>3. QED BY <2>1, <2>2
  <1>9. Probed(space, job', kept)
    <2>1. Probed(space, job, kept) /\ DOMAIN job = Worker
      BY JobAt
    <2>2. QED BY <1>1, <1>6, <2>1, ProbedLasts
  <1>10. space' \in Spaces /\ Lasts(space, touched, space', touched')
         /\ \A q \in Path : Stands(space, q) => Stands(space', q)
    BY <1>1, JobAt, NothingMoves
  <1>11. QED BY <1>1, <1>6, <1>7, <1>8, <1>9, <1>10, GithubStep

LEMMA StopKeeps ==
  ASSUME RepoDiscoveryAssumption, GithubInv, NEW w \in Worker, Stop(w)
  PROVE  GithubInv'
  <1>1. /\ UNCHANGED <<space, touched>> /\ job' = [job EXCEPT ![w] = NoJob]
        /\ kept \subseteq kept'
        /\ job[w].step \in {"validate", "rerun", "remove"} => job[w].case.path \in kept'
    BY DEF Stop, Turn
  <1>2. Filed(space, touched, manifests')
    <2>1. Filed(space, touched, manifests)
      BY DEF GithubInv
    <2>2. CASE manifests' = manifests
      BY <2>1, <2>2
    <2>3. CASE manifests' # manifests
      <3>1. job[w].step = "write"
            /\ manifests' = [manifests EXCEPT ![Head(job[w].outputs).file] = Broken]
        BY <2>3 DEF Stop, Doing
      <3>2. PICK outputs : job[w] = Writing(outputs) /\ Writes(space, touched, outputs)
        BY <3>1, JobAt, JobShapes
      <3>3. PICK file : file = Head(outputs).file
        OBVIOUS
      <3>4. file \in DOMAIN manifests /\ MayHold(space, touched, file, Broken)
        BY <2>1, <3>2, <3>3, WritesOne DEF Filed, MayHold
      <3>5. manifests' = [manifests EXCEPT ![file] = Broken]
        BY <3>1, <3>2, <3>3 DEF Writing
      <3>6. Filed(space, touched, [manifests EXCEPT ![file] = Broken])
        BY <2>1, <3>4, FiledIs
      <3>7. QED BY <3>5, <3>6
    <2>4. QED BY <2>2, <2>3
  <1>3. Probed(space, job', kept')
    <2>1. Probed(space, job, kept) /\ DOMAIN job = Worker
      BY JobAt
    <2>2. QED BY <1>1, <2>1, ProbedLasts
  <1>4. space' \in Spaces /\ Lasts(space, touched, space', touched')
        /\ \A q \in Path : Stands(space, q) => Stands(space', q)
    BY <1>1, JobAt, NothingMoves
  <1>5. QED BY <1>1, <1>2, <1>3, <1>4, NoJobIs, GithubStep

LEMMA StopCloningKeeps ==
  ASSUME RepoDiscoveryAssumption, GithubBenchAssumption, GithubInv,
         NEW w \in Worker, StopCloning(w)
  PROVE  GithubInv'
  <1>1. PICK case : case = job[w].case
    OBVIOUS
  <1>2. PICK package : package = [toml |-> FALSE, fault |-> "nothing", lock |-> "none"]
    OBVIOUS
  <1>3. /\ job[w].step = "inspect" /\ UNCHANGED <<manifests, touched, kept>>
        /\ space[case.path] = NoSpace /\ job' = [job EXCEPT ![w] = NoJob]
        /\ space' = [space EXCEPT ![case.path] = Cloned(case.repo, package)]
    BY <1>1, <1>2 DEF StopCloning, Doing, Turn
  <1>4. case \in Case
    BY <1>1, <1>3, JobAt, JobShapes DEF Inspecting
  <1>5. package \in Crate
    BY <1>2 DEF Crate, Fault
  <1>6. space \in Spaces /\ Probed(space, job, kept) /\ DOMAIN job = Worker
    BY JobAt
  <1>7. PICK at2 : at2 = Put(space, case.path, Cloned(case.repo, package))
    OBVIOUS
  <1>8. /\ at2 \in Spaces /\ (\A by : Lasts(space, by, at2, by))
        /\ \A q \in Path : Stands(space, q) => Stands(at2, q)
        /\ \A q \in Path : Lies(at2, q) /\ at2[q].probe => Lies(space, q) /\ space[q].probe
    BY <1>3, <1>4, <1>5, <1>6, <1>7, Clones
  <1>9. space' = at2
    BY <1>3, <1>7 DEF Put
  <1>10. Probed(at2, job', kept')
    BY <1>3, <1>6, <1>8, ProbedLasts
  <1>11. QED BY <1>3, <1>8, <1>9, <1>10, NoJobIs, GithubMoves

(* What a developer did is no longer known; what no command is in may be gone. *)
LEMMA WorkOnKeeps ==
  ASSUME RepoDiscoveryAssumption, GithubBenchAssumption, GithubInv, WorkOn
  PROVE  GithubInv'
  <1>1. UNCHANGED <<manifests, job, kept>>
    BY DEF WorkOn
  <1>2. PICK path \in Path :
          /\ IsProject(path)
          /\ \/ /\ \E fault \in Fault : space' = [space EXCEPT ![path].fault = fault]
                \/ space' = [space EXCEPT ![path].lock = "stale"]
             \/ /\ \A w \in Worker : ~Using(w, path)
                /\ space' = [space EXCEPT ![path] = NoSpace]
          /\ touched' = touched \cup {path}
    BY DEF WorkOn
  <1>3. space \in Spaces /\ Probed(space, job, kept) /\ DOMAIN job = Worker
    BY DEF GithubInv
  <1>4. space[path] \in Workspace /\ PathOf[space[path].repo] = path
    BY <1>2, <1>3 DEF IsProject, Spaces, Lies
  <1>5. PICK package :
          /\ space' = [space EXCEPT ![path] = package]
          /\ \/ /\ package \in Workspace /\ package.repo = space[path].repo
                /\ package.toml = space[path].toml /\ package.probe = space[path].probe
             \/ package = NoSpace /\ \A w \in Worker : ~Using(w, path)
    <2>1. ASSUME NEW fault \in Fault, space' = [space EXCEPT ![path].fault = fault]
          PROVE  \E package :
                   /\ space' = [space EXCEPT ![path] = package]
                   /\ package \in Workspace /\ package.repo = space[path].repo
                   /\ package.toml = space[path].toml /\ package.probe = space[path].probe
      <3>1. PICK package : package = [space[path] EXCEPT !.fault = fault]
        OBVIOUS
      <3>2. /\ package \in Workspace /\ package.repo = space[path].repo
            /\ package.toml = space[path].toml /\ package.probe = space[path].probe
        BY <1>4, <3>1 DEF Workspace
      <3>3. space' = [space EXCEPT ![path] = package]
        BY <2>1, <3>1
      <3>4. QED BY <3>2, <3>3
    <2>2. ASSUME space' = [space EXCEPT ![path].lock = "stale"]
          PROVE  \E package :
                   /\ space' = [space EXCEPT ![path] = package]
                   /\ package \in Workspace /\ package.repo = space[path].repo
                   /\ package.toml = space[path].toml /\ package.probe = space[path].probe
      <3>1. PICK package : package = [space[path] EXCEPT !.lock = "stale"]
        OBVIOUS
      <3>2. /\ package \in Workspace /\ package.repo = space[path].repo
            /\ package.toml = space[path].toml /\ package.probe = space[path].probe
        BY <1>4, <3>1 DEF Workspace
      <3>3. space' = [space EXCEPT ![path] = package]
        BY <2>2, <3>1
      <3>4. QED BY <3>2, <3>3
    <2>3. QED BY <1>2, <2>1, <2>2
  <1>6. /\ space' \in [Path -> Workspace \cup {NoSpace, Foreign}] /\ space'[path] = package
        /\ \A q \in Path : q # path => space'[q] = space[q]
    BY <1>3, <1>5 DEF Spaces
  <1>7. space' \in Spaces
    BY <1>3, <1>4, <1>5, <1>6 DEF Spaces, Lies, GithubBenchAssumption
  <1>8. Lasts(space, touched, space', touched')
    BY <1>2, <1>6 DEF Lasts, Stands
  <1>9. ASSUME NEW w \in Worker
        PROVE  JobIs(space', touched', job'[w])
    <2>1. PICK k : k = job[w]
      OBVIOUS
    <2>2. JobIs(space, touched, k) /\ job'[w] = k
      BY <1>1, <2>1, JobAt
    <2>3. ASSUME k.step \notin {"idle", "write"}, Stands(space, k.case.path)
          PROVE  Stands(space', k.case.path)
      <3>1. k.case.path \in Path
        BY <2>2, <2>3, JobPlaces
      <3>2. CASE k.case.path = path
        <4>1. Using(w, path)
          BY <2>1, <2>3, <3>2 DEF Using
        <4>2. package \in Workspace /\ package.toml = space[path].toml
          BY <1>5, <4>1
        <4>3. QED BY <1>6, <2>3, <3>2, <4>2 DEF Stands
      <3>3. CASE k.case.path # path
        BY <1>6, <2>3, <3>1, <3>3 DEF Stands
      <3>4. QED BY <3>2, <3>3
    <2>4. JobIs(space', touched', k)
      BY <1>8, <2>2, <2>3, JobLasts
    <2>5. QED BY <2>2, <2>4
  <1>10. Filed(space', touched', manifests')
    <2>1. Filed(space, touched, manifests)
      BY DEF GithubInv
    <2>2. Filed(space', touched', manifests)
      BY <1>8, <2>1, WrittenLasts
    <2>3. QED BY <1>1, <2>2
  <1>11. Probed(space', job', kept')
    <2>1. \A q \in Path : Lies(space', q) /\ space'[q].probe => Lies(space, q) /\ space[q].probe
      BY <1>4, <1>5, <1>6 DEF Lies, GithubBenchAssumption
    <2>2. QED BY <1>1, <1>3, <2>1 DEF Probed
  <1>12. QED BY <1>1, <1>3, <1>7, <1>9, <1>10, <1>11 DEF GithubInv

LEMMA GithubNextKeeps ==
  ASSUME RepoDiscoveryAssumption, GithubBenchAssumption, GithubInv, [GithubNext]_githubVars
  PROVE  GithubInv'
  <1>1. CASE UNCHANGED githubVars
    BY <1>1 DEF GithubInv, githubVars
  <1>2. CASE WorkOn
    BY <1>2, WorkOnKeeps
  <1>3. ASSUME NEW w \in Worker,
               \/ Discover(w) \/ PrepareBegin(w) \/ Inspect(w) \/ PrepareCheck(w)
               \/ PrepareTest(w) \/ BatchBegin(w) \/ Reproduce(w) \/ Missing(w) \/ Probe(w)
               \/ Validate(w) \/ Rerun(w) \/ RemoveProbe(w) \/ WriteFile(w) \/ Stop(w)
               \/ StopCloning(w)
        PROVE  GithubInv'
    BY <1>3, DiscoverKeeps, PrepareBeginKeeps, InspectKeeps, PrepareCheckKeeps,
       PrepareTestKeeps, BatchBeginKeeps, ReproduceKeeps, MissingKeeps, ProbeKeeps,
       ValidateKeeps, RerunKeeps, RemoveProbeKeeps, WriteFileKeeps, StopKeeps,
       StopCloningKeeps
  <1>4. QED BY <1>1, <1>2, <1>3 DEF GithubNext

LEMMA InitGithub ==
  ASSUME GithubBenchAssumption, GithubInit
  PROVE  GithubInv
  <1>1. space \in Spaces /\ \A path \in Path : ~ Lies(space, path)
    BY DEF GithubInit, Spaces, Lies, GithubBenchAssumption
  <1>2. DOMAIN job = Worker /\ \A w \in Worker : JobIs(space, touched, job[w])
    BY NoJobIs DEF GithubInit
  <1>3. Filed(space, touched, manifests)
    BY DEF GithubInit, Filed, MayHold
  <1>4. QED BY <1>1, <1>2, <1>3 DEF GithubInv, Probed

LEMMA ReportsHold ==
  ASSUME GithubInv
  PROVE  ReportIsTrue
  <1> SUFFICES ASSUME NEW m \in Reported PROVE m.case.path \in touched \/ IsTrue(m)
    BY DEF ReportIsTrue, IsTrue
  <1>1. Readable("report")
    BY DEF Reported
  <1>2. MayHold(space, touched, "report", manifests["report"])
    BY DEF GithubInv, Filed
  <1>3. PICK totals : \E ends \in Seq(Ended(space, touched)) :
          manifests["report"] = [cases |-> ends, totals |-> totals]
    BY <1>1, <1>2 DEF MayHold, Readable
  <1>4. PICK ends \in Seq(Ended(space, touched)) :
          manifests["report"] = [cases |-> ends, totals |-> totals]
    BY <1>3
  <1>5. manifests["report"].cases = ends
    BY <1>4
  <1>6. m \in Range(ends)
    BY <1>1, <1>5 DEF Reported
  <1>7. m \in Ended(space, touched)
    BY <1>6 DEF Range
  <1>8. QED BY <1>7 DEF Ended

LEMMA ProbesHold ==
  ASSUME GithubInv
  PROVE  ProbesAccounted
  BY DEF GithubInv, Probed, ProbesAccounted, Lies, IsProject, Spaces

(* What a benchmark of GitHub's repositories reports is true of every project that nobody
   changed meanwhile, however its commands and a developer interleave and wherever a
   command dies: in particular a fix is only ever reported for a flaky test. *)
THEOREM ReportAlwaysTrue == GithubSpec => []ReportIsTrue
  <1>1. RepoDiscoveryAssumption /\ GithubBenchAssumption
    BY RepoDiscoveryAssumption, GithubBenchAssumption
  <1>2. GithubInit => GithubInv
    BY <1>1, InitGithub
  <1>3. GithubInv /\ [GithubNext]_githubVars => GithubInv'
    BY <1>1, GithubNextKeeps
  <1>4. GithubInv => ReportIsTrue
    BY ReportsHold
  <1>5. QED BY <1>2, <1>3, <1>4, PTL DEF GithubSpec

(* A probe that lies in a workspace is being tried, was taken for a fix, or was left there
   by a batch that was stopped. *)
THEOREM ProbesAlwaysAccounted == GithubSpec => []ProbesAccounted
  <1>1. RepoDiscoveryAssumption /\ GithubBenchAssumption
    BY RepoDiscoveryAssumption, GithubBenchAssumption
  <1>2. GithubInit => GithubInv
    BY <1>1, InitGithub
  <1>3. GithubInv /\ [GithubNext]_githubVars => GithubInv'
    BY <1>1, GithubNextKeeps
  <1>4. GithubInv => ProbesAccounted
    BY ProbesHold
  <1>5. QED BY <1>2, <1>3, <1>4, PTL DEF GithubSpec

-----------------------------------------------------------------------------
(* The doctor and the fixes it suggests *)

LEMMA CodesAre ==
  /\ Suggestible = {"rust_ci_missing", "rust_ci_clippy_missing", "smoke_test_missing",
                    "readme_validation_missing", "readme_usage_missing", "gitignore_target_missing"}
  /\ IsFiniteSet(Suggestible)
  <1>1. Suggestible = {"rust_ci_missing", "rust_ci_clippy_missing", "smoke_test_missing",
                       "readme_validation_missing", "readme_usage_missing", "gitignore_target_missing"}
    BY DEF Suggestible, OnlyOf
  <1>2. IsFiniteSet({"rust_ci_missing"})
    <2>1. {"rust_ci_missing"} = {} \cup {"rust_ci_missing"}
      OBVIOUS
    <2>2. QED BY <2>1, FS_EmptySet, FS_AddElement
  <1>3. IsFiniteSet({"rust_ci_missing"} \cup {"rust_ci_clippy_missing"})
    BY <1>2, FS_AddElement
  <1>4. IsFiniteSet({"rust_ci_missing"} \cup {"rust_ci_clippy_missing"} \cup {"smoke_test_missing"})
    BY <1>3, FS_AddElement
  <1>5. IsFiniteSet({"rust_ci_missing"} \cup {"rust_ci_clippy_missing"} \cup {"smoke_test_missing"}
                    \cup {"readme_validation_missing"})
    BY <1>4, FS_AddElement
  <1>6. IsFiniteSet({"rust_ci_missing"} \cup {"rust_ci_clippy_missing"} \cup {"smoke_test_missing"}
                    \cup {"readme_validation_missing"} \cup {"readme_usage_missing"})
    BY <1>5, FS_AddElement
  <1>7. IsFiniteSet({"rust_ci_missing"} \cup {"rust_ci_clippy_missing"} \cup {"smoke_test_missing"}
                    \cup {"readme_validation_missing"} \cup {"readme_usage_missing"}
                    \cup {"gitignore_target_missing"})
    BY <1>6, FS_AddElement
  <1>8. Suggestible = {"rust_ci_missing"} \cup {"rust_ci_clippy_missing"} \cup {"smoke_test_missing"}
                      \cup {"readme_validation_missing"} \cup {"readme_usage_missing"}
                      \cup {"gitignore_target_missing"}
    BY <1>1
  <1>9. QED BY <1>1, <1>7, <1>8

(* Suggestions for some of the codes: each once, for what is lacking. *)
Suggests(s, codes, files) ==
  /\ s \in Seq(codes)
  /\ \A i \in DOMAIN s : Lacks(s[i], files)
  /\ \A i, j \in DOMAIN s : s[i] = s[j] => i = j

LEMMA OneMore ==
  ASSUME NEW files, NEW codes, NEW s, Suggests(s, codes, files), NEW code, code \notin codes
  PROVE  Suggests(s \o SuggestedFor(code, files), codes \cup {code}, files)
  <1> DEFINE more == s \o SuggestedFor(code, files)
  <1>1. /\ s \in Seq(codes) /\ Len(s) \in Nat /\ DOMAIN s = 1 .. Len(s)
        /\ \A i \in DOMAIN s : s[i] \in codes
    BY DEF Suggests
  <1>2. CASE Lacks(code, files)
    <2>1. /\ more \in Seq(codes \cup {code}) /\ DOMAIN more = 1 .. Len(s) + 1
          /\ \A i \in 1 .. Len(s) : more[i] = s[i]
          /\ more[Len(s) + 1] = code
      BY <1>1, <1>2 DEF SuggestedFor
    <2>2. \A i \in DOMAIN more : Lacks(more[i], files)
      BY <1>1, <1>2, <2>1 DEF Suggests
    <2>3. \A i, j \in DOMAIN more : more[i] = more[j] => i = j
      BY <1>1, <2>1 DEF Suggests
    <2>4. QED BY <2>1, <2>2, <2>3 DEF Suggests
  <1>3. CASE ~ Lacks(code, files)
    <2>1. more = s /\ s \in Seq(codes \cup {code})
      BY <1>1, <1>3 DEF SuggestedFor
    <2>2. QED BY <2>1 DEF Suggests
  <1>4. QED BY <1>2, <1>3

LEMMA SuggestionsAre ==
  ASSUME NEW files
  PROVE  Suggests(Suggestions(files), Suggestible, files)
  <1> DEFINE of(code) == SuggestedFor(code, files)
             s1 == of("rust_ci_missing")
             s2 == s1 \o of("rust_ci_clippy_missing")
             s3 == s2 \o of("smoke_test_missing")
             s4 == s3 \o of("readme_validation_missing")
             s5 == s4 \o of("readme_usage_missing")
  <1>1. Suggests(s1, {"rust_ci_missing"}, files)
    <2>1. CASE Lacks("rust_ci_missing", files)
      <3>1. s1 = <<"rust_ci_missing">>
        BY <2>1 DEF SuggestedFor
      <3> HIDE DEF s1
      <3>2. s1 \in Seq({"rust_ci_missing"}) /\ DOMAIN s1 = {1} /\ s1[1] = "rust_ci_missing"
        BY <3>1
      <3>3. QED BY <2>1, <3>2 DEF Suggests
    <2>2. CASE ~ Lacks("rust_ci_missing", files)
      <3>1. s1 = <<>>
        BY <2>2 DEF SuggestedFor
      <3> HIDE DEF s1
      <3>2. s1 \in Seq({"rust_ci_missing"}) /\ DOMAIN s1 = {}
        BY <3>1
      <3>3. QED BY <3>2 DEF Suggests
    <2>3. QED BY <2>1, <2>2
  <1>2. Suggests(s2, {"rust_ci_missing"} \cup {"rust_ci_clippy_missing"}, files)
    BY <1>1, OneMore
  <1>3. Suggests(s3, {"rust_ci_missing", "rust_ci_clippy_missing"} \cup {"smoke_test_missing"}, files)
    <2>1. Suggests(s2, {"rust_ci_missing", "rust_ci_clippy_missing"}, files)
      BY <1>2 DEF Suggests
    <2>2. QED BY <2>1, OneMore
  <1>4. Suggests(s4, {"rust_ci_missing", "rust_ci_clippy_missing", "smoke_test_missing"}
                     \cup {"readme_validation_missing"}, files)
    <2>1. Suggests(s3, {"rust_ci_missing", "rust_ci_clippy_missing", "smoke_test_missing"}, files)
      BY <1>3 DEF Suggests
    <2>2. QED BY <2>1, OneMore
  <1>5. Suggests(s5, {"rust_ci_missing", "rust_ci_clippy_missing", "smoke_test_missing",
                      "readme_validation_missing"} \cup {"readme_usage_missing"}, files)
    <2>1. Suggests(s4, {"rust_ci_missing", "rust_ci_clippy_missing", "smoke_test_missing",
                        "readme_validation_missing"}, files)
      BY <1>4 DEF Suggests
    <2>2. QED BY <2>1, OneMore
  <1>6. Suggests(s5 \o of("gitignore_target_missing"),
                 {"rust_ci_missing", "rust_ci_clippy_missing", "smoke_test_missing",
                  "readme_validation_missing", "readme_usage_missing"}
                 \cup {"gitignore_target_missing"}, files)
    <2>1. Suggests(s5, {"rust_ci_missing", "rust_ci_clippy_missing", "smoke_test_missing",
                        "readme_validation_missing", "readme_usage_missing"}, files)
      BY <1>5 DEF Suggests
    <2>2. QED BY <2>1, OneMore
  <1>7. Suggestible = {"rust_ci_missing", "rust_ci_clippy_missing", "smoke_test_missing",
                       "readme_validation_missing", "readme_usage_missing"}
                      \cup {"gitignore_target_missing"}
    BY CodesAre
  <1>8. QED BY <1>6, <1>7 DEF Suggestions

(* The command suggested is one for the part of the project the suggestion is about. *)
LEMMA OnlyIs ==
  ASSUME NEW code \in Suggestible
  PROVE  OnlyNamed(SuggestedArgs(code)) = OnlyOf[code]
  <1> DEFINE all   == <<"cargo-check", "ci", "tests", "docs", "hygiene">>
             args  == SuggestedArgs(code)
             named == {k \in 1 .. 5 :
                         \E i \in 2 .. Len(args) : args[i - 1] = "--only" /\ args[i] = all[k]}
  <1>1. PICK k \in 1 .. 5 : all[k] = OnlyOf[code]
    BY CodesAre DEF OnlyOf
  <1>2. /\ Len(args) = 4 /\ args[1] = "fix" /\ args[2] = "." /\ args[3] = "--only"
        /\ args[4] = OnlyOf[code]
    BY DEF SuggestedArgs
  <1>3. \A j \in 1 .. 5 : all[j] = all[k] => j = k
    OBVIOUS
  <1>4. OnlyOf[code] # "--only"
    BY <1>1
  <1>5. named = {k}
    BY <1>1, <1>2, <1>3, <1>4
  <1>6. (CHOOSE n \in named : \A other \in named : n <= other) = k
    BY <1>5
  <1>7. OnlyNamed(args) = all[CHOOSE n \in named : \A other \in named : n <= other]
    BY DEF OnlyNamed
  <1>8. QED BY <1>1, <1>6, <1>7

Ambiguous(content) == Cardinality({k \in DOMAIN content : content[k] = "test step"}) # 1

LEMMA OnlySelected ==
  ASSUME NEW files, NEW only, NEW first, Categories(only) = <<first>>,
         Detects(first, files, "complete", only)
  PROVE  Selected(files, "complete", only) = {first}
  <1> DEFINE kinds == <<first>>
             hits == {i \in DOMAIN kinds :
                        /\ Detects(kinds[i], files, "complete", only)
                        /\ \A j \in 1 .. i - 1 : ~ Detects(kinds[j], files, "complete", only)}
  <1>1. DOMAIN kinds = {1} /\ kinds[1] = first /\ 1 .. 1 - 1 = {}
    OBVIOUS
  <1>2. hits = {1}
    BY <1>1
  <1>3. Selected(files, "complete", only) = {kinds[i] : i \in hits}
    BY DEF Selected
  <1> HIDE DEF kinds, hits
  <1>4. QED BY <1>1, <1>2, <1>3

LEMMA SecondSelected ==
  ASSUME NEW files, NEW only, NEW first, NEW second, Categories(only) = <<first, second>>,
         ~ Detects(first, files, "complete", only), Detects(second, files, "complete", only)
  PROVE  Selected(files, "complete", only) = {second}
  <1> DEFINE kinds == <<first, second>>
             hits == {i \in DOMAIN kinds :
                        /\ Detects(kinds[i], files, "complete", only)
                        /\ \A j \in 1 .. i - 1 : ~ Detects(kinds[j], files, "complete", only)}
  <1>1. DOMAIN kinds = {1, 2} /\ kinds[1] = first /\ kinds[2] = second
    OBVIOUS
  <1>2. 1 .. 2 - 1 = {1}
    OBVIOUS
  <1>3. 1 \notin hits
    BY <1>1
  <1>4. 2 \in hits
    BY <1>1, <1>2
  <1>5. hits = {2}
    <2> HIDE DEF kinds
    <2>1. hits \subseteq {1, 2}
      BY <1>1
    <2> HIDE DEF hits
    <2>2. QED BY <1>3, <1>4, <2>1
  <1>6. Selected(files, "complete", only) = {kinds[i] : i \in hits}
    BY DEF Selected
  <1> HIDE DEF kinds, hits
  <1>7. QED BY <1>1, <1>5, <1>6

(* The fix command finds the problem of what is lacking. *)
LEMMA SelectedIs ==
  ASSUME NEW files, NEW code \in Suggestible, Lacks(code, files)
  PROVE  Selected(files, "complete", OnlyOf[code]) = {ProblemOf[code]}
  <1>1. CASE code = "rust_ci_missing"
    <2>1. OnlyOf[code] = "ci" /\ ProblemOf[code] = "MissingCi" /\ files["workflow"] = NoFile
      BY <1>1 DEF OnlyOf, ProblemOf, Lacks
    <2>2. Categories("ci") = <<"MissingCi", "MissingClippyCi">>
      BY DEF Categories
    <2>3. /\ Detects("MissingCi", files, "complete", "ci")
          /\ ~ Detects("MissingClippyCi", files, "complete", "ci")
      BY <2>1 DEF Detects
    <2>4. QED BY <2>1, <2>2, <2>3 DEF Selected
  <1>2. CASE code = "rust_ci_clippy_missing"
    <2>1. /\ OnlyOf[code] = "ci" /\ ProblemOf[code] = "MissingClippyCi"
          /\ files["workflow"] # NoFile /\ ~ Has(files["workflow"], "clippy and test")
      BY <1>2 DEF OnlyOf, ProblemOf, Lacks
    <2>2. Categories("ci") = <<"MissingCi", "MissingClippyCi">>
      BY DEF Categories
    <2>3. /\ ~ Detects("MissingCi", files, "complete", "ci")
          /\ Detects("MissingClippyCi", files, "complete", "ci")
      BY <2>1 DEF Detects
    <2>4. QED BY <2>1, <2>2, <2>3, SecondSelected
  <1>3. CASE code = "smoke_test_missing"
    <2>1. OnlyOf[code] = "tests" /\ ProblemOf[code] = "MissingSmokeTest" /\ files["smoke"] = NoFile
      BY <1>3 DEF OnlyOf, ProblemOf, Lacks
    <2>2. Categories("tests") = <<"MissingSmokeTest">>
      BY DEF Categories
    <2>3. Detects("MissingSmokeTest", files, "complete", "tests")
      BY <2>1 DEF Detects
    <2>4. QED BY <2>1, <2>2, <2>3, OnlySelected
  <1>4. CASE code = "readme_validation_missing"
    <2>1. /\ OnlyOf[code] = "docs" /\ ProblemOf[code] = "MissingReadmeValidation"
          /\ files["readme"] # NoFile /\ ~ Has(files["readme"], "validation")
      BY <1>4 DEF OnlyOf, ProblemOf, Lacks
    <2>2. Categories("docs") = <<"MissingReadmeValidation", "MissingReadmeUsageSection">>
      BY DEF Categories
    <2>3. /\ Detects("MissingReadmeValidation", files, "complete", "docs")
          /\ ~ Detects("MissingReadmeUsageSection", files, "complete", "docs")
      BY <2>1 DEF Detects
    <2>4. QED BY <2>1, <2>2, <2>3 DEF Selected
  <1>5. CASE code = "readme_usage_missing"
    <2>1. /\ OnlyOf[code] = "docs" /\ ProblemOf[code] = "MissingReadmeUsageSection"
          /\ Has(files["readme"], "validation") /\ ~ Has(files["readme"], "usage")
      BY <1>5 DEF OnlyOf, ProblemOf, Lacks
    <2>2. Categories("docs") = <<"MissingReadmeValidation", "MissingReadmeUsageSection">>
      BY DEF Categories
    <2>3. files["readme"] # NoFile
      BY <2>1 DEF Has
    <2>4. /\ ~ Detects("MissingReadmeValidation", files, "complete", "docs")
          /\ Detects("MissingReadmeUsageSection", files, "complete", "docs")
      BY <2>1, <2>3 DEF Detects
    <2>5. QED BY <2>1, <2>2, <2>4, SecondSelected
  <1>6. CASE code = "gitignore_target_missing"
    <2>1. /\ OnlyOf[code] = "hygiene" /\ ProblemOf[code] = "MissingGitignoreTarget"
          /\ ~ Has(files["gitignore"], "target entry")
      BY <1>6 DEF OnlyOf, ProblemOf, Lacks
    <2>2. Categories("hygiene") = <<"MissingGitignoreTarget">>
      BY DEF Categories
    <2>3. Detects("MissingGitignoreTarget", files, "complete", "hygiene")
      BY <2>1 DEF Detects
    <2>4. QED BY <2>1, <2>2, <2>3, OnlySelected
  <1>7. QED BY <1>1, <1>2, <1>3, <1>4, <1>5, <1>6, CodesAre
(* The fix that follows a suggestion is the command suggested, with --apply: what its words are
   read as. *)
ReadFrom(f, takes, args, i) ==
  IF i > Len(args) THEN <<>>
  ELSE IF args[i] \in takes.plain THEN Given(args[i], "") \o f[i + 1]
  ELSE IF args[i] \in takes.valued
  THEN IF i = Len(args) THEN Wrong ELSE Given(args[i], args[i + 1]) \o f[i + 2]
  ELSE IF takes.targets = "none" THEN Wrong
  ELSE Given("target", args[i]) \o f[i + 1]

Reads(f, takes, args) == f = [i \in 1 .. Len(args) + 1 |-> ReadFrom(f, takes, args, i)]

LEMMA ReadIs ==
  ASSUME NEW takes, NEW args, NEW known, Reads(known, takes, args)
  PROVE  \E f : Reads(f, takes, args) /\ Read(takes, args) = f[1]
  <1>1. Read(takes, args) = (CHOOSE f : Reads(f, takes, args))[1]
    BY DEF Read, Reads, ReadFrom
  <1>2. Reads(CHOOSE f : Reads(f, takes, args), takes, args)
    OBVIOUS
  <1>3. QED BY <1>1, <1>2

LEMMA FourWords ==
  ASSUME NEW takes, NEW args, Len(args) = 4, takes.targets # "none",
         args[1] \notin takes.plain, args[1] \notin takes.valued,
         args[2] \notin takes.plain, args[2] \in takes.valued,
         args[3] \notin takes.plain, args[3] \notin takes.valued, args[4] \in takes.plain
  PROVE  Read(takes, args) =
           Given("target", args[1]) \o (Given(args[2], args[3]) \o (Given(args[4], "") \o <<>>))
  <1>1. ASSUME NEW f
        PROVE  /\ ReadFrom(f, takes, args, 5) = <<>>
               /\ ReadFrom(f, takes, args, 4) = Given(args[4], "") \o f[5]
               /\ ReadFrom(f, takes, args, 3) = Given("target", args[3]) \o f[4]
               /\ ReadFrom(f, takes, args, 2) = Given(args[2], args[3]) \o f[4]
               /\ ReadFrom(f, takes, args, 1) = Given("target", args[1]) \o f[2]
    <2>1. ReadFrom(f, takes, args, 5) = <<>>
      BY DEF ReadFrom
    <2>2. ReadFrom(f, takes, args, 4) = Given(args[4], "") \o f[5]
      <3>1. ~ (4 > Len(args)) /\ 4 + 1 = 5
        OBVIOUS
      <3>2. ReadFrom(f, takes, args, 4) = Given(args[4], "") \o f[4 + 1]
        BY <3>1, Zenon DEF ReadFrom
      <3>3. QED BY <3>1, <3>2
    <2>3. ReadFrom(f, takes, args, 3) = Given("target", args[3]) \o f[4]
      BY DEF ReadFrom
    <2>4. ReadFrom(f, takes, args, 2) = Given(args[2], args[3]) \o f[4]
      BY DEF ReadFrom
    <2>5. ReadFrom(f, takes, args, 1) = Given("target", args[1]) \o f[2]
      BY DEF ReadFrom
    <2>6. QED BY <2>1, <2>2, <2>3, <2>4, <2>5
  <1>2. \A i \in 1 .. Len(args) + 1 : i = 1 \/ i = 2 \/ i = 3 \/ i = 4 \/ i = 5
    OBVIOUS
  <1>3. PICK e5 : e5 = <<>>
    OBVIOUS
  <1>4. PICK e4 : e4 = Given(args[4], "") \o e5
    OBVIOUS
  <1>5. PICK e3 : e3 = Given("target", args[3]) \o e4
    OBVIOUS
  <1>6. PICK e2 : e2 = Given(args[2], args[3]) \o e4
    OBVIOUS
  <1>7. PICK e1 : e1 = Given("target", args[1]) \o e2
    OBVIOUS
  <1>8. PICK known : known = [i \in 1 .. Len(args) + 1 |->
                       IF i = 1 THEN e1 ELSE IF i = 2 THEN e2 ELSE IF i = 3 THEN e3
                       ELSE IF i = 4 THEN e4 ELSE e5]
    OBVIOUS
  <1>9. known[1] = e1 /\ known[2] = e2 /\ known[3] = e3 /\ known[4] = e4 /\ known[5] = e5
    BY <1>8
  <1>10. \A i \in 1 .. Len(args) + 1 : known[i] = ReadFrom(known, takes, args, i)
    BY <1>1, <1>2, <1>3, <1>4, <1>5, <1>6, <1>7, <1>9
  <1>11. known = [i \in 1 .. Len(args) + 1 |-> known[i]]
    BY <1>8
  <1>12. Reads(known, takes, args)
    BY <1>10, <1>11 DEF Reads
  <1>13. PICK f : Reads(f, takes, args) /\ Read(takes, args) = f[1]
    BY <1>12, ReadIs
  <1>14. \A i \in 1 .. Len(args) + 1 : f[i] = ReadFrom(f, takes, args, i)
    BY <1>13 DEF Reads
  <1>15. /\ f[5] = ReadFrom(f, takes, args, 5) /\ f[4] = ReadFrom(f, takes, args, 4)
         /\ f[2] = ReadFrom(f, takes, args, 2) /\ f[1] = ReadFrom(f, takes, args, 1)
    BY <1>14
  <1>16. QED BY <1>1, <1>13, <1>15

LEMMA ThreeInARow ==
  ASSUME NEW a, NEW b, NEW c
  PROVE  <<a>> \o (<<b>> \o (<<c>> \o <<>>)) = <<a, b, c>>
  <1>1. PICK S : S = {a, b, c}
    OBVIOUS
  <1>2. <<a>> \in Seq(S) /\ <<b>> \in Seq(S) /\ <<c>> \in Seq(S)
    BY <1>1
  <1>3. <<c>> \o <<>> = <<c>>
    OBVIOUS
  <1>4. PICK two : two = <<b>> \o <<c>>
    OBVIOUS
  <1>5. two \in Seq(S) /\ Len(two) = 2 /\ two[1] = b /\ two[2] = c
    BY <1>2, <1>4
  <1>6. PICK all : all = <<a>> \o two
    OBVIOUS
  <1>7. all \in Seq(S) /\ Len(all) = 3 /\ all[1] = a /\ all[2] = b /\ all[3] = c
    BY <1>2, <1>5, <1>6
  <1>8. all = <<a, b, c>>
    BY <1>7
  <1>9. QED BY <1>3, <1>4, <1>6, <1>8

LEMMA AskedIs ==
  ASSUME NEW code \in Suggestible
  PROVE  Asked[code].only = OnlyOf[code] /\ Asked[code].apply = TRUE
  <1>1. PICK only \in {"ci", "tests", "docs", "hygiene"} : only = OnlyOf[code]
    BY CodesAre DEF OnlyOf
  <1>2. PICK args : args = Tail(SuggestedArgs(code)) \o <<"--apply">>
    OBVIOUS
  <1>3. /\ Len(args) = 4 /\ args[1] = "." /\ args[2] = "--only" /\ args[3] = only
        /\ args[4] = "--apply"
    BY <1>1, <1>2 DEF SuggestedArgs
  <1>4. /\ FixOptions.plain = {"--dry-run", "--apply", "--no-llm"}
        /\ FixOptions.valued = {"--only", "--max-files", "--risk", "--provider", "--evidence-dir"}
        /\ FixOptions.targets = "one"
    BY DEF FixOptions, Takes
  <1>5. PICK read : read = Read(FixOptions, args)
    OBVIOUS
  <1>6. /\ "." \notin FixOptions.plain /\ "." \notin FixOptions.valued
        /\ "--only" \notin FixOptions.plain /\ "--only" \in FixOptions.valued
        /\ only \notin FixOptions.plain /\ only \notin FixOptions.valued
        /\ "--apply" \in FixOptions.plain /\ FixOptions.targets # "none"
    BY <1>4
  <1>7. read = Given("target", ".") \o (Given("--only", only) \o (Given("--apply", "") \o <<>>))
    <2>1. Read(FixOptions, args) =
            Given("target", args[1]) \o (Given(args[2], args[3]) \o (Given(args[4], "") \o <<>>))
      <3>1. /\ args[1] \notin FixOptions.plain /\ args[1] \notin FixOptions.valued
            /\ args[2] \notin FixOptions.plain /\ args[2] \in FixOptions.valued
            /\ args[3] \notin FixOptions.plain /\ args[3] \notin FixOptions.valued
            /\ args[4] \in FixOptions.plain
        BY <1>3, <1>6
      <3>2. QED BY <1>3, <1>6, <3>1, FourWords
    <2>2. QED BY <1>3, <1>5, <2>1
  <1>8. /\ DOMAIN read = {1, 2, 3}
        /\ read[1] = [name |-> "target", value |-> "."]
        /\ read[2] = [name |-> "--only", value |-> only]
        /\ read[3] = [name |-> "--apply", value |-> ""]
    <2>1. PICK target, named, told :
            /\ target = [name |-> "target", value |-> "."]
            /\ named = [name |-> "--only", value |-> only]
            /\ told = [name |-> "--apply", value |-> ""]
      OBVIOUS
    <2>2. read = <<target>> \o (<<named>> \o (<<told>> \o <<>>))
      BY <1>7, <2>1 DEF Given
    <2> HIDE <2>1
    <2>6. read = <<target, named, told>>
      BY <2>2, ThreeInARow
    <2>7. DOMAIN read = {1, 2, 3} /\ read[1] = target /\ read[2] = named /\ read[3] = told
      BY <2>6
    <2>8. QED BY <2>1, <2>7
  <1>19. /\ read[1].name = "target" /\ read[2].name = "--only" /\ read[3].name = "--apply"
         /\ read[2].value = only
    <2>1. /\ [name |-> "target", value |-> "."].name = "target"
          /\ [name |-> "--only", value |-> only].name = "--only"
          /\ [name |-> "--only", value |-> only].value = only
          /\ [name |-> "--apply", value |-> ""].name = "--apply"
      OBVIOUS
    <2>2. /\ read[1].name = [name |-> "target", value |-> "."].name
          /\ read[2].name = [name |-> "--only", value |-> only].name
          /\ read[2].value = [name |-> "--only", value |-> only].value
          /\ read[3].name = [name |-> "--apply", value |-> ""].name
      BY <1>8, Zenon
    <2>3. QED BY <2>1, <2>2
  <1>9. /\ PlacesOf(read, {"target"}) = {1} /\ PlacesOf(read, {"--only"}) = {2}
        /\ PlacesOf(read, {"--dry-run", "--apply"}) = {3}
    <2>1. ASSUME NEW names PROVE PlacesOf(read, names) = {i \in {1, 2, 3} : read[i].name \in names}
      BY <1>8 DEF PlacesOf
    <2>2. read[1].name = "target" /\ read[2].name = "--only" /\ read[3].name = "--apply"
      BY <1>19
    <2>3. {i \in {1, 2, 3} : read[i].name \in {"target"}} = {1}
      BY <2>2
    <2>4. {i \in {1, 2, 3} : read[i].name \in {"--only"}} = {2}
      BY <2>2
    <2>5. {i \in {1, 2, 3} : read[i].name \in {"--dry-run", "--apply"}} = {3}
      BY <2>2
    <2>6. QED BY <2>1, <2>3, <2>4, <2>5
  <1>10. Understood(FixOptions, read)
    <2>1. \A i \in DOMAIN read : read[i].name # "wrong"
      BY <1>8, <1>19
    <2>2. \A i, j \in PlacesOf(read, {"target"}) : i = j
      BY <1>9
    <2>3. QED BY <1>4, <1>9, <2>1, <2>2 DEF Understood
  <1>11. /\ Fits(read, "--only", {"cargo-check", "ci", "tests", "docs", "hygiene"})
         /\ Fits(read, "--max-files", DOMAIN Limits) /\ Fits(read, "--risk", {"low", "medium"})
    <2>1. read[2].value = only
      BY <1>19
    <2>2. QED BY <1>8, <1>19, <2>1 DEF Fits
  <1>12. \A k \in Nat : (CHOOSE i \in {k} : \A j \in {k} : j <= i) = k
    OBVIOUS
  <1>13. /\ LastOf(read, {"--only"}) = read[2]
         /\ LastOf(read, {"--dry-run", "--apply"}) = read[3]
    BY <1>9, <1>12 DEF LastOf
  <1>14. Chosen(read, "--only", "all") = only
    <2>1. read[2].value = only
      BY <1>19
    <2>2. QED BY <1>9, <1>13, <2>1 DEF Chosen
  <1>15. /\ FixRequestOf(args, FALSE).only = Chosen(read, "--only", "all")
         /\ FixRequestOf(args, FALSE).apply =
              (/\ PlacesOf(read, {"--dry-run", "--apply"}) # {}
               /\ LastOf(read, {"--dry-run", "--apply"}).name = "--apply")
    BY <1>5, <1>10, <1>11 DEF FixRequestOf
  <1>16. Asked[code] = FixRequestOf(args, FALSE)
    BY <1>2 DEF Asked
  <1>17. FixRequestOf(args, FALSE).apply = TRUE
    BY <1>9, <1>13, <1>15, <1>19
  <1>18. QED BY <1>1, <1>14, <1>15, <1>16, <1>17

-----------------------------------------------------------------------------
(* What a fix that follows a suggestion does *)

RunsTo(f, files, ops) ==
  f = [i \in 0 .. Len(ops) |-> IF i = 0 THEN [files |-> files, reason |-> "none"]
                               ELSE PerformNext(f[i - 1], ops[i])]

LEMMA PerformOne ==
  ASSUME NEW files, NEW op, NEW ops, Len(ops) = 1, ops[1] = op,
         Refusal(op, files[op.path]) = "none"
  PROVE  PerformAll(files, ops).files = Perform(files, op)
  <1>1. PICK none : none = [files |-> files, reason |-> "none"]
    OBVIOUS
  <1>2. PICK first : first = PerformNext(none, op)
    OBVIOUS
  <1>3. PICK known : known = [i \in 0 .. Len(ops) |-> IF i = 0 THEN none ELSE first]
    OBVIOUS
  <1>4. RunsTo(known, files, ops)
    <2>1. \A i \in 0 .. Len(ops) : i = 0 \/ i = 1
      OBVIOUS
    <2>2. known[0] = none
      BY <1>3
    <2>3. \A i \in 0 .. Len(ops) :
            known[i] = IF i = 0 THEN [files |-> files, reason |-> "none"]
                       ELSE PerformNext(known[i - 1], ops[i])
      BY <1>1, <1>2, <1>3, <2>1, <2>2
    <2>4. known = [i \in 0 .. Len(ops) |-> known[i]]
      BY <1>3
    <2>5. QED BY <2>3, <2>4 DEF RunsTo
  <1>5. PICK f : f = PerformUpTo(files, ops)
    OBVIOUS
  <1>6. f = CHOOSE g : RunsTo(g, files, ops)
    BY <1>5 DEF PerformUpTo, RunsTo
  <1>7. RunsTo(f, files, ops)
    BY <1>4, <1>6
  <1>8. f[0] = none /\ f[1] = PerformNext(f[0], op)
    BY <1>1, <1>7 DEF RunsTo
  <1>9. none.files = files /\ none.reason = "none"
    BY <1>1
  <1>10. f[1] = [none EXCEPT !.files = Perform(@, op)]
    BY <1>8, <1>9 DEF PerformNext
  <1>11. f[1].files = Perform(files, op)
    BY <1>1, <1>9, <1>10
  <1>12. QED BY <1>5, <1>11 DEF PerformAll

FixRequest == [max |-> 3, cap |-> "low"]

(* What speaks against the repair of a problem, and what does not. *)
Against(problem, files) == Blockers(RuleBased(problem, files), FixRequest, files)

LEMMA AgainstIs ==
  ASSUME NEW problem, NEW files, NEW op, op = Repair(problem, files)
  PROVE  Against(problem, files) =
           (IF op.path \in Patchable THEN {} ELSE {"path_not_allowed"})
           \cup ({Foreseen(op, files[op.path])} \ {"none"})
  <1>1. PICK proposal : proposal = RuleBased(problem, files)
    OBVIOUS
  <1>2. proposal.files = <<op.path>> /\ proposal.ops = <<op>>
    BY <1>1 DEF RuleBased
  <1>3. Len(proposal.files) = 1 /\ DOMAIN proposal.ops = {1} /\ proposal.ops[1] = op
    BY <1>2
  <1>4. FixRequest.max = 3
    BY DEF FixRequest
  <1>5. PathsOf(proposal.ops) = {op.path}
    BY <1>3 DEF PathsOf
  <1>6. DryRunBlockers(files, proposal.ops) = {Foreseen(op, files[op.path])} \ {"none"}
    BY <1>3 DEF DryRunBlockers
  <1>7. Blockers(proposal, FixRequest, files) = Simulated(proposal.ops, files)
    BY <1>3, <1>4 DEF Blockers
  <1>8. Simulated(proposal.ops, files) =
          (IF op.path \in Patchable THEN {} ELSE {"path_not_allowed"})
          \cup ({Foreseen(op, files[op.path])} \ {"none"})
    BY <1>5, <1>6 DEF Simulated
  <1>9. QED BY <1>1, <1>7, <1>8 DEF Against

(* The repair of what is lacking, for each suggestion. *)
LEMMA RepairIs ==
  ASSUME NEW files, NEW code \in Suggestible, Lacks(code, files), NEW op,
         op = Repair(ProblemOf[code], files)
  PROVE  \/ /\ code = "rust_ci_missing" /\ files["workflow"] = NoFile
            /\ op.path = "workflow" /\ op.kind = "CreateFile" /\ op.text = "test step"
         \/ /\ code = "rust_ci_clippy_missing" /\ files["workflow"] # NoFile
            /\ ~ Has(files["workflow"], "clippy and test")
            /\ op.path = "workflow" /\ op.kind = "ReplaceExactText" /\ op.find = "test step"
            /\ op.text = "clippy and test"
         \/ /\ code = "smoke_test_missing" /\ files["smoke"] = NoFile
            /\ op.path = "smoke" /\ op.kind = "CreateFile" /\ op.text = "smoke test"
         \/ /\ code = "readme_validation_missing" /\ files["readme"] # NoFile
            /\ ~ Has(files["readme"], "validation")
            /\ op.path = "readme" /\ op.kind = "AppendFile" /\ op.text = "validation"
         \/ /\ code = "readme_usage_missing" /\ files["readme"] # NoFile
            /\ Has(files["readme"], "validation") /\ ~ Has(files["readme"], "usage")
            /\ op.path = "readme" /\ op.kind = "AppendFile" /\ op.text = "usage"
         \/ code = "gitignore_target_missing" /\ op.path = "gitignore"
  <1>1. PICK problem : problem = ProblemOf[code]
    OBVIOUS
  <1>2. /\ op.path = Planned[problem] /\ op.kind = RepairKind(problem, files)
        /\ op.text = Written[problem] /\ op.find = "test step"
    BY <1>1 DEF Repair
  <1>3. CASE code = "rust_ci_missing"
    BY <1>1, <1>2, <1>3 DEF ProblemOf, Planned, Written, RepairKind, Lacks
  <1>4. CASE code = "rust_ci_clippy_missing"
    BY <1>1, <1>2, <1>4 DEF ProblemOf, Planned, Written, RepairKind, Lacks
  <1>5. CASE code = "smoke_test_missing"
    BY <1>1, <1>2, <1>5 DEF ProblemOf, Planned, Written, RepairKind, Lacks
  <1>6. CASE code = "readme_validation_missing"
    BY <1>1, <1>2, <1>6 DEF ProblemOf, Planned, Written, RepairKind, Lacks
  <1>7. CASE code = "readme_usage_missing"
    <2>1. files["readme"] # NoFile
      BY <1>7 DEF Lacks, Has
    <2>2. QED BY <1>1, <1>2, <1>7, <2>1 DEF ProblemOf, Planned, Written, RepairKind, Lacks
  <1>8. CASE code = "gitignore_target_missing"
    BY <1>1, <1>2, <1>8 DEF ProblemOf, Planned
  <1>9. QED BY <1>3, <1>4, <1>5, <1>6, <1>7, <1>8, CodesAre

(* Nothing speaks against it but the path of .gitignore and an ambiguous workflow. *)
LEMMA NothingAgainst ==
  ASSUME NEW files, NEW code \in Suggestible, Lacks(code, files), code # "gitignore_target_missing",
         code = "rust_ci_clippy_missing" => ~ Ambiguous(files["workflow"])
  PROVE  Against(ProblemOf[code], files) = {}
  <1>1. PICK op : op = Repair(ProblemOf[code], files)
    OBVIOUS
  <1>2. PICK content : content = files[op.path]
    OBVIOUS
  <1>3. op.path \in Patchable
    BY <1>1, RepairIs DEF Patchable, File
  <1>4. /\ op.kind = "CreateFile" => content = NoFile
        /\ op.kind \in {"AppendFile", "ReplaceExactText"} => content # NoFile
        /\ op.kind = "ReplaceExactText" =>
             code = "rust_ci_clippy_missing" /\ op.path = "workflow" /\ op.find = "test step"
        /\ op.kind \in {"CreateFile", "AppendFile", "ReplaceExactText"}
    <2>1. /\ op.path = "workflow" => content = files["workflow"]
          /\ op.path = "smoke" => content = files["smoke"]
          /\ op.path = "readme" => content = files["readme"]
      BY <1>2, Zenon
    <2>2. CASE code \in {"rust_ci_missing", "smoke_test_missing"}
      <3>1. op.kind = "CreateFile" /\ content = NoFile
        BY <1>1, <2>1, <2>2, RepairIs
      <3>2. QED BY <3>1
    <2>3. CASE code \in {"readme_validation_missing", "readme_usage_missing"}
      <3>1. op.kind = "AppendFile" /\ content # NoFile
        BY <1>1, <2>1, <2>3, RepairIs
      <3>2. QED BY <3>1
    <2>4. CASE code = "rust_ci_clippy_missing"
      <3>1. /\ op.kind = "ReplaceExactText" /\ files["workflow"] # NoFile
            /\ op.path = "workflow" /\ op.find = "test step"
        BY <1>1, <2>4, RepairIs
      <3>2. content # NoFile
        BY <2>1, <3>1
      <3>3. QED BY <2>4, <3>1, <3>2
    <2>5. QED BY <2>2, <2>3, <2>4, CodesAre
  <1>5. Foreseen(op, content) = "none"
    <2>1. CASE op.kind = "CreateFile"
      <3>1. content = NoFile
        BY <1>4, <2>1
      <3>2. QED BY <2>1, <3>1 DEF Foreseen, Refusal
    <2>2. CASE op.kind = "AppendFile"
      <3>1. content # NoFile
        BY <1>4, <2>2
      <3>2. QED BY <2>2, <3>1 DEF Foreseen, Refusal
    <2>3. CASE op.kind = "ReplaceExactText"
      <3>1. /\ code = "rust_ci_clippy_missing" /\ op.path = "workflow" /\ op.find = "test step"
            /\ content # NoFile
        BY <1>4, <2>3
      <3>2. Cardinality(Matches(op, content)) = 1
        <4>1. content = files["workflow"]
          BY <1>2, <3>1, Zenon
        <4>2. Matches(op, content) = {k \in DOMAIN content : content[k] = "test step"}
          BY <3>1 DEF Matches
        <4>3. QED BY <3>1, <4>1, <4>2 DEF Ambiguous
      <3>3. Matches(op, content) # {}
        BY <3>2, FS_EmptySet
      <3>4. Foreseen(op, content) = Refusal(op, content)
        BY <3>1 DEF Foreseen
      <3>5. ~ (Cardinality(Matches(op, content)) > 1)
        BY <3>2
      <3>6. Refusal(op, content) = "none"
        BY <2>3, <3>1, <3>3, <3>5 DEF Refusal
      <3>7. QED BY <3>4, <3>6
    <2>4. QED BY <1>4, <2>1, <2>2, <2>3
  <1>6. QED BY <1>1, <1>2, <1>3, <1>5, AgainstIs

(* Where nothing speaks against it, it is not refused. *)
LEMMA NotRefused ==
  ASSUME NEW files, NEW code \in Suggestible, Lacks(code, files), NEW op,
         op = Repair(ProblemOf[code], files), Against(ProblemOf[code], files) = {}
  PROVE  code # "gitignore_target_missing" /\ Refusal(op, files[op.path]) = "none"
  <1>1. op.path \in Patchable /\ Foreseen(op, files[op.path]) = "none"
    BY AgainstIs
  <1>2. op.path # "gitignore"
    BY <1>1 DEF Patchable
  <1>3. code # "gitignore_target_missing"
    BY <1>2, RepairIs
  <1>4. Refusal(op, files[op.path]) = "none"
    BY <1>1 DEF Foreseen
  <1>5. QED BY <1>3, <1>4

DryRunAt(files, only) ==
  LET found == Selected(files, "complete", only) IN
  [detected |-> found,
   blockers |-> UNION {Blockers(RuleBased(problem, files), [max |-> 3, cap |-> "low"], files) :
                         problem \in found}]

LEMMA DryRunIs ==
  ASSUME NEW files, NEW code \in Suggestible, Lacks(code, files)
  PROVE  /\ DryRunAt(files, OnlyOf[code]).detected = {ProblemOf[code]}
         /\ DryRunAt(files, OnlyOf[code]).blockers = Against(ProblemOf[code], files)
  <1>1. Selected(files, "complete", OnlyOf[code]) = {ProblemOf[code]}
    BY SelectedIs
  <1>2. DryRunAt(files, OnlyOf[code]).blockers = UNION {Against(p, files) : p \in {ProblemOf[code]}}
    BY <1>1 DEF DryRunAt, Against, FixRequest
  <1>3. QED BY <1>1, <1>2 DEF DryRunAt

(* What is left to do, file by file. *)
WorkflowLeft(content) == IF content = NoFile THEN 2 ELSE IF Has(content, "clippy and test") THEN 0 ELSE 1
SmokeLeft(content)    == IF content = NoFile THEN 1 ELSE 0
ReadmeLeft(content)   == IF content = NoFile THEN 0 ELSE IF ~ Has(content, "validation") THEN 2
                         ELSE IF Has(content, "usage") THEN 0 ELSE 1
IgnoreLeft(content)   == IF Has(content, "target entry") THEN 0 ELSE 1

LEMMA LeftIs ==
  ASSUME NEW files
  PROVE  /\ LeftToDo(files) = WorkflowLeft(files["workflow"]) + SmokeLeft(files["smoke"])
                              + ReadmeLeft(files["readme"]) + IgnoreLeft(files["gitignore"])
         /\ WorkflowLeft(files["workflow"]) \in 0 .. 2 /\ SmokeLeft(files["smoke"]) \in 0 .. 1
         /\ ReadmeLeft(files["readme"]) \in 0 .. 2 /\ IgnoreLeft(files["gitignore"]) \in 0 .. 1
  BY DEF LeftToDo, WorkflowLeft, SmokeLeft, ReadmeLeft, IgnoreLeft

LEMMA HasPiece ==
  ASSUME NEW content \in Seq(Piece), NEW piece, NEW i \in DOMAIN content, content[i] = piece
  PROVE  Has(content, piece) /\ content # NoFile
  BY TrialAssumption DEF Has

(* A section appended is there, and so is what was there before. *)
LEMMA Appended ==
  ASSUME NEW content \in Content, content # NoFile, NEW piece \in Piece, NEW new,
         new = Append(content, piece)
  PROVE  /\ new \in Content /\ new # NoFile /\ Has(new, piece)
         /\ \A other \in Piece : Has(content, other) => Has(new, other)
  <1>1. content \in Seq(Piece)
    BY DEF Content
  <1>2. /\ new \in Seq(Piece) /\ DOMAIN new = 1 .. Len(content) + 1 /\ Len(content) \in Nat
        /\ DOMAIN content = 1 .. Len(content)
        /\ new[Len(content) + 1] = piece /\ \A i \in 1 .. Len(content) : new[i] = content[i]
    BY <1>1
  <1>3. Len(content) + 1 \in DOMAIN new
    BY <1>2
  <1>4. Has(new, piece) /\ new # NoFile
    BY <1>2, <1>3, HasPiece
  <1>5. ASSUME NEW other \in Piece, Has(content, other) PROVE Has(new, other)
    <2>1. PICK i \in DOMAIN content : content[i] = other
      BY <1>5 DEF Has
    <2>2. i \in DOMAIN new /\ new[i] = other
      BY <1>2, <2>1
    <2>3. QED BY <1>2, <2>2, HasPiece
  <1>6. QED BY <1>2, <1>4, <1>5 DEF Content

LEMMA OnePiece ==
  ASSUME NEW piece \in Piece, NEW new, new = <<piece>>
  PROVE  new \in Content /\ new # NoFile
  <1>1. new \in Seq(Piece)
    OBVIOUS
  <1>2. QED BY <1>1, TrialAssumption DEF Content

LEMMA Replaced ==
  ASSUME NEW content \in Content, content # NoFile, NEW op, op.kind = "ReplaceExactText",
         op.text \in Piece, Refusal(op, content) = "none", NEW new, new = After(op, content)
  PROVE  new \in Content /\ new # NoFile /\ Has(new, op.text)
  <1>1. Matches(op, content) # {}
    BY DEF Refusal
  <1>2. PICK i \in DOMAIN content : content[i] = op.find
    BY <1>1 DEF Matches
  <1>3. new = [j \in DOMAIN content |-> IF content[j] = op.find THEN op.text ELSE content[j]]
    BY DEF After
  <1>4. content \in Seq(Piece)
    BY DEF Content
  <1>5. PICK n \in Nat : DOMAIN content = 1 .. n
    BY <1>4
  <1>6. \A j \in DOMAIN content : content[j] \in Piece
    BY <1>4
  <1>7. PICK text, find : text = op.text /\ find = op.find
    OBVIOUS
  <1>8. new = [j \in 1 .. n |-> IF content[j] = find THEN text ELSE content[j]]
    BY <1>3, <1>5, <1>7
  <1>9. /\ new \in [1 .. n -> Piece]
        /\ i \in DOMAIN new /\ new[i] = text
    BY <1>2, <1>5, <1>6, <1>7, <1>8
  <1>10. new \in Seq(Piece)
    BY <1>9
  <1>11. QED BY <1>7, <1>9, <1>10, HasPiece DEF Content

(* A repair that is not refused leaves less to do, and the other files as they are. *)
LEMMA Mends ==
  ASSUME NEW files \in [File -> Content], NEW code \in Suggestible, Lacks(code, files),
         code # "gitignore_target_missing", NEW op, op = Repair(ProblemOf[code], files),
         Refusal(op, files[op.path]) = "none", NEW new, new = Perform(files, op)
  PROVE  /\ new \in [File -> Content]
         /\ LeftToDo(new) < LeftToDo(files)
         /\ \A f \in File \ {op.path} : new[f] = files[f]
  <1>1. op.path \in File
    BY RepairIs DEF File
  <1>2. PICK content : content = files[op.path]
    OBVIOUS
  <1>3. PICK after : after = After(op, content)
    OBVIOUS
  <1>4. /\ new[op.path] = after /\ content \in Content
        /\ \A f \in File \ {op.path} : new[f] = files[f]
        /\ after \in Content => new \in [File -> Content]
    BY <1>1, <1>2, <1>3 DEF Perform
  <1>5. ASSUME after \in Content,
               \/ op.path = "workflow" /\ WorkflowLeft(after) < WorkflowLeft(content)
               \/ op.path = "smoke" /\ SmokeLeft(after) < SmokeLeft(content)
               \/ op.path = "readme" /\ ReadmeLeft(after) < ReadmeLeft(content)
        PROVE  LeftToDo(new) < LeftToDo(files)
    <2>1. \A f \in {"workflow", "smoke", "readme", "gitignore"} : f \in File
      BY DEF File
    <2>2. CASE op.path = "workflow" /\ WorkflowLeft(after) < WorkflowLeft(content)
      <3>1. /\ new["workflow"] = after /\ files["workflow"] = content
            /\ new["smoke"] = files["smoke"] /\ new["readme"] = files["readme"]
            /\ new["gitignore"] = files["gitignore"]
        BY <1>2, <1>4, <2>1, <2>2
      <3>2. QED BY <2>2, <3>1, LeftIs
    <2>3. CASE op.path = "smoke" /\ SmokeLeft(after) < SmokeLeft(content)
      <3>1. /\ new["smoke"] = after /\ files["smoke"] = content
            /\ new["workflow"] = files["workflow"] /\ new["readme"] = files["readme"]
            /\ new["gitignore"] = files["gitignore"]
        BY <1>2, <1>4, <2>1, <2>3
      <3>2. QED BY <2>3, <3>1, LeftIs
    <2>4. CASE op.path = "readme" /\ ReadmeLeft(after) < ReadmeLeft(content)
      <3>1. /\ new["readme"] = after /\ files["readme"] = content
            /\ new["workflow"] = files["workflow"] /\ new["smoke"] = files["smoke"]
            /\ new["gitignore"] = files["gitignore"]
        BY <1>2, <1>4, <2>1, <2>4
      <3>2. QED BY <2>4, <3>1, LeftIs
    <2>5. QED BY <1>5, <2>2, <2>3, <2>4
  <1>6. {"test step", "clippy and test", "smoke test", "validation", "usage"} \subseteq Piece
    BY DEF Piece
  <1>7. /\ op.path = "workflow" => content = files["workflow"]
        /\ op.path = "smoke" => content = files["smoke"]
        /\ op.path = "readme" => content = files["readme"]
    BY <1>2, Zenon
  <1>8. CASE code = "rust_ci_missing"
    <2>1. op.path = "workflow" /\ content = NoFile
      BY <1>7, <1>8, RepairIs
    <2>2. op.kind = "CreateFile" /\ op.text = "test step"
      BY <1>8, RepairIs
    <2>3. after = <<"test step">>
      BY <1>3, <2>2 DEF After
    <2>4. after \in Content /\ after # NoFile
      BY <1>6, <2>3, OnePiece
    <2>5. WorkflowLeft(content) = 2 /\ WorkflowLeft(after) \in {0, 1}
      BY <2>1, <2>4 DEF WorkflowLeft
    <2>6. WorkflowLeft(after) < WorkflowLeft(content)
      BY <2>5
    <2>7. QED BY <1>4, <1>5, <2>1, <2>4, <2>6
  <1>9. CASE code = "rust_ci_clippy_missing"
    <2>1. op.path = "workflow" /\ content # NoFile /\ ~ Has(content, "clippy and test")
      BY <1>7, <1>9, RepairIs
    <2>2. op.kind = "ReplaceExactText" /\ op.text = "clippy and test"
      BY <1>9, RepairIs
    <2>3. after \in Content /\ after # NoFile /\ Has(after, "clippy and test")
      BY <1>2, <1>3, <1>4, <1>6, <2>1, <2>2, Replaced
    <2>4. WorkflowLeft(content) = 1 /\ WorkflowLeft(after) = 0
      BY <2>1, <2>3 DEF WorkflowLeft
    <2>5. WorkflowLeft(after) < WorkflowLeft(content)
      BY <2>4
    <2>6. QED BY <1>4, <1>5, <2>1, <2>3, <2>5
  <1>10. CASE code = "smoke_test_missing"
    <2>1. op.path = "smoke" /\ content = NoFile
      BY <1>7, <1>10, RepairIs
    <2>2. op.kind = "CreateFile" /\ op.text = "smoke test"
      BY <1>10, RepairIs
    <2>3. after = <<"smoke test">>
      BY <1>3, <2>2 DEF After
    <2>4. after \in Content /\ after # NoFile
      BY <1>6, <2>3, OnePiece
    <2>5. SmokeLeft(content) = 1 /\ SmokeLeft(after) = 0
      BY <2>1, <2>4 DEF SmokeLeft
    <2>6. SmokeLeft(after) < SmokeLeft(content)
      BY <2>5
    <2>7. QED BY <1>4, <1>5, <2>1, <2>4, <2>6
  <1>11. CASE code = "readme_validation_missing"
    <2>1. op.path = "readme" /\ content # NoFile /\ ~ Has(content, "validation")
      BY <1>7, <1>11, RepairIs
    <2>2. op.kind = "AppendFile" /\ op.text = "validation"
      BY <1>11, RepairIs
    <2>3. after = Append(content, "validation")
      BY <1>3, <2>2 DEF After
    <2>4. after \in Content /\ after # NoFile /\ Has(after, "validation")
      BY <1>4, <1>6, <2>1, <2>3, Appended
    <2>5. ReadmeLeft(content) = 2 /\ ReadmeLeft(after) \in {0, 1}
      BY <2>1, <2>4 DEF ReadmeLeft
    <2>6. ReadmeLeft(after) < ReadmeLeft(content)
      BY <2>5
    <2>7. QED BY <1>4, <1>5, <2>1, <2>4, <2>6
  <1>12. CASE code = "readme_usage_missing"
    <2>1. /\ op.path = "readme" /\ content # NoFile /\ Has(content, "validation")
          /\ ~ Has(content, "usage")
      BY <1>7, <1>12, RepairIs
    <2>2. op.kind = "AppendFile" /\ op.text = "usage"
      BY <1>12, RepairIs
    <2>3. after = Append(content, "usage")
      BY <1>3, <2>2 DEF After
    <2>4. after \in Content /\ after # NoFile /\ Has(after, "usage") /\ Has(after, "validation")
      BY <1>4, <1>6, <2>1, <2>3, Appended
    <2>5. ReadmeLeft(content) = 1 /\ ReadmeLeft(after) = 0
      BY <2>1, <2>4 DEF ReadmeLeft
    <2>6. ReadmeLeft(after) < ReadmeLeft(content)
      BY <2>5
    <2>7. QED BY <1>4, <1>5, <2>1, <2>4, <2>6
  <1>13. QED BY <1>8, <1>9, <1>10, <1>11, <1>12, CodesAre

(* A project that passes has at most one suggestion left. *)
ProjectType == [files : [File -> Content], rust : BOOLEAN, git : BOOLEAN, dirty : BOOLEAN]

Validation == {"not run", "passed", "failed"}

LEMMA SaidIs ==
  ASSUME NEW at \in ProjectType, NEW validation \in Validation
  PROVE  /\ Report(at, validation).suggestions \in Seq(Suggestible)
         /\ \A i \in DOMAIN Report(at, validation).suggestions :
              Lacks(Report(at, validation).suggestions[i], at.files)
         /\ Report(at, validation).status = "passed" => Len(Report(at, validation).suggestions) <= 1
  <1>1. PICK s : s = Report(at, validation).suggestions
    OBVIOUS
  <1>2. s = IF at.rust THEN Suggestions(at.files) ELSE <<>>
    BY <1>1 DEF Report
  <1>3. Suggests(s, Suggestible, at.files)
    <2>1. Suggests(<<>>, Suggestible, at.files)
      BY DEF Suggests
    <2>2. QED BY <1>2, <2>1, SuggestionsAre
  <1>4. s \in Seq(Suggestible) /\ Len(s) \in Nat /\ DOMAIN s = 1 .. Len(s)
    BY <1>3 DEF Suggests
  <1>5. ASSUME Report(at, validation).status = "passed", Len(s) > 1 PROVE FALSE
    <2>1. at.rust /\ s = Suggestions(at.files)
      <3>1. Len(<<>>) = 0
        OBVIOUS
      <3>2. QED BY <1>2, <1>5, <3>1
    <2>2. 1 \in DOMAIN s /\ 2 \in DOMAIN s
      BY <1>4, <1>5
    <2>3. s[1] # s[2]
      BY <1>3, <2>2 DEF Suggests
    <2>4. PICK warned : warned = Warned(at)
      OBVIOUS
    <2>5. IsFiniteSet(warned)
      <3>1. warned \subseteq Suggestible \cup {"workspace_dirty"}
        <4>1. Range(s) \subseteq Suggestible
          BY <1>4 DEF Range
        <4>2. QED BY <2>1, <2>4, <4>1 DEF Warned
      <3>2. IsFiniteSet(Suggestible \cup {"workspace_dirty"})
        BY CodesAre, FS_AddElement
      <3>3. QED BY <3>1, <3>2, FS_Subset
    <2>6. s[1] \in warned /\ s[2] \in warned
      BY <2>1, <2>2, <2>4 DEF Warned, Range
    <2>7. Cardinality(warned) >= 2
      <3>1. IsFiniteSet({s[1]}) /\ Cardinality({s[1]}) = 1
        BY FS_Singleton
      <3>2. Cardinality({s[1]} \cup {s[2]}) = 2
        BY <2>3, <3>1, FS_AddElement
      <3>3. {s[1]} \cup {s[2]} \subseteq warned
        BY <2>6
      <3>4. Cardinality({s[1]} \cup {s[2]}) <= Cardinality(warned)
        BY <2>5, <3>3, FS_Subset
      <3>5. Cardinality(warned) \in Nat
        BY <2>5, FS_CardinalityType
      <3>6. QED BY <3>2, <3>4, <3>5
    <2>8. PICK few : few = Cardinality(Informed(at))
      OBVIOUS
    <2>9. few \in Nat
      <3>1. Informed(at) = {} \/ Informed(at) = {"readme_missing"}
        BY DEF Informed
      <3>2. IsFiniteSet(Informed(at))
        BY <3>1, FS_EmptySet, FS_Singleton
      <3>3. QED BY <2>8, <3>2, FS_CardinalityType
    <2>10. PICK many : many = Cardinality(warned)
      OBVIOUS
    <2>11. many \in Nat /\ many >= 2
      BY <2>5, <2>7, <2>10, FS_CardinalityType
    <2>12. PICK found : found = Less(100, 2 * few + 10 * many + 0)
      OBVIOUS
    <2>13. found \in Nat /\ found <= 80
      BY <2>9, <2>11, <2>12 DEF Less
    <2>14. PICK tested : tested = IF validation = "failed" THEN Less(found, 40) ELSE found
      OBVIOUS
    <2>15. tested \in Nat /\ tested <= 80
      BY <2>13, <2>14 DEF Less
    <2>16. Score(at, validation) = IF Critical(at, validation) # {} /\ tested > 60 THEN 60 ELSE tested
      BY <2>1, <2>4, <2>8, <2>10, <2>12, <2>14 DEF Score
    <2>17. Score(at, validation) < 85
      BY <2>15, <2>16
    <2>18. Verdict(at, validation) = "passed"
      BY <1>5 DEF Report
    <2>19. Score(at, validation) >= 85
      BY <2>18 DEF Verdict
    <2>20. QED BY <2>15, <2>16, <2>17, <2>19
  <1>6. Report(at, validation).status = "passed" => Len(s) <= 1
    BY <1>4, <1>5
  <1>7. QED BY <1>1, <1>3, <1>4, <1>6 DEF Suggests

(* The dry runs there can be, and what a trial holds of a repository and reports of it. *)
DryRuns == {DryRunAt(files, OnlyOf[code]) : files \in [File -> Content], code \in Suggestible}

Told(repo) == /\ repo.of \in ProjectType
              /\ \E validation \in Validation : repo.said = Report(repo.of, validation)

Tried(repo) ==
  repo.undisturbed =>
    \A i \in DOMAIN repo.fixes :
      repo.fixes[i] = DryRunAt(repo.of.files, OnlyOf[repo.said.suggestions[i]])

Examined == {[of |-> of, said |-> Report(of, validation), fixes |-> fixes, undisturbed |-> undisturbed] :
           of \in ProjectType, validation \in Validation, fixes \in Seq(DryRuns),
           undisturbed \in BOOLEAN}

Done == {repo \in Examined : Tried(repo) /\ Len(repo.fixes) = Len(repo.said.suggestions)}

(* Nobody has disturbed what the files are still as they were for. *)
OnIt(repo, files) ==
  /\ repo \in Examined /\ Tried(repo) /\ Len(repo.fixes) <= Len(repo.said.suggestions)
  /\ repo.undisturbed => files = repo.of.files

Truthful(repo) == Told(repo) /\ ("fixes" \in DOMAIN repo => repo \in Done)

TrialAt(t, files) ==
  /\ t = [left |-> t.left, skipped |-> t.skipped, at |-> t.at, done |-> t.done]
  /\ t.at # NoRepo => OnIt(t.at, files)
  /\ t.done \in Seq(Done)

TrialInv ==
  /\ project \in ProjectType
  /\ trial # NoTrial => TrialAt(trial, project.files)
  /\ report # NoReport => \A n \in DOMAIN report : Truthful(report[n])

LEMMA RepoFields ==
  ASSUME NEW repo \in Examined
  PROVE  /\ repo = [of |-> repo.of, said |-> repo.said, fixes |-> repo.fixes,
                    undisturbed |-> repo.undisturbed]
         /\ repo.of \in ProjectType /\ repo.fixes \in Seq(DryRuns) /\ repo.undisturbed \in BOOLEAN
         /\ \E validation \in Validation : repo.said = Report(repo.of, validation)
         /\ Told(repo)
  BY DEF Examined, Told

LEMMA RepoMade ==
  ASSUME NEW of \in ProjectType, NEW validation \in Validation, NEW fixes \in Seq(DryRuns),
         NEW undisturbed \in BOOLEAN, NEW said, said = Report(of, validation)
  PROVE  [of |-> of, said |-> said, fixes |-> fixes, undisturbed |-> undisturbed] \in Examined
  BY DEF Examined

LEMMA ProjectChanges ==
  ASSUME NEW p \in ProjectType, NEW files \in [File -> Content], NEW dirty \in BOOLEAN
  PROVE  /\ [[p EXCEPT !.dirty = dirty] EXCEPT !.files = files] \in ProjectType
         /\ [p EXCEPT !.dirty = dirty] \in ProjectType
         /\ [p EXCEPT !.dirty = dirty].files = p.files
         /\ [[p EXCEPT !.dirty = dirty] EXCEPT !.files = files].files = files
         /\ p.git \in BOOLEAN /\ p.rust \in BOOLEAN /\ p.files \in [File -> Content]
  BY DEF ProjectType

LEMMA DisturbedIs ==
  ASSUME NEW t, NEW files, NEW files2, TrialAt(t, files), t.at # NoRepo, NEW t2,
         t2 = [t EXCEPT !.at.undisturbed = FALSE]
  PROVE  TrialAt(t2, files2)
  <1>1. PICK repo : repo = t.at
    OBVIOUS
  <1>2. repo \in Examined /\ Len(repo.fixes) <= Len(repo.said.suggestions)
    BY <1>1 DEF TrialAt, OnIt
  <1>3. PICK new : new = [repo EXCEPT !.undisturbed = FALSE]
    OBVIOUS
  <1>4. /\ new = [of |-> repo.of, said |-> repo.said, fixes |-> repo.fixes, undisturbed |-> FALSE]
        /\ new.undisturbed = FALSE /\ new.fixes = repo.fixes /\ new.said = repo.said
    <2>1. PICK of, said, fixes, und : of = repo.of /\ said = repo.said /\ fixes = repo.fixes
                                      /\ und = repo.undisturbed
      OBVIOUS
    <2>2. repo = [of |-> of, said |-> said, fixes |-> fixes, undisturbed |-> und]
      BY <1>2, <2>1, RepoFields, Zenon
    <2>3. new = [of |-> of, said |-> said, fixes |-> fixes, undisturbed |-> FALSE]
      BY <1>3, <2>2
    <2>4. new.undisturbed = FALSE /\ new.fixes = fixes /\ new.said = said
      BY <2>3
    <2>5. QED BY <2>1, <2>3, <2>4, Zenon
  <1>5. new \in Examined
    BY <1>2, <1>4, RepoFields, RepoMade
  <1>6. OnIt(new, files2)
    BY <1>2, <1>4, <1>5 DEF OnIt, Tried
  <1>7. t2 = [t EXCEPT !.at = new]
    BY <1>1, <1>3
  <1>8. t = [left |-> t.left, skipped |-> t.skipped, at |-> t.at, done |-> t.done]
    BY DEF TrialAt
  <1>9. t2 = [left |-> t.left, skipped |-> t.skipped, at |-> new, done |-> t.done]
    BY <1>7, <1>8
  <1>10. /\ t2 = [left |-> t2.left, skipped |-> t2.skipped, at |-> t2.at, done |-> t2.done]
         /\ t2.at = new /\ t2.done = t.done
    <2>1. PICK left, skipped, done : left = t.left /\ skipped = t.skipped /\ done = t.done
      OBVIOUS
    <2>2. t2 = [left |-> left, skipped |-> skipped, at |-> new, done |-> done]
      BY <1>9, <2>1, Zenon
    <2>3. t2.left = left /\ t2.skipped = skipped /\ t2.at = new /\ t2.done = done
      BY <2>2
    <2>4. t2 = [left |-> t2.left, skipped |-> t2.skipped, at |-> t2.at, done |-> t2.done]
      BY <2>2, <2>3, Zenon
    <2>5. QED BY <2>1, <2>3, <2>4, Zenon
  <1>11. t.done \in Seq(Done)
    BY DEF TrialAt
  <1>12. OnIt(t2.at, files2) /\ t2.done \in Seq(Done)
    BY <1>6, <1>10, <1>11, Zenon
  <1>13. QED BY <1>10, <1>12 DEF TrialAt

(* Whatever is done to the files, the trial under way knows. *)
LEMMA DisturbedKeeps ==
  ASSUME TrialInv, trial' = Disturbed, NEW files2
  PROVE  trial' # NoTrial => TrialAt(trial', files2)
  <1>1. CASE trial = NoTrial
    BY <1>1 DEF Disturbed
  <1>2. CASE trial # NoTrial /\ trial.at = NoRepo
    <2>1. trial' = trial
      BY <1>2 DEF Disturbed
    <2>2. QED BY <1>2, <2>1 DEF TrialInv, TrialAt
  <1>3. CASE trial # NoTrial /\ trial.at # NoRepo
    <2>1. trial' = [trial EXCEPT !.at.undisturbed = FALSE]
      BY <1>3 DEF Disturbed
    <2>2. TrialAt(trial, project.files)
      BY <1>3 DEF TrialInv
    <2>3. QED BY <1>3, <2>1, <2>2, DisturbedIs
  <1>4. QED BY <1>1, <1>2, <1>3

LEMMA InitTrial == TrialInit => TrialInv
  <1> SUFFICES ASSUME TrialInit PROVE TrialInv
    OBVIOUS
  <1>1. project \in [files : OldFiles, rust : BOOLEAN, git : BOOLEAN, dirty : {FALSE}]
    BY DEF TrialInit
  <1>2. project \in ProjectType
    BY <1>1, TrialAssumption DEF ProjectType
  <1>3. QED BY <1>2 DEF TrialInit, TrialInv

LEMMA TouchedIs ==
  ASSUME TrialInv
  PROVE  /\ Touched = [project EXCEPT !.dirty = project.git]
         /\ project \in ProjectType /\ project.git \in BOOLEAN /\ project.rust \in BOOLEAN
         /\ project.files \in [File -> Content]
         /\ Touched \in ProjectType /\ Touched.files = project.files
         /\ \A files \in [File -> Content] : /\ [Touched EXCEPT !.files = files] \in ProjectType
                                             /\ [Touched EXCEPT !.files = files].files = files
  <1>1. project \in ProjectType
    BY DEF TrialInv
  <1>2. project.git \in BOOLEAN /\ project.rust \in BOOLEAN /\ project.files \in [File -> Content]
    BY <1>1 DEF ProjectType
  <1>3. Touched = [project EXCEPT !.dirty = project.git]
    BY DEF Touched
  <1>4. Touched \in ProjectType /\ Touched.files = project.files
    BY <1>1, <1>2, <1>3, ProjectChanges
  <1>5. ASSUME NEW files \in [File -> Content]
        PROVE  /\ [Touched EXCEPT !.files = files] \in ProjectType
               /\ [Touched EXCEPT !.files = files].files = files
    <2>1. PICK p : p = Touched
      OBVIOUS
    <2>2. p \in ProjectType
      BY <1>4, <2>1
    <2>3. [p EXCEPT !.files = files] \in ProjectType /\ [p EXCEPT !.files = files].files = files
      BY <2>2 DEF ProjectType
    <2>4. QED BY <2>1, <2>3, Zenon
  <1>6. QED BY <1>1, <1>2, <1>3, <1>4, <1>5

LEMMA OneReport ==
  ASSUME NEW repo, NEW list, list = <<repo>>
  PROVE  \A n \in DOMAIN list : list[n] = repo
  <1>1. DOMAIN list = {1} /\ list[1] = repo
    OBVIOUS
  <1>2. QED BY <1>1

LEMMA DoctorRunKeeps ==
  ASSUME TrialInv, NEW request, DoctorRun(request) PROVE TrialInv'
  <1>1. CASE request.target = "."
    <2>1. PICK validation \in {"passed", "failed", "not run"} :
            report' = <<[of |-> project, said |-> Report(project, validation)]>>
      BY <1>1 DEF DoctorRun
    <2>2. project' = Touched /\ trial' = trial
      BY <1>1 DEF DoctorRun
    <2>3. PICK repo : repo = [of |-> project, said |-> Report(project, validation)]
      OBVIOUS
    <2>4. /\ repo.of = project /\ repo.said = Report(project, validation)
          /\ "fixes" \notin DOMAIN repo
      BY <2>3
    <2>5. Truthful(repo)
      BY <2>4, TouchedIs DEF Truthful, Told, Validation
    <2>6. report' = <<repo>>
      BY <2>1, <2>3
    <2>7. \A n \in DOMAIN report' : report'[n] = repo
      BY <2>6, OneReport
    <2>8. project' \in ProjectType /\ project'.files = project.files
      BY <2>2, TouchedIs
    <2>9. trial' # NoTrial => TrialAt(trial', project'.files)
      BY <2>2, <2>8 DEF TrialInv
    <2>10. QED BY <2>5, <2>7, <2>8, <2>9 DEF TrialInv
  <1>2. CASE request.target # "."
    BY <1>2 DEF DoctorRun, TrialInv
  <1>3. QED BY <1>1, <1>2

LEMMA TrialBeginKeeps ==
  ASSUME TrialInv, NEW request, TrialBegin(request) PROVE TrialInv'
  <1>1. project' = project /\ report' = report
    BY DEF TrialBegin
  <1>2. CASE request = NotUnderstood
    BY <1>1, <1>2 DEF TrialBegin, TrialInv
  <1>3. CASE request # NotUnderstood
    <2>1. trial' = [left |-> request.targets, skipped |-> 0, at |-> NoRepo, done |-> <<>>]
      BY <1>3 DEF TrialBegin
    <2>2. /\ trial' = [left |-> trial'.left, skipped |-> trial'.skipped, at |-> trial'.at,
                       done |-> trial'.done]
          /\ trial'.at = NoRepo /\ trial'.done = <<>>
      BY <2>1
    <2>3. TrialAt(trial', project'.files)
      BY <2>2 DEF TrialAt
    <2>4. QED BY <1>1, <2>3 DEF TrialInv
  <1>4. QED BY <1>2, <1>3

LEMMA TrialRepoKeeps ==
  ASSUME TrialInv, TrialRepo PROVE TrialInv'
  <1>1. project' = project /\ report' = report
    BY DEF TrialRepo
  <1>2. /\ trial = [left |-> trial.left, skipped |-> trial.skipped, at |-> trial.at,
                    done |-> trial.done]
        /\ trial.done \in Seq(Done) /\ trial.at = NoRepo
    BY DEF TrialRepo, TrialInv, TrialAt
  <1>3. CASE Head(trial.left) = "."
    <2>1. PICK repo : repo = [of |-> project, said |-> Report(project, "not run"), fixes |-> <<>>,
                              undisturbed |-> TRUE]
      OBVIOUS
    <2>2. /\ repo.of = project /\ repo.said = Report(project, "not run") /\ repo.fixes = <<>>
          /\ repo.undisturbed = TRUE
      BY <2>1
    <2>3. repo \in Examined
      <3>1. <<>> \in Seq(DryRuns) /\ "not run" \in Validation
        BY DEF Validation
      <3>2. QED BY <2>1, <3>1, TouchedIs, RepoMade
    <2>4. Len(repo.said.suggestions) \in Nat
      <3>1. Report(project, "not run").suggestions \in Seq(Suggestible)
        BY TouchedIs, SaidIs DEF Validation
      <3>2. repo.said.suggestions \in Seq(Suggestible)
        BY <2>2, <3>1, Zenon
      <3>3. QED BY <3>2
    <2>5. Len(repo.fixes) = 0 /\ DOMAIN repo.fixes = {}
      <3>1. PICK none : none = <<>>
        OBVIOUS
      <3>2. Len(none) = 0 /\ DOMAIN none = {}
        BY <3>1
      <3>3. QED BY <2>2, <3>1, <3>2, Zenon
    <2>6. OnIt(repo, project.files)
      <3>1. Tried(repo)
        BY <2>5 DEF Tried
      <3>2. Len(repo.fixes) <= Len(repo.said.suggestions)
        BY <2>4, <2>5
      <3>3. project.files = repo.of.files
        BY <2>2, Zenon
      <3>4. QED BY <2>3, <3>1, <3>2, <3>3 DEF OnIt
    <2>7. trial' = [trial EXCEPT !.left = Tail(@), !.at = repo]
      BY <1>3, <2>1 DEF TrialRepo
    <2>8. trial' = [left |-> Tail(trial.left), skipped |-> trial.skipped, at |-> repo,
                    done |-> trial.done]
      BY <1>2, <2>7
    <2>9. TrialAt(trial', project'.files)
      BY <1>1, <1>2, <2>6, <2>8 DEF TrialAt
    <2>10. QED BY <1>1, <2>9 DEF TrialInv
  <1>4. CASE Head(trial.left) # "."
    <2>1. trial' = [trial EXCEPT !.left = Tail(@), !.skipped = @ + 1]
      BY <1>4 DEF TrialRepo
    <2>2. trial' = [left |-> Tail(trial.left), skipped |-> trial.skipped + 1, at |-> trial.at,
                    done |-> trial.done]
      BY <1>2, <2>1
    <2>3. TrialAt(trial', project'.files)
      BY <1>2, <2>2 DEF TrialAt
    <2>4. QED BY <1>1, <2>3 DEF TrialInv
  <1>5. QED BY <1>3, <1>4

LEMMA OnlyOfDryRunIs ==
  ASSUME NEW code \in Suggestible
  PROVE  OnlyOfDryRun[code] = OnlyOf[code]
  BY OnlyIs DEF OnlyOfDryRun

(* One dry run more: on the files as the doctor saw them, unless somebody was there. *)
LEMMA MoreTried ==
  ASSUME NEW repo, NEW files \in [File -> Content], OnIt(repo, files),
         Len(repo.fixes) < Len(repo.said.suggestions), NEW code,
         code = repo.said.suggestions[Len(repo.fixes) + 1], NEW new,
         new = [repo EXCEPT !.fixes = Append(@, DryRunAt(files, OnlyOf[code]))]
  PROVE  OnIt(new, files)
  <1>1. PICK of, said, fixes, und : of = repo.of /\ said = repo.said /\ fixes = repo.fixes
                                    /\ und = repo.undisturbed
    OBVIOUS
  <1>2. repo \in Examined
    BY DEF OnIt
  <1>3. repo = [of |-> of, said |-> said, fixes |-> fixes, undisturbed |-> und]
    BY <1>1, <1>2, RepoFields, Zenon
  <1>4. of \in ProjectType /\ fixes \in Seq(DryRuns) /\ und \in BOOLEAN
    BY <1>1, <1>2, RepoFields, Zenon
  <1>5. PICK validation \in Validation : said = Report(of, validation)
    BY <1>1, <1>2, RepoFields, Zenon
  <1>6. PICK suggestions : suggestions = said.suggestions
    OBVIOUS
  <1>7. suggestions \in Seq(Suggestible)
    BY <1>4, <1>5, <1>6, SaidIs, Zenon
  <1>8. Len(fixes) < Len(suggestions) /\ code = suggestions[Len(fixes) + 1]
    BY <1>1, <1>6, Zenon
  <1>9. code \in Suggestible
    BY <1>4, <1>7, <1>8
  <1>10. PICK run : run = DryRunAt(files, OnlyOf[code])
    OBVIOUS
  <1>11. run \in DryRuns
    BY <1>9, <1>10 DEF DryRuns
  <1>12. PICK more : more = Append(fixes, run)
    OBVIOUS
  <1>13. /\ more \in Seq(DryRuns) /\ DOMAIN more = 1 .. Len(fixes) + 1 /\ Len(fixes) \in Nat
         /\ Len(more) = Len(fixes) + 1 /\ DOMAIN fixes = 1 .. Len(fixes)
         /\ more[Len(fixes) + 1] = run /\ \A i \in 1 .. Len(fixes) : more[i] = fixes[i]
    BY <1>4, <1>11, <1>12
  <1>14. new = [repo EXCEPT !.fixes = more]
    BY <1>1, <1>10, <1>12
  <1>15. new = [of |-> of, said |-> said, fixes |-> more, undisturbed |-> und]
    BY <1>3, <1>14
  <1>16. new.of = of /\ new.said = said /\ new.fixes = more /\ new.undisturbed = und
    BY <1>15
  <1>17. new \in Examined
    <2>1. more \in Seq(DryRuns)
      BY <1>13
    <2>2. [of |-> of, said |-> said, fixes |-> more, undisturbed |-> und] \in Examined
      BY <1>4, <1>5, <2>1, RepoMade, Zenon
    <2>3. QED BY <1>15, <2>2, Zenon
  <1>18. Len(more) <= Len(suggestions)
    BY <1>7, <1>8, <1>13
  <1>19. und => files = of.files
    BY <1>1, Zenon DEF OnIt
  <1>20. ASSUME und PROVE \A i \in DOMAIN more : more[i] = DryRunAt(of.files, OnlyOf[suggestions[i]])
    <2>1. \A i \in DOMAIN fixes : fixes[i] = DryRunAt(of.files, OnlyOf[suggestions[i]])
      BY <1>1, <1>6, <1>20, Zenon DEF OnIt, Tried
    <2>2. run = DryRunAt(of.files, OnlyOf[suggestions[Len(fixes) + 1]])
      BY <1>8, <1>10, <1>19, <1>20, Zenon
    <2>3. \A i \in DOMAIN more : i \in DOMAIN fixes \/ i = Len(fixes) + 1
      BY <1>13
    <2>4. QED BY <1>13, <2>1, <2>2, <2>3
  <1>21. Tried(new)
    BY <1>6, <1>16, <1>20, Zenon DEF Tried
  <1>22. Len(new.fixes) <= Len(new.said.suggestions) /\ (new.undisturbed => files = new.of.files)
    BY <1>6, <1>16, <1>18, <1>19, Zenon
  <1>23. QED BY <1>17, <1>21, <1>22 DEF OnIt

LEMMA TrialWith ==
  ASSUME NEW left, NEW skipped, NEW at, NEW done \in Seq(Done), NEW files,
         at # NoRepo => OnIt(at, files), NEW t,
         t = [left |-> left, skipped |-> skipped, at |-> at, done |-> done]
  PROVE  TrialAt(t, files)
  <1>1. t.left = left /\ t.skipped = skipped
    OBVIOUS
  <1>2. t.at = at /\ t.done = done
    OBVIOUS
  <1>3. t = [left |-> t.left, skipped |-> t.skipped, at |-> t.at, done |-> t.done]
    BY <1>1, <1>2, Zenon
  <1>4. QED BY <1>2, <1>3, Zenon DEF TrialAt

LEMMA TrialFixKeeps ==
  ASSUME TrialInv, TrialFix PROVE TrialInv'
  <1>1. project' = project /\ report' = report
    BY DEF TrialFix
  <1>2. TrialAt(trial, project.files) /\ project.files \in [File -> Content]
    BY TouchedIs DEF TrialFix, TrialInv
  <1>3. PICK repo : repo = trial.at
    OBVIOUS
  <1>4. OnIt(repo, project.files) /\ Len(repo.fixes) < Len(repo.said.suggestions)
    BY <1>2, <1>3 DEF TrialFix, TrialAt
  <1>5. PICK code : code = repo.said.suggestions[Len(repo.fixes) + 1]
    OBVIOUS
  <1>6. code \in Suggestible
    <2>1. repo \in Examined
      BY <1>4 DEF OnIt
    <2>2. PICK validation \in Validation : repo.said = Report(repo.of, validation)
      BY <2>1, RepoFields, Zenon
    <2>3. Report(repo.of, validation).suggestions \in Seq(Suggestible)
      BY <2>1, RepoFields, SaidIs, Zenon
    <2>4. PICK suggestions : suggestions = repo.said.suggestions
      OBVIOUS
    <2>5. suggestions \in Seq(Suggestible)
      BY <2>2, <2>3, <2>4, Zenon
    <2>6. PICK fixes : fixes = repo.fixes
      OBVIOUS
    <2>7. fixes \in Seq(DryRuns)
      BY <2>1, <2>6, RepoFields, Zenon
    <2>8. Len(fixes) < Len(suggestions) /\ code = suggestions[Len(fixes) + 1]
      BY <1>4, <1>5, <2>4, <2>6, Zenon
    <2>9. QED BY <2>5, <2>7, <2>8
  <1>7. OnlyOfDryRun[code] = OnlyOf[code]
    BY <1>6, OnlyOfDryRunIs
  <1>8. DryRunOf(OnlyOf[code]) = DryRunAt(project.files, OnlyOf[code])
    BY DEF DryRunOf, DryRunAt
  <1>9. trial' = [trial EXCEPT !.at.fixes = Append(@, DryRunOf(OnlyOfDryRun[code]))]
    BY <1>3, <1>5 DEF TrialFix
  <1>10. trial' = [trial EXCEPT !.at.fixes = Append(@, DryRunAt(project.files, OnlyOf[code]))]
    BY <1>7, <1>8, <1>9, Zenon
  <1>11. PICK new : new = [repo EXCEPT !.fixes = Append(@, DryRunAt(project.files, OnlyOf[code]))]
    OBVIOUS
  <1>12. OnIt(new, project.files)
    BY <1>2, <1>4, <1>5, <1>11, MoreTried
  <1>13. trial' = [trial EXCEPT !.at = new]
    BY <1>3, <1>10, <1>11
  <1>14. trial.done \in Seq(Done)
    BY <1>2 DEF TrialAt
  <1>15. PICK left, skipped, was, had : left = trial.left /\ skipped = trial.skipped
                                       /\ was = trial.at /\ had = trial.done
    OBVIOUS
  <1>16. trial = [left |-> left, skipped |-> skipped, at |-> was, done |-> had]
    BY <1>2, <1>15, Zenon DEF TrialAt
  <1>17. trial' = [left |-> left, skipped |-> skipped, at |-> new, done |-> had]
    BY <1>13, <1>16
  <1>18. TrialAt(trial', project.files)
    BY <1>12, <1>14, <1>15, <1>17, TrialWith
  <1>19. QED BY <1>1, <1>18 DEF TrialInv

LEMMA TrialRepoEndKeeps ==
  ASSUME TrialInv, TrialRepoEnd PROVE TrialInv'
  <1>1. project' = project /\ report' = report
    BY DEF TrialRepoEnd
  <1>2. TrialAt(trial, project.files)
    BY DEF TrialRepoEnd, TrialInv
  <1>3. PICK repo : repo = trial.at
    OBVIOUS
  <1>4. OnIt(repo, project.files) /\ Len(repo.fixes) = Len(repo.said.suggestions)
    BY <1>2, <1>3 DEF TrialRepoEnd, TrialAt
  <1>5. repo \in Done
    BY <1>4 DEF Done, OnIt
  <1>6. PICK done : done = Append(trial.done, repo)
    OBVIOUS
  <1>7. trial.done \in Seq(Done)
    BY <1>2 DEF TrialAt
  <1>8. done \in Seq(Done)
    BY <1>5, <1>6, <1>7
  <1>9. trial' = [trial EXCEPT !.done = Append(@, trial.at), !.at = NoRepo]
    BY DEF TrialRepoEnd
  <1>10. PICK left, skipped, was, had : left = trial.left /\ skipped = trial.skipped
                                       /\ was = trial.at /\ had = trial.done
    OBVIOUS
  <1>11. trial = [left |-> left, skipped |-> skipped, at |-> was, done |-> had]
    BY <1>2, <1>10, Zenon DEF TrialAt
  <1>12. done = Append(had, was)
    BY <1>3, <1>6, <1>10
  <1>13. trial' = [left |-> left, skipped |-> skipped, at |-> NoRepo, done |-> Append(had, was)]
    BY <1>9, <1>11
  <1>14. trial' = [left |-> left, skipped |-> skipped, at |-> NoRepo, done |-> done]
    BY <1>12, <1>13, Zenon
  <1>15. TrialAt(trial', project.files)
    BY <1>8, <1>14, TrialWith
  <1>16. QED BY <1>1, <1>15 DEF TrialInv

LEMMA TrialEndKeeps ==
  ASSUME TrialInv, TrialEnd PROVE TrialInv'
  <1>1. project' = project /\ report' = trial.done /\ trial' = NoTrial
    BY DEF TrialEnd
  <1>2. trial.done \in Seq(Done)
    BY DEF TrialEnd, TrialInv, TrialAt
  <1>3. \A n \in DOMAIN trial.done : trial.done[n] \in Done
    BY <1>2
  <1>4. ASSUME NEW repo \in Done PROVE Truthful(repo)
    BY <1>4, RepoFields DEF Done, Truthful
  <1>5. QED BY <1>1, <1>3, <1>4 DEF TrialInv

LEMMA DevelopKeepsTrial ==
  ASSUME TrialInv, Develop PROVE TrialInv'
  <1>1. PICK edit \in DevEdits : project' = [Touched EXCEPT !.files[edit.path] = edit.content]
    BY DEF Develop
  <1>2. trial' = Disturbed /\ report' = report
    BY DEF Develop
  <1>3. edit.path \in File /\ edit.content \in Content
    BY TrialAssumption
  <1>4. Touched \in ProjectType
    BY TouchedIs
  <1>5. project' \in ProjectType
    BY <1>1, <1>3, <1>4 DEF ProjectType
  <1>6. trial' # NoTrial => TrialAt(trial', project'.files)
    BY <1>2, DisturbedKeeps
  <1>7. QED BY <1>2, <1>5, <1>6 DEF TrialInv

FilesLeft(found, apply, files) ==
  IF found.blockers # {} \/ ~ apply THEN files
  ELSE PerformAll(files, [i \in 1 .. Cardinality(found.detected) |->
         Repair(CHOOSE problem \in found.detected : TRUE, files)]).files

(* The fix somebody makes who follows a suggestion: blocked, or the one repair. *)
LEMMA FollowIs ==
  ASSUME TrialInv, NEW code \in Suggestible, Follow(code)
  PROVE  /\ DryRunOf(Asked[code].only).blockers = Against(ProblemOf[code], project.files)
         /\ Against(ProblemOf[code], project.files) # {} => project'.files = project.files
         /\ Against(ProblemOf[code], project.files) = {} =>
              /\ project'.files \in [File -> Content]
              /\ LeftToDo(project'.files) < LeftToDo(project.files)
              /\ \A f \in File \ {Planned[ProblemOf[code]]} : project'.files[f] = project.files[f]
         /\ project' \in ProjectType
  <1>1. PICK fs \in [File -> Content] : fs = project.files
    BY TouchedIs
  <1>2. Lacks(code, fs)
    BY <1>1, Zenon DEF Follow
  <1>3. PICK problem : problem = ProblemOf[code]
    OBVIOUS
  <1>4. PICK found : found = DryRunAt(fs, OnlyOf[code])
    OBVIOUS
  <1>5. found = DryRunOf(Asked[code].only)
    BY <1>1, <1>4, AskedIs DEF DryRunOf, DryRunAt
  <1>6. found.detected = {problem} /\ found.blockers = Against(problem, fs)
    BY <1>2, <1>3, <1>4, DryRunIs
  <1>7. PICK files : /\ files = FilesLeft(found, Asked[code].apply, project.files)
                     /\ project' = [Touched EXCEPT !.files = files]
    <2>1. project' = [Touched EXCEPT !.files =
                        FilesLeft(DryRunOf(Asked[code].only), Asked[code].apply, project.files)]
      BY DEF Follow, FilesLeft
    <2>2. project' = [Touched EXCEPT !.files = FilesLeft(found, Asked[code].apply, project.files)]
      BY <1>5, <2>1, Zenon
    <2>3. QED BY <2>2
  <1>8. CASE Against(problem, fs) # {}
    <2>1. files = project.files
      BY <1>6, <1>7, <1>8 DEF FilesLeft
    <2>2. project' \in ProjectType /\ project'.files = project.files
      BY <1>7, <2>1, TouchedIs
    <2>3. QED BY <1>1, <1>3, <1>5, <1>6, <1>8, <2>2
  <1>9. CASE Against(problem, fs) = {}
    <2>1. PICK op : op = Repair(problem, fs)
      OBVIOUS
    <2>2. code # "gitignore_target_missing" /\ Refusal(op, fs[op.path]) = "none"
      BY <1>2, <1>3, <1>9, <2>1, NotRefused
    <2>3. PICK ops : ops = [i \in 1 .. Cardinality(found.detected) |->
                             Repair(CHOOSE p \in found.detected : TRUE, project.files)]
      OBVIOUS
    <2>4. Cardinality(found.detected) = 1 /\ (CHOOSE p \in found.detected : TRUE) = problem
      BY <1>6, FS_Singleton
    <2>5. ops = [i \in 1 .. 1 |-> op]
      <3>1. op = Repair(problem, project.files)
        BY <1>1, <2>1, Zenon
      <3>2. PICK chosen : chosen = (CHOOSE p \in found.detected : TRUE)
        OBVIOUS
      <3>3. ops = [i \in 1 .. Cardinality(found.detected) |-> Repair(chosen, project.files)]
        BY <2>3, <3>2
      <3>4. chosen = problem
        BY <2>4, <3>2, Zenon
      <3>5. Repair(chosen, project.files) = op
        BY <3>1, <3>4, Zenon
      <3>6. QED BY <2>4, <3>3, <3>5
    <2>6. Len(ops) = 1 /\ ops[1] = op
      BY <2>5
    <2>7. PICK new : new = Perform(fs, op)
      OBVIOUS
    <2>8. PerformAll(fs, ops).files = new
      BY <2>2, <2>6, <2>7, PerformOne
    <2>9. files = new
      <3>1. files = PerformAll(project.files, ops).files
        BY <1>6, <1>7, <1>9, <2>3, AskedIs DEF FilesLeft
      <3>2. QED BY <1>1, <2>8, <3>1, Zenon
    <2>10. /\ new \in [File -> Content] /\ LeftToDo(new) < LeftToDo(fs)
           /\ \A f \in File \ {op.path} : new[f] = fs[f]
      BY <1>2, <1>3, <2>1, <2>2, <2>7, Mends
    <2>11. project' \in ProjectType /\ project'.files = new
      BY <1>7, <2>9, <2>10, TouchedIs
    <2>12. op.path = Planned[problem]
      BY <2>1 DEF Repair
    <2>13. QED BY <1>1, <1>3, <1>5, <1>6, <1>9, <2>10, <2>11, <2>12, Zenon
  <1>10. QED BY <1>8, <1>9

LEMMA FollowKeeps ==
  ASSUME TrialInv, NEW code \in Suggestible, Follow(code) PROVE TrialInv'
  <1>1. project' \in ProjectType
    BY FollowIs
  <1>2. trial' = Disturbed /\ report' = report
    BY DEF Follow
  <1>3. trial' # NoTrial => TrialAt(trial', project'.files)
    BY <1>2, DisturbedKeeps
  <1>4. QED BY <1>1, <1>2, <1>3 DEF TrialInv

LEMMA TrialNextKeeps == TrialInv /\ [TrialNext]_trialVars => TrialInv'
  <1> SUFFICES ASSUME TrialInv, [TrialNext]_trialVars PROVE TrialInv'
    OBVIOUS
  <1>1. CASE UNCHANGED trialVars
    BY <1>1 DEF trialVars, TrialInv
  <1>2. ASSUME NEW request \in DoctorRequests, DoctorRun(request) PROVE TrialInv'
    BY <1>2, DoctorRunKeeps
  <1>3. ASSUME NEW request \in TrialRequests, TrialBegin(request) PROVE TrialInv'
    BY <1>3, TrialBeginKeeps
  <1>4. CASE TrialRepo  BY <1>4, TrialRepoKeeps
  <1>5. CASE TrialFix  BY <1>5, TrialFixKeeps
  <1>6. CASE TrialRepoEnd  BY <1>6, TrialRepoEndKeeps
  <1>7. CASE TrialEnd  BY <1>7, TrialEndKeeps
  <1>8. CASE Develop  BY <1>8, DevelopKeepsTrial
  <1>9. ASSUME NEW code \in Suggestible, Follow(code) PROVE TrialInv'
    BY <1>9, FollowKeeps
  <1>10. QED BY <1>1, <1>2, <1>3, <1>4, <1>5, <1>6, <1>7, <1>8, <1>9 DEF TrialNext

LEMMA AgreeHolds == TrialInv => DoctorAndFixAgree
  <1> SUFFICES ASSUME TrialInv, report # NoReport, NEW n \in DOMAIN report
               PROVE  LET repo == report[n]
                          suggested == repo.said.suggestions IN
                      /\ repo.said.status = "passed" => Len(suggested) <= 1
                      /\ "fixes" \in DOMAIN repo /\ repo.undisturbed =>
                           \A i \in DOMAIN suggested :
                             /\ repo.fixes[i].detected = {ProblemOf[suggested[i]]}
                             /\ repo.fixes[i].blockers = {}
                                \/ suggested[i] = "gitignore_target_missing"
                                \/ /\ suggested[i] = "rust_ci_clippy_missing"
                                   /\ Cardinality({k \in DOMAIN repo.of.files["workflow"] :
                                         repo.of.files["workflow"][k] = "test step"}) # 1
    BY DEF DoctorAndFixAgree
  <1>1. PICK repo : repo = report[n]
    OBVIOUS
  <1>2. Truthful(repo)
    BY <1>1 DEF TrialInv
  <1>3. PICK validation \in Validation : repo.said = Report(repo.of, validation)
    BY <1>2 DEF Truthful, Told
  <1>4. repo.of \in ProjectType
    BY <1>2 DEF Truthful, Told
  <1>5. PICK suggested : suggested = repo.said.suggestions
    OBVIOUS
  <1>6. /\ suggested \in Seq(Suggestible)
        /\ \A i \in DOMAIN suggested : Lacks(suggested[i], repo.of.files)
        /\ repo.said.status = "passed" => Len(suggested) <= 1
    BY <1>3, <1>4, <1>5, SaidIs, Zenon
  <1>7. ASSUME "fixes" \in DOMAIN repo, repo.undisturbed, NEW i \in DOMAIN suggested
        PROVE  /\ repo.fixes[i].detected = {ProblemOf[suggested[i]]}
               /\ repo.fixes[i].blockers = {}
                  \/ suggested[i] = "gitignore_target_missing"
                  \/ /\ suggested[i] = "rust_ci_clippy_missing"
                     /\ Ambiguous(repo.of.files["workflow"])
    <2>1. repo \in Done
      BY <1>2, <1>7 DEF Truthful
    <2>2. i \in DOMAIN repo.fixes
      <3>1. PICK fixes : fixes = repo.fixes
        OBVIOUS
      <3>2. fixes \in Seq(DryRuns) /\ Len(fixes) = Len(suggested)
        BY <1>5, <2>1, <3>1, RepoFields, Zenon DEF Done
      <3>3. i \in DOMAIN fixes
        BY <1>6, <3>2
      <3>4. QED BY <3>1, <3>3
    <2>3. PICK code \in Suggestible : code = suggested[i]
      BY <1>6
    <2>4. PICK files : files = repo.of.files
      OBVIOUS
    <2>5. repo.fixes[i] = DryRunAt(files, OnlyOf[code])
      BY <1>5, <1>7, <2>1, <2>2, <2>3, <2>4, Zenon DEF Done, Tried
    <2>6. Lacks(code, files)
      BY <1>6, <2>3, <2>4, Zenon
    <2>7. /\ repo.fixes[i].detected = {ProblemOf[code]}
          /\ repo.fixes[i].blockers = Against(ProblemOf[code], files)
      BY <2>5, <2>6, DryRunIs, Zenon
    <2>8. \/ Against(ProblemOf[code], files) = {} \/ code = "gitignore_target_missing"
          \/ code = "rust_ci_clippy_missing" /\ Ambiguous(files["workflow"])
      BY <2>6, NothingAgainst
    <2>9. QED BY <2>3, <2>4, <2>7, <2>8, Zenon
  <1>8. QED BY <1>1, <1>5, <1>6, <1>7, Zenon DEF Ambiguous

(* For any project, developer and reports: a trial's dry run finds exactly the problem the doctor
   suggested it for, and a project the doctor passes has at most one suggestion left. *)
THEOREM DoctorAndFixAlwaysAgree == TrialSpec => []DoctorAndFixAgree
  <1>1. TrialInit => TrialInv
    BY InitTrial
  <1>2. TrialInv /\ [TrialNext]_trialVars => TrialInv'
    BY TrialNextKeeps
  <1>3. TrialInv => DoctorAndFixAgree
    BY AgreeHolds
  <1>4. QED BY <1>1, <1>2, <1>3, PTL DEF TrialSpec

(* For any project: a suggestion that is followed and not blocked leaves less to do, and
   changes no other file. *)
THEOREM SuggestionsAlwaysSettle == TrialSpec => SuggestionsSettle
  <1>1. TrialInit => TrialInv
    BY InitTrial
  <1>2. TrialInv /\ [TrialNext]_trialVars => TrialInv'
    BY TrialNextKeeps
  <1>3. TrialInv =>
          [\A code \in Suggestible :
             Follow(code) /\ DryRunOf(Asked[code].only).blockers = {} =>
               /\ LeftToDo(project'.files) < LeftToDo(project.files)
               /\ \A f \in File \ {Planned[ProblemOf[code]]} :
                    project'.files[f] = project.files[f]]_trialVars
    <2> SUFFICES ASSUME TrialInv, NEW code \in Suggestible, Follow(code),
                        DryRunOf(Asked[code].only).blockers = {}
                 PROVE  /\ LeftToDo(project'.files) < LeftToDo(project.files)
                        /\ \A f \in File \ {Planned[ProblemOf[code]]} :
                             project'.files[f] = project.files[f]
      OBVIOUS
    <2>1. QED BY FollowIs
  <1>4. QED BY <1>1, <1>2, <1>3, PTL DEF TrialSpec, SuggestionsSettle
=============================================================================
