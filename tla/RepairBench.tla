---------------------------- MODULE RepairBench -----------------------------
(***************************************************************************)
(* `repair-bench`, its history and its gate: operators run suites beside   *)
(* each other in one output directory, with one version of EVA after the   *)
(* other, and a command may die.                                           *)
(***************************************************************************)
EXTENDS BenchRules, CommandLine

CONSTANTS Operator,    \* who runs commands
          BenchArgs,   \* the command lines they may give
          Fit,         \* how EVA and the toolchain may do on the cases
          MaxRuns,     \* bound: runs begun
          MaxUpgrades, \* bound: other versions of EVA or the toolchain
          MaxDeaths,   \* bound: commands that die
          None, Torn,  \* a file that is not there; a file or line cut off while written
          Glued        \* a line of the history that continues one cut off

ASSUME BenchAssumption ==
  /\ \A args \in BenchArgs : args \in Seq(STRING) /\ args # <<>>
  /\ Fit \subseteq [DOMAIN CaseOf -> Fitness]
  /\ None # Torn /\ \A suite \in Suite, some \in Fit : RunOf(suite, some) \notin {None, Torn}
  /\ MaxRuns \in Nat /\ MaxUpgrades \in Nat /\ MaxDeaths \in Nat

VARIABLES
  history,  \* history.jsonl: its lines
  latest,   \* latest.json: the run a gate compares with
  fit,      \* how EVA and the toolchain do on each case now
  proc,     \* the command each operator is in
  saved,    \* history: what latest.json has held, in order
  verdicts, \* history: what the gates said
  counts    \* runs, upgrades and deaths so far

benchVars == <<history, latest, fit, proc, saved, verdicts, counts>>

Idle == [step |-> "idle"]
At(p, step) == proc[p].step = step
Become(p, state) == proc' = [proc EXCEPT ![p] = state]
Count(kind, bound) == counts[kind] < bound /\ counts' = [counts EXCEPT ![kind] = @ + 1]

BenchInit ==
  /\ history = <<>> /\ latest = None
  /\ fit \in Fit
  /\ proc = [p \in Operator |-> Idle]
  /\ saved = <<>> /\ verdicts = <<>>
  /\ counts = [runs |-> 0, upgrades |-> 0, deaths |-> 0]

-----------------------------------------------------------------------------
RequestOf(args) ==
  IF Head(args) = "repair-bench-gate" THEN GateRequestOf(Tail(args)) ELSE BenchRequestOf(Tail(args))

Requests == {RequestOf(args) : args \in BenchArgs}

AnyRun == {RunOf(suite, some) : suite \in Suite, some \in Fit}

(* load_repair_bench_baseline; a file may hold what any run counted. *)
Baselines(request) ==
  CASE request.baseline = "latest" /\ latest # None -> {latest}
    [] request.baseline = "file" -> AnyRun
    [] OTHER -> {DefaultBaseline}

(* A latest run that cannot be read, arguments that are not understood or a suite there is not:
   the command ends before it has a result. *)
Fails(request) ==
  \/ request = NotUnderstood
  \/ request.suite \notin Suite
  \/ request.gate /\ request.baseline = "latest" /\ latest = Torn

(* The gate reads its baseline before the run it judges. *)
BenchBegin(p) ==
  /\ At(p, "idle") /\ Count("runs", MaxRuns)
  /\ \E request \in Requests :
       IF Fails(request) THEN Become(p, Idle)
       ELSE \E baseline \in Baselines(request) :
              Become(p, [step |-> "cases", request |-> request, known |-> Len(saved), at |-> 0,
                         baseline |-> baseline])
  /\ UNCHANGED <<history, latest, fit, saved, verdicts>>

BenchCases(p) ==
  /\ At(p, "cases")
  /\ Become(p, [step |-> "append", request |-> proc[p].request, known |-> proc[p].known, at |-> 0,
                baseline |-> proc[p].baseline, run |-> RunOf(proc[p].request.suite, fit)])
  /\ UNCHANGED <<history, latest, fit, saved, verdicts, counts>>

(* A line written after one that was cut off continues it; a whole one also ends it. *)
Cut == history # <<>> /\ Last(history) = Torn
AppendHistory(line) ==
  IF Cut THEN Append(Front(history), IF line = Torn THEN Torn ELSE Glued) ELSE Append(history, line)

BenchAppend(p) ==
  /\ At(p, "append")
  /\ history' = AppendHistory(proc[p].run)
  /\ Become(p, [proc[p] EXCEPT !.step = "save"])
  /\ UNCHANGED <<latest, fit, saved, verdicts, counts>>

BenchSave(p) ==
  /\ At(p, "save")
  /\ latest' = proc[p].run
  /\ saved' = Append(saved, proc[p].run)
  /\ Become(p, IF proc[p].request.gate
                 THEN [proc[p] EXCEPT !.step = "judge", !.at = Len(saved')] ELSE Idle)
  /\ UNCHANGED <<history, fit, verdicts, counts>>

GateJudge(p) ==
  /\ At(p, "judge")
  /\ verdicts' = Append(verdicts,
       [request |-> proc[p].request, known |-> proc[p].known, at |-> proc[p].at, run |-> proc[p].run,
        status |-> GateStatus(proc[p].baseline, proc[p].run)])
  /\ Become(p, Idle)
  /\ UNCHANGED <<history, latest, fit, saved, counts>>

(* A command dies; one that is writing may leave a part of a line, or a latest.json
   that was emptied first. *)
Die(p) ==
  /\ ~ At(p, "idle") /\ Count("deaths", MaxDeaths)
  /\ history' \in {history} \cup (IF At(p, "append") THEN {AppendHistory(Torn)} ELSE {})
  /\ \/ UNCHANGED <<latest, saved>>
     \/ At(p, "save") /\ latest' = Torn /\ saved' = Append(saved, Torn)
  /\ Become(p, Idle)
  /\ UNCHANGED <<fit, verdicts>>

(* Another version of EVA, or another toolchain. *)
Upgrade ==
  /\ Count("upgrades", MaxUpgrades)
  /\ fit' \in Fit \ {fit}
  /\ UNCHANGED <<history, latest, proc, saved, verdicts>>

-----------------------------------------------------------------------------
BenchNext ==
  \/ Upgrade
  \/ \E p \in Operator : BenchBegin(p) \/ BenchCases(p) \/ BenchAppend(p) \/ BenchSave(p)
                         \/ GateJudge(p) \/ Die(p)

BenchSpec == BenchInit /\ [][BenchNext]_benchVars

-----------------------------------------------------------------------------
(* Properties *)

(* Of two gates against the latest run that passed the same suite, the later one sees
   fewer cases pass only if it began before the first was saved, or a run between them
   had lowered the line: one with as few passes, of the other suite, or cut off. *)
GateHoldsTheLine ==
  \A i, j \in DOMAIN verdicts :
    LET earlier == verdicts[i]
        later   == verdicts[j] IN
    /\ i < j /\ earlier.status = "passed" /\ later.status = "passed"
    /\ earlier.run.suite = later.run.suite /\ later.request.baseline = "latest"
    /\ earlier.at <= later.known
    => \/ later.run.passed >= earlier.run.passed
       \/ \E k \in earlier.at + 1 .. later.known :
            \/ saved[k] = Torn
            \/ saved[k].suite # later.run.suite
            \/ saved[k].passed <= later.run.passed

=============================================================================
