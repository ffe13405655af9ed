----------------------------- MODULE CommandLine -----------------------------
(***************************************************************************)
(* How the commands of the repair tools read their arguments: one after    *)
(* the other, from left to right, the last of two of a kind being the one  *)
(* that counts.  An option takes whatever comes next for its value.        *)
(***************************************************************************)
EXTENDS Naturals, Sequences, SequencesExt

(* What a command takes: options without a value, options with one, and whether the other
   words name its target, its targets, or nothing. *)
Takes(plain, valued, targets) == [plain |-> plain, valued |-> valued, targets |-> targets]

FixOptions ==
  Takes({"--dry-run", "--apply", "--no-llm"},
        {"--only", "--max-files", "--risk", "--provider", "--evidence-dir"}, "one")
DoctorOptions == Takes({"--validate", "--json", "--no-llm"}, {"--evidence-dir"}, "one")
BenchOptions  == Takes({"--json", "--no-llm"}, {"--suite", "--output"}, "none")
GateOptions   == Takes({"--json"}, {"--suite", "--baseline", "--baseline-file", "--output"}, "none")
TrialOptions  == Takes({"--json"}, {"--output"}, "many")

Given(name, value) == <<[name |-> name, value |-> value]>>

Wrong == Given("wrong", "")

(* The arguments as options and targets, in their order; a word that is neither is wrong. *)
Read(takes, args) ==
  LET from[i \in 1 .. Len(args) + 1] ==
        IF i > Len(args) THEN <<>>
        ELSE IF args[i] \in takes.plain THEN Given(args[i], "") \o from[i + 1]
        ELSE IF args[i] \in takes.valued
        THEN IF i = Len(args) THEN Wrong ELSE Given(args[i], args[i + 1]) \o from[i + 2]
        ELSE IF takes.targets = "none" THEN Wrong
        ELSE Given("target", args[i]) \o from[i + 1]
  IN from[1]

(* Where options of these names, or targets, stand. *)
PlacesOf(read, names) == {i \in DOMAIN read : read[i].name \in names}

LastOf(read, names) ==
  read[CHOOSE i \in PlacesOf(read, names) : \A j \in PlacesOf(read, names) : j <= i]

Chosen(read, name, default) ==
  IF PlacesOf(read, {name}) = {} THEN default ELSE LastOf(read, {name}).value

Target(read) == LastOf(read, {"target"}).value

Targets(read) ==
  LET targets == SelectSeq(read, LAMBDA given : given.name = "target")
  IN [i \in DOMAIN targets |-> targets[i].value]

(* Words that the code tells from others by their two dashes. *)
Dashed == UNION {takes.plain \cup takes.valued :
                   takes \in {FixOptions, DoctorOptions, BenchOptions, GateOptions, TrialOptions}}

Limits == [n \in {"0", "1", "3"} |-> CASE n = "0" -> 0 [] n = "1" -> 1 [] n = "3" -> 3]

(* Every value must be one that the option has, even when a later one replaces it. *)
Fits(read, name, values) ==
  \A i \in DOMAIN read : read[i].name = name => read[i].value \in values

Understood(takes, read) ==
  /\ \A i \in DOMAIN read : read[i].name # "wrong"
  /\ takes.targets # "none" => PlacesOf(read, {"target"}) # {}
  /\ takes.targets = "one"  =>
       \A i, j \in PlacesOf(read, {"target"}) : i = j

NotUnderstood == [target |-> "none"]

-----------------------------------------------------------------------------
(* A baseline is the latest run, unless a file is named, or any other name given. *)
GateRequestOf(args) ==
  LET read == Read(GateOptions, args)
      name == Chosen(read, "--baseline", "latest")
  IN IF Understood(GateOptions, read)
     THEN [gate |-> TRUE, suite |-> Chosen(read, "--suite", "phase21"),
           baseline |-> IF PlacesOf(read, {"--baseline-file"}) # {} THEN "file"
                        ELSE IF name = "latest" THEN name ELSE "default"]
     ELSE NotUnderstood

BenchRequestOf(args) ==
  LET read == Read(BenchOptions, args)
  IN IF Understood(BenchOptions, read)
     THEN [gate |-> FALSE, suite |-> Chosen(read, "--suite", "phase21"), baseline |-> "default"]
     ELSE NotUnderstood

(* A dry run, unless the last word on it is --apply.  Only without --no-llm, and without
   another provider than openai, is the one of the environment asked. *)
FixRequestOf(args, environment) ==
  LET read == Read(FixOptions, args)
      modes == {"--dry-run", "--apply"}
      provider == Chosen(read, "--provider", "openai") = "openai"
  IN IF Understood(FixOptions, read)
        /\ Fits(read, "--only", {"cargo-check", "ci", "tests", "docs", "hygiene"})
        /\ Fits(read, "--max-files", DOMAIN Limits) /\ Fits(read, "--risk", {"low", "medium"})
     THEN [target |-> Target(read),
           only   |-> Chosen(read, "--only", "all"),
           apply  |-> PlacesOf(read, modes) # {} /\ LastOf(read, modes).name = "--apply",
           max    |-> Limits[Chosen(read, "--max-files", "3")],
           cap    |-> Chosen(read, "--risk", "low"),
           llm    |-> environment /\ provider /\ PlacesOf(read, {"--no-llm"}) = {}]
     ELSE NotUnderstood

DoctorRequestOf(args) ==
  LET read == Read(DoctorOptions, args)
  IN IF Understood(DoctorOptions, read)
     THEN [target |-> Target(read), validate |-> PlacesOf(read, {"--validate"}) # {}]
     ELSE NotUnderstood

(* A path does not begin with dashes; what does is an option it does not have. *)
TrialRequestOf(args) ==
  LET read == Read(TrialOptions, args)
  IN IF Understood(TrialOptions, read) /\ \A i \in DOMAIN Targets(read) : Targets(read)[i] \notin Dashed
     THEN [targets |-> Targets(read)] ELSE NotUnderstood
=============================================================================
