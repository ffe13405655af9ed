---------------------------- MODULE DaemonConfig ----------------------------
(***************************************************************************)
(* What the runtime daemon makes of its environment, its flags and its     *)
(* configuration file: the models it serves, the one it asks by default    *)
(* and the model servers it starts, or a refusal.                          *)
(***************************************************************************)
EXTENDS Naturals, Sequences, FiniteSets, SequencesExt

CONSTANTS ModelIds,   \* ids of models, "eva-lite" and "default" among them
          Files,      \* paths of local model files
          None,       \* nothing given, or a value that cannot be parsed
          Unreadable  \* a configuration file that cannot be read or parsed

ASSUME DaemonConfigAssumption ==
  {"eva-lite", "default"} \subseteq ModelIds /\ None \notin ModelIds

(* Where a model is asked: by the daemon itself, at an http:// URL of chat completions, at
   another http:// URL, or at one that no client is made for. *)
Endpoint == {"builtin", "http", "bare", "https"}

Model == [id : ModelIds, endpoint : Endpoint, file : Files \cup {None}]

(* A managed server by what its command is: one that runs or one that cannot be spawned. *)
Server == {"runs", "cannot spawn"}

(* EVA_MODEL_ENDPOINTS or --model-endpoint, and so on: the environment and the flags of a
   command line give the same options, a configuration file its own. *)
Configuration == [default : ModelIds \cup {None}, models : Seq(Model), servers : Seq(Server)]

Options == [config : Configuration \cup {None, Unreadable},
            override : BOOLEAN,                                  \* --model-url or --model
            specs : Seq([id : ModelIds, endpoint : Endpoint] \cup {None}),  \* --model-endpoint
            paths : Seq([id : ModelIds \cup {None}, file : Files]),  \* --model-file
            servers : Seq(Server \cup {None})]                   \* --start-server

EvaLite == [id |-> "eva-lite", endpoint |-> "builtin", file |-> None]

(* A flag that says what the models are. *)
Explicit(line) ==
  line.flags.override \/ \E option \in {"specs", "paths", "servers"} : line.flags[option] # <<>>

(* The standing eva.runtime.json is read only when no flag says what the models are; what the
   environment says of them does not keep it from being read. *)
ConfigOf(line) ==
  IF line.flags.config # None THEN line.flags.config
  ELSE IF line.env.config # None THEN line.env.config
  ELSE IF Explicit(line) THEN None ELSE line.standing

FlagsForDaemon(line) == line.flags.config # None \/ line.listens \/ Explicit(line)

Overridden(line) == line.env.override \/ line.flags.override

(* What the other words of a line are: --serve, --once and --evolve, a command of one word, one
   with the arguments it takes, one whose count is no number, and one of no known form. *)
Mode == {"help", "serve", "once", "evolve", "word", "with arguments", "bad count", "unknown"}

(* A line that is empty or asks for help, or is exactly a command of one word. *)
OneWord(line) ==
  \/ "help" \in line.modes
  \/ line.modes \in {{}, {"once"}, {"evolve"}, {"word"}} /\ ~FlagsForDaemon(line)

(* A line that is exactly a command and the arguments it takes, which are taken as they are, but
   for a count; beside any other word, the command is no known argument. *)
WithArguments(line) == line.modes = {"with arguments"} /\ ~FlagsForDaemon(line)

(* The models of the file, else the built-in one, else the one given by URL; the one given by
   URL is dropped without a word when the file has a model called "default". *)
BaseModels(line, configured) ==
  LET base   == [id |-> "default", endpoint |-> line.baseUrl, file |-> line.baseFile]
      models == IF configured # <<>> THEN configured
                ELSE IF Overridden(line) THEN <<base>>
                ELSE IF line.env.specs \o line.flags.specs = <<>> THEN <<EvaLite>> ELSE <<>>
  IN IF Overridden(line) /\ "default" \notin {models[i].id : i \in DOMAIN models}
     THEN <<base>> \o models ELSE models

WithSpecs(models, specs) ==
  models \o [i \in DOMAIN specs |->
               [id |-> specs[i].id, endpoint |-> specs[i].endpoint, file |-> None]]

(* A later path for the same id wins, and each goes to the first model of that id. *)
WithPaths(models, paths) ==
  [i \in DOMAIN models |->
     LET mine == {j \in DOMAIN paths : paths[j].id = models[i].id}
         first == \A k \in 1..(i - 1) : models[k].id # models[i].id
     IN IF mine = {} \/ ~first THEN models[i]
        ELSE [models[i] EXCEPT !.file = paths[Max(mine)].file]]

Distinct(models) == \A i, j \in DOMAIN models : models[i].id = models[j].id => i = j

Refuse == [kind |-> "refused"]

(* The command a line is taken for: only one that is no exact command has the configuration
   file read.  A line is blank when the address to listen at, the URL or the model name that its
   flags give is empty. *)
Resolve(line) ==
  LET file    == ConfigOf(line)
      found   == file # None
      specs   == line.env.specs \o line.flags.specs
      paths   == line.env.paths \o line.flags.paths
      listed  == WithSpecs(BaseModels(line, IF found THEN file.models ELSE <<>>), specs)
      ids     == {listed[i].id : i \in DOMAIN listed}
      tied    == WithPaths(listed, paths)
      models  == IF "eva-lite" \in ids THEN tied ELSE Append(tied, EvaLite)
      servers == line.env.servers \o line.flags.servers
      refused == \/ line.blank
                 \/ \E i \in DOMAIN specs : specs[i] = None
                 \/ \E i \in DOMAIN paths : paths[i].id \notin ids
                 \/ ~Distinct(models)
                 \/ \E i \in DOMAIN servers : servers[i] = None
  IN IF OneWord(line) \/ WithArguments(line) THEN [kind |-> "another command"]
     ELSE IF file = Unreadable \/ line.modes # {"serve"} \/ refused THEN Refuse
     ELSE [kind    |-> "serve",
           models  |-> models,
           default |-> IF found /\ \E i \in DOMAIN models : models[i].id = file.default
                       THEN file.default ELSE models[1].id,
           servers |-> (IF found THEN file.servers ELSE <<>>) \o servers]

(* The model a request selects by id, the default one when it names none. *)
Named(config, id) == {i \in DOMAIN config.models : config.models[i].id = id}

Selected(config, id) == Named(config, IF id = None THEN config.default ELSE id)
=============================================================================
