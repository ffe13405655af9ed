---------------------------- MODULE DaemonProofs ----------------------------
(***************************************************************************)
(* Theorems about Daemon, for any command lines, clients and model servers *)
(* that come and go.                                                       *)
(***************************************************************************)
EXTENDS Daemon, FiniteSetTheorems, TLAPS

-----------------------------------------------------------------------------
(* What a command line resolves to *)

GivenTo(paths, id) == {j \in DOMAIN paths : paths[j].id = id}

(* Files change no id and no endpoint, and the first model of an id has the file given last. *)
LEMMA WithPathsIs ==
  ASSUME NEW models \in Seq(Model), NEW paths
  PROVE  LET tied == WithPaths(models, paths) IN
         /\ tied \in Seq(Range(tied)) /\ Len(tied) = Len(models)
         /\ \A i \in DOMAIN models :
              /\ tied[i].id = models[i].id /\ tied[i].endpoint = models[i].endpoint
              /\ (\A k \in 1 .. (i - 1) : models[k].id # models[i].id)
                   => tied[i].file = IF GivenTo(paths, models[i].id) = {} THEN models[i].file
                                     ELSE paths[Max(GivenTo(paths, models[i].id))].file
  <1> DEFINE tied == WithPaths(models, paths)
             first(i) == \A k \in 1 .. (i - 1) : models[k].id # models[i].id
             mine(i) == GivenTo(paths, models[i].id)
             made(i) == IF mine(i) = {} \/ ~ first(i) THEN models[i]
                        ELSE [models[i] EXCEPT !.file = paths[Max(mine(i))].file]
  <1>1. tied = [i \in DOMAIN models |-> made(i)]
    BY DEF WithPaths, GivenTo
  <1>2. DOMAIN models = 1 .. Len(models) /\ Len(models) \in Nat
    OBVIOUS
  <1>3. tied \in Seq(Range(tied)) /\ Len(tied) = Len(models)
    <2> HIDE DEF made, tied
    <2>1. tied \in [1 .. Len(models) -> Range(tied)]
      BY <1>1, <1>2 DEF Range
    <2>2. QED BY <1>2, <2>1
  <1>4. ASSUME NEW i \in DOMAIN models
        PROVE  /\ tied[i].id = models[i].id /\ tied[i].endpoint = models[i].endpoint
               /\ first(i) => tied[i].file = IF mine(i) = {} THEN models[i].file
                                             ELSE paths[Max(mine(i))].file
    <2>1. models[i] \in Model
      BY <1>2
    <2>2. tied[i] = made(i)
      BY <1>1
    <2> HIDE DEF mine, first, tied
    <2>3. PICK file : file = paths[Max(mine(i))].file
      OBVIOUS
    <2>4. QED BY <2>1, <2>2, <2>3 DEF Model
  <1>5. QED BY <1>3, <1>4

(* The models a line has before any of its files is given to one. *)
Listed(line) ==
  WithSpecs(BaseModels(line, IF ConfigOf(line) # None THEN ConfigOf(line).models ELSE <<>>),
            line.env.specs \o line.flags.specs)

LEMMA ListedTyped ==
  ASSUME NEW line \in Lines, ConfigOf(line) # Unreadable,
         \A i \in DOMAIN (line.env.specs \o line.flags.specs) :
           (line.env.specs \o line.flags.specs)[i] # None
  PROVE  Listed(line) \in Seq(Model)
  <1> DEFINE file  == ConfigOf(line)
             found == IF file # None THEN file.models ELSE <<>>
             specs == line.env.specs \o line.flags.specs
             base  == [id |-> "default", endpoint |-> line.baseUrl, file |-> line.baseFile]
             Given == [id : ModelIds, endpoint : Endpoint]
  <1>1. /\ line.env \in Options /\ line.flags \in Options
        /\ line.standing \in Configuration \cup {None, Unreadable}
        /\ line.baseUrl \in Endpoint /\ line.baseFile \in Files \cup {None}
    BY DaemonAssumption DEF DaemonAssumption
  <1>2. found \in Seq(Model)
    <2>1. file \in Configuration \cup {None}
      BY <1>1 DEF ConfigOf, Options
    <2>2. QED BY <2>1 DEF Configuration
  <1>3. base \in Model /\ EvaLite \in Model
    BY <1>1, DaemonConfigAssumption DEF DaemonConfigAssumption, Model, EvaLite, Endpoint
  <1>4. BaseModels(line, found) \in Seq(Model)
    BY <1>2, <1>3 DEF BaseModels
  <1>5. specs \in Seq(Given)
    <2>1. specs \in Seq(Given \cup {None})
      BY <1>1 DEF Options
    <2>2. \A i \in DOMAIN specs : specs[i] # None
      OBVIOUS
    <2> HIDE DEF specs, Given
    <2>3. \A i \in 1 .. Len(specs) : specs[i] \in Given
      BY <2>1, <2>2
    <2>4. QED BY <2>1, <2>3
  <1>6. [i \in DOMAIN specs |-> [id |-> specs[i].id, endpoint |-> specs[i].endpoint, file |-> None]] \in Seq(Model)
    <2> HIDE DEF specs
    <2>1. DOMAIN specs = 1 .. Len(specs) /\ Len(specs) \in Nat
      BY <1>5
    <2>2. PICK made : made = [i \in DOMAIN specs |->
                                [id |-> specs[i].id, endpoint |-> specs[i].endpoint, file |-> None]]
      OBVIOUS
    <2>3. \A i \in 1 .. Len(specs) : specs[i].id \in ModelIds /\ specs[i].endpoint \in Endpoint
      <3> HIDE DEF Given
      <3>1. \A i \in 1 .. Len(specs) : specs[i] \in Given
        BY <1>5, <2>1
      <3>2. QED BY <3>1 DEF Given
    <2>4. made \in [1 .. Len(specs) -> Model]
      BY <2>1, <2>2, <2>3 DEF Model
    <2>5. made \in Seq(Model)
      BY <2>1, <2>4
    <2>6. QED BY <2>2, <2>5
  <1>7. Listed(line) = BaseModels(line, found)
                        \o [i \in DOMAIN specs |-> [id |-> specs[i].id, endpoint |-> specs[i].endpoint, file |-> None]]
    BY DEF Listed, WithSpecs
  <1>8. QED
    <2>1. PICK bs, ms : /\ bs = BaseModels(line, found)
                        /\ ms = [i \in DOMAIN specs |->
                                   [id |-> specs[i].id, endpoint |-> specs[i].endpoint, file |-> None]]
      OBVIOUS
    <2>2. bs \in Seq(Model) /\ ms \in Seq(Model) /\ Listed(line) = bs \o ms
      BY <1>4, <1>6, <1>7, <2>1
    <2>3. QED BY <2>2

(* A configuration that is served.  The first three facts are what a start promises of its models,
   the fourth ties each model asked by URL to the file that the line names last for it. *)
Sound(line, config) ==
  /\ config.kind = "serve"
  /\ config.models \in Seq(Range(config.models)) /\ config.models # <<>> /\ Distinct(config.models)
  /\ {"eva-lite", config.default} \subseteq Ids(config)
  /\ \A i \in DOMAIN config.models :
       /\ config.models[i].endpoint \in Endpoint
       /\ config.models[i].endpoint # "builtin" /\ FileGiven(line, config.models[i].id) # None
            => config.models[i].file = FileGiven(line, config.models[i].id)
  /\ config.servers \in Seq(Server)
  /\ Ids(config) \subseteq ModelIds

LEMMA AppendIs ==
  ASSUME NEW S, NEW s \in Seq(S), NEW x
  PROVE  /\ Append(s, x) \in Seq(S \cup {x}) /\ Len(Append(s, x)) = Len(s) + 1
         /\ Append(s, x)[Len(s) + 1] = x /\ \A i \in 1 .. Len(s) : Append(s, x)[i] = s[i]
  <1>1. s \in Seq(S \cup {x}) /\ x \in S \cup {x}
    OBVIOUS
  <1>2. QED BY <1>1

LEMMA ResolvesSound ==
  ASSUME NEW line \in Lines, Resolve(line).kind = "serve"
  PROVE  Sound(line, Resolve(line))
  <1> DEFINE file   == ConfigOf(line)
             found  == file # None
             specs  == line.env.specs \o line.flags.specs
             paths  == line.env.paths \o line.flags.paths
             servers == line.env.servers \o line.flags.servers
             listed == Listed(line)
             ids    == {listed[i].id : i \in DOMAIN listed}
             tied   == WithPaths(listed, paths)
             models == IF "eva-lite" \in ids THEN tied ELSE Append(tied, EvaLite)
             config == Resolve(line)
  <1>1. /\ file # Unreadable /\ Distinct(models)
        /\ \A i \in DOMAIN specs : specs[i] # None
        /\ config.models = models
        /\ config.default = IF found /\ \E i \in DOMAIN models : models[i].id = file.default
                            THEN file.default ELSE models[1].id
        /\ \A i \in DOMAIN servers : servers[i] # None
        /\ config.servers = (IF found THEN file.servers ELSE <<>>) \o servers
    BY DEF Resolve, Refuse, Listed
  <1>2. listed \in Seq(Model)
    BY <1>1, ListedTyped
  <1>3. /\ tied \in Seq(Range(tied)) /\ Len(tied) = Len(listed)
        /\ \A i \in DOMAIN listed :
             /\ tied[i].id = listed[i].id /\ tied[i].endpoint = listed[i].endpoint
             /\ (\A k \in 1 .. (i - 1) : listed[k].id # listed[i].id)
                  => tied[i].file = IF GivenTo(paths, listed[i].id) = {} THEN listed[i].file
                                    ELSE paths[Max(GivenTo(paths, listed[i].id))].file
    BY <1>2, WithPathsIs
  <1> HIDE DEF tied, listed, file, specs
  <1>4. /\ DOMAIN tied = 1 .. Len(tied) /\ DOMAIN listed = 1 .. Len(tied) /\ Len(tied) \in Nat
        /\ DOMAIN tied \subseteq DOMAIN models /\ \A i \in DOMAIN tied : models[i] = tied[i]
    BY <1>2, <1>3 DEF Range
  <1>5. /\ models \in Seq(Range(models)) /\ models # <<>> /\ DOMAIN models = 1 .. Len(models)
        /\ \A i \in DOMAIN models : i \in DOMAIN tied \/ models[i] = EvaLite
    <2>1. CASE "eva-lite" \in ids
      BY <1>2, <1>3, <1>4, <2>1
    <2>2. CASE "eva-lite" \notin ids
      <3>1. models = Append(tied, EvaLite)
        BY <2>2
      <3>2. models \in Seq(Range(tied) \cup {EvaLite}) /\ Len(models) = Len(tied) + 1
        BY <1>3, <3>1
      <3> HIDE DEF models
      <3>3. models \in [1 .. Len(models) -> Range(models)] /\ Len(models) \in Nat
        BY <3>2 DEF Range
      <3>4. models[Len(tied) + 1] = EvaLite /\ models # <<>>
        <4>1. Append(tied, EvaLite)[Len(tied) + 1] = EvaLite
          BY <1>3, AppendIs
        <4>2. models # <<>>
          BY <1>4, <3>2, <3>3
        <4>3. QED BY <3>1, <4>1, <4>2
      <3>5. QED BY <1>4, <3>2, <3>3, <3>4
    <2>3. QED BY <2>1, <2>2
  <1>6. "eva-lite" \in {models[i].id : i \in DOMAIN models}
    <2>1. CASE "eva-lite" \in ids
      BY <1>3, <1>4, <2>1
    <2>2. CASE "eva-lite" \notin ids
      <3>1. models = Append(tied, EvaLite) /\ Len(tied) + 1 \in DOMAIN models
        BY <1>3, <1>4, <2>2
      <3>2. models[Len(tied) + 1] = EvaLite
        <4>1. Append(tied, EvaLite)[Len(tied) + 1] = EvaLite
          BY <1>3, AppendIs
        <4>2. QED BY <3>1, <4>1
      <3>3. QED BY <3>1, <3>2 DEF EvaLite
    <2>3. QED BY <2>1, <2>2
  <1>7. \A i \in DOMAIN models : models[i].id \in ModelIds /\ models[i].endpoint \in Endpoint
    <2>1. \A i \in DOMAIN tied : models[i].id \in ModelIds /\ models[i].endpoint \in Endpoint
      <3> HIDE DEF models
      <3>1. \A i \in DOMAIN listed : listed[i].id \in ModelIds /\ listed[i].endpoint \in Endpoint
        <4>1. \A i \in DOMAIN listed : listed[i] \in Model
          BY <1>2
        <4>2. QED BY <4>1 DEF Model
      <3>2. QED BY <1>3, <1>4, <3>1
    <2>2. EvaLite.id \in ModelIds /\ EvaLite.endpoint \in Endpoint
      BY DaemonConfigAssumption DEF DaemonConfigAssumption, EvaLite, Endpoint
    <2> HIDE DEF models
    <2>3. QED BY <1>5, <2>1, <2>2
  <1>8. ASSUME NEW i \in DOMAIN models, models[i].endpoint # "builtin",
               FileGiven(line, models[i].id) # None
        PROVE  models[i].file = FileGiven(line, models[i].id)
    <2>1. i \in DOMAIN tied
      BY <1>5, <1>8 DEF EvaLite
    <2>2. models[i] = tied[i] /\ tied[i].id = listed[i].id /\ i \in DOMAIN listed
      BY <1>3, <1>4, <2>1
    <2>3. \A k \in 1 .. (i - 1) : listed[k].id # listed[i].id
      <3>1. \A k \in 1 .. (i - 1) : k \in DOMAIN tied /\ k # i
        BY <1>4, <2>1
      <3>2. \A k \in DOMAIN tied : models[k].id = listed[k].id /\ k \in DOMAIN models
        BY <1>3, <1>4
      <3>3. QED BY <1>1, <2>1, <3>1, <3>2 DEF Distinct
    <2>4. FileGiven(line, models[i].id) =
            IF GivenTo(paths, models[i].id) = {} THEN None
            ELSE paths[Max(GivenTo(paths, models[i].id))].file
      BY DEF FileGiven, GivenTo
    <2> HIDE DEF models, paths
    <2>5. QED BY <1>3, <1>8, <2>2, <2>3, <2>4
  <1>9. config.default \in {models[i].id : i \in DOMAIN models}
    <2>1. 1 \in DOMAIN models
      BY <1>5
    <2> HIDE DEF models
    <2>2. QED BY <1>1, <2>1
  <1>10. config.servers \in Seq(Server)
    <2>1. line.env \in Options /\ line.flags \in Options
          /\ line.standing \in Configuration \cup {None, Unreadable}
      BY DaemonAssumption DEF DaemonAssumption
    <2>2. file \in Configuration \cup {None}
      BY <1>1, <2>1 DEF ConfigOf, Options, file
    <2>3. (IF found THEN file.servers ELSE <<>>) \in Seq(Server)
      BY <2>2 DEF Configuration
    <2>4. line.env.servers \in Seq(Server \cup {None}) /\ line.flags.servers \in Seq(Server \cup {None})
      BY <2>1 DEF Options
    <2>5. servers \in Seq(Server \cup {None}) /\ \A i \in DOMAIN servers : servers[i] # None
      <3>1. PICK S : S = Server \cup {None}
        OBVIOUS
      <3>2. line.env.servers \in Seq(S) /\ line.flags.servers \in Seq(S)
        BY <2>4, <3>1
      <3> HIDE DEF models, config
      <3>3. servers \in Seq(S)
        BY <3>2
      <3>4. QED BY <1>1, <3>1, <3>3
    <2> DEFINE fs == IF found THEN file.servers ELSE <<>>
    <2>6. config.servers = fs \o servers
      <3> HIDE DEF models, servers
      <3>1. QED BY <1>1
    <2> HIDE DEF config, fs, servers
    <2>7. servers \in Seq(Server)
      <3>1. \A i \in 1 .. Len(servers) : servers[i] \in Server
        BY <2>5
      <3>2. QED BY <2>5, <3>1
    <2>8. fs \in Seq(Server)
      BY <2>3 DEF fs
    <2>9. QED BY <2>6, <2>7, <2>8
  <1> HIDE DEF models
  <1>11. config.kind = "serve" /\ config.models = models
    BY <1>1
  <1> HIDE DEF config
  <1>12. Sound(line, config)
    BY <1>1, <1>5, <1>6, <1>7, <1>8, <1>9, <1>10, <1>11 DEF Sound, Ids
  <1>13. QED BY <1>12 DEF config

(* Ids are distinct, so that a request selects one model, or none. *)
LEMMA SelectedIs ==
  ASSUME NEW config, Distinct(config.models), NEW id, Selected(config, id) # {}
  PROVE  \E i \in DOMAIN config.models :
           /\ config.models[i].id = (IF id = None THEN config.default ELSE id)
           /\ Selected(config, id) = {i} /\ SetToSeq(Selected(config, id)) = <<i>>
  <1>1. PICK i \in Selected(config, id) : TRUE
    OBVIOUS
  <1>2. /\ i \in DOMAIN config.models /\ Selected(config, id) = {i}
        /\ config.models[i].id = (IF id = None THEN config.default ELSE id)
    BY DEF Selected, Named, Distinct
  <1>3. SetToSeq({i}) = <<i>>
    <2>1. Cardinality({i}) = 1
      BY FS_Singleton
    <2>2. \A f : f \in [1 .. 1 -> {i}] <=> f = <<i>>
      <3>1. 1 .. 1 = {1}
        OBVIOUS
      <3>2. <<i>> \in [1 .. 1 -> {i}]
        OBVIOUS
      <3>3. ASSUME NEW f \in [1 .. 1 -> {i}]
            PROVE  f = <<i>>
        BY <3>1, <3>2
      <3>4. QED BY <3>2, <3>3
    <2>3. IsInjective(<<i>>)
      BY DEF IsInjective
    <2>4. \E f \in [1 .. Cardinality({i}) -> {i}] : IsInjective(f)
      BY <2>1, <2>2, <2>3
    <2>5. SetToSeq({i}) \in [1 .. Cardinality({i}) -> {i}]
      BY <2>4 DEF SetToSeq
    <2>6. QED BY <2>1, <2>2, <2>5
  <1>4. QED BY <1>2, <1>3

-----------------------------------------------------------------------------
(* The invariant *)

Configs == {Resolve(line) : line \in Lines} \cup {Refuse}

DaemonState == [phase : {"down", "starting", "serving"}, line : Lines \cup {None},
                config : Configs, spawned : Nat]

Entry == [model : ModelIds, reachable : BOOLEAN, worlds : SUBSET World]

ConnState == [step : {"none", "queued", "reading", "asking", "requesting", "writing", "answered",
                      "dropped"},
              request : Request \cup {None}, sent : Nat, pending : BOOLEAN, closed : BOOLEAN,
              line : Lines \cup {None}, config : Configs, left : Seq(Nat),
              found : SUBSET Entry, worlds : SUBSET World,
              said : [code : Nat, status : {"ok", "degraded", "error"}] \cup {None},
              reads : BOOLEAN]

Typed ==
  /\ daemon \in DaemonState /\ starts \in Nat /\ changes \in Nat
  /\ children \subseteq [start : Nat, server : Nat] /\ there \in World
  /\ conn \in [Client -> ConnState]

(* The servers of this start are the first so many of its configuration, and every other server
   that runs was left by a daemon that was killed alone. *)
StartInv ==
  /\ daemon.phase # "down" =>
       /\ daemon.line \in Lines /\ Sound(daemon.line, daemon.config)
       /\ daemon.spawned <= Len(daemon.config.servers)
       /\ Own = {[start |-> starts, server |-> k] : k \in 1 .. daemon.spawned}
  /\ daemon.phase = "serving" => daemon.spawned = Len(daemon.config.servers)
  /\ \A child \in children :
       /\ child.start <= starts
       /\ child.start \in killed \/ (child.start = starts /\ daemon.phase # "down")

(* What was found of a model was true of the moments it was asked in. *)
Checked(k) ==
  \A entry \in k.found : \E i \in DOMAIN k.config.models :
    /\ k.config.models[i].id = entry.model
    /\ IF entry.reachable
       THEN MayServe(k.line, k.config.models[i], k.request.route, entry.worlds)
       ELSE MayFail(k.line, k.config.models[i], k.request.route, entry.worlds)

FoundIds(k) == {entry.model : entry \in k.found}
LeftIds(k)  == {k.config.models[k.left[n]].id : n \in DOMAIN k.left}

(* The models a request is about. *)
AskedIds(k) ==
  IF k.request.route = "health" THEN Ids(k.config)
  ELSE {IF k.request.model = None THEN k.config.default ELSE k.request.model}

Asking(k) ==
  /\ k.request \in Request /\ k.request.route \in {"health", "chat", "cycle"}
  /\ k.line \in Lines /\ Sound(k.line, k.config)
  /\ Checked(k)

(* A model that a request is on its way to was usable when that was checked. *)
Requested(k) ==
  LET model == k.config.models[Head(k.left)] IN
  model.endpoint # "builtin" /\ \E world \in k.worlds : Usable(model, k.request.route, world)

(* A thread's view of a connection: what it still has to ask and what it has found make up the
   models of the request, and what it says follows from what it found. *)
ConnInv(k, world) ==
  /\ k.step \in {"queued", "reading"} => k.request \in Request
  /\ k.step = "reading" => k.line \in Lines /\ Sound(k.line, k.config)
  /\ k.step \in {"none", "queued", "reading", "dropped"} => k.found = {}
  /\ k.step \in {"asking", "requesting"} =>
       /\ Asking(k) /\ world \in k.worlds
       /\ k.left # <<>> /\ \A n \in DOMAIN k.left : k.left[n] \in DOMAIN k.config.models
       /\ FoundIds(k) \cup LeftIds(k) = AskedIds(k)
  /\ k.step = "requesting" => Requested(k)
  /\ k.step \in {"writing", "answered"} /\ k.found # {} =>
       /\ Asking(k) /\ FoundIds(k) = AskedIds(k)
       /\ k.said.status = StatusOf(k.request.route, k.found, FALSE)

ConnsInv == \A c \in Client : ConnInv(conn[c], there)

DaemonInv == Typed /\ StartInv /\ ConnsInv

LEMMA NoConnIs ==
  /\ NoConn \in ConnState /\ Dropped \in ConnState
  /\ \A world : ConnInv(NoConn, world) /\ ConnInv(Dropped, world)
  <1>1. NoConn \in ConnState /\ Dropped \in ConnState
    <2>1. <<>> \in Seq(Nat) /\ Refuse \in Configs
      BY DEF Configs
    <2>2. QED BY <2>1 DEF NoConn, Dropped, ConnState
  <1>2. /\ NoConn.step = "none" /\ NoConn.found = {}
        /\ Dropped.step = "dropped" /\ Dropped.found = {}
    BY DEF NoConn, Dropped
  <1>3. QED BY <1>1, <1>2 DEF ConnInv

LEMMA InitInv == Init => DaemonInv
  <1> SUFFICES ASSUME Init PROVE DaemonInv
    OBVIOUS
  <1>1. Down \in DaemonState /\ Down.phase = "down"
    BY DEF Down, DaemonState, Configs
  <1>2. Typed
    BY <1>1, NoConnIs DEF Init, Typed
  <1>3. StartInv
    BY <1>1 DEF Init, StartInv
  <1>4. ConnsInv
    BY NoConnIs DEF Init, ConnsInv
  <1>5. QED BY <1>2, <1>3, <1>4 DEF DaemonInv

-----------------------------------------------------------------------------
(* The daemon and its servers *)

LEMMA StartKeeps ==
  ASSUME DaemonInv, NEW line \in Lines, Start(line)
  PROVE  DaemonInv'
  <1>0. Typed /\ StartInv /\ ConnsInv /\ starts \in Nat
    BY DEF DaemonInv, Typed
  <1>1. ConnsInv'
    BY <1>0 DEF ConnsInv, Start
  <1>2. /\ starts' = starts + 1 /\ UNCHANGED <<children, killed, there, changes, conn>>
        /\ daemon.phase = "down"
    BY DEF Start
  <1>3. Own' = {}
    BY <1>0, <1>2 DEF StartInv, Own, Typed
  <1>4. CASE Resolve(line).kind = "serve"
    <2>1. Sound(line, Resolve(line))
      BY <1>4, ResolvesSound
    <2>2. daemon' = [phase |-> "starting", line |-> line, config |-> Resolve(line), spawned |-> 0]
      BY <1>4 DEF Start
    <2>3. daemon' \in DaemonState
      BY <2>2 DEF DaemonState, Configs
    <2>4. Typed'
      BY <1>0, <1>2, <2>3 DEF Typed
    <2>5. Len(Resolve(line).servers) \in Nat
      BY <2>1 DEF Sound
    <2>6. {[start |-> starts', server |-> k] : k \in 1 .. 0} = {}
      OBVIOUS
    <2>7. StartInv'
      BY <1>0, <1>2, <1>3, <2>1, <2>2, <2>5, <2>6 DEF StartInv, Typed
    <2>8. QED BY <1>1, <2>4, <2>7 DEF DaemonInv
  <1>5. CASE Resolve(line).kind # "serve"
    <2>1. daemon' = daemon
      BY <1>5 DEF Start
    <2>2. Typed'
      BY <1>0, <1>2, <2>1 DEF Typed
    <2>3. StartInv'
      BY <1>0, <1>2, <2>1 DEF StartInv, Typed
    <2>4. QED BY <1>1, <2>2, <2>3 DEF DaemonInv
  <1>6. QED BY <1>4, <1>5

LEMMA SpawnKeeps ==
  ASSUME DaemonInv, Spawn
  PROVE  DaemonInv'
  <1> DEFINE child == [start |-> starts, server |-> daemon.spawned + 1]
  <1>0. Typed /\ StartInv /\ ConnsInv /\ starts \in Nat /\ daemon \in DaemonState
        /\ daemon.spawned \in Nat
    BY DEF DaemonInv, Typed, DaemonState
  <1>1. /\ UNCHANGED <<starts, killed, there, changes, conn>> /\ daemon.phase = "starting"
        /\ children' = children \cup {child}
        /\ daemon.spawned < Len(daemon.config.servers)
        /\ daemon' = [daemon EXCEPT !.spawned = @ + 1]
    BY DEF Spawn, Pending
  <1>2. /\ daemon'.phase = "starting" /\ daemon'.line = daemon.line
        /\ daemon'.config = daemon.config /\ daemon'.spawned = daemon.spawned + 1
        /\ daemon' \in DaemonState
    BY <1>0, <1>1 DEF DaemonState
  <1>3. ConnsInv'
    BY <1>0, <1>1 DEF ConnsInv
  <1>4. Typed'
    BY <1>0, <1>1, <1>2 DEF Typed
  <1>5. Own' = {[start |-> starts', server |-> k] : k \in 1 .. daemon'.spawned}
    <2>1. Own' = Own \cup {child}
      BY <1>1 DEF Own
    <2>2. 1 .. daemon'.spawned = (1 .. daemon.spawned) \cup {daemon.spawned + 1}
      BY <1>0, <1>2
    <2>3. QED BY <1>0, <1>1, <2>1, <2>2 DEF StartInv
  <1>6. Len(daemon.config.servers) \in Nat
    BY <1>0, <1>1 DEF StartInv, Sound
  <1>7. StartInv'
    BY <1>0, <1>1, <1>2, <1>5, <1>6 DEF StartInv
  <1>8. QED BY <1>3, <1>4, <1>7 DEF DaemonInv

LEMMA BindKeeps ==
  ASSUME DaemonInv, Bind
  PROVE  DaemonInv'
  <1>0. Typed /\ StartInv /\ ConnsInv /\ daemon \in DaemonState /\ daemon.spawned \in Nat
    BY DEF DaemonInv, Typed, DaemonState
  <1>1. /\ UNCHANGED <<starts, children, killed, there, changes, conn>> /\ daemon.phase = "starting"
        /\ ~ (daemon.spawned < Len(daemon.config.servers))
        /\ daemon' = [daemon EXCEPT !.phase = "serving"]
    BY DEF Bind, Pending
  <1>2. /\ daemon'.phase = "serving" /\ daemon'.line = daemon.line
        /\ daemon'.config = daemon.config /\ daemon'.spawned = daemon.spawned
        /\ daemon' \in DaemonState
    BY <1>0, <1>1 DEF DaemonState
  <1>3. ConnsInv' /\ Typed'
    BY <1>0, <1>1, <1>2 DEF ConnsInv, Typed
  <1>4. Len(daemon.config.servers) \in Nat
    BY <1>0, <1>1 DEF StartInv, Sound
  <1>5. StartInv'
    BY <1>0, <1>1, <1>2, <1>4 DEF StartInv, Own
  <1>6. QED BY <1>3, <1>5 DEF DaemonInv

LEMMA EndKeeps ==
  ASSUME DaemonInv, GiveUp \/ \E alone \in BOOLEAN : Die(alone)
  PROVE  DaemonInv'
  <1>0. Typed /\ StartInv /\ ConnsInv /\ daemon.phase # "down" /\ conn \in [Client -> ConnState]
    BY DEF DaemonInv, Typed, GiveUp, Die
  <1>1. /\ UNCHANGED <<starts, there, changes>> /\ daemon' = Down
        /\ \/ children' = children \ Own /\ killed' = killed
           \/ children' = children /\ killed' = killed \cup {starts}
        /\ \/ conn' = conn
           \/ conn' = [c \in Client |-> IF conn[c].step \in Live THEN Dropped ELSE conn[c]]
    BY DEF GiveUp, Die
  <1>2. Down \in DaemonState /\ Down.phase = "down"
    BY DEF Down, DaemonState, Configs
  <1>3. conn' \in [Client -> ConnState] /\ ConnsInv'
    BY <1>0, <1>1, NoConnIs DEF ConnsInv
  <1>4. Typed'
    BY <1>0, <1>1, <1>2, <1>3 DEF Typed
  <1>5. StartInv'
    BY <1>0, <1>1, <1>2 DEF StartInv, Own
  <1>6. QED BY <1>3, <1>4, <1>5 DEF DaemonInv

-----------------------------------------------------------------------------
(* The connections *)

LEMMA StepKeeps ==
  ASSUME DaemonInv, NEW c \in Client, NEW next \in ConnState, ConnInv(next, there), Step(c, next)
  PROVE  DaemonInv'
  <1>0. Typed /\ StartInv /\ ConnsInv /\ conn \in [Client -> ConnState]
    BY DEF DaemonInv, Typed
  <1>1. /\ UNCHANGED <<daemon, starts, children, killed, there, changes>>
        /\ conn' = [conn EXCEPT ![c] = next]
    BY DEF Step
  <1>2. Typed'
    BY <1>0, <1>1 DEF Typed
  <1>3. StartInv'
    BY <1>0, <1>1 DEF StartInv, Own
  <1>4. ConnsInv'
    BY <1>0, <1>1 DEF ConnsInv
  <1>5. QED BY <1>2, <1>3, <1>4 DEF DaemonInv

(* Another moment is seen by those who are asking, and takes nothing back. *)
LEMMA ChangeKeeps ==
  ASSUME DaemonInv, NEW what \in Things, Change(what)
  PROVE  DaemonInv'
  <1>0. Typed /\ StartInv /\ ConnsInv /\ conn \in [Client -> ConnState] /\ there \in World
    BY DEF DaemonInv, Typed
  <1>1. /\ UNCHANGED <<daemon, starts, children, killed>> /\ changes' = changes + 1
        /\ \E state \in StatesOf(what) : there' = [there EXCEPT ![what] = state]
        /\ conn' = [c \in Client |-> IF conn[c].step \in {"asking", "requesting"}
                                     THEN [conn[c] EXCEPT !.worlds = @ \cup {there'}] ELSE conn[c]]
    BY DEF Change
  <1>2. there' \in World
    <2>1. PICK state \in StatesOf(what) : there' = [there EXCEPT ![what] = state]
      BY <1>1
    <2>2. state \in {"away", "garbled", "drips", "sound"}
      BY <2>1 DEF StatesOf
    <2>3. QED BY <1>0, <2>1, <2>2 DEF World
  <1>3. ASSUME NEW c \in Client
        PROVE  conn'[c] \in ConnState /\ ConnInv(conn'[c], there')
    <2>1. PICK k, world : k = conn[c] /\ world = there'
      OBVIOUS
    <2>2. k \in ConnState /\ ConnInv(k, there)
      BY <1>0, <2>1 DEF ConnsInv
    <2>3. CASE k.step \notin {"asking", "requesting"}
      BY <1>1, <2>1, <2>2, <2>3 DEF ConnInv
    <2>4. CASE k.step \in {"asking", "requesting"}
      <3>1. PICK next : next = [k EXCEPT !.worlds = k.worlds \cup {world}]
        OBVIOUS
      <3>2. /\ next \in ConnState /\ next.step = k.step /\ next.worlds = k.worlds \cup {world}
            /\ next.found = k.found /\ next.left = k.left /\ next.request = k.request
            /\ next.line = k.line /\ next.config = k.config
        BY <1>2, <2>1, <2>2, <3>1 DEF ConnState
      <3>3. /\ Asking(k) /\ FoundIds(k) \cup LeftIds(k) = AskedIds(k) /\ k.left # <<>>
            /\ \A n \in DOMAIN k.left : k.left[n] \in DOMAIN k.config.models
            /\ k.step = "requesting" => Requested(k)
        BY <2>2, <2>4 DEF ConnInv
      <3>4. Asking(next) /\ FoundIds(next) \cup LeftIds(next) = AskedIds(next)
        BY <3>2, <3>3 DEF Asking, Checked, FoundIds, LeftIds, AskedIds
      <3>5. next.step = "requesting" => Requested(next)
        BY <3>2, <3>3 DEF Requested
      <3>6. ConnInv(next, world)
        BY <2>4, <3>2, <3>3, <3>4, <3>5 DEF ConnInv
      <3>7. conn'[c] = next
        BY <1>1, <2>1, <2>4, <3>1
      <3>8. QED BY <2>1, <3>2, <3>6, <3>7
    <2>5. QED BY <2>3, <2>4
  <1>4. Typed'
    <2>1. conn' \in [Client -> ConnState]
      BY <1>1, <1>3
    <2>2. QED BY <1>0, <1>1, <1>2, <2>1 DEF Typed
  <1>5. StartInv'
    BY <1>0, <1>1 DEF StartInv, Own
  <1>6. ConnsInv'
    BY <1>3 DEF ConnsInv
  <1>7. QED BY <1>4, <1>5, <1>6 DEF DaemonInv

LEMMA ConnectKeeps ==
  ASSUME DaemonInv, NEW c \in Client, Connect(c)
  PROVE  DaemonInv'
  <1>1. PICK request \in RequestsOf[c] :
          Step(c, [conn[c] EXCEPT !.step = "queued", !.request = request])
    BY DEF Connect
  <1>2. PICK k : k = conn[c]
    OBVIOUS
  <1>3. k \in ConnState /\ ConnInv(k, there) /\ k.step = "none" /\ request \in Request
    BY <1>2, DaemonAssumption DEF DaemonInv, Typed, ConnsInv, Connect, DaemonAssumption
  <1>4. PICK next : next = [k EXCEPT !.step = "queued", !.request = request]
    OBVIOUS
  <1>5. /\ next \in ConnState /\ next.step = "queued" /\ next.request = request
        /\ next.found = k.found
    BY <1>3, <1>4 DEF ConnState
  <1>6. ConnInv(next, there)
    BY <1>3, <1>5 DEF ConnInv
  <1>7. Step(c, next)
    BY <1>1, <1>2, <1>4
  <1>8. QED BY <1>5, <1>6, <1>7, StepKeeps

LEMMA SendKeeps ==
  ASSUME DaemonInv, NEW c \in Client, Send(c) \/ HangUp(c)
  PROVE  DaemonInv'
  <1>1. PICK k : k = conn[c]
    OBVIOUS
  <1>2. k \in ConnState /\ ConnInv(k, there) /\ k.step \in {"queued", "reading"}
    BY <1>1 DEF DaemonInv, Typed, ConnsInv, Send, HangUp, MaySend
  <1>3. PICK next : /\ next \in {[k EXCEPT !.pending = TRUE], [k EXCEPT !.closed = TRUE]}
                    /\ Step(c, next)
    BY <1>1 DEF Send, HangUp
  <1>4. /\ next \in ConnState /\ next.step = k.step /\ next.request = k.request
        /\ next.found = k.found /\ next.worlds = k.worlds
        /\ next.line = k.line /\ next.config = k.config
    BY <1>2, <1>3 DEF ConnState
  <1>5. ConnInv(next, there)
    BY <1>2, <1>4 DEF ConnInv
  <1>6. QED BY <1>3, <1>4, <1>5, StepKeeps

LEMMA AcceptKeeps ==
  ASSUME DaemonInv, NEW c \in Client, Accept(c)
  PROVE  DaemonInv'
  <1>1. PICK k : k = conn[c]
    OBVIOUS
  <1>2. PICK line, config : line = daemon.line /\ config = daemon.config
    OBVIOUS
  <1>3. /\ k \in ConnState /\ ConnInv(k, there) /\ k.step = "queued"
        /\ daemon \in DaemonState /\ daemon.phase = "serving"
    BY <1>1 DEF DaemonInv, Typed, ConnsInv, Accept
  <1>4. line \in Lines /\ Sound(line, config) /\ config \in Configs
    BY <1>2, <1>3 DEF DaemonInv, StartInv, DaemonState
  <1>5. PICK next : next = [k EXCEPT !.step = "reading", !.line = line, !.config = config]
    OBVIOUS
  <1>6. /\ next \in ConnState /\ next.step = "reading" /\ next.request = k.request
        /\ next.found = k.found /\ next.worlds = k.worlds
        /\ next.line = line /\ next.config = config
    BY <1>3, <1>4, <1>5 DEF ConnState
  <1>7. ConnInv(next, there)
    BY <1>3, <1>4, <1>6 DEF ConnInv
  <1>8. Step(c, next)
    BY <1>1, <1>2, <1>5 DEF Accept
  <1>9. QED BY <1>6, <1>7, <1>8, StepKeeps

LEMMA DropKeeps ==
  ASSUME DaemonInv, NEW c \in Client, Drop(c)
  PROVE  DaemonInv'
  BY NoConnIs, StepKeeps DEF Drop

LEMMA ReadKeeps ==
  ASSUME DaemonInv, NEW c \in Client, Read(c)
  PROVE  DaemonInv'
  <1>1. CASE Drop(c)
    BY <1>1, DropKeeps
  <1>2. CASE ~ Drop(c)
    <2>1. PICK k : k = conn[c]
      OBVIOUS
    <2>2. k \in ConnState /\ ConnInv(k, there) /\ k.step = "reading"
      BY <2>1 DEF DaemonInv, Typed, ConnsInv, Read
    <2>3. PICK next : next = [k EXCEPT !.sent = k.sent + 1, !.pending = FALSE]
      OBVIOUS
    <2>4. Step(c, next)
      BY <1>2, <2>1, <2>3 DEF Read
    <2>5. /\ next \in ConnState /\ next.step = k.step /\ next.request = k.request
          /\ next.found = k.found /\ next.worlds = k.worlds
          /\ next.line = k.line /\ next.config = k.config
      <3>1. PICK sent \in Nat : sent = k.sent + 1
        BY <2>2 DEF ConnState
      <3>2. next = [k EXCEPT !.sent = sent, !.pending = FALSE]
        BY <2>3, <3>1
      <3>3. QED BY <2>2, <3>2 DEF ConnState
    <2>6. ConnInv(next, there)
      BY <2>2, <2>5 DEF ConnInv
    <2>7. QED BY <2>4, <2>5, <2>6, StepKeeps
  <1>3. QED BY <1>1, <1>2

LEMMA AnswerKeeps ==
  ASSUME DaemonInv, NEW c \in Client, conn[c].step = "reading",
         NEW code \in Nat, NEW status \in {"ok", "degraded", "error"}, Answer(c, code, status)
  PROVE  DaemonInv'
  <1>1. PICK k : k = conn[c]
    OBVIOUS
  <1>2. k \in ConnState /\ ConnInv(k, there) /\ k.step = "reading"
    BY <1>1 DEF DaemonInv, Typed, ConnsInv
  <1>3. PICK said : said = [code |-> code, status |-> status]
    OBVIOUS
  <1>4. PICK next : next = [k EXCEPT !.step = "writing", !.said = said]
    OBVIOUS
  <1>5. next \in ConnState /\ next.step = "writing" /\ next.found = k.found
    BY <1>2, <1>3, <1>4 DEF ConnState
  <1>6. ConnInv(next, there)
    BY <1>2, <1>5 DEF ConnInv
  <1>7. Step(c, next)
    BY <1>1, <1>3, <1>4 DEF Answer
  <1>8. QED BY <1>5, <1>6, <1>7, StepKeeps

(* Asking begins with all the models of the request. *)
LEMMA AskOfKeeps ==
  ASSUME DaemonInv, NEW c \in Client, conn[c].step = "reading",
         conn[c].request.route \in {"health", "chat", "cycle"}, NEW models \in Seq(Nat),
         models # <<>>, \A n \in DOMAIN models : models[n] \in DOMAIN conn[c].config.models,
         {conn[c].config.models[models[n]].id : n \in DOMAIN models} = AskedIds(conn[c]),
         AskOf(c, models)
  PROVE  DaemonInv'
  <1>1. PICK k : k = conn[c]
    OBVIOUS
  <1>2. /\ k \in ConnState /\ ConnInv(k, there) /\ k.step = "reading"
        /\ {there} \in SUBSET World
    BY <1>1 DEF DaemonInv, Typed, ConnsInv
  <1>3. PICK worlds : worlds = {there}
    OBVIOUS
  <1>4. PICK next : next = [k EXCEPT !.step = "asking", !.left = models, !.worlds = worlds]
    OBVIOUS
  <1>5. /\ next \in ConnState /\ next.step = "asking" /\ next.worlds = worlds
        /\ next.left = models /\ next.found = k.found /\ next.request = k.request
        /\ next.line = k.line /\ next.config = k.config
    BY <1>2, <1>3, <1>4 DEF ConnState
  <1>6. /\ k.found = {} /\ k.request \in Request /\ k.line \in Lines /\ Sound(k.line, k.config)
    BY <1>2 DEF ConnInv
  <1>7. Asking(next)
    BY <1>1, <1>5, <1>6 DEF Asking, Checked
  <1>8. FoundIds(next) \cup LeftIds(next) = AskedIds(next)
    BY <1>1, <1>5, <1>6 DEF FoundIds, LeftIds, AskedIds
  <1>9. ConnInv(next, there)
    BY <1>1, <1>3, <1>5, <1>7, <1>8 DEF ConnInv
  <1>10. Step(c, next)
    BY <1>1, <1>3, <1>4 DEF AskOf
  <1>11. QED BY <1>5, <1>9, <1>10, StepKeeps

LEMMA HandleKeeps ==
  ASSUME DaemonInv, NEW c \in Client, Handle(c)
  PROVE  DaemonInv'
  <1> DEFINE config  == conn[c].config
             request == conn[c].request
  <1>1. /\ conn[c] \in ConnState /\ conn[c].step = "reading" /\ Sound(conn[c].line, config)
        /\ config.models \in Seq(Range(config.models)) /\ config.models # <<>>
    BY DEF DaemonInv, Typed, ConnsInv, Handle, ConnInv, Sound
  <1>2. CASE Drop(c)
    BY <1>2, DropKeeps
  <1>3. CASE Answer(c, 404, "error") \/ Answer(c, 200, "ok") \/ Answer(c, 400, "error")
             \/ Answer(c, 500, "error")
    BY <1>1, <1>3, AnswerKeeps
  <1>4. CASE request.route = "health" /\ AskOf(c, [i \in DOMAIN config.models |-> i])
    <2>1. PICK left : left = [i \in DOMAIN config.models |-> i]
      OBVIOUS
    <2>2. DOMAIN config.models = 1 .. Len(config.models) /\ Len(config.models) \in Nat
          /\ Len(config.models) # 0
      BY <1>1
    <2>3. left \in [1 .. Len(config.models) -> Nat] /\ DOMAIN left = DOMAIN config.models
      BY <2>1, <2>2
    <2>4. left \in Seq(Nat) /\ left # <<>>
      BY <2>2, <2>3
    <2>5. {config.models[left[n]].id : n \in DOMAIN left} = AskedIds(conn[c])
      BY <1>4, <2>1, <2>3 DEF AskedIds, Ids
    <2>6. \A n \in DOMAIN left : left[n] \in DOMAIN config.models
      BY <2>1, <2>3
    <2>7. AskOf(c, left)
      BY <1>4, <2>1
    <2>8. QED BY <1>1, <1>4, <2>4, <2>5, <2>6, <2>7, AskOfKeeps
  <1>5. CASE /\ request.route \in {"cycle", "chat"} /\ Selected(config, request.model) # {}
             /\ AskOf(c, SetToSeq(Selected(config, request.model)))
    <2>1. Distinct(config.models)
      BY <1>1 DEF Sound
    <2>2. PICK i \in DOMAIN config.models :
            /\ config.models[i].id =
                 (IF request.model = None THEN config.default ELSE request.model)
            /\ SetToSeq(Selected(config, request.model)) = <<i>>
      BY <1>5, <2>1, SelectedIs
    <2>3. PICK left : left = <<i>>
      OBVIOUS
    <2>4. i \in Nat
      BY <1>1
    <2>5. left \in Seq(Nat) /\ left # <<>> /\ DOMAIN left = {1} /\ left[1] = i
      BY <2>3, <2>4
    <2>6. {config.models[left[n]].id : n \in DOMAIN left} = AskedIds(conn[c])
      BY <1>5, <2>2, <2>5 DEF AskedIds
    <2>7. AskOf(c, left)
      BY <1>5, <2>2, <2>3
    <2>8. QED BY <1>1, <1>5, <2>5, <2>6, <2>7, AskOfKeeps
  <1>6. QED BY <1>2, <1>3, <1>4, <1>5 DEF Handle

(* The file that a model asked by URL is tied to is the one that counts for it by the line. *)
LEMMA FilesAre ==
  ASSUME NEW line, NEW config, Sound(line, config), NEW i \in DOMAIN config.models,
         config.models[i].endpoint # "builtin"
  PROVE  FilesOf(line, config.models[i]) \subseteq {config.models[i].file} \ {None}
  BY DEF Sound, FilesOf

(* What a check and a request find of a model is true of the moments they are made in. *)
LEMMA ServesTruly ==
  ASSUME NEW line, NEW config, Sound(line, config), NEW i \in DOMAIN config.models,
         config.models[i].endpoint # "builtin", NEW route, NEW worlds,
         NEW before \in worlds, Usable(config.models[i], route, before),
         NEW world \in worlds, Serves(config.models[i], route, world)
  PROVE  MayServe(line, config.models[i], route, worlds)
  BY FilesAre DEF MayServe, Usable

LEMMA FailsTruly ==
  ASSUME NEW line, NEW config, Sound(line, config), NEW i \in DOMAIN config.models,
         config.models[i].endpoint # "builtin", NEW route, NEW worlds, NEW world \in worlds,
         ~ Usable(config.models[i], route, world) \/ ~ Serves(config.models[i], route, world)
  PROVE  MayFail(line, config.models[i], route, worlds)
  <1> DEFINE model == config.models[i]
  <1>1. model.endpoint \in Endpoint
    BY DEF Sound
  <1>2. model.file # None => model.file \in FilesOf(line, model)
    BY DEF FilesOf
  <1> HIDE DEF model
  <1>3. model.endpoint # "builtin" /\ (~ Usable(model, route, world) \/ ~ Serves(model, route, world))
    BY DEF model
  <1>4. MayFail(line, model, route, worlds)
    BY <1>1, <1>2, <1>3 DEF MayFail, Usable, Endpoint
  <1>5. QED BY <1>4 DEF model

LEMMA FoundKeeps ==
  ASSUME DaemonInv, NEW c \in Client, conn[c].step \in {"asking", "requesting"},
         NEW up \in BOOLEAN, Found(c, up),
         IF up THEN MayServe(conn[c].line, Asked(c), conn[c].request.route, conn[c].worlds)
         ELSE MayFail(conn[c].line, Asked(c), conn[c].request.route, conn[c].worlds)
  PROVE  DaemonInv'
  <1>1. PICK k, world : k = conn[c] /\ world = there
    OBVIOUS
  <1>2. /\ k \in ConnState /\ ConnInv(k, world) /\ k.step \in {"asking", "requesting"}
        /\ world \in World
    BY <1>1 DEF DaemonInv, Typed, ConnsInv
  <1>3. /\ Asking(k) /\ k.left # <<>> /\ k.left \in Seq(Nat)
        /\ \A n \in DOMAIN k.left : k.left[n] \in DOMAIN k.config.models
        /\ FoundIds(k) \cup LeftIds(k) = AskedIds(k)
    BY <1>2 DEF ConnInv, ConnState
  <1>4. PICK i : i = Head(k.left)
    OBVIOUS
  <1>5. i = k.left[1] /\ i \in DOMAIN k.config.models
    BY <1>3, <1>4
  <1>6. PICK model : model = k.config.models[i]
    OBVIOUS
  <1>7. Asked(c) = model
    BY <1>1, <1>4, <1>6 DEF Asked
  <1>8. model.id \in ModelIds
    BY <1>3, <1>5, <1>6 DEF Asking, Sound, Ids
  <1>9. PICK entry : entry = [model |-> model.id, reachable |-> up, worlds |-> k.worlds]
    OBVIOUS
  <1>10. entry \in Entry /\ entry.model = model.id /\ entry.reachable = up
         /\ entry.worlds = k.worlds
    BY <1>2, <1>8, <1>9 DEF Entry, ConnState
  <1>11. PICK found, left : found = k.found \cup {entry} /\ left = Tail(k.left)
    OBVIOUS
  <1>12. PICK next : next = [k EXCEPT !.step = "asking", !.left = left, !.found = found,
                                      !.worlds = {world}]
    OBVIOUS
  <1>13. /\ next \in ConnState /\ next.left = left /\ next.found = found /\ next.step = "asking"
         /\ next.request = k.request /\ next.line = k.line /\ next.config = k.config
         /\ next.worlds = {world}
    <2>1. found \in SUBSET Entry /\ left \in Seq(Nat) /\ {world} \in SUBSET World
      BY <1>2, <1>3, <1>10, <1>11 DEF ConnState
    <2>2. QED BY <1>2, <1>12, <2>1 DEF ConnState
  <1>14. Asking(next)
    <2>1. IF up THEN MayServe(k.line, model, k.request.route, entry.worlds)
          ELSE MayFail(k.line, model, k.request.route, entry.worlds)
      BY <1>1, <1>7, <1>10
    <2>2. Checked(next)
      BY <1>3, <1>5, <1>6, <1>10, <1>11, <1>13, <2>1 DEF Asking, Checked
    <2>3. QED BY <1>3, <1>13, <2>2 DEF Asking
  <1>15. FoundIds(next) \cup LeftIds(next) = AskedIds(next)
    <2>1. FoundIds(next) = FoundIds(k) \cup {model.id}
      BY <1>10, <1>11, <1>13 DEF FoundIds
    <2>2. LeftIds(k) = {model.id} \cup LeftIds(next)
      <3>1. \A n \in DOMAIN left : n + 1 \in DOMAIN k.left /\ left[n] = k.left[n + 1]
        BY <1>3, <1>11
      <3>2. \A n \in DOMAIN k.left : n = 1 \/ (n - 1 \in DOMAIN left /\ left[n - 1] = k.left[n])
        BY <1>3, <1>11
      <3>3. 1 \in DOMAIN k.left
        BY <1>3
      <3>4. QED BY <1>5, <1>6, <1>13, <3>1, <3>2, <3>3 DEF LeftIds
    <2>3. AskedIds(next) = AskedIds(k)
      BY <1>13 DEF AskedIds
    <2>4. QED BY <1>3, <2>1, <2>2, <2>3
  <1>16. left # <<>> => \A n \in DOMAIN left : left[n] \in DOMAIN k.config.models
    BY <1>3, <1>11
  <1>17. CASE left # <<>>
    <2>1. ConnInv(next, world)
      BY <1>3, <1>13, <1>14, <1>15, <1>16, <1>17 DEF ConnInv
    <2>2. Step(c, next)
      BY <1>1, <1>7, <1>9, <1>11, <1>12, <1>13, <1>17 DEF Found
    <2>3. QED BY <1>1, <1>13, <2>1, <2>2, StepKeeps
  <1>18. CASE left = <<>>
    <2>1. PICK said : said = [code |-> 200, status |-> StatusOf(k.request.route, found, up)]
      OBVIOUS
    <2>2. PICK last : last = [next EXCEPT !.step = "writing", !.said = said]
      OBVIOUS
    <2>3. said \in [code : Nat, status : {"ok", "degraded", "error"}]
          /\ said.status = StatusOf(k.request.route, found, FALSE)
      BY <2>1 DEF StatusOf
    <2>4. /\ last \in ConnState /\ last.step = "writing" /\ last.left = left /\ last.found = found
          /\ last.request = k.request /\ last.line = k.line /\ last.config = k.config
          /\ last.said = said
      BY <1>13, <2>2, <2>3 DEF ConnState
    <2>5. LeftIds(next) = {}
      BY <1>13, <1>18 DEF LeftIds
    <2>6. Asking(last) /\ FoundIds(last) = AskedIds(last)
      BY <1>13, <1>14, <1>15, <2>4, <2>5 DEF Asking, Checked, FoundIds, AskedIds
    <2>7. ConnInv(last, world)
      BY <2>3, <2>4, <2>6 DEF ConnInv
    <2>8. Step(c, last)
      BY <1>1, <1>7, <1>9, <1>11, <1>12, <1>13, <1>18, <2>1, <2>2 DEF Found
    <2>9. QED BY <1>1, <2>4, <2>7, <2>8, StepKeeps
  <1>19. QED BY <1>17, <1>18

LEMMA CheckKeeps ==
  ASSUME DaemonInv, NEW c \in Client, Check(c)
  PROVE  DaemonInv'
  <1>1. PICK k, world : k = conn[c] /\ world = there
    OBVIOUS
  <1>2. k \in ConnState /\ ConnInv(k, world) /\ k.step = "asking"
    BY <1>1 DEF DaemonInv, Typed, ConnsInv, Check
  <1>3. PICK i : i = Head(k.left)
    OBVIOUS
  <1>4. /\ Asking(k) /\ Sound(k.line, k.config) /\ world \in k.worlds /\ k.left # <<>>
        /\ \A n \in DOMAIN k.left : k.left[n] \in DOMAIN k.config.models
        /\ FoundIds(k) \cup LeftIds(k) = AskedIds(k)
    BY <1>2 DEF ConnInv, Asking
  <1>5. i \in DOMAIN k.config.models
    <2>1. k.left \in Seq(Nat)
      BY <1>2 DEF ConnState
    <2>2. i = k.left[1] /\ 1 \in DOMAIN k.left
      BY <1>3, <1>4, <2>1
    <2>3. QED BY <1>4, <2>2
  <1>6. Asked(c) = k.config.models[i]
    BY <1>1, <1>3 DEF Asked
  <1>7. CASE Asked(c).endpoint = "builtin" /\ Found(c, TRUE)
    <2>1. MayServe(k.line, Asked(c), k.request.route, k.worlds)
      BY <1>7 DEF MayServe
    <2>2. QED BY <1>1, <1>2, <1>7, <2>1, FoundKeeps
  <1>8. CASE /\ Asked(c).endpoint # "builtin" /\ ~ Usable(Asked(c), conn[c].request.route, there)
             /\ Found(c, FALSE)
    <2>1. MayFail(k.line, k.config.models[i], k.request.route, k.worlds)
      BY <1>1, <1>4, <1>5, <1>6, <1>8, FailsTruly
    <2>2. MayFail(conn[c].line, Asked(c), conn[c].request.route, conn[c].worlds)
      BY <1>1, <1>6, <2>1
    <2>3. QED BY <1>1, <1>2, <1>8, <2>2, FoundKeeps
  <1>9. CASE /\ Asked(c).endpoint # "builtin" /\ Usable(Asked(c), conn[c].request.route, there)
             /\ Step(c, [conn[c] EXCEPT !.step = "requesting"])
    <2>1. PICK next : next = [k EXCEPT !.step = "requesting"]
      OBVIOUS
    <2>2. /\ next \in ConnState /\ next.step = "requesting" /\ next.worlds = k.worlds
          /\ next.found = k.found /\ next.left = k.left /\ next.request = k.request
          /\ next.line = k.line /\ next.config = k.config
      BY <1>2, <2>1 DEF ConnState
    <2>3. Asking(next) /\ FoundIds(next) \cup LeftIds(next) = AskedIds(next)
      BY <1>4, <2>2 DEF Asking, Checked, FoundIds, LeftIds, AskedIds
    <2>4. k.config.models[i].endpoint # "builtin" /\ Usable(k.config.models[i], k.request.route, world)
      BY <1>1, <1>6, <1>9
    <2>5. Requested(next)
      BY <1>3, <1>4, <2>2, <2>4 DEF Requested
    <2>6. ConnInv(next, world)
      BY <1>4, <2>2, <2>3, <2>5 DEF ConnInv
    <2>7. QED BY <1>1, <1>9, <2>1, <2>2, <2>6, StepKeeps
  <1>10. QED BY <1>7, <1>8, <1>9 DEF Check

LEMMA ExchangeKeeps ==
  ASSUME DaemonInv, NEW c \in Client, Exchange(c)
  PROVE  DaemonInv'
  <1>1. PICK k, world : k = conn[c] /\ world = there
    OBVIOUS
  <1>2. k \in ConnState /\ ConnInv(k, world) /\ k.step = "requesting"
    BY <1>1 DEF DaemonInv, Typed, ConnsInv, Exchange
  <1>3. PICK i : i = Head(k.left)
    OBVIOUS
  <1>4. /\ Sound(k.line, k.config) /\ world \in k.worlds /\ k.left # <<>> /\ Requested(k)
        /\ \A n \in DOMAIN k.left : k.left[n] \in DOMAIN k.config.models
    BY <1>2 DEF ConnInv, Asking
  <1>5. i \in DOMAIN k.config.models
    <2>1. k.left \in Seq(Nat)
      BY <1>2 DEF ConnState
    <2>2. i = k.left[1] /\ 1 \in DOMAIN k.left
      BY <1>3, <1>4, <2>1
    <2>3. QED BY <1>4, <2>2
  <1>6. Asked(c) = k.config.models[i]
    BY <1>1, <1>3 DEF Asked
  <1>7. PICK before \in k.worlds : Usable(k.config.models[i], k.request.route, before)
    BY <1>3, <1>4 DEF Requested
  <1>8. k.config.models[i].endpoint # "builtin"
    BY <1>3, <1>4 DEF Requested
  <1>9. PICK up : up = Serves(k.config.models[i], k.request.route, world)
    OBVIOUS
  <1>10. up \in BOOLEAN /\ Found(c, up)
    BY <1>1, <1>6, <1>9 DEF Exchange, Serves
  <1>11. IF up THEN MayServe(k.line, k.config.models[i], k.request.route, k.worlds)
         ELSE MayFail(k.line, k.config.models[i], k.request.route, k.worlds)
    <2>1. CASE up
      BY <1>4, <1>5, <1>7, <1>8, <1>9, <2>1, ServesTruly
    <2>2. CASE ~ up
      BY <1>4, <1>5, <1>8, <1>9, <2>2, FailsTruly
    <2>3. QED BY <1>10, <2>1, <2>2
  <1>12. QED BY <1>1, <1>2, <1>6, <1>10, <1>11, FoundKeeps

(* Writing an answer changes nothing of what it says. *)
LEMMA WritingKeeps ==
  ASSUME DaemonInv, NEW c \in Client, StopReading(c) \/ Write(c)
  PROVE  DaemonInv'
  <1>1. PICK k : k = conn[c]
    OBVIOUS
  <1>2. k \in ConnState /\ ConnInv(k, there) /\ k.step = "writing"
    BY <1>1 DEF DaemonInv, Typed, ConnsInv, StopReading, Write
  <1>3. PICK next : /\ next \in {[k EXCEPT !.reads = FALSE], [k EXCEPT !.step = "answered"]}
                    /\ Step(c, next)
    BY <1>1 DEF StopReading, Write
  <1>4. /\ next \in ConnState /\ next.step \in {"writing", "answered"}
        /\ next.request = k.request /\ next.found = k.found /\ next.said = k.said
        /\ next.line = k.line /\ next.config = k.config
    BY <1>2, <1>3 DEF ConnState
  <1>5. k.found # {} => /\ Asking(next) /\ FoundIds(next) = AskedIds(next)
                        /\ next.said.status = StatusOf(next.request.route, next.found, FALSE)
    BY <1>2, <1>4 DEF ConnInv, Asking, Checked, FoundIds, AskedIds
  <1>6. ConnInv(next, there)
    BY <1>4, <1>5 DEF ConnInv
  <1>7. QED BY <1>3, <1>4, <1>6, StepKeeps

-----------------------------------------------------------------------------
LEMMA StepInv == DaemonInv /\ [Next]_vars => DaemonInv'
  <1> SUFFICES ASSUME DaemonInv, [Next]_vars PROVE DaemonInv'
    OBVIOUS
  <1>1. ASSUME NEW line \in Lines, Start(line) PROVE DaemonInv'
    BY <1>1, StartKeeps
  <1>2. CASE Spawn \/ Bind
    BY <1>2, SpawnKeeps, BindKeeps
  <1>3. CASE GiveUp \/ \E alone \in BOOLEAN : Die(alone)
    BY <1>3, EndKeeps
  <1>4. ASSUME NEW what \in Things, Change(what) PROVE DaemonInv'
    BY <1>4, ChangeKeeps
  <1>5. ASSUME NEW c \in Client, Connect(c) \/ Send(c) \/ HangUp(c) \/ Accept(c)
        PROVE  DaemonInv'
    BY <1>5, ConnectKeeps, SendKeeps, AcceptKeeps
  <1>6. ASSUME NEW c \in Client, Read(c) \/ Timeout(c) \/ Handle(c) \/ Check(c) \/ Exchange(c)
        PROVE  DaemonInv'
    BY <1>6, ReadKeeps, DropKeeps, HandleKeeps, CheckKeeps, ExchangeKeeps DEF Timeout
  <1>7. ASSUME NEW c \in Client, StopReading(c) \/ Write(c) \/ WriteFails(c)
        PROVE  DaemonInv'
    BY <1>7, WritingKeeps, DropKeeps DEF WriteFails
  <1>8. CASE UNCHANGED vars
    BY <1>8 DEF vars, DaemonInv, Typed, StartInv, Own, ConnsInv
  <1>9. QED BY <1>1, <1>2, <1>3, <1>4, <1>5, <1>6, <1>7, <1>8 DEF Next

LEMMA Inductive == Spec => []DaemonInv
  <1>1. QED BY InitInv, StepInv, PTL DEF Spec

(* A daemon that serves has all its servers, one model for each id, the built-in one and its
   default among them, and no server outlives a start that was not killed alone: for any command
   lines, however often it starts, fails and dies. *)
THEOREM StartsAlwaysWhole == Spec => []StartsWhole
  <1>1. DaemonInv => StartsWhole
    <2> SUFFICES ASSUME DaemonInv PROVE StartsWhole
      OBVIOUS
    <2>1. ASSUME daemon.phase = "serving"
          PROVE  /\ Cardinality(Own) = Len(daemon.config.servers)
                 /\ Cardinality(Ids(daemon.config)) = Len(daemon.config.models)
                 /\ {"eva-lite", daemon.config.default} \subseteq Ids(daemon.config)
      <3> DEFINE n == daemon.spawned
                 models == daemon.config.models
      <3>1. /\ Sound(daemon.line, daemon.config) /\ n = Len(daemon.config.servers)
            /\ Own = {[start |-> starts, server |-> k] : k \in 1 .. n} /\ n \in Nat
        BY <2>1 DEF DaemonInv, StartInv, Typed, DaemonState
      <3>2. Cardinality(Own) = n
        <4>1. [k \in 1 .. n |-> [start |-> starts, server |-> k]] \in Bijection(1 .. n, Own)
          BY <3>1 DEF Bijection, Injection, Surjection, IsInjective
        <4>2. QED BY <3>1, <4>1, FS_CountingElements DEF ExistsBijection
      <3>3. Cardinality(Ids(daemon.config)) = Len(models)
        <4>1. DOMAIN models = 1 .. Len(models) /\ Len(models) \in Nat
          BY <3>1 DEF Sound
        <4>2. [i \in 1 .. Len(models) |-> models[i].id]
                \in Bijection(1 .. Len(models), Ids(daemon.config))
          BY <3>1, <4>1 DEF Sound, Distinct, Ids, Bijection, Injection, Surjection, IsInjective
        <4>3. QED BY <4>1, <4>2, FS_CountingElements DEF ExistsBijection
      <3>4. QED BY <3>1, <3>2, <3>3 DEF Sound
    <2>2. \A child \in children :
            child.start \in killed \/ (child.start = starts /\ daemon.phase # "down")
      BY DEF DaemonInv, StartInv
    <2>3. QED BY <2>1, <2>2 DEF StartsWhole
  <1>2. QED BY <1>1, Inductive, PTL

(* What a thread answers is true of the moments it asked in, and is about the very model that was
   named, or about every model: for any configuration, clients and models that come and go. *)
THEOREM AnswersAlwaysTrue == Spec => []AnswersAreTrue
  <1>1. DaemonInv => AnswersAreTrue
    <2> SUFFICES ASSUME DaemonInv, NEW c \in Client, conn[c].step \in {"writing", "answered"},
                        conn[c].found # {}
                 PROVE  LET this   == conn[c]
                            route  == this.request.route
                            models == {this.config.models[i] : i \in DOMAIN this.config.models}
                            asked  == IF route = "health" THEN Ids(this.config)
                                      ELSE {IF this.request.model = None THEN this.config.default
                                            ELSE this.request.model}
                            was(id, up) ==
                              \E model \in models, entry \in this.found :
                                /\ model.id = id /\ entry.model = id
                                /\ IF up THEN MayServe(this.line, model, route, entry.worlds)
                                   ELSE MayFail(this.line, model, route, entry.worlds)
                        IN /\ {entry.model : entry \in this.found} = asked
                           /\ \A entry \in this.found : was(entry.model, entry.reachable)
                           /\ IF this.said.status = "ok" THEN \E id \in asked : was(id, TRUE)
                              ELSE \A id \in asked : was(id, FALSE)
      BY DEF AnswersAreTrue
    <2> DEFINE k == conn[c]
               models == {k.config.models[i] : i \in DOMAIN k.config.models}
               was(id, up) == \E model \in models, entry \in k.found :
                                /\ model.id = id /\ entry.model = id
                                /\ IF up THEN MayServe(k.line, model, k.request.route, entry.worlds)
                                   ELSE MayFail(k.line, model, k.request.route, entry.worlds)
    <2>1. /\ k \in ConnState /\ Asking(k) /\ FoundIds(k) = AskedIds(k)
          /\ k.said.status = StatusOf(k.request.route, k.found, FALSE)
      BY DEF DaemonInv, Typed, ConnsInv, ConnInv
    <2>2. \A entry \in k.found : was(entry.model, entry.reachable)
      BY <2>1 DEF Asking, Checked
    <2>3. \A entry \in k.found : entry.reachable \in BOOLEAN
      BY <2>1 DEF ConnState, Entry
    <2> HIDE DEF was
    <2>4. AskedIds(k) = {entry.model : entry \in k.found}
      BY <2>1 DEF FoundIds
    <2>5. IF k.said.status = "ok" THEN \E id \in AskedIds(k) : was(id, TRUE)
          ELSE \A id \in AskedIds(k) : was(id, FALSE)
      <3>1. CASE \E entry \in k.found : entry.reachable
        <4>1. k.said.status = "ok"
          BY <2>1, <3>1 DEF StatusOf
        <4>2. PICK entry \in k.found : entry.reachable = TRUE
          BY <2>3, <3>1
        <4>3. was(entry.model, TRUE)
          BY <2>2, <4>2
        <4>4. QED BY <2>4, <4>1, <4>3
      <3>2. CASE \A entry \in k.found : ~ entry.reachable
        <4>1. k.said.status # "ok"
          BY <2>1, <3>2 DEF StatusOf
        <4>2. \A entry \in k.found : was(entry.model, FALSE)
          BY <2>2, <2>3, <3>2
        <4>3. QED BY <2>4, <4>1, <4>2
      <3>3. QED BY <3>1, <3>2
    <2>6. QED BY <2>2, <2>4, <2>5 DEF AskedIds, was
  <1>2. QED BY <1>1, Inductive, PTL
=============================================================================
