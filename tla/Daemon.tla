------------------------------- MODULE Daemon -------------------------------
(***************************************************************************)
(* The runtime daemon: its start with the model servers it manages, a      *)
(* thread for every connection, and what the threads answer from models    *)
(* that come and go.                                                       *)
(***************************************************************************)
EXTENDS DaemonConfig

CONSTANTS Lines,       \* command lines it is started with
          Client,      \* each connects once
          RequestsOf,  \* what each client may ask for
          Limit,       \* parts of a request that fit into 1 MiB
          Things,      \* backends and files that come and go; no others are there
          AtFirst,     \* what these may all be like when it begins
          MaxStarts,   \* bound: starts of the daemon
          MaxChanges   \* bound: backends or files that come or go

Route == {"health", "models", "cycle", "chat", "chat without prompt", "other"}

Request == [route : Route, model : ModelIds \cup {None},
            size : Nat \ {0}]  \* in parts: the headers are the first, the body the others

ASSUME DaemonAssumption ==
  /\ \A line \in Lines : line.env \in Options /\ line.flags \in Options
                       /\ line.standing \in Configuration \cup {None, Unreadable}
                       /\ line.baseUrl \in Endpoint /\ line.baseFile \in Files \cup {None}
                       /\ line.modes \subseteq Mode
                       /\ line.listens \in BOOLEAN /\ line.blank \in BOOLEAN
  /\ \A c \in Client : RequestsOf[c] \subseteq Request
  /\ Things \subseteq ModelIds \cup Files
  /\ Limit \in Nat \ {0} /\ MaxStarts \in Nat /\ MaxChanges \in Nat

VARIABLES
  daemon,    \* its phase, its command line, what that resolved to and the servers spawned
  starts,    \* starts so far
  children,  \* processes of managed servers that run, as [start, server]
  killed,    \* starts of the daemon that ended by a signal to it alone
  there,     \* what every backend and model file is like
  changes,   \* changes of there so far
  conn       \* the connection of each client and the thread that handles it

vars == <<daemon, starts, children, killed, there, changes, conn>>

Down == [phase |-> "down", line |-> None, config |-> Refuse, spawned |-> 0]

NoConn == [step |-> "none", request |-> None, sent |-> 0, pending |-> FALSE, closed |-> FALSE,
           line |-> None, config |-> Refuse,
           left |-> <<>>,    \* models still to be asked, by index
           found |-> {},     \* what asking found, as [model, reachable, worlds]
           worlds |-> {},    \* history: what was there while the first of left was asked
           said |-> None,
           reads |-> TRUE]   \* the client reads what it is answered

Dropped == [NoConn EXCEPT !.step = "dropped"]

(* A file is there or not.  A backend is away, which is a connection refused, a status other
   than 2xx or silence for the timeout, or answers something that cannot be parsed, sends bytes
   without an end, or answers as the API says. *)
StatesOf(x) == IF x \in Files THEN {"away", "sound"} ELSE {"away", "garbled", "drips", "sound"}
World == {world \in [Things -> {"away", "garbled", "drips", "sound"}] :
            \A x \in Things : world[x] \in StatesOf(x)}
In(world, x) == IF x \in Things THEN world[x] ELSE "away"

Init ==
  /\ daemon = Down /\ starts = 0 /\ children = {} /\ killed = {}
  /\ there \in World \cap AtFirst /\ changes = 0
  /\ conn = [c \in Client |-> NoConn]

Live == {"queued", "reading", "asking", "requesting", "writing"}

Own == {child \in children : child.start = starts}

-----------------------------------------------------------------------------
(* A command line that is refused, or is none of the daemon's, ends at once. *)
Start(line) ==
  /\ daemon.phase = "down" /\ starts < MaxStarts
  /\ starts' = starts + 1
  /\ LET config == Resolve(line) IN
     IF config.kind = "serve"
     THEN daemon' = [phase |-> "starting", line |-> line, config |-> config, spawned |-> 0]
     ELSE UNCHANGED daemon
  /\ UNCHANGED <<children, killed, there, changes, conn>>

Pending == daemon.spawned < Len(daemon.config.servers)

NextServer == daemon.config.servers[daemon.spawned + 1]

Spawn ==
  /\ daemon.phase = "starting" /\ Pending /\ NextServer = "runs"
  /\ children' = children \cup {[start |-> starts, server |-> daemon.spawned + 1]}
  /\ daemon' = [daemon EXCEPT !.spawned = @ + 1]
  /\ UNCHANGED <<starts, killed, there, changes, conn>>

(* Mutant: the servers already spawned are left running. *)
GiveUpKeeping ==
  /\ daemon.phase = "starting" /\ (Pending => NextServer = "cannot spawn")
  /\ daemon' = Down
  /\ UNCHANGED <<starts, children, killed, there, changes, conn>>

(* A server that cannot be spawned, or an address that cannot be bound: the servers already
   spawned are dropped, which kills them. *)
GiveUp ==
  /\ daemon.phase = "starting" /\ (Pending => NextServer = "cannot spawn")
  /\ children' = children \ Own
  /\ daemon' = Down
  /\ UNCHANGED <<starts, killed, there, changes, conn>>

Bind ==
  /\ daemon.phase = "starting" /\ ~Pending
  /\ daemon' = [daemon EXCEPT !.phase = "serving"]
  /\ UNCHANGED <<starts, children, killed, there, changes, conn>>

(* Serving never returns; only a signal ends it, and no destructor runs.  A signal from the
   terminal reaches the managed servers too, one to the process alone leaves them running. *)
Die(alone) ==
  /\ daemon.phase # "down"
  /\ daemon' = Down
  /\ IF alone THEN killed' = killed \cup {starts} /\ UNCHANGED children
     ELSE children' = children \ Own /\ UNCHANGED killed
  /\ conn' = [c \in Client |-> IF conn[c].step \in Live
                               THEN Dropped ELSE conn[c]]
  /\ UNCHANGED <<starts, there, changes>>

-----------------------------------------------------------------------------
(* What is outside: backends and files that come and go, and the clients. *)
Change(what) ==
  /\ changes < MaxChanges /\ changes' = changes + 1
  /\ \E state \in StatesOf(what) \ {there[what]} : there' = [there EXCEPT ![what] = state]
  /\ conn' = [c \in Client |-> IF conn[c].step \in {"asking", "requesting"}
                               THEN [conn[c] EXCEPT !.worlds = @ \cup {there'}] ELSE conn[c]]
  /\ UNCHANGED <<daemon, starts, children, killed>>

Step(c, next) ==
  /\ conn' = [conn EXCEPT ![c] = next]
  /\ UNCHANGED <<daemon, starts, children, killed, there, changes>>

Connect(c) ==
  /\ daemon.phase = "serving" /\ conn[c].step = "none"
  /\ \E request \in RequestsOf[c] :
       Step(c, [conn[c] EXCEPT !.step = "queued", !.request = request])

MaySend(c) == /\ conn[c].step \in {"queued", "reading"} /\ ~conn[c].closed
              /\ ~conn[c].pending /\ conn[c].sent < conn[c].request.size

Send(c) == MaySend(c) /\ Step(c, [conn[c] EXCEPT !.pending = TRUE])

HangUp(c) == MaySend(c) /\ Step(c, [conn[c] EXCEPT !.closed = TRUE])

-----------------------------------------------------------------------------
(* A thread of its own for every connection. *)
Accept(c) ==
  /\ daemon.phase = "serving" /\ conn[c].step = "queued"
  /\ Step(c, [conn[c] EXCEPT !.step = "reading", !.line = daemon.line, !.config = daemon.config])

Drop(c) == Step(c, Dropped)

Read(c) ==
  /\ conn[c].step = "reading" /\ conn[c].pending
  /\ IF conn[c].sent = Limit THEN Drop(c)
     ELSE Step(c, [conn[c] EXCEPT !.sent = @ + 1, !.pending = FALSE])

(* Mutant: the timeout is lifted when the headers are there. *)
TimeoutOfHeaders(c) ==
  /\ conn[c].step = "reading" /\ ~conn[c].pending /\ ~conn[c].closed
  /\ conn[c].sent = 0 /\ Drop(c)

(* No part came in five seconds. *)
Timeout(c) ==
  /\ conn[c].step = "reading" /\ ~conn[c].pending /\ ~conn[c].closed
  /\ conn[c].sent < conn[c].request.size /\ Drop(c)

Answer(c, code, status) ==
  Step(c, [conn[c] EXCEPT !.step = "writing", !.said = [code |-> code, status |-> status]])

AskOf(c, models) ==
  Step(c, [conn[c] EXCEPT !.step = "asking", !.left = models, !.worlds = {there}])

(* A request without a body, or with a part of one, is an empty body to those who want one. *)
Handle(c) ==
  LET request == conn[c].request
      config  == conn[c].config
      body    == conn[c].sent = request.size /\ request.size > 1
  IN
  /\ conn[c].step = "reading" /\ ~conn[c].pending
  /\ conn[c].sent = request.size \/ conn[c].closed
  /\ IF conn[c].sent = 0 THEN Drop(c)
     ELSE \/ request.route = "other" /\ Answer(c, 404, "error")
          \/ request.route = "models" /\ Answer(c, 200, "ok")
          \/ request.route = "health" /\ AskOf(c, [i \in DOMAIN config.models |-> i])
          \/ request.route \in {"cycle", "chat", "chat without prompt"}
             /\ ~body /\ Answer(c, 400, "error")
          \/ request.route = "chat without prompt" /\ body /\ Answer(c, 500, "error")
          \/ request.route \in {"cycle", "chat"} /\ body
             /\ LET selected == Selected(config, request.model) IN
                IF selected = {} THEN Answer(c, 500, "error")
                ELSE AskOf(c, SetToSeq(selected))

Asked(c) == conn[c].config.models[Head(conn[c].left)]

(* A client is not even made for a model whose file is missing, nor for an address that is not
   plain http; and the list of models, which health asks for, is only found beside chat
   completions. *)
Usable(model, route, world) ==
  /\ model.file = None \/ In(world, model.file) = "sound"
  /\ model.endpoint = "http" \/ (model.endpoint = "bare" /\ route # "health")

(* Health takes a list that cannot be parsed for an answer, chat takes no such answer. *)
Serves(model, route, world) ==
  IF route = "health" THEN In(world, model.id) # "away" ELSE In(world, model.id) = "sound"

(* Mutant: the daemon is as well as the last model it asked. *)
StatusOfLast(route, found, last) ==
  IF last THEN "ok" ELSE IF route = "health" THEN "degraded" ELSE "error"

StatusOf(route, found, last) ==
  IF \E entry \in found : entry.reachable THEN "ok"
  ELSE IF route = "health" THEN "degraded" ELSE "error"

(* The models are asked one after the other; the last answer is the daemon's. *)
Found(c, up) ==
  LET found == conn[c].found \cup {[model |-> Asked(c).id, reachable |-> up,
                                    worlds |-> conn[c].worlds]}
      next  == [conn[c] EXCEPT !.step = "asking", !.left = Tail(@), !.found = found,
                               !.worlds = {there}]
  IN Step(c, IF next.left # <<>> THEN next
             ELSE [next EXCEPT !.step = "writing",
                     !.said = [code |-> 200,
                               status |-> StatusOf(next.request.route, found, up)]])

(* What the built-in model answers takes neither a client's file nor a backend. *)
Check(c) ==
  LET model == Asked(c) IN
  /\ conn[c].step = "asking"
  /\ IF model.endpoint = "builtin" THEN Found(c, TRUE)
     ELSE IF Usable(model, conn[c].request.route, there)
          THEN Step(c, [conn[c] EXCEPT !.step = "requesting"])
          ELSE Found(c, FALSE)

(* The timeout is one for every read, and an answer is read to its end. *)
Exchange(c) ==
  /\ conn[c].step = "requesting"
  /\ In(there, Asked(c).id) # "drips"
  /\ Found(c, Serves(Asked(c), conn[c].request.route, there))

-----------------------------------------------------------------------------
(* The answer is written without a timeout. *)
StopReading(c) ==
  conn[c].step = "writing" /\ conn[c].reads /\ Step(c, [conn[c] EXCEPT !.reads = FALSE])

(* What fits into the buffers between the two needs no reader. *)
Write(c) == conn[c].step = "writing" /\ Step(c, [conn[c] EXCEPT !.step = "answered"])

(* A client that has gone. *)
WriteFails(c) == conn[c].step = "writing" /\ Drop(c)

Next ==
  \/ \E line \in Lines : Start(line)
  \/ Spawn \/ GiveUp \/ Bind
  \/ \E alone \in BOOLEAN : Die(alone)
  \/ \E what \in Things : Change(what)
  \/ \E c \in Client : \/ Connect(c) \/ Send(c) \/ HangUp(c)
                       \/ Accept(c) \/ Read(c) \/ Timeout(c) \/ Handle(c)
                       \/ Check(c) \/ Exchange(c)
                       \/ StopReading(c) \/ Write(c) \/ WriteFails(c)

(* The accept loop and the threads run on, the clock too; nobody must send, read, hang up, start
   the daemon or kill it.  A backend that does not drip ends what it answers or stays silent for
   the timeout, and writing to a client that reads gets on. *)
Fairness ==
  \A c \in Client : /\ WF_vars(Accept(c)) /\ WF_vars(Read(c)) /\ WF_vars(Timeout(c))
                    /\ WF_vars(Handle(c)) /\ WF_vars(Check(c)) /\ WF_vars(Exchange(c))
                    /\ WF_vars(conn[c].reads /\ Write(c))

Spec == Init /\ [][Next]_vars /\ Fairness

-----------------------------------------------------------------------------
(* What the operator means by the command line: the file that ties a model down. *)
FileGiven(line, id) ==
  LET paths == line.env.paths \o line.flags.paths
      given == {j \in DOMAIN paths : paths[j].id = id}
  IN IF given = {} THEN None ELSE paths[Max(given)].file

Ids(config) == {config.models[i].id : i \in DOMAIN config.models}

(* Start-up is all or nothing: a daemon that serves has spawned every managed server, has one
   model for each id, the built-in one among them, and a default model that exists; a start
   that failed leaves no server behind, and only a daemon killed alone does. *)
StartsWhole ==
  /\ daemon.phase = "serving" =>
       /\ Cardinality(Own) = Len(daemon.config.servers)
       /\ Cardinality(Ids(daemon.config)) = Len(daemon.config.models)
       /\ {"eva-lite", daemon.config.default} \subseteq Ids(daemon.config)
  /\ \A child \in children :
       child.start \in killed \/ (child.start = starts /\ daemon.phase # "down")

(* The files that count for a model, by the line: one the line gives it counts, whatever became
   of it in the configuration. *)
FilesOf(line, model) == {model.file, FileGiven(line, model.id)} \ {None}

(* In some of these worlds the model's files were there, and in some, not the same perhaps, it
   served; or in one of them it failed, as to a monitor it does that has no list to ask for. *)
MayServe(line, model, route, worlds) ==
  \/ model.endpoint = "builtin"
  \/ /\ \A file \in FilesOf(line, model) : \E world \in worlds : In(world, file) = "sound"
     /\ model.endpoint = "http" \/ (model.endpoint = "bare" /\ route # "health")
     /\ \E world \in worlds : Serves(model, route, world)

MayFail(line, model, route, worlds) ==
  /\ model.endpoint # "builtin"
  /\ \/ \E world \in worlds, file \in FilesOf(line, model) : In(world, file) # "sound"
     \/ model.endpoint = "https" \/ (model.endpoint = "bare" /\ route = "health")
     \/ \E world \in worlds : ~Serves(model, route, world)

(* An answer is true of the moments it was made in: what it says of a model, that model was like
   while it was asked; a daemon called ok had some model served, one called degraded saw every
   model failing, and advice comes from the very model the request named, or the default one, and
   only when that model and the file it is tied to were there.  A list that cannot be parsed
   counts as an answer to health, and a model whose URL has no list beside it as failing
   (runtime_daemon.rs build_health_response, model_advisory; local_model.rs health). *)
AnswersAreTrue ==
  \A c \in Client :
    LET this   == conn[c]
        route  == this.request.route
        models == {this.config.models[i] : i \in DOMAIN this.config.models}
        asked  == IF route = "health" THEN Ids(this.config)
                  ELSE {IF this.request.model = None THEN this.config.default
                        ELSE this.request.model}
        was(id, up) == \E model \in models, entry \in this.found :
                         /\ model.id = id /\ entry.model = id
                         /\ IF up THEN MayServe(this.line, model, route, entry.worlds)
                            ELSE MayFail(this.line, model, route, entry.worlds)
    IN this.step \in {"writing", "answered"} /\ this.found # {} =>
         /\ {entry.model : entry \in this.found} = asked
         /\ \A entry \in this.found : was(entry.model, entry.reachable)
         /\ IF this.said.status = "ok" THEN \E id \in asked : was(id, TRUE)
            ELSE \A id \in asked : was(id, FALSE)

(* Only two things can hold a connection's thread for good: a backend that is asked and never
   ends its answer, and a client that does not read its own. *)
Held(c) ==
  \/ conn[c].step = "requesting" /\ In(there, Asked(c).id) = "drips"
  \/ conn[c].step = "writing" /\ ~conn[c].reads

(* Every connection comes to an end, answered or dropped, unless one of the two things that have
   no timeout holds it for good; a client that sends slowly, or not at all, or goes away does
   not, and neither do the threads of others that are held (runtime_daemon.rs handle_stream,
   write_http_response; local_model.rs send_http_request). *)
EveryClientIsServed ==
  \A c \in Client :
    conn[c].step = "queued" ~> (conn[c].step \in {"answered", "dropped"} \/ []Held(c))
=============================================================================
