------------------------------ MODULE MCDaemon ------------------------------
(* Command lines that meet in the ways that matter: a file with and without a default model, a
   URL that the file's own model hides, ids given twice, files for models, servers that fail. *)
EXTENDS Daemon

Given(config, override, specs, paths, servers) ==
  [config |-> config, override |-> override, specs |-> specs, paths |-> paths,
   servers |-> servers]

Nothing == Given(None, FALSE, <<>>, <<>>, <<>>)

Http(id) == [id |-> id, endpoint |-> "http", file |-> None]

Config(default, models, servers) == [default |-> default, models |-> models, servers |-> servers]

(* eva-lite under another address, and a default that the file has no model for. *)
Remote == Config("deep", <<Http("eva-lite"), [Http("fast") EXCEPT !.endpoint = "https"]>>, <<>>)

Standing == Config("fast", <<EvaLite, Http("fast"), Http("default")>>, <<"runs">>)

Serve(env, flags, standing) ==
  [env |-> env, flags |-> flags, standing |-> standing, baseFile |-> "gguf",
   baseUrl |-> "http", modes |-> {"serve"}, listens |-> FALSE, blank |-> FALSE]

At(id, endpoint) == [id |-> id, endpoint |-> endpoint]

Tied == <<[id |-> "fast", file |-> "gguf"]>>

SomeLines == {
  Serve(Nothing, Nothing, None),
  Serve(Nothing, Nothing, Unreadable),
  Serve(Nothing, Given(Remote, FALSE, <<>>, <<>>, <<>>), Standing),
  Serve(Given(None, TRUE, <<>>, <<>>, <<>>), Nothing, Standing),
  Serve(Given(None, TRUE, <<At("fast", "http")>>, Tied, <<>>), Nothing, None),
  Serve(Given(None, FALSE, <<>>, <<>>, <<"runs">>),
        Given(None, FALSE, <<At("fast", "bare")>>, Tied, <<"cannot spawn">>), Standing),
  Serve(Nothing, Given(None, FALSE, <<At("fast", "http"), At("fast", "bare")>>, Tied, <<>>), None),
  Serve(Nothing, Given(None, FALSE, <<>>, Tied, <<>>), Standing),
  [Serve(Nothing, Given(None, FALSE, <<At("fast", "http")>>, <<>>, <<>>), None) EXCEPT !.modes = {"once"}],
  [Serve(Nothing, Nothing, Unreadable) EXCEPT !.modes = {"word"}],
  [Serve(Nothing, Nothing, Unreadable) EXCEPT !.modes = {"with arguments"}],
  [Serve(Nothing, Nothing, None) EXCEPT !.modes = {"serve", "word"}],
  [Serve(Nothing, Given(None, TRUE, <<>>, <<>>, <<>>), None) EXCEPT !.blank = TRUE],
  [Serve(Nothing, Nothing, None) EXCEPT !.modes = {"word"}, !.listens = TRUE],
  Serve(Nothing, Given(None, FALSE, <<>>, <<>>, <<"runs", None>>), None)}

For(route, model, size) == [route |-> route, model |-> model, size |-> size]

SomeRequests ==
  [c \in Client |->
     IF c = "monitor" THEN {For("health", None, 1)}
     ELSE {For("models", None, 1), For("chat", None, 2), For("chat", "fast", 2),
           For("cycle", "deep", 2), For("chat without prompt", None, 2),
           For("other", None, 3)}]
(* The file is there and the backend answers or is away. *)
Calm == {world \in World : world["gguf"] = "sound" /\ world["fast"] \in {"away", "sound"}}
=============================================================================
