--------------------------- MODULE EvolutionStages --------------------------
(* The stage of a run as a reader of the log, candidates/ and replays/ sees it. *)
EXTENDS EvolutionCycle

LoggedRun(n)   == \E i \in DOMAIN log : log[i].run = n /\ Status(log[i]) = "candidate"
OfferedRun(n)  == \E s \in summaries : s.run = n
ReplayedRun(n) == \E r \in replays : r.run = n

StageOf(n) == IF ReplayedRun(n) THEN "replayed"
              ELSE IF OfferedRun(n) THEN "offered"
              ELSE IF LoggedRun(n) THEN "logged" ELSE "none"

Stages == INSTANCE CandidateStages WITH Run <- 1..MaxCommands,
                                        stage <- [n \in 1..MaxCommands |-> StageOf(n)]

(* However commands interleave and die, every run is logged before it is offered and
   offered before it is replayed, one stage at a time and never back. *)
StagesSpec == Stages!StagesSpec
=============================================================================
