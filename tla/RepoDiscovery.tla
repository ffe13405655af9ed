--------------------------- MODULE RepoDiscovery ---------------------------
(***************************************************************************)
(* What `github_repo_discover` makes of an answer of GitHub, or of a       *)
(* fixture: which repositories become cases, in which order, and where     *)
(* each of them is to be cloned.                                           *)
(***************************************************************************)
EXTENDS Integers, Sequences, FiniteSets, SequencesExt

CONSTANTS Repo,      \* full names of repositories, in alphabetical order
          Path,      \* workspaces below benchmarks/repos
          PathOf,    \* the name with "_" for "/", so that two names may share a workspace
          License

ASSUME RepoDiscoveryAssumption ==
  /\ IsInjective(Repo) /\ Repo \in Seq(Range(Repo))
  /\ PathOf \in [Range(Repo) -> Path]

(* A repository as GitHub describes it.  "gone" is archived or disabled; "tested" is what its
   name and description suggest. *)
Item == [name : Range(Repo), gone : BOOLEAN, stars : Nat, size : Nat, forks : Nat, issues : Nat,
         license : License, tested : BOOLEAN]

(* DiscoveryConfig; both lists of excluded names are one set. *)
Config == [licenses : SUBSET License, excluded : SUBSET Range(Repo), smallest : Nat, largest : Nat,
           target : Nat, tested : BOOLEAN, stars : Nat, most : Nat]

Admitted(item, config) ==
  /\ ~item.gone
  /\ item.stars >= config.stars
  /\ item.name \notin config.excluded
  /\ item.license \in config.licenses
  /\ config.smallest <= item.size /\ item.size <= config.largest

HasTests(item) == item.tested \/ item.issues > 0 \/ item.forks > 0

AtMost(n, bound) == IF n <= bound THEN n ELSE bound

(* repository_score, a hundred times and times the size that is wanted, which makes it whole. *)
RepoScore(item, config) ==
  LET wanted == IF config.target = 0 THEN 1 ELSE config.target
      off    == IF item.size > config.target THEN item.size - config.target
                                             ELSE config.target - item.size
  IN (AtMost(item.stars, 500) + (IF HasTests(item) THEN 125 ELSE 0) + 4 * AtMost(item.issues, 25))
       * wanted - 100 * off

Place(item) == CHOOSE i \in DOMAIN Repo : Repo[i] = item.name

(* The better score first, then the smaller repository, then the name. *)
Precedes(config, a, b) ==
  \/ RepoScore(a, config) > RepoScore(b, config)
  \/ /\ RepoScore(a, config) = RepoScore(b, config)
     /\ (a.size < b.size \/ (a.size = b.size /\ Place(a) < Place(b)))

(* A set as a sequence, each element after those that are before it. *)
Sorted(set, before) ==
  [i \in 1..Cardinality(set) |->
     CHOOSE x \in set : Cardinality({y \in set : <<y, x>> \in before}) = i - 1]

(* Of several items of one name the first that is admitted counts. *)
Filtered(items, config) ==
  LET admitted == {k \in DOMAIN items : Admitted(items[k], config)}
      firsts   == {items[k] : k \in {n \in admitted :
                     \A j \in admitted : j < n => items[j].name # items[n].name}}
      kept     == {item \in firsts : config.tested => HasTests(item)}
  IN Sorted(kept, {pair \in kept \X kept : Precedes(config, pair[1], pair[2])})

(* The cases that are written to rust_cases.json. *)
Manifest(items, config) ==
  LET found == Filtered(items, config)
  IN [i \in 1..AtMost(Len(found), config.most) |->
        [repo |-> found[i].name, path |-> PathOf[found[i].name]]]
=============================================================================
