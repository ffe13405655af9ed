---------------------------- MODULE ReleaseGates ----------------------------
(***************************************************************************)
(* The checks between an approved candidate and a release: health, the two *)
(* preflight gates, the trust decision and the runtime validation.  Each   *)
(* is computed anew, from files and directories it reads; what they read   *)
(* is one record, a view:                                                  *)
(*   items, ready   entries of the queue file, and those that are ready    *)
(*   cleared        how many of those are approved and pass the trust gate *)
(*   artifacts      "leaks" (sandboxes/ is not empty), "tracked" (git      *)
(*                  tracks a runtime file) or "clean"                      *)
(*   dirty          git shows modified or untracked files                  *)
(*   releases       release bundles on file                                *)
(*   rollback       some rollback manifest is on file                      *)
(*   proof          proof/eva_proof.json exists                            *)
(*   preflights     releases/preflight/ exists                             *)
(*                                                                         *)
(* Constant in the code, and left out: auto_promote is false, approval is  *)
(* required, and the capability policy allows nothing unsafe.              *)
(***************************************************************************)
EXTENDS CandidateQueue

View == [items : Nat, ready : Nat, cleared : Nat,
         artifacts : {"clean", "leaks", "tracked"}, dirty : BOOLEAN,
         releases : Nat, rollback : BOOLEAN, proof : BOOLEAN, preflights : BOOLEAN]

Less(score, points, condition) ==
  IF ~ condition THEN score ELSE IF points > score THEN 0 ELSE score - points

AtMost(n, limit) == IF n > limit THEN limit ELSE n

(* build_release_health: points are taken off a hundred. *)
HealthScore(v) ==
  LET blocked    == AtMost(3 * (v.items - v.ready), 30)
      score      == Less(Less(Less(Less(100 - blocked, 20, v.items = 0), 10, v.releases = 0),
                              10, ~ v.proof), 5, ~ v.preflights)
  IN IF v.artifacts # "clean" THEN AtMost(score, 40) ELSE score

Health(v) ==
  IF v.artifacts = "leaks" THEN "red"
  ELSE IF HealthScore(v) >= 80 /\ v.ready > 0 THEN "green"
  ELSE IF HealthScore(v) >= 50 THEN "yellow" ELSE "red"

(* build_preflight_gate, the second version *)
GateV2(v) ==
  IF v.artifacts # "clean" \/ Health(v) = "red" THEN "fail"
  ELSE IF v.cleared = 0 THEN "warn" ELSE "pass"

(* build_trust_decision *)
Trust(v) ==
  IF v.artifacts # "clean" \/ GateV2(v) = "fail" \/ Health(v) = "red" THEN "deny"
  ELSE IF v.cleared = 0 \/ ~ v.rollback \/ v.dirty \/ GateV2(v) = "warn" THEN "warn"
  ELSE "allow"

(* build_preflight_gate_v3 *)
GateV3(v) ==
  IF GateV2(v) = "fail" \/ Trust(v) = "deny" THEN "fail"
  ELSE IF GateV2(v) = "warn" \/ Trust(v) = "warn" THEN "warn" ELSE "pass"

(* evaluate_runtime_validation: whether there is a blocker. *)
ValidationBlocked(v) == v.artifacts # "clean" \/ GateV3(v) = "fail"

(* Mutant: the gate v3 condition is not asked. *)
ValidationStatusUngated(blocked, missing) ==
  IF blocked THEN "blocked" ELSE IF missing \ {"preflight_gate_v3_pass"} = {} THEN "green" ELSE "warn"

(* The end of apply_green_gate_details, on the conditions that are missing. *)
ValidationStatus(blocked, missing) ==
  IF blocked THEN "blocked" ELSE IF missing = {} THEN "green" ELSE "warn"

(* build_runtime_candidate_manifest; a gate that fails is not asked for here. *)
RcStatus(validation, gate, cleared) ==
  IF validation = "blocked" THEN "blocked"
  ELSE IF cleared = 0 \/ gate = "warn" \/ validation # "green" THEN "warn" ELSE "pass"
=============================================================================
