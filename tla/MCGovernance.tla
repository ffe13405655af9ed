---------------------------- MODULE MCGovernance ----------------------------
(* Small instances of Governance for TLC. *)
EXTENDS GovernanceLedger, TLC

CONSTANTS c1, c2, d1, f1

Stored(digest, class) == [digest |-> digest, class |-> class, flags |-> {"useful_change"}]

(* Two candidates of one mutation, the second from before reports told the class, so
   that only --promote takes it; one candidate. *)
SameDigest == [c \in {c1, c2} |-> Stored(d1, IF c = c1 THEN "useful" ELSE "legacy")]
OneUseful  == [c \in {c1} |-> Stored(d1, "useful")]

OneFile == [d \in Digest |-> f1]
OneTest == [d \in Digest |-> {d}]
=============================================================================
