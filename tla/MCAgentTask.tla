---------------------------- MODULE MCAgentTask -----------------------------
(* Small instances of AgentTask for TLC. *)
EXTENDS AgentTask, TLC

CONSTANTS t1, x1, x2, f, g, a, b

Operators == Permutations(Proc)

Create(file, text)    == [path |-> file, kind |-> "CreateFile", text |-> text, find |-> text]
AppendTo(file, text)  == [path |-> file, kind |-> "AppendFile", text |-> text, find |-> text]
Exact(file, old, new) == [path |-> file, kind |-> "ReplaceExactText", text |-> new, find |-> old]

(* A proposal that appends and then creates, and one that edits what was appended. *)
TwoProposals == x1 :> <<AppendTo(f, a), Create(g, b)>> @@ x2 :> <<Exact(f, a, b)>>
OneProposal  == x1 :> <<AppendTo(f, a), Create(g, b)>>
OneFileExists == f :> <<a>> @@ g :> NoFile
=============================================================================
