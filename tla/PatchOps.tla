------------------------------ MODULE PatchOps ------------------------------
(***************************************************************************)
(* What the patch operations of a proposal do to the files they name, one  *)
(* by one and as a list, and what a dry run foresees of them.              *)
(*                                                                         *)
(* A file is the sequence of the pieces of text written to it: a piece is  *)
(* what an operation writes or looks for.                                  *)
(***************************************************************************)
EXTENDS Naturals, Sequences, FiniteSets

CONSTANTS Path,   \* files proposals may name (validate_patch_path lets them pass)
          Text,   \* pieces of text
          NoFile  \* content of a file that does not exist

Kind == {"CreateFile", "AppendFile", "ReplaceFileIfExists", "ReplaceExactText"}
Op == [path : Path, kind : Kind, text : Text, find : Text]
Content == Seq(Text) \cup {NoFile}

PathsOf(ops) == {ops[i].path : i \in DOMAIN ops}

-----------------------------------------------------------------------------
Matches(op, content) == {i \in DOMAIN content : content[i] = op.find}

(* Why apply_proposal stops at an operation; "unreadable" is an error of the
   command, the others make a refused result. *)
Refusal(op, content) ==
  CASE op.kind = "CreateFile" /\ content # NoFile          -> "create_file_exists"
    [] op.kind = "AppendFile" /\ content = NoFile          -> "append_file_missing"
    [] op.kind = "ReplaceFileIfExists" /\ content = NoFile -> "replace_file_missing"
    [] op.kind = "ReplaceExactText" ->
         IF content = NoFile THEN "unreadable"
         ELSE IF Matches(op, content) = {} THEN "exact_text_not_found"
         ELSE IF Cardinality(Matches(op, content)) > 1 THEN "ambiguous_exact_text_match"
         ELSE "none"
    [] OTHER -> "none"

(* The content an operation that is not refused leaves. *)
After(op, content) ==
  CASE op.kind = "AppendFile"       -> Append(content, op.text)
    [] op.kind = "ReplaceExactText" ->
         [i \in DOMAIN content |-> IF content[i] = op.find THEN op.text ELSE content[i]]
    [] OTHER -> <<op.text>>

Perform(files, op) == [files EXCEPT ![op.path] = After(op, @)]

(* One operation more, unless one was refused before. *)
PerformNext(sofar, op) ==
  LET why == Refusal(op, sofar.files[op.path])
  IN IF sofar.reason # "none" THEN sofar
     ELSE IF why # "none" THEN [sofar EXCEPT !.reason = why]
     ELSE [sofar EXCEPT !.files = Perform(@, op)]

(* The operations in order, up to each of them; the first that is refused ends them. *)
PerformUpTo(files, ops) ==
  LET upTo[i \in 0 .. Len(ops)] ==
        IF i = 0 THEN [files |-> files, reason |-> "none"]
        ELSE PerformNext(upTo[i - 1], ops[i])
  IN upTo

PerformAll(files, ops) == PerformUpTo(files, ops)[Len(ops)]

-----------------------------------------------------------------------------
(* Mutant: a text that occurs twice is not foreseen as ambiguous. *)
ForeseenLenient(op, content) ==
  IF op.kind = "ReplaceExactText"
  THEN IF content = NoFile \/ Matches(op, content) = {} THEN "exact_text_not_found" ELSE "none"
  ELSE Refusal(op, content)

(* What dry_run_apply says of one operation: it reads a missing file as empty. *)
Foreseen(op, content) ==
  IF op.kind = "ReplaceExactText" /\ content = NoFile
  THEN "exact_text_not_found" ELSE Refusal(op, content)

(* Every operation is tried on the files as they are, not as the earlier ones
   would leave them. *)
DryRunBlockers(files, ops) ==
  {Foreseen(ops[i], files[ops[i].path]) : i \in DOMAIN ops} \ {"none"}

OnePerFile(ops) == \A i, j \in DOMAIN ops : ops[i].path = ops[j].path => i = j
=============================================================================
