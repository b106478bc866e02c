--------------------------- MODULE PluginStorage ---------------------------
(***************************************************************************)
(* The storage of one plugin (plugins/storage.ts): JSON files in a data    *)
(* directory beside the directory of its code, and their migration from    *)
(* the legacy place inside it, before the first access and before an       *)
(* installer replaces or removes the code (plugins/install.ts).            *)
(*                                                                         *)
(* The operations on a directory are serialized, so one is under way at a  *)
(* time; each step of it may fail, and the process may be killed between   *)
(* any two.  A value is a number: 0 stands for no file, Bad for one that   *)
(* is not JSON.  Writing a file is one step: the rename that publishes it. *)
(***************************************************************************)
EXTENDS Naturals

CONSTANTS Keys, MaxValue

VARIABLES
  legacy,   \* the legacy files in the directory of the code
  files,    \* the files in the data directory
  marker,   \* is the .migrated marker there?
  op,       \* the operation under way
  expected  \* history: what the plugin stored, and has not deleted

vars == <<legacy, files, marker, op, expected>>

Values == 1..MaxValue
Bad == MaxValue + 1
Idle == [kind |-> "none", key |-> CHOOSE k \in Keys : TRUE, value |-> 0, at |-> "idle", todo |-> {}]

-----------------------------------------------------------------------------
\* operation, of a read, a write or a deletion (a write of undefined, value 0), or
\* an installer that is to replace or to remove the code.
Call(kind, k, v) ==
  /\ op.at = "idle"
  /\ kind # "write" => v = 0
  /\ op' = [Idle EXCEPT !.kind = kind, !.key = k, !.value = v, !.at = "initializing"]
  /\ UNCHANGED <<legacy, files, marker, expected>>

\* Defect: an installer replaces the code without a migration.
MutInitialize ==
  /\ op.at = "initializing"
  /\ op' = IF marker \/ op.kind = "replace" THEN [op EXCEPT !.at = "acting"]
           ELSE IF \E k \in Keys : legacy[k] = Bad THEN Idle
           ELSE [op EXCEPT !.at = "publishing", !.todo = {k \in Keys : legacy[k] # 0}]
  /\ UNCHANGED <<legacy, files, marker, expected>>

\* initialize: nothing when the marker is there; every legacy file is read, and
\* must be valid, before the first is published.
Initialize ==
  /\ op.at = "initializing"
  /\ op' = IF marker THEN [op EXCEPT !.at = "acting"]
           ELSE IF \E k \in Keys : legacy[k] = Bad THEN Idle
           ELSE [op EXCEPT !.at = "publishing", !.todo = {k \in Keys : legacy[k] # 0}]
  /\ UNCHANGED <<legacy, files, marker, expected>>

\* A link: what is there already stays.
Publish(k) ==
  /\ op.at = "publishing" /\ k \in op.todo
  /\ files' = [files EXCEPT ![k] = IF @ = 0 THEN legacy[k] ELSE @]
  /\ op' = [op EXCEPT !.todo = @ \ {k}]
  /\ UNCHANGED <<legacy, marker, expected>>

Mark ==
  /\ op.at = "publishing" /\ op.todo = {}
  /\ marker' = TRUE
  /\ op' = [op EXCEPT !.at = "acting"]
  /\ UNCHANGED <<legacy, files, expected>>

\* readStorage gives the plugin what the file holds.
Read ==
  /\ op.at = "acting" /\ op.kind = "read"
  /\ op' = Idle
  /\ UNCHANGED <<legacy, files, marker, expected>>

\* writeStorage and deleteStorage.
Write ==
  /\ op.at = "acting" /\ op.kind = "write"
  /\ files' = [files EXCEPT ![op.key] = op.value]
  /\ expected' = [expected EXCEPT ![op.key] = op.value]
  /\ op' = Idle
  /\ UNCHANGED <<legacy, marker>>

\* The installer moves the directory of the code away, with what is in it.
Replace ==
  /\ op.at = "acting" /\ op.kind = "replace"
  /\ legacy' = [k \in Keys |-> 0]
  /\ op' = Idle
  /\ UNCHANGED <<files, marker, expected>>

\* A step fails, or the process is killed; the installer moves the old code back.
Stop ==
  /\ op.at # "idle"
  /\ op' = Idle
  /\ UNCHANGED <<legacy, files, marker, expected>>

\* The user repairs a legacy file.
Repair(k, v) ==
  /\ legacy[k] = Bad
  /\ legacy' = [legacy EXCEPT ![k] = v]
  /\ expected' = IF files[k] = 0 /\ ~marker THEN [expected EXCEPT ![k] = v] ELSE expected
  /\ UNCHANGED <<files, marker, op>>

-----------------------------------------------------------------------------
\* A version without a data directory stored the values; an attempt to migrate
\* them may have been interrupted.
Init ==
  /\ legacy \in [Keys -> 0..Bad]
  /\ files \in [Keys -> 0..MaxValue]
  /\ marker = FALSE
  /\ op = Idle
  /\ expected = [k \in Keys |-> IF files[k] # 0 THEN files[k] ELSE legacy[k]]

Next ==
  \/ \E kind \in {"read", "write", "replace"}, k \in Keys, v \in 0..MaxValue : Call(kind, k, v)
  \/ Initialize \/ Mark \/ Read \/ Write \/ Replace \/ Stop
  \/ \E k \in Keys : Publish(k) \/ \E v \in Values : Repair(k, v)

Spec == Init /\ [][Next]_vars

-----------------------------------------------------------------------------
(* Properties.                                                             *)

TypeOK ==
  /\ legacy \in [Keys -> 0..Bad] /\ files \in [Keys -> 0..MaxValue]
  /\ marker \in BOOLEAN /\ expected \in [Keys -> 0..Bad]
  /\ op.key \in Keys /\ op.value \in 0..MaxValue /\ op.todo \subseteq Keys

\* docs/plugins.md:659, "Migration preserves existing destination values, is
\* retryable": what a plugin stored is found by its next read, and what it deleted
\* is not, whichever migrations were interrupted and whenever its code was replaced.
StorageSurvives ==
  \A k \in Keys :
    expected[k] = IF marker \/ files[k] # 0 THEN files[k] ELSE legacy[k]

=============================================================================
