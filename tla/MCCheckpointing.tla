--------------------------- MODULE MCCheckpointing ---------------------------
(***************************************************************************)
(* The engine and the store it keeps its checkpoints in, each against its  *)
(* abstract specification.  The engine sees its store as a map that is     *)
(* written at once (MemorySaver), which is what CheckpointStore is shown   *)
(* to be, so that `part` says which of the two moves.                      *)
(***************************************************************************)
EXTENDS WorkflowProperties

CONSTANTS Parts
VARIABLE part

CONSTANTS Stored, MaxIds, WriteValues, Callers, Whole, Corrupt, MaxChanges
VARIABLES store_rows, store_writes, store_call, store_seen, store_told, store_changes
storing == <<store_rows, store_writes, store_call, store_seen, store_told, store_changes>>

Store == INSTANCE CheckpointStore WITH
  Threads <- Stored, Values <- WriteValues, rows <- store_rows,
  writes <- store_writes, call <- store_call, seen <- store_seen, told <- store_told,
  changes <- store_changes

ASSUME StoredAssumption == Store!StoreAssumption

CheckpointingInit == part \in Parts /\ Init /\ Store!Init
CheckpointingNext ==
  \/ part = "engine" /\ Next /\ UNCHANGED <<part, storing>>
  \/ part = "store" /\ Store!Next /\ UNCHANGED <<part, vars>>
CheckpointingSpec == CheckpointingInit /\ [][CheckpointingNext]_<<part, vars, storing>>

\* The checkpoint store behaves as the MemorySaver it is a port of
\* (workflow_checkpointer.PostgresWorkflowCheckpointer).
IsMemorySaver == Store!IsMemorySaver
=============================================================================
