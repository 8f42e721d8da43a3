--------------------------- MODULE CheckpointStore ---------------------------
(***************************************************************************)
(* PostgresWorkflowCheckpointer (agent/workflow_checkpointer.py): every    *)
(* call opens a connection, runs its statements in one transaction (READ   *)
(* COMMITTED) and closes it; a connection may break, also after the commit.*)
(* One request at a time works on a workflow (_WORKFLOW_LOCK of            *)
(* agent/web_server.py), while describe_workflow reads beside it.          *)
(***************************************************************************)
EXTENDS Naturals, FiniteSets

CONSTANTS Threads, Values, Callers, None, Whole, Corrupt,
          MaxIds,      \* bound: checkpoints of a thread
          MaxChanges   \* bound: transactions that write

Ids == 1..MaxIds

\* WRITES_IDX_MAP: interrupts, resumes and errors have indices of their own, below 0.
Channels == {"plain", "special"}
WriteSets == [Channels -> Values \cup {None}]
\* A transaction that is open: an upsert, inserts of writes, or a read.
Calls == [op : {"put"}, thread : Threads, id : Ids]
         \cup [op : {"writes"}, thread : Threads, id : Ids, left : WriteSets, own : WriteSets]
         \cup [op : {"get"}, thread : Threads, row : 0..MaxIds]

StoreAssumption ==
  /\ MaxIds \in Nat /\ None \notin Values \cup {Whole, Corrupt} /\ Whole # Corrupt
  /\ None \notin Threads /\ None \notin Calls /\ MaxChanges \in Nat

VARIABLES
  rows,      \* workflow_checkpoints: thread, checkpoint_id -> checkpoint
  writes,    \* workflow_checkpoint_writes: thread, checkpoint_id, idx -> blob
  call,      \* the transaction of each caller
  seen,      \* of a reader: the tuples that were the latest since it began
  told,      \* what a caller was told last
  changes    \* transactions that wrote, so far

vars == <<rows, writes, call, seen, told, changes>>

Abstract == INSTANCE CheckpointMemory WITH
  saved <- rows, pending <- writes,
  reads <- [c \in Callers |-> IF call[c] # None /\ call[c].op = "get" THEN call[c].thread ELSE None]
Latest(t) == Abstract!LatestIn(rows[t])

Init ==
  /\ rows = [t \in Threads |-> [i \in Ids |-> None]]
  /\ writes = [t \in Threads |-> [i \in Ids |-> Abstract!NoWrites]]
  /\ call = [c \in Callers |-> None] /\ seen = [c \in Callers |-> {}]
  /\ told = [c \in Callers |-> None] /\ changes = 0

Watched == seen' = [c \in Callers |->
  IF call'[c] = None \/ call'[c].op # "get" THEN {}
  ELSE seen[c] \cup {Abstract!TupleOf(rows'[call'[c].thread], writes'[call'[c].thread])}]
Idle(c) == call[c] = None
Busy(t) == \E c \in Callers : call[c] # None /\ call[c].op # "get" /\ call[c].thread = t
Opens(c, x) == Idle(c) /\ call' = [call EXCEPT ![c] = x]
Changes(t) == ~Busy(t) /\ changes < MaxChanges /\ changes' = changes + 1
Closes(c) == call' = [call EXCEPT ![c] = None]
Tells(c, answer) == Closes(c) /\ told' = [told EXCEPT ![c] = answer]

-----------------------------------------------------------------------------
(* put: one INSERT ... ON CONFLICT DO UPDATE *)

\* Ids grow; the same checkpoint may be put again after an answer that got lost.
Put(c, t, i) ==
  /\ Changes(t) /\ i \in {Latest(t), Latest(t) + 1} \cap Ids /\ rows[t][i] # Corrupt
  /\ Opens(c, [op |-> "put", thread |-> t, id |-> i])
  /\ UNCHANGED <<rows, writes, told>> /\ Watched

CommitPut(c) ==
  /\ ~Idle(c) /\ call[c].op = "put"
  /\ rows' = [rows EXCEPT ![call[c].thread][call[c].id] = Whole]
  /\ Closes(c) /\ UNCHANGED <<writes, told, changes>> /\ Watched

-----------------------------------------------------------------------------
(* put_writes: an INSERT for each channel, then the commit *)

PutWrites(c, t, w) ==
  /\ Changes(t) /\ Latest(t) # 0
  /\ Opens(c, [op |-> "writes", thread |-> t, id |-> Latest(t), left |-> w,
               own |-> writes[t][Latest(t)]])
  /\ UNCHANGED <<rows, writes, told>> /\ Watched

\* Mutant: every conflict is an update, as the one of put is.
Replaced(channel, old, new) == new
\* ON CONFLICT: DO UPDATE for an index below zero, else DO NOTHING.
Inserted(channel, old, new) == IF channel = "special" \/ old = None THEN new ELSE old

Insert(c, channel) ==
  /\ ~Idle(c) /\ call[c].op = "writes" /\ call[c].left[channel] # None
  /\ call' = [call EXCEPT
       ![c].own[channel] = Inserted(channel, @, call[c].left[channel]),
       ![c].left[channel] = None]
  /\ UNCHANGED <<rows, writes, told, changes>> /\ Watched

CommitWrites(c) ==
  /\ ~Idle(c) /\ call[c].op = "writes" /\ call[c].left = Abstract!NoWrites
  /\ writes' = [writes EXCEPT ![call[c].thread][call[c].id] = call[c].own]
  /\ Closes(c) /\ UNCHANGED <<rows, told, changes>> /\ Watched

-----------------------------------------------------------------------------
(* get_tuple: the latest row, then its writes *)

Get(c, t) ==
  /\ Opens(c, [op |-> "get", thread |-> t, row |-> 0]) /\ told' = [told EXCEPT ![c] = None]
  /\ UNCHANGED <<rows, writes, changes>> /\ Watched

Unread(c) == ~Idle(c) /\ call[c].op = "get" /\ call[c].row = 0

\* No row, or one that does not decode to a checkpoint: the call ends here.
ReadNone(c) ==
  /\ Unread(c)
  /\ LET x == Abstract!TupleOf(rows[call[c].thread], writes[call[c].thread])
     IN x.is # "tuple" /\ Tells(c, x)
  /\ UNCHANGED <<rows, writes, changes>> /\ Watched

ReadRow(c) ==
  /\ Unread(c)
  /\ LET t == call[c].thread  i == Latest(t) IN
       /\ i # 0 /\ rows[t][i] # Corrupt
       /\ call' = [call EXCEPT ![c].row = i]
  /\ UNCHANGED <<rows, writes, told, changes>> /\ Watched

RowId(c) == call[c].row

ReadWrites(c) ==
  /\ ~Idle(c) /\ call[c].op = "get" /\ call[c].row # 0
  /\ Tells(c, [is |-> "tuple", id |-> call[c].row,
               writes |-> writes[call[c].thread][RowId(c)]])
  /\ UNCHANGED <<rows, writes, changes>> /\ Watched

-----------------------------------------------------------------------------
(* Around the calls *)

\* delete_thread, both tables in one transaction; only of a workflow nobody works on.
DeleteThread(t) ==
  /\ Changes(t)
  /\ rows' = [rows EXCEPT ![t] = [i \in Ids |-> None]]
  /\ writes' = [writes EXCEPT ![t] = [i \in Ids |-> Abstract!NoWrites]]
  /\ \A c \in Callers : call[c] # None => call[c].thread # t
  /\ UNCHANGED <<call, told>> /\ Watched

\* The connection breaks, or the process dies: nothing of the transaction stays.
Break(c) ==
  /\ ~Idle(c)
  /\ IF call[c].op = "get" THEN Tells(c, [is |-> "error"]) ELSE Closes(c) /\ UNCHANGED told
  /\ UNCHANGED <<rows, writes, changes>> /\ Watched

\* Damage on the disk of the database, while nobody works with it.
Damage(t) ==
  /\ Latest(t) # 0 /\ call = [c \in Callers |-> None]
  /\ rows' = [rows EXCEPT ![t][Latest(t)] = Corrupt]
  /\ UNCHANGED <<writes, call, told, changes>> /\ Watched

Next ==
  \/ \E c \in Callers :
       \/ \E t \in Threads :
            \/ \E i \in Ids : Put(c, t, i)
            \/ \E w \in WriteSets : PutWrites(c, t, w)
            \/ Get(c, t)
       \/ CommitPut(c) \/ (\E channel \in Channels : Insert(c, channel)) \/ CommitWrites(c)
       \/ ReadNone(c) \/ ReadRow(c) \/ ReadWrites(c) \/ Break(c)
  \/ \E t \in Threads : DeleteThread(t) \/ Damage(t)

Spec == Init /\ [][Next]_vars

-----------------------------------------------------------------------------
\* The store keeps the promise of the MemorySaver it is a port of: calls take effect
\* whole or not at all, a plain write is never replaced and a special one always, and
\* a reader beside the writer gets a checkpoint with its own writes, as they were at
\* one moment (agent/workflow_checkpointer.py, "a direct port").
IsMemorySaver == Abstract!Spec
=============================================================================
