-------------------------- MODULE CheckpointMemory --------------------------
(***************************************************************************)
(* What LangGraph expects of a checkpoint store: that of its own           *)
(* MemorySaver, of which agent/workflow_checkpointer.py says it is "a      *)
(* direct port".  Each call takes effect at once or not at all, and a      *)
(* reader gets the latest checkpoint with its pending writes as they were  *)
(* at one moment of the call.                                              *)
(***************************************************************************)
EXTENDS Naturals, FiniteSets

CONSTANTS Threads,   \* workflows
          Ids,       \* checkpoint ids, in the order they are made: 1 .. n
          Values,    \* of pending writes
          Callers,   \* calls under way at a time
          None,
          Whole, Corrupt  \* a checkpoint, and a row that does not decode to one

VARIABLES
  saved,     \* the checkpoint of each thread and id
  pending,   \* its pending writes, by channel
  reads,     \* the thread a caller is reading
  seen,      \* the tuples that were the latest since it began
  told       \* what it was told last

vars == <<saved, pending, reads, seen, told>>

\* WRITES_IDX_MAP: interrupts, resumes and errors have indices of their own, below 0.
Channels == {"plain", "special"}
NoWrites == [c \in Channels |-> None]

Init ==
  /\ saved = [t \in Threads |-> [i \in Ids |-> None]]
  /\ pending = [t \in Threads |-> [i \in Ids |-> NoWrites]]
  /\ reads = [c \in Callers |-> None] /\ seen = [c \in Callers |-> {}]
  /\ told = [c \in Callers |-> None]

LatestIn(rows) == LET made == {i \in Ids : rows[i] # None}
                  IN IF made = {} THEN 0 ELSE CHOOSE i \in made : \A j \in made : j <= i
\* get_tuple: nothing, an error, or a checkpoint with its writes.
TupleOf(rows, w) ==
  LET i == LatestIn(rows) IN
  IF i = 0 THEN [is |-> "none"]
  ELSE IF rows[i] = Corrupt THEN [is |-> "corrupt"]
  ELSE [is |-> "tuple", id |-> i, writes |-> w[i]]

\* A first write stays, a special one is replaced.
Kept(channel, old, new) == IF channel = "plain" /\ old # None THEN old ELSE new

\* Everybody who reads the thread may be told what is there now.
Watched == seen' = [c \in Callers |->
  IF reads[c] = None THEN {} ELSE seen[c] \cup {TupleOf(saved'[reads[c]], pending'[reads[c]])}]
Changes == Watched /\ UNCHANGED <<reads, told>>

Put(t, i, x) == /\ saved' = [saved EXCEPT ![t][i] = x]
                /\ UNCHANGED pending /\ Changes
PutWrites(t, i, w) ==
  /\ pending' = [pending EXCEPT ![t][i] = [c \in Channels |->
       IF w[c] = None THEN @[c] ELSE Kept(c, @[c], w[c])]]
  /\ UNCHANGED saved /\ Changes
Delete(t) == /\ saved' = [saved EXCEPT ![t] = [i \in Ids |-> None]]
             /\ pending' = [pending EXCEPT ![t] = [i \in Ids |-> NoWrites]]
             /\ Changes

Begin(c, t) ==
  /\ reads' = [reads EXCEPT ![c] = t] /\ seen' = [seen EXCEPT ![c] = {TupleOf(saved[t], pending[t])}]
  /\ told' = [told EXCEPT ![c] = None] /\ UNCHANGED <<saved, pending>>
Answer(c) ==
  /\ \/ \E x \in seen[c] : told' = [told EXCEPT ![c] = x]
     \/ reads[c] # None /\ told' = [told EXCEPT ![c] = [is |-> "error"]]
  /\ reads' = [reads EXCEPT ![c] = None] /\ seen' = [seen EXCEPT ![c] = {}]
  /\ UNCHANGED <<saved, pending>>

WriteSets == [Channels -> Values \cup {None}]
Next ==
  \/ \E t \in Threads : \/ \E i \in Ids : \/ \E x \in {Whole, Corrupt} : Put(t, i, x)
                                          \/ \E w \in WriteSets : PutWrites(t, i, w)
                        \/ Delete(t)
                        \/ \E c \in Callers : Begin(c, t)
  \/ \E c \in Callers : Answer(c)

Spec == Init /\ [][Next]_vars
=============================================================================
