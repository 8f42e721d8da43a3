----------------------------- MODULE CodeIndex -----------------------------
(***************************************************************************)
(* The index over the repository's text: built incrementally by a command  *)
(* (agent/rag_index.py; agent/backend_rag_index.py in the same way over a  *)
(* curated list), kept in one file, loaded once by the server and searched *)
(* (agent/ask_codebase.py).  TextChunks models how a text is cut.          *)
(*                                                                         *)
(* People edit the repository, another embedding model is configured and   *)
(* another chunking deployed; the command may die at any moment.           *)
(***************************************************************************)
EXTENDS Naturals, FiniteSets

CONSTANTS Docs, Models, Chunkings,
          MaxVersion, \* bound: versions of a document
          MaxBuilds,  \* bound: runs of the command
          None

IndexAssumption ==
  /\ IsFiniteSet(Docs) /\ Docs # {} /\ MaxVersion \in Nat /\ MaxBuilds \in Nat
  /\ None \notin Docs \cup Models \cup Chunkings

VARIABLES
  repo,    \* the version of each document, 0 when there is no such file
  setup,   \* the embedding model and the chunking in force
  disk,    \* the index file: None, Torn or an index
  step,    \* where the command is
  old,     \* the index it started from, None for a full rebuild
  build,   \* the index it is building
  left,    \* documents it has not read
  builds,  \* runs so far
  loaded,  \* _loaded_index of the server
  answer   \* what the last search gave

command == <<step, old, build, left, builds>>
vars == <<repo, setup, disk, command, loaded, answer>>

\* The chunks of a version: a longer text has one more, so a chunk id (path and
\* lines, or path and symbol) of one version may be that of another.
ChunkIds(d, v) == {[doc |-> d, part |-> i] : i \in 1..v}
Embedded(v, s) == [version |-> v, by |-> s]

\* An index: its model and chunking, a hash and the chunk ids per document, the
\* chunks themselves; `of` is history: the versions its run has read.
Empty == [setup |-> setup, docs |-> <<>>, chunks |-> <<>>, of |-> <<>>]
Torn  == [setup |-> None, docs |-> <<>>, chunks |-> <<>>, of |-> <<>>]  \* half a file

Init ==
  /\ repo = [d \in Docs |-> 1]
  /\ setup = CHOOSE s \in [model : Models, chunking : Chunkings] : TRUE
  /\ disk = None /\ step = "idle" /\ old = None /\ build = None /\ left = {}
  /\ builds = 0 /\ loaded = None /\ answer = None

Put(f, x, y) == [i \in DOMAIN f \cup {x} |-> IF i = x THEN y ELSE f[i]]

-----------------------------------------------------------------------------
(* build_index *)

\* Mutant: a change of the chunking keeps what the old chunking cut.
SameModel(index) == index.setup.model = setup.model
Compatible(index) == index.setup = setup

\* _load_raw_index: a file that cannot be parsed counts as none.  A full rebuild may
\* be asked for.
Begin ==
  /\ step = "idle" /\ builds < MaxBuilds /\ builds' = builds + 1
  /\ step' = "reading" /\ build' = Empty
  /\ \/ old' = None
     \/ /\ disk \notin {None, Torn} /\ Compatible(disk) /\ old' = disk
  \* _indexable_files: what is there now, or every document of the curated list.
  /\ left' = {d \in Docs : repo[d] # 0}
  /\ UNCHANGED <<repo, setup, disk, loaded, answer>>

\* Mutant: a document that was indexed before is taken over.
Known(d) == d \in DOMAIN old.docs
Unchanged(d) == d \in DOMAIN old.docs /\ old.docs[d].hash = repo[d]

\* The text is read (redacted, and hashed): an unchanged document keeps its entry and
\* the vectors of its chunks, any other is cut and embedded again.
Read(d) ==
  /\ step = "reading" /\ d \in left /\ repo[d] # 0
  /\ left' = left \ {d}
  /\ LET reused == old # None /\ Unchanged(d)
         entry  == IF reused THEN old.docs[d] ELSE [hash |-> repo[d], ids |-> ChunkIds(d, repo[d])]
         mine   == [c \in (entry.ids \cap IF reused THEN DOMAIN old.chunks ELSE entry.ids) |->
                      IF reused THEN old.chunks[c] ELSE Embedded(repo[d], setup)]
     IN build' = [build EXCEPT !.docs = Put(@, d, entry), !.of = Put(@, d, repo[d]),
                    !.chunks = [c \in DOMAIN @ \cup DOMAIN mine |->
                                  IF c \in DOMAIN mine THEN mine[c] ELSE @[c]]]
  /\ UNCHANGED <<repo, setup, disk, step, old, builds, loaded, answer>>

\* read_file of a file that is gone by now, an embedding provider out of reach, or
\* no chunk at all: the command ends, the file stays as it was.
Fail ==
  /\ step = "reading"
  /\ step' = "idle" /\ old' = None /\ build' = None /\ left' = {}
  /\ UNCHANGED <<repo, setup, disk, builds, loaded, answer>>

\* INDEX_PATH.write_text: the file is emptied and written; a death in between
\* leaves half of it.
Truncate ==
  /\ step = "reading" /\ left = {} /\ build.chunks # <<>>
  /\ step' = "writing" /\ disk' = Torn
  /\ UNCHANGED <<repo, setup, old, build, left, builds, loaded, answer>>

Write ==
  /\ step = "writing" /\ disk' = build
  /\ step' = "idle" /\ old' = None /\ build' = None
  /\ UNCHANGED <<repo, setup, left, builds, loaded, answer>>

Die ==
  /\ step = "writing" /\ step' = "idle" /\ old' = None /\ build' = None
  /\ UNCHANGED <<repo, setup, disk, left, builds, loaded, answer>>

-----------------------------------------------------------------------------
(* The server: semantic_search, and ask on top of it *)

\* _load_index: once, from what the file is then.
Index == IF loaded # None THEN loaded ELSE IF disk = Torn THEN None ELSE disk

\* No index, or one of another model: RuntimeError, which ask reports.  Else the
\* best chunks are given; their scores decide how they are announced.
Search ==
  /\ loaded' = Index
  /\ IF Index = None \/ Index.setup.model # setup.model
       THEN answer' = "INDEX_UNAVAILABLE"
       ELSE answer' \in {"STRONG_EVIDENCE", "WEAK_EVIDENCE"}
  /\ UNCHANGED <<repo, setup, disk, command>>

Restart == /\ loaded # None /\ loaded' = None /\ answer' = None
           /\ UNCHANGED <<repo, setup, disk, command>>

-----------------------------------------------------------------------------
(* The repository, the deployment *)

Edit(d) == /\ \E v \in 0..MaxVersion : repo' = [repo EXCEPT ![d] = v]
           /\ UNCHANGED <<setup, disk, command, loaded, answer>>

\* A process takes its model and chunking when it starts.
Reconfigure == /\ step = "idle" /\ loaded = None
               /\ setup' \in [model : Models, chunking : Chunkings]
               /\ UNCHANGED <<repo, disk, command, loaded, answer>>

Next == \/ Begin \/ Fail \/ Truncate \/ Write \/ Die \/ Search \/ Restart \/ Reconfigure
        \/ \E d \in Docs : Read(d) \/ Edit(d)
Spec == Init /\ [][Next]_vars

-----------------------------------------------------------------------------
(* Properties *)

\* Whatever was reused, from whichever earlier runs, an index that is written is the
\* one a full rebuild would have made of the texts its run has read, and what the
\* server searches is such an index: every chunk of those texts is there and no
\* other, cut and embedded by the setup the index names (rag_index.py: "Incremental
\* by design").
IsFull(index) ==
  index.chunks = [c \in UNION {ChunkIds(d, index.of[d]) : d \in DOMAIN index.of} |->
                    Embedded(index.of[c.doc], index.setup)]
IncrementalIsFull ==
  /\ disk \notin {None, Torn} => IsFull(disk)
  /\ loaded # None => IsFull(loaded)
=============================================================================
