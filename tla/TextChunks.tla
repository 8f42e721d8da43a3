----------------------------- MODULE TextChunks -----------------------------
(***************************************************************************)
(* How agent/rag_index.py and agent/backend_rag_index.py cut a text into   *)
(* chunks: windows that overlap, the members of a Java class, the sections *)
(* of a Markdown text, and windows again within a chunk that is too large. *)
(*                                                                         *)
(* A line is what the chunkers look at: whether it is blank, declares a    *)
(* class, ends a statement, is a lone brace or a heading, and how many     *)
(* braces it opens less those it closes.                                   *)
(***************************************************************************)
EXTENDS Integers, Sequences, FiniteSets

CONSTANTS MaxLines,      \* bound: lines of a text
          Size, Overlap, \* CHUNK_LINES and CHUNK_OVERLAP, SUB_WINDOW_*
          Large          \* MAX_CHUNK_LINES

ChunksAssumption ==
  MaxLines \in Nat /\ Overlap \in Nat /\ Size \in Nat /\ Size > Overlap /\ Large \in Nat

VARIABLE lines \* the text so far

Kinds == {"blank", "class", "open", "close", "brace", "statement", "word", "heading"}
Delta == [k \in Kinds |-> IF k \in {"class", "open"} THEN 1
                          ELSE IF k \in {"close", "brace"} THEN -1 ELSE 0]

Init == lines = <<>>
Next == Len(lines) < MaxLines /\ \E k \in Kinds : lines' = Append(lines, k)
Spec == Init /\ [][Next]_lines

\* The line numbers of a chunk's text.  strip() takes the blank lines off both ends;
\* a chunk of nothing else is left out.
Solid(range) == {i \in range : lines[i] # "blank"}
Strip(range) == {i \in range : \E a, b \in Solid(range) : a <= i /\ i <= b}
Chunks(ranges) == {Strip(r) : r \in ranges} \ {{}}

-----------------------------------------------------------------------------
(* Windows *)

Step == Size - Overlap

\* _chunk_text, and the loop of _sub_split_if_large: the first window that reaches
\* the end is the last.
Windows(n) == {i..(IF i + Size - 1 < n THEN i + Size - 1 ELSE n) :
                 i \in {j \in 1..n : (j - 1) % Step = 0 /\ (j = 1 \/ j - 1 - Step + Size < n)}}

\* _sub_split_if_large, over the text of a chunk.
SubSplit(chunk) ==
  IF Cardinality(chunk) <= Large THEN {chunk}
  ELSE LET at == CHOOSE k \in chunk : \A i \in chunk : k <= i
       IN Chunks({{at + i - 1 : i \in w} : w \in Windows(Cardinality(chunk))})

-----------------------------------------------------------------------------
(* _chunk_markdown: a section begins at its heading *)

Starts == {1} \cup {i \in DOMAIN lines : lines[i] = "heading"}
Section(i) == {j \in DOMAIN lines : i <= j /\ \A k \in Starts : k > i => j < k}
Markdown == Chunks({Section(i) : i \in Starts})

-----------------------------------------------------------------------------
(* _chunk_java: the header up to the class, then member after member *)

\* The depth of braces before and after a member that begins at line i, the way the
\* code counts: the lines between members are not counted.
Header == {i \in DOMAIN lines : lines[i] = "class"}
HeaderEnd == CHOOSE i \in Header : \A j \in Header : i <= j

\* The state of the scan after each line: the member that is open (its first line, 0
\* for none), whether its braces were open, and the depth above the class body.
Scanned == [from |-> 0, exceeded |-> FALSE, depth |-> 0, members |-> {}]

Ended(s, k) == \/ s.exceeded /\ s.depth <= 0
               \/ ~s.exceeded /\ s.depth = 0 /\ k = "statement"

Scan(s, i) ==
  IF s.from = 0 /\ lines[i] \in {"blank", "brace"} THEN s
  ELSE LET from  == IF s.from = 0 THEN i ELSE s.from
           depth == s.depth + Delta[lines[i]]
           now   == [from |-> from, depth |-> depth, members |-> s.members,
                     exceeded |-> (s.from # 0 /\ s.exceeded) \/ depth > 0]
       IN IF Ended(now, lines[i])
            THEN [now EXCEPT !.from = 0, !.members = @ \cup {from..i}] ELSE now

Body ==
  LET after[i \in HeaderEnd..Len(lines)] ==
        IF i = HeaderEnd THEN Scanned ELSE Scan(after[i - 1], i)
  IN after[Len(lines)]

\* Mutant: a member that is still open at the end is dropped.
Dropped(s) == s.members
Flushed(s) == IF s.from = 0 THEN s.members ELSE s.members \cup {s.from..Len(lines)}

Java == IF Header = {} THEN Chunks({DOMAIN lines})
        ELSE Chunks({1..HeaderEnd} \cup Flushed(Body))

-----------------------------------------------------------------------------
(* Properties *)

Covered(chunks) == UNION chunks
Partition(chunks) == \A c, d \in chunks : c = d \/ c \cap d = {}

\* However a text is cut, no line the cutter was given is lost to the search (read_file
\* gives rag_index the first 20,000 characters of a file and a line that says so,
\* backend_rag_index reads it whole): every line that is not
\* blank is in a window; in a section of a Markdown text; and, but for lone braces
\* between members, in the header or a member of a Java class, whose braces may be
\* out of balance.  Sections and members do not overlap, before and after the large
\* ones are cut again (chunk_document).
NoLineIsLost ==
  /\ Solid(DOMAIN lines) \subseteq Covered(Chunks(Windows(Len(lines))))
  /\ Partition(Markdown) /\ Partition(Java)
  /\ Solid(DOMAIN lines) \subseteq Covered(UNION {SubSplit(c) : c \in Markdown})
  /\ {i \in DOMAIN lines : lines[i] \notin {"blank", "brace"}}
       \subseteq Covered(UNION {SubSplit(c) : c \in Java})
=============================================================================
