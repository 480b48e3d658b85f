---------------------------- MODULE SourceMirror ----------------------------
(***************************************************************************)
(* What the indexer of knowledge-base-api promises a reader of its index,  *)
(* with no word of pods, locks or run phases.                              *)
(*                                                                         *)
(* The source is a branch: a sequence of trees, each giving every path its *)
(* content or Absent.  The index is a copy of it, brought up to date a few *)
(* paths at a time, so a reader may see paths of two commits side by side; *)
(* but the cursor names a commit only once the whole index agrees with it. *)
(***************************************************************************)
EXTENDS Naturals, Sequences

CONSTANTS Paths,        \* document paths of one knowledge base
          Contents,     \* what a document may hold
          Unstorable,   \* contents Postgres refuses (a NUL byte): never copied
          Absent        \* the path holds no document

VARIABLES history,      \* the branch: history[c] is the tree of commit c
          docs,         \* the documents table: path -> content or Absent
          cursor        \* the commit the index claims, 0 when never indexed

mirrorVars == <<history, docs, cursor>>

Trees == [Paths -> Contents \cup {Absent}]

\* The index agrees with commit c on path x.  An unstorable content is no
\* content the index can hold, so whatever it kept there is not a disagreement.
Agrees(x, c) == history[c][x] \in Unstorable \/ docs[x] = history[c][x]

MirrorInit ==
  /\ history \in {<<t>> : t \in Trees}
  /\ docs = [x \in Paths |-> Absent]
  /\ cursor = 0

\* The branch moves; the index does not.
Publish ==
  /\ \E t \in Trees : history' = Append(history, t)
  /\ UNCHANGED <<docs, cursor>>

\* Some paths take their content of one commit the cursor has not passed.
Copy ==
  /\ \E c \in 1..Len(history) :
       /\ c >= cursor
       /\ \E S \in SUBSET {x \in Paths : history[c][x] \notin Unstorable} :
            docs' = [x \in Paths |-> IF x \in S THEN history[c][x] ELSE docs[x]]
  /\ UNCHANGED <<history, cursor>>

\* The cursor moves, never backwards, and only over an index that agrees.
Advance ==
  /\ \E c \in 1..Len(history) :
       /\ c >= cursor
       /\ \A x \in Paths : Agrees(x, c)
       /\ cursor' = c
  /\ UNCHANGED <<history, docs>>

MirrorNext == Publish \/ Copy \/ Advance

MirrorSpec == MirrorInit /\ [][MirrorNext]_mirrorVars
=============================================================================
