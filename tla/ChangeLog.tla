------------------------------ MODULE ChangeLog ------------------------------
(***************************************************************************)
(* The change-type taxonomy and the projections of a session's write-ahead *)
(* change log (WAL) that both the close gate and the close itself use.     *)
(*                                                                         *)
(* A log is a set of lines.  Every line carries the number n of the ldoc   *)
(* command that wrote it; the order of n stands for the order of the lines *)
(* in the file, which sort by time.  A note is reduced to the one thing    *)
(* the gate tells apart: whether its author supplied it.                   *)
(***************************************************************************)
EXTENDS Naturals, FiniteSets

CONSTANT DocIds      \* the document ids a line may refer to

ChangeTypes ==
  {"addition", "revision", "restructure", "organizational", "deletion"}

Ops == {"new", "change", "rm"}

LogLine ==
  [n: Nat, op: Ops, ref: DocIds, types: SUBSET ChangeTypes, author: BOOLEAN]

\* The documents a log touches, in no order.
Refs(log) == {l.ref : l \in log}

\* The lines of one document.
LinesOf(log, d) == {l \in log : l.ref = d}

\* Every change type any line of the document carries.
TypesOf(log, d) == UNION {l.types : l \in LinesOf(log, d)}

\* Once a log holds a deletion of the document, it stays deleted, whatever
\* the later lines say.
Deleted(log, d) == \E l \in LinesOf(log, d) : l.op = "rm"

\* A type is filed only when no type before it in the precedence is present.
Precedence == <<"deletion", "addition", "revision", "restructure", "organizational">>

RankOf(t) == CHOOSE i \in 1..5 : Precedence[i] = t

\* The single type a document is filed under; "none" for an empty set.
Dominant(types) ==
  IF types = {} THEN "none"
  ELSE CHOOSE t \in types : \A u \in types : RankOf(t) <= RankOf(u)

\* What the close-gate reports: revised, and no author note on any line.
Gaps(log) ==
  {d \in Refs(log) : /\ "revision" \in TypesOf(log, d)
                     /\ \A l \in LinesOf(log, d) : ~l.author}

\* Mutant: documents created in the session are passed over.
ToMaterializeOldOnly(log) ==
  {d \in Refs(log) : ~Deleted(log, d) /\ "addition" \notin TypesOf(log, d)}

\* The documents whose history a close writes: touched, not deleted, and of
\* a recognizable type.
ToMaterialize(log) ==
  {d \in Refs(log) : ~Deleted(log, d) /\ Dominant(TypesOf(log, d)) # "none"}

\* d is the first of the documents in todo to appear in the log.
FirstIn(log, todo, d) ==
  /\ d \in todo
  /\ \E l \in LinesOf(log, d) :
       \A m \in log : m.ref \in todo => l.n <= m.n
=============================================================================
