------------------------------ MODULE TreeReads ------------------------------
(***************************************************************************)
(* What is read off the belongs_to edges of a set of documents: validate's *)
(* search for cycles, and the orphans and the map of the knowledge base.   *)
(* docs is the documents as loaded: present, archived or not, belongs_to.  *)
(***************************************************************************)
EXTENDS DocRules, Integers, SequencesExt

Present(docs) == {d \in DOMAIN docs : docs[d].present}

\* The parents that resolve, and the children.
Parents(docs, d) == {p \in docs[d].belongs_to : p \in Present(docs)}
Children(docs, d) == {k \in Present(docs) : d \in docs[k].belongs_to}

-----------------------------------------------------------------------------
(* find_cycles: a depth-first search, from the documents in order of id.   *)
(* left: the parents not followed yet; black: done with; found: cycles.    *)

Search(docs) ==
  [path |-> <<>>, left |-> [d \in DOMAIN docs |-> Parents(docs, d)],
   black |-> {}, found |-> {}]

\* From x along the path, x being on it.
CycleAt(path, x) ==
  SubSeq(path, CHOOSE i \in DOMAIN path : path[i] = x, Len(path))

\* Cycles of the same documents are one.
Reported(found, cycle) ==
  IF \E c \in found : ToSet(c) = ToSet(cycle) THEN found ELSE found \cup {cycle}

\* Mutant: any document met before closes a cycle.
FollowMet(s, x) ==
  IF x \in ToSet(s.path) \cup s.black
  THEN [s EXCEPT !.found = Reported(@, Append(s.path, x))]
  ELSE [s EXCEPT !.path = Append(@, x)]

\* A parent on the path closes a cycle, a new one is gone into.
Follow(s, x) ==
  CASE x \in ToSet(s.path) -> [s EXCEPT !.found = Reported(@, CycleAt(s.path, x))]
    [] x \in s.black -> s
    [] OTHER -> [s EXCEPT !.path = Append(@, x)]

\* The document on top follows one more parent, or is done with.
Turn(s) ==
  LET d == Last(s.path) IN
  IF s.left[d] = {}
  THEN [s EXCEPT !.path = Front(@), !.black = @ \cup {d}]
  ELSE LET x == Max(s.left[d]) IN Follow([s EXCEPT !.left[d] = @ \ {x}], x)

\* Where nothing is under way, the next document not met is a root.
Step(docs, s) ==
  LET white == Present(docs) \ s.black IN
  CASE s.path # <<>> -> Turn(s)
    [] s.path = <<>> /\ white # {} -> [s EXCEPT !.path = <<Min(white)>>]
    [] OTHER -> s

\* Every document is begun and done with once, every edge followed once.
Steps(docs) == LET n == Cardinality(DOMAIN docs) IN n * (n + 2)

FindCycles(docs) ==
  LET After[n \in 0..Steps(docs)] ==
        IF n = 0 THEN Search(docs) ELSE Step(docs, After[n - 1]) IN
  After[Steps(docs)].found

-----------------------------------------------------------------------------
(* The map and the orphans.  full: whether archived documents are shown.   *)

Visible(docs, full) == {d \in Present(docs) : full \/ ~Archived(docs[d])}

Orphans(docs, full) ==
  {d \in Visible(docs, full) : Parents(docs, d) = {} /\ Children(docs, d) = {}}

Roots(docs, full) == {d \in Visible(docs, full) : Parents(docs, d) = {}}

Kids(docs, d, full) == Children(docs, d) \cap Visible(docs, full)

Signposts(docs, full) == {d \in Roots(docs, full) : Kids(docs, d, full) # {}}
Floating(docs, full) == Roots(docs, full) \ Signposts(docs, full)

\* Mutant: the count ends at the children.
DescendantsNext(docs, d, full) == Kids(docs, d, full)

\* What desc_count counts: it does not go through what is not shown.
Descendants(docs, d, full) ==
  LET Below[n \in 0..Cardinality(DOMAIN docs)] ==
        IF n = 0 THEN Kids(docs, d, full)
        ELSE Below[n - 1] \cup UNION {Kids(docs, k, full) : k \in Below[n - 1]} IN
  Below[Cardinality(DOMAIN docs)]

\* The map names the roots and the children of the signposts, one by one, and
\* of what is below says how many there are.
Listed(docs, full) ==
  Roots(docs, full) \cup UNION {Kids(docs, d, full) : d \in Signposts(docs, full)}
Counted(docs, full) ==
  UNION {Descendants(docs, d, full) : d \in Signposts(docs, full)}

-----------------------------------------------------------------------------
(* What these reads should come to.                                        *)

\* The documents above d, d itself where it is on a cycle.
Above(docs, d) ==
  LET Up[n \in 0..Cardinality(DOMAIN docs)] ==
        IF n = 0 THEN Parents(docs, d)
        ELSE Up[n - 1] \cup UNION {Parents(docs, p) : p \in Up[n - 1]} IN
  Up[Cardinality(DOMAIN docs)]

OnCycle(docs) == {d \in Present(docs) : d \in Above(docs, d)}

\* Every cycle reported is one, and there is one for every document on a
\* cycle, of documents above it and below it.
CyclesRight(docs) ==
  LET found == FindCycles(docs) IN
  /\ \A c \in found : \A i \in DOMAIN c :
       c[IF i = Len(c) THEN 1 ELSE i + 1] \in Parents(docs, c[i])
  /\ \A d \in OnCycle(docs) : \E c \in found : \A x \in ToSet(c) :
       x \in Above(docs, d) /\ d \in Above(docs, x)

\* What a signpost counts is the children listed with it and what these count,
\* each once.  Neither listed nor counted is only what hangs, on every way up,
\* below a document that is not shown or a cycle; an orphan is always listed,
\* among the documents without a tree of their own.
MapRight(docs, full) ==
  LET told == Listed(docs, full) \cup Counted(docs, full)
      hung == Visible(docs, full) \ told IN
  /\ told \subseteq Visible(docs, full)
  /\ \A d \in Signposts(docs, full) :
       Descendants(docs, d, full) =
         Kids(docs, d, full)
           \cup UNION {Descendants(docs, k, full) : k \in Kids(docs, d, full)}
  /\ \A d \in hung : /\ Parents(docs, d) # {}
                     /\ Parents(docs, d) \cap Visible(docs, full) \subseteq hung
  /\ \A d \in hung : \E a \in Above(docs, d) :
       a \in OnCycle(docs) \/ a \notin Visible(docs, full)
  /\ Orphans(docs, full) \subseteq Floating(docs, full)
  /\ \A d \in Floating(docs, full) \ Orphans(docs, full) :
       \E k \in Children(docs, d) : Archived(docs[k])
=============================================================================
