------------------------------ MODULE MCDocGraph ------------------------------
(* Instances of DocGraph for TLC. *)
EXTENDS DocGraph

CONSTANTS p1, p2

MCDocIds == 1..3
MCInitDocs == {1, 2}

BelongsTo(d) == [field |-> "belongs_to", to |-> d]
Relates(d) == [field |-> "relates", to |-> d]
Provenance(d) == [field |-> "provenance", to |-> d]

\* Document 2 is a member of document 1 and derives from it.
MCInitEdges == [d \in MCDocIds |->
  IF d = 2 THEN {BelongsTo(1), Provenance(1)} ELSE {}]

\* Members, relations and derivations, one at a time and two in one command;
\* the last two name a new document.
MCEdgeArgs ==
  {{BelongsTo(1)}, {Relates(2)}, {Provenance(1)}, {BelongsTo(3)},
   {Relates(2), Provenance(3)}}

\* One relation to the older document.
MCRaceEdges == {{Relates(1)}}
=============================================================================
