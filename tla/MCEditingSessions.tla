-------------------------- MODULE MCEditingSessions --------------------------
(* Instances of EditingSessions for TLC: who works under which session, and  *)
(* what is done there.                                                       *)
EXTENDS EditingSessions, TLC

CONSTANTS p1, p2, s1, s2, s3

\* One older document, and the two ids new files may get.
MCDocIds == 1..3
MCFreeIds == 1..4
MCTwoDocs == {1, 2}
MCOldDocs == {1}

\* One user runs one command after the other, in any session.
SerialOwner == [p \in Procs |-> Sessions]

\* Two agents share a session, and one has another to itself.
SharedOwner == [p \in Procs |-> IF p = p1 THEN {s1, s2} ELSE {s1}]

SerialCommands == {"start", "new", "change", "note", "rm", "close", "merge"}
MergeCommands == {"change", "rm", "close", "merge"}
SharedCommands == {"new", "change", "rm", "recap", "close", "merge"}

Revise(author) == [types |-> {"revision"}, author |-> author, retires |-> FALSE]
Retire == [types |-> {"restructure"}, author |-> FALSE, retires |-> TRUE]
Revisions == {Revise(FALSE), Revise(TRUE)}
Revision == {Revise(FALSE)}
RevisionOrRetire == Revision \cup {Retire}

SymmetricSessions == Permutations(Sessions)
=============================================================================
