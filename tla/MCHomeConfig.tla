----------------------------- MODULE MCHomeConfig -----------------------------
(* Instances of HomeConfig for TLC. *)
EXTENDS HomeConfig, TLC

CONSTANTS p1, p2, repo, sub, kb, copy, docs, host, url, me, git

\* A repository with a directory in it, and two checkouts of one store.
MCDirs == {repo, sub, kb, copy}
MCParent == [d \in MCDirs |-> IF d = sub THEN repo ELSE Unset]

NoMarker == [present |-> FALSE, store |-> Unset, name |-> Unset,
             base |-> FALSE, docs |-> FALSE]
StoreNamed(n) == [NoMarker EXCEPT !.present = TRUE, !.name = n, !.base = TRUE]
ToName(n) == [NoMarker EXCEPT !.present = TRUE, !.store = [reg |-> n]]
ToDir(d) == [NoMarker EXCEPT !.present = TRUE, !.store = [path |-> d],
                             !.docs = TRUE]

MCInitMarkers == [d \in MCDirs |->
  IF d = repo THEN ToName(docs) ELSE IF d = sub THEN NoMarker ELSE StoreNamed(docs)]

MCMarkers == {NoMarker, ToName(docs), ToDir(kb), ToDir(repo)}

EmptyHome ==
  [present |-> FALSE, store |-> Unset, name |-> Unset, base |-> FALSE,
   docs |-> FALSE, username |-> Unset, user |-> [k \in UserKeys |-> Unset],
   stores |-> [n \in Names |-> Unset]]

\* A home file with a fallback store and an identity.
MCHome == [EmptyHome EXCEPT !.present = TRUE, !.base = TRUE,
                            !.username = me, !.user["email"] = me]

MCGitUser == [k \in UserKeys |-> git]

RegisterIn(d, alias, force) ==
  [op |-> "register", at |-> d, alias |-> alias, force |-> force]
SetKey(k, v) == [op |-> "config", key |-> k, value |-> v]

MCCommands ==
  {RegisterIn(kb, Unset, FALSE), RegisterIn(copy, Unset, TRUE),
   RegisterIn(sub, Unset, FALSE), RegisterIn(copy, host, FALSE),
   [op |-> "registerUrl", name |-> host, url |-> url, as |-> Unset, force |-> FALSE],
   [op |-> "registerUrl", name |-> docs, url |-> url, as |-> host, force |-> TRUE],
   [op |-> "forget", name |-> docs],
   SetKey("name", me), SetKey("email", Unset), [op |-> "bootstrap"],
   [op |-> "use", at |-> copy], [op |-> "use", at |-> sub]}

\* The processes are interchangeable.
Perms == Permutations(Procs)

MCUserCommands == {SetKey("name", me), SetKey("email", Unset)}
=============================================================================
