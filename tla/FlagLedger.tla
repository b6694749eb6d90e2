------------------------------ MODULE FlagLedger ------------------------------
(***************************************************************************)
(* The ledger of flags: one file per flag in a directory of its own.       *)
(* Raising a flag mints an id and writes a file; resolving one reads the   *)
(* open flags and writes the whole file back.  Two commands may do either  *)
(* at once.  Ids are seconds of the clock.                                 *)
(***************************************************************************)
EXTENDS Naturals

CONSTANTS
  Readers,      \* the processes that raise and resolve flags
  FlagDocs,     \* the documents flagged
  MaxFlagId, MaxFlagCommands

ASSUME FlagBounds == MaxFlagId \in Nat \ {0} /\ MaxFlagCommands \in Nat

FlagIds == 1..MaxFlagId
NoFlag == [doc |-> "none", reason |-> 0, resolution |-> 0]

\* A flag names a document and the command that raised it, which stands for
\* its reason, and when resolved the command that resolved it.
Flag == [doc : FlagDocs, reason : Nat \ {0}, resolution : Nat]

VARIABLES
  flags,          \* the flag files
  flagJob,        \* per process: the file it is about to write, and what it saw
  flagClock,      \* the second ids are minted from
  flagCommands    \* how many commands were issued; the number of the latest

flagVars == <<flags, flagJob, flagClock, flagCommands>>

IdleReader == [busy |-> FALSE, id |-> 0, rec |-> NoFlag, seen |-> NoFlag]

\* Mutant: the second is taken as it is.
IsNextFlagIdUnchecked(id) == id = flagClock

\* generate_id: the first second from now on that no file is named after.
IsNextFlagId(id) ==
  /\ id >= flagClock /\ flags[id] = NoFlag
  /\ \A i \in flagClock..id : i # id => flags[i] # NoFlag

\* Mutant: resolved flags can be resolved again.
OpenFlagsAll(f) == {id \in DOMAIN f : f[id] # NoFlag}

\* The flags still open.
OpenFlags(f) == {id \in DOMAIN f : f[id] # NoFlag /\ f[id].resolution = 0}

Holding(p, id, rec) ==
  flagJob' = [flagJob EXCEPT ![p] =
                [busy |-> TRUE, id |-> id, rec |-> rec, seen |-> flags[id]]]

Issued ==
  /\ flagCommands < MaxFlagCommands
  /\ flagCommands' = flagCommands + 1

\* ldoc flag add, up to the choice of the id.
AddFlag(p, d) ==
  /\ ~flagJob[p].busy /\ Issued
  /\ \E id \in FlagIds :
       /\ IsNextFlagId(id)
       /\ Holding(p, id, [doc |-> d, reason |-> flagCommands', resolution |-> 0])
  /\ UNCHANGED <<flags, flagClock>>

\* ldoc flag resolve, up to the read; only an open flag can be resolved.
ResolveFlag(p, id) ==
  /\ ~flagJob[p].busy /\ Issued
  /\ id \in OpenFlags(flags)
  /\ Holding(p, id, [flags[id] EXCEPT !.resolution = flagCommands'])
  /\ UNCHANGED <<flags, flagClock>>

WriteFlag(p) ==
  /\ flagJob[p].busy
  /\ flags' = [flags EXCEPT ![flagJob[p].id] = flagJob[p].rec]
  /\ flagJob' = [flagJob EXCEPT ![p] = IdleReader]
  /\ UNCHANGED <<flagClock, flagCommands>>

\* Killed before the write: nothing has changed.
KillReader(p) ==
  /\ flagJob[p].busy
  /\ flagJob' = [flagJob EXCEPT ![p] = IdleReader]
  /\ UNCHANGED <<flags, flagClock, flagCommands>>

FlagTick ==
  /\ flagClock < MaxFlagId
  /\ flagClock' = flagClock + 1
  /\ UNCHANGED <<flags, flagJob, flagCommands>>

FlagInit ==
  /\ flags = [id \in FlagIds |-> NoFlag]
  /\ flagJob = [p \in Readers |-> IdleReader]
  /\ flagClock = 1
  /\ flagCommands = 0

FlagNext ==
  \/ FlagTick
  \/ \E p \in Readers :
       \/ \E d \in FlagDocs : AddFlag(p, d)
       \/ \E id \in FlagIds : ResolveFlag(p, id)
       \/ WriteFlag(p)
       \/ KillReader(p)

-----------------------------------------------------------------------------

\* The types of the ledger (flags.py).
FlagTypes ==
  /\ flags \in [FlagIds -> Flag \cup {NoFlag}]
  /\ flagJob \in [Readers -> [busy : BOOLEAN, id : Nat,
                              rec : Flag \cup {NoFlag}, seen : Flag \cup {NoFlag}]]
  /\ flagClock \in FlagIds /\ flagCommands \in 0..MaxFlagCommands

\* The one change a flag undergoes: it is resolved.
Resolves(old, new) ==
  /\ old.resolution = 0
  /\ new = [old EXCEPT !.resolution = new.resolution]

\* A flag on file keeps document, reason and, once resolved, its resolution
\* (FlagLedger.add and resolve), unless the command that writes it had looked
\* at the directory before the flag got its present form.
FlagsStand ==
  [][ \A id \in FlagIds :
        \/ flags[id] = NoFlag \/ flags'[id] = flags[id]
        \/ Resolves(flags[id], flags'[id])
        \/ \E p \in Readers :
             /\ flagJob[p].busy /\ flagJob[p].id = id
             /\ flagJob'[p] # flagJob[p] /\ flagJob[p].seen # flags[id]
    ]_flagVars
=============================================================================
