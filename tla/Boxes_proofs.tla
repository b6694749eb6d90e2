----------------------------- MODULE Boxes_proofs -----------------------------
(***************************************************************************)
(* What holds of the flag ledger, the lexicon and the capture tiers for    *)
(* every number of processes, files and commands.  Each has an inductive   *)
(* invariant of its own, which says of a command under way what it is      *)
(* going to write, beside what it saw when it looked.                      *)
(***************************************************************************)
EXTENDS MCBoxes, Integers, FiniteSetTheorems, TLAPS

-----------------------------------------------------------------------------
(* Least and greatest numbers                                              *)

\* The least number for which something fails.
LEMMA LeastBad ==
  ASSUME NEW Bad \in SUBSET Nat, Bad # {}
  PROVE  \E n \in Bad : \A k \in Bad : n <= k
<1>1. \E n \in Bad : \A k \in Bad : ~(<<k, n>> \in OpToRel(<, Nat))
  BY NatLessThanWellFounded, WFMin
<1>2. PICK n \in Bad : \A k \in Bad : ~(<<k, n>> \in OpToRel(<, Nat))
  BY <1>1
<1>3. \A k \in Bad : ~(k < n)
  BY <1>2 DEF OpToRel
<1> QED BY <1>3

\* The greatest.
LEMMA GreatestBad ==
  ASSUME NEW m \in Nat, NEW Bad \in SUBSET (0 .. m), Bad # {}
  PROVE  \E n \in Bad : \A k \in Bad : k <= n
<1> DEFINE Above == {m - k : k \in Bad}
<1>1. Above \in SUBSET Nat /\ Above # {}
  <2>1. \A k \in 0 .. m : m - k \in Nat
    OBVIOUS
  <2>2. \A k \in Bad : k \in 0 .. m
    OBVIOUS
  <2> QED BY <2>1, <2>2
<1>2. PICK n \in Above : \A k \in Above : n <= k
  <2> HIDE DEF Above
  <2> QED BY <1>1, LeastBad
<1>3. PICK b \in Bad : n = m - b
  BY <1>2
<1>4. \A k \in Bad : m - b <= m - k
  BY <1>2, <1>3
<1> QED BY <1>3, <1>4

\* The smallest member of a set of numbers.
LEMMA MinIn ==
  ASSUME NEW S \in SUBSET Nat, S # {}
  PROVE  Min(S) \in S /\ \A n \in S : Min(S) <= n
<1>1. \E m \in S : \A n \in S : m <= n
  BY LeastBad
<1> QED BY <1>1 DEF Min

-----------------------------------------------------------------------------
(* The flag ledger: a command writes a new flag where it saw none, or the  *)
(* flag it saw, resolved.                                                  *)

FlagSpec == FlagInit /\ [][FlagNext]_flagVars

\* What the command of p is going to write, beside what it saw.
FlagHonest(p) ==
  flagJob[p].busy =>
    /\ flagJob[p].id \in FlagIds
    /\ \/ flagJob[p].seen = NoFlag
       \/ Resolves(flagJob[p].seen, flagJob[p].rec)

FlagInv == FlagTypes /\ \A p \in Readers : FlagHonest(p)

-----------------------------------------------------------------------------

\* A command takes a process, and what it will write is honest.
LEMMA FlagHoldingKeepsInv ==
  ASSUME FlagInv, NEW p \in Readers, NEW id \in FlagIds, NEW rec \in Flag,
         Issued, Holding(p, id, rec), UNCHANGED <<flags, flagClock>>,
         flags[id] = NoFlag \/ Resolves(flags[id], rec)
  PROVE  FlagInv'
<1> DEFINE j == [busy |-> TRUE, id |-> id, rec |-> rec, seen |-> flags[id]]
<1>1. flagJob' = [flagJob EXCEPT ![p] = j]
  BY DEF Holding
<1>2. j \in [busy : BOOLEAN, id : Nat, rec : Flag \cup {NoFlag}, seen : Flag \cup {NoFlag}]
  BY FlagBounds DEF FlagInv, FlagTypes, FlagIds
<1>3. flagCommands' \in 0..MaxFlagCommands
  BY FlagBounds DEF Issued, FlagInv, FlagTypes
<1>4. FlagTypes'
  BY <1>1, <1>2, <1>3 DEF FlagInv, FlagTypes
<1>5. ASSUME NEW q \in Readers PROVE FlagHonest(q)'
  <2>1. CASE q = p
    BY <1>1, <2>1 DEF FlagInv, FlagTypes, FlagHonest, Resolves
  <2>2. CASE q # p
    BY <1>1, <2>2 DEF FlagInv, FlagTypes, FlagHonest, Resolves
  <2> QED BY <2>1, <2>2
<1> QED BY <1>4, <1>5 DEF FlagInv

\* A command ends.
LEMMA FlagEndKeepsInv ==
  ASSUME FlagInv, NEW p \in Readers,
         flagJob' = [flagJob EXCEPT ![p] = IdleReader],
         flags' \in [FlagIds -> Flag \cup {NoFlag}],
         UNCHANGED <<flagClock, flagCommands>>
  PROVE  FlagInv'
<1>1. IdleReader \in [busy : BOOLEAN, id : Nat, rec : Flag \cup {NoFlag},
                      seen : Flag \cup {NoFlag}]
  BY DEF IdleReader
<1>2. FlagTypes'
  BY <1>1 DEF FlagInv, FlagTypes
<1>3. ASSUME NEW q \in Readers PROVE FlagHonest(q)'
  BY DEF FlagInv, FlagTypes, FlagHonest, Resolves, IdleReader
<1> QED BY <1>2, <1>3 DEF FlagInv

LEMMA FlagInitInv == FlagInit => FlagInv
  BY FlagBounds
  DEF FlagInit, FlagInv, FlagTypes, FlagHonest, IdleReader, FlagIds

LEMMA FlagNextKeepsInv == FlagInv /\ [FlagNext]_flagVars => FlagInv'
<1> SUFFICES ASSUME FlagInv, [FlagNext]_flagVars PROVE FlagInv'
  OBVIOUS
<1>1. ASSUME FlagTick PROVE FlagInv'
  BY <1>1, FlagBounds DEF FlagTick, FlagInv, FlagTypes, FlagIds, FlagHonest, Resolves
<1>2. ASSUME NEW p \in Readers, NEW d \in FlagDocs, AddFlag(p, d) PROVE FlagInv'
  <2>1. PICK id \in FlagIds :
          /\ IsNextFlagId(id)
          /\ Holding(p, id, [doc |-> d, reason |-> flagCommands', resolution |-> 0])
    BY <1>2 DEF AddFlag
  <2>2. [doc |-> d, reason |-> flagCommands', resolution |-> 0] \in Flag
    BY <1>2, FlagBounds DEF AddFlag, Issued, Flag, FlagInv, FlagTypes
  <2> QED BY <1>2, <2>1, <2>2, FlagHoldingKeepsInv DEF AddFlag, IsNextFlagId
<1>3. ASSUME NEW p \in Readers, NEW id \in FlagIds, ResolveFlag(p, id) PROVE FlagInv'
  <2> DEFINE rec == [flags[id] EXCEPT !.resolution = flagCommands']
  <2>1. flags[id] \in Flag /\ flags[id].resolution = 0
    BY <1>3 DEF ResolveFlag, OpenFlags, FlagInv, FlagTypes
  <2>2. flagCommands' \in Nat
    BY <1>3, FlagBounds DEF ResolveFlag, Issued, FlagInv, FlagTypes
  <2>3. rec \in Flag /\ Resolves(flags[id], rec)
    BY <2>1, <2>2 DEF Flag, Resolves
  <2>4. Issued /\ Holding(p, id, rec) /\ UNCHANGED <<flags, flagClock>>
    BY <1>3 DEF ResolveFlag
  <2> QED BY <2>3, <2>4, FlagHoldingKeepsInv
<1>4. ASSUME NEW p \in Readers, WriteFlag(p) PROVE FlagInv'
  <2>1. flags' \in [FlagIds -> Flag \cup {NoFlag}]
    BY <1>4 DEF WriteFlag, FlagInv, FlagTypes
  <2> QED BY <1>4, <2>1, FlagEndKeepsInv DEF WriteFlag
<1>5. ASSUME NEW p \in Readers, KillReader(p) PROVE FlagInv'
  <2>1. flags' \in [FlagIds -> Flag \cup {NoFlag}]
    BY <1>5 DEF KillReader, FlagInv, FlagTypes
  <2> QED BY <1>5, <2>1, FlagEndKeepsInv DEF KillReader
<1>6. ASSUME UNCHANGED flagVars PROVE FlagInv'
  BY <1>6 DEF flagVars, FlagInv, FlagTypes, FlagHonest, Resolves
<1> QED BY <1>1, <1>2, <1>3, <1>4, <1>5, <1>6 DEF FlagNext

\* The ledger holds flags, and commands under way hold ids of it.
THEOREM FlagTypesHold == FlagSpec => []FlagTypes
<1>1. FlagInv => FlagTypes
  BY DEF FlagInv
<1> QED BY <1>1, FlagInitInv, FlagNextKeepsInv, PTL DEF FlagSpec

-----------------------------------------------------------------------------

\* A flag on file keeps document, reason and resolution but for the one change
\* it may undergo, unless the command that writes it looked before the flag got
\* its present form (FlagLedger.add, FlagLedger.resolve).
THEOREM FlagsStandHolds == FlagSpec => FlagsStand
<1> DEFINE Stands ==
      \A id \in FlagIds :
        \/ flags[id] = NoFlag \/ flags'[id] = flags[id]
        \/ Resolves(flags[id], flags'[id])
        \/ \E p \in Readers :
             /\ flagJob[p].busy /\ flagJob[p].id = id
             /\ flagJob'[p] # flagJob[p] /\ flagJob[p].seen # flags[id]
<1>1. FlagInv /\ [FlagNext]_flagVars => [Stands]_flagVars
  <2> SUFFICES ASSUME FlagInv, FlagNext PROVE Stands
    OBVIOUS
  <2>1. CASE UNCHANGED flags
    BY <2>1
  <2>2. ASSUME NEW p \in Readers, WriteFlag(p) PROVE Stands
    <3> SUFFICES ASSUME NEW id \in FlagIds, id = flagJob[p].id, flags[id] # NoFlag,
                        flagJob[p].seen = flags[id]
                 PROVE  Resolves(flags[id], flags'[id])
      <4>1. flagJob'[p] # flagJob[p] /\ flagJob[p].busy
        BY <2>2 DEF WriteFlag, IdleReader, FlagInv, FlagTypes
      <4>2. \A id \in FlagIds : id # flagJob[p].id => flags'[id] = flags[id]
        BY <2>2 DEF WriteFlag, FlagInv, FlagTypes
      <4> QED BY <4>1, <4>2
    <3>1. flags'[id] = flagJob[p].rec
      BY <2>2 DEF WriteFlag, FlagInv, FlagTypes
    <3> QED BY <2>2, <3>1 DEF WriteFlag, FlagInv, FlagHonest
  <2> QED BY <2>1, <2>2
      DEF FlagNext, FlagTick, AddFlag, ResolveFlag, KillReader
<1>2. FlagsStand <=> [][Stands]_flagVars
  BY PTL DEF FlagsStand
<1> QED BY <1>1, <1>2, FlagInitInv, FlagNextKeepsInv, PTL DEF FlagSpec

-----------------------------------------------------------------------------
(* The lexicon *)

TermSpec == TermInit /\ [][TermNext]_termVars

TermJob == [op : {"idle", "new", "write", "rm", "prune"}, id : TermIds,
            fields : SUBSET TermFields,
            rec : Term \cup {NoTerm}, seen : Term \cup {NoTerm}]

\* Beside the fields named, term y is as x.
Elsewhere(x, y, fields) == \A f \in TermFields \ fields : y[f] = x[f]

\* What job j is going to write, beside what it saw.
TermHonest(j) ==
  j.op \in {"new", "write"} =>
    /\ j.rec \in Term
    /\ j.seen # NoTerm => Elsewhere(j.seen, j.rec, j.fields)

TermInv == TermTypes /\ \A p \in Editors : TermHonest(termJob[p])

-----------------------------------------------------------------------------

\* Whatever becomes of the files, a command goes on with an honest job.
LEMMA TermJobKeepsInv ==
  ASSUME TermInv, NEW p \in Editors, NEW j \in TermJob, TermHonest(j),
         termJob' = [termJob EXCEPT ![p] = j],
         terms' \in [TermIds -> Term \cup {NoTerm}],
         contexts' \subseteq {Top} \cup {ContextOf[t] : t \in TermIds},
         termCommands' \in 0..MaxTermCommands,
         \A t \in TermIds : Present(t)' => ContextOf[t] \in contexts'
  PROVE  TermInv'
<1>1. TermTypes'
  BY DEF TermInv, TermTypes, TermJob
<1>2. ASSUME NEW q \in Editors PROVE TermHonest(termJob'[q])
  BY DEF TermInv, TermTypes
<1> QED BY <1>1, <1>2 DEF TermInv, TermHonest

LEMMA IdleTermHonest == IdleEditor \in TermJob /\ TermHonest(IdleEditor)
  BY TermConstants DEF IdleEditor, TermJob, TermHonest

\* What a reference finds is on file.
LEMMA FoundPresent ==
  ASSUME NEW r \in TermRefs, NEW t \in Found(r)
  PROVE  t \in TermIds /\ Present(t)
  BY TermConstants DEF Found

\* A command that has chosen its file, and not touched any.
LEMMA TermClaimKeepsInv ==
  ASSUME TermInv, NEW p \in Editors, NEW op \in {"new", "write", "rm"},
         NEW t \in TermIds, NEW fields \in SUBSET TermFields, NEW rec \in Term \cup {NoTerm},
         TermIssued, Claims(p, op, t, fields, rec), UNCHANGED <<terms, contexts>>,
         op \in {"new", "write"} =>
           /\ rec \in Term
           /\ terms[t] # NoTerm => Elsewhere(terms[t], rec, fields)
  PROVE  TermInv'
<1> DEFINE j == [op |-> op, id |-> t, fields |-> fields, rec |-> rec, seen |-> terms[t]]
<1>1. j \in TermJob
  BY DEF TermJob, TermInv, TermTypes
<1>2. j.op = op /\ j.rec = rec /\ j.seen = terms[t] /\ j.fields = fields
  OBVIOUS
<1>3. termJob' = [termJob EXCEPT ![p] = j]
  BY DEF Claims
<1> HIDE DEF j
<1>4. TermHonest(j)
  BY <1>2, Zenon DEF TermHonest
<1>5. termCommands' \in 0..MaxTermCommands
  BY TermConstants DEF TermIssued, TermInv, TermTypes
<1>6. /\ terms' \in [TermIds -> Term \cup {NoTerm}]
      /\ contexts' \subseteq {Top} \cup {ContextOf[u] : u \in TermIds}
      /\ \A u \in TermIds : Present(u)' => ContextOf[u] \in contexts'
  BY DEF TermInv, TermTypes, Present
<1> QED BY <1>1, <1>3, <1>4, <1>5, <1>6, TermJobKeepsInv

LEMMA TermInitInv == TermInit => TermInv
<1> SUFFICES ASSUME TermInit PROVE TermInv
  OBVIOUS
<1>1. [definition |-> 0, aliases |-> {}, there |-> TRUE] \in Term
  BY DEF Term
<1>2. \A p \in Editors : termJob[p] \in TermJob /\ TermHonest(termJob[p])
  BY IdleTermHonest DEF TermInit
<1>3. termJob \in [Editors -> TermJob]
  BY <1>2 DEF TermInit
<1>4. /\ contexts \subseteq {Top} \cup {ContextOf[t] : t \in TermIds}
      /\ \A t \in TermIds : Present(t) => ContextOf[t] \in contexts
  BY TermConstants DEF TermInit, Present, NoTerm
<1>5. terms \in [TermIds -> Term \cup {NoTerm}] /\ termCommands \in 0..MaxTermCommands
  BY <1>1, TermConstants DEF TermInit
<1> QED BY <1>2, <1>3, <1>4, <1>5 DEF TermInv, TermTypes, TermJob

\* Setting some fields leaves the others as they were.
LEMMA SetsOnly ==
  ASSUME NEW x \in Term, NEW fields \in SUBSET TermFields, NEW d \in Nat,
         NEW aliases \in SUBSET TermRefs
  PROVE  LET y == [x EXCEPT !.definition = IF "definition" \in fields THEN d ELSE @,
                            !.aliases = IF "aliases" \in fields THEN aliases ELSE @]
         IN y \in Term /\ Elsewhere(x, y, fields)
<1> DEFINE y == [x EXCEPT !.definition = IF "definition" \in fields THEN d ELSE @,
                          !.aliases = IF "aliases" \in fields THEN aliases ELSE @]
<1>1. y.definition = IF "definition" \in fields THEN d ELSE x.definition
  BY DEF Term
<1>2. y.aliases = IF "aliases" \in fields THEN aliases ELSE x.aliases
  BY DEF Term
<1>3. y \in Term
  BY DEF Term
<1>4. Elsewhere(x, y, fields)
  <2> SUFFICES ASSUME NEW f \in TermFields, f \notin fields PROVE y[f] = x[f]
    BY DEF Elsewhere
  <2>1. CASE f = "definition"
    BY <1>1, <2>1
  <2>2. CASE f = "aliases"
    BY <1>2, <2>2
  <2> QED BY <2>1, <2>2 DEF TermFields
<1> QED BY <1>3, <1>4

\* The commands that begin.
LEMMA TermBeginKeepsInv ==
  ASSUME TermInv, NEW p \in Editors, NEW r \in TermRefs, NEW aliases \in Aliases,
         NEW fields \in SUBSET TermFields,
         BeginNewTerm(p, r, aliases) \/ BeginSetTerm(p, r, fields, aliases)
  PROVE  TermInv'
<1>1. termCommands' \in Nat /\ aliases \in SUBSET TermRefs
  <2>1. TermIssued
    BY DEF BeginNewTerm, BeginSetTerm
  <2> QED BY <2>1, TermConstants DEF TermIssued, TermInv, TermTypes
<1>2. CASE BeginNewTerm(p, r, aliases)
  <2> DEFINE rec == NewTerm(aliases)
  <2>1. rec \in Term
    BY <1>1 DEF Term, NewTerm
  <2>2. terms[Slug[r]] = NoTerm
    BY <1>2, TermConstants DEF BeginNewTerm, Present, TermInv, TermTypes, Term
  <2> HIDE DEF rec
  <2>3. Claims(p, "new", Slug[r], {}, rec) /\ TermIssued /\ UNCHANGED <<terms, contexts>>
    BY <1>2 DEF BeginNewTerm, rec
  <2> QED BY <2>1, <2>2, <2>3, TermConstants, TermClaimKeepsInv
<1>3. CASE BeginSetTerm(p, r, fields, aliases)
  <2> DEFINE Set(t) ==
        [terms[t] EXCEPT !.definition = IF "definition" \in fields THEN termCommands' ELSE @,
                         !.aliases = IF "aliases" \in fields THEN aliases ELSE @]
  <2>1. PICK t \in Found(r) : Claims(p, "write", t, fields, Set(t))
    BY <1>3 DEF BeginSetTerm
  <2>2. t \in TermIds /\ terms[t] \in Term
    BY FoundPresent DEF Present, NoTerm, TermInv, TermTypes
  <2> DEFINE rec == Set(t)
  <2>3. rec \in Term /\ Elsewhere(terms[t], rec, fields)
    BY <1>1, <2>2, SetsOnly
  <2>4. Claims(p, "write", t, fields, rec) /\ TermIssued /\ UNCHANGED <<terms, contexts>>
    BY <1>3, <2>1 DEF BeginSetTerm
  <2> HIDE DEF rec
  <2> QED BY <2>2, <2>3, <2>4, TermClaimKeepsInv
<1> QED BY <1>2, <1>3

LEMMA TermBeginRmKeepsInv ==
  ASSUME TermInv, NEW p \in Editors, NEW r \in TermRefs, BeginRmTerm(p, r)
  PROVE  TermInv'
<1>1. PICK t \in Found(r) : Claims(p, "rm", t, {}, NoTerm)
  BY DEF BeginRmTerm
<1>2. t \in TermIds
  BY FoundPresent
<1> QED BY <1>1, <1>2, TermClaimKeepsInv DEF BeginRmTerm

\* The steps of a command under way.
LEMMA TermStepKeepsInv ==
  ASSUME TermInv, NEW p \in Editors,
         \/ MakeContext(p) \/ WriteTerm(p) \/ UnlinkTerm(p) \/ PruneContext(p)
         \/ KillEditor(p)
  PROVE  TermInv'
<1> DEFINE t == termJob[p].id
<1>1. termJob[p] \in TermJob /\ t \in TermIds /\ TermHonest(termJob[p])
  BY DEF TermInv, TermTypes, TermJob
<1>2. termCommands' \in 0..MaxTermCommands
  BY DEF TermInv, TermTypes, MakeContext, WriteTerm, UnlinkTerm, PruneContext, KillEditor
<1>3. CASE MakeContext(p)
  <2> DEFINE j == [termJob[p] EXCEPT !.op = "write"]
  <2>1. j \in TermJob /\ TermHonest(j)
    BY <1>1, <1>3 DEF MakeContext, TermJob, TermHonest
  <2>2. termJob' = [termJob EXCEPT ![p] = j] /\ UNCHANGED terms
    BY <1>3 DEF MakeContext
  <2>3. contexts' = contexts \cup {ContextOf[t]}
    BY <1>3 DEF MakeContext
  <2> HIDE DEF j
  <2> QED BY <1>1, <1>2, <2>1, <2>2, <2>3, TermJobKeepsInv DEF TermInv, TermTypes, Present
<1>4. CASE WriteTerm(p)
  <2>1. termJob[p].rec \in Term
    BY <1>1, <1>4 DEF WriteTerm, TermHonest
  <2>2. terms' \in [TermIds -> Term \cup {NoTerm}]
    BY <1>1, <1>4, <2>1 DEF WriteTerm, TermInv, TermTypes
  <2>3. \A u \in TermIds : Present(u)' => ContextOf[u] \in contexts'
    BY <1>1, <1>4 DEF WriteTerm, TermInv, TermTypes, Present
  <2>4. termJob' = [termJob EXCEPT ![p] = IdleEditor] /\ UNCHANGED contexts
    BY <1>4 DEF WriteTerm, Releases
  <2> QED BY <1>2, <2>2, <2>3, <2>4, IdleTermHonest, TermJobKeepsInv DEF TermInv, TermTypes
<1>5. CASE UnlinkTerm(p)
  <2>1. terms' \in [TermIds -> Term \cup {NoTerm}] /\ UNCHANGED contexts
    BY <1>5 DEF UnlinkTerm, TermInv, TermTypes
  <2>2. \A u \in TermIds : Present(u)' => ContextOf[u] \in contexts'
    BY <1>1, <1>5 DEF UnlinkTerm, TermInv, TermTypes, Present, NoTerm
  <2>3. PICK j \in TermJob : TermHonest(j) /\ termJob' = [termJob EXCEPT ![p] = j]
    <3> DEFINE k == [termJob[p] EXCEPT !.op = "prune"]
    <3>1. k \in TermJob /\ TermHonest(k)
      BY <1>1 DEF TermJob, TermHonest
    <3>2. \/ termJob' = [termJob EXCEPT ![p] = k]
          \/ termJob' = [termJob EXCEPT ![p] = IdleEditor]
      BY <1>5 DEF UnlinkTerm, Releases
    <3> HIDE DEF k
    <3> QED BY <3>1, <3>2, IdleTermHonest
  <2> QED BY <1>2, <2>1, <2>2, <2>3, TermJobKeepsInv DEF TermInv, TermTypes
<1>6. CASE PruneContext(p)
  <2>1. contexts' \subseteq contexts /\ UNCHANGED terms
    BY <1>6 DEF PruneContext
  <2>2. \A u \in TermIds : Present(u)' => ContextOf[u] \in contexts'
    BY <1>6 DEF PruneContext, TermInv, TermTypes, Present
  <2>3. termJob' = [termJob EXCEPT ![p] = IdleEditor]
    BY <1>6 DEF PruneContext, Releases
  <2> QED BY <1>2, <2>1, <2>2, <2>3, IdleTermHonest, TermJobKeepsInv DEF TermInv, TermTypes
<1>7. CASE KillEditor(p)
  <2>1. termJob' = [termJob EXCEPT ![p] = IdleEditor] /\ UNCHANGED <<terms, contexts>>
    BY <1>7 DEF KillEditor, Releases
  <2> QED BY <1>2, <2>1, IdleTermHonest, TermJobKeepsInv DEF TermInv, TermTypes, Present
<1> QED BY <1>3, <1>4, <1>5, <1>6, <1>7

LEMMA TermNextKeepsInv == TermInv /\ [TermNext]_termVars => TermInv'
<1> SUFFICES ASSUME TermInv, [TermNext]_termVars PROVE TermInv'
  OBVIOUS
<1>1. CASE UNCHANGED termVars
  BY <1>1 DEF termVars, TermInv, TermTypes, Present, TermHonest
<1>2. CASE TermNext
  BY <1>2, TermBeginKeepsInv, TermBeginRmKeepsInv, TermStepKeepsInv DEF TermNext
<1> QED BY <1>1, <1>2

\* Every term lies in a directory there is, whatever commands make and remove
\* directories meanwhile.
THEOREM TermTypesHold == TermSpec => []TermTypes
<1>1. TermInv => TermTypes
  BY DEF TermInv
<1> QED BY <1>1, TermInitInv, TermNextKeepsInv, PTL DEF TermSpec

-----------------------------------------------------------------------------

\* Two steps change the files: a write and a removal.
LEMMA OnlyTwoWrite ==
  ASSUME TermInv, TermNext, ~UNCHANGED terms
  PROVE  \E p \in Editors : WriteTerm(p) \/ UnlinkTerm(p)
  BY DEF TermNext, BeginNewTerm, BeginRmTerm, BeginSetTerm, MakeContext, PruneContext,
         KillEditor

\* Both end the job of the command, or take it further.
LEMMA JobMoves ==
  ASSUME TermInv, NEW p \in Editors, WriteTerm(p) \/ UnlinkTerm(p)
  PROVE  termJob'[p] # termJob[p]
<1>1. termJob[p] \in TermJob
  BY DEF TermInv, TermTypes, TermJob
<1>2. termJob[p].op # "idle" /\ termJob[p].op # "prune"
  BY DEF WriteTerm, UnlinkTerm
<1>3. termJob'[p] = IdleEditor \/ termJob'[p] = [termJob[p] EXCEPT !.op = "prune"]
  BY DEF WriteTerm, UnlinkTerm, Releases, TermInv, TermTypes
<1> QED BY <1>1, <1>2, <1>3 DEF IdleEditor, TermJob

\* A term on file changes in no field but those the command that writes it
\* names, and is replaced by no new one, unless that command had looked for it
\* before it got its present form (LexiconStore.new, LexiconStore.set).
THEOREM TermsStandHolds == TermSpec => TermsStand
<1> DEFINE Written(t) ==
      \E p \in Editors :
        /\ termJob[p].id = t /\ termJob'[p] # termJob[p]
        /\ \/ termJob[p].seen # terms[t]
           \/ \A f \in TermFields \ termJob[p].fields : terms'[t][f] = terms[t][f]
<1> DEFINE Stands ==
      \A t \in TermIds : terms[t] # NoTerm /\ terms'[t] \notin {terms[t], NoTerm} => Written(t)
<1>1. TermInv /\ [TermNext]_termVars => [Stands]_termVars
  <2> SUFFICES ASSUME TermInv, TermNext, NEW t \in TermIds,
                      terms[t] # NoTerm, terms'[t] \notin {terms[t], NoTerm}
               PROVE  Written(t)
    OBVIOUS
  <2>1. PICK p \in Editors : WriteTerm(p) \/ UnlinkTerm(p)
    BY OnlyTwoWrite
  <2>2. ~UnlinkTerm(p)
    BY DEF UnlinkTerm, TermInv, TermTypes
  <2>3. termJob[p].id = t /\ terms'[t] = termJob[p].rec /\ termJob[p].op = "write"
    BY <2>1, <2>2 DEF WriteTerm, TermInv, TermTypes
  <2>4. CASE termJob[p].seen = terms[t]
    <3>1. Elsewhere(terms[t], terms'[t], termJob[p].fields)
      BY <2>3, <2>4 DEF TermInv, TermHonest
    <3> QED BY <2>1, <2>3, <3>1, JobMoves DEF Elsewhere
  <2>5. CASE termJob[p].seen # terms[t]
    BY <2>1, <2>3, <2>5, JobMoves
  <2> QED BY <2>4, <2>5
<1>2. TermsStand <=> [][Stands]_termVars
  BY PTL DEF TermsStand
<1> QED BY <1>1, <1>2, TermInitInv, TermNextKeepsInv, PTL DEF TermSpec

-----------------------------------------------------------------------------
(* Capture and promotion *)

IngestSpec == IngestInit /\ [][IngestNext]_ingestVars

Moving(j) == j.op \in {"fields", "promote", "unlink"}

\* A job, with what the step to come needs of it; files: those of the raw tier.
Staffed(j, files) ==
  /\ j \in Job
  /\ j.op = "drain" => j.todo # {}
  /\ j.op \in {"capture", "promote", "unlink", "raw"} => j.to \in RawIds
  /\ j.op = "capture" => j.rec \in File /\ j.rec.prov = j.rec.item /\ j.rec.parent = 0
  /\ Moving(j) => /\ j.from \in RawIds /\ j.rec \in File /\ j.seen \in File
                  /\ j.rec.item = j.seen.item /\ j.rec.parent = 0
  /\ j.op = "raw" =>
       /\ j.rec \in File
       /\ j.rec.parent # 0 => files[j.rec.parent] # NoFile
       /\ j.seen # NoFile => j.seen.item = j.rec.item /\ j.seen.prov = j.rec.prov

\* No item has a number beyond the latest command; a file of the inbox has its
\* provenance.
Numbered ==
  /\ \A i \in RawIds : /\ inbox[i].item <= ingestCommands /\ raw[i].item <= ingestCommands
                       /\ inbox[i].prov = inbox[i].item
  /\ \A p \in Ingesters : ingestJob[p].rec.item <= ingestCommands
  /\ twice \cup met \subseteq 0..ingestCommands

\* What is being captured is nowhere else.
Fresh(p) ==
  ingestJob[p].op = "capture" =>
    /\ \A i \in RawIds : inbox[i].item # ingestJob[p].rec.item
                         /\ raw[i].item # ingestJob[p].rec.item
    /\ \A q \in Ingesters : q # p => ingestJob[q].rec.item # ingestJob[p].rec.item

\* An item has one place in the inbox, ever.
Placed ==
  /\ \A i, k \in RawIds : inbox[i] # NoFile /\ inbox[i].item = inbox[k].item => i = k
  /\ \A p \in Ingesters, i \in RawIds :
       Moving(ingestJob[p]) /\ inbox[i].item = ingestJob[p].rec.item => i = ingestJob[p].from

\* While the file of the inbox is what a promotion read, the copy has its
\* provenance and, once written, stays unless two commands met on it.
Carried(j) ==
  /\ j.op = "promote" /\ inbox[j.from] = j.seen => j.rec.prov # 0
  /\ j.op = "unlink" /\ inbox[j.from] = j.seen /\ j.rec.item \notin met =>
       raw[j.to].item = j.rec.item /\ raw[j.to].prov # 0

IngestTyped ==
  /\ IngestTypes /\ ingestJob \in [Ingesters -> Job]
  /\ \A p \in Ingesters : Staffed(ingestJob[p], raw)

KeptInv ==
  /\ IngestTyped /\ Numbered /\ Placed
  /\ \A p \in Ingesters : Fresh(p) /\ Carried(ingestJob[p])

AnyFile == File \cup {NoFile}

LEMMA FileFacts ==
  /\ NoFile \notin File /\ NoFile.item = 0 /\ NoFile.prov = 0 /\ NoFile.parent = 0
  /\ \A f \in AnyFile : /\ f.item \in Nat /\ f.prov \in Nat /\ f.parent \in {0} \cup RawIds
                        /\ f \in File <=> f # NoFile
                        /\ f = NoFile <=> f.item = 0
BY DEF AnyFile, File, NoFile

LEMMA FileOfFacts ==
  ASSUME NEW n \in Nat \ {0}, NEW source \in Nat, NEW up \in {0} \cup RawIds
  PROVE  /\ FileOf(n, source, up) \in File /\ FileOf(n, source, up).item = n
         /\ FileOf(n, source, up).prov = source /\ FileOf(n, source, up).parent = up
BY DEF FileOf, File

LEMMA IdleFacts ==
  /\ IdleIngester \in Job /\ IdleIngester.op = "idle" /\ IdleIngester.rec = NoFile
  /\ IdleIngester.rec.item = 0
BY DEF IdleIngester, Job, NoFile

LEMMA JobFacts ==
  ASSUME NEW j \in Job
  PROVE  /\ j.rec \in AnyFile /\ j.seen \in AnyFile /\ j.todo \in SUBSET RawIds
         /\ j.from \in {0} \cup RawIds /\ j.to \in {0} \cup RawIds
         /\ j.op \in {"idle", "capture", "drain", "fields", "promote", "unlink", "raw"}
BY DEF Job, AnyFile

LEMMA LeastItem ==
  ASSUME NEW S \in SUBSET RawIds, S # {}
  PROVE  Min(S) \in S
<1>1. S \in SUBSET Nat
  BY IngestBounds DEF RawIds
<1> QED BY ONLY <1>1, S # {}, MinIn

LEMMA KeptFacts ==
  ASSUME IngestTyped
  PROVE  /\ inbox \in [RawIds -> AnyFile] /\ raw \in [RawIds -> AnyFile]
         /\ ingestJob \in [Ingesters -> Job] /\ \A p \in Ingesters : ingestJob[p] \in Job
         /\ ingestCommands \in Nat /\ ingestCommands <= MaxIngestCommands
         /\ MaxIngestCommands \in Nat /\ ingestClock \in RawIds
         /\ \A p \in Ingesters : Staffed(ingestJob[p], raw)
BY IngestBounds DEF IngestTyped, IngestTypes, AnyFile

-----------------------------------------------------------------------------
(* What each step does *)

\* The job of p becomes j.
JobTo(p, j) ==
  /\ j \in Job /\ ingestJob' \in [Ingesters -> Job] /\ ingestJob'[p] = j
  /\ \A q \in Ingesters : q # p => ingestJob'[q] = ingestJob[q]

LEMMA TakesJob ==
  ASSUME IngestTyped, NEW p \in Ingesters, NEW j \in Job, Takes(p, j)
  PROVE  JobTo(p, j)
BY KeptFacts DEF Takes, JobTo

\* One file of a box becomes f.
PutIn(box, new, i, f) ==
  /\ i \in RawIds /\ f \in AnyFile /\ new \in [RawIds -> AnyFile] /\ new[i] = f
  /\ \A k \in RawIds : k # i => new[k] = box[k]

LEMMA PutsIn ==
  ASSUME NEW box \in [RawIds -> AnyFile], NEW i \in RawIds, NEW f \in AnyFile,
         NEW new, new = [box EXCEPT ![i] = f]
  PROVE  PutIn(box, new, i, f)
BY DEF PutIn

LEMMA Issues ==
  ASSUME IngestTyped, IngestIssued
  PROVE  /\ ingestCommands' = ingestCommands + 1 /\ ingestCommands' \in Nat \ {0}
         /\ ingestCommands' <= MaxIngestCommands
BY KeptFacts DEF IngestIssued

LEMMA InboxAddMoves ==
  ASSUME IngestTyped, NEW p \in Ingesters, InboxAdd(p)
  PROVE  /\ UNCHANGED <<inbox, raw, cited, ingestClock, twice, met>>
         /\ ingestCommands' = ingestCommands + 1 /\ ingestCommands' <= MaxIngestCommands
         /\ ingestJob[p].op = "idle"
         /\ \E j \in Job : /\ JobTo(p, j) /\ j.op = "capture" /\ j.to \in RawIds /\ j.rec \in File
                           /\ j.rec.item = ingestCommands' /\ j.rec.prov = j.rec.item
                           /\ j.rec.parent = 0
<1>1. PICK id \in RawIds : Takes(p, [IdleIngester EXCEPT !.op = "capture", !.to = id,
                                       !.rec = FileOf(ingestCommands', ingestCommands', 0)])
  BY DEF InboxAdd
<1>2. PICK f \in File : /\ f = FileOf(ingestCommands', ingestCommands', 0)
                        /\ f.item = ingestCommands' /\ f.prov = f.item /\ f.parent = 0
  BY Issues, FileOfFacts DEF InboxAdd
<1>3. PICK j : j = [IdleIngester EXCEPT !.op = "capture", !.to = id, !.rec = f]
  OBVIOUS
<1>4. j \in Job /\ j.op = "capture" /\ j.to = id /\ j.rec = f
  BY <1>3, IdleFacts DEF Job
<1>5. JobTo(p, j)
  BY <1>1, <1>2, <1>3, <1>4, TakesJob
<1> QED BY <1>2, <1>4, <1>5, Issues DEF InboxAdd

LEMMA WriteInboxMoves ==
  ASSUME IngestTyped, NEW p \in Ingesters, WriteInbox(p)
  PROVE  /\ UNCHANGED <<raw, cited, ingestClock, ingestCommands, twice>>
         /\ ingestJob[p].op = "capture" /\ JobTo(p, IdleIngester)
         /\ PutIn(inbox, inbox', ingestJob[p].to, ingestJob[p].rec)
         /\ met' = IF inbox[ingestJob[p].to] = NoFile THEN met
                   ELSE met \cup {inbox[ingestJob[p].to].item}
<1>1. JobTo(p, IdleIngester)
  BY TakesJob, IdleFacts DEF WriteInbox, Ends
<1>2. ingestJob[p].to \in RawIds /\ ingestJob[p].rec \in AnyFile /\ ingestJob[p].op = "capture"
  BY KeptFacts DEF WriteInbox, Staffed, AnyFile
<1>3. PutIn(inbox, inbox', ingestJob[p].to, ingestJob[p].rec)
  BY <1>2, KeptFacts, PutsIn DEF WriteInbox
<1> QED BY <1>1, <1>2, <1>3 DEF WriteInbox, Changes

LEMMA PromoteMoves ==
  ASSUME IngestTyped, NEW p \in Ingesters, Promote(p)
  PROVE  /\ UNCHANGED <<inbox, raw, cited, ingestClock, twice, met>>
         /\ ingestCommands' = ingestCommands + 1 /\ ingestCommands' <= MaxIngestCommands
         /\ \E j \in Job : JobTo(p, j) /\ j.op = "drain" /\ j.todo # {} /\ j.rec = NoFile
<1>1. PICK ids : /\ ids \in {{i} : i \in OnFile(inbox)} \cup {OnFile(inbox)} /\ ids # {}
                 /\ Takes(p, [IdleIngester EXCEPT !.op = "drain", !.todo = ids])
  BY DEF Promote
<1>2. ids \in SUBSET RawIds
  BY <1>1 DEF OnFile
<1>3. PICK j : j = [IdleIngester EXCEPT !.op = "drain", !.todo = ids]
  OBVIOUS
<1>4. j \in Job /\ j.op = "drain" /\ j.todo = ids /\ j.rec = NoFile
  BY <1>2, <1>3, IdleFacts DEF Job
<1> QED BY <1>1, <1>3, <1>4, Issues, TakesJob DEF Promote

\* The file read is the one at i; the job goes on to it, passes over it, or ends.
LEMMA ReadItemMoves ==
  ASSUME IngestTyped, NEW p \in Ingesters, ReadItem(p)
  PROVE  /\ UNCHANGED <<inbox, raw, cited, ingestClock, ingestCommands, met>>
         /\ ingestJob[p].op = "drain"
         /\ \E i \in RawIds, j \in Job :
              /\ JobTo(p, j)
              /\ twice' = twice \cup {n \in {inbox[i].item} : \E q \in Ingesters : Promoting(q, n)}
              /\ \/ /\ inbox[i] # NoFile /\ j.op = "fields" /\ j.from = i /\ j.seen = inbox[i]
                    /\ j.rec \in File /\ j.rec.item = inbox[i].item /\ j.rec.parent = 0
                 \/ j.op \in {"idle", "drain"} /\ (j.op = "drain" => j.todo # {})
                    /\ j.rec = ingestJob[p].rec
                 \/ j = IdleIngester
<1> DEFINE job == ingestJob[p]
           i == Min(job.todo)
           rest == job.todo \ {i}
<1>1. job \in Job /\ job.op = "drain" /\ job.todo # {} /\ job.todo \in SUBSET RawIds
  BY KeptFacts, JobFacts DEF ReadItem, Staffed
<1>2. i \in RawIds /\ rest \in SUBSET RawIds
  BY <1>1, LeastItem
<1>3. /\ IF inbox[i] # NoFile
         THEN Takes(p, [job EXCEPT !.op = "fields", !.todo = rest, !.from = i,
                          !.rec = FileOf(inbox[i].item, 0, 0), !.seen = inbox[i]])
         ELSE Takes(p, IF rest = {} THEN IdleIngester ELSE [job EXCEPT !.todo = rest])
      /\ twice' = twice \cup {n \in {inbox[i].item} : \E q \in Ingesters : Promoting(q, n)}
      /\ UNCHANGED <<inbox, raw, cited, ingestClock, ingestCommands, met>>
  BY DEF ReadItem
<1> HIDE DEF i, rest
<1>4. PICK k \in RawIds : k = i
  BY <1>2
<1>5. CASE inbox[k] # NoFile
  <2>1. inbox[k] \in File
    BY <1>5, KeptFacts, FileFacts
  <2>2. PICK f \in File : /\ f = FileOf(inbox[k].item, 0, 0) /\ f.item = inbox[k].item
                          /\ f.parent = 0
    <3>1. inbox[k].item \in Nat \ {0}
      BY <2>1 DEF File
    <3> QED BY <3>1, FileOfFacts
  <2>3. PICK j : j = [job EXCEPT !.op = "fields", !.todo = rest, !.from = k,
                        !.rec = f, !.seen = inbox[k]]
    OBVIOUS
  <2>4. j \in Job /\ j.op = "fields" /\ j.from = k /\ j.seen = inbox[k] /\ j.rec = f
    BY <1>1, <1>2, <2>1, <2>3 DEF Job
  <2>5. JobTo(p, j)
    BY <1>3, <1>4, <1>5, <2>2, <2>3, <2>4, TakesJob
  <2>6. \E jj \in Job :
          JobTo(p, jj) /\ jj.op = "fields" /\ jj.from = k /\ jj.seen = inbox[k]
          /\ jj.rec \in File /\ jj.rec.item = inbox[k].item /\ jj.rec.parent = 0
    BY <2>2, <2>4, <2>5
  <2> QED BY <1>1, <1>3, <1>4, <1>5, <2>6
<1>6. CASE inbox[k] = NoFile
  <2>1. CASE rest = {}
    <3>1. JobTo(p, IdleIngester)
      BY <1>3, <1>4, <1>6, <2>1, TakesJob, IdleFacts
    <3> QED BY <1>1, <1>3, <1>4, <3>1, IdleFacts
  <2>2. CASE rest # {}
    <3>1. PICK j : j = [job EXCEPT !.todo = rest]
      OBVIOUS
    <3>2. j \in Job /\ j.op = "drain" /\ j.todo = rest /\ j.rec = job.rec
      BY <1>1, <1>2, <3>1 DEF Job
    <3>3. JobTo(p, j)
      BY <1>3, <1>4, <1>6, <2>2, <3>1, <3>2, TakesJob
    <3> QED BY <1>1, <1>3, <1>4, <2>2, <3>2, <3>3
  <2> QED BY <2>1, <2>2
<1> QED BY <1>5, <1>6

LEMMA ReadFieldsMoves ==
  ASSUME IngestTyped, NEW p \in Ingesters, ReadFields(p)
  PROVE  /\ UNCHANGED <<inbox, raw, cited, ingestClock, ingestCommands, twice, met>>
         /\ ingestJob[p].op = "fields"
         /\ \E j \in Job : /\ JobTo(p, j) /\ j.op = "promote" /\ j.to \in RawIds
                           /\ Mintable(raw, j.to)
                           /\ j.from = ingestJob[p].from /\ j.seen = ingestJob[p].seen
                           /\ j.rec \in File /\ j.rec.item = ingestJob[p].rec.item
                           /\ j.rec.prov = inbox[ingestJob[p].from].prov
                           /\ j.rec.parent = ingestJob[p].rec.parent
<1> DEFINE job == ingestJob[p]
<1>1. job \in Job /\ job.op = "fields" /\ job.rec \in File /\ job.from \in RawIds
  BY KeptFacts DEF ReadFields, Staffed, Moving
<1>2. PICK v \in Nat : v = inbox[job.from].prov
  BY <1>1, KeptFacts, FileFacts
<1>3. PICK id \in RawIds : /\ Mintable(raw, id)
                          /\ Takes(p, [job EXCEPT !.op = "promote", !.to = id, !.rec.prov = v])
  BY <1>2 DEF ReadFields
<1>4. PICK f : f = [job.rec EXCEPT !.prov = v]
  OBVIOUS
<1>5. f \in File /\ f.item = job.rec.item /\ f.prov = v /\ f.parent = job.rec.parent
  BY <1>1, <1>4 DEF File
<1>6. PICK j : j = [job EXCEPT !.op = "promote", !.to = id, !.rec = f]
  OBVIOUS
<1>7. /\ j \in Job /\ j.op = "promote" /\ j.to = id /\ j.rec = f
      /\ j.from = job.from /\ j.seen = job.seen
  BY <1>1, <1>5, <1>6 DEF Job
<1>8. JobTo(p, j)
  <2>1. j = [job EXCEPT !.op = "promote", !.to = id, !.rec.prov = v]
    BY <1>1, <1>4, <1>6 DEF Job
  <2> QED BY <1>3, <1>7, <2>1, TakesJob
<1> QED BY <1>1, <1>2, <1>3, <1>5, <1>7, <1>8 DEF ReadFields

LEMMA WritePromotedMoves ==
  ASSUME IngestTyped, NEW p \in Ingesters, WritePromoted(p)
  PROVE  /\ UNCHANGED <<inbox, cited, ingestClock, ingestCommands, twice>>
         /\ ingestJob[p].op = "promote"
         /\ PutIn(raw, raw', ingestJob[p].to, ingestJob[p].rec)
         /\ met' = IF raw[ingestJob[p].to] = NoFile THEN met
                   ELSE met \cup {raw[ingestJob[p].to].item}
         /\ \E j \in Job : /\ JobTo(p, j) /\ j.op = "unlink" /\ j.to = ingestJob[p].to
                           /\ j.from = ingestJob[p].from /\ j.seen = ingestJob[p].seen
                           /\ j.rec = ingestJob[p].rec
<1> DEFINE job == ingestJob[p]
<1>1. job \in Job /\ job.op = "promote" /\ job.rec \in AnyFile /\ job.to \in RawIds
  BY KeptFacts DEF WritePromoted, Staffed, Moving, AnyFile
<1>2. PICK j : j = [job EXCEPT !.op = "unlink"]
  OBVIOUS
<1>3. /\ j \in Job /\ j.op = "unlink" /\ j.to = job.to /\ j.rec = job.rec
      /\ j.from = job.from /\ j.seen = job.seen
  BY <1>1, <1>2 DEF Job
<1>4. JobTo(p, j)
  BY <1>2, <1>3, TakesJob DEF WritePromoted
<1>5. PutIn(raw, raw', job.to, job.rec)
  BY <1>1, KeptFacts, PutsIn DEF WritePromoted
<1> QED BY <1>1, <1>3, <1>4, <1>5 DEF WritePromoted, Changes

LEMMA UnlinkItemMoves ==
  ASSUME IngestTyped, NEW p \in Ingesters, UnlinkItem(p)
  PROVE  /\ UNCHANGED <<raw, cited, ingestClock, ingestCommands, twice>>
         /\ ingestJob[p].op = "unlink"
         /\ PutIn(inbox, inbox', ingestJob[p].from, NoFile)
         /\ met' = IF inbox[ingestJob[p].from] = ingestJob[p].seen THEN met
                   ELSE met \cup {inbox[ingestJob[p].from].item}
         /\ \E j \in Job : /\ JobTo(p, j) /\ j.op \in {"idle", "drain"} /\ j.rec = NoFile
                           /\ j.op = "drain" => j.todo # {}
<1> DEFINE job == ingestJob[p]
<1>1. job \in Job /\ job.op = "unlink" /\ job.from \in RawIds
  BY KeptFacts DEF UnlinkItem, Staffed, Moving
<1>2. PICK j : j = IF inbox[job.from] = NoFile \/ job.todo = {} THEN IdleIngester
                   ELSE [IdleIngester EXCEPT !.op = "drain", !.todo = job.todo]
  OBVIOUS
<1>3. j \in Job /\ j.op \in {"idle", "drain"} /\ j.rec = NoFile /\ (j.op = "drain" => j.todo # {})
  <2>1. CASE j = IdleIngester
    BY <2>1, IdleFacts
  <2>2. CASE job.todo # {} /\ j = [IdleIngester EXCEPT !.op = "drain", !.todo = job.todo]
    BY <1>1, <2>2, IdleFacts DEF Job
  <2> QED BY <1>2, <2>1, <2>2
<1>4. JobTo(p, j)
  BY <1>2, <1>3, TakesJob DEF UnlinkItem
<1>5. PutIn(inbox, inbox', job.from, NoFile)
  BY <1>1, KeptFacts, PutsIn DEF UnlinkItem, AnyFile
<1> QED BY <1>1, <1>3, <1>4, <1>5 DEF UnlinkItem, Changes

LEMMA IngestRawMoves ==
  ASSUME IngestTyped, Numbered, NEW p \in Ingesters, IngestRaw(p)
  PROVE  /\ UNCHANGED <<inbox, raw, cited, ingestClock, twice, met>>
         /\ ingestCommands' = ingestCommands + 1 /\ ingestCommands' <= MaxIngestCommands
         /\ \E j \in Job : /\ JobTo(p, j) /\ j.op = "raw" /\ j.to \in RawIds /\ j.rec \in File
                           /\ j.rec.item = ingestCommands' /\ j.seen = NoFile
                           /\ j.rec.parent # 0 => raw[j.rec.parent] # NoFile
                           /\ Mintable(raw, j.to)
<1>1. PICK id \in RawIds, from \in {0} \cup OnFile(raw), named \in {0} \cup OnFile(raw),
           sourced \in BOOLEAN :
        /\ Mintable(raw, id)
        /\ sourced \/ from # 0
        /\ Takes(p, [IdleIngester EXCEPT !.op = "raw", !.to = id,
                      !.rec = FileOf(ingestCommands',
                                     IF sourced THEN ingestCommands' ELSE raw[from].prov,
                                     IF named # 0 THEN named ELSE from)])
  BY DEF IngestRaw, Ingests
<1>2. /\ named \in {0} \cup RawIds /\ (named # 0 => named \in RawIds /\ raw[named] # NoFile)
      /\ from \in {0} \cup RawIds /\ (from # 0 => from \in RawIds /\ raw[from] # NoFile)
  BY <1>1 DEF OnFile, RawIds
<1>3. PICK v, up : /\ v = IF sourced THEN ingestCommands' ELSE raw[from].prov
                   /\ up = IF named # 0 THEN named ELSE from
  OBVIOUS
<1>4. v \in Nat /\ up \in {0} \cup RawIds /\ (up # 0 => raw[up] # NoFile)
  BY <1>1, <1>2, <1>3, Issues, KeptFacts, FileFacts DEF IngestRaw, Ingests
<1>5. PICK f \in File : f = FileOf(ingestCommands', v, up) /\ f.item = ingestCommands' /\ f.parent = up
  BY <1>4, Issues, FileOfFacts DEF IngestRaw, Ingests
<1>6. PICK j : j = [IdleIngester EXCEPT !.op = "raw", !.to = id, !.rec = f]
  OBVIOUS
<1>7. j \in Job /\ j.op = "raw" /\ j.to = id /\ j.rec = f /\ j.seen = NoFile
  BY <1>6, IdleFacts DEF Job, IdleIngester
<1>8. JobTo(p, j)
  BY <1>1, <1>3, <1>5, <1>6, <1>7, TakesJob
<1> QED BY <1>1, <1>4, <1>5, <1>7, <1>8, Issues DEF IngestRaw, Ingests

LEMMA MarkIngestedMoves ==
  ASSUME IngestTyped, NEW p \in Ingesters, NEW r \in RawIds, MarkIngested(p, r)
  PROVE  /\ UNCHANGED <<inbox, raw, cited, ingestClock, twice, met>>
         /\ ingestCommands' = ingestCommands + 1 /\ ingestCommands' <= MaxIngestCommands
         /\ raw[r] # NoFile
         /\ \E j \in Job : /\ JobTo(p, j) /\ j.op = "raw" /\ j.to = r /\ j.rec \in File
                           /\ j.seen = raw[r] /\ j.rec.item = raw[r].item
                           /\ j.rec.prov = raw[r].prov /\ j.rec.parent = raw[r].parent
<1>1. raw[r] \in File /\ raw[r] # NoFile
  BY KeptFacts, FileFacts DEF MarkIngested, OnFile
<1>2. PICK f : f = [raw[r] EXCEPT !.flagged = TRUE]
  OBVIOUS
<1>3. f \in File /\ f.item = raw[r].item /\ f.prov = raw[r].prov /\ f.parent = raw[r].parent
  BY <1>1, <1>2 DEF File
<1>4. PICK j : j = [IdleIngester EXCEPT !.op = "raw", !.to = r, !.seen = raw[r], !.rec = f]
  OBVIOUS
<1>5. j \in Job /\ j.op = "raw" /\ j.to = r /\ j.rec = f /\ j.seen = raw[r]
  BY <1>1, <1>3, <1>4, IdleFacts DEF Job
<1>6. JobTo(p, j)
  BY <1>2, <1>4, <1>5, TakesJob DEF MarkIngested
<1> QED BY <1>1, <1>3, <1>5, <1>6, Issues DEF MarkIngested

LEMMA WriteRawMoves ==
  ASSUME IngestTyped, NEW p \in Ingesters, WriteRaw(p)
  PROVE  /\ UNCHANGED <<inbox, cited, ingestClock, ingestCommands, twice>>
         /\ ingestJob[p].op = "raw" /\ JobTo(p, IdleIngester)
         /\ PutIn(raw, raw', ingestJob[p].to, ingestJob[p].rec)
         /\ met' = IF raw[ingestJob[p].to] = ingestJob[p].seen THEN met
                   ELSE met \cup {raw[ingestJob[p].to].item}
<1>1. JobTo(p, IdleIngester)
  BY TakesJob, IdleFacts DEF WriteRaw, Ends
<1>2. ingestJob[p].to \in RawIds /\ ingestJob[p].rec \in AnyFile /\ ingestJob[p].op = "raw"
  BY KeptFacts DEF WriteRaw, Staffed, AnyFile
<1>3. PutIn(raw, raw', ingestJob[p].to, ingestJob[p].rec)
  BY <1>2, KeptFacts, PutsIn DEF WriteRaw
<1> QED BY <1>1, <1>2, <1>3 DEF WriteRaw, Changes

LEMMA KillIngesterMoves ==
  ASSUME IngestTyped, NEW p \in Ingesters, KillIngester(p)
  PROVE  /\ UNCHANGED <<inbox, raw, cited, ingestClock, ingestCommands, met>>
         /\ JobTo(p, IdleIngester)
         /\ twice' = IF ingestJob[p].op = "unlink" THEN twice \cup {ingestJob[p].rec.item} ELSE twice
BY TakesJob, IdleFacts DEF KillIngester, Ends

LEMMA QuietMoves ==
  ASSUME IngestTyped, IngestTick \/ (\E r \in RawIds : Cite(r)) \/ UNCHANGED ingestVars
  PROVE  /\ UNCHANGED <<inbox, raw, ingestJob, ingestCommands, twice, met>>
         /\ ingestClock' \in RawIds
         /\ cited' \subseteq cited \cup OnFile(raw)
<1>1. IngestTick => ingestClock' \in RawIds
  BY KeptFacts, IngestBounds DEF IngestTick, RawIds
<1> QED BY <1>1, KeptFacts DEF IngestTick, Cite, ingestVars

-----------------------------------------------------------------------------
(* Items keep their numbers and places *)

Grows(box, new) == \A i \in RawIds : box[i] # NoFile => new[i] # NoFile

LEMMA StaffedGrows ==
  ASSUME NEW j, NEW box, NEW new, Grows(box, new), Staffed(j, box)
  PROVE  Staffed(j, new)
<1>1. j.op = "raw" /\ j.rec.parent # 0 => j.rec.parent \in RawIds
  BY FileFacts DEF Staffed, AnyFile
<1> QED BY <1>1 DEF Staffed, Grows

Items ==
  /\ \A i \in RawIds : /\ inbox[i].item \in Nat /\ raw[i].item \in Nat
                       /\ inbox[i].prov \in Nat /\ raw[i].prov \in Nat
                       /\ inbox[i] = NoFile <=> inbox[i].item = 0
                       /\ raw[i] = NoFile <=> raw[i].item = 0
  /\ \A p \in Ingesters : /\ ingestJob[p].rec.item \in Nat
                          /\ ingestJob[p].op \notin {"idle", "drain"} => ingestJob[p].rec.item # 0

LEMMA ItemFacts == ASSUME IngestTyped PROVE Items
<1>1. \A p \in Ingesters : ingestJob[p].rec \in AnyFile
  BY KeptFacts, JobFacts
<1>2. ASSUME NEW p \in Ingesters, ingestJob[p].op \notin {"idle", "drain"}
      PROVE  ingestJob[p].rec \in File
  BY <1>2, KeptFacts, JobFacts DEF Staffed, Moving
<1>3. \A p \in Ingesters : ingestJob[p].op \notin {"idle", "drain"} => ingestJob[p].rec.item # 0
  BY <1>1, <1>2, FileFacts
<1>4. \A i \in RawIds : inbox[i] \in AnyFile /\ raw[i] \in AnyFile
  BY KeptFacts
<1>5. \A i \in RawIds : /\ inbox[i].item \in Nat /\ raw[i].item \in Nat
                        /\ inbox[i].prov \in Nat /\ raw[i].prov \in Nat
                        /\ inbox[i] = NoFile <=> inbox[i].item = 0
                        /\ raw[i] = NoFile <=> raw[i].item = 0
  BY <1>4, FileFacts
<1> QED BY <1>1, <1>3, <1>5, FileFacts DEF Items

LEMMA IngestTypedWhen ==
  ASSUME IngestTyped,
         inbox' \in [RawIds -> AnyFile], raw' \in [RawIds -> AnyFile],
         ingestJob' \in [Ingesters -> Job], Grows(raw, raw'),
         cited' \subseteq cited \cup OnFile(raw), ingestClock' \in RawIds,
         ingestCommands' \in Nat, ingestCommands' <= MaxIngestCommands,
         twice' \cup met' \subseteq 0..ingestCommands',
         \A r \in RawIds : raw'[r].parent # 0 => raw'[raw'[r].parent] # NoFile,
         \A p \in Ingesters : Staffed(ingestJob'[p], raw')
  PROVE  IngestTyped'
<1>1. cited' \subseteq OnFile(raw')
  BY DEF IngestTyped, IngestTypes, OnFile, Grows
<1>2. ASSUME NEW r \in OnFile(raw'), raw'[r].parent # 0 PROVE raw'[r].parent \in OnFile(raw')
  BY <1>2, FileFacts DEF OnFile
<1>3. DOMAIN ingestJob' = Ingesters /\ \A p \in Ingesters : ingestJob'[p] \in Job
  OBVIOUS
<1>4. twice' \cup met' \subseteq 0..MaxIngestCommands /\ ingestCommands' \in 0..MaxIngestCommands
  BY IngestBounds
<1> QED BY <1>1, <1>2, <1>3, <1>4 DEF IngestTyped, IngestTypes, AnyFile

\* A step that changes no file.
LEMMA JobOnly ==
  ASSUME KeptInv, NEW p \in Ingesters, NEW j \in Job, JobTo(p, j),
         UNCHANGED <<inbox, raw, cited, ingestClock, met>>,
         ingestCommands' \in {ingestCommands, ingestCommands + 1},
         ingestCommands' <= MaxIngestCommands, twice' \subseteq 0..ingestCommands',
         Staffed(j, raw), j.rec.item <= ingestCommands',
         Moving(j) => \A i \in RawIds : inbox[i].item = j.rec.item => i = j.from,
         Carried(j),
         j.op = "capture" => j.rec.item = ingestCommands + 1,
         \/ j.rec.item \in {0, ingestCommands + 1}
         \/ ingestJob[p].op # "capture" /\ j.rec.item = ingestJob[p].rec.item
         \/ \E i \in RawIds : j.rec.item \in {inbox[i].item, raw[i].item}
  PROVE  KeptInv'
<1>0. /\ Items /\ IngestTyped /\ Numbered /\ Placed /\ ingestCommands \in Nat
      /\ \A q \in Ingesters : Fresh(q) /\ Carried(ingestJob[q]) /\ Staffed(ingestJob[q], raw)
      /\ j.rec.item \in Nat
  BY KeptFacts, ItemFacts, JobFacts, FileFacts DEF KeptInv
<1>1. /\ ingestCommands' \in Nat /\ ingestCommands' >= ingestCommands
      /\ inbox' = inbox /\ raw' = raw /\ met' = met
  BY <1>0
<1>2. Numbered'
  <2>1. \A q \in Ingesters : ingestJob'[q].rec.item <= ingestCommands'
    BY <1>0, <1>1 DEF Numbered, JobTo, Items
  <2>2. \A i \in RawIds : inbox'[i].item <= ingestCommands' /\ raw'[i].item <= ingestCommands'
                          /\ inbox'[i].prov = inbox'[i].item
    BY <1>0, <1>1 DEF Numbered, Items
  <2>3. twice' \cup met' \subseteq 0..ingestCommands'
    <3>1. 0..ingestCommands \subseteq 0..ingestCommands'
      BY <1>0, <1>1
    <3>2. met' \subseteq 0..ingestCommands
      BY <1>0, <1>1 DEF Numbered
    <3>3. twice' \subseteq 0..ingestCommands'
      OBVIOUS
    <3> QED BY ONLY <3>1, <3>2, <3>3
  <2> QED BY <2>1, <2>2, <2>3 DEF Numbered
<1>3. IngestTyped'
  <2>1. \A q \in Ingesters : Staffed(ingestJob'[q], raw')
    BY <1>0, <1>1 DEF JobTo
  <2>2. Grows(raw, raw')
    BY <1>1 DEF Grows
  <2>3. \A r \in RawIds : raw'[r].parent # 0 => raw'[raw'[r].parent] # NoFile
    BY <1>0, <1>1, FileFacts DEF IngestTyped, IngestTypes, OnFile
  <2> QED BY <1>0, <1>1, <1>2, <2>1, <2>2, <2>3, KeptFacts, IngestTypedWhen DEF JobTo, Numbered
<1>4. Placed'
  BY <1>0, <1>1 DEF Placed, JobTo
<1>5. ASSUME NEW q \in Ingesters PROVE Fresh(q)'
  <2>1. CASE q # p
    <3> SUFFICES ASSUME ingestJob[q].op = "capture"
                 PROVE  /\ \A i \in RawIds : inbox[i].item # ingestJob[q].rec.item
                                             /\ raw[i].item # ingestJob[q].rec.item
                        /\ \A o \in Ingesters : o # q => ingestJob'[o].rec.item # ingestJob[q].rec.item
      BY <1>1, <2>1 DEF Fresh, JobTo
    <3>1. /\ \A i \in RawIds : inbox[i].item # ingestJob[q].rec.item
                               /\ raw[i].item # ingestJob[q].rec.item
          /\ \A o \in Ingesters : o # q => ingestJob[o].rec.item # ingestJob[q].rec.item
          /\ ingestJob[q].rec.item # 0 /\ ingestJob[q].rec.item <= ingestCommands
          /\ ingestJob[q].rec.item \in Nat
      BY <1>0 DEF Fresh, Items, Numbered
    <3>2. j.rec.item # ingestJob[q].rec.item
      BY <1>0, <2>1, <3>1
    <3> QED BY <3>1, <3>2 DEF JobTo
  <2>2. CASE q = p /\ j.op = "capture"
    <3>1. j.rec.item = ingestCommands + 1
      BY <2>2
    <3>2. \A i \in RawIds : inbox[i].item # ingestCommands + 1 /\ raw[i].item # ingestCommands + 1
      BY <1>0 DEF Items, Numbered
    <3>3. \A o \in Ingesters : o # p => ingestJob'[o].rec.item # ingestCommands + 1
      BY <1>0 DEF Items, Numbered, JobTo
    <3> QED BY <1>1, <2>2, <3>1, <3>2, <3>3 DEF Fresh, JobTo
  <2> QED BY <2>1, <2>2 DEF Fresh, JobTo
<1>6. ASSUME NEW q \in Ingesters PROVE Carried(ingestJob[q])'
  <2>1. CASE q # p
    BY <1>0, <1>1, <2>1 DEF Carried, JobTo
  <2>2. CASE q = p
    BY <1>1, <2>2 DEF Carried, JobTo
  <2> QED BY <2>1, <2>2
<1> QED BY <1>2, <1>3, <1>4, <1>5, <1>6 DEF KeptInv

KeptParts ==
  /\ IngestTyped /\ Items /\ Numbered /\ Placed /\ ingestCommands \in Nat
  /\ \A q \in Ingesters : Fresh(q) /\ Carried(ingestJob[q]) /\ Staffed(ingestJob[q], raw)
  /\ \A r \in RawIds : raw[r].parent # 0 => raw[raw[r].parent] # NoFile

LEMMA KeptSplits == ASSUME KeptInv PROVE KeptParts
<1>1. IngestTyped /\ Items
  BY ItemFacts DEF KeptInv
<1>2. \A r \in RawIds : raw[r].parent # 0 => raw[raw[r].parent] # NoFile
  BY <1>1, FileFacts DEF IngestTyped, IngestTypes, OnFile
<1> QED BY <1>1, <1>2, KeptFacts DEF KeptInv, KeptParts

LEMMA MetsNumbered ==
  ASSUME KeptParts, NEW f \in AnyFile, f.item <= ingestCommands,
         met' = met \/ met' = met \cup {f.item}
  PROVE  met' \subseteq 0..ingestCommands /\ met \subseteq met'
<1>1. f.item \in 0..ingestCommands
  BY FileFacts DEF KeptParts
<1> QED BY <1>1 DEF KeptParts, Numbered

\* A captured item was nowhere, so nothing else is disturbed.
LEMMA WriteInboxKept ==
  ASSUME KeptInv, NEW p \in Ingesters, WriteInbox(p)
  PROVE  KeptInv'
<1>0. KeptParts
  BY KeptSplits
<1>1. /\ raw' = raw /\ cited' = cited /\ ingestClock' = ingestClock
      /\ ingestCommands' = ingestCommands /\ twice' = twice
      /\ ingestJob[p].op = "capture" /\ JobTo(p, IdleIngester)
      /\ PutIn(inbox, inbox', ingestJob[p].to, ingestJob[p].rec)
      /\ met' = IF inbox[ingestJob[p].to] = NoFile THEN met
                ELSE met \cup {inbox[ingestJob[p].to].item}
  BY WriteInboxMoves DEF KeptInv
<1>2. PICK to \in RawIds, rec \in File :
        to = ingestJob[p].to /\ rec = ingestJob[p].rec /\ rec.prov = rec.item
  BY <1>0, <1>1 DEF KeptParts, Staffed
<1>3. /\ inbox' \in [RawIds -> AnyFile] /\ inbox'[to] = rec
      /\ \A k \in RawIds : k # to => inbox'[k] = inbox[k]
  BY <1>1, <1>2 DEF PutIn
<1>4. rec.item \in Nat /\ rec.item # 0 /\ rec.item <= ingestCommands
      /\ \A i \in RawIds : inbox[i].item # rec.item /\ raw[i].item # rec.item
      /\ \A q \in Ingesters : q # p => ingestJob[q].rec.item # rec.item
  BY <1>0, <1>1, <1>2 DEF KeptParts, Fresh, Items, Numbered
<1>5. met' \subseteq 0..ingestCommands /\ met \subseteq met'
  <2>1. inbox[to] \in AnyFile /\ inbox[to].item <= ingestCommands
    BY <1>0, KeptFacts DEF KeptParts, Numbered
  <2> QED BY <1>0, <1>1, <1>2, <2>1, MetsNumbered
<1>6. Numbered'
  <2>1. \A i \in RawIds : /\ inbox'[i].item <= ingestCommands /\ raw[i].item <= ingestCommands
                          /\ inbox'[i].prov = inbox'[i].item
    BY <1>0, <1>2, <1>3, <1>4 DEF KeptParts, Numbered
  <2>2. \A q \in Ingesters : ingestJob'[q].rec.item <= ingestCommands
    BY <1>0, <1>1, IdleFacts DEF KeptParts, Numbered, JobTo
  <2>3. twice' \cup met' \subseteq 0..ingestCommands
    BY <1>0, <1>1, <1>5 DEF KeptParts, Numbered
  <2> QED BY <1>1, <2>1, <2>2, <2>3 DEF Numbered
<1>7. IngestTyped'
  <2>1. Staffed(IdleIngester, raw)
    BY IdleFacts DEF Staffed, Moving
  <2>2. \A q \in Ingesters : Staffed(ingestJob'[q], raw')
    BY <1>0, <1>1, <2>1 DEF KeptParts, JobTo
  <2>3. Grows(raw, raw') /\ raw' \in [RawIds -> AnyFile] /\ ingestClock' \in RawIds
        /\ ingestCommands' \in Nat /\ ingestCommands' <= MaxIngestCommands
        /\ \A r \in RawIds : raw'[r].parent # 0 => raw'[raw'[r].parent] # NoFile
    BY <1>0, <1>1, KeptFacts DEF KeptParts, Grows
  <2>4. twice' \cup met' \subseteq 0..ingestCommands'
    BY <1>6 DEF Numbered
  <2> QED BY <1>0, <1>1, <1>3, <2>2, <2>3, <2>4, IngestTypedWhen DEF KeptParts, JobTo
<1>8. Placed'
  <2>1. ASSUME NEW i \in RawIds, NEW k \in RawIds, inbox'[i] # NoFile,
               inbox'[i].item = inbox'[k].item
        PROVE  i = k
    BY <1>0, <1>3, <1>4, <2>1 DEF KeptParts, Placed
  <2>2. ASSUME NEW q \in Ingesters, NEW i \in RawIds, Moving(ingestJob'[q]),
               inbox'[i].item = ingestJob'[q].rec.item
        PROVE  i = ingestJob'[q].from
    <3>1. q # p
      BY <1>1, <2>2, IdleFacts DEF JobTo, Moving
    <3> QED BY <1>0, <1>1, <1>3, <1>4, <2>2, <3>1 DEF KeptParts, Placed, JobTo
  <2> QED BY <2>1, <2>2 DEF Placed
<1>9. ASSUME NEW q \in Ingesters PROVE Fresh(q)'
  <2>1. CASE q = p
    BY <1>1, <2>1, IdleFacts DEF Fresh, JobTo
  <2>2. CASE q # p
    <3>1. ingestJob[q].op = "capture" => ingestJob[q].rec.item # 0
      BY <1>0 DEF KeptParts, Items
    <3> QED BY <1>0, <1>1, <1>3, <1>4, <2>2, <3>1, IdleFacts DEF KeptParts, Fresh, JobTo
  <2> QED BY <2>1, <2>2
<1>10. ASSUME NEW q \in Ingesters PROVE Carried(ingestJob[q])'
  <2>1. CASE q = p
    BY <1>1, <2>1, IdleFacts DEF Carried, JobTo
  <2>2. CASE q # p
    <3>1. PICK j : j = ingestJob[q] /\ ingestJob'[q] = j
      BY <1>1, <2>2 DEF JobTo
    <3>2. Staffed(j, raw) /\ Carried(j) /\ j.rec.item # rec.item
      BY <1>0, <1>4, <2>2, <3>1 DEF KeptParts
    <3>3. j.op \in {"promote", "unlink"} /\ inbox'[j.from] = j.seen => inbox[j.from] = j.seen
      BY <1>2, <1>3, <3>2 DEF Staffed, Moving
    <3>4. Carried(j)'
      BY <1>1, <1>5, <3>2, <3>3 DEF Carried
    <3> QED BY <3>1, <3>4 DEF Carried
  <2> QED BY <2>1, <2>2
<1> QED BY <1>6, <1>7, <1>8, <1>9, <1>10 DEF KeptInv

\* What a promotion or a mark writes was on its way; what it replaces is met
\* unless the command had seen it.
LEMMA WriteRawKept ==
  ASSUME KeptInv, NEW p \in Ingesters, NEW j \in Job, JobTo(p, j),
         ingestJob[p].op \in {"promote", "raw"}, ingestJob[p].to \in RawIds,
         UNCHANGED <<inbox, cited, ingestClock, ingestCommands, twice>>,
         PutIn(raw, raw', ingestJob[p].to, ingestJob[p].rec),
         met' = met \/ met' = met \cup {raw[ingestJob[p].to].item},
         \/ raw[ingestJob[p].to].item \in met'
         \/ raw[ingestJob[p].to] = NoFile
         \/ /\ raw[ingestJob[p].to].item = ingestJob[p].rec.item
            /\ raw[ingestJob[p].to].prov = ingestJob[p].rec.prov,
         \/ j = IdleIngester
         \/ /\ ingestJob[p].op = "promote" /\ j.op = "unlink" /\ j.to = ingestJob[p].to
            /\ j.from = ingestJob[p].from /\ j.seen = ingestJob[p].seen
            /\ j.rec = ingestJob[p].rec
  PROVE  KeptInv'
<1>0. KeptParts
  BY KeptSplits
<1>1. /\ inbox' = inbox /\ cited' = cited /\ ingestClock' = ingestClock
      /\ ingestCommands' = ingestCommands /\ twice' = twice
  OBVIOUS
<1>2. PICK to \in RawIds, rec \in File :
        /\ to = ingestJob[p].to /\ rec = ingestJob[p].rec
        /\ rec.parent # 0 => raw[rec.parent] # NoFile
  BY <1>0 DEF KeptParts, Staffed, Moving
<1>3. /\ raw' \in [RawIds -> AnyFile] /\ raw'[to] = rec
      /\ \A k \in RawIds : k # to => raw'[k] = raw[k]
  BY <1>2 DEF PutIn
<1>4. rec.item \in Nat /\ rec.item # 0 /\ rec.item <= ingestCommands /\ rec # NoFile
      /\ \A q \in Ingesters : q # p /\ ingestJob[q].op = "capture" => ingestJob[q].rec.item # rec.item
  BY <1>0, <1>2, FileFacts DEF KeptParts, Fresh, Items, Numbered
<1>5. met' \subseteq 0..ingestCommands /\ met \subseteq met'
  <2>1. raw[to] \in AnyFile /\ raw[to].item <= ingestCommands
    BY <1>0, KeptFacts DEF KeptParts, Numbered
  <2> QED BY <1>0, <1>2, <2>1, MetsNumbered
<1>6. \/ j = IdleIngester /\ j.rec.item = 0
      \/ /\ j.op = "unlink" /\ j.rec = rec /\ j.to = to /\ ingestJob[p].op = "promote"
         /\ j.from = ingestJob[p].from /\ j.seen = ingestJob[p].seen
  BY <1>2, IdleFacts
<1>7. Numbered'
  <2>1. \A i \in RawIds : /\ inbox[i].item <= ingestCommands /\ raw'[i].item <= ingestCommands
                          /\ inbox[i].prov = inbox[i].item
    BY <1>0, <1>2, <1>3, <1>4 DEF KeptParts, Numbered
  <2>2. \A q \in Ingesters : ingestJob'[q].rec.item <= ingestCommands
    BY <1>0, <1>4, <1>6 DEF KeptParts, Numbered, JobTo
  <2>3. twice' \cup met' \subseteq 0..ingestCommands
    BY <1>0, <1>1, <1>5 DEF KeptParts, Numbered
  <2> QED BY <1>1, <2>1, <2>2, <2>3 DEF Numbered
<1>8. Grows(raw, raw')
  BY <1>3, <1>4 DEF Grows
<1>9. IngestTyped'
  <2>1. Staffed(j, raw')
    <3>1. CASE j = IdleIngester
      BY <3>1, IdleFacts DEF Staffed, Moving
    <3>2. CASE /\ j.op = "unlink" /\ j.rec = rec /\ j.to = to /\ ingestJob[p].op = "promote"
               /\ j.from = ingestJob[p].from /\ j.seen = ingestJob[p].seen
      <4>1. Staffed(ingestJob[p], raw)
        BY <1>0 DEF KeptParts
      <4> QED BY <1>2, <3>2, <4>1 DEF Staffed, Moving
    <3> QED BY <1>6, <3>1, <3>2
  <2>2. \A q \in Ingesters : Staffed(ingestJob'[q], raw')
    BY <1>0, <1>8, <2>1, StaffedGrows DEF KeptParts, JobTo
  <2>3. ingestClock' \in RawIds /\ ingestCommands' \in Nat /\ ingestCommands' <= MaxIngestCommands
        /\ inbox' \in [RawIds -> AnyFile]
    BY <1>0, <1>1, KeptFacts DEF KeptParts
  <2>4. ASSUME NEW r \in RawIds, raw'[r].parent # 0 PROVE raw'[raw'[r].parent] # NoFile
    <3>1. raw'[r].parent \in RawIds
      BY <1>3, <2>4, FileFacts
    <3>2. raw[raw'[r].parent] # NoFile
      BY <1>0, <1>2, <1>3, <2>4 DEF KeptParts
    <3> QED BY <1>8, <3>1, <3>2 DEF Grows
  <2>5. twice' \cup met' \subseteq 0..ingestCommands'
    BY <1>7 DEF Numbered
  <2> QED BY <1>0, <1>1, <1>3, <1>8, <2>2, <2>3, <2>4, <2>5, IngestTypedWhen DEF KeptParts, JobTo
<1>10. Placed'
  <2>1. ASSUME NEW q \in Ingesters, NEW i \in RawIds, Moving(ingestJob'[q]),
               inbox[i].item = ingestJob'[q].rec.item
        PROVE  i = ingestJob'[q].from
    <3>1. CASE q = p
      BY <1>0, <1>2, <1>6, <2>1, <3>1, IdleFacts DEF KeptParts, Placed, JobTo, Moving
    <3>2. CASE q # p
      BY <1>0, <2>1, <3>2 DEF KeptParts, Placed, JobTo
    <3> QED BY <3>1, <3>2
  <2> QED BY <1>0, <1>1, <2>1 DEF KeptParts, Placed
<1>11. ASSUME NEW q \in Ingesters PROVE Fresh(q)'
  <2>1. CASE q = p
    BY <1>6, <2>1, IdleFacts DEF Fresh, JobTo
  <2>2. CASE q # p
    <3>1. ingestJob[q].op = "capture" => ingestJob[q].rec.item # 0
      BY <1>0 DEF KeptParts, Items
    <3> QED BY <1>0, <1>1, <1>3, <1>4, <1>6, <2>2, <3>1 DEF KeptParts, Fresh, JobTo
  <2> QED BY <2>1, <2>2
<1>12. ASSUME NEW q \in Ingesters PROVE Carried(ingestJob[q])'
  <2>1. CASE q = p
    <3>1. CASE j = IdleIngester
      BY <2>1, <3>1, IdleFacts DEF Carried, JobTo
    <3>2. CASE /\ j.op = "unlink" /\ j.rec = rec /\ j.to = to /\ ingestJob[p].op = "promote"
               /\ j.from = ingestJob[p].from /\ j.seen = ingestJob[p].seen
      <4>1. inbox[j.from] = j.seen => rec.prov # 0
        BY <1>0, <1>2, <3>2 DEF KeptParts, Carried
      <4> QED BY <1>1, <1>3, <2>1, <3>2, <4>1 DEF Carried, JobTo
    <3> QED BY <1>6, <3>1, <3>2
  <2>2. CASE q # p
    <3>1. PICK o : o = ingestJob[q] /\ ingestJob'[q] = o
      BY <2>2 DEF JobTo
    <3>2. Staffed(o, raw) /\ Carried(o) /\ (o.op = "unlink" => o.rec.item # 0)
      BY <1>0, <3>1 DEF KeptParts, Items
    <3>3. ASSUME o.op = "unlink", inbox[o.from] = o.seen, o.rec.item \notin met'
          PROVE  raw'[o.to].item = o.rec.item /\ raw'[o.to].prov # 0
      <4>1. raw[o.to].item = o.rec.item /\ raw[o.to].prov # 0 /\ o.to \in RawIds
        BY <1>5, <3>2, <3>3 DEF Carried, Staffed
      <4>2. CASE o.to # to
        BY <1>3, <4>1, <4>2
      <4>3. CASE o.to = to
        BY <1>2, <1>3, <3>2, <3>3, <4>1, <4>3, FileFacts
      <4> QED BY <4>2, <4>3
    <3>4. Carried(o)'
      BY <1>1, <3>2, <3>3 DEF Carried
    <3> QED BY <3>1, <3>4 DEF Carried
  <2> QED BY <2>1, <2>2
<1> QED BY <1>7, <1>9, <1>10, <1>11, <1>12 DEF KeptInv

\* A file unlinked disturbs nothing: what was promoted from it is in the raw tier.
LEMMA UnlinkItemKept ==
  ASSUME KeptInv, NEW p \in Ingesters, UnlinkItem(p)
  PROVE  KeptInv'
<1>0. KeptParts
  BY KeptSplits
<1>1. /\ raw' = raw /\ cited' = cited /\ ingestClock' = ingestClock
      /\ ingestCommands' = ingestCommands /\ twice' = twice
      /\ ingestJob[p].op = "unlink"
      /\ PutIn(inbox, inbox', ingestJob[p].from, NoFile)
      /\ met' = IF inbox[ingestJob[p].from] = ingestJob[p].seen THEN met
                ELSE met \cup {inbox[ingestJob[p].from].item}
  BY UnlinkItemMoves DEF KeptInv
<1>2. PICK j \in Job : /\ JobTo(p, j) /\ j.op \in {"idle", "drain"} /\ j.rec = NoFile
                       /\ j.op = "drain" => j.todo # {}
  BY UnlinkItemMoves DEF KeptInv
<1>3. PICK from \in RawIds : from = ingestJob[p].from
  BY <1>1 DEF PutIn
<1>4. /\ inbox' \in [RawIds -> AnyFile] /\ inbox'[from] = NoFile
      /\ \A k \in RawIds : k # from => inbox'[k] = inbox[k]
  BY <1>1, <1>3 DEF PutIn
<1>5. met' \subseteq 0..ingestCommands /\ met \subseteq met'
  <2>1. inbox[from] \in AnyFile /\ inbox[from].item <= ingestCommands
    BY <1>0, KeptFacts DEF KeptParts, Numbered
  <2> QED BY <1>0, <1>1, <1>3, <2>1, MetsNumbered
<1>6. Numbered'
  <2>1. \A i \in RawIds : /\ inbox'[i].item <= ingestCommands /\ raw[i].item <= ingestCommands
                          /\ inbox'[i].prov = inbox'[i].item
    BY <1>0, <1>4, FileFacts DEF KeptParts, Numbered
  <2>2. \A q \in Ingesters : ingestJob'[q].rec.item <= ingestCommands
    BY <1>0, <1>2, FileFacts DEF KeptParts, Numbered, JobTo
  <2>3. twice' \cup met' \subseteq 0..ingestCommands
    BY <1>0, <1>1, <1>5 DEF KeptParts, Numbered
  <2> QED BY <1>1, <2>1, <2>2, <2>3 DEF Numbered
<1>7. IngestTyped'
  <2>1. Staffed(j, raw)
    BY <1>2 DEF Staffed, Moving
  <2>2. \A q \in Ingesters : Staffed(ingestJob'[q], raw')
    BY <1>0, <1>1, <1>2, <2>1 DEF KeptParts, JobTo
  <2>3. Grows(raw, raw') /\ raw' \in [RawIds -> AnyFile] /\ ingestClock' \in RawIds
        /\ ingestCommands' \in Nat /\ ingestCommands' <= MaxIngestCommands
        /\ \A r \in RawIds : raw'[r].parent # 0 => raw'[raw'[r].parent] # NoFile
    BY <1>0, <1>1, KeptFacts DEF KeptParts, Grows
  <2>4. twice' \cup met' \subseteq 0..ingestCommands'
    BY <1>6 DEF Numbered
  <2> QED BY <1>0, <1>1, <1>2, <1>4, <2>2, <2>3, <2>4, IngestTypedWhen DEF KeptParts, JobTo
<1>8. Placed'
  <2>1. ASSUME NEW i \in RawIds, NEW k \in RawIds, inbox'[i] # NoFile,
               inbox'[i].item = inbox'[k].item
        PROVE  i = k
    BY <1>0, <1>4, <2>1, FileFacts DEF KeptParts, Placed
  <2>2. ASSUME NEW q \in Ingesters, NEW i \in RawIds, Moving(ingestJob'[q]),
               inbox'[i].item = ingestJob'[q].rec.item
        PROVE  i = ingestJob'[q].from
    <3>1. q # p
      BY <1>2, <2>2 DEF JobTo, Moving
    <3>2. ingestJob[q].rec.item # 0
      BY <1>0, <1>2, <2>2, <3>1 DEF KeptParts, Items, JobTo, Moving
    <3> QED BY <1>0, <1>2, <1>4, <2>2, <3>1, <3>2, FileFacts DEF KeptParts, Placed, JobTo
  <2> QED BY <2>1, <2>2 DEF Placed
<1>9. ASSUME NEW q \in Ingesters PROVE Fresh(q)'
  <2>1. CASE q = p
    BY <1>2, <2>1 DEF Fresh, JobTo
  <2>2. CASE q # p
    <3>1. ingestJob[q].op = "capture" => ingestJob[q].rec.item # 0
      BY <1>0 DEF KeptParts, Items
    <3> QED BY <1>0, <1>1, <1>2, <1>4, <2>2, <3>1, FileFacts DEF KeptParts, Fresh, JobTo
  <2> QED BY <2>1, <2>2
<1>10. ASSUME NEW q \in Ingesters PROVE Carried(ingestJob[q])'
  <2>1. CASE q = p
    BY <1>2, <2>1 DEF Carried, JobTo
  <2>2. CASE q # p
    <3>1. PICK o : o = ingestJob[q] /\ ingestJob'[q] = o
      BY <1>2, <2>2 DEF JobTo
    <3>2. Staffed(o, raw) /\ Carried(o)
      BY <1>0, <3>1 DEF KeptParts
    <3>3. o.op \in {"promote", "unlink"} /\ inbox'[o.from] = o.seen => inbox[o.from] = o.seen
      BY <1>4, <3>2, FileFacts DEF Staffed, Moving
    <3>4. Carried(o)'
      BY <1>1, <1>5, <3>2, <3>3 DEF Carried
    <3> QED BY <3>1, <3>4 DEF Carried
  <2> QED BY <2>1, <2>2
<1> QED BY <1>6, <1>7, <1>8, <1>9, <1>10 DEF KeptInv

LEMMA QuietKept ==
  ASSUME KeptInv, IngestTick \/ (\E r \in RawIds : Cite(r)) \/ UNCHANGED ingestVars
  PROVE  KeptInv'
<1>0. KeptParts
  BY KeptSplits
<1>1. /\ inbox' = inbox /\ raw' = raw /\ ingestJob' = ingestJob
      /\ ingestCommands' = ingestCommands /\ twice' = twice /\ met' = met
      /\ ingestClock' \in RawIds /\ cited' \subseteq cited \cup OnFile(raw)
  BY <1>0, QuietMoves DEF KeptParts
<1>2. Numbered' /\ Placed' /\ \A q \in Ingesters : Fresh(q)' /\ Carried(ingestJob[q])'
  BY <1>0, <1>1 DEF KeptParts, Numbered, Placed, Fresh, Carried
<1>3. IngestTyped'
  <2>1. /\ Grows(raw, raw') /\ ingestJob' \in [Ingesters -> Job]
        /\ raw' \in [RawIds -> AnyFile] /\ inbox' \in [RawIds -> AnyFile]
        /\ ingestCommands' \in Nat /\ ingestCommands' <= MaxIngestCommands
        /\ \A r \in RawIds : raw'[r].parent # 0 => raw'[raw'[r].parent] # NoFile
        /\ \A q \in Ingesters : Staffed(ingestJob'[q], raw')
    BY <1>0, <1>1, KeptFacts DEF KeptParts, Grows
  <2>2. twice' \cup met' \subseteq 0..ingestCommands'
    BY <1>2 DEF Numbered
  <2> QED BY <1>0, <1>1, <2>1, <2>2, IngestTypedWhen DEF KeptParts
<1> QED BY <1>2, <1>3 DEF KeptInv

\* A command begins, or looks, or is killed.
LEMMA JobKept ==
  ASSUME KeptInv, NEW p \in Ingesters,
         \/ InboxAdd(p) \/ Promote(p) \/ ReadItem(p) \/ ReadFields(p) \/ IngestRaw(p)
         \/ (\E r \in RawIds : MarkIngested(p, r)) \/ KillIngester(p)
  PROVE  KeptInv'
<1>0. KeptParts /\ (\A i \in RawIds : inbox[i].item <= ingestCommands)
      /\ Staffed(ingestJob[p], raw) /\ ingestJob[p] \in Job
      /\ ingestJob[p].rec.item <= ingestCommands /\ ingestCommands <= MaxIngestCommands
      /\ twice \subseteq 0..ingestCommands /\ ingestJob[p].rec.item \in Nat
  BY KeptSplits, KeptFacts DEF KeptParts, Numbered, Items
<1>1. twice \subseteq 0..(ingestCommands + 1)
  BY <1>0 DEF KeptParts
<1>2. CASE InboxAdd(p)
  <2>1. PICK j \in Job : /\ JobTo(p, j) /\ j.op = "capture" /\ j.to \in RawIds /\ j.rec \in File
                         /\ j.rec.item = ingestCommands' /\ j.rec.prov = j.rec.item
                         /\ j.rec.parent = 0
    BY <1>0, <1>2, InboxAddMoves DEF KeptParts
  <2>2. Staffed(j, raw) /\ ~Moving(j) /\ Carried(j)
    BY <2>1 DEF Staffed, Moving, Carried
  <2>3. /\ UNCHANGED <<inbox, raw, cited, ingestClock, twice, met>>
        /\ ingestCommands' = ingestCommands + 1 /\ ingestCommands' <= MaxIngestCommands
    BY <1>0, <1>2, InboxAddMoves DEF KeptParts
  <2>4. twice' \subseteq 0..ingestCommands' /\ j.rec.item <= ingestCommands'
    BY <1>0, <1>1, <2>1, <2>3 DEF KeptParts
  <2> QED BY <2>1, <2>2, <2>3, <2>4, JobOnly
<1>3. CASE Promote(p)
  <2>1. PICK j \in Job : JobTo(p, j) /\ j.op = "drain" /\ j.todo # {} /\ j.rec = NoFile
    BY <1>0, <1>3, PromoteMoves DEF KeptParts
  <2>2. Staffed(j, raw) /\ ~Moving(j) /\ Carried(j) /\ j.rec.item = 0
    BY <2>1, FileFacts DEF Staffed, Moving, Carried
  <2>3. /\ UNCHANGED <<inbox, raw, cited, ingestClock, twice, met>>
        /\ ingestCommands' = ingestCommands + 1 /\ ingestCommands' <= MaxIngestCommands
    BY <1>0, <1>3, PromoteMoves DEF KeptParts
  <2>4. twice' \subseteq 0..ingestCommands' /\ j.rec.item <= ingestCommands'
    BY <1>0, <1>1, <2>2, <2>3 DEF KeptParts
  <2> QED BY <2>1, <2>2, <2>3, <2>4, JobOnly
<1>4. CASE ReadItem(p)
  <2>1. /\ UNCHANGED <<inbox, raw, cited, ingestClock, ingestCommands, met>>
        /\ ingestJob[p].op = "drain"
    BY <1>0, <1>4, ReadItemMoves DEF KeptParts
  <2>2. PICK i \in RawIds, j \in Job :
          /\ JobTo(p, j)
          /\ twice' = twice \cup {n \in {inbox[i].item} : \E q \in Ingesters : Promoting(q, n)}
          /\ \/ /\ inbox[i] # NoFile /\ j.op = "fields" /\ j.from = i /\ j.seen = inbox[i]
                /\ j.rec \in File /\ j.rec.item = inbox[i].item /\ j.rec.parent = 0
             \/ j.op \in {"idle", "drain"} /\ (j.op = "drain" => j.todo # {})
                /\ j.rec = ingestJob[p].rec
             \/ j = IdleIngester
    BY <1>0, <1>4, ReadItemMoves DEF KeptParts
  <2>3. twice' \subseteq 0..ingestCommands'
    <3>1. inbox[i].item \in 0..ingestCommands
      BY <1>0 DEF KeptParts, Items
    <3> QED BY <1>0, <2>1, <2>2, <3>1
  <2>4. CASE /\ inbox[i] # NoFile /\ j.op = "fields" /\ j.from = i /\ j.seen = inbox[i]
             /\ j.rec \in File /\ j.rec.item = inbox[i].item /\ j.rec.parent = 0
    <3>1. j.seen \in File
      BY <1>0, <2>4, KeptFacts, FileFacts DEF KeptParts
    <3>2. Staffed(j, raw) /\ Carried(j)
      BY <2>2, <2>4, <3>1 DEF Staffed, Moving, Carried
    <3>3. \A k \in RawIds : inbox[k].item = j.rec.item => k = j.from
      BY <1>0, <2>4 DEF KeptParts, Placed
    <3>4. j.rec.item <= ingestCommands'
      BY <1>0, <2>1, <2>4
    <3> QED BY <1>0, <2>1, <2>2, <2>3, <2>4, <3>2, <3>3, <3>4, JobOnly
  <2>5. CASE j.op \in {"idle", "drain"} /\ (j.op = "drain" => j.todo # {})
             /\ j.rec = ingestJob[p].rec
    <3>1. Staffed(j, raw) /\ ~Moving(j) /\ Carried(j)
      BY <2>2, <2>5 DEF Staffed, Moving, Carried
    <3> QED BY <1>0, <2>1, <2>2, <2>3, <2>5, <3>1, JobOnly
  <2>6. CASE j = IdleIngester
    <3>1. Staffed(j, raw) /\ ~Moving(j) /\ Carried(j) /\ j.rec.item = 0 /\ j.op = "idle"
      BY <2>6, IdleFacts DEF Staffed, Moving, Carried
    <3>2. j.rec.item <= ingestCommands'
      BY <1>0, <2>1, <3>1 DEF KeptParts
    <3> QED BY <1>0, <2>1, <2>2, <2>3, <3>1, <3>2, JobOnly
  <2> QED BY <2>2, <2>4, <2>5, <2>6
<1>5. CASE ReadFields(p)
  <2>1. /\ UNCHANGED <<inbox, raw, cited, ingestClock, ingestCommands, twice, met>>
        /\ ingestJob[p].op = "fields"
    BY <1>0, <1>5, ReadFieldsMoves DEF KeptParts
  <2>2. PICK j \in Job : /\ JobTo(p, j) /\ j.op = "promote" /\ j.to \in RawIds
                         /\ j.from = ingestJob[p].from /\ j.seen = ingestJob[p].seen
                         /\ j.rec \in File /\ j.rec.item = ingestJob[p].rec.item
                         /\ j.rec.prov = inbox[ingestJob[p].from].prov
                         /\ j.rec.parent = ingestJob[p].rec.parent
    BY <1>0, <1>5, ReadFieldsMoves DEF KeptParts
  <2>3. /\ j.from \in RawIds /\ j.seen \in File /\ j.rec.item = j.seen.item /\ j.rec.parent = 0
        /\ \A k \in RawIds : inbox[k].item = j.rec.item => k = j.from
    BY <1>0, <2>1, <2>2 DEF Staffed, Moving, KeptParts, Placed
  <2>4. Staffed(j, raw)
    BY <2>2, <2>3 DEF Staffed, Moving
  <2>5. Carried(j)
    <3>1. j.seen.item # 0
      BY <2>3 DEF File
    <3> QED BY <1>0, <2>2, <2>3, <3>1 DEF KeptParts, Numbered, Carried
  <2> QED BY <1>0, <2>1, <2>2, <2>3, <2>4, <2>5, JobOnly
<1>6. CASE IngestRaw(p)
  <2>1. PICK j \in Job : /\ JobTo(p, j) /\ j.op = "raw" /\ j.to \in RawIds /\ j.rec \in File
                         /\ j.rec.item = ingestCommands' /\ j.seen = NoFile
                         /\ j.rec.parent # 0 => raw[j.rec.parent] # NoFile
    BY <1>0, <1>6, IngestRawMoves DEF KeptParts
  <2>2. Staffed(j, raw) /\ ~Moving(j) /\ Carried(j)
    BY <2>1 DEF Staffed, Moving, Carried
  <2>3. /\ UNCHANGED <<inbox, raw, cited, ingestClock, twice, met>>
        /\ ingestCommands' = ingestCommands + 1 /\ ingestCommands' <= MaxIngestCommands
    BY <1>0, <1>6, IngestRawMoves DEF KeptParts
  <2>4. twice' \subseteq 0..ingestCommands' /\ j.rec.item <= ingestCommands'
    BY <1>0, <1>1, <2>1, <2>3 DEF KeptParts
  <2> QED BY <2>1, <2>2, <2>3, <2>4, JobOnly
<1>7. ASSUME NEW r \in RawIds, MarkIngested(p, r) PROVE KeptInv'
  <2>1. PICK j \in Job : /\ JobTo(p, j) /\ j.op = "raw" /\ j.to = r /\ j.rec \in File
                         /\ j.seen = raw[r] /\ j.rec.item = raw[r].item
                         /\ j.rec.prov = raw[r].prov /\ j.rec.parent = raw[r].parent
    BY <1>0, <1>7, MarkIngestedMoves DEF KeptParts
  <2>2. Staffed(j, raw) /\ ~Moving(j) /\ Carried(j)
    BY <1>0, <2>1 DEF KeptParts, Staffed, Moving, Carried
  <2>3. /\ UNCHANGED <<inbox, raw, cited, ingestClock, twice, met>>
        /\ ingestCommands' = ingestCommands + 1 /\ ingestCommands' <= MaxIngestCommands
    BY <1>0, <1>7, MarkIngestedMoves DEF KeptParts
  <2>4. twice' \subseteq 0..ingestCommands' /\ j.rec.item <= ingestCommands'
    BY <1>0, <1>1, <2>1, <2>3 DEF KeptParts, Numbered, Items
  <2> QED BY <2>1, <2>2, <2>3, <2>4, JobOnly
<1>8. CASE KillIngester(p)
  <2>1. /\ UNCHANGED <<inbox, raw, cited, ingestClock, ingestCommands, met>>
        /\ JobTo(p, IdleIngester)
        /\ twice' = IF ingestJob[p].op = "unlink" THEN twice \cup {ingestJob[p].rec.item} ELSE twice
    BY <1>0, <1>8, KillIngesterMoves DEF KeptParts
  <2>2. twice' \subseteq 0..ingestCommands'
    <3>1. ingestJob[p].rec.item \in 0..ingestCommands
      BY <1>0 DEF KeptParts
    <3> QED BY <1>0, <2>1, <3>1
  <2>3. Staffed(IdleIngester, raw) /\ ~Moving(IdleIngester) /\ Carried(IdleIngester)
        /\ IdleIngester.rec.item = 0 /\ IdleIngester.op = "idle" /\ IdleIngester \in Job
    BY IdleFacts DEF Staffed, Moving, Carried
  <2>4. IdleIngester.rec.item <= ingestCommands'
    BY <1>0, <2>1, <2>3 DEF KeptParts
  <2> QED BY <1>0, <2>1, <2>2, <2>3, <2>4, JobOnly
<1> QED BY <1>2, <1>3, <1>4, <1>5, <1>6, <1>7, <1>8

LEMMA KeptInit == IngestInit => KeptInv
<1> SUFFICES ASSUME IngestInit PROVE KeptInv
  OBVIOUS
<1>1. /\ \A i \in RawIds : inbox[i] = NoFile /\ raw[i] = NoFile
      /\ \A p \in Ingesters : ingestJob[p] = IdleIngester
      /\ cited = {} /\ twice = {} /\ met = {} /\ ingestCommands = 0 /\ ingestClock = 1
  BY DEF IngestInit
<1>2. IngestTyped
  <2>1. /\ inbox \in [RawIds -> AnyFile] /\ raw \in [RawIds -> AnyFile]
        /\ ingestJob \in [Ingesters -> Job]
    BY IdleFacts DEF IngestInit, AnyFile
  <2>2. Staffed(IdleIngester, raw)
    BY IdleFacts DEF Staffed, Moving
  <2>3. OnFile(raw) = {}
    BY <1>1 DEF OnFile
  <2> QED BY <1>1, <2>1, <2>2, <2>3, IngestBounds DEF IngestTyped, IngestTypes, AnyFile, RawIds
<1>3. Numbered
  BY <1>1, IdleFacts, FileFacts DEF Numbered
<1>4. Placed
  BY <1>1, IdleFacts DEF Placed, Moving
<1>5. \A p \in Ingesters : Fresh(p) /\ Carried(ingestJob[p])
  BY <1>1, IdleFacts DEF Fresh, Carried
<1> QED BY <1>2, <1>3, <1>4, <1>5 DEF KeptInv

LEMMA KeptStep == KeptInv /\ [IngestNext]_ingestVars => KeptInv'
<1> SUFFICES ASSUME KeptInv, [IngestNext]_ingestVars PROVE KeptInv'
  OBVIOUS
<1>0. IngestTyped /\ KeptParts
  BY KeptSplits DEF KeptParts
<1>1. ASSUME NEW p \in Ingesters, WritePromoted(p) PROVE KeptInv'
  <2>1. ingestJob[p].to \in RawIds /\ ingestJob[p].op = "promote"
    BY <1>0, <1>1, WritePromotedMoves DEF PutIn
  <2>2. PICK j \in Job : /\ JobTo(p, j) /\ j.op = "unlink" /\ j.to = ingestJob[p].to
                         /\ j.from = ingestJob[p].from /\ j.seen = ingestJob[p].seen
                         /\ j.rec = ingestJob[p].rec
    BY <1>0, <1>1, WritePromotedMoves
  <2>3. /\ UNCHANGED <<inbox, cited, ingestClock, ingestCommands, twice>>
        /\ PutIn(raw, raw', ingestJob[p].to, ingestJob[p].rec)
        /\ met' = IF raw[ingestJob[p].to] = NoFile THEN met
                  ELSE met \cup {raw[ingestJob[p].to].item}
    BY <1>0, <1>1, WritePromotedMoves
  <2> QED BY <2>1, <2>2, <2>3, WriteRawKept
<1>2. ASSUME NEW p \in Ingesters, WriteRaw(p) PROVE KeptInv'
  <2>1. ingestJob[p].to \in RawIds /\ ingestJob[p].op = "raw" /\ JobTo(p, IdleIngester)
        /\ IdleIngester \in Job
    BY <1>0, <1>2, WriteRawMoves, IdleFacts DEF PutIn
  <2>2. /\ UNCHANGED <<inbox, cited, ingestClock, ingestCommands, twice>>
        /\ PutIn(raw, raw', ingestJob[p].to, ingestJob[p].rec)
        /\ met' = IF raw[ingestJob[p].to] = ingestJob[p].seen THEN met
                  ELSE met \cup {raw[ingestJob[p].to].item}
    BY <1>0, <1>2, WriteRawMoves
  <2>3. ingestJob[p].seen # NoFile => /\ ingestJob[p].seen.item = ingestJob[p].rec.item
                                      /\ ingestJob[p].seen.prov = ingestJob[p].rec.prov
    BY <1>0, <2>1 DEF KeptParts, Staffed
  <2> QED BY <2>1, <2>2, <2>3, WriteRawKept
<1>3. CASE IngestTick \/ (\E r \in RawIds : Cite(r)) \/ UNCHANGED ingestVars
  BY <1>3, QuietKept
<1> QED BY <1>1, <1>2, <1>3, JobKept, WriteInboxKept, UnlinkItemKept DEF IngestNext

\* The tiers hold files, and what shards name as parents and documents cite is
\* on file, wherever commands overlap or are killed.
THEOREM IngestTypesHold == IngestSpec => []IngestTypes
<1>1. KeptInv => IngestTypes
  BY DEF KeptInv, IngestTyped
<1> QED BY <1>1, KeptInit, KeptStep, PTL DEF IngestSpec

HeldIn(n, box, files) == \E i \in RawIds : box[i].item = n \/ files[i].item = n
SourcedIn(n, box, files) ==
  \E i \in RawIds : box[i].item = n \/ (files[i].item = n /\ files[i].prov # 0)

LEMMA HeldSays ==
  ASSUME NEW n \in Nat \ {0}
  PROVE  /\ Held(n) <=> HeldIn(n, inbox, raw)
         /\ Sourced(n) <=> SourcedIn(n, inbox, raw)
BY FileFacts DEF Held, Sourced, HeldIn, SourcedIn, Copies, OnFile

LEMMA HeldSaysNext ==
  ASSUME NEW n \in Nat \ {0}
  PROVE  /\ Held(n)' <=> HeldIn(n, inbox', raw')
         /\ Sourced(n)' <=> SourcedIn(n, inbox', raw')
BY FileFacts DEF Held, Sourced, HeldIn, SourcedIn, Copies, OnFile

\* No item is lost but by two commands that meet on it.
LEMMA WritesKeep ==
  ASSUME KeptInv, IngestNext, NEW n \in Nat \ {0}, n \notin met', HeldIn(n, inbox, raw)
  PROVE  /\ HeldIn(n, inbox', raw')
         /\ SourcedIn(n, inbox, raw) => SourcedIn(n, inbox', raw')
<1>0. KeptParts /\ IngestTyped
  BY KeptSplits DEF KeptParts
<1>1. CASE inbox' = inbox /\ raw' = raw
  BY <1>1
<1>2. ASSUME NEW p \in Ingesters, WriteInbox(p)
      PROVE  /\ HeldIn(n, inbox', raw')
             /\ SourcedIn(n, inbox, raw) => SourcedIn(n, inbox', raw')
  <2>1. /\ raw' = raw /\ PutIn(inbox, inbox', ingestJob[p].to, ingestJob[p].rec)
        /\ met' = IF inbox[ingestJob[p].to] = NoFile THEN met
                  ELSE met \cup {inbox[ingestJob[p].to].item}
    BY <1>0, <1>2, WriteInboxMoves
  <2>2. inbox[ingestJob[p].to].item # n
    BY <2>1, FileFacts
  <2>3. \A i \in RawIds : inbox[i].item = n => inbox'[i].item = n
    BY <2>1, <2>2 DEF PutIn
  <2> QED BY <2>1, <2>3 DEF HeldIn, SourcedIn
<1>3. ASSUME NEW p \in Ingesters, WritePromoted(p)
      PROVE  /\ HeldIn(n, inbox', raw')
             /\ SourcedIn(n, inbox, raw) => SourcedIn(n, inbox', raw')
  <2>1. /\ inbox' = inbox /\ PutIn(raw, raw', ingestJob[p].to, ingestJob[p].rec)
        /\ met' = IF raw[ingestJob[p].to] = NoFile THEN met
                  ELSE met \cup {raw[ingestJob[p].to].item}
    BY <1>0, <1>3, WritePromotedMoves
  <2>2. raw[ingestJob[p].to].item # n
    BY <2>1, FileFacts
  <2>3. \A i \in RawIds : raw[i].item = n => raw'[i] = raw[i]
    BY <2>1, <2>2 DEF PutIn
  <2> QED BY <2>1, <2>3 DEF HeldIn, SourcedIn
<1>4. ASSUME NEW p \in Ingesters, UnlinkItem(p)
      PROVE  /\ HeldIn(n, inbox', raw')
             /\ SourcedIn(n, inbox, raw) => SourcedIn(n, inbox', raw')
  <2>1. /\ raw' = raw /\ PutIn(inbox, inbox', ingestJob[p].from, NoFile)
        /\ ingestJob[p].op = "unlink"
        /\ met' = IF inbox[ingestJob[p].from] = ingestJob[p].seen THEN met
                  ELSE met \cup {inbox[ingestJob[p].from].item}
    BY <1>0, <1>4, UnlinkItemMoves
  <2>2. CASE inbox[ingestJob[p].from].item # n
    <3>1. \A i \in RawIds : inbox[i].item = n => inbox'[i] = inbox[i]
      BY <2>1, <2>2 DEF PutIn
    <3> QED BY <2>1, <3>1 DEF HeldIn, SourcedIn
  <2>3. CASE inbox[ingestJob[p].from].item = n
    <3>1. inbox[ingestJob[p].from] = ingestJob[p].seen /\ met' = met
      BY <2>1, <2>3
    <3>2. Staffed(ingestJob[p], raw) /\ Carried(ingestJob[p])
      BY <1>0 DEF KeptParts
    <3>3. ingestJob[p].rec.item = n /\ ingestJob[p].to \in RawIds
      BY <2>1, <2>3, <3>1, <3>2 DEF Staffed, Moving
    <3>4. raw[ingestJob[p].to].item = n /\ raw[ingestJob[p].to].prov # 0
      BY <2>1, <3>1, <3>2, <3>3 DEF Carried
    <3> QED BY <2>1, <3>3, <3>4 DEF HeldIn, SourcedIn
  <2> QED BY <2>2, <2>3
<1>5. ASSUME NEW p \in Ingesters, WriteRaw(p)
      PROVE  /\ HeldIn(n, inbox', raw')
             /\ SourcedIn(n, inbox, raw) => SourcedIn(n, inbox', raw')
  <2>1. /\ inbox' = inbox /\ PutIn(raw, raw', ingestJob[p].to, ingestJob[p].rec)
        /\ ingestJob[p].op = "raw"
        /\ met' = IF raw[ingestJob[p].to] = ingestJob[p].seen THEN met
                  ELSE met \cup {raw[ingestJob[p].to].item}
    BY <1>0, <1>5, WriteRawMoves
  <2>2. CASE raw[ingestJob[p].to].item # n
    <3>1. \A i \in RawIds : raw[i].item = n => raw'[i] = raw[i]
      BY <2>1, <2>2 DEF PutIn
    <3> QED BY <2>1, <3>1 DEF HeldIn, SourcedIn
  <2>3. CASE raw[ingestJob[p].to].item = n
    <3>1. raw[ingestJob[p].to] = ingestJob[p].seen /\ ingestJob[p].seen # NoFile
      BY <2>1, <2>3, FileFacts
    <3>2. Staffed(ingestJob[p], raw)
      BY <1>0 DEF KeptParts
    <3>3. /\ raw'[ingestJob[p].to].item = n
          /\ raw'[ingestJob[p].to].prov = raw[ingestJob[p].to].prov
      BY <2>1, <2>3, <3>1, <3>2 DEF Staffed, PutIn
    <3>4. \A i \in RawIds : raw[i].item = n => raw'[i].item = n /\ raw'[i].prov = raw[i].prov
      BY <2>1, <3>3 DEF PutIn
    <3> QED BY <2>1, <3>4 DEF HeldIn, SourcedIn
  <2> QED BY <2>2, <2>3
<1> QED BY <1>1, <1>2, <1>3, <1>4, <1>5 DEF IngestNext, IngestTick, Cite, InboxAdd, Promote,
        ReadItem, ReadFields, IngestRaw, Ingests, MarkIngested, KillIngester

\* What was captured stays on file with its provenance, through promotion,
\* marking and any crash, unless two commands met on the file (_inbox_add,
\* _promote_one, ingest_raw, _raw_mark_ingested).
THEOREM CaptureKeptHolds == IngestSpec => CaptureKept
<1> DEFINE Keeps ==
      \A n \in (1..MaxIngestCommands) \ met' :
        Held(n) => Held(n)' /\ (Sourced(n) => Sourced(n)')
<1>1. KeptInv /\ [IngestNext]_ingestVars => [Keeps]_ingestVars
  <2> SUFFICES ASSUME KeptInv, IngestNext, NEW n \in (1..MaxIngestCommands) \ met', Held(n)
               PROVE  Held(n)' /\ (Sourced(n) => Sourced(n)')
    OBVIOUS
  <2>1. n \in Nat \ {0}
    BY IngestBounds
  <2> QED BY <2>1, WritesKeep, HeldSays, HeldSaysNext
<1>2. CaptureKept <=> [][Keeps]_ingestVars
  BY PTL DEF CaptureKept
<1> QED BY <1>1, <1>2, KeptInit, KeptStep, PTL DEF IngestSpec

-----------------------------------------------------------------------------
(* An item is promoted once *)

\* What a job has to do with item n.
Mov(j, n) == Moving(j) /\ j.rec.item = n
Unl(j, n) == j.op = "unlink" /\ j.rec.item = n
Mar(j, n) == j.op = "raw" /\ j.rec.item = n

\* Item n goes to one place of the raw tier: it is promoted by one command, and
\* not again once it is there or on its way.
OnceIn(n, box, files, jobs) ==
  /\ \A p, q \in Ingesters : Mov(jobs[p], n) /\ Mov(jobs[q], n) => p = q
  /\ \A p \in Ingesters : Mov(jobs[p], n) /\ ~Unl(jobs[p], n) =>
       /\ \A r \in RawIds : files[r].item # n
       /\ \A q \in Ingesters : ~Mar(jobs[q], n)
  /\ \A i \in RawIds :
       box[i].item = n /\ ((\E r \in RawIds : files[r].item = n) \/ (\E q \in Ingesters : Mar(jobs[q], n)))
       => \E p \in Ingesters : Unl(jobs[p], n) /\ jobs[p].from = i
  /\ \A r, s \in RawIds : files[r].item = n /\ files[s].item = n => r = s
  /\ \A p \in Ingesters, r \in RawIds :
       (Unl(jobs[p], n) \/ Mar(jobs[p], n)) /\ files[r].item = n => r = jobs[p].to
  /\ \A p, q \in Ingesters :
       (Unl(jobs[p], n) \/ Mar(jobs[p], n)) /\ (Unl(jobs[q], n) \/ Mar(jobs[q], n))
       => jobs[p].to = jobs[q].to

LEMMA UnlMoves == ASSUME NEW j, NEW n, Unl(j, n) PROVE Mov(j, n) /\ ~Mar(j, n)
BY DEF Unl, Mov, Mar, Moving

\* The files show no item n they did not, and p has no more to do with it than
\* before; unless p was to unlink it, and its inbox file has gone.
LEMMA OnceLess ==
  ASSUME NEW n, OnceIn(n, inbox, raw, ingestJob), NEW p \in Ingesters, NEW j, JobTo(p, j),
         \A i \in RawIds : inbox'[i].item = n => inbox[i].item = n,
         \A r \in RawIds : raw'[r].item = n => raw[r].item = n,
         ~Mov(j, n), ~Mar(j, n),
         Unl(ingestJob[p], n) => \A i \in RawIds : inbox'[i].item # n
  PROVE  OnceIn(n, inbox', raw', ingestJob')
<1>1. ingestJob'[p] = j /\ \A q \in Ingesters : q # p => ingestJob'[q] = ingestJob[q]
  BY DEF JobTo
<1>2. ~Unl(j, n)
  BY UnlMoves
<1>3. \A q \in Ingesters : /\ Mov(ingestJob'[q], n) => q # p
                           /\ Mar(ingestJob'[q], n) => q # p
                           /\ Unl(ingestJob'[q], n) => q # p
  BY <1>1, <1>2
<1> QED BY <1>1, <1>3 DEF OnceIn

\* Nothing has to do with n but p.
LEMMA OnceNew ==
  ASSUME NEW n, NEW p \in Ingesters, NEW j, JobTo(p, j),
         \A r \in RawIds : raw'[r].item # n, ~Unl(j, n),
         \A q \in Ingesters : q # p => ingestJob[q].rec.item # n,
         Mov(j, n) \/ \A i \in RawIds : inbox'[i].item # n
  PROVE  OnceIn(n, inbox', raw', ingestJob')
<1>1. ingestJob'[p] = j /\ \A q \in Ingesters : q # p => ingestJob'[q] = ingestJob[q]
  BY DEF JobTo
<1>2. \A q \in Ingesters : Mov(ingestJob'[q], n) \/ Mar(ingestJob'[q], n) \/ Unl(ingestJob'[q], n) => q = p
  BY <1>1 DEF Mov, Mar, Unl
<1>3. Mov(j, n) => ~Mar(j, n)
  BY DEF Mov, Mar, Moving
<1> QED BY <1>1, <1>2, <1>3 DEF OnceIn

LEMMA OnceIssued ==
  ASSUME KeptInv, NEW p \in Ingesters, NEW n \in Nat \ {0}, OnceIn(n, inbox, raw, ingestJob),
         InboxAdd(p) \/ Promote(p) \/ IngestRaw(p) \/ \E r \in RawIds : MarkIngested(p, r)
  PROVE  OnceIn(n, inbox', raw', ingestJob')
<1>0. KeptParts /\ IngestTyped /\ Numbered /\ Items /\ ingestCommands \in Nat
  BY KeptSplits DEF KeptParts
<1>1. inbox' = inbox /\ raw' = raw /\ ingestJob[p].op = "idle"
  BY DEF InboxAdd, Promote, IngestRaw, Ingests, MarkIngested
<1>2. ~Unl(ingestJob[p], n)
  BY <1>1 DEF Unl
<1>3. ASSUME NEW j \in Job, JobTo(p, j), ~Mov(j, n), ~Mar(j, n)
      PROVE  OnceIn(n, inbox', raw', ingestJob')
  BY <1>1, <1>2, <1>3, OnceLess
<1>4. CASE InboxAdd(p)
  <2>1. PICK j \in Job : JobTo(p, j) /\ j.op = "capture"
    BY <1>0, <1>4, InboxAddMoves
  <2> QED BY <1>3, <2>1 DEF Mov, Mar, Moving
<1>5. CASE Promote(p)
  <2>1. PICK j \in Job : JobTo(p, j) /\ j.op = "drain"
    BY <1>0, <1>5, PromoteMoves
  <2> QED BY <1>3, <2>1 DEF Mov, Mar, Moving
<1>6. CASE IngestRaw(p)
  <2>1. PICK j \in Job : JobTo(p, j) /\ j.op = "raw" /\ j.rec.item = ingestCommands + 1
    BY <1>0, <1>6, IngestRawMoves
  <2>2. CASE n = ingestCommands + 1
    <3>1. \A i \in RawIds : inbox'[i].item # n /\ raw'[i].item # n
      BY <1>0, <1>1, <2>2 DEF Numbered, Items
    <3>2. \A q \in Ingesters : ingestJob[q].rec.item # n
      BY <1>0, <2>2 DEF Numbered, Items
    <3>3. ~Unl(j, n)
      BY <2>1 DEF Unl
    <3> QED BY <2>1, <3>1, <3>2, <3>3, OnceNew
  <2>3. CASE n # ingestCommands + 1
    BY <1>3, <2>1, <2>3 DEF Mov, Mar, Moving
  <2> QED BY <2>2, <2>3
<1>7. ASSUME NEW r \in RawIds, MarkIngested(p, r) PROVE OnceIn(n, inbox', raw', ingestJob')
  <2>1. PICK j \in Job : JobTo(p, j) /\ j.op = "raw" /\ j.rec.item = raw[r].item /\ j.to = r
    BY <1>0, <1>7, MarkIngestedMoves
  <2>2. CASE raw[r].item # n
    BY <1>3, <2>1, <2>2 DEF Mov, Mar, Moving
  <2>3. CASE raw[r].item = n
    <3>1. ingestJob'[p] = j /\ \A q \in Ingesters : q # p => ingestJob'[q] = ingestJob[q]
      BY <2>1 DEF JobTo
    <3>2. ~Mov(j, n) /\ ~Unl(j, n) /\ Mar(j, n)
      BY <2>1, <2>3 DEF Mov, Mar, Unl, Moving
    <3>3. \A q \in Ingesters : /\ Mov(ingestJob'[q], n) => q # p
                               /\ Unl(ingestJob'[q], n) => q # p
      BY <3>1, <3>2
    <3>4. \A q \in Ingesters : Mov(ingestJob[q], n) => Unl(ingestJob[q], n)
      BY <2>3 DEF OnceIn
    <3>5. \A q \in Ingesters, s \in RawIds :
            (Unl(ingestJob'[q], n) \/ Mar(ingestJob'[q], n)) /\ raw[s].item = n
            => s = ingestJob'[q].to
      BY <2>1, <2>3, <3>1 DEF OnceIn
    <3>6. \A i \in RawIds : inbox[i].item = n =>
            \E q \in Ingesters : Unl(ingestJob[q], n) /\ ingestJob[q].from = i
      BY <2>3 DEF OnceIn
    <3>7. \A q \in Ingesters : Unl(ingestJob[q], n) => q # p
      BY <1>2
    <3>8. \A i \in RawIds : inbox[i].item = n =>
            \E q \in Ingesters : Unl(ingestJob'[q], n) /\ ingestJob'[q].from = i
      BY <3>1, <3>6, <3>7
    <3>9. \A q, o \in Ingesters : Mov(ingestJob'[q], n) /\ Mov(ingestJob'[o], n) => q = o
      BY <3>1, <3>3 DEF OnceIn
    <3>10. \A s, t \in RawIds : raw[s].item = n /\ raw[t].item = n => s = t
      BY DEF OnceIn
    <3>11. \A q \in Ingesters : Mov(ingestJob'[q], n) => Unl(ingestJob'[q], n)
      BY <3>1, <3>3, <3>4
    <3>12. \A q, o \in Ingesters :
             (Unl(ingestJob'[q], n) \/ Mar(ingestJob'[q], n))
             /\ (Unl(ingestJob'[o], n) \/ Mar(ingestJob'[o], n))
             => ingestJob'[q].to = ingestJob'[o].to
      BY <2>3, <3>5
    <3> QED BY <1>1, <3>5, <3>8, <3>9, <3>10, <3>11, <3>12 DEF OnceIn
  <2> QED BY <2>2, <2>3
<1> QED BY <1>4, <1>5, <1>6, <1>7

LEMMA OncePromoted ==
  ASSUME KeptInv, NEW p \in Ingesters, NEW n \in Nat \ {0}, OnceIn(n, inbox, raw, ingestJob),
         n \notin twice', ReadItem(p) \/ ReadFields(p) \/ WritePromoted(p) \/ UnlinkItem(p)
  PROVE  OnceIn(n, inbox', raw', ingestJob')
<1>0. KeptParts /\ IngestTyped /\ Placed /\ Staffed(ingestJob[p], raw)
  BY KeptSplits DEF KeptParts
<1>1. CASE ReadItem(p)
  <2>1. inbox' = inbox /\ raw' = raw /\ ~Unl(ingestJob[p], n) /\ ~Mov(ingestJob[p], n)
        /\ ~Mar(ingestJob[p], n)
    BY <1>0, <1>1, ReadItemMoves DEF Unl, Mov, Mar, Moving
  <2>2. PICK i \in RawIds, j \in Job :
          /\ JobTo(p, j)
          /\ twice' = twice \cup {m \in {inbox[i].item} : \E q \in Ingesters : Promoting(q, m)}
          /\ \/ /\ inbox[i] # NoFile /\ j.op = "fields" /\ j.from = i /\ j.seen = inbox[i]
                /\ j.rec \in File /\ j.rec.item = inbox[i].item /\ j.rec.parent = 0
             \/ j.op \in {"idle", "drain"} /\ (j.op = "drain" => j.todo # {})
                /\ j.rec = ingestJob[p].rec
             \/ j = IdleIngester
    BY <1>0, <1>1, ReadItemMoves
  <2>3. CASE j.op = "fields" /\ j.rec.item = n /\ inbox[i].item = n
    <3>1. \A q \in Ingesters : ~Mov(ingestJob[q], n)
      <4>1. ~ \E q \in Ingesters : Promoting(q, n)
        BY <2>2, <2>3
      <4> QED BY <4>1 DEF Promoting, Mov, Moving
    <3>2. \A q \in Ingesters : ~Unl(ingestJob[q], n)
      BY <3>1, UnlMoves
    <3>3. (\A r \in RawIds : raw[r].item # n) /\ (\A q \in Ingesters : ~Mar(ingestJob[q], n))
      BY <2>3, <3>2 DEF OnceIn
    <3>4. ~Unl(j, n) /\ ~Mar(j, n)
      BY <2>3 DEF Unl, Mar
    <3>5. \A q \in Ingesters : /\ ~Unl(ingestJob'[q], n) /\ ~Mar(ingestJob'[q], n)
                               /\ Mov(ingestJob'[q], n) => q = p
      BY <2>2, <3>1, <3>2, <3>3, <3>4 DEF JobTo
    <3> QED BY <2>1, <3>3, <3>5 DEF OnceIn
  <2>4. CASE ~(j.op = "fields" /\ j.rec.item = n)
    <3>1. ~Mov(j, n) /\ ~Mar(j, n)
      BY <2>2, <2>4, IdleFacts DEF Mov, Mar, Moving
    <3> QED BY <2>1, <2>2, <3>1, OnceLess
  <2> QED BY <2>2, <2>3, <2>4, IdleFacts
<1>2. CASE ReadFields(p)
  <2>1. PICK j \in Job : /\ JobTo(p, j) /\ j.op = "promote" /\ j.from = ingestJob[p].from
                         /\ j.rec.item = ingestJob[p].rec.item
    BY <1>0, <1>2, ReadFieldsMoves
  <2>2. inbox' = inbox /\ raw' = raw /\ ingestJob[p].op = "fields"
    BY <1>0, <1>2, ReadFieldsMoves
  <2>3. /\ Mov(j, n) <=> Mov(ingestJob[p], n)
        /\ ~Unl(j, n) /\ ~Unl(ingestJob[p], n) /\ ~Mar(j, n) /\ ~Mar(ingestJob[p], n)
    BY <2>1, <2>2 DEF Mov, Unl, Mar, Moving
  <2>4. \A q \in Ingesters : /\ Mov(ingestJob'[q], n) <=> Mov(ingestJob[q], n)
                             /\ Unl(ingestJob'[q], n) <=> Unl(ingestJob[q], n)
                             /\ Mar(ingestJob'[q], n) <=> Mar(ingestJob[q], n)
                             /\ Unl(ingestJob[q], n) \/ Mar(ingestJob[q], n) => ingestJob'[q] = ingestJob[q]
    BY <2>1, <2>3 DEF JobTo
  <2> QED BY <2>2, <2>4 DEF OnceIn
<1>3. CASE WritePromoted(p)
  <2>1. PICK j \in Job : /\ JobTo(p, j) /\ j.op = "unlink" /\ j.to = ingestJob[p].to
                         /\ j.from = ingestJob[p].from /\ j.rec = ingestJob[p].rec
    BY <1>0, <1>3, WritePromotedMoves
  <2>2. inbox' = inbox /\ ingestJob[p].op = "promote"
        /\ PutIn(raw, raw', ingestJob[p].to, ingestJob[p].rec)
    BY <1>0, <1>3, WritePromotedMoves
  <2>3. CASE ingestJob[p].rec.item # n
    <3>1. ~Mov(j, n) /\ ~Mar(j, n) /\ ~Unl(ingestJob[p], n)
      BY <2>1, <2>3 DEF Mov, Mar, Unl
    <3>2. \A r \in RawIds : raw'[r].item = n => raw[r].item = n
      BY <2>2, <2>3 DEF PutIn
    <3> QED BY <2>1, <2>2, <3>1, <3>2, OnceLess
  <2>4. CASE ingestJob[p].rec.item = n
    <3>1. Mov(ingestJob[p], n) /\ ~Unl(ingestJob[p], n)
      BY <2>2, <2>4 DEF Mov, Unl, Moving
    <3>2. /\ \A r \in RawIds : raw[r].item # n
          /\ \A q \in Ingesters : ~Mar(ingestJob[q], n) /\ (Mov(ingestJob[q], n) => q = p)
      BY <3>1 DEF OnceIn
    <3>3. \A q \in Ingesters : Unl(ingestJob[q], n) => q = p
      BY <3>2, UnlMoves
    <3>4. Unl(j, n) /\ ~Mar(j, n)
      BY <2>1, <2>4 DEF Unl, Mar
    <3>5. /\ ingestJob'[p] = j
          /\ \A q \in Ingesters : /\ ~Mar(ingestJob'[q], n)
                                  /\ Mov(ingestJob'[q], n) => q = p
                                  /\ Unl(ingestJob'[q], n) => q = p
      BY <2>1, <3>2, <3>3, <3>4 DEF JobTo
    <3>6. \A r \in RawIds : raw'[r].item = n => r = j.to
      BY <2>1, <2>2, <3>2 DEF PutIn
    <3>7. \A i \in RawIds : inbox'[i].item = n => i = j.from
      BY <1>0, <2>1, <2>2, <2>4, <3>1 DEF Placed, Mov
    <3> QED BY <3>4, <3>5, <3>6, <3>7 DEF OnceIn
  <2> QED BY <2>3, <2>4
<1>4. CASE UnlinkItem(p)
  <2>1. PICK j \in Job : JobTo(p, j) /\ j.op \in {"idle", "drain"}
    BY <1>0, <1>4, UnlinkItemMoves
  <2>2. raw' = raw /\ ingestJob[p].op = "unlink" /\ PutIn(inbox, inbox', ingestJob[p].from, NoFile)
    BY <1>0, <1>4, UnlinkItemMoves
  <2>3. \A i \in RawIds : inbox'[i].item = n => inbox[i].item = n /\ i # ingestJob[p].from
    BY <2>2, FileFacts DEF PutIn
  <2>4. Unl(ingestJob[p], n) => \A i \in RawIds : inbox'[i].item # n
    BY <1>0, <2>2, <2>3 DEF Placed, Unl, Moving
  <2>5. ~Mov(j, n) /\ ~Mar(j, n)
    BY <2>1 DEF Mov, Mar, Moving
  <2> QED BY <2>1, <2>2, <2>3, <2>4, <2>5, OnceLess
<1> QED BY <1>1, <1>2, <1>3, <1>4

LEMMA OnceWritten ==
  ASSUME KeptInv, NEW p \in Ingesters, NEW n \in Nat \ {0}, OnceIn(n, inbox, raw, ingestJob),
         n \notin twice', WriteInbox(p) \/ WriteRaw(p) \/ KillIngester(p)
  PROVE  OnceIn(n, inbox', raw', ingestJob')
<1>0. KeptParts /\ IngestTyped /\ Fresh(p)
  BY KeptSplits DEF KeptParts
<1>1. ~Mov(IdleIngester, n) /\ ~Mar(IdleIngester, n) /\ ~Unl(IdleIngester, n)
  BY IdleFacts DEF Mov, Mar, Unl, Moving
<1>2. CASE KillIngester(p)
  <2>1. ~Unl(ingestJob[p], n) /\ inbox' = inbox /\ raw' = raw /\ JobTo(p, IdleIngester)
    BY <1>0, <1>2, KillIngesterMoves DEF Unl
  <2> QED BY <1>1, <2>1, OnceLess
<1>3. CASE WriteInbox(p)
  <2>1. /\ raw' = raw /\ ingestJob[p].op = "capture" /\ JobTo(p, IdleIngester)
        /\ PutIn(inbox, inbox', ingestJob[p].to, ingestJob[p].rec)
    BY <1>0, <1>3, WriteInboxMoves
  <2>2. CASE ingestJob[p].rec.item # n
    <3>1. \A i \in RawIds : inbox'[i].item = n => inbox[i].item = n
      BY <2>1, <2>2 DEF PutIn
    <3>2. ~Unl(ingestJob[p], n)
      BY <2>1 DEF Unl
    <3> QED BY <1>1, <2>1, <3>1, <3>2, OnceLess
  <2>3. CASE ingestJob[p].rec.item = n
    <3>1. /\ \A r \in RawIds : raw'[r].item # n
          /\ \A q \in Ingesters : q # p => ingestJob[q].rec.item # n
      BY <1>0, <2>1, <2>3 DEF Fresh
    <3>2. \A q \in Ingesters : /\ ~Mov(ingestJob'[q], n) /\ ~Mar(ingestJob'[q], n)
                               /\ ~Unl(ingestJob'[q], n)
      BY <1>1, <2>1, <3>1 DEF JobTo, Mov, Mar, Unl
    <3> QED BY <3>1, <3>2 DEF OnceIn
  <2> QED BY <2>2, <2>3
<1>4. CASE WriteRaw(p)
  <2>1. /\ inbox' = inbox /\ ingestJob[p].op = "raw" /\ JobTo(p, IdleIngester)
        /\ PutIn(raw, raw', ingestJob[p].to, ingestJob[p].rec)
    BY <1>0, <1>4, WriteRawMoves
  <2>2. CASE ingestJob[p].rec.item # n
    <3>1. \A r \in RawIds : raw'[r].item = n => raw[r].item = n
      BY <2>1, <2>2 DEF PutIn
    <3>2. ~Unl(ingestJob[p], n)
      BY <2>1 DEF Unl
    <3> QED BY <1>1, <2>1, <3>1, <3>2, OnceLess
  <2>3. CASE ingestJob[p].rec.item = n
    <3>1. Mar(ingestJob[p], n) /\ ~Unl(ingestJob[p], n)
      BY <2>1, <2>3 DEF Mar, Unl
    <3>2. \A q \in Ingesters : Mov(ingestJob[q], n) => Unl(ingestJob[q], n)
      BY <3>1 DEF OnceIn
    <3>3. \A i \in RawIds : inbox[i].item = n =>
            \E q \in Ingesters : Unl(ingestJob[q], n) /\ ingestJob[q].from = i
      BY <3>1 DEF OnceIn
    <3>4. \A r \in RawIds : raw'[r].item = n => r = ingestJob[p].to
      BY <2>1, <3>1 DEF PutIn, OnceIn
    <3>5. \A q \in Ingesters : Unl(ingestJob[q], n) \/ Mar(ingestJob[q], n) =>
            ingestJob[q].to = ingestJob[p].to
      BY <3>1 DEF OnceIn
    <3>6. ingestJob'[p] = IdleIngester /\ \A q \in Ingesters : q # p => ingestJob'[q] = ingestJob[q]
      BY <2>1 DEF JobTo
    <3>7. \A q \in Ingesters : /\ Mov(ingestJob'[q], n) \/ Unl(ingestJob'[q], n) \/ Mar(ingestJob'[q], n)
                                  => q # p /\ ingestJob'[q] = ingestJob[q]
                               /\ Unl(ingestJob[q], n) => ingestJob'[q] = ingestJob[q]
      BY <1>1, <3>1, <3>6
    <3>8. \A i \in RawIds : inbox'[i].item = n =>
            \E q \in Ingesters : Unl(ingestJob'[q], n) /\ ingestJob'[q].from = i
      BY <2>1, <3>3, <3>7
    <3>9. \A q, o \in Ingesters : Mov(ingestJob'[q], n) /\ Mov(ingestJob'[o], n) => q = o
      BY <3>7 DEF OnceIn
    <3>10. \A q \in Ingesters : Mov(ingestJob'[q], n) => Unl(ingestJob'[q], n)
      BY <3>2, <3>7
    <3>11. \A q \in Ingesters : Unl(ingestJob'[q], n) \/ Mar(ingestJob'[q], n) =>
             ingestJob'[q].to = ingestJob[p].to
      BY <3>5, <3>7
    <3> QED BY <3>4, <3>8, <3>9, <3>10, <3>11 DEF OnceIn
  <2> QED BY <2>2, <2>3
<1> QED BY <1>2, <1>3, <1>4

\* Every item no two promotions met goes to one place.
IngestInv ==
  KeptInv /\ \A n \in (1..MaxIngestCommands) \ twice : OnceIn(n, inbox, raw, ingestJob)

LEMMA OnceInit == IngestInit => IngestInv
<1> SUFFICES ASSUME IngestInit PROVE IngestInv
  OBVIOUS
<1>1. /\ \A i \in RawIds : inbox[i].item = 0 /\ raw[i].item = 0
      /\ \A p \in Ingesters : ingestJob[p] = IdleIngester
  BY FileFacts DEF IngestInit
<1>2. ASSUME NEW n \in 1..MaxIngestCommands PROVE OnceIn(n, inbox, raw, ingestJob)
  <2>1. n # 0
    OBVIOUS
  <2>2. \A p \in Ingesters : /\ ~Mov(ingestJob[p], n) /\ ~Mar(ingestJob[p], n)
                             /\ ~Unl(ingestJob[p], n)
    BY <1>1, IdleFacts DEF Mov, Mar, Unl, Moving
  <2> QED BY <1>1, <2>1, <2>2 DEF OnceIn
<1> QED BY <1>2, KeptInit DEF IngestInv

LEMMA TwiceStays == ASSUME [IngestNext]_ingestVars PROVE twice \subseteq twice'
BY DEF IngestNext, IngestTick, Cite, InboxAdd, WriteInbox, Promote, ReadItem, ReadFields,
       WritePromoted, UnlinkItem, IngestRaw, Ingests, WriteRaw, MarkIngested, KillIngester, ingestVars

LEMMA OnceStep == IngestInv /\ [IngestNext]_ingestVars => IngestInv'
<1> SUFFICES ASSUME IngestInv, [IngestNext]_ingestVars PROVE IngestInv'
  OBVIOUS
<1>1. KeptInv /\ KeptInv'
  BY KeptStep DEF IngestInv
<1>2. ASSUME NEW n \in (1..MaxIngestCommands) \ twice' PROVE OnceIn(n, inbox', raw', ingestJob')
  <2>1. OnceIn(n, inbox, raw, ingestJob)
    BY TwiceStays DEF IngestInv
  <2>2. n \in Nat \ {0} /\ n \notin twice'
    BY IngestBounds
  <2>3. CASE IngestTick \/ (\E r \in RawIds : Cite(r)) \/ UNCHANGED ingestVars
    <3>1. inbox' = inbox /\ raw' = raw /\ ingestJob' = ingestJob
      BY <1>1, <2>3, QuietMoves DEF KeptInv
    <3> QED BY <2>1, <3>1
  <2>4. ASSUME NEW p \in Ingesters,
               \/ InboxAdd(p) \/ Promote(p) \/ IngestRaw(p) \/ (\E r \in RawIds : MarkIngested(p, r))
               \/ ReadItem(p) \/ ReadFields(p) \/ WritePromoted(p) \/ UnlinkItem(p)
               \/ WriteInbox(p) \/ WriteRaw(p) \/ KillIngester(p)
        PROVE  OnceIn(n, inbox', raw', ingestJob')
    BY <1>1, <2>1, <2>2, <2>4, OnceIssued, OncePromoted, OnceWritten
  <2> QED BY <2>3, <2>4 DEF IngestNext
<1> QED BY <1>1, <1>2 DEF IngestInv

\* An item is promoted once: there is one copy in the raw tier, and the inbox
\* still has it only while the promotion that made the copy is about to unlink
\* it, unless two promotions met on it or one was killed half way
\* (_promote_one).
THEOREM CopiedOnceHolds == IngestSpec => []CopiedOnce
<1>1. IngestInv => CopiedOnce
  <2> SUFFICES ASSUME IngestInv, NEW n \in (1..MaxIngestCommands) \ twice
               PROVE  /\ Cardinality(Copies(n)) <= 1
                      /\ \A i \in OnFile(inbox) :
                           inbox[i].item = n /\ Copies(n) # {}
                           => \E p \in Ingesters : ingestJob[p].op = "unlink" /\ ingestJob[p].from = i
    BY DEF CopiedOnce
  <2>1. OnceIn(n, inbox, raw, ingestJob)
    BY DEF IngestInv
  <2>2. \A r, s \in Copies(n) : r = s
    BY <2>1 DEF OnceIn, Copies, OnFile
  <2>3. Copies(n) = {} \/ \E r : Copies(n) = {r}
    BY <2>2
  <2>4. Cardinality(Copies(n)) <= 1
    <3>1. Cardinality({}) = 0
      BY FS_EmptySet
    <3>2. ASSUME NEW r PROVE Cardinality({r}) = 1
      BY FS_Singleton
    <3>3. Cardinality(Copies(n)) \in {0, 1}
      BY <2>3, <3>1, <3>2
    <3> QED BY <3>3
  <2>5. \A i \in OnFile(inbox) :
          inbox[i].item = n /\ Copies(n) # {}
          => \E p \in Ingesters : ingestJob[p].op = "unlink" /\ ingestJob[p].from = i
    BY <2>1 DEF OnceIn, Copies, OnFile, Unl
  <2> QED BY <2>4, <2>5
<1> QED BY <1>1, OnceInit, OnceStep, PTL DEF IngestSpec

-----------------------------------------------------------------------------
(* What raw list reports.  A shard has a greater id than its parent, since   *)
(* an id is the first second without a file and no file of the raw tier goes *)
(* away.  So the raw items are trees, and the reports can be followed down.  *)

\* From now on up to any file there is a file at every second, and up to any
\* file a command is about to write.
Dense ==
  /\ \A j \in RawIds, k \in RawIds :
       raw[j] # NoFile /\ ingestClock <= k /\ k <= j => raw[k] # NoFile
  /\ \A p \in Ingesters, k \in RawIds :
       ingestJob[p].op \in {"promote", "raw"} /\ ingestClock <= k /\ k < ingestJob[p].to
       => raw[k] # NoFile

Descending ==
  /\ \A i \in RawIds : raw[i].parent < i
  /\ \A p \in Ingesters :
       ingestJob[p].op = "raw" => ingestJob[p].rec.parent < ingestJob[p].to

TreeInv == KeptInv /\ Dense /\ Descending

LEMMA TreeInit == IngestInit => TreeInv
<1> SUFFICES ASSUME IngestInit PROVE TreeInv
  OBVIOUS
<1>1. /\ \A i \in RawIds : raw[i] = NoFile /\ raw[i].parent = 0
      /\ \A p \in Ingesters : ingestJob[p].op = "idle"
  BY FileFacts, IdleFacts DEF IngestInit
<1>2. \A i \in RawIds : 0 < i
  BY IngestBounds DEF RawIds
<1> QED BY <1>1, <1>2, KeptInit DEF TreeInv, Dense, Descending

\* A step that writes no raw file: the job's new command starts at a free
\* second, marks a file there is, or writes none.
LEMMA JobKeepsTree ==
  ASSUME TreeInv, NEW p \in Ingesters, NEW j \in Job, JobTo(p, j),
         UNCHANGED <<raw, ingestClock>>,
         j.op \in {"promote", "raw"} => j.to \in RawIds /\ (Mintable(raw, j.to) \/ raw[j.to] # NoFile),
         j.op = "raw" => j.rec.parent < j.to
  PROVE  Dense' /\ Descending'
<1>1. \A k \in RawIds : j.op \in {"promote", "raw"} /\ ingestClock <= k /\ k < j.to
                        => raw[k] # NoFile
  <2> SUFFICES ASSUME NEW k \in RawIds, j.op \in {"promote", "raw"}, ingestClock <= k, k < j.to
               PROVE  raw[k] # NoFile
    OBVIOUS
  <2>1. ingestClock \in Nat /\ k \in Nat /\ j.to \in Nat
    BY KeptFacts DEF TreeInv, KeptInv, RawIds
  <2>2. CASE Mintable(raw, j.to)
    <3>1. k \in ingestClock..j.to /\ k # j.to
      BY <2>1
    <3> QED BY <2>2, <3>1 DEF Mintable, OnFile
  <2>3. CASE raw[j.to] # NoFile
    BY <2>1, <2>3 DEF TreeInv, Dense
  <2> QED BY <2>2, <2>3
<1>2. Dense'
  BY <1>1 DEF Dense, TreeInv, JobTo
<1>3. Descending'
  BY DEF Descending, TreeInv, JobTo
<1> QED BY <1>2, <1>3

\* A raw file written: at a second before which there is no gap, below a parent
\* with a smaller one.
LEMMA WriteKeepsTree ==
  ASSUME TreeInv, NEW p \in Ingesters, NEW j \in Job, JobTo(p, j), j.op \notin {"promote", "raw"},
         ingestJob[p].op \in {"promote", "raw"}, UNCHANGED ingestClock,
         PutIn(raw, raw', ingestJob[p].to, ingestJob[p].rec)
  PROVE  Dense' /\ Descending'
<1> DEFINE to == ingestJob[p].to
           rec == ingestJob[p].rec
<1>1. /\ to \in RawIds /\ rec # NoFile /\ raw' \in [RawIds -> AnyFile] /\ raw'[to] = rec
      /\ \A k \in RawIds : k # to => raw'[k] = raw[k]
  <2>1. rec \in File
    BY KeptFacts DEF TreeInv, KeptInv, Staffed, Moving
  <2> QED BY <2>1, FileFacts DEF PutIn
<1>2. rec.parent < to
  <2>1. ingestJob[p].op = "promote" => rec.parent = 0
    BY KeptFacts DEF TreeInv, KeptInv, Staffed, Moving
  <2>2. 0 < to
    BY <1>1, IngestBounds DEF RawIds
  <2> QED BY <2>1, <2>2 DEF TreeInv, Descending
<1>3. Descending'
  BY <1>1, <1>2 DEF Descending, TreeInv, JobTo
<1>4. \A k \in RawIds : raw[k] # NoFile => raw'[k] # NoFile
  BY <1>1
<1>5. ASSUME NEW i \in RawIds, NEW k \in RawIds, raw'[i] # NoFile, ingestClock <= k, k <= i
      PROVE  raw'[k] # NoFile
  <2>1. CASE i # to
    BY <1>1, <1>4, <1>5, <2>1 DEF TreeInv, Dense
  <2>2. CASE i = to /\ k # to
    <3>1. k < to
      BY <1>5, <2>2 DEF RawIds
    <3> QED BY <1>4, <1>5, <3>1 DEF TreeInv, Dense
  <2>3. CASE k = to
    BY <1>1, <2>3
  <2> QED BY <2>1, <2>2, <2>3
<1>6. ASSUME NEW q \in Ingesters, NEW k \in RawIds, ingestJob'[q].op \in {"promote", "raw"},
             ingestClock <= k, k < ingestJob'[q].to
      PROVE  raw'[k] # NoFile
  <2>1. q # p /\ ingestJob'[q] = ingestJob[q]
    BY <1>6 DEF JobTo
  <2> QED BY <1>4, <1>6, <2>1 DEF TreeInv, Dense
<1>7. Dense'
  BY <1>5, <1>6 DEF Dense
<1> QED BY <1>3, <1>7

LEMMA TreeStep == TreeInv /\ [IngestNext]_ingestVars => TreeInv'
<1> SUFFICES ASSUME TreeInv, [IngestNext]_ingestVars PROVE Dense' /\ Descending'
  BY KeptStep DEF TreeInv
<1>0. KeptInv /\ IngestTyped /\ Numbered
  BY DEF TreeInv, KeptInv
<1>1. CASE IngestTick \/ (\E r \in RawIds : Cite(r)) \/ UNCHANGED ingestVars
  <2>1. raw' = raw /\ ingestJob' = ingestJob
    BY <1>0, <1>1, QuietMoves
  <2>2. ingestClock \in Nat /\ ingestClock' \in Nat /\ ingestClock <= ingestClock'
    <3>1. ingestClock \in Nat
      BY <1>0, KeptFacts DEF RawIds
    <3> QED BY <1>1, <3>1 DEF IngestTick, Cite, ingestVars
  <2>3. \A k \in RawIds : ingestClock' <= k => ingestClock <= k
    BY <2>2 DEF RawIds
  <2>4. Dense'
    BY <2>1, <2>3 DEF Dense, TreeInv
  <2> QED BY <2>1, <2>4 DEF TreeInv, Descending
<1>2. ASSUME NEW p \in Ingesters, InboxAdd(p) PROVE Dense' /\ Descending'
  <2>1. UNCHANGED <<raw, ingestClock>>
        /\ \E j \in Job : JobTo(p, j) /\ j.op = "capture"
    BY <1>0, <1>2, InboxAddMoves
  <2> QED BY <2>1, JobKeepsTree
<1>3. ASSUME NEW p \in Ingesters, Promote(p) PROVE Dense' /\ Descending'
  <2>1. UNCHANGED <<raw, ingestClock>>
        /\ \E j \in Job : JobTo(p, j) /\ j.op = "drain"
    BY <1>0, <1>3, PromoteMoves
  <2> QED BY <2>1, JobKeepsTree
<1>4. ASSUME NEW p \in Ingesters, ReadItem(p) PROVE Dense' /\ Descending'
  <2>1. UNCHANGED <<raw, ingestClock>>
        /\ \E j \in Job : JobTo(p, j) /\ j.op \notin {"promote", "raw"}
    BY <1>0, <1>4, ReadItemMoves, IdleFacts
  <2> QED BY <2>1, JobKeepsTree
<1>5. ASSUME NEW p \in Ingesters, ReadFields(p) PROVE Dense' /\ Descending'
  <2>1. UNCHANGED <<raw, ingestClock>>
        /\ \E j \in Job : JobTo(p, j) /\ j.op = "promote" /\ j.to \in RawIds /\ Mintable(raw, j.to)
    BY <1>0, <1>5, ReadFieldsMoves
  <2> QED BY <2>1, JobKeepsTree
<1>6. ASSUME NEW p \in Ingesters, WritePromoted(p) PROVE Dense' /\ Descending'
  <2>1. UNCHANGED ingestClock /\ ingestJob[p].op = "promote"
        /\ PutIn(raw, raw', ingestJob[p].to, ingestJob[p].rec)
        /\ \E j \in Job : JobTo(p, j) /\ j.op = "unlink"
    BY <1>0, <1>6, WritePromotedMoves
  <2> QED BY <2>1, WriteKeepsTree
<1>7. ASSUME NEW p \in Ingesters, UnlinkItem(p) PROVE Dense' /\ Descending'
  <2>1. UNCHANGED <<raw, ingestClock>>
        /\ \E j \in Job : JobTo(p, j) /\ j.op \in {"idle", "drain"}
    BY <1>0, <1>7, UnlinkItemMoves
  <2> QED BY <2>1, JobKeepsTree
<1>8. ASSUME NEW p \in Ingesters, IngestRaw(p) PROVE Dense' /\ Descending'
  <2>1. UNCHANGED <<raw, ingestClock>>
    BY <1>0, <1>8, IngestRawMoves
  <2>2. PICK j \in Job : /\ JobTo(p, j) /\ j.op = "raw" /\ j.to \in RawIds /\ j.rec \in File
                         /\ j.rec.parent # 0 => raw[j.rec.parent] # NoFile
                         /\ Mintable(raw, j.to)
    BY <1>0, <1>8, IngestRawMoves
  <2>3. j.rec.parent < j.to
    <3> DEFINE up == j.rec.parent
               to == j.to
    <3>1. up \in {0} \cup RawIds /\ to \in RawIds
      BY <2>2 DEF File
    <3>2. raw[to] = NoFile /\ ingestClock <= to
      <4>1. ingestClock \in Nat /\ to >= ingestClock /\ to \in Nat /\ to \notin OnFile(raw)
        BY <1>0, <2>2, KeptFacts DEF Mintable, RawIds
      <4> QED BY <2>2, <4>1 DEF OnFile
    <3>3. up # 0 => ~(to <= up)
      <4> SUFFICES ASSUME up # 0, to <= up PROVE FALSE
        OBVIOUS
      <4>1. up \in RawIds /\ raw[up] # NoFile
        BY <2>2, <3>1
      <4> HIDE DEF up, to
      <4> QED BY <3>1, <3>2, <4>1 DEF TreeInv, Dense
    <3> HIDE DEF up, to
    <3> QED BY <3>1, <3>3, IngestBounds DEF RawIds, up, to
  <2> QED BY <2>1, <2>2, <2>3, JobKeepsTree
<1>9. ASSUME NEW p \in Ingesters, NEW r \in RawIds, MarkIngested(p, r) PROVE Dense' /\ Descending'
  <2>1. UNCHANGED <<raw, ingestClock>> /\ raw[r] # NoFile
        /\ \E j \in Job : JobTo(p, j) /\ j.op = "raw" /\ j.to = r /\ j.rec.parent = raw[r].parent
    BY <1>0, <1>9, MarkIngestedMoves
  <2>2. raw[r].parent < r
    BY DEF TreeInv, Descending
  <2> QED BY <2>1, <2>2, JobKeepsTree
<1>10. ASSUME NEW p \in Ingesters, WriteRaw(p) PROVE Dense' /\ Descending'
  <2>1. UNCHANGED ingestClock /\ ingestJob[p].op = "raw" /\ JobTo(p, IdleIngester)
        /\ PutIn(raw, raw', ingestJob[p].to, ingestJob[p].rec)
    BY <1>0, <1>10, WriteRawMoves
  <2> QED BY <2>1, IdleFacts, WriteKeepsTree
<1>11. ASSUME NEW p \in Ingesters, WriteInbox(p) \/ KillIngester(p) PROVE Dense' /\ Descending'
  <2>1. UNCHANGED <<raw, ingestClock>> /\ JobTo(p, IdleIngester)
    BY <1>0, <1>11, WriteInboxMoves, KillIngesterMoves
  <2> QED BY <2>1, IdleFacts, JobKeepsTree
<1> QED BY <1>1, <1>2, <1>3, <1>4, <1>5, <1>6, <1>7, <1>8, <1>9, <1>10, <1>11 DEF IngestNext

\* _raw_done as a function of the items above; there is one that uses itself as
\* it says, since each item is followed once.
DoneNext(g, above) == [x \in RawIds |->
  \/ x \in above
  \/ IF Shards(x) # {} THEN \A s \in Shards(x) : g[above \cup {x}][s]
     ELSE Ingested(x)]

LEMMA RawDoneIs ==
  ASSUME NEW above \in SUBSET RawIds, NEW x \in RawIds
  PROVE  RawDone(x, above) <=>
           \/ x \in above
           \/ IF Shards(x) # {} THEN \A s \in Shards(x) : RawDone(s, above \cup {x})
              ELSE Ingested(x)
<1> DEFINE m == Cardinality(RawIds)
           Left(a) == Cardinality(RawIds \ a)
           Upto(g, n) == \A a \in SUBSET RawIds : Left(a) <= n => g[a] = DoneNext(g, a)
           Bad == {n \in 0 .. m : ~ \E g : Upto(g, n)}
<1>0. IsFiniteSet(RawIds)
  BY IngestBounds, FS_Interval DEF RawIds
<1>1. m \in Nat /\ \A a \in SUBSET RawIds : Left(a) \in Nat /\ Left(a) <= m
  BY <1>0, FS_CardinalityType, FS_Subset
<1>2. ASSUME NEW a \in SUBSET RawIds, NEW y \in RawIds \ a
      PROVE  a \cup {y} \in SUBSET RawIds /\ Left(a \cup {y}) = Left(a) - 1
  <2>1. IsFiniteSet(RawIds \ a)
    BY <1>0, FS_Subset
  <2>2. RawIds \ (a \cup {y}) = (RawIds \ a) \ {y}
    OBVIOUS
  <2> QED BY <2>1, <2>2, FS_RemoveElement
<1>3. ASSUME NEW g, NEW h, NEW a \in SUBSET RawIds,
             \A y \in RawIds \ a : g[a \cup {y}] = h[a \cup {y}]
      PROVE  DoneNext(g, a) = DoneNext(h, a)
  <2> DEFINE One(f, y) == \/ y \in a
                         \/ IF Shards(y) # {} THEN \A s \in Shards(y) : f[a \cup {y}][s]
                            ELSE Ingested(y)
  <2>1. ASSUME NEW y \in RawIds PROVE One(g, y) = One(h, y)
    <3>1. CASE y \in a
      BY <3>1, Zenon
    <3>2. CASE y \notin a
      <4>1. g[a \cup {y}] = h[a \cup {y}]
        BY <1>3, <3>2
      <4> QED BY <4>1, Zenon
    <3> QED BY <3>1, <3>2
  <2>2. DoneNext(g, a) = [y \in RawIds |-> One(g, y)] /\ DoneNext(h, a) = [y \in RawIds |-> One(h, y)]
    BY DEF DoneNext
  <2> HIDE DEF One
  <2> QED BY <2>1, <2>2
<1> HIDE DEF m, Left
<1>4. \E g : Upto(g, 0)
  <2> DEFINE g == [a \in SUBSET RawIds |-> DoneNext([t \in {} |-> {}], a)]
  <2>1. ASSUME NEW a \in SUBSET RawIds, Left(a) <= 0 PROVE g[a] = DoneNext(g, a)
    <3>1. RawIds \ a = {}
      <4> SUFFICES ASSUME NEW y \in RawIds \ a PROVE FALSE
        OBVIOUS
      <4>1. Left(a \cup {y}) = Left(a) - 1 /\ Left(a \cup {y}) \in Nat /\ Left(a) \in Nat
        BY <1>1, <1>2
      <4> QED BY <2>1, <4>1
    <3> HIDE DEF g
    <3>2. DoneNext([t \in {} |-> {}], a) = DoneNext(g, a)
      BY <1>3, <3>1
    <3> QED BY <3>2 DEF g
  <2> HIDE DEF g
  <2> QED BY <2>1
<1>5. ASSUME NEW n \in 1 .. m, NEW g, Upto(g, n - 1) PROVE \E h : Upto(h, n)
  <2> DEFINE h == [a \in SUBSET RawIds |-> DoneNext(g, a)]
  <2>1. \A a \in SUBSET RawIds : h[a] = DoneNext(g, a)
    OBVIOUS
  <2> HIDE DEF h
  <2>2. ASSUME NEW a \in SUBSET RawIds, Left(a) <= n PROVE h[a] = DoneNext(h, a)
    <3>1. \A y \in RawIds \ a : g[a \cup {y}] = h[a \cup {y}]
      BY <1>1, <1>2, <1>5, <2>1, <2>2
    <3> QED BY <1>3, <2>1, <3>1
  <2> QED BY <2>2
<1>6. Bad = {}
  <2> SUFFICES ASSUME Bad # {} PROVE FALSE
    OBVIOUS
  <2>1. PICK n \in Bad : \A k \in Bad : n <= k
    <3>1. Bad \in SUBSET Nat
      OBVIOUS
    <3> HIDE DEF Bad
    <3> QED BY <1>1, <3>1, LeastBad
  <2>2. n \in 1 .. m /\ n - 1 \in 0 .. m /\ ~(n <= n - 1)
    BY <1>1, <1>4, <2>1
  <2>3. PICK g : Upto(g, n - 1)
    BY <2>1, <2>2
  <2> QED BY <1>5, <2>1, <2>2, <2>3
<1>7. PICK g : Upto(g, m)
  BY <1>1, <1>6
<1> DEFINE h == [a \in SUBSET RawIds |-> g[a]]
<1>8. \A a \in SUBSET RawIds : h[a] = g[a] /\ g[a] = DoneNext(g, a)
  BY <1>1, <1>7
<1>9. h = [a \in SUBSET RawIds |-> h[a]]
  OBVIOUS
<1> HIDE DEF h
<1>10. \A a \in SUBSET RawIds : h[a] = DoneNext(h, a)
  BY <1>2, <1>3, <1>8
<1>11. h = [a \in SUBSET RawIds |-> DoneNext(h, a)]
  BY <1>9, <1>10
<1>12. \E f : f = [a \in SUBSET RawIds |-> DoneNext(f, a)]
  BY <1>11
<1> DEFINE done == CHOOSE f : f = [a \in SUBSET RawIds |-> DoneNext(f, a)]
<1>13. done = [a \in SUBSET RawIds |-> DoneNext(done, a)]
  BY <1>12
<1>14. \A y, a : RawDone(y, a) = done[a][y]
  BY DEF RawDone, DoneNext
<1> HIDE DEF done
<1>15. done[above] = DoneNext(done, above)
  BY <1>13
<1>16. done[above][x] <=> \/ x \in above
                          \/ IF Shards(x) # {} THEN \A s \in Shards(x) : done[above \cup {x}][s]
                             ELSE Ingested(x)
  BY <1>15 DEF DoneNext
<1> QED BY <1>14, <1>16

\* On trees the items above make no difference.
LEMMA DoneAlone ==
  ASSUME Descending
  PROVE  \A x \in RawIds, above \in SUBSET RawIds :
           (\A y \in above : y < x) => (RawDone(x, above) <=> RawDone(x, {}))
<1> DEFINE Same(x) == \A above \in SUBSET RawIds :
             (\A y \in above : y < x) => (RawDone(x, above) <=> RawDone(x, {}))
           Bad == {x \in RawIds : ~Same(x)}
<1>1. Bad = {}
  <2> SUFFICES ASSUME Bad # {} PROVE FALSE
    OBVIOUS
  <2>1. PICK x \in Bad : \A y \in Bad : y <= x
    <3>1. Bad \in SUBSET (0 .. MaxRawId) /\ MaxRawId \in Nat
      BY IngestBounds DEF RawIds
    <3> HIDE DEF Bad
    <3> QED BY <3>1, GreatestBad
  <2>2. x \in RawIds /\ ~Same(x)
    BY <2>1
  <2>3. PICK above \in SUBSET RawIds : /\ \A y \in above : y < x
                                       /\ ~(RawDone(x, above) <=> RawDone(x, {}))
    BY <2>2
  <2>4. x \notin above /\ {} \in SUBSET RawIds /\ {} \cup {x} = {x}
    BY <2>2, <2>3 DEF RawIds
  <2>5. RawDone(x, above) <=> IF Shards(x) # {} THEN \A s \in Shards(x) : RawDone(s, above \cup {x})
                              ELSE Ingested(x)
    BY <2>2, <2>4, RawDoneIs
  <2>6. RawDone(x, {}) <=> IF Shards(x) # {} THEN \A s \in Shards(x) : RawDone(s, {x})
                           ELSE Ingested(x)
    <3>1. RawDone(x, {}) <=> \/ x \in {}
                             \/ IF Shards(x) # {} THEN \A s \in Shards(x) : RawDone(s, {} \cup {x})
                                ELSE Ingested(x)
      BY <2>2, <2>4, RawDoneIs
    <3> QED BY <2>4, <3>1
  <2>7. ASSUME NEW s \in Shards(x) PROVE RawDone(s, above \cup {x}) <=> RawDone(s, {x})
    <3>1. s \in RawIds /\ x < s
      BY DEF Shards, OnFile, Descending
    <3>2. above \cup {x} \in SUBSET RawIds /\ {x} \in SUBSET RawIds
      BY <2>2
    <3>3. \A y \in above \cup {x} : y < s
      BY <2>2, <2>3, <3>1 DEF RawIds
    <3>4. Same(s)
      <4>1. ~(s <= x)
        BY <2>2, <3>1 DEF RawIds
      <4> HIDE DEF Same
      <4> QED BY <2>1, <3>1, <4>1
    <3>5. RawDone(s, above \cup {x}) <=> RawDone(s, {})
      BY <3>2, <3>3, <3>4
    <3>6. RawDone(s, {x}) <=> RawDone(s, {})
      BY <3>1, <3>2, <3>4
    <3> QED BY <3>5, <3>6
  <2> QED BY <2>3, <2>5, <2>6, <2>7
<1>2. \A x \in RawIds : Same(x)
  BY <1>1
<1> QED BY <1>2

LEMMA DoneBelow ==
  ASSUME Descending, NEW x \in RawIds
  PROVE  RawDone(x, {}) <=> IF Shards(x) # {} THEN \A s \in Shards(x) : RawDone(s, {})
                            ELSE Ingested(x)
<1>1. {} \in SUBSET RawIds /\ {} \cup {x} = {x} /\ {x} \in SUBSET RawIds /\ x \notin {}
  OBVIOUS
<1>2. RawDone(x, {}) <=> IF Shards(x) # {} THEN \A s \in Shards(x) : RawDone(s, {x})
                         ELSE Ingested(x)
  <2>1. RawDone(x, {}) <=> \/ x \in {}
                           \/ IF Shards(x) # {} THEN \A s \in Shards(x) : RawDone(s, {} \cup {x})
                              ELSE Ingested(x)
    BY <1>1, RawDoneIs
  <2> QED BY <1>1, <2>1
<1>3. ASSUME NEW s \in Shards(x) PROVE RawDone(s, {x}) <=> RawDone(s, {})
  <2>1. s \in RawIds /\ x < s
    BY DEF Shards, OnFile, Descending
  <2> QED BY <1>1, <2>1, DoneAlone
<1> QED BY <1>2, <1>3

\* The shards of an item, and what is below them, are below it.
LEMMA BelowDown ==
  ASSUME Descending, NEW r \in RawIds, NEW s \in Shards(r)
  PROVE  {s} \cup Below(s) \subseteq Below(r)
<1>1. s \in OnFile(raw) /\ s \in RawIds /\ raw[s].parent = r /\ r < s
  BY DEF Shards, OnFile, Descending
<1>2. s \in Below(r)
  <2>1. {s} \in SUBSET OnFile(raw) /\ r \notin {s}
    BY <1>1 DEF RawIds
  <2>2. {s} \cup {raw[t].parent : t \in {s}} = {r} \cup {s}
    BY <1>1
  <2> QED BY <1>1, <2>1, <2>2 DEF Below
<1>3. ASSUME NEW u \in Below(s) PROVE u \in Below(r)
  <2>1. u \in OnFile(raw)
    BY <1>3 DEF Below
  <2>2. PICK chain \in SUBSET OnFile(raw) :
          /\ {u} \cup {raw[t].parent : t \in chain} = {s} \cup chain
          /\ u \in chain /\ s \notin chain
    BY <1>3 DEF Below
  <2>3. chain \in SUBSET RawIds
    BY <2>2 DEF OnFile
  <2>4. \A t \in chain : s < t
    <3> DEFINE Bad == {t \in chain : ~(s < t)}
    <3> SUFFICES ASSUME Bad # {} PROVE FALSE
      OBVIOUS
    <3>1. PICK t \in Bad : \A y \in Bad : t <= y
      <4>1. RawIds \subseteq Nat
        BY IngestBounds DEF RawIds
      <4>2. Bad \in SUBSET Nat
        BY <2>3, <4>1
      <4> HIDE DEF Bad
      <4> QED BY <4>1, <4>2, LeastBad
    <3>2. t \in RawIds /\ t \in chain /\ t < s
      <4>1. t \in chain /\ ~(s < t) /\ t # s /\ t \in RawIds
        BY <2>2, <2>3, <3>1
      <4> QED BY <1>1, <4>1 DEF RawIds
    <3>3. raw[t].parent < t /\ raw[t].parent \in {s} \cup chain
      BY <2>2, <3>2 DEF Descending
    <3>4. raw[t].parent \in RawIds
      BY <1>1, <2>3, <3>3
    <3>5. raw[t].parent # s
      BY <1>1, <3>2, <3>3, <3>4 DEF RawIds
    <3>6. raw[t].parent \in Bad
      BY <1>1, <3>2, <3>3, <3>4, <3>5 DEF RawIds
    <3>7. ~(t <= raw[t].parent)
      BY <3>2, <3>3, <3>4 DEF RawIds
    <3> QED BY <3>1, <3>6, <3>7
  <2> DEFINE longer == chain \cup {s}
  <2>5. longer \in SUBSET OnFile(raw) /\ u \in longer
    BY <1>1, <2>2
  <2>6. r \notin longer
    BY <1>1, <2>3, <2>4 DEF RawIds
  <2>7. {u} \cup {raw[t].parent : t \in longer} = {r} \cup longer
    <3>1. {raw[t].parent : t \in longer} = {raw[t].parent : t \in chain} \cup {r}
      BY <1>1
    <3> HIDE DEF longer
    <3> QED BY <2>2, <3>1 DEF longer
  <2> HIDE DEF longer
  <2> QED BY <2>1, <2>5, <2>6, <2>7 DEF Below
<1> QED BY <1>2, <1>3

\* What is below an item whose shards are done is done.
LEMMA DoneAllBelow ==
  ASSUME Descending, NEW r \in RawIds, \A s \in Shards(r) : RawDone(s, {}), NEW u \in Below(r)
  PROVE  RawDone(u, {})
<1>1. PICK chain \in SUBSET OnFile(raw) :
        /\ {u} \cup {raw[t].parent : t \in chain} = {r} \cup chain
        /\ u \in chain /\ r \notin chain
  BY DEF Below
<1>2. chain \in SUBSET RawIds
  BY <1>1 DEF OnFile
<1> DEFINE Bad == {t \in chain : ~RawDone(t, {})}
<1>3. Bad = {}
  <2> SUFFICES ASSUME Bad # {} PROVE FALSE
    OBVIOUS
  <2>1. PICK t \in Bad : \A y \in Bad : t <= y
    <3>1. RawIds \subseteq Nat
      BY IngestBounds DEF RawIds
    <3>2. Bad \in SUBSET Nat
      BY <1>2, <3>1
    <3> HIDE DEF Bad
    <3> QED BY <3>1, <3>2, LeastBad
  <2> DEFINE y == raw[t].parent
  <2>2. /\ t \in RawIds /\ t \in chain /\ ~RawDone(t, {}) /\ y < t /\ y \in {r} \cup chain
        /\ y \in RawIds /\ t \in Shards(y)
    BY <1>1, <1>2, <2>1 DEF Descending, Shards
  <2> HIDE DEF y
  <2>3. y \in chain
    BY <2>2
  <2>4. RawDone(y, {})
    <3>1. ~(t <= y)
      BY <2>2 DEF RawIds
    <3> QED BY <2>1, <2>3, <3>1
  <2>5. \A s \in Shards(y) : RawDone(s, {})
    BY <2>2, <2>4, DoneBelow
  <2> QED BY <2>2, <2>5
<1> QED BY <1>1, <1>3

\* An item that is not done has one below it, or is one, that is neither split
\* nor ingested.
LEMMA UndoneLeaf ==
  ASSUME Descending
  PROVE  \A x \in OnFile(raw) : ~RawDone(x, {}) =>
           \E u \in {x} \cup Below(x) : Shards(u) = {} /\ ~Ingested(u)
<1> DEFINE Leads(x) == ~RawDone(x, {}) =>
             \E u \in {x} \cup Below(x) : Shards(u) = {} /\ ~Ingested(u)
           Bad == {x \in OnFile(raw) : ~Leads(x)}
<1>1. Bad = {}
  <2> SUFFICES ASSUME Bad # {} PROVE FALSE
    OBVIOUS
  <2>1. PICK x \in Bad : \A y \in Bad : y <= x
    <3>1. Bad \in SUBSET (0 .. MaxRawId) /\ MaxRawId \in Nat
      BY IngestBounds DEF RawIds, OnFile
    <3> HIDE DEF Bad
    <3> QED BY <3>1, GreatestBad
  <2>2. x \in RawIds /\ ~RawDone(x, {}) /\ ~Leads(x)
    BY <2>1 DEF OnFile
  <2>3. Shards(x) # {}
    BY <2>2, DoneBelow
  <2>4. PICK s \in Shards(x) : ~RawDone(s, {})
    BY <2>2, <2>3, DoneBelow
  <2>5. s \in OnFile(raw) /\ s \in RawIds /\ x < s
    BY <2>4 DEF Shards, OnFile, Descending
  <2>6. Leads(s)
    <3>1. ~(s <= x)
      BY <2>2, <2>5 DEF RawIds
    <3> HIDE DEF Leads
    <3> QED BY <2>1, <2>5, <3>1
  <2>7. {s} \cup Below(s) \subseteq Below(x)
    BY <2>2, BelowDown
  <2> QED BY <2>2, <2>4, <2>6, <2>7
<1> QED BY <1>1

\* A parent is reported sharded when all its descendants without shards are
\* marked or cited, however the captures, marks and citations that led there
\* interleaved, and sharding otherwise (_raw_status_for, _raw_done).
THEOREM StatusAgreesHolds == IngestSpec => []StatusAgrees
<1>1. ASSUME Descending, NEW r \in OnFile(raw), Shards(r) # {}
      PROVE  RawStatus(r) = IF \A s \in Below(r) : Shards(s) = {} => Ingested(s)
                            THEN "sharded" ELSE "sharding"
  <2>1. r \in RawIds
    BY DEF OnFile
  <2>2. CASE \A s \in Shards(r) : RawDone(s, {})
    <3>1. \A u \in Below(r) : Shards(u) = {} => Ingested(u)
      <4> SUFFICES ASSUME NEW u \in Below(r), Shards(u) = {} PROVE Ingested(u)
        OBVIOUS
      <4>1. u \in RawIds /\ RawDone(u, {})
        BY <1>1, <2>1, <2>2, DoneAllBelow DEF Below, OnFile
      <4> QED BY <1>1, <4>1, DoneBelow
    <3>2. RawStatus(r) = "sharded"
      BY <1>1, <2>2 DEF RawStatus
    <3> QED BY <3>1, <3>2
  <2>3. CASE \E s \in Shards(r) : ~RawDone(s, {})
    <3>1. PICK s \in Shards(r) : ~RawDone(s, {})
      BY <2>3
    <3>2. s \in OnFile(raw) /\ {s} \cup Below(s) \subseteq Below(r)
      BY <1>1, <2>1, BelowDown DEF Shards
    <3>3. \E u \in Below(r) : Shards(u) = {} /\ ~Ingested(u)
      BY <1>1, <3>1, <3>2, UndoneLeaf
    <3>4. RawStatus(r) = "sharding"
      BY <1>1, <2>3 DEF RawStatus
    <3> QED BY <3>3, <3>4
  <2> QED BY <2>2, <2>3
<1>2. TreeInv => StatusAgrees
  BY <1>1 DEF TreeInv, StatusAgrees
<1> QED BY <1>2, TreeInit, TreeStep, PTL DEF IngestSpec

-----------------------------------------------------------------------------
(* The three together *)

LEMMA BoxInit == Init => FlagInit /\ TermInit /\ IngestInit
BY DEF Init

LEMMA BoxStep ==
  [Next]_vars => [FlagNext]_flagVars /\ [TermNext]_termVars /\ [IngestNext]_ingestVars
BY DEF Next, vars

\* The flags, the terms and the captured files keep their types side by side.
THEOREM BoxesTypesHold == Spec => []TypeOK
<1>1. FlagInv /\ TermInv /\ KeptInv => TypeOK
  BY DEF TypeOK, FlagInv, TermInv, KeptInv, IngestTyped
<1>2. Init => FlagInv /\ TermInv /\ KeptInv
  BY BoxInit, FlagInitInv, TermInitInv, KeptInit
<1>3. FlagInv /\ TermInv /\ KeptInv /\ [Next]_vars => FlagInv' /\ TermInv' /\ KeptInv'
  BY BoxStep, FlagNextKeepsInv, TermNextKeepsInv, KeptStep
<1> QED BY <1>1, <1>2, <1>3, PTL DEF Spec
===============================================================================
