------------------------------- MODULE Lexicon -------------------------------
(***************************************************************************)
(* The lexicon: one file per term, in a directory per context.  A term's   *)
(* path is its identity.  Adding a term checks the path and writes it;     *)
(* changing one reads the file and writes it whole; removing the last term *)
(* of a context removes the directory too.  A reference that is no path    *)
(* falls back to the only term that contains it.                           *)
(***************************************************************************)
EXTENDS Naturals, FiniteSets

CONSTANTS
  Editors,        \* the processes that work on the lexicon
  TermIds,        \* the paths terms may have
  Top,            \* the directory of terms without a context
  ContextOf,      \* the directory of each path
  TermRefs,       \* what users write for a term
  Slug,           \* the path a reference spells
  Contains,       \* pairs of a path and a reference its id or name contains
  Aliases,        \* the alias lists, each the references its text contains
  InitTerms,      \* the terms to begin with, all with definition 0
  MaxTermCommands

ASSUME TermConstants ==
  /\ InitTerms \subseteq TermIds /\ TermIds # {}
  /\ Slug \in [TermRefs -> TermIds]
  /\ Contains \subseteq TermIds \X TermRefs
  /\ Aliases \subseteq SUBSET TermRefs
  /\ MaxTermCommands \in Nat

NoTerm == [definition |-> 0, aliases |-> {}, there |-> FALSE]

\* The definition is the number of the command that gave it.  The aliases are
\* those allowed: a reference is looked for in them too.  The lists that are
\* not searched are set as they are.
Term == [definition : Nat, aliases : SUBSET TermRefs, there : {TRUE}]
TermFields == {"definition", "aliases"}

VARIABLES
  terms,          \* the term files
  contexts,       \* the directories there are
  termJob,        \* per process: the command, the fields it names, its file
                  \* and what it read
  termCommands    \* how many commands were issued; the number of the latest

termVars == <<terms, contexts, termJob, termCommands>>

IdleEditor ==
  [op |-> "idle", id |-> CHOOSE t \in TermIds : TRUE, fields |-> {},
   rec |-> NoTerm, seen |-> NoTerm]

Present(t) == terms[t].there

\* Whether the text of a term contains what the user wrote.
Mentions(t, r) == <<t, r>> \in Contains \/ r \in terms[t].aliases

\* show: the path the reference spells, else the only term whose text contains
\* it; nothing when there is none, or when it is ambiguous.
Found(r) ==
  IF Present(Slug[r]) THEN {Slug[r]}
  ELSE LET hits == {t \in TermIds : Present(t) /\ Mentions(t, r)} IN
       IF Cardinality(hits) = 1 THEN hits ELSE {}

TermIssued ==
  /\ termCommands < MaxTermCommands
  /\ termCommands' = termCommands + 1

Claims(p, op, t, fields, rec) ==
  termJob' = [termJob EXCEPT ![p] =
                [op |-> op, id |-> t, fields |-> fields, rec |-> rec, seen |-> terms[t]]]

Releases(p) == termJob' = [termJob EXCEPT ![p] = IdleEditor]

NewTerm(aliases) == [definition |-> termCommands', aliases |-> aliases, there |-> TRUE]

\* Mutant: adding a term does not look for one.
BeginNewTermBlind(p, r, aliases) ==
  /\ termJob[p].op = "idle" /\ TermIssued
  /\ Claims(p, "new", Slug[r], {}, NewTerm(aliases))
  /\ UNCHANGED <<terms, contexts>>

\* ldoc term new: refused when the path is taken.
BeginNewTerm(p, r, aliases) ==
  /\ termJob[p].op = "idle" /\ TermIssued
  /\ ~Present(Slug[r])
  /\ Claims(p, "new", Slug[r], {}, NewTerm(aliases))
  /\ UNCHANGED <<terms, contexts>>

MakeContext(p) ==
  /\ termJob[p].op = "new"
  /\ contexts' = contexts \cup {ContextOf[termJob[p].id]}
  /\ termJob' = [termJob EXCEPT ![p].op = "write"]
  /\ UNCHANGED <<terms, termCommands>>

\* ldoc term set: the fields named, of the record as it was read.
BeginSetTerm(p, r, fields, aliases) ==
  /\ termJob[p].op = "idle" /\ TermIssued /\ fields # {}
  /\ \E t \in Found(r) :
       Claims(p, "write", t, fields,
         [terms[t] EXCEPT
            !.definition = IF "definition" \in fields THEN termCommands' ELSE @,
            !.aliases = IF "aliases" \in fields THEN aliases ELSE @])
  /\ UNCHANGED <<terms, contexts>>

\* The write fails when the directory went away.
WriteTerm(p) ==
  LET t == termJob[p].id IN
  /\ termJob[p].op = "write"
  /\ terms' = IF ContextOf[t] \in contexts
              THEN [terms EXCEPT ![t] = termJob[p].rec] ELSE terms
  /\ Releases(p)
  /\ UNCHANGED <<contexts, termCommands>>

BeginRmTerm(p, r) ==
  /\ termJob[p].op = "idle" /\ TermIssued
  /\ \E t \in Found(r) : Claims(p, "rm", t, {}, NoTerm)
  /\ UNCHANGED <<terms, contexts>>

\* A file that is gone already ends the command.
UnlinkTerm(p) ==
  LET t == termJob[p].id IN
  /\ termJob[p].op = "rm"
  /\ terms' = [terms EXCEPT ![t] = NoTerm]
  /\ IF Present(t) THEN termJob' = [termJob EXCEPT ![p].op = "prune"] ELSE Releases(p)
  /\ UNCHANGED <<contexts, termCommands>>

\* The directory of a context is removed when it is empty.
PruneContext(p) ==
  LET c == ContextOf[termJob[p].id] IN
  /\ termJob[p].op = "prune"
  /\ contexts' = IF c # Top /\ \A t \in TermIds : ContextOf[t] = c => ~Present(t)
                 THEN contexts \ {c} ELSE contexts
  /\ Releases(p)
  /\ UNCHANGED <<terms, termCommands>>

KillEditor(p) ==
  /\ termJob[p].op # "idle"
  /\ Releases(p)
  /\ UNCHANGED <<terms, contexts, termCommands>>

TermInit ==
  /\ terms = [t \in TermIds |->
       IF t \in InitTerms THEN [definition |-> 0, aliases |-> {}, there |-> TRUE]
       ELSE NoTerm]
  /\ contexts = {Top} \cup {ContextOf[t] : t \in InitTerms}
  /\ termJob = [p \in Editors |-> IdleEditor]
  /\ termCommands = 0

TermNext ==
  \E p \in Editors :
    \/ \E r \in TermRefs :
         \/ BeginRmTerm(p, r)
         \/ \E aliases \in Aliases :
              \/ BeginNewTerm(p, r, aliases)
              \/ \E fields \in SUBSET TermFields : BeginSetTerm(p, r, fields, aliases)
    \/ MakeContext(p) \/ WriteTerm(p) \/ UnlinkTerm(p) \/ PruneContext(p)
    \/ KillEditor(p)

-----------------------------------------------------------------------------

\* The types of the lexicon; every term lies in a directory there is
\* (lexicon.py, pruning in rm against the mkdir of new).
TermTypes ==
  /\ terms \in [TermIds -> Term \cup {NoTerm}]
  /\ contexts \subseteq {Top} \cup {ContextOf[t] : t \in TermIds}
  /\ termJob \in [Editors ->
       [op : {"idle", "new", "write", "rm", "prune"}, id : TermIds,
        fields : SUBSET TermFields,
        rec : Term \cup {NoTerm}, seen : Term \cup {NoTerm}]]
  /\ termCommands \in 0..MaxTermCommands
  /\ \A t \in TermIds : Present(t) => ContextOf[t] \in contexts

\* A term on file changes in no field but those the command that writes it
\* names, and is replaced by no new one, unless that command had looked for it
\* before it got its present form (LexiconStore.new, set).
TermsStand ==
  [][ \A t \in TermIds :
        terms[t] # NoTerm /\ terms'[t] \notin {terms[t], NoTerm} =>
          \E p \in Editors :
            /\ termJob[p].id = t /\ termJob'[p] # termJob[p]
            /\ \/ termJob[p].seen # terms[t]
               \/ \A f \in TermFields \ termJob[p].fields : terms'[t][f] = terms[t][f]
    ]_termVars
=============================================================================
