------------------------------ MODULE Porcelain ------------------------------
(***************************************************************************)
(* The commands that write documents (new, set, link, unlink, rm), one at  *)
(* a time: how a reference finds its document, what they refuse, what is   *)
(* left when they stop half way, and what validate, the map and the        *)
(* orphans then say of the store.                                          *)
(*                                                                         *)
(* A name is a set of words: it is within another when its words are.  A   *)
(* name with the word Dashes ends the frontmatter of the file it is        *)
(* written to, at that word.                                               *)
(***************************************************************************)
EXTENDS TreeReads

CONSTANTS
  DocIds,       \* numbers, in the order new documents get them
  Words, Dashes,
  Tasks,        \* what a behaviour may be about
  FirstStore,   \* FirstStore[t]: the documents there are to begin with
  Menu          \* Menu[t]: the commands that may be given

ASSUME PorcelainConstants ==
  DocIds \subseteq Nat \ {0} /\ IsFiniteSet(DocIds) /\ Dashes \in Words

VARIABLES
  docs,         \* the files, as they were written
  last,         \* where the last command went beside what it is about
  task

vars == <<docs, last, task>>

Names == SUBSET Words
Statuses == {"", "living", "deprecated", "reference"}

\* body: whether the document's text is its own, or frontmatter went into it.
Doc == [present : BOOLEAN, title : Names, label : Names,
        type : DocTypes \cup {""}, status : Statuses,
        intent : {"", "requested", "chosen", "incidental"}, intent_basis : {"", "x"},
        force : {"", "x"}, realization : {"", "x"}, realization_refs : {"", "x"},
        realization_verified : {"", "x"}, imposed_by : {"", "x"},
        belongs_to : SUBSET DocIds, requires : SUBSET DocIds,
        superseded_by : SUBSET DocIds, body : {"own", "spilled"}]

NoDoc == [present |-> FALSE, title |-> {}, label |-> {}, type |-> "", status |-> "",
          intent |-> "", intent_basis |-> "", force |-> "", realization |-> "",
          realization_refs |-> "", realization_verified |-> "", imposed_by |-> "",
          belongs_to |-> {}, requires |-> {}, superseded_by |-> {}, body |-> "own"]

EdgeFields == {"belongs_to", "requires", "superseded_by"}

-----------------------------------------------------------------------------
(* Reading: parse_doc, load_all, resolve.                                  *)

\* The fields are written in the order title, label, the others.
Loaded(file) ==
  LET cut == [NoDoc EXCEPT !.present = TRUE, !.body = "spilled"] IN
  IF Dashes \in file.title THEN [cut EXCEPT !.title = file.title \ {Dashes}]
  ELSE IF Dashes \in file.label
       THEN [cut EXCEPT !.title = file.title, !.label = file.label \ {Dashes}]
       ELSE file

Copy(files) == [d \in DocIds |-> Loaded(files[d])]

\* A reference is an id, or a name (id 0).
ByLabel(copy, name) == {d \in Present(copy) : copy[d].label = name}
ByTitle(copy, name) == {d \in Present(copy) : copy[d].title = name}
ByPart(copy, name) ==
  {d \in Present(copy) : name \subseteq copy[d].title \/ name \subseteq copy[d].label}

\* Mutant: a part of a name is as good as the label.
MatchesByPart(copy, name) ==
  IF ByTitle(copy, name) # {} THEN ByTitle(copy, name) ELSE ByPart(copy, name)

\* The label goes before the title, and that before a part of either.
Matches(copy, name) ==
  IF ByLabel(copy, name) # {} THEN ByLabel(copy, name)
  ELSE IF ByTitle(copy, name) # {} THEN ByTitle(copy, name)
  ELSE ByPart(copy, name)

\* The document a reference means; 0 when there is none, or more than one.
Resolve(copy, ref) ==
  IF ref.id # 0 THEN IF copy[ref.id].present THEN ref.id ELSE 0
  ELSE LET m == Matches(copy, ref.name) IN
       IF Cardinality(m) = 1 THEN CHOOSE d \in m : TRUE ELSE 0

ResolveAll(copy, refs) == {Resolve(copy, r) : r \in refs}

\* resolve_edge_value: unlink takes the id of a document that is gone.
EdgeValue(copy, ref) ==
  IF Resolve(copy, ref) = 0 THEN ref.id ELSE Resolve(copy, ref)

-----------------------------------------------------------------------------
(* Commands.  One that gets a batch of references works it off one by one, *)
(* and stops at the first that fails: what it did before stays.            *)

\* touch: the fields set, to: their values; field, targets: the edges; flag:
\* --replace of link, --force of rm.
Command == [op : {"new", "set", "link", "unlink", "rm"},
            refs : Seq([id : DocIds \cup {0}, name : Names]),
            touch : SUBSET (DOMAIN NoDoc), to : Doc, body : BOOLEAN,
            field : EdgeFields, targets : SUBSET [id : DocIds \cup {0}, name : Names],
            flag : BOOLEAN]

\* What a command line can say: set touches no edge, new names no document but
\* its targets, and rm takes one.
CommandLine(c) ==
  /\ c \in Command
  /\ c.op = "set" => c.touch \cap (EdgeFields \cup {"present", "body"}) = {}
  /\ c.op = "new" => c.refs = <<>> /\ \A f \in EdgeFields : c.to[f] = {}
  /\ c.op = "rm" => Len(c.refs) = 1

ASSUME MenuAssumption == \A t \in Tasks : \A c \in Menu[t] : CommandLine(c)

\* As commands leave it: no facet out of place, no edge to nowhere.
WellFormed(files) ==
  LET copy == Copy(files) IN
  \A d \in DocIds :
    /\ ~files[d].present => files[d] = NoDoc
    /\ copy[d].type # "" => FacetErrors(copy[d]) = {}
    /\ \A f \in EdgeFields : copy[d][f] \subseteq Present(copy)

ASSUME StoreAssumption ==
  \A t \in Tasks : FirstStore[t] \in [DocIds -> Doc] /\ WellFormed(FirstStore[t])

\* The state of a command under way.
Begun == [docs |-> docs, ok |-> TRUE, wrote |-> {}, logged |-> {}]

Fail(st) == [st EXCEPT !.ok = FALSE]
Write(st, d, doc) == [st EXCEPT !.docs[d] = doc, !.wrote = @ \cup {d}]

\* _record_change: the reference is resolved once more, among the documents
\* as they have become, and an archived one has no log.
Log(st, ref) ==
  LET copy == Copy(st.docs)
      d == Resolve(copy, ref) IN
  IF d = 0 \/ Archived(copy[d]) THEN Fail(st) ELSE [st EXCEPT !.logged = @ \cup {d}]

Merged(doc, c) == [f \in DOMAIN NoDoc |-> IF f \in c.touch THEN c.to[f] ELSE doc[f]]

\* kb.set.
SetFields(st, ref, c) ==
  LET copy == Copy(st.docs)
      d == Resolve(copy, ref)
      doc == Merged(copy[d], c) IN
  IF \/ d = 0 \/ Archived(copy[d])
     \/ c.touch \cap (FacetFields \cup {"type"}) # {}
          /\ Violations(doc, "type" \in c.touch) # {}
  THEN Fail(st) ELSE Write(st, d, doc)

\* kb.set_body.
SetBody(st, ref) ==
  LET copy == Copy(st.docs)
      d == Resolve(copy, ref) IN
  IF d = 0 \/ Archived(copy[d]) THEN Fail(st)
  ELSE Write(st, d, [copy[d] EXCEPT !.body = "own"])

SetOne(st, ref, c) ==
  LET fields == IF c.touch = {} THEN st ELSE SetFields(st, ref, c)
      body == IF c.body /\ fields.ok THEN SetBody(fields, ref) ELSE fields IN
  IF body.ok THEN Log(body, ref) ELSE body

\* kb.link and kb.unlink; nothing but provenance changes on archived documents.
LinkOne(st, ref, c) ==
  LET copy == Copy(st.docs)
      d == Resolve(copy, ref)
      to == ResolveAll(copy, c.targets)
      replace == c.flag /\ c.field = "belongs_to" IN
  IF d = 0 \/ 0 \in to \/ Archived(copy[d]) THEN Fail(st)
  ELSE Log(Write(st, d, [copy[d] EXCEPT ![c.field] = to \cup IF replace THEN {} ELSE @]),
           ref)

UnlinkOne(st, ref, c) ==
  LET copy == Copy(st.docs)
      d == Resolve(copy, ref)
      to == {EdgeValue(copy, t) : t \in c.targets} IN
  IF d = 0 \/ 0 \in to \/ Archived(copy[d]) THEN Fail(st)
  ELSE Log(Write(st, d, [copy[d] EXCEPT ![c.field] = @ \ to]), ref)

\* inbound_edges.
Inbound(copy, d) ==
  {e \in Present(copy) \X EdgeFields : d \in copy[e[1]][e[2]]}

Referrers(copy, d) == {e[1] : e \in Inbound(copy, d)}

\* How a document answers to a name: by its label, its title, a part of either.
Answers(doc, name) ==
  IF doc.label = name THEN 3 ELSE IF doc.title = name THEN 2
  ELSE IF name \subseteq doc.title \/ name \subseteq doc.label THEN 1 ELSE 0

Meant(copy, c) == ResolveAll(copy, ToSet(c.refs)) \ {0}

\* What a set writes makes a document it names answer better or worse to one of
\* its references, and no document answers to that better before and after.
Renames(copy, c) ==
  c.op = "set" /\ \E i \in DOMAIN c.refs : \E d \in Meant(copy, c) :
    LET before == Answers(copy[d], c.refs[i].name)
        after == Answers(Loaded(Merged(copy[d], c)), c.refs[i].name) IN
    /\ c.refs[i].id = 0 /\ before # after
    /\ \A e \in Present(copy) : LET best == Answers(copy[e], c.refs[i].name) IN
                                best <= before \/ best <= after

NextId == Min({d \in DocIds : ~docs[d].present})

\* What a command writes beside the documents it names.
Along(copy, c) ==
  CASE c.op = "rm" -> UNION {Referrers(copy, d) : d \in Meant(copy, c)}
    [] c.op = "new" -> {NextId}
    [] OTHER -> {}

\* strayed: the documents written or logged that the command was not about when
\* it began; left: those it was about, and ended well without.
Ends(c, st) ==
  LET copy == Copy(docs) IN
  /\ docs' = st.docs
  /\ last' = [strayed |-> (st.wrote \cup st.logged) \ (Meant(copy, c) \cup Along(copy, c)),
              left |-> IF st.ok THEN (Meant(copy, c) \ (st.wrote \cap st.logged))
                                       \cup (Along(copy, c) \ st.wrote)
                       ELSE {},
              renames |-> Renames(copy, c)]
  /\ UNCHANGED task

One(st, ref, c) ==
  CASE c.op = "set" -> SetOne(st, ref, c)
    [] c.op = "link" -> LinkOne(st, ref, c)
    [] c.op = "unlink" -> UnlinkOne(st, ref, c)

\* The references in turn, up to the first that fails.
Batch(c) ==
  Ends(c, FoldLeft(LAMBDA st, r : IF st.ok THEN One(st, r, c) ELSE st, Begun, c.refs))

Set(c) == c.op = "set" /\ (c.touch # {} \/ c.body) /\ Batch(c)

\* cmd_link: edges that lead nowhere are refused before anything is written.
Link(c) ==
  /\ c.op = "link" /\ c.targets # {}
  /\ IF 0 \in ResolveAll(Copy(docs), c.targets) THEN Ends(c, Fail(Begun))
     ELSE Batch(c)

Unlink(c) == c.op = "unlink" /\ c.targets # {} /\ Batch(c)

\* kb.new: the intent is incidental unless the command says so, and the title
\* is the label.  A creation is logged by its id.
NewDoc(c) ==
  [c.to EXCEPT !.present = TRUE, !.title = IF @ = {} THEN c.to.label ELSE @,
     !.intent = IF "intent" \in c.touch \/ c.to.type = "reference" THEN @
                ELSE "incidental",
     ![c.field] = ResolveAll(Copy(docs), c.targets)]

New(c) ==
  /\ c.op = "new" /\ \E d \in DocIds : ~docs[d].present
  /\ LET doc == NewDoc(c) IN
     Ends(c, IF 0 \in doc[c.field] \/ doc.label = {} \/ Violations(doc, TRUE) # {}
             THEN Fail(Begun)
             ELSE [Write(Begun, NextId, doc) EXCEPT !.logged = {NextId}])

\* Mutant: the edges stay, to nothing.
StripBlanks(st, d) ==
  LET copy == Copy(st.docs) IN
  [st EXCEPT !.docs = [r \in DocIds |->
     IF r \in Referrers(copy, d)
     THEN [f \in DOMAIN NoDoc |->
             IF f \in EdgeFields THEN (copy[r][f] \ {d}) \cup {0} ELSE copy[r][f]]
     ELSE st.docs[r]]]

\* strip_inbound_edges: the documents with an edge to d are written anew.
Strip(st, d) ==
  LET copy == Copy(st.docs) IN
  [st EXCEPT
     !.docs = [r \in DocIds |->
       IF r \in Referrers(copy, d)
       THEN [f \in DOMAIN NoDoc |->
               IF f \in EdgeFields THEN copy[r][f] \ {d} ELSE copy[r][f]]
       ELSE st.docs[r]],
     !.wrote = @ \cup Referrers(copy, d)]

Rm(c) ==
  LET d == Resolve(Copy(docs), Head(c.refs)) IN
  /\ c.op = "rm"
  /\ Ends(c, IF d = 0 \/ (Inbound(Copy(docs), d) # {} /\ ~c.flag) THEN Fail(Begun)
             ELSE [Write(Strip(Begun, d), d, NoDoc) EXCEPT !.logged = {d}])

Init ==
  /\ task \in Tasks /\ docs = FirstStore[task]
  /\ last = [strayed |-> {}, left |-> {}, renames |-> FALSE]

Next == \E c \in Menu[task] : New(c) \/ Set(c) \/ Link(c) \/ Unlink(c) \/ Rm(c)

Spec == Init /\ [][Next]_vars

-----------------------------------------------------------------------------
(* validate                                                                *)

Clash(copy, d) ==
  copy[d].label # {} /\ \E e \in Present(copy) \ {d} : copy[e].label = copy[d].label

\* check_doc, by the number or the word of the check that fails.
DocErrors(copy, d) ==
  LET doc == copy[d] IN
  {e \in {"missing", "label", "facet", "edge", "successor", "child", "clash"} :
     \/ e = "missing" /\ (doc.type = "" \/ doc.status = "")
     \/ e = "label" /\ doc.label = {} /\ doc.type # ""
     \/ e = "facet" /\ doc.type # "" /\ FacetErrors(doc) # {}
     \/ e = "edge" /\ doc.type # "" /\ \E f \in EdgeFields : \E t \in doc[f] : ~copy[t].present
     \/ e = "successor" /\ doc.type # "" /\ doc.status = "deprecated"
                        /\ doc.superseded_by = {}
     \/ e = "child" /\ doc.type = "heading" /\ Children(copy, d) = {}
     \/ e = "clash" /\ Clash(copy, d)}

\* main: archived documents are not checked, cycles are looked for in all.
StoreErrors(copy) ==
  (UNION {DocErrors(copy, d) : d \in Visible(copy, FALSE)})
    \cup {e \in {"cycle"} : FindCycles(copy) # {}}

-----------------------------------------------------------------------------
(* Properties                                                              *)

\* The types of the files.
TypeOK == docs \in [DocIds -> Doc]

\* What the commands wrote, in whatever order, validate faults only for what
\* none of them looks at: a heading without a child, a deprecated document
\* without a successor, a label that is empty or another's, a cycle, a field
\* the dashes of a name cut off; never for a facet the type forbids, an intent
\* without its basis or an edge that leads nowhere (kb.new, kb.set, cmd_link,
\* cmd_rm, check_doc).
StrictOnOutput ==
  StoreErrors(Copy(docs)) \subseteq
    {"child", "successor", "label", "clash", "cycle", "missing"}

\* A command writes and logs only what it is about when it begins, though it
\* resolves its references anew for every write and for the log: the documents
\* they mean, the one new creates, and those whose edges rm --force takes away.
\* When it ends well it has written all of them, and logged those it names.
\* Exempt is the set whose new title or label changes what one of its own
\* references finds (cmd_new, cmd_set, cmd_link, cmd_rm, resolve).
WritesStayWithNamed == ~last.renames => last.strayed = {} /\ last.left = {}

\* validate's search finds the cycles of belongs_to (find_cycles).
CyclesReported == CyclesRight(Copy(docs))

\* The map lists or counts every document shown, but for what hangs below what
\* is not shown, and its counts agree with its lists (KB.map, KB.orphans).
MapCountsAll == \A full \in BOOLEAN : MapRight(Copy(docs), full)

\* A title, a label or any other field set leaves the body as it is ("Body is
\* preserved byte-for-byte; only the frontmatter block is reconstructed.",
\* dump_doc).
BodyKept == \A d \in DocIds : Loaded(docs[d]).body = "own"
=============================================================================
