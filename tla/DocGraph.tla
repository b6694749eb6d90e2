------------------------------- MODULE DocGraph -------------------------------
(***************************************************************************)
(* The edges between the documents of a store, and the ldoc commands that  *)
(* change them: new, link, unlink, rm, and set --status reference.         *)
(*                                                                         *)
(* A command loads all documents once (its copy), decides on that copy,    *)
(* re-reads a document just before it changes it and writes it whole; after *)
(* its own write it loads all documents again.  Link and unlink work on a  *)
(* batch of documents, and stop at the first they may not change.  What    *)
(* the commands log is reduced to the numbers of edges in their log lines. *)
(***************************************************************************)
EXTENDS Integers, FiniteSets

CONSTANTS
  Procs,        \* the processes that run commands, one command at a time
  DocIds,       \* the document ids that may occur
  InitEdges,    \* the edges of the store before the first command
  InitDocs,     \* the documents of the store before the first command
  EdgeArgs,     \* the sets of edges a command line may name
  MaxBatch,     \* bound on the documents of one link or unlink
  MaxCommands,  \* bound on the commands issued
  MaxCrashes    \* bound on the commands killed half way

\* requires, relates and superseded_by are treated alike: relates is all three.
Fields == {"belongs_to", "relates", "provenance"}

Edge == [field: Fields, to: DocIds]

ASSUME DocIdsAssumption == DocIds \subseteq Nat \ {0} /\ IsFiniteSet(DocIds)
ASSUME InitAssumption ==
  /\ InitDocs \subseteq DocIds
  /\ InitEdges \in [DocIds -> SUBSET Edge]
  /\ \A d \in DocIds : \A e \in InitEdges[d] : d \in InitDocs /\ e.to \in InitDocs
ASSUME EdgeArgsAssumption == EdgeArgs \subseteq SUBSET Edge
ASSUME BoundsAssumption ==
  MaxBatch \in Nat /\ MaxCommands \in Nat /\ MaxCrashes \in Nat

VARIABLES
  docs,       \* docs[d]: the document file of id d
  ledger,     \* ledger[d]: the number of edges d should have, by the log: those
              \* it was created with, and those added and removed since
  job,        \* job[p]: the command process p runs, and what it holds in memory
  commands,   \* the number of commands issued so far
  crashes     \* the number of commands killed so far

vars == <<docs, ledger, job, commands, crashes>>

-----------------------------------------------------------------------------
(* Documents and their edges *)

DocFile == [present: BOOLEAN, archived: BOOLEAN, edges: SUBSET Edge]

NoDoc == [present |-> FALSE, archived |-> FALSE, edges |-> {}]

\* Edges that count as integration into the store.
Counted(edges) == {e \in edges : e.field # "provenance"}

\* Mutant: the edges validate blocks on, as in dangling_edges.
InboundBlocking(copy, d) ==
  {i \in DocIds \X Edge :
     copy[i[1]].present /\ i[2] \in Counted(copy[i[1]].edges) /\ i[2].to = d}

\* Every pair of a document and an edge of it to d, d's own among them.
Inbound(copy, d) ==
  {i \in DocIds \X Edge :
     copy[i[1]].present /\ i[2] \in copy[i[1]].edges /\ i[2].to = d}

\* What link and unlink make of the edges of a document.
Linked(old, edges, replace) ==
  IF replace /\ \E e \in edges : e.field = "belongs_to"
  THEN {e \in old : e.field # "belongs_to"} \cup edges
  ELSE old \cup edges

Changed(old, j) ==
  CASE j.op = "link" -> Linked(old, j.edges, j.replace)
    [] j.op = "unlink" -> old \ j.edges
    [] OTHER -> old

\* Mutant: edges that are there already are counted again.
DeltaOfArgs(old, j) ==
  IF j.op = "link" THEN Cardinality(Counted(j.edges))
  ELSE IF j.op = "unlink" THEN 0 - Cardinality(Counted(j.edges))
  ELSE 0

\* The edges added less the edges removed, as the log line has them.
Delta(old, j) ==
  Cardinality(Counted(Changed(old, j) \ old))
    - Cardinality(Counted(old \ Changed(old, j)))

-----------------------------------------------------------------------------
(* Commands in progress *)

Steps == {"idle", "create", "edge", "edgeWrite", "log", "strip", "stripWrite",
          "remove", "logRm"}

Job == [step: Steps, op: {"new", "link", "unlink", "retire", "rm"},
        copy: [DocIds -> DocFile],       \* the documents as last loaded
        todo: SUBSET DocIds,             \* documents still to be visited
        edges: SUBSET Edge, replace: BOOLEAN,
        ref: DocIds \cup {0}, doc: DocFile,   \* the document being changed
        target: DocIds \cup {0},              \* the document rm is about
        inbound: SUBSET (DocIds \X Edge), delta: Int]

NoDocs == [d \in DocIds |-> NoDoc]

Idle == [step |-> "idle", op |-> "link", copy |-> NoDocs, todo |-> {},
         edges |-> {}, replace |-> FALSE, ref |-> 0, doc |-> NoDoc,
         target |-> 0, inbound |-> {}, delta |-> 0]

At(p, step) == job[p].step = step

\* Every command starts by loading the documents.
Start(p, j) ==
  /\ At(p, "idle") /\ commands < MaxCommands
  /\ commands' = commands + 1
  /\ job' = [job EXCEPT ![p] = [j EXCEPT !.copy = docs]]

Exit(p) == job' = [job EXCEPT ![p] = Idle]

\* The documents of a batch are worked off one by one.
Proceed(p, copy) ==
  IF job[p].todo = {job[p].ref}
  THEN Exit(p)
  ELSE job' = [job EXCEPT ![p].step = "edge", ![p].copy = copy,
                          ![p].todo = @ \ {job[p].ref},
                          ![p].ref = 0, ![p].doc = NoDoc, ![p].delta = 0]

-----------------------------------------------------------------------------
(* ldoc new *)

\* A new document may have edges to documents of the copy only.
BeginNew(p, d, edges, archived) ==
  /\ ~docs[d].present
  /\ \A e \in edges : docs[e.to].present
  /\ Start(p, [Idle EXCEPT !.step = "create", !.op = "new", !.ref = d,
                           !.doc = [present |-> TRUE, archived |-> archived,
                                    edges |-> edges]])
  /\ UNCHANGED <<docs, ledger, crashes>>

Create(p) ==
  /\ At(p, "create")
  /\ docs' = [docs EXCEPT ![job[p].ref] = job[p].doc]
  /\ ledger' = [ledger EXCEPT ![job[p].ref] = Cardinality(Counted(job[p].doc.edges))]
  /\ Exit(p)
  /\ UNCHANGED <<commands, crashes>>

-----------------------------------------------------------------------------
(* ldoc link, unlink, and set --status reference *)

\* link refuses edges to documents that are not there; unlink takes any id.
BeginEdges(p, op, refs, edges, replace) ==
  /\ edges # {} /\ refs # {} /\ Cardinality(refs) <= MaxBatch
  /\ op = "link" => \A e \in edges : docs[e.to].present
  /\ op = "unlink" => ~replace
  /\ Start(p, [Idle EXCEPT !.step = "edge", !.op = op, !.todo = refs,
                           !.edges = edges, !.replace = replace])
  /\ UNCHANGED <<docs, ledger, crashes>>

BeginRetire(p, d) ==
  /\ docs[d].present
  /\ Start(p, [Idle EXCEPT !.step = "edge", !.op = "retire", !.todo = {d}])
  /\ UNCHANGED <<docs, ledger, crashes>>

\* Mutant: an archived document refuses a command without provenance only.
RefusedWithoutProvenance(j, d) ==
  j.copy[d].archived /\ \A e \in j.edges : e.field # "provenance"

\* An archived document takes the repair of its provenance, and nothing else.
Refused(j, d) ==
  j.copy[d].archived /\ (j.op = "retire" \/ j.replace \/ Counted(j.edges) # {})

\* The copy decides whether the document may be changed, and what the log
\* will say of it; the document itself is read again.
EdgeRead(p) ==
  /\ At(p, "edge")
  /\ \E d \in job[p].todo :
       IF \/ ~job[p].copy[d].present \/ Refused(job[p], d) \/ ~docs[d].present
          \/ job[p].op = "link" /\ \E e \in job[p].edges : ~job[p].copy[e.to].present
       THEN Exit(p)
       ELSE job' = [job EXCEPT ![p].step = "edgeWrite", ![p].ref = d,
                               ![p].doc = docs[d],
                               ![p].delta = Delta(job[p].copy[d].edges, job[p])]
  /\ UNCHANGED <<docs, ledger, commands, crashes>>

EdgeWrite(p) ==
  /\ At(p, "edgeWrite")
  /\ docs' = [docs EXCEPT ![job[p].ref] =
       [job[p].doc EXCEPT !.edges = Changed(@, job[p]),
                          !.archived = @ \/ job[p].op = "retire"]]
  /\ IF docs'[job[p].ref].archived
     THEN IF job[p].op # "retire" /\ Counted(job[p].edges) = {}
          THEN Proceed(p, docs')
          ELSE Exit(p)       \* refused by the log, after the write
     ELSE job' = [job EXCEPT ![p].step = "log", ![p].copy = docs']
  /\ UNCHANGED <<ledger, commands, crashes>>

LogChange(p) ==
  /\ At(p, "log")
  /\ ledger' = [ledger EXCEPT ![job[p].ref] = @ + job[p].delta]
  /\ Proceed(p, job[p].copy)
  /\ UNCHANGED <<docs, commands, crashes>>

-----------------------------------------------------------------------------
(* ldoc rm *)

\* With inbound edges a removal is refused, or strips them first.
BeginRm(p, d, force) ==
  /\ docs[d].present
  /\ Inbound(docs, d) = {} \/ force
  /\ Start(p, [Idle EXCEPT !.op = "rm", !.target = d,
                 !.step = IF Inbound(docs, d) = {} THEN "remove" ELSE "strip",
                 !.inbound = Inbound(docs, d),
                 !.todo = {i[1] : i \in Inbound(docs, d)}])
  /\ UNCHANGED <<docs, ledger, crashes>>

\* The documents that link to it, in the order of their ids.  One that is
\* gone ends the command with an error.
StripRead(p) ==
  /\ At(p, "strip")
  /\ \E d \in job[p].todo :
       /\ \A i \in job[p].todo : d <= i
       /\ IF docs[d].present
          THEN job' = [job EXCEPT ![p].step = "stripWrite", ![p].ref = d,
                                  ![p].doc = docs[d]]
          ELSE Exit(p)
  /\ UNCHANGED <<docs, ledger, commands, crashes>>

\* Mutant: the ids are blanked, where their edges should be removed.
StripBlanks(p) ==
  /\ At(p, "stripWrite")
  /\ docs' = [docs EXCEPT ![job[p].ref] =
       [job[p].doc EXCEPT !.edges =
          {IF <<job[p].ref, e>> \in job[p].inbound THEN [e EXCEPT !.to = 0] ELSE e :
             e \in @}]]
  /\ job' = [job EXCEPT ![p].todo = @ \ {job[p].ref}, ![p].ref = 0, ![p].doc = NoDoc,
       ![p].step = IF job[p].todo = {job[p].ref} THEN "remove" ELSE "strip"]
  /\ UNCHANGED <<ledger, commands, crashes>>

\* Archived documents are stripped as well.
StripWrite(p) ==
  /\ At(p, "stripWrite")
  /\ docs' = [docs EXCEPT ![job[p].ref] =
       [job[p].doc EXCEPT !.edges =
          {e \in @ : <<job[p].ref, e>> \notin job[p].inbound}]]
  /\ job' = [job EXCEPT ![p].todo = @ \ {job[p].ref}, ![p].ref = 0, ![p].doc = NoDoc,
       ![p].step = IF job[p].todo = {job[p].ref} THEN "remove" ELSE "strip"]
  /\ UNCHANGED <<ledger, commands, crashes>>

Remove(p) ==
  /\ At(p, "remove")
  /\ docs' = [docs EXCEPT ![job[p].target] = NoDoc]
  /\ IF docs[job[p].target].present
     THEN job' = [job EXCEPT ![p].step = "logRm"]
     ELSE Exit(p)
  /\ UNCHANGED <<ledger, commands, crashes>>

\* The line of a removal names the edges that were stripped.
LogRm(p) ==
  /\ At(p, "logRm")
  /\ ledger' = [d \in DocIds |->
       IF d = job[p].target THEN 0
       ELSE ledger[d] - Cardinality({i \in job[p].inbound :
                                       i[1] = d /\ i[2].field # "provenance"})]
  /\ Exit(p)
  /\ UNCHANGED <<docs, commands, crashes>>

-----------------------------------------------------------------------------
(* The specification *)

\* A command is killed: the files stay as they are.
Crash(p) ==
  /\ ~At(p, "idle") /\ crashes < MaxCrashes
  /\ crashes' = crashes + 1
  /\ Exit(p)
  /\ UNCHANGED <<docs, ledger, commands>>

Init ==
  /\ docs = [d \in DocIds |->
       [present |-> d \in InitDocs, archived |-> FALSE, edges |-> InitEdges[d]]]
  /\ ledger = [d \in DocIds |-> Cardinality(Counted(InitEdges[d]))]
  /\ job = [p \in Procs |-> Idle]
  /\ commands = 0 /\ crashes = 0

Begin(p) ==
  \/ \E d \in DocIds :
       \/ \E edges \in EdgeArgs \cup {{}}, archived \in BOOLEAN :
            BeginNew(p, d, edges, archived)
       \/ BeginRetire(p, d)
       \/ \E force \in BOOLEAN : BeginRm(p, d, force)
  \/ \E op \in {"link", "unlink"}, refs \in SUBSET DocIds, edges \in EdgeArgs,
        replace \in BOOLEAN : BeginEdges(p, op, refs, edges, replace)

Continue(p) ==
  \/ Create(p) \/ EdgeRead(p) \/ EdgeWrite(p) \/ LogChange(p)
  \/ StripRead(p) \/ StripWrite(p) \/ Remove(p) \/ LogRm(p)

Next == \E p \in Procs : Begin(p) \/ Continue(p) \/ Crash(p)

Spec == Init /\ [][Next]_vars

-----------------------------------------------------------------------------
(* Properties *)

\* Every variable has the type of the file or record it stands for.
TypeOK ==
  /\ docs \in [DocIds -> DocFile]
  /\ ledger \in [DocIds -> Int]
  /\ job \in [Procs -> Job]
  /\ commands \in Nat /\ crashes \in Nat

\* No document has an edge to a document that does not exist: a link names
\* documents that are there, and a removal is refused, or strips the edges
\* to its document before it removes it, so that killing it half way leaves
\* no edge dangling either.
NoDangling ==
  \A d \in DocIds : \A e \in docs[d].edges : docs[d].present => docs[e.to].present

\* What the log lines say was added and removed accounts for the edges of
\* every document, but for those a killed command had no time to log.
LedgerExact ==
  crashes = 0 /\ (\A p \in Procs : At(p, "idle")) =>
    \A d \in DocIds :
      docs[d].present => ledger[d] = Cardinality(Counted(docs[d].edges))

\* A snapshot keeps its edges, but provenance, as they are: they change only
\* where a forced removal strips the ones to the document it removes.
SnapshotEdgesKept ==
  [][\A d \in DocIds :
       docs[d].present /\ docs[d].archived /\ docs'[d].present =>
         /\ Counted(docs'[d].edges) \subseteq Counted(docs[d].edges)
         /\ \A e \in Counted(docs[d].edges) \ docs'[d].edges :
              \E p \in Procs : job[p].op = "rm" /\ job[p].target = e.to]_docs
=============================================================================
