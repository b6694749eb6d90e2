---------------------------- MODULE DocGraph_proofs ----------------------------
(***************************************************************************)
(* Theorems about DocGraph, for any documents, edges, command lines and    *)
(* bounds: the types, for any number of processes; and for commands which  *)
(* run one after the other, that no edge dangles, that snapshots keep their *)
(* edges, killed half way or not, and that the log accounts for the edges. *)
(***************************************************************************)
EXTENDS DocGraph, FiniteSetTheorems, TLAPS

-----------------------------------------------------------------------------
(* Finitely many edges *)

LEMMA FiniteEdge == IsFiniteSet(Edge)
<1> DEFINE f == [x \in Fields \X DocIds |-> [field |-> x[1], to |-> x[2]]]
<1>1. IsFiniteSet(Fields)
  <2>1. IsFiniteSet({"belongs_to"} \cup {"relates"})
    BY FS_Singleton, FS_Union
  <2>2. IsFiniteSet(({"belongs_to"} \cup {"relates"}) \cup {"provenance"})
    BY <2>1, FS_Singleton, FS_Union
  <2>3. Fields = ({"belongs_to"} \cup {"relates"}) \cup {"provenance"}
    BY DEF Fields
  <2> QED BY <2>2, <2>3
<1>2. IsFiniteSet(Fields \X DocIds)
  BY <1>1, DocIdsAssumption, FS_Product
<1>3. f \in Surjection(Fields \X DocIds, Edge)
  <2>1. f \in [Fields \X DocIds -> Edge]
    BY DEF Edge
  <2>2. ASSUME NEW e \in Edge PROVE \E x \in Fields \X DocIds : f[x] = e
    <3>1. <<e.field, e.to>> \in Fields \X DocIds /\ f[<<e.field, e.to>>] = e
      BY DEF Edge
    <3> QED BY <3>1
  <2> QED BY <2>1, <2>2 DEF Surjection
<1> QED BY <1>2, <1>3, FS_Surjection

LEMMA CountType ==
  ASSUME NEW edges \in SUBSET Edge
  PROVE  Cardinality(Counted(edges)) \in Nat
<1>1. Counted(edges) \in SUBSET Edge
  BY DEF Counted
<1> QED BY <1>1, FiniteEdge, FS_Subset, FS_CardinalityType

LEMMA InboundCountType ==
  ASSUME NEW inbound \in SUBSET (DocIds \X Edge), NEW d \in DocIds
  PROVE  Cardinality({i \in inbound : i[1] = d /\ i[2].field # "provenance"}) \in Nat
<1> DEFINE S == {i \in inbound : i[1] = d /\ i[2].field # "provenance"}
<1>1. IsFiniteSet(DocIds \X Edge)
  BY FiniteEdge, DocIdsAssumption, FS_Product
<1>2. S \in SUBSET (DocIds \X Edge)
  OBVIOUS
<1> HIDE DEF S
<1>3. Cardinality(S) \in Nat
  BY <1>1, <1>2, FS_Subset, FS_CardinalityType
<1> QED BY <1>3 DEF S

LEMMA ChangedType ==
  ASSUME NEW old \in SUBSET Edge, NEW j \in Job
  PROVE  Changed(old, j) \in SUBSET Edge /\ Delta(old, j) \in Int
<1>1. Changed(old, j) \in SUBSET Edge
  <2>1. j.edges \in SUBSET Edge
    BY DEF Job
  <2>2. Linked(old, j.edges, j.replace) \in SUBSET Edge
    BY <2>1 DEF Linked
  <2> QED BY <2>1, <2>2 DEF Changed
<1>2. Changed(old, j) \ old \in SUBSET Edge /\ old \ Changed(old, j) \in SUBSET Edge
  BY <1>1
<1>3. /\ Cardinality(Counted(Changed(old, j) \ old)) \in Nat
      /\ Cardinality(Counted(old \ Changed(old, j))) \in Nat
  BY <1>2, CountType
<1> QED BY <1>1, <1>3 DEF Delta

-----------------------------------------------------------------------------
(* Types *)

LEMMA NoDocType == NoDoc \in DocFile /\ NoDocs \in [DocIds -> DocFile]
BY DEF NoDoc, NoDocs, DocFile

LEMMA IdleType == Idle \in Job
BY NoDocType DEF Idle, Job, Steps

LEMMA ExitType ==
  ASSUME TypeOK, NEW p \in Procs, Exit(p)
  PROVE  job' \in [Procs -> Job]
BY IdleType DEF TypeOK, Exit

LEMMA StartType ==
  ASSUME TypeOK, NEW p \in Procs, NEW j \in Job, Start(p, j)
  PROVE  job' \in [Procs -> Job] /\ commands' \in Nat
<1>1. [j EXCEPT !.copy = docs] \in Job
  <2>1. docs \in [DocIds -> DocFile]
    BY DEF TypeOK
  <2> QED BY <2>1, Zenon DEF Job
<1> QED BY <1>1 DEF TypeOK, Start

LEMMA ProceedType ==
  ASSUME TypeOK, NEW p \in Procs, NEW copy \in [DocIds -> DocFile], Proceed(p, copy)
  PROVE  job' \in [Procs -> Job]
<1> DEFINE todo == job[p].todo \ {job[p].ref}
           j == [job[p] EXCEPT !.step = "edge", !.copy = copy, !.todo = todo,
                               !.ref = 0, !.doc = NoDoc, !.delta = 0]
<1>1. job[p] \in Job /\ todo \in SUBSET DocIds /\ "edge" \in Steps
      /\ 0 \in DocIds \cup {0} /\ 0 \in Int
  BY DEF TypeOK, Job, Steps
<1>2. j \in Job
  <2> HIDE DEF todo
  <2> QED BY <1>1, NoDocType, Zenon DEF Job
<1>3. Exit(p) \/ job' = [job EXCEPT ![p] = j]
  BY DEF Proceed
<1> HIDE DEF j
<1> QED BY <1>2, <1>3, ExitType DEF TypeOK

LEMMA TypeInit == Init => TypeOK
<1> SUFFICES ASSUME Init PROVE TypeOK
  OBVIOUS
<1>1. docs \in [DocIds -> DocFile]
  BY InitAssumption DEF Init, DocFile
<1>2. ledger \in [DocIds -> Int]
  BY InitAssumption, CountType DEF Init
<1> QED BY <1>1, <1>2, IdleType DEF Init, TypeOK

LEMMA BeginType ==
  ASSUME TypeOK, NEW p \in Procs, Begin(p)
  PROVE  TypeOK'
<1>1. ASSUME NEW d \in DocIds, NEW edges \in EdgeArgs \cup {{}}, NEW archived \in BOOLEAN,
             BeginNew(p, d, edges, archived)
      PROVE  TypeOK'
  <2> DEFINE doc == [present |-> TRUE, archived |-> archived, edges |-> edges]
             j == [Idle EXCEPT !.step = "create", !.op = "new", !.ref = d, !.doc = doc]
  <2>1. doc \in DocFile
    BY EdgeArgsAssumption DEF DocFile
  <2> HIDE DEF doc
  <2>2. d \in DocIds \cup {0} /\ "create" \in Steps
    BY DEF Steps
  <2>3. j \in Job
    BY <2>1, <2>2, IdleType, Zenon DEF Job
  <2>4. Start(p, j)
    BY <1>1 DEF BeginNew, doc
  <2> HIDE DEF j
  <2> QED BY <1>1, <2>3, <2>4, StartType DEF BeginNew, TypeOK
<1>2. ASSUME NEW d \in DocIds, BeginRetire(p, d) PROVE TypeOK'
  <2> DEFINE j == [Idle EXCEPT !.step = "edge", !.op = "retire", !.todo = {d}]
  <2>1. {d} \in SUBSET DocIds /\ "edge" \in Steps
    BY DEF Steps
  <2>2. j \in Job
    BY <2>1, IdleType, Zenon DEF Job
  <2>3. Start(p, j)
    BY <1>2 DEF BeginRetire
  <2> HIDE DEF j
  <2> QED BY <1>2, <2>2, <2>3, StartType DEF BeginRetire, TypeOK
<1>3. ASSUME NEW d \in DocIds, NEW force \in BOOLEAN, BeginRm(p, d, force) PROVE TypeOK'
  <2> DEFINE step == IF Inbound(docs, d) = {} THEN "remove" ELSE "strip"
             todo == {i[1] : i \in Inbound(docs, d)}
             j == [Idle EXCEPT !.op = "rm", !.target = d, !.step = step,
                               !.inbound = Inbound(docs, d), !.todo = todo]
  <2>1. step \in Steps /\ d \in DocIds \cup {0}
    BY DEF Steps
  <2>2. Inbound(docs, d) \in SUBSET (DocIds \X Edge)
    BY DEF Inbound
  <2>3. todo \in SUBSET DocIds
    BY <2>2
  <2>4. Start(p, j)
    BY <1>3 DEF BeginRm
  <2> HIDE DEF step, todo
  <2>5. j \in Job
    BY <2>1, <2>2, <2>3, IdleType, Zenon DEF Job
  <2> HIDE DEF j
  <2> QED BY <1>3, <2>4, <2>5, StartType DEF BeginRm, TypeOK
<1>4. ASSUME NEW op \in {"link", "unlink"}, NEW refs \in SUBSET DocIds,
             NEW edges \in EdgeArgs, NEW replace \in BOOLEAN,
             BeginEdges(p, op, refs, edges, replace)
      PROVE  TypeOK'
  <2> DEFINE j == [Idle EXCEPT !.step = "edge", !.op = op, !.todo = refs,
                               !.edges = edges, !.replace = replace]
  <2>1. /\ edges \in SUBSET Edge /\ "edge" \in Steps
        /\ op \in {"new", "link", "unlink", "retire", "rm"}
    BY EdgeArgsAssumption DEF Steps
  <2>2. j \in Job
    BY <2>1, IdleType, Zenon DEF Job
  <2>3. Start(p, j)
    BY <1>4 DEF BeginEdges
  <2> HIDE DEF j
  <2> QED BY <1>4, <2>2, <2>3, StartType DEF BeginEdges, TypeOK
<1> QED BY <1>1, <1>2, <1>3, <1>4 DEF Begin

LEMMA ContinueType ==
  ASSUME TypeOK, NEW p \in Procs, Continue(p)
  PROVE  TypeOK'
<1>1. /\ job[p] \in Job /\ job[p].doc \in DocFile /\ job[p].todo \in SUBSET DocIds
      /\ job[p].copy \in [DocIds -> DocFile] /\ job[p].delta \in Int
      /\ job[p].inbound \in SUBSET (DocIds \X Edge)
  BY DEF TypeOK, Job
<1>2. CASE Create(p)
  <2>1. Cardinality(Counted(job[p].doc.edges)) \in Int
    BY <1>1, CountType DEF DocFile
  <2> QED BY <1>1, <1>2, <2>1, ExitType DEF Create, TypeOK
<1>3. CASE EdgeRead(p)
  <2>1. job' \in [Procs -> Job]
    <3>1. CASE Exit(p)
      BY <3>1, ExitType
    <3>2. CASE ~Exit(p)
      <4> DEFINE delta(d) == Delta(job[p].copy[d].edges, job[p])
                 j(d) == [job[p] EXCEPT !.step = "edgeWrite", !.ref = d,
                                        !.doc = docs[d], !.delta = delta(d)]
      <4>1. PICK d \in job[p].todo : job' = [job EXCEPT ![p] = j(d)]
        BY <1>3, <3>2, ZenonT(60) DEF EdgeRead
      <4>2. d \in DocIds \cup {0} /\ docs[d] \in DocFile /\ "edgeWrite" \in Steps
        BY <1>1 DEF TypeOK, Steps
      <4>3. delta(d) \in Int
        <5>1. job[p].copy[d].edges \in SUBSET Edge
          BY <1>1 DEF DocFile
        <5> QED BY <1>1, <5>1, ChangedType
      <4> HIDE DEF delta
      <4>4. j(d) \in Job
        BY <1>1, <4>2, <4>3, Zenon DEF Job
      <4> HIDE DEF j
      <4> QED BY <4>1, <4>4 DEF TypeOK
    <3> QED BY <3>1, <3>2
  <2> QED BY <1>3, <2>1 DEF EdgeRead, TypeOK
<1>4. CASE EdgeWrite(p)
  <2> DEFINE doc == [job[p].doc EXCEPT !.edges = Changed(@, job[p]),
                                       !.archived = @ \/ job[p].op = "retire"]
  <2>1. doc \in DocFile
    <3>1. Changed(job[p].doc.edges, job[p]) \in SUBSET Edge
      BY <1>1, ChangedType DEF DocFile
    <3>2. (job[p].doc.archived \/ job[p].op = "retire") \in BOOLEAN
      OBVIOUS
    <3> QED BY <1>1, <3>1, <3>2, Zenon DEF DocFile
  <2>2. docs' = [docs EXCEPT ![job[p].ref] = doc]
    BY <1>4 DEF EdgeWrite
  <2> HIDE DEF doc
  <2>3. docs' \in [DocIds -> DocFile]
    BY <2>1, <2>2 DEF TypeOK
  <2>4. job' \in [Procs -> Job]
    <3> DEFINE j == [job[p] EXCEPT !.step = "log", !.copy = docs']
    <3>1. j \in Job
      <4>1. "log" \in Steps
        BY DEF Steps
      <4> QED BY <1>1, <2>3, <4>1, Zenon DEF Job
    <3>2. Proceed(p, docs') \/ Exit(p) \/ job' = [job EXCEPT ![p] = j]
      BY <1>4 DEF EdgeWrite
    <3> HIDE DEF j
    <3> QED BY <2>3, <3>1, <3>2, ProceedType, ExitType DEF TypeOK
  <2> QED BY <1>4, <2>3, <2>4 DEF EdgeWrite, TypeOK
<1>5. CASE LogChange(p)
  <2>1. job' \in [Procs -> Job]
    BY <1>1, <1>5, ProceedType DEF LogChange
  <2>2. ledger' \in [DocIds -> Int]
    <3>1. ledger' = [ledger EXCEPT ![job[p].ref] = @ + job[p].delta]
          /\ ledger \in [DocIds -> Int]
      BY <1>5 DEF LogChange, TypeOK
    <3>2. CASE job[p].ref \in DocIds
      BY <1>1, <3>1, <3>2
    <3>3. CASE job[p].ref \notin DocIds
      BY <3>1, <3>3
    <3> QED BY <3>2, <3>3
  <2> QED BY <1>5, <2>1, <2>2 DEF LogChange, TypeOK
<1>6. CASE StripRead(p)
  <2> DEFINE j(d) == [job[p] EXCEPT !.step = "stripWrite", !.ref = d, !.doc = docs[d]]
  <2>1. PICK d \in job[p].todo : Exit(p) \/ job' = [job EXCEPT ![p] = j(d)]
    BY <1>6 DEF StripRead
  <2>2. d \in DocIds \cup {0} /\ docs[d] \in DocFile /\ "stripWrite" \in Steps
    BY <1>1 DEF TypeOK, Steps
  <2>3. j(d) \in Job
    BY <1>1, <2>2, Zenon DEF Job
  <2> HIDE DEF j
  <2> QED BY <1>6, <2>1, <2>3, ExitType DEF StripRead, TypeOK
<1>7. CASE StripWrite(p)
  <2> DEFINE kept == {e \in job[p].doc.edges : <<job[p].ref, e>> \notin job[p].inbound}
             step == IF job[p].todo = {job[p].ref} THEN "remove" ELSE "strip"
             todo == job[p].todo \ {job[p].ref}
             j == [job[p] EXCEPT !.todo = todo, !.ref = 0, !.doc = NoDoc, !.step = step]
  <2>1. [job[p].doc EXCEPT !.edges = kept] \in DocFile
    <3>1. kept \in SUBSET Edge
      BY <1>1 DEF DocFile
    <3> HIDE DEF kept
    <3> QED BY <1>1, <3>1, Zenon DEF DocFile
  <2>2. docs' \in [DocIds -> DocFile]
    BY <1>7, <2>1 DEF StripWrite, TypeOK
  <2>3. step \in Steps /\ todo \in SUBSET DocIds /\ 0 \in DocIds \cup {0}
    BY <1>1 DEF Steps
  <2>4. job' = [job EXCEPT ![p] = j]
    BY <1>7 DEF StripWrite
  <2> HIDE DEF step, todo
  <2>5. j \in Job
    BY <1>1, <2>3, NoDocType, Zenon DEF Job
  <2>6. job' \in [Procs -> Job]
    <3> HIDE DEF j
    <3> QED BY <2>4, <2>5 DEF TypeOK
  <2>7. UNCHANGED <<ledger, commands, crashes>>
    BY <1>7 DEF StripWrite
  <2> QED BY <2>2, <2>6, <2>7 DEF TypeOK
<1>8. CASE Remove(p)
  <2>1. [job[p] EXCEPT !.step = "logRm"] \in Job
    <3>1. "logRm" \in Steps
      BY DEF Steps
    <3> QED BY <1>1, <3>1, Zenon DEF Job
  <2>2. job' \in [Procs -> Job]
    BY <1>8, <2>1, ExitType DEF Remove, TypeOK
  <2> QED BY <1>8, <2>2, NoDocType DEF Remove, TypeOK
<1>9. CASE LogRm(p)
  <2> DEFINE stripped(d) ==
         Cardinality({i \in job[p].inbound : i[1] = d /\ i[2].field # "provenance"})
  <2>1. \A d \in DocIds : stripped(d) \in Nat /\ ledger[d] \in Int
    BY <1>1, InboundCountType DEF TypeOK
  <2>2. ledger' = [d \in DocIds |->
          IF d = job[p].target THEN 0 ELSE ledger[d] - stripped(d)]
    BY <1>9 DEF LogRm
  <2> HIDE DEF stripped
  <2>3. ledger' \in [DocIds -> Int]
    BY <2>1, <2>2
  <2> QED BY <1>9, <2>3, ExitType DEF LogRm, TypeOK
<1> QED BY <1>2, <1>3, <1>4, <1>5, <1>6, <1>7, <1>8, <1>9 DEF Continue

LEMMA TypeStep == TypeOK /\ [Next]_vars => TypeOK'
<1> SUFFICES ASSUME TypeOK, [Next]_vars PROVE TypeOK'
  OBVIOUS
<1>1. ASSUME NEW p \in Procs, Crash(p) PROVE TypeOK'
  BY <1>1, ExitType DEF Crash, TypeOK
<1>2. CASE UNCHANGED vars
  BY <1>2 DEF vars, TypeOK
<1> QED BY <1>1, <1>2, BeginType, ContinueType DEF Next

\* Every variable keeps its type, whatever the processes do.
THEOREM TypeCorrect == Spec => []TypeOK
BY TypeInit, TypeStep, PTL DEF Spec

-----------------------------------------------------------------------------
(* No edge dangles, when commands run one after the other *)

Serial == \A p, q \in Procs : p = q

\* What a removal still has to strip is among what it found at its start.
StillInbound(p) ==
  /\ Inbound(docs, job[p].target) \subseteq job[p].inbound
  /\ \A i \in Inbound(docs, job[p].target) : i[1] \in job[p].todo

\* NoDangling is not inductive: a command decides on what it read, and that
\* has to be true still when it writes.
JobInv(p) ==
  /\ At(p, "create") => /\ job[p].doc.present
                        /\ \A e \in job[p].doc.edges : docs[e.to].present
  /\ job[p].step \in {"edge", "log"} => job[p].copy = docs
  /\ At(p, "edgeWrite") =>
       /\ job[p].ref \in DocIds /\ job[p].doc = docs[job[p].ref]
       /\ docs[job[p].ref].present
       /\ job[p].op = "link" => \A e \in job[p].edges : docs[e.to].present
  /\ job[p].step \in {"strip", "stripWrite"} => StillInbound(p)
  /\ At(p, "stripWrite") =>
       /\ job[p].ref \in job[p].todo /\ job[p].doc = docs[job[p].ref]
  /\ At(p, "remove") => Inbound(docs, job[p].target) = {}

GraphInv == NoDangling /\ \A p \in Procs : JobInv(p)

\* With one process at most, its own job is the only one to care for.
LEMMA OneJob ==
  ASSUME Serial, NEW p \in Procs, NoDangling', JobInv(p)'
  PROVE  GraphInv'
<1>1. ASSUME NEW q \in Procs PROVE JobInv(q)'
  <2>1. q = p
    BY DEF Serial
  <2> QED BY <2>1
<1> QED BY <1>1 DEF GraphInv

LEMMA IdleInv ==
  ASSUME TypeOK, NEW p \in Procs, Exit(p)
  PROVE  JobInv(p)'
BY DEF TypeOK, Exit, Idle, JobInv, At

LEMMA SameDocs ==
  ASSUME NoDangling, UNCHANGED docs
  PROVE  NoDangling'
BY DEF NoDangling

\* A document is written that stays or becomes present, with edges to
\* documents that are present.
LEMMA WriteKeepsEdges ==
  ASSUME TypeOK, NoDangling, NEW d \in DocIds, NEW doc \in DocFile, doc.present,
         \A e \in doc.edges : docs[e.to].present,
         docs' = [docs EXCEPT ![d] = doc]
  PROVE  NoDangling'
<1>1. \A c \in DocIds : docs[c].present => docs'[c].present
  BY DEF TypeOK
<1>2. ASSUME NEW c \in DocIds, NEW e \in docs'[c].edges, docs'[c].present
      PROVE  docs'[e.to].present
  <2>1. e \in Edge
    BY <1>2 DEF TypeOK, DocFile
  <2>2. e.to \in DocIds
    BY <2>1 DEF Edge
  <2>3. docs[e.to].present
    BY <1>2 DEF TypeOK, NoDangling
  <2> QED BY <1>1, <2>2, <2>3
<1> QED BY <1>2 DEF NoDangling

LEMMA GraphInit == Init => GraphInv
<1> SUFFICES ASSUME Init PROVE GraphInv
  OBVIOUS
<1>1. NoDangling
  <2> SUFFICES ASSUME NEW d \in DocIds, NEW e \in docs[d].edges PROVE docs[e.to].present
    BY DEF NoDangling
  <2>1. docs[d].edges = InitEdges[d] /\ InitEdges[d] \in SUBSET Edge
    BY InitAssumption DEF Init
  <2>2. e.to \in DocIds /\ e.to \in InitDocs
    BY <2>1, InitAssumption DEF Edge
  <2> QED BY <2>2 DEF Init
<1>2. \A p \in Procs : JobInv(p)
  BY DEF Init, Idle, JobInv, At
<1> QED BY <1>1, <1>2 DEF GraphInv

LEMMA BeginKeepsGraph ==
  ASSUME Serial, TypeOK, GraphInv, NEW p \in Procs, Begin(p)
  PROVE  GraphInv'
<1>1. job \in [Procs -> Job]
  BY DEF TypeOK
<1>2. ASSUME NEW d \in DocIds, NEW edges \in EdgeArgs \cup {{}}, NEW archived \in BOOLEAN,
             BeginNew(p, d, edges, archived)
      PROVE  GraphInv'
  <2>1. UNCHANGED docs /\ job'[p].step = "create" /\ job'[p].doc.present
        /\ job'[p].doc.edges = edges /\ \A e \in edges : docs[e.to].present
    BY <1>1, <1>2 DEF BeginNew, Start, Idle
  <2>2. JobInv(p)'
    BY <2>1 DEF JobInv, At
  <2> QED BY <2>1, <2>2, OneJob, SameDocs DEF GraphInv
<1>3. ASSUME NEW d \in DocIds, BeginRetire(p, d) PROVE GraphInv'
  <2>1. UNCHANGED docs /\ job'[p].step = "edge" /\ job'[p].copy = docs
    BY <1>1, <1>3 DEF BeginRetire, Start, Idle
  <2>2. JobInv(p)'
    BY <2>1 DEF JobInv, At
  <2> QED BY <2>1, <2>2, OneJob, SameDocs DEF GraphInv
<1>4. ASSUME NEW d \in DocIds, NEW force \in BOOLEAN, BeginRm(p, d, force) PROVE GraphInv'
  <2>1. /\ UNCHANGED docs
        /\ job'[p].step = IF Inbound(docs, d) = {} THEN "remove" ELSE "strip"
        /\ job'[p].target = d /\ job'[p].inbound = Inbound(docs, d)
        /\ job'[p].todo = {i[1] : i \in Inbound(docs, d)}
    BY <1>1, <1>4 DEF BeginRm, Start, Idle
  <2>2. Inbound(docs, d)' = Inbound(docs, d)
    BY <2>1 DEF Inbound
  <2>3. JobInv(p)'
    BY <2>1, <2>2 DEF JobInv, At, StillInbound
  <2> QED BY <2>1, <2>3, OneJob, SameDocs DEF GraphInv
<1>5. ASSUME NEW op \in {"link", "unlink"}, NEW refs \in SUBSET DocIds,
             NEW edges \in EdgeArgs, NEW replace \in BOOLEAN,
             BeginEdges(p, op, refs, edges, replace)
      PROVE  GraphInv'
  <2>1. UNCHANGED docs /\ job'[p].step = "edge" /\ job'[p].copy = docs
    BY <1>1, <1>5 DEF BeginEdges, Start, Idle
  <2>2. JobInv(p)'
    BY <2>1 DEF JobInv, At
  <2> QED BY <2>1, <2>2, OneJob, SameDocs DEF GraphInv
<1> QED BY <1>2, <1>3, <1>4, <1>5 DEF Begin

\* The next document of a batch is looked up in documents just loaded.
LEMMA ProceedInv ==
  ASSUME TypeOK, NEW p \in Procs, NEW copy, Proceed(p, copy), copy = docs'
  PROVE  JobInv(p)'
<1>1. CASE Exit(p)
  BY <1>1, IdleInv
<1>2. CASE ~Exit(p)
  <2>1. job'[p].step = "edge" /\ job'[p].copy = docs'
    BY <1>2 DEF Proceed, TypeOK, Job
  <2> QED BY <2>1 DEF JobInv, At
<1> QED BY <1>1, <1>2

LEMMA EdgesKeepGraph ==
  ASSUME Serial, TypeOK, GraphInv, NEW p \in Procs,
         Create(p) \/ EdgeRead(p) \/ EdgeWrite(p) \/ LogChange(p)
  PROVE  GraphInv'
<1>1. /\ job \in [Procs -> Job] /\ job[p] \in Job /\ job[p].doc \in DocFile
      /\ job[p].todo \in SUBSET DocIds /\ JobInv(p) /\ NoDangling
  BY DEF TypeOK, Job, GraphInv
<1>2. CASE Create(p)
  <2>1. NoDangling'
    <3>1. CASE job[p].ref \in DocIds
      BY <1>1, <1>2, <3>1, WriteKeepsEdges DEF Create, JobInv
    <3>2. CASE job[p].ref \notin DocIds
      <4>1. UNCHANGED docs
        BY <1>2, <3>2 DEF Create, TypeOK
      <4> QED BY <1>1, <4>1, SameDocs
    <3> QED BY <3>1, <3>2
  <2> QED BY <1>2, <2>1, IdleInv, OneJob DEF Create
<1>3. CASE EdgeRead(p)
  <2>1. UNCHANGED docs
    BY <1>3 DEF EdgeRead
  <2>2. JobInv(p)'
    <3>1. CASE Exit(p)
      BY <3>1, IdleInv
    <3>2. CASE ~Exit(p)
      <4>1. PICK d \in job[p].todo :
              /\ docs[d].present
              /\ job[p].op = "link" => \A e \in job[p].edges : job[p].copy[e.to].present
              /\ job' = [job EXCEPT ![p].step = "edgeWrite", ![p].ref = d,
                           ![p].doc = docs[d],
                           ![p].delta = Delta(job[p].copy[d].edges, job[p])]
        BY <1>3, <3>2 DEF EdgeRead
      <4>2. job[p].copy = docs
        BY <1>1, <1>3 DEF EdgeRead, JobInv, At
      <4>3. /\ job'[p].step = "edgeWrite" /\ job'[p].ref = d /\ job'[p].doc = docs[d]
            /\ job'[p].op = job[p].op /\ job'[p].edges = job[p].edges
        BY <1>1, <4>1 DEF Job
      <4> QED BY <1>1, <2>1, <4>1, <4>2, <4>3 DEF JobInv, At
    <3> QED BY <3>1, <3>2
  <2> QED BY <1>1, <2>1, <2>2, OneJob, SameDocs
<1>4. CASE EdgeWrite(p)
  <2> DEFINE doc == [job[p].doc EXCEPT !.edges = Changed(@, job[p]),
                                       !.archived = @ \/ job[p].op = "retire"]
  <2>1. /\ job[p].ref \in DocIds /\ job[p].doc = docs[job[p].ref]
        /\ docs[job[p].ref].present
        /\ job[p].op = "link" => \A e \in job[p].edges : docs[e.to].present
    BY <1>1, <1>4 DEF EdgeWrite, JobInv
  <2>2. docs' = [docs EXCEPT ![job[p].ref] = doc]
    BY <1>4 DEF EdgeWrite
  <2>3. Changed(job[p].doc.edges, job[p]) \in SUBSET Edge
    BY <1>1, ChangedType DEF DocFile
  <2>4. doc \in DocFile /\ doc.present
        /\ doc.edges = Changed(job[p].doc.edges, job[p])
    <3>1. (job[p].doc.archived \/ job[p].op = "retire") \in BOOLEAN
      OBVIOUS
    <3>2. doc \in DocFile
      BY <1>1, <2>3, <3>1, Zenon DEF DocFile
    <3>3. doc.present = job[p].doc.present
          /\ doc.edges = Changed(job[p].doc.edges, job[p])
      BY <1>1 DEF DocFile
    <3> QED BY <2>1, <3>2, <3>3
  <2>5. \A e \in doc.edges : docs[e.to].present
    <3>1. \A e \in job[p].doc.edges : docs[e.to].present
      BY <1>1, <2>1 DEF NoDangling
    <3>2. ASSUME NEW e \in Changed(job[p].doc.edges, job[p])
          PROVE  e \in job[p].doc.edges \/ (job[p].op = "link" /\ e \in job[p].edges)
      BY <3>2 DEF Changed, Linked
    <3> QED BY <2>1, <2>4, <3>1, <3>2
  <2> HIDE DEF doc
  <2>6. NoDangling'
    BY <1>1, <2>1, <2>2, <2>4, <2>5, WriteKeepsEdges
  <2>7. JobInv(p)'
    <3>1. CASE Exit(p)
      BY <3>1, IdleInv
    <3>2. CASE Proceed(p, docs')
      BY <3>2, ProceedInv
    <3>3. CASE job' = [job EXCEPT ![p].step = "log", ![p].copy = docs']
      <4>1. job'[p].step = "log" /\ job'[p].copy = docs'
        BY <1>1, <3>3 DEF Job
      <4> QED BY <4>1 DEF JobInv, At
    <3> QED BY <1>4, <3>1, <3>2, <3>3 DEF EdgeWrite
  <2> QED BY <2>6, <2>7, OneJob
<1>5. CASE LogChange(p)
  <2>1. UNCHANGED docs /\ job[p].copy = docs
    BY <1>1, <1>5 DEF LogChange, JobInv, At
  <2>2. JobInv(p)'
    BY <1>5, <2>1, ProceedInv DEF LogChange
  <2> QED BY <1>1, <2>1, <2>2, OneJob, SameDocs
<1> QED BY <1>2, <1>3, <1>4, <1>5

LEMMA RmKeepsGraph ==
  ASSUME Serial, TypeOK, GraphInv, NEW p \in Procs,
         StripRead(p) \/ StripWrite(p) \/ Remove(p) \/ LogRm(p)
  PROVE  GraphInv'
<1>1. /\ job \in [Procs -> Job] /\ job[p] \in Job /\ job[p].doc \in DocFile
      /\ job[p].todo \in SUBSET DocIds /\ JobInv(p) /\ NoDangling
  BY DEF TypeOK, Job, GraphInv
<1>2. CASE StripRead(p)
  <2>1. UNCHANGED docs /\ StillInbound(p)
    BY <1>1, <1>2 DEF StripRead, JobInv, At
  <2>2. JobInv(p)'
    <3>1. PICK d \in job[p].todo :
            \/ Exit(p)
            \/ job' = [job EXCEPT ![p].step = "stripWrite", ![p].ref = d,
                                   ![p].doc = docs[d]]
      BY <1>2 DEF StripRead
    <3>2. CASE Exit(p)
      BY <3>2, IdleInv
    <3>3. CASE ~Exit(p)
      <4>1. /\ job'[p].step = "stripWrite" /\ job'[p].ref = d /\ job'[p].doc = docs[d]
            /\ job'[p].todo = job[p].todo /\ job'[p].inbound = job[p].inbound
            /\ job'[p].target = job[p].target
        BY <1>1, <3>1, <3>3 DEF Job
      <4>2. StillInbound(p)'
        BY <2>1, <4>1 DEF StillInbound, Inbound
      <4> QED BY <2>1, <4>1, <4>2 DEF JobInv, At
    <3> QED BY <3>2, <3>3
  <2> QED BY <1>1, <2>1, <2>2, OneJob, SameDocs
<1>3. CASE StripWrite(p)
  <2> DEFINE kept == {e \in job[p].doc.edges : <<job[p].ref, e>> \notin job[p].inbound}
             doc == [job[p].doc EXCEPT !.edges = kept]
             d == job[p].ref
  <2>1. /\ d \in job[p].todo /\ d \in DocIds /\ job[p].doc = docs[d] /\ StillInbound(p)
    BY <1>1, <1>3 DEF StripWrite, JobInv, At
  <2>2. docs' = [docs EXCEPT ![d] = doc]
    BY <1>3 DEF StripWrite
  <2>3. doc \in DocFile /\ doc.present = docs[d].present /\ doc.edges = kept
    <3>1. kept \in SUBSET Edge
      BY <1>1 DEF DocFile
    <3> HIDE DEF kept
    <3> QED BY <1>1, <2>1, <3>1 DEF DocFile
  <2>4. /\ docs'[d] = doc /\ \A c \in DocIds : c # d => docs'[c] = docs[c]
    BY <2>1, <2>2 DEF TypeOK
  <2>5. NoDangling'
    <3>1. \A c \in DocIds : /\ docs'[c].present = docs[c].present
                            /\ docs'[c].edges \subseteq docs[c].edges
      BY <2>1, <2>3, <2>4
    <3>2. ASSUME NEW c \in DocIds, NEW e \in docs'[c].edges, docs'[c].present
          PROVE  docs'[e.to].present
      <4>1. e \in docs[c].edges /\ e \in Edge
        BY <3>1 DEF TypeOK, DocFile
      <4>2. e.to \in DocIds /\ docs[e.to].present
        BY <1>1, <3>1, <3>2, <4>1 DEF NoDangling, Edge
      <4> QED BY <3>1, <4>2
    <3> QED BY <3>2 DEF NoDangling
  <2>6. /\ job'[p].step = IF job[p].todo = {d} THEN "remove" ELSE "strip"
        /\ job'[p].todo = job[p].todo \ {d} /\ job'[p].target = job[p].target
        /\ job'[p].inbound = job[p].inbound
    BY <1>1, <1>3 DEF StripWrite, Job
  <2>7. ASSUME NEW i \in Inbound(docs', job[p].target)
        PROVE  i \in Inbound(docs, job[p].target) /\ i[1] # d
    <3>1. /\ i \in DocIds \X Edge /\ i[1] \in DocIds /\ i = <<i[1], i[2]>>
          /\ docs'[i[1]].present /\ i[2] \in docs'[i[1]].edges
          /\ i[2].to = job[p].target
      BY <2>7 DEF Inbound
    <3>2. docs[i[1]].present /\ i[2] \in docs[i[1]].edges
      BY <2>1, <2>3, <2>4, <3>1
    <3>3. i \in Inbound(docs, job[p].target)
      BY <3>1, <3>2 DEF Inbound
    <3>4. i[1] # d
      <4> SUFFICES ASSUME i[1] = d PROVE FALSE
        OBVIOUS
      <4>1. i[2] \in kept
        BY <2>3, <2>4, <3>1
      <4>2. i = <<job[p].ref, i[2]>>
        BY <3>1
      <4>3. i \notin job[p].inbound
        BY <4>1, <4>2
      <4> QED BY <2>1, <3>3, <4>3 DEF StillInbound
    <3> QED BY <3>3, <3>4
  <2> HIDE DEF doc, kept
  <2>8. JobInv(p)'
    <3>1. Inbound(docs', job[p].target) \subseteq job[p].inbound
          /\ \A i \in Inbound(docs', job[p].target) : i[1] \in job[p].todo \ {d}
      BY <2>1, <2>7 DEF StillInbound
    <3>2. Inbound(docs, job[p].target)' = Inbound(docs', job'[p].target)
      BY DEF Inbound
    <3>3. CASE job[p].todo = {d}
      <4>1. Inbound(docs', job[p].target) = {}
        BY <3>1, <3>3
      <4> QED BY <2>6, <3>2, <3>3, <4>1 DEF JobInv, At
    <3>4. CASE job[p].todo # {d}
      <4>1. StillInbound(p)'
        BY <2>6, <3>1, <3>2 DEF StillInbound
      <4> QED BY <2>6, <3>4, <4>1 DEF JobInv, At
    <3> QED BY <3>3, <3>4
  <2> QED BY <2>5, <2>8, OneJob
<1>4. CASE Remove(p)
  <2>1. Inbound(docs, job[p].target) = {} /\ docs' = [docs EXCEPT ![job[p].target] = NoDoc]
    BY <1>1, <1>4 DEF Remove, JobInv
  <2>2. NoDangling'
    <3>1. ASSUME NEW c \in DocIds, NEW e \in docs'[c].edges, docs'[c].present
          PROVE  docs'[e.to].present
      <4>1. c # job[p].target /\ docs'[c] = docs[c]
        BY <2>1, <3>1 DEF TypeOK, NoDoc
      <4>2. e \in Edge /\ e.to \in DocIds /\ docs[e.to].present
        BY <1>1, <3>1, <4>1 DEF TypeOK, DocFile, NoDangling, Edge
      <4>3. e.to # job[p].target
        <5>1. e.to = job[p].target => <<c, e>> \in Inbound(docs, job[p].target)
          BY <3>1, <4>1, <4>2 DEF Inbound
        <5> QED BY <2>1, <5>1
      <4> QED BY <2>1, <4>2, <4>3 DEF TypeOK
    <3> QED BY <3>1 DEF NoDangling
  <2>3. JobInv(p)'
    <3>1. CASE Exit(p)
      BY <3>1, IdleInv
    <3>2. CASE job' = [job EXCEPT ![p].step = "logRm"]
      <4>1. job'[p].step = "logRm"
        BY <1>1, <3>2 DEF Job
      <4> QED BY <4>1 DEF JobInv, At
    <3> QED BY <1>4, <3>1, <3>2 DEF Remove
  <2> QED BY <2>2, <2>3, OneJob
<1>5. CASE LogRm(p)
  BY <1>1, <1>5, IdleInv, OneJob, SameDocs DEF LogRm
<1> QED BY <1>2, <1>3, <1>4, <1>5

LEMMA GraphStep == Serial /\ TypeOK /\ GraphInv /\ [Next]_vars => GraphInv'
<1> SUFFICES ASSUME Serial, TypeOK, GraphInv, [Next]_vars PROVE GraphInv'
  OBVIOUS
<1>1. ASSUME NEW p \in Procs, Crash(p) PROVE GraphInv'
  BY <1>1, IdleInv, OneJob, SameDocs DEF Crash, GraphInv
<1>2. ASSUME NEW p \in Procs, Continue(p) PROVE GraphInv'
  BY <1>2, EdgesKeepGraph, RmKeepsGraph DEF Continue
<1>3. CASE UNCHANGED vars
  BY <1>3 DEF vars, GraphInv, NoDangling, JobInv, At, StillInbound, Inbound
<1> QED BY <1>1, <1>2, <1>3, BeginKeepsGraph DEF Next

\* Commands that run one after the other never leave an edge to a document
\* that does not exist, though any of them may be killed at any step.
THEOREM NoDanglingHolds == Serial => (Spec => []NoDangling)
<1> SUFFICES ASSUME Serial PROVE Spec => []NoDangling
  OBVIOUS
<1>1. TypeOK /\ GraphInv /\ [Next]_vars => (TypeOK /\ GraphInv)'
  BY TypeStep, GraphStep
<1>2. GraphInv => NoDangling
  BY DEF GraphInv
<1> QED BY <1>1, <1>2, TypeInit, GraphInit, PTL DEF Spec

-----------------------------------------------------------------------------
(* What a running command knows *)

RmSteps == {"strip", "stripWrite", "remove", "logRm"}

\* JobInv says that a command's copies are true when it writes; this says what
\* it decided from them: where it creates, that an archived document takes
\* edges of provenance only, and what a removal found and has left to strip.
CommandInv(p) ==
  /\ At(p, "create") => job[p].ref \in DocIds /\ ~docs[job[p].ref].present
  /\ At(p, "edgeWrite") =>
       /\ job[p].delta = Delta(docs[job[p].ref].edges, job[p])
       /\ docs[job[p].ref].archived =>
            job[p].op # "retire" /\ ~job[p].replace /\ Counted(job[p].edges) = {}
  /\ At(p, "log") => job[p].ref \in DocIds
  /\ job[p].step \in RmSteps =>
       /\ job[p].op = "rm" /\ job[p].target \in DocIds
       /\ \A i \in job[p].inbound : i[2].to = job[p].target
  /\ job[p].step \in {"strip", "stripWrite", "remove"} => docs[job[p].target].present
  /\ job[p].step \in {"strip", "stripWrite"} =>
       \A d \in job[p].todo :
         docs[d].present /\ \A i \in job[p].inbound : i[1] = d => i[2] \in docs[d].edges
  /\ job[p].step \in {"remove", "logRm"} => job[p].todo = {}
  /\ At(p, "logRm") => ~docs[job[p].target].present

LEMMA FreeCommand ==
  ASSUME NEW p \in Procs, job'[p].step \in {"idle", "edge"}
  PROVE  CommandInv(p)'
BY DEF CommandInv, At, RmSteps

LEMMA ExitCommand ==
  ASSUME TypeOK, NEW p \in Procs, Exit(p)
  PROVE  job'[p].step = "idle" /\ CommandInv(p)'
<1>1. job'[p].step = "idle"
  BY DEF TypeOK, Exit, Idle
<1> QED BY <1>1, FreeCommand

LEMMA ProceedCommand ==
  ASSUME TypeOK, NEW p \in Procs, NEW copy, Proceed(p, copy)
  PROVE  job'[p].step \in {"idle", "edge"} /\ CommandInv(p)'
<1>1. job'[p].step \in {"idle", "edge"}
  <2>1. CASE Exit(p)
    BY <2>1, ExitCommand
  <2>2. CASE ~Exit(p)
    BY <2>2 DEF Proceed, TypeOK, Job
  <2> QED BY <2>1, <2>2
<1> QED BY <1>1, FreeCommand

LEMMA BeginCommand ==
  ASSUME TypeOK, NEW p \in Procs, Begin(p)
  PROVE  CommandInv(p)' /\ UNCHANGED docs
<1>1. job \in [Procs -> Job]
  BY DEF TypeOK
<1>2. ASSUME NEW d \in DocIds, NEW edges \in EdgeArgs \cup {{}}, NEW archived \in BOOLEAN,
             BeginNew(p, d, edges, archived)
      PROVE  CommandInv(p)' /\ UNCHANGED docs
  <2>1. /\ UNCHANGED docs /\ ~docs[d].present
        /\ job'[p].step = "create" /\ job'[p].ref = d
    BY <1>1, <1>2 DEF BeginNew, Start, Idle
  <2> QED BY <2>1 DEF CommandInv, At, RmSteps
<1>3. ASSUME NEW d \in DocIds, BeginRetire(p, d) PROVE CommandInv(p)' /\ UNCHANGED docs
  <2>1. UNCHANGED docs /\ job'[p].step = "edge"
    BY <1>1, <1>3 DEF BeginRetire, Start, Idle
  <2> QED BY <2>1, FreeCommand
<1>4. ASSUME NEW op \in {"link", "unlink"}, NEW refs \in SUBSET DocIds,
             NEW edges \in EdgeArgs, NEW replace \in BOOLEAN,
             BeginEdges(p, op, refs, edges, replace)
      PROVE  CommandInv(p)' /\ UNCHANGED docs
  <2>1. UNCHANGED docs /\ job'[p].step = "edge"
    BY <1>1, <1>4 DEF BeginEdges, Start, Idle
  <2> QED BY <2>1, FreeCommand
<1>5. ASSUME NEW d \in DocIds, NEW force \in BOOLEAN, BeginRm(p, d, force)
      PROVE  CommandInv(p)' /\ UNCHANGED docs
  <2>1. /\ UNCHANGED docs /\ docs[d].present
        /\ job'[p].step = IF Inbound(docs, d) = {} THEN "remove" ELSE "strip"
        /\ job'[p].op = "rm" /\ job'[p].target = d /\ job'[p].inbound = Inbound(docs, d)
        /\ job'[p].todo = {i[1] : i \in Inbound(docs, d)}
    BY <1>1, <1>5 DEF BeginRm, Start, Idle
  <2>2. \A i \in Inbound(docs, d) :
          docs[i[1]].present /\ i[2] \in docs[i[1]].edges /\ i[2].to = d
    BY DEF Inbound
  <2>3. CASE Inbound(docs, d) = {}
    BY <2>1, <2>3 DEF CommandInv, At, RmSteps
  <2>4. CASE Inbound(docs, d) # {}
    <3>1. job'[p].step = "strip"
      BY <2>1, <2>4
    <3>2. \A c \in job'[p].todo :
            docs[c].present /\ \A i \in job'[p].inbound : i[1] = c => i[2] \in docs[c].edges
      BY <2>1, <2>2
    <3> QED BY <2>1, <2>2, <3>1, <3>2 DEF CommandInv, At, RmSteps
  <2> QED BY <2>3, <2>4
<1> QED BY <1>2, <1>3, <1>4, <1>5 DEF Begin

\* The change a command is about to make depends on its arguments only.
LEMMA SameDelta ==
  ASSUME NEW old, NEW j, NEW k, j.op = k.op, j.edges = k.edges, j.replace = k.replace
  PROVE  Changed(old, j) = Changed(old, k) /\ Delta(old, j) = Delta(old, k)
<1>1. Changed(old, j) = Changed(old, k)
  BY DEF Changed
<1> QED BY <1>1 DEF Delta

LEMMA ContinueCommand ==
  ASSUME TypeOK, NEW p \in Procs, JobInv(p), CommandInv(p), Continue(p)
  PROVE  CommandInv(p)'
<1>1. /\ job \in [Procs -> Job] /\ job[p] \in Job /\ job[p].todo \in SUBSET DocIds
      /\ docs \in [DocIds -> DocFile]
  BY DEF TypeOK, Job
<1>2. CASE Create(p) \/ LogRm(p)
  BY <1>2, ExitCommand DEF Create, LogRm
<1>3. CASE EdgeRead(p)
  <2>1. CASE Exit(p)
    BY <2>1, ExitCommand
  <2>2. CASE ~Exit(p)
    <3>1. PICK d \in job[p].todo :
            /\ ~Refused(job[p], d)
            /\ job' = [job EXCEPT ![p].step = "edgeWrite", ![p].ref = d,
                         ![p].doc = docs[d],
                         ![p].delta = Delta(job[p].copy[d].edges, job[p])]
      BY <1>3, <2>2 DEF EdgeRead
    <3>2. job[p].copy = docs /\ UNCHANGED docs
      BY <1>3 DEF EdgeRead, JobInv, At
    <3>3. /\ job'[p].step = "edgeWrite" /\ job'[p].ref = d
          /\ job'[p].delta = Delta(docs[d].edges, job[p])
          /\ job'[p].op = job[p].op /\ job'[p].edges = job[p].edges
          /\ job'[p].replace = job[p].replace
      BY <1>1, <3>1, <3>2 DEF Job
    <3>4. Delta(docs[d].edges, job'[p]) = Delta(docs[d].edges, job[p])
      BY <3>3, SameDelta
    <3> QED BY <3>1, <3>2, <3>3, <3>4 DEF CommandInv, At, RmSteps, Refused
  <2> QED BY <2>1, <2>2
<1>4. CASE EdgeWrite(p)
  <2>1. CASE job' = [job EXCEPT ![p].step = "log", ![p].copy = docs']
    <3>1. job'[p].step = "log" /\ job'[p].ref = job[p].ref
      BY <1>1, <2>1 DEF Job
    <3> QED BY <1>4, <3>1 DEF CommandInv, At, RmSteps, EdgeWrite, JobInv
  <2> QED BY <1>4, <2>1, ExitCommand, ProceedCommand DEF EdgeWrite
<1>5. CASE LogChange(p)
  BY <1>5, ProceedCommand DEF LogChange
<1>6. CASE StripRead(p)
  <2>1. PICK d \in job[p].todo :
          \/ Exit(p)
          \/ job' = [job EXCEPT ![p].step = "stripWrite", ![p].ref = d, ![p].doc = docs[d]]
    BY <1>6 DEF StripRead
  <2>2. CASE job' = [job EXCEPT ![p].step = "stripWrite", ![p].ref = d, ![p].doc = docs[d]]
    <3>1. /\ job'[p].step = "stripWrite" /\ job'[p].op = job[p].op
          /\ job'[p].todo = job[p].todo /\ job'[p].inbound = job[p].inbound
          /\ job'[p].target = job[p].target
      BY <1>1, <2>2 DEF Job
    <3> QED BY <1>6, <3>1 DEF CommandInv, At, RmSteps, StripRead
  <2> QED BY <2>1, <2>2, ExitCommand
<1>7. CASE StripWrite(p)
  <2> DEFINE kept == {e \in job[p].doc.edges : <<job[p].ref, e>> \notin job[p].inbound}
             doc == [job[p].doc EXCEPT !.edges = kept]
  <2>1. /\ job[p].ref \in job[p].todo /\ job[p].doc = docs[job[p].ref]
    BY <1>7 DEF StripWrite, JobInv, At
  <2>2. doc.present = docs[job[p].ref].present
    BY <1>1, <2>1 DEF DocFile
  <2>3. docs' = [docs EXCEPT ![job[p].ref] = doc]
    BY <1>7 DEF StripWrite
  <2> HIDE DEF doc
  <2>4. \A d \in DocIds : /\ docs'[d].present = docs[d].present
                          /\ d # job[p].ref => docs'[d] = docs[d]
    BY <1>1, <2>1, <2>2, <2>3
  <2>5. /\ job'[p].step = IF job[p].todo = {job[p].ref} THEN "remove" ELSE "strip"
        /\ job'[p].todo = job[p].todo \ {job[p].ref} /\ job'[p].target = job[p].target
        /\ job'[p].inbound = job[p].inbound /\ job'[p].op = job[p].op
    BY <1>1, <1>7 DEF StripWrite, Job
  <2>6. /\ job[p].op = "rm" /\ job[p].target \in DocIds /\ docs[job[p].target].present
        /\ \A i \in job[p].inbound : i[2].to = job[p].target
        /\ \A d \in job[p].todo :
             docs[d].present /\ \A i \in job[p].inbound : i[1] = d => i[2] \in docs[d].edges
    BY <1>7 DEF StripWrite, CommandInv, At, RmSteps
  <2> QED BY <1>1, <2>4, <2>5, <2>6 DEF CommandInv, At, RmSteps
<1>8. CASE Remove(p)
  <2>1. CASE job' = [job EXCEPT ![p].step = "logRm"]
    <3>1. /\ job'[p].step = "logRm" /\ job'[p].op = job[p].op
          /\ job'[p].todo = job[p].todo /\ job'[p].inbound = job[p].inbound
          /\ job'[p].target = job[p].target
      BY <1>1, <2>1 DEF Job
    <3>2. job[p].target \in DocIds
      BY <1>8 DEF Remove, CommandInv, At, RmSteps
    <3>3. ~docs'[job[p].target].present
      BY <1>1, <1>8, <3>2 DEF Remove, NoDoc
    <3> QED BY <1>8, <3>1, <3>3 DEF CommandInv, At, RmSteps, Remove
  <2> QED BY <1>8, <2>1, ExitCommand DEF Remove
<1> QED BY <1>2, <1>3, <1>4, <1>5, <1>6, <1>7, <1>8 DEF Continue

CommandsInv == \A p \in Procs : CommandInv(p)

LEMMA CommandsStep ==
  ASSUME Serial, TypeOK, GraphInv, CommandsInv, [Next]_vars
  PROVE  CommandsInv'
<1>1. ASSUME NEW p \in Procs, Begin(p) \/ Continue(p) \/ Crash(p) PROVE CommandsInv'
  <2>1. CommandInv(p)'
    BY <1>1, BeginCommand, ContinueCommand, ExitCommand DEF GraphInv, CommandsInv, Crash
  <2>2. \A q \in Procs : q = p
    BY DEF Serial
  <2> QED BY <2>1, <2>2 DEF CommandsInv
<1>2. CASE UNCHANGED vars
  BY <1>2 DEF vars, CommandsInv, CommandInv, At
<1> QED BY <1>1, <1>2 DEF Next

LEMMA CommandsInit == Init => CommandsInv
BY DEF Init, Idle, CommandsInv, CommandInv, At, RmSteps

-----------------------------------------------------------------------------
(* Snapshots *)

SnapshotStep ==
  \A d \in DocIds :
    docs[d].present /\ docs[d].archived /\ docs'[d].present =>
      /\ Counted(docs'[d].edges) \subseteq Counted(docs[d].edges)
      /\ \A e \in Counted(docs[d].edges) \ docs'[d].edges :
           \E p \in Procs : job[p].op = "rm" /\ job[p].target = e.to

\* Edges of provenance are all that a command adds to an archived document or
\* takes from it, but for the edges a forced removal strips.
LEMMA SnapshotsKept ==
  ASSUME TypeOK, NEW p \in Procs, JobInv(p), CommandInv(p), Continue(p)
  PROVE  SnapshotStep
<1>1. docs \in [DocIds -> DocFile] /\ job[p] \in Job /\ job[p].doc \in DocFile
  BY DEF TypeOK, Job
<1>2. ASSUME UNCHANGED docs PROVE SnapshotStep
  BY <1>2 DEF SnapshotStep, Counted
<1>3. ASSUME NEW r, NEW doc, docs' = [docs EXCEPT ![r] = doc],
             r \in DocIds /\ docs[r].present /\ docs[r].archived /\ doc.present =>
               /\ Counted(doc.edges) \subseteq Counted(docs[r].edges)
               /\ \A e \in Counted(docs[r].edges) \ doc.edges :
                    job[p].op = "rm" /\ job[p].target = e.to
      PROVE  SnapshotStep
  BY <1>1, <1>3 DEF SnapshotStep, Counted
<1>4. CASE EdgeRead(p) \/ LogChange(p) \/ StripRead(p) \/ LogRm(p)
  BY <1>2, <1>4 DEF EdgeRead, LogChange, StripRead, LogRm
<1>5. CASE Create(p)
  BY <1>3, <1>5 DEF Create, CommandInv
<1>6. CASE EdgeWrite(p)
  <2> DEFINE doc == [job[p].doc EXCEPT !.edges = Changed(@, job[p]),
                                       !.archived = @ \/ job[p].op = "retire"]
             old == docs[job[p].ref].edges
  <2>1. job[p].doc = docs[job[p].ref]
    BY <1>6 DEF EdgeWrite, JobInv
  <2>2. doc.edges = Changed(old, job[p])
    BY <1>1, <2>1 DEF DocFile
  <2>3. docs' = [docs EXCEPT ![job[p].ref] = doc]
    BY <1>6 DEF EdgeWrite
  <2> HIDE DEF doc
  <2>4. ASSUME docs[job[p].ref].archived
        PROVE  Counted(Changed(old, job[p])) = Counted(old)
    <3>1. ~job[p].replace /\ Counted(job[p].edges) = {}
      BY <1>6, <2>4 DEF EdgeWrite, CommandInv
    <3>2. \A e : e \in job[p].edges => e.field = "provenance"
      BY <3>1 DEF Counted
    <3> QED BY <3>1, <3>2 DEF Changed, Linked, Counted
  <2>5. ASSUME docs[job[p].ref].archived
        PROVE  /\ Counted(doc.edges) \subseteq Counted(old)
               /\ Counted(old) \ doc.edges = {}
    BY <2>2, <2>4, <2>5 DEF Counted
  <2> QED BY <1>3, <2>3, <2>5
<1>7. CASE StripWrite(p)
  <2> DEFINE kept == {e \in job[p].doc.edges : <<job[p].ref, e>> \notin job[p].inbound}
             doc == [job[p].doc EXCEPT !.edges = kept]
  <2>1. job[p].doc = docs[job[p].ref]
    BY <1>7 DEF StripWrite, JobInv
  <2>2. doc.edges = kept
    BY <1>1 DEF DocFile
  <2>3. docs' = [docs EXCEPT ![job[p].ref] = doc]
    BY <1>7 DEF StripWrite
  <2>4. /\ job[p].op = "rm" /\ \A i \in job[p].inbound : i[2].to = job[p].target
    BY <1>7 DEF StripWrite, CommandInv, At, RmSteps
  <2>5. ASSUME NEW e \in docs[job[p].ref].edges \ kept PROVE job[p].target = e.to
    <3>1. <<job[p].ref, e>> \in job[p].inbound
      BY <2>1, <2>5
    <3> QED BY <2>4, <3>1
  <2>6. kept \subseteq docs[job[p].ref].edges
    BY <2>1
  <2> HIDE DEF doc, kept
  <2>7. /\ Counted(doc.edges) \subseteq Counted(docs[job[p].ref].edges)
        /\ \A e \in Counted(docs[job[p].ref].edges) \ doc.edges :
             job[p].op = "rm" /\ job[p].target = e.to
    BY <2>2, <2>4, <2>5, <2>6 DEF Counted
  <2> QED BY <1>3, <2>3, <2>7
<1>8. CASE Remove(p)
  <2>1. ~NoDoc.present
    BY DEF NoDoc
  <2> QED BY <1>3, <1>8, <2>1 DEF Remove
<1> QED BY <1>4, <1>5, <1>6, <1>7, <1>8 DEF Continue

\* When commands run one after the other, a snapshot keeps its edges but those
\* of provenance, and those to a document whose removal is forced.
THEOREM SnapshotEdgesKeptHolds == Serial => (Spec => SnapshotEdgesKept)
<1> SUFFICES ASSUME Serial PROVE Spec => SnapshotEdgesKept
  OBVIOUS
<1>1. ASSUME TypeOK, GraphInv, CommandsInv, [Next]_vars PROVE SnapshotStep
  <2>1. ASSUME NEW p \in Procs, Continue(p) PROVE SnapshotStep
    BY <1>1, <2>1, SnapshotsKept DEF GraphInv, CommandsInv
  <2>2. ASSUME UNCHANGED docs PROVE SnapshotStep
    BY <2>2 DEF SnapshotStep, Counted
  <2> QED BY <1>1, <2>1, <2>2, BeginCommand DEF Next, Crash, vars
<1>2. TypeOK /\ GraphInv /\ CommandsInv /\ [Next]_vars =>
        [\A d \in DocIds :
           docs[d].present /\ docs[d].archived /\ docs'[d].present =>
             /\ Counted(docs'[d].edges) \subseteq Counted(docs[d].edges)
             /\ \A e \in Counted(docs[d].edges) \ docs'[d].edges :
                  \E p \in Procs : job[p].op = "rm" /\ job[p].target = e.to]_docs
  BY <1>1 DEF SnapshotStep
<1>3. TypeOK /\ GraphInv /\ CommandsInv /\ [Next]_vars => (TypeOK /\ GraphInv /\ CommandsInv)'
  BY TypeStep, GraphStep, CommandsStep
<1> QED BY <1>2, <1>3, TypeInit, GraphInit, CommandsInit, PTL DEF Spec, SnapshotEdgesKept

-----------------------------------------------------------------------------
(* The log accounts for the edges *)

\* The lines of a removal that are still to be written will say this of d.
StrippedCount(p, d) ==
  Cardinality({i \in job[p].inbound : i[1] = d /\ i[2].field # "provenance"})

\* What the running command has written to d and not yet logged.
Owed(p, d) ==
  IF At(p, "log") /\ job[p].ref = d THEN job[p].delta
  ELSE IF job[p].step \in RmSteps /\ d \notin job[p].todo THEN 0 - StrippedCount(p, d)
  ELSE 0

Accounted(p) ==
  \A d \in DocIds :
    docs[d].present => ledger[d] + Owed(p, d) = Cardinality(Counted(docs[d].edges))

\* LedgerExact speaks of moments without a command; in between, the log and
\* what the command owes it account for the edges together.
LedgerInv == LedgerExact /\ (crashes = 0 => \A p \in Procs : Accounted(p))

LEMMA CountChange ==
  ASSUME NEW A \in SUBSET Edge, NEW B \in SUBSET Edge
  PROVE  Cardinality(Counted(B)) =
           Cardinality(Counted(A)) + Cardinality(Counted(B \ A)) - Cardinality(Counted(A \ B))
<1> DEFINE X == Counted(A)  Y == Counted(B)
<1>1. /\ X \in SUBSET Edge /\ Y \in SUBSET Edge
      /\ Counted(B \ A) = Y \ X /\ Counted(A \ B) = X \ Y
      /\ X \cap Y = Y \cap X
  BY DEF Counted
<1> HIDE DEF X, Y
<1>2. IsFiniteSet(X) /\ IsFiniteSet(Y) /\ IsFiniteSet(X \cap Y)
  BY <1>1, FiniteEdge, FS_Subset
<1>3. /\ Cardinality(Y \ X) = Cardinality(Y) - Cardinality(Y \cap X)
      /\ Cardinality(X \ Y) = Cardinality(X) - Cardinality(X \cap Y)
  BY <1>2, FS_Difference
<1>4. /\ Cardinality(X) \in Nat /\ Cardinality(Y) \in Nat
      /\ Cardinality(X \cap Y) \in Nat
  BY <1>2, FS_CardinalityType
<1>5. Cardinality(Y) = Cardinality(X) + Cardinality(Y \ X) - Cardinality(X \ Y)
  <2> DEFINE x == Cardinality(X)  y == Cardinality(Y)  xy == Cardinality(X \cap Y)
  <2>1. x \in Nat /\ y \in Nat /\ xy \in Nat
    BY <1>4
  <2>2. Cardinality(Y \ X) = y - xy /\ Cardinality(X \ Y) = x - xy
    BY <1>1, <1>3
  <2> HIDE DEF x, y, xy
  <2>3. y = x + (y - xy) - (x - xy)
    BY <2>1
  <2> QED BY <2>2, <2>3 DEF x, y
<1> QED BY <1>1, <1>5 DEF X, Y

LEMMA CountDelta ==
  ASSUME NEW old \in SUBSET Edge, NEW j \in Job
  PROVE  Cardinality(Counted(Changed(old, j))) = Cardinality(Counted(old)) + Delta(old, j)
<1>1. Changed(old, j) \in SUBSET Edge
  BY ChangedType
<1>2. /\ Cardinality(Counted(old)) \in Nat
      /\ Changed(old, j) \ old \in SUBSET Edge /\ old \ Changed(old, j) \in SUBSET Edge
  BY <1>1, CountType
<1>3. /\ Cardinality(Counted(Changed(old, j) \ old)) \in Nat
      /\ Cardinality(Counted(old \ Changed(old, j))) \in Nat
  BY <1>2, CountType
<1>4. Cardinality(Counted(Changed(old, j))) =
        Cardinality(Counted(old)) + Cardinality(Counted(Changed(old, j) \ old))
          - Cardinality(Counted(old \ Changed(old, j)))
  BY <1>1, CountChange
<1> QED BY <1>2, <1>3, <1>4 DEF Delta

\* The line of a removal counts as many edges as the strip takes from d.
LEMMA CountStripped ==
  ASSUME NEW old \in SUBSET Edge, NEW inbound \in SUBSET (DocIds \X Edge), NEW d \in DocIds,
         \A i \in inbound : i[1] = d => i[2] \in old
  PROVE  Cardinality(Counted({e \in old : <<d, e>> \notin inbound})) =
           Cardinality(Counted(old))
             - Cardinality({i \in inbound : i[1] = d /\ i[2].field # "provenance"})
<1> DEFINE kept == {e \in old : <<d, e>> \notin inbound}
           C == Counted(old)
           S == {e \in C : <<d, e>> \in inbound}
           I == {i \in inbound : i[1] = d /\ i[2].field # "provenance"}
           f == [e \in S |-> <<d, e>>]
<1>1. Counted(kept) = C \ S /\ C \cap S = S /\ C \in SUBSET Edge
  BY DEF Counted
<1>2. f \in Bijection(S, I)
  <2>1. f \in [S -> I]
    BY DEF Counted
  <2>2. ASSUME NEW a \in S, NEW b \in S, f[a] = f[b] PROVE a = b
    BY <2>2
  <2>3. ASSUME NEW i \in I PROVE \E e \in S : f[e] = i
    <3>1. i[2] \in S /\ i = <<d, i[2]>>
      BY DEF Counted
    <3> QED BY <3>1
  <2> HIDE DEF f, S, I
  <2> QED BY <2>1, <2>2, <2>3 DEF Bijection, Injection, Surjection, IsInjective
<1>3. IsFiniteSet(C) /\ IsFiniteSet(S)
  BY <1>1, FiniteEdge, FS_Subset
<1> HIDE DEF kept, C, S, I, f
<1>4. ExistsBijection(S, I)
  BY <1>2 DEF ExistsBijection
<1>5. Cardinality(I) = Cardinality(S)
  BY <1>3, <1>4, FS_Bijection
<1>6. Cardinality(C \ S) = Cardinality(C) - Cardinality(C \cap S)
  BY <1>3, FS_Difference
<1>7. Cardinality(Counted(kept)) = Cardinality(C) - Cardinality(I)
  BY <1>1, <1>5, <1>6
<1> QED BY <1>7 DEF kept, C, I

\* A command that holds no step of rm and no change to log owes nothing.
LEMMA NothingOwed ==
  ASSUME NEW p \in Procs, NEW d, job[p].step \in {"idle", "edge", "create", "edgeWrite"}
  PROVE  Owed(p, d) = 0
BY DEF Owed, At, RmSteps

LEMMA OwedType ==
  ASSUME TypeOK, NEW p \in Procs, NEW d \in DocIds
  PROVE  Owed(p, d) \in Int /\ StrippedCount(p, d) \in Nat
<1>1. job[p].inbound \in SUBSET (DocIds \X Edge) /\ job[p].delta \in Int
  BY DEF TypeOK, Job
<1>2. StrippedCount(p, d) \in Nat
  BY <1>1, InboundCountType DEF StrippedCount
<1> QED BY <1>1, <1>2 DEF Owed

\* Without a change of the file or of the log, what is owed stays the same.
LEMMA SameAccounts ==
  ASSUME NEW p \in Procs, Accounted(p), UNCHANGED <<docs, ledger>>,
         \A d \in DocIds : docs[d].present => Owed(p, d)' = Owed(p, d)
  PROVE  Accounted(p)'
<1> SUFFICES ASSUME NEW d \in DocIds, docs'[d].present
             PROVE  ledger'[d] + Owed(p, d)' = Cardinality(Counted(docs'[d].edges))
  BY DEF Accounted
<1>1. /\ docs'[d] = docs[d] /\ ledger'[d] = ledger[d] /\ Owed(p, d)' = Owed(p, d)
  OBVIOUS
<1> QED BY <1>1 DEF Accounted

LEMMA BeginAccounts ==
  ASSUME TypeOK, NEW p \in Procs, Accounted(p), Begin(p)
  PROVE  Accounted(p)'
<1>1. job \in [Procs -> Job]
  BY DEF TypeOK
<1>2. ASSUME UNCHANGED <<docs, ledger>>, At(p, "idle"), job'[p].step \in {"create", "edge"}
      PROVE  Accounted(p)'
  <2>1. \A d \in DocIds : Owed(p, d)' = 0 /\ Owed(p, d) = 0
    BY <1>2 DEF Owed, At, RmSteps
  <2> QED BY <1>2, <2>1, SameAccounts
<1>3. ASSUME NEW d \in DocIds, NEW edges \in EdgeArgs \cup {{}}, NEW archived \in BOOLEAN,
             BeginNew(p, d, edges, archived)
      PROVE  Accounted(p)'
  <2>1. job'[p].step = "create"
    BY <1>1, <1>3 DEF BeginNew, Start, Idle
  <2> QED BY <1>2, <1>3, <2>1 DEF BeginNew, Start
<1>4. ASSUME NEW d \in DocIds, BeginRetire(p, d) PROVE Accounted(p)'
  <2>1. job'[p].step = "edge"
    BY <1>1, <1>4 DEF BeginRetire, Start, Idle
  <2> QED BY <1>2, <1>4, <2>1 DEF BeginRetire, Start
<1>5. ASSUME NEW op \in {"link", "unlink"}, NEW refs \in SUBSET DocIds,
             NEW edges \in EdgeArgs, NEW replace \in BOOLEAN,
             BeginEdges(p, op, refs, edges, replace)
      PROVE  Accounted(p)'
  <2>1. job'[p].step = "edge"
    BY <1>1, <1>5 DEF BeginEdges, Start, Idle
  <2> QED BY <1>2, <1>5, <2>1 DEF BeginEdges, Start
<1>6. ASSUME NEW d \in DocIds, NEW force \in BOOLEAN, BeginRm(p, d, force)
      PROVE  Accounted(p)'
  <2>1. /\ UNCHANGED <<docs, ledger>> /\ At(p, "idle")
        /\ job'[p].step \in {"remove", "strip"}
        /\ job'[p].inbound = Inbound(docs, d)
        /\ job'[p].todo = {i[1] : i \in Inbound(docs, d)}
    BY <1>1, <1>6 DEF BeginRm, Start, Idle
  <2>2. ASSUME NEW c \in DocIds PROVE Owed(p, c)' = 0
    <3>1. CASE c \in job'[p].todo
      BY <2>1, <3>1 DEF Owed, At
    <3>2. CASE c \notin job'[p].todo
      <4>1. {i \in job'[p].inbound : i[1] = c /\ i[2].field # "provenance"} = {}
        BY <2>1, <3>2
      <4>2. StrippedCount(p, c)' = 0
        BY <4>1, FS_EmptySet DEF StrippedCount
      <4> QED BY <2>1, <4>2 DEF Owed, At
    <3> QED BY <3>1, <3>2
  <2>3. \A c \in DocIds : Owed(p, c) = 0
    BY <2>1 DEF Owed, At, RmSteps
  <2> QED BY <2>1, <2>2, <2>3, SameAccounts
<1> QED BY <1>3, <1>4, <1>5, <1>6 DEF Begin

\* A command at rest, or between two documents of its batch, owes nothing.
LEMMA RestAccounts ==
  ASSUME NEW p \in Procs, Accounted(p), UNCHANGED <<docs, ledger>>,
         job[p].step \in {"idle", "edge", "create", "edgeWrite"},
         job'[p].step \in {"idle", "edge", "create", "edgeWrite"}
  PROVE  Accounted(p)'
<1>1. \A d \in DocIds : Owed(p, d)' = 0 /\ Owed(p, d) = 0
  BY DEF Owed, At, RmSteps
<1> QED BY <1>1, SameAccounts

LEMMA EdgesAccount ==
  ASSUME TypeOK, NEW p \in Procs, JobInv(p), CommandInv(p), Accounted(p),
         Create(p) \/ EdgeRead(p) \/ EdgeWrite(p) \/ LogChange(p)
  PROVE  Accounted(p)'
<1>1. /\ job \in [Procs -> Job] /\ job[p] \in Job /\ docs \in [DocIds -> DocFile]
      /\ ledger \in [DocIds -> Int] /\ job[p].delta \in Int
  BY DEF TypeOK, Job
<1>2. CASE Create(p)
  <2>1. job'[p].step = "idle"
    BY <1>2, ExitCommand DEF Create
  <2>2. \A d \in DocIds : Owed(p, d) = 0 /\ Owed(p, d)' = 0
    BY <1>2, <2>1 DEF Create, Owed, At, RmSteps
  <2>3. Cardinality(Counted(job[p].doc.edges)) \in Int
    BY <1>1, CountType DEF Job, DocFile
  <2> SUFFICES ASSUME NEW d \in DocIds, docs'[d].present
               PROVE  ledger'[d] + Owed(p, d)' = Cardinality(Counted(docs'[d].edges))
    BY DEF Accounted
  <2>4. CASE d = job[p].ref
    <3>1. docs'[d] = job[p].doc /\ ledger'[d] = Cardinality(Counted(job[p].doc.edges))
      BY <1>1, <1>2, <2>4 DEF Create
    <3>2. Counted(docs'[d].edges) = Counted(job[p].doc.edges) /\ ledger'[d] \in Int
      BY <2>3, <3>1
    <3>3. ledger'[d] + Owed(p, d)' = ledger'[d]
      BY <2>2, <3>2
    <3> QED BY <3>1, <3>2, <3>3
  <2>5. CASE d # job[p].ref
    <3>1. docs'[d] = docs[d] /\ ledger'[d] = ledger[d]
      BY <1>1, <1>2, <2>5 DEF Create
    <3> QED BY <2>2, <3>1 DEF Accounted
  <2> QED BY <2>4, <2>5
<1>3. CASE EdgeRead(p)
  <2>1. UNCHANGED <<docs, ledger>> /\ job[p].step = "edge"
    BY <1>3 DEF EdgeRead, At
  <2>2. CASE Exit(p)
    BY <2>1, <2>2, ExitCommand, RestAccounts
  <2>3. CASE ~Exit(p)
    <3>1. PICK d \in job[p].todo :
            job' = [job EXCEPT ![p].step = "edgeWrite", ![p].ref = d, ![p].doc = docs[d],
                               ![p].delta = Delta(job[p].copy[d].edges, job[p])]
      BY <1>3, <2>3 DEF EdgeRead
    <3>2. job'[p].step = "edgeWrite"
      BY <1>1, <3>1 DEF Job
    <3> QED BY <2>1, <3>2, RestAccounts
  <2> QED BY <2>2, <2>3
<1>4. CASE EdgeWrite(p)
  <2> DEFINE r == job[p].ref
             doc == [job[p].doc EXCEPT !.edges = Changed(@, job[p]),
                                       !.archived = @ \/ job[p].op = "retire"]
             old == docs[r].edges
  <2>1. /\ r \in DocIds /\ job[p].doc = docs[r] /\ docs[r].present /\ old \in SUBSET Edge
    BY <1>1, <1>4 DEF EdgeWrite, JobInv, DocFile
  <2>2. /\ doc.edges = Changed(old, job[p])
        /\ doc.archived = (docs[r].archived \/ job[p].op = "retire")
    BY <1>1, <2>1 DEF DocFile
  <2>3. docs' = [docs EXCEPT ![r] = doc] /\ UNCHANGED ledger /\ At(p, "edgeWrite")
    BY <1>4 DEF EdgeWrite
  <2> HIDE DEF doc, r
  <2>4. docs'[r] = doc /\ \A d \in DocIds \ {r} : docs'[d] = docs[d]
    BY <1>1, <2>1, <2>3
  <2>5. \A d \in DocIds : Owed(p, d) = 0
    BY <2>3 DEF Owed, At, RmSteps
  <2>6. Cardinality(Counted(Changed(old, job[p]))) = ledger[r] + Delta(old, job[p])
    BY <1>1, <2>1, <2>5, CountDelta DEF Accounted
  <2>7. CASE doc.archived
    <3>1. Counted(Changed(old, job[p])) = Counted(old)
      <4>1. CASE job[p].op = "retire"
        BY <4>1 DEF Changed
      <4>2. CASE job[p].op # "retire"
        <5>1. ~job[p].replace /\ Counted(job[p].edges) = {}
          BY <2>2, <2>3, <2>7, <4>2 DEF CommandInv, r
        <5>2. \A e : e \in job[p].edges => e.field = "provenance"
          BY <5>1 DEF Counted
        <5> QED BY <5>1, <5>2 DEF Changed, Linked, Counted
      <4> QED BY <4>1, <4>2
    <3>2. job'[p].step \in {"idle", "edge"}
      BY <1>4, <2>4, <2>7, ExitCommand, ProceedCommand DEF EdgeWrite, r
    <3>3. \A d \in DocIds : Owed(p, d)' = 0
      BY <3>2 DEF Owed, At, RmSteps
    <3> SUFFICES ASSUME NEW d \in DocIds, docs'[d].present
                 PROVE  ledger'[d] + Owed(p, d)' = Cardinality(Counted(docs'[d].edges))
      BY DEF Accounted
    <3>4. docs[d].present /\ Counted(docs'[d].edges) = Counted(docs[d].edges)
      BY <2>1, <2>2, <2>4, <3>1
    <3> QED BY <2>3, <2>5, <3>3, <3>4 DEF Accounted
  <2>8. CASE ~doc.archived
    <3>1. job' = [job EXCEPT ![p].step = "log", ![p].copy = docs']
      BY <1>4, <2>4, <2>8 DEF EdgeWrite, r
    <3>2. job'[p].step = "log" /\ job'[p].ref = r /\ job'[p].delta = job[p].delta
      BY <1>1, <3>1 DEF Job, r
    <3>3. job[p].delta = Delta(old, job[p])
      BY <2>3 DEF CommandInv, r
    <3> SUFFICES ASSUME NEW d \in DocIds, docs'[d].present
                 PROVE  ledger'[d] + Owed(p, d)' = Cardinality(Counted(docs'[d].edges))
      BY DEF Accounted
    <3>4. CASE d = r
      <4>1. Owed(p, d)' = Delta(old, job[p])
        BY <3>2, <3>3, <3>4 DEF Owed, At
      <4> QED BY <2>2, <2>3, <2>4, <2>6, <3>4, <4>1
    <3>5. CASE d # r
      <4>1. Owed(p, d)' = 0
        BY <3>2, <3>5 DEF Owed, At, RmSteps
      <4>2. docs'[d] = docs[d] /\ ledger'[d] = ledger[d]
        BY <2>3, <2>4, <3>5
      <4> QED BY <2>5, <4>1, <4>2 DEF Accounted
    <3> QED BY <3>4, <3>5
  <2> QED BY <2>7, <2>8
<1>5. CASE LogChange(p)
  <2>1. job'[p].step \in {"idle", "edge"}
    BY <1>5, ProceedCommand DEF LogChange
  <2>2. \A d \in DocIds : Owed(p, d)' = 0
    BY <2>1 DEF Owed, At, RmSteps
  <2>3. /\ UNCHANGED docs /\ At(p, "log")
        /\ ledger' = [ledger EXCEPT ![job[p].ref] = @ + job[p].delta]
    BY <1>5 DEF LogChange
  <2> SUFFICES ASSUME NEW d \in DocIds, docs'[d].present
               PROVE  ledger'[d] + Owed(p, d)' = Cardinality(Counted(docs'[d].edges))
    BY DEF Accounted
  <2>4. ledger'[d] = ledger[d] + Owed(p, d)
    BY <1>1, <2>3 DEF Owed, At, RmSteps
  <2>5. Owed(p, d) \in Int /\ ledger[d] \in Int
    BY <1>1, OwedType
  <2> QED BY <2>2, <2>3, <2>4, <2>5 DEF Accounted
<1> QED BY <1>2, <1>3, <1>4, <1>5

LEMMA RmAccounts ==
  ASSUME TypeOK, NEW p \in Procs, JobInv(p), CommandInv(p), Accounted(p),
         StripRead(p) \/ StripWrite(p) \/ Remove(p) \/ LogRm(p)
  PROVE  Accounted(p)'
<1>1. /\ job \in [Procs -> Job] /\ job[p] \in Job /\ docs \in [DocIds -> DocFile]
      /\ ledger \in [DocIds -> Int] /\ job[p].inbound \in SUBSET (DocIds \X Edge)
      /\ job[p].todo \in SUBSET DocIds
  BY DEF TypeOK, Job
<1>2. ASSUME job[p].step \in RmSteps, job'[p].step \in RmSteps,
             job'[p].inbound = job[p].inbound,
             NEW x, x \in job'[p].todo <=> x \in job[p].todo
      PROVE  Owed(p, x)' = Owed(p, x)
  BY <1>2 DEF Owed, StrippedCount, RmSteps, At
<1>3. CASE StripRead(p)
  <2>1. PICK d \in job[p].todo :
          job' = [job EXCEPT ![p].step = "stripWrite", ![p].ref = d, ![p].doc = docs[d]]
    BY <1>3 DEF StripRead, CommandInv, At
  <2>2. /\ job'[p].step = "stripWrite" /\ job'[p].inbound = job[p].inbound
        /\ job'[p].todo = job[p].todo
    BY <1>1, <2>1 DEF Job
  <2>3. UNCHANGED <<docs, ledger>> /\ job[p].step = "strip"
    BY <1>3 DEF StripRead, At
  <2>4. \A x \in DocIds : Owed(p, x)' = Owed(p, x)
    BY <1>2, <2>2, <2>3 DEF RmSteps
  <2> QED BY <2>3, <2>4, SameAccounts
<1>4. CASE StripWrite(p)
  <2> DEFINE r == job[p].ref
             kept == {e \in job[p].doc.edges : <<r, e>> \notin job[p].inbound}
             doc == [job[p].doc EXCEPT !.edges = kept]
             old == docs[r].edges
  <2>1. /\ r \in job[p].todo /\ r \in DocIds /\ job[p].doc = docs[r] /\ old \in SUBSET Edge
    BY <1>1, <1>4 DEF StripWrite, JobInv, At, DocFile
  <2>2. docs[r].present /\ \A i \in job[p].inbound : i[1] = r => i[2] \in old
    BY <1>4, <2>1 DEF StripWrite, CommandInv, At
  <2>3. doc.edges = {e \in old : <<r, e>> \notin job[p].inbound}
    BY <1>1, <2>1 DEF DocFile
  <2>4. docs' = [docs EXCEPT ![r] = doc] /\ UNCHANGED ledger
    BY <1>4 DEF StripWrite
  <2>5. /\ job[p].step = "stripWrite" /\ job'[p].step \in {"strip", "remove"}
        /\ job'[p].todo = job[p].todo \ {r} /\ job'[p].inbound = job[p].inbound
    BY <1>1, <1>4 DEF StripWrite, At, Job
  <2> HIDE DEF doc, r, old
  <2>6. Cardinality(Counted(doc.edges)) = Cardinality(Counted(old)) - StrippedCount(p, r)
    <3>1. Cardinality(Counted({e \in old : <<r, e>> \notin job[p].inbound})) =
            Cardinality(Counted(old)) - StrippedCount(p, r)
      BY <1>1, <2>1, <2>2, CountStripped DEF StrippedCount
    <3> QED BY <2>3, <3>1
  <2> USE DEF old
  <2>7. docs'[r] = doc /\ \A d \in DocIds \ {r} : docs'[d] = docs[d]
    BY <1>1, <2>1, <2>4
  <2> SUFFICES ASSUME NEW d \in DocIds, docs'[d].present
               PROVE  ledger'[d] + Owed(p, d)' = Cardinality(Counted(docs'[d].edges))
    BY DEF Accounted
  <2>8. CASE d = r
    <3>1. Owed(p, d) = 0
      BY <2>1, <2>5, <2>8 DEF Owed, At
    <3>2. Owed(p, d)' = 0 - StrippedCount(p, d)
      <4>1. StrippedCount(p, d)' = StrippedCount(p, d)
        BY <2>5 DEF StrippedCount
      <4>2. /\ job'[p].step \in RmSteps /\ job'[p].step # "log" /\ d \notin job'[p].todo
        BY <2>5, <2>8 DEF RmSteps
      <4> QED BY <4>1, <4>2 DEF Owed, At
    <3>3. ledger[d] \in Int /\ StrippedCount(p, d) \in Nat
      BY <1>1, OwedType
    <3>4. ledger[d] = Cardinality(Counted(old))
      BY <2>2, <2>8, <3>1, <3>3 DEF Accounted
    <3> QED BY <2>4, <2>6, <2>7, <2>8, <3>2, <3>3, <3>4
  <2>9. CASE d # r
    <3>1. Owed(p, d)' = Owed(p, d)
      BY <1>2, <2>5, <2>9 DEF RmSteps
    <3> QED BY <2>4, <2>7, <2>9, <3>1 DEF Accounted
  <2> QED BY <2>8, <2>9
<1>5. CASE Remove(p)
  <2>1. /\ docs' = [docs EXCEPT ![job[p].target] = NoDoc] /\ UNCHANGED ledger
        /\ job[p].step = "remove" /\ job' = [job EXCEPT ![p].step = "logRm"]
    BY <1>5 DEF Remove, CommandInv, At
  <2>2. /\ job'[p].step = "logRm" /\ job'[p].inbound = job[p].inbound
        /\ job'[p].todo = job[p].todo
    BY <1>1, <2>1 DEF Job
  <2> SUFFICES ASSUME NEW d \in DocIds, docs'[d].present
               PROVE  ledger'[d] + Owed(p, d)' = Cardinality(Counted(docs'[d].edges))
    BY DEF Accounted
  <2>3. Owed(p, d)' = Owed(p, d)
    BY <1>2, <2>1, <2>2 DEF RmSteps
  <2>4. docs'[d] = docs[d]
    BY <1>1, <2>1 DEF NoDoc
  <2> QED BY <2>1, <2>3, <2>4 DEF Accounted
<1>6. CASE LogRm(p)
  <2>1. job'[p].step = "idle"
    BY <1>6, ExitCommand DEF LogRm
  <2>2. /\ UNCHANGED docs /\ job[p].step = "logRm" /\ job[p].todo = {}
        /\ ~docs[job[p].target].present
        /\ \A d \in DocIds : d # job[p].target => ledger'[d] = ledger[d] - StrippedCount(p, d)
    BY <1>6 DEF LogRm, CommandInv, At, StrippedCount
  <2> SUFFICES ASSUME NEW d \in DocIds, docs'[d].present
               PROVE  ledger'[d] + Owed(p, d)' = Cardinality(Counted(docs'[d].edges))
    BY DEF Accounted
  <2>3. Owed(p, d)' = 0
    BY <2>1 DEF Owed, At, RmSteps
  <2>4. Owed(p, d) = 0 - StrippedCount(p, d)
    BY <2>2 DEF Owed, At, RmSteps
  <2>5. ledger[d] \in Int /\ StrippedCount(p, d) \in Nat
    BY <1>1, OwedType
  <2>6. d # job[p].target
    BY <2>2
  <2> QED BY <2>2, <2>3, <2>4, <2>5, <2>6 DEF Accounted
<1> QED BY <1>3, <1>4, <1>5, <1>6

LEMMA LedgerInit == Init => LedgerInv
<1> SUFFICES ASSUME Init PROVE LedgerInv
  OBVIOUS
<1>1. ASSUME NEW d \in DocIds
      PROVE  ledger[d] = Cardinality(Counted(docs[d].edges)) /\ ledger[d] \in Nat
  <2>1. docs[d].edges = InitEdges[d] /\ ledger[d] = Cardinality(Counted(InitEdges[d]))
    BY DEF Init
  <2> QED BY <2>1, InitAssumption, CountType
<1>2. \A p \in Procs, d \in DocIds : Owed(p, d) = 0
  BY DEF Init, Idle, Owed, At, RmSteps
<1> QED BY <1>1, <1>2 DEF LedgerInv, LedgerExact, Accounted

LEMMA LedgerStep ==
  ASSUME Serial, TypeOK, GraphInv, CommandsInv, LedgerInv, [Next]_vars
  PROVE  LedgerInv'
<1>1. ASSUME NEW p \in Procs, Begin(p) \/ Continue(p) \/ Crash(p) PROVE LedgerInv'
  <2> SUFFICES ASSUME crashes' = 0 PROVE LedgerInv'
    BY DEF LedgerInv, LedgerExact
  <2>1. ~Crash(p)
    BY DEF Crash, TypeOK
  <2>2. crashes = 0
    BY <1>1, <2>1 DEF Begin, BeginNew, BeginRetire, BeginEdges, BeginRm, Continue, Create,
                      EdgeRead, EdgeWrite, LogChange, StripRead, StripWrite, Remove, LogRm
  <2>3. Accounted(p) /\ JobInv(p) /\ CommandInv(p)
    BY <2>2 DEF LedgerInv, GraphInv, CommandsInv
  <2>4. Accounted(p)'
    BY <1>1, <2>1, <2>3, BeginAccounts, EdgesAccount, RmAccounts DEF Continue
  <2>5. \A q \in Procs : q = p
    BY DEF Serial
  <2>6. \A q \in Procs : Accounted(q)'
    BY <2>4, <2>5
  <2>7. LedgerExact'
    <3> SUFFICES ASSUME job'[p].step = "idle", NEW d \in DocIds, docs'[d].present
                 PROVE  ledger'[d] = Cardinality(Counted(docs'[d].edges))
      BY DEF LedgerExact, At
    <3>1. Owed(p, d)' = 0
      BY DEF Owed, At, RmSteps
    <3>2. ledger'[d] \in Int
      BY <1>1, TypeStep DEF TypeOK, Next
    <3> QED BY <2>4, <3>1, <3>2 DEF Accounted
  <2> QED BY <2>6, <2>7 DEF LedgerInv
<1>2. CASE UNCHANGED vars
  BY <1>2 DEF vars, LedgerInv, LedgerExact, Accounted, Owed, StrippedCount, At
<1> QED BY <1>1, <1>2 DEF Next

\* When commands run one after the other and none is killed, the log lines
\* account for the edges of every document whenever no command is running.
THEOREM LedgerExactHolds == Serial => (Spec => []LedgerExact)
<1> SUFFICES ASSUME Serial PROVE Spec => []LedgerExact
  OBVIOUS
<1>1. TypeOK /\ GraphInv /\ CommandsInv /\ LedgerInv /\ [Next]_vars =>
        (TypeOK /\ GraphInv /\ CommandsInv /\ LedgerInv)'
  BY TypeStep, GraphStep, CommandsStep, LedgerStep
<1>2. LedgerInv => LedgerExact
  BY DEF LedgerInv
<1> QED BY <1>1, <1>2, TypeInit, GraphInit, CommandsInit, LedgerInit, PTL DEF Spec
=============================================================================
