--------------------------- MODULE Porcelain_proofs ---------------------------
(***************************************************************************)
(* Theorems about Porcelain, for any documents, words, stores and menus of *)
(* commands: what a batch is, worked off reference by reference; that the  *)
(* files keep their types; that no facet is out of place and no edge leads *)
(* nowhere; which documents a command reaches; what is read off the tree.  *)
(***************************************************************************)
EXTENDS Porcelain, FiniteSetTheorems, SequenceTheorems, TLAPS

-----------------------------------------------------------------------------
(* Documents, field by field *)

Fields == {"present", "title", "label", "type", "status", "intent", "intent_basis",
           "force", "realization", "realization_refs", "realization_verified",
           "imposed_by", "belongs_to", "requires", "superseded_by", "body"}

\* What a field may hold.
Kind == [f \in Fields |->
  CASE f = "present" -> BOOLEAN
    [] f \in {"title", "label"} -> Names
    [] f = "type" -> DocTypes \cup {""}
    [] f = "status" -> Statuses
    [] f = "intent" -> {"", "requested", "chosen", "incidental"}
    [] f \in EdgeFields -> SUBSET DocIds
    [] f = "body" -> {"own", "spilled"}
    [] OTHER -> {"", "x"}]

LEMMA KindIs ==
  /\ Kind["present"] = BOOLEAN /\ Kind["title"] = Names /\ Kind["label"] = Names
  /\ Kind["type"] = DocTypes \cup {""} /\ Kind["status"] = Statuses
  /\ Kind["intent"] = {"", "requested", "chosen", "incidental"}
  /\ \A f \in EdgeFields : Kind[f] = SUBSET DocIds
  /\ Kind["body"] = {"own", "spilled"}
  /\ \A f \in FacetFields \ {"intent"} : Kind[f] = {"", "x"}
BY DEF Kind, Fields, EdgeFields, FacetFields

LEMMA FieldsOfDoc ==
  ASSUME NEW doc \in Doc
  PROVE  /\ DOMAIN doc = Fields /\ doc = [f \in Fields |-> doc[f]]
         /\ \A f \in Fields : doc[f] \in Kind[f]
<1>1. DOMAIN doc = Fields /\ doc = [f \in Fields |-> doc[f]]
  BY DEF Doc, Fields
<1>2. ASSUME NEW f \in Fields PROVE doc[f] \in Kind[f]
  BY <1>2, KindIs, ZenonT(60) DEF Doc, Fields, EdgeFields, FacetFields
<1> QED BY <1>1, <1>2

LEMMA DocOfFields ==
  ASSUME NEW doc, doc = [f \in Fields |-> doc[f]], \A f \in Fields : doc[f] \in Kind[f]
  PROVE  doc \in Doc
<1>1. \A f \in Fields : doc[f] \in Kind[f]
  OBVIOUS
<1>2. /\ doc.present \in BOOLEAN /\ doc.title \in Names /\ doc.label \in Names
      /\ doc.type \in DocTypes \cup {""} /\ doc.status \in Statuses
      /\ doc.intent \in {"", "requested", "chosen", "incidental"}
      /\ doc.intent_basis \in {"", "x"} /\ doc.force \in {"", "x"}
      /\ doc.realization \in {"", "x"} /\ doc.realization_refs \in {"", "x"}
      /\ doc.realization_verified \in {"", "x"} /\ doc.imposed_by \in {"", "x"}
      /\ doc.belongs_to \in SUBSET DocIds /\ doc.requires \in SUBSET DocIds
      /\ doc.superseded_by \in SUBSET DocIds /\ doc.body \in {"own", "spilled"}
  BY KindIs, ZenonT(60) DEF Fields, EdgeFields, FacetFields
<1> QED BY <1>2 DEF Doc, Fields

LEMMA NoDocIs == NoDoc \in Doc /\ DOMAIN NoDoc = Fields
<1>1. NoDoc \in Doc
  BY DEF NoDoc, Doc, Names, Statuses
<1> QED BY <1>1, FieldsOfDoc

LEMMA FieldPut ==
  ASSUME NEW doc \in Doc, NEW f \in Fields, NEW v \in Kind[f]
  PROVE  /\ [doc EXCEPT ![f] = v] \in Doc /\ [doc EXCEPT ![f] = v][f] = v
         /\ \A g \in Fields \ {f} : [doc EXCEPT ![f] = v][g] = doc[g]
<1> DEFINE new == [doc EXCEPT ![f] = v]
<1>1. DOMAIN doc = Fields /\ \A g \in Fields : doc[g] \in Kind[g]
  BY FieldsOfDoc
<1>2. /\ new = [g \in Fields |-> new[g]] /\ \A g \in Fields : new[g] \in Kind[g]
      /\ new[f] = v /\ \A g \in Fields \ {f} : new[g] = doc[g]
  BY <1>1
<1> HIDE DEF new
<1>3. new \in Doc
  BY <1>2, DocOfFields
<1> QED BY <1>2, <1>3 DEF new

\* What is left of a file whose title or label has dashes.
CutFile(title, label) ==
  [NoDoc EXCEPT !.present = TRUE, !.body = "spilled", !.title = title, !.label = label]

LEMMA CutDoc ==
  ASSUME NEW title \in Names, NEW label \in Names
  PROVE  /\ CutFile(title, label) \in Doc
         /\ CutFile(title, label).present /\ CutFile(title, label).type = ""
         /\ CutFile(title, label).title = title /\ CutFile(title, label).label = label
         /\ \A f \in EdgeFields : CutFile(title, label)[f] = {}
<1> DEFINE cut == CutFile(title, label)
<1>1. DOMAIN NoDoc = Fields
  BY NoDocIs
<1>2. /\ cut = [g \in Fields |-> cut[g]]
      /\ cut["present"] = TRUE /\ cut["body"] = "spilled" /\ cut["title"] = title
      /\ cut["label"] = label
      /\ \A g \in Fields \ {"present", "body", "title", "label"} : cut[g] = NoDoc[g]
  BY <1>1 DEF CutFile, Fields
<1>3. \A g \in Fields : NoDoc[g] \in Kind[g]
  BY NoDocIs, FieldsOfDoc
<1> HIDE DEF cut
<1>4. \A g \in Fields : cut[g] \in Kind[g]
  <2>1. "body" \in Fields /\ cut["present"] \in Kind["present"] /\ cut["body"] \in Kind["body"]
        /\ cut["title"] \in Kind["title"] /\ cut["label"] \in Kind["label"]
    BY <1>2, KindIs DEF Fields
  <2> QED BY <1>2, <1>3, <2>1
<1>5. cut \in Doc
  BY <1>2, <1>4, DocOfFields
<1>6. NoDoc["type"] = "" /\ \A f \in EdgeFields : NoDoc[f] = {}
  BY DEF NoDoc, EdgeFields
<1>7. cut.type = "" /\ \A f \in EdgeFields : cut[f] = {}
  BY <1>2, <1>6 DEF Fields, EdgeFields
<1> QED BY <1>2, <1>5, <1>7 DEF cut

\* A file is read as it was written, but for one with dashes in a name.
LEMMA LoadedIs ==
  ASSUME NEW file \in Doc
  PROVE  \/ Loaded(file) = file /\ Dashes \notin file.title \cup file.label
         \/ Loaded(file) = CutFile(file.title \ {Dashes}, {}) /\ Dashes \in file.title
         \/ /\ Loaded(file) = CutFile(file.title, file.label \ {Dashes})
            /\ Dashes \in file.label \ file.title
<1>1. NoDoc.title = {} /\ NoDoc.label = {}
  BY DEF NoDoc
<1>2. CASE Dashes \in file.title
  <2> DEFINE cut == [NoDoc EXCEPT !.present = TRUE, !.body = "spilled"]
  <2>1. cut.label = {} /\ DOMAIN cut = Fields
    BY NoDocIs, <1>1 DEF Fields
  <2>2. Loaded(file) = [cut EXCEPT !.title = file.title \ {Dashes}]
    BY <1>2 DEF Loaded
  <2>3. [cut EXCEPT !.title = file.title \ {Dashes}]
          = [cut EXCEPT !.title = file.title \ {Dashes}, !.label = {}]
    BY <2>1
  <2> QED BY <1>2, <2>2, <2>3 DEF CutFile
<1>3. CASE Dashes \notin file.title
  BY <1>3 DEF Loaded, CutFile
<1> QED BY <1>2, <1>3

LEMMA LoadedDoc ==
  ASSUME NEW file \in Doc
  PROVE  /\ Loaded(file) \in Doc
         /\ Dashes \notin Loaded(file).title \cup Loaded(file).label
         /\ file.present => Loaded(file).present
<1>1. /\ file.title \in Names /\ file.label \in Names /\ {} \in Names
      /\ file.title \ {Dashes} \in Names /\ file.label \ {Dashes} \in Names
  BY DEF Doc, Names
<1>2. \A t, l \in Names : /\ CutFile(t, l) \in Doc /\ CutFile(t, l).present
                          /\ CutFile(t, l).title = t /\ CutFile(t, l).label = l
  BY CutDoc, ZenonT(60)
<1>3. CASE Dashes \notin file.title
  <2>1. \/ Loaded(file) = file /\ Dashes \notin file.label
        \/ Loaded(file) = CutFile(file.title, file.label \ {Dashes})
    BY <1>3, LoadedIs
  <2> QED BY <1>1, <1>2, <1>3, <2>1
<1>4. CASE Dashes \in file.title
  <2>1. Loaded(file) = CutFile(file.title \ {Dashes}, {})
    BY <1>4, LoadedIs
  <2> QED BY <1>1, <1>2, <2>1
<1> QED BY <1>3, <1>4

LEMMA CopyType ==
  ASSUME NEW files \in [DocIds -> Doc]
  PROVE  /\ Copy(files) \in [DocIds -> Doc] /\ \A d \in DocIds : Copy(files)[d] = Loaded(files[d])
         /\ Present(Copy(files)) \in SUBSET DocIds
BY LoadedDoc DEF Copy, Present

-----------------------------------------------------------------------------
(* References *)

Ref == [id : DocIds \cup {0}, name : Names]

LEMMA CommandIs ==
  ASSUME NEW c, CommandLine(c)
  PROVE  /\ c.refs \in Seq(Ref) /\ c.targets \in SUBSET Ref /\ c.to \in Doc
         /\ c.touch \in SUBSET Fields /\ c.field \in EdgeFields
         /\ c.op \in {"new", "set", "link", "unlink", "rm"}
  BY NoDocIs DEF CommandLine, Command, Ref

LEMMA EdgesAreFields == EdgeFields \subseteq Fields
  BY DEF EdgeFields, Fields

LEMMA ResolveIs ==
  ASSUME NEW copy \in [DocIds -> Doc], NEW ref \in Ref
  PROVE  Resolve(copy, ref) \in Present(copy) \cup {0} /\ Present(copy) \in SUBSET DocIds
<1>1. Present(copy) = {d \in DocIds : copy[d].present}
  BY DEF Present
<1>2. CASE ref.id # 0
  BY <1>1, <1>2 DEF Resolve, Ref
<1>3. CASE ref.id = 0
  <2> DEFINE m == Matches(copy, ref.name)
  <2>1. m \subseteq Present(copy)
    BY DEF Matches, ByLabel, ByTitle, ByPart
  <2>2. Cardinality(m) = 1 => m # {}
    BY FS_EmptySet
  <2>3. Resolve(copy, ref) = IF Cardinality(m) = 1 THEN CHOOSE d \in m : TRUE ELSE 0
    BY <1>3 DEF Resolve
  <2> HIDE DEF m
  <2> QED BY <1>1, <2>1, <2>2, <2>3
<1> QED BY <1>1, <1>2, <1>3

-----------------------------------------------------------------------------
(* A command under way: it writes the document its reference means, or     *)
(* stops, and logs it.                                                     *)

Under == [docs : [DocIds -> Doc], ok : BOOLEAN, wrote : SUBSET DocIds,
          logged : SUBSET DocIds]

SameNames(a, b) == a.title = b.title /\ a.label = b.label

\* What may be written in place of document d.
Amends(copy, d, doc, c) ==
  /\ d \in Present(copy) /\ doc \in Doc /\ doc.present
  /\ (copy[d].type # "" => FacetErrors(copy[d]) = {})
       => (doc.type # "" => FacetErrors(doc) = {})
  /\ \A f \in EdgeFields : doc[f] \subseteq copy[d][f] \cup Present(copy)
  /\ \/ SameNames(doc, copy[d])
     \/ c.op = "set" /\ SameNames(doc, Merged(copy[d], c))

Writes(st, next, ref, c) ==
  \/ next = Fail(st)
  \/ \E doc : LET d == Resolve(Copy(st.docs), ref) IN
       Amends(Copy(st.docs), d, doc, c) /\ next = Write(st, d, doc)

\* One write, or the fields and then the body.
Reaches(st, next, ref, c) ==
  \/ Writes(st, next, ref, c)
  \/ \E mid : mid.ok /\ Writes(st, mid, ref, c) /\ Writes(mid, next, ref, c)

LEMMA UnderParts ==
  ASSUME NEW st \in Under
  PROVE  /\ st.docs \in [DocIds -> Doc] /\ st.ok \in BOOLEAN
         /\ st.wrote \in SUBSET DocIds /\ st.logged \in SUBSET DocIds
  BY DEF Under

LEMMA FailIs ==
  ASSUME NEW st \in Under
  PROVE  /\ Fail(st) \in Under /\ ~Fail(st).ok /\ Fail(st).docs = st.docs
         /\ Fail(st).wrote = st.wrote /\ Fail(st).logged = st.logged
  BY DEF Under, Fail

LEMMA WriteIs ==
  ASSUME NEW st \in Under, NEW d \in DocIds, NEW doc \in Doc
  PROVE  /\ Write(st, d, doc) \in Under
         /\ Write(st, d, doc).docs = [st.docs EXCEPT ![d] = doc]
         /\ Write(st, d, doc).ok = st.ok /\ Write(st, d, doc).logged = st.logged
         /\ Write(st, d, doc).wrote = st.wrote \cup {d}
  BY DEF Under, Write

LEMMA WritesType ==
  ASSUME NEW st \in Under, NEW next, NEW ref \in Ref, NEW c, Writes(st, next, ref, c)
  PROVE  next \in Under
<1>1. CASE next = Fail(st)
  BY <1>1, FailIs
<1>2. ASSUME NEW doc, Amends(Copy(st.docs), Resolve(Copy(st.docs), ref), doc, c),
             next = Write(st, Resolve(Copy(st.docs), ref), doc)
      PROVE  next \in Under
  <2>1. Copy(st.docs) \in [DocIds -> Doc] /\ Present(Copy(st.docs)) \in SUBSET DocIds
    BY UnderParts, CopyType
  <2> QED BY <1>2, <2>1, WriteIs DEF Amends
<1> QED BY <1>1, <1>2 DEF Writes

LEMMA LogIs ==
  ASSUME NEW st \in Under, NEW ref \in Ref
  PROVE  /\ Log(st, ref) \in Under /\ Log(st, ref).docs = st.docs
         /\ Log(st, ref).wrote = st.wrote
         /\ \/ ~Log(st, ref).ok /\ Log(st, ref).logged = st.logged
            \/ /\ Log(st, ref).ok = st.ok /\ Resolve(Copy(st.docs), ref) # 0
               /\ Log(st, ref).logged = st.logged \cup {Resolve(Copy(st.docs), ref)}
<1> DEFINE d == Resolve(Copy(st.docs), ref)
           more == [st EXCEPT !.logged = @ \cup {d}]
<1>1. Copy(st.docs) \in [DocIds -> Doc]
  BY UnderParts, CopyType
<1>2. d \in DocIds \cup {0}
  BY <1>1, ResolveIs
<1>3. Log(st, ref) = Fail(st) \/ (Log(st, ref) = more /\ d # 0)
  BY DEF Log
<1> HIDE DEF d
<1>4. CASE Log(st, ref) = Fail(st)
  BY <1>4, FailIs
<1>5. CASE Log(st, ref) = more /\ d # 0
  BY <1>2, <1>5 DEF Under, d
<1> QED BY <1>3, <1>4, <1>5

\* The document with the fields a set gives it.
LEMMA MergedIs ==
  ASSUME NEW old \in Doc, NEW c, CommandLine(c)
  PROVE  /\ Merged(old, c) \in Doc
         /\ \A f \in Fields : Merged(old, c)[f] = IF f \in c.touch THEN c.to[f] ELSE old[f]
<1> DEFINE new == Merged(old, c)
<1>1. /\ new = [f \in Fields |-> new[f]]
      /\ \A f \in Fields : new[f] = IF f \in c.touch THEN c.to[f] ELSE old[f]
  BY NoDocIs DEF Merged
<1>2. \A f \in Fields : old[f] \in Kind[f] /\ c.to[f] \in Kind[f]
  BY CommandIs, FieldsOfDoc
<1> HIDE DEF new
<1>3. new \in Doc
  BY <1>1, <1>2, DocOfFields
<1> QED BY <1>1, <1>3 DEF new


\* The facets and the type are all a document's facet errors are about.
FacetsSame(old, new) == \A f \in FacetFields \cup {"type"} : new[f] = old[f]

LEMMA SameFacetErrors ==
  ASSUME NEW old, NEW new, FacetsSame(old, new)
  PROVE  FacetErrors(new) = FacetErrors(old) /\ new.type = old.type
<1>1. new.type = old.type /\ \A f \in FacetFields : new[f] = old[f]
  BY DEF FacetsSame
<1>2. Misplaced(new) = Misplaced(old)
  BY <1>1 DEF Misplaced
<1>3. new["intent"] = old["intent"] /\ new["intent_basis"] = old["intent_basis"]
  BY <1>1 DEF FacetFields
<1>4. NeedsBasis(new) <=> NeedsBasis(old)
  BY <1>3 DEF NeedsBasis
<1>5. \A f \in {"intent_basis"} : (NeedsBasis(new) /\ new[f] = "") <=> (NeedsBasis(old) /\ old[f] = "")
  BY <1>3, <1>4
<1> QED BY <1>1, <1>2, <1>5 DEF FacetErrors

LEMMA NoViolations ==
  ASSUME NEW doc, NEW complete, Violations(doc, complete) = {}
  PROVE  FacetErrors(doc) = {}
  BY DEF Violations, FacetErrors

LEMMA SetFieldsWrites ==
  ASSUME NEW st \in Under, NEW ref \in Ref, NEW c, CommandLine(c), c.op = "set"
  PROVE  Writes(st, SetFields(st, ref, c), ref, c)
<1> DEFINE copy == Copy(st.docs)
           d == Resolve(copy, ref)
           doc == Merged(copy[d], c)
<1>1. copy \in [DocIds -> Doc]
  BY UnderParts, CopyType
<1>2. CASE SetFields(st, ref, c) = Fail(st)
  BY <1>2 DEF Writes
<1>3. CASE SetFields(st, ref, c) # Fail(st)
  <2>1. /\ d # 0 /\ SetFields(st, ref, c) = Write(st, d, doc)
        /\ c.touch \cap (FacetFields \cup {"type"}) # {} => Violations(doc, "type" \in c.touch) = {}
    BY <1>3 DEF SetFields
  <2>2. d \in Present(copy) /\ d \in DocIds
    BY <1>1, <2>1, ResolveIs
  <2>3. doc \in Doc /\ \A f \in Fields : doc[f] = IF f \in c.touch THEN c.to[f] ELSE copy[d][f]
    BY <1>1, <2>2, MergedIs
  <2>4. /\ "present" \notin c.touch /\ \A f \in EdgeFields : f \notin c.touch
    BY DEF CommandLine
  <2>8. SameNames(doc, Merged(copy[d], c))
    BY DEF SameNames
  <2> HIDE DEF copy, d, doc
  <2>5. doc.present
    <3>1. copy[d].present
      BY <2>2 DEF Present
    <3> QED BY <2>3, <2>4, <3>1 DEF Fields
  <2>6. (copy[d].type # "" => FacetErrors(copy[d]) = {}) => (doc.type # "" => FacetErrors(doc) = {})
    <3>1. CASE c.touch \cap (FacetFields \cup {"type"}) # {}
      BY <2>1, <3>1, NoViolations
    <3>2. CASE c.touch \cap (FacetFields \cup {"type"}) = {}
      <4>1. FacetsSame(copy[d], doc)
        BY <2>3, <3>2 DEF FacetsSame, FacetFields, Fields
      <4> QED BY <4>1, SameFacetErrors
    <3> QED BY <3>1, <3>2
  <2>7. \A f \in EdgeFields : doc[f] \subseteq copy[d][f] \cup Present(copy)
    BY <2>3, <2>4, EdgesAreFields
  <2>10. Amends(copy, d, doc, c)
    BY <2>2, <2>3, <2>5, <2>6, <2>7, <2>8 DEF Amends
  <2> QED BY <2>1, <2>10 DEF Writes, copy, d
<1> QED BY <1>2, <1>3

\* A change of one field that is neither a facet nor a name.
LEMMA FieldAmends ==
  ASSUME NEW copy \in [DocIds -> Doc], NEW d \in Present(copy), NEW c,
         NEW f \in EdgeFields \cup {"body"}, NEW v \in Kind[f],
         f \in EdgeFields => v \subseteq copy[d][f] \cup Present(copy)
  PROVE  Amends(copy, d, [copy[d] EXCEPT ![f] = v], c)
<1> DEFINE doc == [copy[d] EXCEPT ![f] = v]
<1>1. d \in DocIds /\ copy[d].present /\ copy[d] \in Doc
  BY DEF Present
<1>2. f \in Fields
  BY EdgesAreFields DEF Fields
<1>3. doc \in Doc /\ doc[f] = v /\ \A g \in Fields \ {f} : doc[g] = copy[d][g]
  BY <1>1, <1>2, FieldPut
<1> HIDE DEF doc
<1>4. doc.present /\ doc.label = copy[d].label /\ doc.title = copy[d].title
  BY <1>1, <1>3 DEF Fields, EdgeFields
<1>5. FacetsSame(copy[d], doc)
  BY <1>3 DEF FacetsSame, Fields, EdgeFields, FacetFields
<1>6. FacetErrors(doc) = FacetErrors(copy[d]) /\ doc.type = copy[d].type
  BY <1>5, SameFacetErrors
<1>7. \A g \in EdgeFields : doc[g] \subseteq copy[d][g] \cup Present(copy)
  BY <1>3, EdgesAreFields
<1>8. Amends(copy, d, doc, c)
  BY <1>1, <1>3, <1>4, <1>6, <1>7 DEF Amends, SameNames
<1> QED BY <1>8 DEF doc


LEMMA SetBodyWrites ==
  ASSUME NEW st \in Under, NEW ref \in Ref, NEW c
  PROVE  Writes(st, SetBody(st, ref), ref, c)
<1> DEFINE copy == Copy(st.docs)
           d == Resolve(copy, ref)
<1>1. copy \in [DocIds -> Doc]
  BY UnderParts, CopyType
<1>2. SetBody(st, ref) = Fail(st) \/ (d # 0 /\ SetBody(st, ref) = Write(st, d, [copy[d] EXCEPT !.body = "own"]))
  BY DEF SetBody
<1>3. d # 0 => d \in Present(copy)
  BY <1>1, ResolveIs
<1>4. "own" \in Kind["body"] /\ "body" \in EdgeFields \cup {"body"} /\ "body" \notin EdgeFields
  BY KindIs DEF EdgeFields
<1>5. d # 0 => Amends(copy, d, [copy[d] EXCEPT !["body"] = "own"], c)
  <2> HIDE DEF copy, d
  <2> QED BY <1>1, <1>3, <1>4, FieldAmends
<1> QED BY <1>2, <1>5 DEF Writes

\* The command ends with a log where it did not stop before.
Logs(st, ref) == IF st.ok THEN Log(st, ref) ELSE st

LEMMA EdgeWrites ==
  ASSUME NEW st \in Under, st.ok, NEW ref \in Ref, NEW c, CommandLine(c),
         NEW v \in SUBSET DocIds, Resolve(Copy(st.docs), ref) # 0,
         v \subseteq Copy(st.docs)[Resolve(Copy(st.docs), ref)][c.field] \cup Present(Copy(st.docs)),
         NEW next,
         next = Log(Write(st, Resolve(Copy(st.docs), ref),
                          [Copy(st.docs)[Resolve(Copy(st.docs), ref)] EXCEPT ![c.field] = v]), ref)
  PROVE  \E s : Writes(st, s, ref, c) /\ next = Logs(s, ref)
<1> DEFINE copy == Copy(st.docs)
           d == Resolve(copy, ref)
           s == Write(st, d, [copy[d] EXCEPT ![c.field] = v])
<1>1. copy \in [DocIds -> Doc] /\ c.field \in EdgeFields /\ Kind[c.field] = SUBSET DocIds
  BY UnderParts, CopyType, CommandIs, KindIs
<1>2. d \in Present(copy) /\ d \in DocIds
  BY <1>1, ResolveIs
<1> HIDE DEF copy, d
<1>3. Amends(copy, d, [copy[d] EXCEPT ![c.field] = v], c)
  BY <1>1, <1>2, FieldAmends DEF copy, d
<1>4. Writes(st, s, ref, c)
  BY <1>3 DEF Writes, copy, d
<1>5. s.ok = st.ok
  BY <1>2, <1>3, WriteIs DEF Amends
<1>6. next = Log(s, ref)
  BY DEF copy, d
<1> HIDE DEF s
<1> QED BY <1>4, <1>5, <1>6 DEF Logs

LEMMA LinkIs ==
  ASSUME NEW st \in Under, st.ok, NEW ref \in Ref, NEW c, CommandLine(c)
  PROVE  \E s : Writes(st, s, ref, c) /\ LinkOne(st, ref, c) = Logs(s, ref)
<1> DEFINE copy == Copy(st.docs)
           d == Resolve(copy, ref)
           to == ResolveAll(copy, c.targets)
           replace == c.flag /\ c.field = "belongs_to"
           v == to \cup IF replace THEN {} ELSE copy[d][c.field]
<1>1. CASE d = 0 \/ 0 \in to \/ Archived(copy[d])
  <2>1. LinkOne(st, ref, c) = Fail(st)
    BY <1>1 DEF LinkOne
  <2> QED BY <2>1, FailIs DEF Writes, Logs
<1>2. CASE ~(d = 0 \/ 0 \in to \/ Archived(copy[d]))
  <2>1. copy \in [DocIds -> Doc] /\ c.targets \in SUBSET Ref
    BY UnderParts, CopyType, CommandIs
  <2>2. d \in DocIds
    BY <1>2, <2>1, ResolveIs
  <2>3. to \subseteq Present(copy) /\ Present(copy) \in SUBSET DocIds
    <3>1. \A r \in c.targets : Resolve(copy, r) \in Present(copy) \cup {0}
      BY <2>1, ResolveIs
    <3>2. Present(copy) \in SUBSET DocIds
      BY UnderParts, CopyType
    <3> HIDE DEF copy
    <3> QED BY <1>2, <3>1, <3>2 DEF ResolveAll
  <2>4. copy[d][c.field] \in SUBSET DocIds
    <3>1. c.field \in EdgeFields /\ copy[d] \in Doc
      BY <2>1, <2>2, CommandIs
    <3> HIDE DEF copy, d
    <3>2. c.field \in Fields /\ Kind[c.field] = SUBSET DocIds
      BY <3>1, KindIs, EdgesAreFields
    <3>3. copy[d][c.field] \in Kind[c.field]
      BY <3>1, <3>2, FieldsOfDoc
    <3> QED BY <3>2, <3>3
  <2>5. LinkOne(st, ref, c) = Log(Write(st, d, [copy[d] EXCEPT ![c.field] = v]), ref)
    <3>1. [copy[d] EXCEPT ![c.field] = to \cup IF replace THEN {} ELSE @]
            = [copy[d] EXCEPT ![c.field] = v]
      OBVIOUS
    <3> HIDE DEF v
    <3> QED BY <1>2, <3>1 DEF LinkOne
  <2>6. v \in SUBSET DocIds /\ v \subseteq copy[d][c.field] \cup Present(copy)
    <3> HIDE DEF copy, d, to, replace
    <3> QED BY <2>3, <2>4
  <2>7. v \in SUBSET DocIds /\ d # 0
    BY <1>2, <2>6
  <2> HIDE DEF v, to, replace
  <2>8. \E s : /\ Writes(st, s, ref, c)
               /\ Log(Write(st, d, [copy[d] EXCEPT ![c.field] = v]), ref) = Logs(s, ref)
    BY <2>6, <2>7, EdgeWrites, SMTT(60)
  <2> QED BY <2>5, <2>8
<1> QED BY <1>1, <1>2

LEMMA UnlinkIs ==
  ASSUME NEW st \in Under, st.ok, NEW ref \in Ref, NEW c, CommandLine(c)
  PROVE  \E s : Writes(st, s, ref, c) /\ UnlinkOne(st, ref, c) = Logs(s, ref)
<1> DEFINE copy == Copy(st.docs)
           d == Resolve(copy, ref)
           to == {EdgeValue(copy, t) : t \in c.targets}
           v == copy[d][c.field] \ to
<1>1. CASE d = 0 \/ 0 \in to \/ Archived(copy[d])
  <2>1. UnlinkOne(st, ref, c) = Fail(st)
    BY <1>1 DEF UnlinkOne
  <2> QED BY <2>1, FailIs DEF Writes, Logs
<1>2. CASE ~(d = 0 \/ 0 \in to \/ Archived(copy[d]))
  <2>1. copy \in [DocIds -> Doc]
    BY UnderParts, CopyType
  <2>2. d \in DocIds
    BY <1>2, <2>1, ResolveIs
  <2>3. copy[d][c.field] \in SUBSET DocIds
    <3>1. c.field \in EdgeFields /\ copy[d] \in Doc
      BY <2>1, <2>2, CommandIs
    <3> HIDE DEF copy, d
    <3>2. c.field \in Fields /\ Kind[c.field] = SUBSET DocIds
      BY <3>1, KindIs, EdgesAreFields
    <3>3. copy[d][c.field] \in Kind[c.field]
      BY <3>1, <3>2, FieldsOfDoc
    <3> QED BY <3>2, <3>3
  <2>4. UnlinkOne(st, ref, c) = Log(Write(st, d, [copy[d] EXCEPT ![c.field] = v]), ref)
    BY <1>2 DEF UnlinkOne
  <2>5. v \in SUBSET DocIds /\ v \subseteq copy[d][c.field] \cup Present(copy)
    <3> HIDE DEF copy, d, to
    <3> QED BY <2>3
  <2> HIDE DEF v
  <2> QED BY <1>2, <2>4, <2>5, EdgeWrites
<1> QED BY <1>1, <1>2

LEMMA SetIs ==
  ASSUME NEW st \in Under, st.ok, NEW ref \in Ref, NEW c, CommandLine(c), c.op = "set",
         c.touch # {} \/ c.body
  PROVE  \E s : Reaches(st, s, ref, c) /\ SetOne(st, ref, c) = Logs(s, ref)
<1> DEFINE fields == IF c.touch = {} THEN st ELSE SetFields(st, ref, c)
           body == IF c.body /\ fields.ok THEN SetBody(fields, ref) ELSE fields
<1>1. SetOne(st, ref, c) = Logs(body, ref)
  BY DEF SetOne, Logs
<1>2. Reaches(st, body, ref, c)
  <2>1. CASE c.touch = {}
    <3>1. body = SetBody(st, ref)
      BY <2>1
    <3> HIDE DEF body
    <3> QED BY <3>1, SetBodyWrites DEF Reaches
  <2>2. CASE c.touch # {}
    <3>1. fields = SetFields(st, ref, c) /\ Writes(st, fields, ref, c)
      BY <2>2, SetFieldsWrites
    <3> HIDE DEF fields
    <3>2. fields \in Under
      BY <3>1, WritesType
    <3>3. CASE c.body /\ fields.ok
      <4>1. body = SetBody(fields, ref) /\ Writes(fields, SetBody(fields, ref), ref, c)
        BY <3>2, <3>3, SetBodyWrites
      <4> HIDE DEF body
      <4> QED BY <3>1, <3>3, <4>1 DEF Reaches
    <3>4. CASE ~(c.body /\ fields.ok)
      <4>1. body = fields
        BY <3>4
      <4> HIDE DEF body
      <4> QED BY <3>1, <4>1 DEF Reaches
    <3> QED BY <3>3, <3>4
  <2> QED BY <2>1, <2>2
<1> HIDE DEF body
<1> QED BY <1>1, <1>2

\* What a batch does for one of its references.
LEMMA OneIs ==
  ASSUME NEW st \in Under, st.ok, NEW ref \in Ref, NEW c, CommandLine(c),
         c.op \in {"set", "link", "unlink"}, c.op = "set" => c.touch # {} \/ c.body
  PROVE  \E s : Reaches(st, s, ref, c) /\ One(st, ref, c) = Logs(s, ref)
<1>1. CASE c.op = "set"
  <2>1. One(st, ref, c) = SetOne(st, ref, c)
    BY <1>1 DEF One
  <2> QED BY <1>1, <2>1, SetIs
<1>2. CASE c.op = "link"
  <2>1. One(st, ref, c) = LinkOne(st, ref, c)
    BY <1>2 DEF One
  <2> QED BY <2>1, LinkIs DEF Reaches
<1>3. CASE c.op = "unlink"
  <2>1. One(st, ref, c) = UnlinkOne(st, ref, c)
    BY <1>3 DEF One
  <2> QED BY <2>1, UnlinkIs DEF Reaches
<1> QED BY <1>1, <1>2, <1>3

-----------------------------------------------------------------------------
(* A batch is its references worked off in turn.                           *)

LEMMA SmallestSubset ==
  ASSUME NEW S, IsFiniteSet(S), NEW Bad \in SUBSET SUBSET S, Bad # {}
  PROVE  \E T \in Bad : \A U \in Bad : U \subseteq T => U = T
<1>1. IsWellFoundedOn(StrictSubsetOrdering(S), SUBSET S)
  BY FS_StrictSubsetOrderingWellFounded, FS_FiniteSubsetsOfFinite
<1>2. \E T \in Bad : \A U \in Bad : ~(<<U, T>> \in StrictSubsetOrdering(S))
  BY <1>1, WFMin
<1> QED BY <1>2 DEF StrictSubsetOrdering

\* The least number for which something fails.
LEMMA LeastBad ==
  ASSUME NEW Bad \in SUBSET Nat, Bad # {}
  PROVE  \E n \in Bad : \A k \in Bad : n <= k
<1>1. \E n \in Bad : \A k \in Bad : ~(<<k, n>> \in OpToRel(<, Nat))
  BY NatLessThanWellFounded, WFMin
<1>2. PICK n \in Bad : \A k \in Bad : ~(<<k, n>> \in OpToRel(<, Nat))
  BY <1>1
<1>3. \A k \in Bad : ~(k < n)
  BY <1>2 DEF OpToRel
<1> QED BY <1>3

\* The greatest member of a finite set of numbers.
LEMMA MaxIn ==
  ASSUME NEW S, S \subseteq Nat, IsFiniteSet(S), S # {}
  PROVE  Max(S) \in S /\ \A n \in S : n <= Max(S)
<1> DEFINE Bad == {T \in SUBSET S : T # {} /\ ~ \E m \in T : \A n \in T : m >= n}
<1>1. Bad = {}
  <2> SUFFICES ASSUME Bad # {} PROVE FALSE
    OBVIOUS
  <2>1. PICK T \in Bad : \A U \in Bad : U \subseteq T => U = T
    <3>1. Bad \in SUBSET SUBSET S
      OBVIOUS
    <3> HIDE DEF Bad
    <3> QED BY ONLY <3>1, IsFiniteSet(S), Bad # {}, SmallestSubset
  <2>2. PICK x \in T : TRUE
    BY <2>1
  <2>3. T \ {x} \notin Bad /\ x \in Nat /\ T \subseteq Nat
    BY <2>1, <2>2
  <2>4. CASE T \ {x} = {}
    BY <2>1, <2>2, <2>3, <2>4
  <2>5. CASE T \ {x} # {}
    <3>1. PICK m \in T \ {x} : \A n \in T \ {x} : m >= n
      BY <2>1, <2>3, <2>5
    <3> QED BY <2>1, <2>2, <2>3, <3>1
  <2> QED BY <2>4, <2>5
<1>2. \E m \in S : \A n \in S : m >= n
  BY <1>1
<1> QED BY <1>2 DEF Max

\* After the references before it, one more.
OneMore(st, ref, c) == IF st.ok THEN One(st, ref, c) ELSE st

\* g is what FoldLeft works out over sets of places in the list of references.
Folded(g, c, s) == IF s = {} THEN Begun ELSE OneMore(g[s \ {Max(s)}], c.refs[Max(s)], c)
Folds(g, c) == g = [s \in SUBSET DOMAIN c.refs |-> Folded(g, c, s)]

LEMMA FoldsExist ==
  ASSUME NEW c, DOMAIN c.refs \subseteq Nat, IsFiniteSet(DOMAIN c.refs)
  PROVE  \E g : Folds(g, c)
<1> DEFINE S == DOMAIN c.refs
           Upto(g, n) == \A s \in SUBSET S : Cardinality(s) <= n => g[s] = Folded(g, c, s)
           Bad == {n \in Nat : ~ \E g : Upto(g, n)}
<1>1. \A s \in SUBSET S : IsFiniteSet(s) /\ Cardinality(s) \in Nat
  BY FS_Subset, FS_CardinalityType
<1>2. \A s \in SUBSET S : s # {} =>
        /\ Max(s) \in s /\ s \ {Max(s)} \in SUBSET S
        /\ Cardinality(s \ {Max(s)}) = Cardinality(s) - 1
  BY <1>1, MaxIn, FS_RemoveElement
<1>3. \E g : Upto(g, 0)
  <2>1. \A s \in SUBSET S : Cardinality(s) <= 0 => s = {}
    BY <1>1, FS_EmptySet
  <2>2. Upto([s \in SUBSET S |-> Begun], 0)
    BY <2>1 DEF Folded
  <2> QED BY <2>2
<1>4. ASSUME NEW n \in Nat, NEW g, Upto(g, n)
      PROVE  \E h : Upto(h, n + 1)
  <2> DEFINE h == [s \in SUBSET S |-> Folded(g, c, s)]
  <2>1. ASSUME NEW s \in SUBSET S, Cardinality(s) <= n + 1
        PROVE  h[s] = Folded(h, c, s)
    <3>1. CASE s = {}
      BY <3>1 DEF Folded
    <3>2. CASE s # {}
      <4> DEFINE t == s \ {Max(s)}
      <4>1. t \in SUBSET S /\ Cardinality(t) <= n
        BY <1>1, <1>2, <2>1, <3>2
      <4>2. g[t] = Folded(g, c, t) /\ h[t] = Folded(g, c, t)
        BY <1>4, <4>1
      <4>3. h[s] = Folded(g, c, s)
        OBVIOUS
      <4> HIDE DEF h
      <4> QED BY <3>2, <4>2, <4>3 DEF Folded
    <3> QED BY <3>1, <3>2
  <2>2. Upto(h, n + 1)
    BY <2>1
  <2> HIDE DEF h
  <2> QED BY <2>2
<1>5. Bad = {}
  <2> SUFFICES ASSUME Bad # {} PROVE FALSE
    OBVIOUS
  <2>1. PICK n \in Bad : \A k \in Bad : n <= k
    <3>1. Bad \in SUBSET Nat
      OBVIOUS
    <3> HIDE DEF Bad
    <3> QED BY <3>1, LeastBad
  <2>2. n \in Nat /\ n # 0 /\ ~ \E g : Upto(g, n)
    BY <1>3, <2>1
  <2>3. n - 1 \in Nat /\ n - 1 \notin Bad
    BY <2>1, <2>2
  <2>4. PICK g : Upto(g, n - 1)
    BY <2>3
  <2>5. \E h : Upto(h, (n - 1) + 1)
    BY <1>4, <2>3, <2>4
  <2> QED BY <2>2, <2>5
<1>6. PICK g : Upto(g, Cardinality(S))
  BY <1>1, <1>5
<1>7. \A s \in SUBSET S : Cardinality(s) <= Cardinality(S)
  BY FS_Subset
<1> DEFINE h == [s \in SUBSET S |-> g[s]]
<1>8. \A s \in SUBSET S : h[s] = Folded(h, c, s)
  BY <1>2, <1>6, <1>7 DEF Folded
<1>9. Folds(h, c)
  BY <1>8 DEF Folds
<1> HIDE DEF h
<1> QED BY <1>9

\* The states between the references.
Stages(f, c) ==
  /\ f[0] = Begun
  /\ \A n \in 1 .. Len(c.refs) : f[n] = OneMore(f[n - 1], c.refs[n], c)

LEMMA BatchIs ==
  ASSUME NEW c, CommandLine(c), Batch(c)
  PROVE  \E f : Stages(f, c) /\ Ends(c, f[Len(c.refs)])
<1> DEFINE S == DOMAIN c.refs
           g == CHOOSE g : Folds(g, c)
<1>1. /\ c.refs \in Seq(Ref) /\ Len(c.refs) \in Nat /\ S = 1 .. Len(c.refs)
      /\ S \subseteq Nat /\ IsFiniteSet(S)
  <2>1. c.refs \in Seq(Ref)
    BY CommandIs
  <2>2. Len(c.refs) \in Nat /\ S = 1 .. Len(c.refs)
    BY <2>1
  <2>3. IsFiniteSet(1 .. Len(c.refs)) /\ 1 .. Len(c.refs) \subseteq Nat
    BY <2>2, FS_Interval
  <2> QED BY <2>1, <2>2, <2>3
<1>2. Folds(g, c)
  BY <1>1, FoldsExist
<1>3. FoldLeft(LAMBDA st, r : IF st.ok THEN One(st, r, c) ELSE st, Begun, c.refs) = g[S]
  BY DEF FoldLeft, MapThenFoldSet, Folds, Folded, OneMore
<1>4. Ends(c, g[S])
  BY <1>3 DEF Batch
<1> HIDE DEF g
<1> DEFINE f == [n \in 0 .. Len(c.refs) |-> g[1 .. n]]
<1>5. f[0] = Begun /\ f[Len(c.refs)] = g[S]
  <2>1. 1 .. 0 = {} /\ {} \in SUBSET S
    OBVIOUS
  <2>2. g[{}] = Begun
    BY <1>2 DEF Folds, Folded
  <2> QED BY <1>1, <2>1, <2>2
<1>6. ASSUME NEW n \in 1 .. Len(c.refs)
      PROVE  f[n] = OneMore(f[n - 1], c.refs[n], c)
  <2>1. IsFiniteSet(1 .. n) /\ 1 .. n \subseteq Nat /\ n \in 1 .. n /\ n \in Nat
    BY <1>1, FS_Interval
  <2>2. Max(1 .. n) = n
    <3>1. Max(1 .. n) \in 1 .. n /\ n <= Max(1 .. n)
      BY <2>1, MaxIn
    <3> QED BY <2>1, <3>1
  <2>3. (1 .. n) \ {n} = 1 .. (n - 1) /\ 1 .. n \in SUBSET S /\ n - 1 \in 0 .. Len(c.refs)
    BY <1>1
  <2>4. g[1 .. n] = OneMore(g[1 .. (n - 1)], c.refs[n], c)
    BY <1>2, <2>1, <2>2, <2>3 DEF Folds, Folded
  <2> QED BY <1>1, <2>3, <2>4
<1>7. Stages(f, c)
  BY <1>5, <1>6 DEF Stages
<1> HIDE DEF f
<1> QED BY <1>4, <1>5, <1>7

-----------------------------------------------------------------------------
(* No write leaves a facet out of place or an edge that leads nowhere.     *)

LEMMA LoadedKeeps ==
  ASSUME NEW file \in Doc
  PROVE  /\ \/ Loaded(file) = file
            \/ Loaded(file).type = "" /\ \A f \in EdgeFields : Loaded(file)[f] = {}
         /\ Dashes \notin file.title \cup file.label => Loaded(file) = file
<1>1. /\ file.title \in Names /\ file.label \in Names /\ {} \in Names
      /\ file.title \ {Dashes} \in Names /\ file.label \ {Dashes} \in Names
  BY DEF Doc, Names
<1>2. \A t, l \in Names : CutFile(t, l).type = "" /\ \A f \in EdgeFields : CutFile(t, l)[f] = {}
  BY CutDoc
<1>3. CASE Loaded(file) = file
  BY <1>3
<1>4. CASE Loaded(file) # file
  <2>1. \/ Loaded(file) = CutFile(file.title \ {Dashes}, {}) /\ Dashes \in file.title
        \/ Loaded(file) = CutFile(file.title, file.label \ {Dashes}) /\ Dashes \in file.label
    BY <1>4, LoadedIs
  <2>2. PICK t \in Names, l \in Names : Loaded(file) = CutFile(t, l)
    BY <1>1, <2>1
  <2>3. Loaded(file).type = "" /\ \A f \in EdgeFields : Loaded(file)[f] = {}
    BY <1>2, <2>2
  <2> QED BY <2>1, <2>3
<1> QED BY <1>3, <1>4

LEMMA CopyWrite ==
  ASSUME NEW files \in [DocIds -> Doc], NEW new \in [DocIds -> Doc], NEW d \in DocIds,
         \A e \in DocIds \ {d} : new[e] = files[e]
  PROVE  /\ Copy(new)[d] = Loaded(new[d])
         /\ \A e \in DocIds \ {d} : Copy(new)[e] = Copy(files)[e]
BY DEF Copy

LEMMA PresentCopy ==
  ASSUME NEW files \in [DocIds -> Doc]
  PROVE  Present(Copy(files)) = {d \in DocIds : Copy(files)[d].present}
BY DEF Present, Copy

\* A document put among the others, or in the place of one.
LEMMA PutPresent ==
  ASSUME NEW files \in [DocIds -> Doc], NEW new \in [DocIds -> Doc], NEW d \in DocIds,
         \A e \in DocIds \ {d} : new[e] = files[e], new[d].present
  PROVE  Present(Copy(new)) = Present(Copy(files)) \cup {d}
<1> DEFINE old == Copy(files)
<1>1. Loaded(new[d]).present
  BY LoadedDoc
<1>2. Copy(new)[d] = Loaded(new[d]) /\ \A e \in DocIds \ {d} : Copy(new)[e] = old[e]
  BY CopyWrite
<1>3. \A e \in DocIds : Copy(new)[e].present <=> old[e].present \/ e = d
  BY <1>1, <1>2
<1> HIDE DEF old
<1> QED BY <1>3, PresentCopy DEF old

LEMMA PutKeeps ==
  ASSUME NEW files \in [DocIds -> Doc], WellFormed(files),
         NEW new \in [DocIds -> Doc], NEW d \in DocIds,
         \A e \in DocIds \ {d} : new[e] = files[e], new[d].present,
         new[d].type # "" => FacetErrors(new[d]) = {},
         \A f \in EdgeFields : new[d][f] \subseteq Present(Copy(files))
  PROVE  WellFormed(new)
<1> DEFINE old == Copy(files)
           doc == new[d]
<1>1. Copy(new)[d] = Loaded(doc) /\ \A e \in DocIds \ {d} : Copy(new)[e] = old[e]
  BY CopyWrite
<1>2. Present(old) \subseteq Present(Copy(new))
  <2>1. Present(Copy(new)) = Present(Copy(files)) \cup {d}
    BY PutPresent
  <2> QED BY <2>1
<1>3. /\ doc \in Doc /\ doc.present /\ (doc.type # "" => FacetErrors(doc) = {})
      /\ \A f \in EdgeFields : doc[f] \subseteq Present(old)
  OBVIOUS
<1>4. \A e \in DocIds : /\ ~files[e].present => files[e] = NoDoc
                        /\ old[e].type # "" => FacetErrors(old[e]) = {}
                        /\ \A f \in EdgeFields : old[e][f] \subseteq Present(old)
  BY DEF WellFormed
<1> HIDE DEF old
<1>5. ASSUME NEW e \in DocIds
      PROVE  /\ ~new[e].present => new[e] = NoDoc
             /\ Copy(new)[e].type # "" => FacetErrors(Copy(new)[e]) = {}
             /\ \A f \in EdgeFields : Copy(new)[e][f] \subseteq Present(Copy(new))
  <2>1. CASE e # d
    BY <1>1, <1>2, <1>4, <2>1
  <2>2. CASE e = d
    <3> HIDE DEF doc
    <3>1. new[e] = doc /\ Copy(new)[e] = Loaded(doc)
      BY <1>1, <2>2 DEF doc
    <3>2. CASE Loaded(doc) = doc
      BY <1>2, <1>3, <3>1, <3>2
    <3>3. CASE Loaded(doc) # doc
      <4>1. Loaded(doc).type = "" /\ \A f \in EdgeFields : Loaded(doc)[f] = {}
        BY <1>3, <3>3, LoadedKeeps
      <4> QED BY <1>3, <3>1, <4>1
    <3> QED BY <3>2, <3>3
  <2> QED BY <2>1, <2>2
<1> QED BY <1>5 DEF WellFormed

LEMMA AmendsIs ==
  ASSUME NEW files \in [DocIds -> Doc], NEW d, NEW doc, NEW c, Amends(Copy(files), d, doc, c)
  PROVE  /\ d \in DocIds /\ doc \in Doc
         /\ [files EXCEPT ![d] = doc] \in [DocIds -> Doc]
         /\ Present(Copy([files EXCEPT ![d] = doc])) = Present(Copy(files))
         /\ WellFormed(files) => WellFormed([files EXCEPT ![d] = doc])
<1>1. d \in DocIds /\ doc \in Doc /\ doc.present /\ d \in Present(Copy(files))
  BY PresentCopy DEF Amends
<1> DEFINE new == [files EXCEPT ![d] = doc]
<1>2. /\ new \in [DocIds -> Doc] /\ new[d] = doc
      /\ \A e \in DocIds \ {d} : new[e] = files[e]
  BY <1>1
<1> HIDE DEF new
<1>3. Present(Copy(new)) = Present(Copy(files))
  <2>1. new[d].present
    BY <1>1, <1>2
  <2>2. Present(Copy(new)) = Present(Copy(files)) \cup {d}
    BY <1>1, <1>2, <2>1, PutPresent
  <2> QED BY <1>1, <2>2
<1>4. ASSUME WellFormed(files) PROVE WellFormed(new)
  <2> DEFINE old == Copy(files)
  <2>1. /\ old[d].type # "" => FacetErrors(old[d]) = {}
        /\ \A f \in EdgeFields : old[d][f] \subseteq Present(old)
    BY <1>1, <1>4 DEF WellFormed
  <2>2. /\ doc.type # "" => FacetErrors(doc) = {}
        /\ \A f \in EdgeFields : doc[f] \subseteq Present(old)
    <3> HIDE DEF old
    <3> QED BY <2>1 DEF Amends, old
  <2> QED BY <1>1, <1>2, <1>4, <2>2, PutKeeps
<1> QED BY <1>1, <1>2, <1>3, <1>4 DEF new

\* A command under way among documents as commands leave them.
Sound(st) == st \in Under /\ WellFormed(st.docs)

LEMMA WritesKeep ==
  ASSUME NEW st, Sound(st), NEW next, NEW ref \in Ref, NEW c, Writes(st, next, ref, c)
  PROVE  Sound(next)
<1>1. st \in Under /\ WellFormed(st.docs) /\ st.docs \in [DocIds -> Doc]
  BY UnderParts DEF Sound
<1>2. next \in Under
  BY <1>1, WritesType
<1>3. CASE next = Fail(st)
  BY <1>1, <1>2, <1>3, FailIs DEF Sound
<1>4. ASSUME NEW d, NEW doc, Amends(Copy(st.docs), d, doc, c), next = Write(st, d, doc)
      PROVE  Sound(next)
  <2>1. d \in DocIds /\ doc \in Doc
    BY <1>1, <1>4, AmendsIs
  <2>2. next.docs = [st.docs EXCEPT ![d] = doc]
    BY <1>1, <1>4, <2>1, WriteIs
  <2> QED BY <1>1, <1>2, <1>4, <2>2, AmendsIs, SMTT(60) DEF Sound
<1> QED BY <1>3, <1>4 DEF Writes

LEMMA ReachesKeep ==
  ASSUME NEW st, Sound(st), NEW next, NEW ref \in Ref, NEW c, Reaches(st, next, ref, c)
  PROVE  Sound(next)
BY WritesKeep DEF Reaches

\* The commands that work off their references one by one.
Batched(c) ==
  CommandLine(c) /\ c.op \in {"set", "link", "unlink"} /\ (c.op = "set" => c.touch # {} \/ c.body)

LEMMA OneMoreIs ==
  ASSUME NEW st \in Under, NEW ref \in Ref, NEW c, Batched(c)
  PROVE  \/ ~st.ok /\ OneMore(st, ref, c) = st
         \/ st.ok /\ \E s : Reaches(st, s, ref, c) /\ OneMore(st, ref, c) = Logs(s, ref)
BY OneIs DEF OneMore, Batched

LEMMA OneMoreKeeps ==
  ASSUME NEW st, Sound(st), NEW ref \in Ref, NEW c, Batched(c)
  PROVE  Sound(OneMore(st, ref, c))
<1>1. st \in Under
  BY DEF Sound
<1>2. CASE OneMore(st, ref, c) = st
  BY <1>2
<1>3. ASSUME NEW s, Reaches(st, s, ref, c), OneMore(st, ref, c) = Logs(s, ref)
      PROVE  Sound(OneMore(st, ref, c))
  <2>1. Sound(s) /\ s \in Under
    BY <1>3, ReachesKeep DEF Sound
  <2>2. Log(s, ref) \in Under /\ Log(s, ref).docs = s.docs
    BY <2>1, LogIs
  <2> QED BY <1>3, <2>1, <2>2 DEF Logs, Sound
<1> QED BY <1>1, <1>2, <1>3, OneMoreIs

LEMMA RefsIs ==
  ASSUME NEW c, CommandLine(c)
  PROVE  /\ Len(c.refs) \in Nat /\ DOMAIN c.refs = 1 .. Len(c.refs)
         /\ \A n \in 1 .. Len(c.refs) : c.refs[n] \in Ref
<1>1. c.refs \in Seq(Ref)
  BY CommandIs
<1> QED BY <1>1

LEMMA StagesSound ==
  ASSUME NEW c, Batched(c), NEW f, Stages(f, c), Sound(Begun)
  PROVE  \A n \in 0 .. Len(c.refs) : Sound(f[n])
<1> DEFINE Bad == {n \in 0 .. Len(c.refs) : ~Sound(f[n])}
<1>1. /\ Len(c.refs) \in Nat /\ \A n \in 1 .. Len(c.refs) : c.refs[n] \in Ref
  BY RefsIs DEF Batched
<1> SUFFICES ASSUME Bad # {} PROVE FALSE
  OBVIOUS
<1>2. PICK n \in Bad : \A k \in Bad : n <= k
  <2>1. Bad \in SUBSET Nat
    BY <1>1
  <2> HIDE DEF Bad
  <2> QED BY <2>1, LeastBad
<1>3. n # 0
  BY <1>2 DEF Stages
<1>4. n \in 1 .. Len(c.refs) /\ n - 1 \in 0 .. Len(c.refs) /\ ~(n <= n - 1) /\ c.refs[n] \in Ref
  BY <1>1, <1>2, <1>3
<1>5. Sound(f[n - 1])
  BY <1>2, <1>4
<1>6. f[n] = OneMore(f[n - 1], c.refs[n], c)
  BY <1>4 DEF Stages
<1>7. Sound(f[n])
  BY <1>4, <1>5, <1>6, OneMoreKeeps
<1> QED BY <1>2, <1>7

-----------------------------------------------------------------------------
(* The commands                                                            *)

LEMMA MinIn ==
  ASSUME NEW S \in SUBSET Nat, S # {}
  PROVE  Min(S) \in S
<1>1. \E n \in S : \A k \in S : n <= k
  BY LeastBad
<1> QED BY <1>1 DEF Min

LEMMA BegunSound ==
  ASSUME TypeOK, WellFormed(docs)
  PROVE  Sound(Begun) /\ Begun.docs = docs /\ Begun.ok /\ Begun.wrote = {} /\ Begun.logged = {}
BY DEF Begun, Sound, Under, TypeOK

LEMMA FailedEnds ==
  ASSUME TypeOK, WellFormed(docs)
  PROVE  /\ Fail(Begun).docs = docs /\ ~Fail(Begun).ok
         /\ Fail(Begun).wrote = {} /\ Fail(Begun).logged = {}
<1>1. Begun \in Under
  BY BegunSound DEF Sound
<1> QED BY <1>1, BegunSound, FailIs

LEMMA ResolveAllIs ==
  ASSUME NEW copy \in [DocIds -> Doc], NEW refs \in SUBSET Ref, 0 \notin ResolveAll(copy, refs)
  PROVE  ResolveAll(copy, refs) \subseteq Present(copy)
<1>1. \A r \in refs : Resolve(copy, r) \in Present(copy) \cup {0}
  BY ResolveIs
<1> QED BY <1>1 DEF ResolveAll

\* A new document, as the store gets it.
LEMMA NewDocIs ==
  ASSUME TypeOK, NEW c, CommandLine(c), c.op = "new", 0 \notin NewDoc(c)[c.field]
  PROVE  /\ NewDoc(c) \in Doc /\ NewDoc(c).present
         /\ \A f \in EdgeFields : NewDoc(c)[f] \subseteq Present(Copy(docs))
<1> DEFINE doc == NewDoc(c)
           to == ResolveAll(Copy(docs), c.targets)
<1>1. /\ c.to \in Doc /\ c.field \in EdgeFields /\ c.targets \in SUBSET Ref
      /\ \A f \in EdgeFields : c.to[f] = {}
  BY CommandIs DEF CommandLine
<1>2. DOMAIN c.to = Fields /\ \A f \in Fields : c.to[f] \in Kind[f]
  BY <1>1, FieldsOfDoc
<1>3. /\ c.field \in Fields \ {"present", "title", "intent"}
      /\ {"present", "title", "intent", "label"} \subseteq Fields
      /\ EdgeFields \subseteq Fields \ {"present", "title", "intent"}
  BY <1>1 DEF Fields, EdgeFields
<1>4. /\ doc = [f \in Fields |-> doc[f]] /\ doc["present"] = TRUE
      /\ doc["title"] = (IF c.to["title"] = {} THEN c.to["label"] ELSE c.to["title"])
      /\ doc["intent"] \in {c.to["intent"], "incidental"}
      /\ doc[c.field] = to
      /\ \A f \in Fields \ {"present", "title", "intent", c.field} : doc[f] = c.to[f]
  BY <1>2, <1>3 DEF NewDoc
<1>5. Copy(docs) \in [DocIds -> Doc] /\ Present(Copy(docs)) \in SUBSET DocIds
  BY CopyType DEF TypeOK
<1>6. to \subseteq Present(Copy(docs))
  BY <1>1, <1>4, <1>5, ResolveAllIs
<1> HIDE DEF doc, to
<1>7. \A f \in EdgeFields : doc[f] \subseteq Present(Copy(docs))
  BY <1>1, <1>3, <1>4, <1>6
<1>8. ASSUME NEW f \in Fields PROVE doc[f] \in Kind[f]
  <2>1. CASE f = c.field
    <3>1. Kind[f] = SUBSET DocIds
      BY <1>1, <2>1, KindIs
    <3> QED BY <1>4, <1>5, <1>6, <2>1, <3>1
  <2>2. CASE f = "present"
    BY <1>4, <2>2, KindIs
  <2>3. CASE f = "title"
    <3>1. c.to["title"] \in Names /\ c.to["label"] \in Names
      BY <1>2, <1>3, KindIs
    <3> QED BY <1>4, <2>3, <3>1, KindIs
  <2>4. CASE f = "intent"
    <3>1. c.to["intent"] \in Kind["intent"] /\ "incidental" \in Kind["intent"]
      BY <1>2, <1>3, KindIs
    <3> QED BY <1>4, <2>4, <3>1
  <2>5. CASE f \in Fields \ {"present", "title", "intent", c.field}
    BY <1>2, <1>4, <2>5
  <2> QED BY <2>1, <2>2, <2>3, <2>4, <2>5
<1>9. doc \in Doc
  BY <1>4, <1>8, DocOfFields
<1> QED BY <1>4, <1>7, <1>9 DEF doc

\* What a step leaves: documents as commands leave them, and nothing strayed.
Left(c, st) ==
  /\ Sound(st)
  /\ ~Renames(Copy(docs), c) =>
       /\ st.wrote \cup st.logged \subseteq Meant(Copy(docs), c) \cup Along(Copy(docs), c)
       /\ st.ok => /\ Meant(Copy(docs), c) \subseteq st.wrote \cap st.logged
                   /\ Along(Copy(docs), c) \subseteq st.wrote

LEMMA FailedLeft ==
  ASSUME TypeOK, WellFormed(docs), NEW c
  PROVE  Left(c, Fail(Begun))
<1>1. Begun \in Under /\ Sound(Begun)
  BY BegunSound DEF Sound
<1>2. Sound(Fail(Begun))
  BY <1>1, FailIs DEF Sound
<1> QED BY <1>2, FailedEnds DEF Left

LEMMA NewLeft ==
  ASSUME TypeOK, WellFormed(docs), NEW c, CommandLine(c), New(c)
  PROVE  \E st : Left(c, st) /\ Ends(c, st)
<1> DEFINE d == NextId
           doc == NewDoc(c)
<1>1. c.op = "new" /\ c.refs = <<>> /\ \E e \in DocIds : ~docs[e].present
  BY DEF New, CommandLine
<1>2. CASE Ends(c, Fail(Begun))
  BY <1>2, FailedLeft
<1>3. CASE ~Ends(c, Fail(Begun))
  <2> DEFINE st == [Write(Begun, d, doc) EXCEPT !.logged = {d}]
  <2>1. /\ Ends(c, st) /\ 0 \notin doc[c.field] /\ Violations(doc, TRUE) = {}
    BY <1>3 DEF New
  <2>2. /\ doc \in Doc /\ doc.present
        /\ \A f \in EdgeFields : doc[f] \subseteq Present(Copy(docs))
    BY <1>1, <2>1, NewDocIs
  <2>3. d \in DocIds
    <3>1. {i \in DocIds : ~docs[i].present} \in SUBSET Nat
      BY PorcelainConstants
    <3>2. {i \in DocIds : ~docs[i].present} # {}
      BY <1>1
    <3>3. d \in {i \in DocIds : ~docs[i].present}
      BY <3>1, <3>2, MinIn DEF NextId
    <3> QED BY <3>3
  <2>4. FacetErrors(doc) = {}
    BY <2>1, NoViolations
  <2> HIDE DEF d, doc
  <2>5. /\ st.docs \in [DocIds -> Doc] /\ st.docs[d] = doc
        /\ \A e \in DocIds \ {d} : st.docs[e] = docs[e]
        /\ st.wrote = {d} /\ st.logged = {d} /\ st \in Under
    <3> DEFINE w == Write(Begun, d, doc)
    <3>1. Begun \in Under /\ Begun.docs = docs /\ Begun.wrote = {}
      BY BegunSound DEF Sound
    <3>2. /\ w \in Under /\ w.docs = [docs EXCEPT ![d] = doc] /\ w.wrote = {d}
      BY <2>2, <2>3, <3>1, WriteIs
    <3>3. st = [w EXCEPT !.logged = {d}]
      OBVIOUS
    <3> HIDE DEF w, st
    <3>4. st \in Under /\ st.docs = w.docs /\ st.wrote = w.wrote /\ st.logged = {d}
      BY <2>3, <3>2, <3>3 DEF Under
    <3>5. st.docs = [docs EXCEPT ![d] = doc]
      BY <3>2, <3>4
    <3>6. st.docs \in [DocIds -> Doc]
      BY <3>4 DEF Under
    <3>7. st.docs[d] = doc /\ \A e \in DocIds \ {d} : st.docs[e] = docs[e]
      BY <2>3, <3>5 DEF TypeOK
    <3> QED BY <3>2, <3>4, <3>6, <3>7
  <2>6. docs \in [DocIds -> Doc]
    BY DEF TypeOK
  <2> HIDE DEF st
  <2>7. WellFormed(st.docs)
    <3>1. st.docs[d].present /\ (st.docs[d].type # "" => FacetErrors(st.docs[d]) = {})
      BY <2>2, <2>4, <2>5
    <3>2. \A f \in EdgeFields : st.docs[d][f] \subseteq Present(Copy(docs))
      BY <2>2, <2>5
    <3> DEFINE files == st.docs
    <3>3. files \in [DocIds -> Doc] /\ \A e \in DocIds \ {d} : files[e] = docs[e]
      BY <2>5
    <3> HIDE DEF files
    <3>4. WellFormed(files)
      BY <2>3, <2>6, <3>1, <3>2, <3>3, PutKeeps DEF files
    <3> QED BY <3>4 DEF files
  <2>8. Meant(Copy(docs), c) = {} /\ Along(Copy(docs), c) = {d}
    BY <1>1 DEF Meant, Along, ResolveAll, ToSet, d
  <2>9. Left(c, st)
    BY <2>5, <2>7, <2>8 DEF Left, Sound
  <2> QED BY <2>1, <2>9
<1> QED BY <1>2, <1>3

\* A document without its edges to d.
Stripped(doc, d) ==
  [f \in DOMAIN NoDoc |-> IF f \in EdgeFields THEN doc[f] \ {d} ELSE doc[f]]

LEMMA StrippedIs ==
  ASSUME NEW doc \in Doc, NEW d
  PROVE  /\ Stripped(doc, d) \in Doc
         /\ \A f \in EdgeFields : Stripped(doc, d)[f] = doc[f] \ {d}
         /\ \A f \in Fields \ EdgeFields : Stripped(doc, d)[f] = doc[f]
<1> DEFINE new == Stripped(doc, d)
<1>1. /\ new = [f \in Fields |-> new[f]]
      /\ \A f \in Fields : new[f] = IF f \in EdgeFields THEN doc[f] \ {d} ELSE doc[f]
  BY NoDocIs DEF Stripped
<1>2. \A f \in Fields : doc[f] \in Kind[f]
  BY FieldsOfDoc
<1> HIDE DEF new
<1>3. ASSUME NEW f \in Fields PROVE new[f] \in Kind[f]
  <2>1. CASE f \in EdgeFields
    <3>1. Kind[f] = SUBSET DocIds /\ doc[f] \in Kind[f]
      BY <1>2, <2>1, KindIs
    <3> QED BY <1>1, <2>1, <3>1
  <2>2. CASE f \notin EdgeFields
    BY <1>1, <1>2, <2>2
  <2> QED BY <2>1, <2>2
<1>4. new \in Doc
  BY <1>1, <1>3, DocOfFields
<1> QED BY <1>1, <1>4, EdgesAreFields DEF new

\* The files when d has gone.
Without(files, d) ==
  [r \in DocIds |->
     IF r = d THEN NoDoc
     ELSE IF r \in Present(Copy(files)) /\ \E f \in EdgeFields : d \in Copy(files)[r][f]
          THEN Stripped(Copy(files)[r], d)
          ELSE files[r]]

LEMMA WithoutKeeps ==
  ASSUME NEW files \in [DocIds -> Doc], WellFormed(files), NEW d \in DocIds
  PROVE  Without(files, d) \in [DocIds -> Doc] /\ WellFormed(Without(files, d))
<1> DEFINE new == Without(files, d)
           old == Copy(files)
           Cut(r) == r \in Present(old) /\ \E f \in EdgeFields : d \in old[r][f]
<1>1. /\ old \in [DocIds -> Doc] /\ \A r \in DocIds : old[r] = Loaded(files[r])
      /\ Present(old) = {r \in DocIds : old[r].present}
  BY CopyType, PresentCopy
<1>2. \A r \in DocIds : new[r] = IF r = d THEN NoDoc
                                 ELSE IF Cut(r) THEN Stripped(old[r], d) ELSE files[r]
  BY DEF Without
<1>3. new \in [DocIds -> Doc]
  <2>1. new = [r \in DocIds |-> new[r]]
    BY DEF Without
  <2>2. \A r \in DocIds : Stripped(old[r], d) \in Doc
    BY <1>1, StrippedIs
  <2>3. NoDoc \in Doc
    BY NoDocIs
  <2> HIDE DEF new, Cut
  <2>4. \A r \in DocIds : new[r] \in Doc
    BY <1>2, <2>2, <2>3
  <2> QED BY <2>1, <2>4
<1>4. /\ NoDoc.present = FALSE /\ NoDoc.type = "" /\ Loaded(NoDoc) = NoDoc
      /\ \A f \in EdgeFields : NoDoc[f] = {}
  BY DEF NoDoc, Loaded, EdgeFields
<1>5. \A r \in DocIds : /\ ~files[r].present => files[r] = NoDoc
                        /\ old[r].type # "" => FacetErrors(old[r]) = {}
                        /\ \A f \in EdgeFields : old[r][f] \subseteq Present(old)
  BY DEF WellFormed
<1>6. \A r \in DocIds : Copy(new)[r] = Loaded(new[r])
  BY <1>3, CopyType
<1> HIDE DEF new, old
\* Read, a document is the same but for its edges to d.
<1>7. ASSUME NEW r \in DocIds, r # d
      PROVE  /\ \A f \in Fields \ EdgeFields : Copy(new)[r][f] = old[r][f]
             /\ \A f \in EdgeFields : Copy(new)[r][f] = old[r][f] \ {d}
             /\ new[r].present = files[r].present
  <2>1. CASE Cut(r)
    <3>1. new[r] = Stripped(old[r], d) /\ old[r].present
      BY <1>1, <1>2, <1>7, <2>1
    <3>2. Stripped(old[r], d) \in Doc
      BY <1>1, StrippedIs
    <3>3. Stripped(old[r], d).title = old[r].title /\ Stripped(old[r], d).label = old[r].label
      BY <1>1, StrippedIs DEF Fields, EdgeFields
    <3>4. Dashes \notin old[r].title \cup old[r].label
      BY <1>1, LoadedDoc
    <3>5. Copy(new)[r] = Stripped(old[r], d)
      <4> DEFINE doc == Stripped(old[r], d)
      <4>1. doc \in Doc /\ Dashes \notin doc.title \cup doc.label
        BY <3>2, <3>3, <3>4
      <4> HIDE DEF doc
      <4>2. Loaded(doc) = doc
        BY <4>1, LoadedKeeps
      <4>3. Copy(new)[r] = Loaded(doc)
        BY <1>6, <3>1 DEF doc
      <4> QED BY <4>2, <4>3 DEF doc
    <3>6. /\ \A f \in EdgeFields : Stripped(old[r], d)[f] = old[r][f] \ {d}
          /\ \A f \in Fields \ EdgeFields : Stripped(old[r], d)[f] = old[r][f]
      BY <1>1, StrippedIs
    <3>7. Stripped(old[r], d).present = old[r].present
      BY <3>6 DEF Fields, EdgeFields
    <3>8. files[r].present
      <4>1. CASE files[r] = NoDoc
        BY <1>1, <1>4, <3>1, <4>1
      <4> QED BY <1>5, <4>1
    <3>9. files[r].present \in BOOLEAN /\ old[r].present \in BOOLEAN
      BY <1>1 DEF Doc
    <3>10. new[r].present = files[r].present
      BY <3>1, <3>7, <3>8, <3>9
    <3> QED BY <3>5, <3>6, <3>10
  <2>2. CASE ~Cut(r)
    <3>1. new[r] = files[r] /\ Copy(new)[r] = old[r]
      BY <1>1, <1>2, <1>6, <1>7, <2>2
    <3>2. ASSUME NEW f \in EdgeFields PROVE d \notin old[r][f]
      <4>1. CASE r \in Present(old)
        BY <2>2, <4>1
      <4>2. CASE r \notin Present(old)
        <5>1. ~files[r].present
          BY <1>1, <4>2, LoadedDoc
        <5> QED BY <1>1, <1>4, <1>5, <5>1
      <4> QED BY <4>1, <4>2
    <3> QED BY <3>1, <3>2
  <2> QED BY <2>1, <2>2
<1>8. Copy(new)[d] = NoDoc /\ new[d] = NoDoc
  BY <1>2, <1>4, <1>6
<1>9. \A r \in DocIds : Copy(new)[r].present <=> old[r].present /\ r # d
  <2>1. "present" \in Fields \ EdgeFields
    BY DEF Fields, EdgeFields
  <2>2. \A r \in DocIds : r # d => Copy(new)[r].present = old[r].present
    BY <1>7, <2>1
  <2>3. ~Copy(new)[d].present
    BY <1>4, <1>8
  <2> QED BY <2>2, <2>3
<1>10. Present(Copy(new)) = Present(old) \ {d}
  BY <1>1, <1>3, <1>9, PresentCopy
<1>11. ASSUME NEW r \in DocIds
       PROVE  /\ ~new[r].present => new[r] = NoDoc
              /\ Copy(new)[r].type # "" => FacetErrors(Copy(new)[r]) = {}
              /\ \A f \in EdgeFields : Copy(new)[r][f] \subseteq Present(Copy(new))
  <2>1. CASE r = d
    BY <1>4, <1>8, <2>1
  <2>2. CASE r # d
    <3>1. FacetsSame(old[r], Copy(new)[r])
      BY <1>7, <2>2 DEF FacetsSame, FacetFields, Fields, EdgeFields
    <3>2. FacetErrors(Copy(new)[r]) = FacetErrors(old[r]) /\ Copy(new)[r].type = old[r].type
      BY <3>1, SameFacetErrors
    <3>3. \A f \in EdgeFields : Copy(new)[r][f] = old[r][f] \ {d}
      BY <1>7, <2>2
    <3>4. ASSUME ~new[r].present PROVE new[r] = NoDoc
      <4>1. files[r] = NoDoc
        BY <1>5, <1>7, <2>2, <3>4
      <4>2. ~Cut(r)
        BY <1>1, <1>4, <4>1
      <4> QED BY <1>2, <2>2, <4>1, <4>2
    <3>5. Copy(new)[r].type # "" => FacetErrors(Copy(new)[r]) = {}
      BY <1>5, <3>2
    <3>6. \A f \in EdgeFields : Copy(new)[r][f] \subseteq Present(Copy(new))
      BY <1>5, <1>10, <3>3, ZenonT(60)
    <3> QED BY <3>4, <3>5, <3>6
  <2> QED BY <2>1, <2>2
<1>12. WellFormed(new)
  BY <1>11 DEF WellFormed
<1> QED BY <1>3, <1>12 DEF new

LEMMA RmLeft ==
  ASSUME TypeOK, WellFormed(docs), NEW c, CommandLine(c), Rm(c)
  PROVE  \E st : Left(c, st) /\ Ends(c, st)
<1> DEFINE copy == Copy(docs)
           d == Resolve(copy, Head(c.refs))
<1>1. c.op = "rm" /\ Len(c.refs) = 1 /\ c.refs \in Seq(Ref)
  BY CommandIs DEF Rm, CommandLine
<1>2. c.refs = <<Head(c.refs)>> /\ Head(c.refs) \in Ref
  BY <1>1
<1>3. copy \in [DocIds -> Doc] /\ Present(copy) \in SUBSET DocIds
  BY CopyType DEF TypeOK
<1>4. d \in DocIds \cup {0}
  BY <1>2, <1>3, ResolveIs
<1>5. CASE Ends(c, Fail(Begun))
  BY <1>5, FailedLeft
<1>6. CASE ~Ends(c, Fail(Begun))
  <2> DEFINE st == [Write(Strip(Begun, d), d, NoDoc) EXCEPT !.logged = {d}]
  <2>1. d # 0 /\ Ends(c, st)
    BY <1>6 DEF Rm
  <2>2. d \in DocIds
    BY <1>4, <2>1
  <2>3. /\ Referrers(copy, d) \subseteq DocIds
        /\ \A r \in DocIds : r \in Referrers(copy, d) <=>
             r \in Present(copy) /\ \E f \in EdgeFields : d \in copy[r][f]
    <3>1. Inbound(copy, d) \subseteq Present(copy) \X EdgeFields
      BY DEF Inbound
    <3>2. ASSUME NEW r \in Present(copy), NEW f \in EdgeFields, d \in copy[r][f]
          PROVE  r \in Referrers(copy, d)
      <4>1. <<r, f>> \in Inbound(copy, d)
        BY <3>2 DEF Inbound
      <4> QED BY <4>1 DEF Referrers
    <3>3. ASSUME NEW r \in Referrers(copy, d)
          PROVE  r \in Present(copy) /\ \E f \in EdgeFields : d \in copy[r][f]
      <4>1. PICK e \in Inbound(copy, d) : r = e[1]
        BY <3>3 DEF Referrers
      <4> QED BY <4>1 DEF Inbound
    <3> HIDE DEF copy, d
    <3> QED BY <1>3, <3>2, <3>3
  <2>4. [Strip(Begun, d).docs EXCEPT ![d] = NoDoc] = Without(docs, d)
    <3>1. Strip(Begun, d).docs =
            [r \in DocIds |-> IF r \in Referrers(copy, d)
                              THEN Stripped(copy[r], d) ELSE docs[r]]
      BY DEF Strip, Begun, Stripped
    <3> HIDE DEF copy, d
    <3>2. [r \in DocIds |-> IF r \in Referrers(copy, d)
                            THEN Stripped(copy[r], d) ELSE docs[r]]
            = [r \in DocIds |-> IF r \in Present(copy) /\ \E f \in EdgeFields : d \in copy[r][f]
                                THEN Stripped(copy[r], d) ELSE docs[r]]
      BY <2>3
    <3> QED BY <3>1, <3>2 DEF Without, copy
  <2>5. /\ Strip(Begun, d) \in Under /\ Strip(Begun, d).ok
        /\ Strip(Begun, d).wrote = Referrers(copy, d) /\ Strip(Begun, d).logged = {}
    <3>1. ASSUME NEW r \in DocIds PROVE Strip(Begun, d).docs[r] \in Doc
      <4>1. Strip(Begun, d).docs[r] =
              IF r \in Referrers(copy, d) THEN Stripped(copy[r], d) ELSE docs[r]
        BY DEF Strip, Begun, Stripped
      <4>2. Stripped(copy[r], d) \in Doc /\ docs[r] \in Doc
        BY <1>3, StrippedIs DEF TypeOK
      <4> HIDE DEF copy, d
      <4> QED BY <4>1, <4>2
    <3>2. Strip(Begun, d).docs = [r \in DocIds |-> Strip(Begun, d).docs[r]]
      BY DEF Strip, Begun
    <3> DEFINE files == Strip(Begun, d).docs
    <3> HIDE DEF files
    <3>3. files \in [DocIds -> Doc]
      BY <3>1, <3>2 DEF files
    <3>4. Strip(Begun, d) = [Begun EXCEPT !.docs = files, !.wrote = Referrers(copy, d)]
      BY DEF Strip, files, Begun
    <3>5. Begun \in Under
      BY BegunSound DEF Sound
    <3> HIDE DEF d, copy
    <3> QED BY <2>3, <3>3, <3>4, <3>5, BegunSound DEF Under
  <2>6. Without(docs, d) \in [DocIds -> Doc] /\ WellFormed(Without(docs, d))
    <3>1. docs \in [DocIds -> Doc]
      BY DEF TypeOK
    <3> HIDE DEF d
    <3> QED BY <2>2, <3>1, WithoutKeeps
  <2>7. /\ st \in Under /\ st.docs = Without(docs, d)
        /\ st.wrote = Referrers(copy, d) \cup {d} /\ st.logged = {d}
    <3> DEFINE s == Strip(Begun, d)
               w == Write(s, d, NoDoc)
    <3> HIDE DEF d, s
    <3>1. /\ w \in Under /\ w.docs = [s.docs EXCEPT ![d] = NoDoc] /\ w.wrote = s.wrote \cup {d}
      BY <2>2, <2>5, WriteIs, NoDocIs DEF s
    <3>2. st = [w EXCEPT !.logged = {d}]
      BY DEF s
    <3> HIDE DEF st, w
    <3>3. /\ st \in Under /\ st.docs = w.docs /\ st.wrote = w.wrote /\ st.logged = {d}
      BY <2>2, <3>1, <3>2 DEF Under
    <3> QED BY <2>4, <2>5, <3>1, <3>3 DEF s
  <2> HIDE DEF st
  <2>8. Sound(st)
    <3> HIDE DEF d
    <3> QED BY <2>6, <2>7 DEF Sound
  <2>9. Meant(copy, c) = {d}
    <3>1. ToSet(c.refs) = {Head(c.refs)}
      BY <1>1, <1>2 DEF ToSet
    <3>2. ResolveAll(copy, ToSet(c.refs)) = {d}
      BY <3>1 DEF ResolveAll
    <3> QED BY <2>1, <3>2 DEF Meant
  <2>10. Along(copy, c) = Referrers(copy, d)
    <3> HIDE DEF d, copy
    <3> QED BY <1>1, <2>9 DEF Along
  <2>11. Left(c, st)
    <3> HIDE DEF d
    <3> QED BY <2>7, <2>8, <2>9, <2>10 DEF Left
  <2> QED BY <2>1, <2>11
<1> QED BY <1>5, <1>6

-----------------------------------------------------------------------------
(* What the references mean, from the first of a batch to the last         *)

\* As documents are once they are read: with no dashes left in a name.
Clean(copy) == \A d \in DocIds : Dashes \notin copy[d].title \cup copy[d].label

LEMMA CopyClean ==
  ASSUME NEW files \in [DocIds -> Doc]
  PROVE  Copy(files) \in [DocIds -> Doc] /\ Clean(Copy(files))
BY CopyType, LoadedDoc DEF Clean

LEMMA NamesMerged ==
  ASSUME NEW a \in Doc, NEW b \in Doc, SameNames(a, b), NEW c, CommandLine(c)
  PROVE  SameNames(Merged(a, c), Merged(b, c))
<1>1. "title" \in Fields /\ "label" \in Fields
  BY DEF Fields
<1>2. /\ Merged(a, c).title = (IF "title" \in c.touch THEN c.to["title"] ELSE a["title"])
      /\ Merged(b, c).title = (IF "title" \in c.touch THEN c.to["title"] ELSE b["title"])
      /\ Merged(a, c).label = (IF "label" \in c.touch THEN c.to["label"] ELSE a["label"])
      /\ Merged(b, c).label = (IF "label" \in c.touch THEN c.to["label"] ELSE b["label"])
  BY <1>1, MergedIs
<1> QED BY <1>2 DEF SameNames

LEMMA NamesLoaded ==
  ASSUME NEW a \in Doc
  PROVE  /\ Dashes \in a.title =>
              Loaded(a).title = a.title \ {Dashes} /\ Loaded(a).label = {}
         /\ Dashes \in a.label \ a.title =>
              Loaded(a).title = a.title /\ Loaded(a).label = a.label \ {Dashes}
         /\ Dashes \notin a.title \cup a.label =>
              Loaded(a).title = a.title /\ Loaded(a).label = a.label
<1>1. /\ a.title \in Names /\ a.label \in Names /\ {} \in Names
      /\ a.title \ {Dashes} \in Names /\ a.label \ {Dashes} \in Names
  BY DEF Doc, Names
<1>2. \A t, l \in Names : CutFile(t, l).title = t /\ CutFile(t, l).label = l
  BY CutDoc, ZenonT(60)
<1>3. CASE Dashes \in a.title
  <2>1. Loaded(a) = CutFile(a.title \ {Dashes}, {})
    BY <1>3, LoadedIs
  <2> DEFINE t == a.title \ {Dashes}
             l == {}
  <2>2. CutFile(t, l).title = t /\ CutFile(t, l).label = l
    BY <1>1, <1>2
  <2>3. Loaded(a).title = a.title \ {Dashes} /\ Loaded(a).label = {}
    BY <2>1, <2>2
  <2> QED BY <1>3, <2>3
<1>4. CASE Dashes \in a.label \ a.title
  <2>1. Loaded(a) = CutFile(a.title, a.label \ {Dashes})
    BY <1>4, LoadedIs
  <2> DEFINE t == a.title
             l == a.label \ {Dashes}
  <2>2. CutFile(t, l).title = t /\ CutFile(t, l).label = l
    BY <1>1, <1>2
  <2>3. Loaded(a).title = a.title /\ Loaded(a).label = a.label \ {Dashes}
    BY <2>1, <2>2
  <2> QED BY <1>4, <2>3
<1>5. CASE Dashes \notin a.title \cup a.label
  BY <1>5, LoadedIs
<1> QED BY <1>3, <1>4, <1>5

LEMMA SameLoaded ==
  ASSUME NEW a \in Doc, NEW b \in Doc, SameNames(a, b)
  PROVE  SameNames(Loaded(a), Loaded(b))
<1>1. a.title = b.title /\ a.label = b.label
  BY DEF SameNames
<1>2. CASE Dashes \in a.title
  BY <1>1, <1>2, NamesLoaded DEF SameNames
<1>3. CASE Dashes \in a.label \ a.title
  BY <1>1, <1>3, NamesLoaded DEF SameNames
<1>4. CASE Dashes \notin a.title \cup a.label
  BY <1>1, <1>4, NamesLoaded DEF SameNames
<1> QED BY <1>2, <1>3, <1>4

\* To give a document its new names once more changes nothing.
LEMMA NamesTwice ==
  ASSUME NEW a \in Doc, Dashes \notin a.title \cup a.label, NEW c, CommandLine(c)
  PROVE  SameNames(Loaded(Merged(Loaded(Merged(a, c)), c)), Loaded(Merged(a, c)))
<1> DEFINE m == Merged(a, c)
           l == Loaded(m)
           again == Merged(l, c)
<1>1. "title" \in Fields /\ "label" \in Fields
  BY DEF Fields
<1>2. /\ m \in Doc /\ m.title = (IF "title" \in c.touch THEN c.to["title"] ELSE a.title)
      /\ m.label = (IF "label" \in c.touch THEN c.to["label"] ELSE a.label)
  BY <1>1, MergedIs
<1> HIDE DEF m
<1>3. l \in Doc
  BY <1>2, LoadedDoc
<1> HIDE DEF l
<1>4. /\ again \in Doc
      /\ again.title = (IF "title" \in c.touch THEN c.to["title"] ELSE l.title)
      /\ again.label = (IF "label" \in c.touch THEN c.to["label"] ELSE l.label)
  BY <1>1, <1>3, MergedIs
<1> HIDE DEF again
<1>5. CASE Dashes \in m.title
  <2>1. l.title = m.title \ {Dashes} /\ l.label = {}
    BY <1>2, <1>5, NamesLoaded DEF l
  <2>2. again.title = m.title
    BY <1>2, <1>4, <1>5
  <2>3. Loaded(again).title = m.title \ {Dashes} /\ Loaded(again).label = {}
    BY <1>4, <1>5, <2>2, NamesLoaded
  <2> QED BY <2>1, <2>3 DEF SameNames, again, l, m
<1>6. CASE Dashes \in m.label \ m.title
  <2>1. l.title = m.title /\ l.label = m.label \ {Dashes}
    BY <1>2, <1>6, NamesLoaded DEF l
  <2>2. again.title = m.title /\ again.label = m.label
    BY <1>2, <1>4, <1>6, <2>1
  <2>3. Loaded(again).title = m.title /\ Loaded(again).label = m.label \ {Dashes}
    BY <1>4, <1>6, <2>2, NamesLoaded
  <2> QED BY <2>1, <2>3 DEF SameNames, again, l, m
<1>7. CASE Dashes \notin m.title \cup m.label
  <2>1. l.title = m.title /\ l.label = m.label
    BY <1>2, <1>7, NamesLoaded DEF l
  <2>2. again.title = m.title /\ again.label = m.label
    BY <1>2, <1>4, <2>1
  <2>3. Loaded(again).title = m.title /\ Loaded(again).label = m.label
    BY <1>4, <1>7, <2>2, NamesLoaded
  <2> QED BY <2>1, <2>3 DEF SameNames, again, l, m
<1> QED BY <1>5, <1>6, <1>7

\* What of the names a batch of c keeps: a document has those it had, or where
\* the command means it, those a set gives it.
Same(old, copy, c) ==
  /\ Present(copy) = Present(old)
  /\ \A d \in Present(old) :
       \/ SameNames(copy[d], old[d])
       \/ /\ c.op = "set" /\ d \in Meant(old, c)
          /\ SameNames(copy[d], Loaded(Merged(old[d], c)))

LEMMA AmendsSame ==
  ASSUME NEW files \in [DocIds -> Doc], NEW d, NEW doc, NEW c, CommandLine(c),
         NEW old \in [DocIds -> Doc], Clean(old), d \in Meant(old, c),
         Amends(Copy(files), d, doc, c), Same(old, Copy(files), c)
  PROVE  Same(old, Copy([files EXCEPT ![d] = doc]), c)
<1> DEFINE new == [files EXCEPT ![d] = doc]
           copy == Copy(files)
<1>1. d \in DocIds /\ doc \in Doc /\ Present(Copy(new)) = Present(copy)
  BY AmendsIs
<1>2. /\ new \in [DocIds -> Doc] /\ new[d] = doc
      /\ \A e \in DocIds \ {d} : new[e] = files[e]
  BY <1>1
<1> HIDE DEF new
<1>3. Copy(new)[d] = Loaded(doc) /\ \A e \in DocIds \ {d} : Copy(new)[e] = copy[e]
  BY <1>1, <1>2, CopyWrite
<1>4. copy[d] \in Doc /\ Dashes \notin copy[d].title \cup copy[d].label /\ old[d] \in Doc
      /\ Dashes \notin old[d].title \cup old[d].label
  BY <1>1, CopyClean DEF Clean
<1>5. \/ SameNames(doc, copy[d])
      \/ c.op = "set" /\ SameNames(doc, Merged(copy[d], c))
  BY DEF Amends
<1>6. d \in Present(copy) /\ Present(copy) = Present(old) /\ Present(old) \subseteq DocIds
  BY DEF Amends, Same, Present
<1>7. \/ SameNames(copy[d], old[d])
      \/ /\ c.op = "set" /\ d \in Meant(old, c)
         /\ SameNames(copy[d], Loaded(Merged(old[d], c)))
  BY <1>6 DEF Same
<1>8. /\ Merged(copy[d], c) \in Doc /\ Merged(old[d], c) \in Doc
      /\ Loaded(Merged(old[d], c)) \in Doc /\ Merged(Loaded(Merged(old[d], c)), c) \in Doc
  BY <1>4, MergedIs, LoadedDoc
<1> HIDE DEF copy
<1>9. \/ SameNames(Loaded(doc), old[d])
      \/ /\ c.op = "set" /\ d \in Meant(old, c)
         /\ SameNames(Loaded(doc), Loaded(Merged(old[d], c)))
  <2>1. CASE SameNames(doc, copy[d])
    <3>1. Dashes \notin doc.title \cup doc.label
      BY <1>4, <2>1 DEF SameNames
    <3>2. SameNames(Loaded(doc), copy[d])
      BY <1>1, <2>1, <3>1, NamesLoaded DEF SameNames
    <3> QED BY <1>7, <3>2 DEF SameNames
  <2>2. CASE c.op = "set" /\ SameNames(doc, Merged(copy[d], c))
    <3>1. SameNames(Loaded(doc), Loaded(Merged(copy[d], c)))
      BY <1>1, <1>8, <2>2, SameLoaded
    <3>2. CASE SameNames(copy[d], old[d])
      <4>1. SameNames(Merged(copy[d], c), Merged(old[d], c))
        BY <1>4, <3>2, NamesMerged
      <4>2. SameNames(Loaded(Merged(copy[d], c)), Loaded(Merged(old[d], c)))
        BY <1>8, <4>1, SameLoaded
      <4> QED BY <2>2, <3>1, <4>2 DEF SameNames
    <3>3. CASE SameNames(copy[d], Loaded(Merged(old[d], c)))
      <4>1. SameNames(Merged(copy[d], c), Merged(Loaded(Merged(old[d], c)), c))
        BY <1>4, <1>8, <3>3, NamesMerged
      <4>2. SameNames(Loaded(Merged(copy[d], c)), Loaded(Merged(Loaded(Merged(old[d], c)), c)))
        BY <1>8, <4>1, SameLoaded
      <4>3. SameNames(Loaded(Merged(Loaded(Merged(old[d], c)), c)), Loaded(Merged(old[d], c)))
        BY <1>4, NamesTwice
      <4> QED BY <2>2, <3>1, <4>2, <4>3 DEF SameNames
    <3> QED BY <1>7, <3>2, <3>3
  <2> QED BY <1>5, <2>1, <2>2
<1>10. ASSUME NEW e \in Present(old)
       PROVE  \/ SameNames(Copy(new)[e], old[e])
              \/ /\ c.op = "set" /\ e \in Meant(old, c)
                 /\ SameNames(Copy(new)[e], Loaded(Merged(old[e], c)))
  <2>1. CASE e = d
    BY <1>3, <1>9, <2>1
  <2>2. CASE e # d
    <3>1. Copy(new)[e] = copy[e]
      BY <1>3, <1>6, <2>2
    <3>2. \/ SameNames(copy[e], old[e])
          \/ /\ c.op = "set" /\ e \in Meant(old, c)
             /\ SameNames(copy[e], Loaded(Merged(old[e], c)))
      BY DEF Same, copy
    <3> QED BY <3>1, <3>2
  <2> QED BY <2>1, <2>2
<1>11. Same(old, Copy(new), c)
  BY <1>1, <1>6, <1>10 DEF Same
<1> QED BY <1>11 DEF new

LEMMA AnswersIs ==
  ASSUME NEW doc, NEW name
  PROVE  /\ Answers(doc, name) \in 0 .. 3
         /\ Answers(doc, name) = 3 <=> doc.label = name
         /\ Answers(doc, name) = 2 <=> doc.label # name /\ doc.title = name
         /\ Answers(doc, name) = 1 <=>
              /\ doc.label # name /\ doc.title # name
              /\ name \subseteq doc.title \/ name \subseteq doc.label
BY DEF Answers

\* A name finds the same documents where only those answer to it differently
\* that another answers to better, before and after.
LEMMA SameMatches ==
  ASSUME NEW old, NEW copy, NEW name, Present(copy) = Present(old),
         \A d \in Present(old) :
           \/ Answers(copy[d], name) = Answers(old[d], name)
           \/ \E e \in Present(old) : /\ Answers(old[e], name) > Answers(old[d], name)
                                      /\ Answers(old[e], name) > Answers(copy[d], name)
  PROVE  Matches(copy, name) = Matches(old, name)
<1> DEFINE P == Present(old)
           A(d) == Answers(old[d], name)
           B(d) == Answers(copy[d], name)
<1>1. \A d \in P : /\ A(d) \in 0 .. 3 /\ (A(d) = 3 <=> old[d].label = name)
                   /\ A(d) = 2 <=> old[d].label # name /\ old[d].title = name
                   /\ A(d) = 1 <=> /\ old[d].label # name /\ old[d].title # name
                                   /\ name \subseteq old[d].title \/ name \subseteq old[d].label
  BY AnswersIs
<1>2. \A d \in P : /\ B(d) \in 0 .. 3 /\ (B(d) = 3 <=> copy[d].label = name)
                   /\ B(d) = 2 <=> copy[d].label # name /\ copy[d].title = name
                   /\ B(d) = 1 <=> /\ copy[d].label # name /\ copy[d].title # name
                                   /\ name \subseteq copy[d].title \/ name \subseteq copy[d].label
  BY AnswersIs
<1>3. \A d \in P : A(d) = B(d) \/ \E e \in P : A(e) > A(d) /\ A(e) > B(d)
  OBVIOUS
<1>4. /\ ByLabel(old, name) = {d \in P : old[d].label = name}
      /\ ByLabel(copy, name) = {d \in P : copy[d].label = name}
      /\ ByTitle(old, name) = {d \in P : old[d].title = name}
      /\ ByTitle(copy, name) = {d \in P : copy[d].title = name}
      /\ ByPart(old, name) =
           {d \in P : name \subseteq old[d].title \/ name \subseteq old[d].label}
      /\ ByPart(copy, name) =
           {d \in P : name \subseteq copy[d].title \/ name \subseteq copy[d].label}
  BY DEF ByLabel, ByTitle, ByPart
<1> HIDE DEF P, A, B
<1>5. ByLabel(copy, name) = ByLabel(old, name)
  <2>1. \A d \in P : A(d) = 3 <=> B(d) = 3
    BY <1>1, <1>2, <1>3
  <2> QED BY <1>1, <1>2, <1>4, <2>1
<1>6. ASSUME ByLabel(old, name) = {} PROVE ByTitle(copy, name) = ByTitle(old, name)
  <2>1. \A d \in P : A(d) # 3 /\ B(d) # 3
    BY <1>1, <1>2, <1>4, <1>5, <1>6
  <2>2. \A d \in P : A(d) = 2 <=> B(d) = 2
    BY <1>1, <1>2, <1>3, <2>1
  <2> QED BY <1>1, <1>2, <1>4, <2>1, <2>2
<1>7. ASSUME ByLabel(old, name) = {}, ByTitle(old, name) = {}
      PROVE  ByPart(copy, name) = ByPart(old, name)
  <2>1. \A d \in P : /\ old[d].label # name /\ old[d].title # name
                     /\ copy[d].label # name /\ copy[d].title # name
    BY <1>4, <1>5, <1>6, <1>7
  <2>2. \A d \in P : A(d) \in {0, 1} /\ B(d) \in {0, 1}
    BY <1>1, <1>2, <2>1
  <2>3. \A d \in P : A(d) = B(d)
    BY <1>3, <2>2
  <2>4. \A d \in P : (name \subseteq old[d].title \/ name \subseteq old[d].label)
                       <=> (name \subseteq copy[d].title \/ name \subseteq copy[d].label)
    BY <1>1, <1>2, <2>1, <2>3
  <2> QED BY <1>4, <2>4
<1>8. CASE ByLabel(old, name) # {}
  BY <1>5, <1>8 DEF Matches
<1>9. CASE ByLabel(old, name) = {} /\ ByTitle(old, name) # {}
  BY <1>5, <1>6, <1>9 DEF Matches
<1>10. CASE ByLabel(old, name) = {} /\ ByTitle(old, name) = {}
  BY <1>5, <1>6, <1>7, <1>10 DEF Matches
<1> QED BY <1>8, <1>9, <1>10

\* A reference means the same document, unless the command renames.
LEMMA SameResolve ==
  ASSUME NEW old \in [DocIds -> Doc], NEW copy \in [DocIds -> Doc], NEW c, CommandLine(c),
         Same(old, copy, c), ~Renames(old, c), NEW n \in 1 .. Len(c.refs)
  PROVE  Resolve(copy, c.refs[n]) = Resolve(old, c.refs[n])
<1> DEFINE ref == c.refs[n]
           name == c.refs[n].name
<1>1. n \in DOMAIN c.refs /\ ref \in Ref
  BY RefsIs
<1>2. Present(copy) = Present(old)
  BY DEF Same
<1>3. CASE ref.id # 0
  <2>1. ref.id \in DocIds
    BY <1>1, <1>3 DEF Ref
  <2>2. \A d \in DocIds : /\ d \in Present(copy) <=> copy[d].present
                          /\ d \in Present(old) <=> old[d].present
    BY DEF Present
  <2> QED BY <1>2, <1>3, <2>1, <2>2 DEF Resolve
<1>4. CASE ref.id = 0
  <2>1. ASSUME NEW d \in Present(old)
        PROVE  \/ Answers(copy[d], name) = Answers(old[d], name)
               \/ \E e \in Present(old) : /\ Answers(old[e], name) > Answers(old[d], name)
                                          /\ Answers(old[e], name) > Answers(copy[d], name)
    <3>1. CASE SameNames(copy[d], old[d])
      BY <3>1 DEF SameNames, Answers
    <3>2. CASE /\ c.op = "set" /\ d \in Meant(old, c)
               /\ SameNames(copy[d], Loaded(Merged(old[d], c)))
      <4> DEFINE before == Answers(old[d], name)
                 after == Answers(Loaded(Merged(old[d], c)), name)
      <4>1. Answers(copy[d], name) = after
        BY <3>2 DEF SameNames, Answers
      <4>2. before = after \/ \E e \in Present(old) :
                                ~(Answers(old[e], name) <= before \/ Answers(old[e], name) <= after)
        BY <1>1, <1>4, <3>2 DEF Renames
      <4>3. before \in 0 .. 3 /\ after \in 0 .. 3 /\ \A e : Answers(old[e], name) \in 0 .. 3
        BY AnswersIs
      <4> HIDE DEF before, after
      <4>4. before = after \/ \E e \in Present(old) :
                                Answers(old[e], name) > before /\ Answers(old[e], name) > after
        BY <4>2, <4>3
      <4> QED BY <4>1, <4>4 DEF before
    <3> QED BY <3>1, <3>2 DEF Same
  <2>2. Matches(copy, name) = Matches(old, name)
    BY <1>2, <2>1, SameMatches
  <2> QED BY <1>4, <2>2 DEF Resolve
<1> QED BY <1>3, <1>4

LEMMA WritesSame ==
  ASSUME NEW st \in Under, NEW next, NEW ref \in Ref, NEW c, CommandLine(c),
         NEW old \in [DocIds -> Doc], Clean(old), Writes(st, next, ref, c),
         Same(old, Copy(st.docs), c), Resolve(Copy(st.docs), ref) \in Meant(old, c) \cup {0}
  PROVE  /\ next \in Under /\ Same(old, Copy(next.docs), c) /\ next.logged = st.logged
         /\ \/ ~next.ok /\ next.wrote = st.wrote
            \/ LET d == Resolve(Copy(st.docs), ref) IN
               /\ next.ok = st.ok /\ d # 0 /\ next.wrote = st.wrote \cup {d}
<1>1. st.docs \in [DocIds -> Doc] /\ next \in Under
  BY UnderParts, WritesType
<1>2. CASE next = Fail(st)
  BY <1>1, <1>2, FailIs
<1>3. ASSUME NEW doc, Amends(Copy(st.docs), Resolve(Copy(st.docs), ref), doc, c),
             next = Write(st, Resolve(Copy(st.docs), ref), doc)
      PROVE  /\ Same(old, Copy(next.docs), c) /\ next.logged = st.logged /\ next.ok = st.ok
             /\ Resolve(Copy(st.docs), ref) # 0
             /\ next.wrote = st.wrote \cup {Resolve(Copy(st.docs), ref)}
  <2> DEFINE d == Resolve(Copy(st.docs), ref)
  <2>1. Amends(Copy(st.docs), d, doc, c) /\ next = Write(st, d, doc) /\ d \in Meant(old, c) \cup {0}
    BY <1>3
  <2> HIDE DEF d
  <2>2. d \in DocIds /\ doc \in Doc
    BY <1>1, <2>1, AmendsIs
  <2>3. d # 0 /\ d \in Meant(old, c)
    BY <2>1, <2>2, PorcelainConstants
  <2>4. /\ next.docs = [st.docs EXCEPT ![d] = doc] /\ next.ok = st.ok
        /\ next.logged = st.logged /\ next.wrote = st.wrote \cup {d}
    BY <2>1, <2>2, WriteIs
  <2>5. Same(old, Copy([st.docs EXCEPT ![d] = doc]), c)
    BY <1>1, <2>1, <2>3, AmendsSame
  <2> QED BY <2>3, <2>4, <2>5 DEF d
<1> QED BY <1>1, <1>2, <1>3 DEF Writes

\* What the references of c meant when it began.
Means(c, n) == Resolve(Copy(docs), c.refs[n])
MeantAll(c) == {Means(c, k) : k \in 1 .. Len(c.refs)} \ {0}

LEMMA MeantIs ==
  ASSUME NEW c, CommandLine(c)
  PROVE  Meant(Copy(docs), c) = MeantAll(c)
<1>1. DOMAIN c.refs = 1 .. Len(c.refs)
  BY RefsIs
<1> QED BY <1>1 DEF Meant, ResolveAll, ToSet, MeantAll, Means

\* After n references, the command not renaming.
Kept(st, c, n) ==
  /\ st \in Under /\ Same(Copy(docs), Copy(st.docs), c)
  /\ st.wrote \cup st.logged \subseteq MeantAll(c)
  /\ st.ok => \A k \in 1 .. n : Means(c, k) \in st.wrote \cap st.logged

LEMMA OneMoreKept ==
  ASSUME TypeOK, NEW c, Batched(c), ~Renames(Copy(docs), c), NEW n \in 1 .. Len(c.refs),
         NEW st, Kept(st, c, n - 1)
  PROVE  Kept(OneMore(st, c.refs[n], c), c, n)
<1> DEFINE old == Copy(docs)
           ref == c.refs[n]
           next == OneMore(st, ref, c)
           d == Means(c, n)
<1>1. CommandLine(c) /\ ref \in Ref /\ old \in [DocIds -> Doc] /\ st \in Under
  BY RefsIs, CopyType DEF TypeOK, Batched, Kept
<1>2. n \in Nat /\ Len(c.refs) \in Nat
  BY <1>1, RefsIs
<1>5. Clean(old) /\ d \in Meant(old, c) \cup {0}
  BY <1>1, CopyClean, MeantIs DEF TypeOK, MeantAll
<1>3. CASE ~st.ok /\ next = st
  BY <1>3 DEF Kept
<1>4. ASSUME st.ok, NEW s, Reaches(st, s, ref, c), next = Logs(s, ref)
      PROVE  Kept(next, c, n)
  <2>1. \A w \in Under : Same(old, Copy(w.docs), c) => Resolve(Copy(w.docs), ref) = d
    <3>1. ASSUME NEW w \in Under, Same(old, Copy(w.docs), c)
          PROVE  Resolve(Copy(w.docs), ref) = d
      <4>1. Copy(w.docs) \in [DocIds -> Doc]
        BY UnderParts, CopyType
      <4> QED BY <1>1, <3>1, <4>1, SameResolve DEF Means
    <3> QED BY <3>1
  <2>2. ASSUME NEW w \in Under, NEW v, Same(old, Copy(w.docs), c), Writes(w, v, ref, c)
        PROVE  /\ v \in Under /\ Same(old, Copy(v.docs), c) /\ v.logged = w.logged
               /\ \/ ~v.ok /\ v.wrote = w.wrote
                  \/ v.ok = w.ok /\ d # 0 /\ v.wrote = w.wrote \cup {d}
    <3>1. Resolve(Copy(w.docs), ref) = d /\ Resolve(Copy(w.docs), ref) \in Meant(old, c) \cup {0}
      BY <1>5, <2>1, <2>2
    <3> HIDE DEF d, old, ref
    <3>2. /\ v \in Under /\ Same(old, Copy(v.docs), c) /\ v.logged = w.logged
          /\ \/ ~v.ok /\ v.wrote = w.wrote
             \/ /\ v.ok = w.ok /\ Resolve(Copy(w.docs), ref) # 0
                /\ v.wrote = w.wrote \cup {Resolve(Copy(w.docs), ref)}
      BY <1>1, <1>5, <2>2, <3>1, WritesSame
    <3> QED BY <3>1, <3>2
  <2>3. Same(old, Copy(st.docs), c)
    BY DEF Kept
  <2>4. /\ s \in Under /\ Same(old, Copy(s.docs), c) /\ s.logged = st.logged
        /\ \/ ~s.ok /\ s.wrote \subseteq st.wrote \cup ({d} \ {0})
           \/ d # 0 /\ s.wrote = st.wrote \cup {d}
    <3>1. CASE Writes(st, s, ref, c)
      BY <1>1, <2>2, <2>3, <3>1
    <3>2. ASSUME NEW mid, mid.ok, Writes(st, mid, ref, c), Writes(mid, s, ref, c)
          PROVE  /\ s \in Under /\ Same(old, Copy(s.docs), c) /\ s.logged = st.logged
                 /\ \/ ~s.ok /\ s.wrote \subseteq st.wrote \cup ({d} \ {0})
                    \/ d # 0 /\ s.wrote = st.wrote \cup {d}
      <4>1. /\ mid \in Under /\ Same(old, Copy(mid.docs), c) /\ mid.logged = st.logged
            /\ d # 0 /\ mid.wrote = st.wrote \cup {d}
        BY <1>1, <2>2, <2>3, <3>2
      <4>2. /\ s \in Under /\ Same(old, Copy(s.docs), c) /\ s.logged = mid.logged
            /\ \/ ~s.ok /\ s.wrote = mid.wrote
               \/ s.wrote = mid.wrote \cup {d}
        BY <2>2, <3>2, <4>1
      <4> QED BY <4>1, <4>2
    <3> QED BY <1>4, <3>1, <3>2 DEF Reaches
  <2>5. {d} \ {0} \subseteq MeantAll(c)
    BY DEF MeantAll
  <2>6. st.wrote \cup st.logged \subseteq MeantAll(c)
        /\ \A k \in 1 .. (n - 1) : Means(c, k) \in st.wrote \cap st.logged
    BY <1>4 DEF Kept
  <2>7. CASE ~s.ok
    <3>1. next = s
      BY <1>4, <2>7 DEF Logs
    <3> QED BY <2>4, <2>5, <2>6, <2>7, <3>1 DEF Kept
  <2>8. CASE s.ok
    <3>1. next = Log(s, ref) /\ Resolve(Copy(s.docs), ref) = d
      BY <1>4, <2>1, <2>4, <2>8 DEF Logs
    <3>2. /\ next \in Under /\ next.docs = s.docs /\ next.wrote = s.wrote
          /\ \/ ~next.ok /\ next.logged = s.logged
             \/ next.logged = s.logged \cup {d}
      BY <1>1, <2>4, <3>1, LogIs
    <3>3. d # 0 /\ s.wrote = st.wrote \cup {d} /\ s.logged = st.logged
      BY <2>4, <2>8
    <3>4. next.wrote \cup next.logged \subseteq MeantAll(c)
      BY <2>5, <2>6, <3>2, <3>3
    <3>5. next.ok => \A k \in 1 .. n : Means(c, k) \in next.wrote \cap next.logged
      <4>1. \A k \in 1 .. n : k = n \/ k \in 1 .. (n - 1)
        BY <1>2
      <4> QED BY <2>6, <3>2, <3>3, <4>1
    <3> HIDE DEF next, d, old
    <3> QED BY <2>4, <3>2, <3>4, <3>5 DEF Kept, old
  <2> QED BY <2>7, <2>8
<1> QED BY <1>1, <1>3, <1>4, OneMoreIs

LEMMA StagesKept ==
  ASSUME TypeOK, WellFormed(docs), NEW c, Batched(c), ~Renames(Copy(docs), c), NEW f,
         Stages(f, c)
  PROVE  \A n \in 0 .. Len(c.refs) : Kept(f[n], c, n)
<1> DEFINE Bad == {n \in 0 .. Len(c.refs) : ~Kept(f[n], c, n)}
<1>1. Len(c.refs) \in Nat
  BY RefsIs DEF Batched
<1> SUFFICES ASSUME Bad # {} PROVE FALSE
  OBVIOUS
<1>2. PICK n \in Bad : \A k \in Bad : n <= k
  <2>1. Bad \in SUBSET Nat
    BY <1>1
  <2> HIDE DEF Bad
  <2> QED BY <2>1, LeastBad
<1>3. n # 0
  <2>1. Begun \in Under /\ Same(Copy(docs), Copy(Begun.docs), c)
    BY BegunSound DEF Sound, Same, SameNames
  <2>2. Kept(Begun, c, 0)
    BY <2>1, BegunSound DEF Kept
  <2> QED BY <1>2, <2>2 DEF Stages
<1>4. n \in 1 .. Len(c.refs) /\ n - 1 \in 0 .. Len(c.refs) /\ ~(n <= n - 1)
  BY <1>1, <1>2, <1>3
<1>5. Kept(f[n - 1], c, n - 1)
  BY <1>2, <1>4
<1>6. f[n] = OneMore(f[n - 1], c.refs[n], c)
  BY <1>4 DEF Stages
<1>7. Kept(f[n], c, n)
  BY <1>4, <1>5, <1>6, OneMoreKept
<1> QED BY <1>2, <1>7

LEMMA BatchLeft ==
  ASSUME TypeOK, WellFormed(docs), NEW c, Batched(c), Batch(c)
  PROVE  \E st : Left(c, st) /\ Ends(c, st)
<1>1. PICK f : Stages(f, c) /\ Ends(c, f[Len(c.refs)])
  BY BatchIs DEF Batched
<1> DEFINE m == Len(c.refs)
           st == f[m]
<1>2. m \in Nat /\ m \in 0 .. m
  BY RefsIs DEF Batched
<1>3. Sound(st)
  BY <1>1, <1>2, BegunSound, StagesSound
<1>4. ASSUME ~Renames(Copy(docs), c)
      PROVE  /\ st.wrote \cup st.logged \subseteq MeantAll(c)
             /\ st.ok => MeantAll(c) \subseteq st.wrote \cap st.logged
  <2>1. Kept(st, c, m)
    BY <1>1, <1>2, <1>4, StagesKept
  <2> QED BY <2>1 DEF Kept, MeantAll
<1>5. Along(Copy(docs), c) = {} /\ Meant(Copy(docs), c) = MeantAll(c)
  BY MeantIs DEF Along, Batched
<1> HIDE DEF st
<1>6. Left(c, st)
  BY <1>3, <1>4, <1>5 DEF Left
<1> QED BY <1>1, <1>6 DEF st

\* Every command leaves what Left says.
LEMMA StepLeft ==
  ASSUME TypeOK, WellFormed(docs), task \in Tasks, Next
  PROVE  \E c, st : CommandLine(c) /\ Left(c, st) /\ Ends(c, st)
<1>1. PICK c \in Menu[task] : New(c) \/ Set(c) \/ Link(c) \/ Unlink(c) \/ Rm(c)
  BY DEF Next
<1>2. CommandLine(c)
  BY <1>1, MenuAssumption
<1>3. CASE New(c)
  BY <1>2, <1>3, NewLeft
<1>4. CASE Set(c)
  <2>1. Batched(c) /\ Batch(c)
    BY <1>2, <1>4 DEF Set, Batched
  <2> QED BY <1>2, <2>1, BatchLeft
<1>5. CASE Link(c)
  <2>1. CASE Ends(c, Fail(Begun))
    BY <1>2, <2>1, FailedLeft
  <2>2. CASE ~Ends(c, Fail(Begun))
    <3>1. Batched(c) /\ Batch(c)
      BY <1>2, <1>5, <2>2 DEF Link, Batched
    <3> QED BY <1>2, <3>1, BatchLeft
  <2> QED BY <2>1, <2>2
<1>6. CASE Unlink(c)
  <2>1. Batched(c) /\ Batch(c)
    BY <1>2, <1>6 DEF Unlink, Batched
  <2> QED BY <1>2, <2>1, BatchLeft
<1>7. CASE Rm(c)
  BY <1>2, <1>7, RmLeft
<1> QED BY <1>1, <1>3, <1>4, <1>5, <1>6, <1>7

-----------------------------------------------------------------------------
(* The theorems                                                            *)

Inv == TypeOK /\ WellFormed(docs) /\ task \in Tasks

LEMMA InvHolds == Spec => []Inv
<1>1. Init => Inv
  BY StoreAssumption DEF Init, Inv, TypeOK
<1>2. Inv /\ [Next]_vars => Inv'
  <2> SUFFICES ASSUME Inv, [Next]_vars PROVE Inv'
    OBVIOUS
  <2>1. CASE Next
    <3>1. PICK c, st : CommandLine(c) /\ Left(c, st) /\ Ends(c, st)
      BY <2>1, StepLeft DEF Inv
    <3>2. st \in Under /\ WellFormed(st.docs)
      BY <3>1 DEF Left, Sound
    <3>3. docs' = st.docs /\ task' = task
      BY <3>1 DEF Ends
    <3>4. TypeOK'
      BY <3>2, <3>3, UnderParts DEF TypeOK
    <3>5. WellFormed(docs')
      BY <3>2, <3>3
    <3>6. WellFormed(docs)'
      BY <3>5 DEF WellFormed, Copy
    <3> QED BY <3>3, <3>4, <3>6 DEF Inv
  <2>2. CASE UNCHANGED vars
    BY <2>2 DEF vars, Inv, TypeOK, WellFormed, Copy
  <2> QED BY <2>1, <2>2
<1> QED BY <1>1, <1>2, PTL DEF Spec

\* The files keep their types, whatever the commands and their order.
THEOREM TypeOKHolds == Spec => []TypeOK
<1>1. Inv => TypeOK
  BY DEF Inv
<1> QED BY <1>1, InvHolds, PTL

\* validate never faults what the commands wrote for a facet the type forbids,
\* an intent without its basis, or an edge that leads nowhere.
THEOREM StrictOnOutputHolds == Spec => []StrictOnOutput
<1>1. Inv => StrictOnOutput
  <2> SUFFICES ASSUME Inv PROVE StrictOnOutput
    OBVIOUS
  <2> DEFINE copy == Copy(docs)
  <2>1. \A d \in DocIds : /\ copy[d].type # "" => FacetErrors(copy[d]) = {}
                          /\ \A f \in EdgeFields : copy[d][f] \subseteq Present(copy)
    BY DEF Inv, WellFormed
  <2>2. Present(copy) = {d \in DocIds : copy[d].present}
    BY PresentCopy DEF Inv, TypeOK
  <2>3. Visible(copy, FALSE) \subseteq DocIds
    BY <2>2 DEF Visible
  <2> HIDE DEF copy
  <2>4. ASSUME NEW d \in Visible(copy, FALSE)
        PROVE  DocErrors(copy, d) \subseteq {"missing", "label", "successor", "child", "clash"}
    <3>1. d \in DocIds
      BY <2>3
    <3>2. "facet" \notin DocErrors(copy, d)
      BY <2>1, <3>1 DEF DocErrors
    <3>3. "edge" \notin DocErrors(copy, d)
      BY <2>1, <2>2, <3>1 DEF DocErrors
    <3>4. DocErrors(copy, d) \subseteq
            {"missing", "label", "facet", "edge", "successor", "child", "clash"}
      BY DEF DocErrors
    <3> QED BY <3>2, <3>3, <3>4
  <2>5. StoreErrors(copy) \subseteq {"child", "successor", "label", "clash", "cycle", "missing"}
    BY <2>4 DEF StoreErrors
  <2> QED BY <2>5 DEF StrictOnOutput, copy
<1> QED BY <1>1, InvHolds, PTL

\* A command writes and logs the documents its references meant when it began
\* and no other, though it resolves them anew for every write and for the log.
THEOREM WritesStayWithNamedHolds == Spec => []WritesStayWithNamed
<1>1. Init => WritesStayWithNamed
  BY DEF Init, WritesStayWithNamed
<1>2. Inv /\ WritesStayWithNamed /\ [Next]_vars => WritesStayWithNamed'
  <2> SUFFICES ASSUME Inv, WritesStayWithNamed, [Next]_vars PROVE WritesStayWithNamed'
    OBVIOUS
  <2>1. CASE Next
    <3>1. PICK c, st : CommandLine(c) /\ Left(c, st) /\ Ends(c, st)
      BY <2>1, StepLeft DEF Inv
    <3>2. ASSUME ~Renames(Copy(docs), c)
          PROVE  last'.strayed = {} /\ last'.left = {}
      BY <3>1, <3>2 DEF Left, Ends
    <3>3. last'.renames = Renames(Copy(docs), c)
      BY <3>1 DEF Ends
    <3> QED BY <3>2, <3>3 DEF WritesStayWithNamed
  <2>2. CASE UNCHANGED vars
    BY <2>2 DEF vars, WritesStayWithNamed
  <2> QED BY <2>1, <2>2
<1> QED BY <1>1, <1>2, InvHolds, PTL DEF Spec

-----------------------------------------------------------------------------
(* Recursions over the documents, that come to an end as these are finite  *)

Iterates(g, base, nxt, m) == g = [n \in 0 .. m |-> IF n = 0 THEN base ELSE nxt[g[n - 1]]]

LEMMA Recursion ==
  ASSUME NEW base, NEW nxt, NEW m \in Nat
  PROVE  \E g : Iterates(g, base, nxt, m)
<1> DEFINE Follows(g, k) == g = [n \in 0 .. k |-> IF n = 0 THEN base ELSE nxt[g[n - 1]]]
           Bad == {k \in Nat : ~ \E g : Follows(g, k)}
<1>1. Bad = {}
  <2> SUFFICES ASSUME Bad # {} PROVE FALSE
    OBVIOUS
  <2>1. PICK k \in Bad : \A j \in Bad : k <= j
    <3>1. Bad \in SUBSET Nat
      OBVIOUS
    <3> HIDE DEF Bad
    <3> QED BY <3>1, LeastBad
  <2>2. k # 0
    <3>1. Follows([n \in 0 .. 0 |-> base], 0)
      OBVIOUS
    <3> QED BY <2>1, <3>1
  <2>3. k - 1 \in Nat /\ k - 1 \notin Bad
    <3>1. k \in Nat
      BY <2>1
    <3>2. k - 1 \in Nat /\ ~(k <= k - 1)
      BY <2>2, <3>1
    <3> HIDE DEF Bad
    <3> QED BY <2>1, <3>2
  <2>4. PICK g : Follows(g, k - 1)
    BY <2>3
  <2> DEFINE h == [n \in 0 .. k |-> IF n = 0 THEN base ELSE nxt[g[n - 1]]]
  <2>5. \A n \in 0 .. (k - 1) : h[n] = g[n]
    BY <2>3, <2>4
  <2>6. \A n \in 0 .. k : n = 0 \/ n - 1 \in 0 .. (k - 1)
    BY <2>1
  <2>7. \A n \in 0 .. k : h[n] = IF n = 0 THEN base ELSE nxt[h[n - 1]]
    BY <2>5, <2>6
  <2>8. Follows(h, k)
    BY <2>7
  <2> HIDE DEF h, Follows
  <2> QED BY <2>1, <2>8
<1> QED BY <1>1 DEF Iterates

\* f grows from S by what R takes its members to, m times.
Grows(f, R, S, m) ==
  f[0] = S /\ \A n \in 1 .. m : f[n] = f[n - 1] \cup UNION {R[k] : k \in f[n - 1]}

Closed(R, T) == \A k \in T : R[k] \subseteq T

LEMMA GrowsWithin ==
  ASSUME NEW R, NEW S, NEW m \in Nat, NEW f, Grows(f, R, S, m),
         NEW T, S \subseteq T, Closed(R, T)
  PROVE  \A n \in 0 .. m : S \subseteq f[n] /\ f[n] \subseteq T
<1> DEFINE Bad == {n \in 0 .. m : ~(S \subseteq f[n] /\ f[n] \subseteq T)}
<1> SUFFICES ASSUME Bad # {} PROVE FALSE
  OBVIOUS
<1>1. PICK n \in Bad : \A k \in Bad : n <= k
  <2>1. Bad \in SUBSET Nat
    OBVIOUS
  <2> HIDE DEF Bad
  <2> QED BY <2>1, LeastBad
<1>2. n # 0
  BY <1>1 DEF Grows
<1>3. n \in 1 .. m /\ n - 1 \in 0 .. m /\ n - 1 \notin Bad
  BY <1>1, <1>2
<1>4. S \subseteq f[n - 1] /\ f[n - 1] \subseteq T
  BY <1>3
<1>5. f[n] = f[n - 1] \cup UNION {R[k] : k \in f[n - 1]}
  BY <1>3 DEF Grows
<1>6. S \subseteq f[n] /\ f[n] \subseteq T
  BY <1>4, <1>5 DEF Closed
<1> QED BY <1>1, <1>6

\* After as many times as there are members, nothing is left to come.
LEMMA GrowsClosed ==
  ASSUME NEW X, IsFiniteSet(X), NEW R, Closed(R, X), NEW S \in SUBSET X,
         NEW f, Grows(f, R, S, Cardinality(X))
  PROVE  LET all == f[Cardinality(X)] IN
         S \subseteq all /\ all \subseteq X /\ Closed(R, all)
<1> DEFINE m == Cardinality(X)
           Bad == {n \in 0 .. m : ~(Closed(R, f[n]) \/ Cardinality(f[n]) >= n)}
<1>1. m \in Nat
  BY FS_CardinalityType
<1>2. \A n \in 0 .. m : S \subseteq f[n] /\ f[n] \subseteq X
  <2>1. Grows(f, R, S, m) /\ S \subseteq X
    OBVIOUS
  <2> HIDE DEF m, Bad
  <2> QED BY <1>1, <2>1, GrowsWithin
<1>3. \A n \in 0 .. m : IsFiniteSet(f[n]) /\ Cardinality(f[n]) \in Nat
  BY <1>2, FS_Subset, FS_CardinalityType
<1>4. Bad = {}
  <2> SUFFICES ASSUME Bad # {} PROVE FALSE
    OBVIOUS
  <2>1. PICK n \in Bad : \A k \in Bad : n <= k
    <3>1. Bad \in SUBSET Nat
      BY <1>1
    <3> HIDE DEF Bad
    <3> QED BY <3>1, LeastBad
  <2>2. n # 0
    BY <1>1, <1>3, <2>1
  <2>3. n \in 1 .. m /\ n - 1 \in 0 .. m /\ n \in 0 .. m /\ n - 1 \notin Bad
    BY <1>1, <2>1, <2>2
  <2>4. f[n] = f[n - 1] \cup UNION {R[k] : k \in f[n - 1]}
    BY <2>3 DEF Grows
  <2>5. CASE Closed(R, f[n - 1])
    <3>1. f[n] = f[n - 1]
      BY <2>4, <2>5 DEF Closed
    <3> QED BY <2>1, <2>5, <3>1
  <2>6. CASE ~Closed(R, f[n - 1])
    <3>1. Cardinality(f[n - 1]) >= n - 1
      BY <2>3, <2>6
    <3>2. PICK x \in f[n] : x \notin f[n - 1]
      BY <2>4, <2>6 DEF Closed
    <3>3. f[n - 1] \cup {x} \subseteq f[n]
      BY <2>4, <3>2
    <3>4. Cardinality(f[n - 1] \cup {x}) = Cardinality(f[n - 1]) + 1
      BY <1>3, <2>3, <3>2, FS_AddElement
    <3>5. Cardinality(f[n - 1] \cup {x}) <= Cardinality(f[n])
      BY <1>3, <2>3, <3>3, FS_Subset
    <3>6. Cardinality(f[n]) >= n
      BY <1>3, <2>3, <3>1, <3>4, <3>5
    <3> QED BY <2>1, <3>6
  <2> QED BY <2>5, <2>6
<1>5. Closed(R, f[m]) \/ Cardinality(f[m]) >= m
  BY <1>1, <1>4
<1>6. S \subseteq f[m] /\ f[m] \subseteq X /\ IsFiniteSet(f[m]) /\ Cardinality(f[m]) \in Nat
  BY <1>1, <1>2, <1>3
<1>7. CASE Cardinality(f[m]) >= m
  <2>1. Cardinality(f[m]) <= m
    BY <1>6, FS_Subset
  <2>2. Cardinality(f[m]) = m
    BY <1>1, <1>6, <1>7, <2>1
  <2>3. f[m] = X
    BY <1>6, <2>2, FS_Subset
  <2> QED BY <2>3, <1>6
<1> QED BY <1>5, <1>6, <1>7

\* One set of documents that grows in this way, by what R says.
LEMMA GrowsIs ==
  ASSUME NEW R, \A d \in DocIds : R[d] \in SUBSET DocIds, NEW S \in SUBSET DocIds, NEW m \in Nat
  PROVE  \E g : /\ DOMAIN g = 0 .. m /\ g = [n \in 0 .. m |-> g[n]]
                /\ Grows(g, R, S, m) /\ \A n \in 0 .. m : g[n] \in SUBSET DocIds
<1> DEFINE nxt == [T \in SUBSET DocIds |-> T \cup UNION {R[k] : k \in T}]
<1>3. \A T \in SUBSET DocIds : nxt[T] \in SUBSET DocIds
  OBVIOUS
<1>4. \A T \in SUBSET DocIds : nxt[T] = T \cup UNION {R[k] : k \in T}
  OBVIOUS
<1> HIDE DEF nxt
<1>1. PICK g : Iterates(g, S, nxt, m)
  BY Recursion
<1>2. g[0] = S /\ \A n \in 1 .. m : g[n] = nxt[g[n - 1]]
  BY <1>1 DEF Iterates
<1> DEFINE Bad == {n \in 0 .. m : g[n] \notin SUBSET DocIds}
<1>5. Bad = {}
  <2> SUFFICES ASSUME Bad # {} PROVE FALSE
    OBVIOUS
  <2>1. PICK n \in Bad : \A k \in Bad : n <= k
    <3>1. Bad \in SUBSET Nat
      OBVIOUS
    <3> HIDE DEF Bad
    <3> QED BY <3>1, LeastBad
  <2>2. n # 0
    BY <1>2, <2>1
  <2>3. n \in 1 .. m /\ n - 1 \in 0 .. m /\ n - 1 \notin Bad
    BY <2>1, <2>2
  <2> QED BY <1>2, <1>3, <2>1, <2>3
<1>6. \A n \in 1 .. m : g[n] = g[n - 1] \cup UNION {R[k] : k \in g[n - 1]}
  <2>1. \A n \in 1 .. m : n - 1 \in 0 .. m
    OBVIOUS
  <2> QED BY <1>2, <1>4, <1>5, <2>1
<1>7. g = [n \in 0 .. m |-> g[n]] /\ DOMAIN g = 0 .. m
  BY <1>1 DEF Iterates
<1> QED BY <1>2, <1>5, <1>6, <1>7 DEF Grows

-----------------------------------------------------------------------------
(* What is above a document, and what is below it                          *)

\* The parents, as a function of the documents.
Up(copy) == [d \in DocIds |-> Parents(copy, d)]

LEMMA ParentsIs ==
  ASSUME NEW copy \in [DocIds -> Doc]
  PROVE  /\ Present(copy) \in SUBSET DocIds /\ DOMAIN copy = DocIds
         /\ \A d \in DocIds : Parents(copy, d) \in SUBSET Present(copy)
         /\ \A d \in DocIds : Up(copy)[d] = Parents(copy, d)
BY DEF Present, Parents, Up

MoreAbove(copy, T) == T \cup UNION {Parents(copy, p) : p \in T}

LEMMA AboveIs ==
  ASSUME NEW copy \in [DocIds -> Doc], NEW d \in DocIds
  PROVE  /\ Above(copy, d) \in SUBSET Present(copy) /\ Parents(copy, d) \subseteq Above(copy, d)
         /\ \A p \in Above(copy, d) : Parents(copy, p) \subseteq Above(copy, d)
         /\ \A T \in SUBSET DocIds :
              Parents(copy, d) \subseteq T /\ Closed(Up(copy), T) => Above(copy, d) \subseteq T
<1> DEFINE m == Cardinality(DocIds)
           S == Parents(copy, d)
           R == Up(copy)
           Goes(g) == g = [n \in 0 .. m |->
             IF n = 0 THEN Parents(copy, d)
             ELSE MoreAbove(copy, g[n - 1])]
           f == CHOOSE g : Goes(g)
<1>1. /\ m \in Nat /\ IsFiniteSet(DocIds) /\ DOMAIN copy = DocIds /\ S \in SUBSET DocIds
      /\ Present(copy) \in SUBSET DocIds /\ S \subseteq Present(copy)
      /\ \A e \in DocIds : R[e] = Parents(copy, e) /\ R[e] \in SUBSET Present(copy)
  BY PorcelainConstants, FS_CardinalityType, ParentsIs
<1>2. \E g : Goes(g)
  <2> HIDE DEF m, R, S
  <2>1. \A e \in DocIds : R[e] \in SUBSET DocIds
    BY <1>1
  <2>2. PICK g : /\ DOMAIN g = 0 .. m /\ g = [n \in 0 .. m |-> g[n]]
                 /\ Grows(g, R, S, m) /\ \A n \in 0 .. m : g[n] \in SUBSET DocIds
    BY <1>1, <2>1, GrowsIs, ZenonT(60)
  <2>3. ASSUME NEW n \in 1 .. m
        PROVE  g[n] = MoreAbove(copy, g[n - 1])
    <3>1. n - 1 \in 0 .. m
      BY <1>1
    <3>2. g[n - 1] \in SUBSET DocIds
      BY <2>2, <3>1
    <3>3. {R[k] : k \in g[n - 1]} = {Parents(copy, p) : p \in g[n - 1]}
      BY <1>1, <3>2
    <3> QED BY <2>2, <3>3 DEF Grows, MoreAbove
  <2>4. g[0] = S
    BY <2>2 DEF Grows
  <2>5. \A n \in 0 .. m : g[n] = IF n = 0 THEN S
                                 ELSE MoreAbove(copy, g[n - 1])
    BY <1>1, <2>3, <2>4
  <2>6. Goes(g)
    BY <2>2, <2>5 DEF S
  <2> HIDE DEF Goes
  <2> QED BY <2>6
<1>3. Goes(f)
  <2> HIDE DEF Goes
  <2> QED BY <1>2
<1>4. Above(copy, d) = f[m]
  BY <1>1 DEF Above, MoreAbove
<1> HIDE DEF f
<1>5. f[0] = S /\ \A n \in 1 .. m : f[n] = MoreAbove(copy, f[n - 1])
  BY <1>1, <1>3, SMTT(60)
<1> HIDE DEF m, S, R, Goes
<1> DEFINE Bad == {n \in 0 .. m : f[n] \notin SUBSET Present(copy)}
<1>6. Bad = {}
  <2> SUFFICES ASSUME Bad # {} PROVE FALSE
    OBVIOUS
  <2>1. PICK n \in Bad : \A k \in Bad : n <= k
    <3>1. Bad \in SUBSET Nat
      BY <1>1
    <3> HIDE DEF Bad
    <3> QED BY <3>1, LeastBad
  <2>2. n # 0
    BY <1>1, <1>5, <2>1
  <2>3. n \in 1 .. m /\ n - 1 \in 0 .. m /\ n - 1 \notin Bad
    BY <1>1, <2>1, <2>2
  <2>4. \A p \in f[n - 1] : Parents(copy, p) \subseteq Present(copy)
    BY <1>1, <2>3
  <2> QED BY <1>5, <2>1, <2>3, <2>4 DEF MoreAbove
<1>7. Grows(f, R, S, m)
  <2>1. ASSUME NEW n \in 1 .. m PROVE f[n] = f[n - 1] \cup UNION {R[k] : k \in f[n - 1]}
    <3>1. n - 1 \in 0 .. m
      BY <1>1
    <3>2. f[n - 1] \subseteq DocIds
      BY <1>1, <1>6, <3>1
    <3>3. {R[k] : k \in f[n - 1]} = {Parents(copy, p) : p \in f[n - 1]}
      BY <1>1, <3>2
    <3> QED BY <1>5, <3>3 DEF MoreAbove
  <2> QED BY <1>5, <2>1 DEF Grows
<1>8. S \subseteq f[m] /\ f[m] \subseteq Present(copy) /\ Closed(R, f[m])
  <2>1. Closed(R, DocIds)
    BY <1>1 DEF Closed
  <2>2. S \subseteq f[m] /\ Closed(R, f[m])
    BY <1>1, <1>7, <2>1, GrowsClosed DEF m
  <2>3. m \in 0 .. m
    BY <1>1
  <2> QED BY <1>6, <2>2, <2>3
<1>9. ASSUME NEW T \in SUBSET DocIds, S \subseteq T, Closed(R, T) PROVE f[m] \subseteq T
  <2>1. m \in 0 .. m
    BY <1>1
  <2> QED BY <1>1, <1>7, <1>9, <2>1, GrowsWithin
<1> QED BY <1>1, <1>4, <1>8, <1>9 DEF Closed, S, R

\* The children that are shown, as a function of the documents.
Down(copy, full) == [d \in DocIds |-> Kids(copy, d, full)]

LEMMA KidsIs ==
  ASSUME NEW copy \in [DocIds -> Doc], NEW full \in BOOLEAN
  PROVE  /\ Visible(copy, full) \in SUBSET DocIds /\ DOMAIN copy = DocIds
         /\ Visible(copy, full) \subseteq Present(copy)
         /\ \A d \in DocIds : Kids(copy, d, full) \in SUBSET Visible(copy, full)
         /\ \A d \in DocIds : Down(copy, full)[d] = Kids(copy, d, full)
         /\ \A d, p \in DocIds : d \in Visible(copy, full) /\ p \in Parents(copy, d)
                                   => d \in Kids(copy, p, full)
BY DEF Present, Kids, Visible, Down, Children, Parents

MoreBelow(copy, full, T) == T \cup UNION {Kids(copy, k, full) : k \in T}

LEMMA DescendantsIs ==
  ASSUME NEW copy \in [DocIds -> Doc], NEW d \in DocIds, NEW full \in BOOLEAN
  PROVE  /\ Descendants(copy, d, full) \in SUBSET Visible(copy, full)
         /\ Kids(copy, d, full) \subseteq Descendants(copy, d, full)
         /\ \A k \in Descendants(copy, d, full) :
              Kids(copy, k, full) \subseteq Descendants(copy, d, full)
         /\ \A T \in SUBSET DocIds :
              Kids(copy, d, full) \subseteq T /\ (\A k \in T : Kids(copy, k, full) \subseteq T)
                => Descendants(copy, d, full) \subseteq T
<1> DEFINE m == Cardinality(DocIds)
           S == Kids(copy, d, full)
           R == Down(copy, full)
           V == Visible(copy, full)
           Goes(g) == g = [n \in 0 .. m |->
             IF n = 0 THEN Kids(copy, d, full)
             ELSE MoreBelow(copy, full, g[n - 1])]
           f == CHOOSE g : Goes(g)
<1>1. /\ m \in Nat /\ IsFiniteSet(DocIds) /\ DOMAIN copy = DocIds /\ S \in SUBSET DocIds
      /\ V \in SUBSET DocIds /\ S \subseteq V
      /\ \A e \in DocIds : R[e] = Kids(copy, e, full) /\ R[e] \in SUBSET V
  BY PorcelainConstants, FS_CardinalityType, KidsIs
<1>2. \E g : Goes(g)
  <2> HIDE DEF m, R, S, V
  <2>1. \A e \in DocIds : R[e] \in SUBSET DocIds
    <3>1. V \subseteq DocIds /\ \A e \in DocIds : R[e] \subseteq V
      BY <1>1
    <3> QED BY ONLY <3>1
  <2>2. PICK g : /\ DOMAIN g = 0 .. m /\ g = [n \in 0 .. m |-> g[n]]
                 /\ Grows(g, R, S, m) /\ \A n \in 0 .. m : g[n] \in SUBSET DocIds
    <3>1. m \in Nat /\ S \in SUBSET DocIds
      BY <1>1
    <3> HIDE DEF Goes, f
    <3> QED BY <2>1, <3>1, GrowsIs
  <2>3. ASSUME NEW n \in 1 .. m
        PROVE  g[n] = MoreBelow(copy, full, g[n - 1])
    <3>1. n - 1 \in 0 .. m
      BY <1>1
    <3>2. g[n - 1] \in SUBSET DocIds
      BY <2>2, <3>1
    <3>3. {R[k] : k \in g[n - 1]} = {Kids(copy, k, full) : k \in g[n - 1]}
      BY <1>1, <3>2
    <3> QED BY <2>2, <3>3 DEF Grows, MoreBelow
  <2>4. g[0] = S
    BY <2>2 DEF Grows
  <2>5. \A n \in 0 .. m : g[n] = IF n = 0 THEN S
                                 ELSE MoreBelow(copy, full, g[n - 1])
    BY <1>1, <2>3, <2>4
  <2>6. Goes(g)
    BY <2>2, <2>5 DEF S
  <2> HIDE DEF Goes
  <2> QED BY <2>6
<1>3. Goes(f)
  <2> HIDE DEF Goes
  <2> QED BY <1>2
<1>4. Descendants(copy, d, full) = f[m]
  BY <1>1 DEF Descendants, MoreBelow
<1> HIDE DEF f
<1>5. f[0] = S /\ \A n \in 1 .. m : f[n] = MoreBelow(copy, full, f[n - 1])
  BY <1>1, <1>3
<1> HIDE DEF m, S, R, V, Goes
<1> DEFINE Bad == {n \in 0 .. m : f[n] \notin SUBSET V}
<1>6. Bad = {}
  <2> SUFFICES ASSUME Bad # {} PROVE FALSE
    OBVIOUS
  <2>1. PICK n \in Bad : \A k \in Bad : n <= k
    <3>1. Bad \in SUBSET Nat
      BY <1>1
    <3> HIDE DEF Bad
    <3> QED BY <3>1, LeastBad
  <2>2. n # 0
    BY <1>1, <1>5, <2>1
  <2>3. n \in 1 .. m /\ n - 1 \in 0 .. m /\ n - 1 \notin Bad
    BY <1>1, <2>1, <2>2
  <2>4. \A k \in f[n - 1] : Kids(copy, k, full) \subseteq V
    BY <1>1, <2>3
  <2> QED BY <1>5, <2>1, <2>3, <2>4 DEF MoreBelow
<1>7. Grows(f, R, S, m)
  <2>1. ASSUME NEW n \in 1 .. m PROVE f[n] = f[n - 1] \cup UNION {R[k] : k \in f[n - 1]}
    <3>1. n - 1 \in 0 .. m
      BY <1>1
    <3>2. f[n - 1] \subseteq DocIds
      BY <1>1, <1>6, <3>1
    <3>3. {R[k] : k \in f[n - 1]} = {Kids(copy, k, full) : k \in f[n - 1]}
      BY <1>1, <3>2
    <3> QED BY <1>5, <3>3 DEF MoreBelow
  <2> QED BY <1>5, <2>1 DEF Grows
<1>8. S \subseteq f[m] /\ f[m] \subseteq V /\ Closed(R, f[m])
  <2>1. Closed(R, DocIds)
    BY <1>1 DEF Closed
  <2>2. S \subseteq f[m] /\ Closed(R, f[m])
    BY <1>1, <1>7, <2>1, GrowsClosed DEF m
  <2>3. m \in 0 .. m
    BY <1>1
  <2> QED BY <1>6, <2>2, <2>3
<1>9. ASSUME NEW T \in SUBSET DocIds, S \subseteq T,
             \A k \in T : Kids(copy, k, full) \subseteq T
      PROVE  f[m] \subseteq T
  <2>1. Closed(R, T)
    BY <1>1, <1>9 DEF Closed
  <2>2. m \in 0 .. m
    BY <1>1
  <2> QED BY <1>1, <1>7, <1>9, <2>1, <2>2, GrowsWithin, ZenonT(60)
<1> QED BY <1>1, <1>4, <1>8, <1>9 DEF Closed, S, R, V

\* What is above a parent is above.
LEMMA AboveParent ==
  ASSUME NEW copy \in [DocIds -> Doc], NEW d \in DocIds, NEW p \in Parents(copy, d) \cup Above(copy, d)
  PROVE  p \in DocIds /\ p \in Above(copy, d) /\ Above(copy, p) \subseteq Above(copy, d)
<1>1. p \in Above(copy, d) /\ Above(copy, d) \in SUBSET DocIds /\ p \in DocIds
  BY AboveIs, ParentsIs
<1>2. Parents(copy, p) \subseteq Above(copy, d)
  BY <1>1, AboveIs
<1>3. Closed(Up(copy), Above(copy, d))
  <2>1. \A q \in Above(copy, d) : Parents(copy, q) \subseteq Above(copy, d)
    BY AboveIs
  <2> QED BY <1>1, <2>1, ParentsIs DEF Closed
<1>4. Above(copy, p) \subseteq Above(copy, d)
  BY <1>1, <1>2, <1>3, AboveIs
<1> QED BY <1>1, <1>4

\* Where every document above d has a parent, one of them is on a cycle.
LEMMA CycleAbove ==
  ASSUME NEW copy \in [DocIds -> Doc], NEW d \in DocIds,
         Parents(copy, d) # {}, \A a \in Above(copy, d) : Parents(copy, a) # {}
  PROVE  \E a \in Above(copy, d) : a \in OnCycle(copy)
<1> DEFINE Bad == {Above(copy, a) : a \in Above(copy, d)}
<1>1. Above(copy, d) \in SUBSET DocIds /\ Above(copy, d) # {}
  BY AboveIs, ParentsIs
<1>2. \A a \in Above(copy, d) : a \in DocIds /\ Above(copy, a) \in SUBSET DocIds
  BY <1>1, AboveIs, ParentsIs
<1>3. PICK T \in Bad : \A U \in Bad : U \subseteq T => U = T
  <2>1. Bad \in SUBSET SUBSET DocIds /\ Bad # {}
    BY <1>1, <1>2
  <2> HIDE DEF Bad
  <2>2. IsFiniteSet(DocIds)
    BY PorcelainConstants
  <2> QED BY ONLY <2>1, <2>2, SmallestSubset
<1>4. PICK a \in Above(copy, d) : T = Above(copy, a)
  BY <1>3
<1>5. PICK p \in Parents(copy, a) : TRUE
  OBVIOUS
<1>6. p \in Above(copy, a) /\ Above(copy, p) \subseteq Above(copy, a) /\ p \in DocIds
  BY <1>2, <1>5, AboveParent
<1>7. p \in Above(copy, d)
  BY <1>5, AboveIs
<1>8. Above(copy, p) = Above(copy, a)
  BY <1>3, <1>4, <1>6, <1>7
<1>9. p \in Present(copy)
  BY <1>2, <1>5, ParentsIs
<1>10. p \in OnCycle(copy)
  BY <1>6, <1>8, <1>9 DEF OnCycle
<1> QED BY <1>7, <1>10

\* What a document counts is its children and what these count.
LEMMA CountsAgree ==
  ASSUME NEW copy \in [DocIds -> Doc], NEW d \in DocIds, NEW full \in BOOLEAN
  PROVE  Descendants(copy, d, full) =
           Kids(copy, d, full)
             \cup UNION {Descendants(copy, k, full) : k \in Kids(copy, d, full)}
<1> DEFINE K(e) == Kids(copy, e, full)
           D(e) == Descendants(copy, e, full)
           all == K(d) \cup UNION {D(k) : k \in K(d)}
<1>1. \A e \in DocIds : K(e) \in SUBSET DocIds
  <2>1. /\ Visible(copy, full) \in SUBSET DocIds
        /\ \A e \in DocIds : K(e) \in SUBSET Visible(copy, full)
    BY KidsIs
  <2> QED BY <2>1
<1>2. ASSUME NEW e \in DocIds
      PROVE  /\ D(e) \in SUBSET DocIds /\ K(e) \subseteq D(e)
             /\ \A k \in D(e) : K(k) \subseteq D(e)
             /\ \A T \in SUBSET DocIds :
                  K(e) \subseteq T /\ (\A k \in T : K(k) \subseteq T) => D(e) \subseteq T
  <2>1. Visible(copy, full) \in SUBSET DocIds
    BY KidsIs
  <2> QED BY <2>1, DescendantsIs
<1> HIDE DEF K, D
<1>3. all \subseteq D(d)
  <2>1. ASSUME NEW k \in K(d) PROVE D(k) \subseteq D(d)
    <3>1. k \in DocIds /\ k \in D(d) /\ K(k) \subseteq D(d)
      BY <1>1, <1>2
    <3> QED BY <1>2, <3>1
  <2> QED BY <1>2, <2>1
<1>4. D(d) \subseteq all
  <2>1. all \in SUBSET DocIds
    BY <1>1, <1>2
  <2>2. ASSUME NEW k \in all PROVE K(k) \subseteq all
    <3>1. CASE k \in K(d)
      BY <1>1, <1>2, <3>1
    <3>2. ASSUME NEW j \in K(d), k \in D(j) PROVE K(k) \subseteq all
      BY <1>1, <1>2, <3>2
    <3> QED BY <2>2, <3>1, <3>2
  <2>3. K(d) \subseteq all
    OBVIOUS
  <2> HIDE DEF all
  <2> QED BY <1>2, <2>1, <2>2, <2>3
<1> QED BY <1>3, <1>4 DEF K, D

LEMMA MapIsRight ==
  ASSUME NEW copy \in [DocIds -> Doc], NEW full \in BOOLEAN
  PROVE  MapRight(copy, full)
<1> DEFINE V == Visible(copy, full)
           roots == Roots(copy, full)
           posts == Signposts(copy, full)
           listed == roots \cup UNION {Kids(copy, d, full) : d \in posts}
           shown == listed \cup UNION {Descendants(copy, d, full) : d \in posts}
           hung == V \ shown
<1>1. /\ V \in SUBSET DocIds /\ V \subseteq Present(copy)
      /\ roots = {d \in V : Parents(copy, d) = {}}
      /\ posts = {d \in roots : Kids(copy, d, full) # {}}
  BY KidsIs DEF Roots, Signposts
<1> HIDE DEF V, roots, posts
<1>2. \A d \in posts : d \in DocIds
  BY <1>1
<1>0. \A d \in posts : Kids(copy, d, full) \subseteq Descendants(copy, d, full)
  BY <1>2, DescendantsIs
<1>3. shown \subseteq V
  <2>1. \A d \in posts : Descendants(copy, d, full) \subseteq V
    BY <1>2, DescendantsIs DEF V
  <2> QED BY <1>0, <1>1, <2>1
<1>4. ASSUME NEW d \in V, NEW p \in Parents(copy, d), p \in V, p \in shown
      PROVE  d \in shown
  <2>1. d \in Kids(copy, p, full)
    BY <1>1, <1>4, KidsIs DEF V
  <2>2. CASE p \in roots
    <3>1. p \in posts
      BY <1>1, <2>1, <2>2
    <3>2. d \in Descendants(copy, p, full)
      BY <1>2, <2>1, <3>1, DescendantsIs
    <3> QED BY <3>1, <3>2
  <2>3. ASSUME NEW r \in posts, p \in Descendants(copy, r, full) PROVE d \in shown
    <3>1. d \in Descendants(copy, r, full)
      BY <1>2, <2>1, <2>3, DescendantsIs
    <3> QED BY <3>1
  <2>4. ASSUME NEW r \in posts, p \in Kids(copy, r, full) PROVE d \in shown
    BY <1>0, <2>3, <2>4
  <2> QED BY <1>4, <2>2, <2>3, <2>4
<1> HIDE DEF shown
<1>5. ASSUME NEW d \in hung
      PROVE  /\ d \in DocIds /\ Parents(copy, d) # {}
             /\ Parents(copy, d) \cap V \subseteq hung
  <2>1. d \in V /\ d \notin shown /\ d \in DocIds
    BY <1>1
  <2>2. d \notin roots
    BY <2>1 DEF shown
  <2> QED BY <1>1, <1>4, <2>1, <2>2
<1>6. ASSUME NEW d \in hung
      PROVE  \E a \in Above(copy, d) : a \in OnCycle(copy) \/ a \notin V
  <2> SUFFICES ASSUME \A a \in Above(copy, d) : a \in V
               PROVE  \E a \in Above(copy, d) : a \in OnCycle(copy)
    OBVIOUS
  <2>1. d \in DocIds /\ Above(copy, d) \in SUBSET DocIds
    BY <1>5, AboveIs, ParentsIs
  <2> DEFINE T == Above(copy, d) \cap hung
  <2>2. Parents(copy, d) \subseteq T
    BY <1>5, <2>1, AboveIs
  <2>3. \A a \in T : Parents(copy, a) \subseteq T
    BY <1>5, <2>1, AboveIs
  <2>4. T \in SUBSET DocIds /\ Closed(Up(copy), T)
    BY <2>1, <2>3, ParentsIs DEF Closed
  <2>5. Above(copy, d) \subseteq T
    <3> HIDE DEF T
    <3> QED BY <2>1, <2>2, <2>4, AboveIs
  <2>6. \A a \in Above(copy, d) : Parents(copy, a) # {}
    BY <1>5, <2>5
  <2> QED BY <1>5, <2>1, <2>6, CycleAbove
<1>7. Orphans(copy, full) \subseteq Floating(copy, full)
  <2>1. \A d : Children(copy, d) = {} => Kids(copy, d, full) = {}
    BY DEF Kids
  <2> QED BY <1>1, <2>1 DEF Orphans, Floating, V, roots, posts
<1>8. ASSUME NEW d \in Floating(copy, full) \ Orphans(copy, full)
      PROVE  \E k \in Children(copy, d) : Archived(copy[k])
  <2>1. d \in V /\ Parents(copy, d) = {} /\ Kids(copy, d, full) = {}
    BY <1>1 DEF Floating, roots, posts
  <2>2. Children(copy, d) # {}
    BY <2>1 DEF Orphans, V
  <2>3. \A k \in Children(copy, d) : k \in Present(copy) /\ k \notin V
    BY <2>1 DEF Kids, Children, V
  <2> QED BY <2>2, <2>3 DEF Visible, V
<1>9. \A d \in posts : Descendants(copy, d, full) =
        Kids(copy, d, full)
          \cup UNION {Descendants(copy, k, full) : k \in Kids(copy, d, full)}
  BY <1>2, CountsAgree
<1> QED BY <1>3, <1>5, <1>6, <1>7, <1>8, <1>9
        DEF MapRight, Listed, Counted, V, roots, posts, shown

\* The map lists or counts every document shown, but for what hangs below what
\* is not shown, and what a signpost counts is what its children count.
THEOREM MapCountsAllHolds == Spec => []MapCountsAll
<1>1. TypeOK => MapCountsAll
  BY CopyType, MapIsRight DEF TypeOK, MapCountsAll
<1> QED BY <1>1, TypeOKHolds, PTL

-----------------------------------------------------------------------------
(* The search for cycles.  The state of the search, part by part: the path *)
(* it is on, the parents left to follow, the documents done with, and the  *)
(* cycles found.                                                           *)

LEMMA AboveVia ==
  ASSUME NEW copy \in [DocIds -> Doc], NEW d \in DocIds, NEW a \in Above(copy, d)
  PROVE  \E x \in Parents(copy, d) : a = x \/ a \in Above(copy, x)
<1> DEFINE T == Parents(copy, d) \cup UNION {Above(copy, x) : x \in Parents(copy, d)}
<1>1. /\ \A x \in Parents(copy, d) : x \in DocIds /\ Above(copy, x) \in SUBSET DocIds
      /\ Parents(copy, d) \in SUBSET DocIds
  BY AboveIs, ParentsIs
<1>2. T \in SUBSET DocIds /\ Parents(copy, d) \subseteq T
  BY <1>1
<1>3. ASSUME NEW k \in T PROVE Parents(copy, k) \subseteq T
  <2>1. CASE k \in Parents(copy, d)
    BY <1>1, <2>1, AboveIs
  <2>2. ASSUME NEW x \in Parents(copy, d), k \in Above(copy, x)
        PROVE  Parents(copy, k) \subseteq T
    BY <1>1, <2>2, AboveIs
  <2> QED BY <2>1, <2>2
<1>4. Closed(Up(copy), T)
  BY <1>2, <1>3, ParentsIs DEF Closed
<1>5. Above(copy, d) \subseteq T
  <2> HIDE DEF T
  <2> QED BY <1>2, <1>4, AboveIs
<1> QED BY <1>5

After1(c, i) == IF i = Len(c) THEN 1 ELSE i + 1

\* c goes up by parents, from each document to the next and round.
Cycle(copy, c) ==
  /\ c \in Seq(Present(copy)) /\ Len(c) # 0
  /\ \A i \in 1 .. Len(c) : c[After1(c, i)] \in Parents(copy, c[i])

LEMMA CycleMutual ==
  ASSUME NEW copy \in [DocIds -> Doc], NEW c, Cycle(copy, c), NEW i \in 1 .. Len(c)
  PROVE  \A j \in 1 .. Len(c) : c[j] \in Above(copy, c[i])
<1> DEFINE n == Len(c)
           T == Above(copy, c[i])
<1>1. n \in Nat /\ n # 0 /\ \A j \in 1 .. n : c[j] \in DocIds
  BY ParentsIs DEF Cycle
<1>2. \A j \in 1 .. n : c[After1(c, j)] \in Parents(copy, c[j])
  BY DEF Cycle
<1>3. c[After1(c, i)] \in T
  BY <1>1, <1>2, AboveIs
<1>4. \A j \in 1 .. n : c[j] \in T => c[After1(c, j)] \in T
  BY <1>1, <1>2, AboveIs
<1> HIDE DEF n, T
\* From a place where it holds, it holds all the way up.
<1>5. ASSUME NEW a \in 1 .. n, c[a] \in T PROVE \A j \in a .. n : c[j] \in T
  <2> DEFINE Bad == {j \in a .. n : c[j] \notin T}
  <2> SUFFICES ASSUME Bad # {} PROVE FALSE
    OBVIOUS
  <2>1. PICK j \in Bad : \A k \in Bad : j <= k
    <3>1. Bad \in SUBSET Nat
      BY <1>1
    <3> HIDE DEF Bad
    <3> QED BY <3>1, LeastBad
  <2>2. j # a
    BY <1>5, <2>1
  <2>3. j - 1 \in a .. n /\ j - 1 \in 1 .. n /\ j - 1 \notin Bad /\ j - 1 # n
    BY <1>1, <2>1, <2>2
  <2>4. After1(c, j - 1) = j
    BY <1>1, <2>1, <2>3 DEF After1, n
  <2> QED BY <1>4, <2>1, <2>3, <2>4
<1>6. i \in 1 .. n /\ n \in 1 .. n /\ 1 \in 1 .. n
  BY <1>1 DEF n
<1>7. c[n] \in T
  <2>1. CASE i = n
    <3>1. c[1] \in T
      BY <1>3, <2>1 DEF After1, n
    <3> QED BY <1>1, <1>5, <1>6, <3>1
  <2>2. CASE i # n
    <3>1. c[i + 1] \in T /\ i + 1 \in 1 .. n
      BY <1>1, <1>3, <1>6, <2>2 DEF After1, n
    <3> QED BY <1>1, <1>5, <3>1
  <2> QED BY <2>1, <2>2
<1>8. c[1] \in T
  BY <1>4, <1>6, <1>7 DEF After1, n
<1>9. \A j \in 1 .. n : c[j] \in T
  BY <1>1, <1>5, <1>6, <1>8
<1> QED BY <1>9 DEF n, T

\* One of the cycles found is of documents above and below v.
Told(copy, found, v) ==
  \E c \in found : \A x \in ToSet(c) : x \in Above(copy, v) /\ v \in Above(copy, x)

LEMMA ToldOnIt ==
  ASSUME NEW copy \in [DocIds -> Doc], NEW found, NEW c \in found, Cycle(copy, c),
         NEW v \in ToSet(c)
  PROVE  Told(copy, found, v)
<1>1. ToSet(c) = {c[j] : j \in 1 .. Len(c)}
  BY DEF Cycle, ToSet
<1>2. PICK i \in 1 .. Len(c) : v = c[i]
  BY <1>1
<1>3. \A j \in 1 .. Len(c) : c[j] \in Above(copy, c[i]) /\ c[i] \in Above(copy, c[j])
  BY CycleMutual
<1> QED BY <1>1, <1>2, <1>3 DEF Told

LEMMA ToldFrom ==
  ASSUME NEW copy \in [DocIds -> Doc], NEW found, NEW v \in DocIds, NEW x \in DocIds,
         x \in Above(copy, v), v \in Above(copy, x), Told(copy, found, x)
  PROVE  Told(copy, found, v)
<1>1. PICK c \in found : \A y \in ToSet(c) : y \in Above(copy, x) /\ x \in Above(copy, y)
  BY DEF Told
<1>2. Above(copy, x) \subseteq Above(copy, v)
  BY AboveParent
<1>3. Above(copy, x) \in SUBSET DocIds
  BY AboveIs, ParentsIs
<1>4. \A y \in ToSet(c) : Above(copy, x) \subseteq Above(copy, y)
  BY <1>1, <1>3, AboveParent
<1> QED BY <1>1, <1>2, <1>4 DEF Told
On(path, x) == \E i \in 1 .. Len(path) : path[i] = x

Parts(copy, path, left, black, found) ==
  /\ path \in Seq(Present(copy)) /\ left \in [DocIds -> SUBSET DocIds]
  /\ black \in SUBSET Present(copy) /\ found \in SUBSET Seq(Present(copy))

\* The path goes up by parents, through documents not done with, each once;
\* only what is on it or done with has been followed from.
Walked(copy, path, left, black) ==
  /\ \A d \in DocIds : left[d] \subseteq Parents(copy, d)
  /\ \A i \in 1 .. Len(path) : path[i] \notin black
  /\ \A i, j \in 1 .. Len(path) : path[i] = path[j] => i = j
  /\ \A i \in 1 .. Len(path) - 1 : path[i + 1] \in Parents(copy, path[i])
  /\ \A d \in Present(copy) \ black : On(path, d) \/ left[d] = Parents(copy, d)

\* A parent that was followed is done with, or is next on the path, or closed
\* a cycle.
Followed(copy, path, left, black, found) ==
  \A i \in 1 .. Len(path) : \A x \in Parents(copy, path[i]) \ left[path[i]] :
    \/ x \in black
    \/ Told(copy, found, path[i])
    \/ i < Len(path) /\ path[i + 1] = x

\* For what is done with, a cycle is found if there is one to find.
ToldOf(copy, black, found) ==
  \A v \in black : v \in Above(copy, v) => Told(copy, found, v)

Good(copy, path, left, black, found) ==
  /\ Parts(copy, path, left, black, found) /\ Walked(copy, path, left, black)
  /\ Followed(copy, path, left, black, found)
  /\ ToldOf(copy, black, found) /\ \A c \in found : Cycle(copy, c)

LEMMA ToldMore ==
  ASSUME NEW copy, NEW found, NEW more, found \subseteq more, NEW v, Told(copy, found, v)
  PROVE  Told(copy, more, v)
BY DEF Told

\* The document on top is done with.
LEMMA PopGood ==
  ASSUME NEW copy \in [DocIds -> Doc], NEW path, NEW left, NEW black, NEW found,
         Good(copy, path, left, black, found), NEW n \in Nat, n = Len(path), n # 0,
         left[path[n]] = {},
         NEW path2 \in Seq(Present(copy)), Len(path2) = n - 1, \A i \in 1 .. n - 1 : path2[i] = path[i]
  PROVE  Good(copy, path2, left, black \cup {path[n]}, found)
<1> DEFINE d == path[n]
           black2 == black \cup {d}
<1>1. /\ Parts(copy, path, left, black, found) /\ Walked(copy, path, left, black)
      /\ Followed(copy, path, left, black, found)
      /\ ToldOf(copy, black, found) /\ \A c \in found : Cycle(copy, c)
  BY DEF Good
<1>2. n \in 1 .. n /\ 1 .. Len(path2) = 1 .. n - 1 /\ 1 .. Len(path) = 1 .. n
  OBVIOUS
<1>3. d \in Present(copy) /\ d \in DocIds /\ d \notin black
  BY <1>1, <1>2, ParentsIs DEF Parts, Walked
<1>4. Parts(copy, path2, left, black2, found)
  BY <1>1, <1>3 DEF Parts
<1>5. Walked(copy, path2, left, black2)
  <2>1. \A e \in DocIds : left[e] \subseteq Parents(copy, e)
    BY <1>1 DEF Walked
  <2>2. \A i \in 1 .. n - 1 : path2[i] \notin black2
    <3>1. \A i \in 1 .. n : path[i] \notin black
      BY <1>1, <1>2 DEF Walked
    <3>2. \A i \in 1 .. n - 1 : i \in 1 .. n /\ path[i] # path[n]
      <4>1. \A i \in 1 .. n - 1 : i \in 1 .. n /\ i # n
        OBVIOUS
      <4> QED BY <1>1, <1>2, <4>1 DEF Walked
    <3> QED BY <3>1, <3>2
  <2>3. \A i, j \in 1 .. n - 1 : path2[i] = path2[j] => i = j
    <3>1. \A i \in 1 .. n - 1 : i \in 1 .. n
      OBVIOUS
    <3> QED BY <1>1, <1>2, <3>1 DEF Walked
  <2>4. \A i \in 1 .. (n - 1) - 1 : path2[i + 1] \in Parents(copy, path2[i])
    <3>1. \A i \in 1 .. (n - 1) - 1 : i \in 1 .. n - 1 /\ i + 1 \in 1 .. n - 1
      OBVIOUS
    <3> QED BY <1>1, <1>2, <3>1 DEF Walked
  <2>5. \A e \in Present(copy) \ black2 : On(path2, e) \/ left[e] = Parents(copy, e)
    <3>1. \A i \in 1 .. n : i \in 1 .. n - 1 \/ i = n
      OBVIOUS
    <3>2. ASSUME NEW e \in Present(copy) \ black2 PROVE On(path, e) => On(path2, e)
      BY <1>2, <3>1, <3>2 DEF On
    <3> QED BY <1>1, <3>2 DEF Walked
  <2> QED BY <1>2, <2>1, <2>2, <2>3, <2>4, <2>5 DEF Walked
<1>6. Followed(copy, path2, left, black2, found)
  <2> SUFFICES ASSUME NEW i \in 1 .. n - 1, NEW x \in Parents(copy, path2[i]) \ left[path2[i]]
               PROVE  \/ x \in black2 \/ Told(copy, found, path2[i])
                      \/ i < n - 1 /\ path2[i + 1] = x
    BY <1>2 DEF Followed
  <2>1. i \in 1 .. n /\ path2[i] = path[i]
    OBVIOUS
  <2>2. \/ x \in black \/ Told(copy, found, path[i]) \/ (i < n /\ path[i + 1] = x)
    BY <1>1, <1>2, <2>1 DEF Followed
  <2>3. i + 1 = n \/ i + 1 \in 1 .. n - 1
    OBVIOUS
  <2>4. i + 1 \in 1 .. n - 1 => i < n - 1
    OBVIOUS
  <2> QED BY <2>1, <2>2, <2>3, <2>4
<1>7. ToldOf(copy, black2, found)
  <2> SUFFICES ASSUME d \in Above(copy, d), ~Told(copy, found, d) PROVE FALSE
    BY <1>1 DEF ToldOf
  <2>1. PICK x \in Parents(copy, d) : d = x \/ d \in Above(copy, x)
    BY <1>3, AboveVia
  <2>2. x \in black
    <3>1. x \in black \/ Told(copy, found, path[n]) \/ (n < n /\ path[n + 1] = x)
      BY <1>1, <1>2, <2>1 DEF Followed
    <3> QED BY <3>1
  <2>3. d \in Above(copy, x) /\ x \in DocIds
    BY <1>3, <2>1, <2>2, ParentsIs
  <2>4. x \in Above(copy, d)
    BY <1>3, <2>1, AboveParent
  <2>5. x \in Above(copy, x)
    BY <2>3, <2>4, AboveParent
  <2>6. Told(copy, found, x)
    BY <1>1, <2>2, <2>5 DEF ToldOf
  <2> QED BY <1>3, <2>3, <2>4, <2>6, ToldFrom
<1> QED BY <1>1, <1>4, <1>5, <1>6, <1>7 DEF Good

\* A parent is followed that is done with, or that closes a cycle.
LEMMA EdgeGood ==
  ASSUME NEW copy \in [DocIds -> Doc], NEW path, NEW left, NEW black, NEW found,
         Good(copy, path, left, black, found), NEW n \in Nat, n = Len(path), n # 0,
         NEW x \in left[path[n]],
         NEW left2 \in [DocIds -> SUBSET DocIds], left2[path[n]] = left[path[n]] \ {x},
         \A e \in DocIds \ {path[n]} : left2[e] = left[e],
         NEW found2 \in SUBSET Seq(Present(copy)), found \subseteq found2,
         \A c \in found2 : Cycle(copy, c),
         x \in black \/ Told(copy, found2, path[n])
  PROVE  Good(copy, path, left2, black, found2)
<1>1. /\ Parts(copy, path, left, black, found) /\ Walked(copy, path, left, black)
      /\ Followed(copy, path, left, black, found) /\ ToldOf(copy, black, found)
  BY DEF Good
<1>2. n \in 1 .. n /\ 1 .. Len(path) = 1 .. n
  OBVIOUS
<1>3. \A i \in 1 .. n : path[i] \in DocIds
  BY <1>1, ParentsIs DEF Parts
<1>4. Parts(copy, path, left2, black, found2)
  BY <1>1 DEF Parts
<1>5. Walked(copy, path, left2, black)
  <2>1. \A e \in DocIds : left2[e] \subseteq left[e]
    OBVIOUS
  <2>2. On(path, path[n])
    BY <1>2 DEF On
  <2>3. \A e \in Present(copy) : e \in DocIds
    BY ParentsIs
  <2>4. \A e \in Present(copy) \ black : On(path, e) \/ left2[e] = Parents(copy, e)
    BY <1>1, <2>2, <2>3 DEF Walked
  <2>5. \A e \in DocIds : left2[e] \subseteq Parents(copy, e)
    BY <1>1, <2>1 DEF Walked
  <2> QED BY <1>1, <2>4, <2>5 DEF Walked
<1>6. Followed(copy, path, left2, black, found2)
  <2> SUFFICES ASSUME NEW i \in 1 .. n, NEW y \in Parents(copy, path[i]) \ left2[path[i]]
               PROVE  \/ y \in black \/ Told(copy, found2, path[i])
                      \/ i < n /\ path[i + 1] = y
    BY <1>2 DEF Followed
  <2>1. CASE y \notin left[path[i]]
    <3>1. \/ y \in black \/ Told(copy, found, path[i]) \/ (i < n /\ path[i + 1] = y)
      BY <1>1, <1>2, <2>1 DEF Followed
    <3> QED BY <3>1, ToldMore
  <2>2. CASE y \in left[path[i]]
    <3>1. path[i] = path[n] /\ y = x
      BY <1>3, <2>2
    <3> QED BY <3>1
  <2> QED BY <2>1, <2>2
<1>7. ToldOf(copy, black, found2)
  BY <1>1, ToldMore DEF ToldOf
<1> QED BY <1>4, <1>5, <1>6, <1>7 DEF Good

\* A parent not met before is gone into.
LEMMA PushGood ==
  ASSUME NEW copy \in [DocIds -> Doc], NEW path, NEW left, NEW black, NEW found,
         Good(copy, path, left, black, found), NEW n \in Nat, n = Len(path), n # 0,
         NEW x \in left[path[n]], x \notin black, ~On(path, x),
         NEW left2 \in [DocIds -> SUBSET DocIds], left2[path[n]] = left[path[n]] \ {x},
         \A e \in DocIds \ {path[n]} : left2[e] = left[e],
         NEW path2 \in Seq(Present(copy)), Len(path2) = n + 1, path2[n + 1] = x,
         \A i \in 1 .. n : path2[i] = path[i]
  PROVE  Good(copy, path2, left2, black, found)
<1>1. /\ Parts(copy, path, left, black, found) /\ Walked(copy, path, left, black)
      /\ Followed(copy, path, left, black, found)
      /\ ToldOf(copy, black, found) /\ \A c \in found : Cycle(copy, c)
  BY DEF Good
<1>2. n \in 1 .. n /\ 1 .. Len(path) = 1 .. n /\ 1 .. Len(path2) = 1 .. n + 1
  OBVIOUS
<1>3. \A i \in 1 .. n : path[i] \in DocIds
  BY <1>1, ParentsIs DEF Parts
<1>4. Parts(copy, path2, left2, black, found)
  BY <1>1 DEF Parts
<1>5. x \in Parents(copy, path[n]) /\ x \in Present(copy) /\ x \in DocIds /\ x # path[n]
  BY <1>1, <1>2, <1>3, ParentsIs DEF Walked, On
<1>6. left2[x] = Parents(copy, x)
  BY <1>1, <1>5 DEF Walked
<1>7. \A i \in 1 .. n + 1 : i \in 1 .. n \/ i = n + 1
  OBVIOUS
<1>8. \A i \in 1 .. n : path[i] # x
  BY <1>2 DEF On
<1>9. Walked(copy, path2, left2, black)
  <2>1. \A e \in DocIds : left2[e] \subseteq Parents(copy, e)
    <3>1. \A e \in DocIds : left2[e] \subseteq left[e]
      OBVIOUS
    <3> QED BY <1>1, <3>1 DEF Walked
  <2>2. \A i \in 1 .. n + 1 : path2[i] \notin black
    BY <1>1, <1>2, <1>7 DEF Walked
  <2>3. \A i, j \in 1 .. n + 1 : path2[i] = path2[j] => i = j
    <3>1. \A i, j \in 1 .. n : path[i] = path[j] => i = j
      BY <1>1, <1>2 DEF Walked
    <3> QED BY <1>7, <1>8, <3>1
  <2>4. \A i \in 1 .. (n + 1) - 1 : path2[i + 1] \in Parents(copy, path2[i])
    <3>1. \A i \in 1 .. (n + 1) - 1 : i = n \/ (i \in 1 .. n - 1 /\ i + 1 \in 1 .. n)
      OBVIOUS
    <3>2. \A i \in 1 .. n - 1 : path[i + 1] \in Parents(copy, path[i]) /\ i \in 1 .. n
      BY <1>1, <1>2 DEF Walked
    <3>3. path2[n] = path[n]
      BY <1>2
    <3> QED BY <1>5, <3>1, <3>2, <3>3
  <2>5. \A e \in Present(copy) \ black : On(path2, e) \/ left2[e] = Parents(copy, e)
    <3>1. \A e \in Present(copy) \ black : On(path, e) \/ left[e] = Parents(copy, e)
      BY <1>1 DEF Walked
    <3>2. \A e : On(path, e) => On(path2, e)
      <4>1. \A i \in 1 .. n : i \in 1 .. n + 1
        OBVIOUS
      <4> QED BY <1>2, <4>1 DEF On
    <3>3. \A e \in Present(copy) : e \in DocIds
      BY ParentsIs
    <3>4. On(path2, path[n])
      BY <1>2, <3>2 DEF On
    <3> QED BY <3>1, <3>2, <3>3, <3>4
  <2> QED BY <1>2, <2>1, <2>2, <2>3, <2>4, <2>5 DEF Walked
<1>10. Followed(copy, path2, left2, black, found)
  <2> SUFFICES ASSUME NEW i \in 1 .. n + 1, NEW y \in Parents(copy, path2[i]) \ left2[path2[i]]
               PROVE  \/ y \in black \/ Told(copy, found, path2[i])
                      \/ i < n + 1 /\ path2[i + 1] = y
    BY <1>2 DEF Followed
  <2>1. i # n + 1
    BY <1>6
  <2>2. i \in 1 .. n /\ path2[i] = path[i] /\ i < n + 1 /\ (i < n => i + 1 \in 1 .. n)
    BY <2>1
  <2>3. CASE y \notin left[path[i]]
    <3>1. \/ y \in black \/ Told(copy, found, path[i]) \/ (i < n /\ path[i + 1] = y)
      BY <1>1, <1>2, <2>2, <2>3 DEF Followed
    <3> QED BY <2>2, <3>1
  <2>4. CASE y \in left[path[i]]
    <3>1. path[i] = path[n] /\ y = x
      BY <1>3, <2>2, <2>4
    <3>2. i = n
      BY <1>1, <1>2, <2>2, <3>1 DEF Walked
    <3> QED BY <2>2, <3>1, <3>2
  <2> QED BY <2>3, <2>4
<1> QED BY <1>1, <1>4, <1>9, <1>10 DEF Good

\* A search goes on from a document not met yet.
LEMMA RootGood ==
  ASSUME NEW copy \in [DocIds -> Doc], NEW path, NEW left, NEW black, NEW found,
         Good(copy, path, left, black, found), Len(path) = 0,
         NEW r \in Present(copy) \ black, NEW path2 \in Seq(Present(copy)),
         Len(path2) = 1, path2[1] = r
  PROVE  Good(copy, path2, left, black, found)
<1>1. /\ Parts(copy, path, left, black, found) /\ Walked(copy, path, left, black)
      /\ ToldOf(copy, black, found) /\ \A c \in found : Cycle(copy, c)
  BY DEF Good
<1>2. Parts(copy, path2, left, black, found)
  BY <1>1 DEF Parts
<1>3. \A e \in Present(copy) \ black : left[e] = Parents(copy, e)
  BY <1>1 DEF Walked, On
<1>4. \A i \in 1 .. 1 : i = 1
  OBVIOUS
<1>5. Walked(copy, path2, left, black)
  BY <1>1, <1>3, <1>4 DEF Walked
<1>6. Followed(copy, path2, left, black, found)
  BY <1>3, <1>4 DEF Followed
<1> QED BY <1>1, <1>2, <1>5, <1>6 DEF Good
LEMMA OnPath ==
  ASSUME NEW S, NEW path \in Seq(S), NEW x
  PROVE  x \in ToSet(path) <=> On(path, x)
BY DEF ToSet, On

\* From a document on the path to the top of it: a cycle, if that one's parent
\* it is.
LEMMA CycleAtIs ==
  ASSUME NEW copy \in [DocIds -> Doc], NEW path \in Seq(Present(copy)),
         NEW n \in Nat, n = Len(path), n # 0,
         \A i \in 1 .. n - 1 : path[i + 1] \in Parents(copy, path[i]),
         NEW x \in Parents(copy, path[n]), On(path, x)
  PROVE  Cycle(copy, CycleAt(path, x)) /\ path[n] \in ToSet(CycleAt(path, x))
<1> DEFINE k == CHOOSE i \in DOMAIN path : path[i] = x
           c == SubSeq(path, k, n)
<1>1. k \in 1 .. n /\ path[k] = x
  BY DEF On
<1>2. CycleAt(path, x) = c
  BY DEF CycleAt
<1> HIDE DEF k
<1>3. k \in Int /\ n \in Int /\ \A i \in k .. n : path[i] \in Present(copy)
  BY <1>1
<1>4. /\ c \in Seq(Present(copy)) /\ Len(c) = IF k <= n THEN n - k + 1 ELSE 0
      /\ \A i \in 1 .. n - k + 1 : c[i] = path[k + i - 1]
  BY <1>3, SubSeqProperties
<1> HIDE DEF c
<1> DEFINE m == n - k + 1
<1>5. m \in Nat /\ m # 0 /\ Len(c) = m /\ m \in 1 .. m /\ 1 \in 1 .. m
  BY <1>1, <1>4
<1>6. c[m] = path[n] /\ c[1] = x
  <2>1. k + m - 1 = n /\ k + 1 - 1 = k
    BY <1>1
  <2> QED BY <1>1, <1>4, <1>5, <2>1
<1>7. ASSUME NEW i \in 1 .. m PROVE c[After1(c, i)] \in Parents(copy, c[i])
  <2>1. CASE i = m
    BY <1>5, <1>6, <2>1 DEF After1
  <2>2. CASE i # m
    <3>0. k \in Nat /\ k >= 1 /\ i \in Nat /\ i >= 1 /\ i < n - k + 1
      BY ONLY <1>1, <2>2, n \in Nat, i \in 1 .. m DEF m
    <3>1. i + 1 \in 1 .. m /\ k + i - 1 \in 1 .. n - 1 /\ k + (i + 1) - 1 = (k + i - 1) + 1
      BY ONLY <3>0, n \in Nat
    <3>2. c[i + 1] = path[(k + i - 1) + 1] /\ c[i] = path[k + i - 1]
      BY <1>4, <3>1
    <3>3. After1(c, i) = i + 1
      BY <1>5, <2>2 DEF After1
    <3> QED BY <3>1, <3>2, <3>3
  <2> QED BY <2>1, <2>2
<1>8. Cycle(copy, c)
  BY <1>4, <1>5, <1>7 DEF Cycle
<1>9. path[n] \in ToSet(c)
  BY <1>4, <1>5, <1>6 DEF ToSet
<1> QED BY <1>2, <1>8, <1>9

LEMMA ReportedIs ==
  ASSUME NEW copy, NEW found, NEW c,
         \A e \in found : Cycle(copy, e), Cycle(copy, c)
  PROVE  /\ found \subseteq Reported(found, c) /\ \A e \in Reported(found, c) : Cycle(copy, e)
         /\ \E e \in Reported(found, c) : ToSet(e) = ToSet(c)
         /\ found \subseteq Seq(Present(copy)) => Reported(found, c) \subseteq Seq(Present(copy))
<1>1. CASE \E e \in found : ToSet(e) = ToSet(c)
  BY <1>1 DEF Reported
<1>2. CASE ~ \E e \in found : ToSet(e) = ToSet(c)
  <2>1. Reported(found, c) = found \cup {c}
    BY <1>2 DEF Reported
  <2>2. c \in Seq(Present(copy))
    BY DEF Cycle
  <2> QED BY <2>1, <2>2
<1> QED BY <1>1, <1>2

SearchState(copy) ==
  [path : Seq(Present(copy)), left : [DocIds -> SUBSET DocIds],
   black : SUBSET Present(copy), found : SUBSET Seq(Present(copy))]

\* s is the search with these parts.
Has(s, path, left, black, found) ==
  s \in [path : {path}, left : {left}, black : {black}, found : {found}]

\* One more parent followed from d.
Less(left, d) == [left EXCEPT ![d] = left[d] \ {Max(left[d])}]

LEMMA FollowIs ==
  ASSUME NEW A, NEW B, NEW C, NEW D, NEW s \in [path : A, left : B, black : C, found : D], NEW x
  PROVE  /\ x \in ToSet(s.path) /\ x \notin s.black =>
              Has(Follow(s, x), s.path, s.left, s.black, Reported(s.found, CycleAt(s.path, x)))
         /\ x \notin ToSet(s.path) /\ x \in s.black =>
              Has(Follow(s, x), s.path, s.left, s.black, s.found)
         /\ x \notin ToSet(s.path) /\ x \notin s.black =>
              Has(Follow(s, x), Append(s.path, x), s.left, s.black, s.found)
<1>1. CASE x \in ToSet(s.path) /\ x \notin s.black
  <2>1. Follow(s, x) = [s EXCEPT !.found = Reported(s.found, CycleAt(s.path, x))]
    BY <1>1 DEF Follow
  <2> QED BY <1>1, <2>1 DEF Has
<1>2. CASE x \notin ToSet(s.path) /\ x \in s.black
  <2>1. Follow(s, x) = s
    BY <1>2 DEF Follow
  <2> QED BY <1>2, <2>1 DEF Has
<1>3. CASE x \notin ToSet(s.path) /\ x \notin s.black
  <2>1. Follow(s, x) = [s EXCEPT !.path = Append(s.path, x)]
    BY <1>3 DEF Follow
  <2> QED BY <1>3, <2>1 DEF Has
<1> QED BY <1>1, <1>2, <1>3

LEMMA TurnIs ==
  ASSUME NEW copy \in [DocIds -> Doc], NEW s \in SearchState(copy), s.path # <<>>
  PROVE  LET d == s.path[Len(s.path)]
             x == Max(s.left[d]) IN
         /\ s.left[d] = {} =>
              Has(Turn(s), Front(s.path), s.left, s.black \cup {d}, s.found)
         /\ s.left[d] # {} /\ x \in ToSet(s.path) /\ x \notin s.black =>
              Has(Turn(s), s.path, Less(s.left, d), s.black,
                  Reported(s.found, CycleAt(s.path, x)))
         /\ s.left[d] # {} /\ x \notin ToSet(s.path) /\ x \in s.black =>
              Has(Turn(s), s.path, Less(s.left, d), s.black, s.found)
         /\ s.left[d] # {} /\ x \notin ToSet(s.path) /\ x \notin s.black =>
              Has(Turn(s), Append(s.path, x), Less(s.left, d), s.black, s.found)
<1> DEFINE d == s.path[Len(s.path)]
           x == Max(s.left[d])
           t == [s EXCEPT !.left[d] = @ \ {x}]
<1>1. Last(s.path) = d
  BY DEF Last
<1>2. t.path = s.path /\ t.left = Less(s.left, d) /\ t.black = s.black /\ t.found = s.found
  BY DEF Less, SearchState
<1>3. t \in [path : {s.path}, left : {Less(s.left, d)}, black : {s.black}, found : {s.found}]
  BY DEF Less, SearchState
<1>4. CASE s.left[d] = {}
  <2>1. Turn(s) = [s EXCEPT !.path = Front(@), !.black = @ \cup {d}]
    BY <1>1, <1>4 DEF Turn
  <2> QED BY <1>4, <2>1 DEF Has, SearchState
<1>5. CASE s.left[d] # {}
  <2>1. Turn(s) = Follow(t, x)
    BY <1>1, <1>5 DEF Turn
  <2> HIDE DEF t, x
  <2>2. /\ x \in ToSet(t.path) /\ x \notin t.black =>
             Has(Follow(t, x), t.path, t.left, t.black, Reported(t.found, CycleAt(t.path, x)))
        /\ x \notin ToSet(t.path) /\ x \in t.black =>
             Has(Follow(t, x), t.path, t.left, t.black, t.found)
        /\ x \notin ToSet(t.path) /\ x \notin t.black =>
             Has(Follow(t, x), Append(t.path, x), t.left, t.black, t.found)
    BY <1>3, FollowIs
  <2> QED BY <1>2, <1>5, <2>1, <2>2 DEF x
<1> QED BY <1>4, <1>5
LEMMA PartsHad ==
  ASSUME NEW copy, NEW s, NEW path, NEW left, NEW black, NEW found, Has(s, path, left, black, found)
  PROVE  /\ s.path = path /\ s.left = left /\ s.black = black /\ s.found = found
         /\ Parts(copy, path, left, black, found) => s \in SearchState(copy)
BY DEF Has, Parts, SearchState

LEMMA PartsOf ==
  ASSUME NEW copy, NEW s \in SearchState(copy)
  PROVE  Parts(copy, s.path, s.left, s.black, s.found)
BY DEF Parts, SearchState

\* What the search has left to do: edges to follow, documents to meet, and
\* documents on the path to be done with.
EdgesLeft(left) == {e \in DocIds \X DocIds : e[2] \in left[e[1]]}
White(copy, path, black) == {d \in Present(copy) \ black : ~On(path, d)}

LEMMA ToDoFinite ==
  ASSUME NEW copy \in [DocIds -> Doc], NEW path, NEW left, NEW black
  PROVE  /\ IsFiniteSet(EdgesLeft(left)) /\ Cardinality(EdgesLeft(left)) \in Nat
         /\ IsFiniteSet(White(copy, path, black)) /\ Cardinality(White(copy, path, black)) \in Nat
         /\ Cardinality(EdgesLeft(left)) <= Cardinality(DocIds) * Cardinality(DocIds)
         /\ Cardinality(White(copy, path, black)) <= Cardinality(DocIds)
         /\ Cardinality(DocIds) \in Nat
<1>1. IsFiniteSet(DocIds) /\ Cardinality(DocIds) \in Nat
  BY PorcelainConstants, FS_CardinalityType
<1>2. IsFiniteSet(DocIds \X DocIds)
      /\ Cardinality(DocIds \X DocIds) = Cardinality(DocIds) * Cardinality(DocIds)
  BY <1>1, FS_Product
<1>3. EdgesLeft(left) \in SUBSET (DocIds \X DocIds)
  BY DEF EdgesLeft
<1>4. White(copy, path, black) \in SUBSET DocIds
  BY ParentsIs DEF White
<1>5. /\ IsFiniteSet(EdgesLeft(left))
      /\ Cardinality(EdgesLeft(left)) <= Cardinality(DocIds \X DocIds)
  BY <1>2, <1>3, FS_Subset
<1>6. IsFiniteSet(White(copy, path, black)) /\ Cardinality(White(copy, path, black)) <= Cardinality(DocIds)
  BY <1>1, <1>4, FS_Subset
<1>7. Cardinality(EdgesLeft(left)) \in Nat /\ Cardinality(White(copy, path, black)) \in Nat
  BY <1>5, <1>6, FS_CardinalityType
<1> QED BY <1>1, <1>2, <1>5, <1>6, <1>7

LEMMA EdgesLess ==
  ASSUME NEW copy \in [DocIds -> Doc], NEW left \in [DocIds -> SUBSET DocIds], NEW d \in DocIds,
         NEW x \in left[d],
         NEW left2 \in [DocIds -> SUBSET DocIds], left2[d] = left[d] \ {x},
         \A e \in DocIds \ {d} : left2[e] = left[e]
  PROVE  Cardinality(EdgesLeft(left2)) = Cardinality(EdgesLeft(left)) - 1
<1>1. x \in DocIds
  OBVIOUS
<1>2. \A a, b \in DocIds : b \in left2[a] <=> b \in left[a] /\ <<a, b>> # <<d, x>>
  OBVIOUS
<1>3. EdgesLeft(left2) = EdgesLeft(left) \ {<<d, x>>}
  BY <1>1, <1>2 DEF EdgesLeft
<1>4. <<d, x>> \in EdgesLeft(left)
  BY <1>1 DEF EdgesLeft
<1>5. IsFiniteSet(EdgesLeft(left))
  BY ToDoFinite
<1> DEFINE E == EdgesLeft(left)
           e == <<d, x>>
<1> HIDE DEF E, e
<1>6. Cardinality(E \ {e}) = IF e \in E THEN Cardinality(E) - 1 ELSE Cardinality(E)
  BY <1>5, FS_RemoveElement DEF E
<1> QED BY <1>3, <1>4, <1>6 DEF E, e

LEMMA WhiteLess ==
  ASSUME NEW copy \in [DocIds -> Doc], NEW path, NEW path2, NEW black, NEW x \in Present(copy) \ black,
         ~On(path, x), \A e : On(path2, e) <=> On(path, e) \/ e = x
  PROVE  Cardinality(White(copy, path2, black)) = Cardinality(White(copy, path, black)) - 1
<1>1. White(copy, path2, black) = White(copy, path, black) \ {x} /\ x \in White(copy, path, black)
  BY DEF White
<1>2. IsFiniteSet(White(copy, path, black))
  BY ToDoFinite
<1> QED BY <1>1, <1>2, FS_RemoveElement

ToDo(copy, s) ==
  Cardinality(EdgesLeft(s.left)) + 2 * Cardinality(White(copy, s.path, s.black)) + Len(s.path)

Sane(copy, s) == s \in SearchState(copy) /\ Good(copy, s.path, s.left, s.black, s.found)

Finished(copy, s) == s.path = <<>> /\ Present(copy) \ s.black = {}

\* A step keeps the search good, and leaves less to do.
LEMMA TurnKeeps ==
  ASSUME NEW copy \in [DocIds -> Doc], NEW s, Sane(copy, s), s.path # <<>>
  PROVE  Sane(copy, Turn(s)) /\ ToDo(copy, Turn(s)) <= ToDo(copy, s) - 1
<1> DEFINE path == s.path
           left == s.left
           black == s.black
           found == s.found
           n == Len(path)
           d == path[n]
           x == Max(left[d])
           t == Turn(s)
           left2 == Less(left, d)
<1>1. s \in SearchState(copy) /\ Good(copy, path, left, black, found)
  BY DEF Sane
<1>2. Parts(copy, path, left, black, found) /\ Walked(copy, path, left, black)
      /\ \A c \in found : Cycle(copy, c)
  BY <1>1 DEF Good
<1>3. path \in Seq(Present(copy)) /\ left \in [DocIds -> SUBSET DocIds] /\ n \in Nat /\ n # 0
      /\ n \in 1 .. n /\ 1 .. Len(path) = 1 .. n /\ n = Len(path) /\ d = path[n] /\ found \subseteq Seq(Present(copy))
  BY <1>2 DEF Parts
<1>4. d \in Present(copy) /\ d \in DocIds /\ d \notin black /\ left[d] \subseteq Parents(copy, d)
  BY <1>2, <1>3, ParentsIs DEF Walked
<1>5. /\ left[d] = {} => Has(t, Front(path), left, black \cup {d}, found)
      /\ left[d] # {} /\ x \in ToSet(path) /\ x \notin black =>
           Has(t, path, left2, black, Reported(found, CycleAt(path, x)))
      /\ left[d] # {} /\ x \notin ToSet(path) /\ x \in black =>
           Has(t, path, left2, black, found)
      /\ left[d] # {} /\ x \notin ToSet(path) /\ x \notin black =>
           Has(t, Append(path, x), left2, black, found)
  BY <1>1, TurnIs
<1>6. ToDo(copy, s) = Cardinality(EdgesLeft(left)) + 2 * Cardinality(White(copy, path, black)) + n
  BY DEF ToDo
<1>7. Cardinality(EdgesLeft(left)) \in Nat /\ Cardinality(White(copy, path, black)) \in Nat
  BY ToDoFinite
<1>8. x \in ToSet(path) <=> On(path, x)
  BY <1>3, OnPath
<1>0. SUFFICES Sane(copy, t) /\ ToDo(copy, t) <= ToDo(copy, s) - 1
  BY DEF t
<1> HIDE DEF t, left2, path, left, black, found, x, d, n
<1>9. CASE left[d] = {}
  <2> DEFINE path2 == Front(path)
             black2 == black \cup {d}
  <2>1. path2 \in Seq(Present(copy)) /\ Len(path2) = n - 1 /\ \A i \in 1 .. n - 1 : path2[i] = path[i]
    <3>1. \A i \in 1 .. n - 1 : path[i] \in Present(copy)
      BY <1>3
    <3>2. path2 = SubSeq(path, 1, n - 1) /\ n - 1 \in Int /\ 1 \in Int
      BY <1>3 DEF Front
    <3>3. \A i \in 1 .. n - 1 : 1 + i - 1 = i
      OBVIOUS
    <3> HIDE DEF path2
    <3>4. /\ SubSeq(path, 1, n - 1) \in Seq(Present(copy))
          /\ Len(SubSeq(path, 1, n - 1)) = IF 1 <= n - 1 THEN (n - 1) - 1 + 1 ELSE 0
          /\ \A i \in 1 .. (n - 1) - 1 + 1 : SubSeq(path, 1, n - 1)[i] = path[1 + i - 1]
      BY <3>1, <3>2, SubSeqProperties
    <3>5. (n - 1) - 1 + 1 = n - 1 /\ (~(1 <= n - 1) => n - 1 = 0)
      BY ONLY <1>3
    <3> QED BY <3>2, <3>3, <3>4, <3>5
  <2> HIDE DEF path2
  <2>2. Good(copy, path2, left, black2, found)
    BY <1>1, <1>3, <1>9, <2>1, PopGood
  <2>3. Has(t, path2, left, black2, found)
    BY <1>5, <1>9 DEF path2
  <2>4. White(copy, path2, black2) = White(copy, path, black)
    <3>1. 1 .. Len(path2) = 1 .. n - 1
      BY <2>1
    <3>2. \A i \in 1 .. n : i \in 1 .. n - 1 \/ i = n
      BY <1>3
    <3>3. \A i \in 1 .. n - 1 : i \in 1 .. n
      BY <1>3
    <3>4. \A e : On(path, e) <=> On(path2, e) \/ e = d
      BY <1>3, <2>1, <3>1, <3>2, <3>3 DEF On
    <3> QED BY <3>4 DEF White
  <2>5. Parts(copy, path2, left, black2, found)
    BY <2>2 DEF Good
  <2> HIDE DEF black2
  <2>6. t.path = path2 /\ t.left = left /\ t.black = black2 /\ t.found = found /\ t \in SearchState(copy)
    BY <2>3, <2>5, PartsHad
  <2>7. ToDo(copy, t) = Cardinality(EdgesLeft(left)) + 2 * Cardinality(White(copy, path, black)) + (n - 1)
    BY <2>1, <2>4, <2>6 DEF ToDo
  <2>20. Sane(copy, t)
    BY <2>2, <2>6 DEF Sane
  <2> QED BY <1>3, <1>6, <1>7, <2>7, <2>20
<1>10. CASE left[d] # {}
  <2>1. x \in left[d] /\ left2 \in [DocIds -> SUBSET DocIds] /\ left2[d] = left[d] \ {x}
        /\ \A e \in DocIds \ {d} : left2[e] = left[e]
    <3>1. left[d] \subseteq Nat /\ IsFiniteSet(left[d])
      BY <1>3, <1>4, PorcelainConstants, FS_Subset
    <3>2. x \in left[d]
      BY <1>10, <3>1, MaxIn DEF x
    <3> QED BY <1>3, <1>4, <3>2 DEF left2, Less, x
  <2>2. x \in Parents(copy, d) /\ x \in Present(copy)
    BY <1>4, <2>1, ParentsIs
  <2>3. Cardinality(EdgesLeft(left2)) = Cardinality(EdgesLeft(left)) - 1
    BY <1>3, <1>4, <2>1, EdgesLess
  <2>4. CASE On(path, x)
    <3> DEFINE found2 == Reported(found, CycleAt(path, x))
    <3>1. x \notin black
      BY <1>2, <1>3, <2>4 DEF On, Walked
    <3>2. \A i \in 1 .. n - 1 : path[i + 1] \in Parents(copy, path[i])
      BY <1>2, <1>3 DEF Walked
    <3>3. Cycle(copy, CycleAt(path, x)) /\ d \in ToSet(CycleAt(path, x))
      BY <1>3, <2>2, <2>4, <3>2, CycleAtIs
    <3>4. /\ found \subseteq found2 /\ \A e \in found2 : Cycle(copy, e)
          /\ \E e \in found2 : ToSet(e) = ToSet(CycleAt(path, x))
          /\ found2 \in SUBSET Seq(Present(copy))
      BY <1>2, <1>3, <3>3, ReportedIs
    <3> HIDE DEF found2
    <3>5. Told(copy, found2, d)
      BY <3>3, <3>4, ToldOnIt
    <3>6. Good(copy, path, left2, black, found2)
      BY <1>1, <1>3, <2>1, <3>4, <3>5, EdgeGood, SMTT(60)
    <3>7. Parts(copy, path, left2, black, found2)
      BY <3>6 DEF Good
    <3>8. Has(t, path, left2, black, found2)
      BY <1>5, <1>8, <1>10, <2>4, <3>1 DEF found2
    <3>9. t.path = path /\ t.left = left2 /\ t.black = black /\ t.found = found2 /\ t \in SearchState(copy)
      BY <3>7, <3>8, PartsHad
    <3>10. ToDo(copy, t) = Cardinality(EdgesLeft(left2)) + 2 * Cardinality(White(copy, path, black)) + n
      BY <1>3, <3>9 DEF ToDo
    <3>20. Sane(copy, t)
      BY <3>6, <3>9 DEF Sane
    <3> QED BY <1>3, <1>6, <1>7, <2>3, <3>9, <3>10, <3>20
  <2>5. CASE ~On(path, x) /\ x \in black
    <3>1. Good(copy, path, left2, black, found)
      BY <1>1, <1>2, <1>3, <2>1, <2>5, EdgeGood
    <3>2. Parts(copy, path, left2, black, found)
      BY <3>1 DEF Good
    <3>3. Has(t, path, left2, black, found)
      BY <1>5, <1>8, <1>10, <2>5
    <3>4. t.path = path /\ t.left = left2 /\ t.black = black /\ t.found = found /\ t \in SearchState(copy)
      BY <3>2, <3>3, PartsHad
    <3>5. ToDo(copy, t) = Cardinality(EdgesLeft(left2)) + 2 * Cardinality(White(copy, path, black)) + n
      BY <1>3, <3>4 DEF ToDo
    <3>20. Sane(copy, t)
      BY <3>1, <3>4 DEF Sane
    <3> QED BY <1>3, <1>6, <1>7, <2>3, <3>4, <3>5, <3>20
  <2>6. CASE ~On(path, x) /\ x \notin black
    <3> DEFINE path2 == Append(path, x)
    <3>1. path2 \in Seq(Present(copy)) /\ Len(path2) = n + 1 /\ path2[n + 1] = x
          /\ \A i \in 1 .. n : path2[i] = path[i]
      BY <1>3, <2>2
    <3> HIDE DEF path2
    <3>2. Good(copy, path2, left2, black, found)
      <4>1. /\ n = Len(path) /\ x \in left[path[n]] /\ left2[path[n]] = left[path[n]] \ {x}
            /\ \A e \in DocIds \ {path[n]} : left2[e] = left[e]
        BY <1>3, <2>1
      <4>2. copy \in [DocIds -> Doc]
        OBVIOUS
      <4> QED BY ONLY <1>1, <1>3, <2>1, <2>6, <3>1, <4>1, <4>2, PushGood
    <3>3. Parts(copy, path2, left2, black, found)
      BY <3>2 DEF Good
    <3>4. Has(t, path2, left2, black, found)
      BY <1>5, <1>8, <1>10, <2>6 DEF path2
    <3>5. t.path = path2 /\ t.left = left2 /\ t.black = black /\ t.found = found /\ t \in SearchState(copy)
      BY <3>3, <3>4, PartsHad
    <3>6. \A e : On(path2, e) <=> On(path, e) \/ e = x
      <4>1. 1 .. Len(path2) = 1 .. n + 1
        BY <3>1
      <4>2. \A i \in 1 .. n + 1 : i \in 1 .. n \/ i = n + 1
        BY <1>3
      <4>3. n + 1 \in 1 .. n + 1 /\ \A i \in 1 .. n : i \in 1 .. n + 1
        BY <1>3
      <4> QED BY <1>3, <3>1, <4>1, <4>2, <4>3 DEF On
    <3>7. Cardinality(White(copy, path2, black)) = Cardinality(White(copy, path, black)) - 1
      BY <2>2, <2>6, <3>6, WhiteLess
    <3>8. ToDo(copy, t) = Cardinality(EdgesLeft(left2)) + 2 * Cardinality(White(copy, path2, black)) + (n + 1)
      BY <3>1, <3>5 DEF ToDo
    <3>20. Sane(copy, t)
      BY <3>2, <3>5 DEF Sane
    <3> QED BY <1>3, <1>6, <1>7, <2>3, <3>7, <3>8, <3>20
  <2> QED BY <2>4, <2>5, <2>6
<1> QED BY <1>9, <1>10
LEMMA StepKeeps ==
  ASSUME NEW copy \in [DocIds -> Doc], NEW s, Sane(copy, s)
  PROVE  /\ Finished(copy, s) => Step(copy, s) = s
         /\ ~Finished(copy, s) =>
              Sane(copy, Step(copy, s)) /\ ToDo(copy, Step(copy, s)) <= ToDo(copy, s) - 1
<1> DEFINE white == Present(copy) \ s.black
           r == Min(white)
           t == [s EXCEPT !.path = <<r>>]
<1>1. s \in SearchState(copy) /\ Good(copy, s.path, s.left, s.black, s.found)
  BY DEF Sane
<1>2. CASE s.path # <<>>
  <2>1. Step(copy, s) = Turn(s)
    BY <1>2 DEF Step
  <2> QED BY <1>2, <2>1, TurnKeeps DEF Finished
<1>3. CASE s.path = <<>> /\ white = {}
  BY <1>3 DEF Step, Finished
<1>4. CASE s.path = <<>> /\ white # {}
  <2>1. r \in white
    BY <1>4, ParentsIs, PorcelainConstants, MinIn
  <2>2. Step(copy, s) = t
    BY <1>4 DEF Step
  <2> HIDE DEF white, r
  <2>3. r \in Present(copy) \ s.black
    BY <2>1 DEF white
  <2>4. <<r>> \in Seq(Present(copy)) /\ Len(<<r>>) = 1 /\ <<r>>[1] = r /\ Len(<<>>) = 0
    BY <2>3
  <2>5. Good(copy, <<r>>, s.left, s.black, s.found)
    BY <1>1, <1>4, <2>3, <2>4, RootGood
  <2>6. /\ t.path = <<r>> /\ t.left = s.left /\ t.black = s.black /\ t.found = s.found
        /\ t \in SearchState(copy)
    BY <1>1, <2>4 DEF SearchState
  <2> HIDE DEF t
  <2>7. Sane(copy, t)
    BY <2>5, <2>6 DEF Sane
  <2>8. ~On(<<>>, r) /\ \A e : On(<<r>>, e) <=> On(<<>>, e) \/ e = r
    <3>1. \A i : i \in 1 .. 1 <=> i = 1
      OBVIOUS
    <3>2. 1 .. Len(<<r>>) = 1 .. 1 /\ \A i : i \notin 1 .. Len(<<>>)
      BY <2>4
    <3>3. \A e : On(<<r>>, e) <=> e = r
      BY <2>4, <3>1, <3>2 DEF On
    <3> QED BY <3>2, <3>3 DEF On
  <2>9. Cardinality(White(copy, <<r>>, s.black)) = Cardinality(White(copy, <<>>, s.black)) - 1
    BY <2>3, <2>8, WhiteLess
  <2>10. ToDo(copy, t) = Cardinality(EdgesLeft(s.left)) + 2 * Cardinality(White(copy, <<r>>, s.black)) + 1
    BY <2>4, <2>6 DEF ToDo
  <2>11. ToDo(copy, s) = Cardinality(EdgesLeft(s.left)) + 2 * Cardinality(White(copy, <<>>, s.black)) + 0
    BY <1>4, <2>4 DEF ToDo
  <2>12. Cardinality(EdgesLeft(s.left)) \in Nat /\ Cardinality(White(copy, <<>>, s.black)) \in Nat
    BY ToDoFinite
  <2>13. ToDo(copy, t) <= ToDo(copy, s) - 1
    BY ONLY <2>9, <2>10, <2>11, <2>12
  <2>14. ~Finished(copy, s)
    BY <1>4 DEF Finished, white
  <2> QED BY <2>2, <2>7, <2>13, <2>14
<1> QED BY <1>2, <1>3, <1>4

LEMMA SearchIs ==
  ASSUME NEW copy \in [DocIds -> Doc]
  PROVE  Sane(copy, Search(copy)) /\ ToDo(copy, Search(copy)) <= Steps(copy) /\ Steps(copy) \in Nat
<1> DEFINE s == Search(copy)
           left == [d \in DocIds |-> Parents(copy, d)]
           N == Cardinality(DocIds)
<1>1. DOMAIN copy = DocIds /\ \A d \in DocIds : Parents(copy, d) \in SUBSET DocIds
  BY ParentsIs
<1>2. s.path = <<>> /\ s.left = left /\ s.black = {} /\ s.found = {}
  BY <1>1 DEF Search
<1>3. left \in [DocIds -> SUBSET DocIds] /\ \A d \in DocIds : left[d] = Parents(copy, d)
  BY <1>1
<1>4. s \in [path : {<<>>}, left : {left}, black : {{}}, found : {{}}]
  BY <1>1 DEF Search
<1> HIDE DEF s, left
<1>5. Len(<<>>) = 0 /\ \A i : i \notin 1 .. 0 /\ i \notin 1 .. 0 - 1
  OBVIOUS
<1>6. <<>> \in Seq(Present(copy))
  OBVIOUS
<1>7. Parts(copy, <<>>, left, {}, {})
  BY <1>3, <1>6 DEF Parts
<1>8. s \in SearchState(copy)
  BY <1>3, <1>4, <1>6 DEF SearchState
<1>9. Walked(copy, <<>>, left, {})
  <2>1. \A d \in Present(copy) : d \in DocIds
    BY ParentsIs
  <2> QED BY <1>3, <1>5, <2>1 DEF Walked
<1>10. Followed(copy, <<>>, left, {}, {})
  BY <1>5 DEF Followed
<1>11. ToldOf(copy, {}, {})
  BY DEF ToldOf
<1>12. Good(copy, <<>>, left, {}, {})
  BY <1>7, <1>9, <1>10, <1>11 DEF Good
<1>13. Sane(copy, s)
  BY <1>2, <1>8, <1>12 DEF Sane
<1>14. ToDo(copy, s) = Cardinality(EdgesLeft(left)) + 2 * Cardinality(White(copy, <<>>, {})) + 0
  BY <1>2, <1>5 DEF ToDo
<1> DEFINE A == Cardinality(EdgesLeft(left))
           B == Cardinality(White(copy, <<>>, {}))
<1>15. N \in Nat /\ A \in Nat /\ B \in Nat /\ A <= N * N /\ B <= N
  BY ToDoFinite
<1>16. Steps(copy) = N * (N + 2)
  BY <1>1 DEF Steps
<1> HIDE DEF A, B, N
<1>17. N * (N + 2) = N * N + 2 * N /\ N * N \in Nat
  BY ONLY <1>15
<1>18. A + 2 * B + 0 <= N * (N + 2) /\ N * (N + 2) \in Nat
  <2> DEFINE NN == N * N
  <2>1. NN \in Nat /\ A <= NN /\ N * (N + 2) = NN + 2 * N
    BY <1>15, <1>17
  <2> HIDE DEF NN
  <2> QED BY ONLY <1>15, <2>1
<1>19. ToDo(copy, s) <= Steps(copy) /\ Steps(copy) \in Nat
  BY <1>14, <1>16, <1>18 DEF A, B
<1> QED BY <1>13, <1>19 DEF s

\* So many steps are enough.
LEMMA SearchEnds ==
  ASSUME NEW copy \in [DocIds -> Doc], NEW m \in Nat, ToDo(copy, Search(copy)) <= m,
         NEW f, f[0] = Search(copy),
         \A n \in 1 .. m : Sane(copy, f[n - 1]) => f[n] = Step(copy, f[n - 1])
  PROVE  /\ \A n \in 0 .. m : Sane(copy, f[n])
         /\ Finished(copy, f[m])
<1> DEFINE Near(n) == Finished(copy, f[n]) \/ ToDo(copy, f[n]) <= m - n
           Bad == {n \in 0 .. m : ~(Sane(copy, f[n]) /\ Near(n))}
<1>1. \A s : Sane(copy, s) => ToDo(copy, s) \in Nat
  <2> SUFFICES ASSUME NEW s, Sane(copy, s) PROVE ToDo(copy, s) \in Nat
    OBVIOUS
  <2>1. Len(s.path) \in Nat
    BY DEF Sane, SearchState
  <2>2. /\ Cardinality(EdgesLeft(s.left)) \in Nat
        /\ Cardinality(White(copy, s.path, s.black)) \in Nat
    BY ToDoFinite
  <2> QED BY <2>1, <2>2 DEF ToDo
<1>2. Bad = {}
  <2> SUFFICES ASSUME Bad # {} PROVE FALSE
    OBVIOUS
  <2>1. PICK n \in Bad : \A k \in Bad : n <= k
    <3>1. Bad \in SUBSET Nat
      OBVIOUS
    <3> HIDE DEF Bad
    <3> QED BY <3>1, LeastBad
  <2>2. n # 0
    <3>1. Sane(copy, f[0]) /\ ToDo(copy, f[0]) <= m - 0
      BY SearchIs
    <3> QED BY <2>1, <3>1
  <2>3. n \in 1 .. m /\ n - 1 \in 0 .. m /\ n - 1 \notin Bad
    <3>1. n \in 0 .. m
      BY <2>1
    <3>2. n \in 1 .. m /\ n - 1 \in 0 .. m /\ ~(n <= n - 1)
      BY <2>2, <3>1
    <3> HIDE DEF Bad
    <3> QED BY <2>1, <3>2
  <2>4. Sane(copy, f[n - 1]) /\ (Finished(copy, f[n - 1]) \/ ToDo(copy, f[n - 1]) <= m - (n - 1))
    BY <2>3
  <2>5. f[n] = Step(copy, f[n - 1])
    BY <2>3, <2>4
  <2>6. CASE Finished(copy, f[n - 1])
    <3>1. f[n] = f[n - 1]
      BY <2>4, <2>5, <2>6, StepKeeps
    <3> QED BY <2>1, <2>4, <2>6, <3>1
  <2>7. CASE ~Finished(copy, f[n - 1])
    <3>1. Sane(copy, f[n]) /\ ToDo(copy, f[n]) <= ToDo(copy, f[n - 1]) - 1
      BY <2>4, <2>5, <2>7, StepKeeps
    <3>2. ToDo(copy, f[n]) \in Nat /\ ToDo(copy, f[n - 1]) \in Nat
      BY <1>1, <2>4, <3>1
    <3>3. ToDo(copy, f[n - 1]) <= m - (n - 1)
      BY <2>4, <2>7
    <3>4. ToDo(copy, f[n]) <= m - n
      BY <2>3, <3>1, <3>2, <3>3
    <3> QED BY <2>1, <3>1, <3>4
  <2> QED BY <2>6, <2>7
<1>3. \A n \in 0 .. m : Sane(copy, f[n])
  BY <1>2
<1>4. Finished(copy, f[m]) \/ ToDo(copy, f[m]) <= 0
  <2>1. m \in 0 .. m /\ m - m = 0
    OBVIOUS
  <2> QED BY <1>2, <2>1
<1>5. CASE ToDo(copy, f[m]) <= 0
  <2> DEFINE s == f[m]
             E == Cardinality(EdgesLeft(s.left))
             W == Cardinality(White(copy, s.path, s.black))
             L == Len(s.path)
  <2>1. Sane(copy, s)
    BY <1>3
  <2>2. s.path \in Seq(Present(copy))
    BY <2>1 DEF Sane, SearchState
  <2>3. E \in Nat /\ W \in Nat /\ L \in Nat /\ E + 2 * W + L <= 0
    BY <1>5, <2>2, ToDoFinite, SMTT(60) DEF ToDo
  <2>4. W = 0 /\ L = 0
    <3> HIDE DEF E, W, L
    <3> QED BY <2>3
  <2>5. s.path = <<>>
    BY <2>2, <2>4
  <2>6. White(copy, s.path, s.black) = {}
    BY <2>4, ToDoFinite, FS_EmptySet
  <2>7. \A d : ~On(s.path, d)
    BY <2>4 DEF On
  <2>8. Present(copy) \ s.black = {}
    BY <2>6, <2>7 DEF White
  <2> QED BY <1>3, <2>5, <2>8 DEF Finished
<1> QED BY <1>3, <1>4, <1>5

LEMMA FoundIs ==
  ASSUME NEW copy \in [DocIds -> Doc]
  PROVE  \E s : FindCycles(copy) = s.found /\ Sane(copy, s) /\ Finished(copy, s)
<1> DEFINE m == Steps(copy)
           base == Search(copy)
           nxt == [t \in SearchState(copy) |-> Step(copy, t)]
           Goes(g) == g = [n \in 0 .. m |-> IF n = 0 THEN Search(copy) ELSE Step(copy, g[n - 1])]
           f == CHOOSE g : Goes(g)
<1>1. m \in Nat /\ ToDo(copy, base) <= m
  BY SearchIs
<1>2. \A t : Sane(copy, t) => nxt[t] = Step(copy, t)
  BY DEF Sane
<1>3. \E g : Goes(g)
  <2> HIDE DEF m, base, nxt
  <2>1. PICK g : Iterates(g, base, nxt, m)
    BY <1>1, Recursion
  <2>2. g[0] = base /\ \A n \in 1 .. m : g[n] = nxt[g[n - 1]]
    BY <1>1, <2>1 DEF Iterates
  <2>3. \A n \in 1 .. m : Sane(copy, g[n - 1]) => g[n] = Step(copy, g[n - 1])
    BY <1>2, <2>2
  <2>4. \A n \in 0 .. m : Sane(copy, g[n])
    BY <1>1, <2>2, <2>3, SearchEnds DEF base
  <2>5. \A n \in 1 .. m : n - 1 \in 0 .. m
    BY <1>1
  <2>6. \A n \in 1 .. m : g[n] = Step(copy, g[n - 1])
    BY <2>3, <2>4, <2>5
  <2>7. \A n \in 0 .. m : g[n] = IF n = 0 THEN Search(copy) ELSE Step(copy, g[n - 1])
    BY <1>1, <2>2, <2>6 DEF base
  <2>8. g = [n \in 0 .. m |-> g[n]]
    BY <2>1 DEF Iterates
  <2>9. Goes(g)
    BY <2>7, <2>8
  <2> HIDE DEF Goes
  <2> QED BY <2>9
<1>4. Goes(f)
  <2> HIDE DEF Goes
  <2> QED BY <1>3
<1>5. FindCycles(copy) = f[m].found
  BY DEF FindCycles
<1> HIDE DEF f
<1>6. f[0] = base /\ \A n \in 1 .. m : f[n] = Step(copy, f[n - 1])
  <2> HIDE DEF m
  <2> QED BY <1>1, <1>4
<1>7. Sane(copy, f[m]) /\ Finished(copy, f[m])
  <2>1. m \in 0 .. m
    BY <1>1
  <2> HIDE DEF m
  <2> QED BY <1>1, <1>6, <2>1, SearchEnds DEF base
<1> QED BY <1>5, <1>7

LEMMA CyclesAreRight ==
  ASSUME NEW copy \in [DocIds -> Doc]
  PROVE  CyclesRight(copy)
<1>1. PICK s : FindCycles(copy) = s.found /\ Sane(copy, s) /\ Finished(copy, s)
  BY FoundIs
<1>2. /\ ToldOf(copy, s.black, s.found) /\ \A c \in s.found : Cycle(copy, c)
      /\ Present(copy) \subseteq s.black
  BY <1>1 DEF Sane, Good, Finished
<1>3. ASSUME NEW c \in s.found, NEW i \in DOMAIN c
      PROVE  c[IF i = Len(c) THEN 1 ELSE i + 1] \in Parents(copy, c[i])
  <2>1. i \in 1 .. Len(c)
    BY <1>2 DEF Cycle
  <2> QED BY <1>2, <2>1 DEF Cycle, After1
<1>4. ASSUME NEW d \in OnCycle(copy)
      PROVE  \E c \in s.found : \A x \in ToSet(c) : x \in Above(copy, d) /\ d \in Above(copy, x)
  BY <1>2 DEF OnCycle, ToldOf, Told
<1> QED BY <1>1, <1>3, <1>4 DEF CyclesRight

\* Whatever cycles the commands make, validate's search finds: each cycle
\* reported is one, and each document on a cycle has one reported.
THEOREM CyclesReportedHolds == Spec => []CyclesReported
<1>1. TypeOK => CyclesReported
  BY CopyType, CyclesAreRight DEF TypeOK, CyclesReported
<1> QED BY <1>1, TypeOKHolds, PTL

=============================================================================
