------------------------------ MODULE DocRules ------------------------------
(***************************************************************************)
(* What a document's type says of its facets, the refusal of the commands  *)
(* that write documents (kb) and the finding of validate: two readers of   *)
(* one table.  A facet is "" when the document does not carry it.          *)
(***************************************************************************)

DocTypes == {"goal", "use-case", "principle", "constraint", "requirement",
             "decision", "component", "heading", "guide", "reference", "type"}

FacetFields == {"intent", "intent_basis", "force", "realization",
                "realization_refs", "realization_verified", "imposed_by"}

\* A companion goes with the facet it is about, and is never required.
Owner == [f \in FacetFields |->
  CASE f = "intent_basis" -> "intent"
    [] f \in {"realization_refs", "realization_verified"} -> "realization"
    [] OTHER -> f]

\* TYPE_TABLE: what a type requires, and what it forbids.
RequiredBy == [type \in DocTypes |->
  {f \in FacetFields :
     \/ f = "intent" /\ type # "reference"
     \/ f = "force" /\ type \in {"principle", "constraint", "requirement",
                                 "decision", "guide"}
     \/ f = "realization" /\ type \in {"goal", "use-case", "requirement",
                                       "decision", "component"}
     \/ f = "imposed_by" /\ type = "constraint"}]

ForbiddenBy == [type \in DocTypes |->
  {f \in FacetFields :
     \/ Owner[f] \in {"force", "realization"} \ RequiredBy[type]
     \/ Owner[f] = "intent" /\ type = "reference"
     \/ f = "imposed_by" /\ type \in {"heading", "reference"}}]

\* A type the table does not know says nothing.
FacetRequired(type, f) == type \in DocTypes /\ f \in RequiredBy[type]
FacetForbidden(type, f) == type \in DocTypes /\ f \in ForbiddenBy[type]

NeedsBasis(doc) == doc.intent \in {"requested", "chosen"}

Misplaced(doc) == {f \in FacetFields : doc[f] # "" /\ FacetForbidden(doc.type, f)}

\* Mutant: what is there is not checked against the type.
ViolationsOfAbsence(doc, complete) ==
  {f \in {"force", "realization", "imposed_by"} :
       complete /\ doc[f] = "" /\ FacetRequired(doc.type, f)}
    \cup {f \in {"intent_basis"} : NeedsBasis(doc) /\ doc[f] = ""}

\* _refuse_facet_violations: all of the required facets are demanded of a new
\* document and of one whose type changes.
Violations(doc, complete) ==
  Misplaced(doc)
    \cup {f \in {"force", "realization", "imposed_by"} :
            complete /\ doc[f] = "" /\ FacetRequired(doc.type, f)}
    \cup {f \in {"intent_basis"} : NeedsBasis(doc) /\ doc[f] = ""}

Archived(doc) == doc.type = "reference" \/ doc.status = "reference"

\* check_doc: facets that are an error where they are.
FacetErrors(doc) ==
  Misplaced(doc) \cup {f \in {"intent_basis"} : NeedsBasis(doc) /\ doc[f] = ""}

\* check_doc: facets the type expects, which is a warning only.
FacetWarnings(doc) ==
  {f \in FacetFields : /\ doc[f] = "" /\ FacetRequired(doc.type, f)
                       /\ doc.status # "deprecated" /\ ~Archived(doc)}
=============================================================================
