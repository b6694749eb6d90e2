----------------------------- MODULE MCPorcelain -----------------------------
(***************************************************************************)
(* Instances of Porcelain: a behaviour is about the facets of one document,*)
(* the tree of three, or the names of two.                                 *)
(***************************************************************************)
EXTENDS Porcelain

Id(d) == [id |-> d, name |-> {}]
ByName(n) == [id |-> 0, name |-> n]

Living == [NoDoc EXCEPT !.present = TRUE, !.status = "living", !.type = "type"]
Named(n) == [Living EXCEPT !.title = n, !.label = n]

Base == [op |-> "set", refs |-> <<>>, touch |-> {}, to |-> NoDoc, body |-> FALSE,
         field |-> "belongs_to", targets |-> {}, flag |-> FALSE]

On(op, d) == [Base EXCEPT !.op = op, !.refs = <<Id(d)>>]

\* A goal from before there were facets, or a new document in its place.
Facets ==
  [NoDoc EXCEPT !.label = {"w1"}, !.type = "goal", !.status = "living"]

Combinations ==
  {[Facets EXCEPT !.type = type, !.intent = intent, !.intent_basis = basis,
                  !.force = force, !.realization = realization, !.imposed_by = by] :
     type \in {"goal", "principle", "constraint", "heading", "reference"},
     intent \in {"", "chosen", "incidental"}, basis \in {"", "x"},
     force \in {"", "x"}, realization \in {"", "x"}, by \in {"", "x"}}

FacetMenu ==
  {[Base EXCEPT !.op = "new", !.touch = {"intent"}, !.to = c] : c \in Combinations}
    \cup {[On("set", 1) EXCEPT !.touch = {"type", "force", "realization", "imposed_by"},
                               !.to = c] : c \in Combinations}
    \cup {[On("set", 1) EXCEPT !.touch = {f}, !.to[f] = v] :
            f \in FacetFields \ {"intent"}, v \in {"", "x"}}
    \cup {[On("set", 1) EXCEPT !.touch = {"intent"}, !.to.intent = v] :
            v \in {"", "chosen", "incidental"}}
    \cup {[On("set", 1) EXCEPT !.touch = {"status"}, !.to.status = v] :
            v \in {"living", "deprecated", "reference"}}
    \cup {On("rm", 1)}

TreeMenu ==
  {[On(op, d) EXCEPT !.targets = {Id(p)}, !.flag = flag] :
      op \in {"link", "unlink"}, d \in DocIds, p \in DocIds, flag \in BOOLEAN}
    \cup {[On("rm", d) EXCEPT !.flag = flag] : d \in DocIds, flag \in BOOLEAN}
    \cup {[On("set", d) EXCEPT !.touch = {"status"}, !.to.status = "reference"] :
            d \in DocIds}
    \cup {[Base EXCEPT !.op = "new", !.to = [Living EXCEPT !.label = {"w1"}],
                       !.targets = {Id(p)}] : p \in DocIds}

Asked == {"w1"}
Both == {"w1", "w2"}

References ==
  {<<Id(1)>>, <<ByName(Asked)>>, <<ByName({"w2"}), Id(2)>>,
   <<ByName(Asked), ByName({"w2"})>>}

NameMenu ==
  {[Base EXCEPT !.refs = refs, !.touch = {f}, !.to[f] = name, !.body = TRUE] :
      refs \in References, f \in {"label", "title"}, name \in {{"w2"}, Both}}
    \cup {[Base EXCEPT !.refs = refs, !.touch = {f}, !.to[f] = name] :
            refs \in {<<Id(1)>>, <<Id(1), Id(2)>>}, f \in {"label", "title"},
            name \in {{"w1", Dashes}, {}}}
    \cup {[Base EXCEPT !.op = "link", !.refs = <<ByName(n)>>, !.field = "requires",
                       !.targets = {ByName(Asked)}] : n \in {Asked, Both}}

MCTasks == {"facets", "tree", "names"}

MCMenu == [facets |-> FacetMenu, tree |-> TreeMenu, names |-> NameMenu]

MCStores ==
  [facets |-> [d \in DocIds |-> IF d = 1 THEN [Facets EXCEPT !.present = TRUE]
                                ELSE Named({"w2"})],
   tree |-> [d \in DocIds |-> Named({"w1"})],
   names |-> [d \in DocIds |-> IF d = 1 THEN Named(Asked)
                               ELSE IF d = 2 THEN Named(Both) ELSE NoDoc]]
=============================================================================
