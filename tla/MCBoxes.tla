------------------------------- MODULE MCBoxes -------------------------------
(***************************************************************************)
(* The flag ledger, the lexicon and the capture tiers lie in one store and *)
(* share no file, so each is explored by itself: a behaviour follows one   *)
(* of them from start to end.                                              *)
(***************************************************************************)
EXTENDS FlagLedger, Lexicon, Ingest, TLC

VARIABLE focus          \* the box this behaviour is about

vars == <<flagVars, termVars, ingestVars, focus>>

MCSlug ==
  [full |-> "graph/edge", node |-> "graph/node", bare |-> "edge", part |-> "graph"]
MCContextOf ==
  [t \in TermIds |-> IF t \in {"graph/edge", "graph/node"} THEN "graph" ELSE "lexicon"]
MCContains ==
  {<<"graph/edge", "part">>, <<"graph/node", "part">>,
   <<"graph/edge", "bare">>, <<"edge", "bare">>}
MCAliases == {{}, {"node"}}

Init ==
  /\ FlagInit /\ TermInit /\ IngestInit
  /\ focus \in {"flags", "lexicon", "ingest"}

Next ==
  \/ focus = "flags" /\ FlagNext /\ UNCHANGED <<termVars, ingestVars, focus>>
  \/ focus = "lexicon" /\ TermNext /\ UNCHANGED <<flagVars, ingestVars, focus>>
  \/ focus = "ingest" /\ IngestNext /\ UNCHANGED <<flagVars, termVars, focus>>

Spec == Init /\ [][Next]_vars

\* The types of the three boxes.
TypeOK == FlagTypes /\ TermTypes /\ IngestTypes
=============================================================================
