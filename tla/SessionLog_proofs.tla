--------------------------- MODULE SessionLog_proofs ---------------------------
(* Every behaviour of SessionLog keeps each line in one place, and files no  *)
(* session with an unexplained revision unless the close was forced.         *)
EXTENDS SessionLog, TLAPS

LEMMA TypeStep == TypeOK /\ [Next]_vars => TypeOK'
<1> SUFFICES ASSUME TypeOK, [Next]_vars PROVE TypeOK'
  OBVIOUS
<1>1. ASSUME NEW s \in Sessions, NEW l \in LogLine, Log(s, l) PROVE TypeOK'
  BY <1>1 DEF TypeOK, Log
<1>2. ASSUME NEW s \in Sessions, NEW group \in SUBSET Sessions, Fold(s, group)
      PROVE TypeOK'
  <2>1. UNION {pending[g] : g \in group} \in SUBSET LogLine
    BY DEF TypeOK
  <2> QED BY <1>2, <2>1 DEF TypeOK, Fold
<1>3. ASSUME NEW s \in Sessions, NEW forced \in BOOLEAN, File(s, forced)
      PROVE TypeOK'
  BY <1>3 DEF TypeOK, File, Review
<1>4. CASE UNCHANGED vars
  BY <1>4 DEF TypeOK, vars
<1> QED BY <1>1, <1>2, <1>3, <1>4 DEF Next

\* The variables of SessionLog stay in their types.
THEOREM TypeCorrect == Spec => []TypeOK
<1>1. Init => TypeOK
  BY DEF Init, TypeOK
<1> QED BY <1>1, TypeStep, PTL DEF Spec

-----------------------------------------------------------------------------
LEMMA OnePlaceStep == TypeOK /\ EachLineOnce /\ [Next]_vars => EachLineOnce'
<1> SUFFICES ASSUME TypeOK, EachLineOnce, [Next]_vars PROVE EachLineOnce'
  OBVIOUS
\* A line with a number of its own is nowhere yet.
<1>1. ASSUME NEW s \in Sessions, NEW l \in LogLine, Log(s, l)
      PROVE EachLineOnce'
  <2>1. l \notin Lines
    BY <1>1 DEF Log
  <2>2. \A t \in Sessions : l \notin pending[t]
    BY <2>1 DEF Lines
  <2>3. \A r \in filed : l \notin r.lines
    BY <2>1 DEF Lines
  <2>4. \A t \in Sessions : pending'[t] = IF t = s THEN pending[s] \cup {l} ELSE pending[t]
    BY <1>1 DEF Log, TypeOK
  <2>5. filed' = filed
    BY <1>1 DEF Log
  <2> QED BY <2>2, <2>3, <2>4, <2>5 DEF EachLineOnce
\* The lines of the group leave the sessions of the group.
<1>2. ASSUME NEW s \in Sessions, NEW group \in SUBSET Sessions, Fold(s, group)
      PROVE EachLineOnce'
  <2>1. \A t \in Sessions : pending'[t] =
          IF t = s THEN pending[s] \cup UNION {pending[g] : g \in group}
          ELSE IF t \in group THEN {} ELSE pending[t]
    BY <1>2 DEF Fold
  <2>2. filed' = filed
    BY <1>2 DEF Fold
  <2>3. \A l \in UNION {pending[g] : g \in group} :
          /\ \A t \in Sessions : l \in pending[t] => t \in group
          /\ \A r \in filed : l \notin r.lines
    BY DEF EachLineOnce
  <2>4. \A t, u \in Sessions : t # u => pending'[t] \cap pending'[u] = {}
    BY <2>1, <2>3 DEF EachLineOnce
  <2>5. \A t \in Sessions : \A r \in filed : pending'[t] \cap r.lines = {}
    BY <2>1, <2>3 DEF EachLineOnce
  <2> QED BY <2>2, <2>4, <2>5 DEF EachLineOnce
<1>3. ASSUME NEW s \in Sessions, NEW forced \in BOOLEAN, File(s, forced)
      PROVE EachLineOnce'
  <2> DEFINE new == [lines |-> pending[s], forced |-> forced]
  <2>1. \A t \in Sessions : pending'[t] = IF t = s THEN {} ELSE pending[t]
    BY <1>3 DEF File, TypeOK
  <2>2. filed' = filed \cup {new} /\ new.lines = pending[s]
    BY <1>3 DEF File
  <2>3. \A r \in filed : new.lines \cap r.lines = {}
    BY <2>2 DEF EachLineOnce
  <2>4. \A t \in Sessions : t # s => new.lines \cap pending[t] = {}
    BY <2>2 DEF EachLineOnce
  <2> HIDE DEF new
  <2> QED BY <2>1, <2>2, <2>3, <2>4 DEF EachLineOnce
<1>4. CASE UNCHANGED vars
  BY <1>4 DEF EachLineOnce, vars
<1> QED BY <1>1, <1>2, <1>3, <1>4 DEF Next

\* A line is pending in one session, or in one review, and never in two places.
THEOREM EachLineOnceHolds == Spec => []EachLineOnce
<1>1. Init => EachLineOnce
  BY DEF Init, EachLineOnce
<1> QED BY <1>1, TypeCorrect, OnePlaceStep, PTL DEF Spec

\* The number of a command names its line, wherever that is by now.
THEOREM NumbersNameHolds == Spec => []NumbersName
<1>1. Init => NumbersName
  BY DEF Init, NumbersName, Lines
<1>2. TypeOK /\ NumbersName /\ [Next]_vars => NumbersName'
  <2> SUFFICES ASSUME TypeOK, NumbersName, [Next]_vars PROVE NumbersName'
    OBVIOUS
  <2>1. ASSUME NEW s \in Sessions, NEW l \in LogLine, Log(s, l)
        PROVE NumbersName'
    <3>1. Lines' \subseteq Lines \cup {l}
      BY <2>1 DEF Log, Lines, TypeOK
    <3>2. \A m \in Lines : m.n # l.n
      BY <2>1 DEF Log
    <3> QED BY <3>1, <3>2 DEF NumbersName
  <2>2. ASSUME Lines' \subseteq Lines PROVE NumbersName'
    BY <2>2 DEF NumbersName
  <2>3. ASSUME NEW s \in Sessions, NEW group \in SUBSET Sessions, Fold(s, group)
        PROVE Lines' \subseteq Lines
    BY <2>3 DEF Fold, Lines
  <2>4. ASSUME NEW s \in Sessions, NEW forced \in BOOLEAN, File(s, forced)
        PROVE Lines' \subseteq Lines
    BY <2>4 DEF File, Lines, TypeOK
  <2>5. ASSUME UNCHANGED vars PROVE Lines' \subseteq Lines
    BY <2>5 DEF vars, Lines
  <2> QED BY <2>1, <2>2, <2>3, <2>4, <2>5 DEF Next
<1> QED BY <1>1, <1>2, TypeCorrect, PTL DEF Spec

\* No review that was not forced leaves a revision unexplained.
THEOREM FiledExplainedHolds == Spec => []FiledExplained
<1>1. Init => FiledExplained
  BY DEF Init, FiledExplained
<1>2. FiledExplained /\ [Next]_vars => FiledExplained'
  <2> SUFFICES ASSUME FiledExplained, [Next]_vars PROVE FiledExplained'
    OBVIOUS
  <2>1. ASSUME NEW s \in Sessions, NEW forced \in BOOLEAN, File(s, forced)
        PROVE FiledExplained'
    BY <2>1 DEF File, FiledExplained
  <2>2. ASSUME UNCHANGED filed PROVE FiledExplained'
    BY <2>2 DEF FiledExplained
  <2> QED BY <2>1, <2>2 DEF Next, Log, Fold, vars
<1> QED BY <1>1, <1>2, PTL DEF Spec
=============================================================================
