------------------------------ MODULE SessionLog ------------------------------
(***************************************************************************)
(* What editing sessions promise of the change log, with no files and no   *)
(* steps in between: a line is logged once, under one session; it moves    *)
(* with its session when sessions are folded; and it is filed, once, in    *)
(* the review its session ends in.  EditingSessions implements this when   *)
(* commands run one after the other.                                       *)
(***************************************************************************)
EXTENDS ChangeLog

CONSTANT Sessions

VARIABLES
  pending,   \* pending[s]: the lines of session s not in a review yet
  filed      \* the lines of each review, and whether its close was forced

vars == <<pending, filed>>

Review == [lines: SUBSET LogLine, forced: BOOLEAN]

Lines == (UNION {pending[s] : s \in Sessions}) \cup (UNION {r.lines : r \in filed})

TypeOK ==
  /\ pending \in [Sessions -> SUBSET LogLine]
  /\ filed \subseteq Review

Init ==
  /\ pending = [s \in Sessions |-> {}]
  /\ filed = {}

\* A command of its own number logs its change.
Log(s, l) ==
  /\ \A m \in Lines : m.n # l.n
  /\ pending' = [pending EXCEPT ![s] = @ \cup {l}]
  /\ UNCHANGED filed

\* The sessions of a group are folded into one session outside it.
Fold(t, group) ==
  /\ t \notin group
  /\ pending' = [s \in Sessions |->
       IF s = t THEN pending[t] \cup UNION {pending[g] : g \in group}
       ELSE IF s \in group THEN {} ELSE pending[s]]
  /\ UNCHANGED filed

\* A session ends in a review, which explains its revisions unless forced.
File(s, forced) ==
  /\ forced \/ Gaps(pending[s]) = {}
  /\ filed' = filed \cup {[lines |-> pending[s], forced |-> forced]}
  /\ pending' = [pending EXCEPT ![s] = {}]

Next ==
  \E s \in Sessions :
    \/ \E l \in UNION {pending'[t] : t \in Sessions} : l \in LogLine /\ Log(s, l)
    \/ \E group \in SUBSET Sessions : Fold(s, group)
    \/ \E forced \in BOOLEAN : File(s, forced)

Spec == Init /\ [][Next]_vars

-----------------------------------------------------------------------------
(* Properties *)

\* The number of a command names one line: two lines, wherever they are, are
\* not of the same command.
NumbersName == \A l, m \in Lines : l.n = m.n => l = m

\* A line is in one place: it is pending in one session only, and no review
\* holds a line that is pending or in another review.
EachLineOnce ==
  /\ \A s, t \in Sessions : s # t => pending[s] \cap pending[t] = {}
  /\ \A s \in Sessions : \A r \in filed : pending[s] \cap r.lines = {}
  /\ \A r, q \in filed : r.lines \cap q.lines # {} => r = q

\* A filed review that was not forced has no gap.
FiledExplained == \A r \in filed : r.forced \/ Gaps(r.lines) = {}
=============================================================================
