------------------------ MODULE EditingSessions_proofs ------------------------
(***************************************************************************)
(* Theorems about EditingSessions, for any number of processes, sessions   *)
(* and documents: first that every variable keeps its type, then what      *)
(* holds of sessions no two processes share, what holds whoever shares     *)
(* them, and last what holds when one process runs the commands.           *)
(***************************************************************************)
EXTENDS EditingSessions, TLAPS

-----------------------------------------------------------------------------
(* Types *)

\* The type invariant is not inductive: the line a command logs has a type
\* only if the command has resolved a document and runs under a session.
RefSteps == {"docWrite", "unlink", "walRead", "walWrite", "reviewWrite"}

JobTyped(p) ==
  /\ job[p].step # "idle" => job[p].sess \in Owner[p]
  /\ job[p].step \in RefSteps
       => job[p].ref \in DocIds

JobsTyped == job \in [Procs -> Job] /\ \A p \in Procs : JobTyped(p)

TypeInv == TypeOK /\ JobsTyped

LEMMA EmptyTypes ==
  NoDoc \in DocFile /\ NoRecord \in SessionFile /\ NoReview \in ReviewFile
BY DEF NoDoc, DocFile, NoRecord, SessionFile, NoReview, ReviewFile

LEMMA IdleType == Idle \in Job
BY EmptyTypes DEF Idle, Job, Steps, Ops

\* A process takes up a job that is well typed.
LEMMA MoveType ==
  ASSUME JobsTyped, NEW p \in Procs, NEW j \in Job,
         job' = [job EXCEPT ![p] = j],
         j.step # "idle" => j.sess \in Owner[p],
         j.step \in RefSteps => j.ref \in DocIds
  PROVE  JobsTyped'
<1>1. job \in [Procs -> Job] /\ \A q \in Procs : JobTyped(q)
  BY DEF JobsTyped
<1>2. job'[p] = j /\ \A q \in Procs : q # p => job'[q] = job[q]
  BY <1>1
<1>3. job' \in [Procs -> Job]
  BY <1>1
<1>4. \A q \in Procs : JobTyped(q)'
  BY <1>1, <1>2 DEF JobTyped
<1> QED BY <1>3, <1>4 DEF JobsTyped

LEMMA ExitType ==
  ASSUME JobsTyped, NEW p \in Procs, Exit(p)
  PROVE  JobsTyped'
<1>1. Idle.step = "idle"
  BY DEF Idle
<1> QED BY <1>1, IdleType, MoveType DEF Exit, RefSteps

LEMMA GotoType ==
  ASSUME JobsTyped, NEW p \in Procs, NEW step \in Steps, Goto(p, step),
         job[p].step # "idle",
         step \in RefSteps => job[p].ref \in DocIds
  PROVE  JobsTyped'
<1> DEFINE j == [job[p] EXCEPT !.step = step]
<1>1. job[p] \in Job /\ job[p].sess \in Owner[p]
  BY DEF JobsTyped, JobTyped
<1>2. j \in Job
  BY <1>1, Zenon DEF Job
<1>3. j.step = step /\ j.sess = job[p].sess /\ j.ref = job[p].ref
  BY <1>1 DEF Job
<1>4. job' = [job EXCEPT ![p] = j]
  BY DEF Goto
<1> HIDE DEF j
<1> QED BY <1>1, <1>2, <1>3, <1>4, MoveType

LEMMA StartType ==
  ASSUME TypeInv, NEW p \in Procs, NEW s \in Sessions, NEW c, NEW j \in Job,
         Start(p, s, c, j),
         j.step \in RefSteps => j.ref \in DocIds
  PROVE  JobsTyped' /\ commands' \in Nat
<1> DEFINE k == [j EXCEPT !.n = commands + 1, !.sess = s]
<1>1. commands + 1 \in Nat /\ commands' = commands + 1
  BY DEF TypeInv, TypeOK, Start
<1>2. k \in Job
  <2>1. s \in Sessions \cup {NoSession}
    OBVIOUS
  <2> QED BY <1>1, <2>1, Zenon DEF Job
<1>3. job' = [job EXCEPT ![p] = k] /\ s \in Owner[p]
  BY DEF Start
<1>4. k.step = j.step /\ k.sess = s /\ k.ref = j.ref
  BY DEF Job
<1> HIDE DEF k
<1>5. JobsTyped'
  BY <1>2, <1>3, <1>4, MoveType DEF TypeInv
<1> QED BY <1>1, <1>5

\* Most commands do nothing more than that in their first step.
LEMMA StartOnlyType ==
  ASSUME TypeInv, NEW p \in Procs, NEW s \in Sessions, NEW c, NEW j \in Job,
         Start(p, s, c, j),
         j.step \in RefSteps => j.ref \in DocIds,
         UNCHANGED <<now, files, crashes, ghosts>>
  PROVE  TypeInv'
<1>1. JobsTyped' /\ commands' \in Nat
  BY StartType
<1> QED BY <1>1 DEF files, ghosts, TypeInv, TypeOK, JobsTyped

-----------------------------------------------------------------------------
LEMMA BeginType ==
  ASSUME TypeInv, NEW p \in Procs, Begin(p)
  PROVE  TypeInv'
<1>1. ASSUME NEW s \in Sessions, SessionStart(p, s) PROVE TypeInv'
  <2>1. JobsTyped' /\ commands' \in Nat
    BY <1>1, IdleType, StartType DEF SessionStart, Idle, RefSteps
  <2>2. [present |-> TRUE, opened |-> commands + 1, lines |-> {}] \in SessionFile
    BY DEF TypeInv, TypeOK, SessionFile
  <2> QED BY <1>1, <2>1, <2>2 DEF SessionStart, TypeInv, TypeOK, JobsTyped
<1>2. ASSUME NEW s \in Sessions, BeginRecap(p, s) PROVE TypeInv'
  <2> DEFINE j == [Idle EXCEPT !.step = "recapWrite", !.rec = sess[s]]
  <2>1. sess[s] \in SessionFile
    BY DEF TypeInv, TypeOK
  <2>2. j \in Job
    BY <2>1, IdleType, Zenon DEF Job, Steps, Ops
  <2>3. j.step = "recapWrite"
    BY IdleType DEF Job, Idle
  <2>4. Start(p, s, "recap", j) /\ UNCHANGED <<now, files, crashes, ghosts>>
    BY <1>2 DEF BeginRecap
  <2> HIDE DEF j
  <2> QED BY <2>2, <2>3, <2>4, StartOnlyType DEF RefSteps
<1>3. ASSUME NEW s \in Sessions, NEW force \in BOOLEAN, BeginClose(p, s, force) PROVE TypeInv'
  <2> DEFINE j == [Idle EXCEPT !.step = IF ~sess[s].present THEN "mint"
                                      ELSE IF force THEN "history" ELSE "gate",
                             !.force = force, !.rec = sess[s],
                             !.loaded = Loaded, !.frozen = Snapshots,
                             !.todo = ToMaterialize(sess[s].lines)]
  <2>1. sess[s] \in SessionFile
    BY DEF TypeInv, TypeOK
  <2>2. ToMaterialize(sess[s].lines) \in SUBSET DocIds
    BY <2>1 DEF ToMaterialize, Refs, SessionFile, LogLine
  <2>3. (IF ~sess[s].present THEN "mint" ELSE IF force THEN "history" ELSE "gate") \in Steps
    BY DEF Steps
  <2>7. Loaded \in SUBSET DocIds /\ Snapshots \in SUBSET DocIds
    BY DEF Loaded, Snapshots
  <2>4. j \in Job
    BY <2>1, <2>2, <2>3, <2>7, IdleType, ZenonT(60) DEF Job, Steps, Ops
  <2>5. j.step \in {"mint", "history", "gate"}
    BY IdleType DEF Job, Idle
  <2>6. Start(p, s, "close", j) /\ UNCHANGED <<now, files, crashes, ghosts>>
    BY <1>3 DEF BeginClose
  <2> HIDE DEF j
  <2> QED BY <2>4, <2>5, <2>6, StartOnlyType DEF RefSteps
<1>4. ASSUME NEW s \in Sessions, NEW arch \in BOOLEAN, BeginNew(p, s, arch)
      PROVE  TypeInv'
  <2> DEFINE doc == [present |-> TRUE, archived |-> arch, born |-> commands + 1,
                     history |-> {}]
             j(d) == [Idle EXCEPT !.step = "docWrite", !.op = "new", !.ref = d,
                                  !.types = {"addition"}, !.doc = doc]
  <2>1. PICK d \in DocIds : Start(p, s, "new", j(d))
    BY <1>4 DEF BeginNew
  <2>2. doc \in DocFile
    BY DEF TypeInv, TypeOK, DocFile
  <2> HIDE DEF doc
  <2>3. d \in DocIds \cup {0} /\ {"addition"} \in SUBSET ChangeTypes
    BY DEF ChangeTypes
  <2>4. j(d) \in Job
    BY <2>2, <2>3, IdleType, Zenon DEF Job, Steps, Ops
  <2>5. j(d).ref = d
    BY IdleType DEF Job, Idle
  <2>6. UNCHANGED <<now, files, crashes, ghosts>>
    BY <1>4 DEF BeginNew
  <2> HIDE DEF j
  <2> QED BY <2>1, <2>4, <2>5, <2>6, StartOnlyType DEF RefSteps
<1>5. ASSUME NEW s \in Sessions, NEW d \in DocIds, BeginNote(p, s, d) PROVE TypeInv'
  <2> DEFINE j == [Idle EXCEPT !.step = "walRead", !.ref = d,
                             !.types = {"revision"}, !.author = TRUE]
  <2>1. d \in DocIds \cup {0} /\ {"revision"} \in SUBSET ChangeTypes
    BY DEF ChangeTypes
  <2>2. j \in Job
    BY <2>1, IdleType, Zenon DEF Job, Steps, Ops
  <2>3. j.ref = d
    BY IdleType DEF Job, Idle
  <2>4. Start(p, s, "note", j) /\ UNCHANGED <<now, files, crashes, ghosts>>
    BY <1>5 DEF BeginNote
  <2> HIDE DEF j
  <2> QED BY <2>2, <2>3, <2>4, StartOnlyType DEF RefSteps
<1>6. ASSUME NEW s \in Sessions, NEW d \in DocIds, NEW e \in Edits, BeginChange(p, s, d, e) PROVE TypeInv'
  <2> DEFINE j == [Idle EXCEPT !.step = "docWrite", !.ref = d,
                             !.types = e.types, !.author = e.author,
                             !.doc = [docs[d] EXCEPT !.archived = e.retires]]
  <2>1. d \in DocIds \cup {0}
    OBVIOUS
  <2>2. e.types \in SUBSET ChangeTypes /\ e.author \in BOOLEAN /\ e.retires \in BOOLEAN
    BY EditsAssumption
  <2>3. docs[d] \in DocFile
    BY DEF TypeInv, TypeOK
  <2>4. [docs[d] EXCEPT !.archived = e.retires] \in DocFile
    BY <2>2, <2>3, Zenon DEF DocFile
  <2>5. j \in Job
    BY <2>1, <2>2, <2>3, <2>4, IdleType, Zenon DEF Job, Steps, Ops
  <2>6. j.ref = d
    BY IdleType DEF Job, Idle
  <2>7. Start(p, s, "change", j) /\ UNCHANGED <<now, files, crashes, ghosts>>
    BY <1>6 DEF BeginChange
  <2> HIDE DEF j
  <2> QED BY <2>5, <2>6, <2>7, StartOnlyType DEF RefSteps
<1>7. ASSUME NEW s \in Sessions, NEW d \in DocIds, NEW e \in Edits, BeginRm(p, s, d, e) PROVE TypeInv'
  <2> DEFINE j == [Idle EXCEPT !.step = "unlink", !.op = "rm", !.ref = d,
                             !.types = {"deletion"}, !.author = e.author]
  <2>1. d \in DocIds \cup {0} /\ {"deletion"} \in SUBSET ChangeTypes
    BY DEF ChangeTypes
  <2>2. e.author \in BOOLEAN
    BY EditsAssumption
  <2>3. j \in Job
    BY <2>1, <2>2, IdleType, Zenon DEF Job, Steps, Ops
  <2>4. j.ref = d
    BY IdleType DEF Job, Idle
  <2>5. Start(p, s, "rm", j) /\ UNCHANGED <<now, files, crashes, ghosts>>
    BY <1>7 DEF BeginRm
  <2> HIDE DEF j
  <2> QED BY <2>3, <2>4, <2>5, StartOnlyType DEF RefSteps
<1>8. ASSUME NEW group \in SUBSET Sessions, BeginMerge(p, group) PROVE TypeInv'
  <2> DEFINE rec(t) == [sess[t] EXCEPT !.lines = UNION {sess[s].lines : s \in group}]
             todo == {d \in DocIds : docs[d].present}
             j(t) == [Idle EXCEPT !.step = "mergeWrite",
                                  !.others = group \ {t}, !.fold = group \ {t},
                                  !.todo = todo, !.rec = rec(t)]
  <2>1. PICK t \in group : Start(p, t, "merge", j(t))
    BY <1>8 DEF BeginMerge
  <2>2. \A s \in Sessions : sess[s] \in SessionFile
    BY DEF TypeInv, TypeOK
  <2>3. UNION {sess[s].lines : s \in group} \in SUBSET LogLine
    BY <2>2 DEF SessionFile
  <2>4. rec(t) \in SessionFile
    BY <2>2, <2>3, Zenon DEF SessionFile
  <2>5. group \ {t} \in SUBSET Sessions /\ todo \in SUBSET DocIds
    OBVIOUS
  <2> HIDE DEF rec, todo
  <2>6. j(t) \in Job
    BY <2>4, <2>5, IdleType, Zenon DEF Job, Steps
  <2>7. j(t).step = "mergeWrite"
    BY IdleType DEF Job, Idle
  <2>8. UNCHANGED <<now, files, crashes, ghosts>>
    BY <1>8 DEF BeginMerge
  <2> HIDE DEF j
  <2> QED BY <2>1, <2>6, <2>7, <2>8, StartOnlyType DEF RefSteps
<1> QED BY <1>1, <1>2, <1>3, <1>4, <1>5, <1>6, <1>7, <1>8 DEF Begin

-----------------------------------------------------------------------------
LEMMA RunningType ==
  ASSUME TypeInv, NEW p \in Procs, job[p].step # "idle"
  PROVE  /\ job[p] \in Job
         /\ job[p].sess \in Sessions
         /\ job[p].n \in Nat /\ job[p].doc \in DocFile /\ job[p].rec \in SessionFile
         /\ job[p].todo \in SUBSET DocIds /\ job[p].fold \in SUBSET Sessions
         /\ job[p].others \in SUBSET Sessions
<1>1. job[p] \in Job
  BY DEF TypeInv, JobsTyped
<1>2. job[p].sess \in Sessions
  BY OwnerAssumption DEF TypeInv, JobsTyped, JobTyped
<1> QED BY <1>1, <1>2 DEF Job

LEMMA OverlapsType ==
  ASSUME TypeInv, NEW others, NEW lines \in SUBSET LogLine, Overlaps(others, lines)
  PROVE  overlapped' \subseteq Nat
<1>1. \A l \in lines : l.n \in Nat
  BY DEF LogLine
<1>2. overlapped \subseteq Nat
  BY DEF TypeInv, TypeOK
<1> QED BY <1>1, <1>2 DEF Overlaps

LEMMA ChangingType ==
  ASSUME TypeInv, NEW p \in Procs,
         DocWrite(p) \/ Unlink(p) \/ WalRead(p) \/ WalWrite(p) \/ RollBackNew(p)
  PROVE  TypeInv'
<1>1. job[p].step # "idle" /\ job[p].ref \in DocIds
  BY DEF DocWrite, Unlink, WalRead, WalWrite, RollBackNew, At, RefSteps, TypeInv,
         JobsTyped, JobTyped
<1>2. JobsTyped
  BY DEF TypeInv
<1>3. ASSUME DocWrite(p) PROVE TypeInv'
  <2>1. docs' \in [DocIds -> DocFile]
    BY <1>1, <1>3, RunningType DEF DocWrite, TypeInv, TypeOK
  <2>2. Exit(p) \/ Goto(p, "walRead")
    BY <1>3 DEF DocWrite
  <2>3. JobsTyped'
    BY <1>1, <1>2, <2>2, ExitType, GotoType DEF Steps, RefSteps
  <2> QED BY <1>3, <2>1, <2>3 DEF DocWrite, TypeInv, TypeOK, JobsTyped
<1>4. ASSUME Unlink(p) PROVE TypeInv'
  <2>1. docs' \in [DocIds -> DocFile]
    BY <1>4, EmptyTypes DEF Unlink, TypeInv, TypeOK
  <2>2. Exit(p) \/ Goto(p, "walRead")
    BY <1>4 DEF Unlink
  <2>3. JobsTyped'
    BY <1>1, <1>2, <2>2, ExitType, GotoType DEF Steps
  <2> QED BY <1>4, <2>1, <2>3 DEF Unlink, TypeInv, TypeOK, JobsTyped
<1>5. ASSUME WalRead(p) PROVE TypeInv'
  <2>1. OpenRecord(p) \in SessionFile
    BY <1>1, RunningType DEF OpenRecord, SessionFile, TypeInv, TypeOK
  <2>2. sess' \in [Sessions -> SessionFile] /\ minted' \subseteq Sessions
    BY <1>1, <1>5, <2>1, RunningType DEF WalRead, TypeInv, TypeOK
  <2> DEFINE j == [job[p] EXCEPT !.step = "walWrite", !.rec = OpenRecord(p)]
  <2>3. job' = [job EXCEPT ![p] = j]
    BY <1>5 DEF WalRead
  <2>4. j \in Job
    <3>1. job[p] \in Job /\ "walWrite" \in Steps
      BY <1>1, RunningType DEF Steps
    <3> QED BY <2>1, <3>1, Zenon DEF Job
  <2>5. j.sess = job[p].sess /\ j.ref = job[p].ref
    BY <1>1, RunningType DEF Job
  <2> HIDE DEF j
  <2>6. job[p].sess \in Owner[p]
    BY <1>1 DEF TypeInv, JobsTyped, JobTyped
  <2>7. JobsTyped'
    BY <1>1, <1>2, <2>3, <2>4, <2>5, <2>6, MoveType
  <2> QED BY <1>5, <2>2, <2>7 DEF WalRead, TypeInv, TypeOK, JobsTyped
<1>6. ASSUME WalWrite(p) PROVE TypeInv'
  <2>1. LineOf(p) \in LogLine
    BY <1>1, RunningType DEF LineOf, LogLine, Job
  <2>2. [job[p].rec EXCEPT !.lines = @ \cup {LineOf(p)}] \in SessionFile
    BY <1>1, <2>1, RunningType DEF SessionFile
  <2>3. sess' \in [Sessions -> SessionFile] /\ acked' \subseteq Nat
    BY <1>1, <1>6, <2>2, RunningType DEF WalWrite, TypeInv, TypeOK
  <2>5. overlapped' \subseteq Nat
    BY <1>6, <2>1, OverlapsType DEF WalWrite
  <2>4. JobsTyped'
    BY <1>2, <1>6, ExitType DEF WalWrite
  <2> QED BY <1>6, <2>3, <2>4, <2>5 DEF WalWrite, TypeInv, TypeOK, JobsTyped
<1>7. ASSUME RollBackNew(p) PROVE TypeInv'
  <2>1. docs' \in [DocIds -> DocFile]
    BY <1>7, EmptyTypes DEF RollBackNew, TypeInv, TypeOK
  <2>2. JobsTyped'
    BY <1>2, <1>7, ExitType DEF RollBackNew
  <2> QED BY <1>7, <2>1, <2>2 DEF RollBackNew, TypeInv, TypeOK, JobsTyped
<1> QED BY <1>3, <1>4, <1>5, <1>6, <1>7

LEMMA ClosingType ==
  ASSUME TypeInv, NEW p \in Procs,
         RecapWrite(p) \/ Gate(p) \/ HistoryRead(p) \/ HistoryWrite(p)
           \/ HistoryDone(p) \/ Mint(p) \/ ReviewWrite(p) \/ Delete(p)
  PROVE  TypeInv'
<1>1. job[p].step # "idle"
  BY DEF RecapWrite, Gate, HistoryRead, HistoryWrite, HistoryDone, Mint,
         ReviewWrite, Delete, At
<1>2. JobsTyped /\ job[p].sess \in Owner[p]
  BY <1>1 DEF TypeInv, JobsTyped, JobTyped
<1>3. ASSUME UNCHANGED <<now, files, commands, crashes, ghosts>>, JobsTyped'
      PROVE  TypeInv'
  BY <1>3 DEF files, ghosts, TypeInv, TypeOK, JobsTyped
<1>4. ASSUME RecapWrite(p) PROVE TypeInv'
  <2>1. sess' \in [Sessions -> SessionFile]
    BY <1>1, <1>4, RunningType DEF RecapWrite, TypeInv, TypeOK
  <2>2. JobsTyped'
    BY <1>2, <1>4, ExitType DEF RecapWrite
  <2> QED BY <1>4, <2>1, <2>2 DEF RecapWrite, ghosts, TypeInv, TypeOK, JobsTyped
<1>5. ASSUME Gate(p) PROVE TypeInv'
  <2>1. Exit(p) \/ Goto(p, "history")
    BY <1>5 DEF Gate
  <2>2. JobsTyped'
    BY <1>1, <1>2, <2>1, ExitType, GotoType DEF Steps, RefSteps
  <2> QED BY <1>3, <1>5, <2>2 DEF Gate
<1>6. ASSUME HistoryRead(p) PROVE TypeInv'
  <2>1. PICK d \in DocIds :
          \/ Exit(p)
          \/ job' = [job EXCEPT ![p].todo = @ \ {d}]
          \/ job' = [job EXCEPT ![p].step = "historyWrite", ![p].ref = d,
                                ![p].doc = docs[d]]
    BY <1>6 DEF HistoryRead
  <2>2. CASE Exit(p)
    BY <1>2, <1>3, <1>6, <2>2, ExitType DEF HistoryRead
  <2>3. CASE job' = [job EXCEPT ![p].todo = @ \ {d}]
    <3> DEFINE j == [job[p] EXCEPT !.todo = job[p].todo \ {d}]
    <3>1. job' = [job EXCEPT ![p] = j]
      BY <2>3
    <3>2. job[p].todo \ {d} \in SUBSET DocIds
      BY <1>1, RunningType
    <3>3. j \in Job
      BY <1>1, <3>2, RunningType, SMTT(60) DEF Job
    <3>4. j.step = job[p].step /\ j.sess = job[p].sess /\ job[p].step = "history"
      BY <1>1, <1>6, RunningType DEF Job, HistoryRead, At
    <3> HIDE DEF j
    <3>5. JobsTyped'
      BY <1>2, <3>1, <3>3, <3>4, MoveType DEF RefSteps
    <3> QED BY <1>3, <1>6, <3>5 DEF HistoryRead
  <2>4. CASE job' = [job EXCEPT ![p].step = "historyWrite", ![p].ref = d,
                                ![p].doc = docs[d]]
    <3> DEFINE j == [job[p] EXCEPT !.step = "historyWrite", !.ref = d, !.doc = docs[d]]
    <3>1. job' = [job EXCEPT ![p] = j]
      BY <2>4
    <3>2. docs[d] \in DocFile /\ d \in DocIds \cup {0}
      BY DEF TypeInv, TypeOK
    <3>3. j \in Job
      <4>1. job[p] \in Job /\ "historyWrite" \in Steps
        BY <1>1, RunningType DEF Steps
      <4> QED BY <3>2, <4>1, Zenon DEF Job
    <3>4. j.step = "historyWrite" /\ j.sess = job[p].sess
      BY <1>1, RunningType DEF Job
    <3> HIDE DEF j
    <3>5. JobsTyped'
      BY <1>2, <3>1, <3>3, <3>4, MoveType DEF RefSteps
    <3> QED BY <1>3, <1>6, <3>5 DEF HistoryRead
  <2> QED BY <2>1, <2>2, <2>3, <2>4
<1>7. ASSUME HistoryWrite(p) PROVE TypeInv'
  <2>1. EntryOf(p) \in HistoryEntry
    BY <1>1, RunningType DEF EntryOf, HistoryEntry, SessionFile
  <2>2. [job[p].doc EXCEPT !.history = @ \cup {EntryOf(p)}] \in DocFile
    BY <1>1, <2>1, RunningType DEF DocFile
  <2>3. docs' \in [DocIds -> DocFile]
    BY <1>7, <2>2 DEF HistoryWrite, TypeInv, TypeOK
  <2> DEFINE j == [job[p] EXCEPT !.step = "history", !.doc = NoDoc,
                                 !.loaded = Loaded', !.frozen = Snapshots',
                                 !.todo = job[p].todo \ {job[p].ref}]
  <2>4. job' = [job EXCEPT ![p] = j]
    BY <1>7 DEF HistoryWrite
  <2>5. /\ job[p].todo \ {job[p].ref} \in SUBSET DocIds
        /\ Loaded' \in SUBSET DocIds /\ Snapshots' \in SUBSET DocIds
    BY <1>1, RunningType DEF Loaded, Snapshots
  <2>6. j \in Job
    <3>1. job[p] \in Job /\ "history" \in Steps
      BY <1>1, RunningType DEF Steps
    <3> QED BY <2>5, <3>1, EmptyTypes, Zenon DEF Job
  <2>7. j.step = "history" /\ j.sess = job[p].sess
    BY <1>1, RunningType DEF Job
  <2> HIDE DEF j
  <2>8. JobsTyped'
    BY <1>2, <2>4, <2>6, <2>7, MoveType DEF RefSteps
  <2> QED BY <1>7, <2>3, <2>8 DEF HistoryWrite, ghosts, TypeInv, TypeOK, JobsTyped
<1>8. ASSUME HistoryDone(p) PROVE TypeInv'
  <2>1. JobsTyped'
    BY <1>1, <1>2, <1>8, GotoType DEF HistoryDone, Steps, RefSteps
  <2> QED BY <1>3, <1>8, <2>1 DEF HistoryDone
<1>9. ASSUME Mint(p) PROVE TypeInv'
  <2> DEFINE j(r) == [job[p] EXCEPT !.step = "reviewWrite", !.ref = r]
  <2>1. PICK r \in DocIds : job' = [job EXCEPT ![p] = j(r)]
    BY <1>9 DEF Mint
  <2>2. r \in DocIds \cup {0}
    OBVIOUS
  <2>3. j(r) \in Job
    <3>1. job[p] \in Job /\ "reviewWrite" \in Steps
      BY <1>1, RunningType DEF Steps
    <3> QED BY <2>2, <3>1, Zenon DEF Job
  <2>4. j(r).ref = r /\ j(r).sess = job[p].sess
    BY <1>1, RunningType DEF Job
  <2> HIDE DEF j
  <2>5. JobsTyped'
    BY <1>2, <2>1, <2>3, <2>4, MoveType
  <2> QED BY <1>3, <1>9, <2>5 DEF Mint
<1>10. ASSUME ReviewWrite(p) PROVE TypeInv'
  <2> DEFINE review == [present |-> TRUE, sess |-> job[p].sess, by |-> job[p].n,
               lines |-> job[p].rec.lines, forced |-> job[p].force,
               legacy |-> ~job[p].rec.present]
  <2>1. job[p].rec.lines \in SUBSET LogLine /\ job[p].rec.present \in BOOLEAN
          /\ job[p].force \in BOOLEAN
    BY <1>1, RunningType DEF SessionFile, Job
  <2>2. review \in ReviewFile
    BY <1>1, <2>1, RunningType DEF ReviewFile
  <2> HIDE DEF review
  <2>3. reviews' \in [DocIds -> ReviewFile]
    <3>1. reviews' = [reviews EXCEPT ![job[p].ref] = review]
      BY <1>10 DEF ReviewWrite, review
    <3> QED BY <2>2, <3>1 DEF TypeInv, TypeOK
  <2>4. overlapped' \subseteq Nat
    BY <1>10, <2>1, OverlapsType DEF ReviewWrite
  <2>5. Exit(p) \/ Goto(p, "delete")
    BY <1>10 DEF ReviewWrite
  <2>6. JobsTyped'
    BY <1>1, <1>2, <2>5, ExitType, GotoType DEF Steps, RefSteps
  <2> QED BY <1>10, <2>3, <2>4, <2>6 DEF ReviewWrite, TypeInv, TypeOK, JobsTyped
<1>11. ASSUME Delete(p) PROVE TypeInv'
  <2>1. sess' \in [Sessions -> SessionFile]
    BY <1>11, EmptyTypes DEF Delete, TypeInv, TypeOK
  <2>2. JobsTyped'
    BY <1>2, <1>11, ExitType DEF Delete
  <2> QED BY <1>11, <2>1, <2>2 DEF Delete, ghosts, TypeInv, TypeOK, JobsTyped
<1> QED BY <1>4, <1>5, <1>6, <1>7, <1>8, <1>9, <1>10, <1>11

LEMMA MergingType ==
  ASSUME TypeInv, NEW p \in Procs,
         MergeWrite(p) \/ MergeDelete(p) \/ Retag(p) \/ RetagWrite(p) \/ RetagDone(p)
  PROVE  TypeInv'
<1>1. job[p].step # "idle"
  BY DEF MergeWrite, MergeDelete, Retag, RetagWrite, RetagDone, At
<1>2. JobsTyped /\ job[p].sess \in Owner[p] /\ job[p] \in Job
  BY <1>1 DEF TypeInv, JobsTyped, JobTyped
<1>3. ASSUME UNCHANGED <<now, files, commands, crashes, ghosts>>, JobsTyped'
      PROVE  TypeInv'
  BY <1>3 DEF files, ghosts, TypeInv, TypeOK, JobsTyped
<1>4. ASSUME MergeWrite(p) PROVE TypeInv'
  <2>1. sess' \in [Sessions -> SessionFile]
    BY <1>1, <1>4, RunningType DEF MergeWrite, TypeInv, TypeOK
  <2>2. JobsTyped'
    BY <1>1, <1>2, <1>4, GotoType DEF MergeWrite, Steps, RefSteps
  <2>3. overlapped' \subseteq Nat
    <3>1. job[p].rec.lines \in SUBSET LogLine
      BY <1>1, RunningType DEF SessionFile
    <3> QED BY <1>4, <3>1, OverlapsType DEF MergeWrite
  <2> QED BY <1>4, <2>1, <2>2, <2>3 DEF MergeWrite, TypeInv, TypeOK, JobsTyped
<1>5. ASSUME MergeDelete(p) PROVE TypeInv'
  <2> DEFINE next(s) == IF job[p].fold = {s} THEN "retag" ELSE job[p].step
             j(s) == [job[p] EXCEPT !.fold = job[p].fold \ {s}, !.step = next(s)]
  <2>1. PICK s \in job[p].fold : /\ sess' = [sess EXCEPT ![s] = NoRecord]
                                 /\ job' = [job EXCEPT ![p] = j(s)]
    BY <1>5, ZenonT(60) DEF MergeDelete
  <2>2. sess' \in [Sessions -> SessionFile]
    BY <2>1, EmptyTypes DEF TypeInv, TypeOK
  <2>3. next(s) \in {"retag", "mergeDelete"} /\ next(s) \in Steps
    BY <1>5 DEF MergeDelete, At, Steps
  <2>4. job[p].fold \ {s} \in SUBSET Sessions
    BY <1>1, RunningType
  <2> HIDE DEF next
  <2>5. j(s) \in Job
    BY <1>2, <2>3, <2>4, Zenon DEF Job
  <2>6. j(s).step = next(s) /\ j(s).sess = job[p].sess
    BY <1>2 DEF Job
  <2> HIDE DEF j
  <2>7. JobsTyped'
    BY <1>2, <2>1, <2>3, <2>5, <2>6, MoveType DEF RefSteps
  <2> QED BY <1>5, <2>2, <2>7 DEF MergeDelete, ghosts, TypeInv, TypeOK, JobsTyped
<1>6. ASSUME Retag(p) PROVE TypeInv'
  <2>1. PICK d \in job[p].todo :
          \/ Exit(p)
          \/ job' = [job EXCEPT ![p].todo = @ \ {d}]
          \/ job' = [job EXCEPT ![p].step = "retagWrite", ![p].ref = d,
                                ![p].doc = docs[d]]
    BY <1>6 DEF Retag
  <2>2. CASE Exit(p)
    BY <1>2, <1>3, <1>6, <2>2, ExitType DEF Retag
  <2>3. CASE job' = [job EXCEPT ![p].todo = @ \ {d}]
    <3> DEFINE j == [job[p] EXCEPT !.todo = job[p].todo \ {d}]
    <3>1. job' = [job EXCEPT ![p] = j]
      BY <2>3
    <3>2. job[p].todo \ {d} \in SUBSET DocIds
      BY <1>1, RunningType
    <3>3. j \in Job
      BY <1>2, <3>2, Zenon DEF Job
    <3>4. j.step = "retag" /\ j.sess = job[p].sess
      BY <1>2, <1>6 DEF Job, Retag, At
    <3> HIDE DEF j
    <3>5. JobsTyped'
      BY <1>2, <3>1, <3>3, <3>4, MoveType DEF RefSteps
    <3> QED BY <1>3, <1>6, <3>5 DEF Retag
  <2>4. CASE job' = [job EXCEPT ![p].step = "retagWrite", ![p].ref = d,
                                ![p].doc = docs[d]]
    <3> DEFINE j == [job[p] EXCEPT !.step = "retagWrite", !.ref = d, !.doc = docs[d]]
    <3>1. job' = [job EXCEPT ![p] = j]
      BY <2>4
    <3>2. docs[d] \in DocFile /\ d \in DocIds \cup {0} /\ "retagWrite" \in Steps
      BY <1>1, RunningType DEF TypeInv, TypeOK, Steps
    <3>3. j \in Job
      BY <1>2, <3>2, Zenon DEF Job
    <3>4. j.step = "retagWrite" /\ j.sess = job[p].sess
      BY <1>2 DEF Job
    <3> HIDE DEF j
    <3>5. JobsTyped'
      BY <1>2, <3>1, <3>3, <3>4, MoveType DEF RefSteps
    <3> QED BY <1>3, <1>6, <3>5 DEF Retag
  <2> QED BY <2>1, <2>2, <2>3, <2>4
<1>7. ASSUME RetagWrite(p) PROVE TypeInv'
  <2>1. Restamped(p, job[p].doc.history) \in SUBSET HistoryEntry
    <3>1. job[p].doc.history \in SUBSET HistoryEntry /\ job[p].rec.opened \in Nat
      BY <1>1, RunningType DEF DocFile, SessionFile
    <3>2. job[p].sess \in Sessions
      BY <1>1, RunningType
    <3> QED BY <3>1, <3>2 DEF Restamped, HistoryEntry
  <2>2. [job[p].doc EXCEPT !.history = Restamped(p, @)] \in DocFile
    BY <1>1, <2>1, RunningType DEF DocFile
  <2>3. docs' \in [DocIds -> DocFile]
    BY <1>7, <2>2 DEF RetagWrite, TypeInv, TypeOK
  <2> DEFINE j == [job[p] EXCEPT !.step = "retag", !.doc = NoDoc,
                                 !.todo = job[p].todo \ {job[p].ref}]
  <2>4. job' = [job EXCEPT ![p] = j]
    BY <1>7 DEF RetagWrite
  <2>5. job[p].todo \ {job[p].ref} \in SUBSET DocIds /\ "retag" \in Steps
    BY <1>1, RunningType DEF Steps
  <2>6. j \in Job
    BY <1>2, <2>5, EmptyTypes, Zenon DEF Job
  <2>7. j.step = "retag" /\ j.sess = job[p].sess
    BY <1>2 DEF Job
  <2> HIDE DEF j
  <2>8. JobsTyped'
    BY <1>2, <2>4, <2>6, <2>7, MoveType DEF RefSteps
  <2> QED BY <1>7, <2>3, <2>8 DEF RetagWrite, ghosts, TypeInv, TypeOK, JobsTyped
<1>8. ASSUME RetagDone(p) PROVE TypeInv'
  BY <1>2, <1>3, <1>8, ExitType DEF RetagDone
<1> QED BY <1>4, <1>5, <1>6, <1>7, <1>8

LEMMA TypeInit == Init => TypeInv
<1> SUFFICES ASSUME Init PROVE TypeInv
  OBVIOUS
<1>1. [NoDoc EXCEPT !.present = TRUE] \in DocFile
  BY EmptyTypes, Zenon DEF DocFile
<1>2. docs \in [DocIds -> DocFile]
  BY <1>1, EmptyTypes DEF Init
<1>3. \A p \in Procs : job[p].step = "idle"
  BY DEF Init, Idle
<1>4. JobsTyped
  BY <1>3, IdleType DEF Init, JobsTyped, JobTyped, RefSteps
<1> QED BY <1>2, <1>4, EmptyTypes, TimeAssumption DEF Init, TypeInv, TypeOK, JobsTyped

LEMMA TypeStep == TypeInv /\ [Next]_vars => TypeInv'
<1> SUFFICES ASSUME TypeInv, [Next]_vars PROVE TypeInv'
  OBVIOUS
<1>1. ASSUME NEW p \in Procs, Continue(p) PROVE TypeInv'
  BY <1>1, ChangingType, ClosingType, MergingType DEF Continue
<1>2. ASSUME NEW p \in Procs, Crash(p) PROVE TypeInv'
  <2>1. JobsTyped'
    BY <1>2, ExitType DEF Crash, TypeInv
  <2> QED BY <1>2, <2>1 DEF Crash, files, ghosts, TypeInv, TypeOK, JobsTyped
<1>3. CASE Tick
  BY <1>3 DEF Tick, files, ghosts, TypeInv, TypeOK, JobsTyped, JobTyped
<1>4. CASE UNCHANGED vars
  BY <1>4 DEF vars, TypeInv, TypeOK, JobsTyped, JobTyped
<1> QED BY <1>1, <1>2, <1>3, <1>4, BeginType DEF Next

\* Every variable keeps the type of what it stands for; in particular every
\* line that reaches a log names a document id.
THEOREM TypeCorrect == Spec => []TypeOK
<1>1. TypeInv => TypeOK
  BY DEF TypeInv
<1> QED BY <1>1, TypeInit, TypeStep, PTL DEF Spec

-----------------------------------------------------------------------------
(* Sessions that no two processes share *)

Isolated == \A p, q \in Procs : p # q => Owner[p] \cap Owner[q] = {}

ClosingSteps == {"gate", "history", "historyWrite", "mint", "reviewWrite"}

Pending(l) == \E s \in Sessions : l \in sess[s].lines

\* Only a record that is there has lines, and its session was handed out.
RecordsSound ==
  \A s \in Sessions : /\ sess[s].lines # {} => sess[s].present
                      /\ sess[s].present => s \in minted

\* What a command read of its session's record is still what the file says,
\* when it comes to writing or deleting the file.
CloseInMemory(p) ==
  /\ job[p].step \in ClosingSteps \cup {"delete"} => job[p].rec = sess[job[p].sess]
  /\ job[p].step \in ClosingSteps \ {"gate"} /\ ~job[p].force
       => Gaps(job[p].rec.lines) = {}

MergeInMemory(p) ==
  /\ job[p].step \in {"mergeWrite", "mergeDelete"}
       => job[p].fold \subseteq Owner[p] /\ job[p].sess \notin job[p].fold
  /\ job[p].step = "mergeWrite" =>
       /\ job[p].rec.present /\ sess[job[p].sess].present
       /\ sess[job[p].sess].lines \subseteq job[p].rec.lines
       /\ \A s \in job[p].fold : sess[s].lines \subseteq job[p].rec.lines
  /\ job[p].step = "mergeDelete" =>
       \A s \in job[p].fold : sess[s].lines \subseteq sess[job[p].sess].lines

InMemory(p) ==
  /\ job[p].step \in {"walWrite", "recapWrite"}
       => job[p].rec = sess[job[p].sess] /\ job[p].rec.present
  /\ CloseInMemory(p)
  /\ MergeInMemory(p)

LogInv ==
  /\ RecordsSound
  /\ \A p \in Procs : InMemory(p)
  /\ ReviewsExplained

FreeSteps == {"idle", "docWrite", "unlink", "walRead", "retag", "retagWrite"}

LEMMA FreeInMemory ==
  ASSUME NEW p \in Procs, job[p].step \in FreeSteps PROVE InMemory(p)
BY DEF FreeSteps, InMemory, CloseInMemory, MergeInMemory, ClosingSteps

LEMMA NoGaps == Gaps({}) = {}
BY DEF Gaps, Refs

\* Another process's step leaves alone what a command holds in memory.
LEMMA OthersInMemory ==
  ASSUME Isolated, TypeInv, NEW p \in Procs,
         \A q \in Procs : InMemory(q),
         \A q \in Procs : q # p => job'[q] = job[q],
         \A s \in Sessions : s \notin Owner[p] => sess'[s] = sess[s],
         InMemory(p)'
  PROVE  \A q \in Procs : InMemory(q)'
<1> SUFFICES ASSUME NEW q \in Procs, q # p PROVE InMemory(q)'
  OBVIOUS
<1>1. job'[q] = job[q] /\ InMemory(q)
  OBVIOUS
<1>2. \A s \in Sessions : s \in Owner[q] => sess'[s] = sess[s]
  BY DEF Isolated
<1>3. CASE job[q].step = "idle"
  BY <1>1, <1>3 DEF InMemory, CloseInMemory, MergeInMemory, ClosingSteps
<1>4. CASE job[q].step # "idle"
  <2>1. job[q].sess \in Sessions /\ sess'[job[q].sess] = sess[job[q].sess]
    BY <1>2, <1>4, RunningType DEF TypeInv, JobsTyped, JobTyped
  <2>2. CloseInMemory(q)'
    BY <1>1, <2>1 DEF InMemory, CloseInMemory
  <2>3. MergeInMemory(q)'
    <3>1. \A s \in job[q].fold : s \in Sessions
      BY <1>4, RunningType
    <3> QED BY <1>1, <1>2, <2>1, <3>1 DEF InMemory, MergeInMemory
  <2> QED BY <1>1, <2>1, <2>2, <2>3 DEF InMemory
<1> QED BY <1>3, <1>4

\* Most steps change no record, no review and no line.
LEMMA QuietStep ==
  ASSUME Isolated, TypeInv, LogInv, NEW p \in Procs,
         UNCHANGED <<sess, reviews, minted>>,
         \A q \in Procs : q # p => job'[q] = job[q],
         InMemory(p)'
  PROVE  LogInv'
<1>1. \A q \in Procs : InMemory(q)'
  BY OthersInMemory DEF LogInv
<1>2. RecordsSound' /\ ReviewsExplained'
  BY DEF LogInv, RecordsSound, ReviewsExplained
<1> QED BY <1>1, <1>2 DEF LogInv

\* A step that ends the command, or leaves it where it holds no record.
LEMMA FreeStep ==
  ASSUME Isolated, TypeInv, LogInv, NEW p \in Procs,
         UNCHANGED <<sess, reviews, minted>>,
         \A q \in Procs : q # p => job'[q] = job[q],
         job'[p].step \in FreeSteps
  PROVE  LogInv'
<1>1. InMemory(p)'
  BY FreeInMemory DEF FreeSteps, InMemory, CloseInMemory, MergeInMemory, ClosingSteps
<1> QED BY <1>1, QuietStep

LEMMA BeginKeeps ==
  ASSUME Isolated, TypeInv, LogInv, NEW p \in Procs, Begin(p)
  PROVE  LogInv'
<1>1. job \in [Procs -> Job]
  BY DEF TypeInv, JobsTyped
<1>2. ASSUME NEW s \in Sessions, SessionStart(p, s) PROVE LogInv'
  <2>1. /\ job'[p].step = "idle"
        /\ \A q \in Procs : q # p => job'[q] = job[q]
        /\ s \in Owner[p]
    BY <1>1, <1>2 DEF SessionStart, Start, Idle
  <2>2. /\ sess'[s] = [present |-> TRUE, opened |-> commands + 1, lines |-> {}]
        /\ \A t \in Sessions : t # s => sess'[t] = sess[t]
        /\ minted' = minted \cup {s}
        /\ UNCHANGED reviews
    BY <1>2 DEF SessionStart, TypeInv, TypeOK
  <2>3. sess[s].lines = {}
    BY <1>2 DEF SessionStart, LogInv, RecordsSound
  <2>4. InMemory(p)'
    BY <2>1 DEF InMemory, CloseInMemory, MergeInMemory, ClosingSteps
  <2>5. \A q \in Procs : InMemory(q)'
    BY <2>1, <2>2, <2>4, OthersInMemory DEF LogInv
  <2>6. RecordsSound' /\ ReviewsExplained'
    BY <2>2 DEF LogInv, RecordsSound, ReviewsExplained
  <2> QED BY <2>5, <2>6 DEF LogInv
<1>3. ASSUME NEW s \in Sessions, BeginRecap(p, s) PROVE LogInv'
  <2>1. /\ job'[p].step = "recapWrite" /\ job'[p].rec = sess[s] /\ job'[p].sess = s
        /\ \A q \in Procs : q # p => job'[q] = job[q]
    BY <1>1, <1>3 DEF BeginRecap, Start, Idle
  <2>2. UNCHANGED <<sess, reviews, minted>> /\ sess[s].present
    BY <1>3 DEF BeginRecap, files, ghosts
  <2>3. InMemory(p)'
    BY <2>1, <2>2 DEF InMemory, CloseInMemory, MergeInMemory, ClosingSteps
  <2> QED BY <2>1, <2>2, <2>3, QuietStep
<1>4. ASSUME NEW s \in Sessions, NEW force \in BOOLEAN, BeginClose(p, s, force)
      PROVE  LogInv'
  <2> DEFINE step == IF ~sess[s].present THEN "mint"
                     ELSE IF force THEN "history" ELSE "gate"
  <2>1. /\ job'[p].step = step /\ job'[p].rec = sess[s] /\ job'[p].sess = s
        /\ job'[p].force = force
        /\ \A q \in Procs : q # p => job'[q] = job[q]
    BY <1>1, <1>4 DEF BeginClose, Start, Idle
  <2>2. UNCHANGED <<sess, reviews, minted>>
    BY <1>4 DEF BeginClose, files, ghosts
  <2>3. ~sess[s].present => Gaps(sess[s].lines) = {}
    BY NoGaps DEF LogInv, RecordsSound
  <2>4. CloseInMemory(p)'
    BY <2>1, <2>2, <2>3 DEF CloseInMemory, ClosingSteps
  <2>5. InMemory(p)'
    BY <2>1, <2>4 DEF InMemory, MergeInMemory
  <2> QED BY <2>1, <2>2, <2>5, QuietStep
<1>5. ASSUME NEW s \in Sessions, NEW arch \in BOOLEAN, BeginNew(p, s, arch)
      PROVE  LogInv'
  <2>1. /\ job'[p].step = "docWrite"
        /\ \A q \in Procs : q # p => job'[q] = job[q]
    BY <1>1, <1>5 DEF BeginNew, Start, Idle
  <2> QED BY <1>5, <2>1, FreeStep DEF BeginNew, files, ghosts, FreeSteps
<1>6. ASSUME NEW s \in Sessions, NEW d \in DocIds, BeginNote(p, s, d) PROVE LogInv'
  <2>1. /\ job'[p].step = "walRead"
        /\ \A q \in Procs : q # p => job'[q] = job[q]
    BY <1>1, <1>6 DEF BeginNote, Start, Idle
  <2> QED BY <1>6, <2>1, FreeStep DEF BeginNote, files, ghosts, FreeSteps
<1>7. ASSUME NEW s \in Sessions, NEW d \in DocIds, NEW e \in Edits,
             BeginChange(p, s, d, e)
      PROVE  LogInv'
  <2>1. /\ job'[p].step = "docWrite"
        /\ \A q \in Procs : q # p => job'[q] = job[q]
    BY <1>1, <1>7 DEF BeginChange, Start, Idle
  <2> QED BY <1>7, <2>1, FreeStep DEF BeginChange, files, ghosts, FreeSteps
<1>8. ASSUME NEW s \in Sessions, NEW d \in DocIds, NEW e \in Edits,
             BeginRm(p, s, d, e)
      PROVE  LogInv'
  <2>1. /\ job'[p].step = "unlink"
        /\ \A q \in Procs : q # p => job'[q] = job[q]
    BY <1>1, <1>8 DEF BeginRm, Start, Idle
  <2> QED BY <1>8, <2>1, FreeStep DEF BeginRm, files, ghosts, FreeSteps
<1>9. ASSUME NEW group \in SUBSET Sessions, BeginMerge(p, group) PROVE LogInv'
  <2> DEFINE rec(t) == [sess[t] EXCEPT !.lines = UNION {sess[s].lines : s \in group}]
  <2>1. PICK t \in group :
          Start(p, t, "merge",
                [Idle EXCEPT !.step = "mergeWrite",
                             !.others = group \ {t}, !.fold = group \ {t},
                             !.todo = {d \in DocIds : docs[d].present},
                             !.rec = rec(t)])
    BY <1>9 DEF BeginMerge
  <2> HIDE DEF rec
  <2>2. /\ job'[p].step = "mergeWrite" /\ job'[p].sess = t
        /\ job'[p].fold = group \ {t} /\ job'[p].rec = rec(t)
        /\ \A q \in Procs : q # p => job'[q] = job[q]
    BY <1>1, <2>1 DEF Start, Idle
  <2>3. sess[t] \in SessionFile /\ sess[t].present
    BY <1>9 DEF BeginMerge, TypeInv, TypeOK
  <2>4. /\ rec(t).present
        /\ \A s \in group : sess[s].lines \subseteq rec(t).lines
    BY <2>3 DEF rec, SessionFile
  <2>5. UNCHANGED <<sess, reviews, minted>> /\ group \subseteq Owner[p]
    BY <1>9 DEF BeginMerge, files, ghosts
  <2>6. MergeInMemory(p)'
    BY <2>2, <2>3, <2>4, <2>5 DEF MergeInMemory
  <2>7. InMemory(p)'
    BY <2>2, <2>6 DEF InMemory, CloseInMemory, ClosingSteps
  <2> QED BY <2>2, <2>5, <2>7, QuietStep
<1> QED BY <1>2, <1>3, <1>4, <1>5, <1>6, <1>7, <1>8, <1>9 DEF Begin

\* The steps that write a record, a review, or what a command remembers of them.
LEMMA LoggingKeeps ==
  ASSUME Isolated, TypeInv, LogInv, NEW p \in Procs,
         WalRead(p) \/ WalWrite(p) \/ RecapWrite(p)
  PROVE  LogInv'
<1> DEFINE s == job[p].sess
<1>1. job[p].step \in {"walRead", "walWrite", "recapWrite"}
  BY DEF WalRead, WalWrite, RecapWrite, At
<1>2. s \in Sessions /\ s \in Owner[p]
  BY <1>1, RunningType DEF TypeInv, JobsTyped, JobTyped
<1>3. job \in [Procs -> Job] /\ sess \in [Sessions -> SessionFile]
  BY DEF TypeInv, TypeOK, JobsTyped
<1>4. ASSUME NEW rec, sess' = [sess EXCEPT ![s] = rec], rec.present,
             s \in minted', minted \subseteq minted', UNCHANGED reviews,
             \A q \in Procs : q # p => job'[q] = job[q],
             InMemory(p)'
      PROVE  LogInv'
  <2>1. sess'[s] = rec /\ \A t \in Sessions : t # s => sess'[t] = sess[t]
    BY <1>2, <1>3, <1>4
  <2>2. \A q \in Procs : InMemory(q)'
    BY <1>2, <1>4, <2>1, OthersInMemory DEF LogInv
  <2>3. RecordsSound' /\ ReviewsExplained'
    BY <1>4, <2>1 DEF LogInv, RecordsSound, ReviewsExplained
  <2> QED BY <2>2, <2>3 DEF LogInv
<1>5. ASSUME WalRead(p) PROVE LogInv'
  <2>1. OpenRecord(p).present
    BY DEF OpenRecord
  <2>2. /\ sess' = [sess EXCEPT ![s] = OpenRecord(p)]
        /\ minted' = minted \cup {s}
        /\ UNCHANGED reviews
    BY <1>5 DEF WalRead
  <2>3. /\ job'[p].step = "walWrite" /\ job'[p].rec = OpenRecord(p) /\ job'[p].sess = s
        /\ \A q \in Procs : q # p => job'[q] = job[q]
    BY <1>3, <1>5 DEF WalRead, Job
  <2>4. sess'[s] = OpenRecord(p)
    BY <1>2, <1>3, <2>2
  <2>5. InMemory(p)'
    BY <2>1, <2>3, <2>4 DEF InMemory, CloseInMemory, MergeInMemory, ClosingSteps
  <2> QED BY <1>4, <2>1, <2>2, <2>3, <2>5
<1>6. ASSUME WalWrite(p) PROVE LogInv'
  <2> DEFINE rec == [job[p].rec EXCEPT !.lines = @ \cup {LineOf(p)}]
  <2>1. job[p].rec = sess[s] /\ sess[s].present
    BY <1>6 DEF WalWrite, At, LogInv, InMemory
  <2>2. rec.present /\ rec.lines = sess[s].lines \cup {LineOf(p)}
    BY <1>2, <1>3, <2>1 DEF SessionFile
  <2>3. /\ sess' = [sess EXCEPT ![s] = rec]
        /\ UNCHANGED <<reviews, minted>>
    BY <1>6 DEF WalWrite
  <2> HIDE DEF rec
  <2>4. job'[p].step = "idle" /\ \A q \in Procs : q # p => job'[q] = job[q]
    BY <1>3, <1>6 DEF WalWrite, Exit, Idle
  <2>5. sess'[s] = rec /\ \A t \in Sessions : t # s => sess'[t] = sess[t]
    BY <1>2, <1>3, <2>3
  <2>7. s \in minted
    BY <1>2, <2>1 DEF LogInv, RecordsSound
  <2>8. InMemory(p)'
    BY <2>4 DEF InMemory, CloseInMemory, MergeInMemory, ClosingSteps
  <2> QED BY <1>4, <2>2, <2>3, <2>4, <2>7, <2>8
<1>7. ASSUME RecapWrite(p) PROVE LogInv'
  <2>1. job[p].rec = sess[s] /\ sess[s].present
    BY <1>7 DEF RecapWrite, At, LogInv, InMemory
  <2>2. sess' = [sess EXCEPT ![s] = job[p].rec] /\ UNCHANGED <<reviews, ghosts>>
    BY <1>7 DEF RecapWrite
  <2>3. job'[p].step = "idle" /\ \A q \in Procs : q # p => job'[q] = job[q]
    BY <1>3, <1>7 DEF RecapWrite, Exit, Idle
  <2>4. s \in minted
    BY <1>2, <2>1 DEF LogInv, RecordsSound
  <2>5. InMemory(p)'
    BY <2>3 DEF InMemory, CloseInMemory, MergeInMemory, ClosingSteps
  <2> QED BY <1>4, <2>1, <2>2, <2>3, <2>4, <2>5 DEF ghosts
<1> QED BY <1>5, <1>6, <1>7

LEMMA ClosingKeeps ==
  ASSUME Isolated, TypeInv, LogInv, NEW p \in Procs,
         Gate(p) \/ HistoryRead(p) \/ HistoryWrite(p) \/ HistoryDone(p) \/ Mint(p)
           \/ ReviewWrite(p) \/ Delete(p)
  PROVE  LogInv'
<1> DEFINE s == job[p].sess
<1>1. job[p].step \in ClosingSteps \cup {"delete"}
  BY DEF Gate, HistoryRead, HistoryWrite, HistoryDone, Mint, ReviewWrite, Delete,
         At, ClosingSteps
<1>2. s \in Sessions /\ s \in Owner[p]
  BY <1>1, RunningType DEF ClosingSteps, TypeInv, JobsTyped, JobTyped
<1>3. job \in [Procs -> Job] /\ sess \in [Sessions -> SessionFile]
        /\ reviews \in [DocIds -> ReviewFile] /\ job[p].ref \in DocIds \cup {0}
  BY DEF TypeInv, TypeOK, JobsTyped, Job
<1>4. job[p].rec = sess[s] /\ InMemory(p)
  BY <1>1 DEF LogInv, InMemory, CloseInMemory
\* The quiet steps go on with the record and the flag they started with.
<1>5. ASSUME UNCHANGED <<sess, reviews, minted>>,
             \A q \in Procs : q # p => job'[q] = job[q],
             \/ job'[p].step = "idle"
             \/ /\ job'[p].step \in ClosingSteps \ {"gate"}
                /\ job'[p].rec = job[p].rec /\ job'[p].sess = s
                /\ job'[p].force = job[p].force
                /\ job[p].force \/ Gaps(job[p].rec.lines) = {}
      PROVE  LogInv'
  <2>1. CASE job'[p].step = "idle"
    BY <1>5, <2>1, FreeStep DEF FreeSteps
  <2>2. CASE job'[p].step \in ClosingSteps \ {"gate"}
    <3>1. CloseInMemory(p)'
      BY <1>4, <1>5, <2>2 DEF CloseInMemory, ClosingSteps
    <3>2. InMemory(p)'
      BY <2>2, <3>1 DEF InMemory, MergeInMemory, ClosingSteps
    <3> QED BY <1>5, <3>2, QuietStep
  <2> QED BY <1>5, <2>1, <2>2
<1>6. ASSUME Gate(p) PROVE LogInv'
  <2>1. UNCHANGED <<sess, reviews, minted>>
    BY <1>6 DEF Gate, files, ghosts
  <2>2. CASE Gaps(sess[s].lines) = {}
    <3>1. Goto(p, "history")
      BY <1>6, <2>2 DEF Gate
    <3>2. /\ job'[p].step = "history" /\ job'[p].rec = job[p].rec
          /\ job'[p].sess = s /\ job'[p].force = job[p].force
          /\ \A q \in Procs : q # p => job'[q] = job[q]
      BY <1>3, <3>1 DEF Goto, Job
    <3> QED BY <1>4, <1>5, <2>1, <2>2, <3>2 DEF ClosingSteps
  <2>3. CASE Gaps(sess[s].lines) # {}
    <3>1. job'[p].step = "idle" /\ \A q \in Procs : q # p => job'[q] = job[q]
      BY <1>3, <1>6, <2>3 DEF Gate, Exit, Idle
    <3> QED BY <1>5, <2>1, <3>1
  <2> QED BY <2>2, <2>3
<1>7. ASSUME HistoryRead(p) \/ HistoryWrite(p) \/ HistoryDone(p) \/ Mint(p)
      PROVE  LogInv'
  <2>1. UNCHANGED <<sess, reviews, minted>>
    BY <1>7 DEF HistoryRead, HistoryWrite, HistoryDone, Mint, files, ghosts
  <2>2. job[p].force \/ Gaps(job[p].rec.lines) = {}
    BY <1>4, <1>7 DEF HistoryRead, HistoryWrite, HistoryDone, Mint, At,
       ClosingSteps, InMemory, CloseInMemory
  <2>3. \/ Exit(p)
        \/ /\ job'[p].step \in ClosingSteps \ {"gate"}
           /\ job'[p].rec = job[p].rec /\ job'[p].sess = s
           /\ job'[p].force = job[p].force
           /\ \A q \in Procs : q # p => job'[q] = job[q]
    <3>1. CASE HistoryRead(p)
      <4>1. job[p].step = "history"
        BY <3>1 DEF HistoryRead, At
      <4>2. PICK d \in DocIds :
              \/ Exit(p)
              \/ job' = [job EXCEPT ![p].todo = @ \ {d}]
              \/ job' = [job EXCEPT ![p].step = "historyWrite", ![p].ref = d,
                                    ![p].doc = docs[d]]
        BY <3>1 DEF HistoryRead
      <4>3. CASE job' = [job EXCEPT ![p].todo = @ \ {d}]
        BY <1>3, <4>1, <4>3 DEF ClosingSteps, Job
      <4>4. CASE job' = [job EXCEPT ![p].step = "historyWrite", ![p].ref = d,
                                    ![p].doc = docs[d]]
        BY <1>3, <4>4 DEF ClosingSteps, Job
      <4> QED BY <4>2, <4>3, <4>4
    <3>2. CASE HistoryWrite(p)
      BY <1>3, <3>2 DEF HistoryWrite, At, ClosingSteps, Job
    <3>3. CASE HistoryDone(p)
      BY <1>3, <3>3 DEF HistoryDone, Goto, At, ClosingSteps, Job
    <3>4. CASE Mint(p)
      <4>1. PICK r \in DocIds : job' = [job EXCEPT ![p].step = "reviewWrite", ![p].ref = r]
        BY <3>4 DEF Mint
      <4> QED BY <1>3, <4>1 DEF ClosingSteps, Job
    <3> QED BY <1>7, <3>1, <3>2, <3>3, <3>4
  <2>4. CASE Exit(p)
    <3>1. job'[p].step = "idle" /\ \A q \in Procs : q # p => job'[q] = job[q]
      BY <1>3, <2>4 DEF Exit, Idle
    <3> QED BY <1>5, <2>1, <3>1
  <2> QED BY <1>5, <2>1, <2>2, <2>3, <2>4
<1>8. ASSUME ReviewWrite(p) PROVE LogInv'
  <2> DEFINE r == job[p].ref
  <2>1. r \in DocIds
    BY <1>8 DEF ReviewWrite, At, RefSteps, TypeInv, JobsTyped, JobTyped
  <2>2. /\ reviews'[r].lines = job[p].rec.lines /\ reviews'[r].forced = job[p].force
        /\ \A q \in DocIds : q # r => reviews'[q] = reviews[q]
        /\ UNCHANGED <<sess, minted>>
    BY <1>3, <1>8, <2>1 DEF ReviewWrite
  <2>5. job[p].force \/ Gaps(job[p].rec.lines) = {}
    BY <1>4, <1>8 DEF ReviewWrite, At, ClosingSteps, InMemory, CloseInMemory
  <2>6. ReviewsExplained'
    BY <2>2, <2>5 DEF LogInv, ReviewsExplained
  <2>7. /\ \/ job'[p].step = "idle"
           \/ job'[p].step = "delete" /\ job'[p].rec = job[p].rec /\ job'[p].sess = s
        /\ \A q \in Procs : q # p => job'[q] = job[q]
    BY <1>3, <1>8 DEF ReviewWrite, Exit, Goto, Idle, Job
  <2>8. InMemory(p)'
    BY <1>4, <2>2, <2>7 DEF InMemory, CloseInMemory, MergeInMemory, ClosingSteps
  <2>9. \A q \in Procs : InMemory(q)'
    BY <2>2, <2>7, <2>8, OthersInMemory DEF LogInv
  <2>10. RecordsSound'
    BY <2>2 DEF LogInv, RecordsSound
  <2> QED BY <2>6, <2>9, <2>10 DEF LogInv
<1>9. ASSUME Delete(p) PROVE LogInv'
  <2>1. /\ sess'[s] = NoRecord
        /\ \A t \in Sessions : t # s => sess'[t] = sess[t]
        /\ UNCHANGED <<reviews, minted>>
    BY <1>2, <1>3, <1>9 DEF Delete, ghosts
  <2>5. job'[p].step = "idle" /\ \A q \in Procs : q # p => job'[q] = job[q]
    BY <1>3, <1>9 DEF Delete, Exit, Idle
  <2>6. InMemory(p)'
    BY <2>5 DEF InMemory, CloseInMemory, MergeInMemory, ClosingSteps
  <2>7. \A q \in Procs : InMemory(q)'
    BY <1>2, <2>1, <2>5, <2>6, OthersInMemory DEF LogInv
  <2>9. RecordsSound' /\ ReviewsExplained'
    BY <1>2, <2>1 DEF LogInv, RecordsSound, ReviewsExplained, NoRecord
  <2> QED BY <2>7, <2>9 DEF LogInv
<1> QED BY <1>6, <1>7, <1>8, <1>9

LEMMA MergingKeeps ==
  ASSUME Isolated, TypeInv, LogInv, NEW p \in Procs, MergeWrite(p) \/ MergeDelete(p)
  PROVE  LogInv'
<1> DEFINE t == job[p].sess
<1>1. job[p].step \in {"mergeWrite", "mergeDelete"}
  BY DEF MergeWrite, MergeDelete, At
<1>2. t \in Sessions /\ t \in Owner[p] /\ job[p].fold \subseteq Sessions
  BY <1>1, RunningType DEF TypeInv, JobsTyped, JobTyped
<1>3. job \in [Procs -> Job] /\ sess \in [Sessions -> SessionFile]
  BY DEF TypeInv, TypeOK, JobsTyped
<1>4. job[p].fold \subseteq Owner[p] /\ t \notin job[p].fold /\ MergeInMemory(p)
  BY <1>1 DEF LogInv, InMemory, MergeInMemory
<1>5. ASSUME MergeWrite(p) PROVE LogInv'
  <2>1. /\ sess'[t] = job[p].rec
        /\ \A s \in Sessions : s # t => sess'[s] = sess[s]
        /\ UNCHANGED <<reviews, minted>>
    BY <1>2, <1>3, <1>5 DEF MergeWrite, ghosts
  <2>2. /\ job[p].rec.present /\ sess[t].present
        /\ sess[t].lines \subseteq job[p].rec.lines
        /\ \A s \in job[p].fold : sess[s].lines \subseteq job[p].rec.lines
    BY <1>4, <1>5 DEF MergeWrite, At, MergeInMemory
  <2>4. /\ job'[p].step = "mergeDelete" /\ job'[p].sess = t
        /\ job'[p].fold = job[p].fold
        /\ \A q \in Procs : q # p => job'[q] = job[q]
    BY <1>3, <1>5 DEF MergeWrite, Goto, Job
  <2>5. InMemory(p)'
    BY <1>2, <1>4, <2>1, <2>2, <2>4 DEF InMemory, CloseInMemory, MergeInMemory, ClosingSteps
  <2>6. \A q \in Procs : InMemory(q)'
    BY <1>2, <2>1, <2>4, <2>5, OthersInMemory DEF LogInv
  <2>7. RecordsSound' /\ ReviewsExplained'
    BY <1>2, <2>1, <2>2 DEF LogInv, RecordsSound, ReviewsExplained
  <2> QED BY <2>6, <2>7 DEF LogInv
<1>6. ASSUME MergeDelete(p) PROVE LogInv'
  <2>1. PICK s \in job[p].fold :
          /\ sess' = [sess EXCEPT ![s] = NoRecord]
          /\ job' = [job EXCEPT ![p].fold = @ \ {s},
                                ![p].step = IF job[p].fold = {s} THEN "retag" ELSE @]
    BY <1>6 DEF MergeDelete
  <2>2. /\ sess'[s] = NoRecord
        /\ \A u \in Sessions : u # s => sess'[u] = sess[u]
        /\ UNCHANGED <<reviews, minted>>
    BY <1>2, <1>3, <1>6, <2>1 DEF MergeDelete, ghosts
  <2>3. \A u \in job[p].fold : sess[u].lines \subseteq sess[t].lines
    BY <1>4, <1>6 DEF MergeDelete, At, MergeInMemory
  <2>4. s # t /\ sess'[t] = sess[t]
    BY <1>2, <1>4, <2>2
  <2>7. /\ job'[p].step \in {"mergeDelete", "retag"} /\ job'[p].sess = t
        /\ job'[p].fold = job[p].fold \ {s}
        /\ \A q \in Procs : q # p => job'[q] = job[q]
    <3>1. job[p] \in Job /\ job[p].step = "mergeDelete"
      BY <1>3, <1>6 DEF MergeDelete, At
    <3>2. \A q \in Procs : q # p => job'[q] = job[q]
      BY <1>3, <2>1
    <3> DEFINE next == IF job[p].fold = {s} THEN "retag" ELSE job[p].step
    <3>3. job'[p] = [job[p] EXCEPT !.fold = job[p].fold \ {s}, !.step = next]
      BY <1>3, <2>1, Zenon
    <3>4. next \in {"mergeDelete", "retag"}
      BY <3>1
    <3> HIDE DEF next
    <3> QED BY <3>1, <3>2, <3>3, <3>4 DEF Job
  <2>8. InMemory(p)'
    BY <1>2, <1>4, <2>2, <2>3, <2>4, <2>7
       DEF InMemory, CloseInMemory, MergeInMemory, ClosingSteps
  <2>9. \A q \in Procs : InMemory(q)'
    BY <1>2, <1>4, <2>2, <2>7, <2>8, OthersInMemory DEF LogInv
  <2>10. RecordsSound' /\ ReviewsExplained'
    BY <2>2 DEF LogInv, RecordsSound, ReviewsExplained, NoRecord
  <2> QED BY <2>9, <2>10 DEF LogInv
<1> QED BY <1>5, <1>6

\* The steps that only touch documents, and a kill.
LEMMA DocumentsKeep ==
  ASSUME Isolated, TypeInv, LogInv, NEW p \in Procs,
         DocWrite(p) \/ Unlink(p) \/ RollBackNew(p) \/ Retag(p) \/ RetagWrite(p)
           \/ RetagDone(p) \/ Crash(p)
  PROVE  LogInv'
<1>1. job \in [Procs -> Job]
  BY DEF TypeInv, JobsTyped
<1>2. UNCHANGED <<sess, reviews, minted>>
  BY DEF DocWrite, Unlink, RollBackNew, Retag, RetagWrite, RetagDone, Crash, files, ghosts
<1>3. ASSUME Exit(p) \/ Goto(p, "walRead") PROVE LogInv'
  <2>1. /\ job'[p].step \in {"idle", "walRead"}
        /\ \A q \in Procs : q # p => job'[q] = job[q]
    BY <1>1, <1>3 DEF Exit, Goto, Idle, Job
  <2> QED BY <1>2, <2>1, FreeStep DEF FreeSteps
<1>4. ASSUME Retag(p) PROVE LogInv'
  <2>1. job[p].step = "retag"
    BY <1>4 DEF Retag, At
  <2>2. PICK d \in job[p].todo :
          \/ Exit(p)
          \/ job' = [job EXCEPT ![p].todo = @ \ {d}]
          \/ job' = [job EXCEPT ![p].step = "retagWrite", ![p].ref = d,
                                ![p].doc = docs[d]]
    BY <1>4 DEF Retag
  <2>3. CASE job' = [job EXCEPT ![p].todo = @ \ {d}]
    <3>1. job'[p].step = "retag" /\ \A q \in Procs : q # p => job'[q] = job[q]
      BY <1>1, <2>1, <2>3 DEF Job
    <3> QED BY <1>2, <3>1, FreeStep DEF FreeSteps
  <2>4. CASE job' = [job EXCEPT ![p].step = "retagWrite", ![p].ref = d,
                                ![p].doc = docs[d]]
    <3>1. job'[p].step = "retagWrite" /\ \A q \in Procs : q # p => job'[q] = job[q]
      BY <1>1, <2>4 DEF Job
    <3> QED BY <1>2, <3>1, FreeStep DEF FreeSteps
  <2> QED BY <1>3, <2>2, <2>3, <2>4
<1>5. ASSUME RetagWrite(p) PROVE LogInv'
  <2>1. job'[p].step = "retag" /\ \A q \in Procs : q # p => job'[q] = job[q]
    BY <1>1, <1>5 DEF RetagWrite, Job
  <2> QED BY <1>2, <2>1, FreeStep DEF FreeSteps
<1> QED BY <1>3, <1>4, <1>5 DEF DocWrite, Unlink, RollBackNew, RetagDone, Crash

LEMMA LogInit == Init => LogInv
<1> SUFFICES ASSUME Init PROVE LogInv
  OBVIOUS
<1>1. \A p \in Procs : job[p].step = "idle"
  BY DEF Init, Idle
<1>2. \A p \in Procs : InMemory(p)
  BY <1>1, FreeInMemory DEF FreeSteps
<1> QED BY <1>2, NoGaps
       DEF Init, LogInv, RecordsSound, ReviewsExplained, NoRecord, NoReview

LEMMA LogStep == Isolated /\ TypeInv /\ LogInv /\ [Next]_vars => LogInv'
<1> SUFFICES ASSUME Isolated, TypeInv, LogInv, [Next]_vars PROVE LogInv'
  OBVIOUS
<1>1. ASSUME NEW p \in Procs, Continue(p) \/ Crash(p) PROVE LogInv'
  BY <1>1, LoggingKeeps, ClosingKeeps, MergingKeeps, DocumentsKeep DEF Continue
<1>2. ASSUME UNCHANGED <<files, job, ghosts>> PROVE LogInv'
  BY <1>2 DEF files, ghosts, LogInv, RecordsSound, ReviewsExplained,
     InMemory, CloseInMemory, MergeInMemory
<1>3. Tick \/ UNCHANGED vars => UNCHANGED <<files, job, ghosts>>
  BY DEF Tick, vars, files, ghosts
<1> QED BY <1>1, <1>2, <1>3, BeginKeeps DEF Next

\* When no two processes share a session, a review that was not forced has no
\* gap: the gate and the close see the same record.
THEOREM ReviewsExplainedHolds == Isolated => (Spec => []ReviewsExplained)
<1> SUFFICES ASSUME Isolated PROVE Spec => []ReviewsExplained
  OBVIOUS
<1>1. LogInv => ReviewsExplained
  BY DEF LogInv
<1>2. TypeInv /\ LogInv /\ [Next]_vars => (TypeInv /\ LogInv)'
  BY TypeStep, LogStep
<1> QED BY <1>1, <1>2, TypeInit, LogInit, PTL DEF Spec

LEMMA ActsAlone ==
  ASSUME TypeInv, NEW q \in Procs, Begin(q) \/ Continue(q) \/ Crash(q),
         NEW p \in Procs, p # q
  PROVE  job'[p] = job[p]
<1>1. job \in [Procs -> Job]
  BY DEF TypeInv, JobsTyped
<1>2. ASSUME Begin(q) PROVE job'[p] = job[p]
  <2>1. ASSUME NEW s, NEW c, NEW j, Start(q, s, c, j) PROVE job'[p] = job[p]
    BY <1>1, <2>1 DEF Start
  <2>2. PICK s, c, j : Start(q, s, c, j)
    BY <1>2 DEF Begin, SessionStart, BeginRecap, BeginClose, BeginNew, BeginNote,
       BeginChange, BeginRm, BeginMerge
  <2> QED BY <2>1, <2>2
<1>3. ASSUME Exit(q) \/ \E step : Goto(q, step) PROVE job'[p] = job[p]
  BY <1>1, <1>3 DEF Exit, Goto
<1>4. CASE DocWrite(q) \/ Unlink(q) \/ WalWrite(q) \/ RollBackNew(q) \/ RecapWrite(q)
             \/ Gate(q) \/ HistoryDone(q) \/ ReviewWrite(q) \/ Delete(q)
             \/ MergeWrite(q) \/ RetagDone(q) \/ Crash(q)
  BY <1>3, <1>4 DEF DocWrite, Unlink, WalWrite, RollBackNew, RecapWrite, Gate,
     HistoryDone, ReviewWrite, Delete, MergeWrite, RetagDone, Crash
<1>5. CASE WalRead(q)
  BY <1>1, <1>5 DEF WalRead
<1>6. CASE HistoryRead(q) \/ Retag(q)
  BY <1>1, <1>3, <1>6 DEF HistoryRead, Retag
<1>7. CASE HistoryWrite(q) \/ RetagWrite(q)
  BY <1>1, <1>7 DEF HistoryWrite, RetagWrite
<1>8. CASE Mint(q)
  BY <1>1, <1>8 DEF Mint
<1>9. CASE MergeDelete(q)
  BY <1>1, <1>9 DEF MergeDelete
<1> QED BY <1>2, <1>4, <1>5, <1>6, <1>7, <1>8, <1>9 DEF Continue

\* What a close has read of a session that is its process's alone is what the
\* file says until the review is written.
CloseAlone(p) ==
  /\ job[p].fold \subseteq Owner[p]
  /\ job[p].step \in ClosingSteps /\ Alone(job[p].sess)
       => job[p].rec = sess[job[p].sess]

\* No command touches the record of a session it does not work under.
LEMMA WritesOwn ==
  ASSUME TypeInv, NEW q \in Procs, job[q].fold \subseteq Owner[q],
         Begin(q) \/ Continue(q) \/ Crash(q),
         NEW s \in Sessions, s \notin Owner[q]
  PROVE  sess'[s] = sess[s]
<1>1. sess \in [Sessions -> SessionFile]
  BY DEF TypeInv, TypeOK
<1>2. job[q].step # "idle" => job[q].sess # s
  BY DEF TypeInv, JobsTyped, JobTyped
<1>3. CASE UNCHANGED sess
  BY <1>3
<1>4. CASE WalRead(q) \/ WalWrite(q) \/ RecapWrite(q) \/ Delete(q) \/ MergeWrite(q)
  BY <1>1, <1>2, <1>4 DEF WalRead, WalWrite, RecapWrite, Delete, MergeWrite, At
<1>5. CASE MergeDelete(q)
  BY <1>1, <1>5 DEF MergeDelete
<1>6. CASE \E t \in Sessions : SessionStart(q, t)
  BY <1>1, <1>6 DEF SessionStart, Start
<1>7. Begin(q) => UNCHANGED sess \/ \E t \in Sessions : SessionStart(q, t)
  BY DEF Begin, BeginRecap, BeginClose, BeginNew, BeginNote, BeginChange, BeginRm,
     BeginMerge, files
<1>8. Crash(q) => UNCHANGED sess
  BY DEF Crash, files
<1>9. Continue(q) => \/ UNCHANGED sess \/ MergeDelete(q)
                     \/ WalRead(q) \/ WalWrite(q) \/ RecapWrite(q) \/ Delete(q)
                     \/ MergeWrite(q)
  BY DEF Continue, DocWrite, Unlink, RollBackNew, Gate, HistoryRead, HistoryWrite,
     HistoryDone, Mint, ReviewWrite, Retag, RetagWrite, RetagDone, files
<1> QED BY <1>3, <1>4, <1>5, <1>6, <1>7, <1>8, <1>9

LEMMA BeginsAlone ==
  ASSUME TypeInv, NEW q \in Procs, Begin(q)
  PROVE  CloseAlone(q)'
<1>1. job \in [Procs -> Job]
  BY DEF TypeInv, JobsTyped
<1>2. ASSUME NEW s \in Sessions, NEW force \in BOOLEAN, BeginClose(q, s, force)
      PROVE  CloseAlone(q)'
  <2>1. job'[q].fold = {} /\ job'[q].sess = s /\ job'[q].rec = sess[s]
    BY <1>1, <1>2 DEF BeginClose, Start, Idle
  <2>2. UNCHANGED sess
    BY <1>2 DEF BeginClose, files
  <2> QED BY <2>1, <2>2 DEF CloseAlone
<1>3. ASSUME NEW group \in SUBSET Sessions, BeginMerge(q, group) PROVE CloseAlone(q)'
  <2>1. PICK t \in group : job'[q].step = "mergeWrite" /\ job'[q].fold = group \ {t}
    BY <1>1, <1>3 DEF BeginMerge, Start, Idle
  <2>2. group \subseteq Owner[q]
    BY <1>3 DEF BeginMerge
  <2> QED BY <2>1, <2>2 DEF CloseAlone, ClosingSteps
<1>4. ASSUME NEW s \in Sessions, NEW d \in DocIds, NEW e \in Edits,
             BeginChange(q, s, d, e) \/ BeginRm(q, s, d, e)
      PROVE  CloseAlone(q)'
  <2>1. CASE BeginChange(q, s, d, e)
    <3>1. job'[q].fold = {} /\ job'[q].step = "docWrite"
      BY <1>1, <2>1 DEF BeginChange, Start, Idle
    <3> QED BY <3>1 DEF CloseAlone, ClosingSteps
  <2>2. CASE BeginRm(q, s, d, e)
    <3>1. job'[q].fold = {} /\ job'[q].step = "unlink"
      BY <1>1, <2>2 DEF BeginRm, Start, Idle
    <3> QED BY <3>1 DEF CloseAlone, ClosingSteps
  <2> QED BY <1>4, <2>1, <2>2
<1>5. ASSUME NEW s \in Sessions, SessionStart(q, s) \/ BeginRecap(q, s) PROVE CloseAlone(q)'
  <2>1. CASE SessionStart(q, s)
    <3>1. job'[q].fold = {} /\ job'[q].step = "idle"
      BY <1>1, <2>1 DEF SessionStart, Start, Idle
    <3> QED BY <3>1 DEF CloseAlone, ClosingSteps
  <2>2. CASE BeginRecap(q, s)
    <3>1. job'[q].fold = {} /\ job'[q].step = "recapWrite"
      BY <1>1, <2>2 DEF BeginRecap, Start, Idle
    <3> QED BY <3>1 DEF CloseAlone, ClosingSteps
  <2> QED BY <1>5, <2>1, <2>2
<1>6. ASSUME NEW s \in Sessions, NEW arch \in BOOLEAN, BeginNew(q, s, arch)
      PROVE  CloseAlone(q)'
  <2>1. job'[q].fold = {} /\ job'[q].step = "docWrite"
    BY <1>1, <1>6 DEF BeginNew, Start, Idle
  <2> QED BY <2>1 DEF CloseAlone, ClosingSteps
<1>7. ASSUME NEW s \in Sessions, NEW d \in DocIds, BeginNote(q, s, d)
      PROVE  CloseAlone(q)'
  <2>1. job'[q].fold = {} /\ job'[q].step = "walRead"
    BY <1>1, <1>7 DEF BeginNote, Start, Idle
  <2> QED BY <2>1 DEF CloseAlone, ClosingSteps
<1> QED BY <1>2, <1>3, <1>4, <1>5, <1>6, <1>7 DEF Begin

LEMMA ContinuesAlone ==
  ASSUME TypeInv, NEW q \in Procs, CloseAlone(q), Continue(q) \/ Crash(q)
  PROVE  CloseAlone(q)'
<1>1. job \in [Procs -> Job] /\ job[q] \in Job
  BY DEF TypeInv, JobsTyped
<1>2. CASE Exit(q)
  BY <1>1, <1>2 DEF Exit, Idle, CloseAlone, ClosingSteps
<1>3. CASE HistoryRead(q) \/ HistoryWrite(q) \/ HistoryDone(q) \/ Mint(q) \/ Gate(q)
  <2>1. UNCHANGED sess /\ job[q].step \in ClosingSteps
    BY <1>3 DEF HistoryRead, HistoryWrite, HistoryDone, Mint, Gate, At, ClosingSteps,
       files
  <2> DEFINE Same == /\ job'[q].fold = job[q].fold /\ job'[q].sess = job[q].sess
                     /\ job'[q].rec = job[q].rec
  <2>2. CASE HistoryRead(q)
    <3>1. PICK d \in DocIds :
            \/ Exit(q)
            \/ job' = [job EXCEPT ![q].todo = @ \ {d}]
            \/ job' = [job EXCEPT ![q].step = "historyWrite", ![q].ref = d,
                                  ![q].doc = docs[d]]
      BY <2>2 DEF HistoryRead
    <3> QED BY <1>1, <1>2, <2>1, <3>1 DEF CloseAlone, Job
  <2>3. CASE HistoryWrite(q)
    <3>1. Same
      BY <1>1, <2>3 DEF HistoryWrite, Job
    <3> QED BY <2>1, <3>1 DEF CloseAlone
  <2>4. CASE Mint(q)
    <3>1. Same
      BY <1>1, <2>4 DEF Mint, Job
    <3> QED BY <2>1, <3>1 DEF CloseAlone
  <2>5. CASE HistoryDone(q) \/ Gate(q)
    <3>1. Exit(q) \/ \E step : Goto(q, step)
      BY <2>5 DEF HistoryDone, Gate
    <3>2. Exit(q) \/ Same
      BY <1>1, <3>1 DEF Goto, Job
    <3> QED BY <1>2, <2>1, <3>2 DEF CloseAlone
  <2> QED BY <1>3, <2>2, <2>3, <2>4, <2>5
<1>4. CASE \/ DocWrite(q) \/ Unlink(q) \/ WalRead(q) \/ ReviewWrite(q) \/ MergeWrite(q)
           \/ Retag(q) \/ RetagWrite(q)
  <2> DEFINE Moved == /\ job'[q].fold = job[q].fold
                      /\ job'[q].step \in {"walRead", "walWrite", "delete", "mergeDelete",
                                           "retag", "retagWrite"}
  <2>1. ASSUME NEW step \in {"walRead", "delete", "mergeDelete"}, Goto(q, step) PROVE Moved
    BY <1>1, <2>1 DEF Goto, Job
  <2>2. ASSUME DocWrite(q) \/ Unlink(q) \/ ReviewWrite(q) \/ MergeWrite(q)
        PROVE  Exit(q) \/ Moved
    <3>1. Exit(q) \/ \E step \in {"walRead", "delete", "mergeDelete"} : Goto(q, step)
      BY <2>2 DEF DocWrite, Unlink, ReviewWrite, MergeWrite
    <3> QED BY <2>1, <3>1
  <2>3. ASSUME WalRead(q) PROVE Moved
    BY <1>1, <2>3 DEF WalRead, Job
  <2>4. ASSUME RetagWrite(q) PROVE Moved
    BY <1>1, <2>4 DEF RetagWrite, Job
  <2>5. ASSUME Retag(q) PROVE Exit(q) \/ Moved
    <3>1. PICK d \in DocIds :
            \/ Exit(q)
            \/ job' = [job EXCEPT ![q].todo = @ \ {d}]
            \/ job' = [job EXCEPT ![q].step = "retagWrite", ![q].ref = d,
                                  ![q].doc = docs[d]]
      BY <1>1, <2>5 DEF Retag, Job
    <3>2. job[q].step = "retag"
      BY <2>5 DEF Retag, At
    <3> QED BY <1>1, <3>1, <3>2 DEF Job
  <2>6. Exit(q) \/ Moved
    BY <1>4, <2>2, <2>3, <2>4, <2>5
  <2> QED BY <1>2, <2>6 DEF CloseAlone, ClosingSteps
<1>5. CASE MergeDelete(q)
  <2>1. PICK s \in job[q].fold :
          job' = [job EXCEPT ![q].fold = @ \ {s},
                             ![q].step = IF job[q].fold = {s} THEN "retag" ELSE @]
    BY <1>5 DEF MergeDelete
  <2>2. job'[q].fold \subseteq job[q].fold /\ job'[q].step \in {"retag", "mergeDelete"}
    BY <1>1, <1>5, <2>1 DEF Job, MergeDelete, At
  <2> QED BY <2>2 DEF CloseAlone, ClosingSteps
<1>6. WalWrite(q) \/ RollBackNew(q) \/ RecapWrite(q) \/ Delete(q) \/ RetagDone(q) \/ Crash(q)
        => Exit(q)
  BY DEF WalWrite, RollBackNew, RecapWrite, Delete, RetagDone, Crash
<1> QED BY <1>2, <1>3, <1>4, <1>5, <1>6 DEF Continue

LEMMA AloneStep ==
  TypeInv /\ (\A p \in Procs : CloseAlone(p)) /\ [Next]_vars => \A p \in Procs : CloseAlone(p)'
<1> SUFFICES ASSUME TypeInv, \A p \in Procs : CloseAlone(p), [Next]_vars,
                    NEW p \in Procs
             PROVE  CloseAlone(p)'
  OBVIOUS
<1>1. CASE Tick \/ UNCHANGED vars
  BY <1>1 DEF Tick, vars, files, CloseAlone
<1>2. ASSUME NEW q \in Procs, Begin(q) \/ Continue(q) \/ Crash(q) PROVE CloseAlone(p)'
  <2>1. CASE q = p
    BY <1>2, <2>1, BeginsAlone, ContinuesAlone
  <2>2. CASE q # p
    <3>1. job'[p] = job[p]
      BY <1>2, <2>2, ActsAlone
    <3>2. ASSUME job[p].step \in ClosingSteps, Alone(job[p].sess)
          PROVE  sess'[job[p].sess] = sess[job[p].sess]
      <4>1. job[p].step # "idle"
        BY <3>2 DEF ClosingSteps
      <4>2. job[p].sess \in Owner[p] /\ job[p].sess \in Sessions
        BY <4>1, RunningType DEF TypeInv, JobsTyped, JobTyped
      <4>3. job[p].sess \notin Owner[q]
        BY <2>2, <3>2, <4>2 DEF Alone
      <4> QED BY <1>2, <4>2, <4>3, WritesOwn DEF CloseAlone
    <3> QED BY <3>1, <3>2 DEF CloseAlone
  <2> QED BY <2>1, <2>2
<1> QED BY <1>1, <1>2 DEF Next

\* A close that ends early, or is killed, leaves the record of its session as
\* it found it, if no other process works under that session, whatever other
\* processes do to theirs and to the documents.
THEOREM FailedCloseKeepsRecordHolds == Spec => FailedCloseKeepsRecord
<1>1. ASSUME TypeInv, \A p \in Procs : CloseAlone(p), [Next]_vars, NEW p \in Procs,
             job[p].step \in ClosingSteps, Alone(job[p].sess), job'[p].step = "idle"
      PROVE  sess'[job[p].sess] = job[p].rec
  <2>1. job[p].rec = sess[job[p].sess] /\ job[p].step # "idle"
    BY <1>1 DEF CloseAlone, ClosingSteps
  <2>2. job' # job
    BY <1>1, <2>1
  <2>3. PICK q \in Procs : Begin(q) \/ Continue(q) \/ Crash(q)
    BY <1>1, <2>2 DEF Next, Tick, vars
  <2>4. q = p
    BY <1>1, <2>1, <2>3, ActsAlone
  <2>5. ~Begin(p)
    BY <2>1, ZenonT(60) DEF Begin, SessionStart, BeginRecap, BeginClose, BeginNew, BeginNote,
       BeginChange, BeginRm, BeginMerge, Start
  <2>6. CASE Gate(p) \/ HistoryRead(p) \/ HistoryWrite(p) \/ HistoryDone(p) \/ Mint(p)
               \/ ReviewWrite(p) \/ Crash(p)
    <3>1. UNCHANGED sess
      BY <2>6 DEF Gate, HistoryRead, HistoryWrite, HistoryDone, Mint, ReviewWrite,
         Crash, files
    <3> QED BY <2>1, <3>1
  <2>7. CASE DocWrite(p) \/ Unlink(p) \/ WalRead(p) \/ WalWrite(p) \/ RollBackNew(p)
               \/ RecapWrite(p) \/ Delete(p) \/ MergeWrite(p) \/ MergeDelete(p)
               \/ Retag(p) \/ RetagWrite(p) \/ RetagDone(p)
    BY <1>1, <2>7 DEF ClosingSteps, DocWrite, Unlink, WalRead, WalWrite, RollBackNew,
       RecapWrite, Delete, MergeWrite, MergeDelete, Retag, RetagWrite, RetagDone, At
  <2> QED BY <2>3, <2>4, <2>5, <2>6, <2>7 DEF Continue
<1>2. TypeInv /\ (\A p \in Procs : CloseAlone(p)) /\ [Next]_vars =>
        [\A p \in Procs :
           /\ job[p].step \in {"gate", "history", "historyWrite", "mint", "reviewWrite"}
           /\ job[p].rec.present /\ Alone(job[p].sess)
           /\ job'[p].step = "idle"
           => sess'[job[p].sess] = job[p].rec]_vars
  BY <1>1 DEF ClosingSteps
<1>3. Init => \A p \in Procs : CloseAlone(p)
  BY DEF Init, Idle, CloseAlone, ClosingSteps
<1>4. TypeInv /\ (\A p \in Procs : CloseAlone(p)) /\ [Next]_vars
        => (TypeInv /\ \A p \in Procs : CloseAlone(p))'
  BY TypeStep, AloneStep
<1> QED BY <1>2, <1>3, <1>4, TypeInit, PTL DEF Spec, FailedCloseKeepsRecord

-----------------------------------------------------------------------------
(* Sessions that processes share *)

\* Command q will overwrite or delete the record of s as it read it before.
Holder(q, s) ==
  \/ s \in job[q].fold
  \/ /\ job[q].sess = s /\ job[q].rec.present
     /\ job[q].step \notin {"mergeDelete", "retag", "retagWrite"}

\* It has put the lines elsewhere, and deletes the record next.
Deleting(q, s) ==
  \/ job[q].step = "delete" /\ job[q].sess = s
  \/ job[q].step = "mergeDelete" /\ s \in job[q].fold

\* Line n stays in the record of s, whoever is at work on it.
Stays(s, n) ==
  /\ Holds(sess[s].lines, n)
  /\ \A q \in Procs : Holder(q, s) => Holds(job[q].rec.lines, n) /\ ~Deleting(q, s)

\* Line n stays in review r.
FiledIn(r, n) ==
  /\ Holds(reviews[r].lines, n)
  /\ \A q \in Procs : At(q, "reviewWrite") /\ job[q].ref = r => Holds(job[q].rec.lines, n)

Standing(n) == (\E s \in Sessions : Stays(s, n)) \/ (\E r \in DocIds : FiledIn(r, n))

\* A command that writes a record back, or deletes it, had one to read.
HadRecord(p) ==
  /\ job[p].step \in {"walWrite", "recapWrite", "mergeWrite", "delete"} => job[p].rec.present
  /\ job[p].step \in {"walWrite", "recapWrite", "mergeWrite"} => job[p].sess \in minted
  /\ job[p].step \in {"mergeWrite", "mergeDelete"} => job[p].sess \notin job[p].fold
  /\ job[p].step \in {"docWrite", "unlink", "walRead"} => job[p].fold = {}

KeptInv ==
  /\ RecordsSound
  /\ \A r \in DocIds : reviews[r].lines # {} => reviews[r].present
  /\ \A p \in Procs : HadRecord(p)
  /\ \A n \in acked \ overlapped : Standing(n)

LEMMA HoldersAre ==
  ASSUME NEW p, NEW s, Holders(p, s) = {}
  PROVE  \A q \in Procs : q # p => ~Holder(q, s)
BY DEF Holders, Holder

\* A step of p that leaves records and reviews alone: what p holds after it, it
\* held before or has just read.
LEMMA QuietKept ==
  ASSUME KeptInv, NEW p \in Procs,
         UNCHANGED <<sess, reviews, acked, overlapped>>, minted \subseteq minted',
         \A s : s \in minted' => s \in minted,
         \A q \in Procs : q # p => job'[q] = job[q],
         HadRecord(p)',
         \A s \in Sessions : Holder(p, s)' =>
           /\ ~Deleting(p, s)'
           /\ \A n : Stays(s, n) => Holds(job'[p].rec.lines, n),
         \A r \in DocIds : job'[p].step = "reviewWrite" /\ job'[p].ref = r =>
           \A n : FiledIn(r, n) => Holds(job'[p].rec.lines, n)
  PROVE  KeptInv'
<1>1. ASSUME NEW s \in Sessions, NEW n, Stays(s, n) PROVE Stays(s, n)'
  BY <1>1 DEF Stays, Holder, Deleting
<1>2. ASSUME NEW r \in DocIds, NEW n, FiledIn(r, n) PROVE FiledIn(r, n)'
  BY <1>2 DEF FiledIn, At
<1>3. \A n \in acked' \ overlapped' : Standing(n)'
  BY <1>1, <1>2 DEF KeptInv, Standing
<1>4. \A q \in Procs : HadRecord(q)'
  BY DEF KeptInv, HadRecord
<1> QED BY <1>3, <1>4 DEF KeptInv, RecordsSound

\* A process that is idle, or is not at work on records, holds nothing.
LEMMA HoldsNothing ==
  ASSUME NEW p \in Procs, job'[p].fold = {}, ~job'[p].rec.present,
         job'[p].step \in {"idle", "docWrite", "unlink", "walRead"}
  PROVE  /\ \A s : ~Holder(p, s)'
         /\ HadRecord(p)' /\ job'[p].step # "reviewWrite"
BY DEF Holder, HadRecord

LEMMA ExitHoldsNothing ==
  ASSUME TypeInv, NEW p \in Procs, Exit(p)
  PROVE  /\ \A s : ~Holder(p, s)'
         /\ HadRecord(p)' /\ job'[p].step # "reviewWrite"
         /\ \A q \in Procs : q # p => job'[q] = job[q]
<1>1. job'[p] = Idle /\ \A q \in Procs : q # p => job'[q] = job[q]
  BY DEF Exit, TypeInv, JobsTyped
<1> QED BY <1>1, HoldsNothing DEF Idle, NoRecord

LEMMA BeginsKept ==
  ASSUME TypeInv, KeptInv, NEW p \in Procs, Begin(p)
  PROVE  KeptInv'
<1>1. job \in [Procs -> Job] /\ sess \in [Sessions -> SessionFile]
  BY DEF TypeInv, TypeOK, JobsTyped
<1>3. ASSUME NEW s \in Sessions, SessionStart(p, s) PROVE KeptInv'
  <2>1. /\ job'[p].fold = {} /\ ~job'[p].rec.present /\ job'[p].step = "idle"
        /\ \A q \in Procs : q # p => job'[q] = job[q]
    BY <1>1, <1>3 DEF SessionStart, Start, Idle, NoRecord
  <2>2. /\ sess'[s] = [present |-> TRUE, opened |-> commands + 1, lines |-> {}]
        /\ \A t \in Sessions : t # s => sess'[t] = sess[t]
        /\ minted' = minted \cup {s}
        /\ UNCHANGED <<reviews, acked, overlapped>>
    BY <1>1, <1>3 DEF SessionStart
  <2>3. sess[s].lines = {}
    BY <1>3 DEF SessionStart, KeptInv, RecordsSound
  <2>4. (\A u : ~Holder(p, u)') /\ HadRecord(p)' /\ job'[p].step # "reviewWrite"
    BY <2>1, HoldsNothing
  <2>5. ASSUME NEW u \in Sessions, NEW n, Stays(u, n) PROVE Stays(u, n)'
    <3>1. u # s
      BY <2>3, <2>5 DEF Stays, Holds
    <3> QED BY <2>1, <2>2, <2>4, <2>5, <3>1 DEF Stays, Holder, Deleting
  <2>6. ASSUME NEW r \in DocIds, NEW n, FiledIn(r, n) PROVE FiledIn(r, n)'
    BY <2>1, <2>2, <2>4, <2>6 DEF FiledIn, At
  <2>7. \A n \in acked' \ overlapped' : Standing(n)'
    BY <2>2, <2>5, <2>6 DEF KeptInv, Standing
  <2>8. \A q \in Procs : HadRecord(q)'
    BY <2>1, <2>2, <2>4 DEF KeptInv, HadRecord
  <2>9. RecordsSound'
    BY <2>2 DEF KeptInv, RecordsSound
  <2> QED BY <2>2, <2>7, <2>8, <2>9 DEF KeptInv
<1>4. ASSUME NEW s \in Sessions, BeginRecap(p, s) PROVE KeptInv'
  <2>1. /\ job'[p].step = "recapWrite" /\ job'[p].rec = sess[s] /\ job'[p].sess = s
        /\ job'[p].fold = {}
        /\ \A q \in Procs : q # p => job'[q] = job[q]
    BY <1>1, <1>4 DEF BeginRecap, Start, Idle
  <2>2. UNCHANGED <<sess, reviews, ghosts>> /\ sess[s].present
    BY <1>4 DEF BeginRecap, files
  <2>3. HadRecord(p)'
    BY <2>1, <2>2 DEF HadRecord, KeptInv, RecordsSound, ghosts
  <2>4. ASSUME NEW u \in Sessions, Holder(p, u)'
        PROVE  ~Deleting(p, u)' /\ \A n : Stays(u, n) => Holds(job'[p].rec.lines, n)
    BY <2>1, <2>4 DEF Holder, Deleting, Stays
  <2> QED BY <2>1, <2>2, <2>3, <2>4, QuietKept DEF ghosts
<1>5. ASSUME NEW s \in Sessions, NEW force \in BOOLEAN, BeginClose(p, s, force)
      PROVE  KeptInv'
  <2>1. /\ job'[p].step \in {"mint", "history", "gate"} /\ job'[p].rec = sess[s]
        /\ job'[p].sess = s /\ job'[p].fold = {}
        /\ \A q \in Procs : q # p => job'[q] = job[q]
    BY <1>1, <1>5 DEF BeginClose, Start, Idle
  <2>2. UNCHANGED <<sess, reviews, ghosts>>
    BY <1>5 DEF BeginClose, files
  <2>3. HadRecord(p)'
    BY <2>1 DEF HadRecord
  <2>4. ASSUME NEW u \in Sessions, Holder(p, u)'
        PROVE  ~Deleting(p, u)' /\ \A n : Stays(u, n) => Holds(job'[p].rec.lines, n)
    BY <2>1, <2>4 DEF Holder, Deleting, Stays
  <2> QED BY <2>1, <2>2, <2>3, <2>4, QuietKept DEF ghosts
<1>6. ASSUME NEW s \in Sessions, NEW arch \in BOOLEAN, BeginNew(p, s, arch)
      PROVE  KeptInv'
  <2>1. PICK d \in DocIds :
          Start(p, s, "new",
             [Idle EXCEPT !.step = "docWrite", !.op = "new", !.ref = d,
                          !.types = {"addition"},
                          !.doc = [present |-> TRUE, archived |-> arch,
                                   born |-> commands + 1, history |-> {}]])
    BY <1>6 DEF BeginNew
  <2>2. /\ job'[p].step = "docWrite" /\ job'[p].fold = {} /\ ~job'[p].rec.present
        /\ \A q \in Procs : q # p => job'[q] = job[q]
    BY <1>1, <2>1 DEF Start, Idle, NoRecord
  <2>3. UNCHANGED <<sess, reviews, ghosts>>
    BY <1>6 DEF BeginNew, files
  <2> QED BY <2>2, <2>3, HoldsNothing, QuietKept DEF ghosts
<1>7. ASSUME NEW s \in Sessions, NEW d \in DocIds,
             BeginNote(p, s, d) \/ \E e \in Edits : BeginChange(p, s, d, e) \/ BeginRm(p, s, d, e)
      PROVE  KeptInv'
  <2> DEFINE Free == /\ job'[p].step \in {"walRead", "docWrite", "unlink"}
                     /\ job'[p].fold = {} /\ ~job'[p].rec.present
                     /\ \A q \in Procs : q # p => job'[q] = job[q]
  <2>1. ASSUME BeginNote(p, s, d) PROVE Free
    BY <1>1, <2>1 DEF BeginNote, Start, Idle, NoRecord
  <2>2. ASSUME NEW e \in Edits, BeginChange(p, s, d, e) PROVE Free
    BY <1>1, <2>2 DEF BeginChange, Start, Idle, NoRecord
  <2>3. ASSUME NEW e \in Edits, BeginRm(p, s, d, e) PROVE Free
    BY <1>1, <2>3 DEF BeginRm, Start, Idle, NoRecord
  <2>4. Free
    BY <1>7, <2>1, <2>2, <2>3
  <2>5. UNCHANGED <<sess, reviews, ghosts>>
    BY <1>7 DEF BeginNote, BeginChange, BeginRm, files
  <2> QED BY <2>4, <2>5, HoldsNothing, QuietKept DEF ghosts
<1>8. ASSUME NEW group \in SUBSET Sessions, BeginMerge(p, group) PROVE KeptInv'
  <2> DEFINE Read(t) == [sess[t] EXCEPT !.lines = UNION {sess[s].lines : s \in group}]
  <2>1. PICK t \in group :
          Start(p, t, "merge",
                [Idle EXCEPT !.step = "mergeWrite",
                             !.others = group \ {t}, !.fold = group \ {t},
                             !.todo = {d \in DocIds : docs[d].present},
                             !.rec = Read(t)])
    BY <1>8 DEF BeginMerge
  <2>2. /\ job'[p].step = "mergeWrite" /\ job'[p].sess = t
        /\ job'[p].fold = group \ {t} /\ job'[p].rec = Read(t)
        /\ \A q \in Procs : q # p => job'[q] = job[q]
    BY <1>1, <2>1 DEF Start, Idle
  <2>3. /\ job'[p].rec.present = sess[t].present
        /\ job'[p].rec.lines = UNION {sess[s].lines : s \in group}
    BY <1>1, <2>2 DEF SessionFile
  <2>4. UNCHANGED <<sess, reviews, ghosts>> /\ \A s \in group : sess[s].present
    BY <1>8 DEF BeginMerge, files
  <2> HIDE DEF Read
  <2>5. HadRecord(p)'
    BY <2>2, <2>3, <2>4 DEF HadRecord, KeptInv, RecordsSound, ghosts
  <2>6. ASSUME NEW u \in Sessions, Holder(p, u)'
        PROVE  ~Deleting(p, u)' /\ \A n : Stays(u, n) => Holds(job'[p].rec.lines, n)
    <3>1. u \in group
      BY <2>2, <2>6 DEF Holder
    <3>2. sess[u].lines \subseteq job'[p].rec.lines
      BY <2>3, <3>1
    <3>3. ~Deleting(p, u)'
      BY <2>2 DEF Deleting
    <3>4. \A n : Stays(u, n) => Holds(job'[p].rec.lines, n)
      BY <3>2 DEF Stays, Holds
    <3> QED BY <3>3, <3>4
  <2> QED BY <2>2, <2>4, <2>5, <2>6, QuietKept DEF ghosts
<1> QED BY <1>3, <1>4, <1>5, <1>6, <1>7, <1>8 DEF Begin

LEMMA WritesKept ==
  ASSUME TypeInv, KeptInv, NEW p \in Procs,
         WalRead(p) \/ WalWrite(p) \/ RecapWrite(p) \/ Delete(p)
  PROVE  KeptInv'
<1>0. PICK s, num : s = job[p].sess /\ num = job[p].n
  OBVIOUS
<1> USE <1>0
<1>1. /\ job \in [Procs -> Job] /\ sess \in [Sessions -> SessionFile]
      /\ job[p].step # "idle" /\ s \in Sessions /\ HadRecord(p)
      /\ job[p].step \in {"walRead", "walWrite", "recapWrite", "delete"}
  <2>1. job[p].step \in {"walRead", "walWrite", "recapWrite", "delete"}
    BY DEF WalRead, WalWrite, RecapWrite, Delete, At
  <2> QED BY <2>1, RunningType DEF TypeInv, TypeOK, JobsTyped, KeptInv
\* A record that p held, and lines in it that p does not let go.
<1>2. ASSUME NEW rec, sess' = [sess EXCEPT ![s] = rec], s \in minted',
             minted \subseteq minted', \A u : u \in minted' => u \in minted \cup {s},
             rec.lines # {} => rec.present,
             UNCHANGED reviews,
             \A q \in Procs : q # p => job'[q] = job[q],
             HadRecord(p)', \A u \in Sessions : u # s => ~Holder(p, u)',
             Holder(p, s)' => job'[p].rec = rec /\ ~Deleting(p, s)',
             job'[p].step # "reviewWrite",
             \A n : Stays(s, n) => Holds(rec.lines, n),
             \A n \in acked' \ overlapped' :
               n \in acked \ overlapped \/ Stays(s, n)'
      PROVE  KeptInv'
  <2>1. sess'[s] = rec /\ \A t \in Sessions : t # s => sess'[t] = sess[t]
    BY <1>1, <1>2
  <2>2. ASSUME NEW u \in Sessions, NEW n, Stays(u, n) PROVE Stays(u, n)'
    <3>1. ASSUME NEW q \in Procs, Holder(q, u)'
          PROVE  Holds(job'[q].rec.lines, n) /\ ~Deleting(q, u)'
      <4>1. CASE q = p
        BY <1>2, <2>2, <3>1, <4>1
      <4>2. CASE q # p
        <5>1. job'[q] = job[q]
          BY <1>2, <4>2
        <5> QED BY <2>2, <3>1, <5>1 DEF Stays, Holder, Deleting
      <4> QED BY <4>1, <4>2
    <3>2. Holds(sess'[u].lines, n)
      BY <1>2, <2>1, <2>2 DEF Stays
    <3> QED BY <3>1, <3>2 DEF Stays
  <2>3. ASSUME NEW r \in DocIds, NEW n, FiledIn(r, n) PROVE FiledIn(r, n)'
    <3>1. reviews' = reviews
      BY <1>2
    <3>2. ASSUME NEW q \in Procs, At(q, "reviewWrite")'
          PROVE  job'[q] = job[q]
      BY <1>2, <3>2 DEF At
    <3> QED BY <2>3, <3>1, <3>2 DEF FiledIn, At
  <2>4. \A n \in acked' \ overlapped' : Standing(n)'
    BY <1>1, <1>2, <2>2, <2>3 DEF KeptInv, Standing
  <2>5. \A q \in Procs : HadRecord(q)'
    BY <1>2 DEF KeptInv, HadRecord
  <2>6. RecordsSound'
    BY <1>2, <2>1 DEF KeptInv, RecordsSound
  <2> QED BY <1>2, <2>4, <2>5, <2>6 DEF KeptInv
<1>3. ASSUME WalRead(p) PROVE KeptInv'
  <2> DEFINE rec == OpenRecord(p)
  <2>1. /\ sess' = [sess EXCEPT ![s] = rec] /\ minted' = minted \cup {s}
        /\ UNCHANGED <<reviews, acked, overlapped>>
    BY <1>3 DEF WalRead
  <2>2. /\ job'[p].step = "walWrite" /\ job'[p].rec = rec /\ job'[p].sess = s
        /\ job'[p].fold = job[p].fold
        /\ \A q \in Procs : q # p => job'[q] = job[q]
    BY <1>1, <1>3 DEF WalRead, Job
  <2>3. rec.present /\ \A n : Holds(sess[s].lines, n) => Holds(rec.lines, n)
    <3>1. CASE sess[s].present
      BY <3>1 DEF OpenRecord
    <3>2. CASE ~sess[s].present
      <4>1. sess[s].lines = {} /\ rec.present
        BY <1>1, <3>2 DEF OpenRecord, KeptInv, RecordsSound
      <4> QED BY <4>1 DEF Holds
    <3> QED BY <3>1, <3>2
  <2> HIDE DEF rec
  <2>4. job[p].fold = {}
    BY <1>1, <1>3 DEF WalRead, At, HadRecord
  <2>5. HadRecord(p)' /\ (\A u \in Sessions : u # s => ~Holder(p, u)') /\ ~Deleting(p, s)'
    BY <2>1, <2>2, <2>3, <2>4 DEF HadRecord, Holder, Deleting
  <2> QED BY <1>2, <2>1, <2>2, <2>3, <2>5 DEF Stays
<1>4. ASSUME WalWrite(p) PROVE KeptInv'
  <2> DEFINE rec == [job[p].rec EXCEPT !.lines = @ \cup {LineOf(p)}]
  <2>1. /\ sess' = [sess EXCEPT ![s] = rec] /\ UNCHANGED <<reviews, minted>>
        /\ acked' = acked \cup {job[p].n} /\ Exit(p)
        /\ Overlaps(Holders(p, s), {LineOf(p)})
        /\ job[p].step = "walWrite"
    BY <1>4 DEF WalWrite, At
  <2>2. rec.present /\ rec.lines = job[p].rec.lines \cup {LineOf(p)}
    <3>1. job[p].rec \in SessionFile
      BY <1>1, RunningType
    <3> QED BY <1>1, <2>1, <3>1 DEF HadRecord, SessionFile
  <2> HIDE DEF rec
  <2>3. Holder(p, s)
    BY <1>1, <2>1 DEF Holder, HadRecord
  <2>4. \A n : Stays(s, n) => Holds(rec.lines, n)
    BY <2>2, <2>3 DEF Stays, Holds
  <2>5. /\ \A u : ~Holder(p, u)'
        /\ HadRecord(p)' /\ job'[p].step # "reviewWrite"
        /\ \A q \in Procs : q # p => job'[q] = job[q]
    BY <2>1, ExitHoldsNothing
  <2>6. LineOf(p).n = job[p].n
    BY DEF LineOf
  <2>7. overlapped \subseteq overlapped' /\ (Holders(p, s) # {} => job[p].n \in overlapped')
    BY <2>1, <2>6 DEF Overlaps
  <2>8. ASSUME Holders(p, s) = {} PROVE Stays(s, num)'
    <3>1. \A q \in Procs : q # p => ~Holder(q, s)
      BY <2>8, HoldersAre
    <3>2. \A q \in Procs : ~Holder(q, s)'
      BY <2>5, <3>1 DEF Holder
    <3>3. sess'[s] = rec
      BY <1>1, <2>1
    <3>4. Holds(rec.lines, num)
      BY <2>2, <2>6 DEF Holds
    <3> QED BY <3>2, <3>3, <3>4 DEF Stays
  <2>9. s \in minted
    BY <1>1, <2>1 DEF HadRecord
  <2> QED BY <1>2, <2>1, <2>2, <2>4, <2>5, <2>7, <2>8, <2>9
<1>5. ASSUME RecapWrite(p) PROVE KeptInv'
  <2>1. /\ sess' = [sess EXCEPT ![s] = job[p].rec] /\ UNCHANGED <<reviews, ghosts>>
        /\ Exit(p) /\ job[p].step = "recapWrite"
    BY <1>5 DEF RecapWrite, At
  <2>2. job[p].rec.present /\ s \in minted /\ Holder(p, s)
    BY <1>1, <2>1 DEF HadRecord, Holder
  <2>3. \A n : Stays(s, n) => Holds(job[p].rec.lines, n)
    BY <2>2 DEF Stays
  <2> QED BY <1>2, <2>1, <2>2, <2>3, ExitHoldsNothing DEF ghosts
<1>6. ASSUME Delete(p) PROVE KeptInv'
  <2>1. /\ sess' = [sess EXCEPT ![s] = NoRecord] /\ UNCHANGED <<reviews, ghosts>>
        /\ Exit(p) /\ job[p].step = "delete"
    BY <1>6 DEF Delete, At
  <2>2. sess'[s] = NoRecord /\ \A t \in Sessions : t # s => sess'[t] = sess[t]
    BY <1>1, <2>1
  <2>3. Holder(p, s) /\ Deleting(p, s)
    BY <1>1, <2>1 DEF HadRecord, Holder, Deleting
  <2>4. \A n : ~Stays(s, n)
    BY <2>3 DEF Stays
  <2>5. /\ \A u : ~Holder(p, u)'
        /\ HadRecord(p)' /\ job'[p].step # "reviewWrite"
        /\ \A q \in Procs : q # p => job'[q] = job[q]
    BY <2>1, ExitHoldsNothing
  <2>6. ASSUME NEW u \in Sessions, NEW n, Stays(u, n) PROVE Stays(u, n)'
    BY <2>2, <2>4, <2>5, <2>6 DEF Stays, Holder, Deleting
  <2>7. ASSUME NEW r \in DocIds, NEW n, FiledIn(r, n) PROVE FiledIn(r, n)'
    BY <2>1, <2>5, <2>7 DEF FiledIn, At
  <2>8. \A n \in acked' \ overlapped' : Standing(n)'
    BY <2>1, <2>6, <2>7 DEF KeptInv, Standing, ghosts
  <2>9. (\A q \in Procs : HadRecord(q)') /\ RecordsSound'
    BY <2>1, <2>2, <2>5 DEF KeptInv, HadRecord, RecordsSound, NoRecord, ghosts
  <2> QED BY <2>1, <2>8, <2>9 DEF KeptInv
<1> QED BY <1>3, <1>4, <1>5, <1>6

LEMMA ReviewsKept ==
  ASSUME TypeInv, KeptInv, NEW p \in Procs, ReviewWrite(p)
  PROVE  KeptInv'
<1>0. PICK r, s, lines : r = job[p].ref /\ s = job[p].sess /\ lines = job[p].rec.lines
  OBVIOUS
<1> USE <1>0
<1>1. /\ job \in [Procs -> Job] /\ reviews \in [DocIds -> ReviewFile]
      /\ r \in DocIds /\ job[p].step = "reviewWrite" /\ job[p] \in Job
  BY DEF ReviewWrite, At, RefSteps, TypeInv, TypeOK, JobsTyped, JobTyped
<1>2. /\ reviews'[r].lines = lines /\ reviews'[r].present
      /\ \A q \in DocIds : q # r => reviews'[q] = reviews[q]
      /\ Overlaps(Namesakes(p), lines)
      /\ UNCHANGED <<sess, minted, acked>>
  BY <1>1 DEF ReviewWrite
<1>3. \/ Exit(p)
      \/ /\ job'[p].step = "delete" /\ job'[p].rec = job[p].rec /\ job'[p].sess = s
         /\ job'[p].fold = job[p].fold /\ job[p].rec.present
  BY <1>1 DEF ReviewWrite, Goto, Job
<1>4. (\A q \in Procs : q # p => job'[q] = job[q]) /\ job'[p].step # "reviewWrite"
  BY <1>1, <1>3, ExitHoldsNothing DEF ReviewWrite, Goto, Job
<1>5. HadRecord(p)'
  BY <1>3, ExitHoldsNothing DEF HadRecord
<1>6. overlapped \subseteq overlapped'
        /\ \A n : Holds(lines, n) /\ n \notin overlapped' => Namesakes(p) = {}
  BY <1>2 DEF Overlaps, Holds
<1>7. ASSUME NEW q \in DocIds, NEW n, FiledIn(q, n) PROVE FiledIn(q, n)'
  <2>1. CASE q # r
    BY <1>2, <1>4, <1>7, <2>1 DEF FiledIn, At
  <2>2. CASE q = r
    <3>1. Holds(lines, n)
      BY <1>1, <1>7, <2>2 DEF FiledIn, At
    <3> QED BY <1>2, <1>4, <1>7, <2>2, <3>1 DEF FiledIn, At
  <2> QED BY <2>1, <2>2
<1>8. ASSUME NEW n, Holds(lines, n), n \notin overlapped' PROVE FiledIn(r, n)'
  <2>1. \A q \in Procs : q # p => ~(At(q, "reviewWrite") /\ job[q].ref = r)
    BY <1>6, <1>8 DEF Namesakes
  <2> QED BY <1>2, <1>4, <1>8, <2>1 DEF FiledIn, At
<1>9. ASSUME NEW u \in Sessions, NEW n, Stays(u, n), n \notin overlapped'
      PROVE  Stays(u, n)' \/ FiledIn(r, n)'
  <2>1. CASE Exit(p)
    BY <1>2, <1>4, <1>9, <2>1, ExitHoldsNothing DEF Stays, Holder, Deleting
  <2>2. CASE job'[p].step = "delete" /\ u = s /\ job[p].rec.present
    <3>1. Holder(p, u)
      BY <1>1, <2>2 DEF Holder
    <3> QED BY <1>8, <1>9, <3>1 DEF Stays
  <2>3. CASE job'[p].step = "delete" /\ u # s /\ ~Exit(p)
    <3>1. Holder(p, u)' => Holder(p, u)
      BY <1>3, <2>3 DEF Holder
    <3>2. ~Deleting(p, u)'
      BY <1>3, <2>3 DEF Deleting
    <3> QED BY <1>2, <1>3, <1>4, <1>9, <2>3, <3>1, <3>2 DEF Stays, Holder, Deleting
  <2> QED BY <1>3, <2>1, <2>2, <2>3
<1>10. \A n \in acked' \ overlapped' : Standing(n)'
  BY <1>1, <1>2, <1>6, <1>7, <1>9 DEF KeptInv, Standing
<1>11. (\A q \in Procs : HadRecord(q)') /\ RecordsSound'
  BY <1>2, <1>4, <1>5 DEF KeptInv, HadRecord, RecordsSound
<1>12. \A q \in DocIds : reviews'[q].lines # {} => reviews'[q].present
  BY <1>2 DEF KeptInv
<1> QED BY <1>10, <1>11, <1>12 DEF KeptInv

LEMMA MergesKept ==
  ASSUME TypeInv, KeptInv, NEW p \in Procs, MergeWrite(p) \/ MergeDelete(p)
  PROVE  KeptInv'
<1>0. PICK t, fold : t = job[p].sess /\ fold = job[p].fold
  OBVIOUS
<1> USE <1>0
<1>1. /\ job \in [Procs -> Job] /\ sess \in [Sessions -> SessionFile]
      /\ job[p].step \in {"mergeWrite", "mergeDelete"} /\ job[p] \in Job
      /\ t \in Sessions /\ fold \subseteq Sessions /\ t \notin fold
  <2>1. job[p].step \in {"mergeWrite", "mergeDelete"}
    BY DEF MergeWrite, MergeDelete, At
  <2> QED BY <2>1, RunningType DEF TypeInv, TypeOK, JobsTyped, KeptInv, HadRecord
<1>2. ASSUME MergeWrite(p) PROVE KeptInv'
  <2> DEFINE lines == job[p].rec.lines
  <2>1. /\ sess'[t] = job[p].rec
        /\ \A s \in Sessions : s # t => sess'[s] = sess[s]
        /\ Overlaps(Holders(p, t), lines) /\ job[p].step = "mergeWrite"
        /\ UNCHANGED <<reviews, minted, acked>>
    BY <1>1, <1>2 DEF MergeWrite, At
  <2>2. job[p].rec.present /\ t \in minted
    BY <2>1 DEF KeptInv, HadRecord
  <2>3. /\ job'[p].step = "mergeDelete" /\ job'[p].sess = t
        /\ job'[p].fold = fold /\ job'[p].rec = job[p].rec
        /\ \A q \in Procs : q # p => job'[q] = job[q]
    BY <1>1, <1>2 DEF MergeWrite, Goto, Job
  <2>4. HadRecord(p)' /\ (\A u : Holder(p, u)' => u \in fold)
    BY <1>1, <2>3 DEF HadRecord, Holder
  <2>5. \A u \in fold \cup {t} : Holder(p, u)
    BY <2>1, <2>2 DEF Holder
  <2>6. overlapped \subseteq overlapped'
          /\ \A n : Holds(lines, n) /\ n \notin overlapped' => Holders(p, t) = {}
    BY <2>1 DEF Overlaps, Holds
  <2>7. ASSUME NEW n, NEW u \in Sessions, Stays(u, n), n \notin overlapped'
        PROVE  Stays(u, n)' \/ Stays(t, n)'
    <3>1. CASE u \in fold
      <4>1. Holds(lines, n)
        BY <2>5, <2>7, <3>1 DEF Stays
      <4>2. \A q \in Procs : q # p => ~Holder(q, t)
        BY <2>6, <2>7, <4>1, HoldersAre
      <4>3. \A q \in Procs : ~Holder(q, t)'
        BY <1>1, <2>3, <2>4, <4>2 DEF Holder
      <4> QED BY <2>1, <4>1, <4>3 DEF Stays
    <3>2. CASE u = t
      <4>1. Holds(lines, n)
        BY <2>5, <2>7, <3>2 DEF Stays
      <4>2. ~Holder(p, t)'
        BY <1>1, <2>4
      <4> QED BY <2>1, <2>3, <2>7, <3>2, <4>1, <4>2 DEF Stays, Holder, Deleting
    <3>3. CASE u \notin fold /\ u # t
      BY <2>1, <2>3, <2>4, <2>7, <3>3 DEF Stays, Holder, Deleting
    <3> QED BY <3>1, <3>2, <3>3
  <2>8. ASSUME NEW r \in DocIds, NEW n, FiledIn(r, n) PROVE FiledIn(r, n)'
    BY <2>1, <2>3, <2>8 DEF FiledIn, At
  <2>9. \A n \in acked' \ overlapped' : Standing(n)'
    BY <1>1, <2>1, <2>6, <2>7, <2>8 DEF KeptInv, Standing
  <2>10. (\A q \in Procs : HadRecord(q)') /\ RecordsSound'
    BY <2>1, <2>2, <2>3, <2>4 DEF KeptInv, HadRecord, RecordsSound
  <2> QED BY <2>1, <2>9, <2>10 DEF KeptInv
<1>3. ASSUME MergeDelete(p) PROVE KeptInv'
  <2>1. PICK s \in fold :
          /\ sess' = [sess EXCEPT ![s] = NoRecord]
          /\ job' = [job EXCEPT ![p].fold = @ \ {s},
                                ![p].step = IF job[p].fold = {s} THEN "retag" ELSE @]
    BY <1>3 DEF MergeDelete
  <2>2. /\ sess'[s] = NoRecord
        /\ \A u \in Sessions : u # s => sess'[u] = sess[u]
        /\ UNCHANGED <<reviews, ghosts>> /\ job[p].step = "mergeDelete"
    BY <1>1, <1>3, <2>1 DEF MergeDelete, At
  <2>3. /\ job'[p].step \in {"mergeDelete", "retag"} /\ job'[p].sess = t
        /\ job'[p].fold = fold \ {s} /\ job'[p].rec = job[p].rec
        /\ \A q \in Procs : q # p => job'[q] = job[q]
    <3> DEFINE next == IF job[p].fold = {s} THEN "retag" ELSE job[p].step
    <3>1. job'[p] = [job[p] EXCEPT !.fold = job[p].fold \ {s}, !.step = next]
      BY <1>1, <2>1, Zenon
    <3>2. next \in {"mergeDelete", "retag"} /\ \A q \in Procs : q # p => job'[q] = job[q]
      BY <1>1, <2>1, <2>2
    <3> HIDE DEF next
    <3> QED BY <1>1, <3>1, <3>2 DEF Job
  <2>4. \A n : ~Stays(s, n)
    BY <2>2 DEF Stays, Holder, Deleting
  <2>5. ASSUME NEW u \in Sessions, NEW n, Stays(u, n) PROVE Stays(u, n)'
    <3>1. u # s
      BY <2>4, <2>5
    <3>2. ~Holder(p, u)'
      <4>1. u \notin fold
        BY <2>2, <2>5 DEF Stays, Holder, Deleting
      <4> QED BY <2>3, <4>1 DEF Holder
    <3> QED BY <2>2, <2>3, <2>5, <3>1, <3>2 DEF Stays, Holder, Deleting
  <2>6. ASSUME NEW r \in DocIds, NEW n, FiledIn(r, n) PROVE FiledIn(r, n)'
    BY <2>2, <2>3, <2>6 DEF FiledIn, At
  <2>7. \A n \in acked' \ overlapped' : Standing(n)'
    BY <2>2, <2>5, <2>6 DEF KeptInv, Standing, ghosts
  <2>8. HadRecord(p)'
    BY <1>1, <2>3 DEF HadRecord
  <2>9. (\A q \in Procs : HadRecord(q)') /\ RecordsSound'
    BY <2>2, <2>3, <2>8 DEF KeptInv, HadRecord, RecordsSound, NoRecord, ghosts
  <2> QED BY <2>2, <2>7, <2>9 DEF KeptInv
<1> QED BY <1>2, <1>3

\* The other steps hold on to what they hold, or let go of it.
LEMMA OthersKept ==
  ASSUME TypeInv, KeptInv, NEW p \in Procs,
         \/ DocWrite(p) \/ Unlink(p) \/ RollBackNew(p) \/ Crash(p)
         \/ Gate(p) \/ HistoryRead(p) \/ HistoryWrite(p) \/ HistoryDone(p) \/ Mint(p)
         \/ Retag(p) \/ RetagWrite(p) \/ RetagDone(p)
  PROVE  KeptInv'
<1>1. job \in [Procs -> Job] /\ job[p] \in Job
  BY DEF TypeInv, JobsTyped
<1>2. UNCHANGED <<sess, reviews, ghosts>>
  BY DEF DocWrite, Unlink, RollBackNew, Crash, Gate, HistoryRead, HistoryWrite,
     HistoryDone, Mint, Retag, RetagWrite, RetagDone, files, ghosts
<1>3. ASSUME Exit(p) PROVE KeptInv'
  BY <1>2, <1>3, ExitHoldsNothing, QuietKept DEF ghosts
<1>4. ASSUME job'[p].rec = job[p].rec, job'[p].sess = job[p].sess,
             job'[p].fold = job[p].fold,
             \A q \in Procs : q # p => job'[q] = job[q],
             \/ /\ job[p].step \in ClosingSteps
                /\ job'[p].step \in ClosingSteps \ {"reviewWrite"}
             \/ /\ job[p].step \in {"docWrite", "unlink"}
                /\ job'[p].step = "walRead"
             \/ /\ job[p].step \in {"retag", "retagWrite"}
                /\ job'[p].step \in {"retag", "retagWrite"}
      PROVE  KeptInv'
  <2>1. HadRecord(p)' /\ \A u : ~Deleting(p, u)'
    BY <1>4 DEF HadRecord, Deleting, ClosingSteps, KeptInv
  <2>2. \A u : Holder(p, u)' => Holder(p, u)
    BY <1>4 DEF Holder, ClosingSteps
  <2>3. job'[p].step # "reviewWrite"
    BY <1>4 DEF ClosingSteps
  <2> QED BY <1>2, <1>4, <2>1, <2>2, <2>3, QuietKept DEF ghosts, Stays
<1>5. CASE DocWrite(p) \/ Unlink(p) \/ Gate(p) \/ HistoryDone(p)
  <2>1. ASSUME NEW step, Goto(p, step)
        PROVE  /\ job'[p].rec = job[p].rec /\ job'[p].sess = job[p].sess
               /\ job'[p].fold = job[p].fold /\ job'[p].step = step
               /\ \A q \in Procs : q # p => job'[q] = job[q]
    BY <1>1, <2>1 DEF Goto, Job
  <2>2. \/ Exit(p)
        \/ Goto(p, "walRead") /\ job[p].step \in {"docWrite", "unlink"}
        \/ Goto(p, "history") /\ job[p].step = "gate"
        \/ Goto(p, "mint") /\ job[p].step = "history"
    BY <1>5 DEF DocWrite, Unlink, Gate, HistoryDone, At
  <2> QED BY <1>3, <1>4, <2>1, <2>2 DEF ClosingSteps
<1>6. CASE HistoryRead(p) \/ Retag(p)
  <2>1. PICK d \in DocIds :
          \/ Exit(p)
          \/ job' = [job EXCEPT ![p].todo = @ \ {d}]
          \/ /\ job' = [job EXCEPT ![p].step = "historyWrite", ![p].ref = d,
                                   ![p].doc = docs[d]]
             /\ job[p].step = "history"
          \/ /\ job' = [job EXCEPT ![p].step = "retagWrite", ![p].ref = d,
                                   ![p].doc = docs[d]]
             /\ job[p].step = "retag"
    <3>1. CASE HistoryRead(p)
      BY <3>1 DEF HistoryRead, At
    <3>2. CASE Retag(p)
      <4>1. job[p].todo \subseteq DocIds
        BY <1>1 DEF Job
      <4> QED BY <3>2, <4>1 DEF Retag, At
    <3> QED BY <1>6, <3>1, <3>2
  <2>2. job[p].step \in {"history", "retag"}
    BY <1>6 DEF HistoryRead, Retag, At
  <2>3. CASE job' = [job EXCEPT ![p].todo = @ \ {d}]
    BY <1>1, <1>4, <2>2, <2>3 DEF Job, ClosingSteps
  <2>4. CASE job' = [job EXCEPT ![p].step = "historyWrite", ![p].ref = d, ![p].doc = docs[d]]
               /\ job[p].step = "history"
    BY <1>1, <1>4, <2>4 DEF Job, ClosingSteps
  <2>5. CASE job' = [job EXCEPT ![p].step = "retagWrite", ![p].ref = d, ![p].doc = docs[d]]
               /\ job[p].step = "retag"
    BY <1>1, <1>4, <2>5 DEF Job
  <2> QED BY <1>3, <2>1, <2>3, <2>4, <2>5
<1>7. CASE HistoryWrite(p) \/ RetagWrite(p)
  <2>1. CASE HistoryWrite(p)
    BY <1>1, <1>4, <2>1 DEF HistoryWrite, At, Job, ClosingSteps
  <2>2. CASE RetagWrite(p)
    BY <1>1, <1>4, <2>2 DEF RetagWrite, At, Job
  <2> QED BY <1>7, <2>1, <2>2
<1>8. CASE Mint(p)
  <2>1. PICK r \in DocIds : /\ IsNextId(reviews, r)
                            /\ job' = [job EXCEPT ![p].step = "reviewWrite", ![p].ref = r]
    BY <1>8 DEF Mint
  <2>2. /\ job'[p].rec = job[p].rec /\ job'[p].sess = job[p].sess
        /\ job'[p].fold = job[p].fold /\ job'[p].step = "reviewWrite" /\ job'[p].ref = r
        /\ \A q \in Procs : q # p => job'[q] = job[q]
    BY <1>1, <2>1 DEF Job
  <2>3. reviews[r].lines = {}
    BY <2>1 DEF IsNextId, KeptInv
  <2>4. \A n : ~FiledIn(r, n)
    BY <2>3 DEF FiledIn, Holds
  <2>5. HadRecord(p)' /\ \A u : ~Deleting(p, u)'
    BY <2>2 DEF HadRecord, Deleting
  <2>6. \A u : Holder(p, u)' => Holder(p, u)
    BY <1>8, <2>2 DEF Holder, Mint, At
  <2> QED BY <1>2, <2>2, <2>4, <2>5, <2>6, QuietKept DEF ghosts, Stays
<1> QED BY <1>3, <1>5, <1>6, <1>7, <1>8 DEF RollBackNew, Crash, RetagDone

LEMMA KeptInit == Init => KeptInv
<1> SUFFICES ASSUME Init PROVE KeptInv
  OBVIOUS
<1>1. \A p \in Procs : HadRecord(p)
  BY DEF Init, Idle, HadRecord
<1> QED BY <1>1 DEF Init, KeptInv, RecordsSound, NoRecord, NoReview

LEMMA KeptStep == TypeInv /\ KeptInv /\ [Next]_vars => KeptInv'
<1> SUFFICES ASSUME TypeInv, KeptInv, [Next]_vars PROVE KeptInv'
  OBVIOUS
<1>1. ASSUME NEW p \in Procs, Continue(p) \/ Crash(p) PROVE KeptInv'
  BY <1>1, WritesKept, ReviewsKept, MergesKept, OthersKept DEF Continue
<1>2. ASSUME UNCHANGED <<files, job, ghosts>> PROVE KeptInv'
  BY <1>2 DEF files, ghosts, KeptInv, RecordsSound, HadRecord, Standing, Stays, FiledIn,
     Holder, Deleting, At
<1>3. Tick \/ UNCHANGED vars => UNCHANGED <<files, job, ghosts>>
  BY DEF Tick, vars, files, ghosts
<1> QED BY <1>1, <1>2, <1>3, BeginsKept DEF Next

\* No line of a command that succeeded is ever lost, whoever shares the session
\* and whatever the order of their steps, but to a command that holds an older
\* copy at the moment the line comes in.
THEOREM AckedKeptHolds == Spec => []AckedKept
<1>1. KeptInv => AckedKept
  BY DEF KeptInv, AckedKept, Standing, Stays, FiledIn
<1>2. TypeInv /\ KeptInv /\ [Next]_vars => (TypeInv /\ KeptInv)'
  BY TypeStep, KeptStep
<1> QED BY <1>1, <1>2, TypeInit, KeptInit, PTL DEF Spec

-----------------------------------------------------------------------------
(* Commands that run one after the other *)

Serial == \A p, q \in Procs : p = q

\* What a close has loaded is what the files say.
LoadedInMemory(p) ==
  job[p].step \in {"gate", "history", "historyWrite"} =>
    job[p].loaded = Loaded /\ job[p].frozen = Snapshots

\* The document a command is about to write is on file as it was read, or, for
\* a creation, not there.
DocInMemory(p) ==
  /\ At(p, "docWrite") /\ job[p].op = "new" =>
       /\ ~docs[job[p].ref].present
       /\ job[p].doc.born = job[p].n
  /\ At(p, "docWrite") /\ job[p].op # "new" =>
       /\ Mutable(job[p].ref)
       /\ job[p].doc.born = docs[job[p].ref].born
       /\ job[p].doc.history = docs[job[p].ref].history
  /\ At(p, "historyWrite") => Mutable(job[p].ref) /\ job[p].doc = docs[job[p].ref]
  /\ At(p, "retagWrite") => docs[job[p].ref].present /\ job[p].doc = docs[job[p].ref]
  /\ LoadedInMemory(p)

\* The steps at which a command holds no document it goes by.
DocFreeSteps == Steps \ {"docWrite", "gate", "history", "historyWrite", "retagWrite"}

DocsInMemory == \A p \in Procs : DocInMemory(p)

\* The commands that wrote a document's history.
Writers(doc) == {h.by : h \in doc.history}

\* What a step does to a document that is on file before it and after it.
DocKept(d) ==
  /\ docs'[d].born = docs[d].born
  /\ Writers(docs[d]) \subseteq Writers(docs'[d])
  /\ docs[d].archived =>
       docs'[d].archived /\ Writers(docs'[d]) = Writers(docs[d])

LEMMA ElsewhereInMemory ==
  ASSUME NEW p \in Procs, job[p].step \in DocFreeSteps
  PROVE  DocInMemory(p)
BY DEF DocInMemory, LoadedInMemory, DocFreeSteps, At

\* A command begins with nothing in memory, or with a document as it is on file.
LEMMA BeginInMemory ==
  ASSUME TypeInv, NEW p \in Procs, Begin(p)
  PROVE  DocInMemory(p)' /\ UNCHANGED docs
<1>1. job \in [Procs -> Job]
  BY DEF TypeInv, JobsTyped
<1>2. ASSUME job'[p].step \in {"idle", "recapWrite", "walRead", "unlink", "mergeWrite"}
      PROVE  DocInMemory(p)'
  BY <1>2 DEF DocInMemory, LoadedInMemory, At
<1>3. ASSUME NEW s \in Sessions,
             \/ SessionStart(p, s) \/ BeginRecap(p, s)
             \/ \E force \in BOOLEAN : BeginClose(p, s, force)
             \/ \E d \in DocIds : BeginNote(p, s, d) \/ \E e \in Edits : BeginRm(p, s, d, e)
      PROVE  DocInMemory(p)' /\ UNCHANGED docs
  <2>1. UNCHANGED docs
    BY <1>3 DEF SessionStart, BeginRecap, BeginClose, BeginNote, BeginRm, files
  <2>2. CASE SessionStart(p, s)
    BY <1>1, <1>2, <2>1, <2>2 DEF SessionStart, Start, Idle
  <2>3. CASE BeginRecap(p, s)
    BY <1>1, <1>2, <2>1, <2>3 DEF BeginRecap, Start, Idle
  <2>4. ASSUME NEW force \in BOOLEAN, BeginClose(p, s, force) PROVE DocInMemory(p)'
    <3>1. /\ job'[p].step \in {"mint", "history", "gate"}
          /\ job'[p].loaded = Loaded /\ job'[p].frozen = Snapshots
      BY <1>1, <2>4 DEF BeginClose, Start, Idle
    <3> QED BY <2>1, <3>1 DEF DocInMemory, LoadedInMemory, Loaded, Snapshots, At
  <2>5. ASSUME NEW d \in DocIds, BeginNote(p, s, d) PROVE DocInMemory(p)'
    BY <1>1, <1>2, <2>5 DEF BeginNote, Start, Idle
  <2>6. ASSUME NEW d \in DocIds, NEW e \in Edits, BeginRm(p, s, d, e)
        PROVE  DocInMemory(p)'
    BY <1>1, <1>2, <2>6 DEF BeginRm, Start, Idle
  <2> QED BY <1>3, <2>1, <2>2, <2>3, <2>4, <2>5, <2>6
<1>4. ASSUME NEW s \in Sessions, NEW arch \in BOOLEAN, BeginNew(p, s, arch)
      PROVE  DocInMemory(p)' /\ UNCHANGED docs
  <2>1. PICK d \in DocIds :
          /\ IsNextId(docs, d)
          /\ Start(p, s, "new",
                   [Idle EXCEPT !.step = "docWrite", !.op = "new", !.ref = d,
                                !.types = {"addition"},
                                !.doc = [present |-> TRUE, archived |-> arch,
                                         born |-> commands + 1, history |-> {}]])
    BY <1>4 DEF BeginNew
  <2>2. /\ job'[p].step = "docWrite" /\ job'[p].op = "new" /\ job'[p].ref = d
        /\ job'[p].n = commands + 1 /\ job'[p].doc.born = commands + 1
    BY <1>1, <2>1 DEF Start, Idle
  <2>3. UNCHANGED docs /\ ~docs[d].present
    BY <1>4, <2>1 DEF BeginNew, files, IsNextId
  <2> QED BY <2>2, <2>3 DEF DocInMemory, LoadedInMemory, At
<1>5. ASSUME NEW s \in Sessions, NEW d \in DocIds, NEW e \in Edits,
             BeginChange(p, s, d, e)
      PROVE  DocInMemory(p)' /\ UNCHANGED docs
  <2>1. /\ job'[p].step = "docWrite" /\ job'[p].op = "change" /\ job'[p].ref = d
        /\ job'[p].doc = [docs[d] EXCEPT !.archived = e.retires]
    BY <1>1, <1>5 DEF BeginChange, Start, Idle
  <2>2. docs[d] \in DocFile
    BY DEF TypeInv, TypeOK
  <2>3. job'[p].doc.born = docs[d].born /\ job'[p].doc.history = docs[d].history
    BY <2>1, <2>2 DEF DocFile
  <2>4. UNCHANGED docs /\ Mutable(d)
    BY <1>5 DEF BeginChange, files
  <2> QED BY <2>1, <2>3, <2>4 DEF DocInMemory, LoadedInMemory, At, Mutable
<1>6. ASSUME NEW group \in SUBSET Sessions, BeginMerge(p, group)
      PROVE  DocInMemory(p)' /\ UNCHANGED docs
  <2>1. \E t \in group : \E rec, others, todo :
          Start(p, t, "merge",
                [Idle EXCEPT !.step = "mergeWrite", !.others = others, !.fold = others,
                             !.todo = todo, !.rec = rec])
    BY <1>6 DEF BeginMerge
  <2>2. job'[p].step = "mergeWrite"
    BY <1>1, <2>1 DEF Start, Idle
  <2> QED BY <1>2, <1>6, <2>2 DEF BeginMerge, files
<1> QED BY <1>3, <1>4, <1>5, <1>6 DEF Begin

\* A document that is on file after a step was there before it, and was kept,
\* or is the one a command was about to create.
DocStep ==
  \A d \in DocIds :
    docs'[d].present =>
      \/ docs[d].present /\ DocKept(d)
      \/ /\ ~docs[d].present
         /\ \E p \in Procs : At(p, "docWrite") /\ docs'[d].born = job[p].n

LEMMA QuietDocs == ASSUME UNCHANGED docs PROVE DocStep
BY DEF DocStep, DocKept

\* The by of a history entry is not changed when the entry is restamped.
LEMMA RestampedWriters ==
  ASSUME NEW p \in Procs, NEW history \in SUBSET HistoryEntry
  PROVE  {h.by : h \in Restamped(p, history)} = {h.by : h \in history}
<1> DEFINE stamp(h) == IF h.sess \in job[p].others
                       THEN [h EXCEPT !.sess = job[p].sess, !.opened = job[p].rec.opened]
                       ELSE h
<1>1. \A h \in history : stamp(h).by = h.by
  BY DEF HistoryEntry
<1>2. Restamped(p, history) = {stamp(h) : h \in history}
  BY DEF Restamped
<1> HIDE DEF stamp
<1> QED BY <1>1, <1>2

LEMMA WritingDocs ==
  ASSUME TypeInv, NEW p \in Procs, DocInMemory(p),
         DocWrite(p) \/ Unlink(p) \/ RollBackNew(p) \/ HistoryWrite(p) \/ RetagWrite(p)
  PROVE  DocStep /\ DocInMemory(p)'
<1>1. job \in [Procs -> Job] /\ docs \in [DocIds -> DocFile]
  BY DEF TypeInv, TypeOK, JobsTyped
<1>2. ASSUME NEW r, NEW doc, docs' = [docs EXCEPT ![r] = doc],
             r \in DocIds => 
               \/ ~doc.present
               \/ docs[r].present /\ doc.born = docs[r].born
                    /\ Writers(docs[r]) \subseteq Writers(doc)
                    /\ (docs[r].archived => doc.archived /\ Writers(doc) = Writers(docs[r]))
               \/ ~docs[r].present /\ At(p, "docWrite") /\ doc.born = job[p].n
      PROVE  DocStep
  BY <1>1, <1>2 DEF DocStep, DocKept
<1>3. ASSUME DocWrite(p) PROVE DocStep /\ DocInMemory(p)'
  <2>1. job'[p].step \in {"idle", "walRead"}
    BY <1>1, <1>3 DEF DocWrite, Exit, Goto, Idle, Job
  <2>2. DocStep
    BY <1>2, <1>3 DEF DocWrite, DocInMemory, At, Mutable, Writers
  <2> QED BY <2>1, <2>2 DEF DocInMemory, LoadedInMemory, At
<1>4. ASSUME Unlink(p) \/ RollBackNew(p) PROVE DocStep /\ DocInMemory(p)'
  <2>1. job'[p].step \in {"idle", "walRead"}
    BY <1>1, <1>4 DEF Unlink, RollBackNew, Exit, Goto, Idle, Job
  <2>2. DocStep
    BY <1>2, <1>4 DEF Unlink, RollBackNew, NoDoc
  <2> QED BY <2>1, <2>2 DEF DocInMemory, LoadedInMemory, At
<1>5. ASSUME HistoryWrite(p) PROVE DocStep /\ DocInMemory(p)'
  <2> DEFINE doc == [job[p].doc EXCEPT !.history = @ \cup {EntryOf(p)}]
  <2>1. /\ job'[p].step = "history"
        /\ job'[p].loaded = Loaded' /\ job'[p].frozen = Snapshots'
    BY <1>1, <1>5 DEF HistoryWrite, Job
  <2>2. job[p].doc = docs[job[p].ref] /\ Mutable(job[p].ref) /\ job[p].doc \in DocFile
    BY <1>1, <1>5 DEF HistoryWrite, DocInMemory, At, Job
  <2>3. /\ doc.born = job[p].doc.born
        /\ doc.history = job[p].doc.history \cup {EntryOf(p)}
    BY <2>2 DEF DocFile
  <2>4. docs' = [docs EXCEPT ![job[p].ref] = doc]
    BY <1>5 DEF HistoryWrite
  <2> HIDE DEF doc
  <2>5. Writers(job[p].doc) \subseteq Writers(doc)
    BY <2>3 DEF Writers
  <2>6. DocStep
    BY <1>2, <2>2, <2>3, <2>4, <2>5 DEF Mutable
  <2> QED BY <2>1, <2>6 DEF DocInMemory, LoadedInMemory, At
<1>6. ASSUME RetagWrite(p) PROVE DocStep /\ DocInMemory(p)'
  <2> DEFINE doc == [job[p].doc EXCEPT !.history = Restamped(p, @)]
  <2>1. job'[p].step = "retag"
    BY <1>1, <1>6 DEF RetagWrite, Job
  <2>2. job[p].doc = docs[job[p].ref] /\ docs[job[p].ref].present /\ job[p].doc \in DocFile
    BY <1>1, <1>6 DEF RetagWrite, DocInMemory, At, Job
  <2>3. /\ doc.born = job[p].doc.born /\ doc.archived = job[p].doc.archived
        /\ doc.history = Restamped(p, job[p].doc.history)
        /\ job[p].doc.history \in SUBSET HistoryEntry
    BY <2>2 DEF DocFile
  <2>4. docs' = [docs EXCEPT ![job[p].ref] = doc]
    BY <1>6 DEF RetagWrite
  <2> HIDE DEF doc
  <2>5. Writers(doc) = Writers(job[p].doc)
    BY <2>3, RestampedWriters DEF Writers
  <2>6. DocStep
    BY <1>2, <2>2, <2>3, <2>4, <2>5
  <2> QED BY <2>1, <2>6 DEF DocInMemory, LoadedInMemory, At
<1> QED BY <1>3, <1>4, <1>5, <1>6

\* The other steps write no document, and at most read one to be written next.
LEMMA ReadingDocs ==
  ASSUME TypeInv, NEW p \in Procs, DocInMemory(p),
         \/ WalRead(p) \/ WalWrite(p) \/ RecapWrite(p) \/ Gate(p) \/ HistoryRead(p)
         \/ HistoryDone(p) \/ Mint(p) \/ ReviewWrite(p) \/ Delete(p) \/ MergeWrite(p)
         \/ MergeDelete(p) \/ Retag(p) \/ RetagDone(p) \/ Crash(p)
  PROVE  UNCHANGED docs /\ DocInMemory(p)'
<1>1. job \in [Procs -> Job]
  BY DEF TypeInv, JobsTyped
<1>2. UNCHANGED docs
  BY DEF WalRead, WalWrite, RecapWrite, Gate, HistoryRead, HistoryDone, Mint, ReviewWrite,
     Delete, MergeWrite, MergeDelete, Retag, RetagDone, Crash, files
<1>3. ASSUME job'[p].step \notin {"docWrite", "gate", "history", "historyWrite", "retagWrite"}
      PROVE  DocInMemory(p)'
  BY <1>3 DEF DocInMemory, LoadedInMemory, At
<1>4. ASSUME Exit(p) \/ \E step \in {"delete", "mint", "mergeDelete"} : Goto(p, step)
      PROVE  DocInMemory(p)'
  BY <1>1, <1>3, <1>4 DEF Exit, Goto, Idle, Job
\* The close goes on with the documents it has loaded.
<1>11. ASSUME At(p, "gate") \/ At(p, "history"), job'[p].step = "history",
              job'[p].loaded = job[p].loaded, job'[p].frozen = job[p].frozen
       PROVE  DocInMemory(p)'
  BY <1>2, <1>11 DEF DocInMemory, LoadedInMemory, Loaded, Snapshots, At
<1>12. CASE Gate(p)
  <2>1. CASE Goto(p, "history")
    <3>1. /\ job'[p].step = "history"
          /\ job'[p].loaded = job[p].loaded /\ job'[p].frozen = job[p].frozen
      BY <1>1, <2>1 DEF Goto, Job
    <3> QED BY <1>2, <1>11, <1>12, <3>1 DEF Gate
  <2> QED BY <1>2, <1>4, <1>12, <2>1 DEF Gate
<1>5. CASE WalWrite(p) \/ RecapWrite(p) \/ HistoryDone(p) \/ ReviewWrite(p)
             \/ Delete(p) \/ MergeWrite(p) \/ RetagDone(p) \/ Crash(p)
  BY <1>2, <1>4, <1>5 DEF WalWrite, RecapWrite, HistoryDone, ReviewWrite, Delete,
     MergeWrite, RetagDone, Crash
<1>6. CASE WalRead(p)
  BY <1>1, <1>2, <1>3, <1>6 DEF WalRead, Job
<1>7. CASE Mint(p)
  <2>1. PICK r : job' = [job EXCEPT ![p].step = "reviewWrite", ![p].ref = r]
    BY <1>7 DEF Mint
  <2>2. job'[p].step = "reviewWrite"
    BY <1>1, <2>1 DEF Job
  <2> QED BY <1>2, <1>3, <2>2
<1>8. CASE MergeDelete(p)
  <2>1. PICK s : job' = [job EXCEPT ![p].fold = @ \ {s},
                           ![p].step = IF job[p].fold = {s} THEN "retag" ELSE @]
    BY <1>8 DEF MergeDelete
  <2> DEFINE next == IF job[p].fold = {s} THEN "retag" ELSE job[p].step
  <2>2. job'[p] = [job[p] EXCEPT !.fold = job[p].fold \ {s}, !.step = next]
    BY <1>1, <2>1, Zenon
  <2>3. next \in {"retag", "mergeDelete"}
    BY <1>8 DEF MergeDelete, At
  <2> HIDE DEF next
  <2>4. job'[p].step \in {"retag", "mergeDelete"}
    BY <1>1, <2>2, <2>3 DEF Job
  <2> QED BY <1>2, <1>3, <2>4
<1>9. CASE HistoryRead(p)
  <2>1. PICK d \in DocIds :
          \/ Exit(p)
          \/ job' = [job EXCEPT ![p].todo = @ \ {d}]
          \/ /\ d \notin job[p].frozen /\ docs[d].present
             /\ job' = [job EXCEPT ![p].step = "historyWrite", ![p].ref = d,
                                   ![p].doc = docs[d]]
    BY <1>9 DEF HistoryRead
  <2>2. CASE job' = [job EXCEPT ![p].todo = @ \ {d}]
    <3>1. job[p].step = "history"
      BY <1>9 DEF HistoryRead, At
    <3>2. /\ job'[p].step = "history"
          /\ job'[p].loaded = job[p].loaded /\ job'[p].frozen = job[p].frozen
      BY <1>1, <2>2, <3>1 DEF Job
    <3> QED BY <1>2, <1>11, <3>1, <3>2 DEF At
  <2>3. CASE /\ d \notin job[p].frozen /\ docs[d].present
             /\ job' = [job EXCEPT ![p].step = "historyWrite", ![p].ref = d,
                                   ![p].doc = docs[d]]
    <3>1. /\ job'[p].step = "historyWrite" /\ job'[p].ref = d /\ job'[p].doc = docs[d]
          /\ job'[p].loaded = job[p].loaded /\ job'[p].frozen = job[p].frozen
      BY <1>1, <2>3 DEF Job
    <3>2. job[p].loaded = Loaded /\ job[p].frozen = Snapshots
      BY <1>9 DEF HistoryRead, At, DocInMemory, LoadedInMemory
    <3>3. Mutable(d)
      BY <2>3, <3>2 DEF Snapshots, Mutable
    <3> QED BY <1>2, <3>1, <3>2, <3>3
            DEF DocInMemory, LoadedInMemory, Loaded, Snapshots, At, Mutable
  <2> QED BY <1>2, <1>4, <2>1, <2>2, <2>3
<1>10. CASE Retag(p)
  <2>1. PICK d \in job[p].todo :
          \/ Exit(p)
          \/ job' = [job EXCEPT ![p].todo = @ \ {d}]
          \/ /\ docs[d].present
             /\ job' = [job EXCEPT ![p].step = "retagWrite", ![p].ref = d,
                                   ![p].doc = docs[d]]
    BY <1>10 DEF Retag
  <2>2. CASE job' = [job EXCEPT ![p].todo = @ \ {d}]
    BY <1>1, <1>2, <1>3, <1>10, <2>2, ZenonT(60) DEF Retag, At, Job
  <2>3. CASE docs[d].present /\ job' = [job EXCEPT ![p].step = "retagWrite", ![p].ref = d,
                                                   ![p].doc = docs[d]]
    <3>1. job'[p].step = "retagWrite" /\ job'[p].ref = d /\ job'[p].doc = docs[d]
      BY <1>1, <2>3 DEF Job
    <3> QED BY <1>2, <2>3, <3>1 DEF DocInMemory, LoadedInMemory, At
  <2> QED BY <1>2, <1>4, <2>1, <2>2, <2>3
<1> QED BY <1>5, <1>6, <1>7, <1>8, <1>9, <1>10, <1>12

LEMMA DocsInit == Init => DocsInMemory
BY ElsewhereInMemory DEF Init, DocsInMemory, DocFreeSteps, Steps, Idle

LEMMA DocsStep ==
  ASSUME Serial, TypeInv, DocsInMemory, [Next]_vars
  PROVE  DocsInMemory' /\ DocStep
<1>1. ASSUME NEW p \in Procs, Begin(p) \/ Continue(p) \/ Crash(p)
      PROVE  DocsInMemory' /\ DocStep
  <2>1. DocInMemory(p)' /\ DocStep
    BY <1>1, BeginInMemory, ReadingDocs, WritingDocs, QuietDocs DEF DocsInMemory, Continue
  <2>2. \A q \in Procs : q = p
    BY DEF Serial
  <2> QED BY <2>1, <2>2 DEF DocsInMemory
<1>2. ASSUME UNCHANGED <<docs, job>> PROVE DocsInMemory' /\ DocStep
  BY <1>2, QuietDocs DEF DocsInMemory, DocInMemory, LoadedInMemory, Loaded, Snapshots, At,
     Mutable
<1> QED BY <1>1, <1>2 DEF Next, Tick, vars, files

\* What a snapshot says stays as it is when commands run one after the other,
\* wherever one of them is killed.
THEOREM ArchivedFrozenHolds == Serial => (Spec => ArchivedFrozen)
<1> SUFFICES ASSUME Serial PROVE Spec => ArchivedFrozen
  OBVIOUS
<1>1. TypeInv /\ DocsInMemory /\ [Next]_vars =>
        [\A d \in DocIds :
           docs[d].present /\ docs[d].archived /\ docs'[d].present
             => /\ docs'[d].archived
                /\ {h.by : h \in docs'[d].history} = {h.by : h \in docs[d].history}]_docs
  BY DocsStep DEF DocStep, DocKept, Writers
<1>2. TypeInv /\ DocsInMemory /\ [Next]_vars => (TypeInv /\ DocsInMemory)'
  BY TypeStep, DocsStep
<1> QED BY <1>1, <1>2, TypeInit, DocsInit, PTL DEF Spec, ArchivedFrozen

\* Under the same condition the command that created a file stays its creator:
\* ldoc new never overwrites a document.
THEOREM NewOverwritesNothingHolds == Serial => (Spec => NewOverwritesNothing)
<1> SUFFICES ASSUME Serial PROVE Spec => NewOverwritesNothing
  OBVIOUS
<1>1. TypeInv /\ DocsInMemory /\ [Next]_vars =>
        [\A d \in DocIds :
           docs[d].present /\ docs'[d].present => docs'[d].born = docs[d].born]_docs
  BY DocsStep DEF DocStep, DocKept
<1>2. TypeInv /\ DocsInMemory /\ [Next]_vars => (TypeInv /\ DocsInMemory)'
  BY TypeStep, DocsStep
<1> QED BY <1>1, <1>2, TypeInit, DocsInit, PTL DEF Spec, NewOverwritesNothing

\* The steps of a command that has not logged its change yet.
UnloggedSteps == {"docWrite", "unlink", "walRead", "walWrite"}

\* A line in a record or in a review, not only in one that was overwritten.
OnFile(l) == Pending(l) \/ \E r \in DocIds : l \in reviews[r].lines

\* A line has the number of a command that was issued, and some change type.
LinesNumbered == \A l : OnFile(l) => l.n <= commands /\ l.types # {}

\* A running command is the last one issued; until it has logged its change,
\* every line on file is of a command before it.
JobNumbered(p) ==
  /\ job[p].step # "idle" => job[p].n = commands
  /\ job[p].step \in UnloggedSteps =>
       job[p].types # {} /\ \A l : OnFile(l) => l.n < job[p].n

\* A close has written the history of every document it is done with.
HistoryInMemory(p) ==
  /\ job[p].step \in ClosingSteps =>
       \A d \in ToMaterialize(job[p].rec.lines) \ job[p].todo :
         Mutable(d) => job[p].n \in Writers(docs[d])
  /\ job[p].step \in {"mint", "reviewWrite"} => job[p].todo = {}

\* A review is written where there is none; a merge writes the lines of the
\* sessions it folds, and no others.
FileInMemory(p) ==
  /\ At(p, "reviewWrite") => ~reviews[job[p].ref].present
  /\ At(p, "mergeWrite") =>
       job[p].rec.lines =
         sess[job[p].sess].lines \cup UNION {sess[s].lines : s \in job[p].fold}

SerialInv ==
  /\ DocsInMemory
  /\ LinesNumbered
  /\ \A p \in Procs : JobNumbered(p) /\ HistoryInMemory(p) /\ FileInMemory(p)
  /\ SurvivorsCarryHistory

\* Of a set of types that is not empty one is the dominant one.
LEMMA DominantType ==
  ASSUME NEW types \in SUBSET ChangeTypes, types # {}
  PROVE  Dominant(types) # "none"
<1>1. \A t \in ChangeTypes : \E i \in 1..5 : Precedence[i] = t
  BY DEF ChangeTypes, Precedence
<1>2. \A t \in ChangeTypes : RankOf(t) \in 1..5
  BY <1>1 DEF RankOf
<1>3. \E t \in types : \A u \in types : RankOf(t) <= RankOf(u)
  <2> DEFINE first(i) == \E t \in types : RankOf(t) = i
  <2>1. \A u \in types : RankOf(u) \in {1, 2, 3, 4, 5}
    BY <1>2
  <2>2. CASE first(1)
    BY <2>1, <2>2
  <2>3. CASE ~first(1) /\ first(2)
    BY <2>1, <2>3
  <2>4. CASE ~first(1) /\ ~first(2) /\ first(3)
    BY <2>1, <2>4
  <2>5. CASE ~first(1) /\ ~first(2) /\ ~first(3) /\ first(4)
    BY <2>1, <2>5
  <2>6. CASE ~first(1) /\ ~first(2) /\ ~first(3) /\ ~first(4)
    BY <2>1, <2>6
  <2> QED BY <2>2, <2>3, <2>4, <2>5, <2>6
<1>4. Dominant(types) \in types
  BY <1>3 DEF Dominant
<1> QED BY <1>4 DEF ChangeTypes

\* A running command keeps its number and what it was asked to do, and once it
\* has logged its change it does not go back.
LEMMA RunsOn ==
  ASSUME TypeInv, NEW p \in Procs, Continue(p) \/ Crash(p)
  PROVE  /\ commands' = commands /\ job[p].step # "idle"
         /\ \/ job'[p] = Idle
            \/ /\ job'[p].n = job[p].n /\ job'[p].types = job[p].types
               /\ job'[p].sess = job[p].sess /\ job'[p].force = job[p].force
               /\ job'[p].step # "idle"
               /\ job'[p].step \in UnloggedSteps => job[p].step \in UnloggedSteps
<1>1. job \in [Procs -> Job]
  BY DEF TypeInv, JobsTyped
<1>2. commands' = commands
  BY DEF Continue, DocWrite, Unlink, WalRead, WalWrite, RollBackNew, RecapWrite, Gate,
     HistoryRead, HistoryWrite, HistoryDone, Mint, ReviewWrite, Delete, MergeWrite,
     MergeDelete, Retag, RetagWrite, RetagDone, Crash
<1>3. job[p].step # "idle"
  BY DEF Continue, At, DocWrite, Unlink, WalRead, WalWrite, RollBackNew, RecapWrite, Gate,
     HistoryRead, HistoryWrite, HistoryDone, Mint, ReviewWrite, Delete, MergeWrite,
     MergeDelete, Retag, RetagWrite, RetagDone, Crash
<1> DEFINE Same == /\ job'[p].n = job[p].n /\ job'[p].types = job[p].types
                   /\ job'[p].sess = job[p].sess /\ job'[p].force = job[p].force
                   /\ job'[p].step # "idle"
                   /\ job'[p].step \in UnloggedSteps => job[p].step \in UnloggedSteps
<1>4. ASSUME Exit(p) PROVE job'[p] = Idle
  BY <1>1, <1>4 DEF Exit
<1>5. ASSUME NEW step, Goto(p, step), step # "idle",
             step \in UnloggedSteps => job[p].step \in UnloggedSteps
      PROVE  Same
  BY <1>1, <1>5 DEF Goto, Job
<1>6. CASE DocWrite(p) \/ Unlink(p)
  BY <1>2, <1>3, <1>4, <1>5, <1>6 DEF DocWrite, Unlink, At, UnloggedSteps
<1>7. CASE WalRead(p)
  BY <1>1, <1>2, <1>3, <1>7 DEF WalRead, Job, At, UnloggedSteps
<1>8. CASE WalWrite(p) \/ RollBackNew(p) \/ RecapWrite(p) \/ Delete(p) \/ RetagDone(p) \/ Crash(p)
  BY <1>2, <1>3, <1>4, <1>8 DEF WalWrite, RollBackNew, RecapWrite, Delete, RetagDone, Crash
<1>9. CASE Gate(p) \/ HistoryDone(p) \/ ReviewWrite(p) \/ MergeWrite(p)
  BY <1>2, <1>3, <1>4, <1>5, <1>9 DEF Gate, HistoryDone, ReviewWrite, MergeWrite, UnloggedSteps
<1>10. CASE HistoryRead(p)
  <2>1. PICK d \in DocIds :
          \/ Exit(p)
          \/ job' = [job EXCEPT ![p].todo = @ \ {d}]
          \/ job' = [job EXCEPT ![p].step = "historyWrite", ![p].ref = d,
                                ![p].doc = docs[d]]
    BY <1>10 DEF HistoryRead
  <2>2. CASE job' = [job EXCEPT ![p].todo = @ \ {d}]
    BY <1>1, <1>2, <1>3, <2>2 DEF Job
  <2>3. CASE job' = [job EXCEPT ![p].step = "historyWrite", ![p].ref = d,
                                ![p].doc = docs[d]]
    BY <1>1, <1>2, <1>3, <2>3 DEF Job, UnloggedSteps
  <2> QED BY <1>2, <1>3, <1>4, <2>1, <2>2, <2>3
<1>11. CASE HistoryWrite(p)
  BY <1>1, <1>2, <1>3, <1>11 DEF HistoryWrite, Job, UnloggedSteps
<1>12. CASE Mint(p)
  <2>1. PICK r : job' = [job EXCEPT ![p].step = "reviewWrite", ![p].ref = r]
    BY <1>12 DEF Mint
  <2> QED BY <1>1, <1>2, <1>3, <2>1 DEF Job, UnloggedSteps
<1>13. CASE MergeDelete(p)
  <2>1. PICK s : job' = [job EXCEPT ![p].fold = @ \ {s},
                           ![p].step = IF job[p].fold = {s} THEN "retag" ELSE @]
    BY <1>13 DEF MergeDelete
  <2> DEFINE next == IF job[p].fold = {s} THEN "retag" ELSE job[p].step
  <2>2. job'[p] = [job[p] EXCEPT !.fold = job[p].fold \ {s}, !.step = next]
    BY <1>1, <2>1, Zenon
  <2>3. next \in {"retag", "mergeDelete"}
    BY <1>13 DEF MergeDelete, At
  <2> HIDE DEF next
  <2> QED BY <1>1, <1>2, <1>3, <2>2, <2>3 DEF Job, UnloggedSteps
<1>14. CASE Retag(p)
  <2>1. PICK d \in job[p].todo :
          \/ Exit(p)
          \/ job' = [job EXCEPT ![p].todo = @ \ {d}]
          \/ job' = [job EXCEPT ![p].step = "retagWrite", ![p].ref = d,
                                ![p].doc = docs[d]]
    BY <1>14 DEF Retag
  <2>2. CASE job' = [job EXCEPT ![p].todo = @ \ {d}]
    BY <1>1, <1>2, <1>3, <2>2 DEF Job
  <2>3. CASE job' = [job EXCEPT ![p].step = "retagWrite", ![p].ref = d,
                                ![p].doc = docs[d]]
    BY <1>1, <1>2, <1>3, <2>3 DEF Job, UnloggedSteps
  <2> QED BY <1>2, <1>3, <1>4, <2>1, <2>2, <2>3
<1>15. CASE RetagWrite(p)
  BY <1>1, <1>2, <1>3, <1>15 DEF RetagWrite, Job, UnloggedSteps
<1> QED BY <1>2, <1>3, <1>6, <1>7, <1>8, <1>9, <1>10, <1>11, <1>12, <1>13, <1>14, <1>15
        DEF Continue

\* A line gets on file only when a command logs its change.
LEMMA LinesAppear ==
  ASSUME TypeInv, LogInv, NEW p \in Procs, FileInMemory(p),
         Begin(p) \/ Continue(p) \/ Crash(p), NEW l, OnFile(l)'
  PROVE  OnFile(l) \/ (WalWrite(p) /\ l = LineOf(p))
<1>1. job \in [Procs -> Job] /\ sess \in [Sessions -> SessionFile]
        /\ reviews \in [DocIds -> ReviewFile]
  BY DEF TypeInv, TypeOK, JobsTyped
<1>2. ASSUME UNCHANGED <<sess, reviews>> PROVE OnFile(l)
  BY <1>2 DEF OnFile, Pending
<1>3. ASSUME NEW s, NEW rec, sess' = [sess EXCEPT ![s] = rec], UNCHANGED reviews,
             \A m \in rec.lines : OnFile(m)
      PROVE  OnFile(l)
  BY <1>1, <1>3 DEF OnFile, Pending
<1>4. InMemory(p)
  BY DEF LogInv
<1>5. job[p].step # "idle" => job[p].sess \in Sessions
  BY RunningType
<1>6. CASE \/ DocWrite(p) \/ Unlink(p) \/ RollBackNew(p) \/ Gate(p) \/ HistoryRead(p)
           \/ HistoryWrite(p) \/ HistoryDone(p) \/ Mint(p) \/ Retag(p) \/ RetagWrite(p)
           \/ RetagDone(p) \/ Crash(p)
  BY <1>2, <1>6 DEF DocWrite, Unlink, RollBackNew, Gate, HistoryRead, HistoryWrite,
     HistoryDone, Mint, Retag, RetagWrite, RetagDone, Crash, files
<1>7. CASE Begin(p)
  <2>1. CASE \E s \in Sessions : SessionStart(p, s)
    <3>1. PICK s \in Sessions : SessionStart(p, s)
      BY <2>1
    <3> DEFINE rec == [present |-> TRUE, opened |-> commands + 1, lines |-> {}]
    <3>2. rec.lines = {}
      OBVIOUS
    <3>3. sess' = [sess EXCEPT ![s] = rec] /\ UNCHANGED reviews
      BY <3>1 DEF SessionStart
    <3> HIDE DEF rec
    <3> QED BY <1>3, <3>2, <3>3
  <2>2. CASE ~\E s \in Sessions : SessionStart(p, s)
    BY <1>2, <1>7, <2>2 DEF Begin, BeginRecap, BeginClose, BeginNew, BeginNote,
       BeginChange, BeginRm, BeginMerge, files
  <2> QED BY <2>1, <2>2
<1>8. CASE WalRead(p)
  <2>1. \A m \in OpenRecord(p).lines : OnFile(m)
    BY <1>5, <1>8 DEF WalRead, At, OpenRecord, OnFile, Pending
  <2> QED BY <1>3, <1>8, <2>1 DEF WalRead
<1>9. CASE WalWrite(p)
  <2>1. job[p].rec = sess[job[p].sess] /\ job[p].sess \in Sessions
    BY <1>4, <1>5, <1>9 DEF WalWrite, At, InMemory
  <2> DEFINE rec == [job[p].rec EXCEPT !.lines = @ \cup {LineOf(p)}]
  <2>2. rec.lines = sess[job[p].sess].lines \cup {LineOf(p)}
    BY <1>1, <2>1 DEF SessionFile
  <2>3. sess' = [sess EXCEPT ![job[p].sess] = rec] /\ UNCHANGED reviews
    BY <1>9 DEF WalWrite
  <2> HIDE DEF rec
  <2> QED BY <1>1, <1>9, <2>1, <2>2, <2>3 DEF OnFile, Pending
<1>10. CASE RecapWrite(p)
  <2>1. \A m \in job[p].rec.lines : OnFile(m)
    BY <1>4, <1>5, <1>10 DEF RecapWrite, At, InMemory, OnFile, Pending
  <2> QED BY <1>3, <1>10, <2>1 DEF RecapWrite
<1>11. CASE ReviewWrite(p)
  <2>1. \A m \in job[p].rec.lines : OnFile(m)
    BY <1>4, <1>5, <1>11 DEF ReviewWrite, At, InMemory, CloseInMemory, ClosingSteps, OnFile, Pending
  <2>2. \A r \in DocIds : reviews'[r].lines \in {reviews[r].lines, job[p].rec.lines}
    BY <1>1, <1>11 DEF ReviewWrite
  <2> QED BY <1>11, <2>1, <2>2 DEF OnFile, Pending, ReviewWrite
<1>12. CASE Delete(p)
  <2>1. NoRecord.lines = {}
    BY DEF NoRecord
  <2> QED BY <1>3, <1>12, <2>1 DEF Delete
<1>13. CASE MergeWrite(p)
  <2>1. job[p].fold \subseteq Sessions
    BY <1>13, RunningType DEF MergeWrite, At
  <2>2. \A m \in job[p].rec.lines : OnFile(m)
    BY <1>5, <1>13, <2>1 DEF MergeWrite, At, FileInMemory, OnFile, Pending
  <2> QED BY <1>3, <1>13, <2>2 DEF MergeWrite
<1>14. CASE MergeDelete(p)
  <2>1. NoRecord.lines = {}
    BY DEF NoRecord
  <2> QED BY <1>3, <1>14, <2>1 DEF MergeDelete
<1> QED BY <1>6, <1>7, <1>8, <1>9, <1>10, <1>11, <1>12, <1>13, <1>14 DEF Continue

\* The first steps of the commands.
LEMMA BeginSteps ==
  ASSUME TypeInv, NEW p \in Procs, Begin(p)
  PROVE  \/ \E s \in Sessions, force \in BOOLEAN : BeginClose(p, s, force)
         \/ \E group \in SUBSET Sessions : BeginMerge(p, group)
         \/ job'[p].step \in {"idle", "recapWrite", "docWrite", "walRead", "unlink"}
<1>1. job \in [Procs -> Job]
  BY DEF TypeInv, JobsTyped
<1>2. ASSUME NEW s \in Sessions, SessionStart(p, s) PROVE job'[p].step = "idle"
  BY <1>1, <1>2 DEF SessionStart, Start, Idle
<1>3. ASSUME NEW s \in Sessions, BeginRecap(p, s) PROVE job'[p].step = "recapWrite"
  BY <1>1, <1>3 DEF BeginRecap, Start, Idle
<1>4. ASSUME NEW s \in Sessions, NEW arch \in BOOLEAN, BeginNew(p, s, arch)
      PROVE  job'[p].step = "docWrite"
  BY <1>1, <1>4 DEF BeginNew, Start, Idle
<1>5. ASSUME NEW s \in Sessions, NEW d \in DocIds, BeginNote(p, s, d)
      PROVE  job'[p].step = "walRead"
  BY <1>1, <1>5 DEF BeginNote, Start, Idle
<1>6. ASSUME NEW s \in Sessions, NEW d \in DocIds, NEW e \in Edits, BeginChange(p, s, d, e)
      PROVE  job'[p].step = "docWrite"
  BY <1>1, <1>6 DEF BeginChange, Start, Idle
<1>7. ASSUME NEW s \in Sessions, NEW d \in DocIds, NEW e \in Edits, BeginRm(p, s, d, e)
      PROVE  job'[p].step = "unlink"
  BY <1>1, <1>7 DEF BeginRm, Start, Idle
<1> QED BY <1>2, <1>3, <1>4, <1>5, <1>6, <1>7 DEF Begin

\* After the merged record is written a merge goes on with its own steps.
LEMMA MergeSteps ==
  ASSUME TypeInv, NEW p \in Procs, MergeDelete(p) \/ Retag(p) \/ RetagWrite(p)
  PROVE  job'[p].step \in {"idle", "mergeDelete", "retag", "retagWrite"}
<1>1. job \in [Procs -> Job]
  BY DEF TypeInv, JobsTyped
<1>2. CASE MergeDelete(p)
  <2>1. PICK s : job' = [job EXCEPT ![p].fold = @ \ {s},
                           ![p].step = IF job[p].fold = {s} THEN "retag" ELSE @]
    BY <1>2 DEF MergeDelete
  <2> DEFINE next == IF job[p].fold = {s} THEN "retag" ELSE job[p].step
  <2>2. job'[p] = [job[p] EXCEPT !.fold = job[p].fold \ {s}, !.step = next]
    BY <1>1, <2>1, Zenon
  <2>3. next \in {"retag", "mergeDelete"}
    BY <1>2 DEF MergeDelete, At
  <2> HIDE DEF next
  <2> QED BY <1>1, <2>2, <2>3 DEF Job
<1>3. CASE Retag(p)
  <2>1. PICK d \in job[p].todo :
          \/ Exit(p)
          \/ job' = [job EXCEPT ![p].todo = @ \ {d}]
          \/ job' = [job EXCEPT ![p].step = "retagWrite", ![p].ref = d,
                                ![p].doc = docs[d]]
    BY <1>3 DEF Retag
  <2>2. CASE Exit(p)
    BY <1>1, <2>2 DEF Exit, Idle
  <2>3. CASE job' = [job EXCEPT ![p].todo = @ \ {d}]
    BY <1>1, <1>3, <2>3, ZenonT(60) DEF Retag, At, Job
  <2>4. CASE job' = [job EXCEPT ![p].step = "retagWrite", ![p].ref = d,
                                ![p].doc = docs[d]]
    BY <1>1, <2>4 DEF Job
  <2> QED BY <2>1, <2>2, <2>3, <2>4
<1>4. CASE RetagWrite(p)
  BY <1>1, <1>4 DEF RetagWrite, Job
<1> QED BY <1>2, <1>3, <1>4

\* A command begins with a number of its own; when it has something to log, it
\* has a change type.
LEMMA BeginNumbered ==
  ASSUME TypeInv, LinesNumbered, NEW p \in Procs, Begin(p),
         \A l : OnFile(l)' => OnFile(l)
  PROVE  JobNumbered(p)' /\ LinesNumbered'
<1>1. job \in [Procs -> Job] /\ commands \in Nat
  BY DEF TypeInv, TypeOK, JobsTyped
<1>2. ASSUME NEW s \in Sessions, NEW c, NEW j \in Job, Start(p, s, c, j)
      PROVE  /\ job'[p].step = j.step /\ job'[p].types = j.types
             /\ job'[p].n = commands + 1 /\ commands' = commands + 1
  BY <1>1, <1>2 DEF Start, Job
<1>3. commands' = commands + 1
  BY ZenonT(60) DEF Begin, SessionStart, BeginRecap, BeginClose, BeginNew, BeginNote,
     BeginChange, BeginRm, BeginMerge, Start
<1>4. LinesNumbered' /\ \A l : OnFile(l)' => l.n < commands'
  <2>1. ASSUME NEW l, OnFile(l)' PROVE l.n <= commands' /\ l.types # {} /\ l.n < commands'
    <3>1. l \in LogLine
      BY <2>1, BeginType DEF OnFile, Pending, TypeInv, TypeOK, SessionFile, ReviewFile
    <3> QED BY <1>1, <1>3, <2>1, <3>1 DEF LinesNumbered, LogLine
  <2> QED BY <2>1 DEF LinesNumbered
<1>5. ASSUME job'[p].n = commands',
             job'[p].step \in UnloggedSteps => job'[p].types # {}
      PROVE  JobNumbered(p)'
  BY <1>4, <1>5 DEF JobNumbered
<1>6. ASSUME NEW s \in Sessions,
             \/ SessionStart(p, s) \/ BeginRecap(p, s)
             \/ \E force \in BOOLEAN : BeginClose(p, s, force)
      PROVE  JobNumbered(p)'
  <2>1. CASE SessionStart(p, s)
    BY <1>1, <1>3, <1>5, <2>1 DEF SessionStart, Start, Idle, UnloggedSteps
  <2>2. CASE BeginRecap(p, s)
    BY <1>1, <1>3, <1>5, <2>2 DEF BeginRecap, Start, Idle, UnloggedSteps
  <2>3. ASSUME NEW force \in BOOLEAN, BeginClose(p, s, force) PROVE JobNumbered(p)'
    <3>1. job'[p].step \in {"mint", "history", "gate"} /\ job'[p].n = commands + 1
      BY <1>1, <2>3 DEF BeginClose, Start, Idle
    <3> QED BY <1>3, <1>5, <3>1 DEF UnloggedSteps
  <2> QED BY <1>6, <2>1, <2>2, <2>3
<1>7. ASSUME NEW s \in Sessions, NEW arch \in BOOLEAN, BeginNew(p, s, arch)
      PROVE  JobNumbered(p)'
  <2>1. job'[p].types = {"addition"} /\ job'[p].n = commands + 1
    BY <1>1, <1>7 DEF BeginNew, Start, Idle
  <2> QED BY <1>3, <1>5, <2>1
<1>8. ASSUME NEW s \in Sessions, NEW d \in DocIds, BeginNote(p, s, d) PROVE JobNumbered(p)'
  <2>1. job'[p].types = {"revision"} /\ job'[p].n = commands + 1
    BY <1>1, <1>8 DEF BeginNote, Start, Idle
  <2> QED BY <1>3, <1>5, <2>1
<1>9. ASSUME NEW s \in Sessions, NEW d \in DocIds, NEW e \in Edits, BeginChange(p, s, d, e)
      PROVE  JobNumbered(p)'
  <2>1. job'[p].types = e.types /\ job'[p].n = commands + 1
    BY <1>1, <1>9 DEF BeginChange, Start, Idle
  <2>2. e.types # {}
    BY EditsAssumption
  <2> QED BY <1>3, <1>5, <2>1, <2>2
<1>10. ASSUME NEW s \in Sessions, NEW d \in DocIds, NEW e \in Edits, BeginRm(p, s, d, e)
      PROVE  JobNumbered(p)'
  <2>1. job'[p].types = {"deletion"} /\ job'[p].n = commands + 1
    BY <1>1, <1>10 DEF BeginRm, Start, Idle
  <2> QED BY <1>3, <1>5, <2>1
<1>11. ASSUME NEW group \in SUBSET Sessions, BeginMerge(p, group) PROVE JobNumbered(p)'
  <2>1. \E t \in group : \E rec, others, todo :
          Start(p, t, "merge",
                [Idle EXCEPT !.step = "mergeWrite", !.others = others, !.fold = others,
                             !.todo = todo, !.rec = rec])
    BY <1>11 DEF BeginMerge
  <2>2. job'[p].step = "mergeWrite" /\ job'[p].n = commands + 1
    BY <1>1, <2>1 DEF Start, Idle
  <2> QED BY <1>3, <1>5, <2>2 DEF UnloggedSteps
<1> QED BY <1>4, <1>6, <1>7, <1>8, <1>9, <1>10, <1>11 DEF Begin

LEMMA NumbersKept ==
  ASSUME Serial, TypeInv, LogInv, SerialInv, NEW p \in Procs,
         Begin(p) \/ Continue(p) \/ Crash(p)
  PROVE  JobNumbered(p)' /\ LinesNumbered'
<1>1. JobNumbered(p) /\ FileInMemory(p) /\ LinesNumbered
  BY DEF SerialInv
<1>2. \A l : OnFile(l)' => OnFile(l) \/ (WalWrite(p) /\ l = LineOf(p))
  BY <1>1, LinesAppear
<1>3. CASE Begin(p)
  <2>1. ~WalWrite(p)
    BY <1>3, ZenonT(60) DEF WalWrite, At, Begin, SessionStart, BeginRecap, BeginClose, BeginNew, BeginNote,
       BeginChange, BeginRm, BeginMerge, Start
  <2> QED BY <1>1, <1>2, <1>3, <2>1, BeginNumbered
<1>4. CASE Continue(p) \/ Crash(p)
  <2>1. CASE WalWrite(p)
    <3>1. job'[p].step = "idle" /\ commands' = commands
      BY <2>1 DEF WalWrite, Exit, Idle, TypeInv, JobsTyped
    <3>2. LineOf(p).n = commands /\ LineOf(p).types # {}
      BY <1>1, <2>1 DEF LineOf, JobNumbered, WalWrite, At, UnloggedSteps
    <3>3. commands \in Nat
      BY DEF TypeInv, TypeOK
    <3>4. LinesNumbered'
      BY <1>1, <1>2, <3>1, <3>2, <3>3 DEF LinesNumbered
    <3> QED BY <3>1, <3>4 DEF JobNumbered, UnloggedSteps
  <2>2. CASE ~WalWrite(p)
    <3>1. \A l : OnFile(l)' => OnFile(l)
      BY <1>2, <2>2
    <3>2. LinesNumbered'
      BY <1>1, <1>4, <3>1, RunsOn DEF LinesNumbered
    <3>3. CASE job'[p] = Idle
      <4>1. job'[p].step = "idle"
        BY <3>3 DEF Idle
      <4> QED BY <3>2, <4>1 DEF JobNumbered, UnloggedSteps
    <3>4. CASE job'[p] # Idle
      <4>1. /\ job'[p].n = job[p].n /\ job'[p].types = job[p].types /\ commands' = commands
            /\ job[p].step # "idle"
            /\ job'[p].step \in UnloggedSteps => job[p].step \in UnloggedSteps
        BY <1>4, <3>4, RunsOn
      <4> QED BY <1>1, <3>1, <3>2, <4>1 DEF JobNumbered
    <3> QED BY <3>3, <3>4
  <2> QED BY <2>1, <2>2
<1> QED BY <1>3, <1>4

\* Only a merge that begins gets to write the merged record, and only a close
\* that chose a free id to write the review.
LEMMA FilesKept ==
  ASSUME TypeInv, NEW p \in Procs, Begin(p) \/ Continue(p) \/ Crash(p)
  PROVE  FileInMemory(p)'
<1>1. job \in [Procs -> Job] /\ sess \in [Sessions -> SessionFile]
  BY DEF TypeInv, TypeOK, JobsTyped
<1>2. ASSUME job'[p].step \notin {"reviewWrite", "mergeWrite"} PROVE FileInMemory(p)'
  BY <1>2 DEF FileInMemory, At
<1>3. ASSUME Exit(p) \/ \E step \in {"walRead", "history", "mint", "delete", "mergeDelete"} :
               Goto(p, step)
      PROVE  FileInMemory(p)'
  BY <1>1, <1>2, <1>3 DEF Exit, Goto, Idle, Job
<1>4. CASE DocWrite(p) \/ Unlink(p) \/ WalWrite(p) \/ RollBackNew(p) \/ RecapWrite(p)
             \/ Gate(p) \/ HistoryDone(p) \/ ReviewWrite(p) \/ Delete(p) \/ MergeWrite(p)
             \/ RetagDone(p) \/ Crash(p)
  BY <1>3, <1>4 DEF DocWrite, Unlink, WalWrite, RollBackNew, RecapWrite, Gate,
     HistoryDone, ReviewWrite, Delete, MergeWrite, RetagDone, Crash
<1>5. CASE WalRead(p)
  BY <1>1, <1>2, <1>5 DEF WalRead, Job
<1>6. CASE HistoryRead(p)
  <2>1. PICK d :
          \/ Exit(p)
          \/ job' = [job EXCEPT ![p].todo = @ \ {d}]
          \/ job' = [job EXCEPT ![p].step = "historyWrite", ![p].ref = d, ![p].doc = docs[d]]
    BY <1>6 DEF HistoryRead
  <2>2. CASE job' = [job EXCEPT ![p].todo = @ \ {d}]
    BY <1>1, <1>2, <1>6, <2>2 DEF Job, HistoryRead, At
  <2>3. CASE job' = [job EXCEPT ![p].step = "historyWrite", ![p].ref = d, ![p].doc = docs[d]]
    BY <1>1, <1>2, <2>3 DEF Job
  <2> QED BY <1>3, <2>1, <2>2, <2>3
<1>7. CASE HistoryWrite(p)
  BY <1>1, <1>2, <1>7 DEF HistoryWrite, Job
<1>8. CASE MergeDelete(p) \/ Retag(p) \/ RetagWrite(p)
  BY <1>2, <1>8, MergeSteps
<1>9. CASE Mint(p)
  <2>1. PICK r : /\ job' = [job EXCEPT ![p].step = "reviewWrite", ![p].ref = r]
                 /\ ~reviews[r].present
    BY <1>9 DEF Mint, IsNextId
  <2>2. job'[p].step = "reviewWrite" /\ job'[p].ref = r
    BY <1>1, <2>1 DEF Job
  <2> QED BY <1>9, <2>1, <2>2 DEF FileInMemory, At, Mint, files
<1>10. ASSUME NEW group \in SUBSET Sessions, BeginMerge(p, group) PROVE FileInMemory(p)'
  <2> DEFINE rec(t) == [sess[t] EXCEPT !.lines = UNION {sess[s].lines : s \in group}]
  <2>1. PICK t \in group :
          Start(p, t, "merge",
                [Idle EXCEPT !.step = "mergeWrite",
                             !.others = group \ {t}, !.fold = group \ {t},
                             !.todo = {d \in DocIds : docs[d].present},
                             !.rec = rec(t)])
    BY <1>10 DEF BeginMerge
  <2>2. rec(t).lines = UNION {sess[s].lines : s \in group}
    BY <1>1 DEF SessionFile
  <2> HIDE DEF rec
  <2>3. /\ job'[p].step = "mergeWrite" /\ job'[p].sess = t
        /\ job'[p].fold = group \ {t} /\ job'[p].rec = rec(t)
    BY <1>1, <2>1 DEF Start, Idle
  <2>4. UNION {sess[s].lines : s \in group}
          = sess[t].lines \cup UNION {sess[s].lines : s \in group \ {t}}
    OBVIOUS
  <2>5. UNCHANGED sess
    BY <1>10 DEF BeginMerge, files
  <2> QED BY <2>2, <2>3, <2>4, <2>5 DEF FileInMemory, At
<1>11. CASE Begin(p) /\ ~\E group \in SUBSET Sessions : BeginMerge(p, group)
  <2>1. ASSUME NEW s \in Sessions, NEW force \in BOOLEAN, BeginClose(p, s, force)
        PROVE  job'[p].step \in {"mint", "history", "gate"}
    BY <1>1, <2>1 DEF BeginClose, Start, Idle
  <2> QED BY <1>2, <1>11, <2>1, BeginSteps
<1> QED BY <1>4, <1>5, <1>6, <1>7, <1>8, <1>9, <1>10, <1>11 DEF Continue

\* A close goes from document to document, and to its review when none is left.
LEMMA HistoryKept ==
  ASSUME Serial, TypeInv, LogInv, SerialInv, NEW p \in Procs,
         Begin(p) \/ Continue(p) \/ Crash(p)
  PROVE  HistoryInMemory(p)'
<1>1. job \in [Procs -> Job] /\ docs \in [DocIds -> DocFile]
  BY DEF TypeInv, TypeOK, JobsTyped
<1>2. ASSUME job'[p].step \notin ClosingSteps PROVE HistoryInMemory(p)'
  BY <1>2 DEF HistoryInMemory, ClosingSteps
<1>3. HistoryInMemory(p) /\ DocInMemory(p)
  BY DEF SerialInv, DocsInMemory
\* The documents stay as they are, and a snapshot at most is passed over.
<1>4. ASSUME UNCHANGED docs, job[p].step \in ClosingSteps,
             job'[p].n = job[p].n, job'[p].rec = job[p].rec,
             \A d \in job[p].todo \ job'[p].todo : ~Mutable(d),
             job'[p].step \in {"mint", "reviewWrite"} => job'[p].todo = {}
      PROVE  HistoryInMemory(p)'
  BY <1>3, <1>4 DEF HistoryInMemory, Mutable
<1>5. ASSUME Exit(p) PROVE HistoryInMemory(p)'
  BY <1>1, <1>2, <1>5 DEF Exit, Idle, ClosingSteps
<1>6. CASE Gate(p)
  <2>1. CASE Goto(p, "history")
    <3>1. /\ job'[p].step = "history" /\ job'[p].n = job[p].n
          /\ job'[p].rec = job[p].rec /\ job'[p].todo = job[p].todo
      BY <1>1, <2>1 DEF Goto, Job
    <3> QED BY <1>4, <1>6, <3>1 DEF Gate, At, ClosingSteps, files
  <2> QED BY <1>5, <1>6, <2>1 DEF Gate
<1>7. CASE HistoryRead(p)
  <2>1. PICK d \in DocIds :
          \/ Exit(p)
          \/ d \in job[p].frozen /\ job' = [job EXCEPT ![p].todo = @ \ {d}]
          \/ job' = [job EXCEPT ![p].step = "historyWrite", ![p].ref = d,
                                ![p].doc = docs[d]]
    BY <1>7 DEF HistoryRead
  <2>2. CASE d \in job[p].frozen /\ job' = [job EXCEPT ![p].todo = @ \ {d}]
    <3>1. /\ job'[p].step = "history" /\ job'[p].n = job[p].n
          /\ job'[p].rec = job[p].rec /\ job'[p].todo = job[p].todo \ {d}
      BY <1>1, <1>7, <2>2 DEF Job, HistoryRead, At
    <3>2. ~Mutable(d)
      BY <1>3, <1>7, <2>2 DEF HistoryRead, At, DocInMemory, LoadedInMemory, Snapshots, Mutable
    <3> QED BY <1>4, <1>7, <3>1, <3>2 DEF HistoryRead, At, ClosingSteps, files
  <2>3. CASE job' = [job EXCEPT ![p].step = "historyWrite", ![p].ref = d,
                                ![p].doc = docs[d]]
    <3>1. /\ job'[p].step = "historyWrite" /\ job'[p].n = job[p].n
          /\ job'[p].rec = job[p].rec /\ job'[p].todo = job[p].todo
      BY <1>1, <2>3 DEF Job
    <3> QED BY <1>4, <1>7, <3>1 DEF HistoryRead, At, ClosingSteps, files
  <2> QED BY <1>5, <2>1, <2>2, <2>3
<1>8. CASE HistoryWrite(p)
  <2> DEFINE ref == job[p].ref
             doc == [job[p].doc EXCEPT !.history = @ \cup {EntryOf(p)}]
  <2>1. /\ job'[p].step = "history" /\ job'[p].n = job[p].n
        /\ job'[p].rec = job[p].rec /\ job'[p].todo = job[p].todo \ {ref}
    BY <1>1, <1>8 DEF HistoryWrite, Job
  <2>2. doc.history = job[p].doc.history \cup {EntryOf(p)}
    BY <1>1 DEF Job, DocFile
  <2>3. EntryOf(p).by = job[p].n
    BY DEF EntryOf
  <2>4. job[p].n \in Writers(doc)
    BY <2>2, <2>3 DEF Writers
  <2>5. docs' = [docs EXCEPT ![ref] = doc]
    BY <1>8 DEF HistoryWrite
  <2> HIDE DEF doc, ref
  <2>6. ASSUME NEW d \in ToMaterialize(job[p].rec.lines) \ job'[p].todo, Mutable(d)'
        PROVE  job[p].n \in Writers(docs'[d])
    <3>1. d \in DocIds
      BY <1>1 DEF ToMaterialize, Refs, Job, SessionFile, LogLine
    <3>2. CASE d = ref
      BY <1>1, <2>4, <2>5, <3>1, <3>2
    <3>3. CASE d # ref
      <4>1. docs'[d] = docs[d] /\ d \notin job[p].todo
        BY <1>1, <2>1, <2>5, <2>6, <3>1, <3>3
      <4> QED BY <1>3, <1>8, <2>6, <4>1 DEF HistoryInMemory, HistoryWrite, At, ClosingSteps, Mutable
    <3> QED BY <3>2, <3>3
  <2> QED BY <2>1, <2>6 DEF HistoryInMemory
<1>9. CASE HistoryDone(p)
  <2>1. /\ job'[p].n = job[p].n /\ job'[p].rec = job[p].rec /\ job'[p].todo = {}
    BY <1>1, <1>9 DEF HistoryDone, Goto, Job
  <2> QED BY <1>4, <1>9, <2>1 DEF HistoryDone, At, ClosingSteps, files
<1>10. CASE Mint(p)
  <2>1. PICK r : job' = [job EXCEPT ![p].step = "reviewWrite", ![p].ref = r]
    BY <1>10 DEF Mint
  <2>2. /\ job'[p].n = job[p].n /\ job'[p].rec = job[p].rec /\ job'[p].todo = job[p].todo
    BY <1>1, <2>1 DEF Job
  <2> QED BY <1>3, <1>4, <1>10, <2>2 DEF Mint, At, ClosingSteps, files, HistoryInMemory
<1>11. ASSUME NEW s \in Sessions, NEW force \in BOOLEAN, BeginClose(p, s, force)
       PROVE  HistoryInMemory(p)'
  <2>1. /\ job'[p].step = IF ~sess[s].present THEN "mint"
                          ELSE IF force THEN "history" ELSE "gate"
        /\ job'[p].rec = sess[s] /\ job'[p].todo = ToMaterialize(sess[s].lines)
    BY <1>1, <1>11 DEF BeginClose, Start, Idle
  <2>2. ~sess[s].present => ToMaterialize(sess[s].lines) = {}
    BY DEF LogInv, RecordsSound, ToMaterialize, Refs
  <2> QED BY <2>1, <2>2 DEF HistoryInMemory
<1>12. CASE Begin(p) /\ ~\E s \in Sessions, force \in BOOLEAN : BeginClose(p, s, force)
  <2>1. ASSUME NEW group \in SUBSET Sessions, BeginMerge(p, group)
        PROVE  job'[p].step = "mergeWrite"
    BY <1>1, <2>1 DEF BeginMerge, Start, Idle
  <2>2. job'[p].step \notin ClosingSteps
    BY <1>12, <2>1, BeginSteps DEF ClosingSteps
  <2> QED BY <1>2, <2>2
<1>13. CASE DocWrite(p) \/ Unlink(p) \/ WalWrite(p) \/ RollBackNew(p) \/ RecapWrite(p)
              \/ ReviewWrite(p) \/ Delete(p) \/ MergeWrite(p) \/ RetagDone(p) \/ Crash(p)
  <2>1. ASSUME NEW step \in {"walRead", "delete", "mergeDelete"}, Goto(p, step)
        PROVE  HistoryInMemory(p)'
    BY <1>1, <1>2, <2>1 DEF Goto, Job, ClosingSteps
  <2> QED BY <1>5, <1>13, <2>1 DEF DocWrite, Unlink, WalWrite, RollBackNew, RecapWrite,
          ReviewWrite, Delete, MergeWrite, RetagDone, Crash
<1>14. CASE WalRead(p)
  BY <1>1, <1>2, <1>14 DEF WalRead, Job, ClosingSteps
<1>15. CASE MergeDelete(p) \/ Retag(p) \/ RetagWrite(p)
  <2>1. job'[p].step \in {"idle", "mergeDelete", "retag", "retagWrite"}
    BY <1>1, <1>15, MergeSteps
  <2> QED BY <1>2, <2>1 DEF ClosingSteps
<1> QED BY <1>6, <1>7, <1>8, <1>9, <1>10, <1>11, <1>12, <1>13, <1>14, <1>15 DEF Continue, Begin

\* A surviving document of a review was there before, with the history it has.
LEMMA SurvivorsKept ==
  ASSUME Serial, TypeInv, LogInv, SerialInv, NEW p \in Procs,
         Begin(p) \/ Continue(p) \/ Crash(p)
  PROVE  SurvivorsCarryHistory'
<1>1. job \in [Procs -> Job] /\ reviews \in [DocIds -> ReviewFile] /\ docs \in [DocIds -> DocFile]
  BY DEF TypeInv, TypeOK, JobsTyped
<1>2. DocStep
  BY DocsStep DEF SerialInv, Next
<1>3. ASSUME NEW r \in DocIds, reviews'[r] = reviews[r], NEW l \in reviews[r].lines,
             Mutable(l.ref)', docs'[l.ref].born <= l.n, ~Deleted(reviews[r].lines, l.ref)
      PROVE  \E h \in docs'[l.ref].history : h.by = reviews[r].by
  <2>1. l.ref \in DocIds /\ l.n \in Nat /\ docs'[l.ref].present
    BY <1>1, <1>3 DEF ReviewFile, LogLine, Mutable
  <2>2. CASE docs[l.ref].present /\ DocKept(l.ref)
    <3>1. Survives(reviews[r].lines, l)
      BY <1>1, <1>3, <2>1, <2>2 DEF Survives, Mutable, DocKept, DocFile
    <3>2. reviews[r].by \in Writers(docs[l.ref])
      BY <1>3, <3>1 DEF SerialInv, SurvivorsCarryHistory, Writers
    <3> QED BY <2>2, <3>2 DEF DocKept, Writers
  <2>3. ASSUME NEW q \in Procs, At(q, "docWrite"), docs'[l.ref].born = job[q].n
        PROVE  FALSE
    <3>1. OnFile(l)
      BY <1>3 DEF OnFile
    <3>2. l.n < job[q].n
      BY <2>3, <3>1 DEF SerialInv, JobNumbered, At, UnloggedSteps
    <3>3. job[q].n \in Nat
      BY <1>1 DEF Job
    <3> QED BY <1>3, <2>1, <2>3, <3>2, <3>3
  <2> QED BY <1>2, <2>1, <2>2, <2>3 DEF DocStep
<1>5. CASE UNCHANGED reviews
  BY <1>3, <1>5 DEF SurvivorsCarryHistory, Survives
<1>6. CASE ReviewWrite(p)
  <2> DEFINE ref == job[p].ref
             lines == job[p].rec.lines
  <2>1. /\ ref \in DocIds => reviews'[ref].lines = lines /\ reviews'[ref].by = job[p].n
        /\ \A r \in DocIds : r # ref => reviews'[r] = reviews[r]
        /\ UNCHANGED docs
    BY <1>1, <1>6 DEF ReviewWrite
  <2>2. ASSUME NEW l \in lines, Mutable(l.ref), ~Deleted(lines, l.ref)
        PROVE  \E h \in docs[l.ref].history : h.by = job[p].n
    <3>1. OnFile(l) /\ lines \subseteq LogLine
      <4>1. lines = sess[job[p].sess].lines /\ job[p].sess \in Sessions
        BY <1>6, RunningType
           DEF ReviewWrite, At, LogInv, InMemory, CloseInMemory, ClosingSteps
      <4> QED BY <4>1 DEF OnFile, Pending, TypeInv, TypeOK, SessionFile
    <3>2. l.types # {} /\ l \in LinesOf(lines, l.ref)
      BY <3>1 DEF SerialInv, LinesNumbered, LinesOf
    <3>3. TypesOf(lines, l.ref) # {} /\ TypesOf(lines, l.ref) \in SUBSET ChangeTypes
      BY <3>1, <3>2 DEF TypesOf, LinesOf, LogLine
    <3>4. l.ref \in ToMaterialize(lines)
      BY <2>2, <3>3, DominantType DEF ToMaterialize, Refs
    <3>5. job[p].n \in Writers(docs[l.ref])
      BY <1>6, <2>2, <3>4 DEF ReviewWrite, At, SerialInv, HistoryInMemory, ClosingSteps
    <3> QED BY <3>5 DEF Writers
  <2> HIDE DEF ref, lines
  <2>3. ASSUME NEW r \in DocIds, NEW l \in reviews'[r].lines, Survives(reviews[r].lines, l)'
        PROVE  \E h \in docs'[l.ref].history : h.by = reviews'[r].by
    <3>1. CASE r = ref
      BY <2>1, <2>2, <2>3, <3>1 DEF Survives, Mutable
    <3>2. CASE r # ref
      BY <1>3, <2>1, <2>3, <3>2 DEF Survives
    <3> QED BY <3>1, <3>2
  <2> QED BY <2>3 DEF SurvivorsCarryHistory
<1>7. UNCHANGED reviews \/ ReviewWrite(p)
  BY DEF Begin, SessionStart, BeginRecap, BeginClose, BeginNew, BeginNote,
     BeginChange, BeginRm, BeginMerge, Continue, DocWrite, Unlink, WalRead, WalWrite,
     RollBackNew, RecapWrite, Gate, HistoryRead, HistoryWrite, HistoryDone, Mint, Delete,
     MergeWrite, MergeDelete, Retag, RetagWrite, RetagDone, Crash, files
<1> QED BY <1>5, <1>6, <1>7

LEMMA SerialInit == Init => SerialInv
<1> SUFFICES ASSUME Init PROVE SerialInv
  OBVIOUS
<1>1. \A p \in Procs : job[p].step = "idle"
  BY DEF Init, Idle
<1>2. \A s \in Sessions : sess[s].lines = {}
  BY DEF Init, NoRecord
<1>3. \A r \in DocIds : reviews[r].lines = {}
  BY DEF Init, NoReview
<1>4. LinesNumbered
  BY <1>2, <1>3 DEF LinesNumbered, OnFile, Pending
<1>5. \A p \in Procs : JobNumbered(p) /\ HistoryInMemory(p) /\ FileInMemory(p)
  BY <1>1 DEF JobNumbered, HistoryInMemory, FileInMemory, UnloggedSteps, ClosingSteps, At
<1> QED BY <1>3, <1>4, <1>5, DocsInit DEF SerialInv, SurvivorsCarryHistory

LEMMA SerialStep == Serial /\ TypeInv /\ LogInv /\ SerialInv /\ [Next]_vars => SerialInv'
<1> SUFFICES ASSUME Serial, TypeInv, LogInv, SerialInv, [Next]_vars PROVE SerialInv'
  OBVIOUS
<1>1. DocsInMemory'
  BY DocsStep DEF SerialInv
<1>2. ASSUME NEW p \in Procs, Begin(p) \/ Continue(p) \/ Crash(p) PROVE SerialInv'
  <2>1. \A q \in Procs : q = p
    BY DEF Serial
  <2>2. JobNumbered(p)' /\ HistoryInMemory(p)' /\ FileInMemory(p)'
    BY <1>2, NumbersKept, HistoryKept, FilesKept
  <2>3. LinesNumbered' /\ SurvivorsCarryHistory'
    BY <1>2, NumbersKept, SurvivorsKept
  <2> QED BY <1>1, <2>1, <2>2, <2>3 DEF SerialInv
<1>3. ASSUME UNCHANGED <<docs, sess, reviews, job, commands>> PROVE SerialInv'
  <2>1. LinesNumbered' /\ SurvivorsCarryHistory'
    BY <1>3 DEF SerialInv, LinesNumbered, OnFile, Pending, SurvivorsCarryHistory,
       Survives, Mutable
  <2>2. \A p \in Procs : JobNumbered(p)' /\ HistoryInMemory(p)' /\ FileInMemory(p)'
    BY <1>3 DEF SerialInv, JobNumbered, HistoryInMemory, FileInMemory, OnFile, Pending,
       Mutable, At
  <2> QED BY <1>1, <2>1, <2>2 DEF SerialInv
<1> QED BY <1>2, <1>3 DEF Next, Tick, vars, files

LEMMA SerialIsolated == Serial => Isolated
BY DEF Serial, Isolated

LEMMA SerialInvariant == Serial => (Spec => [](TypeInv /\ LogInv /\ SerialInv))
<1> SUFFICES ASSUME Serial PROVE Spec => [](TypeInv /\ LogInv /\ SerialInv)
  OBVIOUS
<1>1. TypeInv /\ LogInv /\ SerialInv /\ [Next]_vars => (TypeInv /\ LogInv /\ SerialInv)'
  BY SerialIsolated, TypeStep, LogStep, SerialStep
<1> QED BY <1>1, TypeInit, LogInit, SerialInit, PTL DEF Spec

\* When commands run one after the other, every document a review tells of, if
\* it is still the document the session changed, carries the history entry of
\* the close that wrote the review, wherever commands were killed.
THEOREM SurvivorsCarryHistoryHolds == Serial => (Spec => []SurvivorsCarryHistory)
<1> SUFFICES ASSUME Serial PROVE Spec => []SurvivorsCarryHistory
  OBVIOUS
<1>1. SerialInv => SurvivorsCarryHistory
  BY DEF SerialInv
<1> QED BY <1>1, SerialInvariant, PTL

\* What the refinement mapping says of the one process there is.
Superseding == {"delete", "mergeDelete"}

PendingOf(s) == IF Superseded(s) THEN {} ELSE sess[s].lines

FiledReviews ==
  {[lines |-> reviews[r].lines, forced |-> reviews[r].forced] :
     r \in {q \in DocIds : reviews[q].present /\ ~reviews[q].legacy}}

LEMMA NotSuperseded ==
  ASSUME Serial, NEW p \in Procs, job[p].step \notin Superseding
  PROVE  \A s : ~Superseded(s)
BY DEF Serial, Superseded, Superseding

\* A step that changes no line of a record and no review, and leaves no record
\* to be deleted, is a step the log does not see.
LEMMA UnseenStep ==
  ASSUME Serial, NEW p \in Procs,
         job[p].step \notin Superseding, job'[p].step \notin Superseding,
         \A s \in Sessions : sess'[s].lines = sess[s].lines,
         UNCHANGED reviews
  PROVE  /\ \A s \in Sessions : PendingOf(s)' = PendingOf(s)
         /\ FiledReviews' = FiledReviews
<1>1. \A s : ~Superseded(s) /\ ~Superseded(s)'
  BY NotSuperseded DEF Serial, Superseded, Superseding
<1> QED BY <1>1 DEF PendingOf, FiledReviews

LEMMA UnseenBegin ==
  ASSUME Serial, TypeInv, LogInv, NEW p \in Procs, Begin(p)
  PROVE  /\ \A s \in Sessions : PendingOf(s)' = PendingOf(s)
         /\ FiledReviews' = FiledReviews
<1>1. job \in [Procs -> Job] /\ sess \in [Sessions -> SessionFile]
  BY DEF TypeInv, TypeOK, JobsTyped
<1>2. job[p].step = "idle"
  BY DEF Begin, SessionStart, BeginRecap, BeginClose, BeginNew, BeginNote,
     BeginChange, BeginRm, BeginMerge, Start
<1>3. job'[p].step \notin Superseding
  <2>1. ASSUME NEW s \in Sessions, NEW force \in BOOLEAN, BeginClose(p, s, force)
        PROVE  job'[p].step \in {"mint", "history", "gate"}
    BY <1>1, <2>1 DEF BeginClose, Start, Idle
  <2>2. ASSUME NEW group \in SUBSET Sessions, BeginMerge(p, group)
        PROVE  job'[p].step = "mergeWrite"
    BY <1>1, <2>2 DEF BeginMerge, Start, Idle
  <2> QED BY <2>1, <2>2, BeginSteps DEF Superseding
<1>4. UNCHANGED reviews /\ \A s \in Sessions : sess'[s].lines = sess[s].lines
  <2>1. ASSUME NEW t \in Sessions, SessionStart(p, t)
        PROVE  UNCHANGED reviews /\ \A s \in Sessions : sess'[s].lines = sess[s].lines
    <3>1. sess[t].lines = {}
      BY <2>1 DEF SessionStart, LogInv, RecordsSound
    <3>2. sess'[t].lines = {} /\ \A s \in Sessions : s # t => sess'[s] = sess[s]
      BY <1>1, <2>1 DEF SessionStart
    <3> QED BY <2>1, <3>1, <3>2 DEF SessionStart
  <2> QED BY <2>1 DEF Begin, BeginRecap, BeginClose, BeginNew, BeginNote,
          BeginChange, BeginRm, BeginMerge, files
<1> QED BY <1>2, <1>3, <1>4, UnseenStep DEF Superseding

\* The steps of commands that file nothing, fold nothing and log nothing.
LEMMA UnseenContinue ==
  ASSUME Serial, TypeInv, LogInv, NEW p \in Procs,
         \/ DocWrite(p) \/ Unlink(p) \/ WalRead(p) \/ RollBackNew(p) \/ RecapWrite(p)
         \/ Gate(p) \/ HistoryRead(p) \/ HistoryWrite(p) \/ HistoryDone(p) \/ Mint(p)
         \/ Retag(p) \/ RetagWrite(p) \/ RetagDone(p)
  PROVE  /\ \A s \in Sessions : PendingOf(s)' = PendingOf(s)
         /\ FiledReviews' = FiledReviews
<1>1. job \in [Procs -> Job] /\ sess \in [Sessions -> SessionFile]
  BY DEF TypeInv, TypeOK, JobsTyped
<1>2. job[p].step \notin Superseding /\ job[p].step # "idle" /\ UNCHANGED reviews
  BY DEF Superseding, At, DocWrite, Unlink, WalRead, RollBackNew, RecapWrite, Gate,
     HistoryRead, HistoryWrite, HistoryDone, Mint, Retag, RetagWrite, RetagDone, files
<1>3. job[p].sess \in Sessions
  BY <1>2, RunningType
<1>4. \A s \in Sessions : sess'[s].lines = sess[s].lines
  <2>1. CASE WalRead(p)
    <3>1. OpenRecord(p).lines = sess[job[p].sess].lines
      BY <1>3 DEF OpenRecord, LogInv, RecordsSound
    <3> QED BY <1>1, <1>3, <2>1, <3>1 DEF WalRead
  <2>2. CASE RecapWrite(p)
    BY <1>1, <1>3, <2>2 DEF RecapWrite, At, LogInv, InMemory
  <2>3. CASE ~WalRead(p) /\ ~RecapWrite(p)
    BY <2>3 DEF DocWrite, Unlink, RollBackNew, Gate, HistoryRead, HistoryWrite,
       HistoryDone, Mint, Retag, RetagWrite, RetagDone, files
  <2> QED BY <2>1, <2>2, <2>3
<1>5. ASSUME Exit(p) \/ \E step \in {"walRead", "history", "mint"} : Goto(p, step)
      PROVE  job'[p].step \notin Superseding
  BY <1>1, <1>5 DEF Exit, Goto, Idle, Job, Superseding
<1>6. job'[p].step \notin Superseding
  <2>1. CASE DocWrite(p) \/ Unlink(p) \/ RollBackNew(p) \/ RecapWrite(p) \/ Gate(p)
               \/ HistoryDone(p) \/ RetagDone(p)
    BY <1>5, <2>1 DEF DocWrite, Unlink, RollBackNew, RecapWrite, Gate, HistoryDone, RetagDone
  <2>2. CASE WalRead(p)
    BY <1>1, <2>2 DEF WalRead, Job, Superseding
  <2>3. CASE HistoryWrite(p)
    BY <1>1, <2>3 DEF HistoryWrite, Job, Superseding
  <2>4. CASE RetagWrite(p)
    BY <1>1, <2>4 DEF RetagWrite, Job, Superseding
  <2>5. CASE Mint(p)
    <3>1. PICK r : job' = [job EXCEPT ![p].step = "reviewWrite", ![p].ref = r]
      BY <2>5 DEF Mint
    <3> QED BY <1>1, <3>1 DEF Job, Superseding
  <2>6. CASE HistoryRead(p)
    <3>1. PICK d :
            \/ Exit(p)
            \/ job' = [job EXCEPT ![p].todo = @ \ {d}]
            \/ job' = [job EXCEPT ![p].step = "historyWrite", ![p].ref = d, ![p].doc = docs[d]]
      BY <2>6 DEF HistoryRead
    <3>2. CASE job' = [job EXCEPT ![p].todo = @ \ {d}]
      BY <1>1, <1>2, <3>2 DEF Job
    <3>3. CASE job' = [job EXCEPT ![p].step = "historyWrite", ![p].ref = d, ![p].doc = docs[d]]
      BY <1>1, <3>3 DEF Job, Superseding
    <3> QED BY <1>5, <3>1, <3>2, <3>3
  <2>7. CASE Retag(p)
    <3>1. PICK d :
            \/ Exit(p)
            \/ job' = [job EXCEPT ![p].todo = @ \ {d}]
            \/ job' = [job EXCEPT ![p].step = "retagWrite", ![p].ref = d, ![p].doc = docs[d]]
      BY <2>7 DEF Retag
    <3>2. CASE job' = [job EXCEPT ![p].todo = @ \ {d}]
      BY <1>1, <1>2, <3>2 DEF Job
    <3>3. CASE job' = [job EXCEPT ![p].step = "retagWrite", ![p].ref = d, ![p].doc = docs[d]]
      BY <1>1, <3>3 DEF Job, Superseding
    <3> QED BY <1>5, <3>1, <3>2, <3>3
  <2> QED BY <2>1, <2>2, <2>3, <2>4, <2>5, <2>6, <2>7
<1> QED BY <1>2, <1>4, <1>6, UnseenStep

\* The records to be deleted are out of the log already when they are deleted.
LEMMA UnseenDelete ==
  ASSUME Serial, TypeInv, LogInv, NEW p \in Procs, Delete(p) \/ MergeDelete(p)
  PROVE  /\ \A s \in Sessions : PendingOf(s)' = PendingOf(s)
         /\ FiledReviews' = FiledReviews
<1>1. job \in [Procs -> Job] /\ sess \in [Sessions -> SessionFile]
  BY DEF TypeInv, TypeOK, JobsTyped
<1>2. FiledReviews' = FiledReviews
  BY DEF Delete, MergeDelete, FiledReviews
<1>3. \A q \in Procs : q = p
  BY DEF Serial
<1>4. CASE Delete(p)
  <2>1. job[p].step = "delete" /\ job'[p].step = "idle"
    BY <1>1, <1>4 DEF Delete, At, Exit, Idle
  <2>2. \A s \in Sessions : (Superseded(s) <=> s = job[p].sess) /\ ~Superseded(s)'
    BY <1>3, <2>1 DEF Superseded
  <2>3. \A s \in Sessions : sess'[s] = IF s = job[p].sess THEN NoRecord ELSE sess[s]
    BY <1>1, <1>4 DEF Delete
  <2> QED BY <1>2, <2>2, <2>3 DEF PendingOf, NoRecord
<1>5. CASE MergeDelete(p)
  <2>1. PICK t \in job[p].fold :
          /\ sess' = [sess EXCEPT ![t] = NoRecord]
          /\ job' = [job EXCEPT ![p].fold = @ \ {t},
                                ![p].step = IF job[p].fold = {t} THEN "retag" ELSE @]
    BY <1>5 DEF MergeDelete
  <2> DEFINE next == IF job[p].fold = {t} THEN "retag" ELSE job[p].step
  <2>2. job'[p] = [job[p] EXCEPT !.fold = job[p].fold \ {t}, !.step = next]
    BY <1>1, <2>1, Zenon
  <2>3. job[p].step = "mergeDelete"
    BY <1>5 DEF MergeDelete, At
  <2>4. /\ next \in {"retag", "mergeDelete"}
        /\ next = "retag" => job[p].fold = {t}
    BY <2>3
  <2> HIDE DEF next
  <2>5. job'[p].step = next /\ job'[p].fold = job[p].fold \ {t}
    BY <1>1, <2>2 DEF Job
  <2>6. \A s : /\ Superseded(s) <=> s \in job[p].fold
               /\ Superseded(s)' <=> s \in job[p].fold \ {t}
    BY <1>3, <2>3, <2>4, <2>5 DEF Superseded
  <2>7. \A s \in Sessions : sess'[s] = IF s = t THEN NoRecord ELSE sess[s]
    BY <1>1, <2>1
  <2> QED BY <1>2, <2>1, <2>6, <2>7 DEF PendingOf, NoRecord
<1> QED BY <1>4, <1>5

\* The abstract log speaks of the same lines and gaps.
LEMMA SameLines == Log!LogLine = LogLine /\ \A log : Log!Gaps(log) = Gaps(log)
<1>1. Log!LogLine = LogLine
  BY DEF Log!LogLine, LogLine, Log!Ops, Ops, Log!ChangeTypes, ChangeTypes
<1>2. ASSUME NEW log PROVE Log!Gaps(log) = Gaps(log)
  <2>1. \A d : Log!LinesOf(log, d) = LinesOf(log, d)
    BY DEF Log!LinesOf, LinesOf
  <2>2. Log!Refs(log) = Refs(log)
    BY DEF Log!Refs, Refs
  <2>3. \A d : Log!TypesOf(log, d) = TypesOf(log, d)
    BY <2>1 DEF Log!TypesOf, TypesOf
  <2> QED BY <2>1, <2>2, <2>3 DEF Log!Gaps, Gaps
<1> QED BY <1>1, <1>2

\* Logging a change: the line is of a command none of the lines on file is of.
LEMMA LogsLine ==
  ASSUME Serial, TypeInv, LogInv, SerialInv, NEW p \in Procs, WalWrite(p)
  PROVE  Log!Next
<1>1. job \in [Procs -> Job] /\ sess \in [Sessions -> SessionFile]
        /\ reviews \in [DocIds -> ReviewFile]
  BY DEF TypeInv, TypeOK, JobsTyped
<1>2. job[p].step = "walWrite" /\ job'[p].step = "idle"
  BY <1>1 DEF WalWrite, At, Exit, Idle
<1>3. PICK t \in Sessions : t = job[p].sess /\ job[p].rec = sess[t]
  BY <1>2, RunningType DEF LogInv, InMemory
<1>4. \A s \in Sessions : PendingOf(s) = sess[s].lines /\ PendingOf(s)' = sess'[s].lines
  BY <1>2 DEF Serial, PendingOf, Superseded
<1>5. PICK l \in LogLine : l = LineOf(p)
  BY <1>1, <1>2 DEF LineOf, LogLine, Job, TypeInv, JobsTyped, JobTyped, RefSteps
<1>6. /\ sess'[t].lines = sess[t].lines \cup {LineOf(p)}
      /\ \A s \in Sessions : s # t => sess'[s] = sess[s]
  <2>1. sess' = [sess EXCEPT ![t] = [sess[t] EXCEPT !.lines = @ \cup {LineOf(p)}]]
    BY <1>3 DEF WalWrite
  <2>2. [sess[t] EXCEPT !.lines = @ \cup {LineOf(p)}].lines = sess[t].lines \cup {LineOf(p)}
    BY <1>1, <1>3 DEF SessionFile
  <2> QED BY <1>1, <1>3, <2>1, <2>2
<1>7. /\ \A s \in Sessions : \A m \in PendingOf(s) : m.n # LineOf(p).n
      /\ \A r \in FiledReviews : \A m \in r.lines : m.n # LineOf(p).n
  <2>1. job[p].n \in Nat /\ LineOf(p).n = job[p].n
    BY <1>1 DEF Job, LineOf
  <2>2. ASSUME NEW m, OnFile(m) PROVE m.n # LineOf(p).n
    <3>1. m.n < job[p].n /\ m \in LogLine
      BY <1>1, <1>2, <2>2 DEF SerialInv, JobNumbered, UnloggedSteps, OnFile, Pending,
         SessionFile, ReviewFile
    <3> QED BY <2>1, <3>1 DEF LogLine
  <2> QED BY <1>4, <2>2 DEF FiledReviews, OnFile, Pending
<1>8. FiledReviews' = FiledReviews
  BY DEF WalWrite, FiledReviews
<1>9. [s \in Sessions |-> PendingOf(s)]' =
        [[s \in Sessions |-> PendingOf(s)] EXCEPT ![t] = @ \cup {l}]
  <2> DEFINE before == [s \in Sessions |-> PendingOf(s)]
             after == [s \in Sessions |-> PendingOf(s)']
  <2>1. after[t] = before[t] \cup {l}
    BY <1>3, <1>4, <1>5, <1>6
  <2>2. \A s \in Sessions : s # t => after[s] = before[s]
    BY <1>4, <1>6
  <2>3. [s \in Sessions |-> PendingOf(s)]' = after
    OBVIOUS
  <2>4. DOMAIN before = Sessions /\ after = [s \in Sessions |-> after[s]]
    OBVIOUS
  <2> HIDE DEF before, after
  <2>5. after = [before EXCEPT ![t] = before[t] \cup {l}]
    BY ONLY <2>1, <2>2, <2>4, t \in Sessions
  <2> QED BY <2>3, <2>5 DEF before
<1>10. l \in UNION {[s \in Sessions |-> PendingOf(s)]'[u] : u \in Sessions}
  BY <1>3, <1>4, <1>5, <1>6
<1>11. \A m \in Log!Lines : m.n # l.n
  BY <1>5, <1>7 DEF Log!Lines, PendingOf, FiledReviews
<1>12. Log!Log(t, l)
  BY <1>8, <1>9, <1>11 DEF Log!Log, PendingOf, FiledReviews
<1>13. l \in Log!LogLine
  BY SameLines
<1> QED BY <1>10, <1>12, <1>13, Zenon DEF Log!Next, PendingOf

\* Writing the merged record: the folded records stop counting as it is written.
LEMMA FoldsSessions ==
  ASSUME Serial, TypeInv, LogInv, SerialInv, NEW p \in Procs, MergeWrite(p)
  PROVE  Log!Next
<1>1. job \in [Procs -> Job] /\ sess \in [Sessions -> SessionFile]
  BY DEF TypeInv, TypeOK, JobsTyped
<1>2. /\ job[p].step = "mergeWrite" /\ job'[p].step = "mergeDelete"
      /\ job'[p].fold = job[p].fold
  BY <1>1 DEF MergeWrite, At, Goto, Job
<1>3. PICK t \in Sessions, group \in SUBSET Sessions :
        t = job[p].sess /\ group = job[p].fold /\ t \notin group
  BY <1>2, RunningType DEF LogInv, InMemory, MergeInMemory
<1>4. \A s : ~Superseded(s) /\ (Superseded(s)' <=> s \in group)
  BY <1>2, <1>3 DEF Serial, Superseded
<1>5. /\ sess'[t].lines = sess[t].lines \cup UNION {sess[g].lines : g \in group}
      /\ \A s \in Sessions : s # t => sess'[s] = sess[s]
  BY <1>1, <1>2, <1>3 DEF MergeWrite, SerialInv, FileInMemory, At
<1>6. FiledReviews' = FiledReviews
  BY DEF MergeWrite, FiledReviews
<1>7. [s \in Sessions |-> PendingOf(s)]' =
        [s \in Sessions |->
           IF s = t THEN PendingOf(t) \cup UNION {PendingOf(g) : g \in group}
           ELSE IF s \in group THEN {} ELSE PendingOf(s)]
  <2>1. \A s \in Sessions : PendingOf(s) = sess[s].lines
    BY <1>4 DEF PendingOf
  <2>2. UNION {PendingOf(g) : g \in group} = UNION {sess[g].lines : g \in group}
    BY <1>3, <2>1
  <2>3. \A s \in Sessions : PendingOf(s)' = IF s \in group THEN {} ELSE sess'[s].lines
    BY <1>4 DEF PendingOf
  <2>4. \A s \in Sessions :
          PendingOf(s)' = IF s = t THEN PendingOf(t) \cup UNION {PendingOf(g) : g \in group}
                          ELSE IF s \in group THEN {} ELSE PendingOf(s)
    BY <1>3, <1>5, <2>1, <2>2, <2>3
  <2> QED BY <2>4
<1>8. \A s \in Sessions : [u \in Sessions |-> PendingOf(u)][s] = PendingOf(s)
  OBVIOUS
<1>9. Log!Fold(t, group)
  <2>1. {[u \in Sessions |-> PendingOf(u)][g] : g \in group} = {PendingOf(g) : g \in group}
    BY <1>3, <1>8
  <2>2. [s \in Sessions |-> PendingOf(s)]' =
          [s \in Sessions |->
             IF s = t
             THEN [u \in Sessions |-> PendingOf(u)][t]
                    \cup UNION {[u \in Sessions |-> PendingOf(u)][g] : g \in group}
             ELSE IF s \in group THEN {} ELSE [u \in Sessions |-> PendingOf(u)][s]]
    BY <1>3, <1>7, <1>8, <2>1
  <2> QED BY <1>3, <1>6, <2>2 DEF Log!Fold, PendingOf, FiledReviews
<1> QED BY <1>3, <1>9, Zenon DEF Log!Next

\* Writing a review with a record behind it: the record stops counting.
LEMMA FilesSession ==
  ASSUME Serial, TypeInv, LogInv, SerialInv, NEW p \in Procs,
         ReviewWrite(p), job[p].rec.present
  PROVE  Log!Next
<1>1. job \in [Procs -> Job] /\ sess \in [Sessions -> SessionFile]
        /\ reviews \in [DocIds -> ReviewFile]
  BY DEF TypeInv, TypeOK, JobsTyped
<1>2. job[p].step = "reviewWrite" /\ job'[p].step = "delete" /\ job'[p].sess = job[p].sess
  BY <1>1 DEF ReviewWrite, At, Goto, Job
<1>3. PICK t \in Sessions, forced \in BOOLEAN :
        /\ t = job[p].sess /\ forced = job[p].force /\ job[p].rec = sess[t]
        /\ forced \/ Gaps(sess[t].lines) = {}
  BY <1>1, <1>2, RunningType DEF LogInv, InMemory, CloseInMemory, ClosingSteps, Job
<1>4. PICK r \in DocIds : r = job[p].ref /\ ~reviews[r].present
  BY <1>2 DEF SerialInv, FileInMemory, At, RefSteps, TypeInv, JobsTyped, JobTyped
<1>5. \A s : ~Superseded(s) /\ (Superseded(s)' <=> s = t)
  BY <1>2, <1>3 DEF Serial, Superseded
<1>6. /\ reviews'[r].present /\ ~reviews'[r].legacy
      /\ reviews'[r].lines = sess[t].lines /\ reviews'[r].forced = forced
      /\ \A q \in DocIds : q # r => reviews'[q] = reviews[q]
      /\ UNCHANGED sess
  BY <1>1, <1>3, <1>4 DEF ReviewWrite
<1>7. FiledReviews' =
        FiledReviews \cup {[lines |-> sess[t].lines, forced |-> forced]}
  <2> DEFINE Filed(q) == reviews[q].present /\ ~reviews[q].legacy
             Review(q) == [lines |-> reviews[q].lines, forced |-> reviews[q].forced]
  <2>1. FiledReviews = {Review(q) : q \in {i \in DocIds : Filed(i)}}
    BY DEF FiledReviews
  <2>2. FiledReviews' = {Review(q)' : q \in {i \in DocIds : Filed(i)'}}
    BY DEF FiledReviews
  <2>3. /\ \A q \in DocIds : q # r => Filed(q)' = Filed(q) /\ Review(q)' = Review(q)
        /\ Filed(r)' /\ ~Filed(r)
        /\ Review(r)' = [lines |-> sess[t].lines, forced |-> forced]
    BY <1>4, <1>6
  <2> HIDE DEF Filed, Review
  <2>4. {i \in DocIds : Filed(i)'} = {i \in DocIds : Filed(i)} \cup {r}
    BY <1>4, <2>3
  <2> QED BY <1>4, <2>1, <2>2, <2>3, <2>4
<1>8. \A s \in Sessions : /\ PendingOf(s) = sess[s].lines
                          /\ PendingOf(s)' = IF s = t THEN {} ELSE PendingOf(s)
  BY <1>5, <1>6 DEF PendingOf
<1>9. [s \in Sessions |-> PendingOf(s)]' = [[s \in Sessions |-> PendingOf(s)] EXCEPT ![t] = {}]
  BY <1>3, <1>8
<1>10. [s \in Sessions |-> PendingOf(s)][t] = sess[t].lines
  BY <1>3, <1>8
<1>11. Log!File(t, forced)
  BY <1>3, <1>7, <1>9, <1>10, SameLines DEF Log!File, PendingOf, FiledReviews
<1> QED BY <1>3, <1>11, Zenon DEF Log!Next

\* A review of the tag-scan fallback has no record behind it, and no lines.
LEMMA UnseenReview ==
  ASSUME Serial, TypeInv, SerialInv, NEW p \in Procs, ReviewWrite(p), ~job[p].rec.present
  PROVE  /\ \A s \in Sessions : PendingOf(s)' = PendingOf(s)
         /\ FiledReviews' = FiledReviews
<1> DEFINE r == job[p].ref
<1>1. job \in [Procs -> Job] /\ reviews \in [DocIds -> ReviewFile]
  BY DEF TypeInv, TypeOK, JobsTyped
<1>2. job[p].step = "reviewWrite" /\ job'[p].step = "idle"
  BY <1>1 DEF ReviewWrite, At, Exit, Idle
<1>3. \A s \in Sessions : PendingOf(s)' = PendingOf(s)
  BY <1>2 DEF Serial, Superseded, PendingOf, ReviewWrite
<1>4. r \in DocIds /\ ~reviews[r].present
  BY <1>2 DEF SerialInv, FileInMemory, At, RefSteps, TypeInv, JobsTyped, JobTyped
<1>5. /\ reviews'[r].legacy
      /\ \A q \in DocIds : q # r => reviews'[q] = reviews[q]
  BY <1>1, <1>4 DEF ReviewWrite
<1>6. {q \in DocIds : reviews'[q].present /\ ~reviews'[q].legacy}
        = {q \in DocIds : reviews[q].present /\ ~reviews[q].legacy}
  BY <1>4, <1>5
<1>7. \A q \in {i \in DocIds : reviews[i].present /\ ~reviews[i].legacy} : reviews'[q] = reviews[q]
  BY <1>4, <1>5
<1> QED BY <1>3, <1>6, <1>7 DEF FiledReviews

LEMMA LogRefinedInit == Init => Log!Init
<1> SUFFICES ASSUME Init PROVE Log!Init
  OBVIOUS
<1>1. \A s \in Sessions : (IF Superseded(s) THEN {} ELSE sess[s].lines) = {}
  BY DEF Init, NoRecord
<1>2. \A r \in DocIds : ~reviews[r].present
  BY DEF Init, NoReview
<1> QED BY <1>1, <1>2 DEF Log!Init

LEMMA LogRefinedStep ==
  ASSUME Serial, MaxCrashes = 0, TypeInv, LogInv, SerialInv, [Next]_vars
  PROVE  [Log!Next]_(Log!vars)
<1>1. ASSUME \A s \in Sessions : PendingOf(s)' = PendingOf(s), FiledReviews' = FiledReviews
      PROVE  UNCHANGED Log!vars
  BY <1>1 DEF Log!vars, PendingOf, FiledReviews
<1>2. ASSUME NEW p \in Procs PROVE ~Crash(p)
  BY DEF Crash, TypeInv, TypeOK
<1>3. ASSUME NEW p \in Procs, Begin(p) PROVE UNCHANGED Log!vars
  BY <1>1, <1>3, UnseenBegin
<1>4. ASSUME NEW p \in Procs, Continue(p) PROVE Log!Next \/ UNCHANGED Log!vars
  BY <1>1, <1>4, UnseenContinue, UnseenDelete, UnseenReview, LogsLine, FoldsSessions,
     FilesSession DEF Continue
<1>5. ASSUME UNCHANGED <<sess, reviews, job>> PROVE UNCHANGED Log!vars
  BY <1>1, <1>5 DEF PendingOf, FiledReviews, Superseded
<1> QED BY <1>2, <1>3, <1>4, <1>5 DEF Next, Tick, vars, files

\* Commands that run one after the other, and are not killed, implement the
\* abstract log: a line is logged once, moves with its session when sessions
\* are merged, and ends in the one review its session is closed in.
THEOREM ImplementsSessionLogHolds ==
  Serial /\ MaxCrashes = 0 => (Spec => ImplementsSessionLog)
<1> SUFFICES ASSUME Serial, MaxCrashes = 0 PROVE Spec => ImplementsSessionLog
  OBVIOUS
<1>1. Spec => [](TypeInv /\ LogInv /\ SerialInv)
  BY SerialInvariant
<1>2. TypeInv /\ LogInv /\ SerialInv /\ [Next]_vars => [Log!Next]_(Log!vars)
  BY LogRefinedStep
<1> QED BY <1>1, <1>2, LogRefinedInit, PTL DEF Spec, ImplementsSessionLog, Log!Spec
=============================================================================
