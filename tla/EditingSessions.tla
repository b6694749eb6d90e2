--------------------------- MODULE EditingSessions ---------------------------
(***************************************************************************)
(* Editing sessions over the files of one store: ldoc commands, each a     *)
(* process of its own, change documents, log the change in the record of   *)
(* their session, and at close fold the record into one review.            *)
(*                                                                         *)
(* There is no lock.  A command that changes a file reads it into memory   *)
(* and later overwrites it, and these are two steps here, so that another  *)
(* command, or a crash, can come between them.  Loading the documents and  *)
(* re-reading the one to be changed is one step; so is every write.        *)
(***************************************************************************)
EXTENDS ChangeLog

CONSTANTS
  Procs,        \* the processes that run commands, one command at a time
  Sessions,     \* the session ids ever minted
  NoSession,    \* the session field of a process that runs no command
  Owner,        \* Owner[p]: the sessions process p works under
  Commands,     \* the commands that are issued
  Edits,        \* what set, link, unlink and edit do to a document
  OldDocs,      \* documents of the store before the first command
  StartTime,    \* the second the behaviour starts in
  MaxTime,      \* bound on the clock
  MaxCommands,  \* bound on the commands issued
  MaxCrashes    \* bound on the commands killed half way

ASSUME DocIdsAssumption == DocIds \subseteq Nat \ {0}
ASSUME NoSessionAssumption == NoSession \notin Sessions
ASSUME OwnerAssumption == Owner \in [Procs -> SUBSET Sessions]
\* Every field a command can change has a change type, and a command that would
\* change none is refused.
ASSUME EditsAssumption == Edits \subseteq
  [types: (SUBSET ChangeTypes) \ {{}}, author: BOOLEAN, retires: BOOLEAN]
ASSUME TimeAssumption == StartTime \in Nat /\ MaxTime \in Nat
ASSUME BoundsAssumption == MaxCommands \in Nat /\ MaxCrashes \in Nat

VARIABLES
  now,        \* the clock ids are minted from
  docs,       \* docs[d]: the document file of id d
  sess,       \* sess[s]: the record of session s
  reviews,    \* reviews[r]: the review file of id r; ids as for documents
  job,        \* job[p]: the command process p runs, and what it holds in memory
  commands,   \* the number of commands issued so far
  crashes,    \* the number of commands killed so far
  minted,     \* history: the session ids ever handed out
  acked,      \* history: the commands that logged their change and succeeded
  overlapped  \* history: the commands whose line went where another command,
              \* at the time, was to overwrite or delete what it had read

files == <<docs, sess, reviews>>
ghosts == <<minted, acked, overlapped>>
vars == <<now, docs, sess, reviews, job, commands, crashes, minted, acked,
          overlapped>>

-----------------------------------------------------------------------------
(* Files *)

\* A history entry: the session it is stamped with, which opening of that
\* session, and the close command that wrote it.
HistoryEntry == [sess: Sessions, opened: Nat, by: Nat]

\* born is the command that created the document.
DocFile == [present: BOOLEAN, archived: BOOLEAN, born: Nat,
            history: SUBSET HistoryEntry]

NoDoc == [present |-> FALSE, archived |-> FALSE, born |-> 0, history |-> {}]

\* opened orders the records by the time they were opened.
SessionFile == [present: BOOLEAN, opened: Nat, lines: SUBSET LogLine]

NoRecord == [present |-> FALSE, opened |-> 0, lines |-> {}]

\* legacy: minted by the tag-scan fallback, with no WAL to archive.
ReviewFile == [present: BOOLEAN, sess: Sessions \cup {NoSession}, by: Nat,
               lines: SUBSET LogLine, forced: BOOLEAN, legacy: BOOLEAN]

NoReview == [present |-> FALSE, sess |-> NoSession, by |-> 0, lines |-> {},
             forced |-> FALSE, legacy |-> FALSE]

\* Mutant: the directory is not looked at.
IsNextIdUnchecked(dir, id) == id = now

\* The ids generate_id may return: the clock, or the first free id after it.
IsNextId(dir, id) ==
  /\ id >= now /\ ~dir[id].present
  /\ \A i \in DocIds : (i >= now /\ i < id) => dir[i].present

-----------------------------------------------------------------------------
(* Commands in progress *)

Steps == {"idle", "docWrite", "unlink", "walRead", "walWrite", "recapWrite",
          "gate", "history", "historyWrite", "mint", "reviewWrite", "delete",
          "mergeWrite", "mergeDelete", "retag", "retagWrite"}

Job == [step: Steps, n: Nat, sess: Sessions \cup {NoSession}, op: Ops,
        ref: DocIds \cup {0}, types: SUBSET ChangeTypes, author: BOOLEAN,
        force: BOOLEAN, doc: DocFile, rec: SessionFile,
        loaded: SUBSET DocIds, frozen: SUBSET DocIds,
        todo: SUBSET DocIds, others: SUBSET Sessions, fold: SUBSET Sessions]

Idle == [step |-> "idle", n |-> 0, sess |-> NoSession, op |-> "change",
         ref |-> 0, types |-> {}, author |-> FALSE, force |-> FALSE,
         doc |-> NoDoc, rec |-> NoRecord, loaded |-> {}, frozen |-> {},
         todo |-> {}, others |-> {}, fold |-> {}]

AllIdle == \A p \in Procs : job[p].step = "idle"

\* Process p issues a command under session s, which starts as job j.
Start(p, s, c, j) ==
  /\ job[p].step = "idle"
  /\ c \in Commands /\ s \in Owner[p] /\ commands < MaxCommands
  /\ commands' = commands + 1
  /\ job' = [job EXCEPT ![p] = [j EXCEPT !.n = commands + 1, !.sess = s]]

At(p, step) == job[p].step = step

Goto(p, step) == job' = [job EXCEPT ![p].step = step]

Exit(p) == job' = [job EXCEPT ![p] = Idle]

\* The other commands that will overwrite or delete the record of session s,
\* as they read it before.
Holders(p, s) ==
  {q \in Procs \ {p} :
     \/ s \in job[q].fold
     \/ /\ job[q].sess = s /\ job[q].rec.present
        /\ job[q].step \notin {"mergeDelete", "retag", "retagWrite"}}

\* The other commands that have chosen the id of p's review.
Namesakes(p) ==
  {q \in Procs \ {p} : At(q, "reviewWrite") /\ job[q].ref = job[p].ref}

Overlaps(others, lines) ==
  overlapped' = overlapped \cup (IF others = {} THEN {} ELSE {l.n : l \in lines})

LineOf(p) == [n |-> job[p].n, op |-> job[p].op, ref |-> job[p].ref,
              types |-> job[p].types, author |-> job[p].author]

-----------------------------------------------------------------------------
(* Changing documents: new, set / link / unlink / edit, history --add, rm *)

\* ldoc new: the id is chosen now, the file is written in the next step.
BeginNew(p, s, arch) ==
  \E d \in DocIds :
    /\ IsNextId(docs, d)
    /\ Start(p, s, "new",
             [Idle EXCEPT !.step = "docWrite", !.op = "new", !.ref = d,
                          !.types = {"addition"},
                          !.doc = [present |-> TRUE, archived |-> arch,
                                   born |-> commands + 1, history |-> {}]])
    /\ UNCHANGED <<now, files, crashes, ghosts>>

\* Mutant: snapshots are not refused.
MutableAny(d) == docs[d].present

\* The document exists and is no snapshot: otherwise the command is refused.
Mutable(d) == docs[d].present /\ ~docs[d].archived

\* An edit has the types of the fields it touches, with --note or without
\* one, and may set the document to reference.
BeginChange(p, s, d, e) ==
  /\ Mutable(d)
  /\ Start(p, s, "change",
           [Idle EXCEPT !.step = "docWrite", !.ref = d,
                        !.types = e.types, !.author = e.author,
                        !.doc = [docs[d] EXCEPT !.archived = e.retires]])
  /\ UNCHANGED <<now, files, crashes, ghosts>>

\* The whole file is written from the copy in memory; after that the change
\* of an archived document is refused by the log, a creation is not.
DocWrite(p) ==
  /\ At(p, "docWrite")
  /\ docs' = [docs EXCEPT ![job[p].ref] = job[p].doc]
  /\ IF job[p].op = "change" /\ job[p].doc.archived
     THEN Exit(p)
     ELSE Goto(p, "walRead")
  /\ UNCHANGED <<now, sess, reviews, commands, crashes, minted, acked, overlapped>>

\* Mutant: the reference is logged before it is resolved.
BeginNoteUnresolved(p, s, d) ==
  /\ Mutable(d)
  /\ Start(p, s, "note", [Idle EXCEPT !.step = "walRead", !.author = TRUE])
  /\ UNCHANGED <<now, files, crashes, ghosts>>

\* ldoc history --add: a log line with an author note and nothing else.
BeginNote(p, s, d) ==
  /\ Mutable(d)
  /\ Start(p, s, "note",
           [Idle EXCEPT !.step = "walRead", !.ref = d,
                        !.types = {"revision"}, !.author = TRUE])
  /\ UNCHANGED <<now, files, crashes, ghosts>>

\* ldoc rm, of a document nothing links to, with a note or without one.
BeginRm(p, s, d, e) ==
  /\ docs[d].present
  /\ Start(p, s, "rm",
           [Idle EXCEPT !.step = "unlink", !.op = "rm", !.ref = d,
                        !.types = {"deletion"}, !.author = e.author])
  /\ UNCHANGED <<now, files, crashes, ghosts>>

\* Unlinking a file that is gone already ends the command with an error.
Unlink(p) ==
  /\ At(p, "unlink")
  /\ docs' = [docs EXCEPT ![job[p].ref] = NoDoc]
  /\ IF docs[job[p].ref].present
     THEN Goto(p, "walRead")
     ELSE Exit(p)
  /\ UNCHANGED <<now, sess, reviews, commands, crashes, minted, acked, overlapped>>

\* A record that is not there is created before it is read.
OpenRecord(p) ==
  IF sess[job[p].sess].present
  THEN sess[job[p].sess]
  ELSE [present |-> TRUE, opened |-> job[p].n, lines |-> {}]

WalRead(p) ==
  /\ At(p, "walRead")
  /\ sess' = [sess EXCEPT ![job[p].sess] = OpenRecord(p)]
  /\ minted' = minted \cup {job[p].sess}
  /\ job' = [job EXCEPT ![p].step = "walWrite", ![p].rec = OpenRecord(p)]
  /\ UNCHANGED <<now, docs, reviews, commands, crashes, acked, overlapped>>

\* Mutant: the record is written with the new line only.
WalWriteFresh(p) ==
  /\ At(p, "walWrite")
  /\ sess' = [sess EXCEPT ![job[p].sess] = [job[p].rec EXCEPT !.lines = {LineOf(p)}]]
  /\ acked' = acked \cup {job[p].n}
  /\ Overlaps(Holders(p, job[p].sess), {LineOf(p)})
  /\ Exit(p)
  /\ UNCHANGED <<now, docs, reviews, commands, crashes, minted>>

\* The record is written back from memory with the one line more.
WalWrite(p) ==
  /\ At(p, "walWrite")
  /\ sess' = [sess EXCEPT ![job[p].sess] =
                [job[p].rec EXCEPT !.lines = @ \cup {LineOf(p)}]]
  /\ acked' = acked \cup {job[p].n}
  /\ Overlaps(Holders(p, job[p].sess), {LineOf(p)})
  /\ Exit(p)
  /\ UNCHANGED <<now, docs, reviews, commands, crashes, minted>>

\* Logging the creation failed: ldoc new takes the document back.
RollBackNew(p) ==
  /\ job[p].step \in {"walRead", "walWrite"} /\ job[p].op = "new"
  /\ docs' = [docs EXCEPT ![job[p].ref] = NoDoc]
  /\ Exit(p)
  /\ UNCHANGED <<now, sess, reviews, commands, crashes, minted, acked, overlapped>>

-----------------------------------------------------------------------------
(* ldoc session start | summary | close | merge *)

SessionStart(p, s) ==
  /\ s \notin minted
  /\ Start(p, s, "start", Idle)
  /\ sess' = [sess EXCEPT ![s] =
                [present |-> TRUE, opened |-> commands + 1, lines |-> {}]]
  /\ minted' = minted \cup {s}
  /\ UNCHANGED <<now, docs, reviews, crashes, acked, overlapped>>

\* ldoc session summary sets the recap, which no property here is about, by
\* reading the whole record and writing it back.
BeginRecap(p, s) ==
  /\ sess[s].present
  /\ Start(p, s, "recap", [Idle EXCEPT !.step = "recapWrite", !.rec = sess[s]])
  /\ UNCHANGED <<now, files, crashes, ghosts>>

RecapWrite(p) ==
  /\ At(p, "recapWrite")
  /\ sess' = [sess EXCEPT ![job[p].sess] = job[p].rec]
  /\ Exit(p)
  /\ UNCHANGED <<now, docs, reviews, commands, crashes, ghosts>>

Loaded == {d \in DocIds : docs[d].present}
Snapshots == {d \in DocIds : docs[d].present /\ docs[d].archived}

\* ldoc session close reads the record once, for everything but the gate.
\* Without a record it falls back to the tag scan and mints a review anyway.
BeginClose(p, s, force) ==
  /\ Start(p, s, "close",
           [Idle EXCEPT !.step = IF ~sess[s].present THEN "mint"
                                 ELSE IF force THEN "history" ELSE "gate",
                        !.force = force, !.rec = sess[s],
                        !.loaded = Loaded, !.frozen = Snapshots,
                        !.todo = ToMaterialize(sess[s].lines)])
  /\ UNCHANGED <<now, files, crashes, ghosts>>

\* Mutant: the gate looks at the type a document is filed under, so that a
\* revision of a document the session created passes.
GateOnDominant(p) ==
  /\ At(p, "gate")
  /\ LET log == sess[job[p].sess].lines
     IN IF \A d \in Gaps(log) : Dominant(TypesOf(log, d)) # "revision"
        THEN Goto(p, "history")
        ELSE Exit(p)
  /\ UNCHANGED <<now, files, commands, crashes, ghosts>>

\* The gate reads the record again; one that is gone has no gaps.
Gate(p) ==
  /\ At(p, "gate")
  /\ IF Gaps(sess[job[p].sess].lines) = {}
     THEN Goto(p, "history")
     ELSE Exit(p)
  /\ UNCHANGED <<now, files, commands, crashes, ghosts>>

\* The next document of the log.  What the documents as loaded show to be a
\* snapshot is passed over; one that was not there, or is gone by now, ends
\* the close with an error, whatever was written before.
HistoryRead(p) ==
  /\ At(p, "history") /\ job[p].todo # {}
  /\ \E d \in DocIds :
       /\ FirstIn(job[p].rec.lines, job[p].todo, d)
       /\ \/ /\ d \in job[p].frozen
             /\ job' = [job EXCEPT ![p].todo = @ \ {d}]
          \/ /\ d \notin job[p].frozen
             /\ d \notin job[p].loaded \/ ~docs[d].present
             /\ Exit(p)
          \/ /\ d \in job[p].loaded \ job[p].frozen /\ docs[d].present
             /\ job' = [job EXCEPT ![p].step = "historyWrite", ![p].ref = d,
                                   ![p].doc = docs[d]]
  /\ UNCHANGED <<now, files, commands, crashes, ghosts>>

EntryOf(p) == [sess |-> job[p].sess, opened |-> job[p].rec.opened, by |-> job[p].n]

\* The write loads the documents again.
HistoryWrite(p) ==
  /\ At(p, "historyWrite")
  /\ docs' = [docs EXCEPT ![job[p].ref] =
                [job[p].doc EXCEPT !.history = @ \cup {EntryOf(p)}]]
  /\ job' = [job EXCEPT ![p].step = "history", ![p].doc = NoDoc,
                        ![p].loaded = Loaded', ![p].frozen = Snapshots',
                        ![p].todo = @ \ {job[p].ref}]
  /\ UNCHANGED <<now, sess, reviews, commands, crashes, ghosts>>

\* Mutant: the record is deleted before the review is written.
HistoryDoneDeletes(p) ==
  /\ At(p, "history") /\ job[p].todo = {}
  /\ sess' = [sess EXCEPT ![job[p].sess] = NoRecord]
  /\ Goto(p, "mint")
  /\ UNCHANGED <<now, docs, reviews, commands, crashes, ghosts>>

HistoryDone(p) ==
  /\ At(p, "history") /\ job[p].todo = {}
  /\ Goto(p, "mint")
  /\ UNCHANGED <<now, files, commands, crashes, ghosts>>

\* The review's id is chosen; its file is written in the next step.
Mint(p) ==
  /\ At(p, "mint")
  /\ \E r \in DocIds :
       /\ IsNextId(reviews, r)
       /\ job' = [job EXCEPT ![p].step = "reviewWrite", ![p].ref = r]
  /\ UNCHANGED <<now, files, commands, crashes, ghosts>>

ReviewWrite(p) ==
  /\ At(p, "reviewWrite")
  /\ reviews' = [reviews EXCEPT ![job[p].ref] =
       [present |-> TRUE, sess |-> job[p].sess, by |-> job[p].n,
        lines |-> job[p].rec.lines, forced |-> job[p].force,
        legacy |-> ~job[p].rec.present]]
  /\ Overlaps(Namesakes(p), job[p].rec.lines)
  /\ IF job[p].rec.present THEN Goto(p, "delete") ELSE Exit(p)
  /\ UNCHANGED <<now, docs, sess, commands, crashes, minted, acked>>

\* Mutant: the record stays after its review is written.
DeleteNothing(p) ==
  /\ At(p, "delete")
  /\ Exit(p)
  /\ UNCHANGED <<now, files, commands, crashes, ghosts>>

Delete(p) ==
  /\ At(p, "delete")
  /\ sess' = [sess EXCEPT ![job[p].sess] = NoRecord]
  /\ Exit(p)
  /\ UNCHANGED <<now, docs, reviews, commands, crashes, ghosts>>

\* ldoc session merge: the target is the session opened first.
BeginMerge(p, group) ==
  /\ Cardinality(group) >= 2 /\ group \subseteq Owner[p]
  /\ \A s \in group : sess[s].present
  /\ \E t \in group :
       /\ \A s \in group : sess[t].opened <= sess[s].opened
       /\ Start(p, t, "merge",
                [Idle EXCEPT !.step = "mergeWrite",
                             !.others = group \ {t}, !.fold = group \ {t},
                             !.todo = {d \in DocIds : docs[d].present},
                             !.rec = [sess[t] EXCEPT !.lines =
                                        UNION {sess[s].lines : s \in group}]])
  /\ UNCHANGED <<now, files, crashes, ghosts>>

MergeWrite(p) ==
  /\ At(p, "mergeWrite")
  /\ sess' = [sess EXCEPT ![job[p].sess] = job[p].rec]
  /\ Overlaps(Holders(p, job[p].sess), job[p].rec.lines)
  /\ Goto(p, "mergeDelete")
  /\ UNCHANGED <<now, docs, reviews, commands, crashes, minted, acked>>

\* The folded records are deleted one after the other.
MergeDelete(p) ==
  /\ At(p, "mergeDelete")
  /\ \E s \in job[p].fold :
       /\ sess' = [sess EXCEPT ![s] = NoRecord]
       /\ job' = [job EXCEPT ![p].fold = @ \ {s},
                             ![p].step = IF job[p].fold = {s} THEN "retag" ELSE @]
  /\ UNCHANGED <<now, docs, reviews, commands, crashes, ghosts>>

\* History the folded sessions left on documents is stamped with the target,
\* document after document, of those there were when the command started.
Restamped(p, history) ==
  {IF h.sess \in job[p].others
   THEN [h EXCEPT !.sess = job[p].sess, !.opened = job[p].rec.opened]
   ELSE h : h \in history}

Retag(p) ==
  /\ At(p, "retag") /\ job[p].todo # {}
  /\ \E d \in job[p].todo :
       /\ \A i \in job[p].todo : d <= i
       /\ \/ /\ ~docs[d].present
             /\ Exit(p)
          \/ /\ docs[d].present /\ Restamped(p, docs[d].history) = docs[d].history
             /\ job' = [job EXCEPT ![p].todo = @ \ {d}]
          \/ /\ docs[d].present /\ Restamped(p, docs[d].history) # docs[d].history
             /\ job' = [job EXCEPT ![p].step = "retagWrite", ![p].ref = d,
                                   ![p].doc = docs[d]]
  /\ UNCHANGED <<now, files, commands, crashes, ghosts>>

RetagWrite(p) ==
  /\ At(p, "retagWrite")
  /\ docs' = [docs EXCEPT ![job[p].ref] =
                [job[p].doc EXCEPT !.history = Restamped(p, @)]]
  /\ job' = [job EXCEPT ![p].step = "retag", ![p].doc = NoDoc,
                        ![p].todo = @ \ {job[p].ref}]
  /\ UNCHANGED <<now, sess, reviews, commands, crashes, ghosts>>

RetagDone(p) ==
  /\ At(p, "retag") /\ job[p].todo = {}
  /\ Exit(p)
  /\ UNCHANGED <<now, files, commands, crashes, ghosts>>

-----------------------------------------------------------------------------
(* The environment *)

Tick ==
  /\ now < MaxTime
  /\ now' = now + 1
  /\ UNCHANGED <<files, job, commands, crashes, ghosts>>

\* A command is killed: its files stay as they are.
Crash(p) ==
  /\ job[p].step # "idle" /\ crashes < MaxCrashes
  /\ crashes' = crashes + 1
  /\ Exit(p)
  /\ UNCHANGED <<now, files, commands, ghosts>>

-----------------------------------------------------------------------------
(* The specification *)

Init ==
  /\ now = StartTime
  /\ docs = [d \in DocIds |->
       IF d \in OldDocs THEN [NoDoc EXCEPT !.present = TRUE] ELSE NoDoc]
  /\ sess = [s \in Sessions |-> NoRecord]
  /\ reviews = [r \in DocIds |-> NoReview]
  /\ job = [p \in Procs |-> Idle]
  /\ commands = 0 /\ crashes = 0
  /\ minted = {} /\ acked = {} /\ overlapped = {}

Begin(p) ==
  \/ \E s \in Sessions :
       \/ SessionStart(p, s) \/ BeginRecap(p, s)
       \/ \E force \in BOOLEAN : BeginClose(p, s, force)
       \/ \E arch \in BOOLEAN : BeginNew(p, s, arch)
       \/ \E d \in DocIds :
            \/ BeginNote(p, s, d)
            \/ \E e \in Edits : BeginChange(p, s, d, e) \/ BeginRm(p, s, d, e)
  \/ \E group \in SUBSET Sessions : BeginMerge(p, group)

\* What a running command does by itself.
Continue(p) ==
  \/ DocWrite(p) \/ Unlink(p) \/ WalRead(p) \/ WalWrite(p) \/ RollBackNew(p)
  \/ RecapWrite(p) \/ Gate(p) \/ HistoryRead(p) \/ HistoryWrite(p)
  \/ HistoryDone(p) \/ Mint(p) \/ ReviewWrite(p) \/ Delete(p)
  \/ MergeWrite(p) \/ MergeDelete(p) \/ Retag(p) \/ RetagWrite(p) \/ RetagDone(p)

Next ==
  \/ \E p \in Procs : Begin(p) \/ Continue(p) \/ Crash(p)
  \/ Tick

Spec == Init /\ [][Next]_vars

-----------------------------------------------------------------------------
(* Properties *)

\* Every variable has the type of the file or record it stands for.
TypeOK ==
  /\ now \in Nat
  /\ docs \in [DocIds -> DocFile]
  /\ sess \in [Sessions -> SessionFile]
  /\ reviews \in [DocIds -> ReviewFile]
  /\ job \in [Procs -> Job]
  /\ commands \in Nat /\ crashes \in Nat
  /\ minted \subseteq Sessions
  /\ acked \subseteq Nat
  /\ overlapped \subseteq Nat

Holds(lines, n) == \E l \in lines : l.n = n

\* A command that succeeded keeps its line, in an open record or the archive
\* of a review, whoever shares the session and wherever commands are killed:
\* it is lost only to one that had read the record before the line came in,
\* or had chosen the id of the review the line was filed under.
AckedKept ==
  \A n \in acked \ overlapped :
    \/ \E s \in Sessions : Holds(sess[s].lines, n)
    \/ \E r \in DocIds : Holds(reviews[r].lines, n)

\* A review that was not forced explains every revision it reports.
ReviewsExplained ==
  \A r \in DocIds :
    reviews[r].present /\ ~reviews[r].forced => Gaps(reviews[r].lines) = {}

\* The part of a session's promise about a document that can be kept: the
\* document of the line still exists, is the one the line was about, and the
\* session did not delete it.
Survives(lines, l) ==
  /\ Mutable(l.ref)
  /\ docs[l.ref].born <= l.n
  /\ ~Deleted(lines, l.ref)

\* Every document a review tells of, if it survives, carries a history entry
\* of the close that wrote the review.
SurvivorsCarryHistory ==
  \A r \in DocIds : \A l \in reviews[r].lines :
    Survives(reviews[r].lines, l) =>
      \E h \in docs[l.ref].history : h.by = reviews[r].by

\* A session no other process works under.
Alone(s) == \A p, q \in Procs : s \in Owner[p] \cap Owner[q] => p = q

\* A close that ends early, failed or killed, leaves the record of its session
\* as it found it, so that it can be run again, whatever other processes do to
\* the documents meanwhile; they work under other sessions (cmd_session).
FailedCloseKeepsRecord ==
  [][\A p \in Procs :
       /\ job[p].step \in {"gate", "history", "historyWrite", "mint", "reviewWrite"}
       /\ job[p].rec.present /\ Alone(job[p].sess)
       /\ job'[p].step = "idle"
       => sess'[job[p].sess] = job[p].rec]_vars

\* What a snapshot says never changes: while the file exists it stays
\* archived and gains no history entry (a merge may restamp one).
ArchivedFrozen ==
  [][\A d \in DocIds :
       docs[d].present /\ docs[d].archived /\ docs'[d].present
         => /\ docs'[d].archived
            /\ {h.by : h \in docs'[d].history} = {h.by : h \in docs[d].history}]_docs

\* ldoc new never overwrites: the command that created a file stays its
\* creator until the file is removed.
NewOverwritesNothing ==
  [][\A d \in DocIds :
       docs[d].present /\ docs'[d].present => docs'[d].born = docs[d].born]_docs

\* Commands that run one after the other implement SessionLog: a session is
\* folded when the merged record is written, and filed when its review is,
\* and the records still to be deleted after that do not count.
Superseded(s) ==
  \E p \in Procs :
    \/ job[p].step = "delete" /\ job[p].sess = s
    \/ job[p].step = "mergeDelete" /\ s \in job[p].fold

Log == INSTANCE SessionLog WITH
  pending <- [s \in Sessions |-> IF Superseded(s) THEN {} ELSE sess[s].lines],
  filed <- {[lines |-> reviews[r].lines, forced |-> reviews[r].forced] :
              r \in {q \in DocIds : reviews[q].present /\ ~reviews[q].legacy}}

ImplementsSessionLog == Log!Spec

-----------------------------------------------------------------------------
(* What the documentation says and the code does not do *)

\* One opening of a session leaves at most one history entry on a document.
OneEntryPerSession ==
  \A d \in DocIds : \A h, g \in docs[d].history :
    h.sess = g.sess /\ h.opened = g.opened => h = g
=============================================================================
