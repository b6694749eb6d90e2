------------------------------- MODULE Ingest -------------------------------
(***************************************************************************)
(* Capture and promotion.  An item is captured into the inbox, promoted    *)
(* into the raw tier, split there into shards, and reported as ingested    *)
(* when it is marked or when a document cites it.  Every command reads,    *)
(* mints and writes in separate steps, and may be killed between them.     *)
(* The script ingest_raw.py, which takes any text for a parent, is left    *)
(* out: it and the commands below write the same files.                    *)
(***************************************************************************)
EXTENDS Naturals, FiniteSetsExt

CONSTANTS
  Ingesters,      \* the processes that capture, promote and mark
  MaxRawId,       \* bound: ids are the seconds 1..MaxRawId
  MaxIngestCommands

ASSUME IngestBounds == MaxRawId \in Nat \ {0} /\ MaxIngestCommands \in Nat

RawIds == 1..MaxRawId

\* An item is the number of the command that brought its text in.  Its
\* provenance is that number too, or 0 when it was not carried along.  A
\* shard has the id of its parent.
File == [item : Nat \ {0}, prov : Nat, parent : {0} \cup RawIds, flagged : BOOLEAN]
NoFile == [item |-> 0, prov |-> 0, parent |-> 0, flagged |-> FALSE]
FileOf(n, source, up) == [item |-> n, prov |-> source, parent |-> up, flagged |-> FALSE]

VARIABLES
  inbox,          \* the files of the inbox
  raw,            \* the files of the raw tier
  cited,          \* the raw ids documents name as source or provenance
  ingestJob,      \* per process: where its command is
  ingestClock,
  ingestCommands, \* how many commands were issued; the number of the latest
  twice,          \* history: items two promotions met, or one left half done
  met             \* history: items a command removed without having seen them

ingestVars == <<inbox, raw, cited, ingestJob, ingestClock, ingestCommands, twice, met>>

\* todo: the inbox ids still to promote; from: the one under way; to and rec:
\* the file to be written; seen: what the step to come takes its file to be.
IdleIngester ==
  [op |-> "idle", todo |-> {}, from |-> 0, to |-> 0, rec |-> NoFile, seen |-> NoFile]

Job == [op : {"idle", "capture", "drain", "fields", "promote", "unlink", "raw"},
        todo : SUBSET RawIds, from : {0} \cup RawIds, to : {0} \cup RawIds,
        rec : File \cup {NoFile}, seen : File \cup {NoFile}]

OnFile(box) == {i \in RawIds : box[i] # NoFile}

\* generate_id: the first second from now on with no file in the directory.
Mintable(box, id) ==
  /\ id >= ingestClock /\ id \notin OnFile(box)
  /\ \A i \in ingestClock..id : i # id => i \in OnFile(box)

IngestIssued ==
  /\ ingestCommands < MaxIngestCommands
  /\ ingestCommands' = ingestCommands + 1

\* A file is changed by a command that took it to be as seen.
Changes(now, seen) == met' = IF now = seen THEN met ELSE met \cup {now.item}

Takes(p, job) == ingestJob' = [ingestJob EXCEPT ![p] = job]
Ends(p) == Takes(p, IdleIngester)

-----------------------------------------------------------------------------

\* ldoc inbox add, up to the choice of the id.
InboxAdd(p) ==
  /\ ingestJob[p].op = "idle" /\ IngestIssued
  /\ \E id \in RawIds :
       /\ Mintable(inbox, id)
       /\ Takes(p, [IdleIngester EXCEPT !.op = "capture", !.to = id,
                      !.rec = FileOf(ingestCommands', ingestCommands', 0)])
  /\ UNCHANGED <<inbox, raw, cited, ingestClock, twice, met>>

WriteInbox(p) ==
  /\ ingestJob[p].op = "capture"
  /\ inbox' = [inbox EXCEPT ![ingestJob[p].to] = ingestJob[p].rec]
  /\ Ends(p)
  /\ Changes(inbox[ingestJob[p].to], NoFile)
  /\ UNCHANGED <<raw, cited, ingestClock, ingestCommands, twice>>

\* ldoc promote of one item, and with --all of the items listed now.
Promote(p) ==
  /\ ingestJob[p].op = "idle" /\ IngestIssued
  /\ \E ids \in {{i} : i \in OnFile(inbox)} \cup {OnFile(inbox)} :
       ids # {} /\ Takes(p, [IdleIngester EXCEPT !.op = "drain", !.todo = ids])
  /\ UNCHANGED <<inbox, raw, cited, ingestClock, twice, met>>

Promoting(p, item) ==
  ingestJob[p].op \in {"fields", "promote", "unlink"} /\ ingestJob[p].rec.item = item

\* _promote_one reads the text of the next item; one that is gone is passed over.
ReadItem(p) ==
  LET job == ingestJob[p]
      i == Min(job.todo)
      rest == job.todo \ {i} IN
  /\ job.op = "drain"
  /\ IF inbox[i] # NoFile
     THEN Takes(p, [job EXCEPT !.op = "fields", !.todo = rest, !.from = i,
                      !.rec = FileOf(inbox[i].item, 0, 0), !.seen = inbox[i]])
     ELSE Takes(p, IF rest = {} THEN IdleIngester ELSE [job EXCEPT !.todo = rest])
  /\ twice' = twice \cup {n \in {inbox[i].item} : \E q \in Ingesters : Promoting(q, n)}
  /\ UNCHANGED <<inbox, raw, cited, ingestClock, ingestCommands, met>>

\* The provenance is read in a second pass, which finds none in a file that
\* has gone; then the raw id is chosen.
ReadFields(p) ==
  LET job == ingestJob[p] IN
  /\ job.op = "fields"
  /\ \E id \in RawIds :
       /\ Mintable(raw, id)
       /\ Takes(p, [job EXCEPT !.op = "promote", !.to = id, !.rec.prov = inbox[job.from].prov])
  /\ UNCHANGED <<inbox, raw, cited, ingestClock, ingestCommands, twice, met>>

\* Mutant: the inbox file goes first.
WritePromotedLate(p) ==
  LET job == ingestJob[p] IN
  /\ job.op = "promote"
  /\ inbox' = [inbox EXCEPT ![job.from] = NoFile]
  /\ Takes(p, [job EXCEPT !.op = "raw", !.seen = NoFile])
  /\ UNCHANGED <<raw, cited, ingestClock, ingestCommands, twice, met>>

WritePromoted(p) ==
  LET job == ingestJob[p] IN
  /\ job.op = "promote"
  /\ raw' = [raw EXCEPT ![job.to] = job.rec]
  /\ Takes(p, [job EXCEPT !.op = "unlink"])
  /\ Changes(raw[job.to], NoFile)
  /\ UNCHANGED <<inbox, cited, ingestClock, ingestCommands, twice>>

\* Mutant: what was promoted stays in the inbox.
UnlinkItemNot(p) ==
  LET job == ingestJob[p] IN
  /\ job.op = "unlink"
  /\ Takes(p, IF job.todo = {} THEN IdleIngester
              ELSE [IdleIngester EXCEPT !.op = "drain", !.todo = job.todo])
  /\ UNCHANGED <<inbox, raw, cited, ingestClock, ingestCommands, twice, met>>

\* A file that is gone ends the whole command, the other items unpromoted.
UnlinkItem(p) ==
  LET job == ingestJob[p] IN
  /\ job.op = "unlink"
  /\ inbox' = [inbox EXCEPT ![job.from] = NoFile]
  /\ Takes(p, IF inbox[job.from] = NoFile \/ job.todo = {} THEN IdleIngester
              ELSE [IdleIngester EXCEPT !.op = "drain", !.todo = job.todo])
  /\ Changes(inbox[job.from], job.seen)
  /\ UNCHANGED <<raw, cited, ingestClock, ingestCommands, twice>>

Ingests(p, parents) ==
  /\ ingestJob[p].op = "idle" /\ IngestIssued
  /\ \E id \in RawIds, from \in {0} \cup OnFile(raw), up \in {0} \cup parents,
       sourced \in BOOLEAN :
       /\ Mintable(raw, id)
       /\ sourced \/ from # 0
       /\ Takes(p, [IdleIngester EXCEPT !.op = "raw", !.to = id,
            !.rec = FileOf(ingestCommands',
                           IF sourced THEN ingestCommands' ELSE raw[from].prov,
                           IF up # 0 THEN up ELSE from)])
  /\ UNCHANGED <<inbox, raw, cited, ingestClock, twice, met>>

\* Mutant: a parent that is named is not looked up.
IngestRawAnyParent(p) == Ingests(p, RawIds)

\* ldoc ingest raw: straight into the raw tier, with a source or the provenance
\* of the file it inherits from, which is its parent unless another is named.
IngestRaw(p) == Ingests(p, OnFile(raw))

\* ldoc raw mark-ingested, up to the read.
MarkIngested(p, r) ==
  /\ ingestJob[p].op = "idle" /\ IngestIssued
  /\ r \in OnFile(raw)
  /\ Takes(p, [IdleIngester EXCEPT !.op = "raw", !.to = r, !.seen = raw[r],
                 !.rec = [raw[r] EXCEPT !.flagged = TRUE]])
  /\ UNCHANGED <<inbox, raw, cited, ingestClock, twice, met>>

WriteRaw(p) ==
  /\ ingestJob[p].op = "raw"
  /\ raw' = [raw EXCEPT ![ingestJob[p].to] = ingestJob[p].rec]
  /\ Ends(p)
  /\ Changes(raw[ingestJob[p].to], ingestJob[p].seen)
  /\ UNCHANGED <<inbox, cited, ingestClock, ingestCommands, twice>>

\* Killed: what was written stays, and nothing remembers what was not.
KillIngester(p) ==
  /\ ingestJob[p].op # "idle"
  /\ twice' = IF ingestJob[p].op = "unlink" THEN twice \cup {ingestJob[p].rec.item} ELSE twice
  /\ Ends(p)
  /\ UNCHANGED <<inbox, raw, cited, ingestClock, ingestCommands, met>>

\* A document gains or loses the raw id among its source and provenance.
Cite(r) ==
  /\ r \in OnFile(raw)
  /\ cited' = IF r \in cited THEN cited \ {r} ELSE cited \cup {r}
  /\ UNCHANGED <<inbox, raw, ingestJob, ingestClock, ingestCommands, twice, met>>

IngestTick ==
  /\ ingestClock < MaxRawId
  /\ ingestClock' = ingestClock + 1
  /\ UNCHANGED <<inbox, raw, cited, ingestJob, ingestCommands, twice, met>>

IngestInit ==
  /\ inbox = [i \in RawIds |-> NoFile] /\ raw = [i \in RawIds |-> NoFile]
  /\ cited = {} /\ twice = {} /\ met = {}
  /\ ingestJob = [p \in Ingesters |-> IdleIngester]
  /\ ingestClock = 1 /\ ingestCommands = 0

IngestNext ==
  \/ IngestTick
  \/ \E r \in RawIds : Cite(r)
  \/ \E p \in Ingesters :
       \/ InboxAdd(p) \/ WriteInbox(p)
       \/ Promote(p) \/ ReadItem(p) \/ ReadFields(p) \/ WritePromoted(p) \/ UnlinkItem(p)
       \/ IngestRaw(p) \/ WriteRaw(p)
       \/ \E r \in RawIds : MarkIngested(p, r)
       \/ KillIngester(p)

-----------------------------------------------------------------------------
(* What ldoc raw list reports.                                             *)

Shards(r) == {s \in OnFile(raw) : raw[s].parent = r}
Ingested(r) == raw[r].flagged \/ r \in cited

\* Mutant: a parent is done when it was marked itself.
RawDoneFlat(r, seen) == r \in seen \/ Ingested(r)

\* _raw_done: a parent through its shards, a leaf when marked or cited.
RawDone(r, seen) ==
  LET Done[above \in SUBSET RawIds] == [x \in RawIds |->
        \/ x \in above
        \/ IF Shards(x) # {} THEN \A s \in Shards(x) : Done[above \cup {x}][s]
           ELSE Ingested(x)]
  IN Done[seen][r]

\* _raw_status_for.
RawStatus(r) ==
  CASE Shards(r) # {} /\ \A s \in Shards(r) : RawDone(s, {}) -> "sharded"
    [] Shards(r) # {} /\ \E s \in Shards(r) : ~RawDone(s, {}) -> "sharding"
    [] Shards(r) = {} /\ Ingested(r) -> "ingested"
    [] OTHER -> "pending"

-----------------------------------------------------------------------------

\* The types of the inbox and the raw tier; a shard's parent is on file
\* (cmd_ingest_raw).
IngestTypes ==
  /\ inbox \in [RawIds -> File \cup {NoFile}]
  /\ raw \in [RawIds -> File \cup {NoFile}]
  /\ cited \subseteq OnFile(raw)
  /\ DOMAIN ingestJob = Ingesters /\ \A p \in Ingesters : ingestJob[p] \in Job
  /\ ingestClock \in RawIds /\ ingestCommands \in 0..MaxIngestCommands
  /\ twice \cup met \subseteq 0..MaxIngestCommands
  /\ \A r \in OnFile(raw) : raw[r].parent # 0 => raw[r].parent \in OnFile(raw)

Copies(n) == {r \in OnFile(raw) : raw[r].item = n}
Held(n) == Copies(n) # {} \/ \E i \in OnFile(inbox) : inbox[i].item = n
Sourced(n) ==
  \/ \E r \in Copies(n) : raw[r].prov # 0
  \/ \E i \in OnFile(inbox) : inbox[i].item = n

\* Once captured, an item's text and its provenance stay on file, in the
\* inbox or the raw tier, through promotion, marking and every crash; only
\* two commands that meet on one file can lose them (_promote_one, _inbox_add,
\* ingest_raw, _raw_mark_ingested).
CaptureKept ==
  [][ \A n \in 1..MaxIngestCommands \ met' :
        Held(n) => Held(n)' /\ (Sourced(n) => Sourced(n)') ]_ingestVars

\* An item is promoted once, and is not in both tiers but while its promotion
\* is about to unlink it, unless two promotions met on it or one was killed
\* half way (_promote_one).
CopiedOnce ==
  \A n \in 1..MaxIngestCommands \ twice :
    /\ Cardinality(Copies(n)) <= 1
    /\ \A i \in OnFile(inbox) :
         inbox[i].item = n /\ Copies(n) # {}
         => \E p \in Ingesters : ingestJob[p].op = "unlink" /\ ingestJob[p].from = i

\* The raw items below r, any number of levels down.
Below(r) == {s \in OnFile(raw) :
               \E chain \in SUBSET OnFile(raw) :
                 /\ {s} \cup {raw[t].parent : t \in chain} = {r} \cup chain
                 /\ s \in chain /\ r \notin chain}

\* A parent is reported sharded when every item below it that has no shards of
\* its own is marked or cited, and sharding otherwise (_raw_status_for).
StatusAgrees ==
  \A r \in OnFile(raw) :
    Shards(r) # {} =>
      RawStatus(r) = IF \A s \in Below(r) : Shards(s) = {} => Ingested(s)
                     THEN "sharded" ELSE "sharding"
=============================================================================
