# Live docs: a verification development

`ldoc` keeps a store of Markdown documents. Every command is a process of its
own: it loads the documents, changes some files and exits. No process owns the
files, and there is no lock and no transaction; several agents run
commands on one store at once. What keeps the store explained is the *session*:
each change is appended to the session's change log (its WAL), and closing the
session folds the log into per-document history and one *review*.

The modules here model that machinery from the code under `src/scripts`, check
it with TLC and prove parts of it with TLAPS.

## Inventory

| Component | State | Operations | What is hard | What makes it correct |
|---|---|---|---|---|
| Sessions (`livedocs/sessions.py`) | one record file per open session: WAL, recap, time of opening | start, append, recap, close, merge; collapse of the WAL | records are read, changed in memory and written whole; a close reads its record twice | no acknowledged line is lost; a line ends in one review; a failed close can be run again |
| Commands (`ldoc.py`) | none between commands | new, set, edit, link, unlink, rm, history, session ... | a command is a sequence of file writes that may fail or be killed anywhere; references are resolved anew for every write | a change of a document is in the log; a command reaches the documents it named |
| Documents (`livedocs/kb.py`) | one file per document; an in-memory copy per process | new, set, set_body, link, unlink, add_history, strip_inbound_edges; resolve, map, orphans | whole-file writes from stale copies; archived snapshots; removal under a reader | surviving documents keep their history; snapshots are frozen; ids are unique; no dangling edges |
| Taxonomy, ids, facets (`livedocs/model.py`) | none (the clock) | dominant_change_type, generate_id, the type table | two ids in one second; facets set and cleared one by one | one type per document and session; a new id names no file; no command leaves a facet that validate faults |
| Reviews (`livedocs/reviews.py`) | one file per review with sign-offs | new (from the WAL, by time, by session tag, from a list, with the user's text), sign | sign is read-modify-write; text and touched list come from scans of their own, one for each way to mint a review | a document is filed once, as its history says; numbers of edges account for the edges; sign-offs accumulate |
| Graph (`livedocs/graph.py`) | edges in the documents | inbound, dangling | `rm` decides on a stale copy | removal leaves no edge to a missing document |
| Flags (`livedocs/flags.py`) | one file per flag | add, resolve | two resolutions, two flags in one second | a flag changes once, by being resolved |
| Ingest (`ldoc.py` inbox, raw, promote) | inbox and raw files | inbox add, promote, ingest raw, mark-ingested | killed between the write and the unlink; shards of shards | captured text and provenance are never lost; one raw copy per item |
| Home configuration (`store.py`, `user_config.py`, `toml_flat.py`) | one TOML file, markers in directories | register, forget, set and unset a user key, bootstrap, self-registration | several writers of one file; pointers by path and by name | a key one command does not touch keeps its value; a directory stays with its store |
| Lexicon (`lexicon.py`) | a file per term, a directory per context | new, set, rm, resolution of references | removal prunes the directory an addition has just made | a term changes only in what a command names; none lies outside a directory |
| Server (`server/livedocs_mcp`), `KBCache` (`kb.py`), endpoint client | a cached KB per store | read-only tools | a fingerprint that misses a change; files that vanish under a read | an answer is as current as the fingerprint can tell |
| Validator (`validate.py`) | none | check_doc, find_cycles | an iterative search for cycles | faults what commands cannot rule out, and finds every cycle |
| Serializer (`serialize.py`) | none | parse_doc, dump_doc | dashes inside the frontmatter | the body is left alone |
| Index, migrations, prose lint, viewer, packaging | - | conversions and reports | - | - |

Components interact through files: a command writes documents, then the session
record (`record_addition`, `record_doc_change`, `record_deletion` in
`sessions.py`); a close reads the record, writes documents (`add_history`),
writes a review (`ReviewLedger.new`) and deletes the record; a merge writes one
record, deletes the others and restamps history; `rm` rewrites the documents that
link to the removed one. Nothing calls back. The server is the one process that
keeps anything between calls: the parsed documents, by a fingerprint of the files.

## Modules

| Module | Models |
|---|---|
| `ChangeLog` | the change types and their precedence (`model.py`), and the projections of a log: what a close materializes and what the gate reports (`collapse_wal_per_doc`, `materialize_history`, `_session_note_gaps`) |
| `SessionLog` | abstract specification: a line is pending under one session, moves when sessions fold, and is filed once |
| `EditingSessions` | the processes, their commands split at every file access, the document, record and review files |
| `DocGraph` | the edges between documents and the commands that change them: new, link and unlink in batches, rm with and without force, set --status reference (`ldoc.py`, `kb.py`, `graph.py`) |
| `ReviewLedger` | what a review says: the ways to mint one (from the log, `--since`, `--session`, `--touched`, `--summary` with `--touched` or without), its sections, touched list and integration numbers against documents, history and log (it extends `ChangeLog`); signing (`reviews.py`) |
| `DocRules` | pure: the type table, required and forbidden facets, what `kb.py` refuses and what `validate.py` faults |
| `TreeReads` | pure: the cycle search of `validate.py` step by step, and the map and orphans of `kb.py`, over the `belongs_to` edges (it extends `DocRules`) |
| `Porcelain` | the commands one after the other, with references by label, title or part of either, batches, facets, and validate (it extends `TreeReads`) |
| `HomeConfig` | the home file, its writers split at every read and write, markers, and the resolution of directories and names |
| `FlagLedger`, `Lexicon`, `Ingest` | the three directories of small files besides the documents, with commands split at reads and writes |
| `ServedStore` | the endpoint: requests that look at and parse files one by one, the cache, and what a client makes of a failure |
| `MC...` | instances for TLC; `MCBoxes` puts `FlagLedger`, `Lexicon` and `Ingest` side by side, `ServedStore` is run as it is |
| `..._proofs` | the theorems about the module of that name; `Boxes_proofs` those of `FlagLedger`, `Lexicon` and `Ingest` |

`EditingSessions` knows what is logged and filed, and nothing of edges;
`DocGraph` knows edges, and of the log only how many each line says were added
and removed; `ReviewLedger` knows what the log says of documents, and nothing of
races about it. They share the store, and no variable: a product of them would
multiply their states and no property relates them.

### State of EditingSessions

`docs`, `sess` and `reviews` are the three directories: a function from every id
that may occur to a file, with `present` for whether it is there. `now` is the
clock ids are minted from, in seconds. `job[p]` is the command process `p` runs:
the step it is at and what it holds in memory (the document `doc` it read, the
record `rec` it read, the documents `todo` it still has to visit). Every other
variable is a counter that bounds the behaviour (`commands`, `crashes`) or
remembers something for a property (`minted`, `acked`, and in `overlapped` the
lines that went in where another command was to overwrite or delete what it had
read before, or was to write a review under the same id);
no guard reads the latter, but for `minted`, since a session id is never minted
twice.

A command starts with a `Begin...` action or `SessionStart`, and then takes one
step per file access:

| Command | Steps |
|---|---|
| `new` | choose the id - write the document - read the record (create it if it is not there) - write the record; `RollBackNew` when the log fails |
| `set`, `edit`, `link`, `unlink` | load - write the document - read the record - write it |
| `history --add` | load - read the record - write it |
| `rm` | load - unlink - read the record - write it |
| `session start`, `summary` | write a record; read a record - write it |
| `session close` | read the record - gate (reads it again) - per document: read, write its history - choose the review's id - write the review - delete the record |
| `session merge` | read the records - write the target - delete the others one by one - per document: read, write its restamped history |

`Crash` kills a command between any two of them.

### State of DocGraph

`docs` is the directory of documents with their edges. `ledger[d]` counts the
edges document `d` should have by its log lines. `job[p]` is again the command
of process `p`; its `copy` is the in-memory KB the command loaded when it
started, which decides what is refused, what the log line says and which
documents a removal strips.

| Command | Steps |
|---|---|
| `new` | load - write the document |
| `link`, `unlink`, `set --status reference` | load - per document: decide on the copy and read the document, write it, log |
| `rm` | load and decide - per document that links to it: read, write - unlink - log |

`Crash` kills a command between any two of them.

### Abstractions of EditingSessions

* A log is a set of lines. A line carries the number of the command that wrote
  it, which stands for its time and its place; a note is reduced to whether an
  author supplied it, the one thing the gate tells apart. The record of a line
  keeps operation, document and change types.
* Loading all documents and re-reading the one to be changed are one step. A
  `set` of several fields, and `set` with a body, which write the file twice, are
  one write of a document. A write of a file is atomic: a torn read is out of
  the model.
* A command works on one document, and `rm` strips no edges: batches and
  stripping are in `DocGraph`.
* The content of a document is what the properties need: whether it is archived,
  who created it, and its history. History entries carry session, opening of the
  session, and the close that wrote them.
* The records of a merge are read in one step, and the command is given at least two.
* A close decides what is a snapshot from the documents as loaded before its last
  write, and fails on one that is gone from the files.
* A process has a session in mind (`LDOC_SESSION`): the choice among several
  open sessions without one, which is refused, is left out.

### Abstractions of DocGraph

* `requires`, `relates` and `superseded_by` are one field: no command here tells
  them apart. `belongs_to` is replaced by `link --replace`, and `provenance` is
  not counted and may be repaired in a snapshot.
* `new` takes any free id, and the sets of edges a command line may name are a
  constant. `set` stands for setting the status to `reference`, which retires
  the document.
* Appending to the log is one step: that two commands may lose a line there is
  the subject of `EditingSessions`.

### The other modules

`ReviewLedger`: `docs` with status, links and history, the `wal` of the one open
session, `reviews` in the order of their ids, `signing[p]` the record reviewer
`p` read. Commands, closes and reviews are single steps, since races about the
log, the gate and a close that fails half way are in `EditingSessions`; signing is
a read and a write. Setting a document to `reference` changes it and logs nothing
(`Archive`): the log refuses the line after the write. `link --replace` is left to
`DocGraph`. The number of a command is its time; `changed` and `born` remember
when each document was changed and created. A review by `--touched` or by time
has the additions read back from its text, so whatever the summaries list may
count too (`Listings`).

`Porcelain`: `docs` are the files as written, and `Loaded` what the parser makes
of one. A name is a set of words, a part of a name a subset; the word `Dashes`
ends the frontmatter. A command is a record (`Menu`), worked off by one fold over
its references, each resolved anew among the files as they are by then; `last`
remembers where a command went beside what it was about when it began: the
documents its references meant, those whose edges `rm --force` takes away, and the
one `new` creates. The text of bodies, the
relations without a rule of their own (`relates`, `provenance`), scope, domain
and sentences of warning are left out. A behaviour is about one *task* - facets,
tree or names -, which fixes the documents it begins with and the commands given.

`HomeConfig`: `home` is the file, `markers[d]` the marker of a directory. A
command reads the file, edits its copy and writes it whole; a registration reads
it a second time for the check. `acked`, `wroteAt` and `exposed` are for the
property only: the value last written per key, by which write, and the keys that
a write from an older copy may have undone. TOML syntax, and the search for a
git checkout's root, are left out; the paths of a store are whether they are
given (`base`, `docs`).

`FlagLedger`, `Lexicon`, `Ingest`: one file per flag, term and captured item; a
command reads, holds what it will write (`rec`) and what it saw (`seen`), and
writes. Texts are the number of the command that gave them. The path of a term
is a value; which reference is part of the name of which term is a constant, which
is part of an alias is what the alias list says. `term set` takes any fields at
once. `ldoc ingest-raw` inherits from one raw item and may name another for its
parent; the script `ingest_raw.py`, which does not look its parent up, is left out.
Capture from a URL or a file is one step up to the choice of the id.

`ServedStore`: `docs` with the write that made a file and its time, `mounted`
whether the directory is there, `cache` the parsed documents with fingerprint,
`req[w]` the request worker `w` handles, file by file. The fingerprint of the
flags box, which the cache compares as well, is left out: flags are another
directory of the same kind. What a tool computes from the documents is the
entry it is computed from.

## Runs

`CHECK_DEADLOCK FALSE` everywhere: when the bounded number of commands has been
issued nothing is left to do.

| Run | Instance | Shows |
|---|---|---|
| `session_serial` | 1 process, 2 sessions, 3 ids (1 document to begin with), any 4 of start, new, change, note, rm, close, merge; the clock moves on by one second | types; reviews explain revisions (`ReviewsExplained`); survivors carry history (`SurvivorsCarryHistory`); snapshots are frozen (`ArchivedFrozen`); ids are not reused (`NewOverwritesNothing`) |
| `session_merge` | 1 process, 3 sessions, any 6 of change, rm, close, merge | the commands implement `SessionLog` (`ImplementsSessionLog`) |
| `session_shared` | 2 processes interleaved, one session of both and one of the first alone, any 3 of new, change, rm, summary, close, merge, 1 crash | a line is lost only to one that had read the record before, or to a review of the same id (`AckedKept`); a close that ends early leaves its record (`FailedCloseKeepsRecord`) |
| `graph_serial` | 1 process, 3 ids (2 documents, one a member of and derived from the other), batches of 2, any 3 commands, 1 crash | types; no edge dangles (`NoDangling`); the log accounts for the edges (`LedgerExact`); snapshots keep theirs (`SnapshotEdgesKept`) |
| `reviews` | 2 documents, 3 changes (new, edit, set, link, unlink, rm), 3 reviews by any route, one of them not from a log at most before the last step, 2 signings at once | types; documents are filed once (`FiledOnce`), as their history says (`HistoryAgrees`); a review by time covers what was changed and logged since (`SinceCovers`); `IntegrationAccounts`; `SignoffsStand` |
| `porcelain` | facets of one document under some 200 commands; three documents and their tree; two documents and their names; any number of commands | types; what validate may fault of what commands wrote (`StrictOnOutput`); `WritesStayWithNamed`; `CyclesReported`; `MapCountsAll` |
| `home` | 2 processes, any 3 of 12 command lines, 4 directories (a checkout, one below it, two copies of a store), 2 names, 1 edit of a marker, 1 crash | types; `LostOnlyToOverlap`, `RebindNeedsForceOrRace`, `DirectoriesStayPut`, `NameMeansOneStore` |
| `boxes` | 2 processes; 4 commands on 3 flag ids, or 3 on 4 terms in 2 directories, or 4 on 3 ids of each capture tier; kills anywhere | types of the three; `FlagsStand`, `TermsStand`, `CaptureKept`, `CopiedOnce`, `StatusAgrees` |
| `served` | 2 requests that overlap, 2 documents, 2 writes, 2 ticks, the directory may go away | types; `AnswersCurrent` |
| `session_reclose` | 1 process | violation of `OneEntryPerSession` |
| `home_user` | 1 process | violation of `UserKeysFindNoStore` |
| `porcelain_dashes` | as `porcelain` | violation of `BodyKept` |

**Bounds.** Four serial commands are enough to create, revise, remove and close
in one session, or to change in two sessions, merge and close. Six are needed
for a merge of three sessions, a later change and two closes. Two processes are
enough for every race here, since each is between the read of one command and
the write of another. Three commands let a close or a merge run against a change
by the other agent in the same session, after a change of its own, and let two
closes mint in one second. In `DocGraph`
three commands retire a document, link to and from it, and remove its neighbour,
or build and tear down a chain of three documents; a batch of two is the shortest
that can stop half way. In `ReviewLedger` three changes and three reviews let a
document be created, linked and revised in two sessions and then be covered by
time; `Bounded` explores signing early only, since a record is read and written
whatever it says, and goes on after one review that is not from a log, since a scan
changes no document. `Porcelain` is unbounded in commands, bounded by its
menu: three documents are enough for a cycle with a tail and for a parent that is
archived, removed or on a cycle. In `HomeConfig` three commands let two writers
overlap with a third in between. Capture needs four: two items, a batch, and a
shard. Two writes and two ticks are what it takes to change a document and
change it back to the old fingerprint. Sessions are interchangeable in the
serial runs (no constant names one), as are processes, reviewers and documents
where a run declares it.

**Fairness.** None is assumed and no liveness is checked. There are no locks, and no
step of a command or a request waits for another process: each is a loop over a
set fixed when it starts, so that it ends says nothing about the code. The one loop
that is not evidently finite, the search for cycles, is proved to end
(`SearchEnds`).

**What the violations show.** Each is a statement of the repository that the
code does not keep; PROJECT.json quotes the line.
 1. `session_reclose`: a close that fails after documents have been written makes
    the repeated close append their history again.
 2. `home_user`: setting `user.name` makes the home file exist, and then it is the
    store of every directory outside one.
 3. `porcelain_dashes`: a title, label or summary with three dashes ends the
    frontmatter, and the next write moves the fields after it into the body.

**What the properties exempt**, because the code does it. Nothing in the repository
rules out:

* lines of a session lost by commands that overlap: a line that goes into a record
  another command has read and will write back or delete, and the lines of a
  review whose id another close chose in the same second (`overlapped`). Every
  other line stays, also where agents share sessions. A close is said to leave its
  record only in a session nobody else works under, and the gate to be what the
  review is built from only for sessions that are not shared;
* history lost by a document written from a copy older than another session's
  close, and edges left dangling by `rm` next to a link written meanwhile (the runs
  of these properties have one process);
* a status of `reference` that is saved and then not logged, and the snapshots and
  documents stripped by `rm --force` that a review by time therefore misses;
* a `set` whose new title or label changes what one of its own references finds: it
  is logged under another document, or fails after the write (`renames`);
* a flag, term, sign-off or setting replaced from a copy read before it;
* captured items that overwrite each other when two commands choose one id in the
  same second (`met`), and the second copy of an item whose promotion was killed
  half way or met another (`twice`);
* labels set to nothing or to another document's, which `new` refuses and `set`
  does not.

One exemption the source speaks against: an answer from a cache whose fingerprint is
tied with a write in the same tick, or was torn by one between fingerprint and
parsing - after that a removal can bring the old fingerprint back, and a removed
document is served. `kb.py:1631` calls the fingerprint "Enough to notice an edit, a
new doc or a deletion between requests". Likewise `reviews.py:697` says a review by
time lists new reference documents, which have no history to be found by.

## Proofs

Every theorem is for all values of the constants: the sets of processes,
documents, sessions, edits and files, and the bounds. What a run shows on its
instance the theorem of the same property shows without the bounds.

| Module | Properties proved | Hypothesis |
|---|---|---|
| `EditingSessions_proofs` | `TypeOK` | - |
| | `AckedKept`, `FailedCloseKeepsRecord` | - |
| | `ReviewsExplained` | `Isolated` |
| | `ArchivedFrozen`, `NewOverwritesNothing`, `SurvivorsCarryHistory` | `Serial` |
| | `ImplementsSessionLog` | `Serial` and `MaxCrashes = 0` |
| `SessionLog_proofs` | `TypeOK`, `EachLineOnce`, `NumbersName`, `FiledExplained` | - |
| `DocGraph_proofs` | `TypeOK` | - |
| | `NoDangling`, `SnapshotEdgesKept`, `LedgerExact` | `Serial` |
| `ReviewLedger_proofs` | `TypeOK`, `FiledOnce`, `HistoryAgrees`, `SinceCovers`, `IntegrationAccounts`, `SignoffsStand` | - |
| `HomeConfig_proofs` | `TypeOK`, `LostOnlyToOverlap`, `RebindNeedsForceOrRace`, `NameMeansOneStore` | - |
| | `DirectoriesStayPut` | `InitHome.store = Unset` |
| `Boxes_proofs` | `FlagsStand`, `TermsStand`, `CaptureKept`, `CopiedOnce`, `StatusAgrees`, and `TypeOK` of the three | - |
| `ServedStore_proofs` | `TypeOK`, `AnswersCurrent` | - |
| `Porcelain_proofs` | `TypeOK`, `StrictOnOutput`, `WritesStayWithNamed`, `CyclesReported`, `MapCountsAll` | - |

**The hypotheses** hold in the runs that check the properties, and each is needed:

* `Isolated`: no session is owned by two processes. A close reads its record for the
  review and again for the gate, and a merge by another process in between takes
  the unexplained lines out of the second.
* `Serial`: there is at most one process. A change writes back the copy it read,
  so one that overlaps a close undoes the history the close wrote, and a link
  written during a removal dangles. Commands may still be killed anywhere and
  another be started on what they left.
* `MaxCrashes = 0`: a close killed between writing its review and deleting the
  record leaves its lines both filed and pending, which the abstract log does not
  allow.
* `InitHome.store = Unset`: the home file has no pointer of its own. With one, the
  first write of any key drops it (`dump_config` writes names, not a pointer),
  and a directory that went where it led goes elsewhere. TLC finds
  `DirectoriesStayPut` violated from such a file.

**Assumptions** are the named `ASSUME`s of the modules, which the runs evaluate:
the types of the constants; that `NoSession` is no session and `Unset` no path, name
or entry; that sets of documents are finite; that directories are finitely many and a
tree (`ParentType`); that the store begins without dangling edges; that the home
file has a pointer or the tables of names under the key `store`, as TOML has it;
and what command lines may say - an edit changes at least one field, a command
that would change none being refused (`EditsAssumption`); `set` has no option for
an edge, `new` names no document but the targets of its edges, `rm` takes one
reference (`MenuAssumption` of `Porcelain`). `Porcelain` begins with a store as
commands leave it (`StoreAssumption`): a store edited by hand may well fail
validation, and no command undertakes to repair it.

**The inductive invariants.** No property is inductive as it stands, and nearly
all need the same addition: what a command holds in memory, said relative to the
files. Where commands may overlap, it is what the copy still agrees with.

* `EditingSessions`: `TypeInv` adds to the types that a command has a document at
  the steps that use one. `LogInv`: what a command has in memory is what is on disk
  (`InMemory`, by the step it is at, and for a merge that the target holds what is
  still to be deleted), an absent record has no lines, and the properties; it is kept
  because a step of one process leaves the records of the others' sessions as they
  are (`OthersInMemory`). Where sessions are shared, `KeptInv` says of each line
  that was acknowledged and not overlapped where it stands: in a record, and then
  every command that is to overwrite or delete that record has it in memory, or in a
  review, and then so has every close that chose the review's id. `CloseAlone` is
  what is left of `InMemory` for a close of a session nobody else works under.
  `DocsInMemory`: the document about to be written is on
  file as it was read, or for a creation not there; snapshots and fresh ids follow.
  `SerialInv` adds that lines and jobs carry numbers of commands already issued,
  that a close has written the history of each document of its review it has passed,
  and that the review it is about to write is of these. The refinement takes each
  command in turn: the one visible step is the write of the record (log, fold) or its
  deletion (file); every other step stutters.
* `DocGraph`: `GraphInv` adds by the step of a command that its copy is true when it
  writes, and that the edges to the target of a removal are among those it found.
  `CommandInv` says what it decided from that copy. `LedgerInv` is conservation: the
  log's count of a document and what the command in progress has still to log
  together number its edges.
* `ReviewLedger`: `ReviewInv` says of the lines of the open session that they are
  still true of their documents, of a review whose text the program wrote that each
  document it touched is in one section of it and no other is (`Minted`, proved for each
  body apart), and of the record a reviewer holds that it differs from the file in
  sign-offs only. `TimesInv`: what was last changed of a document, and its creation,
  are in a line of the open session or in an entry of its history of that time or
  later (`ChangeKept`, `BirthKept`), so a scan of the histories finds them. `GrowthInv`: while nothing is removed, the edges are
  those at the opening, those of the documents created since, and those logged of
  the others; the three numbers of a review partition the last two.
* `HomeConfig`: `HomeInv` says of a command's copy that it agrees with the values
  last written, in every key not written since it was read and not exposed already.
  `RecentInv`: when no write fell in between, the copy is the file with the one
  change, and a binding that was checked is still free. From this a write that
  neither forces nor overlaps changes the file in one key only, and the resolution
  of a directory is followed through that change, along its markers. What a directory
  and a name lead to is the same by the unfolding of `Find` and `Follow`.
* `FlagLedger`, `Lexicon`: what a command will write, beside what it saw.
* `Ingest`: `KeptInv` follows each captured item through inbox, command in memory and
  raw tier; `IngestInv` adds that an item no two promotions met goes one way.
  `TreeInv`: ids are minted densely from now on, so an item split off has a later
  id than its parent, and the raw items are trees. On trees the recursion of
  `RawDone` needs no record of the items above (`DoneAlone`), and goes by
  levels: a done item has only done descendants, and one that is not done has a leaf
  below it that is neither marked nor cited.
* `Porcelain`: `Inv` says of the files, as they are read back, that no facet is out
  of place and no edge leads nowhere (`WellFormed`). A command is a fold over its
  references, and may stop at any of them with the files before it written; so
  `WellFormed` is kept by each step of the fold, with what the command has
  written and logged so far (`Stages`, `StagesKept`). Unless the command is exempt,
  its references find at each step the documents they found at the start (`Same`,
  `SameResolve`): what was written answers to them as before, or was outdone before
  and after by a document that answers better.
  `MapCountsAll` follows from the least sets closed under the edges
  (`AboveIs`, `DescendantsIs`): unless something above it is not shown, a document
  outside the map has only documents with parents above it, and in a finite store
  those run into a cycle (`CycleAbove`); what is counted of a signpost is its
  children and what is counted of these (`CountsAgree`).
  `CyclesReported` has an invariant of its own, over the turns of the search
  (`Good`): its path climbs by distinct parents, none of them done with; every
  parent already followed is done with, next on the path, or told as the end of a
  cycle; and a done document that is on a cycle has been told. Each turn lowers
  a measure (`ToDo`), so the `Steps` the model allows it are enough for it to end
  (`SearchEnds`).
* `ServedStore`: `ServedInv` relates what a request parsed so far, file by file, to
  the fingerprint it took before: where the two agree, and the fingerprint is
  not tied with a write, the files read are those the fingerprint stands for.

**Recursion.** The library's induction principles take an operator as a parameter,
which the provers here do not instantiate. Where a proof needs induction over a
finite set, it takes a smallest subset or a least number for which the claim fails
(`SmallestSubset`, `LeastBad`, `GreatestBad`; each module has those it needs). That a
recursive function (`Find`, `Follow`, `RawDone`, the sets above and below a document, the
turns of the cycle search) satisfies its own equation is proved the same way, from
approximations on ever larger parts of its domain. That directories form a
tree is needed there for `Find`; `Follow` and `RawDone` go over each file once.

**Model-checked only**: nothing the passing runs check; each of their properties is a
theorem.

## Plan

Done: sessions, the graph, reviews and sign-offs, flags, lexicon and capture, the
home configuration, the served store, references, facets and the tree; the
safety properties of all of them as theorems.

To come: what the runs check of one process or one session, restated for several
with the weakest condition on what overlaps (`Serial` is stronger than needed for
`ArchivedFrozen` and `SnapshotEdgesKept`, where only writers of the same document
matter); an abstract specification of what a client of `ServedStore` sees.

## Not modelled

The quoting and layout of frontmatter (text put together character by
character), the prose lint and the warnings of the validator that read sentences,
effective scope, provenance chains, gists and other read-only reports of the KB,
the viewer, reindexing and the one-shot migrations (derived output), the
transport and authentication of the server and the client (pure I/O), packaging.
PROJECT.json lists every component with its status.
