----------------------------- MODULE ReviewLedger -----------------------------
(***************************************************************************)
(* What a review says.  Commands change documents and log lines; a close   *)
(* writes the history of the documents and mints a review from the log;    *)
(* reviews can also be minted by a scan of the documents: since a time, by *)
(* the tag of a session, from a list, or with the user's own text.         *)
(* Reviewers sign reviews, each of them by reading the whole record and    *)
(* writing it back.                                                        *)
(*                                                                         *)
(* The number of a command stands for the time it ran at.  How a log may   *)
(* be raced over or a close killed is the subject of EditingSessions; link *)
(* --replace, which drops edges and adds one in one line, that of DocGraph.*)
(***************************************************************************)
EXTENDS ChangeLog, Sequences, FiniteSetsExt

CONSTANTS
  Signers,            \* the reviewers
  MaxEdits,           \* bound: commands that change documents
  MaxReviews, MaxSignings

ASSUME DocIdsFinite == IsFiniteSet(DocIds)
ASSUME ReviewBounds == MaxEdits \in Nat /\ MaxReviews \in Nat /\ MaxSignings \in Nat

VARIABLES
  docs,
  wal,            \* the lines of the open session
  session,        \* its number
  reviews,        \* the review records, in the order of their ids
  signing,        \* per reviewer: the record read and not yet written back
  now,            \* commands that changed documents so far: the time
  signed,         \* how many signings began
  opening,        \* history: how many edges there were when the session began
  changed,        \* history: when a command last changed each document and logged it
  born            \* history: when each document was created

vars == <<docs, wal, session, reviews, signing, now, signed, opening, changed, born>>

Statuses == {"living", "deprecated", "reference"}
Sections == {"addition", "revision", "restructure", "organizational", "deletion", "reference"}

\* One history entry per session and document: the dominant type, and the
\* time the session last touched it.
Entry == [sess : Nat, type : ChangeTypes, at : Nat]
Doc == [status : Statuses, links : SUBSET DocIds, history : SUBSET Entry]

NoDoc == [status |-> "none", links |-> {}, history |-> {}]
GoneDoc == [NoDoc EXCEPT !.status = "gone"]

WalLine == [n : Nat, op : Ops, ref : DocIds, types : SUBSET ChangeTypes,
            author : BOOLEAN, added : Nat, removed : Nat]

Docs == {d \in DocIds : docs[d].status \in Statuses}
Archived(d) == docs[d].status = "reference"
Edges == MapThenSumSet(LAMBDA d : Cardinality(docs[d].links), DocIds)

NoIntegration == [newToNew |-> 0, newToExisting |-> 0, toExisting |-> 0]
Integrations == [newToNew : Nat, newToExisting : Nat, toExisting : Nat]

Review == [route : {"wal", "since", "session", "touched", "summary"}, of : Nat,
           filed : [Sections -> SUBSET DocIds], touched : SUBSET DocIds,
           integration : Integrations, at : Nat,
           signoffs : SUBSET (Signers \X Nat)]

-----------------------------------------------------------------------------
(* The commands that change documents, each with its line in the log.      *)

Edit(d, op, type, added, removed) ==
  /\ now < MaxEdits
  /\ now' = now + 1
  /\ wal' = wal \cup {[n |-> now', op |-> op, ref |-> d, types |-> {type},
                       author |-> TRUE, added |-> added, removed |-> removed]}
  /\ changed' = [changed EXCEPT ![d] = now']
  /\ born' = IF op = "new" THEN [born EXCEPT ![d] = now'] ELSE born
  /\ UNCHANGED <<session, reviews, signing, signed, opening>>

\* ldoc new, with links to documents there are.
Create(d, status, links) ==
  /\ docs[d] = NoDoc /\ links \subseteq Docs
  /\ docs' = [docs EXCEPT ![d] = [status |-> status, links |-> links, history |-> {}]]
  /\ Edit(d, "new", "addition", 0, 0)

\* ldoc edit, and set of a soft field.
Revise(d, type) ==
  /\ d \in Docs /\ ~Archived(d)
  /\ UNCHANGED docs
  /\ Edit(d, "change", type, 0, 0)

SetStatus(d, status) ==
  /\ d \in Docs /\ ~Archived(d) /\ status # docs[d].status
  /\ docs' = [docs EXCEPT ![d].status = status]
  /\ Edit(d, "change", "restructure", 0, 0)

\* The command that makes a document a snapshot writes it, and then the log
\* takes no line of it.
Archive(d) ==
  /\ d \in Docs /\ ~Archived(d) /\ now < MaxEdits
  /\ docs' = [docs EXCEPT ![d].status = "reference"]
  /\ now' = now + 1
  /\ UNCHANGED <<wal, session, reviews, signing, signed, opening, changed, born>>

\* ldoc link: the line carries how many edges it added.
Link(d, t) ==
  /\ d \in Docs /\ ~Archived(d) /\ t \in Docs \ ({d} \cup docs[d].links)
  /\ docs' = [docs EXCEPT ![d].links = @ \cup {t}]
  /\ Edit(d, "change", "restructure", 1, 0)

\* ldoc unlink.
Unlink(d, t) ==
  /\ d \in Docs /\ ~Archived(d) /\ t \in docs[d].links
  /\ docs' = [docs EXCEPT ![d].links = @ \ {t}]
  /\ Edit(d, "change", "restructure", 0, 1)

\* Mutant: nothing is stripped.
RmUnstripped(d) ==
  /\ d \in Docs
  /\ docs' = [docs EXCEPT ![d] = GoneDoc]
  /\ Edit(d, "rm", "deletion", 0, 0)

\* ldoc rm --force strips the edges to the document first.
Rm(d) ==
  /\ d \in Docs
  /\ docs' = [e \in DocIds |->
       IF e = d THEN GoneDoc ELSE [docs[e] EXCEPT !.links = @ \ {d}]]
  /\ Edit(d, "rm", "deletion", 0, 0)

-----------------------------------------------------------------------------
(* What a review is made of.                                               *)

\* Mutant: the first line decides.
SectionByFirst(log, d) ==
  LET l == CHOOSE l \in LinesOf(log, d) : \A m \in LinesOf(log, d) : l.n <= m.n
  IN Dominant(l.types)

\* _build_body_from_wal: a document is filed once, under its dominant type.
Section(log, d) ==
  LET type == Dominant(TypesOf(log, d)) IN
  IF type = "addition" /\ Archived(d) THEN "reference" ELSE type

Unfiled == [s \in Sections |-> {}]

FiledFromWal(log) ==
  [s \in Sections |-> {d \in Refs(log) : Section(log, d) = s}]

\* Mutant: edges between new documents are counted from both ends.
StatsTwice(new, log) ==
  [newToNew |-> MapThenSumSet(LAMBDA d :
       Cardinality({t \in docs[d].links : t \in new /\ ~Archived(t)}), new),
   newToExisting |-> MapThenSumSet(LAMBDA d :
       Cardinality({t \in docs[d].links \ new : docs[t].status = "living"}), new),
   toExisting |-> MapThenSumSet(LAMBDA l : l.added, {l \in log : ~Archived(l.ref)})]

\* compute_integration_stats: the forward edges of new documents, and the
\* edges the log says were added to the others.
Stats(new, log) ==
  LET from == {d \in new : ~Archived(d)} IN
  [newToNew |-> MapThenSumSet(LAMBDA d :
       Cardinality({t \in docs[d].links : t \in new /\ ~Archived(t)}), from),
   newToExisting |-> MapThenSumSet(LAMBDA d :
       Cardinality({t \in docs[d].links \ new : docs[t].status = "living"}), from),
   toExisting |-> MapThenSumSet(LAMBDA l : l.added,
       {l \in log : l.ref \notin new /\ ~Archived(l.ref)})]

NewInWal(log) ==
  {d \in Refs(log) \cap Docs : Dominant(TypesOf(log, d)) = "addition" /\ ~Archived(d)}

\* The entry a document's history begins with, when it is its creation, says
\* when that was; 0 when it is not known.
CreatedAt(d) ==
  LET first == {h \in docs[d].history : \A g \in docs[d].history : h.sess <= g.sess}
  IN IF \E h \in first : h.type = "addition" THEN (CHOOSE h \in first : TRUE).at ELSE 0

\* Mutant: documents that were only revised are left out.
TouchedSinceCreation(t) == {d \in Docs : CreatedAt(d) >= t}

\* _collect_touched_since.
TouchedSince(t) ==
  {d \in Docs : CreatedAt(d) >= t \/ \E h \in docs[d].history : h.at >= t}

\* Mutant: what was created in the time is not passed over.
BodySinceBoth(t) ==
  [Unfiled EXCEPT
     !["addition"] = {d \in Docs : CreatedAt(d) >= t /\ ~Archived(d)},
     !["reference"] = {d \in Docs : CreatedAt(d) >= t /\ Archived(d)},
     !["revision"] = {d \in Docs : \E h \in docs[d].history : h.at >= t}]

\* _build_body_since: a scan of its own.
BodySince(t) ==
  [Unfiled EXCEPT
     !["addition"] = {d \in Docs : CreatedAt(d) >= t /\ ~Archived(d)},
     !["reference"] = {d \in Docs : CreatedAt(d) >= t /\ Archived(d)},
     !["revision"] = {d \in Docs : CreatedAt(d) < t /\ \E h \in docs[d].history : h.at >= t}]

\* The documents with an entry of the session; the creation time a document
\* is asked for is in a field that is no longer written, so all are revised.
TouchedBy(s) == {d \in Docs : \E h \in docs[d].history : h.sess = s}

BodyBySession(s) ==
  [Unfiled EXCEPT !["revision"] = {d \in Docs : \E h \in docs[d].history : h.sess = s}]

\* _build_body_from_touched: all are listed as additions.
BodyFromTouched(ds) ==
  [Unfiled EXCEPT !["addition"] = {d \in ds : ~Archived(d)},
                  !["reference"] = {d \in ds : Archived(d)}]

\* _integration_from_additions, for reviews that have no log: it reads the
\* additions back from the text, where a list in the summary of one of them
\* looks the same.
StatsOf(filed, listed) ==
  Stats({d \in filed["addition"] \cup listed : ~Archived(d)}, {})

\* What the summaries of the additions may list.
Listings(filed) == IF filed["addition"] = {} THEN {{}} ELSE SUBSET Docs

Mint(route, of, touched, filed, integration) ==
  /\ Len(reviews) < MaxReviews
  /\ reviews' = Append(reviews,
       [route |-> route, of |-> of, filed |-> filed, touched |-> touched,
        integration |-> integration, at |-> now, signoffs |-> {}])

\* materialize_history: what a close adds to the history of a document.
HistoryFrom(log, d) ==
  IF d \in ToMaterialize(log) /\ d \in Docs /\ ~Archived(d)
  THEN {[sess |-> session, type |-> Dominant(TypesOf(log, d)),
         at |-> Max({l.n : l \in LinesOf(log, d)})]}
  ELSE {}

\* ldoc session close.
Close ==
  /\ wal # {}
  /\ Mint("wal", session, Refs(wal), FiledFromWal(wal), Stats(NewInWal(wal), wal))
  /\ docs' = [d \in DocIds |->
       [docs[d] EXCEPT !.history = @ \cup HistoryFrom(wal, d)]]
  /\ wal' = {} /\ session' = session + 1 /\ opening' = Edges
  /\ UNCHANGED <<signing, now, signed, changed, born>>

\* ldoc review new --since.
NewSince(t) ==
  /\ \E listed \in Listings(BodySince(t)) :
       Mint("since", t, TouchedSince(t), BodySince(t), StatsOf(BodySince(t), listed))
  /\ UNCHANGED <<docs, wal, session, signing, now, signed, opening, changed, born>>

\* ldoc review new --session, and the close of a session without a record.
NewBySession(s) ==
  /\ Mint("session", s, TouchedBy(s), BodyBySession(s), NoIntegration)
  /\ UNCHANGED <<docs, wal, session, signing, now, signed, opening, changed, born>>

\* ldoc review new --touched.
NewTouched(ds) ==
  LET body == BodyFromTouched(ds \cap Docs) IN
  /\ \E listed \in Listings(body) :
       Mint("touched", 0, ds \cap Docs, body, StatsOf(body, listed))
  /\ UNCHANGED <<docs, wal, session, signing, now, signed, opening, changed, born>>

\* ldoc review new --summary, alone or with --touched: the text is the user's,
\* and nothing is counted.
NewSummary(ds) ==
  /\ Mint("summary", 0, ds \cap Docs, Unfiled, NoIntegration)
  /\ UNCHANGED <<docs, wal, session, signing, now, signed, opening, changed, born>>

-----------------------------------------------------------------------------

Unsigned == [r |-> 0, rec |-> <<>>]

SignRead(p, r) ==
  /\ signing[p] = Unsigned /\ signed < MaxSignings
  /\ signed' = signed + 1
  /\ signing' = [signing EXCEPT ![p] = [r |-> r, rec |-> <<reviews[r]>>]]
  /\ UNCHANGED <<docs, wal, session, reviews, now, opening, changed, born>>

\* Mutant: the latest sign-off is the only one.
SignWriteAnew(p) ==
  /\ signing[p] # Unsigned
  /\ reviews' = [reviews EXCEPT ![signing[p].r] =
       [signing[p].rec[1] EXCEPT !.signoffs = {<<p, signed>>}]]
  /\ signing' = [signing EXCEPT ![p] = Unsigned]
  /\ UNCHANGED <<docs, wal, session, now, signed, opening, changed, born>>

SignWrite(p) ==
  /\ signing[p] # Unsigned
  /\ reviews' = [reviews EXCEPT ![signing[p].r] =
       [signing[p].rec[1] EXCEPT !.signoffs = @ \cup {<<p, signed>>}]]
  /\ signing' = [signing EXCEPT ![p] = Unsigned]
  /\ UNCHANGED <<docs, wal, session, now, signed, opening, changed, born>>

Init ==
  /\ docs = [d \in DocIds |-> NoDoc] /\ wal = {} /\ session = 1
  /\ reviews = <<>> /\ signing = [p \in Signers |-> Unsigned]
  /\ now = 0 /\ signed = 0 /\ opening = 0
  /\ changed = [d \in DocIds |-> 0] /\ born = [d \in DocIds |-> 0]

Next ==
  \/ \E d \in DocIds :
       \/ \E s \in {"living", "reference"}, links \in SUBSET DocIds : Create(d, s, links)
       \/ \E t \in {"revision", "organizational"} : Revise(d, t)
       \/ \E s \in {"living", "deprecated"} : SetStatus(d, s)
       \/ Archive(d)
       \/ \E t \in DocIds : Link(d, t) \/ Unlink(d, t)
       \/ Rm(d)
  \/ Close
  \/ \E t \in 1..now : NewSince(t)
  \/ \E s \in 1..session : NewBySession(s)
  \/ \E ds \in SUBSET DocIds \ {{}} : NewTouched(ds)
  \/ \E ds \in SUBSET DocIds : NewSummary(ds)
  \/ \E p \in Signers : SignWrite(p) \/ \E r \in DOMAIN reviews : SignRead(p, r)

Spec == Init /\ [][Next]_vars

-----------------------------------------------------------------------------

\* The types of documents, log and reviews; links lead to documents there are.
TypeOK ==
  /\ docs \in [DocIds -> Doc \cup {NoDoc, GoneDoc}]
  /\ \A d \in Docs : docs[d].links \subseteq Docs
  /\ \A l \in wal : l \in WalLine
  /\ \A r \in DOMAIN reviews : reviews[r] \in Review
  /\ \A p \in Signers : signing[p] = Unsigned \/ signing[p].r \in DOMAIN reviews

Holding(r, d) == {s \in Sections : d \in reviews[r].filed[s]}

\* A review lists every document it touched in exactly one section, and no
\* others (ReviewLedger.new: the body and the touched list come from scans of
\* their own).  The text of a user may list what it likes.
FiledOnce ==
  \A r \in DOMAIN reviews, d \in DocIds : reviews[r].route # "summary" =>
    Cardinality(Holding(r, d)) = IF d \in reviews[r].touched THEN 1 ELSE 0

\* What a session's review says of a document is what the document's history
\* says of the session, as long as it is there: the two are written from one
\* log and never diverge (_build_body_from_wal, materialize_history).  Only
\* snapshots have no entry.
HistoryAgrees ==
  \A r \in DOMAIN reviews : reviews[r].route = "wal" =>
    \A d \in Docs :
      LET entries == {h \in docs[d].history : h.sess = reviews[r].of} IN
      /\ {h.type : h \in entries} \subseteq Holding(r, d)
      /\ entries = {} /\ d \in reviews[r].touched => Archived(d)

\* A review by time covers the time: a document that a command changed at that
\* time or later, and that no line of the open session waits for, is touched by
\* it, and one created then is among its additions, however many sessions and
\* closes lie between (_collect_touched_since, _build_body_since, which see no
\* times but those of histories).  Snapshots have no history, and what rm takes
\* the edges of has no line: the two a review by time may miss for good.
SinceCovers ==
  [][ \A r \in DOMAIN reviews' \ DOMAIN reviews : reviews'[r].route = "since" =>
        \A d \in Docs : ~Archived(d) /\ LinesOf(wal, d) = {} =>
          /\ changed[d] >= reviews'[r].of => d \in reviews'[r].touched
          /\ born[d] >= reviews'[r].of => d \in reviews'[r].filed["addition"] ]_vars

\* A log of no removals, of documents or of edges.
AddsOnly(log) == \A l \in log : l.op # "rm" /\ l.removed = 0

\* The three integration numbers of a session's review account for every edge
\* the store gained during the session, each once, when the session removed
\* nothing and all documents live (compute_integration_stats).
IntegrationAccounts ==
  [][ session' # session
      /\ (\A d \in Docs : docs[d].status = "living") /\ AddsOnly(wal)
      => LET i == reviews'[Len(reviews')].integration IN
         i.newToNew + i.newToExisting + i.toExisting = Edges - opening ]_vars

\* Signing changes nothing of a review but its sign-offs, and takes none away
\* unless another reviewer had signed since the record was read (sign).
SignoffsStand ==
  [][ \A r \in DOMAIN reviews :
        /\ reviews'[r] = [reviews[r] EXCEPT !.signoffs = reviews'[r].signoffs]
        /\ \/ reviews[r].signoffs \subseteq reviews'[r].signoffs
           \/ \E p \in Signers : /\ signing'[p] # signing[p]
                                 /\ signing[p].rec # <<reviews[r]>> ]_vars
=============================================================================
