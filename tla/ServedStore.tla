----------------------------- MODULE ServedStore -----------------------------
(***************************************************************************)
(* An endpoint that answers reads of a store while commands write it.  The *)
(* parsed documents are kept between requests and parsed again when the    *)
(* count of the files or the newest of their times differs from what it    *)
(* was.  Files are looked at one by one, and so are they parsed; requests  *)
(* overlap with each other and with the writers.  What the host says of a  *)
(* failure the client turns into an exception of its own.                  *)
(***************************************************************************)
EXTENDS Naturals, FiniteSetsExt

CONSTANTS
  Workers,        \* the requests the endpoint handles at once
  DocIds,         \* numbers, in the order the directory is read
  FirstDocs,      \* the documents there are to begin with
  Several,        \* whether the endpoint serves other stores too
  MaxWrites, MaxClock, MaxRequests

ASSUME ServedConstants ==
  /\ DocIds \subseteq Nat /\ IsFiniteSet(DocIds)
  /\ FirstDocs \subseteq DocIds /\ Several \in BOOLEAN
  /\ MaxWrites \in Nat /\ MaxClock \in Nat \ {0} /\ MaxRequests \in Nat

VARIABLES
  docs,           \* the files: the write that made them so, and its time
  mounted,        \* whether the directory is there
  clock, writes,
  cache,          \* the parsed documents, with the fingerprint they go by
  req,            \* the requests under way, or what the last one was told
  requests

vars == <<docs, mounted, clock, writes, cache, req, requests>>

File == [n : 0..MaxWrites, time : 0..MaxClock, here : BOOLEAN]
Nothing == [n |-> 0, time |-> 0, here |-> FALSE]

Listed(files) == {d \in DocIds : files[d].here}

\* What a glob finds: nothing where the directory has gone.
Glob == IF mounted THEN Listed(docs) ELSE {}

\* docs_fingerprint, of files that stand still.
Fingerprint == [count : Nat, newest : 0..MaxClock]
PrintOf(files) == [count |-> Cardinality(Listed(files)),
                   newest |-> Max({0} \cup {files[d].time : d \in Listed(files)})]

\* An entry of the cache; at is when its fingerprint was begun.
Entry == [print : Fingerprint, kb : [DocIds -> File], at : 0..MaxClock]
NoEntry == [print |-> [count |-> 0, newest |-> 0],
            kb |-> [d \in DocIds |-> Nothing], at |-> 0]

Outcomes == {"answer", "config", "lookup", "value", "os"}
Sayings == {"nothing", "answer", "config", "value", "unreachable"}

\* todo: the files of the listing not yet looked at; start: the writes there
\* had been when the request began.
Request == [step : {"idle", "stat", "parse", "done"}, todo : SUBSET DocIds,
            entry : Entry, start : 0..MaxWrites, outcome : Outcomes, said : Sayings]
NoRequest == [step |-> "idle", todo |-> {}, entry |-> NoEntry, start |-> 0,
              outcome |-> "answer", said |-> "nothing"]

-----------------------------------------------------------------------------
(* The commands that write, and the host the store lies on.                *)

Writes(d, here) ==
  /\ mounted /\ writes < MaxWrites
  /\ writes' = writes + 1
  /\ docs' = [docs EXCEPT ![d] =
       [n |-> writes', time |-> IF here THEN clock ELSE 0, here |-> here]]
  /\ UNCHANGED <<mounted, clock, cache, req, requests>>

WriteDoc(d) == Writes(d, TRUE)
RemoveDoc(d) == docs[d].here /\ Writes(d, FALSE)

Tick ==
  /\ clock < MaxClock
  /\ clock' = clock + 1
  /\ UNCHANGED <<docs, mounted, writes, cache, req, requests>>

Unmount ==
  /\ mounted /\ mounted' = FALSE
  /\ UNCHANGED <<docs, clock, writes, cache, req, requests>>

-----------------------------------------------------------------------------
(* A request.                                                              *)

Goes(w, r) ==
  /\ req' = [req EXCEPT ![w] = r]
  /\ UNCHANGED <<docs, mounted, clock, writes, requests>>

Fails(r, kind) == [r EXCEPT !.step = "done", !.outcome = kind]

\* StoreSet._resolve: a name may be left out when one store is served.
Served(name) == name = "this" \/ (name = "none" /\ ~Several)

\* The call, up to the listing of the directory.
Ask(w, name) ==
  LET r == [NoRequest EXCEPT !.step = "stat", !.todo = Glob, !.start = writes,
                             !.entry.at = clock] IN
  /\ req[w].step = "idle" /\ requests < MaxRequests
  /\ requests' = requests + 1
  /\ req' = [req EXCEPT ![w] =
       IF ~Served(name) THEN Fails(r, "lookup")
       ELSE IF ~mounted THEN Fails(r, "config") ELSE r]
  /\ UNCHANGED <<docs, mounted, clock, writes, cache>>

\* One file more in the fingerprint; one that has gone is an error.
Stat(w) ==
  LET r == req[w]
      d == Min(r.todo) IN
  /\ r.step = "stat" /\ r.todo # {}
  /\ Goes(w, IF ~docs[d].here \/ ~mounted THEN Fails(r, "os")
             ELSE [r EXCEPT !.todo = @ \ {d}, !.entry.print.count = @ + 1,
                            !.entry.print.newest = Max({@, docs[d].time})])
  /\ UNCHANGED cache

\* Mutant: only the number of the files is compared.
SamePrintCount(p, q) == p.count = q.count

SamePrint(p, q) == p = q

\* KBCache.get: the documents parsed before when the fingerprint is theirs.
Compare(w) ==
  LET r == req[w] IN
  /\ r.step = "stat" /\ r.todo = {}
  /\ Goes(w, IF cache # NoEntry /\ SamePrint(cache.print, r.entry.print)
             THEN [r EXCEPT !.step = "done", !.entry = cache]
             ELSE [r EXCEPT !.step = "parse", !.todo = Glob])
  /\ UNCHANGED cache

\* One document more is parsed.
Parse(w) ==
  LET r == req[w]
      d == Min(r.todo) IN
  /\ r.step = "parse" /\ r.todo # {}
  /\ Goes(w, IF ~docs[d].here \/ ~mounted THEN Fails(r, "os")
             ELSE [r EXCEPT !.todo = @ \ {d}, !.entry.kb[d] = docs[d]])
  /\ UNCHANGED cache

Keep(w) ==
  /\ req[w].step = "parse" /\ req[w].todo = {}
  /\ cache' = req[w].entry
  /\ Goes(w, [req[w] EXCEPT !.step = "done"])

\* The read itself may refuse its arguments, or fail to find something.
Refuse(w) ==
  /\ req[w].step = "done" /\ req[w].outcome = "answer"
  /\ \E kind \in {"lookup", "value"} : Goes(w, Fails(req[w], kind))
  /\ UNCHANGED cache

\* _failed: the kind the endpoint gives a failure; other exceptions reach the
\* client as text only.
KindOf(outcome) == IF outcome = "os" THEN "text" ELSE outcome

\* Mutant: a store the host does not serve is not a store problem here.
RaisedAsKind(kind) == IF kind = "text" THEN "value" ELSE kind

\* _tool_failure: the exception the client raises for a kind.
Raised(kind) ==
  IF kind \in {"config", "lookup"} THEN "config" ELSE IF kind = "text" THEN "value" ELSE kind

\* The answer arrives, or the client gives the host up.
Return(w) ==
  /\ req[w].step = "done"
  /\ \E said \in {Raised(KindOf(req[w].outcome)), "unreachable"} :
       req' = [req EXCEPT ![w] = [NoRequest EXCEPT !.said = said]]
  /\ UNCHANGED <<docs, mounted, clock, writes, cache, requests>>

Init ==
  /\ docs = [d \in DocIds |-> [Nothing EXCEPT !.here = d \in FirstDocs]]
  /\ mounted = TRUE /\ clock = 1 /\ writes = 0 /\ requests = 0
  /\ cache = NoEntry /\ req = [w \in Workers |-> NoRequest]

Next ==
  \/ Tick \/ Unmount
  \/ \E d \in DocIds : WriteDoc(d) \/ RemoveDoc(d)
  \/ \E w \in Workers :
       \/ \E name \in {"this", "none", "other"} : Ask(w, name)
       \/ Stat(w) \/ Compare(w) \/ Parse(w) \/ Keep(w) \/ Refuse(w) \/ Return(w)

Spec == Init /\ [][Next]_vars

-----------------------------------------------------------------------------

\* The types of the store, the cache and the requests.
TypeOK ==
  /\ docs \in [DocIds -> File] /\ cache \in Entry
  /\ \A w \in Workers : req[w] \in Request
  /\ writes \in 0..MaxWrites /\ clock \in 1..MaxClock /\ requests \in 0..MaxRequests

\* The fingerprint does not tell a write from one in the tick it was taken in.
Tied(entry) == entry.print.newest >= entry.at

\* The documents changed between the fingerprint and the parsing: once they
\* change back, a fingerprint of before names documents of after.
Torn(entry) == PrintOf(entry.kb) # entry.print

Answering(w) == req[w].step = "done" /\ req[w].outcome = "answer"

\* What a request answers with shows every document that no command touched
\* since the request began as it is on file, present or removed, whether it was
\* parsed for this request or an earlier one; unless the fingerprint is tied
\* with a write or what it stands for was torn (KBCache.get, load_all).
AnswersCurrent ==
  \A w \in Workers : Answering(w) =>
    LET entry == req[w].entry IN
    \/ Tied(entry) \/ Torn(entry)
    \/ \A d \in DocIds : docs[d].n <= req[w].start =>
         /\ entry.kb[d].here <=> docs[d].here
         /\ docs[d].here => entry.kb[d] = docs[d]
=============================================================================
