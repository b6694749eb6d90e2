-------------------------- MODULE ServedStore_proofs --------------------------
(***************************************************************************)
(* Proofs about the endpoint that answers reads while commands write: its  *)
(* types, and that an answer is current, for any number of workers,        *)
(* documents and writes.                                                   *)
(***************************************************************************)
EXTENDS ServedStore, Integers, FiniteSetTheorems, TLAPS

-----------------------------------------------------------------------------
(* The inductive invariant *)

\* Every document on file is among the parsed ones as it is, or still to be
\* parsed, or was written since the fingerprint was begun; unless the directory
\* had gone when it was listed.
Parsed(entry, rest, files, time) ==
  /\ entry.at <= time
  /\ \/ Listed(entry.kb) = {} /\ rest = {}
     \/ \A d \in DocIds : files[d].here =>
          entry.kb[d] = files[d] \/ d \in rest \/ files[d].time >= entry.at

\* What was parsed after a request had begun is still there, unless removed
\* in the meantime.
Behind(entry, start, files) ==
  \A d \in DocIds : entry.kb[d].here /\ files[d].n <= start => files[d].here

\* L and seen: the files a request listed first, and their times then.
\* When a document of an entry was removed before the request began, every file
\* there was then is in the entry, or was written since the entry was begun.
Overtaken(entry, rest, L, seen, start, files) ==
  (\E d \in DocIds : entry.kb[d].here /\ ~files[d].here /\ files[d].n <= start) =>
    \A d \in L : entry.kb[d].here \/ d \in rest \/ seen[d] >= entry.at

\* The files the request has listed and not yet looked at.
Unseen(r) == IF r.step = "stat" THEN r.todo ELSE {}

Looked(r, L, seen, files) ==
  /\ Unseen(r) \subseteq L
  /\ r.entry.print.count = Cardinality(L \ Unseen(r))
  /\ \A d \in L \ Unseen(r) : r.entry.print.newest >= seen[d]
  /\ \A d \in Unseen(r) : files[d].here => files[d].time >= seen[d]
  /\ \A d \in DocIds : files[d].n <= r.start =>
       /\ d \in L <=> files[d].here
       /\ d \in L => files[d].time = seen[d]

AllOvertaken(L, seen, start) ==
  /\ Overtaken(cache, {}, L, seen, start, docs)
  /\ \A v \in Workers : req[v].step = "parse" =>
       Overtaken(req[v].entry, req[v].todo, L, seen, start, docs)

\* What a request under way knows.
Asked(w) ==
  /\ req[w].start <= writes /\ req[w].entry.at <= clock
  /\ req[w].step = "stat" => Listed(req[w].entry.kb) = {}
  /\ req[w].step \in {"stat", "parse"} =>
       \E L \in SUBSET DocIds, seen \in [DocIds -> 0..clock] :
         Looked(req[w], L, seen, docs) /\ AllOvertaken(L, seen, req[w].start)
  /\ req[w].step = "parse" =>
       /\ Parsed(req[w].entry, req[w].todo, docs, clock)
       /\ Behind(req[w].entry, req[w].start, docs)

Types == TypeOK /\ req \in [Workers -> Request]

ServedInv ==
  /\ Types /\ AnswersCurrent
  /\ \A d \in DocIds : docs[d].n <= writes /\ docs[d].time <= clock
  /\ Parsed(cache, {}, docs, clock)
  /\ \A w \in Workers : Asked(w)

-----------------------------------------------------------------------------
(* Numbers and records *)

\* The least number for which something fails.
LEMMA LeastBad ==
  ASSUME NEW Bad \in SUBSET Nat, Bad # {}
  PROVE  \E n \in Bad : \A k \in Bad : n <= k
<1>1. \E n \in Bad : \A k \in Bad : ~(<<k, n>> \in OpToRel(<, Nat))
  BY NatLessThanWellFounded, WFMin
<1>2. PICK n \in Bad : \A k \in Bad : ~(<<k, n>> \in OpToRel(<, Nat))
  BY <1>1
<1>3. \A k \in Bad : ~(k < n)
  BY <1>2 DEF OpToRel
<1> QED BY <1>3

\* The smallest member of a set of numbers.
LEMMA MinIn ==
  ASSUME NEW S \in SUBSET Nat, S # {}
  PROVE  Min(S) \in S /\ \A n \in S : Min(S) <= n
<1>1. \E m \in S : \A n \in S : m <= n
  BY LeastBad
<1> QED BY <1>1 DEF Min

LEMMA LeastIn ==
  ASSUME NEW S \in SUBSET DocIds, S # {}
  PROVE  Min(S) \in S
<1>1. S \in SUBSET Nat
  BY ServedConstants
<1> QED BY ONLY <1>1, S # {}, MinIn

LEMMA LargerOf ==
  ASSUME NEW i \in Nat, NEW j \in Nat
  PROVE  /\ Max({i, j}) \in {i, j} /\ Max({i, j}) >= i /\ Max({i, j}) >= j
<1>1. \E n \in {i, j} : \A m \in {i, j} : n >= m
  OBVIOUS
<1>2. Max({i, j}) \in {i, j} /\ \A m \in {i, j} : Max({i, j}) >= m
  BY <1>1 DEF Max
<1> QED BY <1>2

LEMMA FailsFacts ==
  ASSUME NEW r \in Request, NEW kind \in Outcomes
  PROVE  /\ Fails(r, kind) \in Request /\ Fails(r, kind).step = "done"
         /\ Fails(r, kind).outcome = kind /\ Fails(r, kind).start = r.start
         /\ Fails(r, kind).entry = r.entry /\ Fails(r, kind).said = r.said
BY DEF Fails, Request

NoPrint == [count |-> 0, newest |-> 0]
NoKb == [d \in DocIds |-> Nothing]

LEMMA NoneTyped ==
  /\ Nothing \in File /\ Nothing.here = FALSE /\ NoEntry \in Entry /\ NoRequest \in Request
  /\ NoEntry.kb = NoKb /\ NoEntry.at = 0 /\ NoEntry.print = NoPrint
  /\ NoRequest.step = "idle" /\ NoRequest.said = "nothing"
<1>1. Nothing \in File /\ Nothing.here = FALSE
  BY ServedConstants DEF Nothing, File
<1>2. NoPrint \in Fingerprint
  BY ServedConstants DEF NoPrint, Fingerprint
<1>3. NoKb \in [DocIds -> File]
  BY <1>1 DEF NoKb
<1>4. NoEntry = [print |-> NoPrint, kb |-> NoKb, at |-> 0]
  BY DEF NoEntry, NoPrint, NoKb
<1>5. NoEntry \in Entry /\ NoEntry.kb = NoKb /\ NoEntry.at = 0 /\ NoEntry.print = NoPrint
  BY <1>2, <1>3, <1>4, ServedConstants DEF Entry
<1>6. NoRequest \in Request /\ NoRequest.step = "idle" /\ NoRequest.said = "nothing"
  BY <1>5, ServedConstants DEF NoRequest, Request, Outcomes, Sayings
<1> QED BY <1>1, <1>5, <1>6

\* The call as it is taken on.
AskFor ==
  [NoRequest EXCEPT !.step = "stat", !.todo = Glob, !.start = writes, !.entry.at = clock]

LEMMA AskFacts ==
  ASSUME TypeOK
  PROVE  /\ AskFor \in Request /\ AskFor.step = "stat" /\ AskFor.todo = Glob
         /\ AskFor.start = writes /\ AskFor.entry.at = clock /\ AskFor.entry.kb = NoKb
         /\ AskFor.entry.print.count = 0 /\ AskFor.outcome = "answer"
<1> DEFINE e == [NoEntry EXCEPT !.at = clock]
<1>1. e \in Entry /\ e.at = clock /\ e.kb = NoKb /\ e.print = NoPrint
  BY NoneTyped, ServedConstants DEF TypeOK, Entry
<1>2. NoRequest.entry = NoEntry /\ NoRequest \in Request /\ NoRequest.outcome = "answer"
      /\ NoRequest.said = "nothing"
  BY NoneTyped DEF NoRequest
<1>3. AskFor = [NoRequest EXCEPT !.step = "stat", !.todo = Glob, !.start = writes, !.entry = e]
  BY <1>2 DEF AskFor, Request
<1>4. Glob \in SUBSET DocIds /\ NoPrint.count = 0
  BY DEF Glob, Listed, NoPrint
<1> HIDE DEF e
<1>5. writes \in 0..MaxWrites
  BY DEF TypeOK
<1> QED BY <1>1, <1>2, <1>3, <1>4, <1>5 DEF Request

\* One file looked at.
LookAt(r, d) ==
  [r EXCEPT !.todo = @ \ {d}, !.entry.print.count = @ + 1,
            !.entry.print.newest = Max({@, docs[d].time})]

LEMMA LookFacts ==
  ASSUME TypeOK, NEW r \in Request, NEW d \in DocIds
  PROVE  LET s == LookAt(r, d) IN
         /\ s \in Request /\ s.step = r.step /\ s.todo = r.todo \ {d} /\ s.start = r.start
         /\ s.outcome = r.outcome /\ s.entry.at = r.entry.at /\ s.entry.kb = r.entry.kb
         /\ s.entry.print.count = r.entry.print.count + 1
         /\ s.entry.print.newest >= r.entry.print.newest
         /\ s.entry.print.newest >= docs[d].time
<1> DEFINE p == r.entry.print
           n == Max({p.newest, docs[d].time})
           q == [p EXCEPT !.count = @ + 1, !.newest = n]
           e == [r.entry EXCEPT !.print = q]
           s == LookAt(r, d)
<1>1. r.entry \in Entry /\ p \in Fingerprint /\ p.count \in Nat /\ p.newest \in 0..MaxClock
  BY DEF Request, Entry, Fingerprint
<1>2. docs[d].time \in 0..MaxClock
  BY DEF TypeOK, File
<1>3. n \in 0..MaxClock /\ n >= p.newest /\ n >= docs[d].time
  BY <1>1, <1>2, ServedConstants, LargerOf
<1> HIDE DEF n
<1>4. q \in Fingerprint /\ q.count = p.count + 1 /\ q.newest = n
  <2> HIDE DEF p
  <2>1. p.count + 1 \in Nat
    BY <1>1
  <2> QED BY <1>1, <1>3, <2>1 DEF Fingerprint
<1>6. s = [r EXCEPT !.todo = r.todo \ {d}, !.entry = e]
  BY <1>1 DEF LookAt, Request, Entry, Fingerprint, n
<1> HIDE DEF q, p, s
<1>7. e \in Entry /\ e.print = q /\ e.at = r.entry.at /\ e.kb = r.entry.kb
  BY <1>1, <1>4 DEF Entry
<1> HIDE DEF e
<1>8. /\ s \in Request /\ s.step = r.step /\ s.todo = r.todo \ {d} /\ s.start = r.start
      /\ s.outcome = r.outcome /\ s.entry = e
  BY <1>6, <1>7 DEF Request
<1> QED BY <1>3, <1>4, <1>7, <1>8 DEF p, s

\* One document parsed.
ParseOne(r, d) == [r EXCEPT !.todo = @ \ {d}, !.entry.kb[d] = docs[d]]

LEMMA ParseFacts ==
  ASSUME TypeOK, NEW r \in Request, NEW d \in DocIds
  PROVE  LET s == ParseOne(r, d) IN
         /\ s \in Request /\ s.step = r.step /\ s.todo = r.todo \ {d} /\ s.start = r.start
         /\ s.outcome = r.outcome /\ s.entry.at = r.entry.at /\ s.entry.print = r.entry.print
         /\ s.entry.kb = [r.entry.kb EXCEPT ![d] = docs[d]]
<1> DEFINE k == [r.entry.kb EXCEPT ![d] = docs[d]]
           e == [r.entry EXCEPT !.kb = k]
           s == ParseOne(r, d)
<1>1. r.entry \in Entry /\ r.entry.kb \in [DocIds -> File]
  BY DEF Request, Entry
<1>2. k \in [DocIds -> File]
  BY <1>1 DEF TypeOK
<1>3. s = [r EXCEPT !.todo = r.todo \ {d}, !.entry = e]
  BY <1>1 DEF ParseOne, Request, Entry
<1> HIDE DEF k, s
<1>4. e \in Entry /\ e.kb = k /\ e.at = r.entry.at /\ e.print = r.entry.print
  BY <1>1, <1>2 DEF Entry
<1> HIDE DEF e
<1>5. /\ s \in Request /\ s.step = r.step /\ s.todo = r.todo \ {d} /\ s.start = r.start
      /\ s.outcome = r.outcome /\ s.entry = e
  BY <1>3, <1>4 DEF Request
<1> QED BY <1>4, <1>5 DEF k, s

-----------------------------------------------------------------------------
(* What each step does to the requests *)

Moves(w, s) ==
  /\ s \in Request /\ req' = [req EXCEPT ![w] = s]
  /\ req' \in [Workers -> Request] /\ req'[w] = s
  /\ \A v \in Workers : v # w => req'[v] = req[v]

LEMMA MovesWhen ==
  ASSUME Types, NEW w \in Workers, NEW s \in Request, req' = [req EXCEPT ![w] = s]
  PROVE  Moves(w, s)
BY DEF Moves, Types

LEMMA AskMoves ==
  ASSUME Types, NEW w \in Workers, NEW name, Ask(w, name)
  PROVE  /\ req[w].step = "idle" /\ requests < MaxRequests /\ requests' = requests + 1
         /\ UNCHANGED <<docs, mounted, clock, writes, cache>>
         /\ \/ mounted /\ Moves(w, AskFor)
            \/ \E kind \in {"lookup", "config"} : Moves(w, Fails(AskFor, kind))
<1>1. /\ req[w].step = "idle" /\ requests < MaxRequests /\ requests' = requests + 1
      /\ UNCHANGED <<docs, mounted, clock, writes, cache>>
      /\ req' = [req EXCEPT ![w] = IF ~Served(name) THEN Fails(AskFor, "lookup")
                                   ELSE IF ~mounted THEN Fails(AskFor, "config") ELSE AskFor]
  BY DEF Ask, AskFor
<1>2. \/ mounted /\ req' = [req EXCEPT ![w] = AskFor]
      \/ req' = [req EXCEPT ![w] = Fails(AskFor, "lookup")]
      \/ req' = [req EXCEPT ![w] = Fails(AskFor, "config")]
  BY <1>1
<1>3. AskFor \in Request /\ "lookup" \in Outcomes /\ "config" \in Outcomes
  BY AskFacts DEF Types, Outcomes
<1>4. Fails(AskFor, "lookup") \in Request /\ Fails(AskFor, "config") \in Request
  BY <1>3, FailsFacts
<1> QED BY <1>1, <1>2, <1>3, <1>4, MovesWhen

LEMMA StatMoves ==
  ASSUME Types, NEW w \in Workers, Stat(w)
  PROVE  /\ req[w].step = "stat" /\ UNCHANGED <<docs, mounted, clock, writes, requests, cache>>
         /\ \/ \E d \in req[w].todo : docs[d].here /\ Moves(w, LookAt(req[w], d))
            \/ Moves(w, Fails(req[w], "os"))
<1> DEFINE d == Min(req[w].todo)
<1>1. d \in req[w].todo /\ d \in DocIds /\ req[w] \in Request
  BY LeastIn DEF Stat, Types, Request
<1>2. /\ req[w].step = "stat" /\ UNCHANGED <<docs, mounted, clock, writes, requests, cache>>
      /\ req' = [req EXCEPT ![w] = IF ~docs[d].here \/ ~mounted THEN Fails(req[w], "os")
                                   ELSE LookAt(req[w], d)]
  BY DEF Stat, Goes, LookAt
<1> HIDE DEF d
<1>3. \/ docs[d].here /\ req' = [req EXCEPT ![w] = LookAt(req[w], d)]
      \/ req' = [req EXCEPT ![w] = Fails(req[w], "os")]
  BY <1>2
<1>4. LookAt(req[w], d) \in Request /\ Fails(req[w], "os") \in Request
  BY <1>1, LookFacts, FailsFacts DEF Types, Outcomes
<1> QED BY <1>1, <1>2, <1>3, <1>4, MovesWhen

Hit(r) == [r EXCEPT !.step = "done", !.entry = cache]
Listing(r) == [r EXCEPT !.step = "parse", !.todo = Glob]

LEMMA CompareMoves ==
  ASSUME Types, NEW w \in Workers, Compare(w)
  PROVE  /\ req[w].step = "stat" /\ req[w].todo = {}
         /\ UNCHANGED <<docs, mounted, clock, writes, requests, cache>>
         /\ \/ /\ cache.print = req[w].entry.print /\ Moves(w, Hit(req[w]))
               /\ Hit(req[w]).step = "done" /\ Hit(req[w]).entry = cache
               /\ Hit(req[w]).start = req[w].start
            \/ /\ Moves(w, Listing(req[w]))
               /\ Listing(req[w]).step = "parse" /\ Listing(req[w]).entry = req[w].entry
               /\ Listing(req[w]).start = req[w].start /\ Listing(req[w]).todo = Glob
<1> DEFINE r == req[w]
<1>1. r \in Request /\ cache \in Entry /\ Glob \in SUBSET DocIds
  BY DEF Types, TypeOK, Glob, Listed
<1>2. /\ r.step = "stat" /\ r.todo = {}
      /\ UNCHANGED <<docs, mounted, clock, writes, requests, cache>>
      /\ req' = [req EXCEPT ![w] = IF cache # NoEntry /\ SamePrint(cache.print, r.entry.print)
                                   THEN Hit(r) ELSE Listing(r)]
  BY DEF Compare, Goes, Hit, Listing
<1> HIDE DEF r
<1>3. \/ cache.print = r.entry.print /\ req' = [req EXCEPT ![w] = Hit(r)]
      \/ req' = [req EXCEPT ![w] = Listing(r)]
  BY <1>2 DEF SamePrint
<1>4. Hit(r) \in Request /\ Hit(r).step = "done" /\ Hit(r).entry = cache /\ Hit(r).start = r.start
  BY <1>1 DEF Hit, Request
<1>5. /\ Listing(r) \in Request /\ Listing(r).step = "parse" /\ Listing(r).entry = r.entry
      /\ Listing(r).start = r.start /\ Listing(r).todo = Glob
  BY <1>1 DEF Listing, Request
<1>6. Moves(w, Hit(r)) \/ ~(req' = [req EXCEPT ![w] = Hit(r)])
  BY <1>4, MovesWhen
<1>7. Moves(w, Listing(r)) \/ ~(req' = [req EXCEPT ![w] = Listing(r)])
  BY <1>5, MovesWhen
<1> QED BY <1>2, <1>3, <1>4, <1>5, <1>6, <1>7 DEF r

LEMMA ParseMoves ==
  ASSUME Types, NEW w \in Workers, Parse(w)
  PROVE  /\ req[w].step = "parse" /\ UNCHANGED <<docs, mounted, clock, writes, requests, cache>>
         /\ \/ \E d \in req[w].todo : docs[d].here /\ Moves(w, ParseOne(req[w], d))
            \/ Moves(w, Fails(req[w], "os"))
<1> DEFINE d == Min(req[w].todo)
<1>1. d \in req[w].todo /\ d \in DocIds /\ req[w] \in Request
  BY LeastIn DEF Parse, Types, Request
<1>2. /\ req[w].step = "parse" /\ UNCHANGED <<docs, mounted, clock, writes, requests, cache>>
      /\ req' = [req EXCEPT ![w] = IF ~docs[d].here \/ ~mounted THEN Fails(req[w], "os")
                                   ELSE ParseOne(req[w], d)]
  BY DEF Parse, Goes, ParseOne
<1> HIDE DEF d
<1>3. \/ docs[d].here /\ req' = [req EXCEPT ![w] = ParseOne(req[w], d)]
      \/ req' = [req EXCEPT ![w] = Fails(req[w], "os")]
  BY <1>2
<1>4. ParseOne(req[w], d) \in Request /\ Fails(req[w], "os") \in Request
  BY <1>1, ParseFacts, FailsFacts DEF Types, Outcomes
<1> QED BY <1>1, <1>2, <1>3, <1>4, MovesWhen

Kept(r) == [r EXCEPT !.step = "done"]

LEMMA KeepMoves ==
  ASSUME Types, NEW w \in Workers, Keep(w)
  PROVE  /\ req[w].step = "parse" /\ req[w].todo = {} /\ cache' = req[w].entry
         /\ UNCHANGED <<docs, mounted, clock, writes, requests>>
         /\ Moves(w, Kept(req[w]))
         /\ Kept(req[w]).step = "done" /\ Kept(req[w]).entry = req[w].entry
         /\ Kept(req[w]).start = req[w].start
<1> DEFINE r == req[w]
<1>1. r \in Request
  BY DEF Types
<1>2. /\ r.step = "parse" /\ r.todo = {} /\ cache' = r.entry
      /\ UNCHANGED <<docs, mounted, clock, writes, requests>>
      /\ req' = [req EXCEPT ![w] = Kept(r)]
  BY DEF Keep, Goes, Kept
<1> HIDE DEF r
<1>3. Kept(r) \in Request /\ Kept(r).step = "done" /\ Kept(r).entry = r.entry /\ Kept(r).start = r.start
  BY <1>1 DEF Kept, Request
<1> QED BY <1>2, <1>3, MovesWhen DEF r

LEMMA RefuseMoves ==
  ASSUME Types, NEW w \in Workers, Refuse(w)
  PROVE  /\ req[w].step = "done" /\ UNCHANGED <<docs, mounted, clock, writes, requests, cache>>
         /\ \E kind \in {"lookup", "value"} : Moves(w, Fails(req[w], kind))
<1>1. PICK kind \in {"lookup", "value"} : Goes(w, Fails(req[w], kind))
  BY DEF Refuse
<1>2. Fails(req[w], kind) \in Request
  BY <1>1, FailsFacts DEF Types, Outcomes
<1>3. Moves(w, Fails(req[w], kind))
  BY <1>1, <1>2, MovesWhen DEF Refuse, Goes
<1> QED BY <1>1, <1>3 DEF Refuse, Goes

Told(said) == [NoRequest EXCEPT !.said = said]

LEMMA ReturnMoves ==
  ASSUME Types, NEW w \in Workers, Return(w)
  PROVE  /\ req[w].step = "done" /\ UNCHANGED <<docs, mounted, clock, writes, requests, cache>>
         /\ \E said \in {Raised(KindOf(req[w].outcome)), "unreachable"} :
              Moves(w, Told(said)) /\ Told(said).step = "idle" /\ Told(said).said = said
<1>1. PICK said \in {Raised(KindOf(req[w].outcome)), "unreachable"} :
        req' = [req EXCEPT ![w] = Told(said)]
  BY DEF Return, Told
<1>2. req[w].outcome \in Outcomes
  BY DEF Types, Request
<1>3. said \in Sayings
  BY <1>2 DEF Raised, KindOf, Outcomes, Sayings
<1>4. Told(said) \in Request /\ Told(said).step = "idle" /\ Told(said).said = said
  BY <1>3, NoneTyped DEF Told, Request
<1> QED BY <1>1, <1>4, MovesWhen DEF Return

-----------------------------------------------------------------------------
(* Types *)

LEMMA WritesChange ==
  ASSUME Types, NEW d \in DocIds, NEW here \in BOOLEAN, Writes(d, here)
  PROVE  /\ UNCHANGED <<mounted, clock, cache, req, requests>>
         /\ mounted /\ writes' = writes + 1 /\ writes' \in 0..MaxWrites
         /\ docs' \in [DocIds -> File]
         /\ docs'[d].n = writes + 1 /\ docs'[d].here = here
         /\ docs'[d].time = IF here THEN clock ELSE 0
         /\ \A e \in DocIds : e # d => docs'[e] = docs[e]
<1> DEFINE t == IF here THEN clock ELSE 0
           f == [n |-> writes', time |-> t, here |-> here]
<1>1. /\ UNCHANGED <<mounted, clock, cache, req, requests>> /\ mounted
      /\ writes < MaxWrites /\ writes' = writes + 1 /\ docs' = [docs EXCEPT ![d] = f]
  BY DEF Writes
<1>2. writes \in 0..MaxWrites /\ clock \in 1..MaxClock /\ docs \in [DocIds -> File]
  BY DEF Types, TypeOK
<1>3. writes' \in 0..MaxWrites /\ t \in 0..MaxClock
  BY <1>1, <1>2, ServedConstants
<1> HIDE DEF t
<1>4. f \in File /\ f.n = writes + 1 /\ f.here = here /\ f.time = t
  BY <1>1, <1>3 DEF File
<1> HIDE DEF f
<1>5. docs' \in [DocIds -> File] /\ docs'[d] = f /\ \A e \in DocIds : e # d => docs'[e] = docs[e]
  BY <1>1, <1>2, <1>4
<1> QED BY <1>1, <1>3, <1>4, <1>5 DEF t

LEMMA InitDocs ==
  ASSUME Init
  PROVE  /\ docs \in [DocIds -> File]
         /\ \A d \in DocIds : docs[d].n = 0 /\ docs[d].time = 0
<1>1. docs = [d \in DocIds |-> [Nothing EXCEPT !.here = d \in FirstDocs]]
  BY DEF Init
<1>2. ASSUME NEW b \in BOOLEAN
      PROVE  LET f == [Nothing EXCEPT !.here = b] IN f \in File /\ f.n = 0 /\ f.time = 0
  BY NoneTyped DEF Nothing, File
<1>3. \A d \in DocIds : (d \in FirstDocs) \in BOOLEAN
  OBVIOUS
<1>4. ASSUME NEW d \in DocIds PROVE docs[d] \in File /\ docs[d].n = 0 /\ docs[d].time = 0
  <2> DEFINE b == d \in FirstDocs
  <2>1. docs[d] = [Nothing EXCEPT !.here = b] /\ b \in BOOLEAN
    BY <1>1, <1>3
  <2> HIDE DEF b
  <2> QED BY <1>2, <2>1
<1>5. docs = [d \in DocIds |-> docs[d]]
  BY <1>1
<1> QED BY <1>4, <1>5

LEMMA ServedTypeInit == Init => Types
<1> SUFFICES ASSUME Init PROVE Types
  OBVIOUS
<1>1. docs \in [DocIds -> File]
  BY InitDocs
<1>2. cache \in Entry /\ req \in [Workers -> Request]
  BY NoneTyped DEF Init
<1> QED BY <1>1, <1>2, ServedConstants DEF Init, Types, TypeOK

LEMMA ServedTypeStep == Types /\ [Next]_vars => Types'
<1> SUFFICES ASSUME Types, [Next]_vars PROVE Types'
  OBVIOUS
<1>1. ASSUME req' \in [Workers -> Request], docs' \in [DocIds -> File], cache' \in Entry,
             writes' \in 0..MaxWrites, clock' \in 1..MaxClock, requests' \in 0..MaxRequests
      PROVE  Types'
  BY <1>1 DEF Types, TypeOK
<1>2. /\ docs \in [DocIds -> File] /\ cache \in Entry /\ req \in [Workers -> Request]
      /\ writes \in 0..MaxWrites /\ clock \in 1..MaxClock /\ requests \in 0..MaxRequests
  BY DEF Types, TypeOK
<1>3. ASSUME NEW w \in Workers, NEW s, Moves(w, s),
             UNCHANGED <<docs, mounted, clock, writes, requests>>, cache' \in Entry
      PROVE  Types'
  BY <1>1, <1>2, <1>3 DEF Moves
<1>4. CASE Tick
  BY <1>1, <1>2, <1>4, ServedConstants DEF Tick
<1>5. CASE Unmount
  BY <1>1, <1>2, <1>5 DEF Unmount
<1>6. ASSUME NEW d \in DocIds, WriteDoc(d) \/ RemoveDoc(d) PROVE Types'
  <2>1. PICK here \in BOOLEAN : Writes(d, here)
    BY <1>6 DEF WriteDoc, RemoveDoc
  <2> QED BY <1>1, <1>2, <2>1, WritesChange
<1>7. ASSUME NEW w \in Workers, NEW name, Ask(w, name) PROVE Types'
  <2>1. req' \in [Workers -> Request]
    BY <1>7, AskMoves DEF Moves
  <2>2. requests' \in 0..MaxRequests
    BY <1>2, <1>7, AskMoves, ServedConstants
  <2> QED BY <1>1, <1>2, <1>7, <2>1, <2>2, AskMoves
<1>8. ASSUME NEW w \in Workers, Stat(w) PROVE Types'
  BY <1>2, <1>3, <1>8, StatMoves
<1>9. ASSUME NEW w \in Workers, Compare(w) PROVE Types'
  BY <1>2, <1>3, <1>9, CompareMoves
<1>10. ASSUME NEW w \in Workers, Parse(w) PROVE Types'
  BY <1>2, <1>3, <1>10, ParseMoves
<1>11. ASSUME NEW w \in Workers, Keep(w) PROVE Types'
  <2>1. req[w].entry \in Entry
    BY <1>2 DEF Request
  <2> QED BY <1>3, <1>11, <2>1, KeepMoves
<1>12. ASSUME NEW w \in Workers, Refuse(w) PROVE Types'
  BY <1>2, <1>3, <1>12, RefuseMoves
<1>13. ASSUME NEW w \in Workers, Return(w) PROVE Types'
  BY <1>2, <1>3, <1>13, ReturnMoves
<1>14. CASE UNCHANGED vars
  BY <1>1, <1>2, <1>14 DEF vars
<1> QED BY <1>4, <1>5, <1>6, <1>7, <1>8, <1>9, <1>10, <1>11, <1>12, <1>13, <1>14 DEF Next

\* The store, the cache and the requests keep their types.
THEOREM ServedTypesHold == Spec => []TypeOK
<1>1. Types => TypeOK
  BY DEF Types
<1> QED BY <1>1, ServedTypeInit, ServedTypeStep, PTL DEF Spec

-----------------------------------------------------------------------------
(* Files as time passes *)

\* A file is what it was, or a later write made it what it is.
Later(f, g, time, n) ==
  \A d \in DocIds : g[d] = f[d] \/ (g[d].n > n /\ (g[d].here => g[d].time >= time))

LEMMA ParsedLater ==
  ASSUME NEW f \in [DocIds -> File], NEW g \in [DocIds -> File], NEW e \in Entry, NEW rest,
         NEW t \in Nat, NEW u \in Nat, u >= t, NEW n, Later(f, g, t, n),
         Parsed(e, rest, f, t)
  PROVE  Parsed(e, rest, g, u)
<1>1. e.at \in Nat /\ e.at <= t
  BY ServedConstants DEF Entry, Parsed
<1>2. \A d \in DocIds : g[d].time \in Nat
  BY ServedConstants DEF File
<1> QED BY <1>1, <1>2 DEF Parsed, Later

LEMMA BehindLater ==
  ASSUME NEW f \in [DocIds -> File], NEW g \in [DocIds -> File], NEW e \in Entry,
         NEW t, NEW n \in Nat, NEW start \in Nat, start <= n, Later(f, g, t, n),
         Behind(e, start, f)
  PROVE  Behind(e, start, g)
<1>1. \A d \in DocIds : g[d].n \in Nat
  BY ServedConstants DEF File
<1> QED BY <1>1 DEF Behind, Later

LEMMA OvertakenLater ==
  ASSUME NEW f \in [DocIds -> File], NEW g \in [DocIds -> File], NEW e \in Entry, NEW rest,
         NEW L, NEW seen, NEW t, NEW n \in Nat, NEW start \in Nat, start <= n,
         Later(f, g, t, n), Overtaken(e, rest, L, seen, start, f)
  PROVE  Overtaken(e, rest, L, seen, start, g)
<1>1. \A d \in DocIds : g[d].n \in Nat
  BY ServedConstants DEF File
<1> QED BY <1>1 DEF Overtaken, Later

LEMMA LookedLater ==
  ASSUME NEW f \in [DocIds -> File], NEW g \in [DocIds -> File], NEW r \in Request,
         NEW L \in SUBSET DocIds, NEW t \in Nat, NEW seen \in [DocIds -> 0..t],
         NEW n \in Nat, r.start <= n, Later(f, g, t, n), Looked(r, L, seen, f)
  PROVE  Looked(r, L, seen, g)
<1>1. \A d \in DocIds : g[d].n \in Nat /\ g[d].time \in Nat /\ seen[d] \in Nat /\ seen[d] <= t
  BY ServedConstants DEF File
<1>2. r.start \in Nat /\ Unseen(r) \subseteq DocIds
  BY ServedConstants DEF Request, Unseen
<1>3. \A d \in Unseen(r) : g[d].here => g[d].time >= seen[d]
  BY <1>1, <1>2 DEF Later, Looked
<1>4. \A d \in DocIds : g[d].n <= r.start => g[d] = f[d]
  BY <1>1, <1>2 DEF Later
<1> QED BY <1>3, <1>4 DEF Looked

\* What an answer shows of documents nobody touched since the request began.
Current(e, start, files) ==
  \A d \in DocIds : files[d].n <= start =>
    /\ e.kb[d].here <=> files[d].here
    /\ files[d].here => e.kb[d] = files[d]

LEMMA CurrentLater ==
  ASSUME NEW f \in [DocIds -> File], NEW g \in [DocIds -> File], NEW e \in Entry,
         NEW t, NEW n \in Nat, NEW start \in Nat, start <= n, Later(f, g, t, n),
         Current(e, start, f)
  PROVE  Current(e, start, g)
<1>1. \A d \in DocIds : g[d].n \in Nat
  BY ServedConstants DEF File
<1> QED BY <1>1 DEF Current, Later

-----------------------------------------------------------------------------
(* Entries and requests *)

LEMMA EmptyOvertaken ==
  ASSUME NEW e \in Entry, Listed(e.kb) = {}, NEW rest, NEW L, NEW seen, NEW start, NEW f
  PROVE  Overtaken(e, rest, L, seen, start, f)
BY DEF Overtaken, Listed

LEMMA ParseOvertaken ==
  ASSUME NEW f \in [DocIds -> File], NEW e \in Entry, NEW e2 \in Entry, NEW rest,
         NEW d \in DocIds, f[d].here, e2.kb = [e.kb EXCEPT ![d] = f[d]], e2.at = e.at,
         NEW L \in SUBSET DocIds, NEW seen, NEW start, Overtaken(e, rest, L, seen, start, f)
  PROVE  Overtaken(e2, rest \ {d}, L, seen, start, f)
<1>1. e.kb \in [DocIds -> File]
  BY DEF Entry
<1>2. e2.kb[d].here /\ \A x \in DocIds : x # d => e2.kb[x] = e.kb[x]
  BY <1>1
<1> QED BY <1>2 DEF Overtaken

LEMMA ParseParsed ==
  ASSUME NEW f \in [DocIds -> File], NEW e \in Entry, NEW e2 \in Entry, NEW rest,
         NEW d \in rest, d \in DocIds, f[d].here, e2.kb = [e.kb EXCEPT ![d] = f[d]],
         e2.at = e.at, NEW t, NEW start, Parsed(e, rest, f, t), Behind(e, start, f)
  PROVE  Parsed(e2, rest \ {d}, f, t) /\ Behind(e2, start, f)
<1>1. e.kb \in [DocIds -> File]
  BY DEF Entry
<1>2. e2.kb[d] = f[d] /\ \A x \in DocIds : x # d => e2.kb[x] = e.kb[x]
  BY <1>1
<1> QED BY <1>2 DEF Parsed, Behind

\* A request that begins sees the files as they are.
LEMMA BeginOvertaken ==
  ASSUME NEW f \in [DocIds -> File], NEW e \in Entry, NEW rest, NEW t, NEW start,
         Parsed(e, rest, f, t), NEW seen, seen = [d \in DocIds |-> f[d].time]
  PROVE  Overtaken(e, rest, Listed(f), seen, start, f)
BY DEF Parsed, Overtaken, Listed

LEMMA LookAtLooked ==
  ASSUME Types, NEW r \in Request, r.step = "stat", NEW d \in r.todo, docs[d].here,
         NEW L \in SUBSET DocIds, NEW t \in Nat, NEW seen \in [DocIds -> 0..t],
         Looked(r, L, seen, docs)
  PROVE  Looked(LookAt(r, d), L, seen, docs)
<1> DEFINE s == LookAt(r, d)
<1>1. d \in DocIds /\ r.todo \subseteq DocIds /\ d \in L
  BY DEF Request, Looked, Unseen
<1>2. /\ s.step = "stat" /\ s.todo = r.todo \ {d} /\ s.start = r.start
      /\ s.entry.print.count = r.entry.print.count + 1
      /\ s.entry.print.newest >= r.entry.print.newest
      /\ s.entry.print.newest >= docs[d].time
      /\ s \in Request
  BY <1>1, LookFacts DEF Types
<1> HIDE DEF s
<1>3. L \ Unseen(s) = (L \ Unseen(r)) \cup {d} /\ d \notin L \ Unseen(r)
  BY <1>1, <1>2 DEF Unseen
<1>4. IsFiniteSet(L \ Unseen(r))
  BY ServedConstants, FS_Subset
<1>5. Cardinality(L \ Unseen(s)) = Cardinality(L \ Unseen(r)) + 1
  BY <1>3, <1>4, FS_AddElement
<1>6. r.entry.print.newest \in Nat /\ s.entry.print.newest \in Nat /\ docs[d].time \in Nat
      /\ \A x \in L : seen[x] \in Nat
  BY <1>1, <1>2, ServedConstants DEF Request, Entry, Fingerprint, Types, TypeOK, File
<1>7. s.entry.print.newest >= seen[d]
  BY <1>1, <1>2, <1>6 DEF Looked, Unseen
<1>8. \A x \in L \ Unseen(s) : s.entry.print.newest >= seen[x]
  BY <1>2, <1>3, <1>6, <1>7 DEF Looked
<1>9. Unseen(s) \subseteq Unseen(r)
  BY <1>2 DEF Unseen
<1> QED BY <1>2, <1>5, <1>8, <1>9 DEF Looked, s

-----------------------------------------------------------------------------
(* Answers *)

Excused(e) == Tied(e) \/ Torn(e)

\* An entry that is whole has as many documents as its fingerprint counts.
LEMMA WholeCounts ==
  ASSUME NEW e \in Entry, ~Torn(e)
  PROVE  e.print.count = Cardinality(Listed(e.kb))
BY DEF Torn, PrintOf

LEMMA FreshAnswer ==
  ASSUME Types, NEW r \in Request, r.step = "parse", r.todo = {},
         NEW L \in SUBSET DocIds, NEW t \in Nat, NEW seen \in [DocIds -> 0..t],
         Looked(r, L, seen, docs), NEW c, Parsed(r.entry, {}, docs, c),
         Behind(r.entry, r.start, docs), ~Excused(r.entry)
  PROVE  Current(r.entry, r.start, docs)
<1> DEFINE e == r.entry
<1>1. e \in Entry /\ e.print.newest \in Nat /\ e.at \in Nat /\ e.print.newest < e.at
  BY ServedConstants DEF Request, Entry, Fingerprint, Excused, Tied
<1>2. e.print.count = Cardinality(L) /\ \A d \in L : e.print.newest >= seen[d] /\ seen[d] \in Nat
  BY DEF Looked, Unseen
<1>3. e.print.count = Cardinality(Listed(e.kb))
  BY <1>1, WholeCounts DEF Excused
<1> SUFFICES ASSUME NEW d \in DocIds, docs[d].n <= r.start
             PROVE  /\ e.kb[d].here <=> docs[d].here
                    /\ docs[d].here => e.kb[d] = docs[d]
  BY DEF Current
<1>4. ASSUME docs[d].here PROVE e.kb[d] = docs[d]
  <2>1. d \in L /\ docs[d].time = seen[d]
    BY <1>4 DEF Looked
  <2>2. docs[d].time < e.at /\ docs[d].time \in Nat
    BY <1>1, <1>2, <2>1
  <2>3. Listed(e.kb) # {}
    <3>1. IsFiniteSet(L)
      BY ServedConstants, FS_Subset
    <3>2. Cardinality(L) # 0
      BY <2>1, <3>1, FS_EmptySet
    <3>3. Cardinality(Listed(e.kb)) # 0
      BY <1>2, <1>3, <3>2
    <3>4. Listed(e.kb) = {} => Cardinality(Listed(e.kb)) = 0
      BY FS_EmptySet, Zenon
    <3> QED BY <3>3, <3>4
  <2> QED BY <1>1, <1>4, <2>2, <2>3 DEF Parsed
<1>5. e.kb[d].here => docs[d].here
  BY DEF Behind
<1> QED BY <1>4, <1>5

LEMMA CachedAnswer ==
  ASSUME Types, NEW r \in Request, r.step = "stat", r.todo = {}, NEW e \in Entry,
         e.print = r.entry.print, NEW L \in SUBSET DocIds, NEW t \in Nat,
         NEW seen \in [DocIds -> 0..t], Looked(r, L, seen, docs), NEW c,
         Parsed(e, {}, docs, c), Overtaken(e, {}, L, seen, r.start, docs), ~Excused(e)
  PROVE  Current(e, r.start, docs)
<1>1. e.print.newest \in Nat /\ e.at \in Nat /\ e.print.newest < e.at
  BY ServedConstants DEF Entry, Fingerprint, Excused, Tied
<1>2. e.print.count = Cardinality(L) /\ \A d \in L : e.print.newest >= seen[d] /\ seen[d] \in Nat
  BY DEF Looked, Unseen
<1>3. e.print.count = Cardinality(Listed(e.kb))
  BY WholeCounts DEF Excused
<1>4. IsFiniteSet(L) /\ IsFiniteSet(Listed(e.kb))
  BY ServedConstants, FS_Subset DEF Listed
<1> SUFFICES ASSUME NEW d \in DocIds, docs[d].n <= r.start
             PROVE  /\ e.kb[d].here <=> docs[d].here
                    /\ docs[d].here => e.kb[d] = docs[d]
  BY DEF Current
<1>5. ASSUME docs[d].here PROVE e.kb[d] = docs[d]
  <2>1. d \in L /\ docs[d].time = seen[d]
    BY <1>5 DEF Looked
  <2>2. docs[d].time < e.at /\ docs[d].time \in Nat
    BY <1>1, <1>2, <2>1
  <2>3. Listed(e.kb) # {}
    <3>1. Cardinality(L) # 0
      BY <1>4, <2>1, FS_EmptySet
    <3>2. Cardinality(Listed(e.kb)) # 0
      BY <1>2, <1>3, <3>1
    <3>3. Listed(e.kb) = {} => Cardinality(Listed(e.kb)) = 0
      BY FS_EmptySet, Zenon
    <3> QED BY <3>2, <3>3
  <2> QED BY <1>1, <1>5, <2>2, <2>3 DEF Parsed
<1>6. ASSUME e.kb[d].here, ~docs[d].here PROVE FALSE
  <2>1. \A x \in L : e.kb[x].here
    BY <1>1, <1>2, <1>6 DEF Overtaken
  <2>2. L \subseteq Listed(e.kb) /\ d \in Listed(e.kb) /\ d \notin L
    BY <1>6, <2>1 DEF Listed, Looked
  <2>3. L # Listed(e.kb)
    BY <2>2
  <2> HIDE DEF Listed
  <2>4. Cardinality(L) < Cardinality(Listed(e.kb))
    BY <1>4, <2>2, <2>3, FS_Subset, FS_CardinalityType
  <2>5. Cardinality(L) \in Nat
    BY <1>4, FS_CardinalityType
  <2> QED BY <1>2, <1>3, <2>4, <2>5
<1> QED BY <1>5, <1>6

-----------------------------------------------------------------------------
(* The invariant holds *)

LEMMA InvFacts ==
  ASSUME ServedInv
  PROVE  /\ Types /\ docs \in [DocIds -> File] /\ cache \in Entry
         /\ req \in [Workers -> Request]
         /\ writes \in Nat /\ clock \in Nat /\ clock <= MaxClock /\ clock >= 1
         /\ \A w \in Workers : req[w].entry \in Entry /\ req[w].start \in Nat
                               /\ req[w].start <= writes
BY ServedConstants DEF ServedInv, Types, TypeOK, Request, Asked

\* Whatever steps, the files get later.
LEMMA StepsLater ==
  ASSUME ServedInv, [Next]_vars
  PROVE  /\ Later(docs, docs', clock, writes)
         /\ clock' \in Nat /\ clock' >= clock /\ writes' \in Nat /\ writes' >= writes
         /\ \A d \in DocIds : docs'[d].n <= writes' /\ docs'[d].time <= clock'
<1>0. /\ docs \in [DocIds -> File] /\ writes \in Nat /\ clock \in Nat /\ clock >= 1
      /\ \A d \in DocIds : docs[d].n <= writes /\ docs[d].time <= clock
                           /\ docs[d].n \in Nat /\ docs[d].time \in Nat
  BY InvFacts, ServedConstants DEF ServedInv, File
<1> DEFINE Goal == /\ Later(docs, docs', clock, writes)
                   /\ clock' \in Nat /\ clock' >= clock /\ writes' \in Nat /\ writes' >= writes
                   /\ \A d \in DocIds : docs'[d].n <= writes' /\ docs'[d].time <= clock'
<1>1. ASSUME UNCHANGED <<docs, writes>>, clock' \in {clock, clock + 1} PROVE Goal
  BY <1>0, <1>1 DEF Later
<1>2. ASSUME NEW d \in DocIds, NEW here \in BOOLEAN, Writes(d, here) PROVE Goal
  <2>1. /\ clock' = clock /\ writes' = writes + 1
        /\ docs'[d].n = writes + 1 /\ docs'[d].here = here
        /\ docs'[d].time = (IF here THEN clock ELSE 0)
        /\ \A e \in DocIds : e # d => docs'[e] = docs[e]
    BY <1>2, WritesChange DEF ServedInv
  <2>2. Later(docs, docs', clock, writes)
    BY <1>0, <2>1 DEF Later
  <2>3. \A e \in DocIds : docs'[e].n <= writes' /\ docs'[e].time <= clock'
    BY <1>0, <2>1
  <2> QED BY <1>0, <2>1, <2>2, <2>3
<1>3. ASSUME NEW w \in Workers, \/ \E name \in {"this", "none", "other"} : Ask(w, name)
                                \/ Stat(w) \/ Compare(w) \/ Parse(w) \/ Keep(w) \/ Return(w) \/ Refuse(w)
      PROVE  Goal
  <2>1. UNCHANGED <<docs, writes, clock>>
    BY <1>3 DEF Ask, Stat, Compare, Parse, Keep, Return, Refuse, Goes
  <2> QED BY <1>1, <2>1
<1> HIDE DEF Goal
<1>4. Goal
  <2>1. CASE Tick
    BY <1>1, <2>1 DEF Tick
  <2>2. CASE Unmount
    BY <1>1, <2>2 DEF Unmount
  <2>3. ASSUME NEW d \in DocIds, WriteDoc(d) \/ RemoveDoc(d) PROVE Goal
    BY <1>2, <2>3 DEF WriteDoc, RemoveDoc
  <2>4. CASE UNCHANGED vars
    BY <1>1, <2>4 DEF vars
  <2> QED BY <1>3, <2>1, <2>2, <2>3, <2>4 DEF Next
<1> QED BY <1>4 DEF Goal

\* What is kept was there, or is what a request has parsed.
LEMMA CacheFrom ==
  ASSUME ServedInv, [Next]_vars
  PROVE  \/ cache' = cache
         \/ \E u \in Workers : /\ req[u].step = "parse" /\ req[u].todo = {}
                               /\ cache' = req[u].entry /\ docs' = docs
<1>1. ASSUME NEW u \in Workers, Keep(u)
      PROVE  req[u].step = "parse" /\ req[u].todo = {} /\ cache' = req[u].entry /\ docs' = docs
  BY <1>1, KeepMoves DEF ServedInv
<1>2. ASSUME NEW u \in Workers, ~Keep(u), \/ \E name \in {"this", "none", "other"} : Ask(u, name)
                                          \/ Stat(u) \/ Compare(u) \/ Parse(u) \/ Keep(u) \/ Return(u) \/ Refuse(u)
      PROVE  cache' = cache
  BY <1>2 DEF Ask, Stat, Compare, Parse, Return, Refuse, Goes
<1>3. ASSUME Tick \/ Unmount \/ (\E d \in DocIds : WriteDoc(d) \/ RemoveDoc(d)) \/ UNCHANGED vars
      PROVE  cache' = cache
  BY <1>3 DEF Tick, Unmount, WriteDoc, RemoveDoc, Writes, vars
<1> QED BY <1>1, <1>2, <1>3 DEF Next

Stays(v) == req'[v] = req[v]

\* A request that parses did so, or has just begun, or has one document more.

LEMMA ParsingFrom ==
  ASSUME ServedInv, [Next]_vars, NEW v \in Workers, req'[v].step = "parse"
  PROVE  \/ Stays(v)
         \/ /\ docs' = docs /\ req[v].step = "stat" /\ Listed(req'[v].entry.kb) = {}
         \/ /\ docs' = docs /\ req[v].step = "parse"
            /\ \E d \in req[v].todo : /\ d \in DocIds /\ docs[d].here
                                      /\ req'[v] = ParseOne(req[v], d)
<1> USE DEF Stays
<1>0. Types /\ \A u \in Workers : req[u] \in Request
  BY InvFacts
<1>1. ASSUME NEW w \in Workers, NEW s, Moves(w, s), s.step # "parse" PROVE req'[v] = req[v]
  BY <1>1 DEF Moves
<1>2. ASSUME NEW kind \in Outcomes, NEW r \in Request PROVE Fails(r, kind).step # "parse"
  BY <1>2, FailsFacts
<1>3. {"lookup", "config", "os", "value"} \subseteq Outcomes
  BY DEF Outcomes
<1>4. ASSUME NEW w \in Workers, NEW name, Ask(w, name) PROVE req'[v] = req[v]
  <2>1. AskFor \in Request /\ AskFor.step # "parse"
    BY <1>0, AskFacts DEF Types
  <2> QED BY <1>0, <1>1, <1>2, <1>3, <1>4, <2>1, AskMoves
<1>5. ASSUME NEW w \in Workers, Stat(w) PROVE req'[v] = req[v]
  <2>1. ASSUME NEW d \in req[w].todo PROVE LookAt(req[w], d).step = req[w].step
    <3>1. d \in DocIds
      BY <1>0, <2>1 DEF Request
    <3> QED BY <1>0, <3>1, LookFacts DEF Types
  <2> QED BY <1>0, <1>1, <1>2, <1>3, <1>5, <2>1, StatMoves
<1>6. ASSUME NEW w \in Workers, Compare(w)
      PROVE  \/ req'[v] = req[v]
             \/ docs' = docs /\ req[v].step = "stat" /\ Listed(req'[v].entry.kb) = {}
  <2>1. CASE Moves(w, Hit(req[w])) /\ Hit(req[w]).step = "done"
    BY <1>1, <2>1
  <2>2. CASE Moves(w, Listing(req[w])) /\ Listing(req[w]).entry = req[w].entry
    <3>1. w # v => req'[v] = req[v]
      BY <2>2 DEF Moves
    <3>2. Listed(req[w].entry.kb) = {} /\ req[w].step = "stat" /\ docs' = docs
      BY <1>0, <1>6, CompareMoves DEF ServedInv, Asked
    <3>3. w = v => req'[v].entry = req[w].entry
      BY <2>2 DEF Moves
    <3> QED BY <3>1, <3>2, <3>3
  <2> QED BY <1>0, <1>6, <2>1, <2>2, CompareMoves
<1>7. ASSUME NEW w \in Workers, Parse(w)
      PROVE  \/ req'[v] = req[v]
             \/ /\ docs' = docs /\ req[v].step = "parse"
                /\ \E d \in req[v].todo : /\ d \in DocIds /\ docs[d].here
                                          /\ req'[v] = ParseOne(req[v], d)
  <2>1. CASE Moves(w, Fails(req[w], "os"))
    BY <1>0, <1>1, <1>2, <1>3, <2>1
  <2>2. ASSUME NEW d \in req[w].todo, docs[d].here, Moves(w, ParseOne(req[w], d))
        PROVE  \/ req'[v] = req[v]
               \/ v = w /\ d \in DocIds /\ req'[v] = ParseOne(req[v], d)
    BY <1>0, <2>2 DEF Moves, Request
  <2> QED BY <1>0, <1>7, <2>1, <2>2, ParseMoves
<1>8. ASSUME NEW w \in Workers, Keep(w) PROVE req'[v] = req[v]
  BY <1>0, <1>1, <1>8, KeepMoves
<1>9. ASSUME NEW w \in Workers, Refuse(w) PROVE req'[v] = req[v]
  BY <1>0, <1>1, <1>2, <1>3, <1>9, RefuseMoves
<1>10. ASSUME NEW w \in Workers, Return(w) PROVE req'[v] = req[v]
  <2>1. PICK s : Moves(w, s) /\ s.step = "idle"
    BY <1>0, <1>10, ReturnMoves
  <2> QED BY <1>1, <2>1
<1>11. ASSUME Tick \/ Unmount \/ (\E d \in DocIds : WriteDoc(d) \/ RemoveDoc(d)) \/ UNCHANGED vars
       PROVE  req'[v] = req[v]
  BY <1>11 DEF Tick, Unmount, WriteDoc, RemoveDoc, Writes, vars
<1> QED BY <1>4, <1>5, <1>6, <1>7, <1>8, <1>9, <1>10, <1>11 DEF Next

LEMMA OvertakenStep ==
  ASSUME ServedInv, [Next]_vars, Types', NEW L \in SUBSET DocIds, NEW seen, NEW start \in Nat,
         start <= writes, AllOvertaken(L, seen, start)
  PROVE  AllOvertaken(L, seen, start)'
<1>0. /\ docs \in [DocIds -> File] /\ docs' \in [DocIds -> File] /\ writes \in Nat
      /\ Later(docs, docs', clock, writes) /\ cache \in Entry /\ cache' \in Entry
      /\ \A v \in Workers : req[v].entry \in Entry /\ req'[v].entry \in Entry
                            /\ req[v] \in Request
  BY InvFacts, StepsLater DEF Types, TypeOK, Request
<1>1. Overtaken(cache', {}, L, seen, start, docs')
  <2>1. CASE cache' = cache
    <3>1. Overtaken(cache, {}, L, seen, start, docs)
      BY DEF AllOvertaken
    <3> QED BY <1>0, <2>1, <3>1, OvertakenLater
  <2>2. ASSUME NEW u \in Workers, req[u].step = "parse", req[u].todo = {},
               cache' = req[u].entry, docs' = docs
        PROVE  Overtaken(cache', {}, L, seen, start, docs')
    <3>1. Overtaken(req[u].entry, req[u].todo, L, seen, start, docs)
      BY <2>2 DEF AllOvertaken
    <3> QED BY <2>2, <3>1
  <2> QED BY <2>1, <2>2, CacheFrom
<1>2. ASSUME NEW v \in Workers, req'[v].step = "parse"
      PROVE  Overtaken(req'[v].entry, req'[v].todo, L, seen, start, docs')
  <2>1. CASE req'[v] = req[v]
    <3>1. Overtaken(req[v].entry, req[v].todo, L, seen, start, docs)
      BY <1>2, <2>1 DEF AllOvertaken
    <3>2. Overtaken(req[v].entry, req[v].todo, L, seen, start, docs')
      BY <1>0, <3>1, OvertakenLater
    <3> QED BY <2>1, <3>2
  <2>2. CASE Listed(req'[v].entry.kb) = {}
    BY <1>0, <2>2, EmptyOvertaken
  <2>3. ASSUME docs' = docs, req[v].step = "parse", NEW d \in req[v].todo, d \in DocIds,
               docs[d].here, req'[v] = ParseOne(req[v], d)
        PROVE  Overtaken(req'[v].entry, req'[v].todo, L, seen, start, docs')
    <3>1. Overtaken(req[v].entry, req[v].todo, L, seen, start, docs)
      BY <2>3 DEF AllOvertaken
    <3>2. /\ req'[v].entry.kb = [req[v].entry.kb EXCEPT ![d] = docs[d]]
          /\ req'[v].entry.at = req[v].entry.at /\ req'[v].todo = req[v].todo \ {d}
      <4> DEFINE s == ParseOne(req[v], d)
      <4>1. TypeOK
        BY DEF ServedInv, Types
      <4>2. /\ s.entry.kb = [req[v].entry.kb EXCEPT ![d] = docs[d]]
            /\ s.entry.at = req[v].entry.at /\ s.todo = req[v].todo \ {d}
        <5>1. req[v] \in Request /\ d \in DocIds
          BY <1>0, <2>3
        <5> QED BY ONLY <4>1, <5>1, ParseFacts
      <4>3. req'[v] = s
        BY <2>3
      <4> HIDE DEF s
      <4> QED BY <4>2, <4>3
    <3>3. Overtaken(req'[v].entry, req[v].todo \ {d}, L, seen, start, docs)
      BY <1>0, <2>3, <3>1, <3>2, ParseOvertaken
    <3> QED BY <2>3, <3>2, <3>3
  <2> QED BY <1>2, <2>1, <2>2, <2>3, ParsingFrom DEF Stays
<1> QED BY <1>1, <1>2 DEF AllOvertaken

LEMMA AskedEnds ==
  ASSUME ServedInv, [Next]_vars, NEW v \in Workers,
         req'[v].step \in {"done", "idle"},
         req'[v].start <= writes, req'[v].entry.at <= clock, req'[v] \in Request
  PROVE  Asked(v)'
<1>1. req'[v].start \in Nat /\ req'[v].entry.at \in Nat
  BY ServedConstants DEF Request, Entry
<1>2. req'[v].start <= writes' /\ req'[v].entry.at <= clock'
  BY <1>1, InvFacts, StepsLater
<1> QED BY <1>2 DEF Asked

\* What a request that lists, looks and parses has to know in the next state.
LEMMA AskedGoesOn ==
  ASSUME ServedInv, [Next]_vars, Types', docs' = docs, clock' = clock, writes' = writes,
         NEW v \in Workers, NEW s \in Request, req'[v] = s, s.step \in {"stat", "parse"},
         s.start <= writes, s.entry.at <= clock, s.step = "stat" => Listed(s.entry.kb) = {},
         NEW L \in SUBSET DocIds, NEW seen \in [DocIds -> 0..clock],
         Looked(s, L, seen, docs), AllOvertaken(L, seen, s.start),
         s.step = "parse" => Parsed(s.entry, s.todo, docs, clock) /\ Behind(s.entry, s.start, docs)
  PROVE  Asked(v)'
<1>1. s.start \in Nat
  BY ServedConstants DEF Request
<1>2. AllOvertaken(L, seen, s.start)'
  BY <1>1, OvertakenStep
<1>3. seen \in [DocIds -> 0..clock']
  OBVIOUS
<1>4. Looked(s, L, seen, docs') /\ AllOvertaken(L, seen, s.start)'
  BY <1>2
<1>5. AllOvertaken(L, seen, req[v].start)'
  BY <1>2 DEF AllOvertaken
<1>6. s.step = "parse" => Parsed(s.entry, s.todo, docs', clock') /\ Behind(s.entry, s.start, docs')
  OBVIOUS
<1> QED BY <1>3, <1>4, <1>5, <1>6 DEF Asked

LEMMA AskedStays ==
  ASSUME ServedInv, [Next]_vars, Types', NEW v \in Workers, req'[v] = req[v]
  PROVE  Asked(v)'
<1>0. /\ docs \in [DocIds -> File] /\ docs' \in [DocIds -> File] /\ writes \in Nat /\ clock \in Nat
      /\ Later(docs, docs', clock, writes) /\ req[v] \in Request /\ req[v].entry \in Entry
      /\ req[v].start \in Nat /\ req[v].start <= writes /\ req[v].entry.at \in Nat
      /\ clock' \in Nat /\ clock' >= clock /\ writes' >= writes /\ writes' \in Nat
  BY InvFacts, StepsLater, ServedConstants DEF Types, TypeOK, Entry
<1>1. Asked(v)
  BY DEF ServedInv
<1> DEFINE r == req[v]
<1>2. PICK s \in Request : s = r
  BY <1>0
<1>3. req'[v] = s
  BY <1>2
<1> HIDE DEF r
<1>4. s.start <= writes' /\ s.entry.at <= clock'
  BY <1>0, <1>1, <1>2 DEF Asked, r
<1>5. s.step = "stat" => Listed(s.entry.kb) = {}
  BY <1>1, <1>2 DEF Asked, r
<1>6. s.step = "parse" => Parsed(s.entry, s.todo, docs', clock') /\ Behind(s.entry, s.start, docs')
  <2> SUFFICES ASSUME s.step = "parse"
               PROVE  Parsed(s.entry, s.todo, docs', clock') /\ Behind(s.entry, s.start, docs')
    OBVIOUS
  <2>1. Parsed(s.entry, s.todo, docs, clock) /\ Behind(s.entry, s.start, docs)
    BY <1>1, <1>2 DEF Asked, r
  <2>2. s.entry \in Entry /\ s.start \in Nat /\ s.start <= writes
    BY <1>0, <1>2 DEF r
  <2> QED BY <1>0, <2>1, <2>2, ParsedLater, BehindLater
<1>7. s.step \in {"stat", "parse"} =>
        \E L \in SUBSET DocIds, seen \in [DocIds -> 0..clock'] :
          Looked(s, L, seen, docs') /\ AllOvertaken(L, seen, s.start)'
  <2> SUFFICES ASSUME s.step \in {"stat", "parse"}
               PROVE  \E L \in SUBSET DocIds, seen \in [DocIds -> 0..clock'] :
                        Looked(s, L, seen, docs') /\ AllOvertaken(L, seen, s.start)'
    OBVIOUS
  <2>1. PICK L \in SUBSET DocIds, seen \in [DocIds -> 0..clock] :
          Looked(s, L, seen, docs) /\ AllOvertaken(L, seen, s.start)
    BY <1>1, <1>2 DEF Asked, r
  <2>2. s.start \in Nat /\ s.start <= writes
    BY <1>0, <1>2 DEF r
  <2>3. Looked(s, L, seen, docs')
    BY <1>0, <2>1, <2>2, LookedLater
  <2>4. AllOvertaken(L, seen, s.start)'
    BY <2>1, <2>2, OvertakenStep
  <2>5. seen \in [DocIds -> 0..clock']
    BY <1>0
  <2> QED BY <2>3, <2>4, <2>5
<1> QED BY <1>3, <1>4, <1>5, <1>6, <1>7 DEF Asked

LEMMA AskAsked ==
  ASSUME ServedInv, [Next]_vars, Types', NEW v \in Workers, NEW name, Ask(v, name)
  PROVE  Asked(v)'
<1>0. /\ Types /\ TypeOK /\ docs \in [DocIds -> File] /\ clock \in Nat /\ writes \in Nat
      /\ cache \in Entry /\ \A u \in Workers : req[u].entry \in Entry
  BY InvFacts DEF Types
<1>1. /\ UNCHANGED <<docs, clock, writes>>
      /\ \/ mounted /\ Moves(v, AskFor)
         \/ \E kind \in {"lookup", "config"} : Moves(v, Fails(AskFor, kind))
  BY <1>0, AskMoves
<1>2. PICK s \in Request : s = AskFor
  BY <1>0, AskFacts
<1>3. /\ s.step = "stat" /\ s.todo = Glob /\ s.start = writes /\ s.entry.at = clock
      /\ s.entry.kb = NoKb /\ s.entry.print.count = 0
  BY <1>0, <1>2, AskFacts
<1>4. ASSUME NEW kind \in {"lookup", "config"}, Moves(v, Fails(s, kind)) PROVE Asked(v)'
  <2>1. kind \in Outcomes
    BY <1>4 DEF Outcomes
  <2>2. /\ Fails(s, kind) \in Request /\ Fails(s, kind).step = "done"
        /\ Fails(s, kind).start = s.start /\ Fails(s, kind).entry = s.entry
    BY <2>1, FailsFacts
  <2>3. req'[v] = Fails(s, kind)
    BY <1>4 DEF Moves
  <2> QED BY <1>0, <1>3, <2>2, <2>3, AskedEnds
<1>5. ASSUME mounted, req'[v] = s PROVE Asked(v)'
  <2>1. PICK L \in SUBSET DocIds : L = Listed(docs)
    BY DEF Listed
  <2>2. \A d \in DocIds : docs[d].time \in 0..clock /\ docs[d].n <= writes
    BY <1>0, ServedConstants DEF ServedInv, File
  <2>3. PICK seen \in [DocIds -> 0..clock] : seen = [d \in DocIds |-> docs[d].time]
    BY <2>2
  <2>4. Looked(s, L, seen, docs)
    <3>1. Unseen(s) = L /\ L \ Unseen(s) = {}
      BY <1>3, <1>5, <2>1 DEF Unseen, Glob
    <3>2. s.entry.print.count = Cardinality(L \ Unseen(s))
      BY <1>3, <3>1, FS_EmptySet
    <3>3. \A d \in DocIds : seen[d] = docs[d].time /\ (d \in L <=> docs[d].here)
      BY <2>1, <2>3 DEF Listed
    <3>4. \A d \in DocIds : docs[d].time >= seen[d]
      BY <2>2, <3>3
    <3> QED BY <3>1, <3>2, <3>3, <3>4 DEF Looked
  <2>5. AllOvertaken(L, seen, s.start)
    <3>1. ASSUME NEW e \in Entry, NEW rest, Parsed(e, rest, docs, clock)
          PROVE  Overtaken(e, rest, L, seen, s.start, docs)
      BY <1>0, <2>1, <2>3, <3>1, BeginOvertaken
    <3>2. Overtaken(cache, {}, L, seen, s.start, docs)
      BY <1>0, <3>1 DEF ServedInv
    <3>3. ASSUME NEW u \in Workers, req[u].step = "parse"
          PROVE  Overtaken(req[u].entry, req[u].todo, L, seen, s.start, docs)
      <4>1. Parsed(req[u].entry, req[u].todo, docs, clock)
        BY <3>3 DEF ServedInv, Asked
      <4> QED BY <1>0, <3>1, <4>1
    <3> QED BY <3>2, <3>3 DEF AllOvertaken
  <2>6. Listed(s.entry.kb) = {}
    BY <1>3, NoneTyped DEF NoKb, Listed
  <2>7. /\ docs' = docs /\ clock' = clock /\ writes' = writes
        /\ s.start <= writes /\ s.entry.at <= clock
    BY <1>0, <1>1, <1>3
  <2> QED BY <1>3, <1>5, <2>4, <2>5, <2>6, <2>7, AskedGoesOn
<1> QED BY <1>1, <1>2, <1>4, <1>5 DEF Moves

LEMMA FailAsked ==
  ASSUME ServedInv, [Next]_vars, NEW v \in Workers, NEW kind \in Outcomes,
         Moves(v, Fails(req[v], kind))
  PROVE  Asked(v)'
<1>1. req[v] \in Request /\ Asked(v)
  BY InvFacts DEF ServedInv
<1>2. /\ Fails(req[v], kind) \in Request /\ Fails(req[v], kind).step = "done"
      /\ Fails(req[v], kind).start = req[v].start /\ Fails(req[v], kind).entry = req[v].entry
  BY <1>1, FailsFacts
<1>3. req'[v] = Fails(req[v], kind)
  BY DEF Moves
<1> QED BY <1>1, <1>2, <1>3, AskedEnds DEF Asked

LEMMA StatAsked ==
  ASSUME ServedInv, [Next]_vars, Types', NEW v \in Workers, Stat(v)
  PROVE  Asked(v)'
<1>0. Types /\ TypeOK /\ req[v] \in Request /\ Asked(v) /\ clock \in Nat
  BY InvFacts DEF ServedInv, Types
<1>1. /\ req[v].step = "stat" /\ UNCHANGED <<docs, clock, writes>>
      /\ \/ \E d \in req[v].todo : docs[d].here /\ Moves(v, LookAt(req[v], d))
         \/ Moves(v, Fails(req[v], "os"))
  BY <1>0, StatMoves
<1>2. ASSUME NEW d \in req[v].todo, docs[d].here, Moves(v, LookAt(req[v], d)) PROVE Asked(v)'
  <2>1. d \in DocIds
    BY <1>0 DEF Request
  <2>2. PICK s \in Request : s = LookAt(req[v], d)
    BY <1>0, <2>1, LookFacts
  <2>3. /\ s.step = "stat" /\ s.start = req[v].start
        /\ s.entry.at = req[v].entry.at /\ s.entry.kb = req[v].entry.kb
    BY <1>0, <1>1, <2>1, <2>2, LookFacts
  <2>4. PICK L \in SUBSET DocIds, seen \in [DocIds -> 0..clock] :
          Looked(req[v], L, seen, docs) /\ AllOvertaken(L, seen, req[v].start)
    BY <1>0, <1>1 DEF Asked
  <2>5. Looked(s, L, seen, docs)
    BY <1>0, <1>1, <1>2, <2>2, <2>4, LookAtLooked
  <2>6. s.start <= writes /\ s.entry.at <= clock /\ Listed(s.entry.kb) = {}
    BY <1>0, <1>1, <2>3 DEF Asked
  <2>7. AllOvertaken(L, seen, s.start)
    BY <2>3, <2>4
  <2>8. req'[v] = s
    BY <1>2, <2>2 DEF Moves
  <2> QED BY <1>0, <1>1, <2>3, <2>5, <2>6, <2>7, <2>8, AskedGoesOn
<1>3. ASSUME Moves(v, Fails(req[v], "os")) PROVE Asked(v)'
  BY <1>3, FailAsked DEF Outcomes
<1> QED BY <1>1, <1>2, <1>3

LEMMA CompareAsked ==
  ASSUME ServedInv, [Next]_vars, Types', NEW v \in Workers, Compare(v)
  PROVE  Asked(v)'
<1>0. /\ Types /\ TypeOK /\ req[v] \in Request /\ Asked(v) /\ clock \in Nat
      /\ docs \in [DocIds -> File] /\ req[v].entry \in Entry
  BY InvFacts DEF ServedInv, Types
<1>1. /\ req[v].step = "stat" /\ req[v].todo = {} /\ UNCHANGED <<docs, clock, writes>>
      /\ \/ Moves(v, Hit(req[v])) /\ Hit(req[v]).step = "done" /\ Hit(req[v]).entry = cache
            /\ Hit(req[v]).start = req[v].start
         \/ /\ Moves(v, Listing(req[v]))
            /\ Listing(req[v]).step = "parse" /\ Listing(req[v]).entry = req[v].entry
            /\ Listing(req[v]).start = req[v].start /\ Listing(req[v]).todo = Glob
  BY <1>0, CompareMoves
<1>2. ASSUME req'[v] \in Request, req'[v].step = "done", req'[v].entry = cache,
             req'[v].start = req[v].start
      PROVE  Asked(v)'
  <2>1. cache.at <= clock
    BY DEF ServedInv, Parsed
  <2> QED BY <1>0, <1>2, <2>1, AskedEnds DEF Asked
<1>3. ASSUME req'[v] \in Request, req'[v].step = "parse", req'[v].entry = req[v].entry,
             req'[v].start = req[v].start, req'[v].todo = Glob
      PROVE  Asked(v)'
  <2>1. PICK s \in Request : s = req'[v]
    BY <1>3
  <2>2. PICK L \in SUBSET DocIds, seen \in [DocIds -> 0..clock] :
          Looked(req[v], L, seen, docs) /\ AllOvertaken(L, seen, req[v].start)
    BY <1>0, <1>1 DEF Asked
  <2>3. Unseen(req[v]) = {} /\ Unseen(s) = {}
    BY <1>1, <1>3, <2>1 DEF Unseen
  <2>4. Looked(s, L, seen, docs)
    BY <1>3, <2>1, <2>2, <2>3 DEF Looked
  <2>5. Listed(s.entry.kb) = {} /\ s.entry.at <= clock /\ s.start <= writes
    BY <1>0, <1>1, <1>3, <2>1 DEF Asked
  <2>6. Parsed(s.entry, s.todo, docs, clock)
    BY <1>3, <2>1, <2>5 DEF Parsed, Glob, Listed
  <2>7. Behind(s.entry, s.start, docs)
    BY <2>5 DEF Behind, Listed
  <2> QED BY <1>0, <1>1, <1>3, <2>1, <2>2, <2>4, <2>5, <2>6, <2>7, AskedGoesOn
<1> QED BY <1>1, <1>2, <1>3 DEF Moves

LEMMA ParseAsked ==
  ASSUME ServedInv, [Next]_vars, Types', NEW v \in Workers, Parse(v)
  PROVE  Asked(v)'
<1>0. /\ Types /\ TypeOK /\ req[v] \in Request /\ Asked(v) /\ clock \in Nat
      /\ docs \in [DocIds -> File] /\ req[v].entry \in Entry
  BY InvFacts DEF ServedInv, Types
<1>1. /\ req[v].step = "parse" /\ UNCHANGED <<docs, clock, writes>>
      /\ \/ \E d \in req[v].todo : docs[d].here /\ Moves(v, ParseOne(req[v], d))
         \/ Moves(v, Fails(req[v], "os"))
  BY <1>0, ParseMoves
<1>2. ASSUME NEW d \in req[v].todo, docs[d].here, Moves(v, ParseOne(req[v], d)) PROVE Asked(v)'
  <2>1. d \in DocIds
    BY <1>0 DEF Request
  <2>2. PICK s \in Request : s = ParseOne(req[v], d)
    BY <1>0, <2>1, ParseFacts
  <2>3. /\ s.step = "parse" /\ s.start = req[v].start /\ s.todo = req[v].todo \ {d}
        /\ s.entry.at = req[v].entry.at /\ s.entry.print = req[v].entry.print
        /\ s.entry.kb = [req[v].entry.kb EXCEPT ![d] = docs[d]]
    BY <1>0, <1>1, <2>1, <2>2, ParseFacts
  <2>4. PICK L \in SUBSET DocIds, seen \in [DocIds -> 0..clock] :
          Looked(req[v], L, seen, docs) /\ AllOvertaken(L, seen, req[v].start)
    BY <1>0, <1>1 DEF Asked
  <2>5. Looked(s, L, seen, docs)
    BY <1>1, <2>3, <2>4 DEF Looked, Unseen
  <2>6. s.start <= writes /\ s.entry.at <= clock /\ s.entry \in Entry
    BY <1>0, <2>3 DEF Asked, Request
  <2>7. AllOvertaken(L, seen, s.start)
    BY <2>3, <2>4
  <2>8. req'[v] = s
    BY <1>2, <2>2 DEF Moves
  <2>9. Parsed(s.entry, s.todo, docs, clock) /\ Behind(s.entry, s.start, docs)
    <3>1. Parsed(req[v].entry, req[v].todo, docs, clock) /\ Behind(req[v].entry, req[v].start, docs)
      BY <1>0, <1>1 DEF Asked
    <3>2. Parsed(s.entry, req[v].todo \ {d}, docs, clock) /\ Behind(s.entry, req[v].start, docs)
      <4>1. /\ docs \in [DocIds -> File] /\ req[v].entry \in Entry /\ s.entry \in Entry
            /\ d \in req[v].todo /\ d \in DocIds /\ docs[d].here
            /\ s.entry.kb = [req[v].entry.kb EXCEPT ![d] = docs[d]]
            /\ s.entry.at = req[v].entry.at
        BY <1>0, <1>2, <2>1, <2>3, <2>6
      <4> QED BY ONLY <3>1, <4>1, ParseParsed
    <3> QED BY <2>3, <3>2
  <2> QED BY <1>0, <1>1, <2>3, <2>5, <2>6, <2>7, <2>8, <2>9, AskedGoesOn
<1>3. ASSUME Moves(v, Fails(req[v], "os")) PROVE Asked(v)'
  BY <1>3, FailAsked DEF Outcomes
<1> QED BY <1>1, <1>2, <1>3

LEMMA EndAsked ==
  ASSUME ServedInv, [Next]_vars, NEW v \in Workers, Keep(v) \/ Refuse(v) \/ Return(v)
  PROVE  Asked(v)'
<1>0. Types /\ req[v] \in Request /\ Asked(v) /\ writes \in Nat /\ clock \in Nat
  BY InvFacts DEF ServedInv
<1>1. CASE Keep(v)
  BY <1>0, <1>1, KeepMoves, AskedEnds DEF Asked, Moves
<1>2. CASE Refuse(v)
  BY <1>0, <1>2, RefuseMoves, FailAsked DEF Outcomes
<1>3. CASE Return(v)
  <2>1. PICK said : Moves(v, Told(said)) /\ Told(said).step = "idle"
    BY <1>0, <1>3, ReturnMoves
  <2>2. Told(said).start = 0 /\ Told(said).entry = NoEntry
    BY NoneTyped DEF Told, NoRequest
  <2>3. req'[v] \in Request /\ req'[v].step = "idle" /\ req'[v].start = 0 /\ req'[v].entry.at = 0
    BY <2>1, <2>2, NoneTyped DEF Moves
  <2> QED BY <1>0, <2>3, AskedEnds
<1> QED BY <1>1, <1>2, <1>3

\* A request that answers did so, or has parsed all it listed, or was given
\* what is kept.
LEMMA AnsweringFrom ==
  ASSUME ServedInv, [Next]_vars, NEW v \in Workers, Answering(v)'
  PROVE  \/ Stays(v)
         \/ /\ docs' = docs /\ req[v].step = "parse" /\ req[v].todo = {}
            /\ req'[v].entry = req[v].entry /\ req'[v].start = req[v].start
         \/ /\ docs' = docs /\ req[v].step = "stat" /\ req[v].todo = {}
            /\ cache.print = req[v].entry.print
            /\ req'[v].entry = cache /\ req'[v].start = req[v].start
<1> USE DEF Stays
<1>0. Types /\ req'[v].step = "done" /\ req'[v].outcome = "answer"
      /\ \A u \in Workers : req[u] \in Request
  BY InvFacts DEF Answering
<1>1. ASSUME NEW w \in Workers, NEW s, Moves(w, s), s.step # "done" \/ s.outcome # "answer"
      PROVE  req'[v] = req[v]
  BY <1>0, <1>1 DEF Moves
<1>2. ASSUME NEW w \in Workers, NEW r \in Request, NEW kind \in {"lookup", "config", "os", "value"},
             Moves(w, Fails(r, kind))
      PROVE  req'[v] = req[v]
  <2>1. kind \in Outcomes /\ kind # "answer"
    BY <1>2 DEF Outcomes
  <2> QED BY <1>1, <1>2, <2>1, FailsFacts
<1>3. ASSUME NEW w \in Workers, NEW name, Ask(w, name) PROVE req'[v] = req[v]
  <2>1. AskFor \in Request /\ AskFor.step # "done"
    BY <1>0, AskFacts DEF Types
  <2> QED BY <1>0, <1>1, <1>2, <1>3, <2>1, AskMoves
<1>4. ASSUME NEW w \in Workers, Stat(w) PROVE req'[v] = req[v]
  <2>1. ASSUME NEW d \in req[w].todo PROVE LookAt(req[w], d).step = req[w].step
    <3>1. d \in DocIds
      BY <1>0, <2>1 DEF Request
    <3> QED BY <1>0, <3>1, LookFacts DEF Types
  <2> QED BY <1>0, <1>1, <1>2, <1>4, <2>1, StatMoves
<1>5. ASSUME NEW w \in Workers, Compare(w)
      PROVE  \/ req'[v] = req[v]
             \/ /\ docs' = docs /\ req[v].step = "stat" /\ req[v].todo = {}
                /\ cache.print = req[v].entry.print
                /\ req'[v].entry = cache /\ req'[v].start = req[v].start
  <2>1. CASE w # v
    BY <1>0, <1>5, <2>1, CompareMoves DEF Moves
  <2>2. CASE w = v
    BY <1>0, <1>5, <2>2, CompareMoves DEF Moves
  <2> QED BY <2>1, <2>2
<1>6. ASSUME NEW w \in Workers, Parse(w) PROVE req'[v] = req[v]
  <2>1. ASSUME NEW d \in req[w].todo PROVE ParseOne(req[w], d).step = req[w].step
    <3>1. d \in DocIds
      BY <1>0, <2>1 DEF Request
    <3> QED BY <1>0, <3>1, ParseFacts DEF Types
  <2> QED BY <1>0, <1>1, <1>2, <1>6, <2>1, ParseMoves
<1>7. ASSUME NEW w \in Workers, Keep(w)
      PROVE  \/ req'[v] = req[v]
             \/ /\ docs' = docs /\ req[v].step = "parse" /\ req[v].todo = {}
                /\ req'[v].entry = req[v].entry /\ req'[v].start = req[v].start
  <2>1. CASE w # v
    BY <1>0, <1>7, <2>1, KeepMoves DEF Moves
  <2>2. CASE w = v
    BY <1>0, <1>7, <2>2, KeepMoves DEF Moves
  <2> QED BY <2>1, <2>2
<1>8. ASSUME NEW w \in Workers, Refuse(w) PROVE req'[v] = req[v]
  BY <1>0, <1>2, <1>8, RefuseMoves
<1>9. ASSUME NEW w \in Workers, Return(w) PROVE req'[v] = req[v]
  <2>1. PICK s : Moves(w, s) /\ s.step = "idle"
    BY <1>0, <1>9, ReturnMoves
  <2> QED BY <1>1, <2>1
<1>10. ASSUME Tick \/ Unmount \/ (\E d \in DocIds : WriteDoc(d) \/ RemoveDoc(d)) \/ UNCHANGED vars
       PROVE  req'[v] = req[v]
  BY <1>10 DEF Tick, Unmount, WriteDoc, RemoveDoc, Writes, vars
<1> QED BY <1>3, <1>4, <1>5, <1>6, <1>7, <1>8, <1>9, <1>10 DEF Next

AnswerCurrent(r, files) ==
  r.step = "done" /\ r.outcome = "answer" => Excused(r.entry) \/ Current(r.entry, r.start, files)

LEMMA AnswersSay == AnswersCurrent <=> \A w \in Workers : AnswerCurrent(req[w], docs)
BY DEF AnswersCurrent, AnswerCurrent, Answering, Excused, Current

LEMMA AnswersSayNext == AnswersCurrent' <=> \A w \in Workers : AnswerCurrent(req'[w], docs')
BY DEF AnswersCurrent, AnswerCurrent, Answering, Excused, Tied, Torn, Current, PrintOf, Listed

LEMMA AnswersStep ==
  ASSUME ServedInv, [Next]_vars, Types'
  PROVE  AnswersCurrent'
<1> SUFFICES ASSUME NEW w \in Workers, Answering(w)', ~Excused(req'[w].entry)
             PROVE  Current(req'[w].entry, req'[w].start, docs')
  BY AnswersSayNext DEF AnswerCurrent, Answering
<1>0. /\ Types /\ docs \in [DocIds -> File] /\ docs' \in [DocIds -> File] /\ writes \in Nat
      /\ clock \in Nat /\ Later(docs, docs', clock, writes) /\ cache \in Entry
      /\ req[w] \in Request /\ req[w].entry \in Entry /\ req[w].start \in Nat
      /\ req[w].start <= writes /\ Asked(w)
  BY InvFacts, StepsLater DEF Types, TypeOK, ServedInv
<1>1. CASE Stays(w)
  <2>1. req'[w] = req[w] /\ AnswerCurrent(req[w], docs)
    BY <1>1, AnswersSay DEF ServedInv, Stays
  <2>2. Current(req[w].entry, req[w].start, docs)
    BY <2>1 DEF AnswerCurrent, Answering
  <2>3. Current(req[w].entry, req[w].start, docs')
    BY <1>0, <2>2, CurrentLater
  <2> QED BY <2>1, <2>3
<1>2. CASE /\ docs' = docs /\ req[w].step = "parse" /\ req[w].todo = {}
           /\ req'[w].entry = req[w].entry /\ req'[w].start = req[w].start
  <2>1. PICK L \in SUBSET DocIds, seen \in [DocIds -> 0..clock] : Looked(req[w], L, seen, docs)
    BY <1>0, <1>2 DEF Asked
  <2>2. Parsed(req[w].entry, {}, docs, clock) /\ Behind(req[w].entry, req[w].start, docs)
    BY <1>0, <1>2 DEF Asked
  <2>3. ~Excused(req[w].entry)
    BY <1>2
  <2>4. Current(req[w].entry, req[w].start, docs)
    BY <1>0, <1>2, <2>1, <2>2, <2>3, FreshAnswer
  <2> QED BY <1>2, <2>4
<1>3. CASE /\ docs' = docs /\ req[w].step = "stat" /\ req[w].todo = {}
           /\ cache.print = req[w].entry.print
           /\ req'[w].entry = cache /\ req'[w].start = req[w].start
  <2>1. PICK L \in SUBSET DocIds, seen \in [DocIds -> 0..clock] :
          Looked(req[w], L, seen, docs) /\ AllOvertaken(L, seen, req[w].start)
    BY <1>0, <1>3 DEF Asked
  <2>2. Overtaken(cache, {}, L, seen, req[w].start, docs) /\ Parsed(cache, {}, docs, clock)
    BY <2>1 DEF AllOvertaken, ServedInv
  <2>3. ~Excused(cache)
    BY <1>3
  <2>4. Current(cache, req[w].start, docs)
    BY <1>0, <1>3, <2>1, <2>2, <2>3, CachedAnswer
  <2> QED BY <1>3, <2>4
<1> QED BY <1>1, <1>2, <1>3, AnsweringFrom

LEMMA CacheStep ==
  ASSUME ServedInv, [Next]_vars, Types'
  PROVE  Parsed(cache', {}, docs', clock')
<1>0. /\ docs \in [DocIds -> File] /\ docs' \in [DocIds -> File] /\ clock \in Nat
      /\ clock' \in Nat /\ clock' >= clock /\ Later(docs, docs', clock, writes)
      /\ cache \in Entry /\ \A w \in Workers : req[w].entry \in Entry
  BY InvFacts, StepsLater DEF Types, TypeOK
<1>1. CASE cache' = cache
  <2>1. Parsed(cache, {}, docs, clock)
    BY DEF ServedInv
  <2> QED BY <1>0, <1>1, <2>1, ParsedLater
<1>2. ASSUME NEW u \in Workers, req[u].step = "parse", req[u].todo = {}, cache' = req[u].entry
      PROVE  Parsed(cache', {}, docs', clock')
  <2>1. Parsed(req[u].entry, {}, docs, clock)
    BY <1>2 DEF ServedInv, Asked
  <2>2. Parsed(req[u].entry, {}, docs', clock')
    BY <1>0, <2>1, ParsedLater
  <2> QED BY <1>2, <2>2
<1> QED BY <1>1, <1>2, CacheFrom

LEMMA ServedInit == Init => ServedInv
<1> SUFFICES ASSUME Init PROVE ServedInv
  OBVIOUS
<1>1. Types /\ (\A d \in DocIds : docs[d].n = 0 /\ docs[d].time = 0)
  BY ServedTypeInit, InitDocs
<1>2. clock = 1 /\ writes = 0 /\ cache = NoEntry /\ \A w \in Workers : req[w] = NoRequest
  BY DEF Init
<1>3. Listed(NoEntry.kb) = {} /\ NoEntry.at = 0 /\ NoRequest.step = "idle"
      /\ NoRequest.start = 0 /\ NoRequest.entry = NoEntry
  BY NoneTyped DEF NoKb, Listed, NoRequest
<1>4. Parsed(cache, {}, docs, clock)
  BY <1>2, <1>3 DEF Parsed
<1>5. AnswersCurrent
  BY <1>2, <1>3 DEF AnswersCurrent, Answering
<1>6. \A w \in Workers : Asked(w)
  BY <1>2, <1>3 DEF Asked
<1> QED BY <1>1, <1>2, <1>4, <1>5, <1>6 DEF ServedInv

LEMMA ServedStep == ServedInv /\ [Next]_vars => ServedInv'
<1> SUFFICES ASSUME ServedInv, [Next]_vars PROVE ServedInv'
  OBVIOUS
<1>1. Types'
  BY ServedTypeStep DEF ServedInv
<1>2. AnswersCurrent' /\ Parsed(cache', {}, docs', clock')
  BY <1>1, AnswersStep, CacheStep
<1>3. \A d \in DocIds : docs'[d].n <= writes' /\ docs'[d].time <= clock'
  BY StepsLater
<1>4. ASSUME NEW v \in Workers PROVE Asked(v)'
  <2>1. CASE req'[v] = req[v]
    BY <1>1, <2>1, AskedStays
  <2>2. ASSUME NEW w \in Workers, req'[v] # req[v], \/ \E name \in {"this", "none", "other"} : Ask(w, name)
                                                    \/ Stat(w) \/ Compare(w) \/ Parse(w) \/ Keep(w) \/ Return(w) \/ Refuse(w)
        PROVE  w = v
    BY <2>2 DEF Ask, Stat, Compare, Parse, Keep, Return, Refuse, Goes, ServedInv, Types
  <2>3. ASSUME Tick \/ Unmount \/ (\E d \in DocIds : WriteDoc(d) \/ RemoveDoc(d)) \/ UNCHANGED vars
        PROVE  req'[v] = req[v]
    BY <2>3 DEF Tick, Unmount, WriteDoc, RemoveDoc, Writes, vars
  <2>4. CASE \/ \E name \in {"this", "none", "other"} : Ask(v, name)
             \/ Stat(v) \/ Compare(v) \/ Parse(v) \/ Keep(v) \/ Return(v) \/ Refuse(v)
    BY <1>1, <2>4, AskAsked, StatAsked, CompareAsked, ParseAsked, EndAsked
  <2> QED BY <2>1, <2>2, <2>3, <2>4 DEF Next
<1> QED BY <1>1, <1>2, <1>3, <1>4 DEF ServedInv

\* What a request answers with is current: every document that no command has
\* touched since the request began is in it as it is on file, be the answer
\* parsed for it or taken from the cache, however the requests and the writers
\* interleave (KBCache.get).
THEOREM AnswersCurrentHolds == Spec => []AnswersCurrent
<1>1. ServedInv => AnswersCurrent
  BY DEF ServedInv
<1> QED BY <1>1, ServedInit, ServedStep, PTL DEF Spec
===============================================================================
