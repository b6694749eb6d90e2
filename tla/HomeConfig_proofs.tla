-------------------------- MODULE HomeConfig_proofs --------------------------
(***************************************************************************)
(* What holds of the home file for every number of processes, keys and     *)
(* commands: nothing is lost but to overlapping writes, bindings are not   *)
(* replaced unasked, a name means one store, and directories stay with     *)
(* theirs.  The invariant says of the copy a command holds that it agrees  *)
(* with what the commands last wrote, in every key that was not written    *)
(* since the copy was read and that is not exposed already.                *)
(***************************************************************************)
EXTENDS HomeConfig, Integers, FiniteSetTheorems, TLAPS

\* The values a key may be given.
Settable(k, v) ==
  \/ k \in UserKeys /\ v \in Values \cup {Unset}
  \/ k \in Names /\ v \in Entries \cup {Unset}

\* A job that is under way: what it sets, and what its copy says.
Typed(j) ==
  /\ j \in Job
  /\ j.step # "end" => Settable(j.key, j.value)
  /\ j.op = "bind" \/ j.step = "check" => j.key \in Names
  /\ j.op = "gitName" => j.key = "name" /\ j.value = GitUser["name"]

Agrees(j) ==
  /\ j.readAt <= writes
  /\ j.step \in {"check", "write"} =>
       \A x \in Keys \ exposed :
         wroteAt[x] <= j.readAt /\ (x # j.key \/ j.step = "check")
           => ValueOf(j.data, x) = acked[x]
  /\ j.step = "write" => ValueOf(j.data, j.key) = j.value

HomeInv == TypeOK /\ LostOnlyToOverlap /\ \A p \in Procs : Typed(job[p]) /\ Agrees(job[p])

-----------------------------------------------------------------------------
(* Least numbers and smallest sets                                         *)

\* The least number for which something fails.
LEMMA LeastBad ==
  ASSUME NEW Bad \in SUBSET Nat, Bad # {}
  PROVE  \E n \in Bad : \A k \in Bad : n <= k
<1>1. \E n \in Bad : \A k \in Bad : ~(<<k, n>> \in OpToRel(<, Nat))
  BY NatLessThanWellFounded, WFMin
<1>2. PICK n \in Bad : \A k \in Bad : ~(<<k, n>> \in OpToRel(<, Nat))
  BY <1>1
<1>3. \A k \in Bad : ~(k < n)
  BY <1>2 DEF OpToRel
<1> QED BY <1>3

\* There is a smallest set for which something fails.
LEMMA SmallestSubset ==
  ASSUME NEW S, IsFiniteSet(S), NEW Bad \in SUBSET SUBSET S, Bad # {}
  PROVE  \E T \in Bad : \A U \in Bad : U \subseteq T => U = T
<1>1. IsWellFoundedOn(StrictSubsetOrdering(S), SUBSET S)
  BY FS_StrictSubsetOrderingWellFounded, FS_FiniteSubsetsOfFinite
<1>2. \E T \in Bad : \A U \in Bad : ~(<<U, T>> \in StrictSubsetOrdering(S))
  BY <1>1, WFMin
<1> QED BY <1>2 DEF StrictSubsetOrdering

-----------------------------------------------------------------------------
(* The file and its copies. *)

\* An edited copy has the value in its key, and the old ones in the others.
LEMMA EditedValues ==
  ASSUME NEW h \in HomeFile, NEW k, NEW v, Settable(k, v)
  PROVE  /\ Edited(h, k, v) \in HomeFile
         /\ ValueOf(Edited(h, k, v), k) = v
         /\ \A x \in Keys \ {k} : ValueOf(Edited(h, k, v), x) = ValueOf(h, x)
<1>1. CASE k \in UserKeys
  <2>1. v \in Values \cup {Unset} /\ k \notin Names
    BY <1>1, DistinctPlaces DEF Settable
  <2>2. Edited(h, k, v) = [h EXCEPT !.user = [h.user EXCEPT ![k] = v]]
    BY <1>1 DEF Edited
  <2>3. [h.user EXCEPT ![k] = v] \in [UserKeys -> Values \cup {Unset}]
    BY <2>1 DEF HomeFile
  <2>4. Edited(h, k, v) \in HomeFile
    BY <2>2, <2>3 DEF HomeFile
  <2>5. /\ Edited(h, k, v).user = [h.user EXCEPT ![k] = v]
        /\ Edited(h, k, v).stores = h.stores
    BY <2>2 DEF HomeFile
  <2> QED BY <1>1, <2>4, <2>5 DEF ValueOf, HomeFile
<1>2. CASE k \in Names
  <2>1. v \in Entries \cup {Unset} /\ k \notin UserKeys
    BY <1>2, DistinctPlaces DEF Settable
  <2>2. Edited(h, k, v) =
          [h EXCEPT !.store = Unset, !.stores = [h.stores EXCEPT ![k] = v]]
    BY <2>1 DEF Edited
  <2>3. [h.stores EXCEPT ![k] = v] \in [Names -> Entries \cup {Unset}]
    BY <2>1 DEF HomeFile
  <2>4. Edited(h, k, v) \in HomeFile
    BY <2>2, <2>3 DEF HomeFile
  <2>5. /\ Edited(h, k, v).stores = [h.stores EXCEPT ![k] = v]
        /\ Edited(h, k, v).user = h.user
    BY <2>2 DEF HomeFile
  <2> QED BY <1>2, <2>1, <2>4, <2>5 DEF ValueOf, HomeFile, Keys
<1> QED BY <1>1, <1>2 DEF Settable

\* What is written has the values of the copy.
LEMMA DumpValues ==
  ASSUME NEW h \in HomeFile
  PROVE  /\ Dump(h) \in HomeFile /\ Dump(h).store = Unset
         /\ \A x \in Keys : ValueOf(Dump(h), x) = ValueOf(h, x)
  BY DEF Dump, HomeFile, ValueOf

LEMMA IdleTyped ==
  Typed(Idle) /\ Idle.step = "end" /\ Idle.readAt = 0 /\ Idle.checkedAt = 0
  BY FilesType, DistinctPlaces DEF Idle, Typed, Job

\* A command that starts sets what may be set, and has read nothing.
LEMMA StartTyped ==
  ASSUME HomeInv, NEW p \in Procs, NEW k, NEW v, Settable(k, v), NEW force \in BOOLEAN,
         NEW op \in {"set", "bind", "bootstrap", "gitName", "email"},
         op = "bind" => k \in Names,
         op = "gitName" => k = "name" /\ v = GitUser["name"],
         Start(p, op, k, v, force)
  PROVE  \E j : /\ Typed(j) /\ Agrees(j) /\ j.step = "read" /\ j.readAt = 0
                /\ j.checkedAt = 0 /\ j.op = op /\ j.key = k /\ j.value = v
                /\ job' = [job EXCEPT ![p] = j]
<1> DEFINE j == [Idle EXCEPT !.op = op, !.step = "read", !.key = k, !.value = v,
                             !.force = force]
<1>1. k \in Keys \cup {Unset} /\ v \in Values \cup Entries \cup {Unset}
  BY DEF Settable, Keys
<1>2. Idle \in Job
  BY IdleTyped DEF Typed
<1>3. /\ j \in Job /\ j.op = op /\ j.step = "read" /\ j.key = k /\ j.value = v
      /\ j.readAt = Idle.readAt /\ j.checkedAt = Idle.checkedAt
  BY <1>1, <1>2, ZenonT(60) DEF Job
<1>4. job' = [job EXCEPT ![p] = j]
  BY DEF Start
<1> HIDE DEF j
<1>5. Typed(j) /\ j.readAt = 0 /\ j.checkedAt = 0
  BY <1>3, IdleTyped DEF Typed
<1>6. Agrees(j)
  BY <1>3, <1>5 DEF Agrees, HomeInv, TypeOK
<1> QED BY <1>3, <1>4, <1>5, <1>6

-----------------------------------------------------------------------------
(* Steps that leave the file alone. *)

LEMMA JobKeepsInv ==
  ASSUME HomeInv, NEW p \in Procs, NEW j, Typed(j), Agrees(j),
         job' = [job EXCEPT ![p] = j],
         UNCHANGED <<home, writes, Ghosts>>, markers' \in [Dirs -> Marker],
         {commands', edits', crashes'} \subseteq Nat
  PROVE  HomeInv'
<1>1. TypeOK'
  BY DEF HomeInv, TypeOK, Typed, Ghosts
<1>2. LostOnlyToOverlap'
  BY DEF HomeInv, LostOnlyToOverlap, Ghosts, ValueOf
<1>3. ASSUME NEW q \in Procs PROVE Typed(job'[q]) /\ Agrees(job'[q])
  BY DEF HomeInv, TypeOK
<1>4. \A q \in Procs : Agrees(job'[q]) => Agrees(job[q])'
  BY DEF Agrees, Ghosts, ValueOf
<1> QED BY <1>1, <1>2, <1>3, <1>4 DEF HomeInv, Typed

LEMMA EndKeepsInv ==
  ASSUME HomeInv, NEW p \in Procs, End(p), UNCHANGED <<home, writes, Ghosts>>,
         markers' \in [Dirs -> Marker], {commands', edits', crashes'} \subseteq Nat
  PROVE  HomeInv'
<1>1. Agrees(Idle)
  BY IdleTyped DEF Agrees, HomeInv, TypeOK
<1> QED BY <1>1, IdleTyped, JobKeepsInv DEF End

LEMMA StartKeepsInv ==
  ASSUME HomeInv, NEW p \in Procs, NEW k, NEW v, Settable(k, v), NEW force \in BOOLEAN,
         NEW op \in {"set", "bind", "bootstrap", "gitName", "email"},
         op = "bind" => k \in Names,
         op = "gitName" => k = "name" /\ v = GitUser["name"],
         Start(p, op, k, v, force), UNCHANGED <<home, writes, Ghosts>>,
         markers' \in [Dirs -> Marker], {commands', edits', crashes'} \subseteq Nat
  PROVE  HomeInv'
<1>1. PICK j : Typed(j) /\ Agrees(j) /\ job' = [job EXCEPT ![p] = j]
  BY StartTyped
<1> QED BY <1>1, JobKeepsInv

\* A command given: each command line names keys and values that may be set.
LEMMA IssueKeepsInv ==
  ASSUME HomeInv, NEW p \in Procs, NEW c \in Commands, Issue(p, c)
  PROVE  HomeInv'
<1>1. /\ UNCHANGED <<home, writes, Ghosts>> /\ markers' \in [Dirs -> Marker]
      /\ {commands', edits', crashes'} \subseteq Nat
  BY DEF Issue, HomeInv, TypeOK
<1>2. CASE End(p)
  BY <1>1, <1>2, EndKeepsInv
<1>3. CASE Register(p, c) /\ ~End(p)
  <2> DEFINE f == Find[c.at]
             k == IF c.alias = Unset THEN markers[f].name ELSE c.alias
             v == [kind |-> "root", at |-> f, as |-> Unset]
  <2>1. f \in Dirs /\ Registrable(f) /\ Start(p, "bind", k, v, c.force)
    BY <1>3 DEF Register
  <2>2. c.alias \in Names \cup {Unset} /\ c.force \in BOOLEAN
    BY <1>3, CommandsType DEF Register
  <2>3. markers[f].name \in Names
    BY <2>1 DEF Registrable, HomeInv, TypeOK, Marker
  <2>4. k \in Names /\ Settable(k, v)
    BY <2>1, <2>2, <2>3 DEF Settable, Entries, Roots
  <2> HIDE DEF f, k, v
  <2> QED BY <1>1, <2>1, <2>2, <2>4, StartKeepsInv
<1>4. CASE RegisterUrl(p, c)
  <2> DEFINE v == [kind |-> "url", at |-> c.url, as |-> IF c.as = Unset THEN c.name ELSE c.as]
  <2>1. c.name \in Names /\ c.url \in Urls /\ c.as \in Names \cup {Unset} /\ c.force \in BOOLEAN
    BY <1>4, CommandsType DEF RegisterUrl
  <2>2. Settable(c.name, v)
    BY <2>1 DEF Settable, Entries, Hosts
  <2>3. Start(p, "bind", c.name, v, c.force)
    BY <1>4 DEF RegisterUrl
  <2> HIDE DEF v
  <2> QED BY <1>1, <2>1, <2>2, <2>3, StartKeepsInv
<1>5. CASE Forget(p, c)
  <2>1. c.name \in Names /\ Settable(c.name, Unset)
    BY <1>5, CommandsType DEF Forget, Settable
  <2> QED BY <1>1, <1>5, <2>1, StartKeepsInv DEF Forget
<1>6. CASE SetUserKey(p, c)
  <2>1. Settable(c.key, c.value)
    BY <1>6, CommandsType DEF SetUserKey, Settable
  <2> QED BY <1>1, <1>6, <2>1, StartKeepsInv DEF SetUserKey
<1>7. CASE Bootstrap(p, c)
  <2>1. Settable("name", GitUser["name"])
    BY FilesType DEF Settable, UserKeys
  <2> QED BY <1>1, <1>7, <2>1, StartKeepsInv DEF Bootstrap
<1>8. CASE Use(p, c) /\ ~End(p)
  <2> DEFINE f == Find[c.at]
             v == [kind |-> "root", at |-> f, as |-> Unset]
  <2>1. /\ f \in Dirs \cup {Home} /\ Config(f).name # Unset
        /\ Start(p, "bind", Config(f).name, v, FALSE)
    BY <1>8 DEF Use, Files
  <2>2. Config(f).name \in Names
    BY <2>1 DEF Config, HomeInv, TypeOK, Marker, HomeFile
  <2>3. Settable(Config(f).name, v)
    BY <2>1, <2>2 DEF Settable, Entries, Roots
  <2> HIDE DEF f, v
  <2> QED BY <1>1, <2>1, <2>2, <2>3, StartKeepsInv
<1> QED BY <1>2, <1>3, <1>4, <1>5, <1>6, <1>7, <1>8 DEF Issue

\* The copy just read agrees with what was last written.
LEMMA GotoKeepsInv ==
  ASSUME HomeInv, NEW p \in Procs, job[p].step = "read", NEW h \in HomeFile,
         NEW step \in {"check", "write"}, Goto(p, step, h),
         step = "check" => job[p].key \in Names,
         \A x \in Keys : x # job[p].key \/ step = "check" => ValueOf(h, x) = ValueOf(home, x),
         step = "write" => ValueOf(h, job[p].key) = job[p].value,
         UNCHANGED <<home, markers, writes, commands, edits, crashes, Ghosts>>
  PROVE  HomeInv'
<1> DEFINE j == [job[p] EXCEPT !.step = step, !.data = h, !.readAt = writes]
<1>1. job' = [job EXCEPT ![p] = j]
  BY DEF Goto, HomeInv, TypeOK
<1>2. job[p] \in Job /\ writes \in Nat /\ Typed(job[p])
  BY DEF HomeInv, TypeOK
<1>3. /\ j \in Job /\ j.step = step /\ j.data = h /\ j.readAt = writes
      /\ j.op = job[p].op /\ j.key = job[p].key /\ j.value = job[p].value
  BY <1>2 DEF Job
<1> HIDE DEF j
<1>4. Typed(j)
  BY <1>2, <1>3 DEF Typed
<1>5. Agrees(j)
  BY <1>2, <1>3 DEF Agrees, HomeInv, LostOnlyToOverlap
<1> QED BY <1>1, <1>4, <1>5, JobKeepsInv DEF HomeInv, TypeOK

LEMMA ReadKeepsInv ==
  ASSUME HomeInv, NEW p \in Procs,
         ReadToSet(p) \/ ReadToBind(p) \/ ReadToBootstrap(p) \/ ReadToBootstrapName(p)
  PROVE  HomeInv'
<1>1. job[p].step = "read" /\ UNCHANGED <<home, markers, writes, commands, edits, crashes, Ghosts>>
  BY DEF ReadToSet, ReadToBind, ReadToBootstrap, ReadToBootstrapName
<1>2. Settable(job[p].key, job[p].value) /\ Typed(job[p]) /\ home \in HomeFile
  BY <1>1 DEF HomeInv, TypeOK, Typed
<1>3. UNCHANGED <<home, writes, Ghosts>> /\ markers' \in [Dirs -> Marker]
      /\ {commands', edits', crashes'} \subseteq Nat
  BY <1>1 DEF HomeInv, TypeOK
<1>4. CASE End(p)
  BY <1>3, <1>4, EndKeepsInv
<1>5. CASE ReadToSet(p) /\ ~End(p)
  <2>1. Goto(p, "write", Edited(home, job[p].key, job[p].value))
    BY <1>5 DEF ReadToSet
  <2> QED BY <1>1, <1>2, <2>1, EditedValues, GotoKeepsInv
<1>6. CASE ReadToBind(p)
  <2>1. Goto(p, "check", home) /\ job[p].key \in Names
    BY <1>2, <1>6 DEF ReadToBind, Typed
  <2> QED BY <1>1, <1>2, <2>1, GotoKeepsInv
<1>7. CASE ReadToBootstrapName(p)
  <2>1. /\ Goto(p, "write", Edited(home, job[p].key, job[p].value))
    BY <1>2, <1>7 DEF ReadToBootstrapName, Typed
  <2> QED BY <1>1, <1>2, <2>1, EditedValues, GotoKeepsInv
<1>8. CASE ReadToBootstrap(p) /\ ~End(p)
  <2>1. \/ Start(p, "email", "email", GitUser["email"], FALSE)
        \/ Start(p, "gitName", "name", GitUser["name"], FALSE)
    BY <1>8 DEF ReadToBootstrap
  <2>2. Settable("email", GitUser["email"]) /\ Settable("name", GitUser["name"])
    BY FilesType DEF Settable, UserKeys
  <2>3. CASE Start(p, "email", "email", GitUser["email"], FALSE)
    BY <1>3, <2>2, <2>3, StartKeepsInv
  <2>4. CASE Start(p, "gitName", "name", GitUser["name"], FALSE)
    BY <1>3, <2>2, <2>4, StartKeepsInv
  <2> QED BY <2>1, <2>3, <2>4
<1> QED BY <1>4, <1>5, <1>6, <1>7, <1>8

LEMMA CheckKeepsInv ==
  ASSUME HomeInv, NEW p \in Procs, Check(p)
  PROVE  HomeInv'
<1>1. job[p].step = "check" /\ UNCHANGED <<home, writes, Ghosts>>
      /\ markers' \in [Dirs -> Marker] /\ {commands', edits', crashes'} \subseteq Nat
  BY DEF Check, HomeInv, TypeOK
<1>2. CASE End(p)
  BY <1>1, <1>2, EndKeepsInv
<1>3. CASE ~End(p)
  <2> DEFINE h == Edited(job[p].data, job[p].key, job[p].value)
             j == [job[p] EXCEPT !.step = "write", !.checkedAt = writes, !.data = h]
  <2>1. job' = [job EXCEPT ![p] = j]
    BY <1>3 DEF Check, HomeInv, TypeOK
  <2>2. job[p] \in Job /\ writes \in Nat /\ Typed(job[p]) /\ Agrees(job[p])
    BY DEF HomeInv, TypeOK
  <2>3. job[p].data \in HomeFile /\ Settable(job[p].key, job[p].value)
    BY <1>1, <2>2 DEF Typed, Job
  <2>4. /\ h \in HomeFile /\ ValueOf(h, job[p].key) = job[p].value
        /\ \A x \in Keys \ {job[p].key} : ValueOf(h, x) = ValueOf(job[p].data, x)
    BY <2>3, EditedValues
  <2> HIDE DEF h
  <2>5. /\ j \in Job /\ j.step = "write" /\ j.data = h /\ j.readAt = job[p].readAt
        /\ j.op = job[p].op /\ j.key = job[p].key /\ j.value = job[p].value
    BY <2>2, <2>4 DEF Job
  <2> HIDE DEF j
  <2>6. Typed(j)
    BY <1>1, <2>2, <2>5 DEF Typed
  <2>7. Agrees(j)
    BY <1>1, <2>2, <2>4, <2>5 DEF Agrees
  <2> QED BY <1>1, <2>1, <2>6, <2>7, JobKeepsInv
<1> QED BY <1>2, <1>3

-----------------------------------------------------------------------------
(* The write. *)

\* Another command's copy goes on agreeing: the key written counts as written
\* since it was read.
LEMMA OthersAgree ==
  ASSUME HomeInv, NEW p \in Procs, Write(p), NEW q \in Procs
  PROVE  \A j : Agrees(j) /\ j.readAt \in Nat => Agrees(j)'
<1> SUFFICES ASSUME NEW j, Agrees(j), j.readAt \in Nat PROVE Agrees(j)'
  OBVIOUS
<1> DEFINE k == job[p].key
<1>1. writes \in Nat /\ writes' = writes + 1
  BY DEF Write, HomeInv, TypeOK
<1>2. k \in Keys
  BY DEF Write, HomeInv, Typed, Settable, Keys
<1>3. j.readAt <= writes'
  BY <1>1 DEF Agrees
<1>4. ASSUME NEW x \in Keys \ exposed', wroteAt'[x] <= j.readAt
      PROVE  x \notin exposed /\ wroteAt'[x] = wroteAt[x] /\ acked'[x] = acked[x]
  <2>1. x # k
    BY <1>1, <1>2, <1>4 DEF Write, HomeInv, TypeOK, Agrees
  <2> QED BY <1>4, <2>1 DEF Write, HomeInv, TypeOK
<1> QED BY <1>3, <1>4 DEF Agrees, ValueOf

\* The writer ends, or goes on to the address.
LEMMA AfterWrite ==
  ASSUME HomeInv, NEW p \in Procs, Write(p)
  PROVE  \E i : /\ Typed(i) /\ i.step \in {"read", "end"} /\ i.readAt = 0
                /\ i.checkedAt = 0 /\ i.key \notin Names
                /\ job' = [job EXCEPT ![p] = i]
<1>1. CASE End(p)
  BY <1>1, IdleTyped, DistinctPlaces DEF End, Idle
<1>2. CASE ~End(p)
  <2>1. Start(p, "email", "email", GitUser["email"], FALSE)
    BY <1>2 DEF Write
  <2>2. Settable("email", GitUser["email"]) /\ "email" \notin Names
    BY FilesType, DistinctPlaces DEF Settable, UserKeys
  <2> DEFINE v == GitUser["email"]
  <2>3. Start(p, "email", "email", v, FALSE) /\ Settable("email", v)
    BY <2>1, <2>2
  <2> HIDE DEF v
  <2>4. PICK i : /\ Typed(i) /\ i.step = "read" /\ i.readAt = 0
                 /\ i.checkedAt = 0 /\ i.key = "email"
                 /\ job' = [job EXCEPT ![p] = i]
    <3> DEFINE op == "email"
               force == FALSE
    <3>1. /\ Start(p, op, "email", v, force) /\ force \in BOOLEAN
          /\ op \in {"set", "bind", "bootstrap", "gitName", "email"}
          /\ op # "bind" /\ op # "gitName"
      BY <2>3
    <3> HIDE DEF op, force
    <3> QED BY <2>3, <3>1, StartTyped
  <2> QED BY <2>2, <2>4
<1> QED BY <1>1, <1>2

LEMMA WriteKeepsInv ==
  ASSUME HomeInv, NEW p \in Procs, Write(p)
  PROVE  HomeInv'
<1> DEFINE j == job[p]
           k == job[p].key
<1>1. /\ j \in Job /\ j.step = "write" /\ j.data \in HomeFile /\ Typed(j) /\ Agrees(j)
      /\ Settable(k, j.value) /\ k \in Keys
  BY DEF Write, HomeInv, TypeOK, Typed, Job, Settable, Keys
<1>2. /\ home' = Dump(j.data) /\ home' \in HomeFile /\ home'.store = Unset
      /\ \A x \in Keys : ValueOf(home', x) = ValueOf(j.data, x)
  BY <1>1, DumpValues DEF Write
<1>3. LostOnlyToOverlap'
  <2> SUFFICES ASSUME NEW x \in Keys, x \notin exposed' PROVE ValueOf(home', x) = acked'[x]
    BY DEF LostOnlyToOverlap, ValueOf
  <2>1. CASE x = k
    BY <1>1, <1>2, <2>1 DEF Write, HomeInv, TypeOK, Agrees
  <2>2. CASE x # k
    <3>1. x \notin exposed /\ ~(wroteAt[x] > j.readAt) /\ acked'[x] = acked[x]
      BY <2>2 DEF Write, HomeInv, TypeOK
    <3>2. wroteAt[x] <= j.readAt
      BY <1>1, <3>1 DEF HomeInv, TypeOK, Job
    <3> QED BY <1>1, <1>2, <2>2, <3>1, <3>2 DEF Agrees
  <2> QED BY <2>1, <2>2
<1>4. PICK i : /\ Typed(i) /\ i.step \in {"read", "end"} /\ i.readAt = 0
               /\ job' = [job EXCEPT ![p] = i]
  BY AfterWrite
<1>5. TypeOK'
  <2>1. job' \in [Procs -> Job]
    BY <1>4 DEF HomeInv, TypeOK, Typed
  <2>2. acked' \in [Keys -> Values \cup Entries \cup {Unset}]
    BY <1>1 DEF Write, HomeInv, TypeOK, Settable
  <2>3. writes' \in Nat /\ wroteAt' \in [Keys -> Nat]
    <3>1. writes \in Nat /\ wroteAt \in [Keys -> Nat] /\ writes + 1 \in Nat
      BY DEF HomeInv, TypeOK
    <3>2. writes' = writes + 1 /\ wroteAt' = [wroteAt EXCEPT ![k] = writes + 1]
      BY DEF Write
    <3> QED BY <3>1, <3>2
  <2>4. exposed' \subseteq Keys
    BY Zenon DEF Write, HomeInv, TypeOK
  <2> QED BY <1>2, <2>1, <2>2, <2>3, <2>4 DEF Write, HomeInv, TypeOK
<1>6. ASSUME NEW q \in Procs PROVE Typed(job'[q]) /\ Agrees(job[q])'
  <2>1. CASE q = p
    <3>1. job'[q] = i
      BY <1>4, <2>1 DEF HomeInv, TypeOK
    <3> QED BY <1>4, <1>5, <3>1 DEF Agrees, TypeOK
  <2>2. CASE q # p
    <3>1. job'[q] = job[q] /\ Typed(job[q]) /\ Agrees(job[q]) /\ job[q].readAt \in Nat
      BY <1>4, <2>2 DEF HomeInv, TypeOK, Typed, Job
    <3>2. \A x : Agrees(x) /\ x.readAt \in Nat => Agrees(x)'
      BY OthersAgree
    <3> QED BY <3>1, <3>2 DEF Agrees
  <2> QED BY <2>1, <2>2
<1> QED BY <1>3, <1>5, <1>6 DEF HomeInv, Typed

-----------------------------------------------------------------------------

LEMMA InitInv == Init => HomeInv
<1> SUFFICES ASSUME Init PROVE HomeInv
  OBVIOUS
<1>1. \A k \in Keys : ValueOf(InitHome, k) \in Values \cup Entries \cup {Unset}
  BY FilesType DEF ValueOf, Keys, HomeFile
<1>2. TypeOK
  BY <1>1, FilesType, IdleTyped DEF Init, TypeOK, Typed
<1>3. LostOnlyToOverlap
  BY DEF Init, LostOnlyToOverlap
<1>4. \A p \in Procs : Typed(job[p]) /\ Agrees(job[p])
  BY IdleTyped DEF Init, Agrees
<1> QED BY <1>2, <1>3, <1>4 DEF HomeInv

LEMMA NextKeepsInv == HomeInv /\ [Next]_vars => HomeInv'
<1> SUFFICES ASSUME HomeInv, [Next]_vars PROVE HomeInv'
  OBVIOUS
<1>1. ASSUME NEW p \in Procs, Crash(p) PROVE HomeInv'
  <2>1. UNCHANGED <<home, writes, Ghosts>> /\ markers' \in [Dirs -> Marker]
        /\ {commands', edits', crashes'} \subseteq Nat /\ End(p)
    BY <1>1 DEF Crash, HomeInv, TypeOK
  <2> QED BY <2>1, EndKeepsInv
<1>2. ASSUME NEW d \in Dirs, NEW m \in Markers, EditMarker(d, m) PROVE HomeInv'
  <2>1. TypeOK'
    BY <1>2, FilesType DEF EditMarker, HomeInv, TypeOK, Ghosts
  <2> QED BY <1>2, <2>1 DEF EditMarker, HomeInv, Typed, Agrees, LostOnlyToOverlap, Ghosts, ValueOf
<1>3. CASE UNCHANGED vars
  BY <1>3 DEF vars, HomeInv, TypeOK, Typed, Agrees, LostOnlyToOverlap, ValueOf
<1> QED BY <1>1, <1>2, <1>3, IssueKeepsInv, ReadKeepsInv, CheckKeepsInv, WriteKeepsInv DEF Next

\* The home file and the marker files keep their types, and the home file never
\* has a pointer and registered names at once (store.py, toml_flat.py).
THEOREM TypeCorrect == Spec => []TypeOK
<1>1. HomeInv => TypeOK
  BY DEF HomeInv
<1> QED BY <1>1, InitInv, NextKeepsInv, PTL DEF Spec

\* What the home file loses of user keys and bindings it loses to overlapping
\* writes only (set_user_key, set_store_registry_entry, dump_config).
THEOREM LostOnlyToOverlapHolds == Spec => []LostOnlyToOverlap
<1>1. HomeInv => LostOnlyToOverlap
  BY DEF HomeInv
<1> QED BY <1>1, InitInv, NextKeepsInv, PTL DEF Spec
-----------------------------------------------------------------------------
(* What a command's copy is worth if no write fell after it was taken: it is *)
(* the file with the command's change, and a binding that was checked is     *)
(* still free.                                                               *)

Recent(j) ==
  /\ j.checkedAt <= writes
  /\ j.op # "bind" /\ j.key \in Names => j.value = Unset
  /\ j.step = "check" /\ j.readAt = writes => j.data = home
  /\ j.step = "write" /\ j.readAt = writes => j.data = Edited(home, j.key, j.value)
  /\ j.step = "write" /\ j.op = "bind" =>
       /\ j.readAt <= j.checkedAt
       /\ ~j.force /\ j.checkedAt = writes => home.stores[j.key] = Unset

RecentInv == HomeInv /\ \A p \in Procs : Recent(job[p])

LEMMA InitRecent == Init => RecentInv
<1> SUFFICES ASSUME Init PROVE RecentInv
  OBVIOUS
<1>1. Recent(Idle)
  BY IdleTyped, DistinctPlaces DEF Recent, Init, Idle
<1> QED BY <1>1, InitInv DEF Init, RecentInv

LEMMA JobKeepsRecent ==
  ASSUME RecentInv, NEW p \in Procs, NEW j, Recent(j), job' = [job EXCEPT ![p] = j],
         UNCHANGED <<home, writes>>
  PROVE  \A q \in Procs : Recent(job[q])'
  BY DEF RecentInv, HomeInv, TypeOK, Recent

LEMMA EndKeepsRecent ==
  ASSUME RecentInv, NEW p \in Procs, End(p), UNCHANGED <<home, writes>>
  PROVE  \A q \in Procs : Recent(job[q])'
<1>1. Recent(Idle)
  BY IdleTyped, DistinctPlaces DEF Recent, Idle, RecentInv, HomeInv, TypeOK
<1> QED BY <1>1, JobKeepsRecent DEF End

LEMMA StartKeepsRecent ==
  ASSUME RecentInv, NEW p \in Procs, NEW k, NEW v, NEW force, NEW op,
         op # "bind" /\ k \in Names => v = Unset,
         Start(p, op, k, v, force), UNCHANGED <<home, writes>>
  PROVE  \A q \in Procs : Recent(job[q])'
<1> DEFINE j == [Idle EXCEPT !.op = op, !.step = "read", !.key = k, !.value = v,
                             !.force = force]
<1>1. /\ j.op = op /\ j.step = "read" /\ j.key = k /\ j.value = v /\ j.checkedAt = 0
  BY DEF Idle
<1>2. job' = [job EXCEPT ![p] = j]
  BY DEF Start
<1> HIDE DEF j
<1>3. Recent(j)
  BY <1>1 DEF Recent, RecentInv, HomeInv, TypeOK
<1> QED BY <1>2, <1>3, JobKeepsRecent

LEMMA IssueKeepsRecent ==
  ASSUME RecentInv, NEW p \in Procs, NEW c \in Commands, Issue(p, c)
  PROVE  \A q \in Procs : Recent(job[q])'
<1>1. UNCHANGED <<home, writes>>
  BY DEF Issue
<1>2. CASE End(p)
  BY <1>1, <1>2, EndKeepsRecent
<1>3. CASE Register(p, c) \/ RegisterUrl(p, c) \/ Use(p, c)
  <2>1. End(p) \/ \E k, v, force : Start(p, "bind", k, v, force)
    BY <1>3 DEF Register, RegisterUrl, Use
  <2> QED BY <1>1, <1>2, <2>1, StartKeepsRecent
<1>4. CASE Forget(p, c)
  BY <1>1, <1>4, StartKeepsRecent DEF Forget
<1>5. CASE SetUserKey(p, c) \/ Bootstrap(p, c)
  <2>1. CASE SetUserKey(p, c)
    <3>1. c.key \in UserKeys
      BY <2>1, CommandsType DEF SetUserKey
    <3> QED BY <1>1, <2>1, <3>1, DistinctPlaces, StartKeepsRecent DEF SetUserKey
  <2>2. CASE Bootstrap(p, c)
    <3>1. "name" \notin Names
      BY DistinctPlaces DEF UserKeys
    <3> QED BY <1>1, <2>2, <3>1, StartKeepsRecent DEF Bootstrap
  <2> QED BY <1>5, <2>1, <2>2
<1> QED BY <1>2, <1>3, <1>4, <1>5 DEF Issue

LEMMA GotoKeepsRecent ==
  ASSUME RecentInv, NEW p \in Procs, job[p].step = "read", NEW h,
         NEW step \in {"check", "write"}, Goto(p, step, h), UNCHANGED <<home, writes>>,
         step = "check" => h = home,
         step = "write" => job[p].op # "bind" /\ h = Edited(home, job[p].key, job[p].value)
  PROVE  \A q \in Procs : Recent(job[q])'
<1> DEFINE j == [job[p] EXCEPT !.step = step, !.data = h, !.readAt = writes]
<1>1. job' = [job EXCEPT ![p] = j] /\ job[p] \in Job /\ Recent(job[p])
  BY DEF Goto, RecentInv, HomeInv, TypeOK
<1>2. /\ j.step = step /\ j.data = h /\ j.checkedAt = job[p].checkedAt
      /\ j.op = job[p].op /\ j.key = job[p].key /\ j.value = job[p].value
  BY <1>1 DEF Job
<1> HIDE DEF j
<1>3. Recent(j)
  BY <1>1, <1>2 DEF Recent
<1> QED BY <1>1, <1>3, JobKeepsRecent

LEMMA ReadKeepsRecent ==
  ASSUME RecentInv, NEW p \in Procs,
         ReadToSet(p) \/ ReadToBind(p) \/ ReadToBootstrap(p) \/ ReadToBootstrapName(p)
  PROVE  \A q \in Procs : Recent(job[q])'
<1>1. job[p].step = "read" /\ UNCHANGED <<home, writes>>
  BY DEF ReadToSet, ReadToBind, ReadToBootstrap, ReadToBootstrapName
<1>2. CASE End(p)
  BY <1>1, <1>2, EndKeepsRecent
<1>3. CASE ReadToBind(p)
  BY <1>1, <1>3, GotoKeepsRecent DEF ReadToBind
<1>4. CASE ReadToSet(p) /\ ~End(p)
  BY <1>1, <1>4, GotoKeepsRecent DEF ReadToSet
<1>5. CASE ReadToBootstrapName(p)
  <2>1. job[p].key = "name" /\ job[p].value = GitUser["name"]
    BY <1>5 DEF ReadToBootstrapName, RecentInv, HomeInv, Typed
  <2>2. Goto(p, "write", Edited(home, job[p].key, job[p].value)) /\ job[p].op # "bind"
    BY <1>5, <2>1 DEF ReadToBootstrapName
  <2> QED BY <1>1, <2>2, GotoKeepsRecent
<1>6. CASE ReadToBootstrap(p) /\ ~End(p)
  <2>1. \/ Start(p, "email", "email", GitUser["email"], FALSE)
        \/ Start(p, "gitName", "name", GitUser["name"], FALSE)
    BY <1>6 DEF ReadToBootstrap
  <2>2. "name" \notin Names /\ "email" \notin Names
    BY DistinctPlaces DEF UserKeys
  <2> QED BY <1>1, <2>1, <2>2, StartKeepsRecent
<1> QED BY <1>2, <1>3, <1>4, <1>5, <1>6

LEMMA CheckKeepsRecent ==
  ASSUME RecentInv, NEW p \in Procs, Check(p)
  PROVE  \A q \in Procs : Recent(job[q])'
<1>1. job[p].step = "check" /\ UNCHANGED <<home, writes>>
  BY DEF Check
<1>2. CASE End(p)
  BY <1>1, <1>2, EndKeepsRecent
<1>3. CASE ~End(p)
  <2> DEFINE h == Edited(job[p].data, job[p].key, job[p].value)
             j == [job[p] EXCEPT !.step = "write", !.checkedAt = writes, !.data = h]
  <2>1. /\ job' = [job EXCEPT ![p] = j]
        /\ ~job[p].force => home.stores[job[p].key] = Unset
    BY <1>3 DEF Check, Conflicts, RecentInv, HomeInv, TypeOK
  <2>2. /\ job[p] \in Job /\ writes \in Nat
        /\ Typed(job[p]) /\ Agrees(job[p]) /\ Recent(job[p])
    BY DEF RecentInv, HomeInv, TypeOK
  <2>3. /\ j.step = "write" /\ j.data = h /\ j.readAt = job[p].readAt
        /\ j.checkedAt = writes /\ j.force = job[p].force
        /\ j.op = job[p].op /\ j.key = job[p].key /\ j.value = job[p].value
    BY <2>2 DEF Job
  <2>4. job[p].readAt = writes => h = Edited(home, job[p].key, job[p].value)
    BY <1>1, <2>2 DEF Recent
  <2> HIDE DEF h, j
  <2>5. Recent(j)
    BY <2>1, <2>2, <2>3, <2>4 DEF Recent, Agrees
  <2> QED BY <1>1, <2>1, <2>5, JobKeepsRecent
<1> QED BY <1>2, <1>3

\* Every copy and every check is old after a write.
LEMMA WriteKeepsRecent ==
  ASSUME RecentInv, NEW p \in Procs, Write(p)
  PROVE  \A q \in Procs : Recent(job[q])'
<1>1. writes \in Nat /\ writes' = writes + 1 /\ job \in [Procs -> Job]
  BY DEF Write, RecentInv, HomeInv, TypeOK
<1>2. PICK i : /\ i.step \in {"read", "end"} /\ i.checkedAt = 0 /\ i.key \notin Names
               /\ job' = [job EXCEPT ![p] = i]
  BY AfterWrite DEF RecentInv
<1>3. ASSUME NEW q \in Procs PROVE Recent(job[q])'
  <2>1. CASE q = p
    <3>1. job'[q] = i
      BY <1>1, <1>2, <2>1
    <3> QED BY <1>1, <1>2, <3>1 DEF Recent
  <2>2. CASE q # p
    <3>1. job'[q] = job[q] /\ Recent(job[q]) /\ Agrees(job[q]) /\ job[q] \in Job
      BY <1>1, <1>2, <2>2 DEF RecentInv, HomeInv
    <3>2. /\ job[q].readAt \in Nat /\ job[q].checkedAt \in Nat
          /\ job[q].readAt <= writes /\ job[q].checkedAt <= writes
      BY <3>1 DEF Job, Agrees, Recent
    <3>3. /\ job[q].readAt # writes' /\ job[q].checkedAt # writes'
          /\ job[q].checkedAt <= writes'
      BY <1>1, <3>2
    <3> QED BY <3>1, <3>3 DEF Recent
  <2> QED BY <2>1, <2>2
<1> QED BY <1>3

LEMMA NextKeepsRecent == RecentInv /\ [Next]_vars => RecentInv'
<1> SUFFICES ASSUME RecentInv, [Next]_vars PROVE RecentInv'
  OBVIOUS
<1>1. HomeInv'
  BY NextKeepsInv DEF RecentInv
<1>2. ASSUME NEW p \in Procs, Crash(p) PROVE \A q \in Procs : Recent(job[q])'
  BY <1>2, EndKeepsRecent DEF Crash
<1>3. UNCHANGED <<home, job, writes>> => \A q \in Procs : Recent(job[q])'
  BY DEF RecentInv, Recent
<1>4. \A d \in Dirs, m \in Markers : EditMarker(d, m) => UNCHANGED <<home, job, writes>>
  BY DEF EditMarker
<1>5. UNCHANGED vars => UNCHANGED <<home, job, writes>>
  BY DEF vars
<1>6. \A q \in Procs : Recent(job[q])'
  BY <1>2, <1>3, <1>4, <1>5, IssueKeepsRecent, ReadKeepsRecent, CheckKeepsRecent,
     WriteKeepsRecent DEF Next
<1> QED BY <1>1, <1>6 DEF RecentInv

\* The home file changes in writes only, by the process that writes.
LEMMA WhoWrites ==
  ASSUME Next, home' # home, NEW p \in Procs, job'[p] # job[p], RecentInv
  PROVE  Write(p)
<1>1. PICK q \in Procs : Write(q)
  BY DEF Next, Issue, ReadToSet, ReadToBind, Check, ReadToBootstrap, ReadToBootstrapName,
         Crash, EditMarker
<1>2. \E j : job' = [job EXCEPT ![q] = j]
  BY <1>1 DEF Write, End, Start
<1> QED BY <1>1, <1>2 DEF RecentInv, HomeInv, TypeOK

\* A registration without --force takes a name from another store only if
\* another write fell between its check and its own write
\* (cmd_store_register, _self_register_store, set_store_registry_entry).
THEOREM RebindNeedsForceOrRaceHolds == Spec => RebindNeedsForceOrRace
<1> DEFINE Rebind(p) ==
      LET k == job[p].key IN
      /\ job[p].op = "bind" /\ job[p].step = "write" /\ home' # home
      /\ job'[p] # job[p] /\ ~job[p].force
      /\ home.stores[k] # Unset /\ home'.stores[k] # home.stores[k]
      => job[p].checkedAt # writes
<1>1. ASSUME RecentInv, NEW p \in Procs PROVE Rebind(p)
  BY <1>1 DEF RecentInv, Recent
<1>2. RecentInv /\ [Next]_vars => [\A p \in Procs : Rebind(p)]_vars
  BY <1>1
<1> QED BY <1>2, InitRecent, NextKeepsRecent, PTL DEF Spec, RebindNeedsForceOrRace
-----------------------------------------------------------------------------
(* Resolution.  Find and Follow are functions that use themselves.  There    *)
(* are such functions, since the way up a tree of directories ends and a     *)
(* file is followed once, so they do what their definitions say.             *)

FindNext(g, d) ==
  IF markers[d].present THEN d
  ELSE IF Parent[d] # Unset THEN g[Parent[d]]
  ELSE IF home.present THEN Home ELSE Unset

FollowNext(g, seen) == [f \in Files |->
  LET next == Target(Config(f).store) IN
  IF f \in seen THEN NoStore
  ELSE IF Config(f).store = Unset THEN Layout(f)
  ELSE IF next = Unset THEN NoStore
  ELSE IF next \in Hosts THEN AtHost(next)
  ELSE g[seen \cup {f}][next]]

LEMMA FilesFinite == IsFiniteSet(Files)
  BY ParentType, FS_AddElement DEF Files

LEMMA DepthOf ==
  ASSUME NEW depth \in [Dirs -> 1 .. Cardinality(Dirs)]
  PROVE  /\ Cardinality(Dirs) \in Nat
         /\ \A d \in Dirs : depth[d] \in Nat /\ 1 <= depth[d] /\ depth[d] <= Cardinality(Dirs)
  BY ParentType, FS_CardinalityType

LEMMA FindIs == \A d \in Dirs : Find[d] = FindNext(Find, d)
<1>1. PICK depth \in [Dirs -> 1 .. Cardinality(Dirs)] :
        \A d \in Dirs : Parent[d] # Unset => depth[Parent[d]] < depth[d]
  BY ParentType
<1> DEFINE m == Cardinality(Dirs)
           Upto(g, n) == \A d \in Dirs : depth[d] <= n => g[d] = FindNext(g, d)
           Bad == {n \in 0 .. m : ~ \E g : Upto(g, n)}
<1>2. m \in Nat /\ \A d \in Dirs : depth[d] \in Nat /\ 1 <= depth[d] /\ depth[d] <= m
  BY DepthOf
<1> HIDE DEF m
<1>3. \A g : Upto(g, 0)
  BY <1>2
<1>4. ASSUME NEW n \in 1 .. m, NEW g, Upto(g, n - 1) PROVE \E h : Upto(h, n)
  <2> DEFINE h == [d \in Dirs |-> FindNext(g, d)]
  <2>1. ASSUME NEW d \in Dirs, depth[d] <= n PROVE h[d] = FindNext(h, d)
    <3>1. CASE Parent[d] = Unset
      BY <3>1 DEF FindNext
    <3>2. CASE Parent[d] # Unset
      <4> DEFINE u == Parent[d]
      <4>1. u \in Dirs /\ depth[u] <= n - 1
        BY <1>1, <1>2, <2>1, <3>2, ParentType
      <4>2. g[u] = FindNext(g, u) /\ h[u] = FindNext(g, u)
        BY <1>4, <4>1
      <4>3. h[d] = FindNext(g, d)
        OBVIOUS
      <4> HIDE DEF h
      <4> QED BY <4>2, <4>3 DEF FindNext
    <3> QED BY <3>1, <3>2
  <2> HIDE DEF h
  <2> QED BY <2>1
<1>5. Bad = {}
  <2> SUFFICES ASSUME Bad # {} PROVE FALSE
    OBVIOUS
  <2>1. PICK n \in Bad : \A k \in Bad : n <= k
    <3>1. Bad \in SUBSET Nat
      OBVIOUS
    <3> HIDE DEF Bad
    <3> QED BY <1>2, <3>1, LeastBad
  <2>2. n \in 1 .. m /\ n - 1 \in 0 .. m /\ ~(n <= n - 1)
    BY <1>2, <1>3, <2>1
  <2>3. PICK g : Upto(g, n - 1)
    BY <2>1, <2>2
  <2> QED BY <1>4, <2>1, <2>2, <2>3
<1>6. PICK g : Upto(g, m)
  BY <1>2, <1>5
<1> DEFINE h == [d \in Dirs |-> g[d]]
<1>7. ASSUME NEW d \in Dirs PROVE h[d] = FindNext(h, d)
  <2>1. g[d] = FindNext(g, d)
    BY <1>2, <1>6
  <2> QED BY <2>1, ParentType DEF FindNext
<1>8. h = [d \in Dirs |-> FindNext(h, d)]
  <2>1. h = [d \in Dirs |-> h[d]]
    OBVIOUS
  <2> HIDE DEF h
  <2> QED BY <1>7, <2>1
<1>9. \E f : f = [d \in Dirs |-> FindNext(f, d)]
  BY <1>8
<1>10. Find = CHOOSE f : f = [d \in Dirs |-> FindNext(f, d)]
  BY DEF Find, FindNext
<1>11. Find = [d \in Dirs |-> FindNext(Find, d)]
  BY <1>9, <1>10
<1> QED BY <1>11

LEMMA FollowIs == \A seen \in SUBSET Files : Follow[seen] = FollowNext(Follow, seen)
<1> DEFINE m == Cardinality(Files)
           Left(s) == Cardinality(Files \ s)
           Upto(g, n) == \A s \in SUBSET Files : Left(s) <= n => g[s] = FollowNext(g, s)
           Bad == {n \in 0 .. m : ~ \E g : Upto(g, n)}
<1>1. m \in Nat /\ \A s \in SUBSET Files : Left(s) \in Nat /\ Left(s) <= m
  BY FilesFinite, FS_CardinalityType, FS_Subset
<1>2. ASSUME NEW s \in SUBSET Files, NEW f \in Files \ s
      PROVE  s \cup {f} \in SUBSET Files /\ Left(s \cup {f}) = Left(s) - 1
  <2>1. IsFiniteSet(Files \ s)
    BY FilesFinite, FS_Subset
  <2>2. Files \ (s \cup {f}) = (Files \ s) \ {f}
    OBVIOUS
  <2> QED BY <2>1, <2>2, FS_RemoveElement, ZenonT(60)
<1>3. ASSUME NEW g, NEW h, NEW s \in SUBSET Files,
             \A f \in Files \ s : g[s \cup {f}] = h[s \cup {f}]
      PROVE  FollowNext(g, s) = FollowNext(h, s)
  BY <1>3 DEF FollowNext
<1> HIDE DEF m, Left
<1>4. \E g : Upto(g, 0)
  <2> DEFINE g == [s \in SUBSET Files |-> FollowNext([t \in {} |-> {}], s)]
  <2>1. ASSUME NEW s \in SUBSET Files, Left(s) <= 0 PROVE g[s] = FollowNext(g, s)
    <3>1. Files \ s = {}
      <4> SUFFICES ASSUME NEW f \in Files \ s PROVE FALSE
        OBVIOUS
      <4>1. Left(s \cup {f}) = Left(s) - 1 /\ Left(s \cup {f}) \in Nat /\ Left(s) \in Nat
        BY <1>1, <1>2
      <4> QED BY <2>1, <4>1
    <3> HIDE DEF g
    <3>2. FollowNext([t \in {} |-> {}], s) = FollowNext(g, s)
      BY <1>3, <3>1
    <3> QED BY <3>2 DEF g
  <2> HIDE DEF g
  <2> QED BY <2>1
<1>5. ASSUME NEW n \in 1 .. m, NEW g, Upto(g, n - 1) PROVE \E h : Upto(h, n)
  <2> DEFINE h == [s \in SUBSET Files |-> FollowNext(g, s)]
  <2>1. \A s \in SUBSET Files : h[s] = FollowNext(g, s)
    OBVIOUS
  <2> HIDE DEF h
  <2>2. ASSUME NEW s \in SUBSET Files, Left(s) <= n PROVE h[s] = FollowNext(h, s)
    <3>1. \A f \in Files \ s : g[s \cup {f}] = h[s \cup {f}]
      BY <1>1, <1>2, <1>5, <2>1, <2>2
    <3> QED BY <1>3, <2>1, <3>1
  <2> QED BY <2>2
<1>6. Bad = {}
  <2> SUFFICES ASSUME Bad # {} PROVE FALSE
    OBVIOUS
  <2>1. PICK n \in Bad : \A k \in Bad : n <= k
    <3>1. Bad \in SUBSET Nat
      OBVIOUS
    <3> HIDE DEF Bad
    <3> QED BY <1>1, <3>1, LeastBad
  <2>2. n \in 1 .. m /\ n - 1 \in 0 .. m /\ ~(n <= n - 1)
    BY <1>1, <1>4, <2>1
  <2>3. PICK g : Upto(g, n - 1)
    BY <2>1, <2>2
  <2> QED BY <1>5, <2>1, <2>2, <2>3
<1>7. PICK g : Upto(g, m)
  BY <1>1, <1>6
<1> DEFINE h == [s \in SUBSET Files |-> g[s]]
<1>8. \A s \in SUBSET Files : h[s] = g[s] /\ g[s] = FollowNext(g, s)
  BY <1>1, <1>7
<1>9. h = [s \in SUBSET Files |-> h[s]]
  OBVIOUS
<1> HIDE DEF h
<1>10. \A s \in SUBSET Files : h[s] = FollowNext(h, s)
  BY <1>2, <1>3, <1>8
<1>11. h = [s \in SUBSET Files |-> FollowNext(h, s)]
  BY <1>9, <1>10
<1>12. \E f : f = [s \in SUBSET Files |-> FollowNext(f, s)]
  BY <1>11
<1>13. Follow = CHOOSE f : f = [s \in SUBSET Files |-> FollowNext(f, s)]
  BY DEF Follow, FollowNext
<1>14. Follow = [s \in SUBSET Files |-> FollowNext(Follow, s)]
  BY <1>12, <1>13
<1> QED BY <1>14
\* One step on the way: what Follow answers at a file.
LEMMA FollowAt ==
  ASSUME NEW seen \in SUBSET Files, NEW f \in Files
  PROVE  Follow[seen][f] =
           LET next == Target(Config(f).store) IN
           IF f \in seen THEN NoStore
           ELSE IF Config(f).store = Unset THEN Layout(f)
           ELSE IF next = Unset THEN NoStore
           ELSE IF next \in Hosts THEN AtHost(next)
           ELSE Follow[seen \cup {f}][next]
<1>1. Follow[seen] = FollowNext(Follow, seen)
  BY FollowIs
<1> QED BY <1>1 DEF FollowNext

\* A pointer leads to a file, to a host or nowhere.
LEMMA TargetType ==
  ASSUME TypeOK, NEW f \in Files, Config(f).store # Unset
  PROVE  Target(Config(f).store) \in Files \cup Hosts \cup {Unset}
<1>1. Config(f).store \in PathPointers \cup NamePointers
  BY DEF TypeOK, Config, Files, HomeFile, Marker
<1>2. CASE Config(f).store \in NamePointers
  <2> DEFINE n == Config(f).store.reg
  <2>1. n \in Names /\ home.stores[n] \in Entries \cup {Unset}
    BY <1>2 DEF NamePointers, TypeOK, HomeFile
  <2> HIDE DEF n
  <2>2. RegisteredStore(n) \in Files \cup Hosts \cup {Unset}
    BY <2>1 DEF RegisteredStore, Entries, Roots, Hosts, Files
  <2> QED BY <1>2, <2>2 DEF Target, n
<1>3. CASE Config(f).store \in PathPointers /\ Config(f).store \notin NamePointers
  BY <1>3 DEF Target, PathPointers, Files
<1> QED BY <1>1, <1>2, <1>3

\* A file may count as seen by a way that began at the file it points to: the
\* way ends without a store if it comes back to either.
LEMMA FollowAround ==
  ASSUME TypeOK, NEW d \in Files, Config(d).store # Unset,
         NEW t \in Files, Target(Config(d).store) = t, t \notin Hosts
  PROVE  Follow[{d}][t] = Follow[{}][t]
<1> DEFINE Same(S, f) == t \in S \/ f = t => Follow[S \cup {d}][f] = Follow[S][f]
           Bad == {T \in SUBSET Files : \E f \in Files : ~Same(Files \ T, f)}
<1>1. t # Unset
  BY DistinctPlaces DEF Files
<1>2. Bad = {}
  <2> SUFFICES ASSUME Bad # {} PROVE FALSE
    OBVIOUS
  <2>1. PICK T \in Bad : \A U \in Bad : U \subseteq T => U = T
    <3>1. Bad \in SUBSET SUBSET Files
      OBVIOUS
    <3> HIDE DEF Bad
    <3> QED BY <3>1, FilesFinite, SmallestSubset
  <2>2. PICK f \in Files : ~Same(Files \ T, f)
    BY <2>1
  <2> DEFINE S == Files \ T
             next == Target(Config(f).store)
  <2>3. S \in SUBSET Files /\ S \cup {d} \in SUBSET Files
    OBVIOUS
  <2>4. t \in S \/ f = t
    BY <2>2
  <2>5. f \notin S
    BY <2>2, <2>3, FollowAt
  <2>6. CASE f = d
    <3>1. Follow[S \cup {d}][f] = NoStore
      BY <2>3, <2>6, FollowAt
    <3>2. Follow[S][f] = Follow[S \cup {d}][t]
      BY <1>1, <2>3, <2>5, <2>6, FollowAt
    <3>3. Follow[S \cup {d}][t] = NoStore
      BY <2>3, <2>4, <2>6, FollowAt
    <3> QED BY <2>2, <3>1, <3>2, <3>3
  <2>7. CASE f # d /\ Config(f).store # Unset /\ next # Unset /\ next \notin Hosts
    <3>1. next \in Files
      BY <2>7, TargetType
    <3>2. S \cup {f} \in SUBSET Files /\ S \cup {f} = Files \ (T \ {f})
          /\ T \ {f} \in SUBSET Files /\ T \ {f} \subseteq T /\ T \ {f} # T
      BY <2>5
    <3>3. Same(S \cup {f}, next)
      BY <2>1, <3>1, <3>2
    <3>4. Follow[S][f] = Follow[S \cup {f}][next]
      BY <2>3, <2>5, <2>7, FollowAt
    <3>5. f \notin S \cup {d}
      BY <2>5, <2>7
    <3>6. Follow[S \cup {d}][f] = Follow[(S \cup {d}) \cup {f}][next]
      BY <2>3, <2>7, <3>5, FollowAt
    <3>7. (S \cup {d}) \cup {f} = (S \cup {f}) \cup {d}
      OBVIOUS
    <3> HIDE DEF S, next
    <3> QED BY <2>2, <2>4, <3>3, <3>4, <3>6, <3>7 DEF S
  <2>8. CASE f # d /\ (Config(f).store = Unset \/ next = Unset \/ next \in Hosts)
    <3>1. f \notin S \cup {d}
      BY <2>5, <2>8
    <3> HIDE DEF S
    <3> DEFINE end == IF Config(f).store = Unset THEN Layout(f)
                      ELSE IF next = Unset THEN NoStore ELSE AtHost(next)
    <3>2. Follow[S][f] = end
      BY <2>3, <2>5, <2>8, FollowAt
    <3>3. Follow[S \cup {d}][f] = end
      BY <2>3, <2>8, <3>1, FollowAt
    <3> HIDE DEF end
    <3> QED BY <2>2, <3>2, <3>3 DEF S
  <2> QED BY <2>6, <2>7, <2>8
<1>3. Files \notin Bad
  BY <1>2
<1>4. Same({}, t)
  <2>1. Files \ Files = {}
    OBVIOUS
  <2> HIDE DEF Same
  <2> QED BY <1>3, <2>1
<1> QED BY <1>4

\* A server that opens a store by its name and a directory whose marker points
\* at the name reach the same store, or the same failure, whatever the
\* registry, the markers and their pointers are
\* (open_store, resolve_store_config, registered_store).
THEOREM NameMeansOneStoreHolds == Spec => []NameMeansOneStore
<1>1. ASSUME TypeOK, NEW d \in Dirs, markers[d].present, markers[d].store \in NamePointers
      PROVE  Resolve(d) = OpenStore(markers[d].store.reg)
  <2> DEFINE n == markers[d].store.reg
             t == RegisteredStore(n)
  <2>1. /\ d \in Files /\ d # Home /\ d # Unset
        /\ Config(d).store = markers[d].store /\ Config(d).store # Unset
        /\ Target(Config(d).store) = t
    BY <1>1, DistinctPlaces DEF Files, Config, Target
  <2>2. Find[d] = d
    BY <1>1, FindIs DEF FindNext
  <2>3. Resolve(d) = Follow[{}][d]
    BY <2>1, <2>2 DEF Resolve
  <2>4. t \in Files \cup Hosts \cup {Unset}
    BY <1>1, <2>1, TargetType
  <2>5. CASE t = Unset \/ t \in Hosts
    <3>1. {} \in SUBSET Files /\ d \notin {}
      OBVIOUS
    <3> HIDE DEF t, n
    <3>2. Follow[{}][d] = IF t = Unset THEN NoStore ELSE AtHost(t)
      BY <2>1, <2>5, <3>1, FollowAt
    <3>3. OpenStore(n) = IF t = Unset THEN NoStore ELSE AtHost(t)
      BY <2>5 DEF OpenStore, t
    <3> QED BY <2>3, <3>2, <3>3 DEF n
  <2>6. CASE t # Unset /\ t \notin Hosts
    <3>1. n \in Names /\ home.stores[n] \in Entries \cup {Unset}
      BY <1>1 DEF NamePointers, TypeOK, HomeFile
    <3>2. t \in Dirs /\ markers[t].present
      BY <2>6, <3>1 DEF RegisteredStore, Entries, Roots, Hosts
    <3>3. Find[t] = t
      BY <3>2, FindIs DEF FindNext
    <3> HIDE DEF t
    <3>4. OpenStore(n) = Follow[{}][t]
      BY <2>6, <3>3 DEF OpenStore, t
    <3>5. {} \in SUBSET Files /\ d \notin {} /\ {} \cup {d} = {d}
      OBVIOUS
    <3>6. Follow[{}][d] = Follow[{d}][t]
      BY <2>1, <2>6, <3>5, FollowAt
    <3>7. Follow[{d}][t] = Follow[{}][t]
      BY <1>1, <2>1, <2>4, <2>6, FollowAround
    <3> QED BY <2>3, <3>4, <3>6, <3>7 DEF n
  <2> QED BY <2>4, <2>5, <2>6
<1>2. TypeOK => NameMeansOneStore
  BY <1>1 DEF NameMeansOneStore
<1> QED BY <1>2, TypeCorrect, PTL
-----------------------------------------------------------------------------
(* Where a directory leads.  A write that neither was forced nor overlapped  *)
(* another changes at most one binding, from or to nothing.  No way that     *)
(* ended at a store before and after it can have used that binding.          *)

FollowAnswer(seen, f) ==
  LET next == Target(Config(f).store) IN
  IF f \in seen THEN NoStore
  ELSE IF Config(f).store = Unset THEN Layout(f)
  ELSE IF next = Unset THEN NoStore
  ELSE IF next \in Hosts THEN AtHost(next)
  ELSE Follow[seen \cup {f}][next]

FollowAll ==
  \A seen \in SUBSET Files, f \in Files : Follow[seen][f] = FollowAnswer(seen, f)
FindAll == \A d \in Dirs : Find[d] = FindNext(Find, d)

LEMMA BothAnswer == FollowAll /\ FindAll /\ FollowAll' /\ FindAll'
<1>1. FollowAll
  BY FollowAt DEF FollowAll, FollowAnswer
<1>2. FindAll
  BY FindIs DEF FindAll
<1> QED BY <1>1, <1>2, PTL

\* The file after the step has the same pointers, and bindings that are the
\* same or new or gone.
Near ==
  /\ markers' = markers
  /\ home.present => home'.present
  /\ home.store = Unset /\ home'.store = Unset
  /\ home'.base = home.base /\ home'.docs = home.docs
  /\ \A n \in Names : \/ home'.stores[n] = home.stores[n]
                      \/ home.stores[n] = Unset \/ home'.stores[n] = Unset

LEMMA NearConfig ==
  ASSUME Near, NEW f \in Files
  PROVE  Config(f)'.store = Config(f).store /\ Layout(f)' = Layout(f)
  BY DEF Near, Config, Layout

LEMMA NearTarget ==
  ASSUME TypeOK, Near, NEW f \in Files, Config(f).store # Unset
  PROVE  LET next == Target(Config(f).store)
         IN  next' = next \/ next = Unset \/ next' = Unset
<1> DEFINE ptr == Config(f).store
<1>1. ptr' = ptr /\ f \in Dirs /\ ptr = markers[f].store
  BY NearConfig DEF Near, Config, Files
<1>2. ptr \in PathPointers \cup NamePointers
  BY <1>1 DEF TypeOK, Marker
<1>3. CASE ptr \in NamePointers
  <2>1. ptr.reg \in Names
    BY <1>3 DEF NamePointers
  <2>2. ptr'.reg = ptr.reg
    BY <1>1
  <2> DEFINE n == ptr.reg
             e == home.stores[n]
  <2>3. e' = e \/ e = Unset \/ e' = Unset
    BY <2>1, <2>2 DEF Near
  <2>4. Target(ptr) = RegisteredStore(n) /\ Target(ptr)' = RegisteredStore(n)'
    BY <1>1, <1>3 DEF Target
  <2>5. RegisteredStore(n)' = RegisteredStore(n) \/ RegisteredStore(n) = Unset \/ RegisteredStore(n)' = Unset
    BY <2>2, <2>3 DEF RegisteredStore, Near
  <2> QED BY <2>4, <2>5
<1>4. CASE ptr \notin NamePointers
  BY <1>1, <1>4 DEF Target, Near
<1> QED BY <1>3, <1>4

LEMMA NearFollow ==
  ASSUME TypeOK, TypeOK', Near
  PROVE  \A S \in SUBSET Files, f \in Files :
           Follow'[S][f] = Follow[S][f] \/ Follow[S][f] = NoStore \/ Follow'[S][f] = NoStore
<1> DEFINE Kept(S, f) ==
      Follow'[S][f] = Follow[S][f] \/ Follow[S][f] = NoStore \/ Follow'[S][f] = NoStore
           Bad == {T \in SUBSET Files : \E f \in Files : ~Kept(Files \ T, f)}
<1>1. Bad = {}
  <2> SUFFICES ASSUME Bad # {} PROVE FALSE
    OBVIOUS
  <2>1. PICK T \in Bad : \A U \in Bad : U \subseteq T => U = T
    <3>1. Bad \in SUBSET SUBSET Files
      OBVIOUS
    <3> HIDE DEF Bad
    <3> QED BY <3>1, FilesFinite, SmallestSubset
  <2>2. PICK f \in Files : ~Kept(Files \ T, f)
    BY <2>1
  <2> DEFINE S == Files \ T
             store == Config(f).store
             next == Target(store)
  <2>3. S \in SUBSET Files
    OBVIOUS
  <2>4. /\ Follow[S][f] = FollowAnswer(S, f)
        /\ Follow'[S][f] = FollowAnswer(S, f)'
    BY <2>3, BothAnswer DEF FollowAll
  <2>5. f \notin S
    BY <2>2, <2>4 DEF FollowAnswer
  <2>6. store' = store /\ Layout(f)' = Layout(f)
    BY NearConfig
  <2>7. store # Unset
    <3> SUFFICES ASSUME store = Unset PROVE FALSE
      OBVIOUS
    <3>1. Follow[S][f] = Layout(f)
      BY <2>4, <2>5 DEF FollowAnswer
    <3>2. Follow'[S][f] = Layout(f)'
      BY <2>4, <2>5, <2>6 DEF FollowAnswer
    <3> QED BY <2>2, <2>6, <3>1, <3>2
  <2>8. next # Unset
    BY <2>2, <2>4, <2>5, <2>7 DEF FollowAnswer
  <2>9. next' # Unset
    <3> SUFFICES ASSUME next' = Unset PROVE FALSE
      OBVIOUS
    <3>1. Follow'[S][f] = NoStore'
      BY <2>4, <2>5, <2>6, <2>7 DEF FollowAnswer
    <3> QED BY <2>2, <3>1 DEF NoStore
  <2>10. next' = next
    BY <2>7, <2>8, <2>9, NearTarget
  <2>11. CASE next \in Hosts
    <3>1. Follow[S][f] = AtHost(next)
      BY <2>4, <2>5, <2>7, <2>8, <2>11 DEF FollowAnswer
    <3>2. Follow'[S][f] = AtHost(next)'
      BY <2>4, <2>5, <2>6, <2>7, <2>9, <2>10, <2>11 DEF FollowAnswer
    <3> QED BY <2>2, <2>10, <3>1, <3>2 DEF AtHost
  <2>12. CASE next \notin Hosts
    <3>1. next \in Files
      BY <2>7, <2>8, <2>12, TargetType
    <3>2. S \cup {f} \in SUBSET Files /\ S \cup {f} = Files \ (T \ {f})
          /\ T \ {f} \in SUBSET Files /\ T \ {f} \subseteq T /\ T \ {f} # T
      BY <2>5
    <3>3. Kept(S \cup {f}, next)
      BY <2>1, <3>1, <3>2
    <3>4. Follow[S][f] = Follow[S \cup {f}][next]
      BY <2>4, <2>5, <2>7, <2>8, <2>12 DEF FollowAnswer
    <3>5. Follow'[S][f] = Follow'[S \cup {f}][next]
      BY <2>4, <2>5, <2>6, <2>7, <2>9, <2>10, <2>12 DEF FollowAnswer
    <3> HIDE DEF S, next
    <3> QED BY <2>2, <3>3, <3>4, <3>5 DEF S
  <2> QED BY <2>11, <2>12
<1>2. ASSUME NEW S \in SUBSET Files, NEW f \in Files PROVE Kept(S, f)
  <2>1. Files \ S \in SUBSET Files /\ Files \ (Files \ S) = S
    OBVIOUS
  <2> HIDE DEF Kept
  <2> QED BY <1>1, <2>1
<1> QED BY <1>2

\* The nearest marker stays the nearest, and the home file is there to stay.
LEMMA NearFind ==
  ASSUME Near
  PROVE  \A d \in Dirs : /\ Find[d] \in Files \cup {Unset}
                         /\ Find[d] = Unset \/ Find'[d] = Find[d]
<1>1. PICK depth \in [Dirs -> 1 .. Cardinality(Dirs)] :
        \A d \in Dirs : Parent[d] # Unset => depth[Parent[d]] < depth[d]
  BY ParentType
<1> DEFINE m == Cardinality(Dirs)
           Kept(d) == /\ Find[d] \in Files \cup {Unset}
                      /\ Find[d] = Unset \/ Find'[d] = Find[d]
           Bad == {n \in 0 .. m : \E d \in Dirs : depth[d] = n /\ ~Kept(d)}
<1>2. m \in Nat /\ \A d \in Dirs : depth[d] \in 0 .. m
  BY DepthOf
<1> HIDE DEF m
<1>3. Bad = {}
  <2> SUFFICES ASSUME Bad # {} PROVE FALSE
    OBVIOUS
  <2>1. PICK n \in Bad : \A k \in Bad : n <= k
    <3>1. Bad \in SUBSET Nat
      OBVIOUS
    <3> HIDE DEF Bad
    <3> QED BY <1>2, <3>1, LeastBad
  <2>2. PICK d \in Dirs : depth[d] = n /\ ~Kept(d)
    BY <2>1
  <2>3. /\ Find[d] = FindNext(Find, d)
        /\ Find'[d] = FindNext(Find, d)'
    BY BothAnswer DEF FindAll
  <2>4. ~markers[d].present
    BY <2>2, <2>3 DEF FindNext, Near, Files
  <2>5. CASE Parent[d] # Unset
    <3> DEFINE u == Parent[d]
    <3>1. u \in Dirs /\ depth[u] < n /\ depth[u] \in 0 .. m
      BY <1>1, <1>2, <2>2, <2>5, ParentType
    <3>2. Kept(u)
      <4>1. n \in 0 .. m /\ ~(n <= depth[u])
        BY <1>2, <2>1, <3>1
      <4>2. depth[u] \notin Bad
        BY <2>1, <4>1
      <4> HIDE DEF Kept, u
      <4> QED BY <3>1, <4>2
    <3>3. Find[d] = Find[u] /\ Find'[d] = Find'[u]
      BY <2>3, <2>4, <2>5 DEF FindNext, Near
    <3> HIDE DEF u
    <3> QED BY <2>2, <3>2, <3>3
  <2>6. CASE Parent[d] = Unset
    BY <2>2, <2>3, <2>4, <2>6 DEF FindNext, Near, Files
  <2> QED BY <2>5, <2>6
<1> HIDE DEF Kept
<1>4. \A d \in Dirs : Kept(d)
  BY <1>2, <1>3
<1> QED BY <1>4 DEF Kept

LEMMA NearResolve ==
  ASSUME TypeOK, TypeOK', Near, NEW d \in Dirs
  PROVE  Resolve(d) = NoStore \/ Resolve(d)' = NoStore \/ Resolve(d)' = Resolve(d)
<1>1. CASE Find[d] = Unset
  BY <1>1 DEF Resolve
<1>2. CASE Find[d] # Unset
  <2> DEFINE f == Find[d]
  <2>1. f \in Files /\ Find'[d] = f
    BY <1>2, NearFind
  <2>2. Resolve(d) = Follow[{}][f] /\ Resolve(d)' = Follow'[{}][f]
    BY <1>2, <2>1 DEF Resolve
  <2>3. {} \in SUBSET Files
    OBVIOUS
  <2> HIDE DEF f
  <2> QED BY <2>1, <2>2, <2>3, NearFollow DEF NoStore
<1> QED BY <1>1, <1>2

\* A home file that has no pointer gets none.
StayInv == RecentInv /\ home.store = Unset

LEMMA NextKeepsStay == StayInv /\ [Next]_vars => StayInv'
<1> SUFFICES ASSUME StayInv, [Next]_vars PROVE home'.store = Unset
  BY NextKeepsRecent DEF StayInv
<1>1. ASSUME NEW p \in Procs, Write(p) PROVE home'.store = Unset
  BY <1>1, DumpValues DEF Write, StayInv, RecentInv, HomeInv, TypeOK, Job
<1>2. home' = home \/ \E p \in Procs : Write(p)
  BY DEF Next, Issue, ReadToSet, ReadToBind, Check, ReadToBootstrap, ReadToBootstrapName,
         Crash, EditMarker, vars
<1> QED BY <1>1, <1>2 DEF StayInv

LEMMA WriteIsNear ==
  ASSUME StayInv, NEW p \in Procs, Write(p), ~Forced(p), ~Overlaps(p)
  PROVE  Near
<1> DEFINE k == job[p].key
           v == job[p].value
           h == Edited(home, k, v)
<1>1. /\ job[p] \in Job /\ job[p].step = "write" /\ job[p].readAt = writes /\ writes \in Nat
      /\ Settable(k, v) /\ home \in HomeFile /\ home.store = Unset
      /\ Recent(job[p]) /\ Typed(job[p])
  BY DEF Write, Overlaps, StayInv, RecentInv, HomeInv, TypeOK, Typed
<1>2. home' = Dump(h) /\ markers' = markers
  BY <1>1 DEF Write, Recent
<1>3. k \in Names => home.stores[k] = Unset \/ v = Unset
  <2>1. CASE job[p].op = "bind"
    <3>1. ~job[p].force
      BY <1>1, <2>1 DEF Forced
    <3>2. job[p].checkedAt = writes
      BY <1>1, <2>1 DEF Recent, Job
    <3> QED BY <1>1, <2>1, <3>1, <3>2 DEF Recent
  <2>2. CASE job[p].op # "bind"
    BY <1>1, <2>2 DEF Recent
  <2> QED BY <2>1, <2>2
<1>4. /\ h \in HomeFile /\ h.base = home.base /\ h.docs = home.docs
      /\ \A n \in Names : n # k => h.stores[n] = home.stores[n]
      /\ k \in Names => h.stores[k] = v
  <2>1. /\ h \in HomeFile /\ ValueOf(h, k) = v
        /\ \A x \in Keys \ {k} : ValueOf(h, x) = ValueOf(home, x)
    BY <1>1, EditedValues
  <2>2. \A x : \A n \in Names : ValueOf(x, n) = x.stores[n]
    BY DistinctPlaces DEF ValueOf
  <2>3. h.base = home.base /\ h.docs = home.docs
    BY <1>1 DEF Edited, HomeFile
  <2> HIDE DEF h
  <2>4. k \in Names => h.stores[k] = v
    BY <2>1, <2>2
  <2>5. \A n \in Names : n # k => h.stores[n] = home.stores[n]
    BY <2>1, <2>2 DEF Keys
  <2> QED BY <2>1, <2>3, <2>4, <2>5
<1> HIDE DEF h
<1>5. /\ home'.present /\ home'.store = Unset /\ home'.base = h.base
      /\ home'.docs = h.docs /\ home'.stores = h.stores
  BY <1>2, <1>4 DEF Dump, HomeFile
<1> QED BY <1>1, <1>2, <1>3, <1>4, <1>5 DEF Near

LEMMA StepStaysPut ==
  ASSUME StayInv, [Next]_vars, NEW d \in Dirs
  PROVE  \/ Resolve(d) = NoStore \/ Resolve(d)' = NoStore
         \/ Resolve(d)' = Resolve(d)
         \/ markers' # markers
         \/ \E p \in Procs : job'[p] # job[p] /\ (Forced(p) \/ Overlaps(p))
<1>1. TypeOK /\ TypeOK'
  BY NextKeepsInv DEF StayInv, RecentInv, HomeInv
<1>2. ASSUME NEW p \in Procs, Write(p) PROVE job'[p] # job[p]
  <2>1. PICK i : i.step \in {"read", "end"} /\ job' = [job EXCEPT ![p] = i]
    BY <1>2, AfterWrite DEF StayInv, RecentInv
  <2>2. job[p].step = "write" /\ job'[p] = i
    BY <1>1, <1>2, <2>1 DEF Write, TypeOK
  <2> QED BY <2>1, <2>2
<1>3. CASE markers' = markers /\ home' = home
  <2>1. Near
    BY <1>3 DEF Near, StayInv
  <2> QED BY <1>1, <2>1, NearResolve
<1>4. home' = home \/ \E p \in Procs : Write(p)
  BY DEF Next, Issue, ReadToSet, ReadToBind, Check, ReadToBootstrap, ReadToBootstrapName,
         Crash, EditMarker, vars
<1>5. ASSUME NEW p \in Procs, Write(p), ~Forced(p), ~Overlaps(p)
      PROVE  Resolve(d) = NoStore \/ Resolve(d)' = NoStore \/ Resolve(d)' = Resolve(d)
  BY <1>1, <1>5, WriteIsNear, NearResolve
<1> QED BY <1>2, <1>3, <1>4, <1>5

\* If the home file has no pointer to begin with, a directory is redirected from
\* one store to another only by an edit of a marker, a forced registration or
\* overlapping writes (_self_register_store, dump_config).
THEOREM DirectoriesStayPutHolds == InitHome.store = Unset => (Spec => DirectoriesStayPut)
<1> SUFFICES ASSUME InitHome.store = Unset PROVE Spec => DirectoriesStayPut
  OBVIOUS
<1> DEFINE Stays ==
      \A d \in Dirs :
        \/ Resolve(d) = NoStore \/ Resolve(d)' = NoStore
        \/ Resolve(d)' = Resolve(d)
        \/ markers' # markers
        \/ \E p \in Procs : job'[p] # job[p] /\ (Forced(p) \/ Overlaps(p))
<1>1. Init => StayInv
  BY InitRecent DEF Init, StayInv
<1>2. StayInv /\ [Next]_vars => [Stays]_vars
  BY StepStaysPut
<1> HIDE DEF Stays
<1>3. Spec => [][Stays]_vars
  BY <1>1, <1>2, NextKeepsStay, PTL DEF Spec
<1> QED BY <1>3 DEF DirectoriesStayPut, Stays
=============================================================================
