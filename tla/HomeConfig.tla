------------------------------ MODULE HomeConfig ------------------------------
(***************************************************************************)
(* The per-user configuration file and what it decides.  One TOML file     *)
(* holds the user's identity, fallback paths of a store and the registry   *)
(* that binds store names to places.  Every command that changes it reads  *)
(* the file, changes its copy and replaces the file; nothing locks it.     *)
(* Which store a directory belongs to follows from that file and from the  *)
(* marker files in the directories, which users edit.                      *)
(*                                                                         *)
(* A marker file and the home file are records.  The key store of a file   *)
(* is a pointer to a directory, to a registered name, or Unset; in the     *)
(* home file the tables [store.<name>] stand under the same key.           *)
(***************************************************************************)
EXTENDS Naturals, FiniteSets

CONSTANTS
  Procs,          \* the processes that may run a command at one time
  Dirs,           \* directories; each may hold a marker file
  Parent,         \* the directory above a directory, or Unset
  Home,           \* the place of the home file, which is no directory of Dirs
  Names,          \* the store names in use
  Urls,           \* the endpoints in use
  Values,         \* names and addresses of people
  Unset,          \* a key that is not there
  InitHome,       \* the home file to begin with
  InitMarkers,    \* the marker files to begin with
  Markers,        \* the marker files users write
  GitUser,        \* what git config --global knows of the user
  Commands,       \* the command lines that may be issued
  MaxCommands, MaxEdits, MaxCrashes

UserKeys == {"name", "email"}

PathPointers == [path : Dirs]
NamePointers == [reg : Names]

\* A location: a checkout, or a host and the name it serves the store under.
Roots == [kind : {"root"}, at : Dirs \cup {Home}, as : {Unset}]
Hosts == [kind : {"url"}, at : Urls, as : Names]
Entries == Roots \cup Hosts

Marker ==
  [present : BOOLEAN, store : {Unset} \cup PathPointers \cup NamePointers,
   name : Names \cup {Unset}, base : BOOLEAN, docs : BOOLEAN]

HomeFile ==
  [present : BOOLEAN, store : {Unset} \cup PathPointers \cup NamePointers,
   name : Names \cup {Unset}, base : BOOLEAN, docs : BOOLEAN,
   username : Values \cup {Unset},
   user : [UserKeys -> Values \cup {Unset}],
   stores : [Names -> Entries \cup {Unset}]]

\* The settings commands update, each by a key of its own.
Keys == UserKeys \cup Names

ASSUME DistinctPlaces ==
  /\ Home \notin Dirs
  /\ Unset \notin Dirs \cup {Home} \cup Names \cup Urls \cup Values
  /\ Unset \notin PathPointers \cup NamePointers \cup Entries
  /\ UserKeys \cap Names = {}
\* Directories are finitely many and a tree.
ASSUME ParentType ==
  /\ IsFiniteSet(Dirs) /\ Parent \in [Dirs -> Dirs \cup {Unset}]
  /\ \E depth \in [Dirs -> 1 .. Cardinality(Dirs)] :
       \A d \in Dirs : Parent[d] # Unset => depth[Parent[d]] < depth[d]
\* In the home file store is a pointer or the tables of names, as TOML has it.
ASSUME FilesType ==
  /\ InitHome \in HomeFile
  /\ InitHome.store # Unset => \A n \in Names : InitHome.stores[n] = Unset
  /\ InitMarkers \in [Dirs -> Marker]
  /\ Markers \subseteq Marker
  /\ GitUser \in [UserKeys -> Values \cup {Unset}]
ASSUME CommandsType == Commands \subseteq
  [op : {"register"}, at : Dirs, alias : Names \cup {Unset}, force : BOOLEAN]
    \cup [op : {"registerUrl"}, name : Names, url : Urls, as : Names \cup {Unset},
          force : BOOLEAN]
    \cup [op : {"forget"}, name : Names]
    \cup [op : {"config"}, key : UserKeys, value : Values \cup {Unset}]
    \cup [op : {"bootstrap"}] \cup [op : {"use"}, at : Dirs]
ASSUME BoundsType == {MaxCommands, MaxEdits, MaxCrashes} \subseteq Nat

VARIABLES
  home,       \* the home file
  markers,    \* the marker file of each directory
  job,        \* the command each process runs
  writes,     \* how often the home file was written
  commands,   \* how many commands were issued
  edits,      \* how many marker files users wrote
  crashes,    \* how many commands were killed
  acked,      \* for the properties: the last value a command wrote, by key
  wroteAt,    \* for the properties: the write that gave the key that value
  exposed     \* for the properties: keys an overlapping write may have undone

vars == <<home, markers, job, writes, commands, edits, crashes,
          acked, wroteAt, exposed>>

Idle == [op |-> "idle", step |-> "end", key |-> Unset, value |-> Unset,
         force |-> FALSE, data |-> InitHome, readAt |-> 0, checkedAt |-> 0]

ValueOf(file, k) == IF k \in UserKeys THEN file.user[k] ELSE file.stores[k]

-----------------------------------------------------------------------------
(* Resolution. *)

\* The files that may say where a store is.
Files == Dirs \cup {Home}

Config(f) == IF f = Home THEN home ELSE markers[f]

\* The nearest marker on the way up, else the home file, else Unset.
Find[d \in Dirs] ==
  IF markers[d].present THEN d
  ELSE IF Parent[d] # Unset THEN Find[Parent[d]]
  ELSE IF home.present THEN Home ELSE Unset

NoStore == [kind |-> "none", at |-> Unset, docs |-> Unset]
AtHost(e) == [kind |-> "url", at |-> e.at, docs |-> e.as]

\* Where the docs of a store are: its own key, else under base, else default.
Layout(f) ==
  [kind |-> "store", at |-> f,
   docs |-> IF Config(f).docs THEN "key"
            ELSE IF Config(f).base THEN "base" ELSE "default"]

\* The target of a pointer: a file to go on from, an entry, or Unset when
\* the name is unbound or the place holds no marker.
RegisteredStore(n) ==
  LET e == home.stores[n] IN
  IF e = Unset THEN Unset
  ELSE IF e.kind = "url" THEN e
  ELSE IF e.at \in Dirs /\ markers[e.at].present THEN e.at ELSE Unset

Target(ptr) ==
  IF ptr \in NamePointers THEN RegisteredStore(ptr.reg)
  ELSE IF markers[ptr.path].present THEN ptr.path ELSE Unset

\* Follows pointers to the first file without one.  Coming back to a file
\* is an error.
Follow[seen \in SUBSET Files] == [f \in Files |->
  LET next == Target(Config(f).store) IN
  IF f \in seen THEN NoStore
  ELSE IF Config(f).store = Unset THEN Layout(f)
  ELSE IF next = Unset THEN NoStore
  ELSE IF next \in Hosts THEN AtHost(next)
  ELSE Follow[seen \cup {f}][next]]

\* The store a directory belongs to.
Resolve(d) == IF Find[d] = Unset THEN NoStore ELSE Follow[{}][Find[d]]

\* Mutant: opens the checkout a name is bound to, pointer or not.
OpenStoreUnfollowed(n) ==
  LET t == RegisteredStore(n) IN
  IF t = Unset THEN NoStore
  ELSE IF t \in Hosts THEN AtHost(t) ELSE Layout(t)

\* The store a surface opens by its name, without a directory to stand in.
OpenStore(n) ==
  LET t == RegisteredStore(n) IN
  IF t = Unset THEN NoStore
  ELSE IF t \in Hosts THEN AtHost(t) ELSE Follow[{}][Find[t]]

-----------------------------------------------------------------------------
(* Reading and writing the home file. *)

\* Mutant: the fallback paths are not written back.
DumpWithoutPaths(data) ==
  [data EXCEPT !.present = TRUE, !.store = Unset, !.name = Unset,
               !.username = Unset, !.base = FALSE, !.docs = FALSE]

\* What writing a copy leaves in the file: the paths, the user and the
\* registry.  A pointer, a declared name and the old username are not
\* written.
Dump(data) ==
  [data EXCEPT !.present = TRUE, !.store = Unset, !.name = Unset,
               !.username = Unset]

\* Mutant: removing a name empties the registry.
EditedTooMuch(data, k, v) ==
  IF k \in UserKeys THEN [data EXCEPT !.user[k] = v]
  ELSE IF v = Unset
       THEN [data EXCEPT !.store = Unset, !.stores = [n \in Names |-> Unset]]
       ELSE [data EXCEPT !.store = Unset, !.stores[k] = v]

\* A copy with one key set or, by the value Unset, removed.
Edited(data, k, v) ==
  IF k \in UserKeys THEN [data EXCEPT !.user[k] = v]
  ELSE [data EXCEPT !.store = Unset, !.stores[k] = v]

\* Mutant: the registry is trusted to hold only this binding.
ConflictsNever(existing, entry) == FALSE

\* Whether binding a name would re-point it.
Conflicts(existing, entry) == existing # Unset /\ existing # entry

Start(p, op, k, v, force) ==
  job' = [job EXCEPT ![p] = [Idle EXCEPT !.op = op, !.step = "read",
                             !.key = k, !.value = v, !.force = force]]

End(p) == job' = [job EXCEPT ![p] = Idle]

Ghosts == <<acked, wroteAt, exposed>>

-----------------------------------------------------------------------------
(* The commands. *)

\* Only a store itself that declares a name can be registered.
Registrable(f) == markers[f].store = Unset /\ markers[f].name # Unset

\* ldoc store register, in the store the directory belongs to.
Register(p, c) ==
  LET f == Find[c.at] IN
  /\ c.op = "register"
  /\ IF f \in Dirs /\ Registrable(f)
     THEN Start(p, "bind", IF c.alias = Unset THEN markers[f].name ELSE c.alias,
                [kind |-> "root", at |-> f, as |-> Unset], c.force)
     ELSE End(p)

\* Mutant: a host is not told which store is meant.
RegisterUrlUnnamed(p, c) ==
  /\ c.op = "registerUrl"
  /\ Start(p, "bind", c.name, [kind |-> "url", at |-> c.url, as |-> c.as], c.force)

\* ldoc store register --url: served under the local name unless told.
RegisterUrl(p, c) ==
  /\ c.op = "registerUrl"
  /\ Start(p, "bind", c.name,
           [kind |-> "url", at |-> c.url,
            as |-> IF c.as = Unset THEN c.name ELSE c.as], c.force)

Forget(p, c) == c.op = "forget" /\ Start(p, "set", c.name, Unset, FALSE)

\* ldoc config <key> <value> and ldoc config --unset
SetUserKey(p, c) == c.op = "config" /\ Start(p, "set", c.key, c.value, FALSE)

Bootstrap(p, c) ==
  c.op = "bootstrap" /\ Start(p, "bootstrap", "name", GitUser["name"], FALSE)

\* Any command that needs the store: in a named store itself it registers
\* the name, never over another binding.
Use(p, c) ==
  LET f == Find[c.at] IN
  /\ c.op = "use"
  /\ IF f \in Files /\ Resolve(c.at).at = f /\ Config(f).name # Unset
     THEN Start(p, "bind", Config(f).name,
                [kind |-> "root", at |-> f, as |-> Unset], FALSE)
     ELSE End(p)

Issue(p, c) ==
  /\ job[p] = Idle
  /\ commands < MaxCommands
  /\ commands' = commands + 1
  /\ \/ Register(p, c) \/ RegisterUrl(p, c) \/ Forget(p, c)
     \/ SetUserKey(p, c) \/ Bootstrap(p, c) \/ Use(p, c)
  /\ UNCHANGED <<home, markers, writes, edits, crashes, Ghosts>>

-----------------------------------------------------------------------------
(* Their steps. *)

Goto(p, step, data) ==
  job' = [job EXCEPT ![p].step = step, ![p].data = data, ![p].readAt = writes]

\* config and forget; a name that is not bound ends the command.
ReadToSet(p) ==
  /\ job[p].step = "read" /\ job[p].op \in {"set", "email"}
  /\ IF /\ job[p].key \in Names
        /\ home.stores[job[p].key] = Unset
     THEN End(p)
     ELSE Goto(p, "write", Edited(home, job[p].key, job[p].value))
  /\ UNCHANGED <<home, markers, writes, commands, edits, crashes, Ghosts>>

\* set_store_registry_entry reads the file; it reads it again for the check.
ReadToBind(p) ==
  /\ job[p].step = "read" /\ job[p].op = "bind"
  /\ Goto(p, "check", home)
  /\ UNCHANGED <<home, markers, writes, commands, edits, crashes, Ghosts>>

Check(p) ==
  LET existing == home.stores[job[p].key] IN
  /\ job[p].step = "check"
  /\ IF \/ existing = job[p].value
        \/ Conflicts(existing, job[p].value) /\ ~job[p].force
     THEN End(p)
     ELSE job' = [job EXCEPT ![p].step = "write", ![p].checkedAt = writes,
                    ![p].data = Edited(@, job[p].key, job[p].value)]
  /\ UNCHANGED <<home, markers, writes, commands, edits, crashes, Ghosts>>

\* bootstrap_from_git: only a name that is set stops it.  It then sets the
\* name and the address, each by a read and a write.
ReadToBootstrap(p) ==
  /\ job[p].step = "read" /\ job[p].op = "bootstrap"
  /\ IF home.user["name"] # Unset \/ GitUser = [k \in UserKeys |-> Unset]
     THEN End(p)
     ELSE IF GitUser["name"] = Unset
          THEN Start(p, "email", "email", GitUser["email"], FALSE)
          ELSE Start(p, "gitName", "name", GitUser["name"], FALSE)
  /\ UNCHANGED <<home, markers, writes, commands, edits, crashes, Ghosts>>

ReadToBootstrapName(p) ==
  /\ job[p].step = "read" /\ job[p].op = "gitName"
  /\ Goto(p, "write", Edited(home, "name", GitUser["name"]))
  /\ UNCHANGED <<home, markers, writes, commands, edits, crashes, Ghosts>>

\* The copy replaces the file.  For the properties: keys other commands wrote
\* since this one read the file are exposed.
Write(p) ==
  LET k == job[p].key IN
  /\ job[p].step = "write"
  /\ home' = Dump(job[p].data)
  /\ writes' = writes + 1
  /\ acked' = [acked EXCEPT ![k] = job[p].value]
  /\ wroteAt' = [wroteAt EXCEPT ![k] = writes + 1]
  /\ exposed' = (exposed \cup {x \in Keys : wroteAt[x] > job[p].readAt}) \ {k}
  /\ IF job[p].op = "gitName" /\ GitUser["email"] # Unset
     THEN Start(p, "email", "email", GitUser["email"], FALSE)
     ELSE End(p)
  /\ UNCHANGED <<markers, commands, edits, crashes>>

\* Killed between two steps; what it wrote beside the file is never read.
Crash(p) ==
  /\ job[p] # Idle
  /\ crashes < MaxCrashes
  /\ crashes' = crashes + 1
  /\ End(p)
  /\ UNCHANGED <<home, markers, writes, commands, edits, Ghosts>>

\* A user writes, moves or removes a marker file.
EditMarker(d, m) ==
  /\ edits < MaxEdits
  /\ m # markers[d]
  /\ edits' = edits + 1
  /\ markers' = [markers EXCEPT ![d] = m]
  /\ UNCHANGED <<home, job, writes, commands, crashes, Ghosts>>

Init ==
  /\ home = InitHome
  /\ markers = InitMarkers
  /\ job = [p \in Procs |-> Idle]
  /\ writes = 0 /\ commands = 0 /\ edits = 0 /\ crashes = 0
  /\ acked = [k \in Keys |-> ValueOf(InitHome, k)]
  /\ wroteAt = [k \in Keys |-> 0]
  /\ exposed = {}

Next ==
  \/ \E p \in Procs :
       \/ \E c \in Commands : Issue(p, c)
       \/ ReadToSet(p) \/ ReadToBind(p) \/ Check(p) \/ ReadToBootstrap(p)
       \/ ReadToBootstrapName(p) \/ Write(p) \/ Crash(p)
  \/ \E d \in Dirs, m \in Markers : EditMarker(d, m)

Spec == Init /\ [][Next]_vars

-----------------------------------------------------------------------------
(* Properties. *)

Job ==
  [op : {"idle", "set", "bind", "bootstrap", "gitName", "email"},
   step : {"read", "check", "write", "end"},
   key : Keys \cup {Unset}, value : Values \cup Entries \cup {Unset},
   force : BOOLEAN, data : HomeFile, readAt : Nat, checkedAt : Nat]

\* The types; the home file never has a pointer and registered names at once
\* (store.py, toml_flat.py).
TypeOK ==
  /\ home \in HomeFile /\ markers \in [Dirs -> Marker]
  /\ home.store # Unset => \A n \in Names : home.stores[n] = Unset
  /\ job \in [Procs -> Job]
  /\ {writes, commands, edits, crashes} \subseteq Nat
  /\ acked \in [Keys -> Values \cup Entries \cup {Unset}]
  /\ wroteAt \in [Keys -> Nat] /\ exposed \subseteq Keys

\* Each user key and each binding has the value the last command about it
\* wrote, unless another command that had read the file before that wrote the
\* whole file after it (set_user_key, set_store_registry_entry,
\* remove_store_registry_entry): all that is lost is lost to such an overlap.
LostOnlyToOverlap ==
  \A k \in Keys \ exposed : ValueOf(home, k) = acked[k]

\* The writes that a user asked to re-point a name, or that overlap others.
Forced(p) == job[p].step = "write" /\ job[p].op = "bind" /\ job[p].force
Overlaps(p) == job[p].step = "write" /\ job[p].readAt # writes

\* Where a directory leads changes from one store to another only when a
\* marker file is edited, a registration is forced, or two writes of the home
\* file overlap.  Registering, standing in a checkout of the same name,
\* forgetting another name and setting user keys never redirect it
\* (_self_register_store, dump_config).
DirectoriesStayPut ==
  [][ \A d \in Dirs :
        \/ Resolve(d) = NoStore \/ Resolve(d)' = NoStore
        \/ Resolve(d)' = Resolve(d)
        \/ markers' # markers
        \/ \E p \in Procs : job'[p] # job[p] /\ (Forced(p) \/ Overlaps(p)) ]_vars

\* A registration without --force replaces a binding only when another write
\* of the file fell between its check and its own write.
RebindNeedsForceOrRace ==
  [][ \A p \in Procs :
        LET k == job[p].key IN
        /\ job[p].op = "bind" /\ job[p].step = "write" /\ home' # home
        /\ job'[p] # job[p] /\ ~job[p].force
        /\ home.stores[k] # Unset /\ home'.stores[k] # home.stores[k]
        => job[p].checkedAt # writes ]_vars

\* A name means one store: what a server opens by the name is what a directory
\* whose marker points at the name resolves to (open_store and
\* resolve_store_config go different ways to it), a failure of the one being a
\* failure of the other.
NameMeansOneStore ==
  \A d \in Dirs :
    /\ markers[d].present
    /\ markers[d].store \in NamePointers
    => Resolve(d) = OpenStore(markers[d].store.reg)

\* What the documentation says of the home file: the [user] table takes no
\* part in finding a store, so setting a user key changes no resolution.
UserKeysFindNoStore ==
  [][ \A d \in Dirs :
        \/ markers' # markers
        \/ \E p \in Procs : job'[p] # job[p] /\ job[p].key \notin UserKeys
        \/ Resolve(d)' = Resolve(d) ]_vars
=============================================================================
