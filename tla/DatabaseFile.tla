---------------------------- MODULE DatabaseFile ----------------------------
(***************************************************************************)
(* test.db and contracts/topology_registry.yaml under their users:         *)
(* telemetry/db_init.py replaces the database file,                        *)
(* network/topology_builder.py rewrites the registry, and the writers      *)
(* connect, insert and commit meanwhile: the telemetry collector (one      *)
(* transaction a pass), the node collectors (one a sample) and the         *)
(* visitors, executor and fault injector (one connection a row).           *)
(*                                                                         *)
(* SQLite is taken by what it promises: a connection keeps the file it     *)
(* opened, even without a name; a missing file is created empty; one       *)
(* transaction at a time writes a file; a failed statement leaves the      *)
(* transaction it began open, with its lock.                               *)
(***************************************************************************)
EXTENDS Naturals

CONSTANTS
    Objects,        \* links and hosts
    MaxEdits,       \* bound: edits of the topology script
    Declared,       \* what each version of the topology declares
    Collectors,     \* telemetry collectors
    Nodes,          \* node collectors, by the host they report on
    Visitors,       \* the executor's actions, the injector's faults
    Initialisers,   \* processes running db_init
    MaxFiles        \* bound: database files ever created

Versions == 0 .. MaxEdits
Writers == Collectors \cup Nodes \cup Visitors
Clients == Writers \cup Initialisers
Files == 1 .. MaxFiles
NoVersion == MaxEdits + 1

ASSUME DatabaseAssumption ==
    /\ MaxEdits \in Nat
    /\ MaxFiles \in Nat
    /\ Declared \in [Versions -> SUBSET Objects]
    /\ Nodes \subseteq Objects
    /\ Writers \cap Initialisers = {}

VARIABLES
    topo,       \* the version in mininet_test_topo.py
    registry,   \* the version in topology_registry.yaml, or NoVersion while it is empty
    newer,      \* is mininet_test_topo.py the younger file
    builder,    \* the version topology_builder has imported, NoVersion when it is not running
    path,       \* the file named test.db, 0 when there is none
    created,    \* files created so far
    files,      \* each file: its schema, its registry tables, its rows
    conn,       \* each client's connection: file, open transaction, its rows
    knows,      \* what each writer may report on
    stage       \* where each initialiser is

registryVars == <<topo, registry, newer, builder>>
fileVars == <<path, created, files>>
vars == <<registryVars, fileVars, conn, knows, stage>>

\* Of a row only the object it refers to is kept.
File == [schema : {"none", "some", "all"}, registry : SUBSET Objects, rows : SUBSET Objects]
EmptyFile == [schema |-> "none", registry |-> {}, rows |-> {}]
Connection == [file : 0 .. MaxFiles, txn : BOOLEAN, pending : SUBSET Objects]
Connected(f) == [file |-> f, txn |-> FALSE, pending |-> {}]
Closed == Connected(0)
Writing(f, pending) == [file |-> f, txn |-> TRUE, pending |-> pending]

Running == {"connect", "create", "create_rest", "seed", "commit", "verify", "close", "unmanaged"}

TypeOK ==
    /\ topo \in Versions
    /\ registry \in Versions \cup {NoVersion}
    /\ newer \in BOOLEAN
    /\ builder \in Versions \cup {NoVersion}
    /\ path \in 0 .. created
    /\ created \in 0 .. MaxFiles
    /\ files \in [Files -> File]
    /\ conn \in [Clients -> Connection]
    /\ \A c \in Clients : conn[c].file <= created
    /\ knows \in [Writers -> SUBSET Objects]
    /\ stage \in [Initialisers -> Running \cup {"off", "done", "failed", "killed"}]

Init ==
    /\ topo = 0 /\ registry = 0 /\ newer = FALSE /\ builder = NoVersion
    /\ path = 0 /\ created = 0
    /\ files = [f \in Files |-> EmptyFile]
    /\ conn = [c \in Clients |-> Closed]
    /\ knows = [w \in Writers |-> {}]
    /\ stage = [i \in Initialisers |-> "off"]

-----------------------------------------------------------------------------
\* The topology script and the registry.

Edit ==
    /\ topo < MaxEdits
    /\ topo' = topo + 1
    /\ newer' = TRUE
    /\ UNCHANGED <<registry, builder, fileVars, conn, knows, stage>>

\* A checkout or a copy sets the times of both files.
Checkout ==
    /\ newer' \in BOOLEAN
    /\ UNCHANGED <<topo, registry, builder, fileVars, conn, knows, stage>>

\* topology_builder: import MyTopo, then open the registry for writing, which
\* empties it, then write.
ImportTopology ==
    /\ builder = NoVersion
    /\ builder' = topo
    /\ UNCHANGED <<topo, registry, newer, fileVars, conn, knows, stage>>

WriteRegistry ==
    /\ builder # NoVersion
    /\ newer' = FALSE
    /\ \/ registry # NoVersion /\ registry' = NoVersion /\ UNCHANGED builder
       \/ registry = NoVersion /\ registry' = builder /\ builder' = NoVersion
    /\ UNCHANGED <<topo, fileVars, conn, knows, stage>>

KillBuilder ==
    /\ builder # NoVersion
    /\ builder' = NoVersion
    /\ UNCHANGED <<topo, registry, newer, fileVars, conn, knows, stage>>

-----------------------------------------------------------------------------
\* Connections.

\* sqlite3.connect: the file at the path, created empty when there is none.
OpenPath ==
    \/ path # 0 /\ UNCHANGED <<path, created>>
    \/ path = 0 /\ created < MaxFiles /\ path' = created + 1 /\ created' = created + 1

\* Does one of cs write file f?
Locked(f, cs) == \E c \in cs : conn[c].file = f /\ conn[c].txn
Unlocked(c) == ~Locked(conn[c].file, Clients \ {c})

-----------------------------------------------------------------------------
\* db_init.

Goes(i, next) == stage' = [stage EXCEPT ![i] = next]
Fails(i) == Goes(i, "failed") /\ conn' = [conn EXCEPT ![i] = Closed]
InFile(f, file) == files' = [files EXCEPT ![f] = file]

\* The check of the times, and away with the old file.
BeginInit(i) ==
    /\ stage[i] \notin Running
    /\ \/ newer /\ Goes(i, "failed") /\ UNCHANGED path
       \/ ~newer /\ Goes(i, "connect") /\ path' = 0
    /\ UNCHANGED <<registryVars, created, files, conn, knows>>

Connect(i) ==
    /\ stage[i] = "connect"
    /\ OpenPath
    /\ conn' = [conn EXCEPT ![i] = Connected(path')]
    /\ Goes(i, "create")
    /\ UNCHANGED <<registryVars, files, knows>>

\* A mutant: CREATE TABLE IF NOT EXISTS.
CreateMissingTables(i) ==
    LET f == conn[i].file
    IN  /\ stage[i] = "create"
        /\ InFile(f, [files[f] EXCEPT !.schema = IF @ = "none" THEN "some" ELSE @])
        /\ Goes(i, "create_rest")
        /\ UNCHANGED <<registryVars, path, created, conn, knows>>

\* Another: DROP TABLE IF EXISTS first.
RecreateTables(i) ==
    /\ stage[i] = "create"
    /\ InFile(conn[i].file, [EmptyFile EXCEPT !.schema = "some"])
    /\ Goes(i, "create_rest")
    /\ UNCHANGED <<registryVars, path, created, conn, knows>>

\* schema.sql: its first CREATE TABLE fails where the table exists.
CreateTables(i) ==
    LET f == conn[i].file
    IN  /\ stage[i] = "create"
        /\ \/ /\ files[f].schema = "none"
              /\ InFile(f, [files[f] EXCEPT !.schema = "some"])
              /\ Goes(i, "create_rest")
              /\ UNCHANGED conn
           \/ files[f].schema # "none" /\ Fails(i) /\ UNCHANGED files
        /\ UNCHANGED <<registryVars, path, created, knows>>

CreateRest(i) ==
    LET f == conn[i].file
    IN  /\ stage[i] = "create_rest"
        /\ Unlocked(i)
        /\ InFile(f, [files[f] EXCEPT !.schema = "all"])
        /\ Goes(i, "seed")
        /\ UNCHANGED <<registryVars, path, created, conn, knows>>

\* The registry is read and its nodes and links inserted, in one transaction.
Seed(i) ==
    /\ stage[i] = "seed"
    /\ \/ /\ registry # NoVersion
          /\ Unlocked(i)
          /\ conn' = [conn EXCEPT ![i] = Writing(conn[i].file, Declared[registry])]
          /\ Goes(i, "commit")
       \/ registry = NoVersion /\ Fails(i)
    /\ UNCHANGED <<registryVars, fileVars, knows>>

CommitSeed(i) ==
    LET f == conn[i].file
    IN  /\ stage[i] = "commit"
        /\ InFile(f, [files[f] EXCEPT !.registry = @ \cup conn[i].pending])
        /\ conn' = [conn EXCEPT ![i] = Connected(f)]
        /\ Goes(i, "verify")
        /\ UNCHANGED <<registryVars, path, created, knows>>

\* The three bogus inserts: each is refused and leaves its transaction open.
VerifyForeignKeys(i) ==
    /\ stage[i] = "verify"
    /\ Unlocked(i)
    /\ conn' = [conn EXCEPT ![i] = Writing(conn[i].file, {})]
    /\ Goes(i, "close")
    /\ UNCHANGED <<registryVars, fileVars, knows>>

\* A mutant: the connection closed only at the end.
CloseLate(i) ==
    /\ stage[i] = "close"
    /\ Goes(i, "unmanaged")
    /\ UNCHANGED <<registryVars, fileVars, conn, knows>>

CloseInit(i) ==
    /\ stage[i] = "close"
    /\ conn' = [conn EXCEPT ![i] = Closed]
    /\ Goes(i, "unmanaged")
    /\ UNCHANGED <<registryVars, fileVars, knows>>

\* A mutant: the last check forgotten.
SkipUnmanaged(i) ==
    /\ stage[i] = "unmanaged"
    /\ Goes(i, "done")
    /\ UNCHANGED <<registryVars, fileVars, conn, knows>>

\* The fourth bogus insert, over a connection of its own: refused for its
\* foreign key, or db_init ends in an error, for a table it does not find or a
\* lock.
VerifyUnmanaged(i) ==
    /\ stage[i] = "unmanaged"
    /\ OpenPath
    /\ \/ files[path'].schema = "all" /\ ~Locked(path', Clients) /\ Goes(i, "done")
       \/ files[path'].schema # "all" /\ Goes(i, "failed")
       \/ Locked(path', Clients) /\ Goes(i, "failed")
    /\ conn' = [conn EXCEPT ![i] = Closed]
    /\ UNCHANGED <<registryVars, files, knows>>

\* The busy time-out of SQLite ends a statement that needs the lock.
InitTimesOut(i) ==
    /\ stage[i] \in {"create_rest", "seed", "verify"}
    /\ ~Unlocked(i)
    /\ Fails(i)
    /\ UNCHANGED <<registryVars, fileVars, knows>>

KillInit(i) ==
    /\ stage[i] \in Running
    /\ Goes(i, "killed")
    /\ conn' = [conn EXCEPT ![i] = Closed]
    /\ UNCHANGED <<registryVars, fileVars, knows>>

InitStep(i) ==
    \/ BeginInit(i) \/ Connect(i) \/ CreateTables(i) \/ CreateRest(i) \/ Seed(i)
    \/ CommitSeed(i) \/ VerifyForeignKeys(i) \/ CloseInit(i) \/ VerifyUnmanaged(i)
    \/ InitTimesOut(i) \/ KillInit(i)

-----------------------------------------------------------------------------
\* The writers.

\* The collectors read the registry first; a node collector is started for a
\* host of it.  A visitor writes what its caller asks for.
Start(w) ==
    /\ conn[w].file = 0
    /\ w \in Collectors \cup Nodes => registry # NoVersion
    /\ w \in Nodes => w \in Declared[registry]
    /\ OpenPath
    /\ conn' = [conn EXCEPT ![w] = Connected(path')]
    /\ knows' = [knows EXCEPT ![w] = IF w \in Collectors THEN Declared[registry] \ Nodes
                                     ELSE IF w \in Nodes THEN {w} ELSE Objects]
    /\ UNCHANGED <<registryVars, files, stage>>

\* Only the collector catches the error of an insert and goes on, its
\* transaction open if the statement had begun one.
Refused(w, begun) ==
    \/ w \notin Collectors /\ conn' = [conn EXCEPT ![w] = Closed]
    \/ /\ w \in Collectors /\ begun
       /\ conn' = [conn EXCEPT ![w] = Writing(conn[w].file, conn[w].pending)]
    \/ w \in Collectors /\ ~begun /\ UNCHANGED conn

\* A mutant: a connection without PRAGMA foreign_keys.
InsertUnchecked(w, o) ==
    LET f == conn[w].file
    IN  /\ f # 0
        /\ o \in knows[w]
        /\ conn[w].txn => w \in Collectors
        /\ Unlocked(w)
        /\ files[f].schema = "all"
        /\ conn' = [conn EXCEPT ![w] = Writing(f, conn[w].pending \cup {o})]
        /\ UNCHANGED <<registryVars, fileVars, knows, stage>>

Insert(w, o) ==
    LET f == conn[w].file
    IN  /\ f # 0
        /\ o \in knows[w]
        /\ conn[w].txn => w \in Collectors
        /\ \/ ~Unlocked(w) /\ Refused(w, FALSE)
           \/ files[f].schema # "all" /\ Refused(w, FALSE)
           \/ Unlocked(w) /\ files[f].schema # "none" /\ o \notin files[f].registry /\ Refused(w, TRUE)
           \/ /\ Unlocked(w)
              /\ o \in files[f].registry
              /\ conn' = [conn EXCEPT ![w] = Writing(f, conn[w].pending \cup {o})]
        /\ UNCHANGED <<registryVars, fileVars, knows, stage>>

\* The end of a pass, of a sample, or of the with block of a visitor, whose
\* connection ends with it.
Commit(w) ==
    LET f == conn[w].file
    IN  /\ conn[w].txn
        /\ InFile(f, [files[f] EXCEPT !.rows = @ \cup conn[w].pending])
        /\ conn' = [conn EXCEPT ![w] = IF w \in Visitors THEN Closed ELSE Connected(f)]
        /\ UNCHANGED <<registryVars, path, created, knows, stage>>

\* A writer that stops, or whose commit raises, loses what it has not committed.
Stop(w) ==
    /\ conn[w].file # 0
    /\ conn' = [conn EXCEPT ![w] = Closed]
    /\ UNCHANGED <<registryVars, fileVars, knows, stage>>

WriterStep(w) == Start(w) \/ (\E o \in Objects : Insert(w, o)) \/ Commit(w) \/ Stop(w)

-----------------------------------------------------------------------------
Next ==
    \/ Edit \/ Checkout \/ ImportTopology \/ WriteRegistry \/ KillBuilder
    \/ \E i \in Initialisers : InitStep(i)
    \/ \E w \in Writers : WriterStep(w)

Spec == Init /\ [][Next]_vars

-----------------------------------------------------------------------------
\* Properties.

\* Every row in any database file, named or not, refers to an object of the
\* registry tables of that same file, and so does every row in a transaction:
\* a replaced file, a registry rewritten after a collector has read it, and a
\* caller's unknown target leave no orphan (PRAGMA foreign_keys is set by each
\* connection, the file does not keep it).
RowsResolve ==
    /\ \A f \in Files : files[f].rows \subseteq files[f].registry
    /\ \A w \in Writers : conn[w].file # 0 => conn[w].pending \subseteq files[conn[w].file].registry

\* The registry tables of a file are empty or one version of the topology in
\* full, although initialisers overlap and die and topology_builder empties the
\* registry before it writes it.
RegistryWhole ==
    \A f \in Files : files[f].registry \in {{}} \cup {Declared[v] : v \in Versions}

Contract(f) == INSTANCE DatabaseContract
    WITH Topologies <- {Declared[v] : v \in Versions},
         registry <- files[f].registry, rows <- files[f].rows

\* Each file keeps the contract of the schema: it is seeded once, before its first
\* row, and neither overlapping or dying initialisers nor writers that hold on to
\* a file without a name ever take back what was committed.  (This is
\* \A f \in Files : Contract(f)!Spec with its boxes drawn together.)
KeepsContract ==
    \A f \in Files : UNCHANGED files[f] \/ [Contract(f)!Next]_(Contract(f)!vars)
ImplementsContract == (\A f \in Files : Contract(f)!Init) /\ [][KeepsContract]_files

\* When db_init reports success, the file now named test.db has its tables; and
\* when no other initialiser has ever run, it holds a version of the topology.
InitializedIsUsable ==
    [][\A i \in Initialisers : stage[i] # "done" /\ stage'[i] = "done" =>
            /\ path' # 0 /\ files'[path'].schema = "all"
            /\ (\A j \in Initialisers \ {i} : stage[j] = "off")
                  => \E v \in Versions : files'[path'].registry = Declared[v]]_vars

\* db_init fails for a cause outside itself only: the times of the two files, an
\* empty registry, a writer in a transaction, another initialiser.  The locks
\* its own refused inserts leave do not stand in its way.
InitFailsForCause ==
    [][\A i \in Initialisers : stage[i] # "failed" /\ stage'[i] = "failed" =>
            \/ newer
            \/ registry = NoVersion
            \/ \E w \in Writers : conn[w].txn
            \/ \E j \in Initialisers \ {i} : stage[j] # "off"]_vars
=============================================================================
