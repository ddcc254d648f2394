------------------------- MODULE DatabaseFileProofs -------------------------
(***************************************************************************)
(* What DatabaseFile promises for every topology, every number of writers, *)
(* initialisers and files.                                                 *)
(*                                                                         *)
(* The inductive invariant says of each initialiser at which stage it may  *)
(* rely on what: the file it created tables in is its own (no other one    *)
(* passes schema.sql on it), so it seeds empty tables; and an initialiser  *)
(* that has been alone so far also has its file at the path.               *)
(***************************************************************************)
EXTENDS DatabaseFile, TLAPS

Owning == {"create_rest", "seed", "commit", "verify", "close"}
Whole == {Declared[v] : v \in Versions}

FilesFresh == \A f \in Files : f > created => files[f] = EmptyFile

\* Which connections have a file and which a transaction.
ConnectionsRight ==
    /\ \A c \in Clients : conn[c].txn => conn[c].file # 0
    /\ \A i \in Initialisers :
        /\ stage[i] \in Owning \cup {"create"} => conn[i].file # 0
        /\ conn[i].txn => stage[i] \in {"commit", "close"}

InitialisersApart ==
    \A i, j \in Initialisers :
        i # j /\ stage[i] \in Owning /\ stage[j] \in Owning => conn[i].file # conn[j].file

\* What an initialiser knows of the file it has created tables in.
KnownOf(f, at, pending) ==
    /\ at \in Owning => f.schema # "none"
    /\ at \in Owning \ {"create_rest"} => f.schema = "all"
    /\ at \in {"create_rest", "seed", "commit"} => f.registry = {}
    /\ at = "commit" => pending \in Whole
    /\ at \in {"verify", "close"} => f.registry \in Whole

OwnFile == \A i \in Initialisers : KnownOf(files[conn[i].file], stage[i], conn[i].pending)

NoTablesNoRegistry == \A f \in Files : files[f].schema = "none" => files[f].registry = {}

Alone(i) == \A j \in Initialisers \ {i} : stage[j] = "off"

\* And of the path, while no other one has run.
PathIsOwn ==
    \A i \in Initialisers : Alone(i) =>
        /\ stage[i] = "connect" /\ path # 0 => files[path].schema = "none"
        /\ stage[i] \in Owning \cup {"create"} => path = conn[i].file
        /\ stage[i] = "create" => files[path].schema = "none"
        /\ stage[i] = "unmanaged" => /\ path # 0
                                     /\ files[path].schema = "all"
                                     /\ files[path].registry \in Whole

DatabaseInvariant ==
    /\ TypeOK
    /\ FilesFresh
    /\ ConnectionsRight
    /\ InitialisersApart
    /\ OwnFile
    /\ NoTablesNoRegistry
    /\ PathIsOwn
    /\ RegistryWhole
    /\ RowsResolve

-----------------------------------------------------------------------------
\* The values connections and files take.

LEMMA ConnectionTypes ==
  ASSUME NEW f \in 0 .. MaxFiles, NEW pending \in SUBSET Objects
  PROVE  Connected(f) \in Connection /\ Writing(f, pending) \in Connection
  BY DEF Connected, Writing, Connection

LEMMA ClosedType == Closed \in Connection /\ Closed.file = 0 /\ ~Closed.txn /\ Closed.pending = {}
  BY DatabaseAssumption DEF Closed, Connected, Connection

\* sqlite3.connect leads to a file, an empty one if it had to create it.
LEMMA Opened ==
  ASSUME DatabaseInvariant, OpenPath
  PROVE  /\ path' \in Files /\ path' \in 0 .. created'
         /\ created' \in 0 .. MaxFiles /\ created <= created'
         /\ path = 0 => path' > created
         /\ path # 0 => path' = path
         /\ path = 0 => files[path'] = EmptyFile
<1>1. /\ path' \in Files /\ path' \in 0 .. created'
      /\ created' \in 0 .. MaxFiles /\ created <= created'
      /\ path = 0 => path' > created
      /\ path # 0 => path' = path
  BY DatabaseAssumption DEF DatabaseInvariant, TypeOK, OpenPath, Files
<1> QED
  BY <1>1 DEF DatabaseInvariant, FilesFresh

-----------------------------------------------------------------------------
\* The initial state.

LEMMA AtFirst == Init => DatabaseInvariant
<1> SUFFICES ASSUME Init PROVE DatabaseInvariant OBVIOUS
<1> USE DatabaseAssumption DEF Init, Versions, Writers, Clients, Files, EmptyFile, Closed, Connected
<1>1. TypeOK
  <2>1. newer \in BOOLEAN
    OBVIOUS
  <2>2. files \in [Files -> File]
    BY DEF File
  <2>3. conn \in [Clients -> Connection] /\ \A c \in Clients : conn[c].file <= created
    BY ClosedType
  <2>4. /\ topo \in Versions /\ registry \in Versions \cup {NoVersion}
        /\ builder \in Versions \cup {NoVersion}
        /\ path \in 0 .. created /\ created \in 0 .. MaxFiles
        /\ knows \in [Writers -> SUBSET Objects]
        /\ stage \in [Initialisers -> Running \cup {"off", "done", "failed", "killed"}]
    OBVIOUS
  <2> QED
    BY <2>1, <2>2, <2>3, <2>4 DEF TypeOK
<1>2. FilesFresh /\ NoTablesNoRegistry /\ RegistryWhole
  BY DEF FilesFresh, NoTablesNoRegistry, RegistryWhole
<1>3. ConnectionsRight /\ InitialisersApart /\ OwnFile /\ PathIsOwn
  BY DEF ConnectionsRight, InitialisersApart, OwnFile, KnownOf, PathIsOwn, Owning
<1>4. RowsResolve
  BY DEF RowsResolve
<1> QED
  BY <1>1, <1>2, <1>3, <1>4 DEF DatabaseInvariant

-----------------------------------------------------------------------------
\* The steps.

LEMMA TopologyKeeps ==
  ASSUME DatabaseInvariant, Edit \/ Checkout \/ ImportTopology \/ WriteRegistry \/ KillBuilder
  PROVE  DatabaseInvariant'
<1>1. /\ UNCHANGED <<path, created, files, conn, knows, stage>>
      /\ newer' \in BOOLEAN
  BY DEF DatabaseInvariant, TypeOK, Edit, Checkout, ImportTopology, WriteRegistry, KillBuilder, fileVars
<1>2. /\ topo' \in Versions
      /\ registry' \in Versions \cup {NoVersion}
      /\ builder' \in Versions \cup {NoVersion}
  BY DatabaseAssumption DEF DatabaseInvariant, TypeOK, Versions, NoVersion,
        Edit, Checkout, ImportTopology, WriteRegistry, KillBuilder
<1>3. TypeOK'
  BY <1>1, <1>2 DEF DatabaseInvariant, TypeOK
<1> QED
  BY <1>1, <1>3 DEF DatabaseInvariant, FilesFresh, ConnectionsRight, InitialisersApart, OwnFile, KnownOf,
        NoTablesNoRegistry, PathIsOwn, Alone, RegistryWhole, RowsResolve

\* db_init ends, by an error or killed: its connection is gone.
LEMMA InitEnds ==
  ASSUME DatabaseInvariant, NEW i \in Initialisers, NEW s \in {"failed", "killed"},
         stage' = [stage EXCEPT ![i] = s], conn' = [conn EXCEPT ![i] = Closed],
         UNCHANGED <<registryVars, fileVars, knows>>
  PROVE  DatabaseInvariant'
<1> USE ClosedType DEF registryVars, fileVars
<1>1. TypeOK'
  <2>1. conn' \in [Clients -> Connection]
    BY DEF DatabaseInvariant, TypeOK
  <2>3. created \in Nat /\ \A c \in Clients : conn'[c] = conn[c] \/ conn'[c] = Closed
    BY DatabaseAssumption DEF DatabaseInvariant, TypeOK
  <2>4. \A c \in Clients : conn'[c].file <= created'
    BY <2>3 DEF DatabaseInvariant, TypeOK
  <2>2. stage' \in [Initialisers -> Running \cup {"off", "done", "failed", "killed"}]
    BY DEF DatabaseInvariant, TypeOK
  <2> QED
    BY <2>1, <2>2, <2>4 DEF DatabaseInvariant, TypeOK
<1>2. /\ stage'[i] = s /\ conn'[i] = Closed
      /\ \A j \in Initialisers \ {i} : stage'[j] = stage[j]
      /\ \A c \in Clients \ {i} : conn'[c] = conn[c]
  BY DEF DatabaseInvariant, TypeOK, Clients
<1>3. ConnectionsRight'
  BY <1>2 DEF DatabaseInvariant, ConnectionsRight, Owning, Clients
<1>4. InitialisersApart' /\ OwnFile'
  BY <1>2 DEF DatabaseInvariant, InitialisersApart, OwnFile, KnownOf, Owning, Clients
<1>5. PathIsOwn'
  BY <1>2 DEF DatabaseInvariant, PathIsOwn, Alone, Owning, Clients
<1>6. RowsResolve'
  BY <1>2, DatabaseAssumption DEF DatabaseInvariant, RowsResolve, Clients
<1>7. FilesFresh' /\ NoTablesNoRegistry' /\ RegistryWhole'
  BY DEF DatabaseInvariant, FilesFresh, NoTablesNoRegistry, RegistryWhole
<1> QED
  BY <1>1, <1>3, <1>4, <1>5, <1>6, <1>7 DEF DatabaseInvariant

LEMMA BeginInitKeeps ==
  ASSUME DatabaseInvariant, NEW i \in Initialisers, BeginInit(i)
  PROVE  DatabaseInvariant'
<1>1. /\ UNCHANGED <<topo, registry, newer, builder, created, files, conn, knows>>
      /\ stage[i] \notin Running
      /\ \/ stage' = [stage EXCEPT ![i] = "failed"] /\ path' = path
         \/ stage' = [stage EXCEPT ![i] = "connect"] /\ path' = 0
  BY DEF BeginInit, Goes, registryVars
<1>2. TypeOK'
  BY <1>1 DEF DatabaseInvariant, TypeOK, Running
<1>3. /\ stage'[i] \in {"failed", "connect"}
      /\ \A j \in Initialisers \ {i} : stage'[j] = stage[j]
      /\ path' = path \/ (stage'[i] = "connect" /\ path' = 0)
  BY <1>1 DEF DatabaseInvariant, TypeOK
<1>4. ConnectionsRight' /\ InitialisersApart' /\ OwnFile'
  BY <1>1, <1>3 DEF DatabaseInvariant, ConnectionsRight, InitialisersApart, OwnFile, KnownOf, Owning, Running
<1>5. PathIsOwn'
  <2>1. \A j \in Initialisers : Alone(j)' => j = i
    BY <1>3 DEF Alone
  <2>2. stage'[i] = "connect" => path' = 0
    BY <1>1, <1>3 DEF DatabaseInvariant, TypeOK
  <2> QED
    BY <1>3, <2>1, <2>2 DEF PathIsOwn, Owning
<1>6. FilesFresh' /\ NoTablesNoRegistry' /\ RegistryWhole' /\ RowsResolve'
  BY <1>1 DEF DatabaseInvariant, FilesFresh, NoTablesNoRegistry, RegistryWhole, RowsResolve
<1> QED
  BY <1>2, <1>4, <1>5, <1>6 DEF DatabaseInvariant

LEMMA ConnectKeeps ==
  ASSUME DatabaseInvariant, NEW i \in Initialisers, Connect(i)
  PROVE  DatabaseInvariant'
<1>1. /\ stage[i] = "connect" /\ stage' = [stage EXCEPT ![i] = "create"]
      /\ conn' = [conn EXCEPT ![i] = Connected(path')]
      /\ UNCHANGED <<topo, registry, newer, builder, files, knows>>
      /\ OpenPath
  BY DEF Connect, Goes, registryVars
<1>2. Connected(path') \in Connection
  BY <1>1, Opened, ConnectionTypes DEF Files
<1>3. TypeOK'
  <2>1. conn' \in [Clients -> Connection] /\ stage' \in [Initialisers -> Running \cup {"off", "done", "failed", "killed"}]
    BY <1>1, <1>2 DEF DatabaseInvariant, TypeOK, Running
  <2>2. \A c \in Clients : conn'[c].file <= created'
    BY <1>1, <1>2, Opened DEF DatabaseInvariant, TypeOK, Connection, Connected
  <2> QED
    BY <1>1, <2>1, <2>2, Opened DEF DatabaseInvariant, TypeOK
<1>4. /\ conn'[i] = Connected(path') /\ stage'[i] = "create"
      /\ \A c \in Clients \ {i} : conn'[c] = conn[c]
      /\ \A j \in Initialisers \ {i} : stage'[j] = stage[j]
  BY <1>1 DEF DatabaseInvariant, TypeOK, Clients
<1>5. FilesFresh' /\ NoTablesNoRegistry' /\ RegistryWhole'
  BY <1>1, Opened DEF DatabaseInvariant, TypeOK, FilesFresh, NoTablesNoRegistry, RegistryWhole, Files
<1>6. ConnectionsRight'
  BY <1>1, <1>4, Opened DEF DatabaseInvariant, ConnectionsRight, Connected, Clients, Files, Owning
<1>7. InitialisersApart' /\ OwnFile'
  BY <1>1, <1>4 DEF DatabaseInvariant, InitialisersApart, OwnFile, KnownOf, Owning, Clients
<1>8. PathIsOwn'
  <2>1. Alone(i) => files[path'].schema = "none"
    BY <1>1, Opened DEF DatabaseInvariant, PathIsOwn, EmptyFile
  <2> QED
    BY <1>1, <1>4, <2>1 DEF DatabaseInvariant, PathIsOwn, Alone, Connected, Owning, Clients
<1>9. RowsResolve'
  BY <1>1, <1>4, DatabaseAssumption DEF DatabaseInvariant, RowsResolve, Clients
<1> QED
  BY <1>3, <1>5, <1>6, <1>7, <1>8, <1>9 DEF DatabaseInvariant

\* schema.sql, all but its last statement.
LEMMA CreateTablesKeeps ==
  ASSUME DatabaseInvariant, NEW i \in Initialisers, CreateTables(i)
  PROVE  DatabaseInvariant'
<1> DEFINE f == conn[i].file
<1>1. CASE files[f].schema # "none"
  BY <1>1, InitEnds DEF CreateTables, Fails, Goes, fileVars
<1>2. CASE files[f].schema = "none"
  <2> DEFINE g == [files[f] EXCEPT !.schema = "some"]
  <2>1. /\ stage[i] = "create" /\ stage' = [stage EXCEPT ![i] = "create_rest"]
        /\ files' = [files EXCEPT ![f] = g]
        /\ UNCHANGED <<topo, registry, newer, builder, path, created, conn, knows>>
    BY <1>2 DEF CreateTables, Goes, InFile, registryVars
  <2>2. f \in Files /\ f <= created /\ files[f] \in File
    BY <2>1 DEF DatabaseInvariant, TypeOK, ConnectionsRight, Connection, Clients, Files
  <2>3. /\ g \in File
        /\ g.schema = "some" /\ g.registry = files[f].registry /\ g.rows = files[f].rows
    BY <2>2 DEF File
  <2>4. TypeOK'
    <3>1. files' \in [Files -> File] /\ stage' \in [Initialisers -> Running \cup {"off", "done", "failed", "killed"}]
      BY <2>1, <2>3 DEF DatabaseInvariant, TypeOK, Running
    <3> QED
      BY <2>1, <3>1 DEF DatabaseInvariant, TypeOK
  <2>5. /\ files'[f] = g /\ stage'[i] = "create_rest"
        /\ \A h \in Files \ {f} : files'[h] = files[h]
        /\ \A j \in Initialisers \ {i} : stage'[j] = stage[j]
    BY <2>1, <2>2 DEF DatabaseInvariant, TypeOK
  <2>6. FilesFresh'
    BY <2>1, <2>2, <2>5 DEF DatabaseInvariant, TypeOK, FilesFresh, Files
  <2>7. ConnectionsRight'
    BY <2>1, <2>5 DEF DatabaseInvariant, ConnectionsRight, Owning
  <2>8. \A j \in Initialisers \ {i} : stage[j] \in Owning => conn[j].file # f
    BY <1>2 DEF DatabaseInvariant, OwnFile, KnownOf
  <2>9. InitialisersApart'
    BY <2>1, <2>5, <2>8 DEF DatabaseInvariant, InitialisersApart
  <2>10. OwnFile'
    <3>1. files[f].registry = {}
      BY <1>2, <2>2 DEF DatabaseInvariant, NoTablesNoRegistry
    <3>2. \A j \in Initialisers \ {i} : stage[j] \in Owning =>
              conn[j].file \in Files \ {f} /\ files'[conn[j].file] = files[conn[j].file]
      BY <2>5, <2>8 DEF DatabaseInvariant, TypeOK, ConnectionsRight, Connection, Clients, Files
    <3>3. KnownOf(files'[conn'[i].file], stage'[i], conn'[i].pending)
      BY <2>1, <2>3, <2>5, <3>1 DEF KnownOf, Owning
    <3>4. \A j \in Initialisers \ {i} : KnownOf(files'[conn'[j].file], stage'[j], conn'[j].pending)
      BY <2>1, <2>5, <3>2 DEF DatabaseInvariant, OwnFile, KnownOf, Owning
    <3> QED
      BY <3>3, <3>4 DEF OwnFile
  <2>11. NoTablesNoRegistry' /\ RegistryWhole'
    BY <2>3, <2>5 DEF DatabaseInvariant, NoTablesNoRegistry, RegistryWhole
  <2>12. PathIsOwn'
    <3>1. \A j \in Initialisers : Alone(j)' => j = i /\ Alone(i)
      BY <2>5 DEF Alone
    <3> QED
      BY <2>1, <2>5, <3>1 DEF DatabaseInvariant, PathIsOwn, Owning
  <2>13. RowsResolve'
    BY <2>1, <2>2, <2>3, <2>5 DEF DatabaseInvariant, TypeOK, RowsResolve, Connection, Clients, Files
  <2> QED
    BY <2>4, <2>6, <2>7, <2>9, <2>10, <2>11, <2>12, <2>13 DEF DatabaseInvariant
<1> QED
  BY <1>1, <1>2

LEMMA CreateRestKeeps ==
  ASSUME DatabaseInvariant, NEW i \in Initialisers, CreateRest(i)
  PROVE  DatabaseInvariant'
<1> DEFINE f == conn[i].file
           g == [files[f] EXCEPT !.schema = "all"]
<1>1. /\ stage[i] = "create_rest" /\ stage' = [stage EXCEPT ![i] = "seed"]
      /\ files' = [files EXCEPT ![f] = g]
      /\ UNCHANGED <<topo, registry, newer, builder, path, created, conn, knows>>
  BY DEF CreateRest, Goes, InFile, registryVars
<1>2. f \in Files /\ f <= created /\ files[f] \in File
  BY <1>1 DEF DatabaseInvariant, TypeOK, ConnectionsRight, Connection, Clients, Files, Owning
<1>3. /\ g \in File
      /\ g.schema = "all" /\ g.registry = files[f].registry /\ g.rows = files[f].rows
  BY <1>2 DEF File
<1>4. TypeOK'
  <2>1. files' \in [Files -> File] /\ stage' \in [Initialisers -> Running \cup {"off", "done", "failed", "killed"}]
    BY <1>1, <1>3 DEF DatabaseInvariant, TypeOK, Running
  <2> QED
    BY <1>1, <2>1 DEF DatabaseInvariant, TypeOK
<1>5. /\ files'[f] = g /\ stage'[i] = "seed"
      /\ \A h \in Files \ {f} : files'[h] = files[h]
      /\ \A j \in Initialisers \ {i} : stage'[j] = stage[j]
  BY <1>1, <1>2 DEF DatabaseInvariant, TypeOK
<1>6. FilesFresh'
  BY <1>1, <1>2, <1>5 DEF DatabaseInvariant, TypeOK, FilesFresh, Files
<1>7. ConnectionsRight' /\ InitialisersApart'
  BY <1>1, <1>5 DEF DatabaseInvariant, ConnectionsRight, InitialisersApart, Owning
<1>8. OwnFile'
  <2>1. files[f].registry = {}
    BY <1>1 DEF DatabaseInvariant, OwnFile, KnownOf
  <2>2. \A j \in Initialisers \ {i} : stage[j] \in Owning =>
            conn[j].file \in Files \ {f} /\ files'[conn[j].file] = files[conn[j].file]
    BY <1>1, <1>5 DEF DatabaseInvariant, TypeOK, ConnectionsRight, InitialisersApart, Connection,
          Clients, Files, Owning
  <2>3. KnownOf(files'[conn'[i].file], stage'[i], conn'[i].pending)
    BY <1>1, <1>3, <1>5, <2>1 DEF KnownOf, Owning
  <2>4. \A j \in Initialisers \ {i} : KnownOf(files'[conn'[j].file], stage'[j], conn'[j].pending)
    BY <1>1, <1>5, <2>2 DEF DatabaseInvariant, OwnFile, KnownOf, Owning
  <2> QED
    BY <2>3, <2>4 DEF OwnFile
<1>9. NoTablesNoRegistry' /\ RegistryWhole'
  BY <1>3, <1>5 DEF DatabaseInvariant, NoTablesNoRegistry, RegistryWhole
<1>10. PathIsOwn'
  <2>1. \A j \in Initialisers : Alone(j)' => j = i /\ Alone(i)
    BY <1>5 DEF Alone
  <2> QED
    BY <1>1, <1>5, <2>1 DEF DatabaseInvariant, PathIsOwn, Owning
<1>11. RowsResolve'
  BY <1>1, <1>2, <1>3, <1>5 DEF DatabaseInvariant, TypeOK, RowsResolve, Connection, Clients, Files
<1> QED
  BY <1>4, <1>6, <1>7, <1>8, <1>9, <1>10, <1>11 DEF DatabaseInvariant

\* A step of db_init that leaves the files alone and keeps or gives up its own.
LEMMA InitMoves ==
  ASSUME DatabaseInvariant, NEW i \in Initialisers,
         NEW s \in Owning \cup {"unmanaged"}, NEW x \in Connection,
         stage[i] \in Owning,
         stage' = [stage EXCEPT ![i] = s], conn' = [conn EXCEPT ![i] = x],
         UNCHANGED <<registryVars, fileVars, knows>>,
         x.txn => s \in {"commit", "close"},
         s \in Owning => x.file = conn[i].file,
         s = "unmanaged" => x = Closed,
         s = "create_rest" => stage[i] = "create_rest",
         s = "seed" => stage[i] \in {"create_rest", "seed"} /\ files[conn[i].file].schema = "all",
         s = "commit" => stage[i] = "seed" /\ x.pending \in Whole,
         s \in {"verify", "close", "unmanaged"} => stage[i] \in {"verify", "close"}
  PROVE  DatabaseInvariant'
<1> USE ClosedType DEF registryVars, fileVars
<1>1. /\ stage'[i] = s /\ conn'[i] = x
      /\ \A j \in Initialisers \ {i} : stage'[j] = stage[j]
      /\ \A c \in Clients \ {i} : conn'[c] = conn[c]
  BY DEF DatabaseInvariant, TypeOK, Clients
<1>2. x.file \in {0, conn[i].file} /\ created \in Nat /\ conn[i].file <= created /\ conn[i].file # 0
  BY DatabaseAssumption DEF DatabaseInvariant, TypeOK, ConnectionsRight, Clients
<1>3. TypeOK'
  <2>1. conn' \in [Clients -> Connection]
    BY DEF DatabaseInvariant, TypeOK
  <2>2. stage' \in [Initialisers -> Running \cup {"off", "done", "failed", "killed"}]
    BY DEF DatabaseInvariant, TypeOK, Running, Owning
  <2>3. \A c \in Clients : conn'[c].file <= created'
    BY <1>1, <1>2 DEF DatabaseInvariant, TypeOK
  <2> QED
    BY <2>1, <2>2, <2>3 DEF DatabaseInvariant, TypeOK
<1>4. ConnectionsRight'
  BY <1>1, <1>2 DEF DatabaseInvariant, ConnectionsRight, Owning, Clients
<1>5. InitialisersApart'
  BY <1>1 DEF DatabaseInvariant, InitialisersApart, Owning, Clients
<1>6. OwnFile'
  BY <1>1 DEF DatabaseInvariant, OwnFile, KnownOf, Owning, Clients
<1>7. PathIsOwn'
  <2>1. \A j \in Initialisers : Alone(j)' => j = i /\ Alone(i)
    BY <1>1 DEF Alone, Owning
  <2>2. Alone(i) => path = conn[i].file
    BY DEF DatabaseInvariant, PathIsOwn
  <2>3. s = "unmanaged" => files[conn[i].file].schema = "all" /\ files[conn[i].file].registry \in Whole
    BY DEF DatabaseInvariant, OwnFile, KnownOf, Owning
  <2> QED
    BY <1>1, <1>2, <2>1, <2>2, <2>3 DEF PathIsOwn, Owning, Whole
<1>8. RowsResolve'
  BY <1>1, DatabaseAssumption DEF DatabaseInvariant, RowsResolve, Clients
<1>9. FilesFresh' /\ NoTablesNoRegistry' /\ RegistryWhole'
  BY DEF DatabaseInvariant, FilesFresh, NoTablesNoRegistry, RegistryWhole
<1> QED
  BY <1>3, <1>4, <1>5, <1>6, <1>7, <1>8, <1>9 DEF DatabaseInvariant

LEMMA SeedKeeps ==
  ASSUME DatabaseInvariant, NEW i \in Initialisers, Seed(i)
  PROVE  DatabaseInvariant'
<1>1. CASE registry = NoVersion
  BY <1>1, InitEnds DEF Seed, Fails, Goes
<1>2. CASE registry # NoVersion
  <2> DEFINE x == Writing(conn[i].file, Declared[registry])
  <2>1. /\ stage[i] = "seed" /\ stage' = [stage EXCEPT ![i] = "commit"]
        /\ conn' = [conn EXCEPT ![i] = x]
        /\ UNCHANGED <<registryVars, fileVars, knows>>
    BY <1>2 DEF Seed, Goes
  <2>2. Declared[registry] \in SUBSET Objects /\ Declared[registry] \in Whole
    BY <1>2, DatabaseAssumption DEF DatabaseInvariant, TypeOK, Whole
  <2>3. /\ x \in Connection /\ x.file = conn[i].file /\ x.pending = Declared[registry]
    BY <2>2, ConnectionTypes DEF DatabaseInvariant, TypeOK, Connection, Clients, Writing
  <2> QED
    BY <2>1, <2>2, <2>3, InitMoves DEF Owning
<1> QED
  BY <1>1, <1>2

LEMMA CommitSeedKeeps ==
  ASSUME DatabaseInvariant, NEW i \in Initialisers, CommitSeed(i)
  PROVE  DatabaseInvariant'
<1> DEFINE f == conn[i].file
           g == [files[f] EXCEPT !.registry = @ \cup conn[i].pending]
<1>1. /\ stage[i] = "commit" /\ stage' = [stage EXCEPT ![i] = "verify"]
      /\ files' = [files EXCEPT ![f] = g]
      /\ conn' = [conn EXCEPT ![i] = Connected(f)]
      /\ UNCHANGED <<topo, registry, newer, builder, path, created, knows>>
  BY DEF CommitSeed, Goes, InFile, registryVars
<1>2. f \in Files /\ f <= created /\ files[f] \in File /\ conn[i] \in Connection
  BY <1>1 DEF DatabaseInvariant, TypeOK, ConnectionsRight, Connection, Clients, Files, Owning
<1>3. /\ files[f].registry = {} /\ files[f].schema = "all" /\ conn[i].pending \in Whole
  BY <1>1 DEF DatabaseInvariant, OwnFile, KnownOf, Owning
<1>4. /\ g \in File
      /\ g.schema = "all" /\ g.registry = conn[i].pending /\ g.rows = files[f].rows
  BY <1>2, <1>3 DEF File, Connection
<1>5. Connected(f) \in Connection /\ Connected(f).file = f /\ ~Connected(f).txn
  BY <1>2, ConnectionTypes DEF Connected, Connection, Files
<1>6. /\ files'[f] = g /\ stage'[i] = "verify" /\ conn'[i] = Connected(f)
      /\ \A h \in Files \ {f} : files'[h] = files[h]
      /\ \A j \in Initialisers \ {i} : stage'[j] = stage[j]
      /\ \A c \in Clients \ {i} : conn'[c] = conn[c]
  BY <1>1, <1>2 DEF DatabaseInvariant, TypeOK, Clients
<1>7. TypeOK'
  <2>1. files' \in [Files -> File] /\ stage' \in [Initialisers -> Running \cup {"off", "done", "failed", "killed"}]
    BY <1>1, <1>4 DEF DatabaseInvariant, TypeOK, Running
  <2>2. conn' \in [Clients -> Connection]
    BY <1>1, <1>5 DEF DatabaseInvariant, TypeOK
  <2>3. \A c \in Clients : conn'[c].file <= created'
    BY <1>1, <1>2, <1>5, <1>6 DEF DatabaseInvariant, TypeOK
  <2> QED
    BY <1>1, <2>1, <2>2, <2>3 DEF DatabaseInvariant, TypeOK
<1>8. FilesFresh'
  BY <1>1, <1>2, <1>6 DEF DatabaseInvariant, TypeOK, FilesFresh, Files
<1>9. ConnectionsRight' /\ InitialisersApart'
  BY <1>1, <1>2, <1>5, <1>6 DEF DatabaseInvariant, ConnectionsRight, InitialisersApart, Owning, Clients, Files
<1>10. OwnFile'
  <2>1. \A j \in Initialisers \ {i} : stage[j] \in Owning =>
            /\ conn[j].file \in Files \ {f} /\ files'[conn[j].file] = files[conn[j].file]
            /\ conn'[j] = conn[j]
    BY <1>1, <1>6 DEF DatabaseInvariant, TypeOK, ConnectionsRight, InitialisersApart, Connection,
          Clients, Files, Owning
  <2>2. KnownOf(files'[conn'[i].file], stage'[i], conn'[i].pending)
    BY <1>3, <1>4, <1>5, <1>6 DEF KnownOf, Owning
  <2>3. \A j \in Initialisers \ {i} : KnownOf(files'[conn'[j].file], stage'[j], conn'[j].pending)
    BY <1>6, <2>1 DEF DatabaseInvariant, OwnFile, KnownOf, Owning
  <2> QED
    BY <2>2, <2>3 DEF OwnFile
<1>11. NoTablesNoRegistry'
  BY <1>4, <1>6 DEF DatabaseInvariant, NoTablesNoRegistry
<1>12. RegistryWhole'
  BY <1>3, <1>4, <1>6 DEF DatabaseInvariant, RegistryWhole, Whole
<1>13. PathIsOwn'
  <2>1. \A j \in Initialisers : Alone(j)' => j = i /\ Alone(i)
    BY <1>6 DEF Alone
  <2> QED
    BY <1>1, <1>5, <1>6, <2>1 DEF DatabaseInvariant, PathIsOwn, Owning
<1>14. RowsResolve'
  BY <1>1, <1>2, <1>3, <1>4, <1>6, DatabaseAssumption
     DEF DatabaseInvariant, TypeOK, RowsResolve, Connection, Clients, Files
<1> QED
  BY <1>7, <1>8, <1>9, <1>10, <1>11, <1>12, <1>13, <1>14 DEF DatabaseInvariant

LEMMA VerifyForeignKeysKeeps ==
  ASSUME DatabaseInvariant, NEW i \in Initialisers, VerifyForeignKeys(i)
  PROVE  DatabaseInvariant'
<1> DEFINE x == Writing(conn[i].file, {})
<1>1. x \in Connection /\ x.file = conn[i].file
  BY ConnectionTypes DEF DatabaseInvariant, TypeOK, Connection, Clients, Writing
<1> QED
  BY <1>1, InitMoves DEF VerifyForeignKeys, Goes, Owning

LEMMA CloseInitKeeps ==
  ASSUME DatabaseInvariant, NEW i \in Initialisers, CloseInit(i)
  PROVE  DatabaseInvariant'
BY InitMoves, ClosedType DEF CloseInit, Goes, Owning

LEMMA VerifyUnmanagedKeeps ==
  ASSUME DatabaseInvariant, NEW i \in Initialisers, VerifyUnmanaged(i)
  PROVE  DatabaseInvariant'
<1> USE ClosedType
<1>1. /\ stage[i] = "unmanaged"
      /\ stage' = [stage EXCEPT ![i] = "done"] \/ stage' = [stage EXCEPT ![i] = "failed"]
      /\ conn' = [conn EXCEPT ![i] = Closed]
      /\ UNCHANGED <<topo, registry, newer, builder, files, knows>>
      /\ OpenPath
  BY DEF VerifyUnmanaged, Goes, registryVars
<1>2. /\ conn'[i] = Closed /\ stage'[i] \in {"done", "failed"}
      /\ \A c \in Clients \ {i} : conn'[c] = conn[c]
      /\ \A j \in Initialisers \ {i} : stage'[j] = stage[j]
  BY <1>1 DEF DatabaseInvariant, TypeOK, Clients
<1>3. TypeOK'
  <2>1. conn' \in [Clients -> Connection]
    BY <1>1 DEF DatabaseInvariant, TypeOK
  <2>2. stage' \in [Initialisers -> Running \cup {"off", "done", "failed", "killed"}]
    BY <1>1 DEF DatabaseInvariant, TypeOK
  <2>3. created \in Nat /\ created' \in Nat /\ conn \in [Clients -> Connection]
    BY Opened, <1>1, DatabaseAssumption DEF DatabaseInvariant, TypeOK
  <2>4. \A c \in Clients : conn'[c].file <= created'
    BY <1>1, <1>2, <2>3, Opened DEF DatabaseInvariant, TypeOK, Connection
  <2> QED
    BY <1>1, <2>1, <2>2, <2>4, Opened DEF DatabaseInvariant, TypeOK
<1>4. FilesFresh' /\ NoTablesNoRegistry' /\ RegistryWhole'
  BY <1>1, Opened DEF DatabaseInvariant, TypeOK, FilesFresh, NoTablesNoRegistry, RegistryWhole, Files
<1>5. ConnectionsRight' /\ InitialisersApart' /\ OwnFile'
  BY <1>1, <1>2 DEF DatabaseInvariant, ConnectionsRight, InitialisersApart, OwnFile, KnownOf, Owning, Clients
<1>6. PathIsOwn'
  <2>1. \A j \in Initialisers : Alone(j)' => j = i
    BY <1>2 DEF Alone
  <2> QED
    BY <1>2, <2>1 DEF PathIsOwn, Owning
<1>7. RowsResolve'
  BY <1>1, <1>2, DatabaseAssumption DEF DatabaseInvariant, RowsResolve, Clients
<1> QED
  BY <1>3, <1>4, <1>5, <1>6, <1>7 DEF DatabaseInvariant

LEMMA InitStepKeeps ==
  ASSUME DatabaseInvariant, NEW i \in Initialisers, InitStep(i)
  PROVE  DatabaseInvariant'
<1>1. CASE InitTimesOut(i)
  BY <1>1, InitEnds DEF InitTimesOut, Fails, Goes
<1>2. CASE KillInit(i)
  BY <1>2, InitEnds DEF KillInit, Goes
<1> QED
  BY <1>1, <1>2, BeginInitKeeps, ConnectKeeps, CreateTablesKeeps, CreateRestKeeps, SeedKeeps,
     CommitSeedKeeps, VerifyForeignKeysKeeps, CloseInitKeeps, VerifyUnmanagedKeeps DEF InitStep

\* A step that changes nothing but the connection of one writer.
LEMMA WriterMoves ==
  ASSUME DatabaseInvariant, NEW w \in Writers, NEW x \in Connection,
         conn' = [conn EXCEPT ![w] = x],
         x.file <= created,
         x.txn => x.file # 0,
         x.file # 0 => x.pending \subseteq files[x.file].registry,
         UNCHANGED <<registryVars, fileVars, knows, stage>>
  PROVE  DatabaseInvariant'
<1> USE DEF registryVars, fileVars
<1>1. /\ conn'[w] = x
      /\ \A c \in Clients \ {w} : conn'[c] = conn[c]
      /\ \A i \in Initialisers : conn'[i] = conn[i]
  BY DatabaseAssumption DEF DatabaseInvariant, TypeOK, Clients
<1>2. TypeOK'
  <2>1. conn' \in [Clients -> Connection]
    BY DEF DatabaseInvariant, TypeOK
  <2>2. \A c \in Clients : conn'[c].file <= created'
    BY <1>1 DEF DatabaseInvariant, TypeOK
  <2> QED
    BY <2>1, <2>2 DEF DatabaseInvariant, TypeOK
<1>3. ConnectionsRight'
  BY <1>1 DEF DatabaseInvariant, ConnectionsRight
<1>4. InitialisersApart' /\ OwnFile' /\ PathIsOwn'
  BY <1>1 DEF DatabaseInvariant, InitialisersApart, OwnFile, KnownOf, PathIsOwn, Alone
<1>5. RowsResolve'
  BY <1>1 DEF DatabaseInvariant, RowsResolve, Clients
<1>6. FilesFresh' /\ NoTablesNoRegistry' /\ RegistryWhole'
  BY DEF DatabaseInvariant, FilesFresh, NoTablesNoRegistry, RegistryWhole
<1> QED
  BY <1>2, <1>3, <1>4, <1>5, <1>6 DEF DatabaseInvariant

LEMMA StartKeeps ==
  ASSUME DatabaseInvariant, NEW w \in Writers, Start(w)
  PROVE  DatabaseInvariant'
<1> DEFINE allowed == IF w \in Collectors THEN Declared[registry] \ Nodes
                      ELSE IF w \in Nodes THEN {w} ELSE Objects
<1>1. /\ conn' = [conn EXCEPT ![w] = Connected(path')]
      /\ knows' = [knows EXCEPT ![w] = allowed]
      /\ UNCHANGED <<topo, registry, newer, builder, files, stage>>
      /\ w \in Collectors => registry # NoVersion
      /\ OpenPath
  BY DatabaseAssumption DEF Start, registryVars
<1>2. Connected(path') \in Connection /\ Connected(path').file = path' /\ ~Connected(path').txn
      /\ Connected(path').pending = {}
  BY <1>1, Opened, ConnectionTypes DEF Connected, Files
<1>3. /\ conn'[w] = Connected(path')
      /\ \A c \in Clients \ {w} : conn'[c] = conn[c]
      /\ \A i \in Initialisers : conn'[i] = conn[i]
  BY <1>1, DatabaseAssumption DEF DatabaseInvariant, TypeOK, Clients
<1>4. TypeOK'
  <2>1. conn' \in [Clients -> Connection]
    BY <1>1, <1>2 DEF DatabaseInvariant, TypeOK
  <2>2. created \in Nat /\ created' \in Nat /\ conn \in [Clients -> Connection]
    BY <1>1, Opened, DatabaseAssumption DEF DatabaseInvariant, TypeOK
  <2>3. \A c \in Clients : conn'[c].file <= created'
    BY <1>1, <1>2, <1>3, <2>2, Opened DEF DatabaseInvariant, TypeOK, Connection
  <2>4. allowed \in SUBSET Objects
    <3>1. w \in Collectors => Declared[registry] \in SUBSET Objects
      BY <1>1, DatabaseAssumption DEF DatabaseInvariant, TypeOK
    <3> QED
      BY <3>1, DatabaseAssumption
  <2>5. knows' \in [Writers -> SUBSET Objects]
    BY <1>1, <2>4 DEF DatabaseInvariant, TypeOK
  <2> QED
    BY <1>1, <2>1, <2>3, <2>5, Opened DEF DatabaseInvariant, TypeOK
<1>5. FilesFresh' /\ NoTablesNoRegistry' /\ RegistryWhole'
  BY <1>1, Opened DEF DatabaseInvariant, TypeOK, FilesFresh, NoTablesNoRegistry, RegistryWhole, Files
<1>6. ConnectionsRight'
  BY <1>1, <1>2, <1>3 DEF DatabaseInvariant, ConnectionsRight
<1>7. InitialisersApart' /\ OwnFile'
  BY <1>1, <1>3 DEF DatabaseInvariant, InitialisersApart, OwnFile, KnownOf
<1>8. PathIsOwn'
  <2>1. SUFFICES ASSUME NEW i \in Initialisers, Alone(i)'
                 PROVE  /\ stage[i] = "connect" /\ path' # 0 => files[path'].schema = "none"
                        /\ stage[i] \in Owning \cup {"create"} => path' = conn[i].file
                        /\ stage[i] = "create" => files[path'].schema = "none"
                        /\ stage[i] = "unmanaged" => /\ path' # 0
                                                     /\ files[path'].schema = "all"
                                                     /\ files[path'].registry \in Whole
    BY <1>1, <1>3 DEF PathIsOwn, Whole
  <2>2. Alone(i)
    BY <1>1, <2>1 DEF Alone
  <2>3. path = 0 => files[path'].schema = "none" /\ stage[i] \notin Owning \cup {"create", "unmanaged"}
    BY <1>1, <2>2, Opened DEF DatabaseInvariant, PathIsOwn, ConnectionsRight, EmptyFile
  <2> QED
    BY <1>1, <2>2, <2>3, Opened DEF DatabaseInvariant, PathIsOwn
<1>9. RowsResolve'
  BY <1>1, <1>2, <1>3 DEF DatabaseInvariant, RowsResolve, Clients
<1> QED
  BY <1>4, <1>5, <1>6, <1>7, <1>8, <1>9 DEF DatabaseInvariant

LEMMA InsertKeeps ==
  ASSUME DatabaseInvariant, NEW w \in Writers, NEW o \in Objects, Insert(w, o)
  PROVE  DatabaseInvariant'
<1> DEFINE f == conn[w].file
           p == conn[w].pending
<1>1. /\ f \in Files /\ f <= created /\ p \in SUBSET Objects
      /\ p \subseteq files[f].registry
      /\ conn \in [Clients -> Connection]
  BY DEF DatabaseInvariant, TypeOK, RowsResolve, Connection, Insert, Writers, Clients, Files
<1>2. Writing(f, p) \in Connection /\ Writing(f, p \cup {o}) \in Connection
  BY <1>1, ConnectionTypes DEF Files
<1>3. CASE conn' = [conn EXCEPT ![w] = Writing(f, p)]
  BY <1>1, <1>2, <1>3, WriterMoves DEF Insert, Writing, Files
<1>4. CASE o \in files[f].registry /\ conn' = [conn EXCEPT ![w] = Writing(f, p \cup {o})]
  BY <1>1, <1>2, <1>4, WriterMoves DEF Insert, Writing, Files
<1>5. CASE conn' = [conn EXCEPT ![w] = Closed]
  <2>1. 0 <= created
    BY DEF DatabaseInvariant, TypeOK
  <2> QED
    BY <1>5, <2>1, ClosedType, WriterMoves DEF Insert
<1>6. CASE UNCHANGED conn
  <2>1. conn' = [conn EXCEPT ![w] = conn[w]]
    BY <1>1, <1>6
  <2>2. conn[w] \in Connection /\ (conn[w].txn => f # 0)
    BY <1>1 DEF Clients, Files
  <2> QED
    BY <1>1, <2>1, <2>2, WriterMoves DEF Insert
<1> QED
  BY <1>3, <1>4, <1>5, <1>6 DEF Insert, Refused

LEMMA CommitKeeps ==
  ASSUME DatabaseInvariant, NEW w \in Writers, Commit(w)
  PROVE  DatabaseInvariant'
<1> DEFINE f == conn[w].file
           g == [files[f] EXCEPT !.rows = @ \cup conn[w].pending]
           x == IF w \in Visitors THEN Closed ELSE Connected(f)
<1>1. /\ files' = [files EXCEPT ![f] = g]
      /\ conn' = [conn EXCEPT ![w] = x]
      /\ conn[w].txn
      /\ UNCHANGED <<topo, registry, newer, builder, path, created, knows, stage>>
  BY DEF Commit, InFile, registryVars
<1>2. f \in Files /\ f <= created /\ files[f] \in File /\ conn[w] \in Connection
  BY <1>1 DEF DatabaseInvariant, TypeOK, ConnectionsRight, Connection, Clients, Files
<1>3. conn[w].pending \subseteq files[f].registry
  BY <1>2 DEF DatabaseInvariant, RowsResolve, Files
<1>4. /\ g \in File
      /\ g.schema = files[f].schema /\ g.registry = files[f].registry
      /\ g.rows = files[f].rows \cup conn[w].pending
  BY <1>2, <1>3 DEF File, Connection
<1>5. x \in Connection /\ x.file \in {0, f} /\ ~x.txn /\ x.pending = {}
  BY <1>2, ConnectionTypes, ClosedType DEF Connected, Files
<1>6. /\ files'[f] = g /\ conn'[w] = x
      /\ \A h \in Files \ {f} : files'[h] = files[h]
      /\ \A c \in Clients \ {w} : conn'[c] = conn[c]
      /\ \A i \in Initialisers : conn'[i] = conn[i]
  BY <1>1, <1>2, DatabaseAssumption DEF DatabaseInvariant, TypeOK, Clients
<1>7. TypeOK'
  <2>1. files' \in [Files -> File] /\ conn' \in [Clients -> Connection]
    BY <1>1, <1>4, <1>5 DEF DatabaseInvariant, TypeOK
  <2>2. created \in Nat
    BY DatabaseAssumption DEF DatabaseInvariant, TypeOK
  <2>3. \A c \in Clients : conn'[c].file <= created'
    BY <1>1, <1>2, <1>5, <1>6, <2>2 DEF DatabaseInvariant, TypeOK
  <2> QED
    BY <1>1, <2>1, <2>3 DEF DatabaseInvariant, TypeOK
<1>8. FilesFresh'
  BY <1>1, <1>2, <1>6 DEF DatabaseInvariant, TypeOK, FilesFresh, Files
<1>9. ConnectionsRight' /\ InitialisersApart'
  BY <1>1, <1>5, <1>6 DEF DatabaseInvariant, ConnectionsRight, InitialisersApart
<1>10. \A h \in Files : files'[h].schema = files[h].schema /\ files'[h].registry = files[h].registry
  BY <1>4, <1>6
<1>11. OwnFile'
  <2>1. SUFFICES ASSUME NEW i \in Initialisers
                 PROVE  KnownOf(files'[conn[i].file], stage[i], conn[i].pending)
    BY <1>1, <1>6 DEF OwnFile
  <2>2. stage[i] \in Owning => conn[i].file \in Files
    BY DEF DatabaseInvariant, TypeOK, ConnectionsRight, Connection, Clients, Files
  <2> QED
    BY <1>10, <2>2 DEF DatabaseInvariant, OwnFile, KnownOf, Owning
<1>12. PathIsOwn'
  <2>1. path \in Files \cup {0}
    BY DatabaseAssumption DEF DatabaseInvariant, TypeOK, Files
  <2>2. SUFFICES ASSUME NEW i \in Initialisers, Alone(i)
                 PROVE  /\ stage[i] = "connect" /\ path # 0 => files'[path].schema = "none"
                        /\ stage[i] \in Owning \cup {"create"} => path = conn[i].file
                        /\ stage[i] = "create" => files'[path].schema = "none"
                        /\ stage[i] = "unmanaged" => /\ path # 0
                                                     /\ files'[path].schema = "all"
                                                     /\ files'[path].registry \in Whole
    BY <1>1, <1>6 DEF PathIsOwn, Alone, Whole
  <2>3. stage[i] = "create" => path # 0
    BY <2>2 DEF DatabaseInvariant, PathIsOwn, ConnectionsRight
  <2> QED
    BY <1>10, <2>1, <2>2, <2>3 DEF DatabaseInvariant, PathIsOwn
<1>13. NoTablesNoRegistry' /\ RegistryWhole'
  BY <1>10 DEF DatabaseInvariant, NoTablesNoRegistry, RegistryWhole
<1>14. RowsResolve'
  <2>1. \A h \in Files : files'[h].rows \subseteq files'[h].registry
    BY <1>3, <1>4, <1>6 DEF DatabaseInvariant, RowsResolve
  <2>2. \A v \in Writers : conn[v].file # 0 => conn[v].file \in Files
    BY DEF DatabaseInvariant, TypeOK, Connection, Clients, Files
  <2>3. \A v \in Writers : conn'[v].file # 0 => conn'[v].pending \subseteq files'[conn'[v].file].registry
    BY <1>5, <1>6, <1>10, <2>2 DEF DatabaseInvariant, RowsResolve, Clients
  <2> QED
    BY <2>1, <2>3 DEF RowsResolve
<1> QED
  BY <1>7, <1>8, <1>9, <1>11, <1>12, <1>13, <1>14 DEF DatabaseInvariant

LEMMA WriterStepKeeps ==
  ASSUME DatabaseInvariant, NEW w \in Writers, WriterStep(w)
  PROVE  DatabaseInvariant'
<1>1. CASE Stop(w)
  <2>1. 0 <= created
    BY DEF DatabaseInvariant, TypeOK
  <2> QED
    BY <1>1, <2>1, ClosedType, WriterMoves DEF Stop
<1> QED
  BY <1>1, StartKeeps, InsertKeeps, CommitKeeps DEF WriterStep

LEMMA StepKeeps == DatabaseInvariant /\ [Next]_vars => DatabaseInvariant'
<1> SUFFICES ASSUME DatabaseInvariant, [Next]_vars PROVE DatabaseInvariant'
  OBVIOUS
<1>1. CASE UNCHANGED vars
  BY <1>1 DEF vars, registryVars, fileVars, DatabaseInvariant, TypeOK, FilesFresh, ConnectionsRight,
        InitialisersApart, OwnFile, KnownOf, NoTablesNoRegistry, PathIsOwn, Alone, RegistryWhole, RowsResolve
<1>2. CASE Next
  BY <1>2, TopologyKeeps, InitStepKeeps, WriterStepKeeps DEF Next
<1> QED
  BY <1>1, <1>2

-----------------------------------------------------------------------------
\* The theorems.

\* The inductive invariant: what each initialiser may rely on at each stage.
THEOREM DatabaseSound == Spec => []DatabaseInvariant
BY AtFirst, StepKeeps, PTL DEF Spec

\* The registry, the files, the connections and the initialisers keep their types.
THEOREM TypeCorrect == Spec => []TypeOK
<1>1. DatabaseInvariant => TypeOK
  BY DEF DatabaseInvariant
<1> QED
  BY <1>1, DatabaseSound, PTL

\* No row of any database file, and none waiting in a transaction, refers to an
\* object that the registry tables of its own file do not hold.
THEOREM RowsAlwaysResolve == Spec => []RowsResolve
<1>1. DatabaseInvariant => RowsResolve
  BY DEF DatabaseInvariant
<1> QED
  BY <1>1, DatabaseSound, PTL

\* The registry tables of a file are empty or one whole version of the
\* topology, however many initialisers overlap or die.
THEOREM RegistriesAreWhole == Spec => []RegistryWhole
<1>1. DatabaseInvariant => RegistryWhole
  BY DEF DatabaseInvariant
<1> QED
  BY <1>1, DatabaseSound, PTL

\* An initialiser gets to "done" by its last check only, to "failed" by one of
\* its errors.
LEMMA HowItEnds ==
  ASSUME DatabaseInvariant, Next, NEW i \in Initialisers, stage'[i] # stage[i]
  PROVE  /\ stage'[i] = "done" => VerifyUnmanaged(i)
         /\ stage'[i] = "failed" =>
              BeginInit(i) \/ CreateTables(i) \/ Seed(i) \/ VerifyUnmanaged(i) \/ InitTimesOut(i)
<1>1. PICK j \in Initialisers : InitStep(j)
  BY DEF Next, Edit, Checkout, ImportTopology, WriteRegistry, KillBuilder, WriterStep, Start, Insert,
        Commit, Stop
<1>2. i = j
  BY <1>1 DEF DatabaseInvariant, TypeOK, InitStep, BeginInit, Connect, CreateTables, CreateRest, Seed,
        CommitSeed, VerifyForeignKeys, CloseInit, VerifyUnmanaged, InitTimesOut, KillInit, Fails, Goes
<1>3. stage \in [Initialisers -> Running \cup {"off", "done", "failed", "killed"}]
  BY DEF DatabaseInvariant, TypeOK
<1>4. CASE Connect(i)
  BY <1>3, <1>4 DEF Connect, Goes
<1>5. CASE CreateRest(i)
  BY <1>3, <1>5 DEF CreateRest, Goes
<1>6. CASE CommitSeed(i) \/ VerifyForeignKeys(i) \/ CloseInit(i) \/ KillInit(i)
  BY <1>3, <1>6 DEF CommitSeed, VerifyForeignKeys, CloseInit, KillInit, Goes
<1>7. CASE BeginInit(i) \/ CreateTables(i) \/ Seed(i) \/ InitTimesOut(i)
  <2>1. stage'[i] # "done"
    BY <1>3, <1>7 DEF BeginInit, CreateTables, Seed, InitTimesOut, Fails, Goes
  <2> QED
    BY <1>7, <2>1
<1> QED
  BY <1>1, <1>2, <1>4, <1>5, <1>6, <1>7 DEF InitStep

\* A "done" of db_init is worth something: the file at the path has its tables,
\* and without other initialisers a whole topology in them.
THEOREM InitializedUsable == Spec => InitializedIsUsable
<1>1. ASSUME DatabaseInvariant, Next, NEW i \in Initialisers, stage[i] # "done", stage'[i] = "done"
      PROVE  /\ path' # 0 /\ files'[path'].schema = "all"
             /\ (\A j \in Initialisers \ {i} : stage[j] = "off")
                   => \E v \in Versions : files'[path'].registry = Declared[v]
  <2>1. /\ VerifyUnmanaged(i) /\ OpenPath /\ stage[i] = "unmanaged"
        /\ files' = files
    BY <1>1, HowItEnds DEF VerifyUnmanaged
  <2>2. path' \in Files /\ (path # 0 => path' = path)
    BY <1>1, <2>1, Opened
  <2>3. files[path'].schema = "all"
    <3>1. stage \in [Initialisers -> Running \cup {"off", "done", "failed", "killed"}]
      BY <1>1 DEF DatabaseInvariant, TypeOK
    <3> QED
      BY <1>1, <2>1, <3>1 DEF VerifyUnmanaged, Goes
  <2>4. Alone(i) => files[path'].registry \in Whole
    BY <1>1, <2>1, <2>2 DEF DatabaseInvariant, PathIsOwn
  <2> QED
    BY <2>1, <2>2, <2>3, <2>4 DEF Alone, Files, Whole
<1>2. DatabaseInvariant /\ [Next]_vars =>
        [\A i \in Initialisers : stage[i] # "done" /\ stage'[i] = "done" =>
            /\ path' # 0 /\ files'[path'].schema = "all"
            /\ (\A j \in Initialisers \ {i} : stage[j] = "off")
                  => \E v \in Versions : files'[path'].registry = Declared[v]]_vars
  BY <1>1
<1> QED
  BY <1>2, DatabaseSound, PTL DEF Spec, InitializedIsUsable

\* db_init never fails because of itself: not for the tables it has created,
\* nor for the transactions its own refused inserts have left open.
THEOREM InitFailsOnlyForCause == Spec => InitFailsForCause
<1>1. ASSUME DatabaseInvariant, Next, NEW i \in Initialisers, stage[i] # "failed", stage'[i] = "failed",
             ~newer, registry # NoVersion, \A w \in Writers : ~conn[w].txn, Alone(i)
      PROVE  FALSE
  <2>1. \A c \in Clients \ {i} : ~conn[c].txn
    <3>1. \A j \in Initialisers \ {i} : ~conn[j].txn
      BY <1>1 DEF Alone, DatabaseInvariant, ConnectionsRight
    <3> QED
      BY <1>1, <3>1 DEF Clients
  <2>2. stage \in [Initialisers -> Running \cup {"off", "done", "failed", "killed"}]
    BY <1>1 DEF DatabaseInvariant, TypeOK
  <2>3. CASE BeginInit(i)
    BY <1>1, <2>2, <2>3 DEF BeginInit, Goes
  <2>4. CASE CreateTables(i)
    <3>1. files[conn[i].file].schema = "none"
      BY <1>1, <2>4 DEF CreateTables, DatabaseInvariant, PathIsOwn
    <3> QED
      BY <1>1, <2>2, <2>4, <3>1 DEF CreateTables, Goes
  <2>5. CASE Seed(i)
    BY <1>1, <2>2, <2>5 DEF Seed, Goes
  <2>6. CASE VerifyUnmanaged(i)
    <3>1. path' = path /\ files[path].schema = "all"
      BY <1>1, <2>6, Opened DEF VerifyUnmanaged, DatabaseInvariant, PathIsOwn
    <3>2. ~Locked(path', Clients)
      BY <1>1, <2>1, <2>6 DEF Locked, VerifyUnmanaged, DatabaseInvariant, ConnectionsRight
    <3> QED
      BY <1>1, <2>2, <2>6, <3>1, <3>2 DEF VerifyUnmanaged, Goes
  <2>7. CASE InitTimesOut(i)
    BY <2>1, <2>7 DEF InitTimesOut, Unlocked, Locked
  <2> QED
    BY <1>1, <2>3, <2>4, <2>5, <2>6, <2>7, HowItEnds
<1>2. DatabaseInvariant /\ [Next]_vars =>
        [\A i \in Initialisers : stage[i] # "failed" /\ stage'[i] = "failed" =>
            \/ newer
            \/ registry = NoVersion
            \/ \E w \in Writers : conn[w].txn
            \/ \E j \in Initialisers \ {i} : stage[j] # "off"]_vars
  <2>1. ASSUME DatabaseInvariant, Next, NEW i \in Initialisers, stage[i] # "failed", stage'[i] = "failed"
        PROVE  \/ newer
               \/ registry = NoVersion
               \/ \E w \in Writers : conn[w].txn
               \/ \E j \in Initialisers \ {i} : stage[j] # "off"
    BY <1>1, <2>1 DEF Alone
  <2> QED
    BY <2>1
<1> QED
  BY <1>2, DatabaseSound, PTL DEF Spec, InitFailsForCause

-----------------------------------------------------------------------------
\* The contract.

\* What a step does to each of the files.
LEMMA FilesAfter ==
  ASSUME DatabaseInvariant, NEW f \in Files, NEW g, InFile(f, g), NEW h \in Files
  PROVE  files'[h] = IF h = f THEN g ELSE files[h]
  BY DEF DatabaseInvariant, TypeOK, InFile

\* The transaction of db_init fills the tables of its own file, and these were empty.
LEMMA CommitSeedRegisters ==
  ASSUME DatabaseInvariant, NEW i \in Initialisers, CommitSeed(i)
  PROVE  KeepsContract
<1>0. conn[i].file \in Files
  BY DEF CommitSeed, DatabaseInvariant, TypeOK, ConnectionsRight, Connection, Clients, Files, Owning
<1> PICK f \in Files : f = conn[i].file
  BY <1>0
<1> PICK pending : pending = conn[i].pending
  OBVIOUS
<1>1. stage[i] = "commit" /\ f \in Files /\ files[f] \in File
  BY DEF CommitSeed, DatabaseInvariant, TypeOK, ConnectionsRight, Connection, Clients, Files, Owning
<1>2. files[f].registry = {} /\ pending \in Whole
  BY <1>1 DEF DatabaseInvariant, OwnFile, KnownOf
<1>3. files[f].rows = {}
  BY <1>1, <1>2 DEF DatabaseInvariant, RowsResolve
<1>4. InFile(f, [files[f] EXCEPT !.registry = @ \cup pending])
  BY DEF CommitSeed
<1>5. \A h \in Files \ {f} : files'[h] = files[h]
  BY <1>1, <1>4, FilesAfter
<1>6. files'[f].registry = pending /\ files'[f].rows = files[f].rows
  BY <1>1, <1>2, <1>4, FilesAfter DEF File
<1>7. Contract(f)!Register(pending)
  BY <1>2, <1>3, <1>6 DEF Contract!Register
<1>8. Contract(f)!Next
  BY <1>2, <1>7 DEF Contract!Next, Whole
<1> QED
  BY <1>5, <1>8 DEF KeepsContract

\* The transaction of a writer adds rows on objects of the file it writes.
LEMMA CommitRecords ==
  ASSUME DatabaseInvariant, NEW w \in Writers, Commit(w)
  PROVE  KeepsContract
<1>0. conn[w].file \in Files
  BY DEF Commit, DatabaseInvariant, TypeOK, ConnectionsRight, Connection, Clients, Files
<1> PICK f \in Files : f = conn[w].file
  BY <1>0
<1> PICK pending : pending = conn[w].pending
  OBVIOUS
<1>1. f \in Files /\ files[f] \in File
  BY DEF Commit, DatabaseInvariant, TypeOK, ConnectionsRight, Connection, Clients, Files
<1>2. pending \subseteq files[f].registry
  BY <1>1 DEF DatabaseInvariant, RowsResolve, Files
<1>3. InFile(f, [files[f] EXCEPT !.rows = @ \cup pending])
  BY DEF Commit
<1>4. \A h \in Files \ {f} : files'[h] = files[h]
  BY <1>1, <1>3, FilesAfter
<1>5. files'[f].registry = files[f].registry /\ files'[f].rows = files[f].rows \cup pending
  BY <1>1, <1>3, FilesAfter DEF File
<1>6. Contract(f)!Record(pending)
  BY <1>2, <1>5 DEF Contract!Record
<1>7. Contract(f)!Next
  BY <1>2, <1>6 DEF Contract!Next
<1> QED
  BY <1>4, <1>7 DEF KeepsContract

\* Creating tables records nothing.
LEMMA CreateRecordsNothing ==
  ASSUME DatabaseInvariant, NEW i \in Initialisers, CreateTables(i) \/ CreateRest(i)
  PROVE  KeepsContract
<1>1. conn[i].file \in Files /\ files[conn[i].file] \in File
  BY DEF CreateTables, CreateRest, DatabaseInvariant, TypeOK, ConnectionsRight, Connection, Clients,
        Files, Owning
<1>2. CASE files' = files
  BY <1>2 DEF KeepsContract
<1>3. ASSUME NEW schema, InFile(conn[i].file, [files[conn[i].file] EXCEPT !.schema = schema]),
             NEW f \in Files
      PROVE  UNCHANGED Contract(f)!vars
  <2>1. files'[f].registry = files[f].registry /\ files'[f].rows = files[f].rows
    BY <1>1, <1>3, FilesAfter DEF File
  <2> QED
    BY <2>1 DEF Contract!vars
<1> QED
  BY <1>2, <1>3 DEF CreateTables, CreateRest, KeepsContract

LEMMA StepKeepsContract == DatabaseInvariant /\ [Next]_vars => [KeepsContract]_files
<1> SUFFICES ASSUME DatabaseInvariant, [Next]_vars PROVE KeepsContract \/ UNCHANGED files
  OBVIOUS
<1>1. ASSUME ~(\E i \in Initialisers : CreateTables(i) \/ CreateRest(i) \/ CommitSeed(i)),
             ~(\E w \in Writers : Commit(w))
      PROVE  UNCHANGED files
  BY <1>1 DEF Next, vars, Edit, Checkout, ImportTopology, WriteRegistry, KillBuilder, InitStep, BeginInit,
        Connect, Seed, VerifyForeignKeys, CloseInit, VerifyUnmanaged, InitTimesOut, KillInit, WriterStep,
        Start, Insert, Stop, fileVars
<1> QED
  BY <1>1, CreateRecordsNothing, CommitSeedRegisters, CommitRecords

\* Every file keeps the contract, for every topology, number of writers and of
\* initialisers: nothing that was committed is ever changed or registered anew.
THEOREM FilesKeepContract == Spec => ImplementsContract
<1>1. Init => \A f \in Files : Contract(f)!Init
  BY DEF Init, EmptyFile, Contract!Init
<1> QED
  BY <1>1, StepKeepsContract, DatabaseSound, PTL DEF Spec, ImplementsContract

\* The same for one file, as a refinement of its abstract specification.
THEOREM FileRefinesContract ==
  ASSUME NEW f \in Files
  PROVE  Spec => Contract(f)!Spec
<1>1. Init => Contract(f)!Init
  BY DEF Init, EmptyFile, Contract!Init
<1>2. [KeepsContract]_files => [Contract(f)!Next]_(Contract(f)!vars)
  BY DEF KeepsContract, Contract!vars
<1>3. DatabaseInvariant /\ [Next]_vars => [Contract(f)!Next]_(Contract(f)!vars)
  BY <1>2, StepKeepsContract
<1> QED
  BY <1>1, <1>3, DatabaseSound, PTL DEF Spec, Contract!Spec
=============================================================================
