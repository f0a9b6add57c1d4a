------------------------------ MODULE Attachments ------------------------------
(***************************************************************************)
(* The attachments of one runtime (runtime/src/attachments.ts): the object *)
(* URLs that its registry makes for DuckDB, until cleanup; the built-in    *)
(* "db", which opens a database over every attachment; and the SQLite      *)
(* module, which the runtimes of a page share.                             *)
(*                                                                         *)
(* An object URL is named by the call that made it.  Reading a blob, the   *)
(* object URLs of the browser, DuckDB and sql.js are external.             *)
(***************************************************************************)
EXTENDS Integers, Sequences, FiniteSets, Functions

CONSTANTS
  Names,      \* registered attachments
  Keys,       \* what cells call files
  Decoded,    \* decodeURI of keys
  Calls,      \* calls of a wrapped file's url()
  Key,        \* the file that each asks for
  DbCall,     \* the calls that "db" makes, one for each name
  Openers,    \* callers of the SQLite module
  MaxLoads    \* bound on the loads of the SQLite module

NoCall == "none"

\* What the constants satisfy.
AttachmentsAssumption ==
  /\ Names \subseteq Keys /\ Decoded \in [Keys -> Keys] /\ Key \in [Calls -> Keys]
  /\ DbCall \in [Names -> Calls] /\ \A n \in Names : Key[DbCall[n]] = n
  /\ MaxLoads \in Nat /\ NoCall \notin Calls

VARIABLES
  registry,   \* the registry; "supported": the browser has object URLs
  promises,   \* blobUrlPromises of the registry: the calls that are making a URL
  doing,      \* what every call does
  objects,    \* object URLs that are not revoked
  db,         \* the database of "db"
  sqlite      \* sqliteModule, what its loads came to and what its callers got

attachmentVars == <<registry, promises, doing, objects, db, sqlite>>

DbCalls == {DbCall[n] : n \in Names}

\* The file that a cell means.
Resolved(key) ==
  IF key \notin Names /\ Decoded[key] \in Names THEN Decoded[key] ELSE key

File(c) == Resolved(Key[c])

Nothing == [kind |-> "nothing"]
Original == [kind |-> "original"]
Failed == [kind |-> "failed"]
Blob(c) == [kind |-> "blob", by |-> c]

\* A call in "made" has settled its promise and not yet removed it.
Doing(status, on, result) == [status |-> status, on |-> on, result |-> result]

AttachmentsInit ==
  /\ registry \in [disposed : {FALSE}, supported : BOOLEAN, urls : {[k \in Keys |-> NoCall]}]
  /\ promises = [k \in Keys |-> NoCall]
  /\ doing = [c \in Calls |-> Doing("idle", NoCall, Nothing)]
  /\ objects = {}
  /\ db = "idle"
  /\ sqlite = [module |-> 0, loads |-> <<>>, got |-> [o \in Openers |-> 0]]

-----------------------------------------------------------------------------
(* registeredBlobUrl *)

Makes(c) ==
  /\ ~registry.disposed
  /\ registry.urls[File(c)] = NoCall
  /\ promises[File(c)] = NoCall

Asked(c) ==
  CASE registry.disposed -> Doing("answered", c, Original)
    [] ~registry.disposed /\ registry.urls[File(c)] # NoCall ->
         Doing("answered", c, Blob(registry.urls[File(c)]))
    [] Makes(c) /\ registry.supported -> Doing("reads", c, Nothing)
    [] Makes(c) /\ ~registry.supported -> Doing("made", c, Original)
    [] OTHER -> Doing("waits", promises[File(c)], Nothing)

\* Calls of one turn, each for a file of its own.
AskAll(cs) ==
  /\ \A c \in cs : doing[c].status = "idle"
  /\ doing' = [c \in Calls |-> IF c \in cs THEN Asked(c) ELSE doing[c]]
  /\ promises' = [k \in Keys |->
       IF \E c \in cs : Makes(c) /\ File(c) = k
       THEN CHOOSE c \in cs : File(c) = k ELSE promises[k]]

Ask(c) ==
  /\ c \notin DbCalls
  /\ AskAll({c})
  /\ UNCHANGED <<registry, objects, db, sqlite>>

Made(c, result) == doing' = [doing EXCEPT ![c] = Doing("made", c, result)]

\* Mutant: a runtime that ended meanwhile is overlooked.
CreateUrl_unchecked(c) ==
  /\ doing[c].status = "reads"
  /\ Made(c, Blob(c))
  /\ objects' = objects \union {c}
  /\ registry' = [registry EXCEPT !.urls[File(c)] = c]
  /\ UNCHANGED <<promises, db, sqlite>>

\* The blob is there: its URL is made and kept.
CreateUrl(c) ==
  /\ doing[c].status = "reads" /\ ~registry.disposed
  /\ Made(c, Blob(c))
  /\ objects' = objects \union {c}
  /\ registry' = [registry EXCEPT !.urls[File(c)] = c]
  /\ UNCHANGED <<promises, db, sqlite>>

\* The blob is there after cleanup.
BlobLate(c) ==
  /\ doing[c].status = "reads" /\ registry.disposed
  /\ Made(c, Original)
  /\ UNCHANGED <<registry, promises, objects, db, sqlite>>

BlobFails(c) ==
  /\ doing[c].status = "reads"
  /\ Made(c, Failed)
  /\ UNCHANGED <<registry, promises, objects, db, sqlite>>

\* The promise of c or the one that it shares has settled, and "finally" runs.
Answer(c) ==
  /\ \/ doing[c].status = "made"
     \/ doing[c].status = "waits" /\ doing[doing[c].on].status \in {"made", "answered"}
  /\ doing' = [doing EXCEPT ![c].status = "answered", ![c].result = doing[doing[c].on].result]
  /\ promises' = [k \in Keys |-> IF promises[k] = c THEN NoCall ELSE promises[k]]
  /\ UNCHANGED <<registry, objects, db, sqlite>>

-----------------------------------------------------------------------------
(* cleanup, after the runtime's invalidation (environment.ts) *)

CleanUp ==
  /\ ~registry.disposed
  /\ registry' = [registry EXCEPT !.disposed = TRUE, !.urls = [k \in Keys |-> NoCall]]
  /\ promises' = [k \in Keys |-> NoCall]
  /\ objects' = objects \ Range(registry.urls)
  /\ db' = IF db = "open" THEN "terminated" ELSE db

DisposeRegistry == CleanUp /\ UNCHANGED <<doing, sqlite>>

\* Cleanup while the browser makes the URL: it is revoked at once.
Interrupted(c) ==
  /\ doing[c].status = "reads"
  /\ CleanUp
  /\ Made(c, Original)
  /\ UNCHANGED sqlite

-----------------------------------------------------------------------------
(* fileDatabase *)

OpenDb ==
  /\ db = "idle" /\ ~registry.disposed
  /\ AskAll(DbCalls)
  /\ db' = "files"
  /\ UNCHANGED <<registry, objects, sqlite>>

DbFiles ==
  /\ db = "files"
  /\ \A c \in DbCalls : doing[c].status = "answered" /\ doing[c].result # Failed
  /\ db' = "opening"
  /\ UNCHANGED <<registry, promises, doing, objects, sqlite>>

\* DuckDBClient.from answers; a runtime that ended meanwhile terminates it.
DbOpens ==
  /\ db = "opening"
  /\ db' = IF registry.disposed THEN "terminated" ELSE "open"
  /\ UNCHANGED <<registry, promises, doing, objects, sqlite>>

DbFails ==
  /\ \/ db = "files" /\ \E c \in DbCalls : doing[c].result = Failed /\ doing[c].status = "answered"
     \/ db = "opening"
  /\ db' = "failed"
  /\ UNCHANGED <<registry, promises, doing, objects, sqlite>>

-----------------------------------------------------------------------------
(* loadSQLiteModule *)

Running == {n \in DOMAIN sqlite.loads : sqlite.loads[n] = "running"}

\* The page's module, or the load that this call starts; without a loader the call
\* throws and changes nothing.
LoadSqlite(o) ==
  /\ sqlite.got[o] = 0
  /\ \/ /\ sqlite.module # 0
        /\ sqlite' = [sqlite EXCEPT !.got[o] = sqlite.module]
     \/ /\ sqlite.module = 0 /\ Len(sqlite.loads) < MaxLoads
        /\ LET n == Len(sqlite.loads) + 1
           IN sqlite' = [module |-> n, loads |-> Append(sqlite.loads, "running"),
                         got |-> [sqlite.got EXCEPT ![o] = n]]
  /\ UNCHANGED <<registry, promises, doing, objects, db>>

SqliteLoaded(n) ==
  /\ n \in Running
  /\ sqlite' = [sqlite EXCEPT !.loads[n] = "loaded"]
  /\ UNCHANGED <<registry, promises, doing, objects, db>>

SqliteFails(n) ==
  /\ n \in Running
  /\ sqlite' = [sqlite EXCEPT !.loads[n] = "failed",
                              !.module = IF sqlite.module = n THEN 0 ELSE sqlite.module]
  /\ UNCHANGED <<registry, promises, doing, objects, db>>

AttachmentsNext ==
  \/ \E c \in Calls :
       \/ Ask(c) \/ CreateUrl(c) \/ BlobLate(c) \/ BlobFails(c) \/ Answer(c) \/ Interrupted(c)
  \/ DisposeRegistry \/ OpenDb \/ DbFiles \/ DbOpens \/ DbFails
  \/ \E o \in Openers : LoadSqlite(o)
  \/ \E n \in DOMAIN sqlite.loads : SqliteLoaded(n) \/ SqliteFails(n)

AttachmentsSpec == AttachmentsInit /\ [][AttachmentsNext]_attachmentVars

-----------------------------------------------------------------------------
(* Properties *)

\* The object URLs that exist are those of the registry, none of them after its
\* cleanup, whenever a blob arrives (attachments.ts:260-275, 316-323).
UrlsEndWithRegistry ==
  objects = Range(registry.urls) \ {NoCall} /\ (registry.disposed => objects = {})

\* Whoever asks for a file, by whatever name, gets the one URL that it has
\* (attachments.ts:235-250).
OneUrlPerFile ==
  \A c, d \in Calls :
    File(c) = File(d) /\ doing[c].result.kind = "blob" /\ doing[d].result.kind = "blob" =>
      doing[c].result = doing[d].result

\* A failure is answered to those who asked before it was over: who asks later starts
\* anew (attachments.ts:108-111, 245-249).
FailuresAreRetried ==
  /\ \A k \in Keys : promises[k] # NoCall => doing[promises[k]].status \in {"reads", "made"}
  /\ sqlite.module # 0 => sqlite.loads[sqlite.module] # "failed"

\* An open database reads URLs that exist, and ends with its runtime
\* (attachments.ts:142-157).
DatabaseIsServed ==
  db = "open" =>
    /\ ~registry.disposed
    /\ \A c \in DbCalls : doing[c].result.kind = "blob" => doing[c].result.by \in objects

\* The runtimes of a page use one SQLite module (attachments.ts:98-114).
OneSqliteModule ==
  Cardinality({n \in DOMAIN sqlite.loads : sqlite.loads[n] \in {"running", "loaded"}}) <= 1

\* Files of a runtime: one URL each while it lives and none afterwards, a database
\* that reads them, and failures that do not stick (runtime/src/attachments.ts).
FilesAreServed ==
  /\ UrlsEndWithRegistry /\ OneUrlPerFile /\ FailuresAreRetried
  /\ DatabaseIsServed /\ OneSqliteModule
=============================================================================
