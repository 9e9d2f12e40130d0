------------------------------ MODULE MCStores ------------------------------
(***************************************************************************)
(* Stores, their schemas and the Datastore id repair side by side. A        *)
(* behaviour is one of the component part; the slots hold its variables.    *)
(***************************************************************************)
EXTENDS PostgresTransaction, TLC

VARIABLES part, s1, s2, s3, s4, s5, s6, s7, s8, s9, s10, s11, s12, s13, s14, s15

slots == <<s1, s2, s3, s4, s5, s6, s7, s8, s9, s10, s11, s12, s13, s14, s15>>
jointVars == <<part, slots, vars>>

\* The slots a component with fewer variables leaves alone.
Rest1 == s1 = 0 /\ s2 = 0 /\ s3 = 0 /\ s4 = 0 /\ s5 = 0 /\ s6 = 0 /\ s7 = 0 /\
         s8 = 0 /\ s9 = 0 /\ s10 = 0 /\ s11 = 0 /\ s12 = 0 /\ s13 = 0 /\ s14 = 0 /\
         s15 = 0
Rest6 == s6 = 0 /\ s7 = 0 /\ s8 = 0 /\ s9 = 0 /\ s10 = 0 /\ s11 = 0 /\ s12 = 0 /\
         s13 = 0 /\ s14 = 0 /\ s15 = 0
Keep6 == UNCHANGED <<s6, s7, s8, s9, s10, s11, s12, s13, s14, s15>>
Rest7 == s7 = 0 /\ s8 = 0 /\ s9 = 0 /\ s10 = 0 /\ s11 = 0 /\ s12 = 0 /\ s13 = 0 /\
         s14 = 0 /\ s15 = 0
Keep7 == UNCHANGED <<s7, s8, s9, s10, s11, s12, s13, s14, s15>>
Rest9 == s9 = 0 /\ s10 = 0 /\ s11 = 0 /\ s12 = 0 /\ s13 = 0 /\ s14 = 0 /\ s15 = 0
Keep9 == UNCHANGED <<s9, s10, s11, s12, s13, s14, s15>>
Rest11 == s11 = 0 /\ s12 = 0 /\ s13 = 0 /\ s14 = 0 /\ s15 = 0
Keep11 == UNCHANGED <<s11, s12, s13, s14, s15>>
Rest12 == s12 = 0 /\ s13 = 0 /\ s14 = 0 /\ s15 = 0
Keep12 == UNCHANGED <<s12, s13, s14, s15>>
Rest14 == s14 = 0 /\ s15 = 0
Keep14 == UNCHANGED <<s14, s15>>

\* Index names: the declared one and the names the planner may make of it.
IndexNames == {<<"a">>, <<"a", "stable_id">>, <<"a", "stable_id_2">>}

\* Lists of entities for bulk writes.

BulkLists ==
    UNION {[1 .. n -> [key : {1, 2, 3, 4}, bytes : {1, 2, 4, 5}]] : n \in 0 .. 2}
        \cup {[i \in 1 .. 4 |-> [key |-> i, bytes |-> size[i]]] : size \in [1 .. 4 -> {1, 2, 4, 5}]}
        \cup {[i \in 1 .. 3 |-> [key |-> keys[i], bytes |-> 1]] : keys \in [1 .. 3 -> {1, 2}]}


\* Lookups with repeated ids, aggregates and conditions of Datastore snapshots.
MCAskedIds == {<<1, 2>>, <<1, 1, 2>>, <<3, 1, 2>>, <<1, 4, 2, 1>>}
MCSpecSets == {set \in SUBSET {"count", "sum", "sumF", "min", "max"} : Cardinality(set) \in 1 .. 2}
MCConditions ==
    [field : {"f"}, op : {"=", "range", "!="}]
        \cup [field : {"g"}, op : {"all", "=", "=null", "in", "inMixed", "range", "!=", "!=null", "isNull"}]

Reads == INSTANCE MemoryStore WITH
    NKeys <- 1, Txs <- {"t1", "t2"}, MaxVersion <- 1, MaxRowRevision <- 2,
    MaxSavepoints <- 1, MaxOps <- 2, rows <- s1, rev <- s2, tomb <- s3, gen <- s4,
    snaps <- s5, tx <- s6
Memory == INSTANCE MemoryStore WITH
    NKeys <- 2, Txs <- {"t1"}, MaxVersion <- 2, MaxRowRevision <- 3,
    MaxSavepoints <- 1, MaxOps <- 2, rows <- s1, rev <- s2, tomb <- s3, gen <- s4,
    snaps <- s5, tx <- s6
OneKey == INSTANCE MemoryStore WITH
    NKeys <- 1, Txs <- {"t1"}, MaxVersion <- 2, MaxRowRevision <- 3,
    MaxSavepoints <- 1, MaxOps <- 3, rows <- s1, rev <- s2, tomb <- s3, gen <- s4,
    snaps <- s5, tx <- s6
Mongo == INSTANCE MongoTransaction WITH
    Writes <- {"w1", "w2", "w3"}, phase <- s1, closed <- s2, failure <- s3, call <- s4,
    attended <- s5, tail <- s6, session <- s7, staged <- s8, db <- s9, lost <- s10,
    commitDispatched <- s11, confirmed <- s12, outcome <- s13
Firestore == INSTANCE FirestoreTransaction WITH
    Keys <- {"k1", "k2"}, MaxCalls <- 3, MaxAttempts <- 1, attempt <- s1, phase <- s2,
    calls <- s3, buffered <- s4, registered <- s5, dirty <- s6, pointReads <- s7,
    exists <- s8, lateRead <- s9, wrote <- s10, created <- s11, completed <- s12,
    applied <- s13, confirmed <- s14, outcome <- s15
Retries == INSTANCE FirestoreTransaction WITH
    Keys <- {"k1"}, MaxCalls <- 2, MaxAttempts <- 3, attempt <- s1, phase <- s2,
    calls <- s3, buffered <- s4, registered <- s5, dirty <- s6, pointReads <- s7,
    exists <- s8, lateRead <- s9, wrote <- s10, created <- s11, completed <- s12,
    applied <- s13, confirmed <- s14, outcome <- s15
TwoRequests == INSTANCE RowWrites WITH
    Clients <- {"c1", "c2", "c3"}, Adapter <- "mongodb", MaxVersion <- 2, row <- s1,
    life <- s2, call <- s3, seen <- s4, born <- s5
SqliteRows == INSTANCE RowWrites WITH
    Clients <- {"c1", "c2", "c3"}, Adapter <- "sqlite", MaxVersion <- 2, row <- s1,
    life <- s2, call <- s3, seen <- s4, born <- s5
Documents == INSTANCE RowWrites WITH
    Clients <- {"c1", "c2", "c3"}, Adapter <- "firestore", MaxVersion <- 1, row <- s1,
    life <- s2, call <- s3, seen <- s4, born <- s5
MongoSchema == INSTANCE SchemaApply WITH
    Dialect <- "mongodb", Deployers <- {"d1", "d2"}, IndexCount <- 1, MaxTries <- 2,
    CrashTries <- 2, Nobody <- "nobody", table <- s1, main <- s2, lookup <- s3,
    repeated <- s4, want <- s5, phase <- s6, plan <- s7, at <- s8, tries <- s9,
    lock <- s10, before <- s11
PostgresSchema == INSTANCE SchemaApply WITH
    Dialect <- "postgresql", Deployers <- {"d1", "d2"}, IndexCount <- 2, MaxTries <- 2,
    CrashTries <- 2, Nobody <- "nobody", table <- s1, main <- s2, lookup <- s3,
    repeated <- s4, want <- s5, phase <- s6, plan <- s7, at <- s8, tries <- s9,
    lock <- s10, before <- s11
SqliteSchema == INSTANCE SchemaApply WITH
    Dialect <- "sqlite", Deployers <- {"d1", "d2"}, IndexCount <- 2, MaxTries <- 2,
    CrashTries <- 2, Nobody <- "nobody", table <- s1, main <- s2, lookup <- s3,
    repeated <- s4, want <- s5, phase <- s6, plan <- s7, at <- s8, tries <- s9,
    lock <- s10, before <- s11
FirestorePlans == INSTANCE SchemaPlans WITH
    Kind <- "firestore", Names <- IndexNames, MaxIndexes <- 3, declared <- s1,
    hasAncestor <- s2, mode <- s3, position <- s4, shapes <- s5, names <- s6,
    changes <- s7, verdict <- s8
DatastorePlans == INSTANCE SchemaPlans WITH
    Kind <- "datastore", Names <- IndexNames, MaxIndexes <- 2, declared <- s1,
    hasAncestor <- s2, mode <- s3, position <- s4, shapes <- s5, names <- s6,
    changes <- s7, verdict <- s8
Command == INSTANCE SchemaCommand WITH
    Stores <- 1, Searches <- 1, command <- s1, config <- s2, adapters <- s3, pc <- s4,
    dispose <- s5, next <- s6, changed <- s7, failed <- s8, runs <- s9, reported <- s10
Serial == INSTANCE DatastoreTransaction WITH
    Keys <- {1}, Root <- {1}, HasResolver <- FALSE, RequireAncestor <- FALSE,
    Operations <- {"create", "update", "delete", "get"}, MaxCalls <- 3,
    MaxAttempts <- 1, readOnly <- s1, attempt <- s2, phase <- s3, base <- s4,
    calls <- s5, buffered <- s6, stored <- s7, applied <- s8, confirmed <- s9,
    outcome <- s10
Queries == INSTANCE DatastoreTransaction WITH
    Keys <- {1, 2}, Root <- {1}, HasResolver <- TRUE, RequireAncestor <- FALSE,
    Operations <- {"delete", "query"}, MaxCalls <- 3, MaxAttempts <- 1, readOnly <- s1,
    attempt <- s2, phase <- s3, base <- s4, calls <- s5, buffered <- s6, stored <- s7,
    applied <- s8, confirmed <- s9, outcome <- s10
Counts == INSTANCE DatastoreTransaction WITH
    Keys <- {1, 2}, Root <- {1}, HasResolver <- FALSE, RequireAncestor <- FALSE,
    Operations <- {"create", "update", "count", "native"}, MaxCalls <- 2,
    MaxAttempts <- 1, readOnly <- s1, attempt <- s2, phase <- s3, base <- s4,
    calls <- s5, buffered <- s6, stored <- s7, applied <- s8, confirmed <- s9,
    outcome <- s10
Attempts == INSTANCE DatastoreTransaction WITH
    Keys <- {1}, Root <- {}, HasResolver <- TRUE, RequireAncestor <- TRUE,
    Operations <- {"create", "update", "delete"}, MaxCalls <- 2, MaxAttempts <- 3,
    readOnly <- s1, attempt <- s2, phase <- s3, base <- s4, calls <- s5,
    buffered <- s6, stored <- s7, applied <- s8, confirmed <- s9, outcome <- s10
Scanning == INSTANCE DatastoreRead WITH
    Ids <- {1, 2, 3}, Values <- {"missing", "null", "1", "[]"}, SortValues <- {"0"},
    Ops <- {"!=", "isNull", "isNotNull"}, Sorts <- {"none", "f"}, Declared <- {},
    AllowScan <- TRUE, Repeats <- TRUE, MaxWrites <- 0, stored <- s1, touched <- s2,
    plan <- s3, phase <- s4, from <- s5, resumed <- s6, seen <- s7, rows <- s8,
    answer <- s9, followed <- s10
Candidates == INSTANCE DatastoreRead WITH
    Ids <- {1, 2, 3}, Values <- {"missing", "0", "[1]"}, SortValues <- {"0", "1"},
    Ops <- {"=", "in", "range"}, Sorts <- {"none", "g"}, Declared <- {"g"},
    AllowScan <- FALSE, Repeats <- TRUE, MaxWrites <- 0, stored <- s1, touched <- s2,
    plan <- s3, phase <- s4, from <- s5, resumed <- s6, seen <- s7, rows <- s8,
    answer <- s9, followed <- s10
Loop == INSTANCE DatastoreRead WITH
    Ids <- {1, 2, 3}, Values <- {"null", "1"}, SortValues <- {"0", "1"},
    Ops <- {"all", "range", "!="}, Sorts <- {"none", "f", "g"}, Declared <- {"f", "g"},
    AllowScan <- FALSE, Repeats <- TRUE, MaxWrites <- 0, stored <- s1, touched <- s2,
    plan <- s3, phase <- s4, from <- s5, resumed <- s6, seen <- s7, rows <- s8,
    answer <- s9, followed <- s10
Live == INSTANCE DatastoreRead WITH
    Ids <- {1, 2, 3}, Values <- {"1"}, SortValues <- {"0", "1"},
    Ops <- {"all", "=", "isNotNull"}, Sorts <- {"g"}, Declared <- {"g"},
    AllowScan <- TRUE, Repeats <- FALSE, MaxWrites <- 1, stored <- s1, touched <- s2,
    plan <- s3, phase <- s4, from <- s5, resumed <- s6, seen <- s7, rows <- s8,
    answer <- s9, followed <- s10
LiveLists == INSTANCE DatastoreRead WITH
    Ids <- {1, 2, 3}, Values <- {"[1]"}, SortValues <- {"0", "1"},
    Ops <- {"all", "=", "isNotNull"}, Sorts <- {"g"}, Declared <- {"g"},
    AllowScan <- TRUE, Repeats <- FALSE, MaxWrites <- 1, stored <- s1, touched <- s2,
    plan <- s3, phase <- s4, from <- s5, resumed <- s6, seen <- s7, rows <- s8,
    answer <- s9, followed <- s10
Lookups == INSTANCE DatastoreSnapshot WITH
    Ids <- {1, 2, 3}, FValues <- {0}, GValues <- {0, 1}, Kinds <- {"getMany"},
    AskedIds <- MCAskedIds, SpecSets <- MCSpecSets, Conditions <- MCConditions,
    AllowScan <- FALSE, LookupMax <- 2, MaxWrites <- 2, moments <- s1, kind <- s2,
    ids <- s3, specs <- s4, condition <- s5, atTime <- s6, phase <- s7, told <- s8,
    got <- s9, at <- s10
Native == INSTANCE DatastoreSnapshot WITH
    Ids <- {1, 2}, FValues <- {0, 1}, GValues <- {0, 8}, Kinds <- {"aggregate"},
    AskedIds <- MCAskedIds, SpecSets <- MCSpecSets, Conditions <- MCConditions,
    AllowScan <- FALSE, LookupMax <- 2, MaxWrites <- 1, moments <- s1, kind <- s2,
    ids <- s3, specs <- s4, condition <- s5, atTime <- s6, phase <- s7, told <- s8,
    got <- s9, at <- s10
Scanned == INSTANCE DatastoreSnapshot WITH
    Ids <- {1, 2}, FValues <- {1}, GValues <- {0, 8}, Kinds <- {"aggregate"},
    AskedIds <- MCAskedIds, SpecSets <- MCSpecSets, Conditions <- MCConditions,
    AllowScan <- TRUE, LookupMax <- 2, MaxWrites <- 2, moments <- s1, kind <- s2,
    ids <- s3, specs <- s4, condition <- s5, atTime <- s6, phase <- s7, told <- s8,
    got <- s9, at <- s10
Bulk == INSTANCE DatastoreBulk WITH
    Keys <- {1, 2, 3, 4}, Lists <- BulkLists, Sizes <- {1, 2, 3}, Overhead <- 1,
    Budget <- 5, EntityLimit <- 3, MaxResumes <- 2, entries <- s1, operation <- s2,
    atomic <- s3, chunkSize <- s4, stored <- s5, first <- s6, offset <- s7,
    batch <- s8, phase <- s9, outcome <- s10, completed <- s11, failedEnd <- s12,
    resumes <- s13
Inventory == INSTANCE IdRepair WITH
    Texts <- {1, 2}, BigTexts <- {2}, Storages <- {"id", "name", "unsafe"},
    Types <- {"string", "number", "int64", "missing", "invalid"}, MaxRows <- 3,
    Policy <- "key-wins", PageSize <- 2, Appliers <- {}, MaxWrites <- 0,
    MaxFaults <- 1, rows <- s1, clock <- s2, scan <- s3, manifest <- s4, ap <- s5,
    latest <- s6, faults <- s7, writes <- s8
KeyWins == INSTANCE IdRepair WITH
    Texts <- {1, 2}, BigTexts <- {}, Storages <- {"id", "name"},
    Types <- {"string", "number"}, MaxRows <- 2, Policy <- "key-wins", PageSize <- 2,
    Appliers <- {"a1", "a2"}, MaxWrites <- 1, MaxFaults <- 0, rows <- s1, clock <- s2,
    scan <- s3, manifest <- s4, ap <- s5, latest <- s6, faults <- s7, writes <- s8
PayloadWins == INSTANCE IdRepair WITH
    Texts <- {1, 2}, BigTexts <- {}, Storages <- {"id", "name"}, Types <- {"number"},
    MaxRows <- 2, Policy <- "payload-wins", PageSize <- 2, Appliers <- {"a1", "a2"},
    MaxWrites <- 1, MaxFaults <- 1, rows <- s1, clock <- s2, scan <- s3,
    manifest <- s4, ap <- s5, latest <- s6, faults <- s7, writes <- s8

\* What the components assume of their constants.
ASSUME Instances == /\ Reads!MemoryStoreAssumption /\ Memory!MemoryStoreAssumption
                    /\ OneKey!MemoryStoreAssumption /\ Mongo!MongoTransactionAssumption
                    /\ Firestore!FirestoreTransactionAssumption
                    /\ Retries!FirestoreTransactionAssumption
                    /\ TwoRequests!RowWritesAssumption
                    /\ SqliteRows!RowWritesAssumption /\ Documents!RowWritesAssumption
                    /\ MongoSchema!SchemaApplyAssumption
                    /\ PostgresSchema!SchemaApplyAssumption
                    /\ SqliteSchema!SchemaApplyAssumption
                    /\ FirestorePlans!SchemaPlansAssumption
                    /\ DatastorePlans!SchemaPlansAssumption
                    /\ Command!SchemaCommandAssumption
                    /\ Serial!DatastoreTransactionAssumption
                    /\ Queries!DatastoreTransactionAssumption
                    /\ Counts!DatastoreTransactionAssumption
                    /\ Attempts!DatastoreTransactionAssumption
                    /\ Scanning!DatastoreReadAssumption
                    /\ Candidates!DatastoreReadAssumption
                    /\ Loop!DatastoreReadAssumption /\ Live!DatastoreReadAssumption
                    /\ LiveLists!DatastoreReadAssumption
                    /\ Lookups!DatastoreSnapshotAssumption
                    /\ Native!DatastoreSnapshotAssumption
                    /\ Scanned!DatastoreSnapshotAssumption
                    /\ Bulk!DatastoreBulkAssumption /\ Inventory!RepairAssumption
                    /\ KeyWins!RepairAssumption /\ PayloadWins!RepairAssumption

\* The variables of PostgresTransaction are those of the part "postgres" alone.
JointInit ==
    /\ Init
    /\ \/ part = "postgres" /\ Rest1
       \/ part = "reads" /\ Reads!Init /\ Rest7
       \/ part = "memory" /\ Memory!Init /\ Rest7
       \/ part = "oneKey" /\ OneKey!Init /\ Rest7
       \/ part = "mongo" /\ Mongo!Init /\ Rest14
       \/ part = "firestore" /\ Firestore!Init
       \/ part = "retries" /\ Retries!Init
       \/ part = "twoRequests" /\ TwoRequests!Init /\ Rest6
       \/ part = "sqliteRows" /\ SqliteRows!Init /\ Rest6
       \/ part = "documents" /\ Documents!Init /\ Rest6
       \/ part = "mongoSchema" /\ MongoSchema!Init /\ Rest12
       \/ part = "postgresSchema" /\ PostgresSchema!Init /\ Rest12
       \/ part = "sqliteSchema" /\ SqliteSchema!Init /\ Rest12
       \/ part = "firestorePlans" /\ FirestorePlans!Init /\ Rest9
       \/ part = "datastorePlans" /\ DatastorePlans!Init /\ Rest9
       \/ part = "command" /\ Command!Init /\ Rest11
       \/ part = "serial" /\ Serial!Init /\ Rest11
       \/ part = "queries" /\ Queries!Init /\ Rest11
       \/ part = "counts" /\ Counts!Init /\ Rest11
       \/ part = "attempts" /\ Attempts!Init /\ Rest11
       \/ part = "scanning" /\ Scanning!Init /\ Rest11
       \/ part = "candidates" /\ Candidates!Init /\ Rest11
       \/ part = "loop" /\ Loop!Init /\ Rest11
       \/ part = "live" /\ Live!Init /\ Rest11
       \/ part = "liveLists" /\ LiveLists!Init /\ Rest11
       \/ part = "lookups" /\ Lookups!Init /\ Rest11
       \/ part = "native" /\ Native!Init /\ Rest11
       \/ part = "scanned" /\ Scanned!Init /\ Rest11
       \/ part = "bulk" /\ Bulk!Init /\ Rest14
       \/ part = "inventory" /\ Inventory!Init /\ Rest9
       \/ part = "keyWins" /\ KeyWins!Init /\ Rest9
       \/ part = "payloadWins" /\ PayloadWins!Init /\ Rest9

InPostgres == part = "postgres" /\ Next /\ UNCHANGED <<part, slots>>
InReads == part = "reads" /\ Reads!Next /\ Keep7 /\ UNCHANGED <<part, vars>>
InMemory == part = "memory" /\ Memory!Next /\ Keep7 /\ UNCHANGED <<part, vars>>
InOneKey == part = "oneKey" /\ OneKey!Next /\ Keep7 /\ UNCHANGED <<part, vars>>
InMongo == part = "mongo" /\ Mongo!Next /\ Keep14 /\ UNCHANGED <<part, vars>>
InFirestore == part = "firestore" /\ Firestore!Next /\ UNCHANGED <<part, vars>>
InRetries == part = "retries" /\ Retries!Next /\ UNCHANGED <<part, vars>>
InTwoRequests == part = "twoRequests" /\ TwoRequests!Next /\ Keep6 /\ UNCHANGED <<part, vars>>
InSqliteRows == part = "sqliteRows" /\ SqliteRows!Next /\ Keep6 /\ UNCHANGED <<part, vars>>
InDocuments == part = "documents" /\ Documents!Next /\ Keep6 /\ UNCHANGED <<part, vars>>
InMongoSchema == part = "mongoSchema" /\ MongoSchema!Next /\ Keep12 /\ UNCHANGED <<part, vars>>
InPostgresSchema == part = "postgresSchema" /\ PostgresSchema!Next /\ Keep12 /\ UNCHANGED <<part, vars>>
InSqliteSchema == part = "sqliteSchema" /\ SqliteSchema!Next /\ Keep12 /\ UNCHANGED <<part, vars>>
InFirestorePlans == part = "firestorePlans" /\ FirestorePlans!Next /\ Keep9 /\ UNCHANGED <<part, vars>>
InDatastorePlans == part = "datastorePlans" /\ DatastorePlans!Next /\ Keep9 /\ UNCHANGED <<part, vars>>
InCommand == part = "command" /\ Command!Next /\ Keep11 /\ UNCHANGED <<part, vars>>
InSerial == part = "serial" /\ Serial!Next /\ Keep11 /\ UNCHANGED <<part, vars>>
InQueries == part = "queries" /\ Queries!Next /\ Keep11 /\ UNCHANGED <<part, vars>>
InCounts == part = "counts" /\ Counts!Next /\ Keep11 /\ UNCHANGED <<part, vars>>
InAttempts == part = "attempts" /\ Attempts!Next /\ Keep11 /\ UNCHANGED <<part, vars>>
InScanning == part = "scanning" /\ Scanning!Next /\ Keep11 /\ UNCHANGED <<part, vars>>
InCandidates == part = "candidates" /\ Candidates!Next /\ Keep11 /\ UNCHANGED <<part, vars>>
InLoop == part = "loop" /\ Loop!Next /\ Keep11 /\ UNCHANGED <<part, vars>>
InLive == part = "live" /\ Live!Next /\ Keep11 /\ UNCHANGED <<part, vars>>
InLiveLists == part = "liveLists" /\ LiveLists!Next /\ Keep11 /\ UNCHANGED <<part, vars>>
InLookups == part = "lookups" /\ Lookups!Next /\ Keep11 /\ UNCHANGED <<part, vars>>
InNative == part = "native" /\ Native!Next /\ Keep11 /\ UNCHANGED <<part, vars>>
InScanned == part = "scanned" /\ Scanned!Next /\ Keep11 /\ UNCHANGED <<part, vars>>
InBulk == part = "bulk" /\ Bulk!Next /\ Keep14 /\ UNCHANGED <<part, vars>>
InInventory == part = "inventory" /\ Inventory!Next /\ Keep9 /\ UNCHANGED <<part, vars>>
InKeyWins == part = "keyWins" /\ KeyWins!Next /\ Keep9 /\ UNCHANGED <<part, vars>>
InPayloadWins == part = "payloadWins" /\ PayloadWins!Next /\ Keep9 /\ UNCHANGED <<part, vars>>
\* Components whose callers need not go on.
MayStop == part \in {"reads", "memory", "oneKey", "inventory", "keyWins", "payloadWins"} /\ UNCHANGED jointVars

JointNext == InPostgres \/ InReads \/ InMemory \/ InOneKey \/ InMongo \/ InFirestore \/
             InRetries \/ InTwoRequests \/ InSqliteRows \/ InDocuments \/
             InMongoSchema \/ InPostgresSchema \/ InSqliteSchema \/ InFirestorePlans \/
             InDatastorePlans \/ InCommand \/ InSerial \/ InQueries \/ InCounts \/
             InAttempts \/ InScanning \/ InCandidates \/ InLoop \/ InLive \/
             InLiveLists \/ InLookups \/ InNative \/ InScanned \/ InBulk \/
             InInventory \/ InKeyWins \/ InPayloadWins \/ MayStop

JointSpec == JointInit /\ [][JointNext]_jointVars

-----------------------------------------------------------------------------
\* Store transactions: one that is told committed holds exactly what its callback saw
\* succeed, one that is told rolled back holds nothing, a lost answer is told as
\* unknown and not applied twice, and a transaction of the memory store is refused
\* only for another writer and leaves no trace of deleted rows; on Datastore
\* overlapping calls of one entity take turns, the buffer holds one mutation per
\* entity with the net effect of its calls, and queries and counts see the buffered
\* writes and are whole.
TransactionsTruthful ==
    /\ part = "reads" => Reads!TypeOK /\ Reads!NoResidue
    /\ part = "memory" => Memory!NoSpuriousConflict
    /\ part = "oneKey" => OneKey!NoSpuriousConflict
    /\ part = "mongo" => Mongo!RolledBackMeansNothing /\ Mongo!CommittedMeansAll
    /\ part = "retries" => Retries!AppliedOnce
    /\ part = "serial" => Serial!CallsAreSerial /\ Serial!BufferIsNetEffect
    /\ part = "queries" => Queries!QueriesSeeWrites
    /\ part = "counts" => Counts!QueriesSeeWrites /\ Counts!CountsAreWhole
    /\ part = "attempts" => Attempts!AppliedOnce

\* Connections and sessions: one command at a time on a MongoDB session, and in a
\* Firestore transaction no read after a write, the last call of a document wins and
\* reads see the own writes.
CallsInOrder ==
    /\ part = "mongo" => Mongo!OneCommandAtATime
    /\ part = "firestore" => /\ Firestore!ReadsBeforeWrites /\ Firestore!LastCallWins
                             /\ Firestore!ReadsYourWrites

\* Row writes: what a client is told of its write, also the reason looked up by a
\* second request, was true at some moment of the call, and of two writers guarded by
\* one version the first wins; of a Datastore bulk the ranges told committed, failed
\* and unknown are true and leave nothing out, no request exceeds its limits, and an
\* atomic bulk is applied as a whole.
AnswersWereTrue ==
    /\ part = "twoRequests" => /\ TwoRequests!AnswersWereTrue
                               /\ TwoRequests!FirstGuardedWriterWins
    /\ part = "sqliteRows" => SqliteRows!AnswersWereTrue
    /\ part = "documents" => Documents!AnswersWereTrue
    /\ part = "bulk" => /\ Bulk!RangesTrue /\ Bulk!RequestsFit /\ Bulk!NothingLeftOut
                        /\ Bulk!AllOrNothing

\* Schemas: a deployer told applied has its indexes with the declared uniqueness,
\* whatever other deployers do, a failed apply leaves no half schema, every plan is
\* accepted and serves its queries without a superfluous index, and the command stops
\* at the first failure, disposes once and reports its cause.
SchemaApplied ==
    /\ part = "mongoSchema" => MongoSchema!AppliedAsDeclared
    /\ part = "postgresSchema" => PostgresSchema!AppliedAsDeclared
    /\ part = "sqliteSchema" => SqliteSchema!NoHalfSchema
    /\ part = "firestorePlans" => /\ FirestorePlans!PlanAccepted
                                  /\ FirestorePlans!QueriesServed
    /\ part = "datastorePlans" => /\ DatastorePlans!PlanAccepted
                                  /\ DatastorePlans!QueriesServed
                                  /\ DatastorePlans!NothingTwice
    /\ part = "command" => /\ Command!DisposedOnce /\ Command!CauseReported
                           /\ Command!DiffChangesNothing /\ Command!PrefixApplied

\* Datastore reads: a page over native filters and orders is the page the portable
\* contract defines, a loop over cursors gives every row once, and rows nobody touches
\* are neither lost nor doubled while others are written; rows looked up in several
\* requests are of one moment, aggregates of several requests are of one moment or
\* refused, and a scan gives exact values.
ReadsPortable ==
    /\ part = "scanning" => Scanning!PortablePageExact
    /\ part = "candidates" => Candidates!PortablePageExact
    /\ part = "loop" => Loop!LoopExact
    /\ part = "live" => Live!UntouchedOnce
    /\ part = "liveLists" => LiveLists!UntouchedOnce
    /\ part = "lookups" => Lookups!RowsOfOneMoment
    /\ part = "native" => Native!AggregatesOfOneMoment
    /\ part = "scanned" => Scanned!AggregatesOfOneMoment /\ Scanned!ScanExact

\* Datastore id repair: the inventory misses no row, the plan covers it, no entity is
\* lost or overwritten although the application writes in between, and the report
\* counts what was changed.
EntitiesKept ==
    /\ part = "inventory" => /\ Inventory!InventoryComplete
                             /\ Inventory!PlanCoversInventory
    /\ part = "keyWins" => KeyWins!EntitiesKept /\ KeyWins!ReportTrue
    /\ part = "payloadWins" => PayloadWins!EntitiesKept /\ PayloadWins!ReportTrue

\* Rows and schemas: a commit of the memory store happens only if the rows it read are
\* as they were, publishes the view of its transaction and holds the expected
\* versions; no update brings back a row that another client deleted; a SQLite
\* deployer is told applied only of a database in which its unique indexes are
\* enforced and no unique index is that its version does not declare, one retained
\* from another version included; the id repair changes a row only if it still drifts
\* as the approved manifest says.
RowsGuarded ==
    [][/\ part = "reads" => Reads!ReadsUnchanged
       /\ part = "memory" => Memory!CommitPublishesView /\ Memory!ExpectedVersionHolds
       /\ part = "oneKey" => OneKey!CommitPublishesView /\ OneKey!ExpectedVersionHolds
       /\ part = "documents" => Documents!UpdateNeverRevives
       /\ part = "sqliteSchema" => SqliteSchema!ToldApplied
       /\ part = "keyWins" => KeyWins!OnlyApprovedDrift
       /\ part = "payloadWins" => PayloadWins!OnlyApprovedDrift]_jointVars
=============================================================================
