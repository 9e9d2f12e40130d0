------------------------------ MODULE MCCaches ------------------------------
(***************************************************************************)
(* What is kept beside the rows, side by side: function cache, entity cache *)
(* and batch loader, outbox events and search documents. A behaviour is one *)
(* of the component part; the slots hold its variables.                     *)
(***************************************************************************)
EXTENDS OutboxDrain, TLC

CONSTANTS c1, c2, c3, p1, p2, None

VARIABLES part, s1, s2, s3, s4, s5, s6, s7, s8, s9, s10, s11, s12, s13, s14, s15, s16

slots == <<s1, s2, s3, s4, s5, s6, s7, s8, s9, s10, s11, s12, s13, s14, s15, s16>>
jointVars == <<part, slots, vars>>

\* The slots a component with fewer variables leaves alone.
Rest1 == s1 = 0 /\ s2 = 0 /\ s3 = 0 /\ s4 = 0 /\ s5 = 0 /\ s6 = 0 /\ s7 = 0 /\
         s8 = 0 /\ s9 = 0 /\ s10 = 0 /\ s11 = 0 /\ s12 = 0 /\ s13 = 0 /\ s14 = 0 /\
         s15 = 0 /\ s16 = 0
Rest6 == s6 = 0 /\ s7 = 0 /\ s8 = 0 /\ s9 = 0 /\ s10 = 0 /\ s11 = 0 /\ s12 = 0 /\
         s13 = 0 /\ s14 = 0 /\ s15 = 0 /\ s16 = 0
Keep6 == UNCHANGED <<s6, s7, s8, s9, s10, s11, s12, s13, s14, s15, s16>>
Rest8 == s8 = 0 /\ s9 = 0 /\ s10 = 0 /\ s11 = 0 /\ s12 = 0 /\ s13 = 0 /\ s14 = 0 /\
         s15 = 0 /\ s16 = 0
Keep8 == UNCHANGED <<s8, s9, s10, s11, s12, s13, s14, s15, s16>>
Rest10 == s10 = 0 /\ s11 = 0 /\ s12 = 0 /\ s13 = 0 /\ s14 = 0 /\ s15 = 0 /\ s16 = 0
Keep10 == UNCHANGED <<s10, s11, s12, s13, s14, s15, s16>>
Rest11 == s11 = 0 /\ s12 = 0 /\ s13 = 0 /\ s14 = 0 /\ s15 = 0 /\ s16 = 0
Keep11 == UNCHANGED <<s11, s12, s13, s14, s15, s16>>
Rest12 == s12 = 0 /\ s13 = 0 /\ s14 = 0 /\ s15 = 0 /\ s16 = 0
Keep12 == UNCHANGED <<s12, s13, s14, s15, s16>>

\* Events of two entities that take turns.
TwoEntities == <<"a", "b", "a", "b">>

Functions == INSTANCE FunctionCache WITH
    Keys <- {"k1"}, Procs <- {p1}, Calls <- {c1, c2, c3},
    Ops <- {"get", "refresh", "inv"}, Mode <- "memory", EpochLimit <- 1,
    MaxSource <- 2, MaxFaults <- 0, src <- s1, store <- s2, nextVer <- s3, reg <- s4,
    mem <- s5, fail <- s6, pend <- s7, wq <- s8, call <- s9, acked <- s10,
    faults <- s11
Faulty == INSTANCE FunctionCache WITH
    Keys <- {"k1"}, Procs <- {p1}, Calls <- {c1, c2}, Ops <- {"get", "refresh", "inv"},
    Mode <- "memory", EpochLimit <- 1, MaxSource <- 2, MaxFaults <- 1, src <- s1,
    store <- s2, nextVer <- s3, reg <- s4, mem <- s5, fail <- s6, pend <- s7, wq <- s8,
    call <- s9, acked <- s10, faults <- s11
Registry == INSTANCE FunctionCache WITH
    Keys <- {"k1", "k2"}, Procs <- {p1}, Calls <- {c1, c2, c3}, Ops <- {"get", "inv"},
    Mode <- "memory", EpochLimit <- 1, MaxSource <- 2, MaxFaults <- 0, src <- s1,
    store <- s2, nextVer <- s3, reg <- s4, mem <- s5, fail <- s6, pend <- s7, wq <- s8,
    call <- s9, acked <- s10, faults <- s11
Setting == INSTANCE FunctionCache WITH
    Keys <- {"k1"}, Procs <- {p1}, Calls <- {c1, c2, c3}, Ops <- {"set", "inv"},
    Mode <- "memory", EpochLimit <- 1, MaxSource <- 2, MaxFaults <- 0, src <- s1,
    store <- s2, nextVer <- s3, reg <- s4, mem <- s5, fail <- s6, pend <- s7, wq <- s8,
    call <- s9, acked <- s10, faults <- s11
Remote == INSTANCE FunctionCache WITH
    Keys <- {"k1"}, Procs <- {p1}, Calls <- {c1, c2, c3}, Ops <- {"get", "inv"},
    Mode <- "remote", EpochLimit <- 1, MaxSource <- 2, MaxFaults <- 0, src <- s1,
    store <- s2, nextVer <- s3, reg <- s4, mem <- s5, fail <- s6, pend <- s7, wq <- s8,
    call <- s9, acked <- s10, faults <- s11
Processes == INSTANCE FunctionCache WITH
    Keys <- {"k1"}, Procs <- {p1, p2}, Calls <- {c1, c2, c3}, Ops <- {"get", "inv"},
    Mode <- "distributed", EpochLimit <- 1, MaxSource <- 2, MaxFaults <- 0, src <- s1,
    store <- s2, nextVer <- s3, reg <- s4, mem <- s5, fail <- s6, pend <- s7, wq <- s8,
    call <- s9, acked <- s10, faults <- s11
Shared == INSTANCE EntityCache WITH
    Procs <- {p1, p2}, Tasks <- {p1, p2}, Home <- [t \in {p1, p2} |-> t],
    Keys <- {"k1"}, None <- None, Distributed <- TRUE, Sync <- FALSE, EpochLimit <- 1,
    FailureLimit <- 1, MaxCalls <- 1, MaxFaults <- 1, store <- s1, cache <- s2,
    tag <- s3, fresh <- s4, late <- s5, held <- s6, epochs <- s7, defaultEpoch <- s8,
    failures <- s9, poisoned <- s10, recovered <- s11, op <- s12, acked <- s13,
    known <- s14, calls <- s15, faults <- s16
Server == INSTANCE EntityCache WITH
    Procs <- {p1}, Tasks <- {c1, c2}, Home <- [t \in {c1, c2} |-> p1], Keys <- {"k1"},
    None <- None, Distributed <- FALSE, Sync <- FALSE, EpochLimit <- 2,
    FailureLimit <- 2, MaxCalls <- 3, MaxFaults <- 0, store <- s1, cache <- s2,
    tag <- s3, fresh <- s4, late <- s5, held <- s6, epochs <- s7, defaultEpoch <- s8,
    failures <- s9, poisoned <- s10, recovered <- s11, op <- s12, acked <- s13,
    known <- s14, calls <- s15, faults <- s16
InMemory == INSTANCE EntityCache WITH
    Procs <- {p1}, Tasks <- {c1, c2}, Home <- [t \in {c1, c2} |-> p1], Keys <- {"k1"},
    None <- None, Distributed <- FALSE, Sync <- TRUE, EpochLimit <- 1,
    FailureLimit <- 1, MaxCalls <- 2, MaxFaults <- 0, store <- s1, cache <- s2,
    tag <- s3, fresh <- s4, late <- s5, held <- s6, epochs <- s7, defaultEpoch <- s8,
    failures <- s9, poisoned <- s10, recovered <- s11, op <- s12, acked <- s13,
    known <- s14, calls <- s15, faults <- s16
Failing == INSTANCE EntityCache WITH
    Procs <- {p1}, Tasks <- {c1}, Home <- [t \in {c1} |-> p1], Keys <- {"k1", "k2"},
    None <- None, Distributed <- FALSE, Sync <- TRUE, EpochLimit <- 2,
    FailureLimit <- 1, MaxCalls <- 3, MaxFaults <- 2, store <- s1, cache <- s2,
    tag <- s3, fresh <- s4, late <- s5, held <- s6, epochs <- s7, defaultEpoch <- s8,
    failures <- s9, poisoned <- s10, recovered <- s11, op <- s12, acked <- s13,
    known <- s14, calls <- s15, faults <- s16
Loader == INSTANCE BatchLoader WITH
    Callers <- {"c1", "c2", "c3"}, Ids <- {"i1", "i2"}, MaxSize <- 2,
    Distinct <- FALSE, MaxWrites <- 1, pending <- s1, scheduled <- s2, flights <- s3,
    call <- s4, store <- s5
Distinct == INSTANCE BatchLoader WITH
    Callers <- {"c1", "c2", "c3"}, Ids <- {"i1", "i2"}, MaxSize <- 2, Distinct <- TRUE,
    MaxWrites <- 1, pending <- s1, scheduled <- s2, flights <- s3, call <- s4,
    store <- s5
MemoryEvents == INSTANCE OutboxDrain WITH
    Kind <- "memory", MaxEvents <- 4, Entity <- TwoEntities, Workers <- {"w1"},
    Leased <- FALSE, BatchSize <- 3, MaxAttempts <- 2, MaxFaults <- 1, appended <- s1,
    queue <- s2, att <- s3, ver <- s4, waiting <- s5, done <- s6, dead <- s7,
    reported <- s8, wk <- s9, faults <- s10
TwoWorkers == INSTANCE OutboxDrain WITH
    Kind <- "rows", MaxEvents <- 2, Entity <- TwoEntities, Workers <- {"w1", "w2"},
    Leased <- FALSE, BatchSize <- 2, MaxAttempts <- 2, MaxFaults <- 0, appended <- s1,
    queue <- s2, att <- s3, ver <- s4, waiting <- s5, done <- s6, dead <- s7,
    reported <- s8, wk <- s9, faults <- s10
Acks == INSTANCE OutboxDrain WITH
    Kind <- "rows", MaxEvents <- 3, Entity <- TwoEntities, Workers <- {"w1"},
    Leased <- TRUE, BatchSize <- 2, MaxAttempts <- 2, MaxFaults <- 2, appended <- s1,
    queue <- s2, att <- s3, ver <- s4, waiting <- s5, done <- s6, dead <- s7,
    reported <- s8, wk <- s9, faults <- s10
Engine == INSTANCE SearchRevisions WITH
    Revisions <- {1, 2}, RequireRevision <- TRUE, MaxAttempts <- 2, write <- s1,
    status <- s2, attempts <- s3, flight <- s4, answers <- s5, doc <- s6, manual <- s7
Indexing == INSTANCE SearchTasks WITH
    Writes <- 3, MaxAdmin <- 2, next <- s1, kind <- s2, at <- s3, mine <- s4,
    tasks <- s5, key <- s6, admin <- s7, doc <- s8, result <- s9

\* What the components assume of their constants.
ASSUME Instances == /\ Functions!CacheAssumption /\ Faulty!CacheAssumption
                    /\ Registry!CacheAssumption /\ Setting!CacheAssumption
                    /\ Remote!CacheAssumption /\ Processes!CacheAssumption
                    /\ Loader!BatchAssumption /\ Distinct!BatchAssumption
                    /\ Engine!SearchRevisionsAssumption
                    /\ Indexing!SearchTasksAssumption

\* The variables of OutboxDrain are those of the part "storedEvents" alone.
JointInit ==
    /\ Init
    /\ \/ part = "storedEvents" /\ Rest1
       \/ part = "functions" /\ Functions!Init /\ Rest12
       \/ part = "faulty" /\ Faulty!Init /\ Rest12
       \/ part = "registry" /\ Registry!Init /\ Rest12
       \/ part = "setting" /\ Setting!Init /\ Rest12
       \/ part = "remote" /\ Remote!Init /\ Rest12
       \/ part = "processes" /\ Processes!Init /\ Rest12
       \/ part = "shared" /\ Shared!Init
       \/ part = "server" /\ Server!Init
       \/ part = "inMemory" /\ InMemory!Init
       \/ part = "failing" /\ Failing!Init
       \/ part = "loader" /\ Loader!Init /\ Rest6
       \/ part = "distinct" /\ Distinct!Init /\ Rest6
       \/ part = "memoryEvents" /\ MemoryEvents!Init /\ Rest11
       \/ part = "twoWorkers" /\ TwoWorkers!Init /\ Rest11
       \/ part = "acks" /\ Acks!Init /\ Rest11
       \/ part = "engine" /\ Engine!Init /\ Rest8
       \/ part = "indexing" /\ Indexing!Init /\ Rest10

InStoredEvents == part = "storedEvents" /\ Next /\ UNCHANGED <<part, slots>>
InFunctions == part = "functions" /\ Functions!Next /\ Keep12 /\ UNCHANGED <<part, vars>>
InFaulty == part = "faulty" /\ Faulty!Next /\ Keep12 /\ UNCHANGED <<part, vars>>
InRegistry == part = "registry" /\ Registry!Next /\ Keep12 /\ UNCHANGED <<part, vars>>
InSetting == part = "setting" /\ Setting!Next /\ Keep12 /\ UNCHANGED <<part, vars>>
InRemote == part = "remote" /\ Remote!Next /\ Keep12 /\ UNCHANGED <<part, vars>>
InProcesses == part = "processes" /\ Processes!Next /\ Keep12 /\ UNCHANGED <<part, vars>>
InShared == part = "shared" /\ Shared!Next /\ UNCHANGED <<part, vars>>
InServer == part = "server" /\ Server!Next /\ UNCHANGED <<part, vars>>
InInMemory == part = "inMemory" /\ InMemory!Next /\ UNCHANGED <<part, vars>>
InFailing == part = "failing" /\ Failing!Next /\ UNCHANGED <<part, vars>>
InLoader == part = "loader" /\ Loader!Next /\ Keep6 /\ UNCHANGED <<part, vars>>
InDistinct == part = "distinct" /\ Distinct!Next /\ Keep6 /\ UNCHANGED <<part, vars>>
InMemoryEvents == part = "memoryEvents" /\ MemoryEvents!Next /\ Keep11 /\ UNCHANGED <<part, vars>>
InTwoWorkers == part = "twoWorkers" /\ TwoWorkers!Next /\ Keep11 /\ UNCHANGED <<part, vars>>
InAcks == part = "acks" /\ Acks!Next /\ Keep11 /\ UNCHANGED <<part, vars>>
InEngine == part = "engine" /\ Engine!Next /\ Keep8 /\ UNCHANGED <<part, vars>>
InIndexing == part = "indexing" /\ Indexing!Next /\ Keep10 /\ UNCHANGED <<part, vars>>
\* Components whose callers need not go on.
MayStop == part \in {"functions", "faulty", "registry", "setting", "remote",
                     "processes", "loader", "distinct", "memoryEvents", "storedEvents",
                     "twoWorkers", "acks", "engine", "indexing"} /\ UNCHANGED jointVars

JointNext == InStoredEvents \/ InFunctions \/ InFaulty \/ InRegistry \/ InSetting \/
             InRemote \/ InProcesses \/ InShared \/ InServer \/ InInMemory \/
             InFailing \/ InLoader \/ InDistinct \/ InMemoryEvents \/ InTwoWorkers \/
             InAcks \/ InEngine \/ InIndexing \/ MayStop

JointSpec == JointInit /\ [][JointNext]_jointVars

-----------------------------------------------------------------------------
\* Function cache: no call is answered with a value computed before an invalidation
\* that was acknowledged before the call began, and none stays behind in memory or in
\* the adapter, with one process or several, whatever fails, however often keys are
\* dropped from the bounded registry; pending counts and write queues agree with the
\* calls. Entity cache: no load gives a row older than one acknowledged before it
\* began, in memory and with versions shared by processes that crash; without versions
\* a fill that was overtaken is taken back before the operations end; a key whose
\* invalidation failed is not read from the cache again until it was rewritten or
\* deleted, also when the registry of failures overflows.
CachesFresh ==
    /\ part = "functions" => Functions!TypeOK /\ Functions!NoStaleGet
    /\ part = "faulty" => Faulty!NoStaleGet
    /\ part = "registry" => Registry!NoStaleMemory
    /\ part = "setting" => Setting!NoStaleMemory
    /\ part = "remote" => Remote!NoStalePersistent
    /\ part = "processes" => Processes!NoStaleGet
    /\ part = "shared" => Shared!NoStaleRead /\ Shared!CacheInv
    /\ part = "server" => Server!NoStaleResidue
    /\ part = "inMemory" => InMemory!NoStaleRead
    /\ part = "failing" => Failing!FailedKeysProtected

\* Batch loader: every waiting caller is in exactly one place, the queue or a chunk
\* that will be answered, and is given a value that was read after it asked.
WaitersServed ==
    /\ part = "loader" => Loader!EveryWaiterHeldOnce /\ Loader!OwnFreshValue
    /\ part = "distinct" => Distinct!EveryWaiterHeldOnce

\* Outbox without leases and search backends: no event disappears without a word
\* whatever fails between drain, delivery and return, one worker delivers the events
\* of an entity in order, and an acknowledgement that is refused restores what it had
\* deleted; once the last write is acknowledged the document is as that write left it,
\* in spite of late, repeated and lost requests, a write is not acknowledged before
\* its task ended, and no document is stored under a foreign key.
EventsKept ==
    /\ part = "storedEvents" => TypeOK /\ EntityOrder
    /\ part = "memoryEvents" => MemoryEvents!EntityOrder
    /\ part = "twoWorkers" => TwoWorkers!NoSilentLoss
    /\ part = "acks" => Acks!RefusedAckRestores
    /\ part = "engine" => Engine!LatestWins
    /\ part = "indexing" => Indexing!OnlyUnderOurKey /\ Indexing!NeverBehindAcked

Symmetry == Permutations({c1, c2, c3}) \cup Permutations({p1, p2})
=============================================================================
