------------------------------ MODULE MCModels ------------------------------
(***************************************************************************)
(* What a context and its models do, side by side: savepoint gate,          *)
(* transactions, execution budget, middleware, hooks, writes, queries,      *)
(* relations and search reads. A behaviour is one of the component part;    *)
(* the slots hold its variables.                                            *)
(***************************************************************************)
EXTENDS SavepointGate, TLC

VARIABLES part, s1, s2, s3, s4, s5, s6, s7, s8, s9, s10, s11, s12, s13, s14

slots == <<s1, s2, s3, s4, s5, s6, s7, s8, s9, s10, s11, s12, s13, s14>>
jointVars == <<part, slots, vars>>

\* The slots a component with fewer variables leaves alone.
Rest1 == s1 = 0 /\ s2 = 0 /\ s3 = 0 /\ s4 = 0 /\ s5 = 0 /\ s6 = 0 /\ s7 = 0 /\
         s8 = 0 /\ s9 = 0 /\ s10 = 0 /\ s11 = 0 /\ s12 = 0 /\ s13 = 0 /\ s14 = 0
Rest4 == s4 = 0 /\ s5 = 0 /\ s6 = 0 /\ s7 = 0 /\ s8 = 0 /\ s9 = 0 /\ s10 = 0 /\
         s11 = 0 /\ s12 = 0 /\ s13 = 0 /\ s14 = 0
Keep4 == UNCHANGED <<s4, s5, s6, s7, s8, s9, s10, s11, s12, s13, s14>>
Rest5 == s5 = 0 /\ s6 = 0 /\ s7 = 0 /\ s8 = 0 /\ s9 = 0 /\ s10 = 0 /\ s11 = 0 /\
         s12 = 0 /\ s13 = 0 /\ s14 = 0
Keep5 == UNCHANGED <<s5, s6, s7, s8, s9, s10, s11, s12, s13, s14>>
Rest6 == s6 = 0 /\ s7 = 0 /\ s8 = 0 /\ s9 = 0 /\ s10 = 0 /\ s11 = 0 /\ s12 = 0 /\
         s13 = 0 /\ s14 = 0
Keep6 == UNCHANGED <<s6, s7, s8, s9, s10, s11, s12, s13, s14>>
Rest7 == s7 = 0 /\ s8 = 0 /\ s9 = 0 /\ s10 = 0 /\ s11 = 0 /\ s12 = 0 /\ s13 = 0 /\
         s14 = 0
Keep7 == UNCHANGED <<s7, s8, s9, s10, s11, s12, s13, s14>>
Rest10 == s10 = 0 /\ s11 = 0 /\ s12 = 0 /\ s13 = 0 /\ s14 = 0
Keep10 == UNCHANGED <<s10, s11, s12, s13, s14>>
Rest11 == s11 = 0 /\ s12 = 0 /\ s13 = 0 /\ s14 = 0
Keep11 == UNCHANGED <<s11, s12, s13, s14>>
Rest12 == s12 = 0 /\ s13 = 0 /\ s14 = 0
Keep12 == UNCHANGED <<s12, s13, s14>>
Rest13 == s13 = 0 /\ s14 = 0
Keep13 == UNCHANGED <<s13, s14>>
Rest14 == s14 = 0
Keep14 == UNCHANGED <<s14>>

\* Target rows of relations: two share a foreign key under different ancestors.
ForeignRows == 1 :> [fk |-> 1, anc |-> 1] @@ 2 :> [fk |-> 1, anc |-> 2] @@ 3 :> [fk |-> 2, anc |-> 1]
\* Rows found by their id, and a single row.
IdRows == 1 :> [fk |-> 1, anc |-> 1] @@ 2 :> [fk |-> 2, anc |-> 2]
OneRow == <<[fk |-> 2, anc |-> 1]>>

\* Entities behind search hits: two of one ancestor, and two that share an id.
Plain == {[id |-> 1, anc |-> "a"], [id |-> 2, anc |-> "a"]}
SameId == {[id |-> 1, anc |-> "a"], [id |-> 1, anc |-> "b"]}

Retried == INSTANCE ContextTransaction WITH
    Keys <- {"k1"}, Tasks <- {"t1"}, Models <- {"m1"}, MaxAttempts <- 2, MaxDepth <- 2,
    stack <- s1, attempt <- s2, inval <- s3, poisoned <- s4, bound <- s5, ran <- s6,
    evicted <- s7, durable <- s8, lost <- s9, phase <- s10, truth <- s11, obs <- s12
Savepoints == INSTANCE ContextTransaction WITH
    Keys <- {"k1"}, Tasks <- {}, Models <- {"m1"}, MaxAttempts <- 1, MaxDepth <- 2,
    stack <- s1, attempt <- s2, inval <- s3, poisoned <- s4, bound <- s5, ran <- s6,
    evicted <- s7, durable <- s8, lost <- s9, phase <- s10, truth <- s11, obs <- s12
Deep == INSTANCE ContextTransaction WITH
    Keys <- {"k1"}, Tasks <- {}, Models <- {}, MaxAttempts <- 1, MaxDepth <- 3,
    stack <- s1, attempt <- s2, inval <- s3, poisoned <- s4, bound <- s5, ran <- s6,
    evicted <- s7, durable <- s8, lost <- s9, phase <- s10, truth <- s11, obs <- s12
Budget == INSTANCE ExecutionBudget WITH
    Callers <- {"c1", "c2"}, HasDeadline <- TRUE, Deadline <- 5, Delays <- {0, 1, 3},
    MaxTimer <- 2, MaxClock <- 6, MaxAttempts <- 2, clock <- s1, aborted <- s2,
    caller <- s3
Writing == INSTANCE MiddlewareWrite WITH
    NumLayers <- 2, MaxFrames <- 3, input <- s1, frames <- s2, acceptingNext <- s3,
    leafCalls <- s4, leaf <- s5, dispatched <- s6, dispatching <- s7,
    duplicateNextError <- s8, lateNextError <- s9, phase <- s10, outcome <- s11
Reading == INSTANCE MiddlewareRead WITH
    MaxChanges <- 2, op <- s1, ids <- s2, scope <- s3, trusts <- s4, layers <- s5,
    source <- s6, answer <- s7, changes <- s8, phase <- s9, result <- s10
Wrapping == INSTANCE MiddlewareTransaction WITH
    Ops <- {"o1", "o2"}, MaxAttempts <- 2, attempt <- s1, closed <- s2, state <- s3,
    op <- s4, caught <- s5, staged <- s6, active <- s7, outcome <- s8, committed <- s9
QueryHooks == INSTANCE HookPipeline WITH
    Names <- {"beforeQuery"}, MaxHooks <- 2, Materialized <- FALSE, rows <- s1,
    name <- s2, hooks <- s3, payload <- s4, given <- s5, covered <- s6, running <- s7,
    settled <- s8, failed <- s9, seen <- s10, before <- s11, outcome <- s12
RowHooks == INSTANCE HookPipeline WITH
    Names <- {"beforeQuery"}, MaxHooks <- 2, Materialized <- TRUE, rows <- s1,
    name <- s2, hooks <- s3, payload <- s4, given <- s5, covered <- s6, running <- s7,
    settled <- s8, failed <- s9, seen <- s10, before <- s11, outcome <- s12
WriteHooks == INSTANCE HookPipeline WITH
    Names <- {"afterUpdate", "afterStoreWrite"}, MaxHooks <- 3, Materialized <- FALSE,
    rows <- s1, name <- s2, hooks <- s3, payload <- s4, given <- s5, covered <- s6,
    running <- s7, settled <- s8, failed <- s9, seen <- s10, before <- s11,
    outcome <- s12
Saves == INSTANCE ModelWrites WITH
    Insts <- {"i1"}, Ops <- {"o1", "o2"}, MaxOps <- 2, MaxVersion <- 3,
    MaxExternal <- 1, MaxLost <- 1, row <- s1, cached <- s2, inst <- s3, op <- s4,
    stamp <- s5, count <- s6
Cached == INSTANCE ModelWrites WITH
    Insts <- {"i1"}, Ops <- {"o1", "o2"}, MaxOps <- 3, MaxVersion <- 3,
    MaxExternal <- 0, MaxLost <- 0, row <- s1, cached <- s2, inst <- s3, op <- s4,
    stamp <- s5, count <- s6
Bulk == INSTANCE ModelBulk WITH
    Ids <- {1, 2}, Bulks <- {"b1", "b2"}, MaxEdits <- 1, rows <- s1, view <- s2,
    tx <- s3, bulk <- s4, edits <- s5
Builder == INSTANCE QueryBuild WITH
    MaxCalls <- 2, MaxHookSteps <- 1, phase <- s1, calls <- s2, constraints <- s3,
    where <- s4, or <- s5, ancestor <- s6, op <- s7, findId <- s8, plan <- s9,
    base <- s10, kept <- s11, hookSteps <- s12, list <- s13, result <- s14
QueryHook == INSTANCE QueryBuild WITH
    MaxCalls <- 1, MaxHookSteps <- 2, phase <- s1, calls <- s2, constraints <- s3,
    where <- s4, or <- s5, ancestor <- s6, op <- s7, findId <- s8, plan <- s9,
    base <- s10, kept <- s11, hookSteps <- s12, list <- s13, result <- s14
Keyset == INSTANCE QueryPages WITH
    Mode <- "keyset", Types <- {"null", "boolean", "number"}, NumRows <- 3,
    MaxChanges <- 1, table <- s1, sort <- s2, limit <- s3, notNull <- s4, cursor <- s5,
    offset <- s6, phase <- s7, seen <- s8, touched <- s9, start <- s10, changes <- s11
Long == INSTANCE QueryPages WITH
    Mode <- "keyset", Types <- {"boolean", "null"}, NumRows <- 5, MaxChanges <- 0,
    table <- s1, sort <- s2, limit <- s3, notNull <- s4, cursor <- s5, offset <- s6,
    phase <- s7, seen <- s8, touched <- s9, start <- s10, changes <- s11
Offset == INSTANCE QueryPages WITH
    Mode <- "offset", Types <- {"null", "boolean", "number"}, NumRows <- 3,
    MaxChanges <- 1, table <- s1, sort <- s2, limit <- s3, notNull <- s4, cursor <- s5,
    offset <- s6, phase <- s7, seen <- s8, touched <- s9, start <- s10, changes <- s11
Scoped == INSTANCE RelationLoad WITH
    Rows <- ForeignRows, Keys <- {1, 2}, Kind <- "one", Ancestry <- "explicit",
    Contexts <- {"root"}, MaxLoads <- 1, owner <- s1, slot <- s2, full <- s3,
    loads <- s4, asked <- s5
Hooked == INSTANCE RelationLoad WITH
    Rows <- ForeignRows, Keys <- {1, 2}, Kind <- "many", Ancestry <- "inferred",
    Contexts <- {"root"}, MaxLoads <- 1, owner <- s1, slot <- s2, full <- s3,
    loads <- s4, asked <- s5
Slot == INSTANCE RelationLoad WITH
    Rows <- OneRow, Keys <- {2}, Kind <- "one", Ancestry <- "none",
    Contexts <- {"root"}, MaxLoads <- 2, owner <- s1, slot <- s2, full <- s3,
    loads <- s4, asked <- s5
BothContexts == INSTANCE RelationLoad WITH
    Rows <- OneRow, Keys <- {2}, Kind <- "one", Ancestry <- "none",
    Contexts <- {"root", "tx"}, MaxLoads <- 1, owner <- s1, slot <- s2, full <- s3,
    loads <- s4, asked <- s5
Many == INSTANCE Preload WITH
    Owners <- 3, Keys <- {1, 2}, Rows <- ForeignRows, Kind <- "many", Path <- "in",
    Nested <- FALSE, MaxIn <- 1, MaxChanges <- 1, phase <- s1, at <- s2, owners <- s3,
    snap <- s4, store <- s5, todo <- s6, insts <- s7, results <- s8, snapshots <- s9,
    refs <- s10, changes <- s11, seen <- s12, touched <- s13
RootLists == INSTANCE Preload WITH
    Owners <- 2, Keys <- {1, 2}, Rows <- ForeignRows, Kind <- "one", Path <- "root",
    Nested <- FALSE, MaxIn <- 1, MaxChanges <- 1, phase <- s1, at <- s2, owners <- s3,
    snap <- s4, store <- s5, todo <- s6, insts <- s7, results <- s8, snapshots <- s9,
    refs <- s10, changes <- s11, seen <- s12, touched <- s13
Inferred == INSTANCE Preload WITH
    Owners <- 2, Keys <- {1, 2}, Rows <- ForeignRows, Kind <- "one",
    Path <- "inferred", Nested <- TRUE, MaxIn <- 1, MaxChanges <- 1, phase <- s1,
    at <- s2, owners <- s3, snap <- s4, store <- s5, todo <- s6, insts <- s7,
    results <- s8, snapshots <- s9, refs <- s10, changes <- s11, seen <- s12,
    touched <- s13
ById == INSTANCE Preload WITH
    Owners <- 2, Keys <- {1, 2}, Rows <- IdRows, Kind <- "one", Path <- "idScoped",
    Nested <- TRUE, MaxIn <- 1, MaxChanges <- 1, phase <- s1, at <- s2, owners <- s3,
    snap <- s4, store <- s5, todo <- s6, insts <- s7, results <- s8, snapshots <- s9,
    refs <- s10, changes <- s11, seen <- s12, touched <- s13
Hits == INSTANCE SearchRead WITH
    Entities <- Plain, Ancestored <- FALSE, Full <- TRUE, Filtered <- TRUE,
    MaxWrites <- 2, rows <- s1, index <- s2, writes <- s3, phase <- s4, hits <- s5,
    loads <- s6, seen <- s7, stale <- s8, total <- s9, list <- s10
SameIds == INSTANCE SearchRead WITH
    Entities <- SameId, Ancestored <- TRUE, Full <- TRUE, Filtered <- TRUE,
    MaxWrites <- 2, rows <- s1, index <- s2, writes <- s3, phase <- s4, hits <- s5,
    loads <- s6, seen <- s7, stale <- s8, total <- s9, list <- s10
PartialHits == INSTANCE SearchRead WITH
    Entities <- SameId, Ancestored <- TRUE, Full <- FALSE, Filtered <- TRUE,
    MaxWrites <- 1, rows <- s1, index <- s2, writes <- s3, phase <- s4, hits <- s5,
    loads <- s6, seen <- s7, stale <- s8, total <- s9, list <- s10
Algolia == INSTANCE SearchPaging WITH
    Kind <- "algolia", Results <- 9, Limit <- 2, MaxFaults <- 3, After <- FALSE,
    cursors <- s1, got <- s2, state <- s3, faults <- s4
Meilisearch == INSTANCE SearchPaging WITH
    Kind <- "meilisearch", Results <- 5, Limit <- 2, MaxFaults <- 3, After <- FALSE,
    cursors <- s1, got <- s2, state <- s3, faults <- s4
Elasticsearch == INSTANCE SearchPaging WITH
    Kind <- "elasticsearch", Results <- 5, Limit <- 2, MaxFaults <- 3, After <- FALSE,
    cursors <- s1, got <- s2, state <- s3, faults <- s4

\* What the components assume of their constants.
ASSUME Instances == /\ Retried!TransactionAssumption
                    /\ Savepoints!TransactionAssumption /\ Deep!TransactionAssumption
                    /\ Budget!BudgetAssumption /\ Writing!MiddlewareWriteAssumption
                    /\ Reading!MiddlewareReadAssumption
                    /\ Wrapping!MiddlewareTransactionAssumption
                    /\ QueryHooks!HookAssumption /\ RowHooks!HookAssumption
                    /\ WriteHooks!HookAssumption /\ Saves!WritesAssumption
                    /\ Cached!WritesAssumption /\ Builder!QueryBuildAssumption
                    /\ QueryHook!QueryBuildAssumption /\ Keyset!QueryPagesAssumption
                    /\ Long!QueryPagesAssumption /\ Offset!QueryPagesAssumption
                    /\ Scoped!RelationAssumption /\ Hooked!RelationAssumption
                    /\ Slot!RelationAssumption /\ BothContexts!RelationAssumption
                    /\ Many!PreloadAssumption /\ RootLists!PreloadAssumption
                    /\ Inferred!PreloadAssumption /\ ById!PreloadAssumption
                    /\ Hits!SearchReadAssumption /\ SameIds!SearchReadAssumption
                    /\ PartialHits!SearchReadAssumption
                    /\ Algolia!SearchPagingAssumption
                    /\ Meilisearch!SearchPagingAssumption
                    /\ Elasticsearch!SearchPagingAssumption

\* The variables of SavepointGate are those of the part "gate" alone.
JointInit ==
    /\ Init
    /\ \/ part = "gate" /\ Rest1
       \/ part = "retried" /\ Retried!Init /\ Rest13
       \/ part = "savepoints" /\ Savepoints!Init /\ Rest13
       \/ part = "deep" /\ Deep!Init /\ Rest13
       \/ part = "budget" /\ Budget!Init /\ Rest4
       \/ part = "writing" /\ Writing!Init /\ Rest12
       \/ part = "reading" /\ Reading!Init /\ Rest11
       \/ part = "wrapping" /\ Wrapping!Init /\ Rest10
       \/ part = "queryHooks" /\ QueryHooks!Init /\ Rest13
       \/ part = "rowHooks" /\ RowHooks!Init /\ Rest13
       \/ part = "writeHooks" /\ WriteHooks!Init /\ Rest13
       \/ part = "saves" /\ Saves!Init /\ Rest7
       \/ part = "cached" /\ Cached!Init /\ Rest7
       \/ part = "bulk" /\ Bulk!Init /\ Rest6
       \/ part = "builder" /\ Builder!Init
       \/ part = "queryHook" /\ QueryHook!Init
       \/ part = "keyset" /\ Keyset!Init /\ Rest12
       \/ part = "long" /\ Long!Init /\ Rest12
       \/ part = "offset" /\ Offset!Init /\ Rest12
       \/ part = "scoped" /\ Scoped!Init /\ Rest6
       \/ part = "hooked" /\ Hooked!Init /\ Rest6
       \/ part = "slot" /\ Slot!Init /\ Rest6
       \/ part = "bothContexts" /\ BothContexts!Init /\ Rest6
       \/ part = "many" /\ Many!Init /\ Rest14
       \/ part = "rootLists" /\ RootLists!Init /\ Rest14
       \/ part = "inferred" /\ Inferred!Init /\ Rest14
       \/ part = "byId" /\ ById!Init /\ Rest14
       \/ part = "hits" /\ Hits!Init /\ Rest11
       \/ part = "sameIds" /\ SameIds!Init /\ Rest11
       \/ part = "partialHits" /\ PartialHits!Init /\ Rest11
       \/ part = "algolia" /\ Algolia!Init /\ Rest5
       \/ part = "meilisearch" /\ Meilisearch!Init /\ Rest5
       \/ part = "elasticsearch" /\ Elasticsearch!Init /\ Rest5

InGate == part = "gate" /\ Next /\ UNCHANGED <<part, slots>>
InRetried == part = "retried" /\ Retried!Next /\ Keep13 /\ UNCHANGED <<part, vars>>
InSavepoints == part = "savepoints" /\ Savepoints!Next /\ Keep13 /\ UNCHANGED <<part, vars>>
InDeep == part = "deep" /\ Deep!Next /\ Keep13 /\ UNCHANGED <<part, vars>>
InBudget == part = "budget" /\ Budget!Next /\ Keep4 /\ UNCHANGED <<part, vars>>
InWriting == part = "writing" /\ Writing!Next /\ Keep12 /\ UNCHANGED <<part, vars>>
InReading == part = "reading" /\ Reading!Next /\ Keep11 /\ UNCHANGED <<part, vars>>
InWrapping == part = "wrapping" /\ Wrapping!Next /\ Keep10 /\ UNCHANGED <<part, vars>>
InQueryHooks == part = "queryHooks" /\ QueryHooks!Next /\ Keep13 /\ UNCHANGED <<part, vars>>
InRowHooks == part = "rowHooks" /\ RowHooks!Next /\ Keep13 /\ UNCHANGED <<part, vars>>
InWriteHooks == part = "writeHooks" /\ WriteHooks!Next /\ Keep13 /\ UNCHANGED <<part, vars>>
InSaves == part = "saves" /\ Saves!Next /\ Keep7 /\ UNCHANGED <<part, vars>>
InCached == part = "cached" /\ Cached!Next /\ Keep7 /\ UNCHANGED <<part, vars>>
InBulk == part = "bulk" /\ Bulk!Next /\ Keep6 /\ UNCHANGED <<part, vars>>
InBuilder == part = "builder" /\ Builder!Next /\ UNCHANGED <<part, vars>>
InQueryHook == part = "queryHook" /\ QueryHook!Next /\ UNCHANGED <<part, vars>>
InKeyset == part = "keyset" /\ Keyset!Next /\ Keep12 /\ UNCHANGED <<part, vars>>
InLong == part = "long" /\ Long!Next /\ Keep12 /\ UNCHANGED <<part, vars>>
InOffset == part = "offset" /\ Offset!Next /\ Keep12 /\ UNCHANGED <<part, vars>>
InScoped == part = "scoped" /\ Scoped!Next /\ Keep6 /\ UNCHANGED <<part, vars>>
InHooked == part = "hooked" /\ Hooked!Next /\ Keep6 /\ UNCHANGED <<part, vars>>
InSlot == part = "slot" /\ Slot!Next /\ Keep6 /\ UNCHANGED <<part, vars>>
InBothContexts == part = "bothContexts" /\ BothContexts!Next /\ Keep6 /\ UNCHANGED <<part, vars>>
InMany == part = "many" /\ Many!Next /\ Keep14 /\ UNCHANGED <<part, vars>>
InRootLists == part = "rootLists" /\ RootLists!Next /\ Keep14 /\ UNCHANGED <<part, vars>>
InInferred == part = "inferred" /\ Inferred!Next /\ Keep14 /\ UNCHANGED <<part, vars>>
InById == part = "byId" /\ ById!Next /\ Keep14 /\ UNCHANGED <<part, vars>>
InHits == part = "hits" /\ Hits!Next /\ Keep11 /\ UNCHANGED <<part, vars>>
InSameIds == part = "sameIds" /\ SameIds!Next /\ Keep11 /\ UNCHANGED <<part, vars>>
InPartialHits == part = "partialHits" /\ PartialHits!Next /\ Keep11 /\ UNCHANGED <<part, vars>>
InAlgolia == part = "algolia" /\ Algolia!Next /\ Keep5 /\ UNCHANGED <<part, vars>>
InMeilisearch == part = "meilisearch" /\ Meilisearch!Next /\ Keep5 /\ UNCHANGED <<part, vars>>
InElasticsearch == part = "elasticsearch" /\ Elasticsearch!Next /\ Keep5 /\ UNCHANGED <<part, vars>>
\* Components whose callers need not go on.
MayStop == part \in {"gate", "retried", "savepoints", "deep", "budget", "saves",
                     "cached", "bulk", "builder", "queryHook", "scoped", "hooked",
                     "slot", "bothContexts", "hits", "sameIds", "partialHits",
                     "algolia", "meilisearch", "elasticsearch"} /\ UNCHANGED jointVars

JointNext == InGate \/ InRetried \/ InSavepoints \/ InDeep \/ InBudget \/ InWriting \/
             InReading \/ InWrapping \/ InQueryHooks \/ InRowHooks \/ InWriteHooks \/
             InSaves \/ InCached \/ InBulk \/ InBuilder \/ InQueryHook \/ InKeyset \/
             InLong \/ InOffset \/ InScoped \/ InHooked \/ InSlot \/ InBothContexts \/
             InMany \/ InRootLists \/ InInferred \/ InById \/ InHits \/ InSameIds \/
             InPartialHits \/ InAlgolia \/ InMeilisearch \/ InElasticsearch \/ MayStop

JointSpec == JointInit /\ [][JointNext]_jointVars

-----------------------------------------------------------------------------
\* Context transactions: deferred tasks run exactly once and only those of the outcome
\* that happened, also when the callback runs again or savepoints end in different
\* ways, none is forgotten, and the result names the outcome; whatever was or may have
\* been committed is evicted from the cache, a model made in a savepoint that was
\* undone is unusable while the others stay usable, and keys written in an open
\* transaction are not cached.
TransactionsFollowOutcome ==
    /\ part = "retried" => /\ Retried!TasksFollowOutcome /\ Retried!NoTaskForgotten
                           /\ Retried!ResultTruthful
    /\ part = "savepoints" => /\ Savepoints!TypeOK /\ Savepoints!CommittedKeysEvicted
                              /\ Savepoints!UsableModelsKept
                              /\ Savepoints!DirtyKeysCovered
    /\ part = "deep" => Deep!CommittedKeysEvicted /\ Deep!DirtyKeysCovered

\* Middleware and hooks around an adapter call: the adapter is called at most once,
\* success is told only for a write that was made and a commit that holds all
\* operations, answers stay inside the request, keys cannot be moved, the outbox sees
\* the payload that was stored, and one failing hook does not keep the others from
\* running; an abort wakes whoever waits for a retry.
InterceptorsHonest ==
    /\ part = "budget" => Budget!AbortWakesAll
    /\ part = "writing" => Writing!WrittenAtMostOnce /\ Writing!OkMeansWritten
    /\ part = "reading" => /\ Reading!AnswersTheRequest /\ Reading!InsideScope
                           /\ Reading!KeyKept
    /\ part = "wrapping" => Wrapping!CommitComplete
    /\ part = "writeHooks" => /\ WriteHooks!OutboxSeesWritten /\ WriteHooks!EntityKept
                              /\ WriteHooks!IndependentHooksAllRun

\* Once a caller was told how a mutation or an attempt ended, nothing of it reaches
\* the adapter; retries begin inside the budget only, and the last attempt that fits
\* is made.
NothingAfterOutcome ==
    [][/\ part = "budget" => Budget!AttemptsInsideBudget /\ Budget!LastAttemptKept
       /\ part = "writing" => Writing!NothingAfterOutcome
       /\ part = "wrapping" => /\ Wrapping!NothingAfterAttempt
                               /\ Wrapping!ExpiredAttemptFails]_jointVars

\* Saves: two instances of one version hold the same content, callers are told
\* committed or failed as it is, whatever hook or answer fails, no cached row outlives
\* the write that replaced it, and a bulk is written as a whole or not at all, each
\* item told what its row is.
SavesTruthful ==
    /\ part = "saves" => Saves!VersionNamesContent /\ Saves!ToldTruth
    /\ part = "cached" => Cached!CacheFresh
    /\ part = "bulk" => Bulk!AllOrNothing /\ Bulk!ItemsMatchRows

\* Saves and relations: a version-checked write never replaces a row that the
\* instance, or the hook that set its version, has not seen, and a conflict evicts the
\* cached row; a result is given to an owner only if it is the join of the owner's key
\* and the rows as they were read, although keys, owners and rows change during the
\* awaits, and the late failure of an older load does not drop a newer promise.
NoBlindOverwrite ==
    [][/\ part = "saves" => Saves!NoBlindOverwrite /\ Saves!ConflictEvicts
       /\ part = "hooked" => Hooked!ResultBelongsToOwner
       /\ part = "slot" => Slot!NewerPromiseKept
       /\ part = "many" => Many!IncludeIsJoin
       /\ part = "rootLists" => RootLists!IncludeIsJoin
       /\ part = "inferred" => Inferred!IncludeIsJoin
       /\ part = "byId" => ById!IncludeIsJoin]_jointVars

\* Queries: whatever scopes, hooks and branches are combined, the plan means what the
\* builder was told, neither a branch added by a hook nor the soft-delete guard lets
\* rows in from outside, counts are of all rows, and bulk updates stay under their
\* ancestor; walking through a query page by page, with rows changed in between, gives
\* its rows in order and each untouched row once, and a cursor is refused by a query
\* with another order.
QueriesExact ==
    /\ part = "queryHooks" => QueryHooks!GuardExact
    /\ part = "rowHooks" => RowHooks!GuardExact
    /\ part = "builder" => /\ Builder!PlanMeansBuilder /\ Builder!HooksStayInBase
                           /\ Builder!CountComplete /\ Builder!UpdateStaysUnderAncestor
    /\ part = "queryHook" => /\ QueryHook!PlanMeansBuilder /\ QueryHook!HooksStayInBase
                             /\ QueryHook!CountComplete
                             /\ QueryHook!UpdateStaysUnderAncestor
    /\ part = "keyset" => /\ Keyset!PagesInOrder /\ Keyset!EveryRowOnce
                          /\ Keyset!CursorKeepsItsSort
    /\ part = "long" => Long!PagesInOrder
    /\ part = "offset" => Offset!EveryRowOnce

\* Relations: a slot holds a load of its own context that is still wanted, one row is
\* given only if it is the only one, no two owners share an instance, what a hook does
\* to one owner's copy stays there, and an include that fails leaves nothing behind.
RelationsUnshared ==
    /\ part = "scoped" => Scoped!OneIsUnambiguous
    /\ part = "slot" => Slot!PromiseFitsRequest /\ Slot!SlotsHoldLiveLoads
    /\ part = "bothContexts" => /\ BothContexts!PromiseFitsRequest
                                /\ BothContexts!SlotsHoldLiveLoads
    /\ part = "many" => /\ Many!NoSharedInstance /\ Many!HookStaysHome
                        /\ Many!FailureLeavesNothing
    /\ part = "rootLists" => RootLists!NoSharedInstance
    /\ part = "inferred" => Inferred!HookStaysHome
    /\ part = "byId" => ById!FailureLeavesNothing

\* Search reads: items are the hits of the page under their own identities and as the
\* rows are now, a total is not told of hits that are gone, pages follow one another
\* without a gap in spite of partial answers, and the end is told only at the end.
SearchExact ==
    /\ part = "hits" => Hits!ItemsAreCurrent /\ Hits!NoTotalOfStaleHits
    /\ part = "sameIds" => SameIds!ItemsAreCurrent /\ SameIds!ItemsAreTheHits
    /\ part = "partialHits" => /\ PartialHits!NoTotalOfStaleHits
                               /\ PartialHits!ItemsAreTheHits
    /\ part = "algolia" => Algolia!EndMeansAll /\ Algolia!AlwaysAPrefix
    /\ part = "meilisearch" => Meilisearch!EndMeansAll /\ Meilisearch!AlwaysAPrefix
    /\ part = "elasticsearch" => /\ Elasticsearch!EndMeansAll
                                 /\ Elasticsearch!AlwaysAPrefix

\* Bounds the counters of ModelWrites.
Bounded == (part = "saves" => Saves!Bounded) /\ (part = "cached" => Cached!Bounded)
=============================================================================
