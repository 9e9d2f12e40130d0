----------------------------- MODULE MCProgress -----------------------------
(***************************************************************************)
(* What must happen in the end, component by component: each runs under the *)
(* fairness its own module states, guarded by part. A behaviour is one of   *)
(* the component part; the slots hold its variables.                        *)
(***************************************************************************)
EXTENDS SqliteConnection, TLC

VARIABLES part, s1, s2, s3, s4, s5, s6, s7, s8, s9, s10, s11

slots == <<s1, s2, s3, s4, s5, s6, s7, s8, s9, s10, s11>>
jointVars == <<part, slots, vars>>

\* The slots a component with fewer variables leaves alone.
Rest1 == s1 = 0 /\ s2 = 0 /\ s3 = 0 /\ s4 = 0 /\ s5 = 0 /\ s6 = 0 /\ s7 = 0 /\
         s8 = 0 /\ s9 = 0 /\ s10 = 0 /\ s11 = 0
Rest6 == s6 = 0 /\ s7 = 0 /\ s8 = 0 /\ s9 = 0 /\ s10 = 0 /\ s11 = 0
Keep6 == UNCHANGED <<s6, s7, s8, s9, s10, s11>>
Rest8 == s8 = 0 /\ s9 = 0 /\ s10 = 0 /\ s11 = 0
Keep8 == UNCHANGED <<s8, s9, s10, s11>>
Rest9 == s9 = 0 /\ s10 = 0 /\ s11 = 0
Keep9 == UNCHANGED <<s9, s10, s11>>
Rest11 == s11 = 0
Keep11 == UNCHANGED <<s11>>

Gate == INSTANCE SavepointGate WITH
    MaxItems <- 3, Reentrant <- FALSE, AwaitAll <- TRUE, Misbehave <- FALSE,
    item <- s1, body <- s2, snap <- s3, early <- s4, twice <- s5, rollbackOnly <- s6,
    effect <- s7, outcome <- s8
Functions == INSTANCE FunctionCache WITH
    Keys <- {"k1"}, Procs <- {"p1"}, Calls <- {"c1", "c2"},
    Ops <- {"get", "refresh", "inv"}, Mode <- "memory", EpochLimit <- 1,
    MaxSource <- 1, MaxFaults <- 1, src <- s1, store <- s2, nextVer <- s3, reg <- s4,
    mem <- s5, fail <- s6, pend <- s7, wq <- s8, call <- s9, acked <- s10,
    faults <- s11
Loader == INSTANCE BatchLoader WITH
    Callers <- {"c1", "c2", "c3"}, Ids <- {"i1", "i2"}, MaxSize <- 1,
    Distinct <- FALSE, MaxWrites <- 0, pending <- s1, scheduled <- s2, flights <- s3,
    call <- s4, store <- s5
Writing == INSTANCE MiddlewareWrite WITH
    NumLayers <- 2, MaxFrames <- 3, input <- s1, frames <- s2, acceptingNext <- s3,
    leafCalls <- s4, leaf <- s5, dispatched <- s6, dispatching <- s7,
    duplicateNextError <- s8, lateNextError <- s9, phase <- s10, outcome <- s11
Schema == INSTANCE SchemaApply WITH
    Dialect <- "postgresql", Deployers <- {"d1", "d2"}, IndexCount <- 1, MaxTries <- 3,
    CrashTries <- 1, Nobody <- "nobody", table <- s1, main <- s2, lookup <- s3,
    repeated <- s4, want <- s5, phase <- s6, plan <- s7, at <- s8, tries <- s9,
    lock <- s10, before <- s11
Engine == INSTANCE SearchRevisions WITH
    Revisions <- {1, 2}, RequireRevision <- TRUE, MaxAttempts <- 2, write <- s1,
    status <- s2, attempts <- s3, flight <- s4, answers <- s5, doc <- s6, manual <- s7
Reading == INSTANCE DatastoreRead WITH
    Ids <- {1, 2}, Values <- {"1"}, SortValues <- {"0", "1"}, Ops <- {"all", "range"},
    Sorts <- {"none", "g"}, Declared <- {"f", "g"}, AllowScan <- FALSE,
    Repeats <- TRUE, MaxWrites <- 0, stored <- s1, touched <- s2, plan <- s3,
    phase <- s4, from <- s5, resumed <- s6, seen <- s7, rows <- s8, answer <- s9,
    followed <- s10

\* What the components assume of their constants.
ASSUME Instances == /\ Functions!CacheAssumption /\ Loader!BatchAssumption
                    /\ Writing!MiddlewareWriteAssumption
                    /\ Schema!SchemaApplyAssumption /\ Engine!SearchRevisionsAssumption
                    /\ Reading!DatastoreReadAssumption

\* The variables of SqliteConnection are those of the part "sqlite" alone.
JointInit ==
    /\ Init
    /\ \/ part = "sqlite" /\ Rest1
       \/ part = "gate" /\ Gate!Init /\ Rest9
       \/ part = "functions" /\ Functions!Init
       \/ part = "loader" /\ Loader!Init /\ Rest6
       \/ part = "writing" /\ Writing!Init
       \/ part = "schema" /\ Schema!Init
       \/ part = "engine" /\ Engine!Init /\ Rest8
       \/ part = "reading" /\ Reading!Init /\ Rest11

InSqlite == part = "sqlite" /\ Next /\ UNCHANGED <<part, slots>>
InGate == part = "gate" /\ Gate!Next /\ Keep9 /\ UNCHANGED <<part, vars>>
InFunctions == part = "functions" /\ Functions!Next /\ UNCHANGED <<part, vars>>
InLoader == part = "loader" /\ Loader!Next /\ Keep6 /\ UNCHANGED <<part, vars>>
InWriting == part = "writing" /\ Writing!Next /\ UNCHANGED <<part, vars>>
InSchema == part = "schema" /\ Schema!Next /\ UNCHANGED <<part, vars>>
InEngine == part = "engine" /\ Engine!Next /\ Keep8 /\ UNCHANGED <<part, vars>>
InReading == part = "reading" /\ Reading!Next /\ Keep11 /\ UNCHANGED <<part, vars>>
\* Components whose callers need not go on.
MayStop == part \in {"gate", "functions", "loader", "sqlite", "engine"} /\ UNCHANGED jointVars

JointNext == InSqlite \/ InGate \/ InFunctions \/ InLoader \/ InWriting \/ InSchema \/
             InEngine \/ InReading \/ MayStop

JointSpec == JointInit /\ [][JointNext]_jointVars

-----------------------------------------------------------------------------
\* The fairness of each component (Fairness, FairSpec, LiveSpec of its module).
GateVars == Gate!vars
FunctionVars == Functions!vars
LoaderVars == Loader!vars
WritingVars == Writing!vars
SchemaVars == Schema!vars
EngineVars == Engine!vars
ReadingVars == Reading!vars

\* promises settle and callbacks return
FairGate == WF_GateVars(part = "gate" /\ Gate!Progress)

\* a call that can take its next step takes it
FairFunctions == \A c \in {"c1", "c2"} :
    /\ WF_FunctionVars(part = "functions" /\ Functions!Steps(c))
    /\ WF_FunctionVars(part = "functions" /\ \E b \in {"c1", "c2"} : Functions!UseStale(c, b))

\* microtasks run, and loadMany settles
FairLoader ==
    /\ WF_LoaderVars(part = "loader" /\ Loader!Flush)
    /\ WF_LoaderVars(part = "loader" /\ Loader!FlightSettles)

\* the layers and the adapter settle; the wrapper's own code runs on
FairWriting ==
    /\ WF_WritingVars(part = "writing" /\ Writing!Operation)
    /\ WF_WritingVars(part = "writing" /\ Writing!OuterSettles)
    /\ WF_WritingVars(part = "writing" /\ Writing!LeafSettles)
    /\ WF_WritingVars(part = "writing" /\ Writing!LayersSettled)
    /\ WF_WritingVars(part = "writing" /\ Writing!Report)

\* what is running goes on, and a callback that waits for nothing comes to an end
FairSqlite ==
    /\ WF_vars(part = "sqlite" /\ Next1)
    /\ WF_vars(part = "sqlite" /\ RunClose)
    /\ \A r \in {"r1", "r2"} : WF_vars(part = "sqlite" /\ RunRoot(r))
    /\ WF_vars(part = "sqlite" /\ Begin("t1"))
    /\ WF_vars(part = "sqlite" /\ Commit("t1"))
    /\ WF_vars(part = "sqlite" /\ Rollback("t1"))
    /\ WF_vars(part = "sqlite" /\ (SavepointReleases \/ SavepointFails
                                          \/ Returns))
    /\ SF_vars(part = "sqlite" /\ Returns)

\* a deployer goes on, and runs an apply again that failed
FairSchema == \A d \in {"d1", "d2"} :
    /\ WF_SchemaVars(part = "schema" /\ Schema!Step(d))
    /\ WF_SchemaVars(part = "schema" /\ Schema!Retry(d))

\* the engine executes what reaches it, callers read their answers, workers send again
FairEngine == \A r \in {1, 2} :
    /\ WF_EngineVars(part = "engine" /\ Engine!Send(r))
    /\ WF_EngineVars(part = "engine" /\ Engine!Executes(r))
    /\ SF_EngineVars(part = "engine" /\ Engine!AnswerRead(r))

\* a loop over a query goes on
FairReading == WF_ReadingVars(part = "reading" /\ Reading!Read)

FairSpec == /\ JointSpec
            /\ FairGate /\ FairFunctions /\ FairLoader /\ FairWriting
            /\ FairSqlite /\ FairSchema /\ FairEngine /\ FairReading

-----------------------------------------------------------------------------
\* Who waits is answered.  SavepointGate: the gate never leaves everybody waiting for
\* everybody: if callbacks return and adapter calls settle, the transaction ends.
\* FunctionCache: no writer, joiner or pending invalidation is stuck.  BatchLoader: every
\* load settles, also when chunks before it fail (flush catches per chunk) and when it
\* arrives while a flush is awaiting.  MiddlewareWrite: the caller is told at last.
\* SqliteConnection: every call that is admitted is answered, also one that the callback
\* of a transaction makes on the adapter the transaction holds.
CallersAnswered ==
    /\ []<>(part = "gate" => Gate!Ended)
    /\ \A c \in {"c1", "c2"} :
          []<>(part = "functions" /\ Functions!Called(c) => Functions!Ended(c))
    /\ \A c \in {"c1", "c2", "c3"} : []<>(part = "loader" => ~Loader!Waits(c))
    /\ []<>(part = "writing" => Writing!Told)
    /\ \A c \in {"r1", "r2", "t1", "close"} :
          []<>(part = "sqlite" => ~Waits(c))

\* Who repeats comes to an end.  SchemaApply: deployers that agree with each other and
\* with what the database has all get their schema applied, although each may crash once
\* and may find its CREATE INDEX refused because another one was faster: a failed apply
\* can be run again.  SearchRevisions: every write is acknowledged in the end: one that
\* comes after a newer revision is not sent again for ever.  DatastoreRead: a loop that
\* follows the cursors it is given comes to an end, although the emulator never says that
\* there is no more.
RetriesEnd ==
    /\ [](part = "schema" => Schema!Agree /\ Schema!OwnTable)
          => <>[](part = "schema" => Schema!AllApplied)
    /\ []<>(part = "engine" => Engine!AllAcked)
    /\ []<>(part = "reading" => Reading!Ended)
=============================================================================
