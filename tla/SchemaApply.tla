------------------------------ MODULE SchemaApply ------------------------------
(***************************************************************************)
(* `schema.apply` of the MongoDB, PostgreSQL and SQLite stores, run by     *)
(* several deployers at once against one database.  Each deployer comes    *)
(* with its own version of the model's indexes: during a rolling deploy    *)
(* two versions may declare one index with different uniqueness.           *)
(*                                                                         *)
(* MongoDB and PostgreSQL plan with separate reads and then create what    *)
(* the plan found missing, one statement at a time; SQLite plans and       *)
(* creates in one BEGIN IMMEDIATE transaction.  An index is a number (its  *)
(* place in model.indexes); its fields and directions are the same in      *)
(* every version, so what it declares is "plain" or "unique".  A deployer  *)
(* may crash between two statements, and tries again after a failure.      *)
(***************************************************************************)
EXTENDS Integers, FiniteSets, FiniteSetsExt

CONSTANTS Dialect,     \* "mongodb", "postgresql" or "sqlite"
          Deployers,
          IndexCount,  \* the model declares the indexes 1..IndexCount
          MaxTries,    \* bound on the attempts of one deployer
          CrashTries,  \* bound: a deployer crashes only in its first attempts
          Nobody       \* no deployer holds the SQLite write lock

Indexes == 1..IndexCount

SchemaApplyAssumption ==
    /\ Dialect \in {"mongodb", "postgresql", "sqlite"}
    /\ IndexCount \in Nat /\ MaxTries \in Nat /\ CrashTries \in Nat
    /\ Nobody \notin Deployers

VARIABLES
    table,    \* "absent", "ours", or "foreign" (a view, another layout)
    main,     \* the index under the declared name: "absent", "plain", "unique", "broken"
    lookup,   \* the SQLite indexes that also have their lookup index
    repeated, \* the indexes whose fields repeat a value in some two rows
    want,     \* what each deployer's version of the model declares
    phase,    \* what each deployer is doing
    plan,     \* the indexes each deployer's plan found missing
    at,       \* the next index each deployer looks at
    tries,    \* attempts each deployer has made
    lock,     \* SQLite: the deployer inside BEGIN IMMEDIATE
    before    \* SQLite: the database as that transaction found it

vars == <<table, main, lookup, repeated, want, phase, plan, at, tries, lock, before>>
database == <<table, main, lookup>>

Init ==
    /\ table \in {"absent", "ours", "foreign"}
    /\ main \in [Indexes -> {"absent", "plain", "unique"}
                              \cup IF Dialect = "postgresql" THEN {"broken"} ELSE {}]
    /\ table # "ours" => main = [i \in Indexes |-> "absent"]
    /\ lookup = {}
    /\ repeated \in SUBSET Indexes
    /\ table = "absent" => repeated = {}
    /\ \A i \in repeated : main[i] # "unique"
    /\ want \in [Deployers -> [Indexes -> {"plain", "unique"}]]
    /\ phase = [d \in Deployers |-> "idle"]
    /\ plan = [d \in Deployers |-> {}]
    /\ at = [d \in Deployers |-> 1]
    /\ tries = [d \in Deployers |-> 0]
    /\ lock = Nobody
    /\ before = database

----------------------------------------------------------------------------
(* What an existing index is compared with. *)

\* The index is there and is not what the version declares: its uniqueness
\* differs, or (PostgreSQL) it is not valid and ready.  Fields and directions
\* are compared too and never differ here.
RetainedIgnored(d, i) == want[d][i] = "unique" /\ main[i] = "plain"
Mismatch(d, i) == main[i] \notin {"absent", want[d][i]}

\* SQLite: the unique index is required when declared, the lookup index always.
\* A unique index retained from another version is compared all the same.
RequiredMissing(d, i) == (want[d][i] = "unique" /\ main[i] = "absent") \/ i \notin lookup

\* CREATE UNIQUE INDEX on rows that repeat a value fails.
RowsRefuse(d, i) == want[d][i] = "unique" /\ i \in repeated

\* A name that is taken: MongoDB answers createIndex with success when the
\* definition is the same and with an error otherwise; PostgreSQL's CREATE INDEX
\* always fails.
IfNotExists(d, i) == FALSE
NameTaken(d, i) ==
    IF Dialect = "mongodb" THEN Mismatch(d, i) ELSE main[i] # "absent"

\* PostgreSQL creates what the plan found missing, MongoDB every declared index.
CreatesAll(d, i) == TRUE
Creates(d, i) == Dialect = "mongodb" \/ i \in plan[d]

----------------------------------------------------------------------------
(* MongoDB and PostgreSQL. *)

\* The plan's first read: the collections, or the table and its layout.  A name
\* that is something else is refused; a name that is free needs no second read.
PlanTable(d) ==
    /\ Dialect # "sqlite" /\ phase[d] = "idle"
    /\ phase' = [phase EXCEPT ![d] = CASE table = "foreign" -> "failed"
                                       [] table = "absent" -> "creating"
                                       [] OTHER -> "planned"]
    /\ plan' = [plan EXCEPT ![d] = IF table = "absent" THEN Indexes ELSE {}]
    /\ tries' = [tries EXCEPT ![d] = @ + 1]
    /\ UNCHANGED <<table, main, lookup, repeated, want, at, lock, before>>

\* The plan's second read: the indexes, each compared with its declaration.
PlanIndexes(d) ==
    /\ phase[d] = "planned"
    /\ IF \E i \in Indexes : Mismatch(d, i)
       THEN phase' = [phase EXCEPT ![d] = "failed"] /\ UNCHANGED plan
       ELSE /\ phase' = [phase EXCEPT ![d] = "creating"]
            /\ plan' = [plan EXCEPT ![d] = {i \in Indexes : main[i] = "absent"}]
    /\ UNCHANGED <<table, main, lookup, repeated, want, at, tries, lock, before>>

\* createCollection, whose "namespace exists" is not an error; CREATE TABLE IF
\* NOT EXISTS.
CreateTable(d) ==
    /\ phase[d] = "creating" /\ Dialect # "sqlite"
    /\ table' = IF table = "absent" THEN "ours" ELSE table
    /\ phase' = [phase EXCEPT ![d] = "indexing"]
    /\ at' = [at EXCEPT ![d] = 1]
    /\ UNCHANGED <<main, lookup, repeated, want, plan, tries, lock, before>>

\* One createIndex or CREATE INDEX, in the order of model.indexes.
CreateIndex(d) ==
    /\ phase[d] = "indexing" /\ at[d] \in Indexes
    /\ IF Creates(d, at[d]) /\ (NameTaken(d, at[d]) \/ (main[at[d]] = "absent" /\ RowsRefuse(d, at[d])))
       THEN phase' = [phase EXCEPT ![d] = "failed"] /\ UNCHANGED <<main, at>>
       ELSE /\ main' = IF Creates(d, at[d]) /\ main[at[d]] = "absent"
                       THEN [main EXCEPT ![at[d]] = want[d][at[d]]]
                       ELSE main
            /\ at' = [at EXCEPT ![d] = @ + 1]
            /\ UNCHANGED phase
    /\ UNCHANGED <<table, lookup, repeated, want, plan, tries, lock, before>>

Applied(d) ==
    /\ phase[d] = "indexing" /\ at[d] > IndexCount
    /\ phase' = [phase EXCEPT ![d] = "applied"]
    /\ UNCHANGED <<table, main, lookup, repeated, want, plan, at, tries, lock, before>>

----------------------------------------------------------------------------
(* SQLite. *)

\* BEGIN IMMEDIATE, which other processes' transactions hold up, and planSchema
\* on the locked database.  What the plan refuses is rolled back at once.
Begin(d) ==
    /\ Dialect = "sqlite" /\ phase[d] = "idle" /\ lock = Nobody
    /\ tries' = [tries EXCEPT ![d] = @ + 1]
    /\ IF table = "foreign" \/ \E i \in Indexes : Mismatch(d, i)
       THEN phase' = [phase EXCEPT ![d] = "failed"] /\ UNCHANGED <<table, plan, lock, before>>
       ELSE /\ phase' = [phase EXCEPT ![d] = "building"]
            /\ plan' = [plan EXCEPT ![d] = {i \in Indexes : RequiredMissing(d, i)}]
            /\ table' = "ours"
            /\ lock' = d /\ before' = database
    /\ UNCHANGED <<main, lookup, repeated, want, at>>

\* The exec of one planned index: the unique one when declared and missing, and
\* the lookup index.
Build(d) ==
    /\ phase[d] = "building" /\ plan[d] # {}
    /\ LET i == Min(plan[d]) IN
       /\ ~(main[i] = "absent" /\ RowsRefuse(d, i))
       /\ main' = IF main[i] = "absent" /\ want[d][i] = "unique"
                  THEN [main EXCEPT ![i] = "unique"] ELSE main
       /\ lookup' = lookup \cup {i}
       /\ plan' = [plan EXCEPT ![d] = @ \ {i}]
    /\ UNCHANGED <<table, repeated, want, phase, at, tries, lock, before>>

\* What a rolled back transaction leaves.
RolledBack(d) == before

\* A statement fails (or the process dies and its journal is rolled back).
Abort(d) ==
    /\ phase[d] = "building"
    /\ table' = RolledBack(d)[1] /\ main' = RolledBack(d)[2] /\ lookup' = RolledBack(d)[3]
    /\ phase' = [phase EXCEPT ![d] = "failed"]
    /\ lock' = Nobody
    /\ UNCHANGED <<repeated, want, plan, at, tries, before>>

Commit(d) ==
    /\ phase[d] = "building" /\ plan[d] = {}
    /\ phase' = [phase EXCEPT ![d] = "applied"]
    /\ lock' = Nobody
    /\ UNCHANGED <<table, main, lookup, repeated, want, plan, at, tries, before>>

----------------------------------------------------------------------------
\* The deployer dies, or the connection does, between two statements.
Crash(d) ==
    /\ phase[d] \in {"planned", "creating", "indexing"} /\ tries[d] <= CrashTries
    /\ phase' = [phase EXCEPT ![d] = "failed"]
    /\ UNCHANGED <<table, main, lookup, repeated, want, plan, at, tries, lock, before>>

\* `active-ts schema apply` is run again.
Retry(d) ==
    /\ phase[d] = "failed" /\ tries[d] < MaxTries
    /\ phase' = [phase EXCEPT ![d] = "idle"]
    /\ UNCHANGED <<table, main, lookup, repeated, want, plan, at, tries, lock, before>>

\* The application writes a second row with the same values, which a unique
\* index refuses and a transaction in progress holds up.
WriteRepeated(i) ==
    /\ table = "ours" /\ lock = Nobody /\ main[i] # "unique" /\ i \notin repeated
    /\ repeated' = repeated \cup {i}
    /\ UNCHANGED <<table, main, lookup, want, phase, plan, at, tries, lock, before>>

Stop ==
    /\ \A d \in Deployers : phase[d] = "applied" \/ (phase[d] = "failed" /\ tries[d] = MaxTries)
    /\ UNCHANGED vars

Step(d) ==
    \/ PlanTable(d) \/ PlanIndexes(d) \/ CreateTable(d) \/ CreateIndex(d) \/ Applied(d)
    \/ Begin(d) \/ Build(d) \/ Commit(d)

Next ==
    \/ \E d \in Deployers : Step(d) \/ Abort(d) \/ Crash(d) \/ Retry(d)
    \/ \E i \in Indexes : WriteRepeated(i)
    \/ Stop

Spec == Init /\ [][Next]_vars

Fairness == \A d \in Deployers : WF_vars(Step(d)) /\ WF_vars(Retry(d))

LiveSpec == Spec /\ Fairness

----------------------------------------------------------------------------
\* MongoDB and PostgreSQL: a deployer that was told its schema is applied has it,
\* from then on: the table is the store's own and every declared index exists with
\* the declared uniqueness, no matter what another version's deployer did before,
\* between or after its statements.  So two versions that disagree about an index
\* are never both told "applied": one of them is refused.
AppliedAsDeclared ==
    \A d \in Deployers : phase[d] = "applied" =>
        table = "ours" /\ \A i \in Indexes : main[i] = want[d][i]

\* SQLite, where a version that declares an index unique adds that index beside
\* the lookup index of the others: a deployer is told "applied" only of a database
\* in which its unique indexes are enforced and no unique index is that its
\* version does not declare, one retained from another version included.
ToldApplied ==
    \A d \in Deployers : phase'[d] = "applied" /\ phase[d] # "applied" =>
       table' = "ours" /\ lookup' = Indexes
       /\ \A i \in Indexes : (main'[i] = "unique") = (want[d][i] = "unique")

\* SQLite: an apply that failed, at any of its statements, leaves nothing of what
\* it built.  The database is locked or holds the lookup indexes of all indexes or
\* of none, as the version before them did.
NoHalfSchema == lock = Nobody => lookup \in {{}, Indexes}

\* Deployers that agree with each other and with what the database has all get
\* their schema applied, although each of them may crash once and may find its
\* CREATE INDEX refused because another one was faster: a failed apply can be run
\* again and goes on from what is there.
Agree == \A d \in Deployers : \A i \in Indexes :
            /\ main[i] \in {"absent", want[d][i]} /\ ~RowsRefuse(d, i)
            /\ \A e \in Deployers : want[d][i] = want[e][i]

OwnTable == table # "foreign"
AllApplied == \A d \in Deployers : phase[d] = "applied"
AgreeingDeployersFinish == [](Agree /\ OwnTable) => <>[]AllApplied
=============================================================================
