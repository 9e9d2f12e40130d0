------------------------ MODULE DatastoreTransaction ------------------------
(***************************************************************************)
(* A transaction of the Datastore store (datastore-runtime.ts).  Datastore  *)
(* reads inside a transaction see the snapshot of its start, never its own  *)
(* writes, so the adapter buffers one folded mutation per entity key, lays  *)
(* the buffer over every get and every query, and sends the buffer before   *)
(* the commit.  A commit answered ABORTED runs the callback again on a new  *)
(* transaction; one without an answer must not.                            *)
(*                                                                         *)
(* Datastore is modelled from what the code relies on: a snapshot per       *)
(* attempt, a commit that applies everything or nothing and collides when   *)
(* an insert meets an entity or an update meets none, and a query that may  *)
(* be cut short and says that there is more.                               *)
(***************************************************************************)
EXTENDS Integers, Sequences, FiniteSets, SequencesExt, SequenceTheorems,
    FiniteSetTheorems, TLAPS

CONSTANTS
    Keys,            \* entity keys, ordered as the ids they end in
    Root,            \* those without a Datastore ancestor
    HasResolver,     \* the model declares an ancestor resolver
    RequireAncestor, \* requireAncestorTransactionQueries
    Operations,      \* the operations the callback uses
    MaxCalls,        \* bound: calls of the callback in one attempt
    MaxAttempts      \* options.native.maxAttempts

DatastoreTransactionAssumption ==
    /\ Keys \subseteq Nat /\ IsFiniteSet(Keys) /\ Root \subseteq Keys
    /\ HasResolver \in BOOLEAN /\ RequireAncestor \in BOOLEAN
    /\ MaxCalls \in Nat /\ MaxAttempts \in Nat \ {0}
    /\ Operations \subseteq {"create", "update", "delete", "get", "query", "native", "count"}

\* An entity's data is whether it satisfies the where condition of the queries.
Absent == -1
Contents == {Absent, 0, 1}
NoLimit == Cardinality(Keys)
Mutations == {"create", "update", "delete"}
Reads == {"query", "native", "count"}

VARIABLES
    readOnly,    \* the transaction was opened with readOnly: true
    attempt, phase,  \* "callback", "settling", "commit", "done"
    base,        \* [Keys -> Contents]: the snapshot of this attempt
    calls,       \* of this attempt, in order
    buffered,    \* bufferedMutations: [Keys -> [op, value]]
    stored,      \* [Keys -> Contents]: what the commit has left
    applied,     \* commits the server has applied
    confirmed,   \* confirmTransactionRollback
    outcome      \* "none", "ok", "conflict", "error", "unknown"

vars == <<readOnly, attempt, phase, base, calls, buffered, stored, applied, confirmed, outcome>>

None == [op |-> "none", value |-> Absent]

\* transactionFactory, run: a fresh snapshot and an empty buffer
FreshAttempt(snapshot) ==
    /\ base' = snapshot /\ calls' = <<>> /\ buffered' = [k \in Keys |-> None]

Init ==
    /\ readOnly \in BOOLEAN /\ attempt = 1 /\ phase = "callback"
    /\ base \in [Keys -> Contents] /\ calls = <<>> /\ buffered = [k \in Keys |-> None]
    /\ stored = base /\ applied = 0 /\ confirmed = FALSE /\ outcome = "none"

Rest == UNCHANGED <<readOnly, attempt, phase, base, stored, applied, confirmed, outcome>>
Keep == UNCHANGED buffered

(***************************************************************************)
(* Calls.                                                                  *)
(***************************************************************************)

NewCall(op, k, value, under, limit) ==
    [op |-> op, key |-> k, value |-> value, under |-> under, limit |-> limit,
     at |-> "queued", answer |-> "none", list |-> <<>>, more |-> FALSE, cut |-> FALSE]

\* A model with a resolver reads and deletes by id only under an ancestor.
DirectIdAllowed(op, k) == op \in {"get", "delete"} /\ HasResolver => k \notin Root

CallEntity(op, k, value) ==
    /\ phase = "callback" /\ Len(calls) < MaxCalls /\ DirectIdAllowed(op, k)
    /\ op \in {"create", "update"} \/ value = 0
    /\ ~(readOnly /\ op \in Mutations)
    /\ calls' = Append(calls, NewCall(op, k, value, FALSE, NoLimit))
    /\ Keep /\ Rest

\* A read-only transaction store offers no native reads.
CallQuery(op, under, limit) ==
    /\ phase = "callback" /\ Len(calls) < MaxCalls
    /\ op # "count" \/ limit = NoLimit
    /\ ~(readOnly /\ op = "native") /\ (RequireAncestor => under)
    /\ calls' = Append(calls, NewCall(op, CHOOSE k \in Keys : TRUE, 0, under, limit))
    /\ Keep /\ Rest

\* serializeBufferedMutation, waitForBufferedMutations: a call on an entity waits
\* for the mutations of its key called before it, a query for all of them.
MutationsOnly(i, j) == calls[i].op \in Reads
WaitsFor(i, j) == calls[i].op \in Reads \/ calls[i].key = calls[j].key
Turn(i) == \A j \in 1 .. i - 1 : calls[j].op \in Mutations /\ WaitsFor(i, j) => calls[j].at = "done"

MayStart(i) == phase \in {"callback", "settling"} /\ calls[i].at = "queued" /\ Turn(i)

Answered(i, answer) == calls' = [calls EXCEPT ![i].at = "done", ![i].answer = answer]
Reading(i) == calls' = [calls EXCEPT ![i].at = "reading"]
Gives(i, value) == calls' = [calls EXCEPT ![i].at = "done", ![i].answer = "ok", ![i].value = value]

\* transactionBufferedRow: what the buffer says of an entity
BufferedRow(mutation) == IF mutation.op = "delete" THEN Absent ELSE mutation.value

Get(i) ==
    /\ MayStart(i) /\ calls[i].op = "get"
    /\ LET mutation == buffered[calls[i].key]
       IN  IF mutation.op = "none" THEN Reading(i) ELSE Gives(i, BufferedRow(mutation))
    /\ Keep /\ Rest

\* The operation the buffer holds for an entity after one more mutation, given the
\* one it holds now; "none" when nothing is left to be done.
Folded(before, op) ==
    CASE op = "create" -> IF before = "delete" THEN "update" ELSE "create"
      [] op = "update" -> IF before = "create" THEN "create" ELSE "update"
      [] OTHER -> IF before = "create" THEN "none" ELSE "delete"

Buffer(i, before) ==
    LET folded == Folded(before, calls[i].op)
    IN  buffered' = [buffered EXCEPT ![calls[i].key] =
            IF folded = "none" THEN None
            ELSE [op |-> folded, value |-> IF folded = "delete" THEN Absent ELSE calls[i].value]]

Refusal(op, there) ==
    CASE op = "create" /\ there -> "conflict"
      [] op = "update" /\ ~there -> "notFound"
      [] OTHER -> "ok"

\* The rest of a mutation once it is known whether the entity is there: refused,
\* a delete of nothing, or buffered.
Decide(i, before, there) ==
    LET answer == Refusal(calls[i].op, there)
    IN  /\ Answered(i, answer)
        /\ IF answer # "ok" \/ (calls[i].op = "delete" /\ ~there) THEN Keep ELSE Buffer(i, before)

Create(i) ==
    /\ MayStart(i) /\ calls[i].op = "create"
    /\ LET before == buffered[calls[i].key].op
       IN  IF before = "none" THEN Reading(i) /\ Keep ELSE Decide(i, before, before # "delete")
    /\ Rest

Update(i) ==
    /\ MayStart(i) /\ calls[i].op = "update"
    /\ LET before == buffered[calls[i].key].op
       IN  IF before = "none" THEN Reading(i) /\ Keep ELSE Decide(i, before, before # "delete")
    /\ Rest

Delete(i) ==
    /\ MayStart(i) /\ calls[i].op = "delete"
    /\ LET before == buffered[calls[i].key].op
       IN  IF before = "none" THEN Reading(i) /\ Keep ELSE Decide(i, before, before # "delete")
    /\ Rest

\* The read of a get, or transactionEntityExists, comes back from the snapshot.
ReadReturns(i) ==
    /\ phase \in {"callback", "settling"} /\ calls[i].at = "reading" /\ calls[i].op \notin Reads
    /\ IF calls[i].op = "get" THEN Gives(i, base[calls[i].key]) /\ Keep
       ELSE Decide(i, "none", base[calls[i].key] # Absent)
    /\ Rest

(***************************************************************************)
(* Queries.                                                                *)
(***************************************************************************)

\* The entities of a query's scope: below the ancestor, or of the whole kind.
InScope(under, k) == under => k \notin Root

\* A row under an ancestor is not one of a model without a resolver.
ForeignKey(under, k) == ~under /\ ~HasResolver /\ k \notin Root

NativeRows(i) == {k \in Keys : InScope(calls[i].under, k) /\ base[k] = 1}

\* filterRows, sortWithStableId, and the page of the plan
Matches(content) == content = 1
Ordered(rows) ==
    CHOOSE s \in [1 .. Cardinality(rows) -> rows] :
        \A i, j \in 1 .. Cardinality(rows) : i < j => s[i] < s[j]
PageOf(rows, limit) ==
    SubSeq(Ordered(rows), 1, IF Len(Ordered(rows)) > limit THEN limit ELSE Len(Ordered(rows)))
HasMore(rows, limit) == Cardinality(rows) > limit

\* The plan of the base read has no limit, offset, cursor or selection.
BaseRows(rows, limit) == rows

\* The mutations of the buffer that concern the query.
Overlaid(i) ==
    {k \in Keys : /\ buffered[k].op # "none"
                  /\ InScope(calls[i].under, k) /\ ~ForeignKey(calls[i].under, k)}

Overlay(i, rows) ==
    {k \in Keys : IF k \in Overlaid(i) THEN Matches(BufferedRow(buffered[k])) ELSE k \in rows}

\* rejectDirtyNativeRead
DirtyBuffer(mutations) == \E k \in DOMAIN mutations : mutations[k].op # "none"

Begin(i) ==
    /\ MayStart(i) /\ calls[i].op \in Reads
    /\ IF calls[i].op = "native" /\ DirtyBuffer(buffered) THEN Answered(i, "refused") ELSE Reading(i)
    /\ Keep /\ Rest

\* A count of a result that is not whole is refused.
NotWhole(more) == more

\* The base read comes back, whole or cut short, and the answer is put together.
QueryReturns(i) ==
    /\ phase \in {"callback", "settling"} /\ calls[i].at = "reading" /\ calls[i].op \in Reads
    /\ IF \E k \in NativeRows(i) : ForeignKey(calls[i].under, k) THEN Answered(i, "refused")
       ELSE \E got \in {NativeRows(i), {}} :
            LET cut == got # NativeRows(i)
                read == IF calls[i].op = "native" THEN got ELSE BaseRows(got, calls[i].limit)
                rows == IF calls[i].op = "native" THEN read ELSE Overlay(i, read)
                more == cut \/ HasMore(rows, calls[i].limit)
            IN  calls' = [calls EXCEPT
                    ![i].at = "done", ![i].cut = cut, ![i].more = more,
                    ![i].list = PageOf(rows, calls[i].limit),
                    ![i].answer = IF calls[i].op = "count" /\ NotWhole(more) THEN "refused" ELSE "ok"]
    /\ Keep /\ Rest

(***************************************************************************)
(* The end of an attempt, the commit, and another attempt.                 *)
(***************************************************************************)

Kept == UNCHANGED <<readOnly, base, calls, buffered>>
Settles(told, sure) == phase' = "done" /\ outcome' = told /\ confirmed' = sure

CallbackReturns ==
    /\ phase = "callback" /\ phase' = "settling"
    /\ UNCHANGED <<attempt, stored, applied, confirmed, outcome>> /\ Kept

\* waitForPendingOperations; a callback that has failed is rolled back, and only a
\* rollback that succeeds is confirmed.
Waits ==
    /\ phase = "settling" /\ \A i \in DOMAIN calls : calls[i].at = "done"
    /\ \/ phase' = "commit" /\ UNCHANGED <<outcome, confirmed>>
       \/ Settles("error", TRUE)
       \/ Settles("unknown", FALSE)
    /\ UNCHANGED <<attempt, stored, applied>> /\ Kept

\* What the buffer does to an entity at the server; insert and update collide.
Collides(mutation, content) ==
    \/ mutation.op = "create" /\ content # Absent
    \/ mutation.op = "update" /\ content = Absent
Effect(k) == IF buffered[k].op = "none" THEN base[k] ELSE BufferedRow(buffered[k])

ServerRefuses == \E k \in Keys : Collides(buffered[k], base[k])
Apply ==
    /\ ~ServerRefuses
    /\ stored' = [k \in Keys |-> Effect(k)] /\ applied' = applied + 1

\* isDatastoreAbortedError, isDatastoreDefiniteCommitFailure
Aborted(how) == how = "aborted"
Definite(how) == how = "definite"

Again ==
    /\ attempt < MaxAttempts
    /\ attempt' = attempt + 1 /\ phase' = "callback"
    /\ \E snapshot \in [Keys -> Contents] : FreshAttempt(snapshot)
    /\ UNCHANGED <<readOnly, confirmed, outcome>>

\* A commit that failed: an aborted one is tried again while attempts are left, a
\* definite failure is a confirmed rollback, anything else is left unknown.
CommitFails(how) ==
    IF Aborted(how)
    THEN Again \/ (attempt = MaxAttempts /\ Settles("conflict", TRUE) /\ UNCHANGED attempt /\ Kept)
    ELSE Settles(IF Definite(how) THEN "error" ELSE "unknown", Definite(how)) /\ UNCHANGED attempt /\ Kept

Commit ==
    /\ phase = "commit"
    /\ \/ Apply /\ Settles("ok", FALSE) /\ UNCHANGED attempt /\ Kept
       \/ (Apply \/ UNCHANGED <<stored, applied>>) /\ CommitFails("lost")
       \/ UNCHANGED <<stored, applied>> /\ CommitFails("aborted")
       \/ UNCHANGED <<stored, applied>> /\ CommitFails("definite")

Done == phase = "done" /\ UNCHANGED vars

Next ==
    \/ \E op \in Operations \ Reads, k \in Keys, value \in {0, 1} : CallEntity(op, k, value)
    \/ \E op \in Operations \cap Reads, under \in BOOLEAN, limit \in {1, NoLimit} : CallQuery(op, under, limit)
    \/ \E i \in DOMAIN calls :
          Get(i) \/ Create(i) \/ Update(i) \/ Delete(i) \/ ReadReturns(i) \/ Begin(i) \/ QueryReturns(i)
    \/ CallbackReturns \/ Waits \/ Commit \/ Done

Spec == Init /\ [][Next]_vars

(***************************************************************************)
(* Properties.  The world before a call is the snapshot changed by the      *)
(* mutations that were called before it and succeeded.                     *)
(***************************************************************************)

Succeeded(j) == calls[j].op \in Mutations /\ calls[j].answer = "ok"

WorldBefore(i) ==
    [k \in Keys |->
        LET ok == {j \in 1 .. i - 1 : calls[j].key = k /\ Succeeded(j)}
        IN  IF ok = {} THEN base[k]
            ELSE LET last == CHOOSE j \in ok : \A l \in ok : l <= j
                 IN  IF calls[last].op = "delete" THEN Absent ELSE calls[last].value]

\* No mutation was called after the call.
Undisturbed(i) == \A j \in i + 1 .. Len(calls) : calls[j].op \notin Mutations

\* A get in the transaction gives what the mutations called before it have left,
\* and a mutation is refused exactly when that says so: the buffer tells no other
\* story than the calls, however they overlap.
CallsAreSerial ==
    \A i \in DOMAIN calls : calls[i].at = "done" =>
        LET content == WorldBefore(i)[calls[i].key]
        IN  CASE calls[i].op = "get" -> Undisturbed(i) => calls[i].value = content
              [] calls[i].op = "create" -> calls[i].answer = "conflict" <=> content # Absent
              [] calls[i].op = "update" -> calls[i].answer = "notFound" <=> content = Absent
              [] OTHER -> TRUE

Expected(i) ==
    {k \in Keys : /\ WorldBefore(i)[k] = 1
                  /\ calls[i].under => k \notin Root
                  /\ ~calls[i].under /\ ~HasResolver => k \in Root}

\* A query that is answered gives the page of the transaction's own world: rows it
\* has written are found, rows it has changed or deleted are not, the limit is
\* counted after them, and a result that is not whole says that there is more.
QueriesSeeWrites ==
    \A i \in DOMAIN calls :
        (calls[i].op \in {"query", "native"} /\ calls[i].answer = "ok" /\ Undisturbed(i)) =>
            IF calls[i].cut THEN calls[i].more
            ELSE /\ Range(calls[i].list) \subseteq Expected(i)
                 /\ Len(calls[i].list) = Cardinality(Expected(i)) \/ Len(calls[i].list) = calls[i].limit
                 /\ calls[i].more <=> Cardinality(Expected(i)) > calls[i].limit
                 /\ \A k \in Expected(i) \ Range(calls[i].list) : \A l \in Range(calls[i].list) : l < k

\* A count that is answered counts every row of that world.
CountsAreWhole ==
    \A i \in DOMAIN calls :
        (calls[i].op = "count" /\ calls[i].answer = "ok" /\ Undisturbed(i)) =>
            Len(calls[i].list) = Cardinality(Expected(i))

\* The one mutation per entity that is sent does what the calls did, one after the
\* other, and never collides with what the transaction itself has read.
BufferIsNetEffect ==
    phase = "commit" =>
        /\ ~ServerRefuses
        /\ \A k \in Keys : Effect(k) = WorldBefore(Len(calls) + 1)[k]

\* Over all attempts the writes are applied once at most, once if the transaction
\* succeeds, and not at all if it is confirmed to have been rolled back.
AppliedOnce ==
    /\ applied <= 1
    /\ outcome = "ok" => applied = 1
    /\ confirmed => applied = 0

(***************************************************************************)
(* Proofs, for any set of keys, any calls in any order, and any number of   *)
(* attempts.                                                               *)
(***************************************************************************)

\* What a call can hold, and the records of calls.
Lists == {<<>>} \cup {PageOf(rows, limit) : rows \in SUBSET Keys, limit \in {1, NoLimit}}
Answers == {"none", "ok", "conflict", "notFound", "refused"}
CallSet == [op : Operations, key : Keys \cup {CHOOSE k \in Keys : TRUE}, value : Contents,
            under : BOOLEAN, limit : {1, NoLimit}, at : {"queued", "reading", "done"},
            answer : Answers, list : Lists, more : BOOLEAN, cut : BOOLEAN]

\* Types.
TypeInv ==
    /\ base \in [Keys -> Contents] /\ calls \in Seq(CallSet)
    /\ buffered \in [Keys -> [op : Mutations \cup {"none"}, value : Contents]]
    /\ phase \in {"callback", "settling", "commit", "done"}

\* The mutations of one entity among the first n calls, and what they leave.
Ok(c, k) == c.key = k /\ c.op \in Mutations /\ c.answer = "ok"
OkSet(cs, k, n) == {j \in 1 .. n : Ok(cs[j], k)}
LastOf(S) == CHOOSE j \in S : \A l \in S : l <= j
Left(c) == IF c.op = "delete" THEN Absent ELSE c.value
World(cs, b, k, n) == IF OkSet(cs, k, n) = {} THEN b ELSE Left(cs[LastOf(OkSet(cs, k, n))])

Before(i, k) == World(calls, base[k], k, i - 1)
Now(k) == World(calls, base[k], k, Len(calls))

\* A call that has begun waits for no mutation any more.
TurnInv ==
    \A i \in 1 .. Len(calls) : \A j \in 1 .. i - 1 :
        calls[i].at # "queued" /\ calls[j].op \in Mutations /\ WaitsFor(i, j) => calls[j].at = "done"

\* The rows of a query in the world before it.
Found(i) ==
    {k \in Keys : /\ Before(i, k) = 1
                  /\ calls[i].under => k \notin Root
                  /\ ~calls[i].under /\ ~HasResolver => k \in Root}

\* What a query has found so far, and what it has told.
QueryOK(i) ==
    /\ calls[i].op = "count" => calls[i].limit = NoLimit
    /\ Undisturbed(i) /\ calls[i].at = "reading" /\ calls[i].op = "native" =>
          \A k \in Keys : buffered[k].op = "none"
    /\ Undisturbed(i) /\ calls[i].answer = "ok" =>
          /\ calls[i].cut => calls[i].more
          /\ ~calls[i].cut => /\ calls[i].more = HasMore(Found(i), calls[i].limit)
                              /\ calls[i].list = PageOf(Found(i), calls[i].limit)
          /\ calls[i].op = "count" => ~calls[i].more

\* What a call has found so far.
CallOK(i) ==
    /\ calls[i].op \notin Reads => calls[i].key \in Keys
    /\ calls[i].op \in {"create", "update"} => calls[i].value \in {0, 1}
    /\ calls[i].answer # "none" <=> calls[i].at = "done"
    /\ calls[i].at = "reading" /\ calls[i].op \in Mutations => buffered[calls[i].key].op = "none"
    /\ calls[i].at = "reading" /\ calls[i].op = "get" /\ Undisturbed(i) =>
          Before(i, calls[i].key) = base[calls[i].key]
    /\ calls[i].op \in Reads => QueryOK(i)
CallInv == \A i \in 1 .. Len(calls) : CallOK(i)

\* What the calls have told is what a serial execution would.
SerialCall(i) ==
    calls[i].at = "done" =>
        /\ calls[i].op = "get" /\ Undisturbed(i) => calls[i].value = Before(i, calls[i].key)
        /\ calls[i].op = "create" => (calls[i].answer = "conflict" <=> Before(i, calls[i].key) # Absent)
        /\ calls[i].op = "update" => (calls[i].answer = "notFound" <=> Before(i, calls[i].key) = Absent)
SerialInv == \A i \in 1 .. Len(calls) : SerialCall(i)

\* The mutation an entity is left with, from the snapshot to what the calls left.
Leads(b, mutation, now) ==
    /\ mutation.op = "none" => now = b
    /\ mutation.op = "create" => b = Absent /\ mutation.value # Absent /\ now = mutation.value
    /\ mutation.op = "update" => b # Absent /\ mutation.value # Absent /\ now = mutation.value
    /\ mutation.op = "delete" => b # Absent /\ now = Absent
BufferInv == \A k \in Keys : Leads(base[k], buffered[k], Now(k))

EndInv ==
    /\ phase # "done" => applied = 0 /\ outcome = "none" /\ ~confirmed
    /\ AppliedOnce

DataInv == TypeInv /\ TurnInv /\ CallInv /\ SerialInv /\ BufferInv /\ EndInv
-----------------------------------------------------------------------------
\* A set of natural numbers has a least element.
LEMMA HasLeast ==
    ASSUME NEW T \in SUBSET Nat, T # {}
    PROVE  \E x \in T : \A y \in T : x <= y
<1>1. \E x \in T : \A y \in T : ~ (<<y, x>> \in OpToRel(<, Nat))
  BY NatLessThanWellFounded, WFMin
<1>2. PICK x \in T : \A y \in T : ~ (<<y, x>> \in OpToRel(<, Nat))
  BY <1>1
<1>3. \A y \in T : <<y, x>> \in Nat \X Nat
  OBVIOUS
<1>4. \A y \in T : ~ (y < x)
  BY <1>2, <1>3 DEF OpToRel
<1> QED BY <1>4

\* The last of some calls is one of them, and none of them is later.
LEMMA HasLast ==
    ASSUME NEW n \in Nat, NEW S \in SUBSET (1 .. n), S # {}
    PROVE  LastOf(S) \in S /\ \A l \in S : l <= LastOf(S)
<1> DEFINE T == {n - j : j \in S}
<1>0. \A j \in S : j \in 1 .. n /\ n - j \in Nat
  OBVIOUS
<1>1. T \in SUBSET Nat /\ T # {}
  BY <1>0
<1>2. PICK x \in T : \A y \in T : x <= y
  BY <1>1, HasLeast
<1>3. PICK j \in S : x = n - j
  OBVIOUS
<1>4. \A l \in S : l <= j
  <2> TAKE l \in S
  <2>1. n - l \in T
    OBVIOUS
  <2>2. x <= n - l
    BY <1>2, <2>1
  <2> QED BY <1>0, <1>3, <2>2
<1> QED BY <1>4 DEF LastOf

\* What an entity is left with depends on its successful mutations alone.
LEMMA WorldSame ==
    ASSUME NEW n \in Nat, NEW m \in Nat, NEW cs, NEW ds, NEW k, NEW b,
           OkSet(cs, k, n) = OkSet(ds, k, m),
           \A j \in OkSet(cs, k, n) : cs[j].op = ds[j].op /\ cs[j].value = ds[j].value
    PROVE  World(cs, b, k, n) = World(ds, b, k, m)
<1>1. CASE OkSet(cs, k, n) = {}
  BY <1>1 DEF World
<1>2. CASE OkSet(cs, k, n) # {}
  <2>1. OkSet(cs, k, n) \in SUBSET (1 .. n)
    BY DEF OkSet
  <2>2. LastOf(OkSet(cs, k, n)) \in OkSet(cs, k, n)
    BY <1>2, <2>1, HasLast
  <2> QED BY <1>2, <2>2 DEF World, Left
<1> QED BY <1>1, <1>2

\* Calls that differ only where neither is a successful mutation of the entity
\* leave it with the same.
LEMMA WorldAlike ==
    ASSUME NEW n \in Nat, NEW cs, NEW ds, NEW k, NEW b,
           \A j \in 1 .. n : cs[j] = ds[j] \/ (~Ok(cs[j], k) /\ ~Ok(ds[j], k))
    PROVE  World(cs, b, k, n) = World(ds, b, k, n)
<1>1. OkSet(cs, k, n) = OkSet(ds, k, n)
  BY DEF OkSet
<1>2. \A j \in OkSet(cs, k, n) : cs[j] = ds[j]
  BY DEF OkSet
<1> QED BY <1>1, <1>2, WorldSame

\* The last successful mutation says what the entity is left with.
LEMMA WorldLast ==
    ASSUME NEW n \in Nat, NEW cs, NEW k, NEW b, NEW j \in 1 .. n, Ok(cs[j], k),
           \A l \in j + 1 .. n : ~Ok(cs[l], k)
    PROVE  World(cs, b, k, n) = Left(cs[j])
<1>1. j \in OkSet(cs, k, n) /\ \A l \in OkSet(cs, k, n) : l <= j
  BY DEF OkSet
<1>2. OkSet(cs, k, n) \in SUBSET (1 .. n)
  BY DEF OkSet
<1>3. LastOf(OkSet(cs, k, n)) = j
  <2>1. LastOf(OkSet(cs, k, n)) \in OkSet(cs, k, n) /\ j <= LastOf(OkSet(cs, k, n))
    BY <1>1, <1>2, HasLast
  <2> QED BY <1>1, <1>2, <2>1
<1> QED BY <1>1, <1>3 DEF World

\* Calls at the end that have not changed the entity do not count.
LEMMA WorldShort ==
    ASSUME NEW n \in Nat, NEW m \in 0 .. n, NEW cs, NEW k, NEW b,
           \A l \in m + 1 .. n : ~Ok(cs[l], k)
    PROVE  World(cs, b, k, n) = World(cs, b, k, m)
<1>1. OkSet(cs, k, n) = OkSet(cs, k, m)
  BY DEF OkSet
<1> QED BY <1>1, WorldSame

\* The world of the properties, entity by entity.
LEMMA WorldBeforeIs ==
    ASSUME NEW i \in Nat, NEW k \in Keys
    PROVE  WorldBefore(i)[k] = Before(i, k)
<1>1. {j \in 1 .. i - 1 : calls[j].key = k /\ Succeeded(j)} = OkSet(calls, k, i - 1)
  BY DEF OkSet, Ok, Succeeded
<1> DEFINE S == {j \in 1 .. i - 1 : calls[j].key = k /\ Succeeded(j)}
           last == CHOOSE j \in S : \A l \in S : l <= j
<1>2. WorldBefore(i)[k] =
        IF S = {} THEN base[k] ELSE IF calls[last].op = "delete" THEN Absent ELSE calls[last].value
  BY Zenon DEF WorldBefore
<1>3. Before(i, k) =
        IF S = {} THEN base[k] ELSE IF calls[last].op = "delete" THEN Absent ELSE calls[last].value
  <2>1. LastOf(S) = last
    BY DEF LastOf
  <2>2. S = OkSet(calls, k, i - 1)
    BY <1>1
  <2> HIDE DEF S, last
  <2> QED BY <2>1, <2>2 DEF Before, World, Left
<1> QED BY <1>2, <1>3

\* The calls are a list of calls.
LEMMA Typed ==
    ASSUME TypeInv
    PROVE  /\ Len(calls) \in Nat /\ DOMAIN calls = 1 .. Len(calls)
           /\ \A i \in 1 .. Len(calls) : calls[i] \in CallSet
  BY DEF TypeInv

\* A call that is added at the end changes nothing of what is known of those before
\* it (transactionBufferedStore: the call is queued behind the mutations it waits
\* for).
LEMMA AppendStep ==
    ASSUME DataInv, NEW c \in CallSet, calls' = Append(calls, c), c.at = "queued", c.answer = "none",
           c.op \notin Reads => c.key \in Keys, c.op \in {"create", "update"} => c.value \in {0, 1},
           c.op = "count" => c.limit = NoLimit,
           UNCHANGED <<phase, base, buffered, applied, confirmed, outcome>>
    PROVE  DataInv'
<1>0. TypeInv /\ TurnInv /\ CallInv /\ SerialInv /\ BufferInv /\ EndInv
  BY DEF DataInv
<1>1. /\ Len(calls) \in Nat /\ \A i \in 1 .. Len(calls) : calls[i] \in CallSet
  BY <1>0, Typed
<1>2. /\ calls' \in Seq(CallSet) /\ Len(calls') = Len(calls) + 1 /\ calls'[Len(calls) + 1] = c
      /\ \A i \in 1 .. Len(calls) : calls'[i] = calls[i]
  BY <1>0 DEF TypeInv
<1> DEFINE cs == calls'
<1>3. ASSUME NEW k, NEW b, NEW n \in 0 .. Len(calls)
      PROVE  World(cs, b, k, n) = World(calls, b, k, n)
  <2>1. n \in Nat /\ \A j \in 1 .. n : cs[j] = calls[j]
    BY <1>1, <1>2
  <2> HIDE DEF cs
  <2> QED BY <2>1, WorldAlike
<1>4. ASSUME NEW k \in Keys PROVE Now(k)' = Now(k)
  <2>1. ~Ok(calls'[Len(calls) + 1], k)
    BY <1>2 DEF Ok
  <2>2. World(cs, base[k], k, Len(calls) + 1) = World(cs, base[k], k, Len(calls))
    <3>1. \A l \in Len(calls) + 1 .. Len(calls) + 1 : ~Ok(cs[l], k)
      BY <1>1, <2>1
    <3>2. Len(calls) + 1 \in Nat /\ Len(calls) \in 0 .. Len(calls) + 1
      BY <1>1
    <3> HIDE DEF cs
    <3> QED BY <3>1, <3>2, WorldShort
  <2>3. World(cs, base[k], k, Len(calls)) = World(calls, base[k], k, Len(calls))
    BY <1>1, <1>3
  <2> QED BY <1>2, <2>2, <2>3 DEF Now
<1>5. TypeInv'
  BY <1>0, <1>2 DEF TypeInv
<1>6. TurnInv'
  <2> SUFFICES ASSUME NEW i \in 1 .. Len(calls'), NEW j \in 1 .. i - 1, calls'[i].at # "queued",
                      calls'[j].op \in Mutations, WaitsFor(i, j)'
               PROVE  calls'[j].at = "done"
    BY DEF TurnInv
  <2>1. i \in 1 .. Len(calls) /\ j \in 1 .. Len(calls)
    BY <1>1, <1>2
  <2>2. calls'[i] = calls[i] /\ calls'[j] = calls[j]
    BY <1>2, <2>1
  <2> QED BY <1>0, <2>1, <2>2 DEF TurnInv, WaitsFor
<1>7. ASSUME NEW i \in 1 .. Len(calls), calls[i].at # "queued"
      PROVE  /\ Before(i, calls[i].key)' = Before(i, calls[i].key)
             /\ Undisturbed(i)' => Undisturbed(i)
             /\ Found(i)' = Found(i)
  <2>1. i - 1 \in 0 .. Len(calls)
    BY <1>1
  <2>2. Found(i)' = Found(i)
    <3>1. \A k \in Keys : Before(i, k)' = Before(i, k)
      BY <1>1, <1>3, <2>1 DEF Before
    <3> QED BY <1>2, <3>1 DEF Found
  <2> QED BY <1>1, <1>2, <1>3, <2>1, <2>2 DEF Before, Undisturbed
<1>8. ASSUME NEW i \in 1 .. Len(calls') PROVE CallOK(i)' /\ SerialCall(i)'
  <2>1. CASE i \in 1 .. Len(calls)
    <3>1. calls'[i] = calls[i] /\ CallOK(i) /\ SerialCall(i)
      BY <1>0, <1>2, <2>1 DEF CallInv, SerialInv
    <3>2. CASE calls[i].at = "queued"
      BY <3>1, <3>2 DEF CallOK, SerialCall, QueryOK
    <3>3. CASE calls[i].at # "queued"
      <4>1. /\ Before(i, calls[i].key)' = Before(i, calls[i].key)
            /\ Undisturbed(i)' => Undisturbed(i)
            /\ Found(i)' = Found(i)
        BY <1>7, <2>1, <3>3
      <4>2. QueryOK(i) => QueryOK(i)'
        BY <3>1, <4>1 DEF QueryOK
      <4> QED BY <3>1, <4>1, <4>2 DEF CallOK, SerialCall
    <3> QED BY <3>2, <3>3
  <2>2. CASE i = Len(calls) + 1
    <3>1. calls'[i] = c
      BY <1>2, <2>2
    <3> QED BY <3>1 DEF CallOK, SerialCall, QueryOK
  <2> QED BY <1>1, <1>2, <2>1, <2>2
<1>9. CallInv' /\ SerialInv'
  BY <1>8 DEF CallInv, SerialInv
<1>10. BufferInv'
  BY <1>0, <1>4 DEF BufferInv
<1>11. EndInv'
  BY <1>0 DEF EndInv, AppliedOnce
<1> QED BY <1>5, <1>6, <1>9, <1>10, <1>11 DEF DataInv

-----------------------------------------------------------------------------
\* One call moves on; only a mutation touches the buffer, and only at its key.
Step(i, d) ==
    /\ i \in 1 .. Len(calls) /\ d \in CallSet /\ calls' = [calls EXCEPT ![i] = d]
    /\ d.op = calls[i].op /\ d.key = calls[i].key /\ (d.op # "get" => d.value = calls[i].value)
    /\ d.under = calls[i].under /\ d.limit = calls[i].limit
    /\ calls[i].at # "done" /\ d.at # "queued" /\ (d.answer # "none" <=> d.at = "done")
    /\ \A j \in 1 .. i - 1 : calls[j].op \in Mutations /\ WaitsFor(i, j) => calls[j].at = "done"
    /\ buffered' \in [Keys -> [op : Mutations \cup {"none"}, value : Contents]]
    /\ \A k \in Keys : buffered'[k] = buffered[k] \/ (d.op \in Mutations /\ k = d.key)
    /\ UNCHANGED <<phase, base, applied, confirmed, outcome>>

\* A step of one call leaves the other calls as they are.
LEMMA StepFacts ==
    ASSUME DataInv, NEW i, NEW d, Step(i, d)
    PROVE  /\ Len(calls) \in Nat /\ Len(calls') = Len(calls) /\ calls' \in Seq(CallSet)
           /\ calls'[i] = d /\ \A m \in 1 .. Len(calls) : m # i => calls'[m] = calls[m]
           /\ \A k : ~Ok(calls[i], k)
           /\ \A m \in 1 .. Len(calls) : Undisturbed(m)' <=> Undisturbed(m)
<1>0. TypeInv /\ CallInv
  BY DEF DataInv
<1>1. Len(calls) \in Nat /\ DOMAIN calls = 1 .. Len(calls) /\ i \in 1 .. Len(calls)
  BY <1>0, Typed DEF Step
<1>2. /\ Len(calls') = Len(calls) /\ calls' \in Seq(CallSet)
      /\ calls'[i] = d /\ \A m \in 1 .. Len(calls) : m # i => calls'[m] = calls[m]
  BY <1>0, <1>1 DEF Step, TypeInv
<1>3. calls[i].answer = "none"
  BY <1>0, <1>1 DEF CallInv, CallOK, Step
<1>4. \A m \in 1 .. Len(calls) : calls'[m].op = calls[m].op
  BY <1>1, <1>2 DEF Step
<1>5. ASSUME NEW m \in 1 .. Len(calls) PROVE Undisturbed(m)' <=> Undisturbed(m)
  <2>1. \A j \in m + 1 .. Len(calls) : j \in 1 .. Len(calls)
    BY <1>1
  <2> QED BY <1>2, <1>4, <2>1 DEF Undisturbed
<1> QED BY <1>1, <1>2, <1>3, <1>5 DEF Ok

\* A step of one call changes what is left before it, or without it, in nothing.
LEMMA StepWorld ==
    ASSUME DataInv, NEW i, NEW d, Step(i, d), NEW k, NEW b, NEW n \in 0 .. Len(calls),
           n < i \/ ~Ok(d, k)
    PROVE  World(calls', b, k, n) = World(calls, b, k, n)
<1> DEFINE cs == calls'
<1>1. n \in Nat /\ i \in 1 .. Len(calls)
  BY StepFacts DEF Step
<1>2. ASSUME NEW j \in 1 .. n PROVE cs[j] = calls[j] \/ (~Ok(cs[j], k) /\ ~Ok(calls[j], k))
  <2>1. j \in 1 .. Len(calls)
    BY StepFacts
  <2>2. CASE j = i
    BY <1>1, <2>2, StepFacts
  <2>3. CASE j # i
    BY <2>1, <2>3, StepFacts
  <2> QED BY <2>2, <2>3
<1> HIDE DEF cs
<1>3. World(cs, b, k, n) = World(calls, b, k, n)
  BY <1>1, <1>2, WorldAlike
<1> QED BY <1>3 DEF cs

\* What the other calls found and told stays true.
LEMMA OthersKept ==
    ASSUME DataInv, NEW i, NEW d, Step(i, d), NEW m \in 1 .. Len(calls), m # i
    PROVE  CallOK(m)' /\ SerialCall(m)'
<1>0. TypeInv /\ TurnInv /\ CallOK(m) /\ SerialCall(m) /\ CallOK(i)
  BY DEF DataInv, CallInv, SerialInv, Step
<1>1. /\ calls'[m] = calls[m] /\ Len(calls) \in Nat /\ i \in 1 .. Len(calls)
      /\ Undisturbed(m)' <=> Undisturbed(m)
  <2>1. i \in 1 .. Len(calls)
    BY DEF Step
  <2> QED BY <2>1, StepFacts
<1>2. CASE calls[m].at = "queued"
  BY <1>0, <1>1, <1>2 DEF CallOK, SerialCall, QueryOK
<1>3. CASE calls[m].at # "queued"
  <2>0. d.op \in Mutations /\ calls[m].op \in Reads /\ m > i => FALSE
    <3> SUFFICES ASSUME d.op \in Mutations, calls[m].op \in Reads, m > i PROVE FALSE
      OBVIOUS
    <3>1. i \in 1 .. m - 1 /\ calls[i].op \in Mutations /\ WaitsFor(m, i) /\ calls[i].at # "done"
      BY <1>1 DEF Step, WaitsFor
    <3> QED BY <1>0, <1>3, <3>1 DEF TurnInv
  <2>1. d.op \in Mutations /\ d.key = calls[m].key /\ m > i => FALSE
    <3> SUFFICES ASSUME d.op \in Mutations, d.key = calls[m].key, m > i PROVE FALSE
      OBVIOUS
    <3>1. i \in 1 .. m - 1 /\ calls[i].op \in Mutations /\ WaitsFor(m, i) /\ calls[i].at # "done"
      BY <1>1 DEF Step, WaitsFor
    <3> QED BY <1>0, <1>3, <3>1 DEF TurnInv
  <2>2. Before(m, calls[m].key)' = Before(m, calls[m].key)
    <3>1. m - 1 \in 0 .. Len(calls) /\ (m - 1 < i \/ ~Ok(d, calls[m].key))
      BY <1>1, <2>1 DEF Ok
    <3>2. World(calls', base[calls[m].key], calls[m].key, m - 1)
          = World(calls, base[calls[m].key], calls[m].key, m - 1)
      BY <3>1, StepWorld
    <3>3. base' = base
      BY DEF Step
    <3> QED BY <1>1, <3>2, <3>3 DEF Before
  <2>3. calls[m].at = "reading" /\ calls[m].op \in Mutations /\ d.op \in Mutations => d.key # calls[m].key
    <3> SUFFICES ASSUME calls[m].at = "reading", calls[m].op \in Mutations,
                        d.op \in Mutations, d.key = calls[m].key
                 PROVE FALSE
      OBVIOUS
    <3>1. m < i
      BY <1>1, <2>1
    <3>2. m \in 1 .. i - 1 /\ WaitsFor(i, m)
      BY <1>1, <3>1 DEF WaitsFor, Step
    <3> QED BY <3>2 DEF Step
  <2>4. calls[m].at = "reading" /\ calls[m].op \in Mutations
            => buffered'[calls[m].key] = buffered[calls[m].key]
    <3>1. calls[m].op \in Mutations => calls[m].key \in Keys
      BY <1>0 DEF CallOK, Mutations, Reads
    <3> QED BY <2>3, <3>1 DEF Step
  <2>5. base' = base
    BY DEF Step
  <2>8. calls[m].op \in Reads => QueryOK(m)'
    <3> SUFFICES ASSUME calls[m].op \in Reads PROVE QueryOK(m)'
      OBVIOUS
    <3>1. ASSUME NEW k \in Keys PROVE Before(m, k)' = Before(m, k)
      <4>1. m - 1 \in 0 .. Len(calls) /\ (m - 1 < i \/ ~Ok(d, k))
        BY <1>1, <2>0 DEF Ok
      <4>2. World(calls', base[k], k, m - 1) = World(calls, base[k], k, m - 1)
        BY <4>1, StepWorld
      <4> QED BY <2>5, <4>2 DEF Before
    <3>2. Found(m)' = Found(m)
      BY <1>1, <3>1 DEF Found
    <3>3. Undisturbed(m) => \A k \in Keys : buffered'[k] = buffered[k]
      <4> SUFFICES ASSUME Undisturbed(m), d.op \in Mutations PROVE FALSE
        BY DEF Step
      <4>1. i \in m + 1 .. Len(calls)
        BY <1>1, <2>0
      <4> QED BY <4>1 DEF Undisturbed, Step
    <3> QED BY <1>0, <1>1, <3>2, <3>3 DEF CallOK, QueryOK
  <2>6. CallOK(m)'
    BY <1>0, <1>1, <2>2, <2>4, <2>5, <2>8 DEF CallOK
  <2>7. SerialCall(m)'
    BY <1>0, <1>1, <2>2 DEF SerialCall
  <2> QED BY <2>6, <2>7
<1> QED BY <1>2, <1>3

\* A step of a call keeps the invariant if the call is right itself and the buffer
\* still leads where the calls do.
LEMMA StepKeeps ==
    ASSUME DataInv, NEW i, NEW d, Step(i, d), CallOK(i)', SerialCall(i)',
           Ok(d, d.key) => Leads(base[d.key], buffered'[d.key], Left(d)),
           ~Ok(d, d.key) => buffered' = buffered
    PROVE  DataInv'
<1>0. TypeInv /\ TurnInv /\ CallInv /\ SerialInv /\ BufferInv /\ EndInv
  BY DEF DataInv
<1>1. /\ Len(calls) \in Nat /\ Len(calls') = Len(calls) /\ calls' \in Seq(CallSet) /\ i \in 1 .. Len(calls)
      /\ calls'[i] = d /\ \A m \in 1 .. Len(calls) : m # i => calls'[m] = calls[m]
  BY StepFacts DEF Step
<1>2. TypeInv'
  BY <1>0, <1>1 DEF TypeInv, Step
<1>3. TurnInv'
  <2> SUFFICES ASSUME NEW m \in 1 .. Len(calls), NEW j \in 1 .. m - 1, calls'[m].at # "queued",
                      calls'[j].op \in Mutations, WaitsFor(m, j)'
               PROVE  calls'[j].at = "done"
    BY <1>1 DEF TurnInv
  <2>1. j \in 1 .. Len(calls)
    BY <1>1
  <2>2. /\ calls'[m].op = calls[m].op /\ calls'[m].key = calls[m].key
        /\ calls'[j].op = calls[j].op /\ calls'[j].key = calls[j].key
    BY <1>1, <2>1 DEF Step
  <2>3. WaitsFor(m, j)
    BY <2>2 DEF WaitsFor
  <2>4. CASE m = i
    <3>1. calls[j].at = "done"
      BY <2>2, <2>3, <2>4 DEF Step
    <3> QED BY <1>1, <2>1, <2>4, <3>1
  <2>5. CASE m # i
    <3>1. calls[j].at = "done"
      BY <1>0, <1>1, <2>2, <2>3, <2>5 DEF TurnInv
    <3>2. j # i
      BY <3>1 DEF Step
    <3> QED BY <1>1, <2>1, <3>1, <3>2
  <2> QED BY <2>4, <2>5
<1>4. CallInv' /\ SerialInv'
  BY <1>1, OthersKept DEF CallInv, SerialInv
<1>5. BufferInv'
  <2> SUFFICES ASSUME NEW k \in Keys PROVE Leads(base[k], buffered'[k], Now(k)')
    BY DEF BufferInv, Step
  <2>0. Now(k)' = World(calls', base[k], k, Len(calls))
    BY <1>1 DEF Now, Step
  <2>1. CASE ~Ok(d, k)
    <3>1. Len(calls) \in 0 .. Len(calls)
      BY <1>1
    <3>2. Now(k)' = Now(k)
      BY <2>0, <2>1, <3>1, StepWorld DEF Now
    <3>3. buffered'[k] = buffered[k]
      BY <2>1 DEF Step, Ok
    <3> QED BY <1>0, <3>2, <3>3 DEF BufferInv
  <2>2. CASE Ok(d, k)
    <3> DEFINE cs == calls'
    <3>1. k = d.key /\ Ok(d, d.key) /\ cs[i] = d /\ d.op \in Mutations
      BY <1>1, <2>2 DEF Ok
    <3>2. ASSUME NEW l \in i + 1 .. Len(calls) PROVE ~Ok(cs[l], k)
      <4> SUFFICES ASSUME Ok(cs[l], k) PROVE FALSE
        OBVIOUS
      <4>1. l \in 1 .. Len(calls) /\ l # i /\ cs[l] = calls[l] /\ i \in 1 .. l - 1
        BY <1>1
      <4>2. calls[l].op \in Mutations /\ calls[l].key = d.key /\ calls[l].at = "done"
        BY <1>0, <3>1, <4>1 DEF Ok, CallInv, CallOK
      <4>3. calls[i].op \in Mutations /\ WaitsFor(l, i) /\ calls[i].at # "done"
        BY <3>1, <4>2 DEF WaitsFor, Step
      <4> QED BY <1>0, <4>1, <4>2, <4>3 DEF TurnInv
    <3>3. World(cs, base[k], k, Len(calls)) = Left(cs[i])
      <4> HIDE DEF cs
      <4>1. Ok(cs[i], k)
        BY <2>2, <3>1
      <4>2. Len(calls) \in Nat /\ i \in 1 .. Len(calls)
        BY <1>1
      <4> QED BY <3>2, <4>1, <4>2, WorldLast
    <3> QED BY <2>0, <3>1, <3>3
  <2> QED BY <2>1, <2>2
<1>6. EndInv'
  BY <1>0 DEF EndInv, AppliedOnce, Step
<1> QED BY <1>2, <1>3, <1>4, <1>5, <1>6 DEF DataInv

-----------------------------------------------------------------------------
\* A call that may act has waited for its turn.
MyTurn(i) == \A j \in 1 .. i - 1 : calls[j].op \in Mutations /\ WaitsFor(i, j) => calls[j].at = "done"

\* Both a call that may start and one that reads have had their turn.
LEMMA TurnCame ==
    ASSUME DataInv, NEW i \in 1 .. Len(calls), MayStart(i) \/ calls[i].at = "reading"
    PROVE  MyTurn(i) /\ calls[i].at # "done" /\ calls[i].at \in {"queued", "reading"}
<1>1. CASE MayStart(i)
  BY <1>1 DEF MayStart, Turn, MyTurn
<1>2. CASE calls[i].at = "reading"
  BY <1>2 DEF DataInv, TurnInv, MyTurn
<1> QED BY <1>1, <1>2

\* For a call whose turn has come the world before it is the present one: the
\* mutations of its entity before it are done (serializeBufferedMutation), those
\* after it wait for it.
LEMMA NowIs ==
    ASSUME DataInv, NEW i \in 1 .. Len(calls), MyTurn(i), calls[i].at # "done", calls[i].op \notin Reads,
           calls[i].op \in Mutations \/ Undisturbed(i)
    PROVE  calls[i].key \in Keys /\ Before(i, calls[i].key) = Now(calls[i].key)
<1>0. TypeInv /\ TurnInv /\ CallInv
  BY DEF DataInv
<1>1. Len(calls) \in Nat /\ i \in 1 .. Len(calls) /\ calls[i].key \in Keys /\ calls[i].answer = "none"
  BY <1>0, Typed DEF CallInv, CallOK
<1>2. ASSUME NEW l \in (i - 1) + 1 .. Len(calls) PROVE ~Ok(calls[l], calls[i].key)
  <2>1. CASE l = i
    BY <1>1, <2>1 DEF Ok
  <2>2. CASE l # i
    <3> SUFFICES ASSUME Ok(calls[l], calls[i].key) PROVE FALSE
      OBVIOUS
    <3>1. l \in i + 1 .. Len(calls) /\ l \in 1 .. Len(calls) /\ i \in 1 .. l - 1
      BY <1>1, <2>2
    <3>2. calls[l].op \in Mutations /\ calls[l].key = calls[i].key /\ calls[l].at = "done"
      BY <1>0, <3>1 DEF Ok, CallInv, CallOK
    <3>3. calls[i].op \in Mutations
      BY <3>1, <3>2 DEF Undisturbed
    <3>4. WaitsFor(l, i)
      BY <3>2 DEF WaitsFor
    <3> QED BY <1>0, <3>1, <3>2, <3>3, <3>4 DEF TurnInv
  <2> QED BY <2>1, <2>2
<1>3. i - 1 \in 0 .. Len(calls)
  BY <1>1
<1>4. World(calls, base[calls[i].key], calls[i].key, Len(calls))
      = World(calls, base[calls[i].key], calls[i].key, i - 1)
  BY <1>1, <1>2, <1>3, WorldShort
<1> QED BY <1>1, <1>4 DEF Before, Now

\* What is known after a step of what came before the call.
LEMMA StepBefore ==
    ASSUME DataInv, NEW i, NEW d, Step(i, d)
    PROVE  (\A k : Before(i, k)' = Before(i, k)) /\ Found(i)' = Found(i)
<1>1. i - 1 \in 0 .. Len(calls) /\ i - 1 < i
  BY StepFacts DEF Step
<1>2. ASSUME NEW k PROVE Before(i, k)' = Before(i, k)
  <2>1. World(calls', base[k], k, i - 1) = World(calls, base[k], k, i - 1)
    BY <1>1, StepWorld
  <2> QED BY <2>1 DEF Before, Step
<1>3. calls'[i].under = calls[i].under
  BY StepFacts DEF Step
<1>4. Found(i)' = Found(i)
  BY <1>2, <1>3 DEF Found
<1> QED BY <1>2, <1>4

\* A call begins to read.
LEMMA ReadingStep ==
    ASSUME DataInv, NEW i \in 1 .. Len(calls), MayStart(i), Reading(i), Keep, Rest,
           calls[i].op \notin Reads => buffered[calls[i].key].op = "none",
           calls[i].op = "native" => \A k \in Keys : buffered[k].op = "none"
    PROVE  DataInv'
<1>d. PICK d : d = [calls[i] EXCEPT !.at = "reading"]
  OBVIOUS
<1>0. TypeInv /\ CallOK(i) /\ BufferInv /\ MyTurn(i) /\ calls[i].at = "queued" /\ calls[i].answer = "none"
  BY TurnCame DEF DataInv, CallInv, CallOK, MayStart
<1>1. calls[i] \in CallSet
  BY <1>0, Typed
<1>2. d \in CallSet /\ d.at = "reading" /\ d.op = calls[i].op /\ d.key = calls[i].key
      /\ d.value = calls[i].value /\ d.answer = calls[i].answer
      /\ d.under = calls[i].under /\ d.limit = calls[i].limit
  BY <1>d, <1>1 DEF CallSet
<1>3. calls' = [calls EXCEPT ![i] = d]
  BY <1>d DEF Reading
<1>4. Step(i, d)
  BY <1>0, <1>2, <1>3 DEF Step, MyTurn, Keep, Rest, TypeInv
<1>5. calls'[i] = d /\ (Undisturbed(i)' <=> Undisturbed(i)) /\ Before(i, d.key)' = Before(i, d.key)
  BY <1>4, StepFacts, StepBefore
<1>6. calls[i].op = "get" /\ Undisturbed(i) => Before(i, calls[i].key) = base[calls[i].key]
  <2> SUFFICES ASSUME calls[i].op = "get", Undisturbed(i) PROVE Before(i, calls[i].key) = base[calls[i].key]
    OBVIOUS
  <2>1. calls[i].op \notin Reads
    BY DEF Reads
  <2>2. calls[i].key \in Keys /\ Before(i, calls[i].key) = Now(calls[i].key)
    BY <1>0, <2>1, NowIs
  <2> QED BY <1>0, <2>1, <2>2 DEF BufferInv, Leads
<1>7. d.op \in Mutations => d.op \notin Reads
  BY DEF Mutations, Reads
<1>10. calls[i].op \in Reads => QueryOK(i)'
  BY <1>0, <1>2, <1>5 DEF CallOK, QueryOK, Keep
<1>8. CallOK(i)' /\ SerialCall(i)'
  BY <1>0, <1>2, <1>5, <1>6, <1>7, <1>10 DEF CallOK, SerialCall, Keep, Rest
<1>9. ~Ok(d, d.key)
  BY <1>0, <1>2 DEF Ok
<1> QED BY <1>4, <1>8, <1>9, StepKeeps DEF Keep

\* A get or a query is answered; the buffer stays.
LEMMA AnsweredRead ==
    ASSUME DataInv, NEW i \in 1 .. Len(calls), NEW d \in CallSet, MyTurn(i), calls[i].at # "done",
           calls' = [calls EXCEPT ![i] = d], Keep, Rest,
           d.op = calls[i].op, d.key = calls[i].key, d.op # "get" => d.value = calls[i].value,
           d.at = "done", d.answer # "none", d.op \notin Mutations,
           d.under = calls[i].under, d.limit = calls[i].limit,
           d.op = "get" /\ Undisturbed(i) => d.value = Before(i, d.key),
           d.op \in Reads /\ d.answer = "ok" /\ Undisturbed(i) =>
              /\ d.cut => d.more
              /\ ~d.cut => d.more = HasMore(Found(i), d.limit) /\ d.list = PageOf(Found(i), d.limit)
              /\ d.op = "count" => ~d.more
    PROVE  DataInv'
<1>0. TypeInv /\ CallOK(i)
  BY DEF DataInv, CallInv
<1>1. Step(i, d)
  BY <1>0 DEF Step, MyTurn, Keep, Rest, TypeInv
<1>2. calls'[i] = d /\ (Undisturbed(i)' <=> Undisturbed(i)) /\ Before(i, d.key)' = Before(i, d.key)
  BY <1>1, StepFacts, StepBefore
<1>5. Found(i)' = Found(i)
  BY <1>1, StepBefore
<1>6. d.op \in Reads => QueryOK(i)'
  BY <1>0, <1>2, <1>5 DEF CallOK, QueryOK
<1>3. CallOK(i)'
  BY <1>0, <1>2, <1>6 DEF CallOK, Mutations, Keep
<1>4. SerialCall(i)'
  BY <1>2 DEF SerialCall, Mutations
<1> QED BY <1>1, <1>3, <1>4, StepKeeps DEF Ok, Keep

\* A mutation is answered once it is known whether its entity is there: refused,
\* nothing to be done, or folded into the buffered mutation of the entity (create,
\* update and delete of the transaction's store).
LEMMA DecideStep ==
    ASSUME DataInv, NEW i \in 1 .. Len(calls), MyTurn(i), calls[i].at # "done", calls[i].op \in Mutations,
           NEW there \in BOOLEAN, there <=> Now(calls[i].key) # Absent,
           Decide(i, buffered[calls[i].key].op, there), Rest
    PROVE  DataInv'
<1>k. PICK k, answer, d :
         /\ k = calls[i].key /\ answer = Refusal(calls[i].op, there)
         /\ d = [calls[i] EXCEPT !.at = "done", !.answer = answer]
  OBVIOUS
<1>0. TypeInv /\ CallOK(i) /\ BufferInv /\ calls[i] \in CallSet
  BY Typed DEF DataInv, CallInv
<1>1. k \in Keys /\ Before(i, k) = Now(k)
  BY <1>k, NowIs DEF Mutations, Reads
<1>2. answer \in Answers /\ answer # "none"
      /\ (calls[i].op = "create" => (answer = "conflict" <=> there) /\ (answer = "ok" <=> ~there))
      /\ (calls[i].op = "update" => (answer = "notFound" <=> ~there) /\ (answer = "ok" <=> there))
      /\ (calls[i].op = "delete" => answer = "ok")
  BY <1>k DEF Refusal, Answers
<1>3. calls' = [calls EXCEPT ![i] = d]
  BY <1>k DEF Decide, Answered
<1>4. d \in CallSet /\ d.at = "done" /\ d.answer = answer /\ d.op = calls[i].op /\ d.key = k
      /\ d.value = calls[i].value /\ d.under = calls[i].under /\ d.limit = calls[i].limit
  BY <1>k, <1>0, <1>2 DEF CallSet
<1>5. buffered' = IF answer # "ok" \/ (calls[i].op = "delete" /\ ~there) THEN buffered
                  ELSE [buffered EXCEPT ![k] =
                          IF Folded(buffered[k].op, calls[i].op) = "none" THEN None
                          ELSE [op |-> Folded(buffered[k].op, calls[i].op),
                                value |-> IF Folded(buffered[k].op, calls[i].op) = "delete" THEN Absent
                                          ELSE calls[i].value]]
  BY <1>k DEF Decide, Buffer, Keep
<1>6. /\ calls[i].value \in Contents /\ Absent \in Contents
      /\ buffered[k] \in [op : Mutations \cup {"none"}, value : Contents]
  BY <1>k, <1>0, <1>1 DEF CallSet, TypeInv, Contents
<1>7. Leads(base[k], buffered[k], Now(k))
  BY <1>k, <1>0, <1>1 DEF BufferInv
<1>8. calls[i].op \in {"create", "update"} => calls[i].value # Absent
  BY <1>k, <1>0 DEF CallOK, Absent
<1> DEFINE folded == Folded(buffered[k].op, calls[i].op)
           new == IF folded = "none" THEN None
                  ELSE [op |-> folded, value |-> IF folded = "delete" THEN Absent ELSE calls[i].value]
<1>9. folded \in Mutations \cup {"none"}
  BY DEF Folded, Mutations
<1>10. /\ new.op = folded /\ new \in [op : Mutations \cup {"none"}, value : Contents]
       /\ folded \in {"create", "update"} => new.value = calls[i].value
  <2> HIDE DEF folded
  <2> QED BY <1>k, <1>6, <1>9 DEF None, Mutations
<1>11. \/ buffered' = buffered /\ (answer # "ok" \/ (calls[i].op = "delete" /\ ~there))
       \/ buffered' = [buffered EXCEPT ![k] = new] /\ answer = "ok" /\ (calls[i].op = "delete" => there)
  BY <1>k, <1>5
<1> HIDE DEF new
<1>12. Step(i, d)
  <2>1. buffered' \in [Keys -> [op : Mutations \cup {"none"}, value : Contents]]
        /\ \A l \in Keys : buffered'[l] = buffered[l] \/ l = k
    BY <1>k, <1>0, <1>1, <1>10, <1>11 DEF TypeInv
  <2> QED BY <1>k, <1>2, <1>3, <1>4, <2>1 DEF Step, MyTurn, Rest
<1>13. calls'[i] = d /\ (Undisturbed(i)' <=> Undisturbed(i)) /\ Before(i, d.key)' = Before(i, d.key)
  BY <1>12, StepFacts, StepBefore
<1>14. CallOK(i)'
  BY <1>k, <1>0, <1>2, <1>4, <1>13 DEF CallOK, Mutations, Reads
<1>15. SerialCall(i)'
  BY <1>k, <1>1, <1>2, <1>4, <1>13 DEF SerialCall, Mutations
<1>16. Ok(d, d.key) => Leads(base[d.key], buffered'[d.key], Left(d))
  <2> SUFFICES ASSUME answer = "ok" PROVE Leads(base[k], buffered'[k], Left(d))
    BY <1>k, <1>4 DEF Ok
  <2>1. CASE calls[i].op = "delete" /\ ~there
    <3>1. buffered' = buffered /\ Left(d) = Absent /\ Now(k) = Absent
      BY <1>k, <1>4, <1>11, <2>1 DEF Left
    <3> QED BY <1>k, <1>7, <3>1
  <2>2. CASE ~(calls[i].op = "delete" /\ ~there)
    <3>1. buffered'[k] = new
      BY <1>k, <1>0, <1>1, <1>11, <2>2 DEF TypeInv
    <3>2. CASE calls[i].op = "create"
      <4>1. Now(k) = Absent /\ Left(d) = calls[i].value /\ calls[i].value # Absent
        BY <1>k, <1>2, <1>4, <1>8, <3>2 DEF Left
      <4>2. folded = IF buffered[k].op = "delete" THEN "update" ELSE "create"
        BY <3>2 DEF Folded
      <4> QED BY <1>k, <1>6, <1>7, <1>10, <3>1, <4>1, <4>2 DEF Leads, Mutations
    <3>3. CASE calls[i].op = "update"
      <4>1. Now(k) # Absent /\ Left(d) = calls[i].value /\ calls[i].value # Absent
        BY <1>k, <1>2, <1>4, <1>8, <3>3 DEF Left
      <4>2. folded = IF buffered[k].op = "create" THEN "create" ELSE "update"
        BY <3>3 DEF Folded
      <4> QED BY <1>k, <1>6, <1>7, <1>10, <3>1, <4>1, <4>2 DEF Leads, Mutations
    <3>4. CASE calls[i].op = "delete"
      <4>1. Now(k) # Absent /\ Left(d) = Absent
        BY <1>k, <1>4, <2>2, <3>4 DEF Left
      <4>2. folded = IF buffered[k].op = "create" THEN "none" ELSE "delete"
        BY <3>4 DEF Folded
      <4> QED BY <1>k, <1>6, <1>7, <1>10, <3>1, <4>1, <4>2 DEF Leads, Mutations
    <3> QED BY <3>2, <3>3, <3>4 DEF Mutations
  <2> QED BY <2>1, <2>2
<1>17. ~Ok(d, d.key) => buffered' = buffered
  BY <1>k, <1>4, <1>11 DEF Ok
<1> QED BY <1>k, <1>12, <1>14, <1>15, <1>16, <1>17, StepKeeps

-----------------------------------------------------------------------------
\* A call is made.
LEMMA CallStep ==
    ASSUME DataInv, Operations \subseteq {"create", "update", "delete", "get", "query", "native", "count"},
           \/ \E op \in Operations \ Reads, k \in Keys, value \in {0, 1} : CallEntity(op, k, value)
           \/ \E op \in Operations \cap Reads, under \in BOOLEAN, limit \in {1, NoLimit} :
                 CallQuery(op, under, limit)
    PROVE  DataInv'
<1>1. CASE \E op \in Operations \ Reads, k \in Keys, value \in {0, 1} : CallEntity(op, k, value)
  <2>1. PICK op \in Operations \ Reads, k \in Keys, value \in {0, 1} : CallEntity(op, k, value)
    BY <1>1
  <2>2. PICK c : c = NewCall(op, k, value, FALSE, NoLimit)
    OBVIOUS
  <2>3. /\ c \in CallSet /\ c.at = "queued" /\ c.answer = "none" /\ c.op = op /\ c.key = k /\ c.value = value
    BY <2>2 DEF NewCall, CallSet, Contents, Lists, Answers
  <2>4. calls' = Append(calls, c) /\ UNCHANGED <<phase, base, buffered, applied, confirmed, outcome>>
    BY <2>1, <2>2 DEF CallEntity, Keep, Rest
  <2> QED BY <2>3, <2>4, AppendStep DEF Reads
<1>2. CASE \E op \in Operations \cap Reads, under \in BOOLEAN, limit \in {1, NoLimit} :
              CallQuery(op, under, limit)
  <2>1. PICK op \in Operations \cap Reads, under \in BOOLEAN, limit \in {1, NoLimit} :
              CallQuery(op, under, limit)
    BY <1>2
  <2>0. PICK k : k = CHOOSE x \in Keys : TRUE
    OBVIOUS
  <2>2. PICK c : c = NewCall(op, k, 0, under, limit)
    OBVIOUS
  <2>3. /\ c \in CallSet /\ c.at = "queued" /\ c.answer = "none" /\ c.op = op /\ c.limit = limit
    BY <2>0, <2>2 DEF NewCall, CallSet, Contents, Lists, Answers
  <2>4. calls' = Append(calls, c) /\ UNCHANGED <<phase, base, buffered, applied, confirmed, outcome>>
    BY <2>0, <2>1, <2>2 DEF CallQuery, Keep, Rest
  <2>5. op = "count" => limit = NoLimit
    BY <2>1 DEF CallQuery
  <2> QED BY <2>3, <2>4, <2>5, AppendStep DEF Reads
<1> QED BY <1>1, <1>2

\* A get is answered from the buffer (transactionBufferedRow), or begins to read.
LEMMA GetStep ==
    ASSUME DataInv, NEW i \in 1 .. Len(calls), Get(i)
    PROVE  DataInv'
<1>0. /\ TypeInv /\ CallOK(i) /\ BufferInv /\ calls[i] \in CallSet
      /\ MayStart(i) /\ calls[i].op = "get" /\ Keep /\ Rest
  BY Typed DEF DataInv, CallInv, Get
<1>1. CASE buffered[calls[i].key].op = "none"
  BY <1>0, <1>1, ReadingStep DEF Get
<1>2. CASE buffered[calls[i].key].op # "none"
  <2>1. MyTurn(i) /\ calls[i].at # "done" /\ calls[i].op \notin Reads
    BY <1>0, TurnCame DEF Reads
  <2>2. calls[i].key \in Keys
    BY <1>0, <2>1 DEF CallOK
  <2>3. PICK mutation : mutation = buffered[calls[i].key]
    OBVIOUS
  <2>4. Leads(base[calls[i].key], mutation, Now(calls[i].key))
        /\ mutation \in [op : Mutations \cup {"none"}, value : Contents] /\ mutation.op # "none"
    BY <1>0, <1>2, <2>2, <2>3 DEF BufferInv, TypeInv
  <2>5. BufferedRow(mutation) = Now(calls[i].key) /\ BufferedRow(mutation) \in Contents
    BY <2>4 DEF BufferedRow, Leads, Mutations, Contents
  <2>6. PICK d : d = [calls[i] EXCEPT !.at = "done", !.answer = "ok", !.value = BufferedRow(mutation)]
    OBVIOUS
  <2>7. d \in CallSet /\ d.op = calls[i].op /\ d.key = calls[i].key /\ d.at = "done" /\ d.answer = "ok"
        /\ d.under = calls[i].under /\ d.limit = calls[i].limit /\ d.value = BufferedRow(mutation)
    BY <1>0, <2>5, <2>6 DEF CallSet, Answers
  <2>8. calls' = [calls EXCEPT ![i] = d]
    BY <1>0, <1>2, <2>3, <2>6 DEF Get, Gives
  <2>9. d.op = "get" /\ Undisturbed(i) => d.value = Before(i, d.key)
    BY <1>0, <2>1, <2>5, <2>7, NowIs
  <2> QED BY <1>0, <2>1, <2>7, <2>8, <2>9, AnsweredRead DEF Mutations, Reads
<1> QED BY <1>1, <1>2

\* A mutation is decided from the buffer, or begins to read.
LEMMA MutationStep ==
    ASSUME DataInv, NEW i \in 1 .. Len(calls), Create(i) \/ Update(i) \/ Delete(i)
    PROVE  DataInv'
<1>0. /\ BufferInv /\ MayStart(i) /\ calls[i].op \in Mutations /\ Rest
      /\ IF buffered[calls[i].key].op = "none" THEN Reading(i) /\ Keep
         ELSE Decide(i, buffered[calls[i].key].op, buffered[calls[i].key].op # "delete")
  BY DEF DataInv, Create, Update, Delete, Mutations
<1>1. CASE buffered[calls[i].key].op = "none"
  BY <1>0, <1>1, ReadingStep DEF Mutations
<1>2. CASE buffered[calls[i].key].op # "none"
  <2>1. MyTurn(i) /\ calls[i].at # "done" /\ calls[i].op \notin Reads
    BY <1>0, TurnCame DEF Reads, Mutations
  <2>2. calls[i].key \in Keys
    BY <1>0, <2>1, NowIs
  <2>3. Leads(base[calls[i].key], buffered[calls[i].key], Now(calls[i].key))
        /\ buffered[calls[i].key] \in [op : Mutations \cup {"none"}, value : Contents]
    BY <2>2 DEF DataInv, BufferInv, TypeInv
  <2>4. buffered[calls[i].key].op # "delete" <=> Now(calls[i].key) # Absent
    BY <1>2, <2>3 DEF Leads, Mutations
  <2>5. (buffered[calls[i].key].op # "delete") \in BOOLEAN
    OBVIOUS
  <2> QED BY <1>0, <1>2, <2>1, <2>4, <2>5, DecideStep
<1> QED BY <1>1, <1>2

\* The read of a get or of a mutation comes back from the snapshot
\* (transactionEntityExists).
LEMMA ReadReturnsStep ==
    ASSUME DataInv, NEW i \in 1 .. Len(calls), ReadReturns(i),
           Operations \subseteq {"create", "update", "delete", "get", "query", "native", "count"}
    PROVE  DataInv'
<1>0. /\ TypeInv /\ CallOK(i) /\ BufferInv /\ calls[i] \in CallSet /\ Rest
      /\ calls[i].at = "reading" /\ calls[i].op \notin Reads /\ calls[i].key \in Keys
      /\ MyTurn(i) /\ calls[i].at # "done"
  BY Typed, TurnCame DEF DataInv, CallInv, CallOK, ReadReturns
<1>1. CASE calls[i].op = "get"
  <2>1. Keep /\ Gives(i, base[calls[i].key]) /\ base[calls[i].key] \in Contents
    BY <1>0, <1>1 DEF ReadReturns, TypeInv
  <2>2. PICK d : d = [calls[i] EXCEPT !.at = "done", !.answer = "ok", !.value = base[calls[i].key]]
    OBVIOUS
  <2>3. d \in CallSet /\ d.op = calls[i].op /\ d.key = calls[i].key /\ d.at = "done" /\ d.answer = "ok"
        /\ d.under = calls[i].under /\ d.limit = calls[i].limit /\ d.value = base[calls[i].key]
    BY <1>0, <2>1, <2>2 DEF CallSet, Answers
  <2>4. calls' = [calls EXCEPT ![i] = d]
    BY <2>1, <2>2 DEF Gives
  <2>5. d.op = "get" /\ Undisturbed(i) => d.value = Before(i, d.key)
    BY <1>0, <1>1, <2>3 DEF CallOK
  <2> QED BY <1>0, <1>1, <2>1, <2>3, <2>4, <2>5, AnsweredRead DEF Mutations, Reads
<1>2. CASE calls[i].op # "get"
  <2>1. calls[i].op \in Mutations
    BY <1>0, <1>2 DEF CallSet, Mutations, Reads
  <2>2. buffered[calls[i].key].op = "none" /\ Decide(i, "none", base[calls[i].key] # Absent)
    BY <1>0, <1>2, <2>1 DEF CallOK, ReadReturns
  <2>3. Now(calls[i].key) = base[calls[i].key]
    BY <1>0, <2>2 DEF BufferInv, Leads
  <2>4. (base[calls[i].key] # Absent) \in BOOLEAN
    OBVIOUS
  <2>5. Decide(i, buffered[calls[i].key].op, base[calls[i].key] # Absent)
    BY <2>2
  <2>6. PICK there \in BOOLEAN : there = (base[calls[i].key] # Absent)
    BY <2>4
  <2> QED BY <1>0, <2>1, <2>3, <2>5, <2>6, DecideStep
<1> QED BY <1>1, <1>2

\* For a query whose turn has come, and after which nothing was mutated, the world
\* before it is the present one of every entity (waitForBufferedMutations).
LEMMA QueryNow ==
    ASSUME DataInv, NEW i \in 1 .. Len(calls), calls[i].op \in Reads, Undisturbed(i), NEW k \in Keys
    PROVE  Before(i, k) = Now(k)
<1>1. Len(calls) \in Nat /\ i - 1 \in 0 .. Len(calls)
  BY Typed DEF DataInv
<1>2. ASSUME NEW l \in (i - 1) + 1 .. Len(calls) PROVE ~Ok(calls[l], k)
  <2>1. l = i \/ l \in i + 1 .. Len(calls)
    BY <1>1
  <2> QED BY <2>1 DEF Ok, Undisturbed, Reads, Mutations
<1>3. World(calls, base[k], k, Len(calls)) = World(calls, base[k], k, i - 1)
  BY <1>1, <1>2, WorldShort
<1> QED BY <1>3 DEF Before, Now

\* A query begins, is refused, or is answered with the page of the buffer laid over
\* what the snapshot gave.
LEMMA QueryStep ==
    ASSUME DataInv, NEW i \in 1 .. Len(calls), Begin(i) \/ QueryReturns(i)
    PROVE  DataInv'
<1>0. /\ calls[i] \in CallSet /\ Rest /\ Keep /\ calls[i].op \in Reads /\ TypeInv
      /\ MyTurn(i) /\ calls[i].at # "done" /\ QueryOK(i)
  BY Typed, TurnCame DEF DataInv, Begin, QueryReturns, CallInv, CallOK
<1>1. CASE Begin(i) /\ ~Answered(i, "refused")
  <2>1. Reading(i) /\ MayStart(i)
    BY <1>1 DEF Begin
  <2>2. calls[i].op = "native" => \A k \in Keys : buffered[k].op = "none"
    BY <1>0, <1>1 DEF Begin, DirtyBuffer, TypeInv
  <2> QED BY <1>0, <2>1, <2>2, ReadingStep
<1>2. CASE Answered(i, "refused")
  <2>1. PICK d : d = [calls[i] EXCEPT !.at = "done", !.answer = "refused"]
    OBVIOUS
  <2>2. d \in CallSet /\ d.op = calls[i].op /\ d.key = calls[i].key /\ d.at = "done" /\ d.answer = "refused"
        /\ d.value = calls[i].value /\ d.under = calls[i].under /\ d.limit = calls[i].limit
    BY <1>0, <2>1 DEF CallSet, Answers
  <2>3. calls' = [calls EXCEPT ![i] = d]
    BY <1>2, <2>1 DEF Answered
  <2> QED BY <1>0, <2>2, <2>3, AnsweredRead DEF Mutations, Reads
<1>3. CASE QueryReturns(i) /\ ~Answered(i, "refused")
  <2>0. PICK got \in {NativeRows(i), {}} :
           LET cut == got # NativeRows(i)
               read == IF calls[i].op = "native" THEN got ELSE got
               rows == IF calls[i].op = "native" THEN read ELSE Overlay(i, read)
               more == cut \/ HasMore(rows, calls[i].limit)
           IN  calls' = [calls EXCEPT
                   ![i].at = "done", ![i].cut = cut, ![i].more = more,
                   ![i].list = PageOf(rows, calls[i].limit),
                   ![i].answer = IF calls[i].op = "count" /\ NotWhole(more) THEN "refused" ELSE "ok"]
    BY <1>3 DEF QueryReturns, BaseRows
  <2>1. PICK cut, rows, more, answer :
           /\ cut = (got # NativeRows(i))
           /\ rows = IF calls[i].op = "native" THEN got ELSE Overlay(i, got)
           /\ more = (cut \/ HasMore(rows, calls[i].limit))
           /\ answer = IF calls[i].op = "count" /\ NotWhole(more) THEN "refused" ELSE "ok"
           /\ calls' = [calls EXCEPT
                 ![i].at = "done", ![i].cut = cut, ![i].more = more,
                 ![i].list = PageOf(rows, calls[i].limit), ![i].answer = answer]
    <3> DEFINE u == got # NativeRows(i)
               r == IF calls[i].op = "native" THEN got ELSE Overlay(i, got)
               m == u \/ HasMore(r, calls[i].limit)
    <3> WITNESS u, r, m, IF calls[i].op = "count" /\ NotWhole(m) THEN "refused" ELSE "ok"
    <3> QED BY <2>0
  <2>2. rows \subseteq Keys
    BY <2>1 DEF NativeRows, Overlay
  <2>3. /\ PageOf(rows, calls[i].limit) \in Lists /\ more \in BOOLEAN /\ cut \in BOOLEAN
        /\ answer \in Answers /\ answer # "none"
    <3>1. calls[i].limit \in {1, NoLimit}
      BY <1>0 DEF CallSet
    <3>2. PageOf(rows, calls[i].limit) \in Lists
      BY <2>2, <3>1 DEF Lists
    <3>3. HasMore(rows, calls[i].limit) \in BOOLEAN
      BY DEF HasMore
    <3>4. more \in BOOLEAN /\ cut \in BOOLEAN
      BY <2>1, <3>3
    <3>5. answer \in Answers /\ answer # "none"
      BY <2>1 DEF Answers
    <3> QED BY <3>2, <3>4, <3>5
  <2>4. PICK d : d = [calls[i] EXCEPT !.at = "done", !.cut = cut, !.more = more,
                          !.list = PageOf(rows, calls[i].limit), !.answer = answer]
    OBVIOUS
  <2>5. d \in CallSet /\ d.op = calls[i].op /\ d.key = calls[i].key /\ d.at = "done" /\ d.answer = answer
        /\ d.value = calls[i].value /\ d.under = calls[i].under /\ d.limit = calls[i].limit
        /\ d.cut = cut /\ d.more = more /\ d.list = PageOf(rows, calls[i].limit)
    BY <1>0, <2>3, <2>4 DEF CallSet
  <2>6. calls' = [calls EXCEPT ![i] = d]
    BY <2>1, <2>4
  <2>7. calls[i].at = "reading" /\ \A k \in NativeRows(i) : ~ForeignKey(calls[i].under, k)
    BY <1>3 DEF QueryReturns
  <2>8. Undisturbed(i) /\ ~cut => rows = Found(i)
    <3> SUFFICES ASSUME Undisturbed(i), got = NativeRows(i) PROVE rows = Found(i)
      BY <2>1
    <3>1. \A k \in Keys : Leads(base[k], buffered[k], Before(i, k))
                        /\ buffered[k] \in [op : Mutations \cup {"none"}, value : Contents]
      BY <1>0, QueryNow DEF DataInv, BufferInv, TypeInv
    <3>2. CASE calls[i].op = "native"
      <4>1. \A k \in Keys : Before(i, k) = base[k]
        BY <1>0, <2>7, <3>1, <3>2 DEF QueryOK, Leads
      <4>2. rows = NativeRows(i)
        BY <2>1, <3>2
      <4> QED BY <2>7, <4>1, <4>2 DEF NativeRows, InScope, ForeignKey, Found
    <3>3. CASE calls[i].op # "native"
      <4>1. rows = Overlay(i, NativeRows(i))
        BY <2>1, <3>3
      <4>2. ASSUME NEW k \in Keys PROVE k \in rows <=> k \in Found(i)
        <5>1. CASE k \in Overlaid(i)
          <6>1. Before(i, k) = BufferedRow(buffered[k])
            BY <3>1, <5>1 DEF Overlaid, Leads, BufferedRow, Mutations
          <6> QED BY <4>1, <5>1, <6>1 DEF Overlay, Overlaid, Matches, InScope, ForeignKey, Found
        <5>2. CASE k \notin Overlaid(i) /\ buffered[k].op = "none"
          <6>1. Before(i, k) = base[k]
            BY <3>1, <5>2 DEF Leads
          <6> QED BY <2>7, <4>1, <5>2, <6>1 DEF Overlay, NativeRows, InScope, ForeignKey, Found
        <5>3. CASE k \notin Overlaid(i) /\ buffered[k].op # "none"
          <6>1. ~InScope(calls[i].under, k) \/ ForeignKey(calls[i].under, k)
            BY <5>3 DEF Overlaid
          <6> QED BY <2>7, <4>1, <5>3, <6>1 DEF Overlay, NativeRows, InScope, ForeignKey, Found
        <5> QED BY <5>1, <5>2, <5>3
      <4> QED BY <2>2, <4>2 DEF Found
    <3> QED BY <3>2, <3>3
  <2>9. d.answer = "ok" /\ Undisturbed(i) =>
              /\ d.cut => d.more
              /\ ~d.cut => d.more = HasMore(Found(i), d.limit) /\ d.list = PageOf(Found(i), d.limit)
              /\ d.op = "count" => ~d.more
    <3>1. d.answer = "ok" /\ d.op = "count" => ~d.more
      BY <2>1, <2>5 DEF NotWhole
    <3>2. HasMore(rows, calls[i].limit) \in BOOLEAN
      BY DEF HasMore
    <3>3. Undisturbed(i) /\ ~d.cut =>
            d.more = HasMore(Found(i), d.limit) /\ d.list = PageOf(Found(i), d.limit)
      BY <2>1, <2>3, <2>5, <2>8, <3>2
    <3> QED BY <2>1, <2>5, <3>1, <3>3
  <2> QED BY <1>0, <2>3, <2>5, <2>6, <2>9, AnsweredRead DEF Mutations, Reads
<1> QED BY <1>1, <1>2, <1>3 DEF Begin

\* The end of an attempt touches neither the calls nor the buffer.
LEMMA EndKept ==
    ASSUME DataInv, Kept, phase' \in {"callback", "settling", "commit", "done"},
           phase' # "done" => phase # "done" /\ UNCHANGED <<applied, outcome, confirmed>>,
           AppliedOnce'
    PROVE  DataInv'
<1>1. TypeInv' /\ TurnInv' /\ CallInv' /\ SerialInv' /\ BufferInv'
  <2>1. base' = base /\ calls' = calls /\ buffered' = buffered
    BY DEF Kept
  <2>2. TypeInv' /\ TurnInv'
    BY <2>1 DEF DataInv, TypeInv, TurnInv, WaitsFor
  <2>3. CallInv' /\ SerialInv' /\ BufferInv'
    <3>1. ASSUME NEW i \in 1 .. Len(calls)
          PROVE  /\ \A k \in Keys : Before(i, k)' = Before(i, k)
                 /\ Undisturbed(i)' <=> Undisturbed(i)
                 /\ calls'[i] = calls[i]
      BY <2>1 DEF Before, Undisturbed
    <3>7. \A k \in Keys : buffered'[k] = buffered[k] /\ base'[k] = base[k]
      BY <2>1
    <3>2. ASSUME NEW i \in 1 .. Len(calls) PROVE Found(i)' = Found(i)
      <4>1. calls'[i].under = calls[i].under
        BY <3>1
      <4>2. \A k \in Keys : Before(i, k)' = Before(i, k)
        BY <3>1
      <4>3. \A k : k \in Found(i)' <=> k \in Found(i)
        BY <4>1, <4>2 DEF Found
      <4>4. Found(i)' \subseteq Keys /\ Found(i) \subseteq Keys
        BY DEF Found
      <4> QED BY <4>3
    <3>3. ASSUME NEW i \in 1 .. Len(calls) PROVE QueryOK(i)' <=> QueryOK(i)
      <4>1. /\ Found(i)' = Found(i)
            /\ Undisturbed(i)' <=> Undisturbed(i)
            /\ calls'[i] = calls[i]
        BY <3>1, <3>2
      <4> QED BY <3>7, <4>1 DEF QueryOK
    <3>4. ASSUME NEW i \in 1 .. Len(calls), CallOK(i), SerialCall(i) PROVE CallOK(i)' /\ SerialCall(i)'
      <4>1. /\ calls'[i] = calls[i] /\ buffered' = buffered /\ base' = base
            /\ Undisturbed(i)' <=> Undisturbed(i)
            /\ \A k \in Keys : Before(i, k)' = Before(i, k)
            /\ QueryOK(i)' <=> QueryOK(i)
        BY <2>1, <3>1, <3>3
      <4>2. calls[i].op \notin Reads => Before(i, calls[i].key)' = Before(i, calls[i].key)
        BY <3>4, <4>1 DEF CallOK
      <4>3. CallOK(i)'
        BY <3>4, <4>1, <4>2 DEF CallOK, Reads, Mutations
      <4>4. SerialCall(i)'
        BY <3>4, <4>1, <4>2 DEF SerialCall, Reads
      <4> QED BY <4>3, <4>4
    <3>5. \A k : Now(k)' = Now(k)
      BY <2>1 DEF Now
    <3> QED BY <2>1, <3>4, <3>5 DEF DataInv, CallInv, SerialInv, BufferInv
  <2> QED BY <2>2, <2>3
<1>2. EndInv'
  BY DEF DataInv, EndInv
<1> QED BY <1>1, <1>2 DEF DataInv

\* An attempt that begins.
Fresh == base \in [Keys -> Contents] /\ calls = <<>> /\ buffered = [k \in Keys |-> None]
Sound ==
    /\ calls \in Seq(CallSet) /\ buffered \in [Keys -> [op : Mutations \cup {"none"}, value : Contents]]
    /\ TurnInv /\ CallInv /\ SerialInv /\ BufferInv

\* A new attempt, with a snapshot of its own and an empty buffer, is sound.
LEMMA FreshInv == Fresh => Sound
<1> SUFFICES ASSUME base \in [Keys -> Contents], calls = <<>>, buffered = [k \in Keys |-> None]
             PROVE  Sound
  BY DEF Fresh
<1>1. Len(calls) = 0 /\ calls \in Seq(CallSet)
  OBVIOUS
<1>2. None \in [op : Mutations \cup {"none"}, value : Contents] /\ None.op = "none"
  BY DEF None, Contents
<1>3. TurnInv /\ CallInv /\ SerialInv
  BY <1>1 DEF TurnInv, CallInv, SerialInv
<1>4. ASSUME NEW k \in Keys PROVE Leads(base[k], buffered[k], Now(k))
  <2>1. OkSet(calls, k, 0) = {}
    BY DEF OkSet
  <2>2. Now(k) = base[k]
    BY <1>1, <2>1 DEF Now, World
  <2> QED BY <1>2, <2>2 DEF Leads
<1> QED BY <1>1, <1>2, <1>3, <1>4 DEF BufferInv, Sound

\* The callback returns, its operations are waited for, and the commit: applied,
\* refused, aborted and tried again, or left without an answer.
LEMMA EndStep ==
    ASSUME DataInv, CallbackReturns \/ Waits \/ Commit
    PROVE  DataInv'
<1>0. phase # "done" /\ applied = 0 /\ outcome = "none" /\ ~confirmed
  BY DEF DataInv, EndInv, CallbackReturns, Waits, Commit
<1>1. CASE CallbackReturns
  BY <1>0, <1>1, EndKept DEF CallbackReturns, AppliedOnce
<1>2. CASE Waits
  BY <1>0, <1>2, EndKept DEF Waits, Settles, AppliedOnce
<1>3. CASE Commit
  <2>1. CASE Again /\ UNCHANGED <<stored, applied>>
    <3>1. /\ base' \in [Keys -> Contents] /\ calls' = <<>> /\ buffered' = [k \in Keys |-> None]
          /\ phase' = "callback" /\ UNCHANGED <<applied, confirmed, outcome>>
      BY <2>1 DEF Again, FreshAttempt
    <3>2. Fresh' => Sound'
      BY FreshInv, PTL
    <3> QED BY <1>0, <3>1, <3>2 DEF DataInv, TypeInv, EndInv, AppliedOnce, Fresh, Sound
  <2>2. CASE ~(Again /\ UNCHANGED <<stored, applied>>)
    <3>1. CASE Apply /\ Settles("ok", FALSE) /\ Kept
      BY <1>0, <3>1, EndKept DEF Apply, Settles, AppliedOnce
    <3>2. CASE (Apply \/ UNCHANGED <<stored, applied>>) /\ CommitFails("lost")
      <4>1. phase' = "done" /\ outcome' = "unknown" /\ ~confirmed' /\ Kept
        BY <3>2 DEF CommitFails, Aborted, Definite, Settles
      <4>2. applied' \in {0, 1}
        BY <1>0, <3>2 DEF Apply
      <4> QED BY <4>1, <4>2, EndKept DEF AppliedOnce
    <3>3. CASE UNCHANGED <<stored, applied>> /\ CommitFails("aborted")
      <4>1. Settles("conflict", TRUE) /\ Kept /\ applied' = 0
        BY <1>0, <2>2, <3>3 DEF CommitFails, Aborted
      <4> QED BY <4>1, EndKept DEF Settles, AppliedOnce
    <3>4. CASE UNCHANGED <<stored, applied>> /\ CommitFails("definite")
      <4>1. Settles("error", TRUE) /\ Kept /\ applied' = 0
        BY <1>0, <3>4 DEF CommitFails, Aborted, Definite
      <4> QED BY <4>1, EndKept DEF Settles, AppliedOnce
    <3> QED BY <1>3, <3>1, <3>2, <3>3, <3>4 DEF Commit
  <2> QED BY <2>1, <2>2
<1> QED BY <1>1, <1>2, <1>3

\* The first attempt.
LEMMA InitStep ==
    ASSUME Init
    PROVE  DataInv
<1>1. /\ base \in [Keys -> Contents] /\ calls = <<>> /\ buffered = [k \in Keys |-> None]
      /\ phase = "callback" /\ applied = 0 /\ confirmed = FALSE /\ outcome = "none"
  BY DEF Init
<1> QED BY <1>1, FreshInv DEF Fresh, Sound, DataInv, TypeInv, EndInv, AppliedOnce

\* Every step keeps the invariant.
LEMMA NextStep ==
    ASSUME DatastoreTransactionAssumption, DataInv, [Next]_vars
    PROVE  DataInv'
<1>0. Operations \subseteq {"create", "update", "delete", "get", "query", "native", "count"}
  BY DEF DatastoreTransactionAssumption
<1>1. CASE UNCHANGED vars
  <2>1. Kept /\ UNCHANGED <<phase, applied, outcome, confirmed>>
    BY <1>1 DEF vars, Kept
  <2> QED BY <2>1, EndKept DEF DataInv, EndInv, AppliedOnce, TypeInv
<1>2. CASE \/ \E op \in Operations \ Reads, k \in Keys, value \in {0, 1} : CallEntity(op, k, value)
           \/ \E op \in Operations \cap Reads, under \in BOOLEAN, limit \in {1, NoLimit} :
                 CallQuery(op, under, limit)
  BY <1>0, <1>2, CallStep
<1>3. ASSUME NEW i \in DOMAIN calls,
             Get(i) \/ Create(i) \/ Update(i) \/ Delete(i) \/ ReadReturns(i) \/ Begin(i) \/ QueryReturns(i)
      PROVE  DataInv'
  <2>1. i \in 1 .. Len(calls)
    BY Typed DEF DataInv
  <2> QED BY <1>0, <1>3, <2>1, GetStep, MutationStep, ReadReturnsStep, QueryStep
<1>4. CASE CallbackReturns \/ Waits \/ Commit
  BY <1>4, EndStep
<1> QED BY <1>1, <1>2, <1>3, <1>4 DEF Next, Done

-----------------------------------------------------------------------------
(* Sorting. *)
\* A set of numbers that some list holds in ascending order.
Increasing(s, n) == \A i, j \in 1 .. n : i < j => s[i] < s[j]
Sortable(S) == \E s \in [1 .. Cardinality(S) -> S] : Increasing(s, Cardinality(S))

\* The least element goes in front of the others.
LEMMA OneMore ==
    ASSUME NEW S \in SUBSET Nat, IsFiniteSet(S), NEW x \in S, \A y \in S : x <= y,
           Sortable(S \ {x})
    PROVE  Sortable(S)
<1> DEFINE n == Cardinality(S)
           m == Cardinality(S \ {x})
<1>1. n \in Nat /\ m \in Nat /\ n = m + 1
  <2>1. m = n - 1 /\ IsFiniteSet(S \ {x})
    BY FS_RemoveElement
  <2>2. n \in Nat /\ m \in Nat
    BY <2>1, FS_CardinalityType
  <2> QED BY <2>1, <2>2
<1>2. PICK s \in [1 .. m -> S \ {x}] : Increasing(s, m)
  BY DEF Sortable
<1> DEFINE t == [i \in 1 .. n |-> IF i = 1 THEN x ELSE s[i - 1]]
<1> HIDE DEF n, m
<1>3. t \in [1 .. n -> S]
  <2> SUFFICES ASSUME NEW i \in 1 .. n PROVE (IF i = 1 THEN x ELSE s[i - 1]) \in S
    OBVIOUS
  <2>1. i = 1 \/ i - 1 \in 1 .. m
    BY <1>1
  <2> QED BY <2>1
<1>4. Increasing(t, n)
  <2> SUFFICES ASSUME NEW i \in 1 .. n, NEW j \in 1 .. n, i < j PROVE t[i] < t[j]
    BY DEF Increasing
  <2>1. j - 1 \in 1 .. m /\ t[j] = s[j - 1] /\ s[j - 1] \in S \ {x}
    BY <1>1
  <2>2. CASE i = 1
    <3>1. t[i] = x /\ x <= s[j - 1] /\ x # s[j - 1] /\ x \in Nat /\ s[j - 1] \in Nat
      BY <2>1, <2>2
    <3> QED BY <2>1, <3>1
  <2>3. CASE i # 1
    <3>1. i - 1 \in 1 .. m /\ t[i] = s[i - 1] /\ i - 1 < j - 1
      BY <1>1, <2>3
    <3>2. s[i - 1] < s[j - 1]
      BY <1>2, <2>1, <3>1 DEF Increasing
    <3> QED BY <2>1, <3>1, <3>2
  <2> QED BY <2>2, <2>3
<1> QED BY <1>3, <1>4 DEF Sortable, n

\* Every finite set of keys can be sorted: the smallest that could not would become
\* one by its least element.
LEMMA SortedExists ==
    ASSUME NEW U \in SUBSET Nat, IsFiniteSet(U)
    PROVE  \A S \in SUBSET U : Sortable(S)
<1> DEFINE Bad == {S \in SUBSET U : ~Sortable(S)}
           Sizes == {Cardinality(S) : S \in Bad}
<1>0. \A S \in SUBSET U : IsFiniteSet(S) /\ Cardinality(S) \in Nat
  BY FS_Subset, FS_CardinalityType
<1> SUFFICES ASSUME Bad # {} PROVE FALSE
  OBVIOUS
<1>1. Sizes \in SUBSET Nat /\ Sizes # {}
  BY <1>0
<1>2. PICK S \in Bad : \A T \in Bad : Cardinality(S) <= Cardinality(T)
  <2>1. PICK size \in Sizes : \A other \in Sizes : size <= other
    <3> HIDE DEF Sizes
    <3> QED BY <1>1, HasLeast
  <2>2. PICK S \in Bad : size = Cardinality(S)
    OBVIOUS
  <2>3. \A T \in Bad : Cardinality(T) \in Sizes
    OBVIOUS
  <2> HIDE DEF Sizes, Bad
  <2> QED BY <2>1, <2>2, <2>3
<1>3. S \in SUBSET U /\ IsFiniteSet(S) /\ ~Sortable(S)
  BY <1>0
<1>4. S # {}
  <2> SUFFICES ASSUME S = {} PROVE Sortable(S)
    BY <1>3
  <2>1. Cardinality(S) = 0
    BY FS_EmptySet
  <2>2. 1 .. 0 = {}
    OBVIOUS
  <2>3. [i \in 1 .. 0 |-> 0] \in [1 .. Cardinality(S) -> S]
    BY <2>1, <2>2
  <2> QED BY <2>1, <2>2, <2>3 DEF Sortable, Increasing
<1>5. PICK x \in S : \A y \in S : x <= y
  BY <1>3, <1>4, HasLeast
<1>6. Cardinality(S \ {x}) = Cardinality(S) - 1 /\ S \ {x} \in SUBSET U
  BY <1>3, FS_RemoveElement
<1>7. Sortable(S \ {x})
  <2>1. Cardinality(S) \in Nat /\ Cardinality(S \ {x}) \in Nat
    BY <1>0, <1>6
  <2>2. S \ {x} \notin Bad
    BY <1>2, <1>6, <2>1
  <2> QED BY <1>6, <2>2
<1> QED BY <1>3, <1>5, <1>7, OneMore

\* Ordered holds every element of the set, in ascending order.
LEMMA OrderedFacts ==
    ASSUME NEW U \in SUBSET Nat, IsFiniteSet(U), NEW S \in SUBSET U
    PROVE  /\ Cardinality(S) \in Nat /\ Len(Ordered(S)) = Cardinality(S)
           /\ Ordered(S) \in [1 .. Cardinality(S) -> S]
           /\ \A i, j \in 1 .. Cardinality(S) : i < j => Ordered(S)[i] < Ordered(S)[j]
           /\ \A k \in S : \E i \in 1 .. Cardinality(S) : Ordered(S)[i] = k
<1> DEFINE n == Cardinality(S)
           s == Ordered(S)
<1>1. n \in Nat /\ IsFiniteSet(S)
  BY FS_Subset, FS_CardinalityType
<1>2. s \in [1 .. n -> S] /\ \A i, j \in 1 .. n : i < j => s[i] < s[j]
  <2>1. \E t \in [1 .. n -> S] : \A i, j \in 1 .. n : i < j => t[i] < t[j]
    BY SortedExists DEF Sortable, Increasing
  <2> QED BY <2>1 DEF Ordered
<1> HIDE DEF n, s
<1>3. Len(s) = n
  BY <1>1, <1>2
<1>4. s \in Injection(1 .. n, S)
  <2>1. ASSUME NEW i \in 1 .. n, NEW j \in 1 .. n, s[i] = s[j] PROVE i = j
    <3>1. s[i] \in Nat /\ s[j] \in Nat
      BY <1>2
    <3> QED BY <1>1, <1>2, <2>1, <3>1
  <2> QED BY <1>2, <2>1 DEF Injection, IsInjective
<1>5. s \in Surjection(1 .. n, S)
  <2>1. Cardinality(1 .. n) = n
    BY <1>1, FS_Interval
  <2> QED BY <1>1, <1>4, <2>1, FS_Injection DEF n
<1>6. \A k \in S : \E i \in 1 .. n : s[i] = k
  BY <1>5 DEF Surjection
<1> QED BY <1>1, <1>2, <1>3, <1>6 DEF n, s

\* A page has as many elements as the limit allows, all of the set, and what it
\* leaves out is behind it.
LEMMA PageFacts ==
    ASSUME NEW U \in SUBSET Nat, IsFiniteSet(U), NEW S \in SUBSET U, NEW limit \in Nat
    PROVE  LET page == PageOf(S, limit)
           IN  /\ DOMAIN page = 1 .. Len(page)
               /\ Len(page) = IF Cardinality(S) > limit THEN limit ELSE Cardinality(S)
               /\ \A i \in 1 .. Len(page) : page[i] \in S
               /\ \A k \in S : (\A i \in 1 .. Len(page) : page[i] # k) =>
                                  \A i \in 1 .. Len(page) : page[i] < k
<1> DEFINE n == Cardinality(S)
           s == Ordered(S)
           m == IF n > limit THEN limit ELSE n
           page == PageOf(S, limit)
<1>1. /\ n \in Nat /\ Len(s) = n /\ s \in [1 .. n -> S]
      /\ \A i, j \in 1 .. n : i < j => s[i] < s[j]
      /\ \A k \in S : \E i \in 1 .. n : s[i] = k
  BY OrderedFacts
<1>2. page = SubSeq(s, 1, m)
  BY <1>1 DEF PageOf
<1>3. m \in 0 .. n
  BY <1>1
<1> HIDE DEF n, s, m, page
<1>4. s \in Seq(S)
  BY <1>1
<1>5. DOMAIN page = 1 .. Len(page) /\ Len(page) = m /\ \A i \in 1 .. m : page[i] = s[i]
  BY <1>1, <1>2, <1>3, <1>4
<1>6. \A i \in 1 .. Len(page) : page[i] \in S
  BY <1>1, <1>3, <1>5
<1>7. ASSUME NEW k \in S, \A i \in 1 .. Len(page) : page[i] # k, NEW i \in 1 .. Len(page)
      PROVE  page[i] < k
  <2>1. PICK j \in 1 .. n : s[j] = k
    BY <1>1
  <2>2. i \in 1 .. n /\ page[i] = s[i]
    BY <1>1, <1>3, <1>5
  <2>3. j > m
    BY <1>1, <1>3, <1>5, <1>7, <2>1
  <2>4. i < j
    BY <1>1, <1>3, <1>5, <2>3
  <2> QED BY <1>1, <2>1, <2>2, <2>4
<1> QED BY <1>5, <1>6, <1>7 DEF n, m, page

-----------------------------------------------------------------------------
(* The theorems. *)
\* The invariant holds in every behaviour of a Datastore transaction (datastore-
\* runtime.ts, transaction), for any entities, calls that overlap in any order, and
\* attempts.
THEOREM DataSafe == DatastoreTransactionAssumption => (Spec => []DataInv)
<1> SUFFICES ASSUME DatastoreTransactionAssumption PROVE Spec => []DataInv
  OBVIOUS
<1>1. Init => DataInv
  BY InitStep
<1>2. DataInv /\ [Next]_vars => DataInv'
  BY NextStep
<1> QED BY <1>1, <1>2, PTL DEF Spec

\* CallsAreSerial: a get in the transaction gives what the mutations called before
\* it have left, and create and update are refused exactly when that says so,
\* however the calls overlap: serializeBufferedMutation keeps those of one entity
\* in their order.
THEOREM SerialSafe == DatastoreTransactionAssumption => (Spec => []CallsAreSerial)
<1> SUFFICES ASSUME DatastoreTransactionAssumption PROVE Spec => []CallsAreSerial
  OBVIOUS
<1>1. Spec => []DataInv
  BY DataSafe
<1>2. DataInv => CallsAreSerial
  <2> SUFFICES ASSUME DataInv, NEW i \in DOMAIN calls, calls[i].at = "done",
                      calls[i].op \in {"get", "create", "update"}
               PROVE  LET content == WorldBefore(i)[calls[i].key]
                      IN  CASE calls[i].op = "get" -> Undisturbed(i) => calls[i].value = content
                            [] calls[i].op = "create" -> calls[i].answer = "conflict" <=> content # Absent
                            [] calls[i].op = "update" -> calls[i].answer = "notFound" <=> content = Absent
                            [] OTHER -> TRUE
    BY DEF CallsAreSerial
  <2>1. i \in 1 .. Len(calls) /\ i \in Nat /\ CallOK(i) /\ SerialCall(i)
    BY Typed DEF DataInv, CallInv, SerialInv
  <2>2. WorldBefore(i)[calls[i].key] = Before(i, calls[i].key)
    BY <2>1, WorldBeforeIs DEF CallOK, Reads
  <2> QED BY <2>1, <2>2 DEF SerialCall
<1> QED BY <1>1, <1>2, PTL

\* BufferIsNetEffect: the one mutation per entity in bufferedMutations does at the
\* server what the calls did one after the other, and never collides with the
\* snapshot.
THEOREM BufferSafe == DatastoreTransactionAssumption => (Spec => []BufferIsNetEffect)
<1> SUFFICES ASSUME DatastoreTransactionAssumption PROVE Spec => []BufferIsNetEffect
  OBVIOUS
<1>1. Spec => []DataInv
  BY DataSafe
<1>2. DataInv => BufferIsNetEffect
  <2> SUFFICES ASSUME DataInv, NEW k \in Keys
               PROVE  ~Collides(buffered[k], base[k]) /\ Effect(k) = WorldBefore(Len(calls) + 1)[k]
    BY DEF BufferIsNetEffect, ServerRefuses
  <2>1. /\ Len(calls) \in Nat /\ Leads(base[k], buffered[k], Now(k))
        /\ buffered[k].op \in Mutations \cup {"none"}
    BY Typed DEF DataInv, BufferInv, TypeInv
  <2>2. WorldBefore(Len(calls) + 1)[k] = Now(k)
    <3>1. Len(calls) + 1 \in Nat /\ (Len(calls) + 1) - 1 = Len(calls)
      BY <2>1
    <3>2. WorldBefore(Len(calls) + 1)[k] = Before(Len(calls) + 1, k)
      BY <3>1, WorldBeforeIs
    <3> QED BY <3>1, <3>2 DEF Before, Now
  <2> QED BY <2>1, <2>2 DEF Leads, Effect, BufferedRow, Collides, Mutations
<1> QED BY <1>1, <1>2, PTL

\* AppliedOnce: over all attempts of the transaction its writes are applied once at
\* most, once if it succeeds, and not at all if the rollback is confirmed
\* (confirmTransactionRollback): an ABORTED commit alone is tried again.
THEOREM AppliedSafe == DatastoreTransactionAssumption => (Spec => []AppliedOnce)
<1> SUFFICES ASSUME DatastoreTransactionAssumption PROVE Spec => []AppliedOnce
  OBVIOUS
<1>1. Spec => []DataInv
  BY DataSafe
<1>2. DataInv => AppliedOnce
  BY DEF DataInv, EndInv
<1> QED BY <1>1, <1>2, PTL
\* What is known of a query that was answered and after which nothing was mutated.
LEMMA QueryAnswered ==
    ASSUME DatastoreTransactionAssumption, DataInv, NEW i \in DOMAIN calls,
           calls[i].op \in Reads, calls[i].answer = "ok", Undisturbed(i)
    PROVE  /\ Expected(i) = Found(i) /\ IsFiniteSet(Keys) /\ Keys \in SUBSET Nat
           /\ calls[i] \in CallSet /\ calls[i].limit \in Nat /\ NoLimit \in Nat /\ QueryOK(i)
<1>1. i \in 1 .. Len(calls) /\ i \in Nat /\ calls[i] \in CallSet /\ CallOK(i)
  BY Typed DEF DataInv, CallInv
<1>2. IsFiniteSet(Keys) /\ Keys \in SUBSET Nat
  BY DEF DatastoreTransactionAssumption
<1>3. NoLimit \in Nat
  BY <1>2, FS_CardinalityType DEF NoLimit
<1>4. calls[i].limit \in Nat
  BY <1>1, <1>3 DEF CallSet
<1>5. \A k \in Keys : WorldBefore(i)[k] = Before(i, k)
  BY <1>1, WorldBeforeIs
<1>6. Expected(i) = Found(i)
  BY <1>5 DEF Expected, Found
<1> QED BY <1>1, <1>2, <1>3, <1>4, <1>6 DEF CallOK

\* QueriesSeeWrites: a query or a native query in the transaction, when it is not
\* cut short, gives the page of the transaction's own world: the buffer is laid
\* over the whole base result before it is sorted and cut.
THEOREM QueriesSafe == DatastoreTransactionAssumption => (Spec => []QueriesSeeWrites)
<1> SUFFICES ASSUME DatastoreTransactionAssumption PROVE Spec => []QueriesSeeWrites
  OBVIOUS
<1>1. Spec => []DataInv
  BY DataSafe
<1>2. ASSUME DataInv PROVE QueriesSeeWrites
  <2> SUFFICES ASSUME NEW i \in DOMAIN calls, calls[i].op \in {"query", "native"},
                      calls[i].answer = "ok", Undisturbed(i)
               PROVE  IF calls[i].cut THEN calls[i].more
                      ELSE /\ Range(calls[i].list) \subseteq Expected(i)
                           /\ \/ Len(calls[i].list) = Cardinality(Expected(i))
                              \/ Len(calls[i].list) = calls[i].limit
                           /\ calls[i].more <=> Cardinality(Expected(i)) > calls[i].limit
                           /\ \A k \in Expected(i) \ Range(calls[i].list) :
                                 \A l \in Range(calls[i].list) : l < k
    BY DEF QueriesSeeWrites
  <2> DEFINE list == calls[i].list
             limit == calls[i].limit
             F == Found(i)
  <2>1. /\ Expected(i) = F /\ IsFiniteSet(Keys) /\ Keys \in SUBSET Nat
        /\ calls[i] \in CallSet /\ limit \in Nat /\ QueryOK(i)
    BY <1>2, QueryAnswered DEF Reads
  <2>2. CASE calls[i].cut
    BY <2>1, <2>2 DEF QueryOK
  <2>3. CASE ~calls[i].cut
    <3>1. list = PageOf(F, limit) /\ calls[i].more = HasMore(F, limit)
      BY <2>1, <2>3 DEF QueryOK
    <3>2. F \in SUBSET Keys
      BY DEF Found
    <3>4. limit \in Nat /\ Keys \in SUBSET Nat /\ IsFiniteSet(Keys)
      BY <2>1
    <3> HIDE DEF F, limit, list
    <3>3. /\ DOMAIN list = 1 .. Len(list)
          /\ Len(list) = IF Cardinality(F) > limit THEN limit ELSE Cardinality(F)
          /\ \A j \in 1 .. Len(list) : list[j] \in F
          /\ \A k \in F : (\A j \in 1 .. Len(list) : list[j] # k) => \A j \in 1 .. Len(list) : list[j] < k
      BY <3>1, <3>2, <3>4, PageFacts
    <3>5. Range(list) = {list[j] : j \in 1 .. Len(list)}
      BY <3>3 DEF Range
    <3>6. Range(list) \subseteq F
      BY <3>3, <3>5
    <3>7. \A k \in F \ Range(list) : \A l \in Range(list) : l < k
      BY <3>3, <3>5
    <3>8. calls[i].more <=> Cardinality(F) > limit
      BY <3>1 DEF HasMore
    <3>9. Len(list) = Cardinality(F) \/ Len(list) = limit
      BY <3>3
    <3> QED BY <2>1, <2>3, <3>6, <3>7, <3>8, <3>9 DEF list, limit
  <2> QED BY <2>2, <2>3
<1> QED BY <1>1, <1>2, PTL

\* CountsAreWhole: a count that is answered counts every row of the transaction's
\* world; one of a result that was cut short is refused.
THEOREM CountsSafe == DatastoreTransactionAssumption => (Spec => []CountsAreWhole)
<1> SUFFICES ASSUME DatastoreTransactionAssumption PROVE Spec => []CountsAreWhole
  OBVIOUS
<1>1. Spec => []DataInv
  BY DataSafe
<1>2. ASSUME DataInv PROVE CountsAreWhole
  <2> SUFFICES ASSUME NEW i \in DOMAIN calls, calls[i].op = "count", calls[i].answer = "ok",
                      Undisturbed(i)
               PROVE  Len(calls[i].list) = Cardinality(Expected(i))
    BY DEF CountsAreWhole
  <2>1. /\ Expected(i) = Found(i) /\ IsFiniteSet(Keys) /\ Keys \in SUBSET Nat
        /\ calls[i] \in CallSet /\ NoLimit \in Nat /\ QueryOK(i)
    BY <1>2, QueryAnswered DEF Reads
  <2>2. calls[i].list = PageOf(Found(i), NoLimit)
    BY <2>1 DEF QueryOK
  <2>3. Found(i) \in SUBSET Keys
    BY DEF Found
  <2>4. Cardinality(Found(i)) <= NoLimit /\ Cardinality(Found(i)) \in Nat
    BY <2>1, <2>3, FS_Subset, FS_CardinalityType DEF NoLimit
  <2>5. Len(PageOf(Found(i), NoLimit)) = IF Cardinality(Found(i)) > NoLimit THEN NoLimit
                                         ELSE Cardinality(Found(i))
    BY <2>1, <2>3, PageFacts
  <2> QED BY <2>1, <2>2, <2>4, <2>5
<1> QED BY <1>1, <1>2, PTL
=============================================================================
