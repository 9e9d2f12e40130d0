------------------------ MODULE FirestoreTransaction ------------------------
(***************************************************************************)
(* A transaction of the Firestore store (firestore.ts).  The SDK wants all  *)
(* reads before the first write and runs the whole callback again when the  *)
(* commit meets contention; the adapter buffers the mutations of an attempt *)
(* so that the callback reads its own writes, queues the mutations of one   *)
(* document, and refuses to run again after an attempt that may have been   *)
(* committed.                                                              *)
(*                                                                         *)
(* The SDK and the server are modelled from what the code relies on: reads  *)
(* come back later in any order, writes are applied together by the commit  *)
(* in the order they were registered, and a commit may fail definitely,     *)
(* with ABORTED, or without telling whether it was applied.                 *)
(***************************************************************************)
EXTENDS Naturals, Sequences, FiniteSets

CONSTANTS
    Keys,          \* documents
    MaxCalls,      \* bound: calls of the callback in one attempt
    MaxAttempts    \* the SDK's attempts

FirestoreTransactionAssumption ==
    IsFiniteSet(Keys) /\ MaxCalls \in Nat /\ MaxAttempts \in Nat \ {0}

\* A document's content is named by the call that wrote it; 0 is what the store
\* held before, or that there is no document.
Mutations == {"create", "update", "delete"}

VARIABLES
    attempt, phase,    \* "callback", "settling", "commit", "again", "done"
    calls,             \* of this attempt, in order: [op, key, at, answer, value, known]
    buffered,          \* [Keys -> index of the call whose mutation is buffered, 0 none]
    registered,        \* calls whose write the SDK holds, in order
    dirty,             \* a write has been registered
    pointReads,        \* keys whose document the attempt has read
    exists,            \* [Keys -> whether the document is there at the server]
    lateRead,          \* the SDK was asked to read after a write
    wrote, created, completed, \* transactionRegisteredWrite, ...Create, transactionCallbackCompleted
    applied,           \* attempts whose writes the server has applied
    confirmed,         \* confirmTransactionRollback
    outcome            \* "none", "ok", "conflict", "error", "unknown"

vars == <<attempt, phase, calls, buffered, registered, dirty, pointReads, exists, lateRead,
          wrote, created, completed, applied, confirmed, outcome>>

FreshAttempt ==
    /\ calls' = <<>> /\ buffered' = [k \in Keys |-> 0] /\ registered' = <<>>
    /\ dirty' = FALSE /\ pointReads' = {}
    /\ wrote' = FALSE /\ created' = FALSE /\ completed' = FALSE

Init ==
    /\ attempt = 1 /\ phase = "callback" /\ calls = <<>>
    /\ buffered = [k \in Keys |-> 0] /\ registered = <<>> /\ dirty = FALSE /\ pointReads = {}
    /\ exists \in [Keys -> BOOLEAN] /\ lateRead = FALSE
    /\ wrote = FALSE /\ created = FALSE /\ completed = FALSE
    /\ applied = 0 /\ confirmed = FALSE /\ outcome = "none"

Rest == UNCHANGED <<attempt, phase, exists, applied, confirmed, outcome, completed>>

Answered(i, a) == calls' = [calls EXCEPT ![i].at = "done", ![i].answer = a]
IsOf(i, k) == calls[i].key = k
Earlier(i) == {j \in 1 .. i - 1 : IsOf(j, calls[i].key)}

\* the mutations of a document that succeeded, and the last of them the callback knows
Succeeded(k) == {j \in DOMAIN calls : IsOf(j, k) /\ calls[j].op \in Mutations /\ calls[j].answer = "ok"}
KnownOf(k) ==
    IF Succeeded(k) = {} THEN 0 ELSE CHOOSE j \in Succeeded(k) : \A l \in Succeeded(k) : l <= j

Call(op, k) ==
    /\ phase = "callback" /\ Len(calls) < MaxCalls
    /\ calls' = Append(calls, [op |-> op, key |-> k, at |-> "queued", answer |-> "none",
                               value |-> 0, known |-> KnownOf(k)])
    /\ UNCHANGED <<buffered, registered, dirty, pointReads, lateRead, wrote, created>> /\ Rest

(***************************************************************************)
(* serializeBufferedMutation, waitForBufferedMutations: a call on a         *)
(* document waits for the mutations of that document called before it.     *)
(***************************************************************************)

Turn(i) == \A j \in Earlier(i) : calls[j].op \in Mutations => calls[j].at = "done"

MayStart(i) == phase \in {"callback", "settling"} /\ calls[i].at = "queued" /\ Turn(i)

\* assertSdkReadAllowed, then transaction.get in the same step
ReadAnyway(isDirty) == TRUE
ReadAllowed(isDirty) == ~isDirty

ReadDocument(i) ==
    IF ReadAllowed(dirty)
    THEN /\ calls' = [calls EXCEPT ![i].at = "reading"]
         /\ lateRead' = (lateRead \/ dirty)
    ELSE Answered(i, "refused") /\ UNCHANGED lateRead

\* bufferedRow
BufferedRow(k) == buffered[k]

Get(i) ==
    /\ MayStart(i) /\ calls[i].op = "get"
    /\ LET k == calls[i].key IN
         IF BufferedRow(k) # 0
         THEN /\ calls' = [calls EXCEPT ![i].at = "done", ![i].answer = "ok", ![i].value = BufferedRow(k)]
              /\ UNCHANGED lateRead
         ELSE IF k \in pointReads THEN Answered(i, "ok") /\ UNCHANGED lateRead
         ELSE ReadDocument(i)
    /\ UNCHANGED <<buffered, registered, dirty, pointReads, wrote, created>> /\ Rest

\* transaction.set, create, delete: the write is registered, and buffered when
\* the SDK has taken it
Register(i) ==
    /\ registered' = Append(registered, i)
    /\ dirty' = TRUE /\ wrote' = TRUE
    /\ buffered' = [buffered EXCEPT ![calls[i].key] = i]
    /\ Answered(i, "ok") /\ UNCHANGED lateRead

Refuse(i, a) == Answered(i, a) /\ UNCHANGED <<registered, dirty, wrote, buffered, lateRead, created>>

BufferedOp(k) == IF buffered[k] = 0 THEN "none" ELSE calls[buffered[k]].op

Create(i) ==
    /\ MayStart(i) /\ calls[i].op = "create"
    /\ LET before == BufferedOp(calls[i].key) IN
         IF before \in {"create", "update"} THEN Refuse(i, "conflict")
         ELSE Register(i) /\ created' = (created \/ before = "none")
    /\ UNCHANGED pointReads /\ Rest

\* the rest of update once it is known whether the document is there
SetDocument(i, there) ==
    IF there THEN Register(i) /\ UNCHANGED created ELSE Refuse(i, "notFound")

Update(i) ==
    /\ MayStart(i) /\ calls[i].op = "update"
    /\ LET k == calls[i].key IN
         IF BufferedOp(k) # "none" THEN SetDocument(i, BufferedOp(k) # "delete")
         ELSE IF k \in pointReads THEN SetDocument(i, exists[k])
         ELSE ReadDocument(i) /\ UNCHANGED <<buffered, registered, dirty, wrote, created>>
    /\ UNCHANGED pointReads /\ Rest

Delete(i) ==
    /\ MayStart(i) /\ calls[i].op = "delete"
    /\ Register(i) /\ UNCHANGED <<created, pointReads>> /\ Rest

\* the SDK's read is back: a get is answered, an update goes on to its write
ReadReturns(i) ==
    /\ phase \in {"callback", "settling"} /\ calls[i].at = "reading"
    /\ pointReads' = pointReads \cup {calls[i].key}
    /\ IF calls[i].op = "get" THEN Refuse(i, "ok") ELSE SetDocument(i, exists[calls[i].key])
    /\ Rest

(***************************************************************************)
(* The end of an attempt, the commit, and another attempt.                 *)
(***************************************************************************)

Kept == UNCHANGED <<calls, buffered, registered, dirty, pointReads, lateRead, wrote, created, exists>>
Settles(told, sure) == phase' = "done" /\ outcome' = told /\ confirmed' = sure

CallbackReturns ==
    /\ phase = "callback" /\ phase' = "settling"
    /\ UNCHANGED <<attempt, applied, completed, confirmed, outcome>> /\ Kept

Pending == {i \in DOMAIN calls : calls[i].at # "done"}

\* waitForPendingOperations; the callback or an operation it did not attend to
\* has failed, or not
Waits ==
    /\ phase = "settling" /\ Pending = {}
    /\ \/ phase' = "commit" /\ completed' = TRUE /\ UNCHANGED <<outcome, confirmed>>
       \/ Settles("error", TRUE) /\ UNCHANGED completed
       \/ phase' = "again" /\ attempt < MaxAttempts /\ UNCHANGED <<completed, outcome, confirmed>>
    /\ UNCHANGED <<attempt, applied>> /\ Kept

WritesOf(k) == {n \in DOMAIN registered : IsOf(registered[n], k)}
Collides ==
    \E k \in Keys, n \in DOMAIN registered :
        /\ exists[k] /\ n \in WritesOf(k) /\ \A m \in WritesOf(k) : n <= m
        /\ calls[registered[n]].op = "create"
Applies == applied' = applied + (IF wrote THEN 1 ELSE 0)

\* how the SDK's error is read: by its code
Definite(how) == how # "lost"

CommitFails(how) ==
    \/ attempt < MaxAttempts /\ phase' = "again" /\ UNCHANGED <<outcome, confirmed>>
    \/ IF Definite(how) THEN Settles("error", TRUE) ELSE Settles("unknown", FALSE)

Commit ==
    /\ phase = "commit"
    /\ \/ ~Collides /\ Applies /\ Settles("ok", FALSE)
       \/ ~Collides /\ (Applies \/ UNCHANGED applied) /\ CommitFails("lost")
       \/ UNCHANGED applied /\ CommitFails("aborted")
       \/ Collides /\ created /\ UNCHANGED applied /\ Settles("conflict", TRUE)
    /\ UNCHANGED <<attempt, completed>> /\ Kept

\* the SDK runs the callback again
RunsAgain(isCompleted, hasWritten) == TRUE
MayRunAgain(isCompleted, hasWritten) == ~(isCompleted /\ hasWritten)

Again ==
    /\ phase = "again"
    /\ IF MayRunAgain(completed, wrote)
       THEN /\ phase' = "callback" /\ attempt' = attempt + 1 /\ FreshAttempt
            /\ exists' \in [Keys -> BOOLEAN] /\ UNCHANGED <<outcome, confirmed, lateRead>>
       ELSE Settles("unknown", FALSE) /\ UNCHANGED <<attempt, completed>> /\ Kept
    /\ UNCHANGED applied

Done == phase = "done" /\ UNCHANGED vars

Next ==
    \/ \E op \in Mutations \cup {"get"}, k \in Keys : Call(op, k)
    \/ \E i \in DOMAIN calls : Get(i) \/ Create(i) \/ Update(i) \/ Delete(i) \/ ReadReturns(i)
    \/ CallbackReturns \/ Waits \/ Commit \/ Again \/ Done

Spec == Init /\ [][Next]_vars

(***************************************************************************)
(* Properties.                                                             *)
(***************************************************************************)

\* However the callback overlaps its calls, the SDK is not asked to read after
\* it has taken a write.
ReadsBeforeWrites == ~lateRead

\* Of the mutations of a document the one called last is what is committed, however
\* long the one before it took to read.
LastCallWins ==
    Pending = {} => \A k \in Keys : Succeeded(k) # {} =>
        \E n \in WritesOf(k) :
            /\ \A m \in WritesOf(k) : m <= n
            /\ registered[n] \in Succeeded(k) /\ \A i \in Succeeded(k) : i <= registered[n]

\* A read in the transaction sees every mutation of the document whose success
\* the callback knew when it called the read, or a later one.
ReadsYourWrites ==
    \A i \in DOMAIN calls : calls[i].op = "get" /\ calls[i].answer = "ok" => calls[i].value >= calls[i].known

\* Over all attempts of the SDK the writes of the callback are applied once at
\* most, once if the transaction succeeds, and not at all if it is confirmed to
\* have been rolled back.
AppliedOnce ==
    /\ applied <= 1
    /\ outcome = "ok" /\ wrote => applied = 1
    /\ confirmed => applied = 0
=============================================================================
