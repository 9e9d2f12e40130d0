---------------------------- MODULE DatastoreBulk ----------------------------
(***************************************************************************)
(* Bulk mutations of the Datastore store (datastore-runtime.ts, bulk):     *)
(* upsertMany and deleteMany in batches that respect chunkSize and the      *)
(* request budget, or as one transaction.  A batch that fails may have been *)
(* applied in part; the error tells which entries are confirmed, which are  *)
(* unknown and which were never tried, and the application resumes from it. *)
(***************************************************************************)
EXTENDS Integers, Sequences, FiniteSets, FiniteSetsExt

CONSTANTS
    Keys,        \* Datastore keys the entries resolve to
    Lists,       \* the sequences of [key, bytes] passed
    Sizes,       \* chunkSize, NoChunk for none
    Overhead,    \* DATASTORE_BULK_REQUEST_OVERHEAD_BYTES
    Budget,      \* DATASTORE_SAFE_BULK_REQUEST_BYTES
    EntityLimit, \* DATASTORE_MAX_ENTITY_BYTES
    MaxResumes   \* bound: calls after the first

NoChunk == 99

DatastoreBulkAssumption ==
    /\ Sizes \subseteq Nat \ {0} /\ Overhead \in Nat /\ Budget \in Nat /\ EntityLimit \in Nat /\ MaxResumes \in Nat
    /\ \A list \in Lists : \A i \in DOMAIN list : list[i].key \in Keys /\ list[i].bytes \in Nat \ {0}

VARIABLES
    entries,   \* of the first call
    operation, \* "upsertMany", "deleteMany"
    atomic, chunkSize,
    stored,    \* [Keys -> BOOLEAN], whether the mutation has been applied
    first,     \* entries before it were confirmed by earlier calls
    offset,    \* entries of this call before it have been put into batches
    batch,     \* the indices of the request under way
    phase,     \* "ask", "batching", "request", "done"
    outcome,   \* "none", "ok", "refused", "failed", "conflict", "rejected", "unknown"
    completed, failedEnd,   \* completedRange and failedRange of the error
    resumes

vars == <<entries, operation, atomic, chunkSize, stored, first, offset, batch, phase,
          outcome, completed, failedEnd, resumes>>

Init ==
    /\ entries \in Lists /\ operation \in {"upsertMany", "deleteMany"}
    /\ atomic \in BOOLEAN /\ chunkSize \in (IF atomic THEN {NoChunk} ELSE Sizes \cup {NoChunk})
    /\ stored = [k \in Keys |-> FALSE] /\ first = 0 /\ offset = 0 /\ batch = {} /\ phase = "ask"
    /\ outcome = "none" /\ completed = 0 /\ failedEnd = 0 /\ resumes = 0

Input == UNCHANGED <<entries, operation, atomic, chunkSize>>
Untold == UNCHANGED <<outcome, completed, failedEnd>>
Tell(what) == phase' = "done" /\ outcome' = what /\ UNCHANGED <<completed, failedEnd>>

Bytes(indices) ==
    LET sum[i \in 0 .. Len(entries)] ==
            IF i = 0 THEN Overhead ELSE sum[i - 1] + (IF i \in indices THEN entries[i].bytes ELSE 0)
    IN  sum[Len(entries)]

\* The entries of this call: all, or what an earlier call left.
Indices == first + 1 .. Len(entries)

\* Two entries of one Datastore key are refused before the first request.
Repeats == \E i, j \in Indices : i # j /\ entries[i].key = entries[j].key

TooLarge ==
    IF atomic THEN Bytes(Indices) > Budget
    ELSE \E i \in Indices : Bytes({i}) > Budget

Ask(mutation, refused) ==
    /\ phase = "ask" /\ operation = mutation /\ offset' = first /\ batch' = {}
    /\ IF refused \/ TooLarge THEN Tell("refused")
       ELSE IF Indices = {} THEN Tell("ok")
       ELSE phase' = "batching" /\ Untold
    /\ UNCHANGED <<stored, first, resumes>> /\ Input

UpsertMany == Ask("upsertMany", Repeats \/ \E i \in Indices : entries[i].bytes > EntityLimit)
DeleteMany == Ask("deleteMany", Repeats)

\* The inner loop: entries are added while the batch is below chunkSize and within
\* the budget; the first of a batch always goes in.
Fits(taken, next) == taken = {} \/ Bytes(taken \cup {next}) <= Budget

Batching ==
    /\ phase = "batching" /\ ~atomic
    /\ LET fits(end) ==
               /\ end - offset <= chunkSize
               /\ \A i \in offset + 1 .. end : Fits(offset + 1 .. i - 1, i)
           end == CHOOSE e \in offset + 1 .. Len(entries) :
                      fits(e) /\ \A larger \in e + 1 .. Len(entries) : ~fits(larger)
       IN  batch' = offset + 1 .. end /\ offset' = end
    /\ phase' = "request"
    /\ UNCHANGED <<stored, first, resumes>> /\ Untold /\ Input

OneTransaction ==
    /\ phase = "batching" /\ atomic
    /\ batch' = Indices /\ offset' = Len(entries) /\ phase' = "request"
    /\ UNCHANGED <<stored, first, resumes>> /\ Untold /\ Input

Applied(indices) ==
    [k \in Keys |-> stored[k] \/ \E i \in indices : entries[i].key = k]

\* A request without a transaction: applied, or failed and applied in any part.
BatchAnswered ==
    /\ phase = "request" /\ ~atomic /\ stored' = Applied(batch)
    /\ IF offset < Len(entries) THEN phase' = "batching" /\ Untold ELSE Tell("ok")
    /\ UNCHANGED <<first, offset, batch, resumes>> /\ Input

\* DatastoreBulkMutationError(operation, items.length, batchStartIndex, offset)
EndOfBatch == offset
BatchStart == Min(batch) - 1

BatchFails ==
    /\ phase = "request" /\ ~atomic
    /\ \E part \in SUBSET batch : stored' = Applied(part)
    /\ phase' = "done" /\ outcome' = "failed" /\ completed' = BatchStart /\ failedEnd' = offset
    /\ UNCHANGED <<first, offset, batch, resumes>> /\ Input

\* The transaction: committed, aborted, definitely refused, rolled back after a
\* failure before the commit, or without an answer.
Unanswered == "unknown"
Commit ==
    /\ phase = "request" /\ atomic
    /\ \/ stored' = Applied(batch) /\ Tell("ok")
       \/ stored' = stored /\ Tell("conflict")
       \/ stored' = stored /\ Tell("rejected")
       \/ stored' \in {stored, Applied(batch)} /\ Tell(Unanswered)
    /\ UNCHANGED <<first, offset, batch, resumes>> /\ Input

\* The application calls again with the entries that are not confirmed; an atomic
\* call confirms none.
Unconfirmed == completed
Resume ==
    /\ phase = "done" /\ outcome \in {"failed", "conflict", "unknown"} /\ resumes < MaxResumes
    /\ resumes' = resumes + 1 /\ phase' = "ask" /\ outcome' = "none"
    /\ first' = Unconfirmed
    /\ UNCHANGED <<stored, offset, batch, completed, failedEnd>> /\ Input

Done == phase = "done" /\ UNCHANGED vars

Next ==
    \/ UpsertMany \/ DeleteMany \/ Batching \/ OneTransaction \/ BatchAnswered \/ BatchFails \/ Commit \/ Resume \/ Done

Spec == Init /\ [][Next]_vars

(***************************************************************************)
(* Properties.                                                             *)
(***************************************************************************)

Is(i) == stored[entries[i].key]

\* The error's ranges are true: every entry of the completed range has been
\* applied, and none of the range that was not attempted in any call.
RangesTrue ==
    outcome = "failed" =>
        /\ \A i \in 1 .. completed : Is(i)
        /\ resumes = 0 => \A i \in failedEnd + 1 .. Len(entries) : ~Is(i)

\* No request is over the budget or over chunkSize, or names a key twice, which
\* Datastore would refuse as a whole.
RequestsFit ==
    phase = "request" =>
        /\ Cardinality(batch) <= chunkSize
        /\ Bytes(batch) <= Budget
        /\ \A i, j \in batch : entries[i].key = entries[j].key => i = j

\* A call that is told to have succeeded leaves no entry of the first call out,
\* however often it was resumed from an error.
NothingLeftOut == outcome = "ok" => \A i \in DOMAIN entries : Is(i)

\* An atomic call applies all entries or none, and none when it says so.
AllOrNothing ==
    (atomic /\ phase = "done" /\ resumes = 0) =>
        /\ (\A i \in DOMAIN entries : Is(i)) \/ (\A i \in DOMAIN entries : ~Is(i))
        /\ outcome \in {"conflict", "rejected", "refused"} => \A i \in DOMAIN entries : ~Is(i)
=============================================================================
