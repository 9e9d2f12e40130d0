------------------------------ MODULE RowWrites ------------------------------
(***************************************************************************)
(* create, update and delete of one row in the stores that talk to a        *)
(* server, while other clients write the same row.  The version guard is    *)
(* part of the write; what the write tells is only a count, and the reason  *)
(* for a zero is found out afterwards:                                     *)
(*   MongoDB, PostgreSQL   by a second request, when another writer may     *)
(*                         have been there in between;                     *)
(*   SQLite                in the same synchronous step;                   *)
(*   Firestore             has no version guard; update reads and replaces  *)
(*                         the document in a transaction of the SDK, which  *)
(*                         runs again when the document has changed.        *)
(***************************************************************************)
EXTENDS Naturals, FiniteSets

CONSTANTS
    Clients,     \* each makes one call
    Adapter,     \* "mongodb", "postgresql", "sqlite" or "firestore"
    MaxVersion   \* bound of the version field

RowWritesAssumption ==
    /\ IsFiniteSet(Clients) /\ MaxVersion \in Nat
    /\ Adapter \in {"mongodb", "postgresql", "sqlite", "firestore"}

Versions == 0 .. MaxVersion
None == MaxVersion + 1          \* no expectedVersion
Absent == [there |-> FALSE, version |-> 0]
Row(v) == [there |-> TRUE, version |-> v]

VARIABLES
    row,     \* the row at the server
    life,    \* how often it has been created
    call,    \* [op, expected, at, read, answer] of each client
    seen,    \* what the row was during the call
    born     \* the life in which a guarded write of the client succeeded

vars == <<row, life, call, seen, born>>

Guarded == Adapter # "firestore"
Ops == [op : {"create", "update", "delete"}, expected : Versions \cup {None}]
IsLegal(o) == o.expected # None => o.op # "create" /\ Guarded

Idle == [op |-> "none", expected |-> None, at |-> "idle", read |-> Absent, answer |-> "none"]

Init ==
    /\ row \in {Absent, Row(0)} /\ life = IF row.there THEN 1 ELSE 0
    /\ call = [c \in Clients |-> Idle]
    /\ seen = [c \in Clients |-> {}] /\ born = [c \in Clients |-> 0]

Active(c) == call[c].at \notin {"idle", "done"}
Becomes(r) ==
    /\ row' = r
    /\ seen' = [c \in Clients |-> IF Active(c) THEN seen[c] \cup {r} ELSE seen[c]]
Answered(c, a) == call' = [call EXCEPT ![c].at = "done", ![c].answer = a]
Goes(c, at) == call' = [call EXCEPT ![c].at = at]

Begin(c) ==
    /\ call[c].at = "idle"
    /\ \E o \in Ops :
         /\ IsLegal(o)
         /\ call' = [call EXCEPT ![c].op = o.op, ![c].expected = o.expected, ![c].at = "write"]
    /\ seen' = [seen EXCEPT ![c] = {row}]
    /\ UNCHANGED <<row, life, born>>

(***************************************************************************)
(* create: the server's primary key refuses a second row.                  *)
(***************************************************************************)

DuplicateIsConflict == "conflict"

Create(c) ==
    /\ call[c].at = "write" /\ call[c].op = "create"
    /\ IF row.there
       THEN Answered(c, DuplicateIsConflict) /\ UNCHANGED <<row, seen, life>>
       ELSE Becomes(Row(0)) /\ life' = life + 1 /\ Answered(c, "ok")
    /\ UNCHANGED born

(***************************************************************************)
(* update and delete of MongoDB, PostgreSQL and SQLite.                     *)
(***************************************************************************)

\* the filter of the write: the id, and the version when one is expected
Matches(c) == row.there /\ (call[c].expected # None => row.version = call[c].expected)

\* the row after c's write
Next1(v) == IF v < MaxVersion THEN v + 1 ELSE v
Result(c) ==
    IF call[c].op = "delete" THEN Absent
    ELSE Row(Next1(IF call[c].expected = None THEN row.version ELSE call[c].expected))

NeverThere(c, there) == "notFound"
Reason(c, there) == IF there THEN "conflict" ELSE "notFound"

\* nothing matched: without a version the row is missing, which a delete does
\* not mind; with one the row's existence decides
Zero(c) ==
    IF call[c].expected = None
    THEN Answered(c, IF call[c].op = "delete" THEN "ok" ELSE "notFound")
    ELSE IF Adapter = "sqlite" THEN Answered(c, Reason(c, row.there))
    ELSE Goes(c, "exists")

Write(c) ==
    /\ Guarded /\ call[c].at = "write" /\ call[c].op # "create"
    /\ IF Matches(c)
       THEN /\ Becomes(Result(c)) /\ Answered(c, "ok")
            /\ born' = [born EXCEPT ![c] = IF call[c].expected = None THEN 0 ELSE life]
       ELSE Zero(c) /\ UNCHANGED <<row, seen, born>>
    /\ UNCHANGED life

\* documentExists, postgresRowExists
Exists(c) ==
    /\ call[c].at = "exists"
    /\ Answered(c, Reason(c, row.there))
    /\ UNCHANGED <<row, life, seen, born>>

(***************************************************************************)
(* Firestore.                                                              *)
(***************************************************************************)

FirestoreDelete(c) ==
    /\ ~Guarded /\ call[c].at = "write" /\ call[c].op = "delete"
    /\ Becomes(Absent) /\ Answered(c, "ok") /\ UNCHANGED <<life, born>>

\* replaceFirestoreDocument: get in the transaction ...
FirestoreGet(c) ==
    /\ ~Guarded /\ call[c].at = "write" /\ call[c].op = "update"
    /\ IF row.there
       THEN call' = [call EXCEPT ![c].at = "commit", ![c].read = row]
       ELSE Answered(c, "notFound")
    /\ UNCHANGED <<row, life, seen, born>>

\* ... and set, committed if the document is the one that was read
SetAnyway(c) == TRUE
SetInTransaction(c) == row = call[c].read

FirestoreSet(c) ==
    /\ call[c].at = "commit"
    /\ IF SetInTransaction(c)
       THEN Becomes(Result(c)) /\ Answered(c, "ok")
       ELSE Goes(c, "write") /\ UNCHANGED <<row, seen>>
    /\ UNCHANGED <<life, born>>

Done == (\A c \in Clients : call[c].at = "done") /\ UNCHANGED vars

Next ==
    \/ \E c \in Clients :
         Begin(c) \/ Create(c) \/ Write(c) \/ Exists(c)
         \/ FirestoreDelete(c) \/ FirestoreGet(c) \/ FirestoreSet(c)
    \/ Done

Spec == Init /\ [][Next]_vars

(***************************************************************************)
(* Properties.                                                             *)
(***************************************************************************)

\* What a caller is told was so at some moment of its call, whoever else wrote
\* the row meanwhile: "not found" that there was no row, "conflict" that there
\* was one for a create, and for a guarded write that the row was not at the
\* version it expected.  (The row may be at that version when the answer comes:
\* it was created again between the write and the look.)
AnswersWereTrue ==
    \A c \in Clients :
        /\ call[c].answer = "notFound" => Absent \in seen[c]
        /\ call[c].answer = "conflict" =>
              IF call[c].op = "create" THEN \E r \in seen[c] : r.there
              ELSE \E r \in seen[c] : ~r.there \/ r.version # call[c].expected

\* Of two writers that guard with the same version of one row, one succeeds at
\* most, and it is told so: an update is never lost to another that was based
\* on the same reading.
FirstGuardedWriterWins ==
    \A c, d \in Clients :
        c # d /\ call[c].answer = "ok" /\ call[d].answer = "ok"
        /\ call[c].expected = call[d].expected /\ call[c].expected < MaxVersion
        /\ born[c] = born[d] => born[c] = 0

\* Only a create brings a deleted row back: an update that found the row does
\* not write it again after another client's delete.
UpdateNeverRevives == ~row.there /\ row'.there => life' = life + 1
=============================================================================
