------------------------ MODULE PostgresTransaction ------------------------
(***************************************************************************)
(* A transaction of the PostgreSQL store (postgresql.ts): one client of the *)
(* pool, statements in nested statement scopes, savepoints, commit,         *)
(* rollback and the return of the client to the pool.                       *)
(*                                                                         *)
(* The server is modelled from what the code sends it: a statement that     *)
(* fails there aborts the transaction until a savepoint is rolled back to;  *)
(* COMMIT of an aborted transaction answers ROLLBACK.  A query may also     *)
(* fail on the client's side, its effect made or not, and the connection    *)
(* may break, which ends the server's session.                              *)
(***************************************************************************)
EXTENDS Naturals, Sequences, FiniteSets, SequencesExt

CONSTANTS
    Writes,          \* statements of the callback, each a write of its own
    MaxSavepoints    \* bound: savepoints the callback opens

ASSUME PostgresTransactionAssumption == IsFiniteSet(Writes) /\ MaxSavepoints \in Nat

VARIABLES
    phase,      \* "connect", "callback", "commit", "rollback", "release", "done"
    scopes,     \* statement scopes, the root first: [name, failed, wrote]
    step,       \* what the innermost savepoint does: "open", "releasing", "recovering", "dropping"
    sequence,   \* savepointSequence
    session,    \* the server: [tx, aborted, stack], stack of [name, staged]
    link,       \* whether the connection is up
    used,       \* writes issued
    db,         \* writes committed
    commitDispatched, rollbackConfirmed, discardClient,
    outcome,    \* what the caller is told: "none", "ok", "committedError", "error",
                \* "unknownCommit", "unknownAbort"
    pooled      \* how the client was released: "no", "clean", "discarded"

vars == <<phase, scopes, step, sequence, session, link, used, db,
          commitDispatched, rollbackConfirmed, discardClient, outcome, pooled>>

Scope(name) == [name |-> name, failed |-> FALSE, wrote |-> {}]
Level(name) == [name |-> name, staged |-> {}]
Idle == [tx |-> FALSE, aborted |-> FALSE, stack |-> <<>>]
Open == [tx |-> TRUE, aborted |-> FALSE, stack |-> <<Level(0)>>]
Inner == Last(scopes)
Names == {session.stack[i].name : i \in DOMAIN session.stack}

Init ==
    /\ phase = "connect" /\ scopes = <<Scope(0)>> /\ step = "open" /\ sequence = 0
    /\ session = Idle /\ link = TRUE /\ used = {} /\ db = {}
    /\ commitDispatched = FALSE /\ rollbackConfirmed = FALSE /\ discardClient = FALSE
    /\ outcome = "none" /\ pooled = "no"

(***************************************************************************)
(* The server's side of a query.  Query(after, ok) sends a query that would *)
(* leave the session as "after" when the server accepts it; the query       *)
(* resolves (answer "ok") or rejects (answer "error").                      *)
(***************************************************************************)

Query(accepted, after, answer) ==
    \/ \* executed and answered
       /\ link /\ accepted /\ answer = "ok"
       /\ session' = after /\ UNCHANGED link
    \/ \* refused by the server: the transaction is aborted
       /\ link /\ answer = "error"
       /\ session' = [session EXCEPT !.aborted = session.tx] /\ UNCHANGED link
    \/ \* failed on the client's side, executed or not
       /\ link /\ answer = "error"
       /\ session' \in {session} \cup (IF accepted THEN {after} ELSE {}) /\ UNCHANGED link
    \/ \* the connection is or goes down: the server drops the session
       /\ answer = "error" /\ link' = FALSE /\ session' = Idle

Usable == session.tx /\ ~session.aborted
With(level, writes) == [level EXCEPT !.staged = @ \cup writes]
Stage(w) == [session EXCEPT !.stack = Append(Front(@), With(Last(@), {w}))]

\* the levels up to a savepoint, without what was staged since
RolledTo(name) ==
    LET at == CHOOSE i \in DOMAIN session.stack : session.stack[i].name = name
    IN  [session EXCEPT !.aborted = FALSE, !.stack = Append(SubSeq(@, 1, at - 1), Level(name))]

\* a released savepoint's writes belong to the level around it
Released(name) ==
    LET at == CHOOSE i \in DOMAIN session.stack : session.stack[i].name = name
        inside == UNION {session.stack[i].staged : i \in at .. Len(session.stack)}
    IN  [session EXCEPT !.stack = Append(SubSeq(@, 1, at - 2), With(@[at - 1], inside))]

Staged == UNION {session.stack[i].staged : i \in DOMAIN session.stack}

(***************************************************************************)
(* begin and the statements.                                               *)
(***************************************************************************)

Quiet == UNCHANGED <<commitDispatched, rollbackConfirmed, discardClient, outcome, pooled>>

Begin ==
    /\ phase = "connect"
    /\ \E answer \in {"ok", "error"} :
         /\ Query(TRUE, Open, answer)
         /\ phase' = IF answer = "ok" THEN "callback" ELSE "rollback"
    /\ UNCHANGED <<scopes, step, sequence, used, db>> /\ Quiet

\* markStatementFailure
MarkFailed(list) == [list EXCEPT ![Len(list)].failed = TRUE]

\* executeTransactionQuery: a statement that rejects marks its scope
Statement(w) ==
    /\ phase = "callback" /\ step = "open" /\ w \notin used
    /\ used' = used \cup {w}
    /\ \E answer \in {"ok", "error"} :
         /\ Query(Usable, IF Usable THEN Stage(w) ELSE session, answer)
         /\ scopes' = IF answer = "ok" THEN [scopes EXCEPT ![Len(scopes)].wrote = @ \cup {w}]
                      ELSE MarkFailed(scopes)
    /\ UNCHANGED <<phase, step, sequence, db>> /\ Quiet

(***************************************************************************)
(* savepoint                                                               *)
(***************************************************************************)

\* savepoint <name>; when that fails, the scope around it is marked
SavepointOpen ==
    /\ phase = "callback" /\ step = "open" /\ sequence < MaxSavepoints
    /\ sequence' = sequence + 1
    /\ \E answer \in {"ok", "error"} :
         /\ Query(Usable, [session EXCEPT !.stack = Append(@, Level(sequence + 1))], answer)
         /\ scopes' = IF answer = "ok" THEN Append(scopes, Scope(sequence + 1)) ELSE MarkFailed(scopes)
    /\ UNCHANGED <<phase, step, used, db>> /\ Quiet

\* the savepoint's callback returns or throws
EvenIfFailed(scope) == TRUE
MayRelease(scope) == ~scope.failed

SavepointReturns ==
    /\ phase = "callback" /\ step = "open" /\ Len(scopes) > 1
    /\ step' \in {IF MayRelease(Inner) THEN "releasing" ELSE "recovering", "recovering"}
    /\ UNCHANGED <<phase, scopes, sequence, session, link, used, db>> /\ Quiet

Joined == Append(SubSeq(scopes, 1, Len(scopes) - 2),
                 [scopes[Len(scopes) - 1] EXCEPT !.wrote = @ \cup Inner.wrote])

\* release savepoint <name>
Release ==
    /\ phase = "callback" /\ step = "releasing"
    /\ \E answer \in {"ok", "error"} :
         /\ Query(Usable /\ Inner.name \in Names,
                  IF Inner.name \in Names THEN Released(Inner.name) ELSE session, answer)
         /\ step' = IF answer = "ok" THEN "open" ELSE "recovering"
         /\ scopes' = IF answer = "ok" THEN Joined ELSE scopes
    /\ UNCHANGED <<phase, sequence, used, db>> /\ Quiet

\* rollback to savepoint <name>, release savepoint <name>; a recovery that
\* fails leaves the scope around it unusable
Recover ==
    /\ phase = "callback" /\ step = "recovering"
    /\ \E answer \in {"ok", "error"} :
         /\ Query(session.tx /\ Inner.name \in Names,
                  IF Inner.name \in Names THEN RolledTo(Inner.name) ELSE session, answer)
         /\ step' = IF answer = "ok" THEN "dropping" ELSE "open"
         /\ scopes' = IF answer = "ok" THEN scopes ELSE MarkFailed(Front(scopes))
    /\ UNCHANGED <<phase, sequence, used, db>> /\ Quiet

Drop ==
    /\ phase = "callback" /\ step = "dropping"
    /\ \E answer \in {"ok", "error"} :
         /\ Query(Usable /\ Inner.name \in Names,
                  IF Inner.name \in Names THEN Released(Inner.name) ELSE session, answer)
         /\ scopes' = IF answer = "ok" THEN Front(scopes) ELSE MarkFailed(Front(scopes))
    /\ step' = "open"
    /\ UNCHANGED <<phase, sequence, used, db>> /\ Quiet

(***************************************************************************)
(* commit, rollback, release of the client                                 *)
(***************************************************************************)

CallbackReturns ==
    /\ phase = "callback" /\ step = "open" /\ Len(scopes) = 1
    /\ phase' \in {IF MayRelease(Inner) THEN "commit" ELSE "rollback", "rollback"}
    /\ UNCHANGED <<scopes, step, sequence, session, link, used, db>> /\ Quiet

\* the server's COMMIT, and what of it the client learns
Commit ==
    /\ phase = "commit" /\ commitDispatched' = TRUE
    /\ \/ /\ link /\ session' = Idle /\ UNCHANGED link
          /\ db' = IF Usable THEN Staged ELSE db
          /\ \/ /\ rollbackConfirmed' = ~Usable
                /\ phase' = IF Usable THEN "release" ELSE "rollback"
                /\ outcome' = IF Usable THEN "ok" ELSE outcome
             \/ \* the answer is lost or cannot be read
                UNCHANGED <<rollbackConfirmed, outcome>> /\ phase' = "rollback"
       \/ /\ link' = FALSE /\ session' = Idle /\ phase' = "rollback"
          /\ db' \in {db} \cup (IF link /\ Usable THEN {Staged} ELSE {})
          /\ UNCHANGED <<rollbackConfirmed, outcome>>
    /\ UNCHANGED <<scopes, step, sequence, used, discardClient, pooled>>

ReadAsFailed(dispatched, confirmed) == TRUE
NotCommitted(dispatched, confirmed) == ~dispatched \/ confirmed

\* the catch block: an unconfirmed commit is reported as unknown and nothing is
\* rolled back; otherwise rollback, and a rollback that fails is unknown too
Failed ==
    /\ phase = "rollback" /\ phase' = "release"
    /\ IF ~NotCommitted(commitDispatched, rollbackConfirmed)
       THEN /\ outcome' = "unknownCommit" /\ discardClient' = TRUE
            /\ UNCHANGED <<session, link>>
       ELSE \E answer \in {"ok", "error"} :
              /\ Query(TRUE, Idle, answer)
              /\ outcome' = IF answer = "ok" THEN "error" ELSE "unknownAbort"
              /\ discardClient' = (answer = "error")
    /\ UNCHANGED <<scopes, step, sequence, used, db, commitDispatched, rollbackConfirmed, pooled>>

Pooled(discard) == "clean"
ReleaseAs(discard) == IF discard THEN "discarded" ELSE "clean"

\* client.release: a release that throws after the commit says so
ReleaseClient ==
    /\ phase = "release" /\ phase' = "done"
    /\ pooled' = ReleaseAs(discardClient)
    /\ outcome' \in {outcome} \cup (IF outcome = "ok" THEN {"committedError"} ELSE {})
    /\ UNCHANGED <<scopes, step, sequence, session, link, used, db,
                   commitDispatched, rollbackConfirmed, discardClient>>

Done == phase = "done" /\ UNCHANGED vars

Next ==
    \/ Begin \/ SavepointOpen \/ SavepointReturns \/ Release \/ Recover \/ Drop
    \/ CallbackReturns \/ Commit \/ Failed \/ ReleaseClient \/ Done
    \/ \E w \in Writes : Statement(w)

Spec == Init /\ [][Next]_vars

(***************************************************************************)
(* Properties.                                                             *)
(***************************************************************************)

\* A transaction that reports success, or that it committed and only the
\* client's release failed, has committed exactly the writes the callback saw
\* succeed outside savepoints that were rolled back: no write of a statement
\* that rejected, none of a savepoint that failed, and none is missing.
CommitIsWhatCallbackSaw ==
    outcome \in {"ok", "committedError"} => db = scopes[1].wrote

\* A transaction that fails with its own error left nothing behind; anything
\* else is reported as an unknown outcome.
ErrorMeansNothingCommitted == outcome = "error" => db = {}

\* A client goes back to the pool for reuse only without a transaction on it.
PoolStaysClean == pooled = "clean" => ~session.tx
=============================================================================
