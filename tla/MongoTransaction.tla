-------------------------- MODULE MongoTransaction --------------------------
(***************************************************************************)
(* A transaction of the MongoDB store (mongodb.ts): one client session, the *)
(* callback's operations queued one behind the other on it, the adapter     *)
(* closed when the callback settles, commit or abort, and the end of the    *)
(* session.                                                                *)
(*                                                                         *)
(* The server and the driver are modelled from what the code relies on: a   *)
(* command the server refuses aborts the transaction there; a command may   *)
(* fail on the way with its effect made or not; a commit whose error does   *)
(* not carry the label UnknownTransactionCommitResult has not happened; a   *)
(* command sent on a session whose transaction is over runs on its own.     *)
(***************************************************************************)
EXTENDS Naturals, Sequences, FiniteSets, SequencesExt

CONSTANTS Writes    \* the writes the callback may call

MongoTransactionAssumption == IsFiniteSet(Writes)

VARIABLES
    phase,      \* "start", "callback", "settling", "abort", "commit", "end", "done"
    closed,     \* the guard of the transaction's adapter
    failure,    \* the callback threw, or an operation nobody attended to failed
    call,       \* [Writes -> "none", "refused", "queued", "sent", "ok", "failed"]
    attended,   \* calls whose promise the callback observes
    tail,       \* operationTail: calls that wait for their turn on the session
    session,    \* the server's transaction: "none", "open", "aborted", "over"
    staged,     \* writes made in it
    db,         \* writes visible outside
    lost,       \* writes made in a transaction that was then aborted
    commitDispatched,
    confirmed,  \* confirmTransactionRollback
    outcome     \* "none", "ok", "committedError", "conflict", "error", "unknownCommit", "unknownAbort"

vars == <<phase, closed, failure, call, attended, tail, session, staged, db, lost,
          commitDispatched, confirmed, outcome>>

Calls(states) == {w \in Writes : call[w] \in states}

Init ==
    /\ phase = "start" /\ closed = FALSE /\ failure = FALSE
    /\ call = [w \in Writes |-> "none"] /\ attended = {} /\ tail = <<>>
    /\ session = "none" /\ staged = {} /\ db = {} /\ lost = {}
    /\ commitDispatched = FALSE /\ confirmed = FALSE /\ outcome = "none"

(***************************************************************************)
(* startSession and startTransaction.                                      *)
(***************************************************************************)

Start ==
    /\ phase = "start"
    /\ \/ phase' = "callback" /\ session' = "open" /\ UNCHANGED outcome
       \/ phase' = "end" /\ outcome' = "error" /\ UNCHANGED session
    /\ UNCHANGED <<closed, failure, call, attended, tail, staged, db, lost, commitDispatched, confirmed>>

(***************************************************************************)
(* Operations of the transaction's adapter.                                *)
(***************************************************************************)

\* state.run: an operation starts when the one before it has settled
Parallel(queue, sent) == DOMAIN queue
HeadWhenIdle(queue, sent) == IF sent = {} /\ queue # <<>> THEN {1} ELSE {}

\* a call, by the callback or by work it left running
Call(w) ==
    /\ phase \in {"callback", "settling", "commit", "abort", "end", "done"} /\ call[w] = "none"
    /\ session # "none"
    /\ IF closed
       THEN call' = [call EXCEPT ![w] = "refused"] /\ UNCHANGED <<attended, tail>>
       ELSE /\ call' = [call EXCEPT ![w] = "queued"]
            /\ tail' = Append(tail, w)
            /\ attended' \in {attended, attended \cup {w}}
    /\ UNCHANGED <<phase, closed, failure, session, staged, db, lost, commitDispatched, confirmed, outcome>>

Send(w) ==
    /\ \E i \in HeadWhenIdle(tail, Calls({"sent"})) : w = tail[i] /\ tail' = RemoveAt(tail, i)
    /\ call' = [call EXCEPT ![w] = "sent"]
    /\ UNCHANGED <<phase, closed, failure, attended, session, staged, db, lost,
                   commitDispatched, confirmed, outcome>>

Fails(w) ==
    /\ call' = [call EXCEPT ![w] = "failed"]
    /\ failure' = (failure \/ w \notin attended)

\* the server's answer, or the lack of it
Answer(w) ==
    /\ call[w] = "sent"
    /\ \/ /\ session \in {"open", "over"}
          /\ staged' = IF session = "open" THEN staged \cup {w} ELSE staged
          /\ db' = IF session = "over" THEN db \cup {w} ELSE db
          /\ \/ call' = [call EXCEPT ![w] = "ok"] /\ UNCHANGED failure
             \/ Fails(w)
          /\ UNCHANGED session
       \/ /\ Fails(w) /\ UNCHANGED <<staged, db>>
          /\ session' \in {session, IF session = "open" THEN "aborted" ELSE session}
    /\ UNCHANGED <<phase, closed, attended, tail, lost, commitDispatched, confirmed, outcome>>

(***************************************************************************)
(* The callback settles; what is pending is waited for; commit or abort.   *)
(***************************************************************************)

Settle ==
    /\ phase = "callback" /\ phase' = "settling" /\ closed' = TRUE
    /\ failure' \in {failure, TRUE}
    /\ UNCHANGED <<call, attended, tail, session, staged, db, lost, commitDispatched, confirmed, outcome>>

\* guarded.waitForPendingOperations
Waited(pending) == pending = {}

Waits ==
    /\ phase = "settling" /\ Waited(Calls({"queued", "sent"}))
    /\ phase' = IF failure THEN "abort" ELSE "commit"
    /\ commitDispatched' = ~failure
    /\ UNCHANGED <<closed, failure, call, attended, tail, session, staged, db, lost, confirmed, outcome>>

\* commitTransaction's error, by its labels
ConflictFirst(labels) ==
    IF "transient" \in labels THEN "conflict"
    ELSE IF "unknown" \in labels THEN "unknownCommit" ELSE "error"
CommitFailure(labels) ==
    IF "unknown" \in labels THEN "unknownCommit"
    ELSE IF "transient" \in labels THEN "conflict" ELSE "error"

Apply == db' = db \cup staged /\ UNCHANGED lost
Discard == lost' = lost \cup staged /\ UNCHANGED db

CommitFails(labels) ==
    /\ outcome' = CommitFailure(labels)
    /\ confirmed' = (CommitFailure(labels) = "conflict")

Commit ==
    /\ phase = "commit" /\ phase' = "end" /\ session' = "over" /\ staged' = {}
    /\ \/ session = "open" /\ Apply /\ outcome' = "ok" /\ UNCHANGED confirmed
       \/ \* committed or not, the answer is lost
          /\ session = "open" /\ (Apply \/ Discard)
          /\ \E labels \in {{"unknown"}, {"unknown", "transient"}} : CommitFails(labels)
       \/ \* refused
          /\ Discard
          /\ \E labels \in {{"transient"}, {}} : CommitFails(labels)
    /\ UNCHANGED <<closed, failure, call, attended, tail, commitDispatched>>

\* abortTransaction
Abort ==
    /\ phase = "abort" /\ phase' = "end"
    /\ \/ session' = "over" /\ staged' = {} /\ Discard /\ outcome' = "error" /\ confirmed' = TRUE
       \/ outcome' = "unknownAbort" /\ UNCHANGED <<session, staged, db, lost, confirmed>>
    /\ UNCHANGED <<closed, failure, call, attended, tail, commitDispatched>>

EndReported(told) == IF told = "ok" THEN "committedError" ELSE told

\* endSession ends the transaction with it; its own failure is reported only
\* when the transaction has committed
EndSession ==
    /\ phase = "end" /\ phase' = "done"
    /\ outcome' \in {outcome, EndReported(outcome)}
    /\ IF session \in {"open", "aborted"}
       THEN session' = "over" /\ Discard /\ staged' = {}
       ELSE UNCHANGED <<session, staged, db, lost>>
    /\ UNCHANGED <<closed, failure, call, attended, tail, commitDispatched, confirmed>>

Done == phase = "done" /\ UNCHANGED vars

Next ==
    \/ Start \/ Settle \/ Waits \/ Commit \/ Abort \/ EndSession \/ Done
    \/ \E w \in Writes : Call(w) \/ Send(w) \/ Answer(w)

Spec == Init /\ [][Next]_vars

(***************************************************************************)
(* Properties.                                                             *)
(***************************************************************************)

\* The driver does not support parallel commands in one transaction: however
\* the callback calls them, one is on the session at a time.
OneCommandAtATime == \A v, w \in Writes : call[v] = "sent" /\ call[w] = "sent" => v = w

\* What the transaction reports is what happened: a rollback that is reported,
\* or confirmed to the afterRollback hooks, left nothing of the callback's
\* writes in the store, wherever they were in the queue when it settled.
RolledBackMeansNothing ==
    outcome \in {"conflict", "error"} \/ confirmed => db = {}

\* A commit that is reported, if only by the failure to end the session, holds
\* every write that succeeded, and no operation failed that the callback did
\* not attend to: such a failure rolls the transaction back.
CommittedMeansAll ==
    outcome \in {"ok", "committedError"} =>
        /\ {w \in Writes : call[w] = "ok"} \subseteq db
        /\ {w \in Writes : call[w] = "failed"} \subseteq attended
=============================================================================
