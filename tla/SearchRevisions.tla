-------------------------- MODULE SearchRevisions --------------------------
(***************************************************************************)
(* Revision-ordered writes of the Elasticsearch / OpenSearch adapter        *)
(* (elasticsearch-shared.ts): one document, whose writes carry revisions    *)
(* 1..Last.  Workers send them in any order, answers get lost, requests     *)
(* linger in the network after their sender gave up, failed writes are      *)
(* sent again, and a maintenance script writes without a revision.          *)
(*                                                                         *)
(* The engine is modelled from what the code relies on: with version_type   *)
(* "external" a write is accepted iff its version exceeds the stored one,   *)
(* and is otherwise answered 409 version_conflict_engine_exception; a plain *)
(* delete removes the document and forgets its version.                     *)
(***************************************************************************)
EXTENDS Naturals, FiniteSets

CONSTANTS
    Revisions,        \* revisions of the writes, 1..n
    RequireRevision,  \* options.requireRevisionWrites
    MaxAttempts       \* bound: attempts of one write

SearchRevisionsAssumption ==
    IsFiniteSet(Revisions) /\ RequireRevision \in BOOLEAN /\ MaxAttempts \in Nat \ {0}

VARIABLES
    write,     \* revision -> "index" or "delete"
    status,    \* revision -> "idle", "waiting", "failed", "acked"
    attempts,  \* revision -> times it was sent
    flight,    \* requests the engine has yet to execute
    answers,   \* answers on their way: [revision, of]
    doc,       \* the stored document: version 0 when there is none
    manual     \* what became of the script's write: "none", "refused", "written"

vars == <<write, status, attempts, flight, answers, doc, manual>>

NoDoc == [version |-> 0, tombstone |-> FALSE]

\* a refused answer other than a version conflict: 409 of another kind
Answers == {"done", "versionConflict", "otherConflict"}

\* what index() sends for a revision
IndexRequest(r) == [revision |-> r, call |-> "index", tombstone |-> FALSE]

\* mutant: a delete with a revision removes the document
PlainDelete(r) == [revision |-> r, call |-> "delete", tombstone |-> FALSE]

\* what delete() sends for a revision: an index of a tombstone, never a delete
DeleteRequest(r) == [revision |-> r, call |-> "index", tombstone |-> TRUE]

Request(r) == IF write[r] = "index" THEN IndexRequest(r) ELSE DeleteRequest(r)

\* mutant: a conflict is an error like any other
NoConflict(answer) == FALSE

\* isVersionConflictError
Superseded(answer) == answer = "versionConflict"

\* assertElasticsearchRevisionWrite
RevisionMissing(revision) == RequireRevision /\ revision = 0

Init ==
    /\ write \in [Revisions -> {"index", "delete"}]
    /\ status = [r \in Revisions |-> "idle"] /\ attempts = [r \in Revisions |-> 0]
    /\ flight = {} /\ answers = {} /\ doc = NoDoc /\ manual = "none"

Send(r) ==
    /\ status[r] \in {"idle", "failed"} /\ attempts[r] < MaxAttempts
    /\ ~RevisionMissing(r)
    /\ status' = [status EXCEPT ![r] = "waiting"]
    /\ attempts' = [attempts EXCEPT ![r] = @ + 1]
    /\ flight' = flight \cup {Request(r)}
    /\ answers' = {a \in answers : a.revision # r}
    /\ UNCHANGED <<write, doc, manual>>

\* the engine's execution of a request, and its answer
Executed(request) ==
    IF request.call = "delete" THEN [doc |-> NoDoc, of |-> "done"]
    ELSE IF request.revision > doc.version
         THEN [doc |-> [version |-> request.revision, tombstone |-> request.tombstone], of |-> "done"]
         ELSE [doc |-> doc, of |-> "versionConflict"]

\* the engine executes a request; it may stay in the network as a duplicate
Execute(request) ==
    /\ request \in flight
    /\ doc' = Executed(request).doc
    /\ answers' = answers \cup {[revision |-> request.revision, of |-> Executed(request).of]}
    /\ flight' \in {flight \ {request}, flight}
    /\ UNCHANGED <<write, status, attempts, manual>>

\* the engine refuses a request with a 409 of another kind
Refuse(request) ==
    /\ request \in flight
    /\ attempts[request.revision] < MaxAttempts
    /\ answers' = answers \cup {[revision |-> request.revision, of |-> "otherConflict"]}
    /\ flight' = flight \ {request}
    /\ UNCHANGED <<write, status, attempts, doc, manual>>

\* the call resolves or rejects with the answer
Answered(answer) ==
    /\ answer \in answers /\ status[answer.revision] = "waiting"
    /\ answers' = answers \ {answer}
    /\ status' = [status EXCEPT ![answer.revision] =
                     IF answer.of = "done" \/ Superseded(answer.of) THEN "acked" ELSE "failed"]
    /\ UNCHANGED <<write, attempts, flight, doc, manual>>

\* the transport gives up: the answer is lost; the request may linger
GiveUp(r) ==
    /\ status[r] = "waiting" /\ attempts[r] < MaxAttempts
    /\ status' = [status EXCEPT ![r] = "failed"]
    /\ UNCHANGED <<write, attempts, flight, answers, doc, manual>>

\* a script's index or delete without a revision: the engine counts up, or removes
ManualWrite(kind) ==
    /\ manual = "none"
    /\ IF RevisionMissing(0)
       THEN manual' = "refused" /\ UNCHANGED doc
       ELSE /\ manual' = "written"
            /\ doc' = IF kind = "index" THEN [version |-> doc.version + 1, tombstone |-> FALSE]
                                        ELSE NoDoc
    /\ UNCHANGED <<write, status, attempts, flight, answers>>

Next ==
    \/ \E r \in Revisions : Send(r) \/ GiveUp(r)
    \/ \E request \in flight : Execute(request) \/ Refuse(request)
    \/ \E answer \in answers : Answered(answer)
    \/ \E kind \in {"index", "delete"} : ManualWrite(kind)

Executes(r) == \E request \in flight : request.revision = r /\ Execute(request)
AnswerRead(r) == \E answer \in answers : answer.revision = r /\ Answered(answer)

\* the engine executes what reaches it, callers read their answers, workers send again
Fairness ==
    /\ \A r \in Revisions :
          /\ WF_vars(Send(r))
          /\ WF_vars(Executes(r))
          /\ SF_vars(AnswerRead(r))

Spec == Init /\ [][Next]_vars /\ Fairness

----------------------------------------------------------------------------
\* withElasticsearchLiveDocumentFilter: a search does not show tombstones
Shown == doc.version > 0 /\ ~doc.tombstone

\* the newest write that was acknowledged
Acked == {r \in Revisions : status[r] = "acked"}

(***************************************************************************)
(* Whatever the order, the duplicates and the lost answers, once the last   *)
(* write is acknowledged a search shows the document iff that write indexed *)
(* it: no late index brings back a deleted document (:311-323), and a 409  *)
(* that is no version conflict is not taken for success (:701-709).        *)
(***************************************************************************)
LastRevision == CHOOSE r \in Revisions : \A s \in Revisions : s <= r
LatestWins == LastRevision \in Acked => (Shown <=> write[LastRevision] = "index")

(***************************************************************************)
(* Every write is acknowledged in the end: one that comes after a newer     *)
(* revision is not sent again for ever (:298-301, :318-321).                *)
(***************************************************************************)
AllAcked == Acked = Revisions
AllAcknowledged == []<>AllAcked
=============================================================================
