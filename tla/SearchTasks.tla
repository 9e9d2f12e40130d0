---------------------------- MODULE SearchTasks ----------------------------
(***************************************************************************)
(* Writes of the Meilisearch adapter (meilisearch.ts).  Meilisearch answers *)
(* a write with a task that it executes later; index() and delete() check   *)
(* the index' primary key, enqueue the task and wait for its end.           *)
(*                                                                         *)
(* One document; a worker issues its writes one after the other, going on   *)
(* after a failure too.  Two models may share the server: tasks of another  *)
(* index run in between, and the client may resolve the wait with a task    *)
(* that is not the one asked for.  An operator drops the index and creates  *)
(* it again, with any primary key.                                          *)
(***************************************************************************)
EXTENDS Naturals, Sequences

CONSTANTS Writes,   \* bound: writes of the worker, 1..Writes
          MaxAdmin  \* bound: changes an operator makes to the index

SearchTasksAssumption == Writes \in Nat /\ MaxAdmin \in Nat

VARIABLES
    next,     \* the write the worker is at
    kind,     \* write -> "index" or "delete"
    at,       \* "check", "enqueue", "wait", between writes "idle"
    mine,     \* the task the worker waits for, 0 when there is none
    tasks,    \* every task ever enqueued: [write, index, status]; write 0 is another model's
    key,      \* primary key of the index: "active_ts_id", "other", "missing"
    admin,    \* operator changes so far
    doc,      \* write the document comes from, 0 when there is none
    result    \* write -> "open", "acked", "refused", "failed"

vars == <<next, kind, at, mine, tasks, key, admin, doc, result>>

Task(w, index) == [write |-> w, index |-> index, status |-> "enqueued"]
First == {t \in DOMAIN tasks : tasks[t].status = "enqueued"
             /\ \A u \in DOMAIN tasks : tasks[u].status = "enqueued" => t <= u}

Init ==
    /\ next = 1 /\ kind \in [1..Writes -> {"index", "delete"}] /\ at = "idle" /\ mine = 0
    /\ tasks = <<>> /\ key \in {"active_ts_id", "other"} /\ admin = 0
    /\ doc = 0 /\ result = [w \in 1..Writes |-> "open"]

Settle(how) ==
    /\ result' = [result EXCEPT ![next] = how]
    /\ next' = next + 1 /\ at' = "idle" /\ mine' = 0

\* index, delete: snapshot and projection, then the primary key
Start ==
    /\ at = "idle" /\ next <= Writes
    /\ at' = "check"
    /\ UNCHANGED <<next, kind, mine, tasks, key, admin, doc, result>>

\* mutant: any existing index will do
IndexExists == key # "missing"

\* assertPrimaryKey
KeyIsOurs == key = "active_ts_id"

AssertPrimaryKey ==
    /\ at = "check"
    /\ IF KeyIsOurs THEN at' = "enqueue" /\ UNCHANGED <<next, mine, result>>
                    ELSE Settle("refused")
    /\ UNCHANGED <<kind, tasks, key, admin, doc>>

\* addDocuments, deleteDocument
Enqueue ==
    /\ at = "enqueue"
    /\ tasks' = Append(tasks, Task(next, "ours"))
    /\ mine' = Len(tasks) + 1 /\ at' = "wait"
    /\ UNCHANGED <<next, kind, key, admin, doc, result>>

\* the request or its answer is lost
EnqueueFails ==
    /\ at = "enqueue"
    /\ tasks' \in {tasks, Append(tasks, Task(next, "ours"))}
    /\ Settle("failed")
    /\ UNCHANGED <<kind, key, admin, doc>>

\* finishWrite: the completed task is the submitted one, and it succeeded
Finished(t) == t = mine /\ tasks[t].index = "ours" /\ tasks[t].status = "succeeded"

\* the wait resolves with a task that has ended
Completed(t) ==
    /\ at = "wait" /\ t \in DOMAIN tasks /\ tasks[t].status # "enqueued"
    /\ Settle(IF Finished(t) THEN "acked" ELSE "failed")
    /\ UNCHANGED <<kind, tasks, key, admin, doc>>

\* taskTimeoutMs; the task stays in the queue
WaitTimesOut ==
    /\ at = "wait"
    /\ Settle("failed")
    /\ UNCHANGED <<kind, tasks, key, admin, doc>>

\* the server executes its oldest task, creating a missing index with our key
Process(t) ==
    /\ t \in First
    /\ LET w == tasks[t].write
           runs == tasks[t].index = "ours" /\ key # "other"
       IN  /\ tasks' \in {[tasks EXCEPT ![t].status = s] :
                             s \in {"failed"} \cup IF runs \/ w = 0 THEN {"succeeded"} ELSE {}}
           /\ IF runs /\ tasks'[t].status = "succeeded"
              THEN doc' = (IF kind[w] = "index" THEN w ELSE 0) /\ key' = "active_ts_id"
              ELSE UNCHANGED <<doc, key>>
    /\ UNCHANGED <<next, kind, at, mine, admin, result>>

\* another model's write
Foreign ==
    /\ Len(tasks) < Writes + 1 /\ ~\E t \in DOMAIN tasks : tasks[t].write = 0
    /\ tasks' = Append(tasks, Task(0, "theirs"))
    /\ UNCHANGED <<next, kind, at, mine, key, admin, doc, result>>

\* an operator drops the index, or creates it with a key of their choice
Administer ==
    /\ admin < MaxAdmin /\ admin' = admin + 1
    /\ \/ key' = "missing"
       \/ key = "missing" /\ key' \in {"active_ts_id", "other"}
    /\ doc' = 0
    /\ UNCHANGED <<next, kind, at, mine, tasks, result>>

Next ==
    \/ Start \/ AssertPrimaryKey \/ Enqueue \/ EnqueueFails \/ WaitTimesOut
    \/ \E t \in DOMAIN tasks : Completed(t) \/ Process(t)
    \/ Foreign \/ Administer

Spec == Init /\ [][Next]_vars

----------------------------------------------------------------------------
(***************************************************************************)
(* While the index is left alone, its content is never older than the last  *)
(* write the worker was told of: index() and delete() do not return on a    *)
(* task that was merely enqueued, failed or is somebody else's              *)
(* (meilisearch.ts:194-209), and a write that timed out cannot overtake one *)
(* that was acknowledged later.                                             *)
(***************************************************************************)
NeverBehindAcked ==
    admin = 0 => \A w \in 1..Writes : result[w] = "acked" =>
        \/ doc >= w
        \/ doc = 0 /\ \E v \in w..Writes : kind[v] = "delete"
                          /\ \E t \in DOMAIN tasks : tasks[t].write = v /\ tasks[t].status = "succeeded"

(***************************************************************************)
(* No task is enqueued for an index that had another primary key when it    *)
(* was looked at: unless an operator interferes, documents are never        *)
(* written under another identity (:178-184).                               *)
(***************************************************************************)
OnlyUnderOurKey ==
    admin = 0 /\ key = "other" => \A t \in DOMAIN tasks : tasks[t].index # "ours"
=============================================================================
