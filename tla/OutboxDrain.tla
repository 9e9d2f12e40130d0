------------------------------ MODULE OutboxDrain ------------------------------
(* Delivery without leases: the worker takes events out of the outbox (drain), *)
(* delivers them and puts back what it could not deliver (requeue); and the    *)
(* row-by-row acknowledgement of a store without transactions.  Sources:       *)
(* outbox-memory.ts, outbox-recovery.ts, drain, requeue and ack of             *)
(* outbox-store.ts, the drain branch of outbox-worker.ts.                      *)
(*   Kind = "memory"  MemoryOutboxAdapter: every call is one step, requeue     *)
(*                    puts events in front                                     *)
(*   Kind = "rows"    StoreOutboxAdapter on a store with version checks and no *)
(*                    transactions: one call per row, rows sort by sequence    *)
(* Events are numbered in the order they were appended.                        *)
EXTENDS Integers, Sequences, SequencesExt, FiniteSets

CONSTANTS Kind, MaxEvents, Entity, Workers,
          Leased,       \* the workers acknowledge leased batches and do not drain
          BatchSize, MaxAttempts,
          MaxFaults     \* bound: failing store calls

ASSUME DrainAssumption ==
    /\ Kind \in {"memory", "rows"}
    /\ MaxEvents \in Nat /\ BatchSize \in Nat \ {0}
    /\ \A e \in 1..MaxEvents : Entity[e] \in STRING

VARIABLES appended,  \* events appended so far
          queue,     \* the outbox in list order
          att,       \* delivery attempts stored with an event
          ver,       \* row versions: a claim of another worker changes them
          waiting,   \* events whose availableAt lies ahead
          done,      \* events delivered, in order
          dead,      \* events handed to the dead letter handler
          reported,  \* events an error told the operator about
          wk, faults

vars == <<appended, queue, att, ver, waiting, done, dead, reported, wk, faults>>

Events == 1..MaxEvents
InQueue == {queue[i] : i \in 1..Len(queue)}

NoWork == [pc |-> "idle", snap |-> << >>, page |-> << >>, i |-> 1, blocked |-> {},
           got |-> << >>, todo |-> << >>, made |-> << >>, next |-> "", bad |-> FALSE]

Init == /\ appended = 0 /\ queue = << >> /\ att = [e \in Events |-> 0] /\ ver = [e \in Events |-> 0]
        /\ waiting = {} /\ done = << >> /\ dead = {} /\ reported = {}
        /\ wk = [w \in Workers |-> NoWork] /\ faults = 0

-----------------------------------------------------------------------------
(* The order of rows, and taking events in and out.                           *)

(* The events of s that are not in S.                                         *)
Without(s, S) ==
    LET kept[n \in 0..Len(s)] ==
            IF n = 0 THEN << >>
            ELSE IF s[n] \in S THEN kept[n - 1] ELSE Append(kept[n - 1], s[n])
    IN  kept[Len(s)]

(* Mutant: an event that comes back goes to the end.                          *)
PlacedLast(es) == queue \o es

(* requeue of events in front for the memory outbox                           *)
(* (prependMemoryOutboxEvents), of one row by its sequence for rows.          *)
Placed(es) ==
    IF Kind = "memory" THEN es \o queue
    ELSE Without(queue, {e \in InQueue : e > es[1]}) \o es
             \o Without(queue, {e \in InQueue : e < es[1]})

(* assertAvailableIds, and the primary key of the rows.                       *)
AvailableIds(es) == ToSet(es) \cap InQueue = {} /\ IsInjective(es)

Blocked(b, e) == Entity[e] \in b

blockOutboxEntityOrderKeys(b, e) == b \cup {Entity[e]}

(* Events behind one of their entity whose availableAt lies ahead, and itself.*)
HeldBack ==
    {queue[n] : n \in {m \in 1..Len(queue) :
        \E j \in 1..m : queue[j] \in waiting /\ Entity[queue[j]] = Entity[queue[m]]}}

(* drain of the memory outbox: one pass over the list.                        *)
Taken ==
    LET free == Without(queue, HeldBack)
    IN  SubSeq(free, 1, IF Len(free) < BatchSize THEN Len(free) ELSE BatchSize)

-----------------------------------------------------------------------------
(* The plugin appends; a waiting time ends.                                   *)

Append1 ==
    /\ appended < MaxEvents
    /\ appended' = appended + 1
    /\ queue' = Append(queue, appended + 1)
    /\ UNCHANGED <<att, ver, waiting, done, dead, reported, wk, faults>>

(* Outside a transaction the event is appended after the write; the append    *)
(* can fail, and the caller of the write is told.                             *)
AppendFails ==
    /\ appended < MaxEvents /\ faults < MaxFaults
    /\ faults' = faults + 1
    /\ appended' = appended + 1
    /\ reported' = reported \cup {appended + 1}
    /\ UNCHANGED <<queue, att, ver, waiting, done, dead, wk>>

FallsDue(e) ==
    /\ e \in waiting
    /\ waiting' = waiting \ {e}
    /\ UNCHANGED <<appended, queue, att, ver, done, dead, reported, wk, faults>>

-----------------------------------------------------------------------------
(* The worker takes a batch.                                                  *)

captureOutboxDrainRecoverySnapshot(w) ==
    /\ wk[w].pc = "idle" /\ ~Leased /\ queue # << >>
    /\ wk' = [wk EXCEPT ![w] = [NoWork EXCEPT !.pc = "drain", !.snap = queue]]
    /\ UNCHANGED <<appended, queue, att, ver, waiting, done, dead, reported, faults>>

Drain(w) ==
    /\ wk[w].pc = "drain"
    /\ IF Kind = "memory"
       THEN LET es == Taken
            IN  /\ queue' = Without(queue, ToSet(es))
                /\ wk' = [wk EXCEPT ![w].got = es, ![w].pc = "deliver"]
       ELSE /\ wk' = [wk EXCEPT ![w].page = queue, ![w].pc = "row"]
            /\ UNCHANGED queue
    /\ UNCHANGED <<appended, att, ver, waiting, done, dead, reported, faults>>

BatchFull(k) == Len(k.got) = BatchSize

(* One row of the page: skip it, or look at it again before it is deleted.    *)
DrainRow(w) ==
    LET k == wk[w]
        over == k.i > Len(k.page) \/ BatchFull(k)
        e == k.page[k.i]
        skip == Blocked(k.blocked, e) \/ e \in waiting \/ e \notin InQueue
    IN  /\ k.pc = "row"
        /\ wk' = [wk EXCEPT ![w] =
             IF over THEN [k EXCEPT !.pc = "deliver", !.i = 1, !.blocked = {}]
             ELSE IF skip THEN [k EXCEPT !.i = @ + 1, !.blocked = blockOutboxEntityOrderKeys(@, e)]
             ELSE [k EXCEPT !.pc = "del"]]
        /\ UNCHANGED <<appended, queue, att, ver, waiting, done, dead, reported, faults>>

(* The delete checks the version: a row that is gone or changed is a conflict.*)
DrainDelete(w) ==
    LET k == wk[w]  e == k.page[k.i]
    IN  /\ k.pc = "del"
        /\ IF e \in InQueue /\ e \notin waiting
           THEN /\ queue' = Without(queue, {e})
                /\ wk' = [wk EXCEPT ![w].got = Append(@, e), ![w].i = @ + 1, ![w].pc = "row"]
           ELSE /\ wk' = [wk EXCEPT ![w].i = @ + 1, ![w].pc = "row",
                                    ![w].blocked = blockOutboxEntityOrderKeys(@, e)]
                /\ UNCHANGED queue
        /\ UNCHANGED <<appended, att, ver, waiting, done, dead, reported, faults>>

(* What is put back when the delete of e throws: e may be gone as well.       *)
PutBack(es, e) == Append(es, e)

(* The delete throws, with or without having deleted: what was deleted is     *)
(* inserted again, then the drain throws.                                     *)
DrainThrows(w) ==
    LET k == wk[w]  e == k.page[k.i]
    IN  /\ k.pc = "del" /\ faults < MaxFaults
        /\ faults' = faults + 1
        /\ queue' \in {queue, Without(queue, {e})}
        /\ wk' = [wk EXCEPT ![w].pc = "reinsert", ![w].todo = PutBack(k.got, e),
                            ![w].got = << >>, ![w].next = "recover"]
        /\ UNCHANGED <<appended, att, ver, waiting, done, dead, reported>>

(* reinsertDeletedEvents, one row per step.                                   *)
Reinsert(w) ==
    LET k == wk[w]  es == k.todo
    IN  /\ k.pc = "reinsert"
        /\ IF es = << >>
           THEN /\ wk' = [wk EXCEPT ![w].pc = k.next, ![w].todo = << >>, ![w].next = ""]
                /\ UNCHANGED queue
           ELSE /\ queue' = IF es[1] \in InQueue THEN queue ELSE Placed(<<es[1]>>)
                /\ wk' = [wk EXCEPT ![w].todo = Tail(es)]
        /\ UNCHANGED <<appended, att, ver, waiting, done, dead, reported, faults>>

(* A row that cannot be inserted again is part of the error.                  *)
ReinsertThrows(w) ==
    LET k == wk[w]
    IN  /\ k.pc = "reinsert" /\ k.todo # << >> /\ Head(k.todo) \notin InQueue /\ faults < MaxFaults
        /\ faults' = faults + 1
        /\ reported' = reported \cup {Head(k.todo)}
        /\ wk' = [wk EXCEPT ![w].todo = Tail(@), ![w].bad = TRUE]
        /\ UNCHANGED <<appended, queue, att, ver, waiting, done, dead>>

(* recoverFailedOutboxDrain: events of the snapshot that are gone now come    *)
(* back: those before the last one still there in front, the others at the    *)
(* end; for rows the sequence decides.                                        *)
Recover(w) ==
    LET k == wk[w]  missing == Without(k.snap, InQueue)
    IN  /\ k.pc = "recover"
        /\ wk' = [wk EXCEPT ![w].pc = "requeue", ![w].todo = missing, ![w].made = << >>]
        /\ UNCHANGED <<appended, queue, att, ver, waiting, done, dead, reported, faults>>

-----------------------------------------------------------------------------
(* Delivery and its settlement.                                               *)

Attempt(w) ==
    LET k == wk[w]  e == k.got[k.i]
    IN  /\ k.pc = "deliver" /\ k.i <= Len(k.got)
        /\ \/ /\ ~Blocked(k.blocked, e)
              /\ done' = Append(done, e)
              /\ wk' = [wk EXCEPT ![w].i = @ + 1]
              /\ UNCHANGED <<att, waiting, dead>>
           \/ /\ ~Blocked(k.blocked, e) /\ att[e] + 1 < MaxAttempts
              /\ att' = [att EXCEPT ![e] = @ + 1]
              /\ waiting' = waiting \cup {e}
              /\ wk' = [wk EXCEPT ![w].i = @ + 1, ![w].todo = Append(@, e),
                                  ![w].blocked = blockOutboxEntityOrderKeys(@, e)]
              /\ UNCHANGED <<done, dead>>
           \/ /\ ~Blocked(k.blocked, e) /\ att[e] + 1 >= MaxAttempts
              /\ dead' = dead \cup {e}
              /\ wk' = [wk EXCEPT ![w].i = @ + 1,
                                  ![w].blocked = blockOutboxEntityOrderKeys(@, e)]
              /\ UNCHANGED <<att, waiting, done>>
           \/ /\ Blocked(k.blocked, e)
              /\ wk' = [wk EXCEPT ![w].i = @ + 1, ![w].todo = Append(@, e)]
              /\ UNCHANGED <<att, waiting, done, dead>>
        /\ UNCHANGED <<appended, queue, ver, reported, faults>>

Settle(w) ==
    LET k == wk[w]
    IN  /\ k.pc = "deliver" /\ k.i > Len(k.got)
        /\ wk' = [wk EXCEPT ![w].pc = "requeue", ![w].got = << >>, ![w].made = << >>]
        /\ UNCHANGED <<appended, queue, att, ver, waiting, done, dead, reported, faults>>

(* requeue: in memory one step that takes all or nothing, else row by row.    *)
Requeue(w) ==
    LET k == wk[w]  es == IF Kind = "memory" THEN k.todo ELSE SubSeq(k.todo, 1, 1)
    IN  /\ k.pc = "requeue"
        /\ IF k.todo = << >> THEN wk' = [wk EXCEPT ![w] = NoWork] /\ UNCHANGED queue
           ELSE /\ AvailableIds(es)
                /\ queue' = Placed(es)
                /\ wk' = [wk EXCEPT ![w].todo = Without(@, ToSet(es)), ![w].made = @ \o es]
        /\ UNCHANGED <<appended, att, ver, waiting, done, dead, reported, faults>>

(* Mutant: the rows made and deleted again are forgotten.                     *)
UnrestoredRest(k) == ToSet(k.todo)

(* The events of a requeue that failed.                                       *)
Unrestored(k) == ToSet(k.todo) \cup ToSet(k.made)

(* It throws, on a duplicate id or a failing store: the rows made so far are  *)
(* deleted again.                                                             *)
RequeueThrows(w) ==
    LET k == wk[w]  es == IF Kind = "memory" THEN k.todo ELSE SubSeq(k.todo, 1, 1)
    IN  /\ k.pc = "requeue" /\ k.todo # << >>
        /\ \/ ~AvailableIds(es) /\ UNCHANGED faults
           \/ AvailableIds(es) /\ Kind = "rows" /\ faults < MaxFaults /\ faults' = faults + 1
        /\ reported' = reported \cup Unrestored(k)
        /\ wk' = [wk EXCEPT ![w].pc = "undo"]
        /\ UNCHANGED <<appended, queue, att, ver, waiting, done, dead>>

(* deleteInsertedEvents: newest first, and only rows that are as inserted.    *)
Undo(w) ==
    LET k == wk[w]
    IN  /\ k.pc = "undo"
        /\ IF k.made = << >> THEN wk' = [wk EXCEPT ![w] = NoWork] /\ UNCHANGED queue
           ELSE /\ queue' = Without(queue, {Last(k.made)})
                /\ wk' = [wk EXCEPT ![w].made = Front(@)]
        /\ UNCHANGED <<appended, att, ver, waiting, done, dead, reported, faults>>

-----------------------------------------------------------------------------
(* ack on rows without transactions: all rows are checked, then deleted one   *)
(* by one under the version that was checked.                                 *)

(* A lease lapses and another worker claims the row; it may finish it too.    *)
Reclaim(e) ==
    /\ Leased /\ e \in InQueue /\ ver[e] = 0
    /\ ver' = [ver EXCEPT ![e] = 1]
    /\ queue' \in {queue, Without(queue, {e})}
    /\ done' = IF queue' = queue THEN done ELSE Append(done, e)
    /\ UNCHANGED <<appended, att, waiting, dead, reported, wk, faults>>

AckCheck(w) ==
    /\ wk[w].pc = "idle" /\ Leased
    /\ \E n \in 1..Len(queue) :
          /\ \A i \in 1..n : ver[queue[i]] = 0
          /\ wk' = [wk EXCEPT ![w] = [NoWork EXCEPT !.pc = "ack", !.page = SubSeq(queue, 1, n)]]
    /\ UNCHANGED <<appended, queue, att, ver, waiting, done, dead, reported, faults>>

(* Deleted; or the version check fails: what this call deleted is inserted    *)
(* again and the answer is false.                                             *)
AckDelete(w) ==
    LET k == wk[w]  e == k.page[k.i]
    IN  /\ k.pc = "ack"
        /\ IF k.i > Len(k.page)
           THEN /\ done' = done \o k.page
                /\ wk' = [wk EXCEPT ![w] = NoWork] /\ UNCHANGED queue
           ELSE /\ UNCHANGED done
                /\ IF e \in InQueue /\ ver[e] = 0
                   THEN /\ queue' = Without(queue, {e})
                        /\ wk' = [wk EXCEPT ![w].made = Append(@, e), ![w].i = @ + 1]
                   ELSE /\ wk' = [wk EXCEPT ![w].pc = "reinsert", ![w].todo = k.made,
                                            ![w].next = "refused"]
                        /\ UNCHANGED queue
        /\ UNCHANGED <<appended, att, ver, waiting, dead, reported, faults>>

AckThrows(w) ==
    LET k == wk[w]  e == k.page[k.i]
    IN  /\ k.pc = "ack" /\ k.i <= Len(k.page) /\ faults < MaxFaults
        /\ faults' = faults + 1
        /\ queue' \in {queue, IF ver[e] = 0 THEN Without(queue, {e}) ELSE queue}
        /\ wk' = [wk EXCEPT ![w].pc = "reinsert", ![w].todo = PutBack(k.made, e), ![w].next = "refused"]
        /\ UNCHANGED <<appended, att, ver, waiting, done, dead, reported>>

AckRefused(w) ==
    /\ wk[w].pc = "refused"
    /\ wk' = [wk EXCEPT ![w] = NoWork]
    /\ UNCHANGED <<appended, queue, att, ver, waiting, done, dead, reported, faults>>

-----------------------------------------------------------------------------
Steps(w) ==
    \/ Drain(w) \/ DrainRow(w) \/ DrainDelete(w) \/ Reinsert(w) \/ Recover(w)
    \/ Attempt(w) \/ Settle(w) \/ Requeue(w) \/ RequeueThrows(w) \/ Undo(w)

Next ==
    \/ Append1 \/ AppendFails \/ \E e \in Events : FallsDue(e) \/ Reclaim(e)
    \/ \E w \in Workers :
          \/ captureOutboxDrainRecoverySnapshot(w) \/ Steps(w)
          \/ DrainThrows(w) \/ ReinsertThrows(w)
          \/ AckCheck(w) \/ AckDelete(w) \/ AckThrows(w) \/ AckRefused(w)

Spec == Init /\ [][Next]_vars

-----------------------------------------------------------------------------
(* What a worker has in its hands.                                            *)
Held(w) == ToSet(wk[w].got) \cup ToSet(wk[w].todo) \cup ToSet(wk[w].made)
           \cup IF wk[w].pc = "recover" THEN ToSet(wk[w].snap) ELSE {}

(* Types, and: no event is in the outbox twice, and a batch keeps within its  *)
(* bound.                                                                     *)
TypeOK ==
    /\ appended \in 0..MaxEvents /\ faults \in 0..MaxFaults
    /\ IsInjective(queue) /\ InQueue \subseteq 1..appended
    /\ \A w \in Workers : Len(wk[w].got) <= BatchSize /\ IsInjective(wk[w].todo)

(* No event disappears without a word: whatever fails between the removal     *)
(* from the outbox and the delivery, an appended event is in the outbox, in a *)
(* worker's hands, delivered, dead lettered, or named by a reported error.    *)
NoSilentLoss ==
    \A e \in 1..appended :
        \/ e \in InQueue \cup ToSet(done) \cup dead \cup reported
        \/ \E w \in Workers : e \in Held(w)

(* With one worker, the events of an entity are delivered in the order they   *)
(* were appended; nothing overtakes an event that waits for its next attempt. *)
EntityOrder ==
    \A i, j \in 1..Len(done) :
        i < j /\ Entity[done[i]] = Entity[done[j]] => done[i] <= done[j]

(* An acknowledgement that is refused leaves no row deleted, unless another   *)
(* worker finished it or the error names it.                                  *)
RefusedAckRestores ==
    \A w \in Workers : wk[w].pc = "refused" =>
        ToSet(wk[w].page) \subseteq InQueue \cup reported \cup ToSet(done)
=============================================================================
