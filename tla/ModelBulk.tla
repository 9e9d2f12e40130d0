------------------------------ MODULE ModelBulk ------------------------------
(***************************************************************************)
(* createMany, upsertMany and deleteMany of Model (src/src/core/model.ts)  *)
(* inside a transaction they join or start (join: 'reuse').  A bulk        *)
(* prepares every row, writes every row, then finishes every row; hooks    *)
(* run in between and may fail or touch other rows.  The callback of the   *)
(* transaction may start several bulks without awaiting them, catch their  *)
(* errors and return while they run.                                       *)
(***************************************************************************)
EXTENDS Naturals, Sequences, FiniteSets

CONSTANTS Ids, Bulks,
          MaxEdits       \* bound: hooks that change a prepared item

VARIABLES rows,     \* committed rows: id -> the bulk that wrote it, or None
          view,     \* rows as the transaction sees them
          tx,       \* [pc, rollbackOnly]
          bulk,     \* per bulk
          edits
vars == <<rows, view, tx, bulk, edits>>

None == "none"
Old == "old"       \* written before

Inputs == UNION {[1..n -> Ids] : n \in 1..2}

NotStarted == [pc |-> "new", ids |-> <<>>, ops |-> <<>>, i |-> 1,
               edited |-> {}, told |-> "none"]

Init ==
  /\ rows \in [Ids -> {None, Old}]
  /\ view = rows
  /\ tx = [pc |-> "open", rollbackOnly |-> FALSE]
  /\ bulk = [b \in Bulks |-> NotStarted]
  /\ edits = 0

-----------------------------------------------------------------------------
Running(b) == bulk[b].pc \notin {"new", "ended"}

(* runModelBulkTransaction: an error of the bulk marks the transaction     *)
(* rollback-only and is thrown to the caller.                              *)
Poisoned(t) == [t EXCEPT !.rollbackOnly = TRUE]
Unmarked(t) == t
MarkRollbackOnly(t) == Poisoned(t)

Fail(b) ==
  /\ bulk' = [bulk EXCEPT ![b].pc = "ended", ![b].told = "error"]
  /\ tx' = MarkRollbackOnly(tx)

Distinct(ids) == \A i, j \in 1..Len(ids) : i # j => ids[i] # ids[j]

(* upsertMany reads its rows to tell creates from updates, deleteMany to   *)
(* tell rows from absences, which only have their effects published.       *)
UpsertOperation(id) == IF view[id] = None THEN "create" ELSE "update"
prepareStaticDelete(id) == IF view[id] = None THEN "absent" ELSE "delete"

Begin(b, ids, ops) ==
  /\ bulk[b].pc = "new" /\ tx.pc = "open"
  /\ bulk' = [bulk EXCEPT ![b] = [@ EXCEPT !.pc = "prepare", !.ids = ids, !.ops = ops]]
  /\ UNCHANGED <<rows, view, tx, edits>>

(* Duplicate ids are refused before anything begins.                       *)
Refuse(b) ==
  /\ bulk[b].pc = "new" /\ tx.pc = "open"
  /\ bulk' = [bulk EXCEPT ![b].pc = "ended", ![b].told = "refused"]
  /\ UNCHANGED <<rows, view, tx, edits>>

createMany(b, ids) == Begin(b, ids, [i \in 1..Len(ids) |-> "create"])

upsertMany(b, ids) ==
  IF Distinct(ids) THEN Begin(b, ids, [i \in 1..Len(ids) |-> UpsertOperation(ids[i])])
                   ELSE Refuse(b)

deleteMany(b, ids) ==
  IF Distinct(ids) THEN Begin(b, ids, [i \in 1..Len(ids) |-> prepareStaticDelete(ids[i])])
                   ELSE Refuse(b)

(* The before hooks of row i; a hook may change an item prepared earlier.  *)
Prepare(b) ==
  /\ bulk[b].pc = "prepare" /\ bulk[b].i <= Len(bulk[b].ids)
  /\ \/ /\ bulk' = [bulk EXCEPT ![b].i = @ + 1]
        /\ UNCHANGED <<tx, edits>>
     \/ \E j \in 1..(bulk[b].i - 1) :
          /\ bulk[b].ops[j] \in {"create", "update"} /\ edits < MaxEdits
          /\ bulk' = [bulk EXCEPT ![b].i = @ + 1, ![b].edited = @ \cup {j}]
          /\ edits' = edits + 1
          /\ UNCHANGED tx
     \/ Fail(b) /\ UNCHANGED edits
  /\ UNCHANGED <<rows, view>>

(* createMany compares the identities its hooks resolved.                  *)
DistinctIdentities(b) == Distinct(bulk[b].ids)

Prepared(b) ==
  /\ bulk[b].pc = "prepare" /\ bulk[b].i > Len(bulk[b].ids)
  /\ IF DistinctIdentities(b)
     THEN bulk' = [bulk EXCEPT ![b].pc = "write", ![b].i = 1] /\ UNCHANGED tx
     ELSE Fail(b)
  /\ UNCHANGED <<rows, view, edits>>

(* The item of row i still holds the data that was prepared.               *)
ItemUnchanged(edited, i) == i \notin edited

WriteRow(b) ==
  LET i == bulk[b].i
      id == bulk[b].ids[i]
      how == bulk[b].ops[i]
  IN /\ bulk[b].pc = "write" /\ i <= Len(bulk[b].ids)
     /\ \/ /\ how = "create" => view[id] = None /\ ItemUnchanged(bulk[b].edited, i)
           /\ how \in {"update", "delete"} => view[id] # None
           /\ view' = CASE how = "absent" -> view
                        [] how = "delete" -> [view EXCEPT ![id] = None]
                        [] OTHER -> [view EXCEPT ![id] = b]
           \* writePreparedSave replaces the item's data by the prepared data
           /\ bulk' = [bulk EXCEPT ![b].i = @ + 1,
                        ![b].edited = IF how = "update" THEN @ \ {i} ELSE @]
           /\ UNCHANGED tx
        \/ Fail(b) /\ UNCHANGED view      \* conflict, missing row or a failing store
     /\ UNCHANGED <<rows, edits>>

Written(b) ==
  /\ bulk[b].pc = "write" /\ bulk[b].i > Len(bulk[b].ids)
  /\ bulk' = [bulk EXCEPT ![b].pc = "finish", ![b].i = 1]
  /\ UNCHANGED <<rows, view, tx, edits>>

(* The after hooks of row i get its item and may change it; the item is    *)
(* compared with the committed data after them.                            *)
FinishRow(b) ==
  LET i == bulk[b].i
      item == bulk[b].ops[i] \in {"create", "update"}
  IN /\ bulk[b].pc = "finish" /\ i <= Len(bulk[b].ids)
     /\ \/ \E edit \in {{}, {i}} :
             /\ edit # {} => item /\ edits < MaxEdits
             /\ item => ItemUnchanged(bulk[b].edited \cup edit, i)
             /\ bulk' = [bulk EXCEPT ![b].i = @ + 1, ![b].edited = @ \cup edit]
             /\ edits' = edits + Cardinality(edit)
             /\ UNCHANGED tx
        \/ Fail(b) /\ UNCHANGED edits
     /\ UNCHANGED <<rows, view>>

Finished(b) ==
  /\ bulk[b].pc = "finish" /\ bulk[b].i > Len(bulk[b].ids)
  /\ bulk' = [bulk EXCEPT ![b].pc = "ended", ![b].told = "ok"]
  /\ UNCHANGED <<rows, view, tx, edits>>

-----------------------------------------------------------------------------
(* The callback returns, having awaited and caught whatever it liked, or   *)
(* throws; no operation starts after that, those running are waited for.   *)
CallbackEnds ==
  /\ tx.pc = "open"
  /\ \E how \in {"finished", "rolled back"} : tx' = [tx EXCEPT !.pc = how]
  /\ UNCHANGED <<rows, view, bulk, edits>>

waitForContextOperations == \A b \in Bulks : ~Running(b)

Commit ==
  /\ tx.pc = "finished" /\ waitForContextOperations /\ ~tx.rollbackOnly
  /\ rows' = view
  /\ tx' = [tx EXCEPT !.pc = "committed"]
  /\ UNCHANGED <<view, bulk, edits>>

Rollback ==
  /\ \/ tx.pc = "finished" /\ tx.rollbackOnly
     \/ tx.pc = "rolled back"
  /\ waitForContextOperations
  /\ view' = rows
  /\ tx' = [tx EXCEPT !.pc = "aborted"]
  /\ UNCHANGED <<rows, bulk, edits>>

Next ==
  \/ \E b \in Bulks :
       \/ \E ids \in Inputs : createMany(b, ids) \/ upsertMany(b, ids) \/ deleteMany(b, ids)
       \/ Prepare(b) \/ Prepared(b) \/ WriteRow(b) \/ Written(b) \/ FinishRow(b) \/ Finished(b)
  \/ CallbackEnds \/ Commit \/ Rollback

Spec == Init /\ [][Next]_vars

-----------------------------------------------------------------------------
(* Properties                                                              *)

(* A commit publishes every row of every bulk that began, or the row a     *)
(* later bulk wrote over it: a bulk that failed, or that still runs when   *)
(* the callback returned, leaves nothing behind.                           *)
AllOrNothing ==
  tx.pc = "committed" =>
    \A b \in Bulks :
      /\ bulk[b].pc # "new" => bulk[b].told \in {"ok", "refused"}
      /\ bulk[b].told = "ok" =>
           \A i \in 1..Len(bulk[b].ids) :
             bulk[b].ops[i] \in {"create", "update"} =>
               \/ rows[bulk[b].ids[i]] = b
               \/ \E c \in Bulks \ {b} : bulk[c].told = "ok" /\
                    \E j \in 1..Len(bulk[c].ids) : bulk[c].ids[j] = bulk[b].ids[i]

(* The items a bulk returns hold the data of the rows it wrote, although   *)
(* a hook may have changed an item after it was prepared or written.       *)
ItemsMatchRows == \A b \in Bulks : bulk[b].told = "ok" => bulk[b].edited = {}
=============================================================================
