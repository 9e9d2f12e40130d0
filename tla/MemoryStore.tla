---------------------------- MODULE MemoryStore ----------------------------
(***************************************************************************)
(* The in-memory store of adapters/store/memory.ts: direct writes, and     *)
(* snapshot transactions that collect their changes in a private copy and   *)
(* publish them in one step when no row they read by id has changed.        *)
(*                                                                         *)
(* A row is its version number and 0 is the absent row.  Revisions, the     *)
(* counter that orders all changes, are bounded by MaxRowRevision as in     *)
(* the code (MAX_ROW_REVISION), so the exhausted counter is reached.        *)
(***************************************************************************)
EXTENDS Integers, Sequences, FiniteSets, FiniteSetTheorems, TLAPS

CONSTANTS NKeys,            \* the rows are 1..NKeys
          Txs,              \* the transactions, each runs once
          MaxVersion,       \* largest version a write stores
          MaxRowRevision,   \* MAX_ROW_REVISION
          MaxSavepoints,    \* depth of nested savepoints
          MaxOps            \* writes and reads a transaction may issue

MemoryStoreAssumption ==
    /\ NKeys \in Nat \ {0} /\ MaxVersion \in Nat \ {0} /\ IsFiniteSet(Txs)
    /\ MaxRowRevision \in Nat /\ MaxSavepoints \in Nat /\ MaxOps \in Nat

VARIABLES rows,       \* collections
          rev,        \* rowRevisions, 0 when there is none
          tomb,       \* rowRevisionTombstones, 0 when there is none
          gen,        \* rowRevisionGeneration
          snaps,      \* activeTransactionSnapshots: how many began at a revision
          tx          \* the transactions

vars == <<rows, rev, tomb, gen, snaps, tx>>

Keys == 1..NKeys
Versions == 1..MaxVersion
MaybeVersion == 0..MaxVersion          \* an expectedVersion, 0 when undefined
Clean == [op |-> "none", val |-> 0, ev |-> 0]
NoClaim == -1

Idle == [st |-> "idle", ro |-> FALSE, snap |-> 0, ops |-> 0,
         view |-> [k \in Keys |-> 0], dirty |-> [k \in Keys |-> Clean],
         reads |-> {}, points |-> <<>>,
         base |-> [k \in Keys |-> 0], changed |-> {}, seen |-> {},
         claim |-> [k \in Keys |-> NoClaim]]

Ended(outcome) == [Idle EXCEPT !.st = outcome]

Init == /\ rows = [k \in Keys |-> 0]
        /\ rev = [k \in Keys |-> 0]
        /\ tomb = [k \in Keys |-> 0]
        /\ gen = 0
        /\ snaps = [r \in 0..MaxRowRevision |-> 0]
        /\ tx = [t \in Txs |-> Idle]

-----------------------------------------------------------------------------
(* Revisions of rows.                                                       *)

Active == {r \in DOMAIN snaps : snaps[r] > 0}

NoSnapshotBefore(r) == FALSE
hasSnapshotBefore(r) == \E s \in Active : s < r

Exhausted(n) == gen > MaxRowRevision - n

RevisionOf(S, k) == gen + Cardinality({j \in S : j <= k})

(* recordRowRevision for the rows of S, whose new contents are in next.     *)
RecordRowRevision(S, next) ==
    /\ gen' = gen + Cardinality(S)
    /\ rows' = next
    /\ rev' = [k \in Keys |->
                 IF k \notin S THEN rev[k]
                 ELSE IF next[k] # 0 \/ hasSnapshotBefore(RevisionOf(S, k))
                      THEN RevisionOf(S, k) ELSE 0]
    /\ tomb' = [k \in Keys |->
                 IF k \notin S THEN tomb[k]
                 ELSE IF next[k] = 0 /\ hasSnapshotBefore(RevisionOf(S, k))
                      THEN RevisionOf(S, k) ELSE 0]

(* Every open transaction remembers which rows changed under it.            *)
Noticed(S) == [t \in Txs |-> IF tx[t].st \in {"open", "failed"}
                             THEN [tx[t] EXCEPT !.changed = @ \cup S] ELSE tx[t]]

Settled(left, r) == \A s \in DOMAIN left : left[s] > 0 => r <= s

(* releaseTransactionSnapshot: one transaction fewer began at revision s.   *)
Released(s) == [snaps EXCEPT ![s] = @ - 1]

(* compactRowRevisionTombstones on the revisions and tombstones a step       *)
(* leaves.                                                                  *)
CompactedLate(left, revs, tombs) == [rev |-> revs, tomb |-> tombs]
Compacted(left, revs, tombs) ==
    [rev  |-> [k \in Keys |-> IF tombs[k] # 0 /\ Settled(left, tombs[k]) /\ revs[k] = tombs[k]
                              THEN 0 ELSE revs[k]],
     tomb |-> [k \in Keys |-> IF tombs[k] # 0 /\ Settled(left, tombs[k]) THEN 0 ELSE tombs[k]]]

VersionMatches(row, ev) == row # 0 /\ row = ev

-----------------------------------------------------------------------------
(* Writes outside a transaction.                                            *)

Mutate(S, next) == /\ ~Exhausted(Cardinality(S))
                   /\ RecordRowRevision(S, next)
                   /\ tx' = Noticed(S)
                   /\ UNCHANGED snaps

Create(k, v) == rows[k] = 0 /\ Mutate({k}, [rows EXCEPT ![k] = v])

Update(k, v, ev) == /\ rows[k] # 0
                    /\ ev # 0 => VersionMatches(rows[k], ev)
                    /\ Mutate({k}, [rows EXCEPT ![k] = v])

Delete(k, ev) == /\ rows[k] # 0
                 /\ ev # 0 => VersionMatches(rows[k], ev)
                 /\ Mutate({k}, [rows EXCEPT ![k] = 0])

(* seed refuses a batch that repeats a row; reset removes every row.        *)
Seed(S, v) == /\ \A k \in S : rows[k] = 0
              /\ Mutate(S, [k \in Keys |-> IF k \in S THEN v ELSE rows[k]])

Reset == LET S == {k \in Keys : rows[k] # 0} IN
         S # {} /\ Mutate(S, [k \in Keys |-> 0])

-----------------------------------------------------------------------------
(* Transactions.                                                            *)

Begin(t, ro) ==
    /\ tx[t].st = "idle"
    /\ tx' = [tx EXCEPT ![t] = [@ EXCEPT !.st = "open", !.ro = ro, !.snap = gen,
                                         !.view = rows, !.base = rows]]
    /\ snaps' = [snaps EXCEPT ![gen] = @ + 1]
    /\ UNCHANGED <<rows, rev, tomb, gen>>

Op(t) == tx[t].st = "open" /\ tx[t].ops < MaxOps

(* A write of t: its private copy, its dirty changes and the version its     *)
(* first write of the row relies on.                                        *)
Write(t, k, v, change, ev) ==
    /\ LET x == tx[t] IN
       tx' = [tx EXCEPT ![t] = [x EXCEPT
                !.view = [x.view EXCEPT ![k] = v], !.dirty = [x.dirty EXCEPT ![k] = change],
                !.ops = x.ops + 1,
                !.claim = [x.claim EXCEPT ![k] = IF @ = NoClaim THEN ev ELSE @]]]
    /\ UNCHANGED <<rows, rev, tomb, gen, snaps>>

Change(op, v, ev) == [op |-> op, val |-> v, ev |-> ev]

markCreate(cur, v) == IF cur.op = "delete" THEN Change("update", v, cur.ev)
                      ELSE Change("create", v, 0)

markUpdate(cur, v, ev) ==
    CASE cur.op = "create" -> Change("create", v, 0)
      [] cur.op \in {"update", "delete"} -> Change("update", v, cur.ev)
      [] OTHER -> Change("update", v, ev)

markDelete(cur, existed, ev) ==
    CASE cur.op = "create" -> Clean
      [] ~existed /\ cur.op = "none" -> Clean
      [] cur.op \in {"update", "delete"} -> Change("delete", 0, cur.ev)
      [] OTHER -> Change("delete", 0, ev)

(* A read by id is recorded; queries and aggregates read the private copy   *)
(* and leave no trace.                                                      *)
TxGet(t, S) ==
    /\ Op(t)
    /\ LET x == tx[t] IN
       tx' = [tx EXCEPT ![t] = [x EXCEPT !.reads = x.reads \cup S, !.seen = x.seen \cup S,
                                         !.ops = x.ops + 1]]
    /\ UNCHANGED <<rows, rev, tomb, gen, snaps>>

TxCreate(t, k, v) == /\ Op(t) /\ ~tx[t].ro /\ tx[t].view[k] = 0
                     /\ Write(t, k, v, markCreate(tx[t].dirty[k], v), 0)

TxUpdate(t, k, v, ev) == /\ Op(t) /\ ~tx[t].ro /\ tx[t].view[k] # 0
                         /\ ev # 0 => VersionMatches(tx[t].view[k], ev)
                         /\ Write(t, k, v, markUpdate(tx[t].dirty[k], v, ev), ev)

TxDelete(t, k, ev) == /\ Op(t) /\ ~tx[t].ro
                      /\ ev # 0 => VersionMatches(tx[t].view[k], ev)
                      /\ Write(t, k, 0, markDelete(tx[t].dirty[k], tx[t].view[k] # 0, ev), ev)

Checkpoint(x) == [view |-> x.view, dirty |-> x.dirty, reads |-> x.reads,
                  seen |-> x.seen, claim |-> x.claim]

Savepoint(t) ==
    /\ Op(t) /\ Len(tx[t].points) < MaxSavepoints
    /\ LET x == tx[t] IN
       tx' = [tx EXCEPT ![t] = [x EXCEPT !.points = Append(x.points, Checkpoint(x)),
                                         !.ops = x.ops + 1]]
    /\ UNCHANGED <<rows, rev, tomb, gen, snaps>>

Unnested(s) == SubSeq(s, 1, Len(s) - 1)

SavepointReturns(t) ==
    /\ tx[t].st = "open" /\ tx[t].points # <<>>
    /\ tx' = [tx EXCEPT ![t] = [tx[t] EXCEPT !.points = Unnested(tx[t].points)]]
    /\ UNCHANGED <<rows, rev, tomb, gen, snaps>>

Restored(x, p) == [x EXCEPT !.view = p.view, !.dirty = p.dirty, !.reads = p.reads]

SavepointThrows(t) ==
    /\ tx[t].st = "open" /\ tx[t].points # <<>>
    /\ LET x == tx[t]
           p == x.points[Len(x.points)]
       IN tx' = [tx EXCEPT ![t] = [Restored(x, p) EXCEPT
                   !.seen = p.seen, !.claim = p.claim, !.points = Unnested(x.points)]]
    /\ UNCHANGED <<rows, rev, tomb, gen, snaps>>

-----------------------------------------------------------------------------
(* Commit: applyDirty checks every change and every read, then publishes.   *)

ChangeRefused(k, c) ==
    \/ c.op = "create" /\ rows[k] # 0
    \/ c.op = "update" /\ rows[k] = 0
    \/ c.op \in {"update", "delete"} /\ c.ev # 0 /\ ~VersionMatches(rows[k], c.ev)

ReadConflict(x, k) == rev[k] # 0 /\ rev[k] > x.snap

Refused(x) == \/ \E k \in Keys : ChangeRefused(k, x.dirty[k])
              \/ \E k \in x.reads : ReadConflict(x, k)

Mutations(x) == {k \in Keys : \/ x.dirty[k].op \in {"create", "update"}
                              \/ x.dirty[k].op = "delete" /\ rows[k] # 0}

Published(x) == [k \in Keys |-> IF x.dirty[k].op = "none" THEN rows[k] ELSE x.dirty[k].val]

(* applyDirty and the release of the snapshot happen without an await; the  *)
(* own snapshot still counts while the revisions are recorded.              *)
Commit(t) ==
    LET x == tx[t]
        S == Mutations(x)
        next == Published(x)
        left == Released(x.snap)
        revs == [k \in Keys |-> IF k \in S THEN RevisionOf(S, k) ELSE rev[k]]
        tombs == [k \in Keys |-> IF k \notin S THEN tomb[k]
                                 ELSE IF next[k] = 0 THEN RevisionOf(S, k) ELSE 0]
        done == Compacted(left, revs, tombs)
    IN /\ x.st = "open" /\ x.points = <<>>
       /\ ~Refused(x) /\ ~Exhausted(Cardinality(S))
       /\ rows' = next /\ rev' = done.rev /\ tomb' = done.tomb
       /\ gen' = gen + Cardinality(S)
       /\ snaps' = left
       /\ tx' = [Noticed(S) EXCEPT ![t] = Ended("committed")]

(* The callback throws, or applyDirty does: the error waits for the calls    *)
(* that are still pending before the snapshot is released.                  *)
Throw(t) == /\ tx[t].st = "open"
            /\ tx' = [tx EXCEPT ![t].st = "failed"]
            /\ UNCHANGED <<rows, rev, tomb, gen, snaps>>

CommitThrows(t) ==
    /\ tx[t].st = "open" /\ tx[t].points = <<>>
    /\ Refused(tx[t]) \/ Exhausted(Cardinality(Mutations(tx[t])))
    /\ tx' = [tx EXCEPT ![t].st = IF Refused(tx[t]) THEN "conflict" ELSE "unconfirmed"]
    /\ UNCHANGED <<rows, rev, tomb, gen, snaps>>

Release(t) ==
    LET left == Released(tx[t].snap)
        done == Compacted(left, rev, tomb)
    IN /\ tx[t].st \in {"failed", "conflict", "unconfirmed"}
       /\ snaps' = left /\ rev' = done.rev /\ tomb' = done.tomb
       /\ tx' = [tx EXCEPT ![t] = Ended("rolledback")]
       /\ UNCHANGED <<rows, gen>>

-----------------------------------------------------------------------------
Direct == \/ \E k \in Keys, v \in Versions : Create(k, v)
          \/ \E k \in Keys, v \in Versions, ev \in MaybeVersion : Update(k, v, ev)
          \/ \E k \in Keys, ev \in MaybeVersion : Delete(k, ev)
          \/ \E S \in SUBSET Keys \ {{}}, v \in Versions : Seed(S, v)
          \/ Reset

TxStep(t) == \/ \E ro \in BOOLEAN : Begin(t, ro)
             \/ \E S \in SUBSET Keys \ {{}} : TxGet(t, S)
             \/ \E k \in Keys, v \in Versions : TxCreate(t, k, v)
             \/ \E k \in Keys, v \in Versions, ev \in MaybeVersion : TxUpdate(t, k, v, ev)
             \/ \E k \in Keys, ev \in MaybeVersion : TxDelete(t, k, ev)
             \/ Savepoint(t) \/ SavepointReturns(t) \/ SavepointThrows(t)
             \/ Commit(t) \/ CommitThrows(t) \/ Throw(t) \/ Release(t)

Next == Direct \/ \E t \in Txs : TxStep(t)

Spec == Init /\ [][Next]_vars

-----------------------------------------------------------------------------
Holding == {t \in Txs : tx[t].st \notin {"idle", "committed", "rolledback"}}

(* The revision maps agree with the rows: a stored row has a revision and   *)
(* no tombstone, a tombstone is the revision of an absent row, and the      *)
(* snapshot counters count the running transactions.                        *)
TypeOK ==
    /\ rows \in [Keys -> 0..MaxVersion] /\ gen \in 0..MaxRowRevision
    /\ \A k \in Keys : /\ rev[k] \in 0..gen
                       /\ rows[k] # 0 => rev[k] # 0 /\ tomb[k] = 0
                       /\ rows[k] = 0 => tomb[k] = rev[k]
    /\ \A r \in DOMAIN snaps : snaps[r] = Cardinality({t \in Holding : tx[t].snap = r})

(* A transaction that commits has read rows that nobody changed since it     *)
(* began, a row deleted and created again included; reads of a savepoint     *)
(* that was rolled back are not held against it (applyDirty).               *)
ReadsUnchanged ==
    \A t \in Txs : tx[t].st = "open" /\ tx'[t].st = "committed"
                     => tx[t].seen \cap tx[t].changed = {}

(* Nothing is left of a deleted row once no running transaction began        *)
(* before the deletion (compactRowRevisionTombstones).                      *)
NoResidue ==
    \A k \in Keys : rows[k] = 0 /\ rev[k] # 0
                      => \E t \in Holding : tx[t].snap < rev[k]

(* A commit publishes what the transaction sees: every row it wrote ends as  *)
(* in its private copy or, when it restored what it found, untouched; rows   *)
(* it did not write stay (markCreate, markUpdate, markDelete, applyDirty).  *)
CommitPublishesView ==
    \A t \in Txs : tx[t].st = "open" /\ tx'[t].st = "committed" =>
      \A k \in Keys :
         IF tx[t].claim[k] = NoClaim THEN rows'[k] = rows[k]
         ELSE \/ rows'[k] = tx[t].view[k]
              \/ tx[t].view[k] = tx[t].base[k] /\ rows'[k] = rows[k]

(* The expected version of a transaction's first write of a row holds of     *)
(* the stored row at the moment of the commit, whatever later writes of the  *)
(* same transaction said (markUpdate keeps the first expectedVersion).      *)
ExpectedVersionHolds ==
    \A t \in Txs : tx[t].st = "open" /\ tx'[t].st = "committed" =>
      \A k \in Keys : tx[t].claim[k] > 0 => rows[k] = tx[t].claim[k]

(* A commit is refused only when another writer changed a row the            *)
(* transaction read or wrote: alone, a transaction never conflicts with      *)
(* itself, whatever it created, deleted and created again (markCreate).     *)
NoSpuriousConflict ==
    \A t \in Txs : tx[t].st = "conflict" =>
        tx[t].changed \cap (tx[t].seen \cup {k \in Keys : tx[t].claim[k] # NoClaim}) # {}

-----------------------------------------------------------------------------
(* The proofs, for any number of rows, transactions, versions, revisions     *)
(* and savepoints.                                                          *)

Phases == {"idle", "open", "failed", "conflict", "unconfirmed", "committed", "rolledback"}
Revisions == 0..MaxRowRevision
Contents == [Keys -> MaybeVersion]
Changes == [op : {"none", "create", "update", "delete"}, val : MaybeVersion, ev : MaybeVersion]
Claims == [Keys -> MaybeVersion \cup {NoClaim}]
Points == [view : Contents, dirty : [Keys -> Changes], reads : SUBSET Keys,
           seen : SUBSET Keys, claim : Claims]
Transactions == [st : Phases, ro : BOOLEAN, snap : Revisions, ops : Nat,
                 view : Contents, dirty : [Keys -> Changes], reads : SUBSET Keys,
                 points : Seq(Points), base : Contents, changed : SUBSET Keys,
                 seen : SUBSET Keys, claim : Claims]

TypeInv ==
    /\ rows \in Contents /\ rev \in [Keys -> Nat] /\ tomb \in [Keys -> Nat]
    /\ gen \in Revisions /\ snaps \in [Revisions -> Nat]
    /\ tx \in [Txs -> Transactions]

\* A row has a revision and no tombstone, an absent one the same revision in both maps.
RowsInv ==
    \A k \in Keys : /\ rev[k] <= gen
                    /\ rows[k] # 0 => rev[k] # 0 /\ tomb[k] = 0
                    /\ rows[k] = 0 => tomb[k] = rev[k]

\* The transactions that run and began at revision r, by the counter of snapshots.
Runs(x) == x.st \in {"open", "failed", "conflict", "unconfirmed"}
Began(r) == {t \in Txs : Runs(tx[t]) /\ tx[t].snap = r}
CountInv == /\ \A r \in Revisions : snaps[r] = Cardinality(Began(r))
            /\ \A t \in Txs : tx[t].snap <= gen

\* What the net change c of a row says of the row the transaction sees (v), the one it
\* found (b), and the version its first write relies on.
NetChange(c, v, b, claim) ==
    /\ claim = NoClaim => c.op = "none"
    /\ c.op = "none" => v = b
    /\ c.op \in {"create", "update"} => c.val = v /\ v # 0
    /\ c.op = "delete" => c.val = 0 /\ v = 0
    /\ c.op = "create" => b = 0
    /\ c.op \in {"update", "delete"} => b # 0 /\ (c.ev # 0 => c.ev = b)
    /\ claim > 0 => c.op \in {"update", "delete"} /\ c.ev = claim

\* x is a transaction or a savepoint of one.
Sound(x, base) ==
    /\ x.seen = x.reads
    /\ \A k \in Keys : NetChange(x.dirty[k], x.view[k], base[k], x.claim[k])

Own(x) ==
    x.st = "open" => /\ Sound(x, x.base)
                     /\ \A i \in 1..Len(x.points) : Sound(x.points[i], x.base)

\* The rows that changed under a transaction are those with a revision after its
\* snapshot; the others are as it found them.
Follows(x, now, revs) ==
    x.st = "open" => \A k \in Keys : /\ k \in x.changed <=> revs[k] > x.snap
                                     /\ k \notin x.changed => now[k] = x.base[k]

Justified(x) ==
    x.st = "conflict" => x.changed \cap (x.seen \cup {k \in Keys : x.claim[k] # NoClaim}) # {}

Unstarted(x) == x.st = "idle" => x = Idle

TxsInv == \A t \in Txs : /\ Own(tx[t]) /\ Follows(tx[t], rows, rev)
                         /\ Justified(tx[t]) /\ Unstarted(tx[t])

ResidueInv ==
    \A k \in Keys : rows[k] = 0 /\ rev[k] # 0
                      => \E t \in Txs : Runs(tx[t]) /\ tx[t].snap < rev[k]

StoreInv == TypeInv /\ RowsInv /\ CountInv /\ TxsInv /\ ResidueInv

-----------------------------------------------------------------------------
\* Rows are finitely many, and the rows of S up to k count as one of 1 to their number.
LEMMA Counting ==
    ASSUME MemoryStoreAssumption, NEW S \in SUBSET Keys
    PROVE  /\ Cardinality(S) \in Nat
           /\ \A k \in Keys : Cardinality({j \in S : j <= k}) \in 0..Cardinality(S)
           /\ \A k \in S : Cardinality({j \in S : j <= k}) > 0
<1>1. IsFiniteSet(Keys)
  BY FS_Interval DEF Keys, MemoryStoreAssumption
<1>2. IsFiniteSet(S) /\ Cardinality(S) \in Nat
  BY <1>1, FS_Subset, FS_CardinalityType
<1>3. ASSUME NEW k \in Keys
      PROVE  /\ Cardinality({j \in S : j <= k}) \in 0..Cardinality(S)
             /\ k \in S => Cardinality({j \in S : j <= k}) > 0
  <2> DEFINE P == {j \in S : j <= k}
  <2>1. P \in SUBSET S
    OBVIOUS
  <2>2. k \in S => k \in P
    BY DEF Keys
  <2> HIDE DEF P
  <2>3. IsFiniteSet(P) /\ Cardinality(P) \in Nat /\ Cardinality(P) <= Cardinality(S)
    BY <1>2, <2>1, FS_Subset, FS_CardinalityType
  <2>4. k \in S => Cardinality(P) # 0
    BY <2>2, <2>3, FS_EmptySet
  <2> QED BY <1>2, <2>3, <2>4 DEF P
<1> QED BY <1>2, <1>3

\* The revisions recorded for the rows of S lie between the old and the new generation.
LEMMA Revised ==
    ASSUME MemoryStoreAssumption, StoreInv, NEW S \in SUBSET Keys
    PROVE  /\ gen \in Nat /\ Cardinality(S) \in Nat
           /\ \A k \in Keys : RevisionOf(S, k) \in Nat /\ RevisionOf(S, k) <= gen + Cardinality(S)
           /\ \A k \in S : RevisionOf(S, k) > gen
<1>1. gen \in Nat
  BY DEF StoreInv, TypeInv, Revisions, MemoryStoreAssumption
<1> DEFINE n(k) == Cardinality({j \in S : j <= k})
           c == Cardinality(S)
<1>2. c \in Nat /\ (\A k \in Keys : n(k) \in 0..c) /\ (\A k \in S : n(k) > 0)
  BY Counting
<1>3. \A k \in Keys : RevisionOf(S, k) = gen + n(k)
  BY DEF RevisionOf
<1>4. S \subseteq Keys
  OBVIOUS
<1> HIDE DEF n, c
<1>5. /\ \A k \in Keys : RevisionOf(S, k) \in Nat /\ RevisionOf(S, k) <= gen + c
      /\ \A k \in S : RevisionOf(S, k) > gen
  BY <1>1, <1>2, <1>3, <1>4
<1> QED BY <1>1, <1>2, <1>5 DEF c

\* A counter of snapshots is positive exactly if a transaction that began there runs.
LEMMA Counted ==
    ASSUME IsFiniteSet(Txs), NEW work, NEW left,
           \A t \in Txs : work[t].snap \in Revisions,
           \A r \in Revisions :
               left[r] = Cardinality({t \in Txs : Runs(work[t]) /\ work[t].snap = r})
    PROVE  /\ \A t \in Txs : Runs(work[t]) => left[work[t].snap] > 0
           /\ \A r \in Revisions : left[r] > 0 => \E t \in Txs : Runs(work[t]) /\ work[t].snap = r
<1> DEFINE B(r) == {t \in Txs : Runs(work[t]) /\ work[t].snap = r}
<1>1. ASSUME NEW r \in Revisions
      PROVE  Cardinality(B(r)) \in Nat /\ (Cardinality(B(r)) = 0 <=> B(r) = {})
  <2>1. B(r) \in SUBSET Txs
    OBVIOUS
  <2> HIDE DEF B
  <2> QED BY <2>1, FS_Subset, FS_CardinalityType, FS_EmptySet
<1>2. \A r \in Revisions : left[r] = Cardinality(B(r))
  OBVIOUS
<1>3. \A t \in Txs : Runs(work[t]) => B(work[t].snap) # {} /\ work[t].snap \in Revisions
  OBVIOUS
<1>4. \A r \in Revisions : B(r) # {} => \E t \in Txs : Runs(work[t]) /\ work[t].snap = r
  OBVIOUS
<1> HIDE DEF B
<1>5. \A t \in Txs : Runs(work[t]) => left[work[t].snap] > 0
  BY <1>1, <1>2, <1>3
<1> QED BY <1>1, <1>2, <1>4, <1>5

\* The snapshot of a running transaction is counted now.
LEMMA Snapshots ==
    ASSUME MemoryStoreAssumption, StoreInv
    PROVE  /\ \A t \in Txs : Runs(tx[t]) => snaps[tx[t].snap] > 0
           /\ \A r \in Revisions : snaps[r] > 0 => \E t \in Txs : Runs(tx[t]) /\ tx[t].snap = r
           /\ \A t \in Txs : /\ tx[t] \in Transactions /\ tx[t].snap \in Revisions
                             /\ tx[t].snap \in Nat /\ tx[t].snap <= gen
<1>1. \A t \in Txs : tx[t] \in Transactions
  BY DEF StoreInv, TypeInv
<1>2. \A t \in Txs : tx[t].snap \in Revisions /\ tx[t].snap \in Nat
  BY <1>1 DEF Transactions, Revisions, MemoryStoreAssumption
<1>3. \A r \in Revisions :
          snaps[r] = Cardinality({t \in Txs : Runs(tx[t]) /\ tx[t].snap = r})
  BY DEF StoreInv, CountInv, Began
<1>4. IsFiniteSet(Txs)
  BY DEF MemoryStoreAssumption
<1>5. /\ \A t \in Txs : Runs(tx[t]) => snaps[tx[t].snap] > 0
      /\ \A r \in Revisions : snaps[r] > 0 => \E t \in Txs : Runs(tx[t]) /\ tx[t].snap = r
  BY <1>2, <1>3, <1>4, Counted
<1>6. \A t \in Txs : tx[t].snap <= gen
  BY DEF StoreInv, CountInv
<1> QED BY <1>1, <1>2, <1>5, <1>6

\* The count stays right when no transaction begins or ends.
LEMMA CountKept ==
    ASSUME StoreInv, snaps' = snaps, gen \in Nat, gen' \in Nat, gen <= gen',
           tx \in [Txs -> Transactions],
           \A t \in Txs : tx'[t].snap = tx[t].snap /\ (Runs(tx'[t]) <=> Runs(tx[t]))
    PROVE  CountInv'
<1>1. \A r \in Revisions : Began(r)' = Began(r)
  BY DEF Began
<1>2. \A t \in Txs : tx[t].snap \in Int
  BY DEF Transactions, Revisions
<1> QED BY <1>1, <1>2 DEF StoreInv, CountInv

-----------------------------------------------------------------------------
\* Open transactions notice the rows of S that change: those have a revision after their
\* snapshot, and the others stay as they are.
LEMMA Notices ==
    ASSUME MemoryStoreAssumption, StoreInv, NEW S \in SUBSET Keys, NEW next, NEW revs,
           \A k \in Keys \ S : next[k] = rows[k] /\ revs[k] = rev[k],
           \A k \in S : \A t \in Txs : tx[t].st = "open" => revs[k] > tx[t].snap
    PROVE  /\ Noticed(S) \in [Txs -> Transactions]
           /\ \A t \in Txs : /\ Noticed(S)[t].st = tx[t].st /\ Noticed(S)[t].snap = tx[t].snap
                             /\ Own(Noticed(S)[t]) /\ Follows(Noticed(S)[t], next, revs)
                             /\ Justified(Noticed(S)[t]) /\ Unstarted(Noticed(S)[t])
<1>1. \A t \in Txs : tx[t] \in Transactions
  BY Snapshots
<1>2. \A t \in Txs : Noticed(S)[t] = IF tx[t].st \in {"open", "failed"}
                                    THEN [tx[t] EXCEPT !.changed = tx[t].changed \cup S] ELSE tx[t]
  BY DEF Noticed
<1>3. Noticed(S) = [t \in Txs |-> IF tx[t].st \in {"open", "failed"}
                                  THEN [tx[t] EXCEPT !.changed = tx[t].changed \cup S] ELSE tx[t]]
  BY DEF Noticed
<1>4. ASSUME NEW x \in Transactions
      PROVE  [x EXCEPT !.changed = x.changed \cup S] \in Transactions
  BY DEF Transactions
<1>5. Noticed(S) \in [Txs -> Transactions]
  BY <1>1, <1>3, <1>4
<1>6. ASSUME NEW t \in Txs
      PROVE  /\ Noticed(S)[t].st = tx[t].st /\ Noticed(S)[t].snap = tx[t].snap
             /\ Own(Noticed(S)[t]) /\ Follows(Noticed(S)[t], next, revs)
             /\ Justified(Noticed(S)[t]) /\ Unstarted(Noticed(S)[t])
  <2>1. Own(tx[t]) /\ Follows(tx[t], rows, rev) /\ Justified(tx[t]) /\ Unstarted(tx[t])
    BY DEF StoreInv, TxsInv
  <2>2. CASE tx[t].st \notin {"open", "failed"}
    BY <1>2, <2>1, <2>2 DEF Own, Follows
  <2>3. CASE tx[t].st \in {"open", "failed"}
    <3> DEFINE x == tx[t]
               y == [x EXCEPT !.changed = x.changed \cup S]
    <3>1. Noticed(S)[t] = y
      BY <1>2, <2>3
    <3>2. /\ y.st = x.st /\ y.snap = x.snap /\ y.view = x.view /\ y.dirty = x.dirty
          /\ y.reads = x.reads /\ y.seen = x.seen /\ y.base = x.base /\ y.points = x.points
          /\ y.claim = x.claim /\ y.changed = x.changed \cup S
      BY <1>1 DEF Transactions
    <3> HIDE DEF x, y
    <3>3. Own(y)
      BY <2>1, <3>2 DEF Own, Sound, x
    <3>4. Justified(y) /\ Unstarted(y)
      BY <2>3, <3>2 DEF Justified, Unstarted, x
    <3>5. Follows(y, next, revs)
      <4> SUFFICES ASSUME y.st = "open", NEW k \in Keys
                   PROVE  /\ k \in y.changed <=> revs[k] > y.snap
                          /\ k \notin y.changed => next[k] = y.base[k]
        BY DEF Follows
      <4>1. /\ k \in x.changed <=> rev[k] > x.snap
            /\ k \notin x.changed => rows[k] = x.base[k]
        BY <2>1, <3>2 DEF Follows, x
      <4>2. k \in S => revs[k] > x.snap
        BY <3>2 DEF x
      <4> QED BY <3>2, <4>1, <4>2
    <3> QED BY <3>1, <3>2, <3>3, <3>4, <3>5 DEF x
  <2> QED BY <2>2, <2>3
<1> QED BY <1>5, <1>6

\* A write outside transactions: the rows of S get new revisions, a deleted row keeps
\* its own while a transaction runs that began before, and running transactions notice.
LEMMA MutateStep ==
    ASSUME MemoryStoreAssumption, StoreInv, NEW S \in SUBSET Keys, NEW next \in Contents,
           \A k \in Keys \ S : next[k] = rows[k], Mutate(S, next)
    PROVE  StoreInv'
<1> DEFINE c == Cardinality(S)
           n(k) == RevisionOf(S, k)
<1>1. /\ gen \in Nat /\ gen \in Revisions /\ rows \in Contents /\ rev \in [Keys -> Nat]
      /\ tomb \in [Keys -> Nat] /\ snaps \in [Revisions -> Nat] /\ tx \in [Txs -> Transactions]
  BY Revised DEF StoreInv, TypeInv
<1>2. /\ ~Exhausted(c) /\ RecordRowRevision(S, next) /\ tx' = Noticed(S) /\ snaps' = snaps
  BY DEF Mutate
<1>3. /\ c \in Nat /\ \A k \in Keys : n(k) \in Nat /\ n(k) <= gen + c
      /\ \A k \in S : n(k) > gen
  BY Revised
<1> HIDE DEF c, n
<1>4. gen' = gen + c /\ rows' = next /\ gen' \in Revisions
  BY <1>1, <1>2, <1>3 DEF RecordRowRevision, Exhausted, Revisions, MemoryStoreAssumption, c
<1>5. /\ rev' = [k \in Keys |-> IF k \notin S THEN rev[k]
                                 ELSE IF next[k] # 0 \/ hasSnapshotBefore(n(k)) THEN n(k) ELSE 0]
      /\ tomb' = [k \in Keys |-> IF k \notin S THEN tomb[k]
                                  ELSE IF next[k] = 0 /\ hasSnapshotBefore(n(k)) THEN n(k) ELSE 0]
  BY <1>2 DEF RecordRowRevision, n
<1>6. \A k \in Keys : /\ k \notin S => rev'[k] = rev[k] /\ tomb'[k] = tomb[k]
                      /\ k \in S /\ next[k] # 0 => rev'[k] = n(k) /\ tomb'[k] = 0
                      /\ k \in S /\ next[k] = 0 /\ hasSnapshotBefore(n(k))
                            => rev'[k] = n(k) /\ tomb'[k] = n(k)
                      /\ k \in S /\ next[k] = 0 /\ ~hasSnapshotBefore(n(k))
                            => rev'[k] = 0 /\ tomb'[k] = 0
  BY <1>5
<1>7. rev' \in [Keys -> Nat] /\ tomb' \in [Keys -> Nat]
  BY <1>1, <1>3, <1>5, <1>6
<1>8. \A k \in S : \A t \in Txs : tx[t].st = "open" => rev'[k] > tx[t].snap
  <2> SUFFICES ASSUME NEW k \in S, NEW t \in Txs, tx[t].st = "open"
               PROVE  rev'[k] > tx[t].snap
    OBVIOUS
  <2>1. tx[t].snap \in Nat /\ tx[t].snap <= gen /\ tx[t].snap \in Revisions /\ snaps[tx[t].snap] > 0
    BY Snapshots DEF Runs
  <2>2. tx[t].snap < n(k)
    BY <1>1, <1>3, <2>1
  <2>3. hasSnapshotBefore(n(k))
    BY <1>1, <2>1, <2>2 DEF hasSnapshotBefore, Active
  <2> QED BY <1>3, <1>6, <2>1, <2>2, <2>3
<1>9. /\ tx' \in [Txs -> Transactions]
      /\ \A t \in Txs : /\ tx'[t].snap = tx[t].snap /\ tx'[t].st = tx[t].st
                        /\ Own(tx'[t]) /\ Follows(tx'[t], rows', rev') /\ Justified(tx'[t])
                        /\ Unstarted(tx'[t])
  BY <1>2, <1>4, <1>6, <1>8, Notices
<1>10. TypeInv'
  BY <1>1, <1>2, <1>4, <1>7, <1>9 DEF TypeInv
<1>11. RowsInv'
  <2> SUFFICES ASSUME NEW k \in Keys
               PROVE  /\ rev'[k] <= gen' /\ (rows'[k] # 0 => rev'[k] # 0 /\ tomb'[k] = 0)
                      /\ (rows'[k] = 0 => tomb'[k] = rev'[k])
    BY DEF RowsInv
  <2>1. /\ rev[k] <= gen /\ (rows[k] # 0 => rev[k] # 0 /\ tomb[k] = 0)
        /\ (rows[k] = 0 => tomb[k] = rev[k]) /\ rev[k] \in Nat
    BY <1>1 DEF StoreInv, RowsInv
  <2>2. k \notin S => rows'[k] = rows[k] /\ rev'[k] = rev[k] /\ tomb'[k] = tomb[k]
    BY <1>4, <1>6
  <2> QED BY <1>1, <1>3, <1>4, <1>6, <2>1, <2>2
<1>12. CountInv'
  <2>1. gen' \in Nat /\ gen <= gen'
    BY <1>1, <1>3, <1>4
  <2>2. \A t \in Txs : tx'[t].snap = tx[t].snap /\ (Runs(tx'[t]) <=> Runs(tx[t]))
    BY <1>9 DEF Runs
  <2> QED BY <1>1, <1>2, <2>1, <2>2, CountKept
<1>13. TxsInv'
  BY <1>9 DEF TxsInv
<1>14. ResidueInv'
  <2> SUFFICES ASSUME NEW k \in Keys, rows'[k] = 0, rev'[k] # 0
               PROVE  \E t \in Txs : Runs(tx'[t]) /\ tx'[t].snap < rev'[k]
    BY DEF ResidueInv
  <2>1. \E t \in Txs : Runs(tx[t]) /\ tx[t].snap < rev'[k]
    <3>1. CASE k \notin S
      BY <1>4, <1>6, <3>1 DEF StoreInv, ResidueInv
    <3>2. CASE k \in S
      <4>1. next[k] = 0 /\ hasSnapshotBefore(n(k)) /\ rev'[k] = n(k)
        BY <1>4, <1>6, <3>2
      <4>2. PICK s \in Revisions : snaps[s] > 0 /\ s < n(k)
        BY <1>1, <4>1 DEF hasSnapshotBefore, Active
      <4> QED BY <4>1, <4>2, Snapshots
    <3> QED BY <3>1, <3>2
  <2> QED BY <1>9, <2>1 DEF Runs
<1> QED BY <1>10, <1>11, <1>12, <1>13, <1>14 DEF StoreInv

-----------------------------------------------------------------------------
\* What the invariant says of an open transaction.
LEMMA OpenTransaction ==
    ASSUME MemoryStoreAssumption, StoreInv, NEW t \in Txs, tx[t].st = "open"
    PROVE  /\ tx[t] \in Transactions /\ Sound(tx[t], tx[t].base)
           /\ \A i \in 1..Len(tx[t].points) : /\ Sound(tx[t].points[i], tx[t].base)
                                              /\ tx[t].points[i] \in Points
           /\ \A k \in Keys : /\ k \in tx[t].changed <=> rev[k] > tx[t].snap
                              /\ k \notin tx[t].changed => rows[k] = tx[t].base[k]
<1>1. tx[t] \in Transactions /\ Own(tx[t]) /\ Follows(tx[t], rows, rev)
  BY Snapshots DEF StoreInv, TxsInv
<1>2. tx[t].points \in Seq(Points)
  BY <1>1 DEF Transactions
<1>3. \A i \in 1..Len(tx[t].points) : tx[t].points[i] \in Points
  BY <1>2
<1> QED BY <1>1, <1>3 DEF Own, Follows

\* A step of one running transaction that stays its own: no row and no snapshot changes.
LEMMA PrivateStep ==
    ASSUME MemoryStoreAssumption, StoreInv, NEW t \in Txs, NEW x \in Transactions,
           UNCHANGED <<rows, rev, tomb, gen, snaps>>, tx' = [tx EXCEPT ![t] = x],
           Runs(tx[t]), Runs(x), x.snap = tx[t].snap, Own(x), Justified(x),
           x.st = "open" => /\ tx[t].st = "open" /\ x.base = tx[t].base
                            /\ x.changed = tx[t].changed
    PROVE  StoreInv'
<1>1. gen \in Nat /\ tx \in [Txs -> Transactions]
  BY Revised DEF StoreInv, TypeInv
<1>2. tx'[t] = x /\ \A u \in Txs \ {t} : tx'[u] = tx[u]
  BY <1>1
<1>3. TypeInv' /\ RowsInv'
  BY <1>1 DEF StoreInv, TypeInv, RowsInv
<1>4. \A u \in Txs : tx'[u].snap = tx[u].snap /\ (Runs(tx'[u]) <=> Runs(tx[u]))
  BY <1>2
<1>5. CountInv'
  BY <1>1, <1>4, CountKept
<1>6. Follows(tx[t], rows, rev)
  BY DEF StoreInv, TxsInv
<1>7. Follows(x, rows, rev) /\ Unstarted(x)
  BY <1>6 DEF Follows, Unstarted, Runs
<1>8. TxsInv'
  BY <1>2, <1>7 DEF StoreInv, TxsInv
<1>9. ResidueInv'
  BY <1>4 DEF StoreInv, ResidueInv
<1> QED BY <1>3, <1>5, <1>8, <1>9 DEF StoreInv

-----------------------------------------------------------------------------
\* markCreate keeps the net change true to the row it leaves.
LEMMA MarkCreated ==
    ASSUME NEW c \in Changes, NEW b \in MaybeVersion, NEW cl \in MaybeVersion \cup {NoClaim},
           NEW v \in Versions, NetChange(c, 0, b, cl), MaxVersion \in Nat
    PROVE  /\ markCreate(c, v) \in Changes
           /\ NetChange(markCreate(c, v), v, b, IF cl = NoClaim THEN 0 ELSE cl)
<1>1. v \in MaybeVersion /\ v # 0 /\ 0 \in MaybeVersion /\ c.ev \in MaybeVersion
  BY DEF Versions, MaybeVersion, Changes
<1>2. c.op \in {"none", "delete"}
  BY DEF NetChange, Changes
<1>3. CASE c.op = "delete"
  <2>1. markCreate(c, v) = Change("update", v, c.ev)
    BY <1>3 DEF markCreate
  <2> QED BY <1>1, <1>3, <2>1 DEF Change, Changes, NetChange, NoClaim
<1>4. CASE c.op = "none"
  <2>1. markCreate(c, v) = Change("create", v, 0)
    BY <1>4 DEF markCreate
  <2> QED BY <1>1, <1>4, <2>1 DEF Change, Changes, NetChange, NoClaim
<1> QED BY <1>2, <1>3, <1>4

\* markUpdate keeps the net change true, and the first version relied on.
LEMMA MarkUpdated ==
    ASSUME NEW c \in Changes, NEW w \in MaybeVersion, NEW b \in MaybeVersion,
           NEW cl \in MaybeVersion \cup {NoClaim}, NEW v \in Versions, NEW ev \in MaybeVersion,
           NetChange(c, w, b, cl), w # 0, ev # 0 => ev = w, MaxVersion \in Nat
    PROVE  /\ markUpdate(c, v, ev) \in Changes
           /\ NetChange(markUpdate(c, v, ev), v, b, IF cl = NoClaim THEN ev ELSE cl)
<1>1. v \in MaybeVersion /\ v # 0 /\ 0 \in MaybeVersion /\ c.ev \in MaybeVersion
  BY DEF Versions, MaybeVersion, Changes
<1>2. c.op \in {"none", "create", "update", "delete"}
  BY DEF Changes
<1>3. CASE c.op = "create"
  <2>1. markUpdate(c, v, ev) = Change("create", v, 0)
    BY <1>3 DEF markUpdate
  <2> QED BY <1>1, <1>3, <2>1 DEF Change, Changes, NetChange, NoClaim
<1>4. CASE c.op \in {"update", "delete"}
  <2>1. markUpdate(c, v, ev) = Change("update", v, c.ev)
    BY <1>4 DEF markUpdate
  <2> QED BY <1>1, <1>4, <2>1 DEF Change, Changes, NetChange, NoClaim
<1>5. CASE c.op = "none"
  <2>1. markUpdate(c, v, ev) = Change("update", v, ev)
    BY <1>5 DEF markUpdate
  <2> QED BY <1>1, <1>5, <2>1 DEF Change, Changes, NetChange, NoClaim, MaybeVersion
<1> QED BY <1>2, <1>3, <1>4, <1>5

\* markDelete does, for a row the transaction created itself as well.
LEMMA MarkDeleted ==
    ASSUME NEW c \in Changes, NEW w \in MaybeVersion, NEW b \in MaybeVersion,
           NEW cl \in MaybeVersion \cup {NoClaim}, NEW ev \in MaybeVersion,
           NetChange(c, w, b, cl), ev # 0 => w # 0 /\ ev = w, MaxVersion \in Nat
    PROVE  /\ markDelete(c, w # 0, ev) \in Changes
           /\ NetChange(markDelete(c, w # 0, ev), 0, b, IF cl = NoClaim THEN ev ELSE cl)
<1>1. 0 \in MaybeVersion /\ c.ev \in MaybeVersion
  BY DEF MaybeVersion, Changes
<1>2. c.op \in {"none", "create", "update", "delete"}
  BY DEF Changes
<1>3. CASE c.op = "create"
  <2>1. markDelete(c, w # 0, ev) = Clean
    BY <1>3 DEF markDelete
  <2> QED BY <1>1, <1>3, <2>1 DEF Clean, Changes, NetChange, NoClaim
<1>4. CASE c.op \in {"update", "delete"}
  <2>1. markDelete(c, w # 0, ev) = Change("delete", 0, c.ev)
    BY <1>4 DEF markDelete
  <2> QED BY <1>1, <1>4, <2>1 DEF Change, Changes, NetChange, NoClaim
<1>5. CASE c.op = "none" /\ w = 0
  <2>1. markDelete(c, w # 0, ev) = Clean
    BY <1>5 DEF markDelete
  <2> QED BY <1>1, <1>5, <2>1 DEF Clean, Changes, NetChange, NoClaim
<1>6. CASE c.op = "none" /\ w # 0
  <2>1. markDelete(c, w # 0, ev) = Change("delete", 0, ev)
    BY <1>6 DEF markDelete
  <2> QED BY <1>1, <1>6, <2>1 DEF Change, Changes, NetChange, NoClaim, MaybeVersion
<1> QED BY <1>2, <1>3, <1>4, <1>5, <1>6

\* A write of an open transaction, whatever its change is, if that change is true.
LEMMA WriteStep ==
    ASSUME MemoryStoreAssumption, StoreInv, NEW t \in Txs, NEW k \in Keys, NEW v \in MaybeVersion,
           NEW change \in Changes, NEW ev \in MaybeVersion, Op(t), Write(t, k, v, change, ev),
           NetChange(change, v, tx[t].base[k],
                     IF tx[t].claim[k] = NoClaim THEN ev ELSE tx[t].claim[k])
    PROVE  StoreInv'
<1> DEFINE x == tx[t]
           cl == IF x.claim[k] = NoClaim THEN ev ELSE x.claim[k]
           view == [x.view EXCEPT ![k] = v]
           dirty == [x.dirty EXCEPT ![k] = change]
           claim == [x.claim EXCEPT ![k] = cl]
           ops == x.ops + 1
           y == [x EXCEPT !.view = view, !.dirty = dirty, !.ops = ops, !.claim = claim]
<1>1. x.st = "open" /\ x \in Transactions /\ Sound(x, x.base)
  BY OpenTransaction DEF Op
<1>2. /\ x.view \in Contents /\ x.dirty \in [Keys -> Changes] /\ x.claim \in Claims
      /\ x.ops \in Nat
  BY <1>1 DEF Transactions
<1>3. UNCHANGED <<rows, rev, tomb, gen, snaps>> /\ tx' = [tx EXCEPT ![t] = y]
  BY DEF Write
<1>4. cl \in MaybeVersion \cup {NoClaim}
  BY <1>2 DEF Claims
<1>5. NetChange(change, v, x.base[k], cl)
  OBVIOUS
<1> HIDE DEF cl
<1>6. view \in Contents /\ dirty \in [Keys -> Changes] /\ claim \in Claims
  BY <1>2, <1>4 DEF Contents, Claims
<1>7. \A j \in Keys : NetChange(dirty[j], view[j], x.base[j], claim[j])
  <2>1. \A j \in Keys \ {k} : NetChange(x.dirty[j], x.view[j], x.base[j], x.claim[j])
    BY <1>1 DEF Sound
  <2>2. /\ \A j \in Keys \ {k} : /\ dirty[j] = x.dirty[j] /\ view[j] = x.view[j]
                                 /\ claim[j] = x.claim[j]
        /\ dirty[k] = change /\ view[k] = v /\ claim[k] = cl
    BY <1>2 DEF Contents, Claims
  <2> HIDE DEF dirty, view, claim
  <2> QED BY <1>5, <2>1, <2>2
<1> HIDE DEF view, dirty, claim
<1>8. ops \in Nat
  BY <1>2
<1> HIDE DEF ops
<1>14. y = [x EXCEPT !.view = view, !.dirty = dirty, !.ops = ops, !.claim = claim]
  OBVIOUS
<1> HIDE DEF x, y
<1>9. /\ y \in Transactions /\ y.st = x.st /\ y.snap = x.snap /\ y.base = x.base
      /\ y.changed = x.changed /\ y.points = x.points /\ y.seen = x.seen /\ y.reads = x.reads
      /\ y.view = view /\ y.dirty = dirty /\ y.claim = claim
  BY <1>1, <1>6, <1>8, <1>14 DEF Transactions
<1>10. \A i \in 1..Len(x.points) : Sound(x.points[i], x.base)
  BY <1>1, OpenTransaction DEF x
<1>11. Own(y)
  BY <1>1, <1>7, <1>9, <1>10 DEF Own, Sound
<1>12. Justified(y)
  BY <1>1, <1>9 DEF Justified
<1>13. Runs(x) /\ Runs(y)
  BY <1>1, <1>9 DEF Runs
<1> QED BY <1>1, <1>3, <1>9, <1>11, <1>12, <1>13, PrivateStep DEF x

\* What a write finds of its row: the change so far, which is true.
LEMMA Written ==
    ASSUME MemoryStoreAssumption, StoreInv, NEW t \in Txs, NEW k \in Keys, Op(t)
    PROVE  /\ tx[t].dirty[k] \in Changes /\ tx[t].view[k] \in MaybeVersion
           /\ tx[t].base[k] \in MaybeVersion /\ tx[t].claim[k] \in MaybeVersion \cup {NoClaim}
           /\ NetChange(tx[t].dirty[k], tx[t].view[k], tx[t].base[k], tx[t].claim[k])
           /\ MaxVersion \in Nat /\ 0 \in MaybeVersion /\ Versions \subseteq MaybeVersion
<1>1. tx[t] \in Transactions /\ Sound(tx[t], tx[t].base)
  BY OpenTransaction DEF Op
<1>2. MaxVersion \in Nat /\ 0 \in MaybeVersion /\ Versions \subseteq MaybeVersion
  BY DEF MemoryStoreAssumption, MaybeVersion, Versions
<1> QED BY <1>1, <1>2 DEF Transactions, Contents, Claims, Sound

\* The writes of a transaction keep the invariant: a create,
LEMMA TxCreateStep ==
    ASSUME MemoryStoreAssumption, StoreInv, NEW t \in Txs, NEW k \in Keys, NEW v \in Versions,
           TxCreate(t, k, v)
    PROVE  StoreInv'
<1> DEFINE c == tx[t].dirty[k]
           cl == tx[t].claim[k]
<1>1. Op(t) /\ tx[t].view[k] = 0 /\ Write(t, k, v, markCreate(c, v), 0)
  BY DEF TxCreate
<1>2. /\ markCreate(c, v) \in Changes
      /\ NetChange(markCreate(c, v), v, tx[t].base[k], IF cl = NoClaim THEN 0 ELSE cl)
  BY <1>1, Written, MarkCreated
<1>3. 0 \in MaybeVersion /\ v \in MaybeVersion
  BY <1>1, Written
<1> QED BY <1>1, <1>2, <1>3, WriteStep

\* an update, whatever version it expects,
LEMMA TxUpdateStep ==
    ASSUME MemoryStoreAssumption, StoreInv, NEW t \in Txs, NEW k \in Keys, NEW v \in Versions,
           NEW ev \in MaybeVersion, TxUpdate(t, k, v, ev)
    PROVE  StoreInv'
<1> DEFINE c == tx[t].dirty[k]
           cl == tx[t].claim[k]
<1>1. /\ Op(t) /\ tx[t].view[k] # 0 /\ (ev # 0 => ev = tx[t].view[k])
      /\ Write(t, k, v, markUpdate(c, v, ev), ev)
  BY DEF TxUpdate, VersionMatches
<1>2. /\ markUpdate(c, v, ev) \in Changes
      /\ NetChange(markUpdate(c, v, ev), v, tx[t].base[k], IF cl = NoClaim THEN ev ELSE cl)
  BY <1>1, Written, MarkUpdated
<1>3. v \in MaybeVersion
  BY <1>1, Written
<1> QED BY <1>1, <1>2, <1>3, WriteStep

\* and a delete, of an absent row too.
LEMMA TxDeleteStep ==
    ASSUME MemoryStoreAssumption, StoreInv, NEW t \in Txs, NEW k \in Keys,
           NEW ev \in MaybeVersion, TxDelete(t, k, ev)
    PROVE  StoreInv'
<1> DEFINE c == tx[t].dirty[k]
           cl == tx[t].claim[k]
           w == tx[t].view[k]
<1>1. /\ Op(t) /\ (ev # 0 => w # 0 /\ ev = w)
      /\ Write(t, k, 0, markDelete(c, w # 0, ev), ev)
  BY DEF TxDelete, VersionMatches
<1>2. /\ markDelete(c, w # 0, ev) \in Changes
      /\ NetChange(markDelete(c, w # 0, ev), 0, tx[t].base[k], IF cl = NoClaim THEN ev ELSE cl)
  BY <1>1, Written, MarkDeleted
<1>3. 0 \in MaybeVersion
  BY <1>1, Written
<1> QED BY <1>1, <1>2, <1>3, WriteStep

\* A read leaves the changes of a transaction true.
LEMMA TxGetStep ==
    ASSUME MemoryStoreAssumption, StoreInv, NEW t \in Txs, NEW S \in SUBSET Keys, TxGet(t, S)
    PROVE  StoreInv'
<1> DEFINE x == tx[t]
           reads == x.reads \cup S
           seen == x.seen \cup S
           ops == x.ops + 1
           y == [x EXCEPT !.reads = reads, !.seen = seen, !.ops = ops]
<1>1. x.st = "open" /\ x \in Transactions /\ Sound(x, x.base)
  BY OpenTransaction DEF TxGet, Op
<1>2. reads \in SUBSET Keys /\ seen \in SUBSET Keys /\ ops \in Nat /\ seen = reads
  BY <1>1 DEF Transactions, Sound
<1>3. UNCHANGED <<rows, rev, tomb, gen, snaps>> /\ tx' = [tx EXCEPT ![t] = y]
  BY DEF TxGet
<1>4. \A i \in 1..Len(x.points) : Sound(x.points[i], x.base)
  BY <1>1, OpenTransaction
<1> HIDE DEF reads, seen, ops
<1>5. y = [x EXCEPT !.reads = reads, !.seen = seen, !.ops = ops]
  OBVIOUS
<1> HIDE DEF x, y
<1>6. /\ y \in Transactions /\ y.st = x.st /\ y.snap = x.snap /\ y.base = x.base
      /\ y.changed = x.changed /\ y.points = x.points /\ y.view = x.view /\ y.dirty = x.dirty
      /\ y.claim = x.claim /\ y.seen = seen /\ y.reads = reads
  BY <1>1, <1>2, <1>5 DEF Transactions
<1>7. Own(y) /\ Justified(y) /\ Runs(x) /\ Runs(y)
  BY <1>1, <1>2, <1>4, <1>6 DEF Own, Sound, Justified, Runs
<1> QED BY <1>1, <1>3, <1>6, <1>7, PrivateStep DEF x

\* A savepoint copies what is true of the transaction at that moment.
LEMMA SavepointStep ==
    ASSUME MemoryStoreAssumption, StoreInv, NEW t \in Txs, Savepoint(t)
    PROVE  StoreInv'
<1> DEFINE x == tx[t]
           p == Checkpoint(x)
           points == Append(x.points, p)
           ops == x.ops + 1
           y == [x EXCEPT !.points = points, !.ops = ops]
<1>1. x.st = "open" /\ x \in Transactions /\ Sound(x, x.base)
  BY OpenTransaction DEF Savepoint, Op
<1>2. p \in Points /\ Sound(p, x.base)
  BY <1>1 DEF Checkpoint, Points, Transactions, Sound
<1>3. x.points \in Seq(Points) /\ ops \in Nat
  BY <1>1 DEF Transactions
<1>4. UNCHANGED <<rows, rev, tomb, gen, snaps>> /\ tx' = [tx EXCEPT ![t] = y]
  BY DEF Savepoint
<1>5. \A i \in 1..Len(x.points) : Sound(x.points[i], x.base)
  BY <1>1, OpenTransaction
<1> HIDE DEF p, ops
<1>6. /\ points \in Seq(Points) /\ Len(points) = Len(x.points) + 1
      /\ \A i \in 1..Len(points) : points[i] = IF i <= Len(x.points) THEN x.points[i] ELSE p
  BY <1>2, <1>3
<1>7. \A i \in 1..Len(points) : Sound(points[i], x.base)
  BY <1>2, <1>3, <1>5, <1>6
<1> HIDE DEF points
<1>8. y = [x EXCEPT !.points = points, !.ops = ops]
  OBVIOUS
<1> HIDE DEF x, y
<1>9. /\ y \in Transactions /\ y.st = x.st /\ y.snap = x.snap /\ y.base = x.base
      /\ y.changed = x.changed /\ y.points = points /\ y.view = x.view /\ y.dirty = x.dirty
      /\ y.claim = x.claim /\ y.seen = x.seen /\ y.reads = x.reads
  BY <1>1, <1>3, <1>6, <1>8 DEF Transactions
<1>10. Own(y) /\ Justified(y) /\ Runs(x) /\ Runs(y)
  BY <1>1, <1>7, <1>9 DEF Own, Sound, Justified, Runs
<1> QED BY <1>1, <1>4, <1>9, <1>10, PrivateStep DEF x

\* The savepoints but the last one.
LEMMA UnnestedPoints ==
    ASSUME NEW s \in Seq(Points), s # <<>>
    PROVE  /\ Unnested(s) \in Seq(Points) /\ Len(s) \in 1..Len(s)
           /\ \A i \in 1..Len(Unnested(s)) : i \in 1..Len(s) /\ Unnested(s)[i] = s[i]
BY DEF Unnested

\* A savepoint that returns drops its copy.
LEMMA SavepointReturnsStep ==
    ASSUME MemoryStoreAssumption, StoreInv, NEW t \in Txs, SavepointReturns(t)
    PROVE  StoreInv'
<1> DEFINE x == tx[t]
           points == Unnested(x.points)
           y == [x EXCEPT !.points = points]
<1>1. x.st = "open" /\ x \in Transactions /\ Sound(x, x.base)
  BY OpenTransaction DEF SavepointReturns
<1>2. x.points \in Seq(Points) /\ x.points # <<>>
  BY <1>1 DEF Transactions, SavepointReturns
<1>3. UNCHANGED <<rows, rev, tomb, gen, snaps>> /\ tx' = [tx EXCEPT ![t] = y]
  BY DEF SavepointReturns
<1>4. \A i \in 1..Len(x.points) : Sound(x.points[i], x.base)
  BY <1>1, OpenTransaction
<1>5. points \in Seq(Points) /\ \A i \in 1..Len(points) : Sound(points[i], x.base)
  BY <1>2, <1>4, UnnestedPoints
<1> HIDE DEF points
<1>6. y = [x EXCEPT !.points = points]
  OBVIOUS
<1> HIDE DEF x, y
<1>7. /\ y \in Transactions /\ y.st = x.st /\ y.snap = x.snap /\ y.base = x.base
      /\ y.changed = x.changed /\ y.points = points /\ y.view = x.view /\ y.dirty = x.dirty
      /\ y.claim = x.claim /\ y.seen = x.seen /\ y.reads = x.reads
  BY <1>1, <1>5, <1>6 DEF Transactions
<1>8. Own(y) /\ Justified(y) /\ Runs(x) /\ Runs(y)
  BY <1>1, <1>5, <1>7 DEF Own, Sound, Justified, Runs
<1> QED BY <1>1, <1>3, <1>7, <1>8, PrivateStep DEF x

\* A savepoint that throws goes back to its copy.
LEMMA SavepointThrowsStep ==
    ASSUME MemoryStoreAssumption, StoreInv, NEW t \in Txs, SavepointThrows(t)
    PROVE  StoreInv'
<1> DEFINE x == tx[t]
           p == x.points[Len(x.points)]
           points == Unnested(x.points)
           y == [Restored(x, p) EXCEPT !.seen = p.seen, !.claim = p.claim, !.points = points]
<1>1. x.st = "open" /\ x \in Transactions /\ Sound(x, x.base)
  BY OpenTransaction DEF SavepointThrows
<1>2. x.points \in Seq(Points) /\ x.points # <<>>
  BY <1>1 DEF Transactions, SavepointThrows
<1>3. UNCHANGED <<rows, rev, tomb, gen, snaps>> /\ tx' = [tx EXCEPT ![t] = y]
  BY DEF SavepointThrows
<1>4. \A i \in 1..Len(x.points) : Sound(x.points[i], x.base) /\ x.points[i] \in Points
  BY <1>1, OpenTransaction
<1>5. /\ points \in Seq(Points) /\ \A i \in 1..Len(points) : Sound(points[i], x.base)
      /\ p \in Points /\ Sound(p, x.base)
  BY <1>2, <1>4, UnnestedPoints
<1> HIDE DEF points, p
<1>6. y = [Restored(x, p) EXCEPT !.seen = p.seen, !.claim = p.claim, !.points = points]
  OBVIOUS
<1> HIDE DEF x, y
<1>7. /\ p.view \in Contents /\ p.dirty \in [Keys -> Changes] /\ p.reads \in SUBSET Keys
      /\ p.seen \in SUBSET Keys /\ p.claim \in Claims
  BY <1>5 DEF Points
<1>8. /\ y \in Transactions /\ y.st = x.st /\ y.snap = x.snap /\ y.base = x.base
      /\ y.changed = x.changed /\ y.points = points /\ y.view = p.view /\ y.dirty = p.dirty
      /\ y.claim = p.claim /\ y.seen = p.seen /\ y.reads = p.reads
  BY <1>1, <1>5, <1>6, <1>7 DEF Transactions, Restored
<1>9. Own(y) /\ Justified(y) /\ Runs(x) /\ Runs(y)
  BY <1>1, <1>5, <1>8 DEF Own, Sound, Justified, Runs
<1> QED BY <1>1, <1>3, <1>8, <1>9, PrivateStep DEF x

\* A transaction that stops being open goes on counting, with the outcome o.
LEMMA StopStep ==
    ASSUME MemoryStoreAssumption, StoreInv, NEW t \in Txs, tx[t].st = "open",
           NEW o \in {"failed", "conflict", "unconfirmed"},
           UNCHANGED <<rows, rev, tomb, gen, snaps>>, tx' = [tx EXCEPT ![t].st = o],
           o = "conflict" => tx[t].changed \cap (tx[t].seen
                                 \cup {k \in Keys : tx[t].claim[k] # NoClaim}) # {}
    PROVE  StoreInv'
<1> DEFINE x == tx[t]
           y == [x EXCEPT !.st = o]
<1>1. x \in Transactions
  BY OpenTransaction
<1>2. tx' = [tx EXCEPT ![t] = y]
  OBVIOUS
<1>3. /\ y \in Transactions /\ y.st = o /\ y.snap = x.snap
      /\ y.changed = x.changed /\ y.seen = x.seen /\ y.claim = x.claim
  BY <1>1 DEF Transactions, Phases
<1> HIDE DEF y
<1>4. Own(y) /\ Justified(y) /\ Runs(x) /\ Runs(y)
  BY <1>3 DEF Own, Justified, Runs
<1> QED BY <1>2, <1>3, <1>4, PrivateStep

\* A callback that throws keeps the snapshot counted.
LEMMA ThrowStep ==
    ASSUME MemoryStoreAssumption, StoreInv, NEW t \in Txs, Throw(t)
    PROVE  StoreInv'
BY StopStep DEF Throw

\* A refused commit: the row is one that changed under the transaction, and that the
\* transaction read or wrote.
LEMMA RefusedJustified ==
    ASSUME MemoryStoreAssumption, StoreInv, NEW t \in Txs, tx[t].st = "open", Refused(tx[t])
    PROVE  tx[t].changed \cap (tx[t].seen \cup {k \in Keys : tx[t].claim[k] # NoClaim}) # {}
<1> DEFINE x == tx[t]
<1>1. /\ x \in Transactions /\ Sound(x, x.base)
      /\ \A k \in Keys : /\ k \in x.changed <=> rev[k] > x.snap
                         /\ k \notin x.changed => rows[k] = x.base[k]
  BY OpenTransaction
<1> HIDE DEF x
<1>2. CASE \E k \in Keys : ChangeRefused(k, x.dirty[k])
  <2>1. PICK k \in Keys : ChangeRefused(k, x.dirty[k])
    BY <1>2
  <2>2. NetChange(x.dirty[k], x.view[k], x.base[k], x.claim[k])
    BY <1>1 DEF Sound
  <2>3. k \in x.changed
    BY <1>1, <2>1, <2>2 DEF ChangeRefused, NetChange, VersionMatches
  <2>4. x.claim[k] # NoClaim
    BY <2>1, <2>2 DEF ChangeRefused, NetChange
  <2> QED BY <2>3, <2>4 DEF x
<1>3. CASE \E k \in x.reads : ReadConflict(x, k)
  <2>1. PICK k \in x.reads : rev[k] > x.snap
    BY <1>3 DEF ReadConflict
  <2>2. k \in Keys /\ k \in x.seen
    BY <1>1 DEF Transactions, Sound
  <2> QED BY <1>1, <2>1, <2>2 DEF x
<1> QED BY <1>2, <1>3 DEF Refused, x

\* A commit that is refused, or exhausts the revisions, keeps the invariant.
LEMMA CommitThrowsStep ==
    ASSUME MemoryStoreAssumption, StoreInv, NEW t \in Txs, CommitThrows(t)
    PROVE  StoreInv'
<1> DEFINE o == IF Refused(tx[t]) THEN "conflict" ELSE "unconfirmed"
<1>1. /\ tx[t].st = "open" /\ UNCHANGED <<rows, rev, tomb, gen, snaps>>
      /\ tx' = [tx EXCEPT ![t].st = o]
  BY DEF CommitThrows
<1>2. o = "conflict" => tx[t].changed \cap (tx[t].seen
                            \cup {k \in Keys : tx[t].claim[k] # NoClaim}) # {}
  BY <1>1, RefusedJustified
<1>3. o \in {"failed", "conflict", "unconfirmed"}
  OBVIOUS
<1> HIDE DEF o
<1> QED BY <1>1, <1>2, <1>3, StopStep

-----------------------------------------------------------------------------
\* A transaction that begins is counted at the present revision; it saw no change yet.
LEMMA BeginStep ==
    ASSUME MemoryStoreAssumption, StoreInv, NEW t \in Txs, NEW ro \in BOOLEAN, Begin(t, ro)
    PROVE  StoreInv'
<1> DEFINE y == [Idle EXCEPT !.st = "open", !.ro = ro, !.snap = gen, !.view = rows, !.base = rows]
<1>1. /\ tx[t].st = "idle" /\ gen \in Nat /\ gen \in Revisions /\ rows \in Contents
      /\ tx \in [Txs -> Transactions] /\ snaps \in [Revisions -> Nat]
  BY Revised DEF Begin, StoreInv, TypeInv
<1>2. tx[t] = Idle /\ tx[t].snap = 0
  BY <1>1 DEF StoreInv, TxsInv, Unstarted, Idle
<1>3. tx' = [tx EXCEPT ![t] = y] /\ UNCHANGED <<rows, rev, tomb, gen>>
  BY <1>2 DEF Begin
<1>4. snaps' = [snaps EXCEPT ![gen] = snaps[gen] + 1]
  BY DEF Begin
<1>5. Idle \in Transactions
  BY <1>1, <1>2
<1>6. /\ y \in Transactions /\ y.st = "open" /\ y.snap = gen /\ y.view = rows /\ y.base = rows
      /\ y.dirty = Idle.dirty /\ y.claim = Idle.claim /\ y.seen = Idle.seen
      /\ y.reads = Idle.reads /\ y.points = Idle.points /\ y.changed = Idle.changed
  BY <1>1, <1>5 DEF Transactions, Phases
<1>7. /\ \A k \in Keys : Idle.dirty[k] = Clean /\ Idle.claim[k] = NoClaim
      /\ Idle.seen = {} /\ Idle.reads = {} /\ Idle.points = <<>> /\ Idle.changed = {}
  BY DEF Idle
<1> HIDE DEF y
<1>8. tx'[t] = y /\ \A u \in Txs \ {t} : tx'[u] = tx[u]
  BY <1>1, <1>3
<1>9. \A k \in Keys : rev[k] \in Nat /\ rev[k] <= gen
  BY DEF StoreInv, TypeInv, RowsInv
<1>10. /\ Own(y) /\ Follows(y, rows, rev) /\ Justified(y) /\ Unstarted(y)
  <2>1. Sound(y, y.base) /\ Len(y.points) = 0
    BY <1>6, <1>7 DEF Sound, NetChange, Clean, NoClaim
  <2>2. Follows(y, rows, rev)
    BY <1>1, <1>6, <1>7, <1>9 DEF Follows
  <2> QED BY <1>6, <2>1, <2>2 DEF Own, Justified, Unstarted
<1>11. TxsInv'
  BY <1>3, <1>8, <1>10 DEF StoreInv, TxsInv
<1>12. TypeInv' /\ RowsInv'
  BY <1>1, <1>3, <1>4, <1>6 DEF StoreInv, TypeInv, RowsInv
<1>13. CountInv'
  <2> DEFINE A(r) == {u \in Txs : Runs(tx'[u]) /\ tx'[u].snap = r}
             B(r) == Began(r)
  <2>1. \A r \in Revisions \ {gen} : A(r) = B(r) /\ snaps'[r] = snaps[r]
    BY <1>1, <1>4, <1>6, <1>8 DEF Began, Runs
  <2>2. A(gen) = B(gen) \cup {t} /\ t \notin B(gen) /\ snaps'[gen] = snaps[gen] + 1
    BY <1>1, <1>4, <1>6, <1>8 DEF Began, Runs
  <2>3. IsFiniteSet(B(gen))
    BY FS_Subset DEF Began, MemoryStoreAssumption
  <2>4. Cardinality(B(gen) \cup {t}) = Cardinality(B(gen)) + 1
    BY <2>2, <2>3, FS_AddElement
  <2>5. \A r \in Revisions : snaps[r] = Cardinality(B(r))
    BY DEF StoreInv, CountInv
  <2>6. \A r \in Revisions : Cardinality(A(r)) = Cardinality(Began(r)')
    BY DEF Began
  <2> HIDE DEF A, B
  <2>7. \A r \in Revisions : snaps'[r] = Cardinality(A(r))
    BY <1>1, <2>1, <2>2, <2>4, <2>5
  <2>8. \A u \in Txs : tx'[u].snap <= gen'
    BY <1>1, <1>3, <1>6, <1>8 DEF StoreInv, CountInv
  <2> QED BY <2>6, <2>7, <2>8 DEF CountInv
<1>14. ResidueInv'
  BY <1>1, <1>3, <1>8 DEF StoreInv, ResidueInv, Runs
<1> QED BY <1>11, <1>12, <1>13, <1>14 DEF StoreInv

-----------------------------------------------------------------------------
\* A transaction that ends is counted no longer.
LEMMA EndCounts ==
    ASSUME MemoryStoreAssumption, StoreInv, NEW t \in Txs, Runs(tx[t]),
           NEW work \in [Txs -> Transactions], ~Runs(work[t]),
           \A u \in Txs \ {t} : work[u].st = tx[u].st /\ work[u].snap = tx[u].snap
    PROVE  /\ Released(tx[t].snap) \in [Revisions -> Nat]
           /\ \A r \in Revisions : Released(tx[t].snap)[r]
                    = Cardinality({u \in Txs : Runs(work[u]) /\ work[u].snap = r})
<1> DEFINE A(r) == {u \in Txs : Runs(work[u]) /\ work[u].snap = r}
           B(r) == Began(r)
           s == tx[t].snap
<1>1. snaps \in [Revisions -> Nat] /\ s \in Revisions /\ snaps[s] > 0
  BY Snapshots DEF StoreInv, TypeInv
<1>2. \A r \in Revisions \ {s} : A(r) = B(r)
  BY DEF Began, Runs
<1>3. A(s) = B(s) \ {t} /\ t \in B(s)
  BY DEF Began, Runs
<1>4. IsFiniteSet(B(s))
  BY FS_Subset DEF Began, MemoryStoreAssumption
<1>5. Cardinality(B(s) \ {t}) = Cardinality(B(s)) - 1
  BY <1>3, <1>4, FS_RemoveElement
<1>6. \A r \in Revisions : snaps[r] = Cardinality(B(r))
  BY DEF StoreInv, CountInv
<1>7. Released(s) = [snaps EXCEPT ![s] = snaps[s] - 1]
  BY DEF Released
<1> HIDE DEF A, B, s
<1>8. Released(s) \in [Revisions -> Nat]
  BY <1>1, <1>7
<1>9. \A r \in Revisions : Released(s)[r] = Cardinality(A(r))
  BY <1>1, <1>2, <1>3, <1>5, <1>6, <1>7
<1> QED BY <1>8, <1>9 DEF A, s

\* What a step that ends a transaction leaves to compaction, and what compaction leaves.
Compactable(left, work, next, g, revs, tombs) ==
    /\ left \in [Revisions -> Nat] /\ work \in [Txs -> Transactions] /\ next \in Contents
    /\ g \in Nat /\ revs \in [Keys -> Nat] /\ tombs \in [Keys -> Nat]
    /\ \A r \in Revisions : left[r] = Cardinality({u \in Txs : Runs(work[u]) /\ work[u].snap = r})
    /\ \A k \in Keys : /\ revs[k] <= g /\ (next[k] # 0 => revs[k] # 0 /\ tombs[k] = 0)
                       /\ (next[k] = 0 => tombs[k] = revs[k])
    /\ \A u \in Txs : Follows(work[u], next, revs)

Compact(done, work, next, g) ==
    /\ done.rev \in [Keys -> Nat] /\ done.tomb \in [Keys -> Nat]
    /\ \A k \in Keys : /\ done.rev[k] <= g
                       /\ next[k] # 0 => done.rev[k] # 0 /\ done.tomb[k] = 0
                       /\ next[k] = 0 => done.tomb[k] = done.rev[k]
                       /\ next[k] = 0 /\ done.rev[k] # 0
                            => \E u \in Txs : Runs(work[u]) /\ work[u].snap < done.rev[k]
    /\ \A u \in Txs : Follows(work[u], next, done.rev)

\* Compaction takes away what is left of absent rows when no transaction runs that began
\* before their revisions, and nothing that an open transaction goes by.
LEMMA Compaction ==
    ASSUME MemoryStoreAssumption, NEW left, NEW work, NEW next, NEW g, NEW revs, NEW tombs,
           Compactable(left, work, next, g, revs, tombs)
    PROVE  Compact(Compacted(left, revs, tombs), work, next, g)
<1> DEFINE done == Compacted(left, revs, tombs)
<1>0. /\ left \in [Revisions -> Nat] /\ work \in [Txs -> Transactions] /\ next \in Contents
      /\ g \in Nat /\ revs \in [Keys -> Nat] /\ tombs \in [Keys -> Nat]
      /\ \A r \in Revisions : left[r] = Cardinality({u \in Txs : Runs(work[u]) /\ work[u].snap = r})
      /\ \A k \in Keys : /\ revs[k] <= g /\ (next[k] # 0 => revs[k] # 0 /\ tombs[k] = 0)
                         /\ (next[k] = 0 => tombs[k] = revs[k])
      /\ \A u \in Txs : Follows(work[u], next, revs)
  BY DEF Compactable
<1> DEFINE old(k) == Settled(left, tombs[k])
<1>1. /\ done.rev = [k \in Keys |-> IF tombs[k] # 0 /\ old(k) /\ revs[k] = tombs[k]
                                    THEN 0 ELSE revs[k]]
      /\ done.tomb = [k \in Keys |-> IF tombs[k] # 0 /\ old(k) THEN 0 ELSE tombs[k]]
  BY DEF Compacted
<1> HIDE DEF done
<1>2. \A u \in Txs : work[u] \in Transactions /\ work[u].snap \in Revisions /\ work[u].snap \in Nat
  BY <1>0 DEF Transactions, Revisions, MemoryStoreAssumption
<1>3. /\ \A u \in Txs : Runs(work[u]) => left[work[u].snap] > 0
      /\ \A r \in Revisions : left[r] > 0 => \E u \in Txs : Runs(work[u]) /\ work[u].snap = r
  <2>1. IsFiniteSet(Txs)
    BY DEF MemoryStoreAssumption
  <2> QED BY <1>0, <1>2, <2>1, Counted
<1>4. \A k \in Keys : /\ old(k) \in BOOLEAN
                      /\ old(k) => \A u \in Txs : Runs(work[u]) => tombs[k] <= work[u].snap
                      /\ ~old(k) => \E u \in Txs : Runs(work[u]) /\ work[u].snap < tombs[k]
  <2> SUFFICES ASSUME NEW k \in Keys
               PROVE  /\ old(k) \in BOOLEAN
                      /\ old(k) => \A u \in Txs : Runs(work[u]) => tombs[k] <= work[u].snap
                      /\ ~old(k) => \E u \in Txs : Runs(work[u]) /\ work[u].snap < tombs[k]
    OBVIOUS
  <2>1. old(k) <=> \A s \in Revisions : left[s] > 0 => tombs[k] <= s
    BY <1>0 DEF Settled
  <2>2. old(k) => \A u \in Txs : Runs(work[u]) => tombs[k] <= work[u].snap
    BY <1>0, <1>2, <1>3, <2>1
  <2>3. ~old(k) => \E u \in Txs : Runs(work[u]) /\ work[u].snap < tombs[k]
    <3>1. SUFFICES ASSUME ~old(k)
                   PROVE  \E u \in Txs : Runs(work[u]) /\ work[u].snap < tombs[k]
      OBVIOUS
    <3>2. PICK s \in Revisions : left[s] > 0 /\ ~(tombs[k] <= s)
      BY <2>1, <3>1
    <3>3. s \in Nat /\ tombs[k] \in Nat
      BY <1>0 DEF Revisions
    <3> QED BY <1>3, <3>2, <3>3
  <2>4. old(k) \in BOOLEAN
    BY DEF Settled
  <2> QED BY <2>2, <2>3, <2>4
<1> HIDE DEF old
<1>5. \A k \in Keys : /\ done.rev[k] = IF tombs[k] # 0 /\ old(k) /\ revs[k] = tombs[k]
                                       THEN 0 ELSE revs[k]
                      /\ done.tomb[k] = IF tombs[k] # 0 /\ old(k) THEN 0 ELSE tombs[k]
  BY <1>1
<1>6. done.rev \in [Keys -> Nat] /\ done.tomb \in [Keys -> Nat]
  BY <1>0, <1>1
<1>7. ASSUME NEW k \in Keys
      PROVE  /\ done.rev[k] <= g
             /\ next[k] # 0 => done.rev[k] # 0 /\ done.tomb[k] = 0
             /\ next[k] = 0 => done.tomb[k] = done.rev[k]
             /\ next[k] = 0 /\ done.rev[k] # 0
                  => \E u \in Txs : Runs(work[u]) /\ work[u].snap < done.rev[k]
  <2>1. CASE next[k] # 0
    BY <1>0, <1>5, <2>1
  <2>2. CASE next[k] = 0 /\ tombs[k] # 0 /\ old(k)
    BY <1>0, <1>5, <2>2
  <2>3. CASE next[k] = 0 /\ ~(tombs[k] # 0 /\ old(k))
    BY <1>0, <1>4, <1>5, <2>3
  <2> QED BY <2>1, <2>2, <2>3
<1>8. ASSUME NEW u \in Txs
      PROVE  Follows(work[u], next, done.rev)
  <2>1. SUFFICES ASSUME work[u].st = "open", NEW k \in Keys
                 PROVE  /\ k \in work[u].changed <=> done.rev[k] > work[u].snap
                        /\ k \notin work[u].changed => next[k] = work[u].base[k]
    BY DEF Follows
  <2>2. /\ k \in work[u].changed <=> revs[k] > work[u].snap
        /\ k \notin work[u].changed => next[k] = work[u].base[k]
    BY <1>0, <2>1 DEF Follows
  <2>3. CASE tombs[k] # 0 /\ old(k) /\ revs[k] = tombs[k]
    <3>1. done.rev[k] = 0 /\ revs[k] <= work[u].snap
      BY <1>0, <1>4, <1>5, <2>1, <2>3 DEF Runs
    <3> QED BY <1>0, <1>2, <2>2, <3>1
  <2>4. CASE ~(tombs[k] # 0 /\ old(k) /\ revs[k] = tombs[k])
    <3>1. done.rev[k] = revs[k]
      BY <1>5, <2>4
    <3> QED BY <2>2, <3>1
  <2> QED BY <2>3, <2>4
<1> QED BY <1>6, <1>7, <1>8 DEF done, Compact

\* A transaction that has not begun, or has ended, is one.
LEMMA EndedType ==
    ASSUME MemoryStoreAssumption, NEW o \in {"committed", "rolledback"}
    PROVE  /\ Idle \in Transactions /\ Ended(o) \in Transactions
           /\ Idle.st = "idle" /\ Idle.snap = 0 /\ Ended(o).st = o /\ Ended(o).snap = 0
<1>1. 0 \in MaybeVersion /\ 0 \in Revisions /\ Clean \in Changes
  BY DEF MemoryStoreAssumption, MaybeVersion, Revisions, Clean, Changes
<1> DEFINE dirty == [k \in Keys |-> Clean]
           claim == [k \in Keys |-> NoClaim]
           none == [k \in Keys |-> 0]
<1>2. dirty \in [Keys -> Changes] /\ claim \in Claims /\ none \in Contents
  BY <1>1 DEF Contents, Claims
<1>3. Idle = [st |-> "idle", ro |-> FALSE, snap |-> 0, ops |-> 0, view |-> none,
              dirty |-> dirty, reads |-> {}, points |-> <<>>, base |-> none, changed |-> {},
              seen |-> {}, claim |-> claim]
  BY DEF Idle
<1>4. <<>> \in Seq(Points)
  OBVIOUS
<1> HIDE DEF dirty, claim, none
<1>5. Idle \in Transactions /\ Idle.st = "idle" /\ Idle.snap = 0
  BY <1>1, <1>2, <1>3, <1>4 DEF Transactions, Phases
<1>6. Ended(o) \in Transactions /\ Ended(o).st = o /\ Ended(o).snap = 0
  BY <1>5 DEF Ended, Transactions, Phases
<1> QED BY <1>5, <1>6

\* A transaction ends, with the revisions and tombstones its rows got before compaction.
LEMMA EndStep ==
    ASSUME MemoryStoreAssumption, StoreInv, NEW t \in Txs, Runs(tx[t]),
           NEW o \in {"committed", "rolledback"}, tx' \in [Txs -> Transactions], tx'[t] = Ended(o),
           NEW revs \in [Keys -> Nat], NEW tombs \in [Keys -> Nat], rows' \in Contents,
           gen' \in Revisions, gen <= gen', snaps' = Released(tx[t].snap),
           rev' = Compacted(snaps', revs, tombs).rev, tomb' = Compacted(snaps', revs, tombs).tomb,
           \A k \in Keys : /\ revs[k] <= gen' /\ (rows'[k] # 0 => revs[k] # 0 /\ tombs[k] = 0)
                           /\ (rows'[k] = 0 => tombs[k] = revs[k]),
           \A u \in Txs \ {t} : /\ tx'[u].st = tx[u].st /\ tx'[u].snap = tx[u].snap
                                /\ Own(tx'[u]) /\ Follows(tx'[u], rows', revs)
                                /\ Justified(tx'[u]) /\ Unstarted(tx'[u])
    PROVE  StoreInv'
<1>1. Ended(o).st = o /\ Ended(o).snap = 0 /\ gen \in Nat /\ gen' \in Nat
  <2>1. Ended(o).st = o /\ Ended(o).snap = 0
    BY EndedType
  <2>2. gen \in Nat
    BY Revised
  <2>3. gen' \in Nat
    BY DEF Revisions, MemoryStoreAssumption
  <2> QED BY <2>1, <2>2, <2>3
<1>2. /\ Own(Ended(o)) /\ Follows(Ended(o), rows', revs) /\ Justified(Ended(o))
      /\ Unstarted(Ended(o)) /\ ~Runs(Ended(o))
  BY <1>1 DEF Own, Follows, Justified, Unstarted, Runs
<1>3. /\ snaps' \in [Revisions -> Nat]
      /\ \A r \in Revisions : snaps'[r] = Cardinality({u \in Txs : Runs(tx'[u]) /\ tx'[u].snap = r})
  BY <1>2, EndCounts
<1>4. \A u \in Txs : Follows(tx'[u], rows', revs)
  BY <1>2
<1> DEFINE done == Compacted(snaps', revs, tombs)
<1>5. Compactable(snaps', tx', rows', gen', revs, tombs)
  BY <1>1, <1>3, <1>4 DEF Compactable
<1>6. rev' = done.rev /\ tomb' = done.tomb /\ Compact(done, tx', rows', gen')
  BY <1>5, Compaction
<1> HIDE DEF done
<1>7. TypeInv' /\ RowsInv' /\ ResidueInv'
  BY <1>3, <1>6 DEF TypeInv, RowsInv, ResidueInv, Compact
<1>8. CountInv'
  <2>1. \A u \in Txs : tx'[u].snap <= gen'
    BY <1>1, Snapshots
  <2> QED BY <1>3, <2>1 DEF CountInv, Began
<1>9. TxsInv'
  BY <1>2, <1>6 DEF TxsInv, Compact
<1> QED BY <1>7, <1>8, <1>9 DEF StoreInv

\* The release of a snapshot compacts what only it kept.
LEMMA ReleaseStep ==
    ASSUME MemoryStoreAssumption, StoreInv, NEW t \in Txs, Release(t)
    PROVE  StoreInv'
<1>1. /\ Runs(tx[t]) /\ snaps' = Released(tx[t].snap) /\ rows' = rows /\ gen' = gen
      /\ rev' = Compacted(snaps', rev, tomb).rev /\ tomb' = Compacted(snaps', rev, tomb).tomb
      /\ tx' = [tx EXCEPT ![t] = Ended("rolledback")]
  BY DEF Release, Runs
<1>2. /\ tx \in [Txs -> Transactions] /\ rows \in Contents /\ gen \in Revisions /\ gen \in Nat
      /\ rev \in [Keys -> Nat] /\ tomb \in [Keys -> Nat]
  BY Revised DEF StoreInv, TypeInv
<1>3. Ended("rolledback") \in Transactions
  BY EndedType
<1>4. /\ tx' \in [Txs -> Transactions] /\ tx'[t] = Ended("rolledback")
      /\ \A u \in Txs \ {t} : tx'[u] = tx[u]
  BY <1>1, <1>2, <1>3
<1>5. \A k \in Keys : /\ rev[k] <= gen' /\ (rows'[k] # 0 => rev[k] # 0 /\ tomb[k] = 0)
                      /\ (rows'[k] = 0 => tomb[k] = rev[k])
  BY <1>1 DEF StoreInv, RowsInv
<1>6. \A u \in Txs \ {t} : /\ tx'[u].st = tx[u].st /\ tx'[u].snap = tx[u].snap
                           /\ Own(tx'[u]) /\ Follows(tx'[u], rows', rev)
                           /\ Justified(tx'[u]) /\ Unstarted(tx'[u])
  BY <1>1, <1>4 DEF StoreInv, TxsInv
<1> QED BY <1>1, <1>2, <1>4, <1>5, <1>6, EndStep

\* A commit publishes the changes: their rows get new revisions, and an absent one keeps
\* its revision as long as a transaction runs that began before it.
LEMMA CommitStep ==
    ASSUME MemoryStoreAssumption, StoreInv, NEW t \in Txs, Commit(t)
    PROVE  StoreInv'
<1> DEFINE x == tx[t]
           S == Mutations(x)
           next == Published(x)
           n(k) == RevisionOf(S, k)
           revs == [k \in Keys |-> IF k \in S THEN n(k) ELSE rev[k]]
           tombs == [k \in Keys |-> IF k \notin S THEN tomb[k] ELSE IF next[k] = 0 THEN n(k) ELSE 0]
           done == Compacted(snaps', revs, tombs)
           c == Cardinality(S)
<1>1. /\ x.st = "open" /\ ~Exhausted(c) /\ rows' = next /\ gen' = gen + c
      /\ snaps' = Released(x.snap) /\ rev' = done.rev /\ tomb' = done.tomb
      /\ tx' = [Noticed(S) EXCEPT ![t] = Ended("committed")]
  BY DEF Commit
<1>2. S \in SUBSET Keys
  BY DEF Mutations
<1>3. /\ gen \in Nat /\ c \in Nat /\ \A k \in Keys : n(k) \in Nat /\ n(k) <= gen + c
      /\ \A k \in S : n(k) > gen
  BY <1>2, Revised
<1>4. /\ gen \in Revisions /\ rows \in Contents /\ rev \in [Keys -> Nat]
      /\ tomb \in [Keys -> Nat]
  BY DEF StoreInv, TypeInv
<1>5. x \in Transactions /\ \A k \in Keys : NetChange(x.dirty[k], x.view[k], x.base[k], x.claim[k])
  BY <1>1, OpenTransaction DEF Sound
<1>6. next \in Contents
  <2>1. \A k \in Keys : x.dirty[k].val \in MaybeVersion /\ rows[k] \in MaybeVersion
    BY <1>4, <1>5 DEF Transactions, Changes, Contents
  <2> QED BY <2>1 DEF Published, Contents
<1>7. \A k \in Keys \ S : next[k] = rows[k]
  <2> SUFFICES ASSUME NEW k \in Keys \ S
               PROVE  next[k] = rows[k]
    OBVIOUS
  <2>1. next[k] = IF x.dirty[k].op = "none" THEN rows[k] ELSE x.dirty[k].val
    BY DEF Published
  <2>2. x.dirty[k].op \in {"none", "create", "update", "delete"}
    BY <1>5 DEF Transactions, Changes
  <2>3. x.dirty[k].op \notin {"create", "update"} /\ (x.dirty[k].op = "delete" => rows[k] = 0)
    BY DEF Mutations
  <2> QED BY <1>5, <2>1, <2>2, <2>3 DEF NetChange
<1>8. gen' \in Revisions /\ gen <= gen'
  BY <1>1, <1>3, <1>4 DEF Exhausted, Revisions, MemoryStoreAssumption
<1>9. Ended("committed") \in Transactions
  BY EndedType
<1> HIDE DEF next, n, c, S
<1>10. /\ revs \in [Keys -> Nat] /\ tombs \in [Keys -> Nat]
       /\ \A k \in Keys : /\ revs[k] = IF k \in S THEN n(k) ELSE rev[k]
                          /\ tombs[k] = IF k \notin S THEN tomb[k]
                                        ELSE IF next[k] = 0 THEN n(k) ELSE 0
  BY <1>3, <1>4
<1> HIDE DEF x, revs, tombs
<1>11. \A k \in Keys : /\ revs[k] <= gen' /\ (next[k] # 0 => revs[k] # 0 /\ tombs[k] = 0)
                       /\ (next[k] = 0 => tombs[k] = revs[k])
  <2> SUFFICES ASSUME NEW k \in Keys
               PROVE  /\ revs[k] <= gen' /\ (next[k] # 0 => revs[k] # 0 /\ tombs[k] = 0)
                      /\ (next[k] = 0 => tombs[k] = revs[k])
    OBVIOUS
  <2>1. /\ rev[k] <= gen /\ (rows[k] # 0 => rev[k] # 0 /\ tomb[k] = 0)
        /\ (rows[k] = 0 => tomb[k] = rev[k]) /\ rev[k] \in Nat
    BY <1>4 DEF StoreInv, RowsInv
  <2>2. CASE k \in S
    BY <1>1, <1>3, <1>10, <2>2
  <2>3. CASE k \notin S
    BY <1>1, <1>3, <1>7, <1>10, <2>1, <2>3
  <2> QED BY <2>2, <2>3
<1>12. \A k \in S : \A u \in Txs : tx[u].st = "open" => revs[k] > tx[u].snap
  BY <1>2, <1>3, <1>10, Snapshots
<1>13. \A k \in Keys \ S : next[k] = rows[k] /\ revs[k] = rev[k]
  BY <1>7, <1>10
<1>14. /\ Noticed(S) \in [Txs -> Transactions]
       /\ \A u \in Txs : /\ Noticed(S)[u].st = tx[u].st /\ Noticed(S)[u].snap = tx[u].snap
                         /\ Own(Noticed(S)[u]) /\ Follows(Noticed(S)[u], next, revs)
                         /\ Justified(Noticed(S)[u]) /\ Unstarted(Noticed(S)[u])
  BY <1>2, <1>12, <1>13, Notices
<1>15. /\ tx' \in [Txs -> Transactions] /\ tx'[t] = Ended("committed")
       /\ \A u \in Txs \ {t} : tx'[u] = Noticed(S)[u]
  BY <1>1, <1>9, <1>14
<1>16. Runs(tx[t])
  BY <1>1 DEF Runs, x
<1>17. \A u \in Txs \ {t} : /\ tx'[u].st = tx[u].st /\ tx'[u].snap = tx[u].snap
                            /\ Own(tx'[u]) /\ Follows(tx'[u], rows', revs)
                            /\ Justified(tx'[u]) /\ Unstarted(tx'[u])
  BY <1>1, <1>14, <1>15
<1>18. rows' \in Contents /\ snaps' = Released(tx[t].snap)
  BY <1>1, <1>6 DEF x
<1>19. \A k \in Keys : /\ revs[k] <= gen' /\ (rows'[k] # 0 => revs[k] # 0 /\ tombs[k] = 0)
                       /\ (rows'[k] = 0 => tombs[k] = revs[k])
  BY <1>1, <1>11
<1>20. rev' = Compacted(snaps', revs, tombs).rev /\ tomb' = Compacted(snaps', revs, tombs).tomb
  BY <1>1
<1> QED BY <1>8, <1>10, <1>15, <1>16, <1>17, <1>18, <1>19, <1>20, EndStep

-----------------------------------------------------------------------------
\* Initially there is no row, no revision and no transaction.
LEMMA InitStore == ASSUME MemoryStoreAssumption, Init PROVE StoreInv
<1>1. 0 \in MaybeVersion /\ 0 \in Revisions /\ 0 \in Nat
  BY DEF MemoryStoreAssumption, MaybeVersion, Revisions
<1>2. Idle \in Transactions /\ Idle.st = "idle" /\ Idle.snap = 0
  BY EndedType
<1>3. tx \in [Txs -> Transactions] /\ \A t \in Txs : tx[t] = Idle
  BY <1>2 DEF Init
<1>4. TypeInv
  BY <1>1, <1>3 DEF Init, TypeInv, Contents, Revisions
<1>5. RowsInv /\ ResidueInv
  BY <1>1 DEF Init, RowsInv, ResidueInv
<1>6. CountInv
  <2>1. \A r \in Revisions : Began(r) = {} /\ snaps[r] = 0
    BY <1>2, <1>3 DEF Began, Runs, Init, Revisions
  <2>2. gen = 0
    BY DEF Init
  <2> QED BY <1>2, <1>3, <2>1, <2>2, FS_EmptySet DEF CountInv
<1>7. TxsInv
  BY <1>2, <1>3 DEF TxsInv, Own, Follows, Justified, Unstarted
<1> QED BY <1>4, <1>5, <1>6, <1>7 DEF StoreInv

\* Writes outside transactions.
LEMMA DirectStep == ASSUME MemoryStoreAssumption, StoreInv, Direct PROVE StoreInv'
<1>1. rows \in Contents /\ 0 \in MaybeVersion /\ Versions \subseteq MaybeVersion
  BY DEF StoreInv, TypeInv, MemoryStoreAssumption, MaybeVersion, Versions
<1>2. ASSUME NEW k \in Keys, NEW v \in MaybeVersion, Mutate({k}, [rows EXCEPT ![k] = v])
      PROVE  StoreInv'
  <2>1. [rows EXCEPT ![k] = v] \in Contents
    BY <1>1 DEF Contents
  <2>2. \A j \in Keys \ {k} : [rows EXCEPT ![k] = v][j] = rows[j]
    BY <1>1 DEF Contents
  <2> QED BY <1>2, <2>1, <2>2, MutateStep
<1>3. ASSUME NEW k \in Keys, NEW v \in Versions, Create(k, v)
      PROVE  StoreInv'
  BY <1>1, <1>2, <1>3 DEF Create
<1>4. ASSUME NEW k \in Keys, NEW v \in Versions, NEW ev \in MaybeVersion, Update(k, v, ev)
      PROVE  StoreInv'
  BY <1>1, <1>2, <1>4 DEF Update
<1>5. ASSUME NEW k \in Keys, NEW ev \in MaybeVersion, Delete(k, ev)
      PROVE  StoreInv'
  BY <1>1, <1>2, <1>5 DEF Delete
<1>6. ASSUME NEW S \in SUBSET Keys, NEW v \in Versions, Seed(S, v)
      PROVE  StoreInv'
  <2> DEFINE next == [k \in Keys |-> IF k \in S THEN v ELSE rows[k]]
  <2>1. next \in Contents /\ \A k \in Keys \ S : next[k] = rows[k]
    BY <1>1 DEF Contents
  <2>2. Mutate(S, next)
    BY <1>6 DEF Seed
  <2> QED BY <2>1, <2>2, MutateStep
<1>7. ASSUME Reset
      PROVE  StoreInv'
  <2> DEFINE S == {k \in Keys : rows[k] # 0}
             next == [k \in Keys |-> 0]
  <2>1. S \in SUBSET Keys /\ next \in Contents /\ \A k \in Keys \ S : next[k] = rows[k]
    BY <1>1 DEF Contents
  <2>2. Mutate(S, next)
    BY <1>7 DEF Reset
  <2> QED BY <2>1, <2>2, MutateStep
<1> QED BY <1>3, <1>4, <1>5, <1>6, <1>7 DEF Direct

\* Every step of the store keeps the invariant.
LEMMA StepStore == ASSUME MemoryStoreAssumption, StoreInv, [Next]_vars PROVE StoreInv'
<1>1. CASE UNCHANGED vars
  BY <1>1 DEF vars, StoreInv, TypeInv, RowsInv, CountInv, Began, TxsInv, ResidueInv
<1>2. CASE Direct
  BY <1>2, DirectStep
<1>3. ASSUME NEW t \in Txs, TxStep(t)
      PROVE  StoreInv'
  <2>1. CASE \E ro \in BOOLEAN : Begin(t, ro)
    BY <2>1, BeginStep
  <2>2. CASE \E S \in SUBSET Keys \ {{}} : TxGet(t, S)
    BY <2>2, TxGetStep
  <2>3. CASE \E k \in Keys, v \in Versions : TxCreate(t, k, v)
    BY <2>3, TxCreateStep
  <2>4. CASE \E k \in Keys, v \in Versions, ev \in MaybeVersion : TxUpdate(t, k, v, ev)
    BY <2>4, TxUpdateStep
  <2>5. CASE \E k \in Keys, ev \in MaybeVersion : TxDelete(t, k, ev)
    BY <2>5, TxDeleteStep
  <2>6. CASE Savepoint(t) \/ SavepointReturns(t) \/ SavepointThrows(t)
    BY <2>6, SavepointStep, SavepointReturnsStep, SavepointThrowsStep
  <2>7. CASE Commit(t) \/ CommitThrows(t) \/ Throw(t) \/ Release(t)
    BY <2>7, CommitStep, CommitThrowsStep, ThrowStep, ReleaseStep
  <2> QED BY <1>3, <2>1, <2>2, <2>3, <2>4, <2>5, <2>6, <2>7 DEF TxStep
<1> QED BY <1>1, <1>2, <1>3 DEF Next

\* The invariant of the store holds in every behaviour, for any number of rows,
\* transactions, versions, revisions and nested savepoints.
THEOREM StoreSafe == ASSUME MemoryStoreAssumption PROVE Spec => []StoreInv
<1>1. Init => StoreInv
  BY InitStore
<1>2. StoreInv /\ [Next]_vars => StoreInv'
  BY StepStore
<1> QED BY <1>1, <1>2, PTL DEF Spec

\* TypeOK and NoResidue: the revision maps agree with the rows, the snapshot counters count
\* the running transactions, and nothing is left of a deleted row that no transaction can
\* still conflict with (recordRowRevision, compactRowRevisionTombstones).
THEOREM RevisionsAgree == ASSUME MemoryStoreAssumption PROVE Spec => [](TypeOK /\ NoResidue)
<1>1. ASSUME StoreInv PROVE TypeOK /\ NoResidue
  <2>1. \A t \in Txs : tx[t].st \in Phases
    BY <1>1 DEF StoreInv, TypeInv, Transactions
  <2>2. \A t \in Txs : t \in Holding <=> Runs(tx[t])
    BY <2>1 DEF Holding, Runs, Phases
  <2>3. \A r : {t \in Holding : tx[t].snap = r} = Began(r)
    BY <2>2 DEF Holding, Began
  <2>4. /\ rows \in [Keys -> 0..MaxVersion] /\ gen \in 0..MaxRowRevision /\ gen \in Nat
        /\ \A k \in Keys : rev[k] \in Nat
    BY <1>1, Revised DEF StoreInv, TypeInv, Contents, MaybeVersion, Revisions
  <2>5. \A k \in Keys : /\ rev[k] \in 0..gen
                        /\ rows[k] # 0 => rev[k] # 0 /\ tomb[k] = 0
                        /\ rows[k] = 0 => tomb[k] = rev[k]
    BY <1>1, <2>4 DEF StoreInv, RowsInv
  <2>6. \A r \in DOMAIN snaps : snaps[r] = Cardinality({t \in Holding : tx[t].snap = r})
    <3>1. \A r \in DOMAIN snaps : snaps[r] = Cardinality(Began(r))
      BY <1>1 DEF StoreInv, TypeInv, CountInv
    <3> QED BY <2>3, <3>1
  <2>7. TypeOK
    BY <2>4, <2>5, <2>6 DEF TypeOK
  <2>8. NoResidue
    BY <1>1, <2>2 DEF StoreInv, ResidueInv, NoResidue
  <2> QED BY <2>7, <2>8
<1> QED BY <1>1, StoreSafe, PTL

\* NoSpuriousConflict: a commit is refused only when another writer changed a row that the
\* transaction read or wrote (markCreate, markUpdate and markDelete keep the net change).
THEOREM ConflictsHaveAWriter == ASSUME MemoryStoreAssumption PROVE Spec => []NoSpuriousConflict
<1>1. StoreInv => NoSpuriousConflict
  BY DEF StoreInv, TxsInv, Justified, NoSpuriousConflict
<1> QED BY <1>1, StoreSafe, PTL

\* The step in which a transaction commits is Commit, with no change and no read refused.
LEMMA CommitsInOneStep ==
    ASSUME MemoryStoreAssumption, StoreInv, [Next]_vars, NEW t \in Txs,
           tx[t].st = "open", tx'[t].st = "committed"
    PROVE  Commit(t)
<1>1. \A u \in Txs : tx[u] \in Transactions
  BY Snapshots
<1>2. \A S \in SUBSET Keys : Noticed(S)[t].st = "open"
  BY <1>1 DEF Noticed, Transactions
<1>3. CASE UNCHANGED vars
  BY <1>3 DEF vars
<1>4. CASE Direct
  <2>1. \E S \in SUBSET Keys : tx' = Noticed(S)
    <3>1. \A k \in Keys : {k} \in SUBSET Keys
      OBVIOUS
    <3>2. {k \in Keys : rows[k] # 0} \in SUBSET Keys
      OBVIOUS
    <3> QED BY <1>4, <3>1, <3>2 DEF Direct, Create, Update, Delete, Seed, Reset, Mutate
  <2> QED BY <1>2, <2>1
<1>5. ASSUME NEW u \in Txs, TxStep(u), ~Commit(t)
      PROVE  FALSE
  <2>1. CASE Commit(u)
    <3>1. u # t /\ tx' = [Noticed(Mutations(tx[u])) EXCEPT ![u] = Ended("committed")]
      BY <1>5, <2>1 DEF Commit
    <3>2. Mutations(tx[u]) \in SUBSET Keys /\ t \in DOMAIN Noticed(Mutations(tx[u]))
      BY DEF Mutations, Noticed
    <3> QED BY <1>2, <3>1, <3>2
  <2>2. ASSUME NEW y, tx' = [tx EXCEPT ![u] = y], y.st # "committed"
        PROVE  FALSE
    <3>1. tx \in [Txs -> Transactions]
      BY DEF StoreInv, TypeInv
    <3> QED BY <2>2, <3>1
  <2>3. CASE \E ro \in BOOLEAN : Begin(u, ro)
    <3>1. PICK ro \in BOOLEAN : Begin(u, ro)
      BY <2>3
    <3> DEFINE y == [tx[u] EXCEPT !.st = "open", !.ro = ro, !.snap = gen, !.view = rows, !.base = rows]
    <3>2. y.st = "open" /\ tx' = [tx EXCEPT ![u] = y]
      BY <1>1, <3>1 DEF Begin, Transactions
    <3> HIDE DEF y
    <3> QED BY <2>2, <3>2
  <2>4. CASE \E S \in SUBSET Keys \ {{}} : TxGet(u, S)
    <3>1. PICK S \in SUBSET Keys : TxGet(u, S)
      BY <2>4
    <3> DEFINE y == [tx[u] EXCEPT !.reads = tx[u].reads \cup S, !.seen = tx[u].seen \cup S,
                                  !.ops = tx[u].ops + 1]
    <3>2. y.st = tx[u].st /\ tx[u].st = "open" /\ tx' = [tx EXCEPT ![u] = y]
      BY <1>1, <3>1 DEF TxGet, Op, Transactions
    <3> HIDE DEF y
    <3> QED BY <2>2, <3>2
  <2>5. ASSUME NEW k \in Keys, NEW v, NEW change, NEW ev, Op(u), Write(u, k, v, change, ev)
        PROVE  FALSE
    <3> DEFINE x == tx[u]
               y == [x EXCEPT
                       !.view = [x.view EXCEPT ![k] = v], !.dirty = [x.dirty EXCEPT ![k] = change],
                       !.ops = x.ops + 1,
                       !.claim = [x.claim EXCEPT ![k] = IF x.claim[k] = NoClaim THEN ev ELSE x.claim[k]]]
    <3>1. tx' = [tx EXCEPT ![u] = y]
      BY <2>5 DEF Write
    <3>2. y.st = x.st /\ x.st = "open"
      BY <1>1, <2>5 DEF Op, Transactions
    <3> HIDE DEF y
    <3> QED BY <2>2, <3>1, <3>2
  <2>6. CASE \/ \E k \in Keys, v \in Versions : TxCreate(u, k, v)
             \/ \E k \in Keys, v \in Versions, ev \in MaybeVersion : TxUpdate(u, k, v, ev)
             \/ \E k \in Keys, ev \in MaybeVersion : TxDelete(u, k, ev)
    BY <2>5, <2>6 DEF TxCreate, TxUpdate, TxDelete
  <2>7. CASE Savepoint(u)
    <3> DEFINE y == [tx[u] EXCEPT !.points = Append(tx[u].points, Checkpoint(tx[u])),
                                  !.ops = tx[u].ops + 1]
    <3>1. y.st = tx[u].st /\ tx[u].st = "open" /\ tx' = [tx EXCEPT ![u] = y]
      BY <1>1, <2>7 DEF Savepoint, Op, Transactions
    <3> HIDE DEF y
    <3> QED BY <2>2, <3>1
  <2>8. CASE SavepointReturns(u)
    <3> DEFINE y == [tx[u] EXCEPT !.points = Unnested(tx[u].points)]
    <3>1. y.st = tx[u].st /\ tx[u].st = "open" /\ tx' = [tx EXCEPT ![u] = y]
      BY <1>1, <2>8 DEF SavepointReturns, Transactions
    <3> HIDE DEF y
    <3> QED BY <2>2, <3>1
  <2>9. CASE SavepointThrows(u)
    <3> DEFINE x == tx[u]
               p == x.points[Len(x.points)]
               y == [Restored(x, p) EXCEPT
                       !.seen = p.seen, !.claim = p.claim, !.points = Unnested(x.points)]
    <3>1. x.st = "open" /\ tx' = [tx EXCEPT ![u] = y]
      BY <2>9 DEF SavepointThrows
    <3>2. y.st = x.st
      BY <1>1 DEF Restored, Transactions
    <3> HIDE DEF y
    <3> QED BY <2>2, <3>1, <3>2
  <2>10. ASSUME NEW o, o # "committed", tx' = [tx EXCEPT ![u].st = o]
         PROVE  FALSE
    <3> DEFINE y == [tx[u] EXCEPT !.st = o]
    <3>1. y.st = o /\ tx' = [tx EXCEPT ![u] = y]
      BY <1>1, <2>10 DEF Transactions
    <3> HIDE DEF y
    <3> QED BY <2>2, <2>10, <3>1
  <2>11. CASE Throw(u) \/ CommitThrows(u)
    <3>1. CASE Throw(u)
      BY <2>10, <3>1 DEF Throw
    <3>2. CASE CommitThrows(u)
      <4> DEFINE o == IF Refused(tx[u]) THEN "conflict" ELSE "unconfirmed"
      <4>1. o # "committed" /\ tx' = [tx EXCEPT ![u].st = o]
        BY <3>2 DEF CommitThrows
      <4> HIDE DEF o
      <4> QED BY <2>10, <4>1
    <3> QED BY <2>11, <3>1, <3>2
  <2>12. CASE Release(u)
    <3>1. Ended("rolledback").st # "committed" /\ tx' = [tx EXCEPT ![u] = Ended("rolledback")]
      BY <2>12, EndedType DEF Release
    <3> QED BY <2>2, <3>1
  <2> QED BY <1>5, <2>1, <2>3, <2>4, <2>6, <2>7, <2>8, <2>9, <2>11, <2>12 DEF TxStep
<1> QED BY <1>3, <1>4, <1>5 DEF Next

\* ReadsUnchanged: a transaction that commits read rows by id that nobody changed since it
\* began, one deleted and created again included (applyDirty).
THEOREM CommittedReads == ASSUME MemoryStoreAssumption PROVE Spec => [][ReadsUnchanged]_vars
<1>1. ASSUME StoreInv, [Next]_vars
      PROVE  ReadsUnchanged
  <2> SUFFICES ASSUME NEW t \in Txs, tx[t].st = "open", tx'[t].st = "committed"
               PROVE  tx[t].seen \cap tx[t].changed = {}
    BY DEF ReadsUnchanged
  <2>1. ~Refused(tx[t])
    BY <1>1, CommitsInOneStep DEF Commit
  <2>2. /\ tx[t] \in Transactions /\ tx[t].seen = tx[t].reads
        /\ \A k \in Keys : k \in tx[t].changed => rev[k] > tx[t].snap
    BY <1>1, OpenTransaction DEF Sound
  <2>3. tx[t].reads \subseteq Keys /\ tx[t].snap \in Nat
    BY <1>1, <2>2, Snapshots DEF Transactions
  <2>4. \A k \in tx[t].reads : ~(rev[k] # 0 /\ rev[k] > tx[t].snap)
    BY <2>1 DEF Refused, ReadConflict
  <2>5. \A k \in tx[t].reads : rev[k] \in Nat /\ ~(rev[k] > tx[t].snap)
    BY <1>1, <2>3, <2>4 DEF StoreInv, TypeInv
  <2> QED BY <2>2, <2>3, <2>5
<1> QED BY <1>1, StoreSafe, PTL DEF Spec

\* CommitPublishesView: every row that a committing transaction wrote ends as in its
\* private copy, and the rows it did not write stay (applyDirty).
THEOREM CommittedWrites == ASSUME MemoryStoreAssumption PROVE Spec => [][CommitPublishesView]_vars
<1>1. ASSUME StoreInv, [Next]_vars
      PROVE  CommitPublishesView
  <2> SUFFICES ASSUME NEW t \in Txs, tx[t].st = "open", tx'[t].st = "committed", NEW k \in Keys
               PROVE  IF tx[t].claim[k] = NoClaim THEN rows'[k] = rows[k]
                      ELSE \/ rows'[k] = tx[t].view[k]
                           \/ tx[t].view[k] = tx[t].base[k] /\ rows'[k] = rows[k]
    BY DEF CommitPublishesView
  <2>1. rows' = Published(tx[t])
    BY <1>1, CommitsInOneStep DEF Commit
  <2> DEFINE c == tx[t].dirty[k]
  <2>2. rows'[k] = IF c.op = "none" THEN rows[k] ELSE c.val
    BY <2>1 DEF Published
  <2>3. /\ NetChange(c, tx[t].view[k], tx[t].base[k], tx[t].claim[k])
        /\ tx[t] \in Transactions
    BY <1>1, OpenTransaction DEF Sound
  <2>4. c.op \in {"none", "create", "update", "delete"}
    BY <2>3 DEF Transactions, Changes
  <2> QED BY <2>2, <2>3, <2>4 DEF NetChange
<1> QED BY <1>1, StoreSafe, PTL DEF Spec

\* ExpectedVersionHolds: the expected version of the first write of a row holds of the
\* stored row at the commit (markUpdate and markDelete keep the first expectedVersion).
THEOREM CommittedVersions == ASSUME MemoryStoreAssumption PROVE Spec => [][ExpectedVersionHolds]_vars
<1>1. ASSUME StoreInv, [Next]_vars
      PROVE  ExpectedVersionHolds
  <2> SUFFICES ASSUME NEW t \in Txs, tx[t].st = "open", tx'[t].st = "committed", NEW k \in Keys,
                      tx[t].claim[k] > 0
               PROVE  rows[k] = tx[t].claim[k]
    BY DEF ExpectedVersionHolds
  <2>1. ~ChangeRefused(k, tx[t].dirty[k])
    BY <1>1, CommitsInOneStep DEF Commit, Refused
  <2>2. /\ NetChange(tx[t].dirty[k], tx[t].view[k], tx[t].base[k], tx[t].claim[k])
        /\ tx[t] \in Transactions
    BY <1>1, OpenTransaction DEF Sound
  <2>3. tx[t].claim[k] # 0
    BY <2>2
  <2> QED BY <2>1, <2>2, <2>3 DEF NetChange, ChangeRefused, VersionMatches
<1> QED BY <1>1, StoreSafe, PTL DEF Spec
=============================================================================
