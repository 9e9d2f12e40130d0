-------------------------- MODULE SqliteConnection --------------------------
(***************************************************************************)
(* One SQLite connection (sqlite.ts): the calls of the root adapters that   *)
(* share it wait for each other on one tail, a transaction holds the        *)
(* connection from BEGIN IMMEDIATE to its end, its callback works through a *)
(* scoped adapter, and close runs when everything before it has.            *)
(*                                                                         *)
(* SQLite itself is modelled from what the code relies on: one transaction  *)
(* per connection, a statement outside one commits by itself, BEGIN inside  *)
(* one fails, any statement may fail, and so may COMMIT and ROLLBACK.       *)
(***************************************************************************)
EXTENDS Naturals, Sequences, FiniteSets, SequencesExt, SequenceTheorems, TLAPS

CONSTANTS
    RootWrites,     \* writes called on a root adapter
    Transactions,   \* transactions called on a root adapter
    ScopedWrites,   \* writes a callback may make on its scoped adapter
    Close,          \* the call of close
    Nobody

\* A call is one thing: a root write, a transaction, a scoped write or the close.
ASSUME SqliteConnectionAssumption ==
    /\ IsFiniteSet(RootWrites) /\ IsFiniteSet(Transactions) /\ IsFiniteSet(ScopedWrites)
    /\ RootWrites \cap (Transactions \cup ScopedWrites) = {}
    /\ Close \notin RootWrites \cup Transactions

Calls == RootWrites \cup Transactions \cup {Close}

VARIABLES
    tail,        \* calls admitted and not begun, in order
    running,     \* the calls that have the connection
    told,        \* [Calls -> "none", "waiting", "ok", "error", "unknown", "rejected"]
    closed,      \* the adapter's flag
    unavailable, \* connection.unavailable
    open,        \* the native handle is open
    tx,          \* SQLite's transaction: the levels of writes staged in it, <<>> when none
    db,          \* committed writes
    phase,       \* of the running transaction: "none", "callback", "commit", "rollback"
    broken,      \* savepointFailure
    kept,        \* writes of each callback that succeeded, less those of savepoints that failed
    made,        \* all writes of each transaction
    awaits       \* the root call its callback waits for

vars == <<tail, running, told, closed, unavailable, open, tx, db, phase, broken, kept, made, awaits>>
core == <<closed, unavailable, open, tx, db, phase, broken, kept, made, awaits>>

Init ==
    /\ tail = <<>> /\ running = {} /\ told = [c \in Calls |-> "none"]
    /\ closed = FALSE /\ unavailable = FALSE /\ open = TRUE
    /\ tx = <<>> /\ db = {} /\ phase = "none" /\ broken = FALSE
    /\ kept = [t \in Transactions |-> {}] /\ made = [t \in Transactions |-> {}] /\ awaits = Nobody

(***************************************************************************)
(* enqueue                                                                 *)
(***************************************************************************)

\* a call from inside a transaction's callback: it would wait for the
\* transaction that waits for it
ScopeIgnored == FALSE
ScopeRejects == TRUE

Enqueue(c) ==
    IF closed
    THEN told' = [told EXCEPT ![c] = "rejected"] /\ UNCHANGED tail
    ELSE told' = [told EXCEPT ![c] = "waiting"] /\ tail' = Append(tail, c)

CallOutside(c) ==
    /\ told[c] = "none" /\ c # Close /\ Enqueue(c)
    /\ UNCHANGED <<running, closed, unavailable, open, tx, db, phase, broken, kept, made, awaits>>

CallInside(c) ==
    /\ told[c] = "none" /\ c # Close /\ phase = "callback" /\ awaits = Nobody
    /\ IF ScopeRejects
       THEN told' = [told EXCEPT ![c] = "rejected"] /\ UNCHANGED <<tail, awaits>>
       ELSE Enqueue(c) /\ awaits' = c
    /\ UNCHANGED <<running, closed, unavailable, open, tx, db, phase, broken, kept, made>>

\* close(): it takes its place behind what was admitted before
CloseFirst(list) == <<Close>> \o list
CloseLast(list) == Append(list, Close)

CallClose ==
    /\ told[Close] = "none" /\ phase # "callback"
    /\ closed' = TRUE /\ told' = [told EXCEPT ![Close] = "waiting"]
    /\ tail' = CloseLast(tail)
    /\ UNCHANGED <<running, unavailable, open, tx, db, phase, broken, kept, made, awaits>>

\* connection.tail.then: the next call runs when the one before has settled
Next1 ==
    /\ running = {} /\ tail # <<>>
    /\ running' = {Head(tail)} /\ tail' = Tail(tail)
    /\ UNCHANGED told /\ UNCHANGED core

Settled(c, a) ==
    /\ told' = [told EXCEPT ![c] = a]
    /\ running' = running \ {c}
    /\ awaits' = IF awaits = c THEN Nobody ELSE awaits
    /\ UNCHANGED tail

(***************************************************************************)
(* A statement: outside a transaction it commits, inside it is staged.     *)
(***************************************************************************)

Usable == open /\ ~unavailable
Stage(level, w) == Append(Front(level), Last(level) \cup {w})

RunRoot(r) ==
    /\ r \in running
    /\ \/ /\ Usable /\ Settled(r, "ok")
          /\ IF tx = <<>> THEN db' = db \cup {r} /\ UNCHANGED tx
             ELSE tx' = Stage(tx, r) /\ UNCHANGED db
       \/ Settled(r, "error") /\ UNCHANGED <<tx, db>>
    /\ UNCHANGED <<closed, unavailable, open, phase, broken, kept, made>>

RunClose ==
    /\ Close \in running /\ Settled(Close, "ok")
    /\ open' = FALSE /\ unavailable' = TRUE
    /\ UNCHANGED <<closed, tx, db, phase, broken, kept, made>>

(***************************************************************************)
(* transaction                                                             *)
(***************************************************************************)

Begin(t) ==
    /\ t \in running /\ phase = "none"
    /\ \/ /\ Usable /\ tx = <<>>
          /\ tx' = <<{}>> /\ phase' = "callback" /\ broken' = FALSE
          /\ UNCHANGED <<told, running, awaits, tail>>
       \/ Settled(t, "error") /\ UNCHANGED <<tx, phase, broken>>
    /\ UNCHANGED <<closed, unavailable, open, db, kept, made>>

InCallback == phase = "callback" /\ awaits = Nobody
Quiet == UNCHANGED <<tail, running, told, closed, unavailable, open, db, awaits>>

Scoped(t, w) ==
    /\ t \in running /\ InCallback /\ Usable /\ \A u \in Transactions : w \notin made[u]
    /\ made' = [made EXCEPT ![t] = @ \cup {w}]
    /\ \/ tx' = Stage(tx, w) /\ kept' = [kept EXCEPT ![t] = @ \cup {w}]
       \/ UNCHANGED <<tx, kept>>
    /\ UNCHANGED <<phase, broken>> /\ Quiet

SavepointOpens ==
    /\ InCallback /\ Len(tx) = 1 /\ tx' = Append(tx, {})
    /\ UNCHANGED <<phase, broken, kept, made>> /\ Quiet

SavepointReleases ==
    /\ InCallback /\ Len(tx) = 2 /\ tx' = <<tx[1] \cup tx[2]>>
    /\ UNCHANGED <<phase, broken, kept, made>> /\ Quiet

\* the savepoint's callback fails: ROLLBACK TO; when that fails, the writes
\* stay and the transaction remembers
SavepointFails ==
    /\ InCallback /\ Len(tx) = 2
    /\ kept' = [t \in Transactions |-> IF t \in running THEN kept[t] \ tx[2] ELSE kept[t]]
    /\ \/ tx' = <<tx[1]>> /\ UNCHANGED broken
       \/ tx' = <<tx[1] \cup tx[2]>> /\ broken' = TRUE
    /\ UNCHANGED <<phase, made>> /\ Quiet

CommitsRegardless(failed) == TRUE
MayCommit(failed) == ~failed

\* the callback returns or throws
Returns ==
    /\ InCallback /\ Len(tx) = 1
    /\ phase' \in {IF MayCommit(broken) THEN "commit" ELSE "rollback", "rollback"}
    /\ UNCHANGED <<tx, broken, kept, made>> /\ Quiet

Commit(t) ==
    /\ t \in running /\ phase = "commit"
    /\ \/ db' = db \cup tx[1] /\ tx' = <<>> /\ phase' = "none" /\ Settled(t, "ok")
       \/ phase' = "rollback" /\ UNCHANGED <<db, tx, told, running, awaits, tail>>
    /\ UNCHANGED <<closed, unavailable, open, broken, kept, made>>

StillAvailable == FALSE
Condemned == TRUE

\* ROLLBACK; when it fails the transaction is still open on the connection
Rollback(t) ==
    /\ t \in running /\ phase = "rollback" /\ phase' = "none"
    /\ \/ tx' = <<>> /\ Settled(t, "error") /\ UNCHANGED unavailable
       \/ unavailable' = Condemned /\ Settled(t, "unknown") /\ UNCHANGED tx
    /\ UNCHANGED <<closed, open, db, broken, kept, made>>

Done == running = {} /\ tail = <<>> /\ UNCHANGED vars

Next ==
    \/ \E c \in Calls : CallOutside(c) \/ CallInside(c)
    \/ CallClose \/ Next1 \/ RunClose \/ Returns
    \/ SavepointOpens \/ SavepointReleases \/ SavepointFails
    \/ \E r \in RootWrites : RunRoot(r)
    \/ \E t \in Transactions : Begin(t) \/ Commit(t) \/ Rollback(t)
    \/ \E t \in Transactions, w \in ScopedWrites : Scoped(t, w)
    \/ Done

\* what is running goes on, and a callback that waits for nothing comes to an end
Fairness ==
    /\ WF_vars(Next1) /\ WF_vars(RunClose)
    /\ \A r \in RootWrites : WF_vars(RunRoot(r))
    /\ \A t \in Transactions : WF_vars(Begin(t)) /\ WF_vars(Commit(t)) /\ WF_vars(Rollback(t))
    /\ WF_vars(SavepointReleases \/ SavepointFails \/ Returns) /\ SF_vars(Returns)

Spec == Init /\ [][Next]_vars /\ Fairness

(***************************************************************************)
(* Properties.                                                             *)
(***************************************************************************)

\* A write of a root adapter that is acknowledged is committed on its own: it
\* is never caught in somebody's transaction, not in one that is running and
\* not in one left open by a rollback that failed.
RootWritesAreTheirOwn == \A r \in RootWrites : told[r] = "ok" => r \in db

\* A transaction that succeeds has committed what its callback saw succeed, less
\* the savepoints it saw fail, and nothing else; one that does not succeed has
\* committed nothing, now or later.
AllOrNothing ==
    \A t \in Transactions :
        IF told[t] = "ok" THEN made[t] \cap db = kept[t] ELSE made[t] \cap db = {}

\* close waits for the calls admitted before it: none of them meets a handle
\* that is already closed.
CloseWaits == ~open => running = {} /\ tail = <<>>

\* Every call that is admitted is answered, also one that the callback of a
\* transaction makes on the adapter the transaction holds.
Waits(c) == told[c] = "waiting"
EveryCallSettles == \A c \in Calls : []<>~Waits(c)

-----------------------------------------------------------------------------
(***************************************************************************)
(* Proofs, for every set of callers of the connection and every order in    *)
(* which they call.                                                         *)
(***************************************************************************)

\* What a caller can be told, and the writes of all callers.
Answers == {"none", "waiting", "ok", "error", "unknown", "rejected"}
Writes == RootWrites \cup ScopedWrites

\* Types; nobody waits for himself, as a call that a transaction's callback makes on
\* the adapter the transaction holds is refused (enqueue, sqlite.ts).
TypeOK ==
    /\ tail \in Seq(Calls) /\ running \in SUBSET Calls
    /\ told \in [Calls -> Answers]
    /\ closed \in BOOLEAN /\ unavailable \in BOOLEAN /\ open \in BOOLEAN
    /\ tx \in Seq(SUBSET Writes) /\ db \in SUBSET Writes
    /\ phase \in {"none", "callback", "commit", "rollback"} /\ broken \in BOOLEAN
    /\ kept \in [Transactions -> SUBSET ScopedWrites]
    /\ made \in [Transactions -> SUBSET ScopedWrites]
    /\ awaits = Nobody

(* The tail: a call waits in one place, one has the connection, close is the  *)
(* last.                                                                      *)
QueueInv ==
    /\ \A c, d \in running : c = d
    /\ \A i \in 1..Len(tail) : told[tail[i]] = "waiting" /\ tail[i] \notin running
    /\ \A c \in running : told[c] = "waiting"
    /\ \A i, j \in 1..Len(tail) : tail[i] = tail[j] => i = j
    /\ told[Close] # "none" <=> closed
    /\ \A i \in 1..Len(tail) : tail[i] = Close => i = Len(tail)
    /\ Close \in running => tail = <<>>
    /\ told[Close] \in {"none", "waiting", "ok"}
    /\ told[Close] = "ok" => running = {} /\ tail = <<>>
    /\ ~open => told[Close] = "ok"

(* SQLite's transaction belongs to the one that has the connection.           *)
OwnerInv ==
    /\ phase # "none" => /\ \E t \in Transactions : t \in running
                         /\ open /\ ~unavailable /\ Len(tx) \in {1, 2}
    /\ phase \in {"commit", "rollback"} => Len(tx) = 1
    /\ phase = "none" => tx = <<>> \/ unavailable

WritesInv ==
    /\ \A t \in Transactions : kept[t] \subseteq made[t]
    /\ \A t, u \in Transactions : t # u => made[t] \cap made[u] = {}
    /\ \A t \in Transactions :
          told[t] \in {"none", "waiting", "rejected"} /\ ~(t \in running /\ phase # "none") => made[t] = {}
    /\ \A w \in db : w \in RootWrites \/ \E t \in Transactions : w \in made[t]

StagedInv ==
    \A t \in Transactions : t \in running /\ phase # "none" =>
        /\ \A i \in 1..Len(tx) : tx[i] \subseteq made[t]
        /\ Len(tx) = 2 => tx[1] \cap tx[2] = {}
        /\ ~broken => kept[t] = (IF Len(tx) = 1 THEN tx[1] ELSE tx[1] \cup tx[2])
        /\ phase = "commit" => ~broken

ConnectionInv == /\ TypeOK /\ QueueInv /\ OwnerInv /\ WritesInv /\ StagedInv
                 /\ RootWritesAreTheirOwn /\ AllOrNothing

-----------------------------------------------------------------------------
\* A list with one element more.
LEMMA AppendOne ==
    ASSUME NEW S, NEW s \in Seq(S), NEW x \in S
    PROVE  /\ Append(s, x) \in Seq(S) /\ Len(Append(s, x)) = Len(s) + 1
           /\ Append(s, x)[Len(s) + 1] = x /\ \A i \in 1..Len(s) : Append(s, x)[i] = s[i]
  OBVIOUS

\* A write is staged in the innermost level of the transaction, a root level or a
\* savepoint in it, and the other level stays.
LEMMA StageOne ==
    ASSUME NEW s \in Seq(SUBSET Writes), NEW w \in Writes, Len(s) \in {1, 2}
    PROVE  /\ Stage(s, w) \in Seq(SUBSET Writes)
           /\ Len(Stage(s, w)) = Len(s)
           /\ Len(s) = 1 => Stage(s, w)[1] = s[1] \cup {w}
           /\ Len(s) = 2 => Stage(s, w)[1] = s[1] /\ Stage(s, w)[2] = s[2] \cup {w}
  <1> DEFINE f == SubSeq(s, 1, Len(s) - 1)
  <1>1. f \in Seq(SUBSET Writes) /\ Len(f) = Len(s) - 1 /\ \A i \in 1..Len(f) : f[i] = s[i]
    <2>1. Len(s) \in Nat /\ \A i \in 1..(Len(s) - 1) : s[i] \in SUBSET Writes
      OBVIOUS
    <2>2. 1 \in Int /\ Len(s) - 1 \in Int
      OBVIOUS
    <2>3. \A i \in 1..(Len(s) - 1) - 1 + 1 : f[i] = s[1 + i - 1]
      BY <2>1, <2>2, SubSeqProperties
    <2>4. f \in Seq(SUBSET Writes)
      BY <2>1, <2>2, SubSeqProperties
    <2>5. Len(f) = IF 1 <= Len(s) - 1 THEN Len(s) - 1 - 1 + 1 ELSE 0
      BY <2>1, <2>2, SubSeqProperties
    <2> HIDE DEF f
    <2>6. Len(f) = Len(s) - 1
      BY <2>5, <2>1
    <2> QED BY <2>1, <2>3, <2>4, <2>6
  <1>2. s[Len(s)] \cup {w} \in SUBSET Writes
    OBVIOUS
  <1>3. Stage(s, w) = Append(f, s[Len(s)] \cup {w})
    BY DEF Stage, Front, Last
  <1> HIDE DEF f
  <1> QED BY <1>1, <1>2, <1>3

\* A new adapter (createSqliteStoreAdapter) has an empty tail, nothing running and
\* nothing written.
THEOREM InitConnection == Init => ConnectionInv
  <1> SUFFICES ASSUME Init PROVE ConnectionInv
    OBVIOUS
  <1> USE SqliteConnectionAssumption
  <1>0. told \in [Calls -> Answers]
    BY DEF Init, Answers
  <1>a. tail \in Seq(Calls) /\ tx \in Seq(SUBSET Writes)
    BY DEF Init
  <1>b. kept \in [Transactions -> SUBSET ScopedWrites] /\ made \in [Transactions -> SUBSET ScopedWrites]
    BY DEF Init
  <1>1. TypeOK
    BY <1>0, <1>a, <1>b DEF Init, TypeOK
  <1>2. QueueInv BY DEF Init, QueueInv, Calls
  <1>3. OwnerInv BY DEF Init, OwnerInv
  <1>4. WritesInv BY DEF Init, WritesInv
  <1>5. StagedInv BY DEF Init, StagedInv
  <1>6. RootWritesAreTheirOwn BY DEF Init, RootWritesAreTheirOwn, Calls
  <1>7. AllOrNothing BY DEF Init, AllOrNothing, Calls
  <1> QED BY <1>1, <1>2, <1>3, <1>4, <1>5, <1>6, <1>7 DEF ConnectionInv

-----------------------------------------------------------------------------
(* A call that asks: admitted it is the last of the tail, or it is rejected. *)
LEMMA AskQueue ==
    ASSUME ConnectionInv, NEW c \in Calls,
           CallOutside(c) \/ CallInside(c) \/ (c = Close /\ CallClose)
    PROVE  ConnectionInv'
  <1> USE SqliteConnectionAssumption
  <1>0. TypeOK /\ QueueInv /\ OwnerInv /\ WritesInv /\ StagedInv
        /\ RootWritesAreTheirOwn /\ AllOrNothing
    BY DEF ConnectionInv
  <1>1. UNCHANGED <<running, unavailable, open, tx, db, phase, broken, kept, made, awaits>>
    BY DEF CallOutside, CallInside, CallClose, ScopeRejects
  <1>a. told[c] = "none"
    BY DEF CallOutside, CallInside, CallClose
  <1>b. \/ /\ c # Close /\ UNCHANGED <<tail, closed>>
           /\ told' = [told EXCEPT ![c] = "rejected"]
        \/ /\ c = Close \/ ~closed
           /\ told' = [told EXCEPT ![c] = "waiting"] /\ tail' = Append(tail, c)
           /\ closed' = (c = Close \/ closed)
    BY <1>0 DEF CallOutside, CallInside, CallClose, ScopeRejects, Enqueue, CloseLast, TypeOK
  <1>2. Close \in Calls
    BY DEF Calls
  <1>3. told' \in [Calls -> Answers] /\ \A d \in Calls : d # c => told'[d] = told[d]
    BY <1>0, <1>b DEF TypeOK, Answers
  <1>4. told'[c] \in {"waiting", "rejected"}
    BY <1>0, <1>b DEF TypeOK
  <1>5. tail' \in Seq(Calls) /\ closed' \in BOOLEAN
    <2>1. tail \in Seq(Calls) /\ closed \in BOOLEAN /\ Append(tail, c) \in Seq(Calls)
      BY <1>0 DEF TypeOK
    <2> QED BY <1>b, <2>1
  <1>6. TypeOK'
    BY <1>0, <1>1, <1>3, <1>5 DEF TypeOK
  <1>7. c \notin running /\ \A i \in 1..Len(tail) : tail[i] # c
    BY <1>0, <1>a DEF QueueInv
  <1>8. QueueInv'
    <2>1. CASE UNCHANGED <<tail, closed>> /\ c # Close
      BY <2>1, <1>0, <1>1, <1>2, <1>3, <1>7 DEF QueueInv, TypeOK
    <2>2. CASE /\ tail' = Append(tail, c) /\ told'[c] = "waiting"
               /\ closed' = (c = Close \/ closed) /\ (c = Close \/ ~closed)
      <3>1. Len(tail') = Len(tail) + 1 /\ tail'[Len(tail) + 1] = c /\ \A i \in 1..Len(tail) : tail'[i] = tail[i]
        BY <2>2, <1>0 DEF TypeOK
      <3>2. ~closed /\ told[Close] = "none"
        BY <2>2, <1>0, <1>a DEF QueueInv
      <3>3. \A i \in 1..Len(tail) : tail[i] # Close
        BY <3>2, <1>0 DEF QueueInv
      <3>4. Close \notin running /\ open
        BY <3>2, <1>0 DEF QueueInv, TypeOK
      <3>5. Len(tail) \in Nat /\ \A i \in 1..Len(tail) : tail[i] \in Calls
        BY <1>0 DEF TypeOK
      <3>6. \A i \in 1..Len(tail') : told'[tail'[i]] = "waiting" /\ tail'[i] \notin running
        <4> SUFFICES ASSUME NEW i \in 1..Len(tail') PROVE told'[tail'[i]] = "waiting" /\ tail'[i] \notin running
          OBVIOUS
        <4>1. CASE i = Len(tail) + 1
          BY <4>1, <3>1, <2>2, <1>7
        <4>2. CASE i \in 1..Len(tail)
          BY <4>2, <3>1, <3>5, <1>0, <1>3, <1>7 DEF QueueInv
        <4> QED BY <4>1, <4>2, <3>1, <3>5
      <3>7. \A i, j \in 1..Len(tail') : tail'[i] = tail'[j] => i = j
        BY <3>1, <3>5, <1>0, <1>7 DEF QueueInv
      <3>8. \A i \in 1..Len(tail') : tail'[i] = Close => i = Len(tail')
        BY <3>1, <3>3, <3>5
      <3>9. \A d \in running : told'[d] = "waiting" /\ d \in Calls
        BY <1>0, <1>3, <1>7 DEF QueueInv, TypeOK
      <3>10. \A d, e \in running : d = e
        BY <1>0 DEF QueueInv
      <3>11. told'[Close] = (IF c = Close THEN "waiting" ELSE "none")
        BY <2>2, <3>2, <1>2, <1>3
      <3> QED BY <2>2, <3>2, <3>4, <3>6, <3>7, <3>8, <3>9, <3>10, <3>11, <1>1 DEF QueueInv
    <2> QED BY <2>1, <2>2, <1>0, <1>b DEF TypeOK
  <1>9. OwnerInv'
    BY <1>0, <1>1 DEF OwnerInv
  <1>10. WritesInv'
    BY <1>0, <1>1, <1>3, <1>4, <1>7, <1>a DEF WritesInv, Calls
  <1>11. StagedInv'
    BY <1>0, <1>1 DEF StagedInv
  <1>12. RootWritesAreTheirOwn'
    BY <1>0, <1>1, <1>3, <1>4 DEF RootWritesAreTheirOwn, Calls
  <1>13. AllOrNothing'
    <2> SUFFICES ASSUME NEW t \in Transactions
                 PROVE  IF told'[t] = "ok" THEN made[t] \cap db = kept[t] ELSE made[t] \cap db = {}
      BY <1>1 DEF AllOrNothing
    <2>1. CASE t = c
      BY <2>1, <1>0, <1>a, <1>4 DEF AllOrNothing
    <2>2. CASE t # c
      BY <2>2, <1>0, <1>3 DEF AllOrNothing, Calls
    <2> QED BY <2>1, <2>2
  <1> QED BY <1>6, <1>8, <1>9, <1>10, <1>11, <1>12, <1>13 DEF ConnectionInv

(* The next call gets the connection.                                        *)
LEMMA NextQueue ==
    ASSUME ConnectionInv, Next1
    PROVE  ConnectionInv'
  <1> USE SqliteConnectionAssumption
  <1>0. TypeOK /\ QueueInv /\ OwnerInv /\ WritesInv /\ StagedInv
        /\ RootWritesAreTheirOwn /\ AllOrNothing
    BY DEF ConnectionInv
  <1>1. UNCHANGED <<told, closed, unavailable, open, tx, db, phase, broken, kept, made, awaits>>
    BY DEF Next1, core
  <1>2. /\ running = {} /\ running' = {tail[1]} /\ tail' \in Seq(Calls)
        /\ Len(tail) \in Nat /\ Len(tail) >= 1 /\ Len(tail') = Len(tail) - 1
        /\ \A i \in 1..Len(tail') : tail'[i] = tail[i + 1]
    BY <1>0 DEF Next1, TypeOK
  <1>3. tail[1] \in Calls /\ told[tail[1]] = "waiting"
    BY <1>0, <1>2 DEF TypeOK, QueueInv
  <1>4. phase = "none"
    BY <1>0, <1>2 DEF OwnerInv, TypeOK
  <1>5. TypeOK'
    BY <1>0, <1>1, <1>2, <1>3 DEF TypeOK
  <1>6. QueueInv'
    <2>1. \A i \in 1..Len(tail') : told'[tail'[i]] = "waiting" /\ tail'[i] \notin running'
      BY <1>0, <1>1, <1>2 DEF QueueInv
    <2>2. \A i, j \in 1..Len(tail') : tail'[i] = tail'[j] => i = j
      BY <1>0, <1>2 DEF QueueInv
    <2>3. \A i \in 1..Len(tail') : tail'[i] = Close => i = Len(tail')
      BY <1>0, <1>2 DEF QueueInv
    <2>4. Close \in running' => tail' = <<>>
      BY <1>0, <1>2 DEF QueueInv
    <2> QED BY <2>1, <2>2, <2>3, <2>4, <1>0, <1>1, <1>2, <1>3 DEF QueueInv
  <1>7. OwnerInv'
    BY <1>0, <1>1, <1>4 DEF OwnerInv
  <1>8. WritesInv'
    BY <1>0, <1>1, <1>4 DEF WritesInv
  <1>9. StagedInv'
    BY <1>1, <1>4 DEF StagedInv
  <1>10. RootWritesAreTheirOwn' /\ AllOrNothing'
    BY <1>0, <1>1 DEF RootWritesAreTheirOwn, AllOrNothing
  <1> QED BY <1>5, <1>6, <1>7, <1>8, <1>9, <1>10 DEF ConnectionInv

(* A call settles: the connection is free, and the tail waits as it did.     *)
LEMMA SettleQueue ==
    ASSUME TypeOK, QueueInv, NEW c \in running, NEW a \in {"ok", "error", "unknown"},
           Settled(c, a), UNCHANGED closed,
           IF c = Close THEN a = "ok" ELSE UNCHANGED open
    PROVE  /\ QueueInv' /\ running' = {} /\ tail' \in Seq(Calls) /\ awaits' = Nobody
           /\ told' \in [Calls -> Answers] /\ told'[c] = a
           /\ \A d \in Calls : d # c => told'[d] = told[d]
  <1> USE SqliteConnectionAssumption
  <1>1. c \in Calls /\ Close \in Calls /\ told[c] = "waiting"
    BY DEF TypeOK, QueueInv, Calls
  <1>2. /\ told' \in [Calls -> Answers] /\ told'[c] = a
        /\ \A d \in Calls : d # c => told'[d] = told[d]
    BY <1>1 DEF Settled, TypeOK, Answers
  <1>3. running' = {} /\ tail' = tail /\ tail' \in Seq(Calls) /\ awaits' = Nobody
    BY DEF Settled, TypeOK, QueueInv
  <1>4. \A i \in 1..Len(tail) : tail[i] # c /\ tail[i] \in Calls
    BY DEF QueueInv, TypeOK
  <1>5. told'[Close] # "none" <=> closed'
    BY <1>1, <1>2 DEF QueueInv
  <1>6. told'[Close] \in {"none", "waiting", "ok"}
    BY <1>1, <1>2 DEF QueueInv
  <1>7. told'[Close] = "ok" => tail' = <<>>
    BY <1>1, <1>2, <1>3 DEF QueueInv
  <1>8. ~open' => told'[Close] = "ok"
    BY <1>1, <1>2 DEF QueueInv
  <1>9. \A i \in 1..Len(tail') : told'[tail'[i]] = "waiting"
    BY <1>2, <1>3, <1>4 DEF QueueInv
  <1>10. QueueInv'
    BY <1>3, <1>5, <1>6, <1>7, <1>8, <1>9 DEF QueueInv
  <1> QED BY <1>2, <1>3, <1>10

(* A write of a root adapter runs: no transaction is there to catch it.      *)
LEMMA RootQueue ==
    ASSUME ConnectionInv, NEW r \in RootWrites, RunRoot(r)
    PROVE  ConnectionInv'
  <1> USE SqliteConnectionAssumption
  <1>0. TypeOK /\ QueueInv /\ OwnerInv /\ WritesInv /\ StagedInv
        /\ RootWritesAreTheirOwn /\ AllOrNothing
    BY DEF ConnectionInv
  <1>1. /\ r \in running /\ r # Close /\ r \in Calls /\ r \notin Transactions
        /\ UNCHANGED <<closed, unavailable, open, phase, broken, kept, made>>
    BY DEF RunRoot, Calls
  <1>2. phase = "none"
    BY <1>0, <1>1 DEF OwnerInv, QueueInv
  <1>3. PICK a \in {"ok", "error", "unknown"} : Settled(r, a) /\ (a = "ok" => Usable)
    BY DEF RunRoot
  <1>4. /\ QueueInv' /\ running' = {} /\ tail' \in Seq(Calls) /\ awaits' = Nobody
        /\ told' \in [Calls -> Answers] /\ told'[r] = a
        /\ \A d \in Calls : d # r => told'[d] = told[d]
    BY <1>0, <1>1, <1>3, SettleQueue
  <1>5. /\ told'[r] = "ok" => db' = db \cup {r} /\ UNCHANGED tx
        /\ told'[r] # "ok" => UNCHANGED <<db, tx>>
    <2>1. told[r] = "waiting"
      BY <1>0, <1>1 DEF QueueInv
    <2>2. Usable => tx = <<>>
      BY <1>0, <1>2 DEF OwnerInv, Usable
    <2>3. CASE Usable /\ Settled(r, "ok") /\ db' = db \cup {r} /\ UNCHANGED tx
      <3>1. told'[r] = "ok"
        BY <2>3, <1>0, <1>1 DEF Settled, TypeOK
      <3> QED BY <3>1, <2>3
    <2>4. CASE Settled(r, "error") /\ UNCHANGED <<tx, db>>
      <3>1. told'[r] = "error"
        BY <2>4, <1>0, <1>1 DEF Settled, TypeOK
      <3> QED BY <3>1, <2>4
    <2> QED BY <2>2, <2>3, <2>4 DEF RunRoot
  <1>6. UNCHANGED tx /\ db \subseteq db' /\ db' \subseteq db \cup {r}
    BY <1>5
  <1>7. TypeOK'
    BY <1>0, <1>1, <1>4, <1>6 DEF TypeOK, Writes
  <1>8. OwnerInv'
    BY <1>0, <1>1, <1>2, <1>6 DEF OwnerInv
  <1>9. WritesInv'
    BY <1>0, <1>1, <1>2, <1>4, <1>6 DEF WritesInv, Calls
  <1>10. StagedInv'
    BY <1>1, <1>2 DEF StagedInv
  <1>11. RootWritesAreTheirOwn'
    BY <1>0, <1>4, <1>5 DEF RootWritesAreTheirOwn, Calls
  <1>12. AllOrNothing'
    <2>1. \A t \in Transactions : r \notin made[t]
      BY <1>0 DEF TypeOK
    <2> QED BY <2>1, <1>0, <1>1, <1>4, <1>6 DEF AllOrNothing, Calls
  <1> QED BY <1>4, <1>7, <1>8, <1>9, <1>10, <1>11, <1>12 DEF ConnectionInv

(* close runs when it is its turn.                                           *)
LEMMA CloseQueue ==
    ASSUME ConnectionInv, RunClose
    PROVE  ConnectionInv'
  <1> USE SqliteConnectionAssumption
  <1>0. TypeOK /\ QueueInv /\ OwnerInv /\ WritesInv /\ StagedInv
        /\ RootWritesAreTheirOwn /\ AllOrNothing
    BY DEF ConnectionInv
  <1>1. /\ Close \in running /\ Settled(Close, "ok") /\ open' = FALSE /\ unavailable' = TRUE
        /\ UNCHANGED <<closed, tx, db, phase, broken, kept, made>>
    BY DEF RunClose
  <1>2. phase = "none"
    BY <1>0, <1>1 DEF OwnerInv, QueueInv
  <1>4. /\ QueueInv' /\ running' = {} /\ tail' \in Seq(Calls) /\ awaits' = Nobody
        /\ told' \in [Calls -> Answers]
        /\ \A d \in Calls : d # Close => told'[d] = told[d]
    BY <1>0, <1>1, SettleQueue
  <1>7. TypeOK'
    BY <1>0, <1>1, <1>4 DEF TypeOK
  <1>8. OwnerInv'
    BY <1>0, <1>1, <1>2 DEF OwnerInv
  <1>9. WritesInv'
    BY <1>0, <1>1, <1>2, <1>4 DEF WritesInv, Calls
  <1>10. StagedInv'
    BY <1>1, <1>2 DEF StagedInv
  <1>11. RootWritesAreTheirOwn'
    BY <1>0, <1>1, <1>4 DEF RootWritesAreTheirOwn, Calls
  <1>12. AllOrNothing'
    BY <1>0, <1>1, <1>4 DEF AllOrNothing, Calls
  <1> QED BY <1>4, <1>7, <1>8, <1>9, <1>10, <1>11, <1>12 DEF ConnectionInv

(* A transaction begins, or its BEGIN fails.                                 *)
LEMMA BeginOwner ==
    ASSUME ConnectionInv, NEW t \in Transactions, Begin(t)
    PROVE  ConnectionInv'
  <1> USE SqliteConnectionAssumption
  <1>0. TypeOK /\ QueueInv /\ OwnerInv /\ WritesInv /\ StagedInv
        /\ RootWritesAreTheirOwn /\ AllOrNothing
    BY DEF ConnectionInv
  <1>1. /\ t \in running /\ phase = "none" /\ t \in Calls /\ t # Close
        /\ UNCHANGED <<closed, unavailable, open, db, kept, made>>
    BY DEF Begin, Calls
  <1>2. made[t] = {} /\ kept[t] = {} /\ told[t] = "waiting"
    BY <1>0, <1>1 DEF WritesInv, QueueInv, TypeOK
  <1>3. CASE /\ Usable /\ tx = <<>> /\ tx' = <<{}>> /\ phase' = "callback" /\ broken' = FALSE
             /\ UNCHANGED <<told, running, awaits, tail>>
    <2>1. tx' \in Seq(SUBSET Writes) /\ Len(tx') = 1 /\ tx'[1] = {}
      BY <1>3
    <2>2. \A u \in running : u = t
      BY <1>0, <1>1 DEF QueueInv
    <2>3. TypeOK'
      BY <2>1, <1>0, <1>1, <1>3 DEF TypeOK
    <2>4. QueueInv'
      BY <1>0, <1>1, <1>3 DEF QueueInv
    <2>5. OwnerInv'
      BY <2>1, <1>1, <1>3 DEF OwnerInv, Usable
    <2>6. WritesInv'
      BY <1>0, <1>1, <1>3 DEF WritesInv
    <2>7. StagedInv'
      BY <2>1, <2>2, <1>1, <1>2, <1>3 DEF StagedInv
    <2>8. RootWritesAreTheirOwn' /\ AllOrNothing'
      BY <1>0, <1>1, <1>3 DEF RootWritesAreTheirOwn, AllOrNothing
    <2> QED BY <2>3, <2>4, <2>5, <2>6, <2>7, <2>8 DEF ConnectionInv
  <1>4. CASE Settled(t, "error") /\ UNCHANGED <<tx, phase, broken>>
    <2>1. /\ QueueInv' /\ running' = {} /\ tail' \in Seq(Calls) /\ awaits' = Nobody
          /\ told' \in [Calls -> Answers] /\ told'[t] = "error"
          /\ \A d \in Calls : d # t => told'[d] = told[d]
      BY <1>0, <1>1, <1>4, SettleQueue
    <2>2. TypeOK'
      BY <2>1, <1>0, <1>1, <1>4 DEF TypeOK
    <2>3. OwnerInv'
      BY <1>0, <1>1, <1>4 DEF OwnerInv
    <2>4. WritesInv'
      BY <2>1, <1>0, <1>1, <1>2, <1>4 DEF WritesInv, Calls
    <2>5. StagedInv'
      BY <1>1, <1>4 DEF StagedInv
    <2>6. RootWritesAreTheirOwn' /\ AllOrNothing'
      BY <2>1, <1>0, <1>1, <1>2 DEF RootWritesAreTheirOwn, AllOrNothing, Calls
    <2> QED BY <2>1, <2>2, <2>3, <2>4, <2>5, <2>6 DEF ConnectionInv
  <1> QED BY <1>3, <1>4 DEF Begin

(* What the callback does leaves the calls and the database alone; phase and  *)
(* levels stay within the transaction's bounds, and what is staged stays what *)
(* the callback saw succeed.                                                 *)
Bounded(t) ==
    /\ UNCHANGED <<tail, running, told, closed, unavailable, open, db, awaits>>
    /\ phase' \in {"callback", "commit", "rollback"} /\ broken' \in BOOLEAN
    /\ phase' = "callback" \/ Len(tx') = 1
    /\ tx' \in Seq(SUBSET Writes) /\ Len(tx') \in {1, 2}
    /\ kept' \in [Transactions -> SUBSET ScopedWrites]
    /\ made' \in [Transactions -> SUBSET ScopedWrites]
    /\ \A u \in Transactions : u # t => kept'[u] = kept[u] /\ made'[u] = made[u]
    /\ made[t] \subseteq made'[t] /\ kept'[t] \subseteq made'[t]
    /\ \A w \in made'[t] : w \in made[t] \/ \A u \in Transactions : w \notin made[u]

Staged(t) ==
    /\ \A i \in 1..Len(tx') : tx'[i] \subseteq made'[t]
    /\ Len(tx') = 2 => tx'[1] \cap tx'[2] = {}
    /\ ~broken' => kept'[t] = (IF Len(tx') = 1 THEN tx'[1] ELSE tx'[1] \cup tx'[2])
    /\ phase' = "commit" => ~broken'

\* Steps of the callback and its savepoints (makeAdapter, base.savepoint): they touch
\* the transaction's own records and its levels, so whatever is staged as Staged says
\* keeps the whole invariant.
LEMMA CallbackSteps ==
    ASSUME ConnectionInv, NEW t \in running, t \in Transactions, phase \in {"callback", "commit"},
           Bounded(t), Staged(t)
    PROVE  ConnectionInv'
  <1> USE SqliteConnectionAssumption
  <1>0. TypeOK /\ QueueInv /\ OwnerInv /\ WritesInv /\ StagedInv
        /\ RootWritesAreTheirOwn /\ AllOrNothing
    BY DEF ConnectionInv
  <1> USE DEF Bounded
  <1>1. \A u \in running : u = t
    BY <1>0 DEF QueueInv
  <1>2. phase # "none" /\ told[t] = "waiting"
    BY <1>0 DEF QueueInv
  <1>3. TypeOK'
    BY <1>0 DEF TypeOK
  <1>4. QueueInv'
    BY <1>0 DEF QueueInv
  <1>5. OwnerInv'
    BY <1>0, <1>2 DEF OwnerInv
  <1>6. WritesInv'
    <2>1. \A u \in Transactions : kept'[u] \subseteq made'[u]
      BY <1>0 DEF WritesInv
    <2>2. \A u, v \in Transactions : u # v => made'[u] \cap made'[v] = {}
      BY <1>0 DEF WritesInv
    <2>3. \A u \in Transactions :
             told'[u] \in {"none", "waiting", "rejected"} /\ ~(u \in running' /\ phase' # "none") => made'[u] = {}
      BY <1>0 DEF WritesInv
    <2>4. \A w \in db' : w \in RootWrites \/ \E u \in Transactions : w \in made'[u]
      BY <1>0 DEF WritesInv
    <2> QED BY <2>1, <2>2, <2>3, <2>4 DEF WritesInv
  <1>7. StagedInv'
    BY <1>1 DEF StagedInv, Staged
  <1>8. RootWritesAreTheirOwn'
    BY <1>0 DEF RootWritesAreTheirOwn
  <1>9. AllOrNothing'
    <2>1. made'[t] \cap db = {}
      <3>1. made[t] \cap db = {}
        BY <1>0, <1>2 DEF AllOrNothing
      <3>2. \A w \in made'[t] : w \in ScopedWrites /\ w \notin RootWrites
        OBVIOUS
      <3>3. \A w \in db : w \in RootWrites \/ \E u \in Transactions : w \in made[u]
        BY <1>0 DEF WritesInv
      <3> QED BY <3>1, <3>2, <3>3
    <2> QED BY <2>1, <1>0, <1>2 DEF AllOrNothing
  <1> QED BY <1>3, <1>4, <1>5, <1>6, <1>7, <1>8, <1>9 DEF ConnectionInv

(* The one that has the connection while a transaction is open is its owner. *)
LEMMA Owner ==
    ASSUME ConnectionInv, phase # "none"
    PROVE  /\ \E t \in Transactions : t \in running /\ \A c \in running : c = t
           /\ open /\ ~unavailable /\ Len(tx) \in {1, 2} /\ tx \in Seq(SUBSET Writes)
           /\ phase \in {"commit", "rollback"} => Len(tx) = 1
           /\ kept \in [Transactions -> SUBSET ScopedWrites]
           /\ made \in [Transactions -> SUBSET ScopedWrites]
           /\ \A t \in Transactions : kept[t] \subseteq made[t]
           /\ broken \in BOOLEAN
           /\ \A t \in Transactions : t \in running =>
                 /\ \A i \in 1..Len(tx) : tx[i] \subseteq made[t]
                 /\ Len(tx) = 2 => tx[1] \cap tx[2] = {}
                 /\ ~broken => kept[t] = (IF Len(tx) = 1 THEN tx[1] ELSE tx[1] \cup tx[2])
                 /\ phase = "commit" => ~broken
  BY DEF ConnectionInv, TypeOK, QueueInv, OwnerInv, WritesInv, StagedInv

(* A write of the callback, staged or failed.                                *)
LEMMA ScopedStep ==
    ASSUME ConnectionInv, NEW t \in Transactions, NEW w \in ScopedWrites, Scoped(t, w)
    PROVE  ConnectionInv'
  <1>1. t \in running /\ phase = "callback"
    BY DEF Scoped, InCallback
  <1>2. /\ Len(tx) \in {1, 2} /\ tx \in Seq(SUBSET Writes) /\ broken \in BOOLEAN
        /\ kept \in [Transactions -> SUBSET ScopedWrites]
        /\ made \in [Transactions -> SUBSET ScopedWrites]
        /\ kept[t] \subseteq made[t]
        /\ \A i \in 1..Len(tx) : tx[i] \subseteq made[t]
        /\ Len(tx) = 2 => tx[1] \cap tx[2] = {}
        /\ ~broken => kept[t] = (IF Len(tx) = 1 THEN tx[1] ELSE tx[1] \cup tx[2])
    BY <1>1, Owner
  <1>3. /\ UNCHANGED <<tail, running, told, closed, unavailable, open, db, awaits, phase, broken>>
        /\ \A u \in Transactions : w \notin made[u]
        /\ made' = [made EXCEPT ![t] = @ \cup {w}]
    BY DEF Scoped, Quiet
  <1>4. made' \in [Transactions -> SUBSET ScopedWrites] /\ made'[t] = made[t] \cup {w}
        /\ \A u \in Transactions : u # t => made'[u] = made[u]
    BY <1>2, <1>3
  <1>5. CASE tx' = Stage(tx, w) /\ kept' = [kept EXCEPT ![t] = @ \cup {w}]
    <2>1. w \in Writes
      BY DEF Writes
    <2>2. /\ tx' \in Seq(SUBSET Writes) /\ Len(tx') = Len(tx)
          /\ Len(tx) = 1 => tx'[1] = tx[1] \cup {w}
          /\ Len(tx) = 2 => tx'[1] = tx[1] /\ tx'[2] = tx[2] \cup {w}
      BY <2>1, <1>2, <1>5, StageOne
    <2>3. kept' \in [Transactions -> SUBSET ScopedWrites] /\ kept'[t] = kept[t] \cup {w}
          /\ \A u \in Transactions : u # t => kept'[u] = kept[u]
      BY <1>2, <1>5
    <2>4. Bounded(t)
      BY <2>2, <2>3, <1>1, <1>2, <1>3, <1>4 DEF Bounded
    <2>5. CASE Len(tx) = 1
      <3>1. Staged(t)
        BY <2>2, <2>3, <2>5, <1>1, <1>2, <1>3, <1>4 DEF Staged
      <3> QED BY <2>4, <3>1, <1>1, CallbackSteps
    <2>6. CASE Len(tx) = 2
      <3>1. w \notin tx[1] /\ w \notin tx[2]
        BY <2>6, <1>2, <1>3
      <3>2. tx'[1] \cap tx'[2] = {} /\ Len(tx') = 2
        BY <2>2, <2>6, <3>1, <1>2
      <3>3. \A i \in 1..Len(tx') : tx'[i] \subseteq made'[t]
        BY <2>2, <2>6, <3>2, <1>2, <1>4
      <3>4. Staged(t)
        BY <2>2, <2>3, <2>6, <3>2, <3>3, <1>1, <1>2, <1>3 DEF Staged
      <3> QED BY <2>4, <3>4, <1>1, CallbackSteps
    <2> QED BY <2>5, <2>6, <1>2
  <1>6. CASE UNCHANGED <<tx, kept>>
    <2>1. Bounded(t)
      BY <1>1, <1>2, <1>3, <1>4, <1>6 DEF Bounded
    <2>2. Staged(t)
      BY <1>1, <1>2, <1>3, <1>4, <1>6 DEF Staged
    <2> QED BY <2>1, <2>2, <1>1, CallbackSteps
  <1> QED BY <1>5, <1>6 DEF Scoped

(* Savepoints open, are released and fail; the callback comes to its end.    *)
LEMMA SavepointSteps ==
    ASSUME ConnectionInv, SavepointOpens \/ SavepointReleases \/ SavepointFails \/ Returns
    PROVE  ConnectionInv'
  <1>1. phase = "callback"
    BY DEF SavepointOpens, SavepointReleases, SavepointFails, Returns, InCallback
  <1>2. PICK t \in Transactions : t \in running /\ \A c \in running : c = t
    BY <1>1, Owner
  <1>3. /\ Len(tx) \in {1, 2} /\ tx \in Seq(SUBSET Writes) /\ broken \in BOOLEAN
        /\ kept \in [Transactions -> SUBSET ScopedWrites]
        /\ made \in [Transactions -> SUBSET ScopedWrites]
        /\ kept[t] \subseteq made[t]
        /\ \A i \in 1..Len(tx) : tx[i] \subseteq made[t]
        /\ Len(tx) = 2 => tx[1] \cap tx[2] = {}
        /\ ~broken => kept[t] = (IF Len(tx) = 1 THEN tx[1] ELSE tx[1] \cup tx[2])
    BY <1>1, <1>2, Owner
  <1>a. \A i \in 1..Len(tx) : tx[i] \in SUBSET Writes
    BY <1>3
  <1>4. UNCHANGED <<tail, running, told, closed, unavailable, open, db, awaits, made>>
    BY DEF SavepointOpens, SavepointReleases, SavepointFails, Returns, Quiet
  <1>5. CASE SavepointOpens
    <2>1. /\ tx' \in Seq(SUBSET Writes) /\ Len(tx') = 2 /\ tx'[1] = tx[1] /\ tx'[2] = {}
          /\ Len(tx) = 1 /\ UNCHANGED <<phase, broken, kept>>
      <3>1. tx' = Append(tx, {}) /\ Len(tx) = 1 /\ UNCHANGED <<phase, broken, kept>>
        BY <1>5 DEF SavepointOpens
      <3>2. {} \in SUBSET Writes
        OBVIOUS
      <3>3. tx' \in Seq(SUBSET Writes) /\ Len(tx') = Len(tx) + 1 /\ tx'[1] = tx[1] /\ tx'[Len(tx) + 1] = {}
        <4>1. tx \in Seq(SUBSET Writes)
          BY <1>3
        <4>2. /\ Append(tx, {}) \in Seq(SUBSET Writes) /\ Len(Append(tx, {})) = Len(tx) + 1
              /\ Append(tx, {})[Len(tx) + 1] = {}
              /\ \A i \in 1..Len(tx) : Append(tx, {})[i] = tx[i]
          BY <4>1, <3>2, AppendOne
        <4>3. 1 \in 1..Len(tx)
          BY <3>1
        <4> QED BY <4>2, <4>3, <3>1
      <3> QED BY <3>1, <3>3
    <2>2. Bounded(t)
      BY <2>1, <1>1, <1>3, <1>4 DEF Bounded
    <2>3. Staged(t)
      BY <2>1, <1>1, <1>3, <1>4 DEF Staged
    <2> QED BY <2>2, <2>3, <1>1, <1>2, CallbackSteps
  <1>6. CASE SavepointReleases
    <2>1. Len(tx) = 2 /\ tx[1] \in SUBSET Writes /\ tx[2] \in SUBSET Writes
      BY <1>a, <1>6 DEF SavepointReleases
    <2>2. tx' = <<tx[1] \cup tx[2]>> /\ UNCHANGED <<phase, broken, kept>>
      BY <1>6 DEF SavepointReleases
    <2>3. tx' \in Seq(SUBSET Writes) /\ Len(tx') = 1 /\ tx'[1] = tx[1] \cup tx[2]
      BY <2>1, <2>2
    <2>4. Bounded(t)
      BY <2>2, <2>3, <1>1, <1>3, <1>4 DEF Bounded
    <2>5. Staged(t)
      BY <2>1, <2>2, <2>3, <1>1, <1>3, <1>4 DEF Staged
    <2> QED BY <2>4, <2>5, <1>1, <1>2, CallbackSteps
  <1>7. CASE SavepointFails
    <2>1. Len(tx) = 2 /\ tx[1] \in SUBSET Writes /\ tx[2] \in SUBSET Writes
      BY <1>a, <1>7 DEF SavepointFails
    <2>2. kept' = [u \in Transactions |-> IF u \in running THEN kept[u] \ tx[2] ELSE kept[u]]
          /\ UNCHANGED phase
      BY <1>7 DEF SavepointFails
    <2>3. kept' \in [Transactions -> SUBSET ScopedWrites] /\ kept'[t] = kept[t] \ tx[2]
          /\ \A u \in Transactions : u # t => kept'[u] = kept[u]
      BY <2>2, <1>2, <1>3
    <2>4. \/ tx' = <<tx[1]>> /\ UNCHANGED broken
          \/ tx' = <<tx[1] \cup tx[2]>> /\ broken' = TRUE
      BY <1>7 DEF SavepointFails
    <2>5. /\ tx' \in Seq(SUBSET Writes) /\ Len(tx') = 1 /\ broken' \in BOOLEAN
          /\ tx'[1] \subseteq tx[1] \cup tx[2]
          /\ ~broken' => tx'[1] = tx[1] /\ ~broken
      <3>1. CASE tx' = <<tx[1]>> /\ UNCHANGED broken
        BY <3>1, <2>1, <1>3
      <3>2. CASE tx' = <<tx[1] \cup tx[2]>> /\ broken' = TRUE
        BY <3>2, <2>1, <1>3
      <3> QED BY <3>1, <3>2, <2>4
    <2>6. Bounded(t)
      BY <2>2, <2>3, <2>5, <1>1, <1>3, <1>4 DEF Bounded
    <2>7. Staged(t)
      <3>1. \A i \in 1..Len(tx') : tx'[i] \subseteq made'[t]
        BY <2>1, <2>5, <1>3, <1>4
      <3>2. ~broken' => kept'[t] = tx'[1]
        BY <2>1, <2>3, <2>5, <1>3
      <3> QED BY <3>1, <3>2, <2>2, <2>5, <1>1 DEF Staged
    <2> QED BY <2>6, <2>7, <1>1, <1>2, CallbackSteps
  <1>8. CASE Returns
    <2>1. /\ Len(tx) = 1 /\ UNCHANGED <<tx, broken, kept>>
          /\ phase' \in {"commit", "rollback"} /\ (phase' = "commit" => ~broken)
      BY <1>8 DEF Returns, MayCommit
    <2>2. Bounded(t)
      <3>1. tx' = tx /\ broken' = broken /\ kept' = kept /\ made' = made
        BY <2>1, <1>4
      <3>2. tx \in Seq(SUBSET Writes) /\ kept[t] \subseteq made[t] /\ broken \in BOOLEAN
            /\ kept \in [Transactions -> SUBSET ScopedWrites]
            /\ made \in [Transactions -> SUBSET ScopedWrites]
        BY <1>3
      <3> QED BY <2>1, <3>1, <3>2, <1>4 DEF Bounded
    <2>3. Staged(t)
      BY <2>1, <1>1, <1>3, <1>4 DEF Staged
    <2> QED BY <2>2, <2>3, <1>1, <1>2, CallbackSteps
  <1> QED BY <1>5, <1>6, <1>7, <1>8

(* COMMIT puts what the callback saw succeed into the database, or fails.    *)
LEMMA CommitOwner ==
    ASSUME ConnectionInv, NEW t \in Transactions, Commit(t)
    PROVE  ConnectionInv'
  <1> USE SqliteConnectionAssumption
  <1>0. TypeOK /\ QueueInv /\ OwnerInv /\ WritesInv /\ StagedInv
        /\ RootWritesAreTheirOwn /\ AllOrNothing
    BY DEF ConnectionInv
  <1>1. /\ t \in running /\ phase = "commit" /\ t \in Calls /\ t # Close
        /\ UNCHANGED <<closed, unavailable, open, broken, kept, made>>
    BY DEF Commit, Calls
  <1>2. /\ Len(tx) = 1 /\ tx[1] = kept[t] /\ kept[t] \subseteq made[t] /\ ~broken
        /\ tx \in Seq(SUBSET Writes) /\ tx[1] \in SUBSET Writes
    BY <1>1, Owner
  <1>3. told[t] = "waiting" /\ \A c \in running : c = t
    BY <1>0, <1>1 DEF QueueInv
  <1>4. CASE db' = db \cup tx[1] /\ tx' = <<>> /\ phase' = "none" /\ Settled(t, "ok")
    <2>1. /\ QueueInv' /\ running' = {} /\ tail' \in Seq(Calls) /\ awaits' = Nobody
          /\ told' \in [Calls -> Answers] /\ told'[t] = "ok"
          /\ \A d \in Calls : d # t => told'[d] = told[d]
      BY <1>0, <1>1, <1>4, SettleQueue
    <2>2. tx' \in Seq(SUBSET Writes)
      BY <1>4
    <2>3. TypeOK'
      BY <2>1, <2>2, <1>0, <1>1, <1>2, <1>4 DEF TypeOK
    <2>4. OwnerInv'
      BY <1>4 DEF OwnerInv
    <2>5. WritesInv'
      <3>1. \A w \in db' : w \in RootWrites \/ \E u \in Transactions : w \in made[u]
        BY <1>0, <1>2, <1>4 DEF WritesInv
      <3> QED BY <2>1, <3>1, <1>0, <1>1, <1>3, <1>4 DEF WritesInv, Calls
    <2>6. StagedInv'
      BY <1>4 DEF StagedInv
    <2>7. RootWritesAreTheirOwn'
      BY <2>1, <1>0, <1>4 DEF RootWritesAreTheirOwn, Calls
    <2>8. AllOrNothing'
      <3> SUFFICES ASSUME NEW u \in Transactions
                   PROVE  IF told'[u] = "ok" THEN made[u] \cap db' = kept[u] ELSE made[u] \cap db' = {}
        BY <1>1 DEF AllOrNothing
      <3>1. CASE u = t
        <4>1. made[t] \cap db = {}
          BY <1>0, <1>3 DEF AllOrNothing
        <4> QED BY <3>1, <4>1, <2>1, <1>2, <1>4
      <3>2. CASE u # t
        <4>1. made[u] \cap tx[1] = {}
          BY <3>2, <1>0, <1>2 DEF WritesInv
        <4>2. told'[u] = told[u]
          BY <3>2, <2>1 DEF Calls
        <4> QED BY <4>1, <4>2, <1>0, <1>4 DEF AllOrNothing
      <3> QED BY <3>1, <3>2
    <2> QED BY <2>1, <2>3, <2>4, <2>5, <2>6, <2>7, <2>8 DEF ConnectionInv
  <1>5. CASE phase' = "rollback" /\ UNCHANGED <<db, tx, told, running, awaits, tail>>
    <2>1. Bounded(t)
      BY <1>0, <1>1, <1>2, <1>5 DEF Bounded, TypeOK
    <2>2. Staged(t)
      <3>1. tx' = tx /\ broken' = broken /\ kept' = kept /\ made' = made /\ phase' = "rollback"
        BY <1>1, <1>5
      <3>2. \A i \in 1..Len(tx) : tx[i] \subseteq made[t]
        BY <1>2
      <3> QED BY <3>1, <3>2, <1>2 DEF Staged
    <2> QED BY <2>1, <2>2, <1>1, CallbackSteps
  <1> QED BY <1>4, <1>5 DEF Commit

(* ROLLBACK drops everything, or leaves a connection nobody uses again.      *)
LEMMA RollbackOwner ==
    ASSUME ConnectionInv, NEW t \in Transactions, Rollback(t)
    PROVE  ConnectionInv'
  <1> USE SqliteConnectionAssumption
  <1>0. TypeOK /\ QueueInv /\ OwnerInv /\ WritesInv /\ StagedInv
        /\ RootWritesAreTheirOwn /\ AllOrNothing
    BY DEF ConnectionInv
  <1>1. /\ t \in running /\ phase = "rollback" /\ phase' = "none" /\ t \in Calls /\ t # Close
        /\ UNCHANGED <<closed, open, db, broken, kept, made>>
    BY DEF Rollback, Calls
  <1>2. told[t] = "waiting" /\ \A c \in running : c = t
    BY <1>0, <1>1 DEF QueueInv
  <1>3. PICK a \in {"ok", "error", "unknown"} : a # "ok" /\ Settled(t, a)
    BY DEF Rollback
  <1>4. /\ QueueInv' /\ running' = {} /\ tail' \in Seq(Calls) /\ awaits' = Nobody
        /\ told' \in [Calls -> Answers] /\ told'[t] = a
        /\ \A d \in Calls : d # t => told'[d] = told[d]
    BY <1>0, <1>1, <1>3, SettleQueue
  <1>5. /\ tx' = <<>> \/ unavailable' = TRUE
        /\ tx' = <<>> \/ tx' = tx
        /\ unavailable' \in BOOLEAN
    BY <1>0 DEF Rollback, Condemned, TypeOK
  <1>6. tx' \in Seq(SUBSET Writes)
    <2>1. tx \in Seq(SUBSET Writes) /\ <<>> \in Seq(SUBSET Writes)
      BY <1>0 DEF TypeOK
    <2> QED BY <2>1, <1>5
  <1>7. TypeOK'
    BY <1>0, <1>1, <1>4, <1>5, <1>6 DEF TypeOK
  <1>8. OwnerInv'
    BY <1>1, <1>5 DEF OwnerInv
  <1>9. WritesInv'
    <2>1. \A u \in Transactions : u # t => told'[u] = told[u] /\ u \notin running
      BY <1>1, <1>2, <1>4 DEF Calls
    <2>2. \A u \in Transactions : u # t /\ told'[u] \in {"none", "waiting", "rejected"} => made[u] = {}
      BY <2>1, <1>0 DEF WritesInv
    <2>3. told'[t] \notin {"none", "waiting", "rejected"}
      BY <1>3, <1>4
    <2>4. \A u \in Transactions : told'[u] \in {"none", "waiting", "rejected"} => made'[u] = {}
      BY <2>2, <2>3, <1>1
    <2> QED BY <2>4, <1>0, <1>1 DEF WritesInv
  <1>10. StagedInv'
    BY <1>1 DEF StagedInv
  <1>11. RootWritesAreTheirOwn'
    BY <1>0, <1>1, <1>4 DEF RootWritesAreTheirOwn, Calls
  <1>12. AllOrNothing'
    BY <1>0, <1>1, <1>2, <1>3, <1>4 DEF AllOrNothing, Calls
  <1> QED BY <1>4, <1>7, <1>8, <1>9, <1>10, <1>11, <1>12 DEF ConnectionInv

\* Every step, of the queue, of a root call, of a transaction or of close, keeps the
\* invariant.
THEOREM StepConnection == ConnectionInv /\ [Next]_vars => ConnectionInv'
  <1> SUFFICES ASSUME ConnectionInv, [Next]_vars PROVE ConnectionInv'
    OBVIOUS
  <1>1. ASSUME NEW c \in Calls, CallOutside(c) \/ CallInside(c) PROVE ConnectionInv'
    BY <1>1, AskQueue
  <1>2. ASSUME CallClose PROVE ConnectionInv'
    <2>1. Close \in Calls
      BY DEF Calls
    <2> QED BY <1>2, <2>1, AskQueue
  <1>3. CASE UNCHANGED vars
    BY <1>3 DEF vars, ConnectionInv, TypeOK, QueueInv, OwnerInv, WritesInv, StagedInv,
        RootWritesAreTheirOwn, AllOrNothing
  <1> QED BY <1>1, <1>2, <1>3, NextQueue, CloseQueue, SavepointSteps, RootQueue, BeginOwner,
        CommitOwner, RollbackOwner, ScopedStep DEF Next, Done

\* The invariant of the shared connection holds in every behaviour, for any sets of
\* root writes, transactions and writes in them.
THEOREM ConnectionSafe == Spec => []ConnectionInv
  BY InitConnection, StepConnection, PTL DEF Spec

\* RootWritesAreTheirOwn: a root call told ok (enqueue, create) is in the database,
\* however transactions on the same connection ended: it was never part of one.
THEOREM RootWritesSafe == Spec => []RootWritesAreTheirOwn
  <1>1. ConnectionInv => RootWritesAreTheirOwn
    BY DEF ConnectionInv
  <1> QED BY <1>1, ConnectionSafe, PTL

\* AllOrNothing: a transaction told ok (adapter.transaction) has all its writes in the
\* database that its savepoints kept, one told an error has none.
THEOREM AllOrNothingHolds == Spec => []AllOrNothing
  <1>1. ConnectionInv => AllOrNothing
    BY DEF ConnectionInv
  <1> QED BY <1>1, ConnectionSafe, PTL

\* CloseWaits: the connection is closed (adapter.close) only when every call admitted
\* before has been answered, and nothing follows.
THEOREM CloseIsLast == Spec => []CloseWaits
  <1>1. ConnectionInv => CloseWaits
    BY DEF ConnectionInv, QueueInv, CloseWaits
  <1> QED BY <1>1, ConnectionSafe, PTL
=============================================================================
