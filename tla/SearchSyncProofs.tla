--------------------------- MODULE SearchSyncProofs ---------------------------
(***************************************************************************)
(* Proofs about SearchSync for every set of documents and workers, every   *)
(* batch size, both store capabilities and any number of writes and faults.*)
(* The last part counts repair rows; it needs one worker, or a store that  *)
(* acknowledges an event and its guard at once.                            *)
(***************************************************************************)
EXTENDS SearchSync, FiniteSetTheorems, TLAPS

----------------------------------------------------------------------------
(* The outbox operations: what each does to the tables. *)

\* Only fresh ids get new rows, and a row that stays belongs to its document.
RowsMove ==
    \A i \in Ids : IsRow(i)' => \/ IsRow(i) /\ rows'[i].doc = rows[i].doc
                                \/ i >= nextId

RowsStay == \A i \in Ids : IsRow(i) => IsRow(i)'

Counters == nextId' >= nextId /\ \A d \in Docs : revision'[d] >= revision[d]

\* A rewritten row is a row of the same id and document.
LEMMA LeaseType ==
    ASSUME NEW e \in Event, NEW w \in Workers
    PROVE  /\ withOutboxLease(e, w) \in Event
           /\ withOutboxLease(e, w).id = e.id /\ withOutboxLease(e, w).doc = e.doc
           /\ withOutboxLease(e, w).dead = e.dead /\ withOutboxLease(e, w).token = w
  <1>1. e.version + 1 \in Nat /\ w \in Workers \cup {NoToken}
    BY DEF Event
  <1>2. withOutboxLease(e, w) \in Event
    BY <1>1, Zenon DEF Event, withOutboxLease
  <1> QED BY <1>2 DEF Event, withOutboxLease

LEMMA UnleaseType ==
    ASSUME NEW e \in Event
    PROVE  /\ withoutOutboxLease(e) \in Event
           /\ withoutOutboxLease(e).id = e.id /\ withoutOutboxLease(e).doc = e.doc
           /\ withoutOutboxLease(e).token = NoToken
  <1>1. e.version + 1 \in Nat /\ NoToken \in Workers \cup {NoToken}
    BY DEF Event
  <1>2. withoutOutboxLease(e) \in Event
    BY <1>1, Zenon DEF Event, withoutOutboxLease
  <1> QED BY <1>2 DEF Event, withoutOutboxLease

LEMMA RetryType ==
    ASSUME NEW e \in Event
    PROVE  /\ outboxRetryEvent(e) \in Event
           /\ outboxRetryEvent(e).id = e.id /\ outboxRetryEvent(e).doc = e.doc
           /\ outboxRetryEvent(e).token = NoToken
  <1>1. e.version + 1 \in Nat /\ NoToken \in Workers \cup {NoToken} /\ Attempt(e) \in Nat
    BY OutboxAssumption DEF Event, Attempt
  <1>2. outboxRetryEvent(e) \in Event
    BY <1>1, Zenon DEF Event, outboxRetryEvent
  <1> QED BY <1>2 DEF Event, outboxRetryEvent

LEMMA DeadLetterType ==
    ASSUME NEW e \in Event
    PROVE  /\ outboxDeadLetterEvent(e) \in Event
           /\ outboxDeadLetterEvent(e).id = e.id /\ outboxDeadLetterEvent(e).doc = e.doc
           /\ outboxDeadLetterEvent(e).token = NoToken
  <1>1. e.version + 1 \in Nat /\ NoToken \in Workers \cup {NoToken} /\ Attempt(e) \in Nat
    BY OutboxAssumption DEF Event, Attempt
  <1>2. outboxDeadLetterEvent(e) \in Event
    BY <1>1, Zenon DEF Event, outboxDeadLetterEvent
  <1> QED BY <1>2 DEF Event, outboxDeadLetterEvent

LEMMA NewEventType ==
    ASSUME nextId \in Nat \ {0}, nextId <= MaxRows, NEW d \in Docs, NEW c \in Ids
    PROVE  /\ NewEvent(d, c) \in Event
           /\ NewEvent(d, c).id = nextId /\ NewEvent(d, c).doc = d
           /\ NewEvent(d, c).token = NoToken
  BY OutboxAssumption DEF Event, NewEvent, Ids

LEMMA AppendStep ==
    ASSUME OutboxTypeOK, NEW d \in Docs, NEW c \in Ids, Append(d, c)
    PROVE  /\ OutboxTypeOK' /\ RowsMove /\ RowsStay /\ Counters
           /\ nextId' = nextId + 1 /\ nextId \in Ids
           /\ rows'[nextId] = NewEvent(d, c) /\ NewEvent(d, c) \in Event
           /\ ~IsRow(nextId) /\ rows'[nextId] # NoRow
  <1>1. /\ nextId \in Ids /\ nextId \in Nat \ {0} /\ MaxRows \in Nat
        /\ nextId <= MaxRows
    BY OutboxAssumption DEF OutboxTypeOK, Append, Ids
  <1>2. NewEvent(d, c) \in Event /\ NewEvent(d, c).id = nextId /\ NewEvent(d, c).token = NoToken
    BY <1>1, NewEventType
  <1>3. NewEvent(d, c) # NoRow
    BY <1>2, OutboxAssumption
  <1>4. ~IsRow(nextId)
    BY <1>1 DEF OutboxTypeOK
  <1>5. rows' \in [Ids -> Event \cup {NoRow}] /\ rows'[nextId] = NewEvent(d, c)
    BY <1>1, <1>2 DEF OutboxTypeOK, Append
  <1>6. \A i \in Ids : i # nextId => rows'[i] = rows[i]
    BY <1>1 DEF OutboxTypeOK, Append
  <1>7. OutboxTypeOK'
    <2>1. nextId' \in 1..(MaxRows + 1)
      BY <1>1 DEF Append
    <2>2. ASSUME NEW i \in Ids, IsRow(i)'
          PROVE  rows'[i].id = i /\ i < nextId' /\ (rows'[i].dead => rows'[i].token = NoToken)
      <3>1. CASE i = nextId
        BY <3>1, <1>1, <1>2, <1>5 DEF Append
      <3>2. CASE i # nextId
        BY <3>2, <2>2, <1>1, <1>6 DEF OutboxTypeOK, Append, IsRow, Ids
      <3> QED BY <3>1, <3>2
    <2> QED BY <1>5, <2>1, <2>2 DEF OutboxTypeOK, Append
  <1>8. RowsMove /\ RowsStay
    BY <1>1, <1>3, <1>4, <1>5, <1>6 DEF RowsMove, RowsStay, IsRow
  <1>9. Counters /\ nextId' = nextId + 1
    BY <1>1 DEF Counters, Append, OutboxTypeOK
  <1> QED BY <1>1, <1>2, <1>3, <1>4, <1>5, <1>7, <1>8, <1>9

LEMMA ClaimStep ==
    ASSUME OutboxTypeOK, NEW w \in Workers, NEW e \in Event, ClaimLease(e, w)
    PROVE  OutboxTypeOK' /\ RowsMove /\ RowsStay /\ Counters /\ nextId' = nextId
  <1>1. withOutboxLease(e, w) \in Event /\ withOutboxLease(e, w).id = e.id
        /\ withOutboxLease(e, w).doc = e.doc /\ withOutboxLease(e, w).dead = e.dead
    BY LeaseType
  <1>2. e.id \in Ids /\ rows[e.id] = e /\ IsRow(e.id)
    BY OutboxAssumption DEF Event, ClaimLease, Claimable, IsRow
  <1>3. rows' \in [Ids -> Event \cup {NoRow}] /\ rows'[e.id] = withOutboxLease(e, w)
        /\ \A i \in Ids : i # e.id => rows'[i] = rows[i]
    BY <1>1, <1>2 DEF OutboxTypeOK, ClaimLease
  <1>4. UNCHANGED <<nextId, delayed, revision>> /\ lapsed' \subseteq Ids /\ ~e.dead
    BY DEF ClaimLease, Claimable, OutboxTypeOK
  <1> QED
    BY <1>1, <1>2, <1>3, <1>4, OutboxAssumption
    DEF OutboxTypeOK, RowsMove, RowsStay, Counters, IsRow, Ids

LEMMA RenewStep ==
    ASSUME OutboxTypeOK, NEW w \in Workers, NEW e \in Event, RenewLease(e)
    PROVE  /\ OutboxTypeOK' /\ RowsMove /\ RowsStay /\ Counters /\ nextId' = nextId
           /\ e.token \in Workers
  <1>1. e.id \in Ids /\ rows[e.id] = e /\ IsRow(e.id) /\ e.token \in Workers
    BY OutboxAssumption DEF Event, RenewLease, isLeaseCurrent, isOutboxLeaseActive, IsRow
  <1>2. withOutboxLease(e, e.token) \in Event /\ withOutboxLease(e, e.token).id = e.id
        /\ withOutboxLease(e, e.token).doc = e.doc /\ withOutboxLease(e, e.token).dead = e.dead
    BY <1>1, LeaseType
  <1>3. rows' \in [Ids -> Event \cup {NoRow}] /\ rows'[e.id] = withOutboxLease(e, e.token)
        /\ \A i \in Ids : i # e.id => rows'[i] = rows[i]
    BY <1>1, <1>2 DEF OutboxTypeOK, RenewLease
  <1>4. UNCHANGED <<nextId, lapsed, delayed, revision>>
    BY DEF RenewLease
  <1>5. ~e.dead
    BY <1>1, OutboxAssumption DEF OutboxTypeOK
  <1> QED
    BY <1>1, <1>2, <1>3, <1>4, <1>5, OutboxAssumption
    DEF OutboxTypeOK, RowsMove, RowsStay, Counters, IsRow, Ids

LEMMA ReleaseStep ==
    ASSUME OutboxTypeOK, NEW w \in Workers, NEW S, Release(S, w)
    PROVE  OutboxTypeOK' /\ RowsMove /\ RowsStay /\ Counters /\ nextId' = nextId
  <1>1. ASSUME NEW i \in Ids
        PROVE  /\ rows'[i] \in Event \cup {NoRow}
               /\ IsRow(i)' <=> IsRow(i)
               /\ IsRow(i) => /\ rows'[i].id = i /\ rows'[i].doc = rows[i].doc
                              /\ rows'[i].dead => rows'[i].token = NoToken
    <2>1. CASE i \in Releasable(S, w)
      <3>1. rows[i] \in Event /\ IsRow(i) /\ rows[i].id = i
        BY <2>1 DEF Releasable, OutboxTypeOK, IsRow
      <3>2. rows'[i] = withoutOutboxLease(rows[i])
        BY <2>1 DEF Release
      <3>3. rows'[i] \in Event /\ rows'[i].id = i /\ rows'[i].doc = rows[i].doc
            /\ rows'[i].token = NoToken
        BY <3>1, <3>2, UnleaseType
      <3> QED BY <3>1, <3>3, OutboxAssumption DEF IsRow
    <2>2. CASE i \notin Releasable(S, w)
      BY <2>2 DEF Release, OutboxTypeOK, IsRow
    <2> QED BY <2>1, <2>2
  <1>2. rows' \in [Ids -> Event \cup {NoRow}]
    BY <1>1 DEF Release
  <1>3. UNCHANGED <<nextId, delayed, revision>> /\ lapsed' \subseteq Ids
    BY DEF Release, OutboxTypeOK
  <1> QED
    BY <1>1, <1>2, <1>3, OutboxAssumption
    DEF OutboxTypeOK, RowsMove, RowsStay, Counters, Ids

LEMMA RetryStep ==
    ASSUME OutboxTypeOK, NEW w \in Workers, NEW S \in SUBSET Event, Retry(S)
    PROVE  OutboxTypeOK' /\ RowsMove /\ RowsStay /\ Counters /\ nextId' = nextId
  <1> DEFINE hit == {e.id : e \in Settleable(S)}
  <1>0. hit \subseteq Ids /\ \A i \in hit : IsRow(i)
    BY OutboxAssumption DEF Settleable, Event, IsRow
  <1>1. ASSUME NEW i \in Ids
        PROVE  /\ rows'[i] \in Event \cup {NoRow}
               /\ IsRow(i)' <=> IsRow(i)
               /\ IsRow(i) => /\ rows'[i].id = i /\ rows'[i].doc = rows[i].doc
                              /\ rows'[i].dead => rows'[i].token = NoToken
    <2>1. CASE i \in hit
      <3>1. rows[i] \in Event /\ IsRow(i) /\ rows[i].id = i
        BY <2>1, <1>0 DEF OutboxTypeOK, IsRow
      <3>2. rows'[i] = outboxRetryEvent(rows[i])
        BY <2>1 DEF Retry
      <3>3. rows'[i] \in Event /\ rows'[i].id = i /\ rows'[i].doc = rows[i].doc
            /\ rows'[i].token = NoToken
        BY <3>1, <3>2, RetryType
      <3> QED BY <3>1, <3>3, OutboxAssumption DEF IsRow
    <2>2. CASE i \notin hit
      BY <2>2 DEF Retry, OutboxTypeOK, IsRow
    <2> QED BY <2>1, <2>2
  <1>2. rows' \in [Ids -> Event \cup {NoRow}]
    BY <1>1 DEF Retry
  <1>3. UNCHANGED <<nextId, revision>> /\ lapsed' \subseteq Ids /\ delayed' \subseteq Ids
    BY <1>0 DEF Retry, OutboxTypeOK
  <1> QED
    BY <1>1, <1>2, <1>3, OutboxAssumption
    DEF OutboxTypeOK, RowsMove, RowsStay, Counters, Ids

LEMMA DeadLetterStep ==
    ASSUME OutboxTypeOK, NEW w \in Workers, NEW S \in SUBSET Event, DeadLetter(S)
    PROVE  OutboxTypeOK' /\ RowsMove /\ RowsStay /\ Counters /\ nextId' = nextId
  <1> DEFINE hit == {e.id : e \in Settleable(S)}
  <1>0. hit \subseteq Ids /\ \A i \in hit : IsRow(i)
    BY OutboxAssumption DEF Settleable, Event, IsRow
  <1>1. ASSUME NEW i \in Ids
        PROVE  /\ rows'[i] \in Event \cup {NoRow}
               /\ IsRow(i)' <=> IsRow(i)
               /\ IsRow(i) => /\ rows'[i].id = i /\ rows'[i].doc = rows[i].doc
                              /\ rows'[i].dead => rows'[i].token = NoToken
    <2>1. CASE i \in hit
      <3>1. rows[i] \in Event /\ IsRow(i) /\ rows[i].id = i
        BY <2>1, <1>0 DEF OutboxTypeOK, IsRow
      <3>2. rows'[i] = outboxDeadLetterEvent(rows[i])
        BY <2>1 DEF DeadLetter
      <3>3. rows'[i] \in Event /\ rows'[i].id = i /\ rows'[i].doc = rows[i].doc
            /\ rows'[i].token = NoToken
        BY <3>1, <3>2, DeadLetterType
      <3> QED BY <3>1, <3>3, OutboxAssumption DEF IsRow
    <2>2. CASE i \notin hit
      BY <2>2 DEF DeadLetter, OutboxTypeOK, IsRow
    <2> QED BY <2>1, <2>2
  <1>2. rows' \in [Ids -> Event \cup {NoRow}]
    BY <1>1 DEF DeadLetter
  <1>3. UNCHANGED <<nextId, revision>> /\ lapsed' \subseteq Ids /\ delayed' \subseteq Ids
    BY DEF DeadLetter, OutboxTypeOK
  <1> QED
    BY <1>1, <1>2, <1>3, OutboxAssumption
    DEF OutboxTypeOK, RowsMove, RowsStay, Counters, Ids

LEMMA DeleteStep ==
    ASSUME OutboxTypeOK, NEW S \in SUBSET Event, DeleteRows(S)
    PROVE  /\ OutboxTypeOK' /\ RowsMove /\ Counters /\ nextId' = nextId
           /\ \A i \in Ids : IsRow(i) /\ ~IsRow(i)' => \E e \in S : e.id = i
  <1> DEFINE gone == {e.id : e \in S}
  <1>1. \A i \in Ids : rows'[i] = IF i \in gone THEN NoRow ELSE rows[i]
    BY DEF DeleteRows
  <1>2. rows' \in [Ids -> Event \cup {NoRow}]
    BY DEF DeleteRows, OutboxTypeOK
  <1>3. UNCHANGED <<nextId, revision>> /\ lapsed' \subseteq Ids /\ delayed' \subseteq Ids
    BY DEF DeleteRows, OutboxTypeOK
  <1>4. \A i \in Ids : IsRow(i)' => IsRow(i) /\ rows'[i] = rows[i]
    BY <1>1 DEF IsRow
  <1>5. OutboxTypeOK'
    BY <1>2, <1>3, <1>4 DEF OutboxTypeOK
  <1>6. Counters
    BY <1>3, OutboxAssumption DEF OutboxTypeOK, Counters
  <1> QED BY <1>1, <1>3, <1>4, <1>5, <1>6 DEF RowsMove, IsRow

LEMMA BumpStep ==
    ASSUME OutboxTypeOK, NEW d \in Docs, BumpRevision(d)
    PROVE  /\ OutboxTypeOK' /\ RowsMove /\ RowsStay /\ Counters /\ nextId' = nextId
           /\ revision'[d] = revision[d] + 1
  BY OutboxAssumption
  DEF BumpRevision, OutboxTypeOK, RowsMove, RowsStay, Counters, IsRow, Ids

LEMMA ClockStep ==
    ASSUME OutboxTypeOK, NEW i \in Ids, LapseLease(i) \/ ReachAvailableAt(i)
    PROVE  OutboxTypeOK' /\ RowsMove /\ RowsStay /\ Counters /\ UNCHANGED <<rows, nextId>>
  <1>1. /\ UNCHANGED <<rows, nextId, revision>>
        /\ lapsed' \subseteq Ids /\ delayed' \subseteq Ids
    BY DEF LapseLease, ReachAvailableAt, OutboxTypeOK
  <1>2. Counters
    BY <1>1, OutboxAssumption DEF OutboxTypeOK, Counters
  <1> QED BY <1>1, <1>2 DEF OutboxTypeOK, RowsMove, RowsStay, IsRow

LEMMA OutboxStutter ==
    ASSUME OutboxTypeOK, UNCHANGED outboxVars
    PROVE  OutboxTypeOK' /\ RowsMove /\ RowsStay /\ Counters /\ nextId' = nextId
  BY OutboxAssumption DEF outboxVars, OutboxTypeOK, RowsMove, RowsStay, Counters, IsRow, Ids

----------------------------------------------------------------------------
(* What a step of worker w leaves alone, and what follows from that. *)

Others(w) ==
    \A v \in Workers \ {w} :
        /\ pc'[v] = pc[v] /\ cand'[v] = cand[v] /\ batch'[v] = batch[v]
        /\ failed'[v] = failed[v] /\ job'[v] = job[v]

\* The event of a last write is deleted only when it is no longer needed.
DeletionsPaid ==
    \A i \in Ids : IsRow(i) /\ ~IsRow(i)' =>
        \A d \in Docs : last[d] = i => Landed(d) \/ i \in sunk'

\* A mutation on its way stays there, except worker w's own; a new one is w's.
NetMoves(w) ==
    /\ \A m \in net' : m \in net \/ (pc[w] = "before" /\ m = Mutation(w))
    /\ \A m \in net : m \in net' \/ (pc[w] \in Reserved /\ m = Mutation(w))

Framed(w) ==
    /\ Others(w) /\ RowsMove /\ DeletionsPaid /\ Counters /\ NetMoves(w)
    /\ UNCHANGED <<ver, base, last, search>>
    /\ sunk \subseteq sunk'

\* A reservation is kept, or is above everything reserved so far.
RevisionMoves(w) ==
    pc'[w] \in Reserved =>
        \/ pc[w] \in Reserved /\ job'[w].ev.doc = job[w].ev.doc /\ job'[w].rsv = job[w].rsv
        \/ job'[w].rsv > revision[job'[w].ev.doc]

LEMMA EntityFrame ==
    ASSUME Inv, TypeOK', NEW w \in Workers, Framed(w)
    PROVE  InvEntity'
  <1> SUFFICES ASSUME NEW d \in Docs
               PROVE  /\ base'[d] <= revision'[d]
                      /\ last'[d] < nextId'
                      /\ ver'[d] > 0 => last'[d] \in Ids
                      /\ last'[d] \in Ids /\ rows'[last'[d]] # NoRow => rows'[last'[d]].doc = d
                      /\ Fenced(d, search[d].rev, search[d].ver)'
                      /\ ver'[d] > 0 => Recorded(d)' \/ Landed(d)'
    BY DEF InvEntity, IsRow
  <1>1. UNCHANGED <<ver, base, last, search>> /\ RowsMove /\ DeletionsPaid /\ Counters
        /\ sunk \subseteq sunk'
    BY DEF Framed
  <1>2. /\ base[d] <= revision[d]
        /\ last[d] < nextId
        /\ ver[d] > 0 => last[d] \in Ids
        /\ last[d] \in Ids /\ IsRow(last[d]) => rows[last[d]].doc = d
        /\ Fenced(d, search[d].rev, search[d].ver)
        /\ ver[d] > 0 => Recorded(d) \/ Landed(d)
    BY DEF Inv, InvEntity
  <1>3. /\ base[d] \in Nat /\ revision[d] \in Nat /\ revision'[d] \in Nat /\ nextId \in Nat
        /\ nextId' \in Nat /\ last[d] \in Nat /\ search[d].rev \in Nat /\ search[d].ver \in Nat
    BY OutboxAssumption DEF Inv, TypeOK, OutboxTypeOK
  <1>4. base'[d] <= revision'[d] /\ last'[d] < nextId' /\ (ver'[d] > 0 => last'[d] \in Ids)
    BY <1>1, <1>2, <1>3 DEF Counters
  <1>5. last'[d] \in Ids /\ rows'[last'[d]] # NoRow => rows'[last'[d]].doc = d
    BY <1>1, <1>2, <1>3 DEF RowsMove, IsRow
  <1>6. Fenced(d, search[d].rev, search[d].ver)'
    BY <1>1, <1>2, <1>3 DEF Fenced, Counters
  <1>7. Landed(d) => Landed(d)'
    BY <1>1 DEF Landed
  <1>8. ver'[d] > 0 => Recorded(d)' \/ Landed(d)'
    BY <1>1, <1>2, <1>7 DEF Recorded, DeletionsPaid, IsRow
  <1> QED BY <1>4, <1>5, <1>6, <1>8

LEMMA NetFrame ==
    ASSUME Inv, TypeOK', NEW w \in Workers, Framed(w)
    PROVE  InvNet'
  <1> SUFFICES ASSUME NEW m \in net'
               PROVE  m.rev <= revision'[m.doc] /\ m.ver <= ver'[m.doc]
                      /\ (m.rev > base'[m.doc] => m.ver = ver'[m.doc])
    BY DEF InvNet, Fenced
  <1>1. UNCHANGED <<ver, base>> /\ Counters /\ NetMoves(w)
    BY DEF Framed
  <1>2. m \in Message /\ m.doc \in Docs /\ m.rev \in Nat
        /\ revision[m.doc] \in Nat /\ revision'[m.doc] \in Nat
    BY DEF Inv, TypeOK, OutboxTypeOK, Message
  <1>3. Fenced(m.doc, m.rev, m.ver)
    <2>1. CASE m \in net
      BY <2>1 DEF Inv, InvNet
    <2>2. CASE pc[w] = "before" /\ m = Mutation(w)
      BY <2>2 DEF Inv, InvJob, HasRead, Guarded, Mutation
    <2> QED BY <2>1, <2>2, <1>1 DEF NetMoves
  <1> QED BY <1>1, <1>2, <1>3 DEF Fenced, Counters

LEMMA KnownKept ==
    ASSUME Inv, TypeOK', Counters, UNCHANGED last, NEW e \in Event, Known(e)
    PROVE  e.id < nextId' /\ \A d \in Docs : last'[d] = e.id => e.doc = d
  BY OutboxAssumption DEF Inv, TypeOK, OutboxTypeOK, Counters, Known, Event, Ids

LEMMA OthersFrame ==
    ASSUME Inv, TypeOK', NEW w \in Workers, Framed(w), NEW v \in Workers, v # w
    PROVE  InvSnapshots(v)' /\ InvJob(v)'
  <1>1. /\ UNCHANGED <<ver, base, last, search>> /\ Counters /\ NetMoves(w) /\ sunk \subseteq sunk'
        /\ pc'[v] = pc[v] /\ cand'[v] = cand[v] /\ batch'[v] = batch[v]
        /\ failed'[v] = failed[v] /\ job'[v] = job[v]
    BY DEF Framed, Others
  <1>2. InvSnapshots(v) /\ InvJob(v)
    BY DEF Inv
  <1>3. /\ cand[v] \subseteq Event /\ batch[v] \subseteq Event /\ failed[v] \subseteq Event
        /\ job[v].rsv \in Nat /\ job[v].seen \in Nat /\ nextId \in Nat /\ nextId' \in Nat
    BY OutboxAssumption DEF Inv, TypeOK, OutboxTypeOK, Job
  <1>4. InvSnapshots(v)'
    BY <1>1, <1>2, <1>3, KnownKept DEF InvSnapshots, Known
  <1>5. InvJob(v)'
    <2> DEFINE j == job[v]
               d == job[v].ev.doc
    <2>1. pc[v] \in AtWork => j.ev \in Event /\ d \in Docs /\ Known(j.ev)' /\ revision[d] \in Nat
                              /\ revision'[d] \in Nat
      BY <1>1, <1>2, KnownKept DEF InvJob, Known, Event, Inv, TypeOK, OutboxTypeOK
    <2>2. pc[v] \in Reserved => j.rsv <= revision'[d] /\ (j.ev.id = last'[d] => j.rsv > base'[d])
      BY <1>1, <1>2, <1>3, <2>1 DEF InvJob, Counters, AtWork
    <2>3. pc[v] \in HasRead =>
              j.rsv <= revision'[d] /\ j.seen <= ver'[d] /\ (j.rsv > base'[d] => j.seen = ver'[d])
      BY <1>1, <1>2, <1>3, <2>1 DEF InvJob, Counters, AtWork, Reserved, HasRead, Guarded, Fenced
    <2>4. pc[v] \in Guarded =>
              j.rep \in Event /\ j.rep.id < nextId' /\ \A c \in Docs : j.rep.id # last'[c]
      <3> SUFFICES ASSUME pc[v] \in Guarded
                   PROVE  j.rep \in Event /\ j.rep.id < nextId' /\ \A c \in Docs : j.rep.id # last'[c]
        OBVIOUS
      <3>1. j.rep \in Event /\ j.rep.id < nextId /\ \A c \in Docs : j.rep.id # last[c]
        BY <1>2 DEF InvJob
      <3>2. j.rep.id \in Nat
        BY <3>1 DEF Event, Ids
      <3> QED BY <1>1, <1>3, <3>1, <3>2 DEF Counters
    <2>5. pc[v] = "await" =>
              [doc |-> d, rev |-> j.rsv, ver |-> j.seen] \in net' \/ search'[d].rev >= j.rsv
      <3> SUFFICES ASSUME pc[v] = "await", Mutation(v) \in net
                   PROVE  Mutation(v) \in net'
        BY <1>1, <1>2 DEF InvJob, Mutation
      <3>1. pc[w] \in Reserved => Mutation(v) # Mutation(w)
        BY DEF Inv, InvUnique, Reserved, Mutation, HasRead, Guarded
      <3> QED BY <1>1, <3>1 DEF NetMoves
    <2>6. pc[v] \in {"ack", "ackRepair"} => search'[d].rev >= j.rsv
      BY <1>1, <1>2 DEF InvJob
    <2>7. pc[v] = "sinkAck" => ExternalSink /\ Exhausted(v)' # {} /\ \A e \in Exhausted(v)' : e.id \in sunk'
      BY <1>1, <1>2 DEF InvJob, Exhausted, Attempt
    <2> QED BY <1>1, <2>1, <2>2, <2>3, <2>4, <2>5, <2>6, <2>7 DEF InvJob, Fenced, Mutation
  <1> QED BY <1>4, <1>5

LEMMA UniqueFrame ==
    ASSUME Inv, TypeOK', NEW w \in Workers, Others(w), RevisionMoves(w)
    PROVE  InvUnique'
  <1>1. ASSUME NEW v \in Workers, v # w, pc'[v] \in Reserved, pc'[w] \in Reserved,
               job'[v].ev.doc = job'[w].ev.doc
        PROVE  job'[v].rsv # job'[w].rsv
    <2>1. pc[v] \in Reserved /\ job'[v] = job[v]
      BY <1>1 DEF Others
    <2>2. CASE pc[w] \in Reserved /\ job'[w].ev.doc = job[w].ev.doc /\ job'[w].rsv = job[w].rsv
      BY <1>1, <2>1, <2>2 DEF Inv, InvUnique
    <2>3. CASE job'[w].rsv > revision[job'[w].ev.doc]
      <3>1. job[v].ev \in Event /\ job[v].rsv <= revision[job[v].ev.doc]
        BY <2>1 DEF Inv, InvJob, AtWork
      <3>2. job[v].rsv \in Nat /\ revision[job[v].ev.doc] \in Nat /\ job'[w].rsv \in Nat
        BY <3>1 DEF Inv, TypeOK, OutboxTypeOK, Job, Event
      <3> QED BY <1>1, <2>1, <2>3, <3>1, <3>2
    <2> QED BY <1>1, <2>2, <2>3 DEF RevisionMoves
  <1>2. ASSUME NEW u \in Workers, NEW v \in Workers, u # w, v # w, u # v,
               pc'[u] \in Reserved, pc'[v] \in Reserved, job'[u].ev.doc = job'[v].ev.doc
        PROVE  job'[u].rsv # job'[v].rsv
    BY <1>2 DEF Others, Inv, InvUnique
  <1> QED BY <1>1, <1>2 DEF InvUnique

\* A step of worker w preserves the invariant if it is framed and w's part holds.
LEMMA Assemble ==
    ASSUME Inv, TypeOK', NEW w \in Workers, Framed(w), RevisionMoves(w),
           InvSnapshots(w)', InvJob(w)'
    PROVE  Inv' /\ Framed(w)
  <1>1. InvEntity' /\ InvNet'
    BY EntityFrame, NetFrame
  <1>2. \A v \in Workers : InvSnapshots(v)' /\ InvJob(v)'
    BY OthersFrame
  <1>3. InvUnique'
    BY UniqueFrame DEF Framed
  <1> QED BY <1>1, <1>2, <1>3 DEF Inv

----------------------------------------------------------------------------
(* Steps after which no delivery is in progress. *)

LEMMA Finish ==
    ASSUME Inv, TypeOK', NEW w \in Workers, Framed(w),
           pc'[w] \in {"idle", "claim", "event", "settle"},
           \A e \in cand'[w] \cup batch'[w] \cup failed'[w] : Known(e)
    PROVE  Inv' /\ Framed(w)
  <1>1. cand'[w] \subseteq Event /\ batch'[w] \subseteq Event /\ failed'[w] \subseteq Event
    BY DEF TypeOK
  <1>2. InvSnapshots(w)'
    BY <1>1, KnownKept DEF InvSnapshots, Known, Framed
  <1>3. InvJob(w)' /\ RevisionMoves(w)
    BY DEF InvJob, RevisionMoves, AtWork, Reserved, HasRead, Guarded
  <1> QED BY <1>2, <1>3, Assemble

LEMMA Ended ==
    ASSUME Inv, NEW w \in Workers, pc[w] \in AtWork,
           EndEvent(w) \/ FailEvent(w),
           UNCHANGED <<ver, base, last, search, cand, batch, sunk>>,
           OutboxTypeOK', RowsMove, DeletionsPaid, Counters, NetMoves(w),
           net' \subseteq Message, faults' \in Nat
    PROVE  Inv' /\ Framed(w)
  <1>1. job[w].ev \in Event /\ Known(job[w].ev) /\ InvSnapshots(w) /\ TypeOK
    BY DEF Inv, InvJob
  <1>2. NoJob \in Job
    BY DEF NoJob, Job, Snapshot
  <1>3. /\ pc' \in [Workers -> Pcs] /\ pc'[w] = "event"
        /\ job' \in [Workers -> Job]
        /\ failed' \in [Workers -> SUBSET Event]
        /\ failed'[w] \subseteq failed[w] \cup {job[w].ev}
    BY <1>1, <1>2 DEF EndEvent, FailEvent, Goto, TypeOK, Pcs
  <1>4. TypeOK'
    BY <1>1, <1>3 DEF TypeOK
  <1>5. Others(w)
    BY <1>1 DEF Others, EndEvent, FailEvent, Goto, TypeOK
  <1>6. Framed(w)
    BY <1>5 DEF Framed
  <1>7. \A e \in cand'[w] \cup batch'[w] \cup failed'[w] : Known(e)
    BY <1>1, <1>3 DEF InvSnapshots
  <1> QED BY <1>3, <1>4, <1>6, <1>7, Finish

LEMMA FaultType ==
    ASSUME TypeOK, Fault \/ UNCHANGED faults
    PROVE  faults' \in Nat
  BY DEF TypeOK, Fault

LEMMA NetStays ==
    ASSUME UNCHANGED net, NEW w \in Workers
    PROVE  NetMoves(w)
  BY DEF NetMoves

LEMMA RowsStayPaid ==
    ASSUME RowsStay
    PROVE  DeletionsPaid
  BY DEF RowsStay, DeletionsPaid

LEMMA LostLeaseStep ==
    ASSUME Inv, NEW w \in Workers, pc[w] \in AtWork, LostLease(w)
    PROVE  Inv' /\ Framed(w)
  <1>1. EndEvent(w) /\ UNCHANGED <<ver, base, last, search, net, cand, batch, sunk>>
    BY DEF LostLease, entityVars, searchVars
  <1>2. OutboxTypeOK' /\ RowsMove /\ RowsStay /\ Counters
    BY ReleaseStep, OutboxStutter DEF LostLease, Relinquish, Inv, TypeOK
  <1>3. faults' \in Nat
    BY FaultType DEF LostLease, Relinquish, Inv
  <1> QED BY <1>1, <1>2, <1>3, NetStays, RowsStayPaid, Ended DEF Inv, TypeOK

\* A delivery fails or ends and the tables stay as they are.
LEMMA EndedQuietly ==
    ASSUME Inv, NEW w \in Workers, pc[w] \in AtWork,
           EndEvent(w) \/ FailEvent(w), Fault \/ UNCHANGED faults,
           UNCHANGED <<outboxVars, entityVars, searchVars, cand, batch, sunk>>
    PROVE  Inv' /\ Framed(w)
  <1>1. UNCHANGED <<ver, base, last, search, net, cand, batch, sunk>>
    BY DEF entityVars, searchVars
  <1>2. OutboxTypeOK' /\ RowsMove /\ RowsStay /\ Counters
    BY OutboxStutter DEF Inv, TypeOK
  <1>3. faults' \in Nat
    BY FaultType DEF Inv
  <1> QED BY <1>1, <1>2, <1>3, NetStays, RowsStayPaid, Ended DEF Inv, TypeOK

\* The rows of worker w's delivery that an acknowledgement may delete are paid for.
LEMMA RepairPaid ==
    ASSUME Inv, NEW w \in Workers, pc[w] \in Guarded, DeleteRows({job[w].rep})
    PROVE  OutboxTypeOK' /\ RowsMove /\ DeletionsPaid /\ Counters
  <1>1. job[w].rep \in Event /\ \A c \in Docs : job[w].rep.id # last[c]
    BY DEF Inv, InvJob
  <1>2. {job[w].rep} \in SUBSET Event
    BY <1>1
  <1>3. /\ OutboxTypeOK' /\ RowsMove /\ Counters
        /\ \A i \in Ids : IsRow(i) /\ ~IsRow(i)' => \E e \in {job[w].rep} : e.id = i
    BY <1>2, DeleteStep DEF Inv, TypeOK
  <1> QED BY <1>1, <1>3 DEF DeletionsPaid

LEMMA DeliveryPaid ==
    ASSUME Inv, NEW w \in Workers, pc[w] = "ack",
           NEW S, S = {job[w].ev} \/ S = {job[w].ev, job[w].rep}, DeleteRows(S)
    PROVE  OutboxTypeOK' /\ RowsMove /\ DeletionsPaid /\ Counters
  <1> DEFINE j == job[w]
             d == job[w].ev.doc
  <1>1. /\ j.ev \in Event /\ Known(j.ev) /\ d \in Docs
        /\ j.ev.id = last[d] => j.rsv > base[d]
        /\ j.rep \in Event /\ \A c \in Docs : j.rep.id # last[c]
        /\ search[d].rev >= j.rsv
    BY DEF Inv, InvJob, AtWork, Reserved, Guarded, Event, HasRead
  <1>2. S \in SUBSET Event
    BY <1>1
  <1>3. /\ OutboxTypeOK' /\ RowsMove /\ Counters
        /\ \A i \in Ids : IsRow(i) /\ ~IsRow(i)' => \E e \in S : e.id = i
    BY <1>2, DeleteStep DEF Inv, TypeOK
  <1>4. ASSUME NEW i \in Ids, IsRow(i), ~IsRow(i)', NEW c \in Docs, last[c] = i
        PROVE  Landed(c)
    <2>1. i = j.ev.id
      BY <1>1, <1>3, <1>4
    <2>2. c = d
      BY <1>1, <1>4, <2>1 DEF Known
    <2>3. search[d].rev \in Nat /\ base[d] \in Nat /\ j.rsv \in Nat
      BY <1>1 DEF Inv, TypeOK, Job
    <2> QED BY <1>1, <1>4, <2>1, <2>2, <2>3 DEF Landed
  <1> QED BY <1>3, <1>4 DEF DeletionsPaid

LEMMA EndingSteps ==
    ASSUME Inv, NEW w \in Workers,
           \/ CasConflict(w) \/ ReservationRefused(w) \/ LeaseGone(w) \/ StoreThrows(w)
           \/ MutationDoneLost(w)
    PROVE  Inv' /\ Framed(w)
  <1>1. CASE CasConflict(w)
    BY <1>1, EndedQuietly DEF CasConflict, AtWork
  <1>2. CASE ReservationRefused(w)
    BY <1>2, LostLeaseStep DEF ReservationRefused, AtWork, Reserved, HasRead, Guarded
  <1>3. CASE LeaseGone(w)
    BY <1>3, LostLeaseStep DEF LeaseGone, AtWork, Reserved, HasRead, Guarded
  <1>4. CASE StoreThrows(w)
    BY <1>4, EndedQuietly DEF StoreThrows, AtWork, Reserved, HasRead, Guarded
  <1>5. CASE MutationDoneLost(w)
    BY <1>5, EndedQuietly DEF MutationDoneLost, AtWork, Reserved, HasRead, Guarded
  <1> QED BY <1>1, <1>2, <1>3, <1>4, <1>5

LEMMA AppendRepairThrowsStep ==
    ASSUME Inv, NEW w \in Workers, AppendRepairThrows(w)
    PROVE  Inv' /\ Framed(w)
  <1>1. /\ pc[w] \in AtWork /\ FailEvent(w) /\ Fault
        /\ UNCHANGED <<ver, base, last, search, net, cand, batch, sunk>>
        /\ Append(job[w].ev.doc, job[w].ev.created)
    BY DEF AppendRepairThrows, entityVars, searchVars, AtWork, Reserved, HasRead, Guarded
  <1>2. job[w].ev.doc \in Docs /\ job[w].ev.created \in Ids
    BY <1>1 DEF Inv, InvJob, Event
  <1>3. OutboxTypeOK' /\ RowsMove /\ RowsStay /\ Counters
    BY <1>1, <1>2, AppendStep DEF Inv, TypeOK
  <1>4. faults' \in Nat
    BY <1>1, FaultType DEF Inv
  <1> QED BY <1>1, <1>3, <1>4, NetStays, RowsStayPaid, Ended DEF Inv, TypeOK

LEMMA CleanupRepairStep ==
    ASSUME Inv, NEW w \in Workers, CleanupRepair(w)
    PROVE  Inv' /\ Framed(w)
  <1>1. /\ pc[w] \in AtWork /\ pc[w] \in Guarded /\ (FailEvent(w) \/ EndEvent(w))
        /\ UNCHANGED <<ver, base, last, search, net, cand, batch, sunk>>
        /\ DeleteRows({job[w].rep}) \/ UNCHANGED outboxVars
    BY DEF CleanupRepair, entityVars, searchVars, AtWork, Reserved, Guarded, HasRead
  <1>2. OutboxTypeOK' /\ RowsMove /\ DeletionsPaid /\ Counters
    BY <1>1, RepairPaid, OutboxStutter, RowsStayPaid DEF Inv, TypeOK
  <1>3. faults' \in Nat
    BY FaultType DEF CleanupRepair, Inv
  <1> QED BY <1>1, <1>2, <1>3, NetStays, Ended DEF Inv, TypeOK

LEMMA MutationRejectedStep ==
    ASSUME Inv, NEW w \in Workers, NEW b \in BOOLEAN, MutationRejected(w, b)
    PROVE  Inv' /\ Framed(w)
  <1>1. /\ pc[w] \in AtWork /\ pc[w] \in Reserved /\ FailEvent(w) /\ Fault
        /\ UNCHANGED <<ver, base, last, search, cand, batch, sunk>> /\ UNCHANGED outboxVars
    BY DEF MutationRejected, entityVars, AtWork, Reserved, HasRead, Guarded
  <1>2. NetMoves(w) /\ net' \subseteq net
    BY <1>1 DEF MutationRejected, NetMoves
  <1>3. OutboxTypeOK' /\ RowsMove /\ RowsStay /\ Counters
    BY <1>1, OutboxStutter DEF Inv, TypeOK
  <1>4. faults' \in Nat /\ net' \subseteq Message
    BY <1>1, <1>2, FaultType DEF Inv, TypeOK
  <1> QED BY <1>1, <1>2, <1>3, <1>4, RowsStayPaid, Ended

LEMMA AcknowledgeRepairStep ==
    ASSUME Inv, NEW w \in Workers, AcknowledgeRepair(w)
    PROVE  Inv' /\ Framed(w)
  <1>1. /\ pc[w] \in AtWork /\ pc[w] \in Guarded /\ EndEvent(w)
        /\ UNCHANGED <<ver, base, last, search, net, cand, batch, sunk, faults>>
        /\ DeleteRows({job[w].rep}) \/ UNCHANGED outboxVars
    BY DEF AcknowledgeRepair, entityVars, searchVars, AtWork, Reserved, Guarded, HasRead
  <1>2. OutboxTypeOK' /\ RowsMove /\ DeletionsPaid /\ Counters
    BY <1>1, RepairPaid, OutboxStutter, RowsStayPaid DEF Inv, TypeOK
  <1> QED BY <1>1, <1>2, NetStays, Ended DEF Inv, TypeOK

LEMMA AcknowledgeThrowsStep ==
    ASSUME Inv, NEW w \in Workers, NEW b \in BOOLEAN, AcknowledgeThrows(w, b)
    PROVE  Inv' /\ Framed(w)
  <1>1. /\ pc[w] \in AtWork /\ pc[w] \in Guarded /\ FailEvent(w) /\ Fault
        /\ pc[w] \in {"ack", "ackRepair"}
        /\ UNCHANGED <<ver, base, last, search, net, cand, batch, sunk>>
    BY DEF AcknowledgeThrows, entityVars, searchVars, AtWork, Reserved, Guarded, HasRead
  <1>2. \/ UNCHANGED outboxVars
        \/ pc[w] = "ackRepair" /\ DeleteRows({job[w].rep})
        \/ pc[w] = "ack" /\ DeleteRows({job[w].ev})
        \/ pc[w] = "ack" /\ DeleteRows({job[w].ev, job[w].rep})
    BY <1>1 DEF AcknowledgeThrows
  <1>3. OutboxTypeOK' /\ RowsMove /\ DeletionsPaid /\ Counters
    <2>1. CASE UNCHANGED outboxVars
      BY <2>1, OutboxStutter, RowsStayPaid DEF Inv, TypeOK
    <2>2. CASE pc[w] = "ackRepair" /\ DeleteRows({job[w].rep})
      BY <2>2, <1>1, RepairPaid
    <2>3. CASE pc[w] = "ack" /\ DeleteRows({job[w].ev})
      BY <2>3, DeliveryPaid
    <2>4. CASE pc[w] = "ack" /\ DeleteRows({job[w].ev, job[w].rep})
      BY <2>4, DeliveryPaid
    <2> QED BY <1>2, <2>1, <2>2, <2>3, <2>4
  <1>4. faults' \in Nat
    BY <1>1, FaultType DEF Inv
  <1> QED BY <1>1, <1>3, <1>4, NetStays, Ended DEF Inv, TypeOK

\* Worker w moves on with its locals; nothing is deleted and nothing is sent.
LEMMA LocalFrame ==
    ASSUME Inv, NEW w \in Workers, RowsMove, RowsStay, Counters,
           UNCHANGED <<ver, base, last, search, net>>, sunk \subseteq sunk', Others(w)
    PROVE  Framed(w)
  BY NetStays, RowsStayPaid DEF Framed

LEMMA ScanOutboxStep ==
    ASSUME Inv, NEW w \in Workers, ScanOutbox(w)
    PROVE  Inv' /\ Framed(w)
  <1>0. TypeOK /\ InvEntity /\ InvSnapshots(w)
    BY DEF Inv
  <1>1. \A e \in LeaseCandidates : \E i \in Ids : e = rows[i] /\ IsRow(i)
    BY DEF LeaseCandidates
  <1>2. \A e \in LeaseCandidates : e \in Event /\ Known(e)
    BY <1>0, <1>1 DEF TypeOK, OutboxTypeOK, InvEntity, Known, IsRow
  <1>3. /\ cand' \in [Workers -> SUBSET Event] /\ pc' \in [Workers -> Pcs]
        /\ pc'[w] \in {"idle", "claim"} /\ cand'[w] = LeaseCandidates
        /\ UNCHANGED <<outboxVars, ver, base, last, search, net, batch, failed, job, sunk, faults>>
    BY <1>0, <1>2 DEF ScanOutbox, Goto, TypeOK, Pcs, entityVars, searchVars
  <1>4. OutboxTypeOK' /\ RowsMove /\ RowsStay /\ Counters
    BY <1>0, <1>3, OutboxStutter DEF TypeOK
  <1>5. TypeOK' /\ Others(w)
    BY <1>0, <1>3, <1>4 DEF TypeOK, Others, ScanOutbox, Goto
  <1>6. \A e \in cand'[w] \cup batch'[w] \cup failed'[w] : Known(e)
    BY <1>0, <1>2, <1>3 DEF InvSnapshots
  <1> QED BY <1>3, <1>4, <1>5, <1>6, LocalFrame, Finish

LEMMA ClaimCandidateStep ==
    ASSUME Inv, NEW w \in Workers, NEW e \in cand[w], ClaimCandidate(w, e)
    PROVE  Inv' /\ Framed(w)
  <1>0. TypeOK /\ InvSnapshots(w)
    BY DEF Inv
  <1>1. /\ e \in Event /\ Known(e) /\ e.id \in Ids
        /\ withOutboxLease(e, w) \in Event /\ Known(withOutboxLease(e, w))
    BY <1>0, LeaseType DEF TypeOK, InvSnapshots, Known, Event
  <1>2. /\ cand' = [cand EXCEPT ![w] = @ \ {e}]
        /\ UNCHANGED <<ver, base, last, search, net, pc, failed, job, sunk, faults>>
        /\ pc[w] = "claim"
    BY DEF ClaimCandidate, entityVars, searchVars
  <1>3. \/ ClaimLease(e, w) /\ batch' = [batch EXCEPT ![w] = @ \cup {withOutboxLease(e, w)}]
        \/ UNCHANGED outboxVars /\ UNCHANGED batch
    BY DEF ClaimCandidate
  <1>4. OutboxTypeOK' /\ RowsMove /\ RowsStay /\ Counters
    <2>1. CASE ClaimLease(e, w)
      BY <2>1, <1>0, <1>1, ClaimStep DEF TypeOK
    <2> QED BY <2>1, <1>0, <1>3, OutboxStutter DEF TypeOK
  <1>5. /\ TypeOK' /\ Others(w)
    BY <1>0, <1>1, <1>2, <1>3, <1>4 DEF TypeOK, Others
  <1>6. \A f \in cand'[w] \cup batch'[w] \cup failed'[w] : Known(f)
    BY <1>0, <1>1, <1>2, <1>3 DEF InvSnapshots, TypeOK
  <1> QED BY <1>2, <1>4, <1>5, <1>6, LocalFrame, Finish

LEMMA ClaimFailsStep ==
    ASSUME Inv, NEW w \in Workers, NEW b \in BOOLEAN, ClaimFails(w, b)
    PROVE  Inv' /\ Framed(w)
  <1>0. TypeOK /\ InvSnapshots(w)
    BY DEF Inv
  <1>1. /\ cand' = [cand EXCEPT ![w] = {}] /\ batch' = [batch EXCEPT ![w] = {}]
        /\ pc' = [pc EXCEPT ![w] = "idle"] /\ Fault
        /\ UNCHANGED <<ver, base, last, search, net, failed, job, sunk>>
        /\ Release(batch[w], w) \/ UNCHANGED outboxVars
    BY DEF ClaimFails, Goto, entityVars, searchVars
  <1>2. OutboxTypeOK' /\ RowsMove /\ RowsStay /\ Counters
    BY <1>0, <1>1, ReleaseStep, OutboxStutter DEF TypeOK
  <1>3. faults' \in Nat
    BY <1>0, <1>1, FaultType
  <1>4. TypeOK' /\ Others(w)
    BY <1>0, <1>1, <1>2, <1>3 DEF TypeOK, Others, Pcs
  <1>5. pc'[w] = "idle" /\ \A f \in cand'[w] \cup batch'[w] \cup failed'[w] : Known(f)
    BY <1>0, <1>1 DEF InvSnapshots, TypeOK
  <1> QED BY <1>1, <1>2, <1>4, <1>5, LocalFrame, Finish

LEMMA ClaimsDoneStep ==
    ASSUME Inv, NEW w \in Workers, ClaimsDone(w)
    PROVE  Inv' /\ Framed(w)
  <1>0. TypeOK /\ InvSnapshots(w)
    BY DEF Inv
  <1>1. /\ cand' = [cand EXCEPT ![w] = {}] /\ pc' = [pc EXCEPT ![w] = "event"]
        /\ UNCHANGED <<outboxVars, ver, base, last, search, net, batch, failed, job, sunk, faults>>
    BY DEF ClaimsDone, Goto, entityVars, searchVars
  <1>2. OutboxTypeOK' /\ RowsMove /\ RowsStay /\ Counters
    BY <1>0, <1>1, OutboxStutter DEF TypeOK
  <1>4. TypeOK' /\ Others(w)
    BY <1>0, <1>1, <1>2 DEF TypeOK, Others, Pcs
  <1>5. pc'[w] = "event" /\ \A f \in cand'[w] \cup batch'[w] \cup failed'[w] : Known(f)
    BY <1>0, <1>1 DEF InvSnapshots, TypeOK
  <1> QED BY <1>1, <1>2, <1>4, <1>5, LocalFrame, Finish

LEMMA BatchDoneStep ==
    ASSUME Inv, NEW w \in Workers, BatchDone(w)
    PROVE  Inv' /\ Framed(w)
  <1>0. TypeOK /\ InvSnapshots(w)
    BY DEF Inv
  <1>1. /\ pc' = [pc EXCEPT ![w] = IF failed[w] = {} THEN "idle" ELSE "settle"]
        /\ UNCHANGED <<outboxVars, ver, base, last, search, net, cand, batch, failed, job, sunk, faults>>
    BY DEF BatchDone, Goto, entityVars, searchVars
  <1>2. OutboxTypeOK' /\ RowsMove /\ RowsStay /\ Counters
    BY <1>0, <1>1, OutboxStutter DEF TypeOK
  <1>4. TypeOK' /\ Others(w)
    BY <1>0, <1>1, <1>2 DEF TypeOK, Others, Pcs
  <1>5. pc'[w] \in {"idle", "settle"} /\ \A f \in cand'[w] \cup batch'[w] \cup failed'[w] : Known(f)
    BY <1>0, <1>1 DEF InvSnapshots, TypeOK
  <1> QED BY <1>1, <1>2, <1>4, <1>5, LocalFrame, Finish

LEMMA CrashStep ==
    ASSUME Inv, NEW w \in Workers, Crash(w)
    PROVE  Inv' /\ Framed(w)
  <1>0. TypeOK /\ NoJob \in Job
    BY DEF Inv, NoJob, Job, Snapshot
  <1>1. /\ cand' = [cand EXCEPT ![w] = {}] /\ batch' = [batch EXCEPT ![w] = {}]
        /\ failed' = [failed EXCEPT ![w] = {}] /\ job' = [job EXCEPT ![w] = NoJob]
        /\ pc' = [pc EXCEPT ![w] = "idle"] /\ Fault
        /\ UNCHANGED <<outboxVars, ver, base, last, search, net, sunk>>
    BY DEF Crash, Goto, entityVars, searchVars
  <1>2. OutboxTypeOK' /\ RowsMove /\ RowsStay /\ Counters
    BY <1>0, <1>1, OutboxStutter DEF TypeOK
  <1>3. faults' \in Nat
    BY <1>0, <1>1, FaultType
  <1>4. TypeOK' /\ Others(w)
    BY <1>0, <1>1, <1>2, <1>3 DEF TypeOK, Others, Pcs
  <1>5. pc'[w] = "idle" /\ cand'[w] = {} /\ batch'[w] = {} /\ failed'[w] = {}
    BY <1>0, <1>1 DEF TypeOK
  <1> QED BY <1>1, <1>2, <1>4, <1>5, LocalFrame, Finish

----------------------------------------------------------------------------
(* Settling. *)

LEMMA SettleRestType ==
    ASSUME TypeOK, NEW w \in Workers, NEW G \in SUBSET failed[w], SettleRest(w, G)
    PROVE  /\ pc' \in [Workers -> Pcs]
           /\ \/ pc'[w] \in {"idle", "settle"}
              \/ pc[w] = "sinkAck" /\ pc'[w] = "sinkAck" /\ Exhausted(w)' # {}
           /\ failed' \in [Workers -> SUBSET Event] /\ failed'[w] \subseteq failed[w]
           /\ \A v \in Workers \ {w} : pc'[v] = pc[v] /\ failed'[v] = failed[v]
  BY DEF SettleRest, Goto, TypeOK, Pcs, Exhausted, Attempt

\* Part of the failures is settled; the rows deleted are paid for.
LEMMA Settled ==
    ASSUME Inv, NEW w \in Workers, NEW G \in SUBSET failed[w], SettleRest(w, G),
           UNCHANGED <<entityVars, searchVars, cand, batch, job, sunk>>,
           Fault \/ UNCHANGED faults,
           OutboxTypeOK', RowsMove, DeletionsPaid, Counters
    PROVE  Inv' /\ Framed(w)
  <1>0. TypeOK /\ InvSnapshots(w) /\ InvJob(w)
    BY DEF Inv
  <1>1. UNCHANGED <<ver, base, last, search, net, cand, batch, job, sunk>>
    BY DEF entityVars, searchVars
  <1>2. /\ pc' \in [Workers -> Pcs]
        /\ \/ pc'[w] \in {"idle", "settle"}
           \/ pc[w] = "sinkAck" /\ pc'[w] = "sinkAck" /\ Exhausted(w)' # {}
        /\ failed' \in [Workers -> SUBSET Event] /\ failed'[w] \subseteq failed[w]
        /\ \A v \in Workers \ {w} : pc'[v] = pc[v] /\ failed'[v] = failed[v]
    BY <1>0, SettleRestType
  <1>3. faults' \in Nat
    BY <1>0, FaultType
  <1>4. TypeOK' /\ Others(w)
    BY <1>0, <1>1, <1>2, <1>3 DEF TypeOK, Others
  <1>5. Framed(w)
    BY <1>1, <1>4, NetStays DEF Framed
  <1>6. \A f \in cand'[w] \cup batch'[w] \cup failed'[w] : Known(f)
    BY <1>0, <1>1, <1>2 DEF InvSnapshots
  <1>7. CASE pc'[w] \in {"idle", "settle"}
    BY <1>4, <1>5, <1>6, <1>7, Finish
  <1>8. CASE pc[w] = "sinkAck" /\ pc'[w] = "sinkAck" /\ Exhausted(w)' # {}
    <2>1. cand'[w] \subseteq Event /\ batch'[w] \subseteq Event /\ failed'[w] \subseteq Event
      BY <1>4 DEF TypeOK
    <2>2. InvSnapshots(w)'
      BY <1>4, <1>5, <1>6, <2>1, KnownKept DEF InvSnapshots, Known, Framed
    <2>3. Exhausted(w)' \subseteq Exhausted(w)
      BY <1>2 DEF Exhausted, Attempt
    <2>4. ExternalSink /\ \A e \in Exhausted(w)' : e.id \in sunk'
      BY <1>0, <1>1, <1>8, <2>3 DEF InvJob
    <2>5. InvJob(w)' /\ RevisionMoves(w)
      BY <1>8, <2>4 DEF InvJob, RevisionMoves, AtWork, Reserved, HasRead, Guarded
    <2> QED BY <1>4, <1>5, <2>2, <2>5, Assemble
  <1> QED BY <1>2, <1>7, <1>8

LEMMA SettleStep ==
    ASSUME Inv, NEW w \in Workers, NEW G \in SUBSET failed[w], Settle(w, G)
    PROVE  Inv' /\ Framed(w)
  <1>0. TypeOK /\ InvSnapshots(w) /\ G \in SUBSET Event
    BY DEF Inv, TypeOK
  <1>1. CASE Retry(G) /\ SettleRest(w, G) /\ UNCHANGED sunk
    <2>1. OutboxTypeOK' /\ RowsMove /\ DeletionsPaid /\ Counters
      BY <1>0, <1>1, RetryStep, RowsStayPaid DEF TypeOK
    <2> QED BY <1>1, <2>1, Settled DEF Settle
  <1>2. CASE DeadLetter(G) /\ SettleRest(w, G) /\ UNCHANGED sunk
    <2>1. OutboxTypeOK' /\ RowsMove /\ DeletionsPaid /\ Counters
      BY <1>0, <1>2, DeadLetterStep, RowsStayPaid DEF TypeOK
    <2> QED BY <1>2, <2>1, Settled DEF Settle
  <1>3. CASE /\ Exhausted(w) # {} /\ ExternalSink
             /\ sunk' = sunk \cup {e.id : e \in G}
             /\ Goto(w, "sinkAck") /\ UNCHANGED <<outboxVars, failed>>
    <2>1. G = Exhausted(w)
      BY <1>3 DEF Settle, SettleGroup
    <2>2. /\ pc' = [pc EXCEPT ![w] = "sinkAck"]
          /\ UNCHANGED <<outboxVars, ver, base, last, search, net, cand, batch, failed, job, faults>>
      BY <1>3 DEF Settle, Goto, entityVars, searchVars
    <2>3. sunk' \subseteq Ids /\ sunk \subseteq sunk'
      BY <1>0, <1>3 DEF TypeOK, Event
    <2>4. OutboxTypeOK' /\ RowsMove /\ RowsStay /\ Counters
      BY <1>0, <2>2, OutboxStutter DEF TypeOK
    <2>5. TypeOK' /\ Others(w)
      BY <1>0, <2>2, <2>3, <2>4 DEF TypeOK, Others, Pcs
    <2>6. Framed(w)
      BY <2>2, <2>3, <2>4, <2>5, LocalFrame
    <2>7. InvSnapshots(w)'
      BY <1>0, <2>2 DEF InvSnapshots, Known, outboxVars
    <2>8. pc'[w] = "sinkAck"
      BY <1>0, <2>2 DEF TypeOK
    <2>9. Exhausted(w)' = Exhausted(w)
      BY <2>2 DEF Exhausted, Attempt
    <2>10. InvJob(w)' /\ RevisionMoves(w)
      BY <1>3, <2>1, <2>8, <2>9
      DEF InvJob, RevisionMoves, AtWork, Reserved, HasRead, Guarded
    <2> QED BY <2>5, <2>6, <2>7, <2>10, Assemble
  <1> QED BY <1>1, <1>2, <1>3 DEF Settle

LEMMA SinkAcknowledgeStep ==
    ASSUME Inv, NEW w \in Workers, NEW G \in SUBSET failed[w], SinkAcknowledge(w, G)
    PROVE  Inv' /\ Framed(w)
  <1>0. TypeOK /\ InvJob(w) /\ pc[w] = "sinkAck"
    BY DEF Inv, SinkAcknowledge
  <1>1. /\ G \subseteq Exhausted(w) /\ G \in SUBSET Event
        /\ Exhausted(w) \in SUBSET failed[w] /\ \A e \in G : e.id \in sunk
    <2>1. G \subseteq Exhausted(w)
      BY DEF SinkAcknowledge, SinkGroup
    <2>2. G \in SUBSET Event /\ Exhausted(w) \in SUBSET failed[w]
      BY <1>0 DEF TypeOK, Exhausted
    <2> QED BY <1>0, <2>1, <2>2 DEF InvJob
  <1>2. UNCHANGED <<entityVars, searchVars, cand, batch, job, sunk, faults>>
    BY DEF SinkAcknowledge
  <1>3. CASE DeleteRows(G) /\ SettleRest(w, G)
    <2>1. /\ OutboxTypeOK' /\ RowsMove /\ Counters
          /\ \A i \in Ids : IsRow(i) /\ ~IsRow(i)' => \E e \in G : e.id = i
      BY <1>0, <1>1, <1>3, DeleteStep DEF TypeOK
    <2>2. DeletionsPaid
      BY <1>1, <1>2, <2>1 DEF DeletionsPaid
    <2> QED BY <1>2, <1>3, <2>1, <2>2, Settled
  <1>4. CASE UNCHANGED outboxVars /\ SettleRest(w, Exhausted(w))
    <2>1. OutboxTypeOK' /\ RowsMove /\ RowsStay /\ Counters
      BY <1>0, <1>4, OutboxStutter DEF TypeOK
    <2> QED BY <1>1, <1>2, <1>4, <2>1, RowsStayPaid, Settled
  <1> QED BY <1>3, <1>4 DEF SinkAcknowledge

LEMMA SettleThrowsStep ==
    ASSUME Inv, NEW w \in Workers, NEW G \in SUBSET failed[w], NEW b \in BOOLEAN,
           SettleThrows(w, G, b)
    PROVE  Inv' /\ Framed(w)
  <1>1. OutboxTypeOK' /\ RowsMove /\ RowsStay /\ Counters
    BY ReleaseStep, OutboxStutter DEF SettleThrows, Inv, TypeOK
  <1> QED BY <1>1, RowsStayPaid, Settled DEF SettleThrows

----------------------------------------------------------------------------
(* Steps of a delivery that goes on. *)

LEMMA Progress ==
    ASSUME Inv, TypeOK', NEW w \in Workers, Framed(w), RevisionMoves(w), InvJob(w)',
           cand'[w] = cand[w], failed'[w] = failed[w], batch'[w] \subseteq batch[w]
    PROVE  Inv' /\ Framed(w)
  <1>1. cand'[w] \subseteq Event /\ batch'[w] \subseteq Event /\ failed'[w] \subseteq Event
    BY DEF TypeOK
  <1>2. \A e \in cand'[w] \cup batch'[w] \cup failed'[w] : Known(e)
    BY DEF Inv, InvSnapshots
  <1>3. InvSnapshots(w)'
    BY <1>1, <1>2, KnownKept DEF InvSnapshots, Known, Framed
  <1> QED BY <1>3, Assemble

\* Only the control state of w changes.
LEMMA ControlFrame ==
    ASSUME Inv, NEW w \in Workers, NEW p \in Pcs, Goto(w, p), Fault \/ UNCHANGED faults,
           UNCHANGED <<outboxVars, entityVars, searchVars, cand, batch, failed, job, sunk>>
    PROVE  /\ TypeOK' /\ Framed(w) /\ pc'[w] = p
           /\ UNCHANGED <<rows, nextId, revision, ver, base, last, search, net, cand, batch,
                          failed, job, sunk>>
  <1>0. TypeOK
    BY DEF Inv
  <1>1. UNCHANGED <<rows, nextId, lapsed, delayed, revision, ver, base, last, search, net, cand, batch,
                    failed, job, sunk>>
    BY DEF outboxVars, entityVars, searchVars
  <1>2. OutboxTypeOK' /\ RowsMove /\ RowsStay /\ Counters
    BY <1>0, OutboxStutter DEF TypeOK
  <1>3. faults' \in Nat
    BY <1>0, FaultType
  <1>4. TypeOK' /\ Others(w) /\ pc'[w] = p
    BY <1>0, <1>1, <1>2, <1>3 DEF TypeOK, Others, Goto
  <1> QED BY <1>1, <1>2, <1>4, LocalFrame

\* The delivery of w in control state p, as InvJob describes it, still holds when
\* only the control state has changed.
LEMMA ControlStep ==
    ASSUME Inv, NEW w \in Workers, NEW p \in Pcs, Goto(w, p), Fault \/ UNCHANGED faults,
           UNCHANGED <<outboxVars, entityVars, searchVars, cand, batch, failed, job, sunk>>,
           pc[w] \in Reserved, p \in Reserved,
           p \in HasRead => pc[w] \in HasRead,
           p \in Guarded => pc[w] \in Guarded,
           p \in {"ack", "ackRepair"} => search[job[w].ev.doc].rev >= job[w].rsv,
           p # "await"
    PROVE  Inv' /\ Framed(w)
  <1>1. /\ TypeOK' /\ Framed(w) /\ pc'[w] = p
        /\ UNCHANGED <<rows, nextId, revision, ver, base, last, search, net, cand, batch,
                       failed, job, sunk>>
    BY ControlFrame
  <1>2. InvJob(w) /\ pc[w] \in AtWork
    BY DEF Inv, AtWork
  <1>3. p # "sinkAck"
    BY DEF Reserved, HasRead, Guarded
  <1>4. InvJob(w)'
    BY <1>1, <1>2, <1>3 DEF InvJob, Known, Fenced
  <1>5. RevisionMoves(w)
    BY <1>1 DEF RevisionMoves
  <1> QED BY <1>1, <1>4, <1>5, Progress

LEMMA ControlSteps ==
    ASSUME Inv, NEW w \in Workers,
           RevalidateLease(w) \/ BeforeIndexThrows(w) \/ ReleaseThrows(w) \/ RenewLost(w)
           \/ MutationDone(w)
    PROVE  Inv' /\ Framed(w)
  <1>1. CASE RevalidateLease(w)
    BY <1>1, ControlStep DEF RevalidateLease, Reserved, HasRead, Guarded, Pcs
  <1>2. CASE BeforeIndexThrows(w)
    BY <1>2, ControlStep DEF BeforeIndexThrows, Reserved, HasRead, Guarded, Pcs
  <1>5. CASE ReleaseThrows(w)
    BY <1>5, ControlStep DEF ReleaseThrows, Reserved, HasRead, Guarded, Pcs
  <1>3. CASE RenewLost(w)
    BY <1>3, ControlStep DEF RenewLost, Reserved, HasRead, Guarded, Pcs
  <1>4. CASE MutationDone(w)
    <2>1. search[job[w].ev.doc].rev >= job[w].rsv
      BY <1>4 DEF MutationDone, Inv, InvJob
    <2> QED BY <1>4, <2>1, ControlStep DEF MutationDone, Reserved, HasRead, Guarded, Pcs
  <1> QED BY <1>1, <1>2, <1>3, <1>4, <1>5

LEMMA RenewThrowsStep ==
    ASSUME Inv, NEW w \in Workers, RenewThrows(w)
    PROVE  Inv' /\ Framed(w)
  <1>0. TypeOK /\ InvJob(w) /\ pc[w] = "await" /\ job[w].ev \in Event
    BY DEF Inv, InvJob, AtWork, Reserved, RenewThrows, HasRead, Guarded
  <1>1. /\ pc' = [pc EXCEPT ![w] = "lost"] /\ RenewLease(job[w].ev) /\ Fault
        /\ UNCHANGED <<ver, base, last, search, net, cand, batch, failed, job, sunk>>
    BY DEF RenewThrows, Goto, entityVars, searchVars
  <1>2. OutboxTypeOK' /\ RowsMove /\ RowsStay /\ Counters
    BY <1>0, <1>1, RenewStep DEF TypeOK
  <1>3. faults' \in Nat /\ nextId' = nextId /\ revision' = revision
    BY <1>0, <1>1, FaultType DEF RenewLease
  <1>4. TypeOK' /\ Others(w) /\ pc'[w] = "lost"
    BY <1>0, <1>1, <1>2, <1>3 DEF TypeOK, Others, Pcs
  <1>5. Framed(w)
    BY <1>1, <1>2, <1>4, LocalFrame
  <1>6. InvJob(w)'
    BY <1>0, <1>1, <1>3, <1>4
    DEF InvJob, Known, Fenced, AtWork, Reserved, HasRead, Guarded
  <1>7. RevisionMoves(w)
    BY <1>0, <1>1 DEF RevisionMoves, Reserved, HasRead, Guarded
  <1> QED BY <1>1, <1>4, <1>5, <1>6, <1>7, Progress

LEMMA StartMutationStep ==
    ASSUME Inv, NEW w \in Workers, StartMutation(w)
    PROVE  Inv' /\ Framed(w)
  <1>0. TypeOK /\ InvJob(w) /\ pc[w] = "before" /\ job[w].ev \in Event
    BY DEF Inv, InvJob, AtWork, Reserved, StartMutation, HasRead, Guarded
  <1>1. /\ pc' = [pc EXCEPT ![w] = "await"] /\ net' = net \cup {Mutation(w)}
        /\ UNCHANGED outboxVars
        /\ UNCHANGED <<ver, base, last, search, cand, batch, failed, job, sunk, faults>>
    BY DEF StartMutation, Goto, entityVars
  <1>2. OutboxTypeOK' /\ RowsMove /\ RowsStay /\ Counters /\ UNCHANGED <<nextId, revision>>
    BY <1>0, <1>1, OutboxStutter DEF TypeOK, outboxVars
  <1>3. Mutation(w) \in Message
    BY <1>0 DEF TypeOK, Mutation, Message, Job, Event
  <1>4. TypeOK' /\ Others(w) /\ pc'[w] = "await"
    BY <1>0, <1>1, <1>2, <1>3 DEF TypeOK, Others, Pcs
  <1>5. NetMoves(w) /\ DeletionsPaid
    BY <1>0, <1>1, <1>2, RowsStayPaid DEF NetMoves
  <1>6. Framed(w)
    BY <1>1, <1>2, <1>4, <1>5 DEF Framed
  <1>7. InvJob(w)'
    BY <1>0, <1>1, <1>2, <1>4
    DEF InvJob, Known, Fenced, AtWork, Reserved, HasRead, Guarded, Mutation
  <1>8. RevisionMoves(w)
    BY <1>0, <1>1 DEF RevisionMoves, Reserved, HasRead, Guarded
  <1> QED BY <1>1, <1>4, <1>6, <1>7, <1>8, Progress

LEMMA RenewActionStep ==
    ASSUME Inv, NEW w \in Workers, Renew(w)
    PROVE  Inv' /\ Framed(w)
  <1>0. TypeOK /\ InvJob(w) /\ pc[w] = "await" /\ job[w].ev \in Event /\ job[w] \in Job
    BY DEF Inv, TypeOK, InvJob, AtWork, Reserved, Renew, HasRead, Guarded
  <1>1. /\ job' = [job EXCEPT ![w].ev = withOutboxLease(@, w)] /\ RenewLease(job[w].ev)
        /\ UNCHANGED <<ver, base, last, search, net, pc, cand, batch, failed, sunk, faults>>
    BY DEF Renew, entityVars, searchVars
  <1>2. OutboxTypeOK' /\ RowsMove /\ RowsStay /\ Counters
    BY <1>0, <1>1, RenewStep DEF TypeOK
  <1>3. nextId' = nextId /\ revision' = revision
    BY <1>1 DEF RenewLease
  <1> DEFINE f == withOutboxLease(job[w].ev, w)
  <1>4. f \in Event /\ f.id = job[w].ev.id /\ f.doc = job[w].ev.doc
    BY <1>0, LeaseType
  <1> HIDE DEF f
  <1>5. job'[w] = [job[w] EXCEPT !.ev = f] /\ \A v \in Workers \ {w} : job'[v] = job[v]
    BY <1>0, <1>1 DEF TypeOK, f
  <1>6. /\ job'[w].ev = f /\ job'[w].rep = job[w].rep /\ job'[w].rsv = job[w].rsv
        /\ job'[w].seen = job[w].seen /\ job'[w] \in Job
    BY <1>0, <1>4, <1>5 DEF Job, Snapshot
  <1>7. job' \in [Workers -> Job]
    BY <1>0, <1>1, <1>5, <1>6 DEF TypeOK
  <1>8. TypeOK' /\ Others(w) /\ pc'[w] = "await"
    BY <1>0, <1>1, <1>2, <1>5, <1>7 DEF TypeOK, Others
  <1>9. Framed(w)
    BY <1>1, <1>2, <1>8, LocalFrame
  <1>10. InvJob(w)'
    BY <1>0, <1>1, <1>3, <1>4, <1>6, <1>8
    DEF InvJob, Known, Fenced, AtWork, Reserved, HasRead, Guarded, Mutation
  <1>11. RevisionMoves(w)
    BY <1>0, <1>1, <1>4, <1>6 DEF RevisionMoves, Reserved, HasRead, Guarded
  <1> QED BY <1>1, <1>8, <1>9, <1>10, <1>11, Progress

LEMMA ReadEntityStep ==
    ASSUME Inv, NEW w \in Workers, ReadEntity(w)
    PROVE  Inv' /\ Framed(w)
  <1> DEFINE d == job[w].ev.doc
  <1>0. TypeOK /\ InvJob(w) /\ pc[w] = "read" /\ job[w].ev \in Event /\ job[w] \in Job /\ d \in Docs
    BY DEF Inv, TypeOK, InvJob, AtWork, Reserved, ReadEntity, Event, HasRead, Guarded
  <1>1. /\ job' = [job EXCEPT ![w].seen = ver[d]] /\ pc' = [pc EXCEPT ![w] = "repair"]
        /\ UNCHANGED outboxVars
        /\ UNCHANGED <<ver, base, last, search, net, cand, batch, failed, sunk, faults>>
    BY DEF ReadEntity, Goto, entityVars, searchVars
  <1>2. OutboxTypeOK' /\ RowsMove /\ RowsStay /\ Counters /\ UNCHANGED <<nextId, revision>>
    BY <1>0, <1>1, OutboxStutter DEF TypeOK, outboxVars
  <1>3. /\ job'[w].ev = job[w].ev /\ job'[w].rep = job[w].rep /\ job'[w].rsv = job[w].rsv
        /\ job'[w].seen = ver[d] /\ job'[w] \in Job
    BY <1>0, <1>1 DEF TypeOK, Job
  <1>4. job' \in [Workers -> Job]
    BY <1>0, <1>1, <1>3 DEF TypeOK
  <1>5. TypeOK' /\ Others(w) /\ pc'[w] = "repair"
    BY <1>0, <1>1, <1>2, <1>4 DEF TypeOK, Others, Pcs
  <1>6. Framed(w)
    BY <1>1, <1>2, <1>5, LocalFrame
  <1>7. InvJob(w)'
    BY <1>0, <1>1, <1>2, <1>3, <1>5
    DEF InvJob, Known, Fenced, AtWork, Reserved, HasRead, Guarded, TypeOK
  <1>8. RevisionMoves(w)
    BY <1>0, <1>1, <1>3 DEF RevisionMoves, Reserved, HasRead, Guarded
  <1> QED BY <1>1, <1>5, <1>6, <1>7, <1>8, Progress

LEMMA AppendRepairStep ==
    ASSUME Inv, NEW w \in Workers, AppendRepair(w)
    PROVE  Inv' /\ Framed(w)
  <1> DEFINE d == job[w].ev.doc
             r == NewEvent(d, job[w].ev.created)
  <1>0. /\ TypeOK /\ InvJob(w) /\ pc[w] = "repair" /\ job[w].ev \in Event /\ job[w] \in Job
        /\ d \in Docs /\ job[w].ev.created \in Ids
    BY DEF Inv, TypeOK, InvJob, AtWork, Reserved, AppendRepair, Event, HasRead, Guarded
  <1>1. /\ job' = [job EXCEPT ![w].rep = r] /\ pc' = [pc EXCEPT ![w] = "before"]
        /\ Append(d, job[w].ev.created)
        /\ UNCHANGED <<ver, base, last, search, net, cand, batch, failed, sunk, faults>>
    BY DEF AppendRepair, Goto, entityVars, searchVars
  <1>2. /\ OutboxTypeOK' /\ RowsMove /\ RowsStay /\ Counters
        /\ nextId' = nextId + 1 /\ nextId \in Nat /\ r \in Event
    BY <1>0, <1>1, AppendStep DEF TypeOK, Ids
  <1>3. r.id = nextId /\ revision' = revision
    BY <1>1 DEF NewEvent, Append
  <1> HIDE DEF r
  <1>4. /\ job'[w].ev = job[w].ev /\ job'[w].rep = r /\ job'[w].rsv = job[w].rsv
        /\ job'[w].seen = job[w].seen /\ job'[w] \in Job
    BY <1>0, <1>1, <1>2 DEF TypeOK, Job, Snapshot
  <1>5. job' \in [Workers -> Job]
    BY <1>0, <1>1, <1>4 DEF TypeOK
  <1>6. TypeOK' /\ Others(w) /\ pc'[w] = "before"
    BY <1>0, <1>1, <1>2, <1>5 DEF TypeOK, Others, Pcs
  <1>7. Framed(w)
    BY <1>1, <1>2, <1>6, LocalFrame
  <1>8. \A c \in Docs : last[c] # nextId
    BY <1>2 DEF Inv, InvEntity, TypeOK
  <1>9. Known(job[w].ev)'
    BY <1>0, <1>1, <1>2, <1>4, <1>6, KnownKept DEF InvJob, Known, AtWork, Reserved, HasRead, Guarded
  <1>10. InvJob(w)'
    BY <1>0, <1>1, <1>2, <1>3, <1>4, <1>6, <1>8, <1>9
    DEF InvJob, Known, Fenced, AtWork, Reserved, HasRead, Guarded
  <1>11. RevisionMoves(w)
    BY <1>0, <1>1, <1>4 DEF RevisionMoves, Reserved, HasRead, Guarded
  <1> QED BY <1>1, <1>6, <1>7, <1>10, <1>11, Progress

\* The reservation of worker w: a revision above every one reserved before, and
\* therefore above the counter the last write of the document saw.
LEMMA ReservedStep ==
    ASSUME Inv, NEW w \in Workers, pc[w] \in {"reserve", "bump"},
           BumpRevision(job[w].ev.doc),
           NEW p \in {"read", "revalidate"}, Goto(w, p),
           job' = [job EXCEPT ![w].rsv = revision[job[w].ev.doc] + 1],
           UNCHANGED <<entityVars, searchVars, cand, batch, failed, sunk, faults>>
    PROVE  Inv' /\ Framed(w)
  <1> DEFINE d == job[w].ev.doc
  <1>0. TypeOK /\ InvJob(w) /\ job[w].ev \in Event /\ job[w] \in Job /\ d \in Docs
    BY DEF Inv, TypeOK, InvJob, AtWork, Event
  <1>1. /\ pc' = [pc EXCEPT ![w] = p]
        /\ UNCHANGED <<ver, base, last, search, net, cand, batch, failed, sunk, faults>>
    BY DEF Goto, entityVars, searchVars
  <1>2. /\ OutboxTypeOK' /\ RowsMove /\ RowsStay /\ Counters /\ nextId' = nextId
        /\ revision'[d] = revision[d] + 1
    BY <1>0, BumpStep DEF TypeOK
  <1>3. revision[d] \in Nat /\ base[d] \in Nat /\ base[d] <= revision[d]
    BY <1>0 DEF Inv, InvEntity, TypeOK, OutboxTypeOK
  <1>4. /\ job'[w].ev = job[w].ev /\ job'[w].rep = job[w].rep /\ job'[w].seen = job[w].seen
        /\ job'[w].rsv = revision[d] + 1 /\ job'[w] \in Job
    BY <1>0, <1>3 DEF TypeOK, Job
  <1>5. job' \in [Workers -> Job]
    BY <1>0, <1>4 DEF TypeOK
  <1>6. TypeOK' /\ Others(w) /\ pc'[w] = p
    BY <1>0, <1>1, <1>2, <1>5 DEF TypeOK, Others, Pcs
  <1>7. Framed(w)
    BY <1>1, <1>2, <1>6, LocalFrame
  <1>8. InvJob(w)'
    BY <1>0, <1>1, <1>2, <1>3, <1>4, <1>6
    DEF InvJob, Known, AtWork, Reserved, HasRead, Guarded
  <1>9. RevisionMoves(w)
    BY <1>3, <1>4 DEF RevisionMoves
  <1> QED BY <1>1, <1>6, <1>7, <1>8, <1>9, Progress

LEMMA CasRevisionStep ==
    ASSUME Inv, NEW w \in Workers, CasRevision(w)
    PROVE  Inv' /\ Framed(w)
  BY ReservedStep DEF CasRevision

LEMMA ReserveRevisionStep ==
    ASSUME Inv, NEW w \in Workers, ReserveRevision(w)
    PROVE  Inv' /\ Framed(w)
  <1>1. CASE ~OptimisticLock
    BY <1>1, ReservedStep DEF ReserveRevision
  <1>2. CASE OptimisticLock
    <2> DEFINE d == job[w].ev.doc
    <2>0. TypeOK /\ InvJob(w) /\ pc[w] = "reserve" /\ job[w].ev \in Event /\ job[w] \in Job /\ d \in Docs
      BY DEF Inv, TypeOK, InvJob, AtWork, Event, ReserveRevision
    <2>1. /\ job' = [job EXCEPT ![w].rsv = revision[d]] /\ pc' = [pc EXCEPT ![w] = "bump"]
          /\ UNCHANGED outboxVars
          /\ UNCHANGED <<ver, base, last, search, net, cand, batch, failed, sunk, faults>>
      BY <1>2 DEF ReserveRevision, Goto, entityVars, searchVars
    <2>2. OutboxTypeOK' /\ RowsMove /\ RowsStay /\ Counters /\ UNCHANGED <<nextId, revision>>
      BY <2>0, <2>1, OutboxStutter DEF TypeOK, outboxVars
    <2>3. revision[d] \in Nat
      BY <2>0 DEF TypeOK, OutboxTypeOK
    <2>4. job'[w].ev = job[w].ev /\ job'[w] \in Job
      BY <2>0, <2>1, <2>3 DEF TypeOK, Job
    <2>5. job' \in [Workers -> Job]
      BY <2>0, <2>1, <2>4 DEF TypeOK
    <2>6. TypeOK' /\ Others(w) /\ pc'[w] = "bump"
      BY <2>0, <2>1, <2>2, <2>5 DEF TypeOK, Others, Pcs
    <2>7. Framed(w)
      BY <2>1, <2>2, <2>6, LocalFrame
    <2>8. InvJob(w)'
      BY <2>0, <2>1, <2>2, <2>4, <2>6
      DEF InvJob, Known, AtWork, Reserved, HasRead, Guarded
    <2>9. RevisionMoves(w)
      BY <2>6 DEF RevisionMoves, Reserved, HasRead, Guarded
    <2> QED BY <2>1, <2>6, <2>7, <2>8, <2>9, Progress
  <1> QED BY <1>1, <1>2

LEMMA NextEventStep ==
    ASSUME Inv, NEW w \in Workers, NEW e \in batch[w], NextEvent(w, e)
    PROVE  Inv' /\ Framed(w)
  <1>0. TypeOK /\ InvSnapshots(w) /\ pc[w] = "event" /\ e \in Event /\ Known(e)
    BY DEF Inv, TypeOK, InvSnapshots, NextEvent
  <1>1. /\ batch' = [batch EXCEPT ![w] = @ \ {e}]
        /\ UNCHANGED <<ver, base, last, search, net, cand, failed, sunk>>
    BY DEF NextEvent, entityVars, searchVars
  <1>2. CASE /\ job' = [job EXCEPT ![w] = [NoJob EXCEPT !.ev = e]]
             /\ Goto(w, "reserve") /\ UNCHANGED <<outboxVars, faults>>
    <2>1. [NoJob EXCEPT !.ev = e] \in Job /\ [NoJob EXCEPT !.ev = e].ev = e
      BY <1>0 DEF NoJob, Job, Snapshot
    <2>2. OutboxTypeOK' /\ RowsMove /\ RowsStay /\ Counters /\ UNCHANGED <<nextId, revision>>
      BY <1>0, <1>2, OutboxStutter DEF TypeOK, outboxVars
    <2>3. TypeOK' /\ Others(w) /\ pc'[w] = "reserve" /\ job'[w].ev = e
          /\ batch'[w] \subseteq batch[w]
      BY <1>0, <1>1, <1>2, <2>1, <2>2 DEF TypeOK, Others, Pcs, Goto
    <2>4. Framed(w)
      BY <1>1, <2>2, <2>3, LocalFrame
    <2>5. InvJob(w)'
      BY <1>0, <1>1, <2>2, <2>3 DEF InvJob, Known, AtWork, Reserved, HasRead, Guarded
    <2>6. RevisionMoves(w)
      BY <2>3 DEF RevisionMoves, Reserved, HasRead, Guarded
    <2> QED BY <1>1, <2>3, <2>4, <2>5, <2>6, Progress
  <1>3. CASE Relinquish(w, e) /\ UNCHANGED <<pc, job>>
    <2>1. OutboxTypeOK' /\ RowsMove /\ RowsStay /\ Counters
      BY <1>0, <1>3, ReleaseStep, OutboxStutter DEF Relinquish, TypeOK
    <2>2. faults' \in Nat
      BY <1>0, <1>3, FaultType DEF Relinquish
    <2>3. TypeOK' /\ Others(w) /\ pc'[w] = "event" /\ batch'[w] \subseteq batch[w]
      BY <1>0, <1>1, <1>3, <2>1, <2>2 DEF TypeOK, Others
    <2>4. Framed(w)
      BY <1>1, <2>1, <2>3, LocalFrame
    <2>5. \A f \in cand'[w] \cup batch'[w] \cup failed'[w] : Known(f)
      BY <1>0, <1>1, <2>3 DEF InvSnapshots
    <2> QED BY <2>3, <2>4, <2>5, Finish
  <1> QED BY <1>2, <1>3 DEF NextEvent

LEMMA AcknowledgeStep ==
    ASSUME Inv, NEW w \in Workers, Acknowledge(w)
    PROVE  Inv' /\ Framed(w)
  <1> DEFINE j == job[w]
             d == job[w].ev.doc
  <1>0. TypeOK /\ InvJob(w) /\ pc[w] = "ack" /\ pc[w] \in AtWork /\ j.ev \in Event /\ d \in Docs
    BY DEF Inv, TypeOK, InvJob, AtWork, Reserved, Event, Acknowledge, HasRead, Guarded
  <1>1. UNCHANGED <<ver, base, last, search, net, cand, batch, sunk, faults>>
    BY DEF Acknowledge, entityVars, searchVars
  <1>2. CASE DeleteRows({j.ev, j.rep}) /\ EndEvent(w)
    <2>1. OutboxTypeOK' /\ RowsMove /\ DeletionsPaid /\ Counters
      BY <1>0, <1>2, DeliveryPaid
    <2> QED BY <1>0, <1>1, <1>2, <2>1, NetStays, Ended DEF TypeOK
  <1>3. CASE UNCHANGED outboxVars /\ EndEvent(w)
    <2>1. OutboxTypeOK' /\ RowsMove /\ DeletionsPaid /\ Counters
      BY <1>0, <1>3, OutboxStutter, RowsStayPaid DEF TypeOK
    <2> QED BY <1>0, <1>1, <1>3, <2>1, NetStays, Ended DEF TypeOK
  <1>4. CASE DeleteRows({j.ev}) /\ Goto(w, "ackRepair") /\ UNCHANGED <<job, failed>>
    <2>1. OutboxTypeOK' /\ RowsMove /\ DeletionsPaid /\ Counters
      BY <1>0, <1>4, DeliveryPaid
    <2>2. UNCHANGED <<nextId, revision>>
      BY <1>4 DEF DeleteRows
    <2>3. TypeOK' /\ Others(w) /\ pc'[w] = "ackRepair"
      BY <1>0, <1>1, <1>4, <2>1 DEF TypeOK, Others, Goto, Pcs
    <2>4. Framed(w)
      BY <1>1, <2>1, <2>3, NetStays DEF Framed
    <2>5. InvJob(w)'
      BY <1>0, <1>1, <1>4, <2>2, <2>3
      DEF InvJob, Known, Fenced, AtWork, Reserved, HasRead, Guarded
    <2>6. RevisionMoves(w)
      BY <1>0, <1>4 DEF RevisionMoves, Reserved, HasRead, Guarded
    <2> QED BY <1>1, <1>4, <2>3, <2>4, <2>5, <2>6, Progress
  <1> QED BY <1>2, <1>3, <1>4 DEF Acknowledge

----------------------------------------------------------------------------
(* The environment. *)

LEMMA WriteStep ==
    ASSUME Inv, NEW d \in Docs, Write(d)
    PROVE  Inv'
  <1>0. TypeOK /\ InvEntity /\ InvNet /\ InvUnique
    BY DEF Inv
  <1>1. /\ Append(d, nextId) /\ nextId \in Nat /\ nextId \in Ids
        /\ ver' = [ver EXCEPT ![d] = @ + 1] /\ base' = [base EXCEPT ![d] = revision[d]]
        /\ last' = [last EXCEPT ![d] = nextId]
        /\ UNCHANGED <<search, net, pc, cand, batch, failed, job, sunk, faults, revision>>
    BY <1>0, OutboxAssumption DEF Write, Append, searchVars, localVars, TypeOK, OutboxTypeOK, Ids
  <1>2. /\ OutboxTypeOK' /\ RowsMove /\ RowsStay /\ Counters
        /\ nextId' = nextId + 1
        /\ rows'[nextId] = NewEvent(d, nextId) /\ rows'[nextId] # NoRow
    BY <1>0, <1>1, AppendStep DEF TypeOK
  <1>3. /\ \A c \in Docs : /\ ver[c] \in Nat /\ base[c] \in Nat /\ revision[c] \in Nat
                           /\ last[c] \in Nat /\ search[c].rev \in Nat /\ search[c].ver \in Nat
        /\ ver'[d] = ver[d] + 1 /\ base'[d] = revision[d] /\ last'[d] = nextId
        /\ \A c \in Docs \ {d} : ver'[c] = ver[c] /\ base'[c] = base[c] /\ last'[c] = last[c]
    BY <1>0, <1>1 DEF TypeOK, OutboxTypeOK
  <1>4. TypeOK'
    BY <1>0, <1>1, <1>2, <1>3 DEF TypeOK
  <1>5. ASSUME NEW c \in Docs, NEW r \in Nat, NEW v \in Nat, Fenced(c, r, v)
        PROVE  r <= revision'[c] /\ v <= ver'[c] /\ (r > base'[c] => v = ver'[c])
    <2>1. CASE c = d
      BY <1>1, <1>3, <1>5, <2>1 DEF Fenced
    <2>2. CASE c # d
      BY <1>1, <1>3, <1>5, <2>2 DEF Fenced
    <2> QED BY <2>1, <2>2
  <1>6. InvEntity'
    <2> SUFFICES ASSUME NEW c \in Docs
                 PROVE  /\ base'[c] <= revision'[c]
                        /\ last'[c] < nextId'
                        /\ ver'[c] > 0 => last'[c] \in Ids
                        /\ last'[c] \in Ids /\ rows'[last'[c]] # NoRow => rows'[last'[c]].doc = c
                        /\ Fenced(c, search[c].rev, search[c].ver)'
                        /\ ver'[c] > 0 => Recorded(c)' \/ Landed(c)'
      BY DEF InvEntity, IsRow
    <2>1. Fenced(c, search[c].rev, search[c].ver)'
      BY <1>0, <1>1, <1>3, <1>5 DEF InvEntity, Fenced
    <2>2. CASE c = d
      <3>1. rows'[nextId].doc = d
        BY <1>2 DEF NewEvent
      <3> QED BY <1>1, <1>2, <1>3, <2>1, <2>2, <3>1 DEF Recorded, IsRow
    <2>3. CASE c # d
      <3>1. last'[c] = last[c] /\ last[c] < nextId /\ last[c] # nextId
        BY <1>0, <1>1, <1>3, <2>3 DEF InvEntity
      <3>2. last[c] \in Ids => rows'[last[c]] = rows[last[c]]
        BY <1>0, <1>1, <3>1 DEF Append, TypeOK, OutboxTypeOK
      <3> QED BY <1>0, <1>1, <1>2, <1>3, <2>1, <2>3, <3>1, <3>2
              DEF InvEntity, Recorded, Landed, IsRow
    <2> QED BY <2>2, <2>3
  <1>7. InvNet'
    <2> SUFFICES ASSUME NEW m \in net PROVE Fenced(m.doc, m.rev, m.ver)'
      BY <1>1 DEF InvNet
    <2>1. m.doc \in Docs /\ m.rev \in Nat /\ m.ver \in Nat /\ Fenced(m.doc, m.rev, m.ver)
      BY <1>0 DEF TypeOK, Message, InvNet
    <2> QED BY <1>5, <2>1 DEF Fenced
  <1>8. ASSUME NEW e \in Event, Known(e)
        PROVE  e.id < nextId' /\ \A c \in Docs : last'[c] = e.id => e.doc = c
    BY <1>1, <1>2, <1>3, <1>8 DEF Known, Event, Ids
  <1>9. ASSUME NEW w \in Workers
        PROVE  InvSnapshots(w)' /\ InvJob(w)'
    <2> DEFINE j == job[w]
               c == job[w].ev.doc
    <2>0. InvSnapshots(w) /\ InvJob(w)
      BY DEF Inv
    <2>1. /\ cand[w] \subseteq Event /\ batch[w] \subseteq Event /\ failed[w] \subseteq Event
          /\ j.rsv \in Nat /\ j.seen \in Nat
      BY <1>0 DEF TypeOK, Job
    <2>2. InvSnapshots(w)'
      BY <1>1, <1>8, <2>0, <2>1 DEF InvSnapshots, Known
    <2>3. pc[w] \in AtWork => j.ev \in Event /\ Known(j.ev)' /\ c \in Docs /\ j.ev.id # nextId
      BY <1>1, <1>8, <2>0 DEF InvJob, Known, Event, Ids
    <2>4. pc[w] \in Reserved => j.rsv <= revision'[c] /\ (j.ev.id = last'[c] => j.rsv > base'[c])
      BY <1>1, <1>3, <2>0, <2>3 DEF InvJob, AtWork
    <2>5. pc[w] \in HasRead => Fenced(c, j.rsv, j.seen)'
      BY <1>1, <1>5, <2>0, <2>1, <2>3 DEF InvJob, AtWork, Reserved, HasRead, Guarded, Fenced
    <2>6. pc[w] \in Guarded =>
              j.rep \in Event /\ j.rep.id < nextId' /\ \A b \in Docs : j.rep.id # last'[b]
      <3> SUFFICES ASSUME pc[w] \in Guarded
                   PROVE  j.rep \in Event /\ j.rep.id < nextId' /\ \A b \in Docs : j.rep.id # last'[b]
        OBVIOUS
      <3>1. j.rep \in Event /\ j.rep.id < nextId /\ \A b \in Docs : j.rep.id # last[b]
        BY <2>0 DEF InvJob
      <3>2. j.rep.id \in Nat
        BY <3>1 DEF Event, Ids
      <3> QED BY <1>1, <1>2, <1>3, <3>1, <3>2
    <2>7. Exhausted(w)' = Exhausted(w)
      BY <1>1 DEF Exhausted, Attempt
    <2> QED BY <1>1, <2>0, <2>2, <2>3, <2>4, <2>5, <2>6, <2>7 DEF InvJob, Mutation
  <1>10. InvUnique'
    BY <1>0, <1>1 DEF InvUnique
  <1> QED BY <1>4, <1>6, <1>7, <1>9, <1>10 DEF Inv

LEMMA ProcessMutationStep ==
    ASSUME Inv, NEW m \in net, ProcessMutation(m)
    PROVE  Inv'
  <1>0. TypeOK /\ InvEntity /\ InvNet /\ InvUnique
    BY DEF Inv
  <1>1. /\ net' = net \ {m}
        /\ search' = IF Accept(m) THEN [search EXCEPT ![m.doc] = [rev |-> m.rev, ver |-> m.ver]]
                     ELSE search
        /\ UNCHANGED <<rows, nextId, lapsed, delayed, revision, ver, base, last,
                       pc, cand, batch, failed, job, sunk, faults>>
    BY DEF ProcessMutation, outboxVars, entityVars, localVars
  <1>2. m \in Message /\ m.doc \in Docs /\ m.rev \in Nat /\ m.ver \in Nat
        /\ Fenced(m.doc, m.rev, m.ver)
    BY <1>0 DEF TypeOK, Message, InvNet
  <1>3. search' \in [Docs -> [rev: Nat, ver: Nat]]
    BY <1>0, <1>1, <1>2 DEF TypeOK
  <1>4. ASSUME NEW c \in Docs
        PROVE  /\ search'[c].rev >= search[c].rev
               /\ Fenced(c, search'[c].rev, search'[c].ver)
               /\ c = m.doc => search'[c].rev >= m.rev
               /\ search[c].rev \in Nat /\ search'[c].rev \in Nat
    BY <1>0, <1>1, <1>2 DEF TypeOK, InvEntity, Accept
  <1>5. OutboxTypeOK'
    BY <1>0, <1>1, OutboxStutter DEF TypeOK, outboxVars
  <1>6. TypeOK'
    BY <1>0, <1>1, <1>3, <1>5 DEF TypeOK
  <1>7. \A c \in Docs : Landed(c) => Landed(c)'
    BY <1>0, <1>1, <1>4 DEF Landed, TypeOK
  <1>8. \A c \in Docs : Fenced(c, search[c].rev, search[c].ver)'
    BY <1>1, <1>4 DEF Fenced
  <1>9. InvEntity'
    BY <1>0, <1>1, <1>7, <1>8 DEF InvEntity, Recorded, IsRow
  <1>10. InvNet' /\ InvUnique'
    BY <1>0, <1>1 DEF InvNet, InvUnique, Fenced
  <1>11. ASSUME NEW w \in Workers
         PROVE  InvSnapshots(w)' /\ InvJob(w)'
    <2>0. InvSnapshots(w) /\ InvJob(w) /\ job[w].rsv \in Nat
      BY <1>0 DEF Inv, TypeOK, Job
    <2>1. InvSnapshots(w)'
      BY <1>1, <2>0 DEF InvSnapshots, Known
    <2>2. pc[w] \in AtWork => job[w].ev.doc \in Docs
      BY <2>0 DEF InvJob, Event
    <2>3. pc[w] = "await" => Mutation(w) \in net' \/ search'[job[w].ev.doc].rev >= job[w].rsv
      BY <1>1, <1>4, <2>0, <2>2 DEF InvJob, Mutation, AtWork, Reserved, HasRead, Guarded
    <2>4. pc[w] \in {"ack", "ackRepair"} => search'[job[w].ev.doc].rev >= job[w].rsv
      BY <1>4, <2>0, <2>2 DEF InvJob, AtWork, Reserved, HasRead, Guarded
    <2>5. Exhausted(w)' = Exhausted(w)
      BY <1>1 DEF Exhausted, Attempt
    <2> QED BY <1>1, <2>0, <2>1, <2>3, <2>4, <2>5 DEF InvJob, Known, Fenced, Mutation
  <1> QED BY <1>6, <1>9, <1>10, <1>11 DEF Inv

\* The tables' clocks and the stuttering step: nothing the invariant speaks of moves.
LEMMA QuietStep ==
    ASSUME Inv, OutboxTypeOK', faults' \in Nat,
           UNCHANGED <<rows, nextId, revision, ver, base, last, search, net,
                       pc, cand, batch, failed, job, sunk>>
    PROVE  Inv'
  <1>1. TypeOK'
    BY DEF Inv, TypeOK
  <1>2. InvEntity'
    BY DEF Inv, InvEntity, Recorded, Landed, Fenced, IsRow
  <1>3. InvNet' /\ InvUnique'
    BY DEF Inv, InvNet, InvUnique, Fenced
  <1>4. ASSUME NEW w \in Workers
        PROVE  InvSnapshots(w)' /\ InvJob(w)'
    <2>1. InvSnapshots(w) /\ InvJob(w)
      BY DEF Inv
    <2>2. Exhausted(w)' = Exhausted(w)
      BY DEF Exhausted, Attempt
    <2> QED BY <2>1, <2>2 DEF InvSnapshots, InvJob, Known, Fenced, Mutation
  <1> QED BY <1>1, <1>2, <1>3, <1>4 DEF Inv

LEMMA ClockSteps ==
    ASSUME Inv, NEW i \in Ids, LeaseLapses(i) \/ RetryFallsDue(i)
    PROVE  Inv'
  <1>1. OutboxTypeOK' /\ UNCHANGED <<rows, nextId>>
    BY ClockStep DEF LeaseLapses, RetryFallsDue, Inv, TypeOK
  <1>2. UNCHANGED <<revision, ver, base, last, search, net, pc, cand, batch, failed, job, sunk>>
    BY DEF LeaseLapses, RetryFallsDue, LapseLease, ReachAvailableAt, entityVars, searchVars, localVars
  <1>3. faults' \in Nat
    BY FaultType DEF LeaseLapses, RetryFallsDue, Inv
  <1> QED BY <1>1, <1>2, <1>3, QuietStep

LEMMA StutterStep ==
    ASSUME Inv, UNCHANGED vars
    PROVE  Inv'
  <1>1. OutboxTypeOK'
    BY OutboxStutter DEF Inv, TypeOK, vars
  <1>2. UNCHANGED <<rows, nextId, revision, ver, base, last, search, net,
                    pc, cand, batch, failed, job, sunk, faults>>
    BY DEF vars, outboxVars, entityVars, searchVars, localVars
  <1>3. faults' \in Nat
    BY <1>2 DEF Inv, TypeOK
  <1> QED BY <1>1, <1>2, <1>3, QuietStep

----------------------------------------------------------------------------
(* The theorems. *)

\* Every step of a worker preserves the invariant, and leaves to the others what
\* is theirs.
LEMMA WorkerStep ==
    ASSUME Inv, NEW w \in Workers, Work(w) \/ Renew(w) \/ Misfortune(w)
    PROVE  Inv' /\ Framed(w)
  <1>1. CASE Work(w)
    <2>1. ASSUME NEW e \in cand[w], ClaimCandidate(w, e) PROVE Inv' /\ Framed(w)
      BY <2>1, ClaimCandidateStep
    <2>2. ASSUME NEW e \in batch[w], NextEvent(w, e) PROVE Inv' /\ Framed(w)
      BY <2>2, NextEventStep
    <2>3. ASSUME NEW G \in SUBSET failed[w], Settle(w, G) PROVE Inv' /\ Framed(w)
      BY <2>3, SettleStep
    <2>4. ASSUME NEW G \in SUBSET failed[w], SinkAcknowledge(w, G) PROVE Inv' /\ Framed(w)
      BY <2>4, SinkAcknowledgeStep
    <2>5. CASE ScanOutbox(w) \/ ClaimsDone(w) \/ BatchDone(w)
      BY <2>5, ScanOutboxStep, ClaimsDoneStep, BatchDoneStep
    <2>6. CASE ReserveRevision(w) \/ CasRevision(w) \/ ReadEntity(w) \/ AppendRepair(w)
      BY <2>6, ReserveRevisionStep, CasRevisionStep, ReadEntityStep, AppendRepairStep
    <2>7. CASE CasConflict(w) \/ ReservationRefused(w) \/ LeaseGone(w) \/ MutationDoneLost(w)
      BY <2>7, EndingSteps
    <2>8. CASE RevalidateLease(w) \/ RenewLost(w) \/ MutationDone(w)
      BY <2>8, ControlSteps
    <2>9. CASE StartMutation(w) \/ CleanupRepair(w) \/ Acknowledge(w) \/ AcknowledgeRepair(w)
      BY <2>9, StartMutationStep, CleanupRepairStep, AcknowledgeStep, AcknowledgeRepairStep
    <2> QED BY <1>1, <2>1, <2>2, <2>3, <2>4, <2>5, <2>6, <2>7, <2>8, <2>9 DEF Work
  <1>2. CASE Renew(w)
    BY <1>2, RenewActionStep
  <1>3. CASE Misfortune(w)
    <2>1. ASSUME NEW b \in BOOLEAN, ClaimFails(w, b) PROVE Inv' /\ Framed(w)
      BY <2>1, ClaimFailsStep
    <2>2. ASSUME NEW b \in BOOLEAN, MutationRejected(w, b) PROVE Inv' /\ Framed(w)
      BY <2>2, MutationRejectedStep
    <2>3. ASSUME NEW b \in BOOLEAN, AcknowledgeThrows(w, b) PROVE Inv' /\ Framed(w)
      BY <2>3, AcknowledgeThrowsStep
    <2>4. ASSUME NEW G \in SUBSET failed[w], NEW b \in BOOLEAN, SettleThrows(w, G, b)
          PROVE  Inv' /\ Framed(w)
      BY <2>4, SettleThrowsStep
    <2>5. CASE AppendRepairThrows(w) \/ StoreThrows(w) \/ BeforeIndexThrows(w)
               \/ ReleaseThrows(w) \/ RenewThrows(w) \/ Crash(w)
      BY <2>5, AppendRepairThrowsStep, EndingSteps, ControlSteps, RenewThrowsStep, CrashStep
    <2> QED BY <1>3, <2>1, <2>2, <2>3, <2>4, <2>5 DEF Misfortune
  <1> QED BY <1>1, <1>2, <1>3

\* The invariant holds initially.
LEMMA InvInit == Init => Inv
  <1> SUFFICES ASSUME Init PROVE Inv
    OBVIOUS
  <1>1. OutboxTypeOK
    BY OutboxAssumption DEF Init, OutboxInit, OutboxTypeOK, IsRow, Ids
  <1>2. NoJob \in Job
    BY DEF NoJob, Job, Snapshot
  <1>3. TypeOK
    BY <1>1, <1>2 DEF Init, TypeOK, Pcs
  <1>4. InvEntity
    BY <1>1 DEF Init, OutboxInit, InvEntity, Fenced, Ids
  <1>5. InvNet /\ InvUnique
    BY DEF Init, InvNet, InvUnique, Reserved, HasRead, Guarded
  <1>6. \A w \in Workers : InvSnapshots(w) /\ InvJob(w)
    BY DEF Init, InvSnapshots, InvJob, AtWork, Reserved, HasRead, Guarded
  <1> QED BY <1>3, <1>4, <1>5, <1>6 DEF Inv

\* The invariant is preserved by every step.
LEMMA InvStep == Inv /\ [Next]_vars => Inv'
  <1> SUFFICES ASSUME Inv, [Next]_vars PROVE Inv'
    OBVIOUS
  <1>1. ASSUME NEW d \in Docs, Write(d) PROVE Inv'
    BY <1>1, WriteStep
  <1>2. ASSUME NEW m \in net, ProcessMutation(m) PROVE Inv'
    BY <1>2, ProcessMutationStep
  <1>3. ASSUME NEW i \in Ids, LeaseLapses(i) \/ RetryFallsDue(i) PROVE Inv'
    BY <1>3, ClockSteps
  <1>4. ASSUME NEW w \in Workers, Work(w) \/ Renew(w) \/ Misfortune(w) PROVE Inv'
    BY <1>4, WorkerStep
  <1>5. CASE UNCHANGED vars
    BY <1>5, StutterStep
  <1> QED BY <1>1, <1>2, <1>3, <1>4, <1>5 DEF Next, Environment

\* Types of the tables, of the workers' local state and of the messages, and the
\* fences behind every read, mutation and acknowledgement, hold in every reachable
\* state, for any number of documents, workers, writes and faults.
THEOREM Invariance == Spec => []Inv
  BY InvInit, InvStep, PTL DEF Spec

\* No update is lost: a document that differs from its entity has a row in the
\* outbox, or the event of its last write went to the dead-letter sink.
THEOREM UpdatesAreKept == Spec => []NoLostUpdate
  <1>1. Inv => NoLostUpdate
    <2> SUFFICES ASSUME Inv, NEW d \in Docs, search[d].ver # ver[d]
                 PROVE  \/ \E i \in Ids : IsRow(i) /\ rows[i].doc = d
                        \/ last[d] \in sunk
      BY DEF NoLostUpdate
    <2>1. /\ search[d].ver \in Nat /\ ver[d] \in Nat
          /\ Fenced(d, search[d].rev, search[d].ver)
          /\ ver[d] > 0 => Recorded(d) \/ Landed(d)
          /\ last[d] \in Ids /\ IsRow(last[d]) => rows[last[d]].doc = d
      BY DEF Inv, TypeOK, InvEntity
    <2>2. ver[d] > 0 /\ ~Landed(d)
      BY <2>1 DEF Fenced, Landed
    <2>3. Recorded(d)
      BY <2>1, <2>2
    <2> QED BY <2>1, <2>3 DEF Recorded
  <1> QED BY <1>1, Invariance, PTL

----------------------------------------------------------------------------
(* The refinement. *)

\* A step that leaves entities and index alone drops only records that are paid for.
LEMMA FramedRecord ==
    ASSUME Inv, NEW w \in Workers, Framed(w)
    PROVE  [Contract!Next]_(Contract!vars)
  <1>0. PICK r : r = [d \in Docs |-> Recorded(d)']
    OBVIOUS
  <1>1. UNCHANGED <<ver, base, last, search>> /\ DeletionsPaid /\ sunk \subseteq sunk'
    BY DEF Framed
  <1>2. \A d \in Docs : Landed(d)' = Landed(d)
    BY <1>1 DEF Landed
  <1>3. ASSUME NEW d \in Docs, ver[d] > 0, ~Landed(d), Recorded(d)
        PROVE  Recorded(d)'
    BY <1>1, <1>3 DEF Recorded, DeletionsPaid, IsRow
  <1>4. r \in [Docs -> BOOLEAN]
    BY <1>0 DEF Recorded
  <1>5. Contract!Record(r)
    BY <1>0, <1>1, <1>2, <1>3 DEF Contract!Record
  <1> QED BY <1>4, <1>5 DEF Contract!Next

LEMMA WriteRecord ==
    ASSUME Inv, NEW d \in Docs, Write(d)
    PROVE  Contract!Next
  <1>0. TypeOK /\ InvEntity
    BY DEF Inv
  <1>1. /\ Append(d, nextId) /\ nextId \in Nat /\ nextId \in Ids
        /\ ver' = [ver EXCEPT ![d] = @ + 1] /\ base' = [base EXCEPT ![d] = revision[d]]
        /\ last' = [last EXCEPT ![d] = nextId]
        /\ UNCHANGED <<search, sunk>>
    BY <1>0, OutboxAssumption DEF Write, Append, searchVars, localVars, TypeOK, OutboxTypeOK, Ids
  <1>2. rows'[nextId] # NoRow /\ nextId' = nextId + 1
    BY <1>0, <1>1, AppendStep DEF TypeOK
  <1>3. /\ ver'[d] > 0 /\ last'[d] = nextId /\ base'[d] = revision[d] /\ search[d].rev <= revision[d]
        /\ search[d].rev \in Nat /\ revision[d] \in Nat
        /\ \A c \in Docs \ {d} : ver'[c] = ver[c] /\ base'[c] = base[c] /\ last'[c] = last[c]
    BY <1>0, <1>1 DEF TypeOK, OutboxTypeOK, InvEntity, Fenced
  <1>4. ~Landed(d)' /\ Recorded(d)'
    BY <1>1, <1>2, <1>3 DEF Landed, Recorded, IsRow
  <1>5. ASSUME NEW c \in Docs, c # d
        PROVE  Landed(c)' = Landed(c) /\ Recorded(c)' = Recorded(c)
    <2>1. last[c] # nextId
      BY <1>0, <1>1 DEF InvEntity, TypeOK
    <2>2. last[c] \in Ids => rows'[last[c]] = rows[last[c]]
      BY <1>0, <1>1, <2>1 DEF Append, TypeOK, OutboxTypeOK
    <2> QED BY <1>1, <1>3, <1>5, <2>2 DEF Landed, Recorded, IsRow
  <1>6. Contract!Write(d)
    BY <1>1, <1>3, <1>4, <1>5 DEF Contract!Write
  <1> QED BY <1>6 DEF Contract!Next

LEMMA ProcessMutationLand ==
    ASSUME Inv, NEW m \in net, ProcessMutation(m)
    PROVE  [Contract!Next]_(Contract!vars)
  <1>0. TypeOK /\ InvEntity /\ InvNet
    BY DEF Inv
  <1>1. UNCHANGED <<rows, nextId, ver, base, last, sunk>>
    BY DEF ProcessMutation, outboxVars, entityVars
  <1>2. \A c \in Docs : Recorded(c)' = Recorded(c)
    BY <1>1 DEF Recorded, IsRow
  <1>3. CASE ~Accept(m)
    <2>1. search' = search
      BY <1>3 DEF ProcessMutation
    <2>2. \A c \in Docs : Landed(c)' = Landed(c)
      BY <1>1, <2>1 DEF Landed
    <2> QED BY <1>1, <1>2, <2>1, <2>2 DEF Contract!vars
  <1>4. CASE Accept(m)
    <2> DEFINE d == m.doc
    <2>1. /\ d \in Docs /\ m.rev \in Nat /\ m.ver \in Nat /\ Fenced(d, m.rev, m.ver)
          /\ ver[d] \in Nat /\ base[d] \in Nat /\ search[d].rev \in Nat
      BY <1>0 DEF TypeOK, Message, InvNet
    <2>2. search' = [search EXCEPT ![d] = [rev |-> m.rev, ver |-> m.ver]]
      BY <1>4 DEF ProcessMutation
    <2>3. search'[d].rev = m.rev /\ search'[d].ver = m.ver
          /\ \A c \in Docs \ {d} : search'[c] = search[c]
      BY <1>0, <2>1, <2>2 DEF TypeOK
    <2>4. m.ver \in 0..ver[d] /\ (Landed(d)' \/ ver[d] = 0 => m.ver = ver[d])
      BY <1>1, <2>1, <2>3 DEF Fenced, Landed
    <2>5. ~Landed(d)' => ~Landed(d)
      BY <1>1, <1>4, <2>1, <2>3 DEF Landed, Accept
    <2>6. \A c \in Docs \ {d} : Landed(c)' = Landed(c)
      BY <1>1, <2>3 DEF Landed
    <2>7. CASE ver[d] > 0 /\ ~Landed(d)'
      <3>1. Contract!Land(d, m.ver, TRUE)
        BY <1>0, <1>1, <1>2, <2>1, <2>3, <2>5, <2>6, <2>7 DEF Contract!Land, TypeOK
      <3> QED BY <2>1, <2>4, <3>1 DEF Contract!Next
    <2>8. CASE ~(ver[d] > 0 /\ ~Landed(d)')
      <3>1. m.ver = ver[d]
        BY <2>1, <2>4, <2>8
      <3>2. Contract!Land(d, m.ver, FALSE)
        BY <1>0, <1>1, <1>2, <2>1, <2>3, <2>6, <2>8, <3>1 DEF Contract!Land, TypeOK
      <3> QED BY <2>1, <2>4, <3>2 DEF Contract!Next
    <2> QED BY <2>7, <2>8
  <1> QED BY <1>3, <1>4

\* Leases, repair guards, fences and acknowledgements together implement the index
\* contract: a write stays recorded until the index shows it, and what is still in
\* flight cannot set back a document that is not owed.
THEOREM Refinement == Spec => ImplementsContract
  <1>1. Init => Contract!Init
    <2> SUFFICES ASSUME Init PROVE Contract!Init
      OBVIOUS
    <2>1. \A d \in Docs : ver[d] = 0 /\ search[d].ver = 0 /\ ~Recorded(d)
      BY DEF Init, Recorded, Ids
    <2>2. \A d \in Docs : (ver[d] > 0 /\ ~Landed(d)) = FALSE /\ Recorded(d) = FALSE
      BY <2>1
    <2>3. ver = [d \in Docs |-> 0] /\ [d \in Docs |-> search[d].ver] = [d \in Docs |-> 0]
      BY <2>1 DEF Init
    <2>4. [d \in Docs |-> ver[d] > 0 /\ ~Landed(d)] = [d \in Docs |-> FALSE]
      BY <2>2, Zenon
    <2>5. [d \in Docs |-> Recorded(d)] = [d \in Docs |-> FALSE]
      BY <2>2, Zenon
    <2> QED BY <2>3, <2>4, <2>5 DEF Contract!Init
  <1>2. Inv /\ [Next]_vars => [Contract!Next]_(Contract!vars)
    <2> SUFFICES ASSUME Inv, [Next]_vars PROVE [Contract!Next]_(Contract!vars)
      OBVIOUS
    <2>1. ASSUME NEW d \in Docs, Write(d) PROVE Contract!Next
      BY <2>1, WriteRecord
    <2>2. ASSUME NEW m \in net, ProcessMutation(m) PROVE [Contract!Next]_(Contract!vars)
      BY <2>2, ProcessMutationLand
    <2>3. ASSUME UNCHANGED <<rows, ver, base, last, search, sunk>> PROVE UNCHANGED Contract!vars
      BY <2>3 DEF Contract!vars, Recorded, Landed, IsRow
    <2>4. ASSUME NEW i \in Ids, LeaseLapses(i) \/ RetryFallsDue(i) PROVE UNCHANGED Contract!vars
      BY <2>3, <2>4
      DEF LeaseLapses, RetryFallsDue, LapseLease, ReachAvailableAt, entityVars, searchVars
    <2>5. ASSUME NEW w \in Workers, Work(w) \/ Renew(w) \/ Misfortune(w)
          PROVE  [Contract!Next]_(Contract!vars)
      BY <2>5, WorkerStep, FramedRecord
    <2>6. CASE UNCHANGED vars
      BY <2>3, <2>6 DEF vars, outboxVars, entityVars, searchVars
    <2> QED BY <2>1, <2>2, <2>4, <2>5, <2>6 DEF Next, Environment
  <1> QED BY <1>1, <1>2, Invariance, PTL DEF Spec, ImplementsContract, Contract!Spec

----------------------------------------------------------------------------
(* What a fault costs the outbox: an account of its repair rows.            *)

\* Rows that guard a delivery, or have guarded one (enqueueSearchSyncRepair).
Repairs == {i \in Ids : IsRow(i) /\ rows[i].created # i}

\* A delivery holds its guard while it holds its lease: the event stands before the
\* guard in the order of the outbox, so nobody else can claim it.  A store without
\* optimistic locking acknowledges the event first.
Holding(w) == pc[w] \in Guarded /\ (pc[w] = "ackRepair" \/ isLeaseCurrent(job[w].ev))

\* The repair rows no delivery holds.
Surplus == Repairs \ {job[w].rep.id : w \in {v \in Workers : Holding(v)}}

\* Deliveries that have lost their lease and may still append a guard.
Indebted(w) == pc[w] \in AtWork \ Guarded /\ ~isLeaseCurrent(job[w].ev)
Debtors == {w \in Workers : Indebted(w)}

\* The guard stands as it was appended, behind its event, and nobody has scanned it.
Standing(w) ==
    LET j == job[w]
    IN  /\ rows[j.rep.id] = j.rep
        /\ j.rep.doc = j.ev.doc /\ j.rep.created = j.ev.created /\ j.rep.id > j.ev.id
        /\ pc[w] # "ackRepair" => \A v \in Workers : \A e \in cand[v] : e.id # j.rep.id

\* Leases are taken in the worker's name.
Named(w) ==
    /\ \A e \in batch[w] \cup failed[w] : e.token = w
    /\ pc[w] \in AtWork => job[w].ev.token = w
    /\ pc[w] \in Guarded => job[w].rep.token = NoToken
    /\ pc[w] = "lost" => ~isLeaseCurrent(job[w].ev)
    /\ pc[w] = "ackRepair" => ~OptimisticLock

\* The inductive invariant: each repair row that no delivery holds has been paid for by
\* a fault, and so has each delivery that has lost its lease before it had a guard.
CountInv ==
    /\ IsFiniteSet(Debtors) /\ Cardinality(Surplus) + Cardinality(Debtors) <= faults
    /\ \A w \in Workers : Named(w) /\ (Holding(w) => Standing(w))
    /\ \A v, w \in Workers : v # w /\ pc[v] \in Guarded /\ pc[w] \in Guarded
           => job[v].rep.id # job[w].rep.id

\* What a worker does to rows: it takes what nobody holds, rewrites or deletes what it
\* has leased, deletes the guard it has appended, and appends.
Turn(w) ==
    \A i \in Ids :
        \/ rows'[i] = rows[i] /\ (i \in lapsed' <=> i \in lapsed)
        \/ /\ rows'[i] = NoRow \/ rows'[i].token \in {w, NoToken}
           /\ \/ ~IsRow(i)
              \/ w \in Workers /\ rows[i].token = w
              \/ /\ ~isOutboxLeaseActive(i)
                 /\ \A v \in Workers \ {w} : Holding(v) => i # job[v].rep.id
              \/ w \in Workers /\ pc[w] \in Guarded /\ i = job[w].rep.id /\ rows[i] = job[w].rep

\* Nobody else's lease or guard is touched by it.
LEMMA OthersHold ==
    ASSUME Inv, CountInv, NEW w, Turn(w), NEW v \in Workers, v # w,
           pc'[v] = pc[v], job'[v] = job[v]
    PROVE  /\ Holding(v)' <=> Holding(v)
           /\ Indebted(v)' <=> Indebted(v)
           /\ pc[v] \in AtWork => (isLeaseCurrent(job[v].ev)' <=> isLeaseCurrent(job[v].ev))
           /\ Holding(v) => rows'[job[v].rep.id] = rows[job[v].rep.id]
  <1>0. NoToken \notin Workers /\ NoRow \notin Event
    BY OutboxAssumption
  <1>1. ASSUME pc[v] \in AtWork
        PROVE  isLeaseCurrent(job[v].ev)' <=> isLeaseCurrent(job[v].ev)
    <2>1. /\ job[v].ev \in Event /\ job[v].ev.token = v
      BY <1>1 DEF CountInv, Named, Inv, InvJob
    <2> DEFINE i == job[v].ev.id
    <2>2. i \in Ids /\ job[v].ev # NoRow
      BY <1>0, <2>1 DEF Event
    <2>3. CASE rows'[i] = rows[i] /\ (i \in lapsed' <=> i \in lapsed)
      BY <2>3 DEF isLeaseCurrent, isOutboxLeaseActive, IsRow
    <2>4. CASE ~(rows'[i] = rows[i] /\ (i \in lapsed' <=> i \in lapsed))
      <3>1. /\ rows'[i] = NoRow \/ rows'[i].token \in {w, NoToken}
            /\ \/ ~IsRow(i) \/ (w \in Workers /\ rows[i].token = w) \/ ~isOutboxLeaseActive(i)
               \/ w \in Workers /\ pc[w] \in Guarded /\ rows[i] = job[w].rep
        BY <2>2, <2>4 DEF Turn
      <3>2. rows'[i] # job[v].ev
        BY <1>0, <2>1, <2>2, <3>1
      <3>3. ~isLeaseCurrent(job[v].ev)'
        BY <3>2 DEF isLeaseCurrent
      <3>4. w \in Workers /\ pc[w] \in Guarded => job[w].rep.token = NoToken
        BY DEF CountInv, Named
      <3>5. ~isLeaseCurrent(job[v].ev)
        BY <1>0, <2>1, <3>1, <3>4 DEF isLeaseCurrent, IsRow
      <3> QED BY <3>3, <3>5
    <2> QED BY <2>3, <2>4
  <1>2. Holding(v)' <=> Holding(v)
    BY <1>1 DEF Holding, AtWork, Reserved, HasRead
  <1>3. Indebted(v)' <=> Indebted(v)
    BY <1>1 DEF Indebted
  <1>4. ASSUME Holding(v)
        PROVE  rows'[job[v].rep.id] = rows[job[v].rep.id]
    <2> DEFINE i == job[v].rep.id
    <2>1. /\ pc[v] \in Guarded /\ job[v].rep \in Event /\ job[v].rep.token = NoToken
          /\ rows[i] = job[v].rep /\ i \in Ids
      BY <1>4 DEF CountInv, Standing, Named, Holding, Inv, InvJob, Event
    <2>2. w \in Workers /\ pc[w] \in Guarded => i # job[w].rep.id
      BY <2>1 DEF CountInv
    <2>3. IsRow(i) /\ (w \in Workers => rows[i].token # w)
      BY <1>0, <2>1 DEF IsRow
    <2> QED BY <1>4, <2>1, <2>2, <2>3 DEF Turn
  <1> QED BY <1>1, <1>2, <1>3, <1>4

\* Rows are taken away or rewritten with the createdAt they have.
RowsTurn == \A i \in Ids : IsRow(i)' => IsRow(i) /\ rows'[i].created = rows[i].created

\* No such step makes a row a repair row.
LEMMA FewerRepairs ==
    ASSUME RowsTurn
    PROVE  Repairs' \subseteq Repairs
  BY DEF RowsTurn, Repairs

\* Claims, renewals, releases, retries, dead letters and deletes are such steps.
LEMMA RewriteTurn ==
    ASSUME OutboxTypeOK, NEW w, NEW S, NEW e,
           \/ UNCHANGED rows \/ Release(S, w) \/ DeleteRows(S)
           \/ (e \in Event /\ (ClaimLease(e, w) \/ RenewLease(e)))
           \/ (S \in SUBSET Event /\ (Retry(S) \/ DeadLetter(S)))
    PROVE  RowsTurn
  <1>0. /\ rows \in [Ids -> Event \cup {NoRow}] /\ NoRow \notin Event /\ (e \in Event => e.id \in Ids)
        /\ \A i \in Ids : IsRow(i) => rows[i] \in Event
    BY OutboxAssumption DEF OutboxTypeOK, Event, IsRow
  <1>1. CASE UNCHANGED rows
    BY <1>1 DEF RowsTurn, IsRow
  <1>3. CASE e \in Event /\ ClaimLease(e, w)
    <2>1. withOutboxLease(e, w).created = e.created
      BY <1>3 DEF withOutboxLease, Event
    <2>2. rows[e.id] = e /\ rows' = [rows EXCEPT ![e.id] = withOutboxLease(e, w)]
      BY <1>3 DEF ClaimLease, Claimable
    <2>3. IsRow(e.id)
      BY <1>0, <1>3, <2>2 DEF IsRow
    <2> QED BY <1>0, <1>3, <2>1, <2>2, <2>3 DEF RowsTurn, IsRow
  <1>4. CASE e \in Event /\ RenewLease(e)
    <2>1. withOutboxLease(e, e.token).created = e.created
      BY <1>4 DEF withOutboxLease, Event
    <2>2. rows[e.id] = e /\ rows' = [rows EXCEPT ![e.id] = withOutboxLease(e, e.token)]
      BY <1>4 DEF RenewLease, isLeaseCurrent
    <2>3. IsRow(e.id)
      BY <1>0, <1>4, <2>2 DEF IsRow
    <2> QED BY <1>0, <1>4, <2>1, <2>2, <2>3 DEF RowsTurn, IsRow
  <1>5. CASE Release(S, w)
    <2> SUFFICES ASSUME NEW i \in Ids, IsRow(i)' PROVE IsRow(i) /\ rows'[i].created = rows[i].created
      BY DEF RowsTurn
    <2>1. CASE i \in Releasable(S, w)
      <3>1. IsRow(i) /\ rows[i] \in Event /\ rows'[i] = withoutOutboxLease(rows[i])
        BY <1>0, <1>5, <2>1 DEF Release, Releasable
      <3> QED BY <3>1 DEF withoutOutboxLease, Event
    <2>2. CASE i \notin Releasable(S, w)
      BY <1>5, <2>2 DEF Release, IsRow
    <2> QED BY <2>1, <2>2
  <1>6. CASE DeleteRows(S)
    <2>1. \A i \in Ids : rows'[i] = NoRow \/ rows'[i] = rows[i]
      BY <1>6 DEF DeleteRows
    <2> QED BY <2>1 DEF RowsTurn, IsRow
  <1>7. CASE S \in SUBSET Event /\ (Retry(S) \/ DeadLetter(S))
    <2> SUFFICES ASSUME NEW i \in Ids, IsRow(i)' PROVE IsRow(i) /\ rows'[i].created = rows[i].created
      BY DEF RowsTurn
    <2> DEFINE hit == {f.id : f \in Settleable(S)}
    <2>1. CASE i \in hit
      <3>1. rows[i] \in Event /\ IsRow(i)
        BY <1>0, <1>7, <2>1 DEF Settleable, IsRow
      <3>2. rows'[i] = outboxRetryEvent(rows[i]) \/ rows'[i] = outboxDeadLetterEvent(rows[i])
        BY <1>7, <2>1 DEF Retry, DeadLetter
      <3> QED BY <3>1, <3>2 DEF outboxRetryEvent, outboxDeadLetterEvent, Event
    <2>2. CASE i \notin hit
      <3>1. rows'[i] = rows[i]
        BY <1>7, <2>2 DEF Retry, DeadLetter
      <3> QED BY <3>1 DEF IsRow
    <2> QED BY <2>1, <2>2
  <1> QED BY <1>1, <1>3, <1>4, <1>5, <1>6, <1>7

\* A guard that is held is not the first row of its document.
LEMMA GuardsWait ==
    ASSUME Inv, CountInv, NEW v \in Workers, Holding(v), pc[v] # "ackRepair",
           NEW e \in LeaseCandidates
    PROVE  e.id # job[v].rep.id
  <1> SUFFICES ASSUME e.id = job[v].rep.id PROVE FALSE
    OBVIOUS
  <1> DEFINE j == job[v]
  <1>1. /\ j.ev \in Event /\ j.ev.token = v /\ isLeaseCurrent(j.ev)
        /\ rows[j.rep.id] = j.rep /\ j.rep \in Event
        /\ j.rep.doc = j.ev.doc /\ j.rep.created = j.ev.created /\ j.rep.id > j.ev.id
    BY DEF CountInv, Standing, Named, Holding, Inv, InvJob, AtWork, Reserved, HasRead
  <1>2. j.ev.id \in Ids /\ rows[j.ev.id] = j.ev /\ IsRow(j.ev.id) /\ j.ev.id \in Nat /\ j.rep.id \in Nat
    BY <1>1 DEF Event, Ids, isLeaseCurrent, isOutboxLeaseActive
  <1>3. ~j.ev.dead
    BY <1>1, <1>2, OutboxAssumption DEF Inv, TypeOK, OutboxTypeOK
  <1> DEFINE pending == {rows[i] : i \in {k \in Ids : IsRow(k) /\ ~rows[k].dead}}
  <1>4. /\ j.ev \in pending
        /\ e \in pending /\ \A f \in pending : f.doc = e.doc => f = e \/ Before(e, f)
    BY <1>2, <1>3 DEF LeaseCandidates
  <1>5. e = j.rep
    <2>1. PICK k \in Ids : IsRow(k) /\ e = rows[k]
      BY <1>4
    <2> QED BY <1>1, <2>1 DEF Inv, TypeOK, OutboxTypeOK
  <1>6. j.ev = e \/ Before(e, j.ev)
    BY <1>1, <1>4, <1>5
  <1> HIDE DEF j
  <1>7. j.ev.created \in Nat
    BY <1>1 DEF Event, Ids
  <1> QED BY <1>1, <1>2, <1>5, <1>6, <1>7 DEF Before

\* The table is finite.
LEMMA SurplusFinite == IsFiniteSet(Surplus)
  <1>1. IsFiniteSet(Ids)
    BY FS_Interval, OutboxAssumption DEF Ids
  <1> QED BY <1>1, FS_Subset DEF Surplus, Repairs

\* A set that grows by one element at most.
LEMMA OneMore ==
    ASSUME NEW S, IsFiniteSet(S), NEW T, NEW i, T \subseteq S \cup {i}
    PROVE  /\ Cardinality(S) \in Nat /\ Cardinality(T) \in Nat /\ IsFiniteSet(T)
           /\ Cardinality(T) <= Cardinality(S) + 1
           /\ T \subseteq S => Cardinality(T) <= Cardinality(S)
  <1>1. /\ IsFiniteSet(S \cup {i}) /\ Cardinality(S) \in Nat
        /\ Cardinality(S \cup {i}) <= Cardinality(S) + 1
    <2>1. Cardinality(S) \in Nat
      BY FS_CardinalityType
    <2> QED BY <2>1, FS_AddElement
  <1>2. IsFiniteSet(T) /\ Cardinality(T) <= Cardinality(S \cup {i}) /\ Cardinality(T) \in Nat
    BY <1>1, FS_Subset, FS_CardinalityType
  <1>3. Cardinality(S \cup {i}) \in Nat
    BY <1>1, FS_CardinalityType
  <1>4. T \subseteq S => Cardinality(T) <= Cardinality(S)
    BY FS_Subset
  <1> QED BY <1>1, <1>2, <1>3, <1>4

\* Surplus rows S and debtors D are paid for by f faults: they still are when neither
\* grows, when one of them grows by one and so do the faults, and when a debtor leaves a
\* row behind instead.
LEMMA Balance ==
    ASSUME NEW S, IsFiniteSet(S), NEW D, IsFiniteSet(D), NEW T, NEW E, NEW i, NEW w,
           NEW f \in Nat, NEW g \in Nat, Cardinality(S) + Cardinality(D) <= f,
           \/ T \subseteq S /\ E \subseteq D /\ g >= f
           \/ T \subseteq S \cup {i} /\ E \subseteq D /\ g = f + 1
           \/ T \subseteq S /\ E \subseteq D \cup {w} /\ g = f + 1
           \/ T \subseteq S \cup {i} /\ w \in D /\ E \subseteq D \ {w} /\ g >= f
    PROVE  IsFiniteSet(E) /\ Cardinality(T) + Cardinality(E) <= g
  <1>1. T \subseteq S \cup {i} /\ E \subseteq D \cup {w}
    OBVIOUS
  <1>2. /\ Cardinality(S) \in Nat /\ Cardinality(T) \in Nat
        /\ Cardinality(T) <= Cardinality(S) + 1
        /\ T \subseteq S => Cardinality(T) <= Cardinality(S)
    BY <1>1, OneMore
  <1>3. /\ Cardinality(D) \in Nat /\ Cardinality(E) \in Nat /\ IsFiniteSet(E)
        /\ Cardinality(E) <= Cardinality(D) + 1
        /\ E \subseteq D => Cardinality(E) <= Cardinality(D)
    BY <1>1, OneMore
  <1>4. w \in D /\ E \subseteq D \ {w} => Cardinality(E) + 1 <= Cardinality(D)
    <2> SUFFICES ASSUME w \in D, E \subseteq D \ {w} PROVE Cardinality(E) + 1 <= Cardinality(D)
      OBVIOUS
    <2>1. IsFiniteSet(D \ {w}) /\ Cardinality(D \ {w}) = Cardinality(D) - 1
      BY FS_RemoveElement
    <2>2. Cardinality(E) <= Cardinality(D \ {w})
      BY <2>1, FS_Subset
    <2> QED BY <1>3, <2>1, <2>2
  <1> QED BY <1>2, <1>3, <1>4

\* What can become surplus: a row that is new, and the guard worker w held.
LEMMA SurplusMoves ==
    ASSUME Inv, CountInv, NEW w, Turn(w),
           \A v \in Workers \ {w} : pc'[v] = pc[v] /\ job'[v] = job[v],
           NEW N, Repairs' \subseteq Repairs \cup N
    PROVE  /\ \A k \in Surplus' : \/ k \in Surplus \/ k \in N
                                  \/ w \in Workers /\ Holding(w) /\ k = job[w].rep.id
           /\ \A k \in Surplus' : /\ IsRow(k)'
                                  /\ w \in Workers /\ Holding(w)' => k # job'[w].rep.id
           /\ Debtors' \subseteq Debtors \cup {w}
           /\ w \notin Workers \/ (Indebted(w)' => Indebted(w)) => Debtors' \subseteq Debtors
  <1>1. \A v \in Workers \ {w} : (Holding(v)' <=> Holding(v)) /\ (Indebted(v)' <=> Indebted(v))
    BY OthersHold
  <1>2. ASSUME NEW k \in Surplus', k \notin Surplus, k \notin N
        PROVE  w \in Workers /\ Holding(w) /\ k = job[w].rep.id
    <2>1. k \in Repairs /\ \A v \in Workers : Holding(v)' => k # job'[v].rep.id
      BY <1>2 DEF Surplus
    <2>2. PICK v \in Workers : Holding(v) /\ k = job[v].rep.id
      BY <1>2, <2>1 DEF Surplus
    <2> QED BY <1>1, <2>1, <2>2
  <1>3. \A k \in Surplus' : IsRow(k)' /\ (w \in Workers /\ Holding(w)' => k # job'[w].rep.id)
    BY DEF Surplus, Repairs
  <1>4. \A v \in Debtors' : v \in Workers /\ Indebted(v)'
    BY DEF Debtors
  <1>5. \A v \in Workers : Indebted(v) => v \in Debtors
    BY DEF Debtors
  <1> QED BY <1>1, <1>2, <1>3, <1>4, <1>5

\* The other workers' leases, names and guards stay in order.
LEMMA OthersStand ==
    ASSUME Inv, CountInv, NEW w, Turn(w), Others(w),
           \A u \in Workers : cand'[u] \subseteq cand[u] \/ cand'[u] = LeaseCandidates
    PROVE  \A v \in Workers \ {w} : Named(v)' /\ (Holding(v)' => Standing(v)')
  <1> SUFFICES ASSUME NEW v \in Workers \ {w} PROVE Named(v)' /\ (Holding(v)' => Standing(v)')
    OBVIOUS
  <1>1. /\ pc'[v] = pc[v] /\ job'[v] = job[v]
        /\ Holding(v)' <=> Holding(v)
        /\ Holding(v) => rows'[job[v].rep.id] = rows[job[v].rep.id]
        /\ pc[v] \in AtWork => (isLeaseCurrent(job[v].ev)' <=> isLeaseCurrent(job[v].ev))
    BY OthersHold DEF Others
  <1>2. Named(v)'
    <2>1. Named(v) /\ batch'[v] = batch[v] /\ failed'[v] = failed[v]
      BY DEF CountInv, Others
    <2> QED BY <1>1, <2>1 DEF Named, AtWork, Reserved, HasRead, Guarded
  <1>3. ASSUME Holding(v)' PROVE Standing(v)'
    <2>1. Standing(v) /\ Holding(v)
      BY <1>1, <1>3 DEF CountInv
    <2>2. ASSUME pc[v] # "ackRepair", NEW u \in Workers, NEW e \in cand'[u]
          PROVE  e.id # job[v].rep.id
      BY <2>1, <2>2, GuardsWait DEF Standing
    <2> QED BY <1>1, <2>1, <2>2 DEF Standing
  <1> QED BY <1>2, <1>3

\* The account is in order after a step of worker w that pays for the guard it leaves.
LEMMA Accounted ==
    ASSUME Inv, CountInv, NEW w \in Workers, Turn(w), RowsTurn, Others(w), Named(w)',
           cand'[w] \subseteq cand[w] \/ cand'[w] = LeaseCandidates,
           pc'[w] \in Guarded =>
               /\ pc[w] \in Guarded \ {"ackRepair"} /\ job'[w].rep = job[w].rep
               /\ job'[w].ev.id = job[w].ev.id /\ job'[w].ev.doc = job[w].ev.doc
               /\ job'[w].ev.created = job[w].ev.created,
           Holding(w)' => Holding(w) /\ rows'[job[w].rep.id] = rows[job[w].rep.id],
           Indebted(w)' => Indebted(w),
           \/ faults' = faults + 1
           \/ faults' = faults /\ (Holding(w) => Holding(w)' \/ rows'[job[w].rep.id] = NoRow)
    PROVE  CountInv'
  <1>1. \A v \in Workers \ {w} : pc'[v] = pc[v] /\ job'[v] = job[v] /\ cand'[v] = cand[v]
    BY DEF Others
  <1>2. Repairs' \subseteq Repairs \cup {}
    BY FewerRepairs
  <1>3. \A v \in Workers \ {w} : Named(v)' /\ (Holding(v)' => Standing(v)')
    BY <1>1, OthersStand
  <1>4. \A v, u \in Workers : v # u /\ pc'[v] \in Guarded /\ pc'[u] \in Guarded
                                 => job'[v].rep.id # job'[u].rep.id
    BY <1>1 DEF CountInv
  <1>5. ASSUME Holding(w)' PROVE Standing(w)'
    <2>1. /\ Standing(w) /\ pc[w] # "ackRepair" /\ Holding(w)
      BY <1>5 DEF Holding, CountInv
    <2>2. ASSUME NEW u \in Workers, NEW e \in cand'[u]
          PROVE  e.id # job[w].rep.id
      <3>1. e \in cand[u] \/ e \in LeaseCandidates
        BY <1>1
      <3> QED BY <2>1, <3>1, GuardsWait DEF Standing
    <2> QED BY <1>5, <2>1, <2>2 DEF Standing, Holding
  <1>6. /\ \A k \in Surplus' : k \in Surplus \/ (Holding(w) /\ k = job[w].rep.id)
        /\ \A k \in Surplus' : IsRow(k)' /\ (Holding(w)' => k # job'[w].rep.id)
        /\ Debtors' \subseteq Debtors
    BY <1>1, <1>2, SurplusMoves
  <1>7. \/ Surplus' \subseteq Surplus /\ faults' = faults
        \/ Surplus' \subseteq Surplus \cup {job[w].rep.id} /\ faults' = faults + 1
    <2>1. CASE faults' = faults + 1
      BY <1>6, <2>1
    <2>2. CASE faults' = faults /\ (Holding(w) => Holding(w)' \/ rows'[job[w].rep.id] = NoRow)
      <3>1. Holding(w)' => job'[w].rep = job[w].rep
        BY DEF Holding
      <3> QED BY <1>6, <2>2, <3>1 DEF IsRow
    <2> QED BY <2>1, <2>2
  <1>8. IsFiniteSet(Debtors') /\ Cardinality(Surplus') + Cardinality(Debtors') <= faults'
    <2>1. /\ faults \in Nat /\ faults' \in Nat /\ IsFiniteSet(Debtors)
          /\ Cardinality(Surplus) + Cardinality(Debtors) <= faults
      BY <1>7 DEF CountInv, Inv, TypeOK
    <2>2. faults' = faults => faults' >= faults
      BY <2>1
    <2> DEFINE S == Surplus
               D == Debtors
               T == Surplus'
               E == Debtors'
    <2>3. IsFiniteSet(S) /\ IsFiniteSet(D) /\ Cardinality(S) + Cardinality(D) <= faults
      BY <2>1, SurplusFinite
    <2>4. \/ T \subseteq S /\ E \subseteq D /\ faults' >= faults
          \/ T \subseteq S \cup {job[w].rep.id} /\ E \subseteq D /\ faults' = faults + 1
      BY <1>6, <1>7, <2>2
    <2> HIDE DEF S, D, T, E
    <2>5. IsFiniteSet(E) /\ Cardinality(T) + Cardinality(E) <= faults'
      <3> DEFINE g == faults'
                 i == job[w].rep.id
      <3>1. /\ faults \in Nat /\ g \in Nat
            /\ \/ T \subseteq S /\ E \subseteq D /\ g >= faults
               \/ T \subseteq S \cup {i} /\ E \subseteq D /\ g = faults + 1
        BY <2>1, <2>4
      <3> HIDE DEF g, i
      <3>2. IsFiniteSet(E) /\ Cardinality(T) + Cardinality(E) <= g
        BY <2>3, <3>1, Balance
      <3> QED BY <3>2 DEF g
    <2> QED BY <2>5 DEF T, E
  <1> QED BY <1>3, <1>4, <1>5, <1>8 DEF CountInv

----------------------------------------------------------------------------
(* The steps of a worker. *)

\* No guard can be claimed from a delivery between its two acknowledgements.
Undivided == OptimisticLock \/ \A v, w \in Workers : v = w

\* Every operation of a worker on the outbox is such a turn.
LEMMA OwnTurn ==
    ASSUME Inv, CountInv, Undivided, NEW w \in Workers,
           \/ UNCHANGED <<rows, lapsed>>
           \/ \E S : Release(S, w)
           \/ pc[w] = "claim" /\ \E e \in cand[w] : ClaimLease(e, w)
           \/ pc[w] = "await" /\ RenewLease(job[w].ev)
           \/ \E S \in SUBSET failed[w] : Retry(S) \/ DeadLetter(S)
           \/ \E S \in SUBSET Event :
                  /\ DeleteRows(S) /\ \A e \in S : Ackable(e)
                  /\ \A e \in S : e.token = w \/ (pc[w] \in Guarded /\ e = job[w].rep)
    PROVE  Turn(w) /\ RowsTurn
  <1>0. /\ OutboxTypeOK /\ cand[w] \in SUBSET Event /\ failed[w] \in SUBSET Event
        /\ \A i \in Ids : IsRow(i) => rows[i] \in Event
    BY DEF Inv, TypeOK, OutboxTypeOK, IsRow
  <1>1. CASE UNCHANGED <<rows, lapsed>>
    BY <1>0, <1>1, RewriteTurn DEF Turn
  <1>2. ASSUME NEW S, Release(S, w) PROVE Turn(w) /\ RowsTurn
    <2>1. RowsTurn
      BY <1>0, <1>2, RewriteTurn
    <2>2. ASSUME NEW i \in Ids
          PROVE  \/ rows'[i] = rows[i] /\ (i \in lapsed' <=> i \in lapsed)
                 \/ rows[i].token = w /\ rows'[i].token = NoToken
      <3>1. CASE i \in Releasable(S, w)
        <4>1. rows'[i] = withoutOutboxLease(rows[i]) /\ rows[i] \in Event /\ rows[i].token = w
          BY <1>0, <1>2, <3>1 DEF Release, Releasable
        <4> QED BY <4>1, UnleaseType
      <3>2. CASE i \notin Releasable(S, w)
        BY <1>2, <3>2 DEF Release
      <3> QED BY <3>1, <3>2
    <2> QED BY <2>1, <2>2 DEF Turn
  <1>3. ASSUME pc[w] = "claim", NEW e \in cand[w], ClaimLease(e, w) PROVE Turn(w) /\ RowsTurn
    <2>1. RowsTurn
      BY <1>0, <1>3, RewriteTurn
    <2>2. /\ e \in Event /\ e.id \in Ids /\ rows' = [rows EXCEPT ![e.id] = withOutboxLease(e, w)]
          /\ lapsed' = lapsed \ {e.id} /\ ~isOutboxLeaseActive(e.id)
      BY <1>0, <1>3 DEF ClaimLease, Claimable, Event
    <2>3. rows'[e.id].token = w
      BY <1>0, <2>2, LeaseType DEF OutboxTypeOK
    <2>4. ASSUME NEW v \in Workers \ {w}, Holding(v) PROVE e.id # job[v].rep.id
      <3>1. OptimisticLock /\ pc[v] # "ackRepair"
        BY <2>4 DEF Undivided, CountInv, Named
      <3> QED BY <2>4, <3>1 DEF CountInv, Standing
    <2>5. \A i \in Ids : i # e.id => rows'[i] = rows[i] /\ (i \in lapsed' <=> i \in lapsed)
      BY <1>0, <2>2 DEF OutboxTypeOK
    <2> QED BY <2>1, <2>2, <2>3, <2>4, <2>5 DEF Turn
  <1>4. ASSUME pc[w] = "await", RenewLease(job[w].ev) PROVE Turn(w) /\ RowsTurn
    <2>1. PICK e : e = job[w].ev
      OBVIOUS
    <2>2. e \in Event /\ e.token = w /\ e.id \in Ids
      BY <1>4, <2>1 DEF Inv, InvJob, CountInv, Named, AtWork, Reserved, HasRead, Guarded, Event
    <2>3. RowsTurn
      BY <1>0, <1>4, <2>1, <2>2, RewriteTurn
    <2>4. /\ rows[e.id] = e /\ rows'[e.id] = withOutboxLease(e, w) /\ lapsed' = lapsed
          /\ \A i \in Ids : i # e.id => rows'[i] = rows[i]
      BY <1>0, <1>4, <2>1, <2>2 DEF RenewLease, isLeaseCurrent, OutboxTypeOK
    <2>5. rows[e.id].token = w /\ rows'[e.id].token = w
      BY <2>2, <2>4, LeaseType
    <2> QED BY <2>3, <2>4, <2>5 DEF Turn
  <1>5. ASSUME NEW S \in SUBSET failed[w], Retry(S) \/ DeadLetter(S) PROVE Turn(w) /\ RowsTurn
    <2>1. RowsTurn
      BY <1>0, <1>5, RewriteTurn
    <2>2. ASSUME NEW i \in Ids
          PROVE  \/ rows'[i] = rows[i] /\ (i \in lapsed' <=> i \in lapsed)
                 \/ rows[i].token = w /\ rows'[i].token = NoToken
      <3> DEFINE hit == {f.id : f \in Settleable(S)}
      <3>1. CASE i \in hit
        <4>1. rows[i] \in failed[w] /\ rows[i] \in Event
          BY <1>0, <1>5, <3>1 DEF Settleable
        <4>2. rows[i].token = w
          BY <4>1 DEF CountInv, Named
        <4>3. rows'[i] = outboxRetryEvent(rows[i]) \/ rows'[i] = outboxDeadLetterEvent(rows[i])
          BY <1>5, <3>1 DEF Retry, DeadLetter
        <4>4. rows'[i].token = NoToken
          BY <4>1, <4>3 DEF outboxRetryEvent, outboxDeadLetterEvent, Event
        <4> QED BY <4>2, <4>4
      <3>2. CASE i \notin hit
        BY <1>5, <3>2 DEF Retry, DeadLetter
      <3> QED BY <3>1, <3>2
    <2> QED BY <2>1, <2>2 DEF Turn
  <1>6. ASSUME NEW S \in SUBSET Event, DeleteRows(S), \A e \in S : Ackable(e),
               \A e \in S : e.token = w \/ (pc[w] \in Guarded /\ e = job[w].rep)
        PROVE  Turn(w) /\ RowsTurn
    <2>1. RowsTurn
      BY <1>0, <1>6, RewriteTurn
    <2>2. ASSUME NEW i \in Ids
          PROVE  \/ rows'[i] = rows[i] /\ (i \in lapsed' <=> i \in lapsed)
                 \/ rows'[i] = NoRow /\ \E e \in S : i = e.id /\ rows[i] = e
      <3> DEFINE gone == {e.id : e \in S}
      <3>1. CASE i \in gone
        BY <1>6, <3>1 DEF DeleteRows, Ackable, isLeaseCurrent
      <3>2. CASE i \notin gone
        BY <1>6, <3>2 DEF DeleteRows
      <3> QED BY <3>1, <3>2
    <2>3. ASSUME NEW i \in Ids, NEW e \in S, i = e.id, rows[i] = e
          PROVE  \/ rows[i].token = w
                 \/ pc[w] \in Guarded /\ i = job[w].rep.id /\ rows[i] = job[w].rep
      BY <1>6, <2>3
    <2> QED BY <2>1, <2>2, <2>3 DEF Turn
  <1> QED BY <1>1, <1>2, <1>3, <1>4, <1>5, <1>6

\* A worker that is at no delivery after its step, and has paid for the guard it held.
LEMMA NoDelivery ==
    ASSUME Inv, CountInv, NEW w \in Workers, Turn(w), RowsTurn, Others(w), pc'[w] \notin AtWork,
           \A e \in batch'[w] \cup failed'[w] : e.token = w,
           cand'[w] \subseteq cand[w] \/ cand'[w] = LeaseCandidates,
           \/ faults' = faults + 1
           \/ faults' = faults /\ (Holding(w) => rows'[job[w].rep.id] = NoRow)
    PROVE  CountInv'
  <1>1. pc'[w] \notin Guarded /\ ~Holding(w)' /\ ~Indebted(w)'
    BY DEF Holding, Indebted, AtWork, Reserved, HasRead
  <1>2. Named(w)'
    BY <1>1 DEF Named, AtWork, Reserved, HasRead, Guarded
  <1> QED BY <1>1, <1>2, Accounted

\* A delivery goes on, before it has its guard or between guard and acknowledgement.
LEMMA DeliveryGoesOn ==
    ASSUME Inv, CountInv, Undivided, NEW w \in Workers, UNCHANGED <<rows, lapsed>>, Others(w),
           pc[w] \in AtWork \ {"ackRepair"}, pc'[w] \in AtWork \ {"ackRepair"},
           pc[w] \in Guarded <=> pc'[w] \in Guarded,
           pc'[w] = "lost" => ~isLeaseCurrent(job[w].ev),
           job'[w].ev = job[w].ev, job'[w].rep = job[w].rep, batch'[w] = batch[w],
           failed'[w] = failed[w], cand'[w] = cand[w], faults' = faults \/ faults' = faults + 1
    PROVE  CountInv'
  <1>1. isLeaseCurrent(job[w].ev)' <=> isLeaseCurrent(job[w].ev)
    BY DEF isLeaseCurrent, isOutboxLeaseActive, IsRow
  <1>2. (Holding(w)' <=> Holding(w)) /\ (Indebted(w)' <=> Indebted(w))
    BY <1>1 DEF Holding, Indebted
  <1>3. Named(w)'
    BY <1>1 DEF CountInv, Named
  <1>4. Turn(w) /\ RowsTurn
    BY OwnTurn
  <1> QED BY <1>2, <1>3, <1>4, Accounted

\* Scanning, claiming, and the end of the batch.
LEMMA CountBatch ==
    ASSUME Inv, CountInv, Undivided, NEW w \in Workers, Others(w),
           \/ ScanOutbox(w) \/ ClaimsDone(w) \/ BatchDone(w)
           \/ \E e \in cand[w] : ClaimCandidate(w, e)
           \/ \E b \in BOOLEAN : ClaimFails(w, b)
    PROVE  CountInv'
  <1>0. /\ Named(w) /\ pc \in [Workers -> Pcs] /\ batch \in [Workers -> SUBSET Event]
        /\ cand \in [Workers -> SUBSET Event]
    BY DEF Inv, TypeOK, CountInv
  <1>1. ASSUME ScanOutbox(w) \/ ClaimsDone(w) \/ BatchDone(w) PROVE CountInv'
    <2>1. /\ pc[w] \in {"idle", "claim", "event"} /\ pc'[w] \in {"idle", "claim", "event", "settle"}
          /\ UNCHANGED <<rows, lapsed, batch, failed, faults>>
          /\ cand'[w] \subseteq cand[w] \/ cand'[w] = LeaseCandidates
      BY <1>0, <1>1 DEF ScanOutbox, ClaimsDone, BatchDone, Goto, outboxVars
    <2>2. Turn(w) /\ RowsTurn
      BY <2>1, OwnTurn
    <2>3. pc'[w] \notin AtWork /\ ~Holding(w)
      BY <2>1 DEF Holding, AtWork, Reserved, HasRead, Guarded
    <2>4. \A e \in batch'[w] \cup failed'[w] : e.token = w
      BY <1>0, <2>1 DEF Named
    <2> QED BY <2>1, <2>2, <2>3, <2>4, NoDelivery
  <1>2. ASSUME NEW e \in cand[w], ClaimCandidate(w, e) PROVE CountInv'
    <2>1. /\ pc[w] = "claim" /\ pc'[w] = "claim" /\ UNCHANGED <<failed, faults>> /\ e \in Event
          /\ cand'[w] \subseteq cand[w]
      BY <1>0, <1>2 DEF ClaimCandidate
    <2>2. Turn(w) /\ RowsTurn
      <3>1. ClaimLease(e, w) \/ UNCHANGED <<rows, lapsed>>
        BY <1>2 DEF ClaimCandidate, outboxVars
      <3> QED BY <2>1, <3>1, OwnTurn
    <2>3. withOutboxLease(e, w).token = w
      BY <2>1, LeaseType
    <2>4. \A f \in batch'[w] : f \in batch[w] \/ f = withOutboxLease(e, w)
      BY <1>0, <1>2 DEF ClaimCandidate
    <2>5. \A f \in batch'[w] \cup failed'[w] : f.token = w
      BY <1>0, <2>1, <2>3, <2>4 DEF Named
    <2>6. pc'[w] \notin AtWork /\ ~Holding(w)
      BY <2>1 DEF Holding, AtWork, Reserved, HasRead, Guarded
    <2> QED BY <2>1, <2>2, <2>5, <2>6, NoDelivery
  <1>3. ASSUME NEW b \in BOOLEAN, ClaimFails(w, b) PROVE CountInv'
    <2>1. /\ pc'[w] = "idle" /\ faults' = faults + 1 /\ batch'[w] = {} /\ cand'[w] = {}
          /\ failed' = failed
      BY <1>0, <1>3 DEF ClaimFails, Goto, Fault
    <2>2. Turn(w) /\ RowsTurn
      <3>1. Release(batch[w], w) \/ UNCHANGED <<rows, lapsed>>
        BY <1>3 DEF ClaimFails, outboxVars
      <3> QED BY <3>1, OwnTurn
    <2>3. pc'[w] \notin AtWork /\ \A e \in batch'[w] \cup failed'[w] : e.token = w
      BY <1>0, <2>1 DEF AtWork, Reserved, HasRead, Guarded, Named
    <2> QED BY <2>1, <2>2, <2>3, NoDelivery
  <1> QED BY <1>1, <1>2, <1>3

\* The next event of the batch: its lease is still the worker's, or it is let go.
LEMMA CountNext ==
    ASSUME Inv, CountInv, Undivided, NEW w \in Workers, Others(w),
           NEW e \in batch[w], NextEvent(w, e)
    PROVE  CountInv'
  <1>0. /\ Named(w) /\ pc \in [Workers -> Pcs] /\ batch \in [Workers -> SUBSET Event]
        /\ job \in [Workers -> Job] /\ pc[w] = "event"
    BY DEF Inv, TypeOK, CountInv, NextEvent
  <1>1. /\ batch'[w] \subseteq batch[w] /\ failed' = failed /\ cand' = cand /\ e.token = w
        /\ ~Holding(w) /\ ~Indebted(w)
    BY <1>0 DEF NextEvent, Named, Holding, Indebted, AtWork, Reserved, HasRead, Guarded
  <1>2. \A f \in batch'[w] \cup failed'[w] : f.token = w
    BY <1>0, <1>1 DEF Named
  <1>3. CASE isLeaseCurrent(e)
    <2>1. /\ pc'[w] = "reserve" /\ job'[w].ev = e /\ UNCHANGED <<rows, lapsed, faults>>
      BY <1>0, <1>3 DEF NextEvent, Goto, outboxVars, NoJob
    <2>2. Turn(w) /\ RowsTurn
      BY <2>1, OwnTurn
    <2>3. isLeaseCurrent(job[w].ev)'
      BY <1>3, <2>1 DEF isLeaseCurrent, isOutboxLeaseActive, IsRow
    <2>4. Named(w)' /\ ~Holding(w)' /\ ~Indebted(w)' /\ pc'[w] \notin Guarded
      BY <1>1, <1>2, <2>1, <2>3 DEF Named, Holding, Indebted, Guarded
    <2> QED BY <1>1, <2>1, <2>2, <2>4, Accounted
  <1>4. CASE ~isLeaseCurrent(e)
    <2>1. pc'[w] = "event" /\ Relinquish(w, e)
      BY <1>0, <1>4 DEF NextEvent
    <2>2. faults' = faults \/ faults' = faults + 1
      BY <2>1 DEF Relinquish, Fault
    <2>3. Turn(w) /\ RowsTurn
      <3>1. Release({e}, w) \/ UNCHANGED <<rows, lapsed>>
        BY <2>1 DEF Relinquish, outboxVars
      <3> QED BY <3>1, OwnTurn
    <2>4. pc'[w] \notin AtWork
      BY <2>1 DEF AtWork, Reserved, HasRead, Guarded
    <2> QED BY <1>1, <1>2, <2>2, <2>3, <2>4, NoDelivery
  <1> QED BY <1>3, <1>4

\* The failures of the batch are settled, or settling throws.
LEMMA CountSettle ==
    ASSUME Inv, CountInv, Undivided, NEW w \in Workers, Others(w),
           NEW G \in SUBSET failed[w], NEW b \in BOOLEAN,
           Settle(w, G) \/ SinkAcknowledge(w, G) \/ SettleThrows(w, G, b)
    PROVE  CountInv'
  <1>0. /\ Named(w) /\ pc \in [Workers -> Pcs] /\ failed \in [Workers -> SUBSET Event]
    BY DEF Inv, TypeOK, CountInv
  <1>1. /\ pc[w] \in {"settle", "sinkAck"} /\ pc'[w] \in {"settle", "sinkAck", "idle"}
        /\ UNCHANGED <<batch, cand>> /\ failed'[w] \subseteq failed[w]
    BY <1>0 DEF Settle, SinkAcknowledge, SettleThrows, SettleRest, Goto
  <1>2. faults' = faults \/ faults' = faults + 1
    BY DEF Settle, SinkAcknowledge, SettleThrows, Fault
  <1>3. \A e \in G : e \in Event /\ e.token = w
    BY <1>0 DEF Named
  <1>4. \/ UNCHANGED <<rows, lapsed>> \/ Release(G, w) \/ Retry(G) \/ DeadLetter(G)
        \/ DeleteRows(G) /\ \A e \in G : Ackable(e)
    BY DEF Settle, SinkAcknowledge, SettleThrows, outboxVars
  <1>5. Turn(w) /\ RowsTurn
    BY <1>3, <1>4, OwnTurn
  <1>6. pc'[w] \notin AtWork /\ ~Holding(w)
    BY <1>1 DEF Holding, AtWork, Reserved, HasRead, Guarded
  <1>7. \A e \in batch'[w] \cup failed'[w] : e.token = w
    BY <1>0, <1>1 DEF Named
  <1> QED BY <1>1, <1>2, <1>5, <1>6, <1>7, NoDelivery

\* A delivery moves on before its guard is there, or between guard and acknowledgement.
LEMMA CountMoves ==
    ASSUME Inv, CountInv, Undivided, NEW w \in Workers, Others(w),
           \/ ReserveRevision(w) \/ CasRevision(w) \/ RevalidateLease(w) \/ ReadEntity(w)
           \/ StartMutation(w) \/ RenewLost(w) \/ MutationDone(w)
           \/ ReleaseThrows(w) \/ BeforeIndexThrows(w)
    PROVE  CountInv'
  <1>0. pc \in [Workers -> Pcs] /\ job \in [Workers -> Job]
    BY DEF Inv, TypeOK
  <1>1. UNCHANGED <<rows, lapsed, batch, failed, cand>>
    BY DEF ReserveRevision, CasRevision, RevalidateLease, ReadEntity, StartMutation, RenewLost,
           MutationDone, ReleaseThrows, BeforeIndexThrows, BumpRevision, outboxVars
  <1>2. faults' = faults \/ faults' = faults + 1
    BY DEF ReserveRevision, CasRevision, RevalidateLease, ReadEntity, StartMutation, RenewLost,
           MutationDone, ReleaseThrows, BeforeIndexThrows, Fault
  <1>3. job'[w].ev = job[w].ev /\ job'[w].rep = job[w].rep
    BY <1>0 DEF ReserveRevision, CasRevision, RevalidateLease, ReadEntity, StartMutation, RenewLost,
           MutationDone, ReleaseThrows, BeforeIndexThrows, Job
  <1>4. \/ pc[w] = "reserve" /\ pc'[w] \in {"bump", "read"}
        \/ pc[w] = "bump" /\ pc'[w] = "revalidate"
        \/ pc[w] = "revalidate" /\ pc'[w] = "read"
        \/ pc[w] = "read" /\ pc'[w] = "repair"
        \/ pc[w] = "before" /\ pc'[w] \in {"await", "discard", "cleanup"}
        \/ pc[w] = "await" /\ pc'[w] = "lost" /\ ~isLeaseCurrent(job[w].ev)
        \/ pc[w] = "await" /\ pc'[w] = "ack"
    BY <1>0 DEF ReserveRevision, CasRevision, RevalidateLease, ReadEntity, StartMutation, RenewLost,
           MutationDone, ReleaseThrows, BeforeIndexThrows, Goto
  <1>5. /\ pc[w] \in AtWork \ {"ackRepair"} /\ pc'[w] \in AtWork \ {"ackRepair"}
        /\ (pc[w] \in Guarded <=> pc'[w] \in Guarded)
        /\ pc'[w] = "lost" => ~isLeaseCurrent(job[w].ev)
    BY <1>4 DEF AtWork, Reserved, HasRead, Guarded
  <1> QED BY <1>1, <1>2, <1>3, <1>5, DeliveryGoesOn

\* A delivery ends without an acknowledgement: before it had a guard, with a fault, or
\* with its lease lost, which a fault has paid for.
LEMMA CountEnds ==
    ASSUME Inv, CountInv, Undivided, NEW w \in Workers, Others(w),
           \/ CasConflict(w) \/ ReservationRefused(w) \/ StoreThrows(w) \/ LeaseGone(w)
           \/ MutationDoneLost(w) \/ Crash(w) \/ \E b \in BOOLEAN : MutationRejected(w, b)
    PROVE  CountInv'
  <1>0. /\ Named(w) /\ pc \in [Workers -> Pcs] /\ batch \in [Workers -> SUBSET Event]
        /\ cand \in [Workers -> SUBSET Event] /\ failed \in [Workers -> SUBSET Event]
    BY DEF Inv, TypeOK, CountInv
  <1>1. /\ pc'[w] \in {"event", "idle"} /\ batch'[w] \subseteq batch[w] /\ cand'[w] \subseteq cand[w]
        /\ \/ failed'[w] \subseteq failed[w]
           \/ pc[w] \in AtWork /\ failed'[w] = failed[w] \cup {job[w].ev}
    BY <1>0 DEF CasConflict, ReservationRefused, StoreThrows, LeaseGone, MutationDoneLost, Crash,
       MutationRejected, LostLease, EndEvent, FailEvent, Goto, AtWork, Reserved, HasRead, Guarded
  <1>2. pc'[w] \notin AtWork /\ \A e \in batch'[w] \cup failed'[w] : e.token = w
    BY <1>0, <1>1 DEF AtWork, Reserved, HasRead, Guarded, Named
  <1>3. faults' = faults \/ faults' = faults + 1
    BY DEF CasConflict, ReservationRefused, StoreThrows, LeaseGone, MutationDoneLost, Crash,
           MutationRejected, LostLease, Relinquish, Fault
  <1>4. UNCHANGED <<rows, lapsed>> \/ Release({job[w].ev}, w)
    BY DEF CasConflict, ReservationRefused, StoreThrows, LeaseGone, MutationDoneLost, Crash,
           MutationRejected, LostLease, Relinquish, outboxVars
  <1>5. Turn(w) /\ RowsTurn
    BY <1>4, OwnTurn
  <1>6. ~Holding(w) \/ faults' = faults + 1
    <2>1. CASE CasConflict(w) \/ ReservationRefused(w) \/ StoreThrows(w)
      BY <2>1 DEF CasConflict, ReservationRefused, StoreThrows, Holding, Guarded
    <2>2. CASE LeaseGone(w)
      BY <2>2 DEF LeaseGone, LostLease, Holding
    <2>3. CASE MutationDoneLost(w)
      BY <1>0, <2>3 DEF MutationDoneLost, Named, Holding
    <2>4. CASE Crash(w) \/ \E b \in BOOLEAN : MutationRejected(w, b)
      BY <2>4 DEF Crash, MutationRejected, Fault
    <2> QED BY <2>1, <2>2, <2>3, <2>4
  <1> QED BY <1>1, <1>2, <1>3, <1>5, <1>6, NoDelivery

\* The guard is acknowledged: with the event, after it, or because nothing was sent.
LEMMA CountAcknowledged ==
    ASSUME Inv, CountInv, Undivided, NEW w \in Workers, Others(w),
           \/ CleanupRepair(w) \/ Acknowledge(w) \/ AcknowledgeRepair(w)
           \/ \E b \in BOOLEAN : AcknowledgeThrows(w, b)
    PROVE  CountInv'
  <1>0. /\ Named(w) /\ pc \in [Workers -> Pcs] /\ failed \in [Workers -> SUBSET Event]
        /\ job \in [Workers -> Job] /\ OutboxTypeOK
    BY DEF Inv, TypeOK, CountInv
  <1> DEFINE j == job[w]
  <1>1. pc[w] \in {"cleanup", "discard", "ack", "ackRepair"} /\ pc[w] \in Guarded /\ pc[w] \in AtWork
    BY DEF CleanupRepair, Acknowledge, AcknowledgeRepair, AcknowledgeThrows, Guarded, AtWork,
           Reserved, HasRead
  <1>2. /\ j.ev \in Event /\ j.rep \in Event /\ j.ev.token = w /\ w # NoToken
        /\ j.rep.token = NoToken /\ j.rep.id \in Ids /\ j.ev.id \in Ids
        /\ Ackable(j.ev) <=> isLeaseCurrent(j.ev)
        /\ Holding(w) => Standing(w) /\ Ackable(j.rep)
    BY <1>0, <1>1, OutboxAssumption DEF Inv, InvJob, CountInv, Named, Standing, Ackable, Event
  <1>3. UNCHANGED <<batch, cand>> /\ (faults' = faults \/ faults' = faults + 1)
    BY DEF CleanupRepair, Acknowledge, AcknowledgeRepair, AcknowledgeThrows, Fault
  <1>4. \A e \in failed'[w] : e \in failed[w] \/ e = j.ev
    BY <1>0 DEF CleanupRepair, Acknowledge, AcknowledgeRepair, AcknowledgeThrows, EndEvent,
       FailEvent
  <1>5. \A e \in batch'[w] \cup failed'[w] : e.token = w
    BY <1>0, <1>2, <1>3, <1>4 DEF Named
  <1>6. \/ UNCHANGED <<rows, lapsed>>
        \/ \E S \in SUBSET {j.ev, j.rep} : DeleteRows(S) /\ \A e \in S : Ackable(e)
    BY DEF CleanupRepair, Acknowledge, AcknowledgeRepair, AcknowledgeThrows, outboxVars
  <1>7. Turn(w) /\ RowsTurn
    BY <1>1, <1>2, <1>6, OwnTurn
  <1>8. \A S : DeleteRows(S) /\ j.rep \in S => rows'[j.rep.id] = NoRow
    BY <1>2 DEF DeleteRows
  <1>9. CASE ~(Acknowledge(w) /\ ~OptimisticLock /\ Ackable(j.ev))
    <2>1. pc'[w] \notin AtWork
      BY <1>0, <1>9 DEF CleanupRepair, Acknowledge, AcknowledgeRepair, AcknowledgeThrows, FailEvent,
         EndEvent, Goto, AtWork, Reserved, HasRead, Guarded
    <2>2. Holding(w) => rows'[j.rep.id] = NoRow \/ faults' = faults + 1
      <3>1. CASE CleanupRepair(w)
        BY <1>2, <1>8, <3>1 DEF CleanupRepair, Fault
      <3>2. CASE AcknowledgeRepair(w)
        BY <1>2, <1>8, <3>2 DEF AcknowledgeRepair
      <3>3. CASE \E b \in BOOLEAN : AcknowledgeThrows(w, b)
        BY <3>3 DEF AcknowledgeThrows, Fault
      <3>4. CASE Acknowledge(w)
        BY <1>2, <1>8, <1>9, <3>4 DEF Acknowledge, Holding
      <3> QED BY <3>1, <3>2, <3>3, <3>4
    <2> QED BY <1>3, <1>5, <1>7, <2>1, <2>2, NoDelivery
  <1>10. CASE Acknowledge(w) /\ ~OptimisticLock /\ Ackable(j.ev)
    <2>0. /\ pc[w] = "ack" /\ DeleteRows({j.ev}) /\ Goto(w, "ackRepair")
          /\ UNCHANGED <<job, failed, faults>>
      BY <1>10 DEF Acknowledge
    <2>1. pc'[w] = "ackRepair" /\ pc'[w] \in Guarded /\ Holding(w) /\ Holding(w)' /\ ~Indebted(w)'
      BY <1>0, <1>2, <1>10, <2>0 DEF Goto, Holding, Indebted, Guarded
    <2>2. rows'[j.rep.id] = rows[j.rep.id]
      <3>1. j.rep.id # j.ev.id
        BY <1>2, <2>1 DEF Standing, Event, Ids
      <3> QED BY <1>2, <2>0, <3>1 DEF DeleteRows
    <2>3. Named(w)'
      BY <1>2, <1>5, <1>10, <2>0, <2>1 DEF Named
    <2> QED BY <1>1, <1>3, <1>7, <2>0, <2>1, <2>2, <2>3, Accounted
  <1> QED BY <1>9, <1>10

\* A row is appended: nothing else moves.
LEMMA RowAppended ==
    ASSUME Inv, NEW d \in Docs, NEW c \in Ids, Append(d, c), NEW w
    PROVE  /\ nextId \in Ids /\ rows'[nextId] = NewEvent(d, c) /\ lapsed' = lapsed
           /\ \A i \in Ids : i # nextId => rows'[i] = rows[i]
           /\ Turn(w)
           /\ Repairs' \subseteq Repairs \cup {nextId}
           /\ c = nextId => Repairs' \subseteq Repairs
  <1>0. OutboxTypeOK
    BY DEF Inv, TypeOK
  <1>1. nextId \in Ids /\ rows'[nextId] = NewEvent(d, c) /\ rows'[nextId] # NoRow /\ ~IsRow(nextId)
    BY <1>0, AppendStep
  <1>2. \A i \in Ids : i # nextId => rows'[i] = rows[i]
    BY <1>0, <1>1 DEF Append, OutboxTypeOK
  <1>3. lapsed' = lapsed
    BY DEF Append
  <1>4. Repairs' \subseteq Repairs \cup {nextId}
    BY <1>2 DEF Repairs, IsRow
  <1>5. c = nextId => nextId \notin Repairs'
    BY <1>1 DEF Repairs, NewEvent
  <1>6. rows'[nextId].token = NoToken
    BY <1>1 DEF NewEvent
  <1>7. Turn(w)
    BY <1>1, <1>2, <1>3, <1>6 DEF Turn
  <1> QED BY <1>1, <1>2, <1>3, <1>4, <1>5, <1>7

\* The guard is appended, and becomes the delivery's; or its answer is lost, a fault.
LEMMA CountAppended ==
    ASSUME Inv, CountInv, NEW w \in Workers, Others(w), AppendRepair(w) \/ AppendRepairThrows(w)
    PROVE  CountInv'
  <1>0. /\ Named(w) /\ pc \in [Workers -> Pcs] /\ job \in [Workers -> Job] /\ nextId \in Nat
        /\ batch \in [Workers -> SUBSET Event] /\ failed \in [Workers -> SUBSET Event]
        /\ faults \in Nat /\ Cardinality(Surplus) + Cardinality(Debtors) <= faults
        /\ IsFiniteSet(Debtors)
    BY DEF Inv, TypeOK, CountInv, OutboxTypeOK
  <1>1. /\ pc[w] = "repair" /\ Append(job[w].ev.doc, job[w].ev.created)
        /\ batch' = batch /\ cand' = cand /\ ~Holding(w)
    BY DEF AppendRepair, AppendRepairThrows, Holding, Guarded
  <1>2. /\ job[w].ev \in Event /\ job[w].ev.id < nextId /\ job[w].ev.token = w
    BY <1>0, <1>1 DEF Inv, InvJob, AtWork, Reserved, HasRead, Known, Named
  <1>3. /\ job[w].ev.doc \in Docs /\ job[w].ev.created \in Ids
        /\ job[w].ev.id \in Ids /\ job[w].ev.id # nextId
    BY <1>0, <1>2 DEF Event, Ids
  <1>4. /\ nextId \in Ids /\ rows'[nextId] = NewEvent(job[w].ev.doc, job[w].ev.created)
        /\ lapsed' = lapsed /\ \A i \in Ids : i # nextId => rows'[i] = rows[i]
        /\ Turn(w) /\ Repairs' \subseteq Repairs \cup {nextId}
    BY <1>1, <1>3, RowAppended
  <1>5. \A v \in Workers \ {w} : Named(v)' /\ (Holding(v)' => Standing(v)')
    BY <1>1, <1>4, OthersStand
  <1>6. \A v \in Workers \ {w} : pc'[v] = pc[v] /\ job'[v] = job[v]
    BY DEF Others
  <1>7. /\ Surplus' \subseteq Surplus \cup {nextId}
        /\ \A k \in Surplus' : Holding(w)' => k # job'[w].rep.id
        /\ Debtors' \subseteq Debtors \cup {w}
        /\ (Indebted(w)' => Indebted(w)) => Debtors' \subseteq Debtors
    BY <1>1, <1>4, <1>6, SurplusMoves
  <1> DEFINE S == Surplus
             D == Debtors
             T == Surplus'
             E == Debtors'
             i == nextId
             g == faults'
  <1>8. CASE AppendRepair(w)
    <2>1. PICK r : r = NewEvent(job[w].ev.doc, job[w].ev.created)
      OBVIOUS
    <2>2. /\ r.id = nextId /\ r.token = NoToken /\ r.doc = job[w].ev.doc
          /\ r.created = job[w].ev.created
      BY <2>1 DEF NewEvent
    <2>3. /\ job'[w].rep = r /\ job'[w].ev = job[w].ev /\ pc'[w] = "before"
          /\ UNCHANGED <<failed, faults>>
      BY <1>0, <1>8, <2>1 DEF AppendRepair, Goto, Job
    <2>4. Named(w)'
      BY <1>0, <1>1, <1>2, <2>2, <2>3 DEF Named
    <2>5. Standing(w)'
      <3>1. \A v \in Workers : \A e \in cand[v] : e.id # nextId
        BY <1>0 DEF Inv, InvSnapshots, Known, TypeOK, Event, Ids
      <3>2. nextId > job[w].ev.id
        BY <1>0, <1>2, <1>3 DEF Ids
      <3> QED BY <1>1, <1>4, <2>1, <2>2, <2>3, <3>1, <3>2 DEF Standing
    <2>6. \A v \in Workers \ {w} : pc[v] \in Guarded => job[v].rep.id # nextId
      BY <1>0 DEF Inv, InvJob, Event, Ids
    <2>7. \A v, u \in Workers : v # u /\ pc'[v] \in Guarded /\ pc'[u] \in Guarded
                                   => job'[v].rep.id # job'[u].rep.id
      BY <1>6, <2>2, <2>3, <2>6 DEF CountInv
    <2>8. (Holding(w)' <=> ~Indebted(w)) /\ ~Indebted(w)'
      BY <1>1, <1>3, <1>4, <2>3 DEF Holding, Indebted, isLeaseCurrent, isOutboxLeaseActive, IsRow,
         Guarded, AtWork, Reserved, HasRead
    <2>9. /\ g = faults
          /\ \/ T \subseteq S /\ E \subseteq D
             \/ T \subseteq S \cup {i} /\ w \in D /\ E \subseteq D \ {w}
      BY <1>7, <2>2, <2>3, <2>8 DEF Debtors
    <2> HIDE DEF S, D, T, E, i, g
    <2>10. IsFiniteSet(S) /\ IsFiniteSet(D) /\ Cardinality(S) + Cardinality(D) <= faults
      BY <1>0, SurplusFinite DEF S, D
    <2>11. IsFiniteSet(E) /\ Cardinality(T) + Cardinality(E) <= g
      <3>1. g \in Nat /\ g >= faults
        BY <1>0, <2>9
      <3> QED BY <1>0, <2>9, <2>10, <3>1, Balance
    <2> QED BY <1>5, <2>4, <2>5, <2>7, <2>11 DEF CountInv, T, E, g
  <1>9. CASE AppendRepairThrows(w)
    <2>1. pc'[w] = "event" /\ faults' = faults + 1 /\ failed'[w] = failed[w] \cup {job[w].ev}
      BY <1>0, <1>9 DEF AppendRepairThrows, Fault, FailEvent, Goto
    <2>2. Named(w)' /\ ~Indebted(w)' /\ ~Holding(w)'
      BY <1>0, <1>1, <1>2, <2>1 DEF Named, Indebted, Holding, AtWork, Reserved, HasRead, Guarded
    <2>3. \A v, u \in Workers : v # u /\ pc'[v] \in Guarded /\ pc'[u] \in Guarded
                                   => job'[v].rep.id # job'[u].rep.id
      BY <1>6, <2>1 DEF CountInv, Guarded
    <2>4. T \subseteq S \cup {i} /\ E \subseteq D /\ g = faults + 1
      BY <1>7, <2>1, <2>2
    <2> HIDE DEF S, D, T, E, i, g
    <2>5. IsFiniteSet(S) /\ IsFiniteSet(D) /\ Cardinality(S) + Cardinality(D) <= faults
      BY <1>0, SurplusFinite DEF S, D
    <2>6. IsFiniteSet(E) /\ Cardinality(T) + Cardinality(E) <= g
      <3>1. g \in Nat
        BY <1>0, <2>4
      <3>2. \/ T \subseteq S \cup {i} /\ E \subseteq D /\ g = faults + 1
            \/ T \subseteq S /\ E \subseteq D /\ g >= faults
        BY <2>4
      <3> QED BY <1>0, <2>5, <3>1, <3>2, Balance
    <2> QED BY <1>5, <2>2, <2>3, <2>6 DEF CountInv, T, E, g
  <1> QED BY <1>8, <1>9

\* The lease is renewed, and its answer may be lost.
LEMMA CountRenewed ==
    ASSUME Inv, CountInv, Undivided, NEW w \in Workers, Others(w), Renew(w) \/ RenewThrows(w)
    PROVE  CountInv'
  <1>0. /\ Named(w) /\ pc \in [Workers -> Pcs] /\ job \in [Workers -> Job] /\ OutboxTypeOK
    BY DEF Inv, TypeOK, CountInv
  <1>1. /\ pc[w] = "await" /\ RenewLease(job[w].ev) /\ UNCHANGED <<batch, cand, failed>>
        /\ pc[w] \in Guarded \ {"ackRepair"} /\ pc[w] \in AtWork
    BY DEF Renew, RenewThrows, Guarded, AtWork, Reserved, HasRead
  <1>2. PICK e : e = job[w].ev
    OBVIOUS
  <1>3. PICK f : f = withOutboxLease(e, w)
    OBVIOUS
  <1>4. /\ e \in Event /\ e.id \in Ids /\ e.token = w /\ isLeaseCurrent(e)
        /\ job[w].rep \in Event /\ job[w].rep.id \in Ids
    BY <1>0, <1>1, <1>2 DEF Inv, InvJob, Named, Event, RenewLease
  <1>5. Holding(w) /\ job[w].rep.id # e.id
    BY <1>1, <1>2, <1>4 DEF Holding, CountInv, Standing, Event, Ids
  <1>6. /\ f \in Event /\ f.id = e.id /\ f.doc = e.doc /\ f.created = e.created /\ f.token = w
        /\ f.version = e.version + 1 /\ e.version \in Nat
    BY <1>3, <1>4, LeaseType DEF withOutboxLease, Event
  <1>7. /\ e.id \notin lapsed /\ lapsed' = lapsed
        /\ rows'[e.id] = f /\ \A i \in Ids : i # e.id => rows'[i] = rows[i]
    BY <1>0, <1>1, <1>2, <1>3, <1>4 DEF RenewLease, isLeaseCurrent, isOutboxLeaseActive, OutboxTypeOK
  <1>8. Turn(w) /\ RowsTurn
    BY <1>1, OwnTurn
  <1>9. rows'[job[w].rep.id] = rows[job[w].rep.id] /\ ~Indebted(w)'
    <2>1. pc'[w] \in Guarded
      BY <1>0, <1>1 DEF Renew, RenewThrows, Goto, Guarded
    <2> QED BY <1>4, <1>5, <1>7, <2>1 DEF Indebted
  <1>10. CASE Renew(w)
    <2>1. job'[w].ev = f /\ job'[w].rep = job[w].rep /\ pc'[w] = "await" /\ faults' = faults
      BY <1>0, <1>1, <1>2, <1>3, <1>10 DEF Renew, Job
    <2>2. isLeaseCurrent(job[w].ev)'
      BY <1>4, <1>6, <1>7, <2>1, OutboxAssumption DEF isLeaseCurrent, isOutboxLeaseActive, IsRow
    <2>3. Named(w)' /\ Holding(w)'
      BY <1>0, <1>1, <1>6, <2>1, <2>2 DEF Named, Holding
    <2> QED BY <1>1, <1>2, <1>5, <1>6, <1>8, <1>9, <2>1, <2>3, Accounted
  <1>11. CASE RenewThrows(w)
    <2>1. job' = job /\ pc'[w] = "lost" /\ faults' = faults + 1
      BY <1>0, <1>11 DEF RenewThrows, Goto, Fault
    <2>2. ~isLeaseCurrent(job[w].ev)'
      BY <1>2, <1>6, <1>7, <2>1 DEF isLeaseCurrent
    <2>3. Named(w)' /\ ~Holding(w)'
      BY <1>0, <1>1, <2>1, <2>2 DEF Named, Holding
    <2> QED BY <1>1, <1>8, <1>9, <2>1, <2>3, Accounted
  <1> QED BY <1>10, <1>11

----------------------------------------------------------------------------
(* The environment's steps, and the theorem. *)

\* A lease that lapses under a delivery is a fault: it pays for the guard, or for the
\* debt of a delivery that has none yet.
LEMMA CountLapses ==
    ASSUME Inv, CountInv, NEW i \in Ids, LeaseLapses(i)
    PROVE  CountInv'
  <1>0. /\ faults \in Nat /\ IsFiniteSet(Debtors) /\ IsFiniteSet(Surplus)
        /\ Cardinality(Surplus) + Cardinality(Debtors) <= faults
    BY SurplusFinite DEF CountInv, Inv, TypeOK
  <1>1. /\ UNCHANGED <<rows, pc, job, batch, failed, cand>> /\ lapsed' = lapsed \cup {i}
        /\ IF Held(i) THEN Fault ELSE UNCHANGED faults
    BY DEF LeaseLapses, LapseLease, localVars
  <1>2. \A v \in Workers : isLeaseCurrent(job[v].ev)' => isLeaseCurrent(job[v].ev)
    BY <1>1 DEF isLeaseCurrent, isOutboxLeaseActive, IsRow
  <1>3. \A v \in Workers : Named(v)' /\ (Holding(v)' => Standing(v)')
    BY <1>1, <1>2 DEF CountInv, Named, Holding, Standing
  <1>4. ASSUME NEW v \in Workers, pc[v] \in AtWork,
               isLeaseCurrent(job[v].ev), ~isLeaseCurrent(job[v].ev)'
        PROVE  rows[i].token = v /\ faults' = faults + 1
    <2>1. job[v].ev \in Event /\ job[v].ev.token = v /\ rows[job[v].ev.id] = job[v].ev
      BY <1>4 DEF Inv, InvJob, CountInv, Named, isLeaseCurrent
    <2>2. job[v].ev.id = i
      BY <1>1, <1>4 DEF isLeaseCurrent, isOutboxLeaseActive, IsRow
    <2>3. Held(i) /\ rows[i].token = v
      BY <2>1, <2>2, OutboxAssumption DEF Held
    <2> QED BY <1>1, <2>3 DEF Fault
  <1> DEFINE S == Surplus
             D == Debtors
             T == Surplus'
             E == Debtors'
             g == faults'
  <1>5. ASSUME NEW f, NEW u, g \in Nat,
               \/ T \subseteq S /\ E \subseteq D /\ g >= faults
               \/ T \subseteq S \cup {f} /\ E \subseteq D /\ g = faults + 1
               \/ T \subseteq S /\ E \subseteq D \cup {u} /\ g = faults + 1
        PROVE  CountInv'
    <2> HIDE DEF S, D, T, E, g
    <2>1. IsFiniteSet(S) /\ IsFiniteSet(D) /\ Cardinality(S) + Cardinality(D) <= faults
      BY <1>0 DEF S, D
    <2>2. IsFiniteSet(E) /\ Cardinality(T) + Cardinality(E) <= g
      BY <1>0, <1>5, <2>1, Balance
    <2>3. \A v, w \in Workers : v # w /\ pc'[v] \in Guarded /\ pc'[w] \in Guarded
                                   => job'[v].rep.id # job'[w].rep.id
      BY <1>1 DEF CountInv
    <2> QED BY <1>3, <2>2, <2>3 DEF CountInv, T, E, g
  <1>6. g \in Nat /\ g >= faults
    BY <1>0, <1>1 DEF Fault
  <1>7. Repairs' = Repairs
    BY <1>1 DEF Repairs, IsRow
  <1>8. CASE \A v \in Workers : pc[v] \in AtWork /\ isLeaseCurrent(job[v].ev)
                                   => isLeaseCurrent(job[v].ev)'
    <2>1. \A v \in Workers : (Holding(v) => Holding(v)') /\ (Indebted(v)' => Indebted(v))
      BY <1>1, <1>8 DEF Holding, Indebted, AtWork, Reserved, HasRead
    <2>2. T \subseteq S
      BY <1>1, <1>7, <2>1 DEF Surplus
    <2>3. E \subseteq D
      BY <2>1 DEF Debtors
    <2> QED BY <1>5, <1>6, <2>2, <2>3
  <1>9. ASSUME NEW u \in Workers, pc[u] \in AtWork, isLeaseCurrent(job[u].ev),
               ~isLeaseCurrent(job[u].ev)'
        PROVE  CountInv'
    <2>1. g = faults + 1
      BY <1>4, <1>9
    <2>2. \A v \in Workers \ {u} : pc[v] \in AtWork =>
              (isLeaseCurrent(job[v].ev) => isLeaseCurrent(job[v].ev)')
      BY <1>4, <1>9
    <2>3. \A v \in Workers \ {u} : (Holding(v) => Holding(v)') /\ (Indebted(v)' => Indebted(v))
      BY <1>1, <2>2 DEF Holding, Indebted, AtWork, Reserved, HasRead
    <2>4. CASE pc[u] \in Guarded
      <3>1. T \subseteq S \cup {job[u].rep.id}
        BY <1>1, <1>7, <2>3 DEF Surplus
      <3>2. E \subseteq D
        BY <1>1, <2>3, <2>4 DEF Debtors, Indebted
      <3> QED BY <1>5, <1>6, <2>1, <3>1, <3>2
    <2>5. CASE pc[u] \notin Guarded
      <3>1. T \subseteq S
        BY <1>1, <1>7, <2>3, <2>5 DEF Surplus, Holding
      <3>2. E \subseteq D \cup {u}
        BY <2>3 DEF Debtors
      <3> QED BY <1>5, <1>6, <2>1, <3>1, <3>2
    <2> QED BY <2>4, <2>5
  <1> QED BY <1>8, <1>9

\* No worker moves, and no repair row is added.
LEMMA CountAlone ==
    ASSUME Inv, CountInv, Turn(NoToken), UNCHANGED <<pc, cand, batch, failed, job, faults>>,
           Repairs' \subseteq Repairs
    PROVE  CountInv'
  <1>1. NoToken \notin Workers /\ Others(NoToken)
    BY OutboxAssumption DEF Others
  <1>2. \A v \in Workers : Named(v)' /\ (Holding(v)' => Standing(v)')
    BY <1>1, OthersStand
  <1>3. Surplus' \subseteq Surplus /\ Debtors' \subseteq Debtors
    <2>1. Repairs' \subseteq Repairs \cup {}
      OBVIOUS
    <2> QED BY <1>1, <2>1, SurplusMoves
  <1>4. /\ faults \in Nat /\ IsFiniteSet(Debtors) /\ IsFiniteSet(Surplus)
        /\ Cardinality(Surplus) + Cardinality(Debtors) <= faults
    BY SurplusFinite DEF CountInv, Inv, TypeOK
  <1>5. IsFiniteSet(Debtors') /\ Cardinality(Surplus') + Cardinality(Debtors') <= faults'
    <2> DEFINE S == Surplus
               D == Debtors
               T == Surplus'
               E == Debtors'
    <2>1. /\ faults \in Nat /\ IsFiniteSet(D) /\ IsFiniteSet(S) /\ T \subseteq S /\ E \subseteq D
          /\ Cardinality(S) + Cardinality(D) <= faults /\ faults >= faults
      BY <1>3, <1>4
    <2> HIDE DEF S, D, T, E
    <2>2. IsFiniteSet(E) /\ Cardinality(T) + Cardinality(E) <= faults
      BY <2>1, Balance
    <2> QED BY <2>2 DEF T, E
  <1>6. \A v, w \in Workers : v # w /\ pc'[v] \in Guarded /\ pc'[w] \in Guarded
                                 => job'[v].rep.id # job'[w].rep.id
    BY DEF CountInv
  <1> QED BY <1>2, <1>5, <1>6 DEF CountInv

\* Writes append rows that are no repairs; the index and the clock leave rows alone.
LEMMA CountEnvironment ==
    ASSUME Inv, CountInv,
           \/ \E d \in Docs : Write(d)
           \/ \E m \in net : ProcessMutation(m)
           \/ \E i \in Ids : LeaseLapses(i) \/ RetryFallsDue(i)
           \/ UNCHANGED vars
    PROVE  CountInv'
  <1>1. ASSUME NEW d \in Docs, Write(d) PROVE CountInv'
    <2>1. Append(d, nextId) /\ UNCHANGED <<pc, cand, batch, failed, job, faults>>
      BY <1>1 DEF Write, localVars
    <2>2. nextId \in Ids
      BY <2>1, OutboxAssumption DEF Append, Inv, TypeOK, OutboxTypeOK, Ids
    <2>3. Turn(NoToken) /\ Repairs' \subseteq Repairs
      BY <2>1, <2>2, RowAppended
    <2> QED BY <2>1, <2>3, CountAlone
  <1>2. ASSUME NEW i \in Ids, LeaseLapses(i) PROVE CountInv'
    BY <1>2, CountLapses
  <1>3. ASSUME UNCHANGED <<rows, lapsed, pc, cand, batch, failed, job, faults>> PROVE CountInv'
    <2>1. Turn(NoToken) /\ Repairs' \subseteq Repairs
      BY <1>3 DEF Turn, Repairs, IsRow
    <2> QED BY <1>3, <2>1, CountAlone
  <1>4. ASSUME NEW m \in net, ProcessMutation(m) PROVE CountInv'
    BY <1>3, <1>4 DEF ProcessMutation, outboxVars, localVars
  <1>5. ASSUME NEW i \in Ids, RetryFallsDue(i) PROVE CountInv'
    BY <1>3, <1>5 DEF RetryFallsDue, ReachAvailableAt, localVars
  <1>6. CASE UNCHANGED vars
    BY <1>3, <1>6 DEF vars, outboxVars, localVars
  <1> QED BY <1>1, <1>2, <1>4, <1>5, <1>6

\* Every step of a worker keeps the account.
LEMMA CountWorker ==
    ASSUME Inv, CountInv, Undivided, NEW w \in Workers, Work(w) \/ Renew(w) \/ Misfortune(w)
    PROVE  CountInv'
  <1>0. Others(w)
    BY WorkerStep DEF Framed
  <1>1. CASE Work(w)
    <2>1. ASSUME NEW e \in cand[w], ClaimCandidate(w, e) PROVE CountInv'
      BY <1>0, <2>1, CountBatch
    <2>2. ASSUME NEW e \in batch[w], NextEvent(w, e) PROVE CountInv'
      BY <1>0, <2>2, CountNext
    <2>3. ASSUME NEW G \in SUBSET failed[w], Settle(w, G) \/ SinkAcknowledge(w, G) PROVE CountInv'
      BY <1>0, <2>3, CountSettle
    <2>4. CASE ScanOutbox(w) \/ ClaimsDone(w) \/ BatchDone(w)
      BY <1>0, <2>4, CountBatch
    <2>5. CASE \/ ReserveRevision(w) \/ CasRevision(w) \/ RevalidateLease(w) \/ ReadEntity(w)
               \/ StartMutation(w) \/ RenewLost(w) \/ MutationDone(w)
      BY <1>0, <2>5, CountMoves
    <2>6. CASE CasConflict(w) \/ ReservationRefused(w) \/ LeaseGone(w) \/ MutationDoneLost(w)
      BY <1>0, <2>6, CountEnds
    <2>7. CASE AppendRepair(w)
      BY <1>0, <2>7, CountAppended
    <2>8. CASE CleanupRepair(w) \/ Acknowledge(w) \/ AcknowledgeRepair(w)
      BY <1>0, <2>8, CountAcknowledged
    <2> QED BY <1>1, <2>1, <2>2, <2>3, <2>4, <2>5, <2>6, <2>7, <2>8 DEF Work
  <1>2. CASE Renew(w)
    BY <1>0, <1>2, CountRenewed
  <1>3. CASE Misfortune(w)
    <2>1. ASSUME NEW b \in BOOLEAN,
                 ClaimFails(w, b) \/ MutationRejected(w, b) \/ AcknowledgeThrows(w, b)
          PROVE  CountInv'
      BY <1>0, <2>1, CountBatch, CountEnds, CountAcknowledged
    <2>2. ASSUME NEW G \in SUBSET failed[w], NEW b \in BOOLEAN, SettleThrows(w, G, b)
          PROVE  CountInv'
      BY <1>0, <2>2, CountSettle
    <2>3. CASE StoreThrows(w) \/ Crash(w)
      BY <1>0, <2>3, CountEnds
    <2>4. CASE BeforeIndexThrows(w) \/ ReleaseThrows(w)
      BY <1>0, <2>4, CountMoves
    <2>5. CASE AppendRepairThrows(w) \/ RenewThrows(w)
      BY <1>0, <2>5, CountAppended, CountRenewed
    <2> QED BY <1>3, <2>1, <2>2, <2>3, <2>4, <2>5 DEF Misfortune
  <1> QED BY <1>1, <1>2, <1>3

\* An empty outbox owes nothing.
LEMMA CountInit == Init => CountInv
  <1> SUFFICES ASSUME Init PROVE CountInv
    OBVIOUS
  <1>1. Repairs = {}
    BY DEF Init, OutboxInit, Repairs, IsRow
  <1>2. /\ faults = 0
        /\ \A w \in Workers : /\ pc[w] = "idle" /\ batch[w] = {} /\ failed[w] = {}
                              /\ ~Holding(w) /\ ~Indebted(w) /\ pc[w] \notin Guarded
    BY DEF Init, Holding, Indebted, AtWork, Reserved, HasRead, Guarded
  <1>3. \A w \in Workers : Named(w)
    BY <1>2 DEF Named, AtWork, Reserved, HasRead, Guarded
  <1>4. Surplus = {} /\ Debtors = {}
    BY <1>1, <1>2 DEF Surplus, Debtors
  <1>5. IsFiniteSet(Debtors) /\ Cardinality(Surplus) + Cardinality(Debtors) <= faults
    BY <1>2, <1>4, FS_EmptySet
  <1> QED BY <1>2, <1>3, <1>5 DEF CountInv

\* enqueueSearchSyncRepair appends a guard for every delivery.  When no run is at work at
\* most one of them is left for each fault: deliveries that went well or whose hook failed
\* take theirs away, and a lease is only lost to a fault.  Several workers need a store
\* that acknowledges the event and its guard in one transaction.
THEOREM RepairsAreBounded == Undivided => (Spec => []OutboxBounded)
  <1> SUFFICES ASSUME Undivided
               PROVE  Spec => []OutboxBounded
    OBVIOUS
  <1>1. Init => CountInv
    BY CountInit
  <1>2. Inv /\ CountInv /\ [Next]_vars => CountInv'
    BY CountEnvironment, CountWorker DEF Next, Environment
  <1>3. Inv /\ CountInv => OutboxBounded
    <2> SUFFICES ASSUME Inv, CountInv, \A w \in Workers : pc[w] = "idle"
                 PROVE  Cardinality({i \in Ids : IsRow(i) /\ rows[i].created # i}) <= faults
      BY DEF OutboxBounded
    <2>1. Surplus = Repairs
      BY DEF Surplus, Holding, Guarded
    <2>2. /\ faults \in Nat /\ Cardinality(Surplus) \in Nat /\ Cardinality(Debtors) \in Nat
          /\ Cardinality(Surplus) + Cardinality(Debtors) <= faults
      BY SurplusFinite, FS_CardinalityType DEF CountInv, Inv, TypeOK
    <2>3. Cardinality(Repairs) <= faults
      BY <2>1, <2>2
    <2> QED BY <2>3 DEF Repairs
  <1> QED BY <1>1, <1>2, <1>3, Invariance, PTL DEF Spec
=============================================================================
