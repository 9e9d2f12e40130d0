---------------------------- MODULE SearchRead -----------------------------
(***************************************************************************)
(* A search of SearchBuilder (query.ts) over a search index that lags       *)
(* behind the store.  The backend answers with documents; a search with     *)
(* includes reloads each hit's row from the store, one without hands out    *)
(* the documents as partial models.  The store, and the index after it,     *)
(* change all the while; a hit may carry a payload of another entity than   *)
(* the document it was stored under, or occur twice; hooks of the           *)
(* application rewrite the answer.                                          *)
(*                                                                         *)
(* An entity is [id, anc]; a model without datastore.ancestor has entities  *)
(* of one ancestor only.  A row is "match" or "other" as to the portable    *)
(* filter (where), "absent" when there is none.  A hit's payload may lack   *)
(* the ancestor field: "unknown".                                           *)
(***************************************************************************)
EXTENDS Naturals, Sequences, FiniteSets, SequencesExt

CONSTANTS
    Entities,     \* set of [id, anc]
    Ancestored,   \* the model has a datastore.ancestor
    Full,         \* include() was called: full models are reloaded
    Filtered,     \* where() was called
    MaxWrites     \* bound: changes of the store's rows and of the index

SearchReadAssumption ==
    /\ IsFiniteSet(Entities) /\ MaxWrites \in Nat
    /\ {Ancestored, Full, Filtered} \subseteq BOOLEAN

NoTotal == 99
Foreign == [id |-> 0, anc |-> "a"]   \* an item of the application, not of this search

VARIABLES
    rows,     \* entity -> value in the store
    index,    \* entity -> value of its document, "absent" when there is none
    writes,   \* changes so far
    phase,    \* "search", "load", "include", "hook", "done", "failed"
    hits,     \* the backend's list: [id, anc, identity]
    loads,    \* hit position -> "pending", "none" or the value read
    seen,     \* <<entity, value>> pairs the store had since the hits were received
    stale,    \* staleHits
    total,    \* total of the answer, NoTotal when undefined
    list      \* the answer's items: [entity, value]

vars == <<rows, index, writes, phase, hits, loads, seen, stale, total, list>>

Values == {"match", "other", "absent"}

Init ==
    /\ rows \in [Entities -> Values] /\ index \in [Entities -> Values] /\ writes = 0
    /\ phase = "search" /\ hits = <<>> /\ loads = <<>> /\ seen = {} /\ stale = 0
    /\ total = NoTotal /\ list = <<>>

----------------------------------------------------------------------------
(***************************************************************************)
(* The world around the search.                                             *)
(***************************************************************************)

Write(e) ==
    /\ phase \notin {"done", "failed"} /\ writes < MaxWrites /\ writes' = writes + 1
    /\ \/ /\ rows' = [rows EXCEPT ![e] = "absent"] /\ UNCHANGED <<index, seen>>
       \/ \E v \in Values \ {"absent"} :
             rows' = [rows EXCEPT ![e] = v] /\ seen' = seen \cup {<<e, v>>} /\ UNCHANGED index
       \/ index' = [index EXCEPT ![e] = rows[e]] /\ UNCHANGED <<rows, seen>>
    /\ UNCHANGED <<phase, hits, loads, stale, total, list>>

\* the documents a backend may answer with: those that pass its filter, with
\* their own payload, another entity's, or one without the ancestor
Documents ==
    {[id |-> e.id, anc |-> a, identity |-> e] : e \in Entities,
        a \in (IF Ancestored THEN {"a", "b", "unknown"} ELSE {"a"})}

Found == {d \in Documents : index[d.identity] # "absent" /\ (Filtered => index[d.identity] = "match")}

----------------------------------------------------------------------------

\* searchHitMatchesDocumentIdentity: the payload's entity is the document's
Matches(hit) == hit.anc = "unknown" \/ [id |-> hit.id, anc |-> hit.anc] = hit.identity

\* rememberSearchHitId, the seen set of loadFullSearchHits: an entity comes once
NoDuplicates(s) == \A i, j \in DOMAIN s : s[i].identity = s[j].identity => i = j

\* load: beforeSearch, route, search of the backend, and the checks of its hits
Search ==
    /\ phase = "search"
    /\ \E found \in {<<>>} \cup [1..1 -> Found] \cup [1..2 -> Found], more \in {0, 1} :
          LET matching == SelectSeq(found, Matches)
              unloadable == Full /\ \E i \in DOMAIN matching : matching[i].anc = "unknown"
              count == Len(found) + more
          IN  /\ hits' = matching
              /\ stale' = Len(found) - Len(matching)
              /\ loads' = [i \in DOMAIN matching |-> "pending"]
              /\ total' \in {count, NoTotal}
              /\ phase' = IF unloadable \/ ~NoDuplicates(matching) THEN "failed" ELSE "load"
    /\ seen' = {<<e, rows[e]>> : e \in Entities}
    /\ UNCHANGED <<rows, index, writes, list>>

EntityOf(hit) == IF hit.anc = "unknown" THEN hit.identity ELSE [id |-> hit.id, anc |-> hit.anc]

\* loadFullSearchHits of an ancestor model: one find per hit, in any order
FindHit(i) ==
    /\ phase = "load" /\ Full /\ Ancestored /\ loads[i] = "pending"
    /\ loads' = [loads EXCEPT ![i] = rows[EntityOf(hits[i])]]
    /\ UNCHANGED <<rows, index, writes, phase, hits, seen, stale, total, list>>

\* loadFullSearchHits of any other model: loadManyFresh of all ids
LoadManyFresh ==
    /\ phase = "load" /\ Full /\ ~Ancestored /\ \E i \in DOMAIN loads : loads[i] = "pending"
    /\ loads' = [i \in DOMAIN loads |-> rows[EntityOf(hits[i])]]
    /\ UNCHANGED <<rows, index, writes, phase, hits, seen, stale, total, list>>

\* mutant: a row that was reloaded is kept
Reloaded(value) == value # "absent"

\* the row is still there and, reloaded, still passes the search's filter
Revalidated(value) == value # "absent" /\ (Filtered => value = "match")

\* the total holds only when no hit was dropped
TotalAfter(raw, dropped) == IF dropped = 0 THEN raw ELSE NoTotal

Reload ==
    /\ phase = "load" /\ Full /\ \A i \in DOMAIN loads : loads[i] # "pending"
    /\ LET items == [i \in DOMAIN loads |-> [entity |-> EntityOf(hits[i]), value |-> loads[i]]]
           kept == SelectSeq(items, LAMBDA item : Revalidated(item.value))
           dropped == stale + Len(items) - Len(kept)
       IN  list' = kept /\ stale' = dropped /\ total' = TotalAfter(total, dropped)
    /\ phase' = "include"
    /\ UNCHANGED <<rows, index, writes, hits, loads, seen>>

\* partial models, from the documents
Project ==
    /\ phase = "load" /\ ~Full
    /\ list' = [i \in DOMAIN hits |-> [entity |-> EntityOf(hits[i]), value |-> "partial"]]
    /\ total' = TotalAfter(total, stale)
    /\ phase' = "hook"
    /\ UNCHANGED <<rows, index, writes, hits, loads, seen, stale>>

\* validateModelResultIdentities: items of this search, each once, unmoved
Original(items) ==
    /\ \A i \in DOMAIN items : \E j \in DOMAIN list : items[i] = list[j]
    /\ \A i, j \in DOMAIN items : items[i] = items[j] => i = j

\* a hook may hand back any items, or move one to another ancestor
Handed == ToSet(list) \cup {[entity |-> Foreign, value |-> "match"]}
          \cup {[entity |-> e, value |-> "moved"] : e \in Entities}

\* preloadIncludes: relation hooks may move the items they are given
Include ==
    /\ phase = "include"
    /\ \E items \in {list} \cup {[list EXCEPT ![i].value = "moved"] : i \in DOMAIN list} :
          phase' = IF Original(items) THEN "hook" ELSE "failed"
    /\ UNCHANGED <<rows, index, writes, hits, loads, seen, stale, total, list>>

\* afterSearch, sanitizeModelResult
AfterSearch ==
    /\ phase = "hook"
    /\ \E items \in {<<>>} \cup [1..1 -> Handed] \cup [1..2 -> Handed], claimed \in {total, 2} :
          IF Original(items) /\ claimed >= Len(items)
          THEN list' = items /\ total' = claimed /\ phase' = "done"
          ELSE phase' = "failed" /\ UNCHANGED <<list, total>>
    /\ UNCHANGED <<rows, index, writes, hits, loads, seen, stale>>

Next ==
    \/ \E e \in Entities : Write(e)
    \/ Search \/ LoadManyFresh \/ Reload \/ Project \/ Include \/ AfterSearch
    \/ \E i \in DOMAIN hits : FindHit(i)

Spec == Init /\ [][Next]_vars

----------------------------------------------------------------------------
Entity(i) == list[i].entity

(***************************************************************************)
(* A reloaded item is a row the store had during the search, and passes     *)
(* the filter of the search: not the index's idea of it (query.ts:2643,     *)
(* :2665).                                                                  *)
(***************************************************************************)
ItemsAreCurrent ==
    Full => \A i \in DOMAIN list :
        /\ <<Entity(i), list[i].value>> \in seen
        /\ Filtered => list[i].value = "match"

(***************************************************************************)
(* Every item is of the very entity its hit was stored under, in the same   *)
(* ancestor, and occurs once: neither a foreign payload nor a hook brings   *)
(* in another one (:2698-2707, :929-998).                                   *)
(***************************************************************************)
ItemsAreTheHits ==
    /\ \A i \in DOMAIN list : \E h \in DOMAIN hits : hits[h].identity = Entity(i)
    /\ \A i, j \in DOMAIN list : Entity(i) = Entity(j) => i = j

(***************************************************************************)
(* A total is reported only for a list none of whose hits was dropped:      *)
(* before the hook speaks, it is never more than what the caller can get    *)
(* to (:2588).                                                              *)
(***************************************************************************)
NoTotalOfStaleHits == phase \in {"include", "hook"} /\ stale > 0 => total = NoTotal
=============================================================================
