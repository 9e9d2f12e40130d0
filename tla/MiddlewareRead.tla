--------------------------- MODULE MiddlewareRead ---------------------------
(***************************************************************************)
(* A read through a store adapter with middleware (adapter-middleware.ts):  *)
(* the store answers get, getMany or query, the layers around it may change *)
(* the answer (rows replaced, copied, reordered, dropped, repeated, their   *)
(* payload or their entity key changed), and the adapter checks what comes  *)
(* back before the caller has it.                                           *)
(*                                                                         *)
(* The model is a Datastore model: a row has an id and lives under an       *)
(* ancestor.  A row's ancestor can be read off its payload, unless it is a  *)
(* partial row, and off the entity key some stores attach to the rows they  *)
(* read.  The entity key counts only when the store is known to attach it   *)
(* and no layer can have forged it.                                         *)
(***************************************************************************)
EXTENDS Naturals, Sequences, FiniteSets, SequencesExt

CONSTANT MaxChanges    \* bound: changes the layers make

MiddlewareReadAssumption == MaxChanges \in Nat

None == "none"
Ancestors == {"p", "q"}
Ids == {1, 2}

\* a row object: payload and key are the ancestor each names, or None;
\* "made" tells the store's own objects from those the layers made
Row == [id : Ids, payload : Ancestors \cup {None}, key : Ancestors \cup {None}, made : {"store", "layer"}]
Missing == [id |-> 0, payload |-> None, key |-> None, made |-> "store"]

VARIABLES
    op,          \* "get", "getMany", "query"
    ids,         \* the ids asked for, in order (get and getMany)
    scope,       \* meta.datastoreAncestor of the request, or None
    trusts,      \* storeTrustsDatastoreEntityKeyRows
    layers,      \* whether there are layers
    source,      \* trustedSourceRows: the entity key each answered row had
    answer,      \* the rows on their way to the caller, Missing for null
    changes,
    phase,       \* "asked", "answered", "accepted", "refused"
    result       \* what the caller is given: rows with the ancestor they are under

vars == <<op, ids, scope, trusts, layers, source, answer, changes, phase, result>>
request == <<op, ids, scope, trusts, layers>>

(***************************************************************************)
(* Requests.  get and getMany of an ancestor model need the ancestor.       *)
(***************************************************************************)

assertMiddlewareDatastoreDirectReadAllowed(s) == s # None

Init ==
    /\ \/ op = "get" /\ ids \in {<<i>> : i \in Ids}
       \/ op = "getMany" /\ ids \in {<<1>>, <<1, 2>>, <<2, 1>>}
       \/ op = "query" /\ ids = <<>>
    /\ scope \in Ancestors \cup {None}
    /\ op # "query" => assertMiddlewareDatastoreDirectReadAllowed(scope)
    /\ trusts \in BOOLEAN /\ layers \in BOOLEAN
    /\ source = <<>> /\ answer = <<>> /\ changes = 0 /\ phase = "asked" /\ result = <<>>

\* what the store reads: rows under the scope, full or partial, with the key
\* attached by a store that attaches keys
Stored(id) ==
    {r \in Row : /\ r.id = id /\ r.made = "store"
                 /\ \E a \in (IF scope = None THEN Ancestors ELSE {scope}) :
                      r.payload \in {a, None} /\ r.key \in (IF trusts THEN {a} ELSE {None})}

StoreAnswers ==
    /\ phase = "asked"
    /\ \/ /\ op # "query"
          /\ answer' \in {a \in [DOMAIN ids -> UNION {Stored(i) : i \in Ids} \cup {Missing}] :
                            \A i \in DOMAIN ids : a[i] = Missing \/ a[i].id = ids[i]}
       \/ /\ op = "query"
          /\ answer' \in {<<>>} \cup {<<r>> : r \in UNION {Stored(i) : i \in Ids}}
                         \cup {<<r, t>> : r \in Stored(1), t \in Stored(2)}
    \* collectTrustedSourceRows, when the store is trusted and layers follow
    /\ source' = [i \in DOMAIN answer' |-> answer'[i].key]
    /\ phase' = "answered"
    /\ UNCHANGED <<request, changes, result>>

(***************************************************************************)
(* The layers.                                                             *)
(***************************************************************************)

Change ==
    /\ phase = "answered" /\ layers /\ changes < MaxChanges
    /\ changes' = changes + 1
    /\ UNCHANGED <<request, phase, result>>

\* a row object is changed in place
Mutate == \E i \in DOMAIN answer, a \in Ancestors \cup {None} :
    /\ Change /\ answer[i] # Missing
    /\ \/ answer' = [answer EXCEPT ![i].key = a]
       \/ answer' = [answer EXCEPT ![i].payload = a]
    /\ UNCHANGED source

\* a row object is replaced by one the layer made
Replace == \E i \in DOMAIN answer, r \in Row :
    /\ Change /\ r.made = "layer"
    /\ answer' = [answer EXCEPT ![i] = r] /\ source' = [source EXCEPT ![i] = None]

Shuffle ==
    /\ Change /\ Len(answer) = 2
    /\ answer' = <<answer[2], answer[1]>> /\ source' = <<source[2], source[1]>>

Repeat ==
    /\ Change /\ Len(answer) = 1
    /\ answer' = answer \o answer /\ source' = source \o source

(***************************************************************************)
(* The checks.                                                             *)
(***************************************************************************)

\* markTrustedMiddlewareRow: the key of a row the store answered with is
\* compared with the one it had then
EntityKeyUnchanged(i) ==
    (trusts /\ layers /\ answer[i].made = "store") => answer[i].key = source[i]

\* middlewareReadTrust: with layers the rows are copied before they are looked
\* up among the trusted ones, so only the rows of a store without layers count
KeyTrusted == trusts /\ ~layers

\* datastoreRowTrustedEntityKey and datastorePayloadResolvedAncestor
TrustedAncestor(r) == IF KeyTrusted THEN r.key ELSE None

AncestorOf(r) ==
    IF TrustedAncestor(r) # None THEN TrustedAncestor(r)
    ELSE IF r.payload # None THEN r.payload
    ELSE scope

\* normalizeStoreQueryResultForModel, one row: a partial row with a key nobody
\* vouches for, a key that contradicts the payload, a row outside the scope and
\* a row without any ancestor are refused
RowAllowed(r) ==
    /\ (r.key # None /\ ~KeyTrusted) => r.payload # None
    /\ (TrustedAncestor(r) # None /\ r.payload # None) => TrustedAncestor(r) = r.payload
    /\ \A a \in {TrustedAncestor(r), r.payload} \ {None} : scope # None => a = scope
    /\ AncestorOf(r) # None

\* assertStoreDataMatchesId for get and getMany, one answer per id asked for
AnyIds == TRUE
IdsMatch ==
    op # "query" => /\ Len(answer) = Len(ids)
                    /\ \A i \in DOMAIN ids : answer[i] = Missing \/ answer[i].id = ids[i]

\* no two rows of a query have the same identity
Distinct ==
    op = "query" =>
        \A i, j \in DOMAIN answer : i # j =>
            <<answer[i].id, AncestorOf(answer[i])>> # <<answer[j].id, AncestorOf(answer[j])>>

Present == {i \in DOMAIN answer : answer[i] # Missing}

Check ==
    /\ phase = "answered"
    /\ IF /\ IdsMatch /\ Distinct
          /\ op = "query" => Present = DOMAIN answer
          /\ \A i \in Present : EntityKeyUnchanged(i) /\ RowAllowed(answer[i])
       THEN /\ phase' = "accepted"
            /\ result' = [i \in DOMAIN answer |->
                            [id |-> answer[i].id, anc |-> AncestorOf(answer[i]),
                             source |-> IF answer[i].made = "store" THEN source[i] ELSE None]]
       ELSE phase' = "refused" /\ UNCHANGED result
    /\ UNCHANGED <<request, source, answer, changes>>

Done == phase \in {"accepted", "refused"} /\ UNCHANGED vars

Next == StoreAnswers \/ Mutate \/ Replace \/ Shuffle \/ Repeat \/ Check \/ Done

Spec == Init /\ [][Next]_vars

(***************************************************************************)
(* Properties.                                                             *)
(***************************************************************************)

Given == {i \in DOMAIN result : phase = "accepted" /\ result[i].id # 0}

\* get and getMany answer for the ids that were asked for, in their order,
\* whatever a layer did to the rows; a query never holds a row twice.
AnswersTheRequest ==
    phase = "accepted" =>
        IF op = "query"
        THEN \A i, j \in Given : i # j => result[i].id # result[j].id \/ result[i].anc # result[j].anc
        ELSE Len(result) = Len(ids) /\ \A i \in Given : result[i].id = ids[i]

\* Every row the caller is given lies under the ancestor the read was scoped to.
InsideScope ==
    scope # None => \A i \in Given : result[i].anc = scope

\* A row the store answered with reaches the caller with the entity key the
\* store gave it: the caller addresses later writes by that key, and a layer
\* that holds the object cannot have moved it.
KeyKept ==
    \A i \in Given : (trusts /\ answer[i].made = "store") => answer[i].key = result[i].source
=============================================================================
