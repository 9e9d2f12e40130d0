------------------------------ MODULE IdRepair ------------------------------
(***************************************************************************)
(* The repair of Datastore rows whose physical key and payload id have the *)
(* same text but different types (src/src/adapters/store/                  *)
(* datastore-id-repair.ts and the inventory of datastore-runtime.ts).  An  *)
(* inventory pages through the kind and lists the drifted rows; a manifest *)
(* is derived from it and approved by its digest; appliers then repair the *)
(* rows, one transaction each, while the application keeps writing.        *)
(*                                                                         *)
(* A key is <<storage, text>>; storage "unsafe" stands for a key active-ts *)
(* cannot represent.  A row holds the payload id, an entity and the        *)
(* version of its last application write.                                  *)
(***************************************************************************)
EXTENDS Naturals, FiniteSets, Sequences, SequencesExt

CONSTANTS Texts,        \* id texts, 1..n in key order
          BigTexts,     \* texts that are int64 ids, not safe integers
          Storages,     \* a subset of {"id", "name", "unsafe"}
          Types,        \* payload types rows may have
          MaxRows,      \* rows of the initial kind
          Policy,       \* "key-wins" or "payload-wins"
          PageSize,
          Appliers,
          MaxWrites,    \* writes of the application
          MaxFaults     \* failing calls of the service

RepairAssumption ==
  /\ Texts \subseteq Nat /\ BigTexts \subseteq Texts
  /\ Storages \subseteq {"id", "name", "unsafe"}
  /\ Policy \in {"key-wins", "payload-wins"}
  /\ PageSize \in Nat \ {0}

VARIABLES rows,      \* key -> row or None
          clock,     \* stamps every change of a row
          scan,      \* the inventory
          manifest,  \* the approved manifest or None
          ap,        \* applier -> its progress
          latest,    \* entity -> stamp of its last write, 0 when deleted
          faults,
          writes
vars == <<rows, clock, scan, manifest, ap, latest, faults, writes>>

None == <<>>
Keys == Storages \X Texts
Payload == [type : Types, text : Texts]

(* The order of the query: ids before names.                               *)
Rank(k) == (CASE k[1] = "id" -> 0 [] k[1] = "name" -> 100 [] OTHER -> 200) + k[2]

NumericType(t) == IF t \in BigTexts THEN "int64" ELSE "number"

(* datastoreEntityIdFromNativeNumeric or the name itself.                  *)
KeyType(k) == IF k[1] = "id" THEN NumericType(k[2]) ELSE "string"

classify(k, p) ==
  CASE k[1] = "unsafe" -> "unsupported-key"
    [] k[1] # "unsafe" /\ p.type = "missing" -> "missing-payload-id"
    [] k[1] # "unsafe" /\ p.type = "invalid" -> "invalid-payload-id"
    [] k[1] # "unsafe" /\ p.type \notin {"missing", "invalid"} /\ p.text # k[2]
         -> "value-mismatch"
    [] k[1] # "unsafe" /\ p.type \notin {"missing", "invalid", KeyType(k)} /\ p.text = k[2]
         -> "type-mismatch"
    [] OTHER -> "match"

Idle == [pc |-> "idle", i |-> 0, ops |-> <<>>, read |-> <<>>, repaired |-> 0,
         already |-> 0, indeterminate |-> 0, result |-> "", done |-> 0]

(* A payload's numeric type follows from its text.                         *)
Natural(p) == /\ p.type = "int64" => p.text \in BigTexts
              /\ p.type = "number" => p.text \notin BigTexts

Init ==
  /\ \E ks \in SUBSET Keys :
       /\ Cardinality(ks) <= MaxRows
       /\ \E p \in [ks -> {q \in Payload : Natural(q)}] :
            rows = [k \in Keys |->
              IF k \in ks THEN [pay |-> p[k], ent |-> k, body |-> 1, rev |-> 1] ELSE None]
       /\ latest = [k \in Keys |-> IF k \in ks THEN 1 ELSE 0]
  /\ clock = 1
  /\ scan = [pc |-> "scanning", cursor |-> 0, seen |-> {}, scanned |-> 0, pages |-> 0,
             counts |-> [c \in {} |-> 0], issues |-> <<>>]
  /\ manifest = None
  /\ ap = [a \in Appliers |-> Idle]
  /\ faults = 0 /\ writes = 0

-----------------------------------------------------------------------------
(* The inventory                                                           *)

(* The rows of the next page, in key order.                                *)
After(c) == SetToSortSeq({k \in Keys : rows[k] # None /\ Rank(k) > c},
                         LAMBDA x, y : Rank(x) < Rank(y))
Page(c) == SubSeq(After(c), 1, IF Len(After(c)) < PageSize THEN Len(After(c)) ELSE PageSize)

Bump(counts, cs) ==
  [c \in DOMAIN counts \cup ToSet(cs) |->
     (IF c \in DOMAIN counts THEN counts[c] ELSE 0) + Len(SelectSeq(cs, LAMBDA x : x = c))]

EndCursorShort(c, page) == IF Len(page) < 2 THEN c + Len(page) ELSE Rank(page[Len(page) - 1])
EndCursor(c, page) == IF page = <<>> THEN c ELSE Rank(Last(page))

ScanPage(more) ==
  LET page == Page(scan.cursor)
      cursor == EndCursor(scan.cursor, page)
      classes == [i \in 1..Len(page) |-> classify(page[i], rows[page[i]].pay)]
      drifted == SelectSeq([i \in 1..Len(page) |-> [key |-> page[i], pay |-> rows[page[i]].pay]],
                           LAMBDA x : classify(x.key, x.pay) # "match")
  IN /\ scan.pc = "scanning"
     /\ ~more => Len(After(scan.cursor)) = Len(page)
     /\ IF more /\ cursor \in scan.seen
        THEN \* the emulator repeats its terminal cursor with an empty page
             scan' = [scan EXCEPT !.pages = @ + 1, !.pc = "scanned"]
        ELSE scan' = [scan EXCEPT
               !.pages = @ + 1, !.scanned = @ + Len(page),
               !.counts = Bump(@, classes), !.issues = @ \o drifted,
               !.cursor = cursor, !.seen = IF more THEN @ \cup {cursor} ELSE @,
               !.pc = IF more THEN "scanning" ELSE "scanned"]
     /\ UNCHANGED <<rows, clock, manifest, ap, latest, faults, writes>>

(* A service that answers a non-empty page under a cursor it gave before   *)
(* fails the inventory, and so does a query that fails.                    *)
ScanFails ==
  /\ scan.pc = "scanning" /\ faults < MaxFaults
  /\ faults' = faults + 1
  /\ scan' = [scan EXCEPT !.pc = "failed"]
  /\ UNCHANGED <<rows, clock, manifest, ap, latest, writes>>

-----------------------------------------------------------------------------
(* The manifest                                                            *)

replacementId(issue) ==
  IF Policy = "key-wins" THEN [type |-> KeyType(issue.key), text |-> issue.key[2]]
                         ELSE issue.pay

replaceInventoryKeyLeaf(id) == <<IF id.type = "string" THEN "name" ELSE "id", id.text>>

buildRepairOperation(issue) ==
  [source |-> issue.key,
   target |-> IF Policy = "key-wins" THEN issue.key
              ELSE replaceInventoryKeyLeaf(replacementId(issue)),
   expected |-> issue.pay,
   replacement |-> replacementId(issue)]

assertRepairOperationSet(ops) ==
  /\ \A i, j \in 1..Len(ops) : i # j => ops[i].source # ops[j].source /\ ops[i].target # ops[j].target
  /\ Policy = "payload-wins" => \A i, j \in 1..Len(ops) : ops[i].target # ops[j].source

OnlyDrift == DOMAIN scan.counts \subseteq {"match", "type-mismatch"}

(* The digest stands for the contents it is computed from.                 *)
Manifest(ops) == [ops |-> ops, digest |-> ops]

(* The issues the caller collected from onIssue: all of them, or all but   *)
(* one it lost.                                                            *)
Collected == {scan.issues} \cup {RemoveAt(scan.issues, i) : i \in 1..Len(scan.issues)}

(* Their number is the report's count of drifted rows, each one describes  *)
(* a drift, and their digest is the report's.                              *)
normalizeIssues(issues) ==
  /\ Len(issues) = (IF "type-mismatch" \in DOMAIN scan.counts
                    THEN scan.counts["type-mismatch"] ELSE 0)
  /\ \A i \in 1..Len(issues) : classify(issues[i].key, issues[i].pay) = "type-mismatch"
  /\ issues = scan.issues

Operations(issues) == [i \in 1..Len(issues) |-> buildRepairOperation(issues[i])]

createDatastoreIdRepairManifest(issues) ==
  /\ scan.pc = "scanned" /\ manifest = None
  /\ OnlyDrift
  /\ normalizeIssues(issues)
  /\ assertRepairOperationSet(Operations(issues))
  /\ manifest' = Manifest(Operations(issues))
  /\ scan' = [scan EXCEPT !.pc = "planned"]
  /\ UNCHANGED <<rows, clock, ap, latest, faults, writes>>

PlanRefused(issues) ==
  /\ scan.pc = "scanned" /\ manifest = None
  /\ ~(OnlyDrift /\ normalizeIssues(issues) /\ assertRepairOperationSet(Operations(issues)))
  /\ scan' = [scan EXCEPT !.pc = "refused"]
  /\ UNCHANGED <<rows, clock, manifest, ap, latest, faults, writes>>

-----------------------------------------------------------------------------
(* Applying it                                                             *)

(* What may reach an applier: the approved manifest, or one whose          *)
(* operations were changed after the approval with the digest kept.        *)
Handed ==
  {manifest} \cup
  {[ops |-> Append(manifest.ops, buildRepairOperation([key |-> k, pay |-> p])),
    digest |-> manifest.digest] :
     k \in {x \in Keys : x[1] # "unsafe"},
     p \in {q \in Payload : q.type \in {"string", "number", "int64"} /\ Natural(q)}}

(* normalizeRepairManifest derives every operation and the digest again.   *)
normalizeWithoutDigest(m) == assertRepairOperationSet(m.ops)
normalizeRepairManifest(m) ==
  /\ \A i \in 1..Len(m.ops) :
       /\ classify(m.ops[i].source, m.ops[i].expected) = "type-mismatch"
       /\ m.ops[i] = buildRepairOperation([key |-> m.ops[i].source, pay |-> m.ops[i].expected])
  /\ assertRepairOperationSet(m.ops)
  /\ m.digest = Manifest(m.ops).digest

StartApply(a) ==
  /\ ap[a].pc = "idle" /\ manifest # None
  /\ \E m \in Handed :
       /\ normalizeRepairManifest(m)
       /\ m.digest = manifest.digest                    \* confirm
       /\ ap' = [ap EXCEPT ![a] = [@ EXCEPT !.ops = m.ops, !.i = 1, !.pc = "preflight"]]
  /\ UNCHANGED <<rows, clock, scan, manifest, latest, faults, writes>>

Op(a) == ap[a].ops[ap[a].i]
More(a) == ap[a].i <= Len(ap[a].ops)

samePayload(p, q) == p.type = q.type /\ p.text = q.text

(* What the caller of apply is told.                                       *)
ToldError(r) == IF r.repaired > 0 THEN "committed" ELSE "error"
Failed(r) == [r EXCEPT !.pc = "ended", !.result = ToldError(r), !.ops = <<>>, !.read = <<>>]
Threw(a) == ap' = [ap EXCEPT ![a] = Failed(@)]

(* preflight reads the source of every operation...                        *)
Preflight(a) ==
  /\ ap[a].pc = "preflight" /\ More(a)
  /\ LET r == rows[Op(a).source]
         repaired == Policy = "key-wins" /\ samePayload(r.pay, Op(a).replacement)
     IN IF r = None THEN Threw(a)
        ELSE IF ~repaired /\ ~samePayload(r.pay, Op(a).expected) THEN Threw(a)
        ELSE ap' = [ap EXCEPT ![a] =
               IF Policy = "payload-wins" THEN [@ EXCEPT !.pc = "preflight-target"]
                                          ELSE [@ EXCEPT !.i = @ + 1]]
  /\ UNCHANGED <<rows, clock, scan, manifest, latest, faults, writes>>

(* ...and, for a key move, its target.                                     *)
PreflightTarget(a) ==
  /\ ap[a].pc = "preflight-target"
  /\ IF rows[Op(a).target] # None THEN Threw(a)
     ELSE ap' = [ap EXCEPT ![a] = [@ EXCEPT !.pc = "preflight", !.i = @ + 1]]
  /\ UNCHANGED <<rows, clock, scan, manifest, latest, faults, writes>>

PreflightEnds(a) ==
  /\ ap[a].pc = "preflight" /\ ~More(a)
  /\ ap' = [ap EXCEPT ![a] = [@ EXCEPT !.pc = "run", !.i = 1]]
  /\ UNCHANGED <<rows, clock, scan, manifest, latest, faults, writes>>

ApplyEnds(a) ==
  /\ ap[a].pc = "run" /\ ~More(a)
  /\ ap' = [ap EXCEPT ![a] = [@ EXCEPT !.pc = "ended", !.result = "ok", !.ops = <<>>]]
  /\ UNCHANGED <<rows, clock, scan, manifest, latest, faults, writes>>

(* transaction.run and the read of the source.                             *)
ReadSource(a) ==
  /\ ap[a].pc = "run" /\ More(a)
  /\ LET r == rows[Op(a).source]
         next(pc) == [ap EXCEPT ![a] = [@ EXCEPT !.pc = pc, !.read = r]]
     IN ap' = IF r = None THEN next("rollback")
              ELSE IF Policy = "key-wins" /\ samePayload(r.pay, Op(a).replacement)
                   THEN next("commit-read")
              ELSE IF ~samePayload(r.pay, Op(a).expected) THEN next("rollback")
              ELSE IF Policy = "key-wins" THEN next("commit") ELSE next("target")
  /\ UNCHANGED <<rows, clock, scan, manifest, latest, faults, writes>>

ReadTarget(a) ==
  /\ ap[a].pc = "target"
  /\ ap' = [ap EXCEPT ![a].pc = IF rows[Op(a).target] # None THEN "rollback" ELSE "commit"]
  /\ UNCHANGED <<rows, clock, scan, manifest, latest, faults, writes>>

(* A call of the transaction fails: before run answers there is nothing to *)
(* roll back.                                                              *)
CallFails(a) ==
  /\ ap[a].pc \in {"run", "target"} /\ More(a) /\ faults < MaxFaults
  /\ faults' = faults + 1
  /\ \/ ap[a].pc = "run" /\ Threw(a)
     \/ ap' = [ap EXCEPT ![a].pc = "rollback"]
  /\ UNCHANGED <<rows, clock, scan, manifest, latest, writes>>

(* A rollback that fails only adds its error to the one thrown.            *)
Rollback(a) ==
  /\ ap[a].pc = "rollback"
  /\ Threw(a)
  /\ UNCHANGED <<rows, clock, scan, manifest, latest, faults, writes>>

-----------------------------------------------------------------------------
(* The commit: Datastore rejects it when a row the transaction read has    *)
(* changed.                                                                *)

Serializable(a) ==
  /\ rows[Op(a).source] = ap[a].read
  /\ ap[a].pc = "commit" /\ Policy = "payload-wins" => rows[Op(a).target] = None

(* snapshotEntityForWrite of the row read in the transaction.              *)
Repaired(a) == [ap[a].read EXCEPT !.pay = Op(a).replacement, !.rev = clock + 1]

Moves(a) ==
  IF Policy = "key-wins" THEN [rows EXCEPT ![Op(a).source] = Repaired(a)]
  ELSE [rows EXCEPT ![Op(a).target] = Repaired(a), ![Op(a).source] = None]

Applied(a) ==
  /\ Serializable(a)
  /\ IF ap[a].pc = "commit" THEN rows' = Moves(a) /\ clock' = clock + 1
                            ELSE UNCHANGED <<rows, clock>>

Commit(a) ==
  /\ ap[a].pc \in {"commit", "commit-read"}
  /\ Applied(a)
  /\ ap' = [ap EXCEPT ![a] =
       IF @.pc = "commit"
       THEN [@ EXCEPT !.repaired = @ + 1, !.done = @ + 1, !.i = @ + 1, !.pc = "run"]
       ELSE [@ EXCEPT !.already = @ + 1, !.i = @ + 1, !.pc = "run"]]
  /\ UNCHANGED <<scan, manifest, latest, faults, writes>>

(* Any error of commit leaves the outcome open: nothing is rolled back.    *)
Indeterminate(r) == [r EXCEPT !.pc = "ended", !.result = "committed", !.indeterminate = 1,
                              !.ops = <<>>, !.read = <<>>]

CommitRejected(a) ==
  /\ ap[a].pc \in {"commit", "commit-read"}
  /\ \/ ~Serializable(a) /\ UNCHANGED faults
     \/ faults < MaxFaults /\ faults' = faults + 1
  /\ ap' = [ap EXCEPT ![a] = Indeterminate(@)]
  /\ UNCHANGED <<rows, clock, scan, manifest, latest, writes>>

CommitAnswerLost(a) ==
  /\ ap[a].pc \in {"commit", "commit-read"}
  /\ faults < MaxFaults /\ faults' = faults + 1
  /\ Applied(a)
  /\ ap' = [ap EXCEPT ![a] =
       [Indeterminate(@) EXCEPT !.done = @ + (IF ap[a].pc = "commit" THEN 1 ELSE 0)]]
  /\ UNCHANGED <<scan, manifest, latest, writes>>

-----------------------------------------------------------------------------
(* The application writes a row's body, its payload id, deletes it or      *)
(* creates one.                                                            *)
AppWrite(k) ==
  /\ writes < MaxWrites /\ writes' = writes + 1 /\ clock' = clock + 1
  /\ \/ /\ rows[k] # None
        /\ \E p \in {q \in Payload : Natural(q) /\ q.text = k[2]} :
             rows' = [rows EXCEPT ![k] = [@ EXCEPT !.pay = p, !.body = clock + 1, !.rev = clock + 1]]
        /\ latest' = [latest EXCEPT ![rows[k].ent] = clock + 1]
     \/ /\ rows[k] # None
        /\ rows' = [rows EXCEPT ![k] = None]
        /\ latest' = [latest EXCEPT ![rows[k].ent] = 0]
     \/ /\ rows[k] = None /\ latest[k] = 0
        /\ \E p \in {q \in Payload : Natural(q) /\ q.text = k[2]} :
             rows' = [rows EXCEPT ![k] = [pay |-> p, ent |-> k, body |-> clock + 1, rev |-> clock + 1]]
        /\ latest' = [latest EXCEPT ![k] = clock + 1]
  /\ UNCHANGED <<scan, manifest, ap, faults>>

Next ==
  \/ \E more \in BOOLEAN : ScanPage(more)
  \/ ScanFails
  \/ \E issues \in Collected : createDatastoreIdRepairManifest(issues) \/ PlanRefused(issues)
  \/ \E a \in Appliers :
       \/ StartApply(a) \/ Preflight(a) \/ PreflightTarget(a) \/ PreflightEnds(a)
       \/ ReadSource(a) \/ ReadTarget(a) \/ CallFails(a) \/ Rollback(a)
       \/ Commit(a) \/ CommitRejected(a) \/ CommitAnswerLost(a) \/ ApplyEnds(a)
  \/ \E k \in Keys : AppWrite(k)

Spec == Init /\ [][Next]_vars

-----------------------------------------------------------------------------
(* Properties                                                              *)

(* A repair neither loses nor duplicates an entity, and keeps the last     *)
(* write of its body: insert of the target and delete of the source are    *)
(* one commit, and the body written is the one read in it.                 *)
EntitiesKept ==
  \A e \in Keys :
    LET at == {k \in Keys : rows[k] # None /\ rows[k].ent = e}
    IN IF latest[e] = 0 THEN at = {}
       ELSE Cardinality(at) = 1 /\ \A k \in at : rows[k].body = latest[e]

(* apply changes only a row that is still drifted, an approved one, and    *)
(* leaves it consistent under the key of its own text.                     *)
OnlyApprovedDrift ==
  \A k \in Keys :
    (rows'[k] # rows[k] /\ writes' = writes) =>
      \E i \in 1..Len(manifest.ops) :
        LET op == manifest.ops[i]
            now == rows'[op.target]
        IN /\ k \in {op.source, op.target}
           /\ rows[op.source] # None
           /\ rows[op.source].pay.text = op.source[2]
           /\ rows[op.source].pay.type # KeyType(op.source)
           /\ now # None /\ now.pay = [type |-> KeyType(op.target), text |-> op.target[2]]

(* The caller can trust the report: after a plain error nothing was        *)
(* committed, after a partial one the counts are exact but for the one     *)
(* operation whose outcome is open.                                        *)
ReportTrue ==
  \A a \in Appliers :
    CASE ap[a].result = "error" -> ap[a].done = 0
      [] ap[a].result \in {"ok", "committed"} ->
           ap[a].done \in ap[a].repaired..(ap[a].repaired + ap[a].indeterminate)
      [] OTHER -> TRUE

(* A manifest that was accepted names every drifted row the inventory      *)
(* reported, although the caller collects the issues on its own.           *)
PlanCoversInventory ==
  manifest # None =>
    {manifest.ops[i].source : i \in 1..Len(manifest.ops)} =
      {scan.issues[i].key : i \in 1..Len(scan.issues)}

(* While nothing writes, an inventory that ends has seen every row once,   *)
(* also when the service splits it into pages or repeats its last cursor.  *)
InventoryComplete ==
  scan.pc = "scanned" /\ writes = 0 /\ clock = 1 =>
    /\ scan.scanned = Cardinality({k \in Keys : rows[k] # None})
    /\ ToSet(scan.issues) =
         {[key |-> k, pay |-> rows[k].pay] :
            k \in {x \in Keys : rows[x] # None /\ classify(x, rows[x].pay) # "match"}}
    /\ Len(scan.issues) = Cardinality(ToSet(scan.issues))
=============================================================================
