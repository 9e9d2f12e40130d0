---------------------------- MODULE IndexContract ----------------------------
(***************************************************************************)
(* What search synchronisation promises, with no outbox, lease, worker or  *)
(* message in sight.  Every entity has a version; its document shows some  *)
(* version of it.  A write makes the document `owed`; the write is         *)
(* `recorded` until the document is no longer owed.  A document that is not*)
(* owed shows the entity and keeps showing it: nothing that lands late can *)
(* put an older version back.                                              *)
(***************************************************************************)
EXTENDS Naturals

CONSTANT Docs

VARIABLES ver, shown, owed, recorded

vars == <<ver, shown, owed, recorded>>

Init ==
    /\ ver = [d \in Docs |-> 0]
    /\ shown = [d \in Docs |-> 0]
    /\ owed = [d \in Docs |-> FALSE]
    /\ recorded = [d \in Docs |-> FALSE]

\* A write commits, together with the record of it.
Write(d) ==
    /\ ver' = [ver EXCEPT ![d] = @ + 1]
    /\ owed' = [owed EXCEPT ![d] = TRUE]
    /\ recorded' = [recorded EXCEPT ![d] = TRUE]
    /\ UNCHANGED shown

\* Some version lands in the index: any one so far while the document is owed,
\* and only the entity's own when it is not, or no longer, owed.
Land(d, v, still) ==
    /\ still \/ v = ver[d]
    /\ still => owed[d]
    /\ shown' = [shown EXCEPT ![d] = v]
    /\ owed' = [owed EXCEPT ![d] = still]
    /\ UNCHANGED <<ver, recorded>>

\* The records of writes change hands: one may be dropped when nothing is owed, and
\* may outlive that in a dead-letter sink.
Record(r) ==
    /\ \A d \in Docs : owed[d] /\ recorded[d] => r[d]
    /\ recorded' = r
    /\ UNCHANGED <<ver, shown, owed>>

Next ==
    \/ \E d \in Docs : Write(d)
    \/ \E d \in Docs : \E v \in 0..ver[d], still \in BOOLEAN : Land(d, v, still)
    \/ \E r \in [Docs -> BOOLEAN] : Record(r)

Spec == Init /\ [][Next]_vars
=============================================================================
