----------------------------- MODULE ModelWrites -----------------------------
(***************************************************************************)
(* The writes of Model (src/src/core/model.ts): save and delete of an      *)
(* instance, and the static create, update and delete, outside a           *)
(* transaction.  Every write prepares (hooks, version checks), calls the   *)
(* store, then runs the committed-write effects and the after hooks; the   *)
(* awaits between them are separate steps, so operations interleave, also  *)
(* two of them on one instance.  One row of a versioned model and its      *)
(* entry in the entity cache; other processes write the row too.           *)
(***************************************************************************)
EXTENDS Naturals, FiniteSets

CONSTANTS Insts,        \* instances the application keeps
          Ops,          \* operations that may be in flight together
          MaxOps,       \* bound: operations started
          MaxVersion,   \* bound: versions of the row
          MaxExternal,  \* bound: writes of other processes
          MaxLost       \* bound: store answers lost

WritesAssumption == Insts \cap Ops = {} /\ MaxVersion \in Nat

VARIABLES row,      \* [ver, val, birth] or None
          cached,   \* the cached row or None
          inst,     \* per instance: what Model keeps and the row it saw
          op,       \* per operation in flight
          stamp,    \* fresh values
          count     \* [ops, external, lost]
vars == <<row, cached, inst, op, stamp, count>>

None == [ver |-> 0, val |-> 0, birth |-> 0]

(* persistedId, persistedVersion, data.version, data and, as a ghost, the  *)
(* row last loaded or written through the instance.                        *)
NoInst == [persisted |-> FALSE, base |-> 0, ver |-> 0, val |-> 0, saw |-> None]
Loaded(r) == [persisted |-> TRUE, base |-> r.ver, ver |-> r.ver, val |-> r.val, saw |-> r]

(* A static operation holds its own instance under its name.               *)
Holders == Insts \cup Ops

NoOp == [pc |-> "free", kind |-> "none", i |-> "none", expected |-> 0, data |-> None,
         wrote |-> FALSE, lost |-> FALSE, told |-> "none", saw |-> None]

Init ==
  /\ row \in {None, [ver |-> 1, val |-> 1, birth |-> 1]}
  /\ cached = None
  /\ inst = [h \in Holders |-> NoInst]
  /\ op = [o \in Ops |-> NoOp]
  /\ stamp = 1
  /\ count = [ops |-> 0, external |-> 0, lost |-> 0]

-----------------------------------------------------------------------------
(* The application loads an instance, through the cache or not, and edits  *)
(* its data.                                                               *)
Load(i, r) ==
  /\ r \in {row} \cup (IF cached # None THEN {cached} ELSE {})
  /\ r # None
  /\ inst[i].saw # r
  /\ \A o \in Ops : op[o].i # i          \* a load makes a new instance
  /\ inst' = [inst EXCEPT ![i] = Loaded(r)]
  /\ cached' = IF r = row /\ cached = None THEN row ELSE cached
  /\ UNCHANGED <<row, op, stamp, count>>

EditVersion(i) ==
  /\ inst[i].persisted /\ inst[i].ver = inst[i].base
  /\ inst' = [inst EXCEPT ![i].ver = @ + 1]
  /\ UNCHANGED <<row, cached, op, stamp, count>>

-----------------------------------------------------------------------------
Free(o) == op[o].pc = "free" /\ count.ops < MaxOps
Begin(o, r) ==
  /\ op' = [op EXCEPT ![o] = r]
  /\ count' = [count EXCEPT !.ops = @ + 1]

(* The answer the caller gets; the record is kept until it is collected.   *)
Told(o, what) == [op[o] EXCEPT !.pc = "told", !.told = what]

Collect(o) ==
  /\ op[o].pc = "told"
  /\ op' = [op EXCEPT ![o] = NoOp]
  /\ inst' = [inst EXCEPT ![o] = NoInst]
  /\ UNCHANGED <<row, cached, stamp, count>>

(* expectedWriteVersion: the version in the data is the persisted one.     *)
VersionKept(i) == inst[i].ver = inst[i].base

(* save() and delete() of an instance, up to the before hooks.             *)
StartInstance(o, i, kind) ==
  /\ Free(o)
  /\ IF inst[i].persisted /\ VersionKept(i)
     THEN Begin(o, [NoOp EXCEPT !.pc = "before", !.kind = kind, !.i = i,
                                !.expected = inst[i].base, !.saw = inst[i].saw])
     ELSE Begin(o, [NoOp EXCEPT !.pc = "told", !.kind = kind, !.i = i, !.told = "error"])
  /\ UNCHANGED <<row, cached, inst, stamp>>

StartCreate(o) ==
  /\ Free(o)
  /\ Begin(o, [NoOp EXCEPT !.pc = "before", !.kind = "create", !.i = o])
  /\ UNCHANGED <<row, cached, inst, stamp>>

(* Static update: loadByIdFresh, then save of the loaded instance; an      *)
(* absent row only has its committed absence published.                    *)
StartUpdate(o) ==
  /\ Free(o)
  /\ IF row = None
     THEN /\ Begin(o, [NoOp EXCEPT !.pc = "effects", !.kind = "absent", !.i = o])
          /\ UNCHANGED inst
     ELSE /\ Begin(o, [NoOp EXCEPT !.pc = "before", !.kind = "save", !.i = o, !.expected = row.ver,
                              !.saw = row])
          /\ inst' = [inst EXCEPT ![o] = Loaded(row)]
  /\ UNCHANGED <<row, cached, stamp>>

(* Static delete: the version probed is the one expected.                  *)
StartStaticDelete(o) ==
  /\ Free(o)
  /\ IF row = None
     THEN Begin(o, [NoOp EXCEPT !.pc = "effects", !.kind = "absent", !.i = o])
     ELSE Begin(o, [NoOp EXCEPT !.pc = "before", !.kind = "sdelete", !.i = o, !.expected = row.ver])
  /\ UNCHANGED <<row, cached, inst, stamp>>

(* A before hook may change the data; a changed version is refused.        *)
HookMay(o, dv) == op[o].kind = "save" /\ dv # 0
RefuseNothing(dv) == FALSE
RefuseVersion(dv) == dv # 0

NextVersion(v) == v + 1

BeforeHooks(o, dv) ==
  /\ op[o].pc = "before"
  /\ dv # 0 => HookMay(o, dv)
  /\ stamp' = stamp + 1
  /\ op' = [op EXCEPT ![o] =
       IF op[o].kind = "save" /\ RefuseVersion(dv) THEN Told(o, "error")
       ELSE [@ EXCEPT !.pc = "write", !.expected = @ + dv,
              !.data = [ver |-> IF op[o].kind = "create" THEN 1
                                ELSE NextVersion(op[o].expected + dv),
                        val |-> stamp + 1,
                        birth |-> stamp + 1]]]
  /\ UNCHANGED <<row, cached, inst, count>>

BeforeHooksThrow(o) ==
  /\ op[o].pc = "before"
  /\ op' = [op EXCEPT ![o] = Told(o, "error")]
  /\ UNCHANGED <<row, cached, inst, stamp, count>>

-----------------------------------------------------------------------------
(* The store call: an update or delete carries expectedVersion.            *)

Accepts(o) ==
  CASE op[o].kind = "create" -> row = None
    [] op[o].kind \in {"save", "delete", "sdelete"} -> row # None /\ row.ver = op[o].expected
    [] OTHER -> FALSE

Conflicts(o) ==
  CASE op[o].kind = "create" -> row # None
    [] op[o].kind \in {"save", "delete", "sdelete"} -> row # None /\ row.ver # op[o].expected
    [] OTHER -> FALSE

After(o) ==
  CASE op[o].kind \in {"delete", "sdelete"} -> None
    [] op[o].kind = "save" -> [op[o].data EXCEPT !.birth = row.birth]
    [] OTHER -> op[o].data

(* writePreparedSave and delete() bring the instance up to date, only      *)
(* after the store accepted the write.                                     *)
Persisted(o) ==
  CASE op[o].kind \in {"delete"} ->
         [inst EXCEPT ![op[o].i] = [@ EXCEPT !.persisted = FALSE, !.base = 0]]
    [] op[o].kind \in {"save", "create"} ->
         [inst EXCEPT ![op[o].i] = Loaded(After(o))]
    [] OTHER -> inst

Write(o) ==
  /\ op[o].pc = "write" /\ Accepts(o)
  /\ row' = After(o)
  /\ inst' = Persisted(o)
  /\ op' = [op EXCEPT ![o].pc = "effects", ![o].wrote = TRUE]
  /\ UNCHANGED <<cached, stamp, count>>

(* invalidateModelExternal evicts the cached row.                          *)
EvictOnConflict == None
WriteConflicts(o) ==
  /\ op[o].pc = "write" /\ Conflicts(o)
  /\ cached' = EvictOnConflict
  /\ op' = [op EXCEPT ![o] = Told(o, "conflict")]
  /\ UNCHANGED <<row, inst, stamp, count>>

(* Any other error, a missing row included, reaches the caller as it is.   *)
InstanceUpdatedFirst(o) == Persisted(o)
InstanceAfterError(o) == inst
WriteFails(o) ==
  /\ op[o].pc = "write" /\ ~Conflicts(o)
  /\ op' = [op EXCEPT ![o] = Told(o, "error")]
  /\ inst' = InstanceAfterError(o)
  /\ UNCHANGED <<row, cached, stamp, count>>

WriteAnswerLost(o) ==
  /\ op[o].pc = "write" /\ Accepts(o) /\ count.lost < MaxLost
  /\ row' = After(o)
  /\ op' = [op EXCEPT ![o] = [Told(o, "error") EXCEPT !.lost = TRUE, !.wrote = TRUE]]
  /\ count' = [count EXCEPT !.lost = @ + 1]
  /\ inst' = InstanceAfterError(o)
  /\ UNCHANGED <<cached, stamp>>

-----------------------------------------------------------------------------
(* runCommittedWriteBoundaryEffects: the hooks and the invalidation both   *)
(* run, whichever fails (allSettled).                                      *)
Wrapped(o) == Told(o, "committed")

EvictWhenHookThrows == None

Effects(o) ==
  /\ op[o].pc = "effects"
  /\ \/ /\ cached' = None
        /\ op' = [op EXCEPT ![o] =
             IF op[o].kind = "absent" THEN Told(o, "absent") ELSE [@ EXCEPT !.pc = "after"]]
     \/ /\ cached' = EvictWhenHookThrows            \* afterStoreWrite throws
        /\ op' = [op EXCEPT ![o] = Wrapped(o)]
  /\ UNCHANGED <<row, inst, stamp, count>>

(* The after hooks; one that changes the committed data is refused.        *)
AfterHooks(o) ==
  /\ op[o].pc = "after"
  /\ \/ op' = [op EXCEPT ![o] = Told(o, "ok")]
     \/ op' = [op EXCEPT ![o] = Wrapped(o)]
  /\ UNCHANGED <<row, cached, inst, stamp, count>>

-----------------------------------------------------------------------------
(* Another process writes the row and knows nothing of this cache.         *)
External ==
  /\ count.external < MaxExternal
  /\ count' = [count EXCEPT !.external = @ + 1]
  /\ stamp' = stamp + 1
  /\ row' = IF row = None THEN [ver |-> 1, val |-> stamp + 1, birth |-> stamp + 1]
            ELSE [row EXCEPT !.ver = @ + 1, !.val = stamp + 1]
  /\ UNCHANGED <<cached, inst, op>>

Next ==
  \/ \E i \in Insts : EditVersion(i) \/ \E r \in {row, cached} : Load(i, r)
  \/ \E o \in Ops :
       \/ \E i \in Insts, kind \in {"save", "delete"} : StartInstance(o, i, kind)
       \/ StartCreate(o) \/ StartUpdate(o) \/ StartStaticDelete(o)
       \/ \E dv \in {0, 1} : BeforeHooks(o, dv)
       \/ BeforeHooksThrow(o)
       \/ Write(o) \/ WriteConflicts(o) \/ WriteFails(o) \/ WriteAnswerLost(o)
       \/ Effects(o) \/ AfterHooks(o) \/ Collect(o)
  \/ External

Spec == Init /\ [][Next]_vars

Bounded == row.ver <= MaxVersion

-----------------------------------------------------------------------------
(* Properties                                                              *)

(* An accepted update or instance delete replaces the row its instance     *)
(* last loaded or wrote: no write of another instance, operation or        *)
(* process is overwritten unseen.  (Only the version is compared, so a row *)
(* deleted and created anew counts as seen.)                               *)
NoBlindOverwrite ==
  \A o \in Ops :
    (op[o].pc = "write" /\ row' # row /\ op'[o] # op[o] /\ op[o].kind \in {"save", "delete"}
       /\ row.birth = op[o].saw.birth)
      => row = op[o].saw

(* The version an instance holds names one content: an instance whose      *)
(* write failed or whose answer was lost still holds the version it saw.   *)
VersionNamesContent ==
  \A i \in Insts :
    (inst[i].persisted /\ row # None /\ inst[i].base = row.ver /\ inst[i].saw.birth = row.birth)
      => inst[i].saw.val = row.val

(* What the caller is told is what happened: an error without a commit     *)
(* mark means the store was not changed (a lost answer apart), every other *)
(* outcome means it was.                                                   *)
ToldTruth ==
  \A o \in Ops :
    /\ op[o].told \in {"error", "conflict"} => ~op[o].wrote \/ op[o].lost
    /\ op[o].told \in {"ok"} => op[o].wrote
    /\ op[o].told = "committed" => op[o].wrote \/ op[o].kind = "absent"

(* After a conflict the cache does not hand out the row that lost again:   *)
(* the retry of the application reads a newer one.                         *)
ConflictEvicts ==
  \A o \in Ops :
    (op'[o].told = "conflict" /\ op[o].told # "conflict" /\ op[o].kind = "save")
      => cached' # op'[o].saw

(* Once no operation is in flight the cache holds the row or nothing,      *)
(* unless another process wrote or an answer was lost.                     *)
CacheFresh ==
  ((\A o \in Ops : op[o].pc \in {"free", "told"}) /\ count.external = 0 /\ count.lost = 0)
    => cached \in {None, row}
=============================================================================
