------------------------ MODULE SavepointGateProofs ------------------------
(* Proofs about SavepointGate, for any number of items and whatever the       *)
(* constants allow.  What an item may see of the call tree is defined by      *)
(* walks along chains of parents; the lemmas about them are inductions, each  *)
(* made by way of a least counterexample.                                     *)
EXTENDS SavepointGate, WellFoundedInduction, TLAPS

-----------------------------------------------------------------------------
(* Chains of parents.                                                         *)

(* Every nonempty set of numbers has a least element: induction by the least  *)
(* counterexample.                                                            *)
LEMMA HasLeast ==
    ASSUME NEW T \in SUBSET Nat, T # {}
    PROVE  \E x \in T : \A y \in T : x <= y
<1>1. \E x \in T : \A y \in T : ~ (<<y, x>> \in OpToRel(<, Nat))
  BY NatLessThanWellFounded, WFMin
<1>2. PICK x \in T : \A y \in T : ~ (<<y, x>> \in OpToRel(<, Nat))
  BY <1>1
<1>3. \A y \in T : <<y, x>> \in Nat \X Nat
  OBVIOUS
<1>4. \A y \in T : ~ (y < x)
  BY <1>2, <1>3 DEF OpToRel
<1> QED BY <1>4

(* Parents come before their children; f collects what lies on a chain of     *)
(* parents, beginning with z at its end.                                      *)
Descends(par, n) == \A k \in 1..n : par[k] \in 0..(k - 1)
Closes(S) == \A k \in Nat, v \in S : {k} \cup v \in S
Collects(f, par, n, z) == f[0] = z /\ \A k \in 1..n : f[k] = {k} \cup f[par[k]]

(* Such an f exists, by induction on the length of the chains.                *)
LEMMA ChainSets ==
    ASSUME NEW n \in Nat, NEW par, Descends(par, n), NEW S, NEW z \in S, Closes(S)
    PROVE  \E f \in [0..n -> S] : Collects(f, par, n, z)
<1> USE DEF Descends, Closes, Collects
<1> DEFINE Bad == {m \in 0..n : ~ \E f \in [0..m -> S] : Collects(f, par, m, z)}
<1>1. SUFFICES Bad = {}
  <2>1. \E f \in [0..n -> S] : Collects(f, par, n, z)
    <3>1. n \in 0..n
      OBVIOUS
    <3> QED BY <1>1, <3>1
  <2>2. PICK f \in [0..n -> S] : Collects(f, par, n, z)
    BY <2>1
  <2> QED BY <2>2
<1>2. SUFFICES ASSUME Bad # {} PROVE FALSE
  OBVIOUS
<1>3. PICK m \in Bad : \A y \in Bad : m <= y
  <2>1. Bad \in SUBSET Nat
    OBVIOUS
  <2> HIDE DEF Bad
  <2> QED BY <1>2, <2>1, HasLeast
<1>4. m \in 0..n
  OBVIOUS
<1>5. CASE m = 0
  <2> DEFINE f == [k \in 0..0 |-> z]
  <2>1. f \in [0..m -> S] /\ Collects(f, par, m, z)
    BY <1>5
  <2> QED BY <2>1
<1>6. CASE m # 0
  <2>1. m - 1 \in 0..n /\ m - 1 \notin Bad
    <3> HIDE DEF Bad
    <3> QED BY <1>3, <1>4, <1>6
  <2>2. PICK f \in [0..(m-1) -> S] : Collects(f, par, m - 1, z)
    BY <2>1
  <2> DEFINE g == [k \in 0..m |-> IF k < m THEN f[k] ELSE {m} \cup f[par[m]]]
  <2>3. par[m] \in 0..(m-1) /\ m \in 1..n
    BY <1>4, <1>6
  <2>4. g \in [0..m -> S]
    BY <2>3
  <2>5. g[0] = z
    BY <2>2, <1>4, <1>6
  <2>7. /\ \A j \in 0..(m-1) : g[j] = f[j]
        /\ g[m] = {m} \cup f[par[m]]
    BY <1>4, <1>6
  <2> HIDE DEF g
  <2>6. ASSUME NEW k \in 1..m PROVE g[k] = {k} \cup g[par[k]]
    <3>1. par[k] \in 0..(k-1) /\ k \in 1..n
      BY <1>4
    <3>2. CASE k = m
      BY <2>3, <2>7, <3>2
    <3>3. CASE k # m
      <4>1. k \in 1..(m-1)
        BY <3>3, <1>4
      <4>2. f[k] = {k} \cup f[par[k]]
        BY <2>2, <4>1
      <4>3. k \in 0..(m-1) /\ par[k] \in 0..(m-1)
        BY <3>1, <4>1, <1>4
      <4> QED BY <2>7, <4>2, <4>3
    <3> QED BY <3>2, <3>3
  <2> QED BY <2>4, <2>5, <2>6
<1> QED BY <1>5, <1>6

(* What an item sees of the items it before it: the scope it works in, and    *)
(* the call chain it is on, belong to earlier items.                          *)
Shape(it) == /\ Len(it) \in Nat
             /\ \A k \in 1..Len(it) : /\ it[k].token \in 0..(k - 1)
                                      /\ it[k].gop \in 0..(k - 1)

(* TokenWithin and ReentrantOf as functions of the items.                     *)
Within(it, t, a) ==
    LET up[k \in 0..Len(it)] == IF k = a THEN TRUE
                                ELSE IF k = 0 THEN FALSE ELSE up[it[k].token]
    IN  up[t]
Reentrants(it, t) ==
    LET up[k \in 0..Len(it)] == IF k = 0 THEN {} ELSE {k} \cup up[it[k].gop]
    IN  up[t]

(* The two walks along the call tree, as operators of the sequence of items.  *)
LEMMA ChainsOfItems ==
    /\ \A t, a : TokenWithin(t, a) = Within(item, t, a)
    /\ \A t : ReentrantOf(t) = Reentrants(item, t)
BY DEF TokenWithin, Within, ReentrantOf, Reentrants

(* The same after a step.                                                     *)
LEMMA ChainsOfItemsNext ==
    /\ \A t, a : TokenWithin(t, a)' = Within(item', t, a)
    /\ \A t : ReentrantOf(t)' = Reentrants(item', t)
BY DEF TokenWithin, Within, ReentrantOf, Reentrants

(* A scope is inside another if it is that one or its parent is inside it.    *)
LEMMA WithinChain ==
    ASSUME NEW it, Shape(it), NEW a
    PROVE  /\ Within(it, 0, a) <=> a = 0
           /\ \A k \in 1..Len(it) : Within(it, k, a) <=> k = a \/ Within(it, it[k].token, a)
<1> DEFINE n == Len(it)
           Up(f) == [k \in 0..n |-> IF k = a THEN TRUE
                                    ELSE IF k = 0 THEN FALSE ELSE f[it[k].token]]
           par == [k \in 1..n |-> it[k].token]
           up == CHOOSE f : f = Up(f)
<1>1. PICK g \in [0..n -> SUBSET Nat] : Collects(g, par, n, {0})
  <2>1. n \in Nat /\ Descends(par, n)
    BY DEF Shape, Descends
  <2> DEFINE z == {0}
             S == SUBSET Nat
  <2>2. z \in S /\ Closes(S)
    BY DEF Closes
  <2> HIDE DEF n, par, z, S
  <2>3. \E g \in [0..n -> S] : Collects(g, par, n, z)
    BY <2>1, <2>2, ChainSets
  <2> QED BY <2>3 DEF z, S
<1> DEFINE f == [k \in 0..n |-> a \in g[k]]
<1>2. f = Up(f)
  <2>1. ASSUME NEW k \in 1..n
        PROVE  f[k] = IF k = a THEN TRUE ELSE f[it[k].token]
    <3>1. it[k].token \in 0..n /\ par[k] = it[k].token
      BY DEF Shape
    <3>2. g[k] = {k} \cup g[it[k].token]
      BY <1>1, <3>1 DEF Collects
    <3> QED BY <3>1, <3>2
  <2>2. f[0] = (a = 0)
    BY <1>1 DEF Shape, Collects
  <2>3. f = [k \in 0..n |-> f[k]]
    OBVIOUS
  <2> HIDE DEF f
  <2> QED BY <2>1, <2>2, <2>3 DEF Shape
<1>3. up = Up(up)
  BY <1>2
<1>4. \A t : Within(it, t, a) = up[t]
  BY DEF Within
<1> HIDE DEF up
<1>5. \A k \in 0..n : up[k] = IF k = a THEN TRUE
                              ELSE IF k = 0 THEN FALSE ELSE up[it[k].token]
  BY <1>3
<1>6. \A k \in 1..n : it[k].token \in 0..n /\ k # 0 /\ k \in 0..n
  BY DEF Shape
<1>7. 0 \in 0..n
  BY DEF Shape
<1> QED BY <1>4, <1>5, <1>6, <1>7

(* The ops on the call chain of an item: itself, and those of the op around   *)
(* it.                                                                        *)
LEMMA ReentrantsChain ==
    ASSUME NEW it, Shape(it)
    PROVE  /\ Reentrants(it, 0) = {}
           /\ \A k \in 1..Len(it) : Reentrants(it, k) = {k} \cup Reentrants(it, it[k].gop)
<1> DEFINE n == Len(it)
           Up(f) == [k \in 0..n |-> IF k = 0 THEN {} ELSE {k} \cup f[it[k].gop]]
           par == [k \in 1..n |-> it[k].gop]
           up == CHOOSE f : f = Up(f)
<1>1. PICK f \in [0..n -> SUBSET Nat] : Collects(f, par, n, {})
  <2>1. n \in Nat /\ Descends(par, n)
    BY DEF Shape, Descends
  <2> DEFINE z == {}
             S == SUBSET Nat
  <2>2. z \in S /\ Closes(S)
    BY DEF Closes
  <2> HIDE DEF n, par, z, S
  <2>3. \E g \in [0..n -> S] : Collects(g, par, n, z)
    BY <2>1, <2>2, ChainSets
  <2> QED BY <2>3 DEF z, S
<1>2. f = Up(f)
  BY <1>1 DEF Shape, Collects
<1>3. up = Up(up)
  BY <1>2
<1>4. \A t : Reentrants(it, t) = up[t]
  BY DEF Reentrants
<1> HIDE DEF up
<1>5. \A k \in 0..n : up[k] = IF k = 0 THEN {} ELSE {k} \cup up[it[k].gop]
  BY <1>3
<1>6. \A k \in 1..n : it[k].gop \in 0..n /\ k # 0 /\ k \in 0..n
  BY DEF Shape
<1>7. 0 \in 0..n
  BY DEF Shape
<1> QED BY <1>4, <1>5, <1>6, <1>7

(* More work leaves the chains of what was issued as they were.               *)
Extends(jt, it) == /\ Len(it) <= Len(jt)
                   /\ \A k \in 1..Len(it) : jt[k].token = it[k].token /\ jt[k].gop = it[k].gop

(* Issuing more items, or moving one, changes nobody's chains.                *)
LEMMA ChainsKept ==
    ASSUME NEW it, NEW jt, Shape(it), Shape(jt), Extends(jt, it)
    PROVE  /\ \A a : \A t \in 0..Len(it) : Within(jt, t, a) <=> Within(it, t, a)
           /\ \A t \in 0..Len(it) : Reentrants(jt, t) = Reentrants(it, t)
<1>1. ASSUME NEW a PROVE \A t \in 0..Len(it) : Within(jt, t, a) <=> Within(it, t, a)
  <2> DEFINE Bad == {t \in 0..Len(it) : ~ (Within(jt, t, a) <=> Within(it, t, a))}
  <2>1. SUFFICES ASSUME Bad # {} PROVE FALSE
    OBVIOUS
  <2>2. PICK t \in Bad : \A y \in Bad : t <= y
    <3>1. Bad \in SUBSET Nat
      BY DEF Shape
    <3> HIDE DEF Bad
    <3> QED BY <2>1, <3>1, HasLeast
  <2>3. t # 0
    BY WithinChain
  <2>4. t \in 1..Len(it) /\ t \in 1..Len(jt) /\ jt[t].token = it[t].token
    BY <2>3 DEF Extends, Shape
  <2>5. it[t].token \in 0..Len(it) /\ it[t].token < t
    BY <2>4 DEF Shape
  <2>6. it[t].token \notin Bad
    <3> HIDE DEF Bad
    <3> QED BY <2>2, <2>4, <2>5 DEF Shape
  <2>7. Within(jt, it[t].token, a) <=> Within(it, it[t].token, a)
    BY <2>5, <2>6
  <2> QED BY <2>4, <2>7, WithinChain
<1>2. \A t \in 0..Len(it) : Reentrants(jt, t) = Reentrants(it, t)
  <2> DEFINE Bad == {t \in 0..Len(it) : Reentrants(jt, t) # Reentrants(it, t)}
  <2>1. SUFFICES ASSUME Bad # {} PROVE FALSE
    OBVIOUS
  <2>2. PICK t \in Bad : \A y \in Bad : t <= y
    <3>1. Bad \in SUBSET Nat
      BY DEF Shape
    <3> HIDE DEF Bad
    <3> QED BY <2>1, <3>1, HasLeast
  <2>3. t # 0
    BY ReentrantsChain
  <2>4. t \in 1..Len(it) /\ t \in 1..Len(jt) /\ jt[t].gop = it[t].gop
    BY <2>3 DEF Extends, Shape
  <2>5. it[t].gop \in 0..Len(it) /\ it[t].gop < t
    BY <2>4 DEF Shape
  <2>6. it[t].gop \notin Bad
    <3> HIDE DEF Bad
    <3> QED BY <2>2, <2>4, <2>5 DEF Shape
  <2>7. Reentrants(jt, it[t].gop) = Reentrants(it, it[t].gop)
    BY <2>5, <2>6
  <2>8. Reentrants(it, t) = {t} \cup Reentrants(it, it[t].gop)
    BY <2>4, ReentrantsChain
  <2>9. Reentrants(jt, t) = {t} \cup Reentrants(jt, it[t].gop)
    BY <2>4, ReentrantsChain
  <2> QED BY <2>7, <2>8, <2>9
<1> QED BY <1>1, <1>2

-----------------------------------------------------------------------------
(* The inductive invariant.                                                   *)

(* A savepoint's callback runs, or is waited for, only while the savepoint is *)
(* held at the gate; a running savepoint has started its callback.            *)
BodiesRun ==
    /\ \A s \in Items : body[s] # "none" => item[s].st # "queued"
    /\ \A s \in Items : body[s] \in {"open", "drainOk", "drainErr"} => item[s].st = "running"
    /\ \A s \in Issued : Running(s) => body[s] # "none"

(* Whatever runs at the adapter found the barriers before it released, and    *)
(* they stay so; a savepoint found the adapter calls before it settled too.   *)
StartedClear ==
    \A i \in Issued : item[i].st = "running" =>
        /\ item[i].kind # "work" => BarriersBefore(item[i].token, i) = {}
        /\ item[i].kind = "savepoint" => PriorOperations(i) = {}

(* Writes whose fate is unknown make the gate rollback-only at the latest     *)
(* when their savepoint is told to have failed.                               *)
UnknownSeen ==
    \A s \in Items : effect[s] = "unknown" => rollbackOnly \/ (s \in early /\ Running(s))

(* The transaction ended when its own callback was declared settled.          *)
EndedWithRoot ==
    /\ outcome # "none" <=> body[0] \in {"ok", "err"}
    /\ outcome = "commit" => \A s \in Items : effect[s] # "unknown"

GateInv == TypeOK /\ BodiesRun /\ ScopeDrained /\ NoLostFailure /\ StartedClear
           /\ UnknownSeen /\ EndedWithRoot

(* The fresh guard of createTransactionSavepointGate satisfies the            *)
(* invariant.                                                                 *)
LEMMA InitGate == Init => GateInv
<1> SUFFICES ASSUME Init PROVE GateInv
  OBVIOUS
<1>1. item = << >> /\ Issued = {} /\ Len(item) = 0
  BY DEF Init, Issued
<1>2. TypeOK
  BY GateAssumption, <1>1 DEF Init, TypeOK, Scopes, Items, Item
<1>3. \A s \in Scopes : body[s] \in {"open", "none"} /\ (s # 0 => body[s] = "none")
  BY DEF Init
<1>4. BodiesRun /\ StartedClear
  BY <1>1, <1>3 DEF BodiesRun, StartedClear, Items, Scopes
<1>5. ScopeDrained /\ NoLostFailure
  BY <1>1, <1>3 DEF ScopeDrained, NoLostFailure
<1>6. UnknownSeen /\ EndedWithRoot
  BY <1>3, GateAssumption DEF Init, UnknownSeen, EndedWithRoot, Items, Scopes
<1> QED BY <1>2, <1>4, <1>5, <1>6 DEF GateInv

-----------------------------------------------------------------------------
(* Types.                                                                     *)

LEMMA Typed ==
    ASSUME TypeOK
    PROVE  /\ Len(item) \in Nat /\ Len(item) <= MaxItems /\ MaxItems \in Nat
           /\ Issued \subseteq Items
           /\ \A i \in Issued : item[i] \in Item
           /\ \A i \in Issued : item[i].token \in 0..(i - 1) /\ item[i].gop \in 0..(i - 1)
                                                            /\ item[i].trp \in 0..(i - 1)
           /\ Shape(item)
<1>1. /\ Len(item) \in Nat /\ Len(item) <= MaxItems /\ MaxItems \in Nat
      /\ Issued \subseteq Items
      /\ \A i \in Issued : item[i] \in Item
  BY GateAssumption DEF TypeOK, Issued, Items
<1>2. ASSUME NEW i \in Issued
      PROVE  /\ item[i].token \in 0..(i - 1) /\ item[i].gop \in 0..(i - 1)
             /\ item[i].trp \in 0..(i - 1)
  <2>1. item[i].token \in Scopes /\ item[i].gop \in Scopes /\ item[i].trp \in Scopes
    BY <1>1 DEF Item
  <2>2. item[i].token < i /\ item[i].gop < i /\ item[i].trp < i
    BY DEF TypeOK
  <2>3. i \in Nat
    BY DEF Issued
  <2> QED BY <2>1, <2>2, <2>3, <1>1 DEF Scopes
<1>3. Shape(item)
  BY <1>1, <1>2 DEF Shape, Issued
<1> QED BY <1>1, <1>2, <1>3

(* An item that is issued keeps the types: its scope has started, its         *)
(* parents are earlier.                                                       *)
LEMMA AddTypeOK ==
    ASSUME TypeOK, NEW kind \in Kinds, NEW token \in Scopes, NEW gop \in Scopes,
           NEW trp \in Scopes, NEW by \in Scopes,
           token <= Len(item), gop <= Len(item), trp <= Len(item),
           body[token] # "none",
           gop # 0 => item[gop].kind = "op",
           trp # 0 => item[trp].token = token,
           Add(kind, token, gop, trp, by)
    PROVE  TypeOK'
<1> DEFINE n == Len(item) + 1
<1>1. PICK new \in Item : /\ item' = Append(item, new)
                          /\ new.token = token /\ new.gop = gop /\ new.trp = trp
  <2> DEFINE new == [kind |-> kind, token |-> token, gop |-> gop, trp |-> trp, by |-> by,
                     handled |-> FALSE,
                     st |-> IF \/ kind = "savepoint"
                               \/ kind = "op" /\ BarriersBefore(token, Len(item) + 1) # {}
                            THEN "queued" ELSE "running"]
  <2>1. item' = Append(item, new)
    BY DEF Add
  <2>2. new \in Item
    BY DEF Item, Kinds
  <2> QED BY <2>1, <2>2
<1>2. /\ Len(item') = n /\ n \in Items
      /\ item'[n] = new
      /\ \A i \in Issued : item'[i] = item[i]
      /\ item' \in Seq(Item)
      /\ Issued' = Issued \cup {n}
  BY <1>1, Typed DEF Add, TypeOK, Issued, Items
<1>3. UNCHANGED <<body, snap, early, twice, rollbackOnly, effect, outcome>>
  BY DEF Add
<1>4. \A i \in Issued' :
          /\ item'[i].token < i /\ item'[i].gop < i /\ item'[i].trp < i
          /\ body[item'[i].token] # "none"
          /\ item'[i].gop # 0 => item'[item'[i].gop].kind = "op"
          /\ item'[i].trp # 0 => item'[item'[i].trp].token = item'[i].token
  <2> SUFFICES ASSUME NEW i \in Issued'
               PROVE  /\ item'[i].token < i /\ item'[i].gop < i /\ item'[i].trp < i
                      /\ body[item'[i].token] # "none"
                      /\ item'[i].gop # 0 => item'[item'[i].gop].kind = "op"
                      /\ item'[i].trp # 0 => item'[item'[i].trp].token = item'[i].token
    OBVIOUS
  <2>1. CASE i = n
    <3>1. gop # 0 => gop \in Issued
      BY Typed DEF Issued, Scopes
    <3>2. trp # 0 => trp \in Issued
      BY Typed DEF Issued, Scopes
    <3>3. token < n /\ gop < n /\ trp < n
      BY Typed DEF Scopes
    <3> QED BY <1>1, <1>2, <2>1, <3>1, <3>2, <3>3
  <2>2. CASE i # n
    <3>1. i \in Issued /\ item'[i] = item[i]
      BY <1>2, <2>2
    <3>2. item[i].gop # 0 => item[i].gop \in Issued
      BY <3>1, Typed DEF Issued
    <3>3. item[i].trp # 0 => item[i].trp \in Issued
      BY <3>1, Typed DEF Issued
    <3> QED BY <1>2, <3>1, <3>2, <3>3 DEF TypeOK
  <2> QED BY <2>1, <2>2
<1>5. \A s \in Items : body[s] # "none" => s \in Issued' /\ item'[s].kind = "savepoint"
  BY <1>2 DEF TypeOK
<1>6. Len(item') <= MaxItems
  BY <1>2 DEF Items
<1> HIDE DEF n
<1> QED BY <1>2, <1>3, <1>4, <1>5, <1>6 DEF TypeOK

(* What changes of an item that was issued is how it stands.                  *)
LEMMA SetTypeOK ==
    ASSUME TypeOK, item' \in Seq(Item), Len(item') = Len(item),
           \A k \in Issued : /\ item'[k].kind = item[k].kind
                             /\ item'[k].token = item[k].token
                             /\ item'[k].gop = item[k].gop
                             /\ item'[k].trp = item[k].trp,
           body' \in [Scopes -> {"none", "open", "drainOk", "drainErr", "ok", "err"}],
           \A s \in Scopes : body'[s] = body[s] \/ (body[s] # "none" /\ body'[s] # "none")
                                \/ (s \in Issued /\ item[s].kind = "savepoint" /\ body'[s] # "none"),
           snap' \in [Scopes -> SUBSET Items],
           early' \subseteq Items, twice' \subseteq Items, rollbackOnly' \in BOOLEAN,
           effect' \in [Items -> {"none", "kept", "undone", "unknown"}],
           outcome' \in {"none", "commit", "rollback"}
    PROVE  TypeOK'
<1>1. Issued' = Issued
  BY DEF Issued
<1>2. \A i \in Issued :
          /\ item'[i].token < i /\ item'[i].gop < i /\ item'[i].trp < i
          /\ body'[item'[i].token] # "none"
          /\ item'[i].gop # 0 => item'[item'[i].gop].kind = "op"
          /\ item'[i].trp # 0 => item'[item'[i].trp].token = item'[i].token
  <2> SUFFICES ASSUME NEW i \in Issued
               PROVE  /\ item'[i].token < i /\ item'[i].gop < i /\ item'[i].trp < i
                      /\ body'[item'[i].token] # "none"
                      /\ item'[i].gop # 0 => item'[item'[i].gop].kind = "op"
                      /\ item'[i].trp # 0 => item'[item'[i].trp].token = item'[i].token
    OBVIOUS
  <2>1. item[i].gop # 0 => item[i].gop \in Issued
    BY Typed DEF Issued
  <2>2. item[i].trp # 0 => item[i].trp \in Issued
    BY Typed DEF Issued
  <2>3. item[i].token \in Scopes /\ body[item[i].token] # "none"
    BY Typed DEF TypeOK, Item
  <2>4. body'[item[i].token] # "none"
    BY <2>3
  <2>5. /\ item'[i].token = item[i].token /\ item'[i].gop = item[i].gop
        /\ item'[i].trp = item[i].trp
    OBVIOUS
  <2>6. item[i].gop # 0 => item'[item[i].gop].kind = "op"
    BY <2>1 DEF TypeOK
  <2>7. item[i].trp # 0 => item'[item[i].trp].token = item[i].token
    BY <2>2 DEF TypeOK
  <2>8. item[i].token < i /\ item[i].gop < i /\ item[i].trp < i
    BY DEF TypeOK
  <2> QED BY <2>4, <2>5, <2>6, <2>7, <2>8
<1>3. \A s \in Items : body'[s] # "none" => s \in Issued /\ item'[s].kind = "savepoint"
  <2> SUFFICES ASSUME NEW s \in Items, body'[s] # "none"
               PROVE  s \in Issued /\ item'[s].kind = "savepoint"
    OBVIOUS
  <2>1. s \in Scopes
    BY GateAssumption DEF Items, Scopes
  <2>2. s \in Issued /\ item[s].kind = "savepoint"
    BY <2>1 DEF TypeOK
  <2> QED BY <2>2
<1> QED BY <1>1, <1>2, <1>3 DEF TypeOK

-----------------------------------------------------------------------------
(* What every step does to the items.                                         *)

(* An item keeps its place and, once settled, its result; nothing new is      *)
(* tracked in a scope that was declared settled.                              *)
Goes == /\ Extends(item', item)
        /\ \A k \in Issued : /\ item'[k].kind = item[k].kind
                             /\ Settled(k) => item'[k].st = item[k].st
                             /\ item[k].handled => item'[k].handled
        /\ \A k \in Issued' \ Issued : /\ item'[k].st \in {"queued", "running"}
                                       /\ body[item'[k].token] \notin {"ok", "err"}

Moved(i, st) == item' = [item EXCEPT ![i].st = st]
Caught(i) == item' = [item EXCEPT ![i].handled = TRUE]

(* What a step that settles or starts one item leaves alone.                  *)
LEMMA MoveItem ==
    ASSUME TypeOK, NEW i \in Issued, ~ Settled(i), NEW st \in {"running", "ok", "failed"},
           Moved(i, st)
    PROVE  /\ item' \in Seq(Item) /\ Len(item') = Len(item) /\ Issued' = Issued
           /\ \A k \in Issued : /\ item'[k].kind = item[k].kind
                                /\ item'[k].token = item[k].token
                                /\ item'[k].gop = item[k].gop
                                /\ item'[k].trp = item[k].trp
                                /\ item'[k].handled = item[k].handled
                                /\ item'[k].st = IF k = i THEN st ELSE item[k].st
           /\ Goes
<1>1. /\ item' \in Seq(Item) /\ Len(item') = Len(item) /\ Issued' = Issued
  <2>1. [item[i] EXCEPT !.st = st] \in Item
    BY Typed DEF Item
  <2>2. item' = [item EXCEPT ![i] = [item[i] EXCEPT !.st = st]]
    BY DEF Moved
  <2>3. item' \in Seq(Item) /\ Len(item') = Len(item)
    BY <2>1, <2>2, Typed DEF TypeOK, Issued
  <2> QED BY <2>3 DEF Issued
<1>2. \A k \in Issued : /\ item'[k].kind = item[k].kind
                        /\ item'[k].token = item[k].token
                        /\ item'[k].gop = item[k].gop
                        /\ item'[k].trp = item[k].trp
                        /\ item'[k].handled = item[k].handled
                        /\ item'[k].st = IF k = i THEN st ELSE item[k].st
  BY Typed DEF Moved, TypeOK, Issued, Item
<1>3. Goes
  BY <1>1, <1>2, Typed DEF Goes, Extends, Settled, Issued
<1> QED BY <1>1, <1>2, <1>3

(* What a rejection handler leaves alone.                                     *)
LEMMA HandleItem ==
    ASSUME TypeOK, NEW i \in Issued, Caught(i)
    PROVE  /\ item' \in Seq(Item) /\ Len(item') = Len(item) /\ Issued' = Issued
           /\ \A k \in Issued : /\ item'[k].kind = item[k].kind
                                /\ item'[k].token = item[k].token
                                /\ item'[k].gop = item[k].gop
                                /\ item'[k].trp = item[k].trp
                                /\ item'[k].st = item[k].st
                                /\ item[k].handled => item'[k].handled
           /\ \A k \in Issued : k # i => item'[k] = item[k]
           /\ Goes
<1>1. /\ item' \in Seq(Item) /\ Len(item') = Len(item) /\ Issued' = Issued
  <2>1. [item[i] EXCEPT !.handled = TRUE] \in Item
    BY Typed DEF Item
  <2>2. item' = [item EXCEPT ![i] = [item[i] EXCEPT !.handled = TRUE]]
    BY DEF Caught
  <2>3. item' \in Seq(Item) /\ Len(item') = Len(item)
    BY <2>1, <2>2, Typed DEF TypeOK, Issued
  <2> QED BY <2>3 DEF Issued
<1>2. \A k \in Issued : k # i => item'[k] = item[k]
  BY DEF Caught, TypeOK, Issued
<1>3. /\ item'[i].kind = item[i].kind /\ item'[i].token = item[i].token
      /\ item'[i].gop = item[i].gop /\ item'[i].trp = item[i].trp
      /\ item'[i].st = item[i].st /\ item'[i].handled = TRUE
  BY Typed DEF Caught, TypeOK, Issued, Item
<1>4. \A k \in Issued : /\ item'[k].kind = item[k].kind
                        /\ item'[k].token = item[k].token
                        /\ item'[k].gop = item[k].gop
                        /\ item'[k].trp = item[k].trp
                        /\ item'[k].st = item[k].st
                        /\ item[k].handled => item'[k].handled
  BY <1>2, <1>3
<1>5. Goes
  BY <1>1, <1>4, Typed DEF Goes, Extends, Settled, Issued
<1> QED BY <1>1, <1>2, <1>4, <1>5

(* Steps of a scope leave the items as they are.                              *)
LEMMA SameItems ==
    ASSUME TypeOK, UNCHANGED item
    PROVE  Goes /\ Issued' = Issued
BY Typed DEF Goes, Extends, Settled, Issued

(* What was cleared for an item stays cleared.                                *)
LEMMA ClearKept ==
    ASSUME TypeOK, TypeOK', Goes, NEW i \in Issued
    PROVE  /\ BarriersBefore(item[i].token, i) = {} => BarriersBefore(item[i].token, i)' = {}
           /\ PriorOperations(i) = {} => PriorOperations(i)' = {}
<1>1. /\ Issued \subseteq Issued'
      /\ \A j \in Issued' : j < i => j \in Issued
      /\ \A j \in Issued : /\ item'[j].token = item[j].token /\ item'[j].kind = item[j].kind
                           /\ item'[j].gop = item[j].gop
                           /\ Settled(j) => Settled(j)'
  <2>1. Len(item) <= Len(item') /\ Len(item) \in Nat /\ Len(item') \in Nat
    BY Typed DEF Goes, Extends, TypeOK
  <2>2. \A j \in Issued : /\ item'[j].token = item[j].token /\ item'[j].kind = item[j].kind
                          /\ item'[j].gop = item[j].gop
                          /\ Settled(j) => Settled(j)'
    BY DEF Goes, Extends, Settled, Issued
  <2> QED BY <2>1, <2>2 DEF Issued
<1>2. ASSUME NEW j \in BarriersBefore(item[i].token, i)'
      PROVE  j \in BarriersBefore(item[i].token, i)
  <2>1. /\ j \in Issued' /\ j < i /\ item'[j].kind = "savepoint"
        /\ item'[j].token = item'[i].token /\ ~ Settled(j)'
    BY <1>2 DEF BarriersBefore
  <2> QED BY <1>1, <2>1 DEF BarriersBefore
<1>3. ASSUME NEW j \in PriorOperations(i)'
      PROVE  j \in PriorOperations(i)
  <2>1. /\ j \in Issued' /\ j < i /\ item'[j].kind = "op" /\ ~ Settled(j)'
        /\ IF item'[i].token = 0 THEN item'[j].token = 0
           ELSE Within(item', item'[j].token, item'[i].token)
        /\ j \notin Reentrants(item', item'[i].gop)
    BY <1>3, ChainsOfItems, ChainsOfItemsNext DEF PriorOperations
  <2>2. /\ j \in Issued /\ item[j].kind = "op" /\ ~ Settled(j)
        /\ item'[i].token = item[i].token /\ item'[j].token = item[j].token
        /\ item'[i].gop = item[i].gop
    BY <1>1, <2>1
  <2>3. Shape(item) /\ Shape(item') /\ Extends(item', item)
    <3>1. Shape(item)'
      BY Typed, PTL
    <3> QED BY <3>1, Typed DEF Goes
  <2>4. item[j].token \in 0..Len(item) /\ item[i].gop \in 0..Len(item)
    BY <2>2, Typed DEF Issued
  <2>5. /\ Within(item', item[j].token, item[i].token) <=> Within(item, item[j].token, item[i].token)
        /\ Reentrants(item', item[i].gop) = Reentrants(item, item[i].gop)
    BY <2>3, <2>4, ChainsKept
  <2> QED BY <2>1, <2>2, <2>5, ChainsOfItems DEF PriorOperations
<1> QED BY <1>2, <1>3

(* A scope that was declared settled stays drained, its failures handled.     *)
LEMMA DrainedKept ==
    ASSUME TypeOK, Goes, ScopeDrained, NoLostFailure
    PROVE  /\ \A s \in Scopes : body[s] \in {"ok", "err"} => Pending(s)' = {}
           /\ \A s \in Scopes, i \in Issued' :
                 body[s] = "ok" /\ item'[i].token = s /\ item'[i].st = "failed" => item'[i].handled
<1>1. \A i \in Issued : /\ item'[i].token = item[i].token
                        /\ Settled(i) => item'[i].st = item[i].st
                        /\ item[i].handled => item'[i].handled
  BY DEF Goes, Extends, Issued
<1>2. \A i \in Issued, s \in Scopes : body[s] \in {"ok", "err"} /\ item[i].token = s => Settled(i)
  BY DEF ScopeDrained, Pending
<1>3. ASSUME NEW s \in Scopes, body[s] \in {"ok", "err"}, NEW i \in Pending(s)'
      PROVE  FALSE
  <2>1. i \in Issued' /\ item'[i].token = s /\ item'[i].st \notin {"ok", "failed"}
    BY <1>3 DEF Pending, Settled
  <2>2. i \in Issued
    BY <2>1, <1>3 DEF Goes
  <2> QED BY <1>1, <1>2, <1>3, <2>1, <2>2 DEF Settled
<1>4. ASSUME NEW s \in Scopes, NEW i \in Issued', body[s] = "ok", item'[i].token = s,
             item'[i].st = "failed"
      PROVE  item'[i].handled
  <2>1. i \in Issued
    BY <1>4 DEF Goes
  <2>2. item[i].token = s /\ item[i].st = "failed"
    BY <1>1, <1>2, <1>4, <2>1
  <2> QED BY <1>1, <1>4, <2>1, <2>2 DEF NoLostFailure
<1> QED BY <1>3, <1>4

(* Work that has not settled belongs to a scope that is still held open: the  *)
(* transaction, or a savepoint that is running.                               *)
LEMMA ScopeHeld ==
    ASSUME TypeOK, BodiesRun, ScopeDrained, NEW i \in Issued, ~ Settled(i)
    PROVE  /\ body[item[i].token] \in {"open", "drainOk", "drainErr"}
           /\ item[i].token # 0 => item[i].token \in Issued /\ Running(item[i].token)
<1> DEFINE q == item[i].token
<1>1. q \in Scopes /\ body[q] # "none" /\ i \in Pending(q)
  BY Typed DEF TypeOK, Item, Pending
<1>2. body[q] \in {"open", "drainOk", "drainErr"}
  BY <1>1 DEF ScopeDrained, TypeOK
<1>3. ASSUME q # 0 PROVE q \in Issued /\ Running(q)
  <2>1. q \in Items
    BY <1>1, <1>3, GateAssumption DEF Scopes, Items
  <2> QED BY <1>1, <1>2, <2>1 DEF TypeOK, BodiesRun, Running
<1> QED BY <1>2, <1>3

(* When the transaction's own callback was declared settled, everything is.   *)
LEMMA AllSettled ==
    ASSUME TypeOK, BodiesRun, ScopeDrained,
           Pending(0) = {}
    PROVE  \A i \in Issued : Settled(i)
<1> DEFINE Bad == {i \in Issued : ~ Settled(i)}
<1>1. SUFFICES ASSUME Bad # {} PROVE FALSE
  OBVIOUS
<1>2. PICK i \in Bad : \A y \in Bad : i <= y
  <2>1. Bad \in SUBSET Nat
    BY DEF Issued
  <2> HIDE DEF Bad
  <2> QED BY <1>1, <2>1, HasLeast
<1>3. item[i].token # 0
  BY DEF Pending
<1>4. item[i].token \in Issued /\ ~ Settled(item[i].token) /\ item[i].token < i
  BY <1>3, ScopeHeld, Typed DEF Running, Settled, TypeOK
<1>5. item[i].token \in Bad
  BY <1>4
<1> QED BY <1>2, <1>4, <1>5 DEF Issued

-----------------------------------------------------------------------------
(* Each action preserves the invariant.                                       *)

LEMMA AddInv ==
    ASSUME GateInv, TypeOK', NEW kind \in Kinds, NEW token \in Scopes, NEW gop \in Scopes,
           NEW trp \in Scopes, NEW by \in Scopes, body[token] # "none",
           trp # 0 => trp \in Issued /\ item[trp].token = token /\ ~ Settled(trp),
           Add(kind, token, gop, trp, by)
    PROVE  GateInv'
<1> DEFINE n == Len(item) + 1
<1> USE DEF GateInv
<1>1. /\ Len(item') = n /\ Issued' = Issued \cup {n} /\ n \notin Issued
      /\ item'[n].token = token /\ item'[n].kind = kind
      /\ item'[n].st = IF \/ kind = "savepoint"
                          \/ kind = "op" /\ BarriersBefore(token, n) # {}
                       THEN "queued" ELSE "running"
      /\ \A i \in Issued : item'[i] = item[i]
  BY Typed DEF Add, TypeOK, Issued
<1>2. UNCHANGED <<body, snap, early, twice, rollbackOnly, effect, outcome>>
  BY DEF Add
<1>3. body[token] \notin {"ok", "err"}
  <2>1. CASE trp = 0
    BY <2>1 DEF Add, Admitted, Closed
  <2>2. CASE trp # 0
    BY <2>2, ScopeHeld
  <2> QED BY <2>1, <2>2
<1>4. Goes
  BY <1>1, <1>3, Typed DEF Goes, Extends, Settled, Issued
<1>5. BodiesRun'
  <2>1. \A s \in Items : body[s] # "none" => s \in Issued
    BY DEF TypeOK
  <2>2. ~ (item'[n].kind = "savepoint" /\ item'[n].st = "running")
    BY <1>1
  <2> QED BY <1>1, <1>2, <2>1, <2>2 DEF BodiesRun, Running
<1>6. ScopeDrained' /\ NoLostFailure'
  BY <1>2, <1>4, DrainedKept DEF ScopeDrained, NoLostFailure
<1>7. StartedClear'
  <2> SUFFICES ASSUME NEW i \in Issued', item'[i].st = "running"
               PROVE  /\ item'[i].kind # "work" => BarriersBefore(item[i].token, i)' = {}
                      /\ item'[i].kind = "savepoint" => PriorOperations(i)' = {}
    BY DEF StartedClear
  <2>1. CASE i \in Issued
    <3>1. item[i].st = "running" /\ item'[i].kind = item[i].kind
      BY <1>1, <2>1
    <3>2. /\ item[i].kind # "work" => BarriersBefore(item[i].token, i) = {}
          /\ item[i].kind = "savepoint" => PriorOperations(i) = {}
      BY <2>1, <3>1 DEF StartedClear
    <3> QED BY <1>4, <2>1, <3>1, <3>2, ClearKept
  <2>2. CASE i = n
    <3>1. item'[i].kind # "savepoint"
      BY <1>1, <2>2
    <3>2. ASSUME kind # "work" PROVE BarriersBefore(token, i)' = {}
      <4>1. kind = "op" /\ BarriersBefore(token, n) = {}
        BY <1>1, <2>2, <3>2 DEF Kinds
      <4> QED BY <1>1, <2>2, <4>1, Typed DEF BarriersBefore, Settled, Issued
    <3>3. item'[i].kind # "work" => BarriersBefore(item[i].token, i)' = {}
      BY <1>1, <2>2, <3>2 DEF BarriersBefore
    <3> QED BY <3>1, <3>3
  <2> QED BY <1>1, <2>1, <2>2
<1>8. UnknownSeen' /\ EndedWithRoot'
  BY <1>1, <1>2 DEF UnknownSeen, EndedWithRoot, Running
<1> QED BY <1>5, <1>6, <1>7, <1>8

(* Work issued by the callback of a scope, while it runs or after it          *)
(* returned.                                                                  *)
LEMMA IssueFromBodyInv ==
    ASSUME GateInv, NEW a \in Scopes, NEW b \in Scopes, NEW kind \in Kinds,
           IssueFromBody(a, b, kind)
    PROVE  GateInv'
<1> USE DEF GateInv
<1> DEFINE token == ResolveToken(a, b)
           gop == IF a = 0 THEN 0 ELSE item[a].gop
<1>1. a \in BodyFrames /\ b \in BodyFrames /\ Add(kind, token, gop, 0, 0)
  BY DEF IssueFromBody
<1>2. token \in {a, b}
  BY DEF ResolveToken
<1>3. \A s \in Scopes : body[s] # "none" => s \in 0..Len(item)
  BY Typed, GateAssumption DEF TypeOK, Scopes, Items, Issued
<1>4. token \in Scopes /\ token <= Len(item) /\ body[token] # "none"
  BY <1>1, <1>2, <1>3 DEF BodyFrames
<1>5. gop \in Scopes /\ gop <= Len(item) /\ (gop # 0 => item[gop].kind = "op")
  <2>1. CASE a = 0
    BY <2>1, Typed DEF Scopes
  <2>2. CASE a # 0
    <3>1. a \in Issued
      BY <1>1, <1>3, <2>2 DEF BodyFrames, Issued
    <3> QED BY <2>2, <3>1, Typed DEF TypeOK, Scopes, Issued
  <2> QED BY <2>1, <2>2
<1> HIDE DEF token, gop
<1>6. 0 \in Scopes /\ 0 <= Len(item)
  BY Typed DEF Scopes
<1>7. TypeOK'
  BY <1>1, <1>4, <1>5, <1>6, AddTypeOK
<1> QED BY <1>1, <1>4, <1>5, <1>6, <1>7, AddInv

(* Work issued by code under an adapter call or tracked work.                 *)
LEMMA IssueFromItemInv ==
    ASSUME GateInv, NEW i \in Items, NEW b \in Scopes, NEW kind \in Kinds,
           IssueFromItem(i, b, kind)
    PROVE  GateInv'
<1> USE DEF GateInv
<1> DEFINE token == ResolveToken(item[i].token, b)
           gop == IF item[i].kind = "op" THEN i ELSE item[i].gop
           trp == IF token = item[i].token THEN i ELSE 0
<1>1. i \in ItemFrames /\ b \in BodyFrames /\ Add(kind, token, gop, trp, i)
  BY DEF IssueFromItem
<1>2. token \in {item[i].token, b}
  BY DEF ResolveToken
<1>3. i \in Issued /\ ~ Settled(i)
  BY <1>1 DEF ItemFrames, Settled
<1>4. b \in 0..Len(item)
  BY <1>1, Typed, GateAssumption DEF TypeOK, Scopes, Items, Issued, BodyFrames
<1>5. token \in Scopes /\ token <= Len(item) /\ body[token] # "none"
  <2>1. item[i].token \in Scopes /\ item[i].token <= Len(item) /\ body[item[i].token] # "none"
    BY <1>3, Typed DEF TypeOK, Scopes, Issued
  <2> QED BY <1>1, <1>2, <1>4, <2>1 DEF BodyFrames
<1>6. gop \in Scopes /\ gop <= Len(item) /\ (gop # 0 => item[gop].kind = "op")
  BY <1>3, Typed DEF TypeOK, Scopes, Issued
<1>7. /\ trp \in Scopes /\ trp <= Len(item)
      /\ trp # 0 => trp \in Issued /\ item[trp].token = token /\ ~ Settled(trp)
  BY <1>3, Typed DEF Scopes, Issued
<1>8. i \in Scopes
  BY GateAssumption DEF Items, Scopes
<1> HIDE DEF token, gop, trp
<1>9. TypeOK'
  BY <1>1, <1>5, <1>6, <1>7, <1>8, AddTypeOK
<1> QED BY <1>1, <1>5, <1>6, <1>7, <1>8, <1>9, AddInv

(* A call or tracked work starts or settles: no scope and no savepoint moves. *)
LEMMA MoveInv ==
    ASSUME GateInv, NEW i \in Issued, ~ Settled(i), NEW st \in {"running", "ok", "failed"},
           item[i].kind # "savepoint",
           st = "running" => item[i].kind = "op" /\ BarriersBefore(item[i].token, i) = {},
           Moved(i, st),
           UNCHANGED <<body, snap, early, twice, rollbackOnly, effect, outcome>>
    PROVE  GateInv'
<1> USE DEF GateInv
<1>1. /\ item' \in Seq(Item) /\ Len(item') = Len(item) /\ Issued' = Issued
      /\ \A k \in Issued : /\ item'[k].kind = item[k].kind
                           /\ item'[k].token = item[k].token
                           /\ item'[k].gop = item[k].gop
                           /\ item'[k].trp = item[k].trp
                           /\ item'[k].st = IF k = i THEN st ELSE item[k].st
      /\ Goes
  BY MoveItem
<1>2. TypeOK'
  BY <1>1, SetTypeOK DEF TypeOK
<1>3. BodiesRun'
  <2>1. \A s \in Items : body[s] # "none" => s \in Issued /\ item[s].kind = "savepoint"
    BY DEF TypeOK
  <2> QED BY <1>1, <2>1 DEF BodiesRun, Running
<1>4. ScopeDrained' /\ NoLostFailure'
  BY <1>1, DrainedKept DEF ScopeDrained, NoLostFailure
<1>5. StartedClear'
  <2> SUFFICES ASSUME NEW k \in Issued, item'[k].st = "running"
               PROVE  /\ item'[k].kind # "work" => BarriersBefore(item[k].token, k)' = {}
                      /\ item'[k].kind = "savepoint" => PriorOperations(k)' = {}
    BY <1>1 DEF StartedClear
  <2>1. /\ item[k].kind # "work" => BarriersBefore(item[k].token, k) = {}
        /\ item[k].kind = "savepoint" => PriorOperations(k) = {}
    BY <1>1 DEF StartedClear
  <2> QED BY <1>1, <1>2, <2>1, ClearKept
<1>6. UnknownSeen' /\ EndedWithRoot'
  BY <1>1 DEF UnknownSeen, EndedWithRoot, Running
<1> QED BY <1>2, <1>3, <1>4, <1>5, <1>6

(* A rejection handler completes.                                             *)
LEMMA CatchInv ==
    ASSUME GateInv, NEW i \in Items, NEW f \in Scopes, Catch(i, f)
    PROVE  GateInv'
<1> USE DEF GateInv
<1>1. i \in Issued /\ Caught(i)
      /\ UNCHANGED <<body, snap, early, twice, rollbackOnly, effect, outcome>>
  BY DEF Catch, Caught
<1>2. /\ item' \in Seq(Item) /\ Len(item') = Len(item) /\ Issued' = Issued
      /\ \A k \in Issued : /\ item'[k].kind = item[k].kind
                           /\ item'[k].token = item[k].token
                           /\ item'[k].gop = item[k].gop
                           /\ item'[k].trp = item[k].trp
                           /\ item'[k].st = item[k].st
      /\ Goes
  BY <1>1, HandleItem
<1>3. TypeOK'
  BY <1>1, <1>2, SetTypeOK DEF TypeOK
<1>4. BodiesRun'
  <2>1. \A s \in Items : body[s] # "none" => s \in Issued
    BY DEF TypeOK
  <2> QED BY <1>1, <1>2, <2>1 DEF BodiesRun, Running
<1>5. ScopeDrained' /\ NoLostFailure'
  BY <1>1, <1>2, DrainedKept DEF ScopeDrained, NoLostFailure
<1>6. StartedClear'
  <2> SUFFICES ASSUME NEW k \in Issued, item'[k].st = "running"
               PROVE  /\ item'[k].kind # "work" => BarriersBefore(item[k].token, k)' = {}
                      /\ item'[k].kind = "savepoint" => PriorOperations(k)' = {}
    BY <1>2 DEF StartedClear
  <2>1. /\ item[k].kind # "work" => BarriersBefore(item[k].token, k) = {}
        /\ item[k].kind = "savepoint" => PriorOperations(k) = {}
    BY <1>2 DEF StartedClear
  <2> QED BY <1>2, <1>3, <2>1, ClearKept
<1>7. UnknownSeen' /\ EndedWithRoot'
  BY <1>1, <1>2 DEF UnknownSeen, EndedWithRoot, Running
<1> QED BY <1>3, <1>4, <1>5, <1>6, <1>7

(* A savepoint reaches the adapter: its barriers and prior operations are     *)
(* gone.                                                                      *)
LEMMA StartSavepointInv ==
    ASSUME GateInv, NEW s \in Items, StartSavepoint(s)
    PROVE  GateInv'
<1> USE DEF GateInv
<1>1. /\ s \in Issued /\ item[s].kind = "savepoint" /\ item[s].st = "queued" /\ ~ Settled(s)
      /\ BarriersBefore(item[s].token, s) = {} /\ PriorOperations(s) = {}
      /\ Moved(s, "running")
      /\ body' = [body EXCEPT ![s] = "open"]
      /\ UNCHANGED <<snap, early, twice, rollbackOnly, effect, outcome>>
  BY DEF StartSavepoint, Settled, Moved
<1>2. /\ item' \in Seq(Item) /\ Len(item') = Len(item) /\ Issued' = Issued
      /\ \A k \in Issued : /\ item'[k].kind = item[k].kind
                           /\ item'[k].token = item[k].token
                           /\ item'[k].gop = item[k].gop
                           /\ item'[k].trp = item[k].trp
                           /\ item'[k].st = IF k = s THEN "running" ELSE item[k].st
      /\ Goes
  BY <1>1, MoveItem
<1>3. s \in Scopes /\ s # 0 /\ body[s] = "none"
  BY <1>1, GateAssumption DEF Items, Scopes, BodiesRun
<1>4. /\ body' \in [Scopes -> {"none", "open", "drainOk", "drainErr", "ok", "err"}]
      /\ \A t \in Scopes : body'[t] = IF t = s THEN "open" ELSE body[t]
  BY <1>1, <1>3 DEF TypeOK
<1>5. TypeOK'
  <2>1. \A t \in Scopes : body'[t] = body[t] \/ (body[t] # "none" /\ body'[t] # "none")
                                \/ (t \in Issued /\ item[t].kind = "savepoint" /\ body'[t] # "none")
    BY <1>1, <1>4
  <2> QED BY <1>1, <1>2, <1>4, <2>1, SetTypeOK DEF TypeOK
<1>6. Items \subseteq Scopes
  BY GateAssumption DEF Items, Scopes
<1>7. BodiesRun'
  <2>1. \A t \in Items : body[t] # "none" => t \in Issued
    BY DEF TypeOK
  <2>2. ASSUME NEW t \in Items, body'[t] # "none"
        PROVE  /\ item'[t].st # "queued"
               /\ body'[t] \in {"open", "drainOk", "drainErr"} => item'[t].st = "running"
    BY <1>1, <1>2, <1>4, <1>6, <2>1, <2>2 DEF BodiesRun
  <2>3. ASSUME NEW t \in Issued, Running(t)'
        PROVE  body'[t] # "none"
    <3>1. t \in Scopes
      BY <1>6, Typed
    <3> QED BY <1>2, <1>4, <2>3, <3>1 DEF BodiesRun, Running
  <2> QED BY <1>2, <2>2, <2>3 DEF BodiesRun
<1>8. ScopeDrained' /\ NoLostFailure'
  <2>1. \A t \in Scopes : body'[t] \in {"ok", "err"} => body[t] = body'[t]
    BY <1>4
  <2> QED BY <1>2, <2>1, DrainedKept DEF ScopeDrained, NoLostFailure
<1>9. StartedClear'
  <2> SUFFICES ASSUME NEW k \in Issued, item'[k].st = "running"
               PROVE  /\ item'[k].kind # "work" => BarriersBefore(item[k].token, k)' = {}
                      /\ item'[k].kind = "savepoint" => PriorOperations(k)' = {}
    BY <1>2 DEF StartedClear
  <2>1. /\ item[k].kind # "work" => BarriersBefore(item[k].token, k) = {}
        /\ item[k].kind = "savepoint" => PriorOperations(k) = {}
    BY <1>1, <1>2 DEF StartedClear
  <2> QED BY <1>2, <1>5, <2>1, ClearKept
<1>10. UnknownSeen' /\ EndedWithRoot'
  <2>1. 0 \in Scopes
    BY GateAssumption DEF Scopes
  <2>2. body'[0] = body[0]
    BY <2>1, <1>3, <1>4
  <2> QED BY <1>1, <1>2, <2>2 DEF UnknownSeen, EndedWithRoot, Running
<1> QED BY <1>5, <1>7, <1>8, <1>9, <1>10

(* A savepoint leaves the gate: its callback was declared settled, or never   *)
(* ran.                                                                       *)
LEMMA LeaveInv ==
    ASSUME GateInv, NEW s \in Issued, ~ Settled(s), NEW st \in {"ok", "failed"},
           item[s].kind = "savepoint", body[s] \in {"none", "ok", "err"},
           Moved(s, st), UNCHANGED <<body, snap, early, twice, outcome>>,
           rollbackOnly' \in BOOLEAN, rollbackOnly => rollbackOnly',
           effect' \in [Items -> {"none", "kept", "undone", "unknown"}],
           \A t \in Items : t # s => effect'[t] = effect[t],
           effect'[s] = "unknown" => rollbackOnly'
    PROVE  GateInv'
<1> USE DEF GateInv
<1>1. /\ item' \in Seq(Item) /\ Len(item') = Len(item) /\ Issued' = Issued
      /\ \A k \in Issued : /\ item'[k].kind = item[k].kind
                           /\ item'[k].token = item[k].token
                           /\ item'[k].gop = item[k].gop
                           /\ item'[k].trp = item[k].trp
                           /\ item'[k].st = IF k = s THEN st ELSE item[k].st
      /\ Goes
  BY MoveItem
<1>2. TypeOK'
  BY <1>1, SetTypeOK DEF TypeOK
<1>3. BodiesRun'
  <2>1. \A t \in Items : body[t] # "none" => t \in Issued
    BY DEF TypeOK
  <2> QED BY <1>1, <2>1 DEF BodiesRun, Running
<1>4. ScopeDrained' /\ NoLostFailure'
  BY <1>1, DrainedKept DEF ScopeDrained, NoLostFailure
<1>5. StartedClear'
  <2> SUFFICES ASSUME NEW k \in Issued, item'[k].st = "running"
               PROVE  /\ item'[k].kind # "work" => BarriersBefore(item[k].token, k)' = {}
                      /\ item'[k].kind = "savepoint" => PriorOperations(k)' = {}
    BY <1>1 DEF StartedClear
  <2>1. /\ item[k].kind # "work" => BarriersBefore(item[k].token, k) = {}
        /\ item[k].kind = "savepoint" => PriorOperations(k) = {}
    BY <1>1 DEF StartedClear
  <2> QED BY <1>1, <1>2, <2>1, ClearKept
<1>6. UnknownSeen'
  <2> SUFFICES ASSUME NEW t \in Items, effect'[t] = "unknown"
               PROVE  rollbackOnly' \/ (t \in early /\ Running(t)')
    BY DEF UnknownSeen
  <2>1. CASE t = s
    BY <2>1
  <2>2. CASE t # s
    BY <1>1, <2>2 DEF UnknownSeen, Running
  <2> QED BY <2>1, <2>2
<1>7. EndedWithRoot'
  <2>1. 0 \in Scopes
    BY GateAssumption DEF Scopes
  <2>2. body[0] \notin {"ok", "err"}
    <3> SUFFICES ASSUME body[0] \in {"ok", "err"} PROVE FALSE
      OBVIOUS
    <3>1. Pending(0) = {}
      BY <2>1 DEF ScopeDrained
    <3> QED BY <3>1, AllSettled
  <2> QED BY <2>2 DEF EndedWithRoot
<1> QED BY <1>2, <1>3, <1>4, <1>5, <1>6, <1>7

(* The adapter refuses a savepoint without running its callback.              *)
LEMMA SkipSavepointInv ==
    ASSUME GateInv, NEW s \in Items, SkipSavepoint(s)
    PROVE  GateInv'
<1> USE DEF GateInv
<1>1. /\ s \in Issued /\ ~ Settled(s) /\ item[s].kind = "savepoint" /\ body[s] = "none"
      /\ Moved(s, "failed")
      /\ UNCHANGED <<body, snap, early, twice, rollbackOnly, effect, outcome>>
  BY DEF SkipSavepoint, Settled, Moved, BodiesRun
<1>2. effect[s] # "unknown" \/ rollbackOnly
  BY <1>1 DEF UnknownSeen, Running, SkipSavepoint
<1> QED BY <1>1, <1>2, LeaveInv DEF TypeOK

(* The adapter's savepoint call settles after the callback.                   *)
LEMMA AdapterSettlesInv ==
    ASSUME GateInv, NEW s \in Items, NEW resolved \in BOOLEAN, AdapterSettles(s, resolved)
    PROVE  GateInv'
<1> USE DEF GateInv
<1> DEFINE lied == resolved /\ body[s] = "err"
           st == IF resolved /\ body[s] = "ok" /\ s \notin twice THEN "ok" ELSE "failed"
           e == IF lied THEN "unknown" ELSE IF resolved THEN "kept" ELSE "undone"
<1>1. /\ s \in Issued /\ ~ Settled(s) /\ item[s].kind = "savepoint"
      /\ body[s] \in {"ok", "err"}
      /\ Moved(s, st)
      /\ effect' = [effect EXCEPT ![s] = e]
      /\ rollbackOnly' = (rollbackOnly \/ lied)
      /\ UNCHANGED <<body, snap, early, twice, outcome>>
  BY DEF AdapterSettles, Running, Settled, Moved
<1>2. st \in {"ok", "failed"} /\ e \in {"kept", "undone", "unknown"} /\ lied \in BOOLEAN
  OBVIOUS
<1>3. e = "unknown" => lied
  OBVIOUS
<1> HIDE DEF lied, st, e
<1>4. /\ effect' \in [Items -> {"none", "kept", "undone", "unknown"}]
      /\ \A t \in Items : t # s => effect'[t] = effect[t]
      /\ effect'[s] = e
  BY <1>1, <1>2 DEF TypeOK
<1>5. rollbackOnly' \in BOOLEAN /\ (rollbackOnly => rollbackOnly') /\ (lied => rollbackOnly')
  BY <1>1, <1>2 DEF TypeOK
<1> QED BY <1>1, <1>2, <1>3, <1>4, <1>5, LeaveInv

(* A call that settled too early fails the savepoint and the transaction.     *)
LEMMA EarlyDetectedInv ==
    ASSUME GateInv, NEW s \in Items, EarlyDetected(s)
    PROVE  GateInv'
<1> USE DEF GateInv
<1>1. /\ s \in Issued /\ ~ Settled(s) /\ item[s].kind = "savepoint"
      /\ body[s] \in {"ok", "err"}
      /\ Moved(s, "failed")
      /\ rollbackOnly' = TRUE
      /\ UNCHANGED <<body, snap, early, twice, effect, outcome>>
  BY DEF EarlyDetected, Running, Settled, Moved
<1> QED BY <1>1, LeaveInv DEF TypeOK

(* Steps that leave the items alone.                                          *)
LEMMA SameItemsInv ==
    ASSUME GateInv, UNCHANGED item
    PROVE  /\ Goes /\ Issued' = Issued
           /\ StartedClear'
           /\ \A i \in Issued : Running(i)' <=> Running(i)
           /\ \A s \in Scopes : Pending(s)' = Pending(s)
<1>1. Goes /\ Issued' = Issued
  BY SameItems DEF GateInv
<1>2. StartedClear'
  <2>1. \A i \in Issued : BarriersBefore(item[i].token, i)' = BarriersBefore(item[i].token, i)
    BY <1>1 DEF BarriersBefore, Settled
  <2>2. \A i \in Issued : PriorOperations(i)' = PriorOperations(i)
    BY <1>1, ChainsOfItems, ChainsOfItemsNext DEF PriorOperations, Settled
  <2> QED BY <1>1, <2>1, <2>2 DEF GateInv, StartedClear
<1>3. \A i \in Issued : Running(i)' <=> Running(i)
  BY <1>1 DEF Running
<1>4. \A s \in Scopes : Pending(s)' = Pending(s)
  BY <1>1 DEF Pending, Settled
<1> QED BY <1>1, <1>2, <1>3, <1>4

(* The callback of a scope returns or throws.                                 *)
LEMMA CloseBodyInv ==
    ASSUME GateInv, NEW s \in Scopes, NEW how \in {"drainOk", "drainErr"}, CloseBody(s, how)
    PROVE  GateInv'
<1> USE DEF GateInv
<1>1. /\ body[s] = "open"
      /\ body' = [body EXCEPT ![s] = how]
      /\ snap' = [snap EXCEPT ![s] = Pending(s)]
      /\ UNCHANGED <<item, early, twice, rollbackOnly, effect, outcome>>
  BY DEF CloseBody
<1>2. /\ body' \in [Scopes -> {"none", "open", "drainOk", "drainErr", "ok", "err"}]
      /\ \A t \in Scopes : body'[t] = IF t = s THEN how ELSE body[t]
  BY <1>1 DEF TypeOK
<1>3. TypeOK'
  <2>1. Pending(s) \subseteq Items
    BY Typed DEF Pending
  <2>2. snap' \in [Scopes -> SUBSET Items]
    BY <1>1, <2>1 DEF TypeOK
  <2>3. \A t \in Scopes : body'[t] = body[t] \/ (body[t] # "none" /\ body'[t] # "none")
    BY <1>1, <1>2
  <2> QED BY <1>1, <1>2, <2>2, <2>3, SetTypeOK DEF TypeOK
<1>4. Goes /\ Issued' = Issued /\ StartedClear'
      /\ \A i \in Issued : Running(i)' <=> Running(i)
  BY <1>1, SameItemsInv
<1>5. Items \subseteq Scopes /\ 0 \in Scopes
  BY GateAssumption DEF Items, Scopes
<1>6. BodiesRun'
  <2>1. \A t \in Items : body'[t] # "none" =>
           /\ body[t] # "none"
           /\ body'[t] \in {"open", "drainOk", "drainErr"} => body[t] \in {"open", "drainOk", "drainErr"}
    BY <1>1, <1>2, <1>5
  <2>2. \A t \in Issued : body[t] # "none" => body'[t] # "none"
    BY <1>1, <1>2, <1>5, Typed
  <2> QED BY <1>1, <1>4, <2>1, <2>2 DEF BodiesRun
<1>7. ScopeDrained' /\ NoLostFailure'
  <2>1. \A t \in Scopes : body'[t] \in {"ok", "err"} => body[t] = body'[t]
    BY <1>2
  <2> QED BY <1>4, <2>1, DrainedKept DEF ScopeDrained, NoLostFailure
<1>8. UnknownSeen' /\ EndedWithRoot'
  <2>1. body'[0] \in {"ok", "err"} <=> body[0] \in {"ok", "err"}
    BY <1>1, <1>2, <1>5
  <2>2. \A t \in Items : Running(t) => Running(t)'
    BY <1>4 DEF Running
  <2> QED BY <1>1, <2>1, <2>2 DEF UnknownSeen, EndedWithRoot
<1> QED BY <1>3, <1>4, <1>6, <1>7, <1>8

(* The wait goes round again.                                                 *)
LEMMA DrainAgainInv ==
    ASSUME GateInv, NEW s \in Scopes, DrainAgain(s)
    PROVE  GateInv'
<1> USE DEF GateInv
<1>1. /\ snap' = [snap EXCEPT ![s] = Pending(s)]
      /\ UNCHANGED <<item, body, early, twice, rollbackOnly, effect, outcome>>
  BY DEF DrainAgain
<1>2. snap' \in [Scopes -> SUBSET Items]
  <2>1. Pending(s) \subseteq Items
    BY Typed DEF Pending
  <2> QED BY <1>1, <2>1 DEF TypeOK
<1>3. TypeOK'
  BY <1>1, <1>2, SetTypeOK DEF TypeOK
<1>4. Goes /\ Issued' = Issued /\ StartedClear'
  BY <1>1, SameItemsInv
<1>5. ScopeDrained' /\ NoLostFailure'
  BY <1>1, <1>4, DrainedKept DEF ScopeDrained, NoLostFailure
<1>6. BodiesRun' /\ UnknownSeen' /\ EndedWithRoot'
  BY <1>1, <1>4 DEF BodiesRun, UnknownSeen, EndedWithRoot, Running
<1> QED BY <1>3, <1>4, <1>5, <1>6

(* A scope is declared settled, the transaction itself included.              *)
LEMMA EndBodyInv ==
    ASSUME GateInv, NEW s \in Scopes, EndBody(s)
    PROVE  GateInv'
<1> USE DEF GateInv
<1> DEFINE good == body[s] = "drainOk" /\ Unhandled(s) = {} /\ ~ rollbackOnly
<1>1. /\ body[s] \in {"drainOk", "drainErr"} /\ Pending(s) = {}
      /\ body' = [body EXCEPT ![s] = IF good THEN "ok" ELSE "err"]
      /\ outcome' = IF s # 0 THEN outcome ELSE IF good THEN "commit" ELSE "rollback"
      /\ snap' = [snap EXCEPT ![s] = {}]
      /\ UNCHANGED <<item, early, twice, rollbackOnly, effect>>
  BY DEF EndBody, DrainComplete
<1>2. /\ body' \in [Scopes -> {"none", "open", "drainOk", "drainErr", "ok", "err"}]
      /\ body'[s] = IF good THEN "ok" ELSE "err"
      /\ \A t \in Scopes : t # s => body'[t] = body[t]
  BY <1>1 DEF TypeOK
<1>3. TypeOK'
  <2>1. snap' \in [Scopes -> SUBSET Items] /\ outcome' \in {"none", "commit", "rollback"}
    BY <1>1 DEF TypeOK
  <2>2. \A t \in Scopes : body'[t] = body[t] \/ (body[t] # "none" /\ body'[t] # "none")
    BY <1>1, <1>2
  <2> HIDE DEF good
  <2> QED BY <1>1, <1>2, <2>1, <2>2, SetTypeOK DEF TypeOK
<1>4. /\ Goes /\ Issued' = Issued /\ StartedClear'
      /\ \A i \in Issued : Running(i)' <=> Running(i)
      /\ \A t \in Scopes : Pending(t)' = Pending(t)
  BY <1>1, SameItemsInv
<1>5. Items \subseteq Scopes /\ 0 \in Scopes
  BY GateAssumption DEF Items, Scopes
<1>6. BodiesRun'
  <2>1. \A t \in Items : body'[t] # "none" => body[t] # "none"
    BY <1>1, <1>2, <1>5
  <2>2. \A t \in Items : body'[t] \in {"open", "drainOk", "drainErr"} => body'[t] = body[t]
    BY <1>2, <1>5
  <2>3. \A t \in Issued : body[t] # "none" => body'[t] # "none"
    BY <1>2, <1>5, Typed
  <2> QED BY <1>1, <1>4, <2>1, <2>2, <2>3 DEF BodiesRun
<1>7. ScopeDrained'
  BY <1>1, <1>2, <1>4 DEF ScopeDrained
<1>8. NoLostFailure'
  <2> SUFFICES ASSUME NEW t \in Scopes, NEW i \in Issued, body'[t] = "ok",
                      item[i].token = t, item[i].st = "failed"
               PROVE  item[i].handled
    BY <1>1, <1>4 DEF NoLostFailure
  <2>1. CASE t = s
    BY <1>2, <2>1 DEF Unhandled
  <2>2. CASE t # s
    BY <1>2, <2>2 DEF NoLostFailure
  <2> QED BY <2>1, <2>2
<1>9. UnknownSeen'
  BY <1>1 DEF UnknownSeen, Running, Issued
<1>10. EndedWithRoot'
  <2>1. CASE s # 0
    BY <1>1, <1>2, <1>5, <2>1 DEF EndedWithRoot
  <2>2. CASE s = 0
    <3>1. outcome' # "none" /\ body'[0] \in {"ok", "err"}
      BY <1>1, <1>2, <2>2
    <3>2. ASSUME good, NEW t \in Items PROVE effect[t] # "unknown"
      <4>1. ~ Running(t)
        BY <1>1, <2>2, AllSettled DEF Running, Settled
      <4> QED BY <3>2, <4>1 DEF UnknownSeen
    <3> QED BY <1>1, <2>2, <3>1, <3>2 DEF EndedWithRoot
  <2> QED BY <2>1, <2>2
<1> HIDE DEF good
<1> QED BY <1>3, <1>4, <1>6, <1>7, <1>8, <1>9, <1>10

(* The adapter's call settles while the callback runs.                        *)
LEMMA AdapterSettlesEarlyInv ==
    ASSUME GateInv, NEW s \in Items, AdapterSettlesEarly(s)
    PROVE  GateInv'
<1> USE DEF GateInv
<1>1. /\ Running(s)
      /\ early' = early \cup {s}
      /\ effect' = [effect EXCEPT ![s] = "unknown"]
      /\ UNCHANGED <<item, body, snap, twice, rollbackOnly, outcome>>
  BY DEF AdapterSettlesEarly
<1>2. /\ effect' \in [Items -> {"none", "kept", "undone", "unknown"}]
      /\ \A t \in Items : t # s => effect'[t] = effect[t]
      /\ early' \subseteq Items
  BY <1>1 DEF TypeOK
<1>3. TypeOK'
  BY <1>1, <1>2, SetTypeOK DEF TypeOK
<1>4. Goes /\ Issued' = Issued /\ StartedClear'
  BY <1>1, SameItemsInv
<1>5. ScopeDrained' /\ NoLostFailure'
  BY <1>1, <1>4, DrainedKept DEF ScopeDrained, NoLostFailure
<1>6. BodiesRun' /\ UnknownSeen'
  BY <1>1, <1>2, <1>4 DEF BodiesRun, UnknownSeen, Running
<1>7. EndedWithRoot'
  <2>1. 0 \in Scopes
    BY GateAssumption DEF Scopes
  <2>2. outcome = "none"
    <3>1. ~ Settled(s) /\ s \in Issued
      BY <1>1 DEF Running, Settled
    <3> QED BY <2>1, <3>1, AllSettled DEF ScopeDrained, EndedWithRoot
  <2> QED BY <1>1, <2>2 DEF EndedWithRoot
<1> QED BY <1>3, <1>4, <1>5, <1>6, <1>7

(* The adapter runs the callback once more.                                   *)
LEMMA CallbackAgainInv ==
    ASSUME GateInv, NEW s \in Items, CallbackAgain(s)
    PROVE  GateInv'
<1> USE DEF GateInv
<1>1. /\ twice' = twice \cup {s} /\ rollbackOnly' = TRUE
      /\ UNCHANGED <<item, body, snap, early, effect, outcome>>
  BY DEF CallbackAgain
<1>2. TypeOK'
  BY <1>1, SetTypeOK DEF TypeOK
<1>3. Goes /\ Issued' = Issued /\ StartedClear'
  BY <1>1, SameItemsInv
<1>4. ScopeDrained' /\ NoLostFailure'
  BY <1>1, <1>3, DrainedKept DEF ScopeDrained, NoLostFailure
<1>5. BodiesRun' /\ UnknownSeen' /\ EndedWithRoot'
  BY <1>1, <1>3 DEF BodiesRun, UnknownSeen, EndedWithRoot, Running
<1> QED BY <1>2, <1>3, <1>4, <1>5

(* Stuttering.                                                                *)
LEMMA StutterInv ==
    ASSUME GateInv, UNCHANGED vars
    PROVE  GateInv'
<1> USE DEF GateInv
<1>1. UNCHANGED <<item, body, snap, early, twice, rollbackOnly, effect, outcome>>
  BY DEF vars
<1>2. TypeOK'
  BY <1>1, SetTypeOK DEF TypeOK
<1>3. Goes /\ Issued' = Issued /\ StartedClear'
  BY <1>1, SameItemsInv
<1>4. ScopeDrained' /\ NoLostFailure'
  BY <1>1, <1>3, DrainedKept DEF ScopeDrained, NoLostFailure
<1>5. BodiesRun' /\ UnknownSeen' /\ EndedWithRoot'
  BY <1>1, <1>3 DEF BodiesRun, UnknownSeen, EndedWithRoot, Running
<1> QED BY <1>2, <1>3, <1>4, <1>5

(* Every step of the guard keeps the invariant.                               *)
LEMMA NextInv == GateInv /\ [Next]_vars => GateInv'
<1> SUFFICES ASSUME GateInv, [Next]_vars PROVE GateInv'
  OBVIOUS
<1>1. ASSUME NEW i \in Items, StartOp(i) PROVE GateInv'
  <2>1. /\ i \in Issued /\ ~ Settled(i) /\ item[i].kind = "op"
        /\ BarriersBefore(item[i].token, i) = {}
        /\ Moved(i, "running")
        /\ UNCHANGED <<body, snap, early, twice, rollbackOnly, effect, outcome>>
    BY <1>1 DEF StartOp, Settled, Moved
  <2> QED BY <2>1, MoveInv
<1>2. ASSUME NEW i \in Items, NEW st \in {"ok", "failed"}, Settle(i, st) PROVE GateInv'
  <2>1. /\ i \in Issued /\ ~ Settled(i) /\ item[i].kind # "savepoint"
        /\ Moved(i, st)
        /\ UNCHANGED <<body, snap, early, twice, rollbackOnly, effect, outcome>>
    BY <1>2 DEF Settle, Settled, Moved
  <2> QED BY <2>1, MoveInv
<1>3. CASE \E s \in Items : StartSavepoint(s)
  BY <1>3, StartSavepointInv
<1>4. CASE \E s \in Scopes : \/ \E how \in {"drainOk", "drainErr"} : CloseBody(s, how)
                             \/ DrainAgain(s)
                             \/ EndBody(s)
  BY <1>4, CloseBodyInv, DrainAgainInv, EndBodyInv
<1>5. CASE \E s \in Items : \/ \E resolved \in BOOLEAN : AdapterSettles(s, resolved)
                            \/ EarlyDetected(s)
  BY <1>5, AdapterSettlesInv, EarlyDetectedInv
<1>6. CASE \E a, b \in Scopes, kind \in Kinds : IssueFromBody(a, b, kind)
  BY <1>6, IssueFromBodyInv
<1>7. CASE \E i \in Items, b \in Scopes, kind \in Kinds : IssueFromItem(i, b, kind)
  BY <1>7, IssueFromItemInv
<1>8. CASE \E i \in Items, f \in Scopes : Catch(i, f)
  BY <1>8, CatchInv
<1>9. CASE \E s \in Items : SkipSavepoint(s) \/ AdapterSettlesEarly(s) \/ CallbackAgain(s)
  BY <1>9, SkipSavepointInv, AdapterSettlesEarlyInv, CallbackAgainInv
<1>10. CASE UNCHANGED vars
  BY <1>10, StutterInv
<1> QED BY <1>1, <1>2, <1>3, <1>4, <1>5, <1>6, <1>7, <1>8, <1>9, <1>10
        DEF Next, Progress, Environment

(* The inductive invariant of the operation tracker and the savepoint gate:   *)
(* types and the shape of the call tree, callbacks run only while their       *)
(* savepoint is held, settled scopes are drained, no failure lost, what runs  *)
(* has nothing to wait for, and unknown writes are noticed                    *)
(* (createTransactionOperationTracker, createTransactionSavepointGate).       *)
THEOREM GateInvHolds == Spec => []GateInv
BY InitGate, NextInv, PTL DEF Spec

-----------------------------------------------------------------------------
(* Isolation.  Two open savepoints are nested: take the outermost two that    *)
(* are not; they would be siblings, and the later one would have waited.      *)

(* Below a scope p on the chain of t there is a child of p.                   *)
LEMMA ChildOnChain ==
    ASSUME TypeOK, BodiesRun, ScopeDrained, NEW p \in 0..Len(item), NEW t \in Issued,
           Running(t), t # p, Within(item, t, p)
    PROVE  \E c \in Issued : Running(c) /\ item[c].token = p /\ Within(item, t, c)
<1> DEFINE Bad == {k \in Issued : /\ Running(k) /\ k # p /\ Within(item, k, p)
                                  /\ ~ \E c \in Issued : /\ Running(c) /\ item[c].token = p
                                                         /\ Within(item, k, c)}
<1>1. SUFFICES ASSUME Bad # {} PROVE FALSE
  <2>1. t \notin Bad
    BY <1>1
  <2> QED BY <2>1
<1>2. PICK k \in Bad : \A y \in Bad : k <= y
  <2>1. Bad \in SUBSET Nat
    BY DEF Issued
  <2> HIDE DEF Bad
  <2> QED BY <1>1, <2>1, HasLeast
<1> DEFINE q == item[k].token
<1>3. Shape(item)
  BY Typed
<1>4. k \in 1..Len(item) /\ Within(item, q, p) /\ Within(item, k, k)
  BY <1>3, WithinChain DEF Issued
<1>5. q # p
  BY <1>4
<1>6. q # 0
  <2> SUFFICES ASSUME q = 0 PROVE FALSE
    OBVIOUS
  <2>1. Within(item, 0, p)
    BY <1>4
  <2> QED BY <1>3, <1>5, <2>1, WithinChain
<1>7. q \in Issued /\ Running(q) /\ q < k
  <2>1. ~ Settled(k)
    BY DEF Running, Settled
  <2> QED BY <1>6, <2>1, ScopeHeld, Typed DEF TypeOK
<1>8. q \notin Bad
  <2> HIDE DEF Bad
  <2> QED BY <1>2, <1>4, <1>7 DEF Issued
<1>9. PICK c \in Issued : Running(c) /\ item[c].token = p /\ Within(item, q, c)
  BY <1>4, <1>5, <1>7, <1>8
<1>10. Within(item, k, c)
  BY <1>3, <1>4, <1>9, WithinChain
<1> QED BY <1>9, <1>10

(* Siblings do not run together.                                              *)
LEMMA OneSibling ==
    ASSUME TypeOK, StartedClear, NEW c \in Issued, NEW d \in Issued,
           Running(c), Running(d), item[c].token = item[d].token
    PROVE  c = d
<1>1. /\ d \notin BarriersBefore(item[c].token, c)
      /\ c \notin BarriersBefore(item[d].token, d)
  BY DEF StartedClear, Running
<1> QED BY <1>1 DEF BarriersBefore, Running, Settled, Issued

(* Every scope is inside the transaction.                                     *)
LEMMA RootAboveAll ==
    ASSUME NEW it, Shape(it), NEW t \in 0..Len(it)
    PROVE  Within(it, t, 0)
<1> DEFINE Bad == {k \in 0..Len(it) : ~ Within(it, k, 0)}
<1>1. SUFFICES ASSUME Bad # {} PROVE FALSE
  OBVIOUS
<1>2. PICK k \in Bad : \A y \in Bad : k <= y
  <2>1. Bad \in SUBSET Nat
    BY DEF Shape
  <2> HIDE DEF Bad
  <2> QED BY <1>1, <2>1, HasLeast
<1>3. k \in 1..Len(it) /\ ~ Within(it, it[k].token, 0)
  <2>1. k # 0
    BY WithinChain
  <2>2. k \in 1..Len(it)
    BY <2>1 DEF Shape
  <2> QED BY <2>2, WithinChain
<1>4. it[k].token \in Bad /\ it[k].token < k
  BY <1>3 DEF Shape
<1> HIDE DEF Bad
<1> QED BY <1>2, <1>3, <1>4 DEF Shape

(* Two savepoints that run are nested: below the scope where their chains     *)
(* part two siblings would run.                                               *)
LEMMA RunningNested ==
    ASSUME TypeOK, BodiesRun, ScopeDrained, StartedClear
    PROVE  \A s, t \in Issued : Running(s) /\ Running(t) => Within(item, s, t) \/ Within(item, t, s)
<1> DEFINE Bad == {s \in Issued : Running(s) /\ \E t \in Issued :
                      /\ Running(t)
                      /\ ~ Within(item, s, t) /\ ~ Within(item, t, s)}
<1>1. SUFFICES ASSUME Bad # {} PROVE FALSE
  OBVIOUS
<1>2. PICK s \in Bad : \A y \in Bad : s <= y
  <2>1. Bad \in SUBSET Nat
    BY DEF Issued
  <2> HIDE DEF Bad
  <2> QED BY <1>1, <2>1, HasLeast
<1>3. PICK t \in Issued : Running(t) /\ ~ Within(item, s, t) /\ ~ Within(item, t, s)
  OBVIOUS
<1> DEFINE p == item[s].token
<1>4. Shape(item) /\ s \in Issued /\ t \in Issued /\ p \in 0..Len(item) /\ p < s
  BY Typed DEF Issued
<1>5. t # p /\ ~ Within(item, p, t)
  <2>1. ~ Within(item, p, t)
    BY <1>3, <1>4, WithinChain DEF Issued
  <2>2. Within(item, t, t)
    BY <1>4, WithinChain DEF Issued
  <2> QED BY <2>1, <2>2
<1>6. Within(item, t, p)
  <2>1. CASE p = 0
    BY <1>4, <2>1, RootAboveAll DEF Issued
  <2>2. CASE p # 0
    <3>1. p \in Issued /\ Running(p)
      BY <1>4, <2>2, ScopeHeld DEF Running, Settled
    <3>2. p \notin Bad
      <4> HIDE DEF Bad
      <4> QED BY <1>2, <1>4, <3>1 DEF Issued
    <3> QED BY <1>3, <1>5, <3>1, <3>2
  <2> QED BY <2>1, <2>2
<1>7. PICK c \in Issued : Running(c) /\ item[c].token = p /\ Within(item, t, c)
  BY <1>3, <1>4, <1>5, <1>6, ChildOnChain
<1>8. c = s
  BY <1>4, <1>7, OneSibling
<1> QED BY <1>3, <1>7, <1>8

(* The invariant implies isolation, by the least counterexample along the     *)
(* chain of scopes.                                                           *)
LEMMA IsolationFollows == GateInv => SavepointIsolation
<1> SUFFICES ASSUME GateInv, NEW s \in Issued, Running(s)
             PROVE  /\ \A i \in Issued : item[i].kind = "op" /\ item[i].st = "running" =>
                          \/ TokenWithin(item[i].token, s)
                          \/ \E t \in Issued : TokenWithin(s, t) /\ i \in ReentrantOf(item[t].gop)
                    /\ \A t \in Issued : Running(t) => TokenWithin(s, t) \/ TokenWithin(t, s)
  BY DEF SavepointIsolation
<1> USE DEF GateInv
<1>1. \A t \in Issued : Running(t) => TokenWithin(s, t) \/ TokenWithin(t, s)
  BY RunningNested, ChainsOfItems
<1>2. ASSUME NEW i \in Issued, item[i].kind = "op", item[i].st = "running"
      PROVE  \/ TokenWithin(item[i].token, s)
             \/ \E t \in Issued : TokenWithin(s, t) /\ i \in ReentrantOf(item[t].gop)
  <2> DEFINE q == item[i].token
  <2>1. q \in 0..Len(item) /\ (q # 0 => q \in Issued /\ Running(q)) /\ Shape(item)
    <3>1. ~ Settled(i)
      BY <1>2 DEF Settled
    <3>2. q \in 0..Len(item) /\ Shape(item)
      BY Typed DEF Issued
    <3> QED BY <3>1, <3>2, ScopeHeld
  <2>2. SUFFICES ASSUME ~ Within(item, q, s)
                 PROVE  \E t \in Issued : Within(item, s, t) /\ i \in Reentrants(item, item[t].gop)
    BY ChainsOfItems
  <2>3. q # s
    BY <2>1, <2>2, WithinChain DEF Issued
  <2>4. Within(item, s, q)
    <3>1. CASE q = 0
      BY <2>1, <3>1, RootAboveAll DEF Issued
    <3>2. CASE q # 0
      BY <2>1, <2>2, <3>2, RunningNested
    <3> QED BY <3>1, <3>2
  <2>5. PICK c \in Issued : Running(c) /\ item[c].token = q /\ Within(item, s, c)
    BY <2>1, <2>3, <2>4, ChildOnChain
  <2>6. ~ (c < i)
    <3>1. c \notin BarriersBefore(q, i)
      BY <1>2 DEF StartedClear
    <3> QED BY <2>5, <3>1 DEF BarriersBefore, Running, Settled
  <2>7. i < c
    BY <1>2, <2>5, <2>6 DEF Issued, Running
  <2>8. i \notin PriorOperations(c)
    BY <2>5 DEF StartedClear, Running
  <2>9. IF item[c].token = 0 THEN item[i].token = 0 ELSE TokenWithin(item[i].token, item[c].token)
    BY <2>1, <2>5, ChainsOfItems, WithinChain DEF Issued
  <2>10. i \in ReentrantOf(item[c].gop)
    BY <1>2, <2>7, <2>8, <2>9 DEF PriorOperations, Settled
  <2> QED BY <2>5, <2>10, ChainsOfItems
<1> QED BY <1>1, <1>2

-----------------------------------------------------------------------------
(* What a settled scope decided stays decided.                                *)

LEMMA SettledKept ==
    ASSUME TypeOK, ScopeDrained, NEW s \in Scopes, body[s] \in {"ok", "err"}
    PROVE  \A i \in Issued : item[i].token = s => Settled(i)
BY DEF ScopeDrained, Pending

ItemsFrozen(s) ==
    \A k \in 1..Len(item') : item'[k].token = s => k \in Issued /\ item'[k] = item[k]
Frozen(s) == body'[s] = body[s] /\ ItemsFrozen(s)

(* No step touches what a settled scope decided.                              *)
LEMMA FrozenStep ==
    ASSUME GateInv, GateInv', [Next]_vars, NEW s \in Scopes, body[s] \in {"ok", "err"}
    PROVE  Frozen(s)
<1> USE DEF GateInv, Frozen, ItemsFrozen
<1>1. \A i \in Issued : item[i].token = s => Settled(i)
  BY SettledKept
<1>2. Issued \subseteq Items /\ Issued = 1..Len(item)
  BY Typed DEF Issued
<1>3. ASSUME NEW i \in Issued, ~ Settled(i), NEW st, Moved(i, st)
      PROVE  ItemsFrozen(s)
  <2>1. item[i].token # s
    BY <1>1, <1>3
  <2>2. Len(item') = Len(item) /\ \A k \in Issued : k # i => item'[k] = item[k]
    BY <1>3 DEF Moved, TypeOK, Issued
  <2>3. item'[i].token = item[i].token
    BY <1>3, Typed DEF Moved, TypeOK, Issued, Item
  <2> QED BY <1>2, <2>1, <2>2, <2>3
<1>4. ASSUME UNCHANGED item
      PROVE  ItemsFrozen(s)
  BY <1>2, <1>4
<1>5. ASSUME NEW kind, NEW token, NEW gop, NEW trp, NEW by,
             trp # 0 => trp \in Issued /\ item[trp].token = token /\ ~ Settled(trp),
             Add(kind, token, gop, trp, by)
      PROVE  Frozen(s)
  <2>1. token # s
    BY <1>1, <1>5 DEF Add, Admitted, Closed
  <2>2. /\ Len(item') = Len(item) + 1 /\ item'[Len(item) + 1].token = token
        /\ \A k \in Issued : item'[k] = item[k]
    BY <1>5, Typed DEF Add, TypeOK, Issued
  <2>3. body' = body
    BY <1>5 DEF Add
  <2> QED BY <1>2, <2>1, <2>2, <2>3, Typed
<1>6. ASSUME NEW i \in Items, StartOp(i) \/ \E st \in {"ok", "failed"} : Settle(i, st)
      PROVE  Frozen(s)
  <2>1. i \in Issued /\ ~ Settled(i) /\ body' = body
    BY <1>6 DEF StartOp, Settle, Settled
  <2>2. \E st : Moved(i, st)
    BY <1>6 DEF StartOp, Settle, Moved
  <2> QED BY <1>3, <2>1, <2>2
<1>7. ASSUME NEW t \in Items, StartSavepoint(t)
      PROVE  Frozen(s)
  <2>1. /\ t \in Issued /\ item[t].st = "queued" /\ ~ Settled(t) /\ Moved(t, "running")
        /\ body' = [body EXCEPT ![t] = "open"]
    BY <1>7 DEF StartSavepoint, Settled, Moved
  <2>2. t # s
    BY <2>1 DEF BodiesRun
  <2> QED BY <1>3, <2>1, <2>2 DEF TypeOK
<1>8. ASSUME NEW t \in Scopes, \/ \E how \in {"drainOk", "drainErr"} : CloseBody(t, how)
                               \/ DrainAgain(t)
                               \/ EndBody(t)
      PROVE  Frozen(s)
  <2>1. item' = item
    BY <1>8 DEF CloseBody, DrainAgain, EndBody
  <2>2. body[t] \in {"open", "drainOk", "drainErr"}
    BY <1>8 DEF CloseBody, DrainAgain, EndBody
  <2>3. body' = body \/ \E v : body' = [body EXCEPT ![t] = v]
    BY <1>8 DEF CloseBody, DrainAgain, EndBody
  <2> QED BY <1>4, <2>1, <2>2, <2>3 DEF TypeOK
<1>9. ASSUME NEW t \in Items, \/ \E resolved \in BOOLEAN : AdapterSettles(t, resolved)
                              \/ EarlyDetected(t) \/ SkipSavepoint(t)
      PROVE  Frozen(s)
  <2>1. t \in Issued /\ ~ Settled(t) /\ body' = body
    BY <1>9 DEF AdapterSettles, EarlyDetected, SkipSavepoint, Running, Settled
  <2>2. \E st : Moved(t, st)
    BY <1>9 DEF AdapterSettles, EarlyDetected, SkipSavepoint, Moved
  <2> QED BY <1>3, <2>1, <2>2
<1>10. ASSUME NEW t \in Items, AdapterSettlesEarly(t) \/ CallbackAgain(t)
       PROVE  Frozen(s)
  BY <1>4, <1>10 DEF AdapterSettlesEarly, CallbackAgain
<1>11. ASSUME NEW a \in Scopes, NEW b \in Scopes, NEW kind \in Kinds, IssueFromBody(a, b, kind)
       PROVE  Frozen(s)
  BY <1>5, <1>11 DEF IssueFromBody
<1>12. ASSUME NEW i \in Items, NEW b \in Scopes, NEW kind \in Kinds, IssueFromItem(i, b, kind)
       PROVE  Frozen(s)
  <2>1. i \in Issued /\ ~ Settled(i)
    BY <1>12 DEF IssueFromItem, ItemFrames, Settled
  <2> QED BY <1>5, <1>12, <2>1 DEF IssueFromItem
<1>13. ASSUME NEW i \in Items, NEW f \in Scopes, Catch(i, f)
       PROVE  Frozen(s)
  <2>1. i \in Issued /\ Caught(i) /\ body' = body /\ f \in {0} \cup ItemFrames /\ CanObserve(i, f)
    BY <1>13 DEF Catch, Caught
  <2>2. item[i].token # s
    <3> SUFFICES ASSUME item[i].token = s PROVE FALSE
      OBVIOUS
    <3>1. f # 0 /\ ~ Settled(f) /\ item[f].token = s
      BY <2>1 DEF CanObserve, Closed
    <3>2. f \in Issued
      BY <2>1, <3>1 DEF ItemFrames
    <3> QED BY <1>1, <3>1, <3>2
  <2>3. Len(item') = Len(item) /\ item'[i].token = item[i].token
        /\ \A k \in Issued : k # i => item'[k] = item[k]
    BY <2>1, HandleItem
  <2> QED BY <1>2, <2>1, <2>2, <2>3
<1>14. CASE UNCHANGED vars
  BY <1>4, <1>14 DEF vars
<1> QED BY <1>6, <1>7, <1>8, <1>9, <1>10, <1>11, <1>12, <1>13, <1>14
        DEF Next, Progress, Environment

(* waitForPendingOperations: once a scope has been declared settled nothing   *)
(* tracked in it is queued or running, however many calls were issued in      *)
(* whatever order.                                                            *)
THEOREM ScopesDrain == Spec => []ScopeDrained
<1>1. GateInv => ScopeDrained
  BY DEF GateInv
<1> QED BY <1>1, GateInvHolds, PTL

(* A scope succeeds only if every failure in it was handled by code it was    *)
(* still waiting for (observeRejection, waitForPendingOperations).            *)
THEOREM FailuresSeen == Spec => []NoLostFailure
<1>1. GateInv => NoLostFailure
  BY DEF GateInv
<1> QED BY <1>1, GateInvHolds, PTL

(* The transaction commits only if the writes of all its savepoints are       *)
(* known to be kept or undone, whatever the adapter did (rollbackOnly in      *)
(* savepoint).                                                                *)
THEOREM CommitsKnown == Spec => []CommitKnown
<1>1. GateInv => CommitKnown
  BY DEF GateInv, EndedWithRoot, CommitKnown
<1> QED BY <1>1, GateInvHolds, PTL

(* While a savepoint is open nothing of the scopes around it runs at the      *)
(* adapter, except the calls on whose chain it was requested, and open        *)
(* savepoints are nested (waitForPriorOperations,                             *)
(* applicableBarrierPromises).                                                *)
THEOREM SavepointsIsolated == Spec => []SavepointIsolation
BY IsolationFollows, GateInvHolds, PTL

(* What a settled scope decided stays decided: no late handler, work or       *)
(* adapter call changes it (track, createRejectionObserver).                  *)
THEOREM SettledFrozen == Spec => SettledStaysSettled
<1>1. GateInv /\ GateInv' /\ [Next]_vars => [SettledScopesFrozen]_vars
  BY FrozenStep DEF SettledScopesFrozen, Frozen, ItemsFrozen
<1> QED BY <1>1, GateInvHolds, PTL DEF Spec, SettledStaysSettled
============================================================================
