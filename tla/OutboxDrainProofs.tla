-------------------------- MODULE OutboxDrainProofs --------------------------
(* Proofs about OutboxDrain, for any events, workers and faults, both kinds of *)
(* outbox, and for rows that are drained or acknowledged; and, at the end,     *)
(* about where the events lead: the revisions of SearchRevisions and the       *)
(* tasks of SearchTasks.                                                       *)
EXTENDS OutboxDrain, SequenceTheorems, WellFoundedInduction, TLAPS

-----------------------------------------------------------------------------
(* The inductive invariant.                                                   *)

PhasesOf == {"idle", "drain", "row", "del", "reinsert", "recover", "deliver", "requeue",
             "undo", "ack", "refused"}

(* A worker that knows the events up to n.                                    *)
Work(n) == [pc : PhasesOf, snap : Seq(1..n), page : Seq(1..n), i : Nat \ {0},
            blocked : SUBSET {Entity[e] : e \in Events}, got : Seq(1..n), todo : Seq(1..n),
            made : Seq(1..n), next : {"", "recover", "refused"}, bad : BOOLEAN]

TypeInv ==
    /\ appended \in 0..MaxEvents
    /\ queue \in Seq(1..appended) /\ done \in Seq(1..appended)
    /\ dead \subseteq 1..appended /\ reported \subseteq 1..appended
    /\ wk \in [Workers -> Work(appended)]

(* What a worker has in its hands at each of its steps; settled are the events *)
(* delivered or dead, told those an error named.                               *)
Shape(k, settled, told) ==
    /\ k.pc \in {"idle", "drain"} => k.i = 1 /\ k.got = << >>
    /\ k.pc \in {"idle", "drain", "row", "del", "recover", "ack", "refused"} => k.todo = << >>
    /\ k.pc = "del" => k.i \in 1..Len(k.page)
    /\ k.pc \in {"reinsert", "recover", "refused", "requeue", "undo", "ack"} => k.got = << >>
    /\ k.pc = "reinsert" => k.next # ""
    /\ k.pc = "ack" => ToSet(k.made) \subseteq ToSet(k.page)
    /\ k.pc = "undo" => ToSet(k.todo) \cup ToSet(k.made) \subseteq told
    /\ k.pc = "deliver" =>
          \A j \in 1..Len(k.got) : j < k.i => k.got[j] \in settled \cup ToSet(k.todo)

Settled == ToSet(done) \cup dead

ShapeInv == \A w \in Workers : Shape(wk[w], Settled, reported)

(* The events only the worker has.                                            *)
Mine(k) == ToSet(k.got) \cup ToSet(k.todo) \cup IF k.pc = "ack" THEN ToSet(k.made) ELSE {}

Kept(n, out, work) == \A e \in 1..n : e \in out \/ \E v \in Workers : e \in Mine(work[v])

Out == InQueue \cup Settled \cup reported

KeptInv == Kept(appended, Out, wk)

(* With leases nothing is drained, and nothing dead lettered here.            *)
LeasedInv ==
    Leased => /\ dead = {}
              /\ \A w \in Workers : /\ wk[w].pc \in {"idle", "ack", "reinsert", "refused"}
                                    /\ wk[w].next # "recover"

DrainInv == TypeInv /\ ShapeInv /\ KeptInv /\ LeasedInv

-----------------------------------------------------------------------------
(* Sequences and the sets of their elements.                                  *)

(* Every nonempty set of numbers has a least element: induction by the least  *)
(* counterexample.                                                            *)
LEMMA HasLeast ==
    ASSUME NEW T \in SUBSET Nat, T # {}
    PROVE  \E x \in T : \A y \in T : x <= y
<1>1. \E x \in T : \A y \in T : ~ (<<y, x>> \in OpToRel(<, Nat))
  BY NatLessThanWellFounded, WFMin
<1>2. PICK x \in T : \A y \in T : ~ (<<y, x>> \in OpToRel(<, Nat))
  BY <1>1
<1>3. \A y \in T : <<y, x>> \in Nat \X Nat
  OBVIOUS
<1>4. \A y \in T : ~ (y < x)
  BY <1>2, <1>3 DEF OpToRel
<1> QED BY <1>4

(* An element of a sequence is one of its positions.                          *)
LEMMA ElementsOf ==
    ASSUME NEW U, NEW s \in Seq(U)
    PROVE  /\ DOMAIN s = 1..Len(s) /\ Len(s) \in Nat
           /\ ToSet(s) = {s[j] : j \in 1..Len(s)} /\ ToSet(s) \subseteq U
<1>1. DOMAIN s = 1..Len(s) /\ Len(s) \in Nat /\ \A j \in 1..Len(s) : s[j] \in U
  OBVIOUS
<1> QED BY <1>1 DEF ToSet

(* One more element.                                                          *)
LEMMA ElementsAppend ==
    ASSUME NEW U, NEW s \in Seq(U), NEW e \in U
    PROVE  /\ Append(s, e) \in Seq(U) /\ Len(Append(s, e)) = Len(s) + 1
           /\ ToSet(Append(s, e)) = ToSet(s) \cup {e}
           /\ IsInjective(s) /\ e \notin ToSet(s) => IsInjective(Append(s, e))
<1> DEFINE t == Append(s, e)
           n == Len(s)
<1>1. /\ t \in Seq(U) /\ Len(t) = n + 1 /\ n \in Nat
      /\ \A j \in 1..n : t[j] = s[j]
      /\ t[n + 1] = e
  OBVIOUS
<1> HIDE DEF t
<1>2. ToSet(t) = {t[j] : j \in 1..(n + 1)} /\ ToSet(s) = {s[j] : j \in 1..n}
  BY <1>1, ElementsOf
<1>3. ToSet(t) = ToSet(s) \cup {e}
  <2> HIDE DEF n
  <2>1. \A j \in 1..(n + 1) : j \in 1..n \/ j = n + 1
    BY <1>1
  <2>2. \A j \in 1..n : j \in 1..(n + 1)
    BY <1>1
  <2>3. n + 1 \in 1..(n + 1)
    BY <1>1
  <2> QED BY <1>1, <1>2, <2>1, <2>2, <2>3
<1>4. ASSUME IsInjective(s), e \notin ToSet(s) PROVE IsInjective(t)
  <2>1. DOMAIN t = 1..(n + 1) /\ DOMAIN s = 1..n
    BY <1>1
  <2>2. \A j \in 1..n : s[j] # e
    BY <1>2, <1>4
  <2> QED BY <1>1, <1>4, <2>1, <2>2 DEF IsInjective
<1> QED BY <1>1, <1>3, <1>4 DEF t

(* Two sequences, one behind the other.                                       *)
LEMMA ElementsConcat ==
    ASSUME NEW U, NEW s \in Seq(U), NEW t \in Seq(U)
    PROVE  /\ s \o t \in Seq(U) /\ ToSet(s \o t) = ToSet(s) \cup ToSet(t)
           /\ IsInjective(s) /\ IsInjective(t) /\ ToSet(s) \cap ToSet(t) = {}
              => IsInjective(s \o t)
<1> DEFINE st == s \o t
           n == Len(s)
           m == Len(t)
<1>1. /\ st \in Seq(U) /\ Len(st) = n + m /\ n \in Nat /\ m \in Nat
      /\ \A j \in 1..n : st[j] = s[j]
      /\ \A j \in 1..m : st[n + j] = t[j]
  OBVIOUS
<1>2. /\ ToSet(st) = {st[j] : j \in 1..(n + m)} /\ ToSet(s) = {s[j] : j \in 1..n}
      /\ ToSet(t) = {t[j] : j \in 1..m}
      /\ DOMAIN st = 1..(n + m) /\ DOMAIN s = 1..n /\ DOMAIN t = 1..m
  <2> HIDE DEF st
  <2> QED BY <1>1, ElementsOf
<1> HIDE DEF st, n, m
<1>3. \A j \in 1..(n + m) : j \in 1..n \/ (j - n \in 1..m /\ j = n + (j - n))
  BY <1>1
<1>4. \A j \in 1..n : j \in 1..(n + m)
  BY <1>1
<1>5. \A j \in 1..m : n + j \in 1..(n + m)
  BY <1>1
<1>6. ToSet(st) = ToSet(s) \cup ToSet(t)
  <2>1. ASSUME NEW x \in ToSet(st) PROVE x \in ToSet(s) \cup ToSet(t)
    <3>1. PICK j \in 1..(n + m) : x = st[j]
      BY <1>2
    <3>2. CASE j \in 1..n
      BY <1>1, <1>2, <3>1, <3>2
    <3>3. CASE j - n \in 1..m /\ j = n + (j - n)
      BY <1>1, <1>2, <3>1, <3>3
    <3> QED BY <1>3, <3>2, <3>3
  <2>2. ASSUME NEW x \in ToSet(s) PROVE x \in ToSet(st)
    BY <1>1, <1>2, <1>4
  <2>3. ASSUME NEW x \in ToSet(t) PROVE x \in ToSet(st)
    BY <1>1, <1>2, <1>5
  <2> QED BY <2>1, <2>2, <2>3
<1>7. ASSUME IsInjective(s), IsInjective(t), ToSet(s) \cap ToSet(t) = {}
      PROVE  IsInjective(st)
  <2> SUFFICES ASSUME NEW a \in 1..(n + m), NEW b \in 1..(n + m), st[a] = st[b]
               PROVE  a = b
    BY <1>2 DEF IsInjective
  <2>1. CASE a \in 1..n /\ b \in 1..n
    BY <1>1, <1>2, <1>7, <2>1 DEF IsInjective
  <2>2. CASE a - n \in 1..m /\ a = n + (a - n) /\ b - n \in 1..m /\ b = n + (b - n)
    <3>1. t[a - n] = t[b - n]
      BY <1>1, <2>2
    <3>2. a - n = b - n
      BY <1>2, <1>7, <2>2, <3>1 DEF IsInjective
    <3> QED BY <2>2, <3>2
  <2>3. CASE a \in 1..n /\ b - n \in 1..m /\ b = n + (b - n)
    <3>1. s[a] \in ToSet(s) /\ t[b - n] \in ToSet(t) /\ s[a] = t[b - n]
      BY <1>1, <1>2, <2>3
    <3> QED BY <1>7, <3>1
  <2>4. CASE b \in 1..n /\ a - n \in 1..m /\ a = n + (a - n)
    <3>1. s[b] \in ToSet(s) /\ t[a - n] \in ToSet(t) /\ s[b] = t[a - n]
      BY <1>1, <1>2, <2>4
    <3> QED BY <1>7, <3>1
  <2> QED BY <1>3, <2>1, <2>2, <2>3, <2>4
<1> QED BY <1>1, <1>6, <1>7 DEF st

(* The first element and the rest.                                            *)
LEMMA ElementsTail ==
    ASSUME NEW U, NEW s \in Seq(U), s # << >>
    PROVE  /\ Tail(s) \in Seq(U) /\ s[1] \in U /\ Head(s) = s[1] /\ s[1] \in ToSet(s)
           /\ ToSet(s) = {s[1]} \cup ToSet(Tail(s))
<1> DEFINE t == Tail(s)
           n == Len(s)
<1>1. /\ n \in Nat /\ n >= 1 /\ t \in Seq(U) /\ Len(t) = n - 1 /\ Head(s) = s[1]
      /\ s[1] \in U /\ \A j \in 1..(n - 1) : t[j] = s[j + 1]
  OBVIOUS
<1>2. ToSet(t) = {t[j] : j \in 1..(n - 1)} /\ ToSet(s) = {s[j] : j \in 1..n}
  <2> HIDE DEF t
  <2> QED BY <1>1, ElementsOf
<1> HIDE DEF t, n
<1>3. \A j \in 1..n : j = 1 \/ (j - 1 \in 1..(n - 1) /\ j = (j - 1) + 1)
  BY <1>1
<1>4. 1 \in 1..n /\ \A j \in 1..(n - 1) : j + 1 \in 1..n
  BY <1>1
<1>5. ASSUME NEW x \in ToSet(s) PROVE x = s[1] \/ x \in ToSet(t)
  <2>1. PICK j \in 1..n : x = s[j]
    BY <1>2
  <2> QED BY <1>1, <1>2, <1>3, <2>1
<1>6. ASSUME NEW x \in ToSet(t) PROVE x \in ToSet(s)
  BY <1>1, <1>2, <1>4
<1>7. s[1] \in ToSet(s)
  BY <1>2, <1>4
<1> QED BY <1>1, <1>5, <1>6, <1>7 DEF t

(* The first m elements.                                                      *)
LEMMA ElementsPrefix ==
    ASSUME NEW U, NEW s \in Seq(U), NEW m \in 0..Len(s)
    PROVE  /\ SubSeq(s, 1, m) \in Seq(U) /\ Len(SubSeq(s, 1, m)) = m
           /\ \A j \in 1..m : SubSeq(s, 1, m)[j] = s[j]
           /\ ToSet(SubSeq(s, 1, m)) = {s[j] : j \in 1..m}
           /\ ToSet(SubSeq(s, 1, m)) \subseteq ToSet(s)
<1> DEFINE t == SubSeq(s, 1, m)
<1>1. /\ t \in Seq(U) /\ Len(t) = m /\ \A j \in 1..m : t[j] = s[j]
      /\ m \in Nat
  <2>1. Len(s) \in Nat /\ m \in Nat /\ m \in Int /\ 1 \in Int /\ m <= Len(s)
    OBVIOUS
  <2>2. \A j \in 1..m : s[j] \in U
    BY <2>1
  <2>3. /\ t \in Seq(U) /\ Len(t) = IF 1 <= m THEN m - 1 + 1 ELSE 0
        /\ \A j \in 1..(m - 1 + 1) : t[j] = s[1 + j - 1]
    BY <2>1, <2>2, SubSeqProperties
  <2>4. m - 1 + 1 = m /\ (1 <= m \/ m = 0) /\ \A j \in 1..m : 1 + j - 1 = j
    BY <2>1
  <2>5. Len(t) = m
    <3> HIDE DEF t
    <3> QED BY <2>1, <2>3, <2>4
  <2>6. \A j \in 1..m : t[j] = s[j]
    <3> HIDE DEF t
    <3> QED BY <2>3, <2>4
  <2> QED BY <2>1, <2>3, <2>5, <2>6
<1> HIDE DEF t
<1>2. ToSet(t) = {t[j] : j \in 1..m} /\ ToSet(s) = {s[j] : j \in 1..Len(s)}
  BY <1>1, ElementsOf
<1>3. \A j \in 1..m : j \in 1..Len(s)
  OBVIOUS
<1>4. {t[j] : j \in 1..m} = {s[j] : j \in 1..m}
  BY <1>1
<1>5. ToSet(t) \subseteq ToSet(s)
  BY <1>1, <1>2, <1>3
<1> QED BY <1>1, <1>2, <1>4, <1>5 DEF t

(* What Without collects, position by position.                               *)
Filters(f, s, S, m) ==
    /\ f[0] = << >>
    /\ \A n \in 1..m : f[n] = IF s[n] \in S THEN f[n - 1] ELSE Append(f[n - 1], s[n])

(* The recursive function Without is defined by has a value at every length: the*)
(* least length without one would follow a length with one.                   *)
LEMMA FilterExists ==
    ASSUME NEW U, NEW s \in Seq(U), NEW S, NEW m \in 0..Len(s)
    PROVE  \E f \in [0..m -> Seq(U)] : Filters(f, s, S, m)
<1> DEFINE Bad == {q \in 0..Len(s) : ~ \E f \in [0..q -> Seq(U)] : Filters(f, s, S, q)}
<1>1. SUFFICES Bad = {}
  BY <1>1
<1>2. SUFFICES ASSUME Bad # {} PROVE FALSE
  OBVIOUS
<1>3. PICK q \in Bad : \A y \in Bad : q <= y
  <2>1. Bad \in SUBSET Nat
    OBVIOUS
  <2> HIDE DEF Bad
  <2> QED BY <1>2, <2>1, HasLeast
<1>4. q \in 0..Len(s) /\ Len(s) \in Nat
  OBVIOUS
<1>5. CASE q = 0
  <2> DEFINE f == [k \in 0..0 |-> << >>]
  <2>1. f \in [0..q -> Seq(U)] /\ Filters(f, s, S, q)
    BY <1>5 DEF Filters
  <2> QED BY <2>1
<1>6. CASE q # 0
  <2>1. q - 1 \in 0..Len(s) /\ q - 1 \notin Bad
    <3> HIDE DEF Bad
    <3> QED BY <1>3, <1>4, <1>6
  <2>2. PICK f \in [0..(q - 1) -> Seq(U)] : Filters(f, s, S, q - 1)
    BY <2>1
  <2> DEFINE new == IF s[q] \in S THEN f[q - 1] ELSE Append(f[q - 1], s[q])
             g == [k \in 0..q |-> IF k < q THEN f[k] ELSE new]
  <2>3. s[q] \in U /\ f[q - 1] \in Seq(U)
    BY <1>4, <1>6
  <2>4. new \in Seq(U)
    BY <2>3
  <2> HIDE DEF new
  <2>5. g \in [0..q -> Seq(U)]
    BY <2>4, <1>4
  <2>6. g[q] = new /\ \A k \in 0..(q - 1) : g[k] = f[k]
    BY <1>4
  <2> HIDE DEF g
  <2>7. g[0] = << >>
    BY <2>2, <2>6, <1>4, <1>6 DEF Filters
  <2>8. ASSUME NEW n \in 1..q
        PROVE  g[n] = IF s[n] \in S THEN g[n - 1] ELSE Append(g[n - 1], s[n])
    <3>1. n - 1 \in 0..(q - 1)
      BY <1>4
    <3>2. CASE n = q
      BY <2>6, <3>1, <3>2 DEF new
    <3>3. CASE n # q
      <4>1. n \in 1..(q - 1) /\ n \in 0..(q - 1)
        BY <1>4, <3>3
      <4> QED BY <2>2, <2>6, <3>1, <4>1 DEF Filters
    <3> QED BY <3>2, <3>3
  <2> QED BY <2>5, <2>7, <2>8 DEF Filters
<1> QED BY <1>5, <1>6

(* Without leaves out S and nothing else, and repeats nothing.                *)
LEMMA WithoutElements ==
    ASSUME NEW U, NEW s \in Seq(U), NEW S
    PROVE  /\ Without(s, S) \in Seq(U) /\ ToSet(Without(s, S)) = ToSet(s) \ S
           /\ IsInjective(s) => IsInjective(Without(s, S))
<1> DEFINE n == Len(s)
           Up(f) == [m \in 0..n |-> IF m = 0 THEN << >>
                                    ELSE IF s[m] \in S THEN f[m - 1] ELSE Append(f[m - 1], s[m])]
           kept == CHOOSE f : f = Up(f)
<1>1. n \in Nat /\ n \in 0..n /\ 0 \in 0..n
  OBVIOUS
<1>2. PICK f \in [0..n -> Seq(U)] : Filters(f, s, S, n)
  BY <1>1, FilterExists
<1>3. f = Up(f)
  <2>1. \A m \in 0..n : m = 0 \/ m \in 1..n
    BY <1>1
  <2>2. \A m \in 0..n : f[m] = IF m = 0 THEN << >>
                               ELSE IF s[m] \in S THEN f[m - 1] ELSE Append(f[m - 1], s[m])
    BY <1>2, <2>1 DEF Filters
  <2> QED BY <1>2, <2>2
<1>4. kept = Up(kept)
  BY <1>3
<1>5. Without(s, S) = kept[n]
  BY DEF Without
<1> HIDE DEF kept
<1>6. /\ kept[0] = << >>
      /\ \A m \in 1..n : kept[m] = IF s[m] \in S THEN kept[m - 1] ELSE Append(kept[m - 1], s[m])
  <2>1. \A m \in 1..n : m \in 0..n /\ m # 0
    BY <1>1
  <2> QED BY <1>1, <1>4, <2>1
<1> DEFINE P(m) == /\ kept[m] \in Seq(U) /\ ToSet(kept[m]) = {s[j] : j \in 1..m} \ S
                   /\ IsInjective(s) => IsInjective(kept[m])
           Bad == {m \in 0..n : ~P(m)}
<1>7. SUFFICES Bad = {}
  <2>1. P(n)
    BY <1>1, <1>7
  <2> QED BY <2>1, <1>5, ElementsOf
<1>8. SUFFICES ASSUME Bad # {} PROVE FALSE
  OBVIOUS
<1>9. PICK q \in Bad : \A y \in Bad : q <= y
  <2>1. Bad \in SUBSET Nat
    OBVIOUS
  <2> HIDE DEF Bad
  <2> QED BY <1>8, <2>1, HasLeast
<1>10. q \in 0..n /\ ~P(q)
  OBVIOUS
<1>11. CASE q = 0
  <2>1. ToSet(<< >>) = {} /\ IsInjective(<< >>) /\ << >> \in Seq(U)
    BY DEF ToSet, IsInjective
  <2>2. {s[j] : j \in 1..0} = {}
    OBVIOUS
  <2> QED BY <1>6, <1>10, <1>11, <2>1, <2>2
<1>12. CASE q # 0
  <2>1. q \in 1..n /\ q - 1 \in 0..n /\ q - 1 \notin Bad
    <3> HIDE DEF Bad
    <3> QED BY <1>1, <1>9, <1>10, <1>12
  <2>2. P(q - 1)
    BY <2>1
  <2> DEFINE k == kept[q - 1]
  <2>3. {s[j] : j \in 1..q} = {s[j] : j \in 1..(q - 1)} \cup {s[q]}
    <3>1. \A j \in 1..q : j \in 1..(q - 1) \/ j = q
      BY <2>1
    <3>2. \A j \in 1..(q - 1) : j \in 1..q
      BY <2>1
    <3>3. q \in 1..q
      BY <2>1
    <3> QED BY <3>1, <3>2, <3>3
  <2>4. s[q] \in U
    BY <2>1
  <2>5. CASE s[q] \in S
    <3>1. kept[q] = k
      BY <1>6, <2>1, <2>5
    <3> QED BY <1>10, <2>2, <2>3, <2>5, <3>1
  <2>6. CASE s[q] \notin S
    <3>1. kept[q] = Append(k, s[q])
      BY <1>6, <2>1, <2>6
    <3>2. ASSUME IsInjective(s) PROVE s[q] \notin ToSet(k)
      <4>1. \A j \in 1..(q - 1) : j \in DOMAIN s /\ q \in DOMAIN s /\ j # q
        BY <2>1
      <4> QED BY <2>2, <3>2, <4>1 DEF IsInjective
    <3>3. /\ Append(k, s[q]) \in Seq(U) /\ ToSet(Append(k, s[q])) = ToSet(k) \cup {s[q]}
          /\ IsInjective(k) /\ s[q] \notin ToSet(k) => IsInjective(Append(k, s[q]))
      <4>1. k \in Seq(U)
        BY <2>2
      <4> HIDE DEF k
      <4> QED BY <2>4, <4>1, ElementsAppend
    <3>4. kept[q] \in Seq(U)
      BY <3>1, <3>3
    <3>5. ToSet(kept[q]) = {s[j] : j \in 1..q} \ S
      BY <2>2, <2>3, <2>6, <3>1, <3>3
    <3>6. IsInjective(s) => IsInjective(kept[q])
      BY <2>2, <3>1, <3>2, <3>3
    <3> QED BY <1>10, <3>4, <3>5, <3>6
  <2> QED BY <2>5, <2>6
<1> QED BY <1>11, <1>12

-----------------------------------------------------------------------------
(* A step of one worker.                                                      *)

(* More that is settled or told does not change what a worker has in hand.    *)
LEMMA ShapeGrows ==
    ASSUME NEW k, NEW s, NEW s2, NEW t, NEW t2, s \subseteq s2, t \subseteq t2, Shape(k, s, t)
    PROVE  Shape(k, s2, t2)
BY DEF Shape

(* Nor does it lose an event.                                                 *)
Ready(n, work, s, t, out) ==
    /\ work \in [Workers -> Work(n)]
    /\ \A v \in Workers : Shape(work[v], s, t)
    /\ Kept(n, out, work)

(* A worker that moves on to k, while events are settled, told or put into the*)
(* outbox, leaves every event where somebody has it if its own are in k or out.*)
LEMMA Moves ==
    ASSUME NEW n, NEW work, NEW s, NEW t, NEW out, NEW s2, NEW t2, NEW out2,
           Ready(n, work, s, t, out), NEW w \in Workers, NEW k \in Work(n),
           s \subseteq s2, t \subseteq t2, Shape(k, s2, t2),
           out \subseteq out2 \cup Mine(k), Mine(work[w]) \subseteq out2 \cup Mine(k)
    PROVE  Ready(n, [work EXCEPT ![w] = k], s2, t2, out2)
<1> DEFINE work2 == [work EXCEPT ![w] = k]
<1>1. work \in [Workers -> Work(n)]
  BY DEF Ready
<1>2. work2 \in [Workers -> Work(n)] /\ work2[w] = k /\ \A v \in Workers \ {w} : work2[v] = work[v]
  BY <1>1
<1> HIDE DEF work2
<1>3. ASSUME NEW v \in Workers PROVE Shape(work2[v], s2, t2)
  <2>1. CASE v = w
    BY <1>2, <2>1
  <2>2. CASE v # w
    <3>1. Shape(work[v], s, t) /\ work2[v] = work[v]
      BY <1>2, <2>2 DEF Ready
    <3> QED BY <3>1, ShapeGrows
  <2> QED BY <2>1, <2>2
<1>4. Kept(n, out2, work2)
  <2> SUFFICES ASSUME NEW e \in 1..n PROVE e \in out2 \/ \E v \in Workers : e \in Mine(work2[v])
    BY DEF Kept
  <2>1. e \in out \/ \E v \in Workers : e \in Mine(work[v])
    BY DEF Ready, Kept
  <2>2. e \in out2 \cup Mine(k) => e \in out2 \/ \E v \in Workers : e \in Mine(work2[v])
    BY <1>2
  <2>3. CASE e \in out
    BY <2>2, <2>3
  <2>4. CASE \E v \in Workers : e \in Mine(work[v])
    <3>1. PICK v \in Workers : e \in Mine(work[v])
      BY <2>4
    <3>2. CASE v = w
      BY <2>2, <3>1, <3>2
    <3>3. CASE v # w
      BY <1>2, <3>1, <3>3
    <3> QED BY <3>2, <3>3
  <2> QED BY <2>1, <2>3, <2>4
<1> QED BY <1>2, <1>3, <1>4 DEF Ready, work2

(* What a step of worker w to k has to show.                                  *)
LEMMA WorkerStep ==
    ASSUME DrainInv, NEW w \in Workers, NEW k \in Work(appended),
           wk' = [wk EXCEPT ![w] = k], appended' = appended,
           queue' \in Seq(1..appended), done' \in Seq(1..appended),
           dead' \subseteq 1..appended, reported' \subseteq 1..appended,
           Settled \subseteq Settled', reported \subseteq reported',
           Shape(k, Settled', reported'),
           Out \subseteq Out' \cup Mine(k), Mine(wk[w]) \subseteq Out' \cup Mine(k),
           Leased => /\ dead' = {} /\ k.next # "recover"
                     /\ k.pc \in {"idle", "ack", "reinsert", "refused"}
    PROVE  DrainInv'
<1>1. Ready(appended, wk, Settled, reported, Out)
  BY DEF DrainInv, TypeInv, ShapeInv, KeptInv, Ready
<1> DEFINE s == Settled
           t == reported
           out == Out
           s2 == Settled'
           t2 == reported'
           out2 == Out'
           work == wk
<1>2. Ready(appended, [wk EXCEPT ![w] = k], Settled', reported', Out')
  <2>1. /\ Ready(appended, work, s, t, out)
        /\ s \subseteq s2 /\ t \subseteq t2 /\ Shape(k, s2, t2)
        /\ out \subseteq out2 \cup Mine(k) /\ Mine(work[w]) \subseteq out2 \cup Mine(k)
    BY <1>1
  <2> HIDE DEF s, t, out, s2, t2, out2, work
  <2>2. Ready(appended, [work EXCEPT ![w] = k], s2, t2, out2)
    BY <2>1, Moves
  <2> QED BY <2>2 DEF s2, t2, out2, work
<1>3. Ready(appended', wk', Settled', reported', Out')
  BY <1>2
<1>4. wk' \in [Workers -> Work(appended')] /\ wk'[w] = k /\ \A v \in Workers \ {w} : wk'[v] = wk[v]
  BY <1>3 DEF Ready, DrainInv, TypeInv
<1>5. TypeInv'
  BY <1>4 DEF DrainInv, TypeInv
<1>6. ShapeInv'
  BY <1>3 DEF Ready, ShapeInv
<1>7. KeptInv'
  BY <1>3 DEF Ready, KeptInv
<1>8. LeasedInv'
  <2> SUFFICES ASSUME Leased
               PROVE  /\ dead' = {}
                      /\ \A v \in Workers : /\ wk'[v].pc \in {"idle", "ack", "reinsert", "refused"}
                                            /\ wk'[v].next # "recover"
    BY DEF LeasedInv
  <2>1. ASSUME NEW v \in Workers
        PROVE  wk'[v].pc \in {"idle", "ack", "reinsert", "refused"} /\ wk'[v].next # "recover"
    <3>1. CASE v = w
      BY <1>4, <3>1
    <3>2. CASE v # w
      BY <1>4, <3>2 DEF DrainInv, LeasedInv
    <3> QED BY <3>1, <3>2
  <2> QED BY <2>1
<1> QED BY <1>5, <1>6, <1>7, <1>8 DEF DrainInv

(* A step that takes a worker to k and changes nothing else.                  *)
LEMMA OwnStep ==
    ASSUME DrainInv, NEW w \in Workers, NEW k \in Work(appended),
           wk' = [wk EXCEPT ![w] = k],
           UNCHANGED <<appended, queue, done, dead, reported>>,
           Shape(k, Settled, reported), Mine(wk[w]) \subseteq Out \cup Mine(k),
           Leased => k.pc \in {"idle", "ack", "reinsert", "refused"} /\ k.next # "recover"
    PROVE  DrainInv'
<1>1. Settled' = Settled /\ Out' = Out
  BY DEF Settled, Out, InQueue
<1>2. /\ queue' \in Seq(1..appended) /\ done' \in Seq(1..appended)
      /\ dead' \subseteq 1..appended /\ reported' \subseteq 1..appended
  BY DEF DrainInv, TypeInv
<1>3. Leased => dead' = {}
  BY DEF DrainInv, LeasedInv
<1> QED BY <1>1, <1>2, <1>3, WorkerStep

(* The worker of a step: its fields.                                          *)
LEMMA Fields ==
    ASSUME DrainInv, NEW w \in Workers
    PROVE  wk[w] \in Work(appended) /\ Shape(wk[w], Settled, reported)
BY DEF DrainInv, TypeInv, ShapeInv

(* A worker with nothing in its hands.                                        *)
LEMMA Idle ==
    ASSUME NEW n \in Nat
    PROVE  NoWork \in Work(n) /\ ToSet(<< >>) = {} /\ Mine(NoWork) = {}
           /\ \A s, t : Shape(NoWork, s, t)
<1>1. ToSet(<< >>) = {} /\ << >> \in Seq(1..n)
  BY DEF ToSet
<1>2. NoWork \in Work(n)
  BY <1>1 DEF NoWork, Work, PhasesOf
<1> QED BY <1>1, <1>2 DEF NoWork, Mine, Shape

(* A step of a worker that takes events out of the queue or puts them in.     *)
LEMMA QueueStep ==
    ASSUME DrainInv, NEW w \in Workers, NEW k \in Work(appended),
           wk' = [wk EXCEPT ![w] = k],
           UNCHANGED <<appended, done, dead, reported>>, queue' \in Seq(1..appended),
           Shape(k, Settled, reported),
           ToSet(queue) \cup Mine(wk[w])
               \subseteq ToSet(queue') \cup Settled \cup reported \cup Mine(k),
           Leased => /\ k.next # "recover"
                     /\ k.pc \in {"idle", "ack", "reinsert", "refused"}
    PROVE  DrainInv'
<1>1. Settled' = Settled
  BY DEF Settled
<1>2. InQueue = ToSet(queue) /\ InQueue' = ToSet(queue')
  <2>1. queue \in Seq(1..appended)
    BY DEF DrainInv, TypeInv
  <2>2. ToSet(queue) = {queue[j] : j \in 1..Len(queue)}
    BY <2>1, ElementsOf
  <2>3. ToSet(queue') = {queue'[j] : j \in 1..Len(queue')}
    <3> DEFINE q == queue'
    <3>1. q \in Seq(1..appended)
      OBVIOUS
    <3> HIDE DEF q
    <3>2. ToSet(q) = {q[j] : j \in 1..Len(q)}
      BY <3>1, ElementsOf
    <3> QED BY <3>2 DEF q
  <2> QED BY <2>2, <2>3 DEF InQueue
<1>3. Out = ToSet(queue) \cup Settled \cup reported /\ Out' = ToSet(queue') \cup Settled \cup reported
  BY <1>1, <1>2 DEF Out
<1>4. /\ done' \in Seq(1..appended)
      /\ dead' \subseteq 1..appended /\ reported' \subseteq 1..appended
  BY DEF DrainInv, TypeInv
<1>5. Leased => dead' = {}
  BY DEF DrainInv, LeasedInv
<1>6. Out \subseteq Out' \cup Mine(k) /\ Mine(wk[w]) \subseteq Out' \cup Mine(k)
  BY <1>3
<1>7. Shape(k, Settled', reported')
  BY <1>1
<1> QED BY <1>1, <1>4, <1>5, <1>6, <1>7, WorkerStep

(* A worker learns of no fewer events.                                        *)
LEMMA WorkGrows ==
    ASSUME NEW n \in Nat
    PROVE  Seq(1..n) \subseteq Seq(1..(n + 1)) /\ Work(n) \subseteq Work(n + 1)
<1>1. \A q \in Seq(1..n) : q \in Seq(1..(n + 1))
  OBVIOUS
<1>2. ASSUME NEW k \in Work(n) PROVE k \in Work(n + 1)
  BY <1>1 DEF Work
<1> QED BY <1>1, <1>2

(* A step outside the workers.                                                *)
LEMMA EnvironmentStep ==
    ASSUME DrainInv, wk' = wk,
           appended' = appended \/ (appended' = appended + 1 /\ appended + 1 \in Out'),
           appended' \in 0..MaxEvents,
           queue' \in Seq(1..appended'), done' \in Seq(1..appended'),
           dead' \subseteq 1..appended', reported' \subseteq 1..appended',
           Settled \subseteq Settled', reported \subseteq reported', Out \subseteq Out',
           Leased => dead' = {}
    PROVE  DrainInv'
<1>1. appended \in Nat
  BY DEF DrainInv, TypeInv
<1>2. wk' \in [Workers -> Work(appended')]
  <2>1. wk \in [Workers -> Work(appended)]
    BY DEF DrainInv, TypeInv
  <2>2. wk \in [Workers -> Work(appended + 1)]
    BY <1>1, <2>1, WorkGrows
  <2> QED BY <2>1, <2>2
<1>3. TypeInv'
  BY <1>2 DEF TypeInv
<1>4. ShapeInv'
  <2> SUFFICES ASSUME NEW v \in Workers PROVE Shape(wk[v], Settled', reported')
    BY DEF ShapeInv
  <2> DEFINE s == Settled
             s2 == Settled'
             t == reported
             t2 == reported'
             k == wk[v]
  <2>1. Shape(k, s, t) /\ s \subseteq s2 /\ t \subseteq t2
    BY DEF DrainInv, ShapeInv
  <2> HIDE DEF s, s2, t, t2, k
  <2>2. Shape(k, s2, t2)
    BY <2>1, ShapeGrows
  <2> QED BY <2>2 DEF s2, t2, k
<1>5. KeptInv'
  <2> SUFFICES ASSUME NEW e \in 1..appended'
               PROVE  e \in Out' \/ \E v \in Workers : e \in Mine(wk[v])
    BY DEF KeptInv, Kept
  <2>1. e \in 1..appended => e \in Out \/ \E v \in Workers : e \in Mine(wk[v])
    BY DEF DrainInv, KeptInv, Kept
  <2>2. e \in 1..appended \/ e \in Out'
    BY <1>1
  <2> QED BY <2>1, <2>2
<1>6. LeasedInv'
  BY DEF DrainInv, LeasedInv
<1> QED BY <1>3, <1>4, <1>5, <1>6 DEF DrainInv

-----------------------------------------------------------------------------
(* One lemma for each action.                                                 *)

(* Nothing has happened yet.                                                  *)
LEMMA InitDrain ==
    ASSUME Init
    PROVE  DrainInv
<1>1. appended = 0 /\ MaxEvents \in Nat /\ << >> \in Seq(1..0)
  BY DrainAssumption DEF Init
<1>2. \A v \in Workers : wk[v] = NoWork
  BY DEF Init
<1>3. TypeInv
  <2>1. NoWork \in Work(appended)
    BY <1>1, Idle
  <2> QED BY <1>1, <2>1 DEF Init, TypeInv
<1>4. ShapeInv
  <2>1. \A s, t : Shape(NoWork, s, t)
    BY <1>1, Idle
  <2> QED BY <1>2, <2>1 DEF ShapeInv
<1>5. KeptInv
  BY <1>1 DEF KeptInv, Kept
<1>6. LeasedInv
  BY <1>2 DEF Init, LeasedInv, NoWork
<1> QED BY <1>3, <1>4, <1>5, <1>6 DEF DrainInv

(* The queue as a sequence, and the set of its events.                        *)
LEMMA Queue ==
    ASSUME DrainInv
    PROVE  /\ appended \in 0..MaxEvents /\ appended \in Nat
           /\ queue \in Seq(1..appended) /\ InQueue = ToSet(queue)
           /\ done \in Seq(1..appended) /\ dead \subseteq 1..appended
           /\ reported \subseteq 1..appended
<1>1. appended \in 0..MaxEvents /\ queue \in Seq(1..appended)
  BY DEF DrainInv, TypeInv
<1>2. InQueue = ToSet(queue)
  BY <1>1, ElementsOf DEF InQueue
<1> QED BY <1>1, <1>2 DEF DrainInv, TypeInv

(* Append1: the event appended is the last of the queue.                      *)
LEMMA Append1Step ==
    ASSUME DrainInv, Append1
    PROVE  DrainInv'
<1>1. /\ appended' = appended + 1 /\ queue' = Append(queue, appended + 1)
      /\ appended < MaxEvents /\ UNCHANGED <<wk, done, dead, reported>>
  BY DEF Append1
<1>2. MaxEvents \in Nat
  BY DrainAssumption
<1>3. /\ queue \in Seq(1..(appended + 1)) /\ done \in Seq(1..(appended + 1))
      /\ appended + 1 \in 1..(appended + 1)
  BY Queue, WorkGrows
<1>4. queue' \in Seq(1..appended') /\ ToSet(queue') = ToSet(queue) \cup {appended + 1}
  BY <1>1, <1>3, ElementsAppend
<1>5. InQueue' = ToSet(queue')
  <2> DEFINE q == queue'
  <2>1. q \in Seq(1..(appended + 1))
    BY <1>1, <1>4
  <2> HIDE DEF q
  <2>2. ToSet(q) = {q[j] : j \in 1..Len(q)}
    BY <2>1, ElementsOf
  <2> QED BY <2>2 DEF q, InQueue
<1>6. Settled' = Settled /\ reported' = reported
  BY <1>1 DEF Settled
<1>7. Out \subseteq Out' /\ appended + 1 \in Out'
  BY <1>4, <1>5, <1>6, Queue DEF Out
<1>8. appended' \in 0..MaxEvents
  BY <1>1, <1>2, Queue
<1>9. dead' \subseteq 1..appended' /\ reported' \subseteq 1..appended'
  BY <1>1, Queue
<1>10. Leased => dead' = {}
  BY <1>1 DEF DrainInv, LeasedInv
<1> QED BY <1>1, <1>3, <1>4, <1>6, <1>7, <1>8, <1>9, <1>10, EnvironmentStep

(* AppendFails: the event is reported to the caller of the write.             *)
LEMMA AppendFailsStep ==
    ASSUME DrainInv, AppendFails
    PROVE  DrainInv'
<1>1. /\ appended' = appended + 1 /\ reported' = reported \cup {appended + 1}
      /\ appended < MaxEvents /\ UNCHANGED <<wk, queue, done, dead>>
  BY DEF AppendFails
<1>2. /\ queue \in Seq(1..(appended + 1)) /\ done \in Seq(1..(appended + 1))
      /\ appended + 1 \in 1..(appended + 1)
  BY Queue, WorkGrows
<1>3. Settled' = Settled /\ InQueue' = InQueue
  BY <1>1 DEF Settled, InQueue
<1>4. Out \subseteq Out' /\ appended + 1 \in Out'
  BY <1>1, <1>3 DEF Out
<1>5. appended' \in 0..MaxEvents
  BY <1>1, Queue, DrainAssumption
<1>6. dead' \subseteq 1..appended' /\ reported' \subseteq 1..appended'
  BY <1>1, Queue
<1>7. Leased => dead' = {}
  BY <1>1 DEF DrainInv, LeasedInv
<1> QED BY <1>1, <1>2, <1>3, <1>4, <1>5, <1>6, <1>7, EnvironmentStep

(* FallsDue: an event whose time has come stays where it is.                  *)
LEMMA FallsDueStep ==
    ASSUME DrainInv, NEW e, FallsDue(e)
    PROVE  DrainInv'
<1>1. UNCHANGED <<appended, queue, wk, done, dead, reported>>
  BY DEF FallsDue
<1>2. Settled' = Settled /\ Out' = Out
  BY <1>1 DEF Settled, Out, InQueue
<1>3. Leased => dead' = {}
  BY <1>1 DEF DrainInv, LeasedInv
<1> QED BY <1>1, <1>2, <1>3, Queue, EnvironmentStep

(* Reclaim: a row another worker claims stays, or is settled by it.           *)
LEMMA ReclaimStep ==
    ASSUME DrainInv, NEW e, Reclaim(e)
    PROVE  DrainInv'
<1>1. /\ e \in InQueue /\ queue' \in {queue, Without(queue, {e})}
      /\ done' = IF queue' = queue THEN done ELSE Append(done, e)
      /\ UNCHANGED <<appended, wk, dead, reported>>
  BY DEF Reclaim
<1>2. e \in 1..appended
  BY <1>1, Queue, ElementsOf
<1>3. /\ Without(queue, {e}) \in Seq(1..appended)
      /\ ToSet(Without(queue, {e})) = ToSet(queue) \ {e}
      /\ Append(done, e) \in Seq(1..appended)
      /\ ToSet(Append(done, e)) = ToSet(done) \cup {e}
  BY <1>2, Queue, WithoutElements, ElementsAppend
<1>4. /\ queue' \in Seq(1..appended) /\ done' \in Seq(1..appended)
      /\ ToSet(done) \subseteq ToSet(done')
      /\ ToSet(queue) \subseteq ToSet(queue') \cup ToSet(done')
  BY <1>1, <1>3, Queue
<1>5. InQueue' = ToSet(queue')
  <2> DEFINE q == queue'
  <2>1. q \in Seq(1..appended)
    BY <1>4
  <2> HIDE DEF q
  <2>2. ToSet(q) = {q[j] : j \in 1..Len(q)}
    BY <2>1, ElementsOf
  <2> QED BY <2>2 DEF q, InQueue
<1>6. Settled \subseteq Settled'
  BY <1>1, <1>4 DEF Settled
<1>7. Out \subseteq Out'
  BY <1>1, <1>4, <1>5, <1>6, Queue DEF Out, Settled
<1>8. Leased => dead' = {}
  BY <1>1 DEF DrainInv, LeasedInv
<1> QED BY <1>1, <1>4, <1>6, <1>7, <1>8, Queue, EnvironmentStep

(* captureOutboxDrainRecoverySnapshot: the worker notes the queue, no event moves.*)
LEMMA CaptureStep ==
    ASSUME DrainInv, NEW w \in Workers, captureOutboxDrainRecoverySnapshot(w)
    PROVE  DrainInv'
<1> DEFINE k == [NoWork EXCEPT !.pc = "drain", !.snap = queue]
<1>1. /\ wk[w].pc = "idle" /\ ~Leased /\ wk' = [wk EXCEPT ![w] = k]
      /\ UNCHANGED <<appended, queue, done, dead, reported>>
  BY DEF captureOutboxDrainRecoverySnapshot
<1>2. k \in Work(appended)
  BY Queue, Idle DEF Work, PhasesOf
<1>3. Shape(k, Settled, reported)
  BY DEF Shape, NoWork
<1>4. Mine(wk[w]) = {}
  BY <1>1, Fields, Queue, Idle DEF Mine, Shape
<1> HIDE DEF k
<1> QED BY <1>1, <1>2, <1>3, <1>4, OwnStep

(* AckCheck: the leased rows are a prefix of the queue that is checked, not moved.*)
LEMMA AckCheckStep ==
    ASSUME DrainInv, NEW w \in Workers, AckCheck(w)
    PROVE  DrainInv'
<1>1. PICK n \in 1..Len(queue) :
          wk' = [wk EXCEPT ![w] = [NoWork EXCEPT !.pc = "ack", !.page = SubSeq(queue, 1, n)]]
  BY DEF AckCheck
<1> DEFINE k == [NoWork EXCEPT !.pc = "ack", !.page = SubSeq(queue, 1, n)]
<1>2. wk[w].pc = "idle" /\ UNCHANGED <<appended, queue, done, dead, reported>>
  BY DEF AckCheck
<1>3. SubSeq(queue, 1, n) \in Seq(1..appended)
  <2>1. n \in 0..Len(queue)
    OBVIOUS
  <2> QED BY <2>1, Queue, ElementsPrefix
<1>4. k \in Work(appended)
  BY <1>3, Queue, Idle DEF Work, PhasesOf
<1>5. Shape(k, Settled, reported) /\ k.next # "recover" /\ k.pc = "ack"
  BY Idle, Queue DEF Shape, NoWork
<1>6. Mine(wk[w]) = {}
  BY <1>2, Fields, Queue, Idle DEF Mine, Shape
<1>7. wk' = [wk EXCEPT ![w] = k]
  BY <1>1
<1> HIDE DEF k
<1> QED BY <1>2, <1>4, <1>5, <1>6, <1>7, OwnStep

(* AckRefused: the worker has nothing in its hands when the answer is false.  *)
LEMMA AckRefusedStep ==
    ASSUME DrainInv, NEW w \in Workers, AckRefused(w)
    PROVE  DrainInv'
<1>1. /\ wk[w].pc = "refused" /\ wk' = [wk EXCEPT ![w] = NoWork]
      /\ UNCHANGED <<appended, queue, done, dead, reported>>
  BY DEF AckRefused
<1>2. Mine(wk[w]) = {}
  BY <1>1, Fields, Queue, Idle DEF Mine, Shape
<1>3. NoWork.pc = "idle" /\ NoWork.next # "recover"
  BY DEF NoWork
<1> QED BY <1>1, <1>2, <1>3, Queue, Idle, OwnStep

(* An element of a sequence.                                                  *)
LEMMA At ==
    ASSUME NEW U, NEW s \in Seq(U), NEW j \in 1..Len(s)
    PROVE  s[j] \in U /\ s[j] \in ToSet(s)
BY ElementsOf

(* What drain takes at once from the memory outbox.                           *)
LEMMA TakenIsPrefix ==
    ASSUME DrainInv
    PROVE  Taken \in Seq(1..appended)
<1> DEFINE free == Without(queue, HeldBack)
           m == IF Len(free) < BatchSize THEN Len(free) ELSE BatchSize
<1>1. free \in Seq(1..appended)
  BY Queue, WithoutElements
<1>2. Taken = SubSeq(free, 1, m)
  BY DEF Taken
<1>3. m \in 0..Len(free)
  <2> DEFINE l == Len(free)
  <2>1. l \in Nat /\ BatchSize \in Nat
    <3> HIDE DEF free
    <3> QED BY <1>1, DrainAssumption
  <2> HIDE DEF l, free
  <2> QED BY <2>1 DEF l
<1> HIDE DEF free, m
<1> QED BY <1>1, <1>2, <1>3, ElementsPrefix

(* Drain: in memory what is taken goes from the queue into the worker's hands; of*)
(* rows only the page is noted.                                               *)
LEMMA DrainStep ==
    ASSUME DrainInv, NEW w \in Workers, Drain(w)
    PROVE  DrainInv'
<1>1. wk[w].pc = "drain" /\ UNCHANGED <<appended, done, dead, reported>>
  BY DEF Drain
<1>2. wk[w] \in Work(appended) /\ wk[w].got = << >> /\ wk[w].todo = << >> /\ wk[w].i = 1
  BY <1>1, Fields DEF Shape
<1>3. ~Leased
  BY <1>1 DEF DrainInv, LeasedInv
<1>4. Mine(wk[w]) = {}
  BY <1>1, <1>2, Queue, Idle DEF Mine
<1>5. CASE Kind = "memory"
  <2> DEFINE k == [wk[w] EXCEPT !.got = Taken, !.pc = "deliver"]
  <2>1. queue' = Without(queue, ToSet(Taken)) /\ wk' = [wk EXCEPT ![w].got = Taken, ![w].pc = "deliver"]
    BY <1>5 DEF Drain
  <2>2. wk' = [wk EXCEPT ![w] = k]
    BY <2>1
  <2>3. k \in Work(appended)
    BY <1>2, TakenIsPrefix DEF Work, PhasesOf
  <2>4. k.got = Taken /\ k.i = 1 /\ k.pc = "deliver"
    BY <1>2 DEF Work
  <2> HIDE DEF k
  <2>5. Shape(k, Settled, reported)
    BY <2>4 DEF Shape
  <2>6. ToSet(Taken) \subseteq Mine(k)
    BY <2>4 DEF Mine
  <2>7. queue' \in Seq(1..appended) /\ ToSet(queue') = ToSet(queue) \ ToSet(Taken)
    BY <2>1, Queue, WithoutElements
  <2> QED BY <1>1, <1>3, <1>4, <2>2, <2>3, <2>5, <2>6, <2>7, QueueStep
<1>6. CASE Kind # "memory"
  <2> DEFINE k == [wk[w] EXCEPT !.page = queue, !.pc = "row"]
  <2>1. UNCHANGED queue /\ wk' = [wk EXCEPT ![w].page = queue, ![w].pc = "row"]
    BY <1>6 DEF Drain
  <2>2. wk' = [wk EXCEPT ![w] = k]
    BY <2>1
  <2>3. k \in Work(appended)
    BY <1>2, Queue DEF Work, PhasesOf
  <2>4. k.todo = << >> /\ k.pc = "row"
    BY <1>2 DEF Work
  <2> HIDE DEF k
  <2>5. Shape(k, Settled, reported)
    BY <2>4 DEF Shape
  <2> QED BY <1>1, <1>3, <1>4, <2>1, <2>2, <2>3, <2>5, OwnStep
<1> QED BY <1>5, <1>6

(* DrainRow: a row is skipped or looked at, none is moved.                    *)
LEMMA DrainRowStep ==
    ASSUME DrainInv, NEW w \in Workers, DrainRow(w)
    PROVE  DrainInv'
<1> DEFINE h == wk[w]
           e == h.page[h.i]
<1>1. h.pc = "row" /\ UNCHANGED <<appended, queue, done, dead, reported>>
  BY DEF DrainRow
<1>2. h \in Work(appended) /\ h.todo = << >> /\ ToSet(h.todo) = {} /\ Mine(h) = ToSet(h.got)
  BY <1>1, Fields, Queue, Idle DEF Shape, Mine
<1>3. ~Leased
  BY <1>1 DEF DrainInv, LeasedInv
<1>4. CASE wk' = [wk EXCEPT ![w] = [h EXCEPT !.pc = "deliver", !.i = 1, !.blocked = {}]]
  <2> DEFINE k == [h EXCEPT !.pc = "deliver", !.i = 1, !.blocked = {}]
  <2>1. k \in Work(appended) /\ k.pc = "deliver" /\ k.i = 1 /\ k.got = h.got
    <3> HIDE DEF h
    <3>1. h \in Work(appended)
      BY <1>2
    <3>2. k \in Work(appended)
      <4>1. {} \in SUBSET {Entity[x] : x \in Events} /\ 1 \in Nat \ {0}
        OBVIOUS
      <4> QED BY <3>1, <4>1 DEF Work, PhasesOf
    <3>3. k.pc = "deliver" /\ k.i = 1
      BY <3>1 DEF Work
    <3>4. k.got = h.got
      BY <3>1 DEF Work
    <3> QED BY <3>2, <3>3, <3>4
  <2>2. wk' = [wk EXCEPT ![w] = k]
    BY <1>4
  <2> HIDE DEF k, h
  <2>3. Shape(k, Settled, reported) /\ Mine(h) \subseteq Mine(k)
    BY <1>2, <2>1 DEF Shape, Mine
  <2> QED BY <1>1, <1>3, <2>1, <2>2, <2>3, OwnStep DEF h
<1>5. CASE /\ h.i <= Len(h.page)
           /\ \/ wk' = [wk EXCEPT ![w] = [h EXCEPT !.i = @ + 1,
                                             !.blocked = blockOutboxEntityOrderKeys(@, e)]]
              \/ wk' = [wk EXCEPT ![w] = [h EXCEPT !.pc = "del"]]
  <2>1. h.i \in Nat \ {0} /\ h.i \in 1..Len(h.page) /\ e \in 1..appended
    <3>1. h.i \in Nat \ {0} /\ h.page \in Seq(1..appended)
      BY <1>2 DEF Work
    <3> HIDE DEF h
    <3>2. h.i \in 1..Len(h.page)
      BY <1>5, <3>1
    <3>3. h.page[h.i] \in 1..appended
      BY <3>1, <3>2, At
    <3> QED BY <3>1, <3>2, <3>3
  <2>2. e \in Events
    BY <2>1, Queue, DrainAssumption DEF Events
  <2>3. PICK k : /\ wk' = [wk EXCEPT ![w] = k]
                 /\ \/ k = [h EXCEPT !.i = @ + 1, !.blocked = blockOutboxEntityOrderKeys(@, e)]
                    \/ k = [h EXCEPT !.pc = "del"]
    BY <1>5
  <2>4. k \in Work(appended)
    <3>1. CASE k = [h EXCEPT !.i = @ + 1, !.blocked = blockOutboxEntityOrderKeys(@, e)]
      <4>1. blockOutboxEntityOrderKeys(h.blocked, e) \in SUBSET {Entity[x] : x \in Events}
        BY <1>2, <2>2 DEF Work, blockOutboxEntityOrderKeys
      <4>2. h.i + 1 \in Nat \ {0}
        BY <2>1
      <4>3. k = [h EXCEPT !.i = h.i + 1, !.blocked = blockOutboxEntityOrderKeys(h.blocked, e)]
        BY <3>1, <1>2 DEF Work
      <4> HIDE DEF e
      <4> QED BY <1>2, <4>1, <4>2, <4>3 DEF Work
    <3>2. CASE k = [h EXCEPT !.pc = "del"]
      BY <1>2, <3>2 DEF Work, PhasesOf
    <3> QED BY <2>3, <3>1, <3>2
  <2>5. /\ k.pc \in {"row", "del"} /\ k.todo = << >> /\ k.got = h.got
        /\ k.pc = "del" => k.i = h.i /\ k.page = h.page
    BY <1>1, <1>2, <2>3 DEF Work
  <2> HIDE DEF h, e
  <2>6. Shape(k, Settled, reported) /\ Mine(h) \subseteq Mine(k)
    BY <1>2, <2>1, <2>5 DEF Shape, Mine
  <2> QED BY <1>1, <1>3, <2>3, <2>4, <2>6, OwnStep DEF h
<1>6. h.i \in Nat /\ Len(h.page) \in Nat
  <2>1. h.i \in Nat /\ h.page \in Seq(1..appended)
    BY <1>2 DEF Work
  <2> HIDE DEF h
  <2> QED BY <2>1
<1>7. \/ wk' = [wk EXCEPT ![w] = [h EXCEPT !.pc = "deliver", !.i = 1, !.blocked = {}]]
      \/ /\ ~ (h.i > Len(h.page))
         /\ \/ wk' = [wk EXCEPT ![w] = [h EXCEPT !.i = @ + 1,
                                           !.blocked = blockOutboxEntityOrderKeys(@, e)]]
            \/ wk' = [wk EXCEPT ![w] = [h EXCEPT !.pc = "del"]]
  <2>1. CASE h.i > Len(h.page) \/ BatchFull(h)
    BY <2>1 DEF DrainRow
  <2>2. CASE /\ ~ (h.i > Len(h.page) \/ BatchFull(h))
             /\ Blocked(h.blocked, e) \/ e \in waiting \/ e \notin InQueue
    BY <2>2 DEF DrainRow
  <2>3. CASE /\ ~ (h.i > Len(h.page) \/ BatchFull(h))
             /\ ~ (Blocked(h.blocked, e) \/ e \in waiting \/ e \notin InQueue)
    BY <2>3 DEF DrainRow
  <2> QED BY <2>1, <2>2, <2>3
<1>8. ~ (h.i > Len(h.page)) => h.i <= Len(h.page)
  BY <1>6
<1> QED BY <1>4, <1>5, <1>7, <1>8

(* An event more among those whose entity is blocked.                         *)
LEMMA BlockOneMore ==
    ASSUME DrainInv, NEW b \in SUBSET {Entity[x] : x \in Events}, NEW e \in 1..appended
    PROVE  blockOutboxEntityOrderKeys(b, e) \in SUBSET {Entity[x] : x \in Events}
<1>1. e \in Events
  BY Queue, DrainAssumption DEF Events
<1> QED BY <1>1 DEF blockOutboxEntityOrderKeys

(* DrainDelete: the row deleted is the event the worker gets.                 *)
LEMMA DrainDeleteStep ==
    ASSUME DrainInv, NEW w \in Workers, DrainDelete(w)
    PROVE  DrainInv'
<1> DEFINE h == wk[w]
           e == h.page[h.i]
<1>1. h.pc = "del" /\ UNCHANGED <<appended, done, dead, reported>>
  BY DEF DrainDelete
<1>2. h \in Work(appended) /\ h.todo = << >> /\ h.i \in 1..Len(h.page)
  BY <1>1, Fields DEF Shape
<1>3. ~Leased
  BY <1>1 DEF DrainInv, LeasedInv
<1>4. \/ /\ queue' = Without(queue, {e})
         /\ wk' = [wk EXCEPT ![w].got = Append(@, e), ![w].i = @ + 1, ![w].pc = "row"]
      \/ /\ wk' = [wk EXCEPT ![w].i = @ + 1, ![w].pc = "row",
                             ![w].blocked = blockOutboxEntityOrderKeys(@, e)]
         /\ UNCHANGED queue
  BY DEF DrainDelete
<1>5. /\ e \in 1..appended /\ h.i \in Nat /\ h.got \in Seq(1..appended)
      /\ h.blocked \in SUBSET {Entity[x] : x \in Events}
  <2>1. /\ h.page \in Seq(1..appended) /\ h.i \in Nat /\ h.got \in Seq(1..appended)
        /\ h.blocked \in SUBSET {Entity[x] : x \in Events}
    BY <1>2 DEF Work
  <2> HIDE DEF h
  <2> QED BY <1>2, <2>1, At
<1>6. Mine(h) = ToSet(h.got)
  BY <1>1, <1>2, Queue, Idle DEF Mine
<1>7. CASE /\ queue' = Without(queue, {e})
           /\ wk' = [wk EXCEPT ![w].got = Append(@, e), ![w].i = @ + 1, ![w].pc = "row"]
  <2> DEFINE k == [h EXCEPT !.got = Append(h.got, e), !.i = h.i + 1, !.pc = "row"]
  <2>1. wk' = [wk EXCEPT ![w] = k]
    BY <1>7
  <2>2. /\ Append(h.got, e) \in Seq(1..appended)
        /\ ToSet(Append(h.got, e)) = ToSet(h.got) \cup {e}
    <3> DEFINE U == 1..appended
               got == h.got
    <3>1. got \in Seq(U) /\ e \in U
      BY <1>5
    <3> HIDE DEF h, e, U, got
    <3>2. Append(got, e) \in Seq(U) /\ ToSet(Append(got, e)) = ToSet(got) \cup {e}
      BY <3>1, ElementsAppend
    <3> QED BY <3>2 DEF U, got
  <2> HIDE DEF h, e
  <2>3. k \in Work(appended)
    <3>1. h.i + 1 \in Nat \ {0}
      BY <1>5
    <3> HIDE DEF e
    <3> QED BY <1>2, <2>2, <3>1 DEF Work, PhasesOf
  <2>4. k.pc = "row" /\ k.todo = << >>
    BY <1>2 DEF Work
  <2>5. k.got = Append(h.got, e)
    BY <1>2 DEF Work
  <2> HIDE DEF k
  <2>6. Shape(k, Settled, reported) /\ Mine(h) \cup {e} \subseteq Mine(k)
    BY <1>6, <2>2, <2>4, <2>5 DEF Shape, Mine
  <2>7. queue' \in Seq(1..appended) /\ ToSet(queue') = ToSet(queue) \ {e}
    BY <1>7, Queue, WithoutElements
  <2>8. Mine(wk[w]) \cup {e} \subseteq Mine(k)
    BY <2>6 DEF h
  <2> QED BY <1>1, <1>3, <2>1, <2>3, <2>6, <2>7, <2>8, QueueStep
<1>8. CASE /\ wk' = [wk EXCEPT ![w].i = @ + 1, ![w].pc = "row",
                               ![w].blocked = blockOutboxEntityOrderKeys(@, e)]
           /\ UNCHANGED queue
  <2> DEFINE b == blockOutboxEntityOrderKeys(h.blocked, e)
             k == [h EXCEPT !.i = h.i + 1, !.pc = "row", !.blocked = b]
  <2>1. wk' = [wk EXCEPT ![w] = k]
    BY <1>8
  <2>2. b \in SUBSET {Entity[x] : x \in Events}
    BY <1>5, BlockOneMore
  <2> HIDE DEF h, e, b
  <2>3. k \in Work(appended)
    <3>1. h.i + 1 \in Nat \ {0}
      BY <1>5
    <3> QED BY <1>2, <2>2, <3>1 DEF Work, PhasesOf
  <2>4. k.pc = "row" /\ k.todo = << >>
    BY <1>2 DEF Work
  <2>5. k.got = h.got
    BY <1>2 DEF Work
  <2> HIDE DEF k
  <2>6. Shape(k, Settled, reported) /\ Mine(h) \subseteq Mine(k)
    BY <1>6, <2>4, <2>5 DEF Shape, Mine
  <2>7. Mine(wk[w]) \subseteq Mine(k)
    BY <2>6 DEF h
  <2> QED BY <1>1, <1>3, <1>8, <2>1, <2>3, <2>6, <2>7, OwnStep
<1> QED BY <1>4, <1>7, <1>8

(* DrainThrows: whether or not the row was deleted, the worker puts it back.  *)
LEMMA DrainThrowsStep ==
    ASSUME DrainInv, NEW w \in Workers, DrainThrows(w)
    PROVE  DrainInv'
<1> DEFINE h == wk[w]
           e == h.page[h.i]
           k == [h EXCEPT !.pc = "reinsert", !.todo = PutBack(h.got, e), !.got = << >>,
                          !.next = "recover"]
<1>1. /\ h.pc = "del" /\ UNCHANGED <<appended, done, dead, reported>>
      /\ queue' \in {queue, Without(queue, {e})}
      /\ wk' = [wk EXCEPT ![w].pc = "reinsert", ![w].todo = PutBack(h.got, e),
                          ![w].got = << >>, ![w].next = "recover"]
  BY DEF DrainThrows
<1>2. h \in Work(appended) /\ h.todo = << >> /\ h.i \in 1..Len(h.page)
  BY <1>1, Fields DEF Shape
<1>3. ~Leased
  BY <1>1 DEF DrainInv, LeasedInv
<1>4. e \in 1..appended /\ h.got \in Seq(1..appended)
  <2>1. h.page \in Seq(1..appended) /\ h.got \in Seq(1..appended)
    BY <1>2 DEF Work
  <2> HIDE DEF h
  <2> QED BY <1>2, <2>1, At
<1>5. Mine(h) = ToSet(h.got)
  BY <1>1, <1>2, Queue, Idle DEF Mine
<1>6. wk' = [wk EXCEPT ![w] = k]
  BY <1>1
<1>7. /\ PutBack(h.got, e) \in Seq(1..appended)
      /\ ToSet(PutBack(h.got, e)) = ToSet(h.got) \cup {e}
  <2> DEFINE U == 1..appended
             got == h.got
  <2>1. got \in Seq(U) /\ e \in U
    BY <1>4
  <2> HIDE DEF h, e, U, got
  <2>2. Append(got, e) \in Seq(U) /\ ToSet(Append(got, e)) = ToSet(got) \cup {e}
    BY <2>1, ElementsAppend
  <2> QED BY <2>2 DEF U, got, PutBack
<1> HIDE DEF h, e
<1>8. k \in Work(appended)
  <2>1. << >> \in Seq(1..appended)
    OBVIOUS
  <2> QED BY <1>2, <1>7, <2>1 DEF Work, PhasesOf
<1>9. k.pc = "reinsert" /\ k.got = << >> /\ k.next = "recover"
  BY <1>2 DEF Work
<1>10. k.todo = PutBack(h.got, e)
  BY <1>2 DEF Work
<1> HIDE DEF k
<1>11. Shape(k, Settled, reported) /\ Mine(h) \cup {e} \subseteq Mine(k)
  BY <1>5, <1>7, <1>9, <1>10 DEF Shape, Mine
<1>12. queue' \in Seq(1..appended) /\ ToSet(queue) \subseteq ToSet(queue') \cup {e}
  <2>1. /\ Without(queue, {e}) \in Seq(1..appended)
        /\ ToSet(Without(queue, {e})) = ToSet(queue) \ {e}
    BY Queue, WithoutElements
  <2> QED BY <1>1, <2>1, Queue
<1>13. Mine(wk[w]) \cup {e} \subseteq Mine(k)
  BY <1>11 DEF h
<1> QED BY <1>1, <1>3, <1>6, <1>8, <1>11, <1>12, <1>13, QueueStep

(* Recover: what is gone of the snapshot is put back by requeue.              *)
LEMMA RecoverStep ==
    ASSUME DrainInv, NEW w \in Workers, Recover(w)
    PROVE  DrainInv'
<1> DEFINE h == wk[w]
           missing == Without(h.snap, InQueue)
           k == [h EXCEPT !.pc = "requeue", !.todo = missing, !.made = << >>]
<1>1. /\ h.pc = "recover" /\ UNCHANGED <<appended, queue, done, dead, reported>>
      /\ wk' = [wk EXCEPT ![w].pc = "requeue", ![w].todo = missing, ![w].made = << >>]
  BY DEF Recover
<1>2. h \in Work(appended) /\ h.todo = << >> /\ h.got = << >>
  BY <1>1, Fields DEF Shape
<1>3. ~Leased
  BY <1>1 DEF DrainInv, LeasedInv
<1>4. Mine(wk[w]) = {}
  BY <1>1, <1>2, Queue, Idle DEF Mine
<1>5. wk' = [wk EXCEPT ![w] = k]
  BY <1>1
<1>6. missing \in Seq(1..appended)
  <2>1. h.snap \in Seq(1..appended)
    BY <1>2 DEF Work
  <2> HIDE DEF h
  <2> QED BY <2>1, WithoutElements
<1> HIDE DEF h, missing
<1>7. k \in Work(appended)
  <2>1. << >> \in Seq(1..appended)
    OBVIOUS
  <2> QED BY <1>2, <1>6, <2>1 DEF Work, PhasesOf
<1>8. k.pc = "requeue" /\ k.got = << >>
  BY <1>2 DEF Work
<1> HIDE DEF k
<1>9. Shape(k, Settled, reported)
  BY <1>8 DEF Shape
<1> QED BY <1>1, <1>3, <1>4, <1>5, <1>7, <1>9, OwnStep

(* Settle: every event of the batch is settled or goes back.                  *)
LEMMA SettleStep ==
    ASSUME DrainInv, NEW w \in Workers, Settle(w)
    PROVE  DrainInv'
<1> DEFINE h == wk[w]
           k == [h EXCEPT !.pc = "requeue", !.got = << >>, !.made = << >>]
<1>1. /\ h.pc = "deliver" /\ h.i > Len(h.got)
      /\ UNCHANGED <<appended, queue, done, dead, reported>>
      /\ wk' = [wk EXCEPT ![w].pc = "requeue", ![w].got = << >>, ![w].made = << >>]
  BY DEF Settle
<1>2. /\ h \in Work(appended)
      /\ \A j \in 1..Len(h.got) : j < h.i => h.got[j] \in Settled \cup ToSet(h.todo)
  BY <1>1, Fields DEF Shape
<1>3. ~Leased
  BY <1>1 DEF DrainInv, LeasedInv
<1>4. wk' = [wk EXCEPT ![w] = k]
  BY <1>1
<1>5. Mine(h) \subseteq Settled \cup ToSet(h.todo)
  <2>1. h.got \in Seq(1..appended) /\ h.i \in Nat
    BY <1>2 DEF Work
  <2> HIDE DEF h
  <2>2. \A j \in 1..Len(h.got) : j < h.i
    BY <1>1, <2>1
  <2>3. ToSet(h.got) \subseteq Settled \cup ToSet(h.todo)
    BY <1>2, <2>1, <2>2, ElementsOf
  <2> QED BY <1>1, <2>3 DEF Mine
<1> HIDE DEF h
<1>6. k \in Work(appended)
  <2>1. << >> \in Seq(1..appended)
    OBVIOUS
  <2> QED BY <1>2, <2>1 DEF Work, PhasesOf
<1>7. k.pc = "requeue" /\ k.got = << >>
  BY <1>2 DEF Work
<1>8. k.todo = h.todo
  BY <1>2 DEF Work
<1> HIDE DEF k
<1>9. Shape(k, Settled, reported) /\ ToSet(h.todo) \subseteq Mine(k)
  BY <1>7, <1>8 DEF Shape, Mine
<1>10. Mine(wk[w]) \subseteq Out \cup Mine(k)
  BY <1>5, <1>9 DEF h, Out
<1> QED BY <1>1, <1>3, <1>4, <1>6, <1>9, <1>10, OwnStep DEF h

(* What is placed is in the queue, and what was there stays.                  *)
LEMMA PlacedKeeps ==
    ASSUME DrainInv, NEW es \in Seq(1..appended), es # << >>
    PROVE  /\ Placed(es) \in Seq(1..appended)
           /\ ToSet(queue) \cup ToSet(es) \subseteq ToSet(Placed(es))
<1>1. CASE Kind = "memory"
  <2>1. Placed(es) = es \o queue
    BY <1>1 DEF Placed
  <2> QED BY <2>1, Queue, ElementsConcat
<1>2. CASE Kind # "memory"
  <2> DEFINE above == {e \in InQueue : e > es[1]}
             below == {e \in InQueue : e < es[1]}
             q == Without(queue, above)
             r == Without(queue, below)
  <2>1. /\ q \in Seq(1..appended) /\ ToSet(q) = ToSet(queue) \ above
        /\ r \in Seq(1..appended) /\ ToSet(r) = ToSet(queue) \ below
    BY Queue, WithoutElements
  <2>2. es[1] \in 1..appended /\ es[1] \in ToSet(es)
    BY ElementsTail
  <2>3. \A e \in above : e \notin below
    <3>1. ASSUME NEW e \in InQueue, e > es[1], e < es[1] PROVE FALSE
      <4>1. e \in 1..appended /\ es[1] \in 1..appended
        BY <2>2, Queue, ElementsOf
      <4> QED BY <3>1, <4>1, Queue
    <3> QED BY <3>1
  <2>4. Placed(es) = (q \o es) \o r
    BY <1>2 DEF Placed
  <2> HIDE DEF q, r, above, below
  <2>5. q \o es \in Seq(1..appended) /\ ToSet(q \o es) = ToSet(q) \cup ToSet(es)
    BY <2>1, ElementsConcat
  <2>6. /\ (q \o es) \o r \in Seq(1..appended)
        /\ ToSet((q \o es) \o r) = ToSet(q \o es) \cup ToSet(r)
    <3> DEFINE p == q \o es
               U == 1..appended
    <3>1. p \in Seq(U) /\ r \in Seq(U)
      BY <2>1, <2>5
    <3> HIDE DEF p, U
    <3>2. p \o r \in Seq(U) /\ ToSet(p \o r) = ToSet(p) \cup ToSet(r)
      BY <3>1, ElementsConcat
    <3> QED BY <3>2 DEF p, U
  <2> QED BY <2>1, <2>3, <2>4, <2>5, <2>6
<1> QED BY <1>1, <1>2

(* Reinsert: the row put back is in the outbox, the others still in hand.     *)
LEMMA ReinsertStep ==
    ASSUME DrainInv, NEW w \in Workers, Reinsert(w)
    PROVE  DrainInv'
<1> DEFINE h == wk[w]
           es == h.todo
<1>1. h.pc = "reinsert" /\ UNCHANGED <<appended, done, dead, reported>>
  BY DEF Reinsert
<1>2. /\ h \in Work(appended) /\ h.got = << >> /\ h.next # ""
      /\ Leased => h.next # "recover"
  BY <1>1, Fields DEF Shape, DrainInv, LeasedInv
<1>3. Mine(h) = ToSet(es)
  BY <1>1, <1>2, Queue, Idle DEF Mine
<1>4. es \in Seq(1..appended) /\ h.next \in {"", "recover", "refused"}
  BY <1>2 DEF Work
<1>5. CASE es = << >>
  <2> DEFINE k == [h EXCEPT !.pc = h.next, !.todo = << >>, !.next = ""]
  <2>1. wk' = [wk EXCEPT ![w] = k] /\ UNCHANGED queue
    BY <1>5 DEF Reinsert
  <2>2. Mine(h) = {}
    BY <1>3, <1>5, Queue, Idle
  <2> HIDE DEF h
  <2>3. k \in Work(appended)
    <3>1. << >> \in Seq(1..appended)
      OBVIOUS
    <3>2. h.next \in {"recover", "refused"}
      BY <1>2, <1>4
    <3>3. h.next \in PhasesOf
      BY <3>2 DEF PhasesOf
    <3> QED BY <1>2, <3>1, <3>3 DEF Work
  <2>4. k.pc = h.next /\ k.next = ""
    BY <1>2 DEF Work
  <2>5. k.todo = << >> /\ k.got = << >>
    BY <1>2 DEF Work
  <2> HIDE DEF k
  <2>6. Shape(k, Settled, reported)
    BY <1>2, <1>4, <2>4, <2>5 DEF Shape
  <2>7. Leased => k.pc \in {"idle", "ack", "reinsert", "refused"} /\ k.next # "recover"
    BY <1>2, <1>4, <2>4
  <2>8. Mine(wk[w]) = {}
    BY <2>2 DEF h
  <2> QED BY <1>1, <2>1, <2>3, <2>6, <2>7, <2>8, OwnStep
<1>6. CASE es # << >>
  <2> DEFINE k == [h EXCEPT !.todo = Tail(es)]
  <2>1. /\ wk' = [wk EXCEPT ![w] = k]
        /\ queue' = IF es[1] \in InQueue THEN queue ELSE Placed(<<es[1]>>)
    BY <1>6 DEF Reinsert
  <2>2. /\ Tail(es) \in Seq(1..appended) /\ es[1] \in 1..appended
        /\ ToSet(es) = {es[1]} \cup ToSet(Tail(es))
    <3> HIDE DEF es
    <3> QED BY <1>4, <1>6, ElementsTail
  <2>3. queue' \in Seq(1..appended) /\ ToSet(queue) \cup {es[1]} \subseteq ToSet(queue')
    <3> DEFINE e == es[1]
    <3>1. e \in 1..appended
      BY <2>2
    <3> HIDE DEF e, es
    <3>2. << >> \in Seq(1..appended) /\ <<e>> # << >> /\ <<e>> = Append(<< >>, e)
      BY <3>1
    <3>3. <<e>> \in Seq(1..appended) /\ ToSet(<<e>>) = {e}
      BY <3>1 DEF ToSet
    <3>4. /\ Placed(<<e>>) \in Seq(1..appended)
          /\ ToSet(queue) \cup ToSet(<<e>>) \subseteq ToSet(Placed(<<e>>))
      BY <3>2, <3>3, PlacedKeeps
    <3>5. queue' = IF e \in InQueue THEN queue ELSE Placed(<<e>>)
      BY <2>1 DEF e
    <3>6. queue' \in Seq(1..appended) /\ ToSet(queue) \cup {e} \subseteq ToSet(queue')
      BY <3>3, <3>4, <3>5, Queue
    <3> QED BY <3>6 DEF e
  <2> HIDE DEF es
  <2>4. k \in Work(appended)
    <3> HIDE DEF h
    <3> QED BY <1>2, <2>2 DEF Work, PhasesOf
  <2>5. k.pc = "reinsert" /\ k.next = h.next
    BY <1>1, <1>2 DEF Work
  <2>6. k.got = << >> /\ k.todo = Tail(es)
    BY <1>2 DEF Work
  <2> HIDE DEF k, h
  <2>7. Shape(k, Settled, reported) /\ ToSet(Tail(es)) \subseteq Mine(k)
    BY <1>2, <2>5, <2>6 DEF Shape, Mine
  <2>8. Mine(wk[w]) \subseteq ToSet(queue') \cup Mine(k)
    BY <1>3, <2>2, <2>3, <2>7 DEF h
  <2>9. Leased => k.pc \in {"idle", "ack", "reinsert", "refused"} /\ k.next # "recover"
    BY <1>2, <2>5
  <2> QED BY <1>1, <2>1, <2>3, <2>4, <2>7, <2>8, <2>9, QueueStep
<1> QED BY <1>5, <1>6

(* ReinsertThrows: the row that cannot be inserted is reported.               *)
LEMMA ReinsertThrowsStep ==
    ASSUME DrainInv, NEW w \in Workers, ReinsertThrows(w)
    PROVE  DrainInv'
<1> DEFINE h == wk[w]
           es == h.todo
           k == [h EXCEPT !.todo = Tail(es), !.bad = TRUE]
<1>1. /\ h.pc = "reinsert" /\ UNCHANGED <<appended, queue, done, dead>> /\ es # << >>
      /\ reported' = reported \cup {Head(es)}
      /\ wk' = [wk EXCEPT ![w].todo = Tail(@), ![w].bad = TRUE]
  BY DEF ReinsertThrows
<1>2. /\ h \in Work(appended) /\ h.got = << >> /\ h.next # ""
      /\ Leased => h.next # "recover"
  BY <1>1, Fields DEF Shape, DrainInv, LeasedInv
<1>3. Mine(h) = ToSet(es)
  BY <1>1, <1>2, Queue, Idle DEF Mine
<1>4. es \in Seq(1..appended)
  BY <1>2 DEF Work
<1>5. wk' = [wk EXCEPT ![w] = k]
  BY <1>1
<1>6. /\ Tail(es) \in Seq(1..appended) /\ Head(es) \in 1..appended
      /\ ToSet(es) = {Head(es)} \cup ToSet(Tail(es))
  <2> HIDE DEF es
  <2> QED BY <1>1, <1>4, ElementsTail
<1> HIDE DEF es
<1>7. k \in Work(appended)
  <2> HIDE DEF h
  <2> QED BY <1>2, <1>6 DEF Work, PhasesOf
<1>8. k.pc = "reinsert" /\ k.next = h.next
  BY <1>1, <1>2 DEF Work
<1>9. k.got = << >> /\ k.todo = Tail(es)
  BY <1>2 DEF Work
<1> HIDE DEF k, h
<1>10. Shape(k, Settled', reported') /\ ToSet(Tail(es)) \subseteq Mine(k)
  BY <1>2, <1>8, <1>9 DEF Shape, Mine
<1>11. Settled' = Settled /\ InQueue' = InQueue
  BY <1>1 DEF Settled, InQueue
<1>12. Out \subseteq Out' \cup Mine(k) /\ Mine(wk[w]) \subseteq Out' \cup Mine(k)
  BY <1>1, <1>3, <1>6, <1>10, <1>11 DEF Out, h
<1>13. Leased => /\ dead' = {} /\ k.next # "recover"
                 /\ k.pc \in {"idle", "ack", "reinsert", "refused"}
  BY <1>1, <1>2, <1>8 DEF DrainInv, LeasedInv
<1>14. /\ queue' \in Seq(1..appended) /\ done' \in Seq(1..appended)
       /\ dead' \subseteq 1..appended /\ reported' \subseteq 1..appended
  BY <1>1, <1>6, Queue
<1>15. Settled \subseteq Settled' /\ reported \subseteq reported'
  BY <1>1, <1>11
<1> QED BY <1>1, <1>5, <1>7, <1>10, <1>12, <1>13, <1>14, <1>15, WorkerStep

(* The events one call of requeue puts back.                                  *)
Batch(h) == IF Kind = "memory" THEN h.todo ELSE SubSeq(h.todo, 1, 1)

(* It is not empty as long as there is something to put back.                 *)
LEMMA BatchOf ==
    ASSUME DrainInv, NEW h, h.todo \in Seq(1..appended), h.todo # << >>
    PROVE  Batch(h) \in Seq(1..appended) /\ Batch(h) # << >>
<1> DEFINE t == h.todo
           U == 1..appended
<1>1. t \in Seq(U) /\ t # << >>
  OBVIOUS
<1> HIDE DEF t, U
<1>2. 1 \in 0..Len(t)
  BY <1>1
<1>3. SubSeq(t, 1, 1) \in Seq(U) /\ Len(SubSeq(t, 1, 1)) = 1
  BY <1>1, <1>2, ElementsPrefix
<1>4. SubSeq(t, 1, 1) # << >>
  <2> DEFINE p == SubSeq(t, 1, 1)
  <2>1. p \in Seq(U) /\ Len(p) = 1
    BY <1>3
  <2> HIDE DEF p
  <2>2. p = << >> => Len(p) = Len(<< >>)
    OBVIOUS
  <2>3. Len(<< >>) = 0
    OBVIOUS
  <2>4. p # << >>
    BY <2>1, <2>2, <2>3
  <2> QED BY <2>4 DEF p
<1> QED BY <1>1, <1>3, <1>4 DEF Batch, t, U

(* Requeue: what leaves the worker's hands is in the outbox.                  *)
LEMMA RequeueStep ==
    ASSUME DrainInv, NEW w \in Workers, Requeue(w)
    PROVE  DrainInv'
<1> DEFINE h == wk[w]
           es == Batch(h)
<1>1. h.pc = "requeue" /\ UNCHANGED <<appended, done, dead, reported>>
  BY DEF Requeue
<1>2. h \in Work(appended) /\ h.got = << >> /\ ~Leased
  BY <1>1, Fields DEF Shape, DrainInv, LeasedInv
<1>3. Mine(h) = ToSet(h.todo)
  BY <1>1, <1>2, Queue, Idle DEF Mine
<1>4. h.todo \in Seq(1..appended) /\ h.made \in Seq(1..appended)
  BY <1>2 DEF Work
<1>5. CASE h.todo = << >>
  <2>1. wk' = [wk EXCEPT ![w] = NoWork] /\ UNCHANGED queue
    BY <1>5 DEF Requeue
  <2>2. Mine(wk[w]) = {}
    BY <1>3, <1>5, Queue, Idle
  <2>3. NoWork \in Work(appended) /\ Shape(NoWork, Settled, reported)
    BY Queue, Idle
  <2> QED BY <1>1, <1>2, <2>1, <2>2, <2>3, OwnStep
<1>6. CASE h.todo # << >>
  <2> DEFINE rest == Without(h.todo, ToSet(es))
             made == h.made \o es
             k == [h EXCEPT !.todo = rest, !.made = made]
  <2>1. /\ queue' = Placed(es)
        /\ wk' = [wk EXCEPT ![w].todo = Without(@, ToSet(es)), ![w].made = @ \o es]
    BY <1>6 DEF Requeue, Batch
  <2>2. wk' = [wk EXCEPT ![w] = k]
    BY <2>1
  <2>3. es \in Seq(1..appended) /\ es # << >>
    <3> HIDE DEF h
    <3> QED BY <1>4, <1>6, BatchOf
  <2> HIDE DEF es
  <2>4. queue' \in Seq(1..appended) /\ ToSet(queue) \cup ToSet(es) \subseteq ToSet(queue')
    BY <2>1, <2>3, PlacedKeeps
  <2> HIDE DEF h
  <2>5. rest \in Seq(1..appended) /\ ToSet(rest) = ToSet(h.todo) \ ToSet(es)
    <3> DEFINE t == h.todo
    <3>1. t \in Seq(1..appended)
      BY <1>4
    <3> HIDE DEF t
    <3> QED BY <3>1, WithoutElements DEF t
  <2>6. made \in Seq(1..appended)
    <3> DEFINE m == h.made
               U == 1..appended
    <3>1. m \in Seq(U) /\ es \in Seq(U)
      BY <1>4, <2>3
    <3> HIDE DEF m, U
    <3>2. m \o es \in Seq(U)
      BY <3>1, ElementsConcat
    <3> QED BY <3>2 DEF m, U
  <2> HIDE DEF rest, made
  <2>7. k \in Work(appended)
    BY <1>2, <2>5, <2>6 DEF Work
  <2>8. k.pc = "requeue" /\ k.got = << >>
    BY <1>1, <1>2 DEF Work
  <2>9. k.todo = rest
    BY <1>2 DEF Work
  <2> HIDE DEF k
  <2>10. Shape(k, Settled, reported) /\ ToSet(rest) \subseteq Mine(k)
    BY <2>8, <2>9 DEF Shape, Mine
  <2>11. Mine(wk[w]) \subseteq ToSet(queue') \cup Mine(k)
    BY <1>3, <2>4, <2>5, <2>10 DEF h
  <2> QED BY <1>1, <1>2, <2>2, <2>4, <2>7, <2>10, <2>11, QueueStep
<1> QED BY <1>5, <1>6

(* RequeueThrows: all that is not restored, made or not, is reported.         *)
LEMMA RequeueThrowsStep ==
    ASSUME DrainInv, NEW w \in Workers, RequeueThrows(w)
    PROVE  DrainInv'
<1> DEFINE h == wk[w]
           k == [h EXCEPT !.pc = "undo"]
<1>1. /\ h.pc = "requeue" /\ UNCHANGED <<appended, queue, done, dead>>
      /\ reported' = reported \cup Unrestored(h)
      /\ wk' = [wk EXCEPT ![w].pc = "undo"]
  BY DEF RequeueThrows
<1>2. h \in Work(appended) /\ h.got = << >> /\ ~Leased
  BY <1>1, Fields DEF Shape, DrainInv, LeasedInv
<1>3. wk' = [wk EXCEPT ![w] = k]
  BY <1>1
<1>4. Unrestored(h) = ToSet(h.todo) \cup ToSet(h.made) /\ Unrestored(h) \subseteq 1..appended
  <2>1. h.todo \in Seq(1..appended) /\ h.made \in Seq(1..appended)
    BY <1>2 DEF Work
  <2> HIDE DEF h
  <2> QED BY <2>1, ElementsOf DEF Unrestored
<1>5. Mine(h) = ToSet(h.todo)
  BY <1>1, <1>2, Queue, Idle DEF Mine
<1> HIDE DEF h
<1>6. k \in Work(appended)
  BY <1>2 DEF Work, PhasesOf
<1>7. k.pc = "undo" /\ k.got = << >>
  BY <1>2 DEF Work
<1>8. k.todo = h.todo /\ k.made = h.made
  BY <1>2 DEF Work
<1> HIDE DEF k
<1>9. Shape(k, Settled', reported') /\ ToSet(h.todo) \subseteq Mine(k)
  BY <1>1, <1>4, <1>7, <1>8 DEF Shape, Mine
<1>10. Settled' = Settled /\ InQueue' = InQueue
  BY <1>1 DEF Settled, InQueue
<1>11. Out \subseteq Out' \cup Mine(k) /\ Mine(wk[w]) \subseteq Out' \cup Mine(k)
  BY <1>1, <1>5, <1>9, <1>10 DEF Out, h
<1>12. /\ queue' \in Seq(1..appended) /\ done' \in Seq(1..appended)
       /\ dead' \subseteq 1..appended /\ reported' \subseteq 1..appended
  BY <1>1, <1>4, Queue
<1>13. Settled \subseteq Settled' /\ reported \subseteq reported'
  BY <1>1, <1>10
<1> QED BY <1>1, <1>2, <1>3, <1>6, <1>9, <1>11, <1>12, <1>13, WorkerStep

(* Undo: only events that were reported are deleted again.                    *)
LEMMA UndoStep ==
    ASSUME DrainInv, NEW w \in Workers, Undo(w)
    PROVE  DrainInv'
<1> DEFINE h == wk[w]
<1>1. h.pc = "undo" /\ UNCHANGED <<appended, done, dead, reported>>
  BY DEF Undo
<1>2. /\ h \in Work(appended) /\ h.got = << >> /\ ~Leased
      /\ ToSet(h.todo) \cup ToSet(h.made) \subseteq reported
  BY <1>1, Fields DEF Shape, DrainInv, LeasedInv
<1>3. Mine(h) \subseteq reported
  BY <1>1, <1>2, Queue, Idle DEF Mine
<1>4. h.made \in Seq(1..appended)
  BY <1>2 DEF Work
<1>5. CASE h.made = << >>
  <2>1. wk' = [wk EXCEPT ![w] = NoWork] /\ UNCHANGED queue
    BY <1>5 DEF Undo
  <2>2. Mine(wk[w]) \subseteq Out
    BY <1>3 DEF Out
  <2>3. NoWork \in Work(appended) /\ Shape(NoWork, Settled, reported)
    BY Queue, Idle
  <2> QED BY <1>1, <1>2, <2>1, <2>2, <2>3, OwnStep
<1>6. CASE h.made # << >>
  <2> DEFINE front == Front(h.made)
             e == Last(h.made)
             k == [h EXCEPT !.made = front]
  <2>1. /\ queue' = Without(queue, {e})
        /\ wk' = [wk EXCEPT ![w].made = Front(@)]
    BY <1>6 DEF Undo
  <2>2. wk' = [wk EXCEPT ![w] = k]
    BY <2>1
  <2>3. /\ front \in Seq(1..appended) /\ ToSet(front) \subseteq ToSet(h.made)
        /\ e \in ToSet(h.made)
    <3> DEFINE m == h.made
               U == 1..appended
    <3>1. m \in Seq(U) /\ m # << >>
      BY <1>4, <1>6
    <3> HIDE DEF m, U
    <3>2. Len(m) - 1 \in 0..Len(m) /\ Len(m) \in 1..Len(m)
      BY <3>1
    <3>3. SubSeq(m, 1, Len(m) - 1) \in Seq(U) /\ ToSet(SubSeq(m, 1, Len(m) - 1)) \subseteq ToSet(m)
      BY <3>1, <3>2, ElementsPrefix
    <3>4. m[Len(m)] \in ToSet(m)
      BY <3>1, <3>2, At
    <3>5. Front(m) = SubSeq(m, 1, Len(m) - 1) /\ Last(m) = m[Len(m)]
      BY DEF Front, Last
    <3>6. Front(m) \in Seq(U) /\ ToSet(Front(m)) \subseteq ToSet(m) /\ Last(m) \in ToSet(m)
      BY <3>3, <3>4, <3>5
    <3> QED BY <3>6 DEF m, U
  <2> HIDE DEF h, front, e
  <2>4. queue' \in Seq(1..appended) /\ ToSet(queue') = ToSet(queue) \ {e}
    BY <2>1, Queue, WithoutElements
  <2>5. k \in Work(appended)
    BY <1>2, <2>3 DEF Work
  <2>6. k.pc = "undo" /\ k.got = << >>
    BY <1>1, <1>2 DEF Work
  <2>7. k.todo = h.todo /\ k.made = front
    BY <1>2 DEF Work
  <2> HIDE DEF k
  <2>8. Shape(k, Settled, reported)
    BY <1>2, <2>3, <2>6, <2>7 DEF Shape
  <2>9. e \in reported
    BY <1>2, <2>3
  <2>10. ToSet(queue) \cup Mine(wk[w]) \subseteq ToSet(queue') \cup Settled \cup reported \cup Mine(k)
    BY <1>3, <2>4, <2>9 DEF h
  <2> QED BY <1>1, <1>2, <2>2, <2>4, <2>5, <2>8, <2>10, QueueStep
<1> QED BY <1>5, <1>6

(* What the delivery of an event changes.                                     *)
LEMMA AttemptStep ==
    ASSUME DrainInv, NEW w \in Workers, Attempt(w)
    PROVE  DrainInv'
<1> DEFINE h == wk[w]
           e == h.got[h.i]
           U == 1..appended
<1>1. h.pc = "deliver" /\ h.i <= Len(h.got) /\ UNCHANGED <<appended, queue, reported>>
  BY DEF Attempt
<1>2. /\ h \in Work(appended) /\ ~Leased
      /\ \A j \in 1..Len(h.got) : j < h.i => h.got[j] \in Settled \cup ToSet(h.todo)
  BY <1>1, Fields DEF Shape, DrainInv, LeasedInv
<1>3. /\ h.got \in Seq(U) /\ h.todo \in Seq(U) /\ h.i \in Nat \ {0}
      /\ h.blocked \in SUBSET {Entity[x] : x \in Events}
  BY <1>2 DEF Work
<1>4. e \in U /\ h.i \in 1..Len(h.got)
  <2> HIDE DEF h
  <2>1. h.i \in 1..Len(h.got)
    BY <1>1, <1>3
  <2> QED BY <1>3, <2>1, At
<1> DEFINE b == blockOutboxEntityOrderKeys(h.blocked, e)
<1>5. PICK b2 \in {h.blocked, b}, t2 \in {h.todo, Append(h.todo, e)} :
         /\ wk' = [wk EXCEPT ![w] = [h EXCEPT !.i = h.i + 1, !.todo = t2, !.blocked = b2]]
         /\ done' \in {done, Append(done, e)} /\ dead' \in {dead, dead \cup {e}}
         /\ e \in ToSet(t2) \/ done' = Append(done, e) \/ dead' = dead \cup {e}
  <2>1. h.todo \in Seq(U) /\ e \in U => e \in ToSet(Append(h.todo, e))
    <3> DEFINE t == h.todo
    <3> HIDE DEF t, U, h, e
    <3>1. ASSUME t \in Seq(U), e \in U PROVE e \in ToSet(Append(t, e))
      BY <3>1, ElementsAppend
    <3> QED BY <3>1 DEF t
  <2>2. CASE done' = Append(done, e) /\ wk' = [wk EXCEPT ![w].i = @ + 1] /\ dead' = dead
    <3>1. wk' = [wk EXCEPT ![w] = [h EXCEPT !.i = h.i + 1, !.todo = h.todo, !.blocked = h.blocked]]
      <4>1. [h EXCEPT !.i = h.i + 1] = [h EXCEPT !.i = h.i + 1, !.todo = h.todo, !.blocked = h.blocked]
        <5> HIDE DEF h
        <5> QED BY <1>2 DEF Work
      <4> QED BY <2>2, <4>1
    <3> QED BY <2>2, <3>1
  <2>3. CASE /\ wk' = [wk EXCEPT ![w].i = @ + 1, ![w].todo = Append(@, e),
                                 ![w].blocked = blockOutboxEntityOrderKeys(@, e)]
             /\ UNCHANGED <<done, dead>>
    <3>1. wk' = [wk EXCEPT ![w] = [h EXCEPT !.i = h.i + 1, !.todo = Append(h.todo, e), !.blocked = b]]
      BY <2>3
    <3> QED BY <1>3, <1>4, <2>1, <2>3, <3>1
  <2>4. CASE /\ dead' = dead \cup {e} /\ done' = done
             /\ wk' = [wk EXCEPT ![w].i = @ + 1,
                                 ![w].blocked = blockOutboxEntityOrderKeys(@, e)]
    <3>1. wk' = [wk EXCEPT ![w] = [h EXCEPT !.i = h.i + 1, !.todo = h.todo, !.blocked = b]]
      <4>1. [h EXCEPT !.i = h.i + 1, !.blocked = b]
            = [h EXCEPT !.i = h.i + 1, !.todo = h.todo, !.blocked = b]
        <5> HIDE DEF h, b
        <5> QED BY <1>2 DEF Work
      <4> QED BY <2>4, <4>1
    <3> QED BY <2>4, <3>1
  <2>5. CASE /\ wk' = [wk EXCEPT ![w].i = @ + 1, ![w].todo = Append(@, e)]
             /\ UNCHANGED <<done, dead>>
    <3>1. wk' = [wk EXCEPT ![w] = [h EXCEPT !.i = h.i + 1, !.todo = Append(h.todo, e),
                                            !.blocked = h.blocked]]
      <4>1. [h EXCEPT !.i = h.i + 1, !.todo = Append(h.todo, e)]
            = [h EXCEPT !.i = h.i + 1, !.todo = Append(h.todo, e), !.blocked = h.blocked]
        <5> HIDE DEF h
        <5> QED BY <1>2 DEF Work
      <4> QED BY <2>5, <4>1
    <3> QED BY <1>3, <1>4, <2>1, <2>5, <3>1
  <2> QED BY <2>2, <2>3, <2>4, <2>5 DEF Attempt
<1> DEFINE k == [h EXCEPT !.i = h.i + 1, !.todo = t2, !.blocked = b2]
<1>6. wk' = [wk EXCEPT ![w] = k]
  BY <1>5
<1>7. b \in SUBSET {Entity[x] : x \in Events}
  BY <1>3, <1>4, BlockOneMore
<1>8. t2 \in Seq(U) /\ ToSet(h.todo) \subseteq ToSet(t2)
  <2> DEFINE t == h.todo
  <2>1. t \in Seq(U) /\ e \in U /\ t2 \in {t, Append(t, e)}
    BY <1>3, <1>4, <1>5
  <2> HIDE DEF t, e, U
  <2>2. Append(t, e) \in Seq(U) /\ ToSet(Append(t, e)) = ToSet(t) \cup {e}
    BY <2>1, ElementsAppend
  <2>3. t2 \in Seq(U) /\ ToSet(t) \subseteq ToSet(t2)
    <3>1. CASE t2 = t
      BY <2>1, <3>1
    <3>2. CASE t2 = Append(t, e)
      BY <2>2, <3>2
    <3> QED BY <2>1, <3>1, <3>2
  <2> QED BY <2>3 DEF t
<1>9. Mine(h) = ToSet(h.got) \cup ToSet(h.todo)
  BY <1>1 DEF Mine
<1>10. /\ done' \in Seq(U) /\ ToSet(done) \subseteq ToSet(done') /\ dead' \subseteq U
       /\ e \in ToSet(t2) \cup Settled' /\ Settled \subseteq Settled'
  <2>1. done \in Seq(U) /\ dead \subseteq U
    BY Queue
  <2> HIDE DEF e, U, h, b
  <2>2. Append(done, e) \in Seq(U) /\ ToSet(Append(done, e)) = ToSet(done) \cup {e}
    BY <1>4, <2>1, ElementsAppend
  <2>3. done' \in Seq(U) /\ ToSet(done) \subseteq ToSet(done') /\ dead' \subseteq U
    BY <1>4, <1>5, <2>1, <2>2
  <2>4. e \in ToSet(t2) \cup Settled'
    BY <1>5, <2>2 DEF Settled
  <2>5. Settled \subseteq Settled'
    BY <1>5, <2>3 DEF Settled
  <2> QED BY <2>3, <2>4, <2>5
<1> HIDE DEF h, b, e
<1>11. k \in Work(appended)
  <2>1. h.i + 1 \in Nat \ {0}
    BY <1>3
  <2>2. t2 \in Seq(1..appended)
    BY <1>8
  <2>3. b2 \in SUBSET {Entity[x] : x \in Events}
    BY <1>3, <1>5, <1>7
  <2> HIDE DEF U
  <2> QED BY <1>2, <2>1, <2>2, <2>3 DEF Work
<1>12. k.pc = "deliver" /\ k.i = h.i + 1
  BY <1>1, <1>2 DEF Work
<1>13. k.got = h.got /\ k.todo = t2
  BY <1>2 DEF Work
<1> HIDE DEF k
<1>14. \A j \in 1..Len(k.got) : j < k.i => k.got[j] \in Settled' \cup ToSet(k.todo)
  <2> SUFFICES ASSUME NEW j \in 1..Len(h.got), j < h.i + 1
               PROVE  h.got[j] \in Settled' \cup ToSet(t2)
    BY <1>12, <1>13
  <2>1. j < h.i \/ j = h.i
    BY <1>3
  <2>2. CASE j < h.i
    BY <1>2, <1>8, <1>10, <2>2
  <2>3. CASE j = h.i
    BY <1>10, <2>3 DEF e
  <2> QED BY <2>1, <2>2, <2>3
<1>15. Shape(k, Settled', reported')
  BY <1>12, <1>14 DEF Shape
<1>16. Mine(wk[w]) \subseteq Mine(k)
  BY <1>8, <1>9, <1>13 DEF Mine, h
<1>17. InQueue' = InQueue
  BY <1>1 DEF InQueue
<1>18. Out \subseteq Out' \cup Mine(k) /\ Mine(wk[w]) \subseteq Out' \cup Mine(k)
  BY <1>1, <1>10, <1>16, <1>17 DEF Out
<1>19. /\ queue' \in Seq(1..appended) /\ done' \in Seq(1..appended)
       /\ dead' \subseteq 1..appended /\ reported' \subseteq 1..appended
  BY <1>1, <1>10, Queue
<1> QED BY <1>1, <1>2, <1>6, <1>10, <1>11, <1>15, <1>18, <1>19, WorkerStep

(* AckDelete: a row deleted is in the worker's hands until all are, then settled; a*)
(* version that changed sends back what was deleted.                          *)
LEMMA AckDeleteStep ==
    ASSUME DrainInv, NEW w \in Workers, AckDelete(w)
    PROVE  DrainInv'
<1> DEFINE h == wk[w]
           e == h.page[h.i]
           U == 1..appended
<1>1. h.pc = "ack" /\ UNCHANGED <<appended, dead, reported>>
  BY DEF AckDelete
<1>2. /\ h \in Work(appended) /\ h.got = << >> /\ h.todo = << >>
      /\ ToSet(h.made) \subseteq ToSet(h.page)
      /\ Leased => dead = {} /\ h.next # "recover"
  BY <1>1, Fields DEF Shape, DrainInv, LeasedInv
<1>3. Mine(h) = ToSet(h.made)
  BY <1>1, <1>2, Queue, Idle DEF Mine
<1>4. h.page \in Seq(U) /\ h.made \in Seq(U) /\ h.i \in Nat \ {0}
  BY <1>2 DEF Work
<1>5. CASE h.i > Len(h.page)
  <2>1. done' = done \o h.page /\ wk' = [wk EXCEPT ![w] = NoWork] /\ UNCHANGED queue
    BY <1>5 DEF AckDelete
  <2>2. done' \in Seq(U) /\ ToSet(done') = ToSet(done) \cup ToSet(h.page)
    <3> DEFINE p == h.page
    <3>1. done \in Seq(U) /\ p \in Seq(U)
      BY <1>4, Queue
    <3> HIDE DEF p, U
    <3>2. done \o p \in Seq(U) /\ ToSet(done \o p) = ToSet(done) \cup ToSet(p)
      BY <3>1, ElementsConcat
    <3> QED BY <2>1, <3>2 DEF p
  <2>3. Settled \subseteq Settled' /\ Mine(h) \subseteq Settled'
    BY <1>1, <1>2, <1>3, <2>2 DEF Settled
  <2>4. InQueue' = InQueue
    BY <2>1 DEF InQueue
  <2>5. Out \subseteq Out' /\ Mine(wk[w]) \subseteq Out'
    BY <1>1, <2>3, <2>4 DEF Out
  <2>6. NoWork \in Work(appended) /\ Shape(NoWork, Settled', reported')
    BY Queue, Idle
  <2>7. Leased => /\ dead' = {} /\ NoWork.next # "recover"
                  /\ NoWork.pc \in {"idle", "ack", "reinsert", "refused"}
    BY <1>1, <1>2 DEF NoWork
  <2>8. /\ queue' \in Seq(1..appended) /\ done' \in Seq(1..appended)
        /\ dead' \subseteq 1..appended /\ reported' \subseteq 1..appended
    BY <1>1, <2>1, <2>2, Queue
  <2> QED BY <1>1, <2>1, <2>3, <2>5, <2>6, <2>7, <2>8, WorkerStep
<1>6. CASE /\ h.i <= Len(h.page) /\ queue' = Without(queue, {e}) /\ UNCHANGED done
           /\ wk' = [wk EXCEPT ![w].made = Append(@, e), ![w].i = @ + 1]
  <2> DEFINE made == Append(h.made, e)
             k == [h EXCEPT !.made = made, !.i = h.i + 1]
  <2>1. wk' = [wk EXCEPT ![w] = k]
    BY <1>6
  <2>2. e \in U /\ e \in ToSet(h.page)
    <3> HIDE DEF h
    <3>1. h.i \in 1..Len(h.page)
      BY <1>4, <1>6
    <3> QED BY <1>4, <3>1, At
  <2>3. made \in Seq(U) /\ ToSet(made) = ToSet(h.made) \cup {e}
    <3> DEFINE m == h.made
    <3>1. m \in Seq(U)
      BY <1>4
    <3> HIDE DEF m, U, e, h
    <3>2. Append(m, e) \in Seq(U) /\ ToSet(Append(m, e)) = ToSet(m) \cup {e}
      BY <2>2, <3>1, ElementsAppend
    <3> QED BY <3>2 DEF m
  <2> HIDE DEF h, e, made
  <2>4. k \in Work(appended)
    <3>1. h.i + 1 \in Nat \ {0} /\ made \in Seq(1..appended)
      BY <1>4, <2>3
    <3> QED BY <1>2, <3>1 DEF Work
  <2>5. k.pc = "ack" /\ k.next = h.next
    BY <1>1, <1>2 DEF Work
  <2>6. k.got = << >> /\ k.todo = << >>
    BY <1>2 DEF Work
  <2>7. k.made = made /\ k.page = h.page
    BY <1>2 DEF Work
  <2> HIDE DEF k
  <2>8. Shape(k, Settled, reported) /\ Mine(h) \cup {e} \subseteq Mine(k)
    BY <1>2, <1>3, <2>2, <2>3, <2>5, <2>6, <2>7 DEF Shape, Mine
  <2>9. queue' \in Seq(1..appended) /\ ToSet(queue') = ToSet(queue) \ {e}
    BY <1>6, Queue, WithoutElements
  <2>10. Mine(wk[w]) \cup {e} \subseteq Mine(k)
    BY <2>8 DEF h
  <2>11. Leased => k.next # "recover" /\ k.pc \in {"idle", "ack", "reinsert", "refused"}
    BY <1>2, <2>5
  <2> QED BY <1>1, <1>6, <2>1, <2>4, <2>8, <2>9, <2>10, <2>11, QueueStep
<1>7. CASE /\ UNCHANGED <<queue, done>>
           /\ wk' = [wk EXCEPT ![w].pc = "reinsert", ![w].todo = h.made, ![w].next = "refused"]
  <2> DEFINE k == [h EXCEPT !.pc = "reinsert", !.todo = h.made, !.next = "refused"]
  <2>1. wk' = [wk EXCEPT ![w] = k]
    BY <1>7
  <2> HIDE DEF h
  <2>2. k \in Work(appended)
    BY <1>2, <1>4 DEF Work, PhasesOf
  <2>3. k.pc = "reinsert" /\ k.next = "refused"
    BY <1>2 DEF Work
  <2>4. k.got = << >> /\ k.todo = h.made
    BY <1>2 DEF Work
  <2> HIDE DEF k
  <2>5. Shape(k, Settled, reported) /\ Mine(h) \subseteq Mine(k)
    BY <1>3, <2>3, <2>4 DEF Shape, Mine
  <2>6. Mine(wk[w]) \subseteq Mine(k)
    BY <2>5 DEF h
  <2>7. Leased => k.next # "recover" /\ k.pc \in {"idle", "ack", "reinsert", "refused"}
    BY <2>3
  <2> QED BY <1>1, <1>7, <2>1, <2>2, <2>5, <2>6, <2>7, OwnStep
<1>8. \/ h.i > Len(h.page)
      \/ /\ ~ (h.i > Len(h.page))
         /\ \/ /\ queue' = Without(queue, {e}) /\ UNCHANGED done
               /\ wk' = [wk EXCEPT ![w].made = Append(@, e), ![w].i = @ + 1]
            \/ /\ UNCHANGED <<queue, done>>
               /\ wk' = [wk EXCEPT ![w].pc = "reinsert", ![w].todo = h.made, ![w].next = "refused"]
  BY DEF AckDelete
<1>9. ~ (h.i > Len(h.page)) => h.i <= Len(h.page)
  <2> HIDE DEF h
  <2> QED BY <1>4
<1> QED BY <1>5, <1>6, <1>7, <1>8, <1>9

(* AckThrows: as for the delete of a drain.                                   *)
LEMMA AckThrowsStep ==
    ASSUME DrainInv, NEW w \in Workers, AckThrows(w)
    PROVE  DrainInv'
<1> DEFINE h == wk[w]
           e == h.page[h.i]
           U == 1..appended
           todo == PutBack(h.made, e)
           k == [h EXCEPT !.pc = "reinsert", !.todo = todo, !.next = "refused"]
<1>1. /\ h.pc = "ack" /\ h.i <= Len(h.page) /\ UNCHANGED <<appended, done, dead, reported>>
      /\ queue' \in {queue, Without(queue, {e})}
      /\ wk' = [wk EXCEPT ![w].pc = "reinsert", ![w].todo = todo, ![w].next = "refused"]
  BY DEF AckThrows
<1>2. h \in Work(appended) /\ h.got = << >> /\ h.todo = << >>
  BY <1>1, Fields DEF Shape
<1>3. Mine(h) = ToSet(h.made)
  BY <1>1, <1>2, Queue, Idle DEF Mine
<1>4. h.page \in Seq(U) /\ h.made \in Seq(U) /\ h.i \in Nat \ {0}
  BY <1>2 DEF Work
<1>5. wk' = [wk EXCEPT ![w] = k]
  BY <1>1
<1>6. e \in U
  <2> HIDE DEF h
  <2>1. h.i \in 1..Len(h.page)
    BY <1>1, <1>4
  <2> QED BY <1>4, <2>1, At
<1>7. todo \in Seq(U) /\ ToSet(todo) = ToSet(h.made) \cup {e}
  <2> DEFINE m == h.made
  <2>1. m \in Seq(U)
    BY <1>4
  <2> HIDE DEF m, U, e, h
  <2>2. Append(m, e) \in Seq(U) /\ ToSet(Append(m, e)) = ToSet(m) \cup {e}
    BY <1>6, <2>1, ElementsAppend
  <2> QED BY <2>2 DEF m, PutBack
<1> HIDE DEF h, e, todo
<1>8. k \in Work(appended)
  BY <1>2, <1>7 DEF Work, PhasesOf
<1>9. k.pc = "reinsert" /\ k.next = "refused"
  BY <1>2 DEF Work
<1>10. k.got = << >> /\ k.todo = todo
  BY <1>2 DEF Work
<1> HIDE DEF k
<1>11. Shape(k, Settled, reported) /\ Mine(h) \cup {e} \subseteq Mine(k)
  BY <1>3, <1>7, <1>9, <1>10 DEF Shape, Mine
<1>12. Mine(wk[w]) \cup {e} \subseteq Mine(k)
  BY <1>11 DEF h
<1>13. queue' \in Seq(1..appended) /\ ToSet(queue) \subseteq ToSet(queue') \cup {e}
  <2>1. /\ Without(queue, {e}) \in Seq(1..appended)
        /\ ToSet(Without(queue, {e})) = ToSet(queue) \ {e}
    BY Queue, WithoutElements
  <2> QED BY <1>1, <2>1, Queue
<1>14. Leased => k.next # "recover" /\ k.pc \in {"idle", "ack", "reinsert", "refused"}
  BY <1>9
<1> QED BY <1>1, <1>5, <1>8, <1>11, <1>12, <1>13, <1>14, QueueStep

-----------------------------------------------------------------------------
(* The theorems.                                                              *)

(* The inductive invariant: what each worker has in its hands at each of its   *)
(* steps, and that every event is somewhere.                                  *)
THEOREM DrainSafe == Spec => []DrainInv
<1>1. Init => DrainInv
  BY InitDrain
<1>2. DrainInv /\ [Next]_vars => DrainInv'
  <2> SUFFICES ASSUME DrainInv, [Next]_vars PROVE DrainInv'
    OBVIOUS
  <2>1. CASE Append1
    BY <2>1, Append1Step
  <2>2. CASE AppendFails
    BY <2>2, AppendFailsStep
  <2>3. ASSUME NEW e \in Events, FallsDue(e) \/ Reclaim(e) PROVE DrainInv'
    BY <2>3, FallsDueStep, ReclaimStep
  <2>4. ASSUME NEW w \in Workers, Steps(w) PROVE DrainInv'
    BY <2>4, DrainStep, DrainRowStep, DrainDeleteStep, ReinsertStep, RecoverStep, AttemptStep,
       SettleStep, RequeueStep, RequeueThrowsStep, UndoStep DEF Steps
  <2>5. ASSUME NEW w \in Workers,
               \/ captureOutboxDrainRecoverySnapshot(w) \/ DrainThrows(w) \/ ReinsertThrows(w)
               \/ AckCheck(w) \/ AckDelete(w) \/ AckThrows(w) \/ AckRefused(w)
        PROVE  DrainInv'
    BY <2>5, CaptureStep, DrainThrowsStep, ReinsertThrowsStep, AckCheckStep, AckDeleteStep,
       AckThrowsStep, AckRefusedStep
  <2>6. CASE UNCHANGED vars
    <3>1. UNCHANGED <<appended, queue, done, dead, reported, wk>>
      BY <2>6 DEF vars
    <3>2. Settled' = Settled /\ Out' = Out
      BY <3>1 DEF Settled, Out, InQueue
    <3>3. Leased => dead' = {}
      BY <3>1 DEF DrainInv, LeasedInv
    <3> QED BY <3>1, <3>2, <3>3, Queue, EnvironmentStep
  <2> QED BY <2>1, <2>2, <2>3, <2>4, <2>5, <2>6 DEF Next
<1> QED BY <1>1, <1>2, PTL DEF Spec

(* No event disappears without a word: it is in the outbox, in a worker's      *)
(* hands, delivered, dead lettered, or named by a reported error, whatever     *)
(* fails between the removal from the outbox and the delivery, for any number  *)
(* of workers and both kinds of outbox.                                        *)
THEOREM EventsAreKept == Spec => []NoSilentLoss
<1>1. DrainInv => NoSilentLoss
  <2> SUFFICES ASSUME DrainInv, NEW e \in 1..appended
               PROVE  \/ e \in InQueue \cup ToSet(done) \cup dead \cup reported
                      \/ \E w \in Workers : e \in Held(w)
    BY DEF NoSilentLoss
  <2>1. e \in Out \/ \E v \in Workers : e \in Mine(wk[v])
    BY DEF DrainInv, KeptInv, Kept
  <2>2. \A v \in Workers : Mine(wk[v]) \subseteq Held(v)
    BY DEF Mine, Held
  <2> QED BY <2>1, <2>2 DEF Out, Settled
<1> QED BY <1>1, DrainSafe, PTL

(* An acknowledgement on rows without transactions that is refused leaves no   *)
(* row deleted, unless another worker finished it or the error names it.       *)
THEOREM RefusedAcksRestore ==
    (Leased /\ \A v, w \in Workers : v = w) => (Spec => []RefusedAckRestores)
<1> SUFFICES ASSUME Leased, \A v, w \in Workers : v = w
             PROVE  Spec => []RefusedAckRestores
  OBVIOUS
<1>1. DrainInv => RefusedAckRestores
  <2> SUFFICES ASSUME DrainInv, NEW w \in Workers, wk[w].pc = "refused"
               PROVE  ToSet(wk[w].page) \subseteq InQueue \cup reported \cup ToSet(done)
    BY DEF RefusedAckRestores
  <2> DEFINE h == wk[w]
  <2>1. h \in Work(appended) /\ h.got = << >> /\ h.todo = << >> /\ dead = {}
    BY Fields DEF Shape, DrainInv, LeasedInv
  <2>2. Mine(h) = {}
    BY <2>1, Queue, Idle DEF Mine
  <2>3. ToSet(h.page) \subseteq 1..appended
    <3>1. h.page \in Seq(1..appended)
      BY <2>1 DEF Work
    <3> HIDE DEF h
    <3> QED BY <3>1, ElementsOf
  <2>4. \A e \in 1..appended : e \in Out \/ e \in Mine(h)
    BY DEF DrainInv, KeptInv, Kept
  <2> QED BY <2>1, <2>2, <2>3, <2>4 DEF Out, Settled
<1> QED BY <1>1, DrainSafe, PTL

-----------------------------------------------------------------------------
(* The order of delivery: the invariant.                                      *)

(* Of one entity, every event of S was appended before every event of T.      *)
Ahead(S, T) == \A a \in S, b \in T : Entity[a] = Entity[b] => a < b

(* The events of an entity stand in s in the order they were appended.        *)
InOrder(s) == \A i, j \in 1..Len(s) : i < j /\ Entity[s[i]] = Entity[s[j]] => s[i] < s[j]

(* What a drain row by row has seen of its page; Q are the events in the      *)
(* outbox: a row that is still there behind it belongs to a blocked entity.   *)
Paged(k, D, Q) ==
    /\ InOrder(k.page) /\ InOrder(k.got)
    /\ Ahead(D, ToSet(k.page)) /\ Ahead(ToSet(k.got), Q)
    /\ Ahead(ToSet(k.page), Q \ ToSet(k.page))
    /\ \A n \in 1..Len(k.page) : n < k.i /\ k.page[n] \in Q => Entity[k.page[n]] \in k.blocked
    /\ \A g \in ToSet(k.got) : \E n \in 1..Len(k.page) : n < k.i /\ g = k.page[n]

(* A batch in delivery: what goes back belongs to a blocked entity.           *)
Delivers(k, D, Q) ==
    /\ InOrder(k.got) /\ Ahead(ToSet(k.got), Q)
    /\ \A n \in 1..Len(k.got) : n >= k.i => Ahead(D, {k.got[n]})
    /\ \A t \in ToSet(k.todo) :
          /\ Entity[t] \in k.blocked
          /\ \E n \in 1..Len(k.got) : n < k.i /\ t = k.got[n]
    /\ InOrder(k.todo)

(* A worker that drains, D being the events delivered.                        *)
Orderly(k, D, Q) ==
    /\ k.pc \notin {"ack", "refused"} /\ k.next # "refused"
    /\ Ahead(D, ToSet(k.todo))
    /\ k.pc \in {"drain", "row", "del", "reinsert", "recover"} => Ahead(D, ToSet(k.snap))
    /\ k.pc \in {"row", "del", "reinsert", "recover"} => Kind = "rows"
    /\ k.pc \in {"row", "del"} => Paged(k, D, Q)
    /\ k.pc = "del" => Entity[k.page[k.i]] \notin k.blocked
    /\ k.pc = "deliver" => Delivers(k, D, Q)
    /\ k.pc = "requeue" /\ Kind = "memory" => InOrder(k.todo) /\ Ahead(ToSet(k.todo), Q)

OrderInv ==
    /\ EntityOrder
    /\ InOrder(queue) /\ Ahead(ToSet(done), ToSet(queue))
    /\ \A w \in Workers : Orderly(wk[w], ToSet(done), ToSet(queue))

-----------------------------------------------------------------------------
(* Order and the operations on sequences.                                     *)

(* One more event that every event of its entity is ahead of.                 *)
LEMMA OrderAppend ==
    ASSUME NEW U \in SUBSET Nat, NEW s \in Seq(U), NEW e \in U,
           InOrder(s), Ahead(ToSet(s), {e})
    PROVE  InOrder(Append(s, e))
<1> DEFINE t == Append(s, e)
           n == Len(s)
<1>1. /\ Len(t) = n + 1 /\ n \in Nat
      /\ \A j \in 1..n : t[j] = s[j]
      /\ t[n + 1] = e
  OBVIOUS
<1>2. \A j \in 1..n : s[j] \in ToSet(s)
  BY ElementsOf
<1> HIDE DEF t, n
<1> SUFFICES ASSUME NEW i \in 1..(n + 1), NEW j \in 1..(n + 1), i < j, Entity[t[i]] = Entity[t[j]]
             PROVE  t[i] < t[j]
  BY <1>1 DEF InOrder, t
<1>3. i \in 1..n /\ (j \in 1..n \/ j = n + 1)
  BY <1>1
<1>4. CASE j \in 1..n
  BY <1>1, <1>3, <1>4 DEF InOrder, n
<1>5. CASE j = n + 1
  BY <1>1, <1>2, <1>3, <1>5 DEF Ahead
<1> QED BY <1>3, <1>4, <1>5

(* One sequence behind another.                                               *)
LEMMA OrderConcat ==
    ASSUME NEW U \in SUBSET Nat, NEW s \in Seq(U), NEW t \in Seq(U),
           InOrder(s), InOrder(t), Ahead(ToSet(s), ToSet(t))
    PROVE  InOrder(s \o t)
<1> DEFINE st == s \o t
           n == Len(s)
           m == Len(t)
<1>1. /\ Len(st) = n + m /\ n \in Nat /\ m \in Nat
      /\ \A j \in 1..n : st[j] = s[j]
      /\ \A j \in 1..m : st[n + j] = t[j]
  OBVIOUS
<1>2. (\A j \in 1..n : s[j] \in ToSet(s)) /\ \A j \in 1..m : t[j] \in ToSet(t)
  BY ElementsOf
<1> HIDE DEF st, n, m
<1> SUFFICES ASSUME NEW i \in 1..(n + m), NEW j \in 1..(n + m), i < j, Entity[st[i]] = Entity[st[j]]
             PROVE  st[i] < st[j]
  BY <1>1 DEF InOrder, st
<1>3. \A x \in 1..(n + m) : x \in 1..n \/ (x - n \in 1..m /\ x = n + (x - n))
  BY <1>1
<1>4. CASE i \in 1..n /\ j \in 1..n
  BY <1>1, <1>4 DEF InOrder, n
<1>5. CASE i - n \in 1..m /\ i = n + (i - n) /\ j - n \in 1..m /\ j = n + (j - n)
  <2>1. st[i] = t[i - n] /\ st[j] = t[j - n] /\ i - n < j - n
    BY <1>1, <1>5
  <2> QED BY <1>5, <2>1 DEF InOrder, m
<1>6. CASE i \in 1..n /\ j - n \in 1..m /\ j = n + (j - n)
  <2>1. st[i] = s[i] /\ st[j] = t[j - n]
    BY <1>1, <1>6
  <2>2. s[i] \in ToSet(s) /\ t[j - n] \in ToSet(t)
    BY <1>2, <1>6
  <2> QED BY <2>1, <2>2 DEF Ahead
<1>7. ~ (i - n \in 1..m /\ i = n + (i - n) /\ j \in 1..n)
  BY <1>1
<1> QED BY <1>3, <1>4, <1>5, <1>6, <1>7

(* The first m.                                                               *)
LEMMA OrderPrefix ==
    ASSUME NEW U \in SUBSET Nat, NEW s \in Seq(U), NEW m \in 0..Len(s), InOrder(s)
    PROVE  InOrder(SubSeq(s, 1, m))
<1> DEFINE t == SubSeq(s, 1, m)
<1>1. Len(t) = m /\ \A j \in 1..m : t[j] = s[j]
  BY ElementsPrefix
<1>2. \A j \in 1..m : j \in 1..Len(s)
  OBVIOUS
<1> HIDE DEF t
<1>3. InOrder(t)
  BY <1>1, <1>2 DEF InOrder
<1> QED BY <1>3 DEF t

(* What is left when events are taken out.                                    *)
LEMMA OrderWithout ==
    ASSUME NEW U \in SUBSET Nat, NEW s \in Seq(U), NEW S, InOrder(s)
    PROVE  InOrder(Without(s, S))
<1> DEFINE n == Len(s)
           Up(f) == [m \in 0..n |-> IF m = 0 THEN << >>
                                    ELSE IF s[m] \in S THEN f[m - 1] ELSE Append(f[m - 1], s[m])]
           kept == CHOOSE f : f = Up(f)
<1>1. n \in Nat /\ n \in 0..n /\ 0 \in 0..n
  OBVIOUS
<1>2. PICK f \in [0..n -> Seq(U)] : Filters(f, s, S, n)
  BY <1>1, FilterExists
<1>3. f = Up(f)
  <2>1. \A m \in 0..n : m = 0 \/ m \in 1..n
    BY <1>1
  <2>2. \A m \in 0..n : f[m] = IF m = 0 THEN << >>
                               ELSE IF s[m] \in S THEN f[m - 1] ELSE Append(f[m - 1], s[m])
    BY <1>2, <2>1 DEF Filters
  <2> QED BY <1>2, <2>2
<1>4. kept = Up(kept)
  BY <1>3
<1>5. Without(s, S) = kept[n]
  BY DEF Without
<1> HIDE DEF kept
<1>6. /\ kept[0] = << >>
      /\ \A m \in 1..n : kept[m] = IF s[m] \in S THEN kept[m - 1] ELSE Append(kept[m - 1], s[m])
  <2>1. \A m \in 1..n : m \in 0..n /\ m # 0
    BY <1>1
  <2> QED BY <1>1, <1>4, <2>1
<1> DEFINE P(m) == /\ kept[m] \in Seq(U) /\ ToSet(kept[m]) \subseteq {s[j] : j \in 1..m}
                   /\ InOrder(kept[m])
           Bad == {m \in 0..n : ~P(m)}
<1>7. SUFFICES Bad = {}
  <2>1. P(n)
    BY <1>1, <1>7
  <2> QED BY <2>1, <1>5
<1>8. SUFFICES ASSUME Bad # {} PROVE FALSE
  OBVIOUS
<1>9. PICK q \in Bad : \A y \in Bad : q <= y
  <2>1. Bad \in SUBSET Nat
    OBVIOUS
  <2> HIDE DEF Bad
  <2> QED BY <1>8, <2>1, HasLeast
<1>10. q \in 0..n /\ ~P(q)
  OBVIOUS
<1>11. CASE q = 0
  <2>1. ToSet(<< >>) = {} /\ << >> \in Seq(U) /\ InOrder(<< >>)
    BY DEF ToSet, InOrder
  <2> QED BY <1>6, <1>10, <1>11, <2>1
<1>12. CASE q # 0
  <2>1. q \in 1..n /\ q - 1 \in 0..n /\ q - 1 \notin Bad
    <3> HIDE DEF Bad
    <3> QED BY <1>1, <1>9, <1>10, <1>12
  <2>2. P(q - 1)
    BY <2>1
  <2> DEFINE k == kept[q - 1]
  <2>3. \A j \in 1..(q - 1) : j \in 1..q /\ j \in 1..n /\ j < q
    BY <2>1
  <2>4. s[q] \in U /\ q \in 1..q
    BY <2>1
  <2>5. CASE s[q] \in S
    <3>1. kept[q] = k
      BY <1>6, <2>1, <2>5
    <3> QED BY <1>10, <2>2, <2>3, <3>1
  <2>6. CASE s[q] \notin S
    <3>1. kept[q] = Append(k, s[q])
      BY <1>6, <2>1, <2>6
    <3>2. Ahead(ToSet(k), {s[q]})
      <4>1. \A j \in 1..(q - 1) : Entity[s[j]] = Entity[s[q]] => s[j] < s[q]
        BY <2>1, <2>3 DEF InOrder
      <4> QED BY <2>2, <4>1 DEF Ahead
    <3>3. /\ Append(k, s[q]) \in Seq(U) /\ ToSet(Append(k, s[q])) = ToSet(k) \cup {s[q]}
          /\ InOrder(Append(k, s[q]))
      <4>1. k \in Seq(U) /\ InOrder(k)
        BY <2>2
      <4> HIDE DEF k
      <4> QED BY <2>4, <3>2, <4>1, ElementsAppend, OrderAppend
    <3>4. kept[q] \in Seq(U) /\ InOrder(kept[q])
      BY <3>1, <3>3
    <3>5. ToSet(kept[q]) \subseteq {s[j] : j \in 1..q}
      BY <2>2, <2>3, <2>4, <3>1, <3>3
    <3> QED BY <1>10, <3>4, <3>5
  <2> QED BY <2>5, <2>6
<1> QED BY <1>11, <1>12

-----------------------------------------------------------------------------
(* A step of the one worker.                                                  *)

(* The sequences as sets of events.                                           *)
LEMMA Sets ==
    ASSUME DrainInv
    PROVE  /\ ToSet(queue) \subseteq 1..appended /\ ToSet(done) \subseteq 1..appended
           /\ InQueue = ToSet(queue) /\ 1..appended \in SUBSET Nat
BY Queue, ElementsOf

(* The one worker moves to k.                                                 *)
LEMMA OrderStep ==
    ASSUME DrainInv, OrderInv, \A u, v \in Workers : u = v, NEW w \in Workers, NEW k,
           wk' = [wk EXCEPT ![w] = k], EntityOrder', InOrder(queue'),
           Ahead(ToSet(done'), ToSet(queue')), Orderly(k, ToSet(done'), ToSet(queue'))
    PROVE  OrderInv'
<1>1. wk'[w] = k
  BY DEF DrainInv, TypeInv
<1>2. \A v \in Workers : Orderly(wk'[v], ToSet(done'), ToSet(queue'))
  <2> SUFFICES ASSUME NEW v \in Workers PROVE Orderly(wk'[v], ToSet(done'), ToSet(queue'))
    OBVIOUS
  <2>1. v = w
    OBVIOUS
  <2> QED BY <1>1, <2>1
<1> QED BY <1>2 DEF OrderInv

(* Nothing is delivered.                                                      *)
LEMMA QueueOrderStep ==
    ASSUME DrainInv, OrderInv, \A u, v \in Workers : u = v, NEW w \in Workers, NEW k,
           wk' = [wk EXCEPT ![w] = k], done' = done, InOrder(queue'),
           Ahead(ToSet(done), ToSet(queue')), Orderly(k, ToSet(done), ToSet(queue'))
    PROVE  OrderInv'
<1>1. EntityOrder'
  BY DEF OrderInv, EntityOrder
<1> QED BY <1>1, OrderStep

(* Nothing is taken out of the outbox or put in either.                       *)
LEMMA OwnOrderStep ==
    ASSUME DrainInv, OrderInv, \A u, v \in Workers : u = v, NEW w \in Workers, NEW k,
           wk' = [wk EXCEPT ![w] = k], done' = done, queue' = queue,
           Orderly(k, ToSet(done), ToSet(queue))
    PROVE  OrderInv'
BY QueueOrderStep DEF OrderInv

(* Events are taken out of the outbox.                                        *)
LEMMA LessOrderStep ==
    ASSUME DrainInv, OrderInv, \A u, v \in Workers : u = v, NEW w \in Workers, NEW k, NEW S,
           wk' = [wk EXCEPT ![w] = k], done' = done, queue' = Without(queue, S),
           Orderly(k, ToSet(done), ToSet(queue) \ S)
    PROVE  OrderInv'
<1>1. queue \in Seq(1..appended) /\ 1..appended \in SUBSET Nat
  BY Queue, Sets
<1>2. ToSet(queue') = ToSet(queue) \ S
  BY <1>1, WithoutElements
<1>3. InOrder(queue')
  BY <1>1, OrderWithout DEF OrderInv
<1>4. Ahead(ToSet(done), ToSet(queue'))
  BY <1>2 DEF OrderInv, Ahead
<1>5. Orderly(k, ToSet(done), ToSet(queue'))
  BY <1>2
<1> QED BY <1>3, <1>4, <1>5, QueueOrderStep

(* The worker of a step.                                                      *)
LEMMA Hands ==
    ASSUME DrainInv, OrderInv, NEW w \in Workers
    PROVE  /\ wk[w] \in Work(appended) /\ Shape(wk[w], Settled, reported)
           /\ Orderly(wk[w], ToSet(done), ToSet(queue))
BY Fields DEF OrderInv

(* One without work.                                                          *)
LEMMA IdleOrder ==
    ASSUME NEW D, NEW Q
    PROVE  Orderly(NoWork, D, Q)
BY DEF Orderly, NoWork, Ahead, ToSet

-----------------------------------------------------------------------------
(* One lemma for each action.                                                 *)

(* Nothing is in the outbox.                                                  *)
LEMMA InitOrder ==
    ASSUME Init
    PROVE  OrderInv
<1>1. queue = << >> /\ done = << >> /\ \A v \in Workers : wk[v] = NoWork
  BY DEF Init
<1>2. EntityOrder /\ InOrder(queue) /\ Ahead(ToSet(done), ToSet(queue))
  BY <1>1 DEF EntityOrder, InOrder, Ahead, ToSet
<1> QED BY <1>1, <1>2, IdleOrder DEF OrderInv

(* A new event comes after all others, those in hand too.                     *)
LEMMA OrderlyGrows ==
    ASSUME NEW n \in Nat, NEW k \in Work(n), NEW D, NEW Q, D \subseteq 1..n, Q \subseteq 1..n,
           Orderly(k, D, Q)
    PROVE  Orderly(k, D, Q \cup {n + 1})
<1>1. /\ k.page \in Seq(1..n) /\ k.got \in Seq(1..n) /\ k.todo \in Seq(1..n)
  BY DEF Work
<1>2. ToSet(k.page) \subseteq 1..n /\ ToSet(k.got) \subseteq 1..n /\ ToSet(k.todo) \subseteq 1..n
  BY <1>1, ElementsOf
<1>3. \A S \in SUBSET (1..n) : \A T : Ahead(S, T) => Ahead(S, T \cup {n + 1})
  BY DEF Ahead
<1>4. ASSUME Paged(k, D, Q) PROVE Paged(k, D, Q \cup {n + 1})
  <2>1. Ahead(ToSet(k.got), Q \cup {n + 1})
    BY <1>2, <1>3, <1>4 DEF Paged
  <2>2. Ahead(ToSet(k.page), (Q \cup {n + 1}) \ ToSet(k.page))
    <3>1. Ahead(ToSet(k.page), (Q \ ToSet(k.page)) \cup {n + 1})
      BY <1>2, <1>3, <1>4 DEF Paged
    <3> QED BY <3>1 DEF Ahead
  <2>3. \A j \in 1..Len(k.page) : k.page[j] \in Q \cup {n + 1} => k.page[j] \in Q
    <3> SUFFICES ASSUME NEW j \in 1..Len(k.page), k.page[j] \in Q \cup {n + 1}
                 PROVE  k.page[j] \in Q
      OBVIOUS
    <3>1. k.page[j] \in 1..n
      BY <1>1, At
    <3> QED BY <3>1
  <2> QED BY <1>4, <2>1, <2>2, <2>3 DEF Paged
<1>5. ASSUME Delivers(k, D, Q) PROVE Delivers(k, D, Q \cup {n + 1})
  <2>1. Ahead(ToSet(k.got), Q \cup {n + 1})
    BY <1>2, <1>3, <1>5 DEF Delivers
  <2> QED BY <1>5, <2>1 DEF Delivers
<1>6. ASSUME Ahead(ToSet(k.todo), Q) PROVE Ahead(ToSet(k.todo), Q \cup {n + 1})
  BY <1>2, <1>3, <1>6
<1> QED BY <1>4, <1>5, <1>6 DEF Orderly

(* Append1: the event appended is the last of its entity.                     *)
LEMMA Append1Order ==
    ASSUME DrainInv, OrderInv, Append1
    PROVE  OrderInv'
<1> DEFINE e == appended + 1
           U == 1..e
<1>1. queue' = Append(queue, e) /\ done' = done /\ wk' = wk
  BY DEF Append1
<1>2. /\ appended \in Nat /\ queue \in Seq(U) /\ e \in U /\ U \in SUBSET Nat
      /\ ToSet(queue) \subseteq 1..appended /\ ToSet(done) \subseteq 1..appended
  BY Queue, Sets, WorkGrows
<1>3. Ahead(ToSet(queue), {e}) /\ Ahead(ToSet(done), {e})
  BY <1>2 DEF Ahead
<1>4. ToSet(queue') = ToSet(queue) \cup {e} /\ InOrder(queue')
  <2> HIDE DEF e, U
  <2> QED BY <1>1, <1>2, <1>3, ElementsAppend, OrderAppend DEF OrderInv
<1>5. Ahead(ToSet(done'), ToSet(queue'))
  BY <1>1, <1>3, <1>4 DEF OrderInv, Ahead
<1>6. \A v \in Workers : Orderly(wk'[v], ToSet(done'), ToSet(queue'))
  <2> SUFFICES ASSUME NEW v \in Workers PROVE Orderly(wk[v], ToSet(done), ToSet(queue) \cup {e})
    BY <1>1, <1>4
  <2> QED BY <1>2, Hands, OrderlyGrows
<1>7. EntityOrder'
  BY <1>1 DEF OrderInv, EntityOrder
<1> QED BY <1>4, <1>5, <1>6, <1>7 DEF OrderInv

(* A step that moves no event and no worker.                                  *)
LEMMA StillOrder ==
    ASSUME OrderInv, UNCHANGED <<queue, done, wk>>
    PROVE  OrderInv'
<1>1. EntityOrder'
  BY DEF OrderInv, EntityOrder
<1> QED BY <1>1 DEF OrderInv

(* captureOutboxDrainRecoverySnapshot: what was delivered is ahead of it.     *)
LEMMA CaptureOrder ==
    ASSUME DrainInv, OrderInv, \A u, v \in Workers : u = v, NEW w \in Workers,
           captureOutboxDrainRecoverySnapshot(w)
    PROVE  OrderInv'
<1> DEFINE k == [NoWork EXCEPT !.pc = "drain", !.snap = queue]
<1>1. wk' = [wk EXCEPT ![w] = k] /\ done' = done /\ queue' = queue
  BY DEF captureOutboxDrainRecoverySnapshot
<1>2. k.pc = "drain" /\ k.snap = queue /\ k.todo = << >> /\ k.next = ""
  BY DEF NoWork
<1>3. Ahead(ToSet(done), ToSet(<< >>))
  BY DEF Ahead, ToSet
<1> HIDE DEF k
<1>4. Orderly(k, ToSet(done), ToSet(queue))
  BY <1>2, <1>3 DEF Orderly, OrderInv
<1> QED BY <1>1, <1>4, OwnOrderStep

(* What the memory outbox gives is ahead of what it keeps.                    *)
LEMMA TakenAhead ==
    ASSUME DrainInv, OrderInv
    PROVE  /\ Taken \in Seq(1..appended) /\ InOrder(Taken) /\ ToSet(Taken) \subseteq ToSet(queue)
           /\ Ahead(ToSet(Taken), ToSet(queue) \ ToSet(Taken))
<1> DEFINE free == Without(queue, HeldBack)
           m == IF Len(free) < BatchSize THEN Len(free) ELSE BatchSize
           U == 1..appended
<1>1. queue \in Seq(U) /\ U \in SUBSET Nat /\ InOrder(queue)
  BY Queue, Sets DEF OrderInv
<1>2. free \in Seq(U) /\ ToSet(free) = ToSet(queue) \ HeldBack /\ InOrder(free)
  <2> HIDE DEF U
  <2> QED BY <1>1, WithoutElements, OrderWithout
<1>3. Taken = SubSeq(free, 1, m)
  BY DEF Taken
<1>4. m \in 0..Len(free)
  <2> DEFINE l == Len(free)
  <2>1. l \in Nat /\ BatchSize \in Nat
    <3> HIDE DEF free
    <3> QED BY <1>2, DrainAssumption
  <2> HIDE DEF l, free
  <2> QED BY <2>1 DEF l
<1> HIDE DEF free, m
<1>5. Taken \in Seq(U) /\ InOrder(Taken) /\ ToSet(Taken) = {free[j] : j \in 1..m}
  <2> HIDE DEF U
  <2> QED BY <1>1, <1>2, <1>3, <1>4, ElementsPrefix, OrderPrefix
<1>6. ToSet(free) = {free[j] : j \in 1..Len(free)} /\ ToSet(queue) = {queue[j] : j \in 1..Len(queue)}
  BY <1>1, <1>2, ElementsOf
<1>7. ToSet(Taken) \subseteq ToSet(free)
  BY <1>4, <1>5, <1>6
<1>8. ASSUME NEW a \in ToSet(Taken), NEW b \in ToSet(queue) \ ToSet(Taken), Entity[a] = Entity[b]
      PROVE  a < b
  <2>1. PICK i \in 1..m : a = free[i]
    BY <1>5
  <2>2. i \in 1..Len(free)
    BY <1>2, <1>4
  <2>3. CASE b \in ToSet(free)
    <3>1. PICK j \in 1..Len(free) : b = free[j]
      BY <1>6, <2>3
    <3>2. j \notin 1..m
      BY <1>5, <3>1
    <3>3. i < j
      BY <1>4, <3>2
    <3> QED BY <1>2, <1>8, <2>1, <2>2, <3>1, <3>3 DEF InOrder
  <2>4. CASE b \notin ToSet(free)
    <3>1. b \in HeldBack /\ a \notin HeldBack /\ a \in ToSet(queue)
      BY <1>2, <1>7, <2>4
    <3>2. PICK n \in 1..Len(queue) :
              b = queue[n] /\ \E j \in 1..n : queue[j] \in waiting /\ Entity[queue[j]] = Entity[queue[n]]
      BY <3>1 DEF HeldBack
    <3>3. PICK j \in 1..n : queue[j] \in waiting /\ Entity[queue[j]] = Entity[queue[n]]
      BY <3>2
    <3>4. PICK x \in 1..Len(queue) : a = queue[x]
      BY <1>6, <3>1
    <3>5. ~ (n <= x)
      <4> SUFFICES ASSUME n <= x PROVE FALSE
        OBVIOUS
      <4>1. j \in 1..x
        OBVIOUS
      <4>2. Entity[queue[j]] = Entity[queue[x]]
        BY <1>8, <3>2, <3>3, <3>4
      <4>3. queue[x] \in HeldBack
        BY <3>3, <4>1, <4>2 DEF HeldBack
      <4> QED BY <3>1, <3>4, <4>3
    <3>6. x < n
      BY <3>5
    <3> QED BY <1>1, <1>8, <3>2, <3>4, <3>6 DEF InOrder
  <2> QED BY <2>3, <2>4
<1> QED BY <1>2, <1>5, <1>7, <1>8 DEF Ahead

(* Drain: in memory the batch is ahead of what stays, the page of rows is the *)
(* outbox.                                                                    *)
LEMMA DrainOrder ==
    ASSUME DrainInv, OrderInv, \A u, v \in Workers : u = v, NEW w \in Workers, Drain(w)
    PROVE  OrderInv'
<1> DEFINE h == wk[w]
           D == ToSet(done)
           Q == ToSet(queue)
<1>1. h.pc = "drain" /\ done' = done
  BY DEF Drain
<1>2. /\ h \in Work(appended) /\ h.got = << >> /\ h.todo = << >> /\ h.i = 1
      /\ h.next # "refused" /\ Ahead(D, ToSet(h.snap))
  BY <1>1, Hands DEF Shape, Orderly
<1>3. ToSet(<< >>) = {} /\ InOrder(<< >>) /\ Ahead(D, {}) /\ \A T : Ahead({}, T)
  BY DEF Ahead, ToSet, InOrder
<1>4. Ahead(D, Q) /\ InOrder(queue)
  BY DEF OrderInv
<1>5. CASE Kind = "memory"
  <2> DEFINE k == [h EXCEPT !.got = Taken, !.pc = "deliver"]
  <2>1. queue' = Without(queue, ToSet(Taken)) /\ wk' = [wk EXCEPT ![w].got = Taken, ![w].pc = "deliver"]
    BY <1>5 DEF Drain
  <2>2. wk' = [wk EXCEPT ![w] = k]
    BY <2>1
  <2> HIDE DEF h
  <2>3. k.got = Taken /\ k.i = 1 /\ k.pc = "deliver"
    BY <1>2 DEF Work
  <2>4. k.todo = << >> /\ k.next # "refused"
    BY <1>2 DEF Work
  <2> HIDE DEF k
  <2>5. \A n \in 1..Len(Taken) : Ahead(D, {Taken[n]})
    <3>1. \A n \in 1..Len(Taken) : Taken[n] \in Q
      BY TakenAhead, ElementsOf
    <3> QED BY <1>4, <3>1 DEF Ahead
  <2>6. Delivers(k, D, Q \ ToSet(Taken))
    BY <1>3, <2>3, <2>4, <2>5, TakenAhead DEF Delivers
  <2>7. Orderly(k, D, Q \ ToSet(Taken))
    BY <1>3, <2>3, <2>4, <2>6 DEF Orderly
  <2> QED BY <1>1, <2>1, <2>2, <2>7, LessOrderStep
<1>6. CASE Kind # "memory"
  <2> DEFINE k == [h EXCEPT !.page = queue, !.pc = "row"]
  <2>1. UNCHANGED queue /\ wk' = [wk EXCEPT ![w].page = queue, ![w].pc = "row"]
    BY <1>6 DEF Drain
  <2>2. wk' = [wk EXCEPT ![w] = k]
    BY <2>1
  <2> HIDE DEF h
  <2>3. k.page = queue /\ k.i = 1 /\ k.pc = "row"
    BY <1>2 DEF Work
  <2>4. k.todo = << >> /\ k.next # "refused" /\ k.got = << >>
    BY <1>2 DEF Work
  <2>5. k.snap = h.snap
    BY <1>2 DEF Work
  <2> HIDE DEF k
  <2>6. Kind = "rows"
    BY <1>6, DrainAssumption
  <2>7. Paged(k, D, Q)
    BY <1>3, <1>4, <2>3, <2>4 DEF Paged, Ahead
  <2>8. Orderly(k, D, Q)
    BY <1>2, <1>3, <2>3, <2>4, <2>5, <2>6, <2>7 DEF Orderly
  <2> QED BY <1>1, <2>1, <2>2, <2>8, OwnOrderStep
<1> QED BY <1>5, <1>6

(* A row of the page further on: its entity is blocked as long as a row       *)
(* before it is still there.                                                  *)
LEMMA SkipRow ==
    ASSUME NEW m \in Nat, NEW h \in Work(m), NEW D, NEW Q, Paged(h, D, Q), h.i \in 1..Len(h.page),
           NEW b, b = blockOutboxEntityOrderKeys(h.blocked, h.page[h.i]), NEW k,
           k.page = h.page, k.got = h.got, k.i = h.i + 1, k.blocked = b
    PROVE  Paged(k, D, Q)
<1>1. h.i \in Nat
  BY DEF Work
<1>2. \A n \in 1..Len(h.page) : n < h.i + 1 => n < h.i \/ n = h.i
  BY <1>1
<1>3. \A n \in 1..Len(h.page) : n < h.i => n < h.i + 1
  BY <1>1
<1>4. \A n \in 1..Len(h.page) : n < h.i + 1 /\ h.page[n] \in Q => Entity[h.page[n]] \in b
  BY <1>2 DEF Paged, blockOutboxEntityOrderKeys
<1>5. \A g \in ToSet(h.got) : \E n \in 1..Len(h.page) : n < h.i + 1 /\ g = h.page[n]
  BY <1>3 DEF Paged
<1> QED BY <1>4, <1>5 DEF Paged

(* DrainRow: the batch is complete, or a row is skipped and its entity with   *)
(* it, or it is to be deleted.                                                *)
LEMMA DrainRowOrder ==
    ASSUME DrainInv, OrderInv, \A u, v \in Workers : u = v, NEW w \in Workers, DrainRow(w)
    PROVE  OrderInv'
<1> DEFINE h == wk[w]
           e == h.page[h.i]
           b == blockOutboxEntityOrderKeys(h.blocked, e)
           D == ToSet(done)
           Q == ToSet(queue)
<1>1. h.pc = "row" /\ done' = done /\ queue' = queue
  BY DEF DrainRow
<1>2. /\ h \in Work(appended) /\ h.todo = << >> /\ Paged(h, D, Q) /\ Kind = "rows"
      /\ h.next # "refused" /\ Ahead(D, ToSet(h.snap)) /\ Ahead(D, ToSet(h.todo))
  BY <1>1, Hands DEF Shape, Orderly
<1>3. /\ h.page \in Seq(1..appended) /\ h.got \in Seq(1..appended) /\ h.i \in Nat \ {0}
  BY <1>2 DEF Work
<1>4. CASE wk' = [wk EXCEPT ![w] = [h EXCEPT !.pc = "deliver", !.i = 1, !.blocked = {}]]
  <2> DEFINE k == [h EXCEPT !.pc = "deliver", !.i = 1, !.blocked = {}]
  <2>1. wk' = [wk EXCEPT ![w] = k]
    BY <1>4
  <2> HIDE DEF h, D, Q
  <2>2. k.pc = "deliver" /\ k.i = 1 /\ k.got = h.got
    BY <1>2 DEF Work
  <2>3. k.todo = << >> /\ k.next # "refused"
    BY <1>2 DEF Work
  <2> HIDE DEF k
  <2>4. ToSet(<< >>) = {} /\ InOrder(<< >>)
    BY DEF ToSet, InOrder
  <2>5. \A n \in 1..Len(h.got) : Ahead(D, {h.got[n]})
    <3> SUFFICES ASSUME NEW n \in 1..Len(h.got) PROVE Ahead(D, {h.got[n]})
      OBVIOUS
    <3>1. h.got[n] \in ToSet(h.got)
      BY <1>3, At
    <3>2. h.got[n] \in ToSet(h.page)
      <4>1. PICK x \in 1..Len(h.page) : h.got[n] = h.page[x]
        BY <1>2, <3>1 DEF Paged
      <4> QED BY <1>3, <4>1, At
    <3>3. Ahead(D, ToSet(h.page))
      BY <1>2 DEF Paged
    <3> QED BY <3>2, <3>3 DEF Ahead
  <2>6. Delivers(k, D, Q)
    BY <1>2, <2>2, <2>3, <2>4, <2>5 DEF Delivers, Paged
  <2>7. Orderly(k, D, Q)
    BY <1>2, <2>2, <2>3, <2>6 DEF Orderly
  <2> QED BY <1>1, <2>1, <2>7, OwnOrderStep DEF D, Q
<1>5. CASE h.i <= Len(h.page) /\ wk' = [wk EXCEPT ![w] = [h EXCEPT !.i = h.i + 1, !.blocked = b]]
  <2> DEFINE k == [h EXCEPT !.i = h.i + 1, !.blocked = b]
  <2>1. wk' = [wk EXCEPT ![w] = k]
    BY <1>5
  <2> HIDE DEF h, D, Q, b
  <2>2. h.i \in 1..Len(h.page)
    BY <1>3, <1>5
  <2>3. k.pc = "row" /\ k.todo = << >> /\ k.next = h.next
    BY <1>1, <1>2 DEF Work, h
  <2>4. k.got = h.got /\ k.page = h.page /\ k.snap = h.snap
    BY <1>2 DEF Work
  <2>5. k.i = h.i + 1 /\ k.blocked = b
    BY <1>2 DEF Work
  <2> HIDE DEF k
  <2>6. Paged(k, D, Q)
    BY <1>2, <2>2, <2>4, <2>5, Queue, SkipRow DEF b, e
  <2>7. Orderly(k, D, Q)
    BY <1>2, <2>3, <2>4, <2>6 DEF Orderly
  <2> QED BY <1>1, <2>1, <2>7, OwnOrderStep DEF D, Q
<1>6. CASE ~ Blocked(h.blocked, e) /\ wk' = [wk EXCEPT ![w] = [h EXCEPT !.pc = "del"]]
  <2> DEFINE k == [h EXCEPT !.pc = "del"]
  <2>1. wk' = [wk EXCEPT ![w] = k]
    BY <1>6
  <2>2. Entity[h.page[h.i]] \notin h.blocked
    BY <1>6 DEF Blocked
  <2> HIDE DEF h, D, Q
  <2>3. k.pc = "del" /\ k.todo = << >> /\ k.next = h.next
    BY <1>2 DEF Work
  <2>4. k.got = h.got /\ k.page = h.page /\ k.snap = h.snap
    BY <1>2 DEF Work
  <2>5. k.i = h.i /\ k.blocked = h.blocked
    BY <1>2 DEF Work
  <2> HIDE DEF k
  <2>6. Paged(k, D, Q)
    BY <1>2, <2>4, <2>5 DEF Paged
  <2>7. Orderly(k, D, Q)
    BY <1>2, <2>2, <2>3, <2>4, <2>5, <2>6 DEF Orderly
  <2> QED BY <1>1, <2>1, <2>7, OwnOrderStep DEF D, Q
<1>7. ~ (h.i > Len(h.page)) => h.i <= Len(h.page)
  <2> HIDE DEF h
  <2> QED BY <1>3
<1>8. [h EXCEPT !.i = @ + 1, !.blocked = blockOutboxEntityOrderKeys(@, e)]
      = [h EXCEPT !.i = h.i + 1, !.blocked = b]
  OBVIOUS
<1>9. CASE h.i > Len(h.page) \/ BatchFull(h)
  BY <1>4, <1>9 DEF DrainRow
<1>10. CASE /\ ~ (h.i > Len(h.page) \/ BatchFull(h))
            /\ Blocked(h.blocked, e) \/ e \in waiting \/ e \notin InQueue
  BY <1>5, <1>7, <1>8, <1>10 DEF DrainRow
<1>11. CASE /\ ~ (h.i > Len(h.page) \/ BatchFull(h))
            /\ ~ (Blocked(h.blocked, e) \/ e \in waiting \/ e \notin InQueue)
  BY <1>6, <1>11 DEF DrainRow
<1> QED BY <1>9, <1>10, <1>11

(* DrainDelete: no row of the entity is left before the one deleted, or its   *)
(* entity would be blocked.                                                   *)
LEMMA DrainDeleteOrder ==
    ASSUME DrainInv, OrderInv, \A u, v \in Workers : u = v, NEW w \in Workers, DrainDelete(w)
    PROVE  OrderInv'
<1> DEFINE h == wk[w]
           e == h.page[h.i]
           b == blockOutboxEntityOrderKeys(h.blocked, e)
           D == ToSet(done)
           Q == ToSet(queue)
           U == 1..appended
<1>1. h.pc = "del" /\ done' = done
  BY DEF DrainDelete
<1>2. /\ h \in Work(appended) /\ h.todo = << >> /\ Paged(h, D, Q) /\ Kind = "rows"
      /\ h.next # "refused" /\ Ahead(D, ToSet(h.snap)) /\ Ahead(D, ToSet(h.todo))
      /\ h.i \in 1..Len(h.page) /\ Entity[e] \notin h.blocked
  BY <1>1, Hands DEF Shape, Orderly
<1>3. /\ h.page \in Seq(U) /\ h.got \in Seq(U) /\ h.i \in Nat \ {0} /\ U \in SUBSET Nat
  BY <1>2, Sets DEF Work
<1>4. \/ /\ queue' = Without(queue, {e})
         /\ wk' = [wk EXCEPT ![w].got = Append(@, e), ![w].i = @ + 1, ![w].pc = "row"]
      \/ /\ wk' = [wk EXCEPT ![w].i = @ + 1, ![w].pc = "row",
                             ![w].blocked = blockOutboxEntityOrderKeys(@, e)]
         /\ UNCHANGED queue
  BY DEF DrainDelete
<1>5. CASE /\ queue' = Without(queue, {e})
           /\ wk' = [wk EXCEPT ![w].got = Append(@, e), ![w].i = @ + 1, ![w].pc = "row"]
  <2> DEFINE got == Append(h.got, e)
             k == [h EXCEPT !.got = got, !.i = h.i + 1, !.pc = "row"]
  <2>1. wk' = [wk EXCEPT ![w] = k]
    BY <1>5
  <2> HIDE DEF h, D, Q
  <2>2. e \in U /\ e \in ToSet(h.page)
    BY <1>2, <1>3, At
  <2>3. Ahead(ToSet(h.got), {e})
    <3> SUFFICES ASSUME NEW g \in ToSet(h.got), Entity[g] = Entity[e] PROVE g < e
      BY DEF Ahead
    <3>1. PICK n \in 1..Len(h.page) : n < h.i /\ g = h.page[n]
      BY <1>2 DEF Paged
    <3> QED BY <1>2, <3>1 DEF Paged, InOrder
  <2>4. Ahead({e}, Q \ {e})
    <3> SUFFICES ASSUME NEW q \in Q, q # e, Entity[q] = Entity[e] PROVE e < q
      BY DEF Ahead
    <3>1. CASE q \in ToSet(h.page)
      <4>1. PICK n \in 1..Len(h.page) : q = h.page[n]
        BY <1>3, <3>1, ElementsOf
      <4>2. ~ (n < h.i)
        BY <1>2, <4>1 DEF Paged
      <4>3. n # h.i
        BY <4>1
      <4>4. h.i < n
        BY <1>3, <4>2, <4>3
      <4> QED BY <1>2, <4>1, <4>4 DEF Paged, InOrder
    <3>2. CASE q \notin ToSet(h.page)
      BY <1>2, <2>2, <3>2 DEF Paged, Ahead
    <3> QED BY <3>1, <3>2
  <2> HIDE DEF e
  <2>5. got \in Seq(U) /\ ToSet(got) = ToSet(h.got) \cup {e} /\ InOrder(got)
    <3> DEFINE g == h.got
    <3>1. g \in Seq(U) /\ InOrder(g) /\ Ahead(ToSet(g), {e})
      BY <1>2, <1>3, <2>3 DEF Paged
    <3> HIDE DEF g, U
    <3>2. /\ Append(g, e) \in Seq(U) /\ ToSet(Append(g, e)) = ToSet(g) \cup {e}
          /\ InOrder(Append(g, e))
      BY <1>3, <2>2, <3>1, ElementsAppend, OrderAppend
    <3> QED BY <3>2 DEF g
  <2> HIDE DEF got
  <2>6. k.pc = "row" /\ k.todo = << >> /\ k.next = h.next
    BY <1>2 DEF Work
  <2>7. k.got = got /\ k.page = h.page /\ k.snap = h.snap
    BY <1>2 DEF Work
  <2>8. k.i = h.i + 1 /\ k.blocked = h.blocked
    BY <1>2 DEF Work
  <2> HIDE DEF k
  <2>9. Ahead(ToSet(got), Q \ {e})
    BY <1>2, <2>4, <2>5 DEF Ahead, Paged
  <2>10. Ahead(ToSet(h.page), (Q \ {e}) \ ToSet(h.page))
    BY <1>2 DEF Ahead, Paged
  <2>11. \A n \in 1..Len(h.page) : n < h.i + 1 /\ h.page[n] \in Q \ {e} => Entity[h.page[n]] \in h.blocked
    <3>1. \A n \in 1..Len(h.page) : n < h.i + 1 => n < h.i \/ n = h.i
      BY <1>3
    <3> QED BY <1>2, <3>1 DEF Paged, e
  <2>12. \A g \in ToSet(got) : \E n \in 1..Len(h.page) : n < h.i + 1 /\ g = h.page[n]
    <3>1. h.i < h.i + 1 /\ \A n \in 1..Len(h.page) : n < h.i => n < h.i + 1
      BY <1>3
    <3>2. \A g \in ToSet(h.got) : \E n \in 1..Len(h.page) : n < h.i + 1 /\ g = h.page[n]
      BY <1>2, <3>1 DEF Paged
    <3> QED BY <1>2, <2>5, <3>1, <3>2 DEF e
  <2>13. InOrder(h.page) /\ Ahead(D, ToSet(h.page))
    BY <1>2 DEF Paged
  <2>14. Paged(k, D, Q \ {e})
    BY <2>5, <2>7, <2>8, <2>9, <2>10, <2>11, <2>12, <2>13 DEF Paged
  <2>15. Orderly(k, D, Q \ {e})
    BY <1>2, <2>6, <2>7, <2>14 DEF Orderly
  <2> QED BY <1>1, <1>5, <2>1, <2>15, LessOrderStep DEF D, Q
<1>6. CASE /\ wk' = [wk EXCEPT ![w].i = @ + 1, ![w].pc = "row",
                               ![w].blocked = blockOutboxEntityOrderKeys(@, e)]
           /\ UNCHANGED queue
  <2> DEFINE k == [h EXCEPT !.i = h.i + 1, !.pc = "row", !.blocked = b]
  <2>1. wk' = [wk EXCEPT ![w] = k]
    BY <1>6
  <2> HIDE DEF h, D, Q, b
  <2>2. k.pc = "row" /\ k.todo = << >> /\ k.next = h.next
    BY <1>2 DEF Work
  <2>3. k.got = h.got /\ k.page = h.page /\ k.snap = h.snap
    BY <1>2 DEF Work
  <2>4. k.i = h.i + 1 /\ k.blocked = b
    BY <1>2 DEF Work
  <2> HIDE DEF k
  <2>5. Paged(k, D, Q)
    BY <1>2, <2>3, <2>4, Queue, SkipRow DEF b, e
  <2>6. Orderly(k, D, Q)
    BY <1>2, <2>2, <2>3, <2>5 DEF Orderly
  <2> QED BY <1>1, <1>6, <2>1, <2>6, OwnOrderStep DEF D, Q
<1> QED BY <1>4, <1>5, <1>6

(* DrainThrows: what is put back comes after all that was delivered.          *)
LEMMA DrainThrowsOrder ==
    ASSUME DrainInv, OrderInv, \A u, v \in Workers : u = v, NEW w \in Workers, DrainThrows(w)
    PROVE  OrderInv'
<1> DEFINE h == wk[w]
           e == h.page[h.i]
           D == ToSet(done)
           Q == ToSet(queue)
           todo == PutBack(h.got, e)
           k == [h EXCEPT !.pc = "reinsert", !.todo = todo, !.got = << >>, !.next = "recover"]
<1>1. /\ h.pc = "del" /\ done' = done /\ queue' \in {queue, Without(queue, {e})}
      /\ wk' = [wk EXCEPT ![w].pc = "reinsert", ![w].todo = PutBack(h.got, e),
                          ![w].got = << >>, ![w].next = "recover"]
  BY DEF DrainThrows
<1>2. /\ h \in Work(appended) /\ Paged(h, D, Q) /\ Kind = "rows" /\ Ahead(D, ToSet(h.snap))
      /\ h.i \in 1..Len(h.page)
  BY <1>1, Hands DEF Shape, Orderly
<1>3. wk' = [wk EXCEPT ![w] = k]
  BY <1>1
<1>4. h.page \in Seq(1..appended) /\ h.got \in Seq(1..appended)
  BY <1>2 DEF Work
<1> HIDE DEF h, D, Q
<1>5. e \in 1..appended /\ e \in ToSet(h.page)
  BY <1>2, <1>4, At
<1>6. ToSet(todo) = ToSet(h.got) \cup {e}
  <2> DEFINE g == h.got
             U == 1..appended
  <2>1. g \in Seq(U) /\ e \in U
    BY <1>4, <1>5
  <2> HIDE DEF g, e, U
  <2>2. ToSet(Append(g, e)) = ToSet(g) \cup {e}
    BY <2>1, ElementsAppend
  <2> QED BY <2>2 DEF g, PutBack
<1>7. ToSet(todo) \subseteq ToSet(h.page)
  <2>1. \A g \in ToSet(h.got) : g \in ToSet(h.page)
    <3> SUFFICES ASSUME NEW g \in ToSet(h.got) PROVE g \in ToSet(h.page)
      OBVIOUS
    <3>1. PICK n \in 1..Len(h.page) : g = h.page[n]
      BY <1>2 DEF Paged
    <3> QED BY <1>4, <3>1, At
  <2> QED BY <1>5, <1>6, <2>1
<1>8. Ahead(D, ToSet(todo))
  BY <1>2, <1>7 DEF Paged, Ahead
<1> HIDE DEF e, todo
<1>9. k.pc = "reinsert" /\ k.next = "recover"
  BY <1>2 DEF Work
<1>10. k.todo = todo /\ k.snap = h.snap
  BY <1>2 DEF Work
<1> HIDE DEF k
<1>11. \A R : Orderly(k, D, R)
  BY <1>2, <1>8, <1>9, <1>10 DEF Orderly
<1>12. CASE queue' = queue
  BY <1>1, <1>3, <1>11, <1>12, OwnOrderStep DEF D
<1>13. CASE queue' = Without(queue, {e})
  BY <1>1, <1>3, <1>11, <1>13, LessOrderStep DEF D
<1> QED BY <1>1, <1>12, <1>13

(* A row that comes back takes its place by sequence.                         *)
LEMMA PlacedOrder ==
    ASSUME DrainInv, OrderInv, Kind = "rows", NEW es \in Seq(1..appended), Len(es) = 1,
           es[1] \notin ToSet(queue)
    PROVE  InOrder(Placed(es)) /\ ToSet(Placed(es)) \subseteq ToSet(queue) \cup {es[1]}
<1> DEFINE e == es[1]
           U == 1..appended
           above == {x \in InQueue : x > e}
           below == {x \in InQueue : x < e}
           q == Without(queue, above)
           r == Without(queue, below)
           p == q \o es
<1>1. queue \in Seq(U) /\ InQueue = ToSet(queue) /\ U \in SUBSET Nat /\ InOrder(queue)
  BY Queue, Sets DEF OrderInv
<1>2. e \in U /\ ToSet(es) = {e} /\ InOrder(es)
  <2>1. e \in U
    <3>1. 1 \in 1..Len(es)
      OBVIOUS
    <3> QED BY <3>1, At
  <2>2. ToSet(es) = {es[j] : j \in 1..Len(es)}
    BY ElementsOf
  <2>3. ToSet(es) = {e}
    <3>1. \A j \in 1..1 : j = 1
      OBVIOUS
    <3> QED BY <2>2, <3>1
  <2> QED BY <2>1, <2>3 DEF InOrder
<1>3. Placed(es) = p \o r
  BY DEF Placed
<1>4. \A x \in ToSet(queue) : x \in U /\ x # e
  BY <1>1, ElementsOf
<1> HIDE DEF e, U
<1>5. /\ q \in Seq(U) /\ ToSet(q) = ToSet(queue) \ above /\ InOrder(q)
      /\ r \in Seq(U) /\ ToSet(r) = ToSet(queue) \ below /\ InOrder(r)
  <2> HIDE DEF above, below
  <2> QED BY <1>1, WithoutElements, OrderWithout
<1>6. (\A x \in ToSet(q) : x < e) /\ \A x \in ToSet(r) : e < x
  <2>1. \A x \in U : x \in Nat /\ e \in Nat
    BY <1>1, <1>2
  <2> HIDE DEF q, r
  <2>2. \A x \in ToSet(queue) : (x > e \/ x < e) /\ x \in Nat /\ e \in Nat
    BY <1>4, <2>1
  <2> QED BY <1>1, <1>5, <2>2
<1> HIDE DEF q, r, above, below
<1>7. Ahead(ToSet(q), ToSet(es))
  BY <1>2, <1>6 DEF Ahead
<1>8. p \in Seq(U) /\ ToSet(p) = ToSet(q) \cup {e} /\ InOrder(p)
  <2>1. es \in Seq(U)
    BY DEF U
  <2>2. q \o es \in Seq(U) /\ ToSet(q \o es) = ToSet(q) \cup ToSet(es)
    BY <1>5, <2>1, ElementsConcat
  <2>3. InOrder(q \o es)
    BY <1>1, <1>2, <1>5, <1>7, <2>1, OrderConcat
  <2> QED BY <1>2, <2>2, <2>3
<1> HIDE DEF p
<1>9. Ahead(ToSet(p), ToSet(r))
  <2>1. \A x \in ToSet(q), y \in ToSet(r) : x < y
    <3>1. \A x \in ToSet(q) : x \in Nat
      BY <1>1, <1>5, ElementsOf
    <3>2. \A y \in ToSet(r) : y \in Nat
      BY <1>1, <1>5, ElementsOf
    <3>3. e \in Nat
      BY <1>1, <1>2
    <3> QED BY <1>6, <3>1, <3>2, <3>3
  <2> QED BY <1>6, <1>8, <2>1 DEF Ahead
<1>10. InOrder(p \o r) /\ ToSet(p \o r) = ToSet(p) \cup ToSet(r)
  <2>1. ToSet(p \o r) = ToSet(p) \cup ToSet(r)
    BY <1>5, <1>8, ElementsConcat
  <2>2. InOrder(p \o r)
    BY <1>1, <1>5, <1>8, <1>9, OrderConcat
  <2> QED BY <2>1, <2>2
<1>11. InOrder(Placed(es)) /\ ToSet(Placed(es)) \subseteq ToSet(queue) \cup {e}
  BY <1>3, <1>5, <1>8, <1>10
<1> QED BY <1>11 DEF e

(* Reinsert: nothing delivered stands behind the row that comes back.         *)
LEMMA ReinsertOrder ==
    ASSUME DrainInv, OrderInv, \A u, v \in Workers : u = v, NEW w \in Workers, Reinsert(w)
    PROVE  OrderInv'
<1> DEFINE h == wk[w]
           es == h.todo
           D == ToSet(done)
           Q == ToSet(queue)
<1>1. h.pc = "reinsert" /\ done' = done
  BY DEF Reinsert
<1>2. /\ h \in Work(appended) /\ h.next \notin {"", "refused"} /\ Kind = "rows"
      /\ Ahead(D, ToSet(h.snap)) /\ Ahead(D, ToSet(es))
  BY <1>1, Hands DEF Shape, Orderly
<1>3. es \in Seq(1..appended) /\ h.next = "recover"
  BY <1>2 DEF Work
<1>4. CASE es = << >>
  <2> DEFINE k == [h EXCEPT !.pc = h.next, !.todo = << >>, !.next = ""]
  <2>1. wk' = [wk EXCEPT ![w] = k] /\ queue' = queue
    BY <1>4 DEF Reinsert
  <2> HIDE DEF h, D, Q
  <2>2. k.pc = "recover" /\ k.next = ""
    BY <1>2, <1>3 DEF Work
  <2>3. k.todo = << >> /\ k.snap = h.snap
    BY <1>2 DEF Work
  <2> HIDE DEF k
  <2>4. Orderly(k, D, Q)
    BY <1>2, <1>4, <2>2, <2>3 DEF Orderly
  <2> QED BY <1>1, <2>1, <2>4, OwnOrderStep DEF D, Q
<1>5. CASE es # << >>
  <2> DEFINE k == [h EXCEPT !.todo = Tail(es)]
             e == es[1]
  <2>1. /\ wk' = [wk EXCEPT ![w] = k]
        /\ queue' = IF e \in InQueue THEN queue ELSE Placed(<<e>>)
    BY <1>5 DEF Reinsert
  <2> HIDE DEF es
  <2>2. e \in 1..appended /\ e \in ToSet(es) /\ ToSet(Tail(es)) \subseteq ToSet(es)
    BY <1>3, <1>5, ElementsTail
  <2>3. k.pc = "reinsert" /\ k.next = "recover"
    BY <1>1, <1>2, <1>3 DEF Work
  <2>4. k.todo = Tail(es) /\ k.snap = h.snap
    BY <1>2 DEF Work
  <2> HIDE DEF k, h, D, Q, e
  <2>5. \A R : Orderly(k, D, R)
    BY <1>2, <2>2, <2>3, <2>4 DEF Orderly, Ahead
  <2>6. CASE e \in InQueue
    BY <1>1, <2>1, <2>5, <2>6, OwnOrderStep DEF D
  <2>7. CASE e \notin InQueue
    <3>1. <<e>> \in Seq(1..appended) /\ Len(<<e>>) = 1 /\ <<e>>[1] = e /\ e \notin Q
      BY <2>2, <2>7, Sets DEF Q
    <3>2. InOrder(Placed(<<e>>)) /\ ToSet(Placed(<<e>>)) \subseteq Q \cup {e}
      BY <1>2, <3>1, PlacedOrder DEF Q
    <3>3. Ahead(D, Q \cup {e})
      BY <1>2, <2>2 DEF Ahead, OrderInv, D, Q
    <3>4. InOrder(queue') /\ Ahead(D, ToSet(queue'))
      BY <2>1, <2>7, <3>2, <3>3 DEF Ahead
    <3> QED BY <1>1, <2>1, <2>5, <3>4, QueueOrderStep DEF D
  <2> QED BY <2>6, <2>7
<1> QED BY <1>4, <1>5

(* ReinsertThrows: a row less to put back.                                    *)
LEMMA ReinsertThrowsOrder ==
    ASSUME DrainInv, OrderInv, \A u, v \in Workers : u = v, NEW w \in Workers, ReinsertThrows(w)
    PROVE  OrderInv'
<1> DEFINE h == wk[w]
           es == h.todo
           D == ToSet(done)
           k == [h EXCEPT !.todo = Tail(es), !.bad = TRUE]
<1>1. /\ h.pc = "reinsert" /\ UNCHANGED <<queue, done>> /\ es # << >>
      /\ wk' = [wk EXCEPT ![w].todo = Tail(@), ![w].bad = TRUE]
  BY DEF ReinsertThrows
<1>2. /\ h \in Work(appended) /\ h.next # "refused" /\ Kind = "rows"
      /\ Ahead(D, ToSet(h.snap)) /\ Ahead(D, ToSet(es))
  BY <1>1, Hands DEF Shape, Orderly
<1>3. es \in Seq(1..appended)
  BY <1>2 DEF Work
<1>4. wk' = [wk EXCEPT ![w] = k]
  BY <1>1
<1> HIDE DEF es
<1>5. ToSet(Tail(es)) \subseteq ToSet(es)
  BY <1>1, <1>3, ElementsTail
<1>6. k.pc = "reinsert" /\ k.next = h.next
  BY <1>1, <1>2 DEF Work
<1>7. k.todo = Tail(es) /\ k.snap = h.snap
  BY <1>2 DEF Work
<1> HIDE DEF k, h, D
<1>8. \A R : Orderly(k, D, R)
  BY <1>2, <1>5, <1>6, <1>7 DEF Orderly, Ahead
<1> QED BY <1>1, <1>4, <1>8, OwnOrderStep DEF D

(* Recover: nothing of the snapshot was delivered.                            *)
LEMMA RecoverOrder ==
    ASSUME DrainInv, OrderInv, \A u, v \in Workers : u = v, NEW w \in Workers, Recover(w)
    PROVE  OrderInv'
<1> DEFINE h == wk[w]
           missing == Without(h.snap, InQueue)
           D == ToSet(done)
           k == [h EXCEPT !.pc = "requeue", !.todo = missing, !.made = << >>]
<1>1. /\ h.pc = "recover" /\ UNCHANGED <<queue, done>>
      /\ wk' = [wk EXCEPT ![w].pc = "requeue", ![w].todo = missing, ![w].made = << >>]
  BY DEF Recover
<1>2. /\ h \in Work(appended) /\ h.next # "refused" /\ Kind = "rows" /\ Ahead(D, ToSet(h.snap))
  BY <1>1, Hands DEF Orderly
<1>3. wk' = [wk EXCEPT ![w] = k]
  BY <1>1
<1>4. ToSet(missing) \subseteq ToSet(h.snap)
  <2>1. h.snap \in Seq(1..appended)
    BY <1>2 DEF Work
  <2> HIDE DEF h
  <2> QED BY <2>1, WithoutElements
<1> HIDE DEF h, missing, D
<1>5. k.pc = "requeue" /\ k.todo = missing /\ k.next = h.next
  BY <1>2 DEF Work
<1> HIDE DEF k
<1>6. \A R : Orderly(k, D, R)
  BY <1>2, <1>4, <1>5 DEF Orderly, Ahead
<1> QED BY <1>1, <1>3, <1>6, OwnOrderStep DEF D

(* Settle: what goes back to the memory outbox is ahead of what it has.       *)
LEMMA SettleOrder ==
    ASSUME DrainInv, OrderInv, \A u, v \in Workers : u = v, NEW w \in Workers, Settle(w)
    PROVE  OrderInv'
<1> DEFINE h == wk[w]
           D == ToSet(done)
           Q == ToSet(queue)
           k == [h EXCEPT !.pc = "requeue", !.got = << >>, !.made = << >>]
<1>1. /\ h.pc = "deliver" /\ UNCHANGED <<queue, done>>
      /\ wk' = [wk EXCEPT ![w].pc = "requeue", ![w].got = << >>, ![w].made = << >>]
  BY DEF Settle
<1>2. h \in Work(appended) /\ h.next # "refused" /\ Ahead(D, ToSet(h.todo)) /\ Delivers(h, D, Q)
  BY <1>1, Hands DEF Orderly
<1>3. wk' = [wk EXCEPT ![w] = k]
  BY <1>1
<1>4. h.got \in Seq(1..appended)
  BY <1>2 DEF Work
<1> HIDE DEF h, D, Q
<1>5. \A t \in ToSet(h.todo) : t \in ToSet(h.got)
  <2> SUFFICES ASSUME NEW t \in ToSet(h.todo) PROVE t \in ToSet(h.got)
    OBVIOUS
  <2>1. PICK n \in 1..Len(h.got) : t = h.got[n]
    BY <1>2 DEF Delivers
  <2> QED BY <1>4, <2>1, At
<1>6. InOrder(h.todo) /\ Ahead(ToSet(h.todo), Q)
  BY <1>2, <1>5 DEF Delivers, Ahead
<1>7. k.pc = "requeue" /\ k.todo = h.todo /\ k.next = h.next
  BY <1>2 DEF Work
<1> HIDE DEF k
<1>8. Orderly(k, D, Q)
  BY <1>2, <1>6, <1>7 DEF Orderly
<1> QED BY <1>1, <1>3, <1>8, OwnOrderStep DEF D, Q

(* Requeue: what comes back stands where it belongs.                          *)
LEMMA RequeueOrder ==
    ASSUME DrainInv, OrderInv, \A u, v \in Workers : u = v, NEW w \in Workers, Requeue(w)
    PROVE  OrderInv'
<1> DEFINE h == wk[w]
           es == Batch(h)
           U == 1..appended
           D == ToSet(done)
           Q == ToSet(queue)
<1>1. h.pc = "requeue" /\ done' = done
  BY DEF Requeue
<1>2. /\ h \in Work(appended) /\ h.next # "refused" /\ Ahead(D, ToSet(h.todo))
      /\ Kind = "memory" => InOrder(h.todo) /\ Ahead(ToSet(h.todo), Q)
  BY <1>1, Hands DEF Orderly
<1>3. h.todo \in Seq(U)
  BY <1>2 DEF Work
<1>4. CASE h.todo = << >>
  <2>1. wk' = [wk EXCEPT ![w] = NoWork] /\ queue' = queue
    BY <1>4 DEF Requeue
  <2> QED BY <1>1, <2>1, IdleOrder, OwnOrderStep
<1>5. CASE h.todo # << >>
  <2> DEFINE rest == Without(h.todo, ToSet(es))
             k == [h EXCEPT !.todo = rest, !.made = h.made \o es]
  <2>1. /\ queue' = Placed(es) /\ AvailableIds(es)
        /\ wk' = [wk EXCEPT ![w].todo = Without(@, ToSet(es)), ![w].made = @ \o es]
    BY <1>5 DEF Requeue, Batch
  <2>2. wk' = [wk EXCEPT ![w] = k]
    BY <2>1
  <2>3. ToSet(es) \cap Q = {}
    BY <2>1, Sets DEF AvailableIds
  <2> HIDE DEF h, D, Q
  <2>4. /\ es \in Seq(U) /\ ToSet(es) \subseteq ToSet(h.todo)
        /\ Kind # "memory" => Len(es) = 1 /\ es[1] \in ToSet(es)
    <3> DEFINE t == h.todo
    <3>1. t \in Seq(U) /\ t # << >>
      BY <1>3, <1>5
    <3> HIDE DEF t, U
    <3>2. 1 \in 0..Len(t) /\ 1 \in 1..1
      BY <3>1
    <3>3. /\ SubSeq(t, 1, 1) \in Seq(U) /\ Len(SubSeq(t, 1, 1)) = 1
          /\ ToSet(SubSeq(t, 1, 1)) \subseteq ToSet(t)
      BY <3>1, <3>2, ElementsPrefix
    <3>4. SubSeq(t, 1, 1)[1] \in ToSet(SubSeq(t, 1, 1))
      BY <3>2, <3>3, At
    <3> QED BY <3>1, <3>3, <3>4 DEF Batch, t
  <2>5. rest \in Seq(U) /\ ToSet(rest) = ToSet(h.todo) \ ToSet(es)
    <3> DEFINE t == h.todo
    <3>1. t \in Seq(U)
      BY <1>3
    <3> HIDE DEF t, U
    <3> QED BY <3>1, WithoutElements DEF t
  <2>6. k.pc = "requeue" /\ k.todo = rest /\ k.next = h.next
    BY <1>1, <1>2 DEF Work, h
  <2>7. Kind = "memory" => rest = << >>
    <3> SUFFICES ASSUME Kind = "memory" PROVE rest = << >>
      OBVIOUS
    <3>1. ToSet(rest) = {}
      BY <2>5 DEF Batch
    <3> HIDE DEF rest
    <3>2. Len(rest) \in Nat /\ \A j \in 1..Len(rest) : rest[j] \in ToSet(rest)
      BY <2>5, At
    <3>3. Len(rest) = 0
      BY <3>1, <3>2
    <3> QED BY <2>5, <3>3
  <2> HIDE DEF rest, es, k
  <2>8. Ahead(D, ToSet(rest))
    BY <1>2, <2>5 DEF Ahead
  <2>9. InOrder(<< >>) /\ \A R : Ahead(ToSet(<< >>), R)
    BY DEF InOrder, Ahead, ToSet
  <2>10. \A R : Orderly(k, D, R)
    BY <1>2, <2>6, <2>7, <2>8, <2>9 DEF Orderly
  <2>11. InOrder(queue') /\ ToSet(queue') \subseteq Q \cup ToSet(es)
    <3>1. CASE Kind = "memory"
      <4>1. queue' = es \o queue /\ InOrder(es) /\ Ahead(ToSet(es), Q)
        BY <1>2, <2>1, <2>4, <3>1 DEF Placed, Batch, es
      <4>2. queue \in Seq(U) /\ U \in SUBSET Nat /\ InOrder(queue)
        BY Queue, Sets DEF OrderInv
      <4> HIDE DEF U
      <4> QED BY <2>4, <4>1, <4>2, ElementsConcat, OrderConcat DEF Q
    <3>2. CASE Kind # "memory"
      <4>1. Kind = "rows" /\ es[1] \notin Q /\ Len(es) = 1
        BY <2>3, <2>4, <3>2, DrainAssumption
      <4> QED BY <2>1, <2>4, <4>1, <3>2, PlacedOrder DEF Q
    <3> QED BY <3>1, <3>2
  <2>12. Ahead(D, ToSet(queue'))
    BY <1>2, <2>4, <2>11 DEF Ahead, OrderInv, D, Q
  <2> QED BY <1>1, <2>2, <2>10, <2>11, <2>12, QueueOrderStep DEF D
<1> QED BY <1>4, <1>5

(* RequeueThrows: nothing moves.                                              *)
LEMMA RequeueThrowsOrder ==
    ASSUME DrainInv, OrderInv, \A u, v \in Workers : u = v, NEW w \in Workers, RequeueThrows(w)
    PROVE  OrderInv'
<1> DEFINE h == wk[w]
           D == ToSet(done)
           k == [h EXCEPT !.pc = "undo"]
<1>1. h.pc = "requeue" /\ UNCHANGED <<queue, done>> /\ wk' = [wk EXCEPT ![w] = k]
  BY DEF RequeueThrows
<1>2. h \in Work(appended) /\ h.next # "refused" /\ Ahead(D, ToSet(h.todo))
  BY <1>1, Hands DEF Orderly
<1> HIDE DEF h, D
<1>3. k.pc = "undo" /\ k.todo = h.todo /\ k.next = h.next
  BY <1>2 DEF Work
<1> HIDE DEF k
<1>4. \A R : Orderly(k, D, R)
  BY <1>2, <1>3 DEF Orderly
<1> QED BY <1>1, <1>4, OwnOrderStep DEF D

(* Undo: rows are taken out again.                                            *)
LEMMA UndoOrder ==
    ASSUME DrainInv, OrderInv, \A u, v \in Workers : u = v, NEW w \in Workers, Undo(w)
    PROVE  OrderInv'
<1> DEFINE h == wk[w]
           D == ToSet(done)
<1>1. h.pc = "undo" /\ done' = done
  BY DEF Undo
<1>2. h \in Work(appended) /\ h.next # "refused" /\ Ahead(D, ToSet(h.todo))
  BY <1>1, Hands DEF Orderly
<1>3. CASE h.made = << >>
  <2>1. wk' = [wk EXCEPT ![w] = NoWork] /\ queue' = queue
    BY <1>3 DEF Undo
  <2> QED BY <1>1, <2>1, IdleOrder, OwnOrderStep
<1>4. CASE h.made # << >>
  <2> DEFINE front == Front(h.made)
             e == Last(h.made)
             k == [h EXCEPT !.made = front]
  <2>1. queue' = Without(queue, {e}) /\ wk' = [wk EXCEPT ![w].made = Front(@)]
    BY <1>4 DEF Undo
  <2>2. wk' = [wk EXCEPT ![w] = k]
    BY <2>1
  <2> HIDE DEF h, front, e, D
  <2>3. k.pc = "undo" /\ k.todo = h.todo /\ k.next = h.next
    BY <1>1, <1>2 DEF Work, h
  <2> HIDE DEF k
  <2>4. \A R : Orderly(k, D, R)
    BY <1>2, <2>3 DEF Orderly
  <2> QED BY <1>1, <2>1, <2>2, <2>4, LessOrderStep DEF D
<1> QED BY <1>3, <1>4

(* Delivery of the i-th event of a batch: one more delivered, or one more     *)
(* that goes back and blocks its entity.                                      *)
LEMMA AttemptOrder ==
    ASSUME DrainInv, OrderInv, \A u, v \in Workers : u = v, NEW w \in Workers, Attempt(w)
    PROVE  OrderInv'
<1> DEFINE h == wk[w]
           e == h.got[h.i]
           U == 1..appended
           D == ToSet(done)
           Q == ToSet(queue)
           b == blockOutboxEntityOrderKeys(h.blocked, e)
<1>1. h.pc = "deliver" /\ h.i <= Len(h.got) /\ queue' = queue
  BY DEF Attempt
<1>2. /\ h \in Work(appended) /\ h.next # "refused" /\ Ahead(D, ToSet(h.todo))
      /\ Delivers(h, D, Q)
  BY <1>1, Hands DEF Orderly
<1>3. h.got \in Seq(U) /\ h.todo \in Seq(U) /\ h.i \in Nat \ {0} /\ U \in SUBSET Nat
  BY <1>2, Sets DEF Work
<1>4. done \in Seq(U) /\ InOrder(queue) /\ Ahead(D, Q) /\ EntityOrder /\ D \subseteq U
  BY Queue, Sets DEF OrderInv
<1>5. e \in U /\ h.i \in 1..Len(h.got) /\ e \in ToSet(h.got)
  <2> HIDE DEF h, U
  <2>1. h.i \in 1..Len(h.got)
    BY <1>1, <1>3
  <2> QED BY <1>3, <2>1, At
<1>6. PICK t2 \in {h.todo, Append(h.todo, e)}, b2 \in {h.blocked, b} :
         /\ wk' = [wk EXCEPT ![w] = [h EXCEPT !.i = h.i + 1, !.todo = t2, !.blocked = b2]]
         /\ \/ ~Blocked(h.blocked, e) /\ done' = Append(done, e) /\ t2 = h.todo
            \/ done' = done /\ t2 = h.todo
            \/ done' = done /\ t2 = Append(h.todo, e) /\ (b2 = b \/ Blocked(h.blocked, e))
  <2>1. Append(h.todo, e) \in {h.todo, Append(h.todo, e)} /\ h.todo \in {h.todo, Append(h.todo, e)}
        /\ h.blocked \in {h.blocked, b} /\ b \in {h.blocked, b}
    OBVIOUS
  <2>2. CASE /\ ~Blocked(h.blocked, e) /\ done' = Append(done, e)
             /\ wk' = [wk EXCEPT ![w].i = @ + 1]
    <3>1. [h EXCEPT !.i = h.i + 1] = [h EXCEPT !.i = h.i + 1, !.todo = h.todo, !.blocked = h.blocked]
      <4> HIDE DEF h
      <4> QED BY <1>2 DEF Work
    <3>2. wk' = [wk EXCEPT ![w] = [h EXCEPT !.i = h.i + 1, !.todo = h.todo, !.blocked = h.blocked]]
      BY <2>2, <3>1
    <3> QED BY <2>1, <2>2, <3>2
  <2>3. CASE /\ wk' = [wk EXCEPT ![w].i = @ + 1, ![w].todo = Append(@, e),
                                 ![w].blocked = blockOutboxEntityOrderKeys(@, e)]
             /\ done' = done
    <3>1. wk' = [wk EXCEPT ![w] = [h EXCEPT !.i = h.i + 1, !.todo = Append(h.todo, e), !.blocked = b]]
      BY <2>3
    <3> QED BY <2>1, <2>3, <3>1
  <2>4. CASE /\ done' = done
             /\ wk' = [wk EXCEPT ![w].i = @ + 1,
                                 ![w].blocked = blockOutboxEntityOrderKeys(@, e)]
    <3>1. [h EXCEPT !.i = h.i + 1, !.blocked = b]
          = [h EXCEPT !.i = h.i + 1, !.todo = h.todo, !.blocked = b]
      <4> HIDE DEF h, b
      <4> QED BY <1>2 DEF Work
    <3>2. wk' = [wk EXCEPT ![w] = [h EXCEPT !.i = h.i + 1, !.todo = h.todo, !.blocked = b]]
      BY <2>4, <3>1
    <3> QED BY <2>1, <2>4, <3>2
  <2>5. CASE /\ Blocked(h.blocked, e) /\ done' = done
             /\ wk' = [wk EXCEPT ![w].i = @ + 1, ![w].todo = Append(@, e)]
    <3>1. [h EXCEPT !.i = h.i + 1, !.todo = Append(h.todo, e)]
          = [h EXCEPT !.i = h.i + 1, !.todo = Append(h.todo, e), !.blocked = h.blocked]
      <4> HIDE DEF h
      <4> QED BY <1>2 DEF Work
    <3>2. wk' = [wk EXCEPT ![w] = [h EXCEPT !.i = h.i + 1, !.todo = Append(h.todo, e),
                                            !.blocked = h.blocked]]
      BY <2>5, <3>1
    <3> QED BY <2>1, <2>5, <3>2
  <2> QED BY <2>2, <2>3, <2>4, <2>5 DEF Attempt
<1> DEFINE k == [h EXCEPT !.i = h.i + 1, !.todo = t2, !.blocked = b2]
<1>7. wk' = [wk EXCEPT ![w] = k]
  BY <1>6
<1>8. h.blocked \subseteq b2
  BY <1>6 DEF blockOutboxEntityOrderKeys
<1>9. t2 # h.todo => Entity[e] \in b2
  BY <1>6 DEF blockOutboxEntityOrderKeys, Blocked
<1>10. ~Blocked(h.blocked, e) => Entity[e] \notin h.blocked
  BY DEF Blocked
<1> HIDE DEF h, U, D, Q, b
<1>11. k.pc = "deliver" /\ k.next = h.next
  BY <1>1, <1>2 DEF Work, h
<1>12. k.i = h.i + 1 /\ k.got = h.got
  BY <1>2 DEF Work
<1>13. k.todo = t2 /\ k.blocked = b2
  BY <1>2 DEF Work
<1> HIDE DEF k
<1>14. /\ \A n \in 1..Len(h.got) : n >= h.i + 1 => n >= h.i /\ h.i < n
       /\ h.i < h.i + 1 /\ h.i >= h.i
       /\ \A n \in 1..Len(h.got) : n < h.i => n < h.i + 1
  BY <1>3
<1>15. Ahead(D, {e})
  BY <1>2, <1>5, <1>14 DEF Delivers, e
<1>16. InOrder(h.got) /\ Ahead(ToSet(h.got), Q) /\ InOrder(h.todo)
  BY <1>2 DEF Delivers
<1>17. \A t \in ToSet(h.todo) :
          Entity[t] \in h.blocked /\ \E n \in 1..Len(h.got) : n < h.i /\ t = h.got[n]
  BY <1>2 DEF Delivers
<1>18. Ahead(ToSet(h.todo), {e})
  <2> SUFFICES ASSUME NEW t \in ToSet(h.todo), Entity[t] = Entity[e] PROVE t < e
    BY DEF Ahead
  <2>1. PICK n \in 1..Len(h.got) : n < h.i /\ t = h.got[n]
    BY <1>17
  <2> QED BY <1>5, <1>16, <2>1 DEF InOrder, e
<1>19. \A n \in 1..Len(h.got) : n >= h.i + 1 => Ahead(D \cup {e}, {h.got[n]})
  <2> SUFFICES ASSUME NEW n \in 1..Len(h.got), n >= h.i + 1 PROVE Ahead(D \cup {e}, {h.got[n]})
    OBVIOUS
  <2>1. Ahead(D, {h.got[n]})
    BY <1>2, <1>14 DEF Delivers
  <2>2. Ahead({e}, {h.got[n]})
    BY <1>5, <1>14, <1>16 DEF InOrder, Ahead, e
  <2> QED BY <2>1, <2>2 DEF Ahead
<1>20. InOrder(t2) /\ ToSet(t2) \subseteq ToSet(h.todo) \cup {e}
       /\ (t2 = h.todo \/ e \in ToSet(t2))
  <2> DEFINE t == h.todo
  <2>1. t \in Seq(U) /\ InOrder(t) /\ Ahead(ToSet(t), {e}) /\ t2 \in {t, Append(t, e)}
    BY <1>3, <1>6, <1>16, <1>18
  <2> HIDE DEF t, e
  <2>2. ToSet(Append(t, e)) = ToSet(t) \cup {e}
    BY <1>5, <2>1, ElementsAppend
  <2>3. InOrder(Append(t, e))
    BY <1>3, <1>5, <2>1, OrderAppend
  <2>4. CASE t2 = t
    BY <2>1, <2>4 DEF t
  <2>5. CASE t2 = Append(t, e)
    BY <2>2, <2>3, <2>5 DEF t
  <2> QED BY <2>1, <2>4, <2>5
<1>21. \A t \in ToSet(t2) :
          Entity[t] \in b2 /\ \E n \in 1..Len(h.got) : n < h.i + 1 /\ t = h.got[n]
  <2> SUFFICES ASSUME NEW t \in ToSet(t2)
               PROVE  Entity[t] \in b2 /\ \E n \in 1..Len(h.got) : n < h.i + 1 /\ t = h.got[n]
    OBVIOUS
  <2>1. CASE t \in ToSet(h.todo)
    BY <1>8, <1>14, <1>17, <2>1
  <2>2. CASE t \notin ToSet(h.todo)
    <3>1. t = e /\ t2 # h.todo
      BY <1>20, <2>2
    <3> QED BY <1>5, <1>9, <1>14, <3>1 DEF e
  <2> QED BY <2>1, <2>2
<1>22. CASE ~Blocked(h.blocked, e) /\ done' = Append(done, e) /\ t2 = h.todo
  <2>1. ToSet(done') = D \cup {e}
    <3> HIDE DEF e
    <3> QED BY <1>4, <1>5, <1>22, ElementsAppend DEF D
  <2>2. Ahead(D \cup {e}, ToSet(t2))
    <3>1. \A t \in ToSet(t2) : Entity[t] # Entity[e]
      BY <1>10, <1>17, <1>22
    <3>2. Ahead(D, ToSet(t2))
      BY <1>2, <1>22
    <3> QED BY <3>1, <3>2 DEF Ahead
  <2>3. Ahead(D \cup {e}, Q)
    BY <1>4, <1>5, <1>16 DEF Ahead
  <2>4. Delivers(k, D \cup {e}, Q)
    BY <1>12, <1>13, <1>16, <1>19, <1>20, <1>21 DEF Delivers
  <2>5. Orderly(k, D \cup {e}, Q)
    BY <1>2, <1>11, <1>13, <2>2, <2>4 DEF Orderly
  <2>6. EntityOrder'
    <3> DEFINE d == Append(done, e)
               n == Len(done)
    <3>1. Len(d) = n + 1 /\ n \in Nat /\ d[n + 1] = e /\ \A j \in 1..n : d[j] = done[j] /\ d[j] \in D
      <4> HIDE DEF e
      <4>1. \A j \in 1..Len(done) : done[j] \in D
        BY <1>4, At DEF D
      <4> QED BY <1>4, <1>5, <4>1
    <3> HIDE DEF d, n, e
    <3> SUFFICES ASSUME NEW i \in 1..(n + 1), NEW j \in 1..(n + 1), i < j, Entity[d[i]] = Entity[d[j]]
                 PROVE  d[i] <= d[j]
      BY <1>22, <3>1 DEF EntityOrder, d
    <3>2. i \in 1..n /\ (j \in 1..n \/ j = n + 1)
      BY <3>1
    <3>3. CASE j \in 1..n
      BY <1>4, <3>1, <3>2, <3>3 DEF EntityOrder, n
    <3>4. CASE j = n + 1
      <4>1. d[i] \in D /\ d[j] = e
        BY <3>1, <3>2, <3>4
      <4>2. d[i] < e
        BY <1>15, <4>1 DEF Ahead
      <4>3. d[i] \in Nat /\ e \in Nat
        BY <1>3, <1>4, <1>5, <4>1
      <4> QED BY <4>1, <4>2, <4>3
    <3> QED BY <3>2, <3>3, <3>4
  <2>7. Ahead(ToSet(done'), ToSet(queue'))
    BY <1>1, <2>1, <2>3 DEF Q
  <2>8. Orderly(k, ToSet(done'), ToSet(queue')) /\ InOrder(queue')
    BY <1>1, <1>4, <2>1, <2>5 DEF Q
  <2> QED BY <1>7, <2>6, <2>7, <2>8, OrderStep
<1>23. CASE done' = done
  <2>1. Ahead(D, ToSet(t2))
    BY <1>2, <1>15, <1>20 DEF Ahead
  <2>2. \A n \in 1..Len(h.got) : n >= h.i + 1 => Ahead(D, {h.got[n]})
    BY <1>19 DEF Ahead
  <2>3. Delivers(k, D, Q)
    BY <1>12, <1>13, <1>16, <1>20, <1>21, <2>2 DEF Delivers
  <2>4. Orderly(k, D, Q)
    BY <1>2, <1>11, <1>13, <2>1, <2>3 DEF Orderly
  <2> QED BY <1>1, <1>7, <1>23, <2>4, OwnOrderStep DEF D, Q
<1> QED BY <1>6, <1>22, <1>23

(* Without leases no worker acknowledges.                                     *)
LEMMA AckOrder ==
    ASSUME DrainInv, OrderInv, ~Leased, NEW w \in Workers
    PROVE  ~AckCheck(w) /\ ~AckDelete(w) /\ ~AckThrows(w) /\ ~AckRefused(w)
<1>1. wk[w].pc \notin {"ack", "refused"}
  BY Hands DEF Orderly
<1> QED BY <1>1 DEF AckCheck, AckDelete, AckThrows, AckRefused

(* One worker delivers the events of an entity in the order they were          *)
(* appended, from either outbox, however often the plugin appends in between,  *)
(* attempts fail, deletes throw and batches are put back: nothing overtakes an *)
(* event that waits for its next attempt.                                      *)
THEOREM OneWorkerKeepsOrder ==
    (~Leased /\ \A v, w \in Workers : v = w) => (Spec => []EntityOrder)
<1> SUFFICES ASSUME ~Leased, \A v, w \in Workers : v = w
             PROVE  Spec => []EntityOrder
  OBVIOUS
<1>1. Init => OrderInv
  BY InitOrder
<1>2. DrainInv /\ OrderInv /\ [Next]_vars => OrderInv'
  <2> SUFFICES ASSUME DrainInv, OrderInv, [Next]_vars PROVE OrderInv'
    OBVIOUS
  <2>1. CASE Append1
    BY <2>1, Append1Order
  <2>2. CASE AppendFails
    BY <2>2, StillOrder DEF AppendFails
  <2>3. ASSUME NEW e \in Events, FallsDue(e) \/ Reclaim(e) PROVE OrderInv'
    BY <2>3, StillOrder DEF FallsDue, Reclaim
  <2>4. ASSUME NEW w \in Workers, Steps(w) PROVE OrderInv'
    BY <2>4, DrainOrder, DrainRowOrder, DrainDeleteOrder, ReinsertOrder, RecoverOrder,
       AttemptOrder, SettleOrder, RequeueOrder, RequeueThrowsOrder, UndoOrder DEF Steps
  <2>5. ASSUME NEW w \in Workers,
               \/ captureOutboxDrainRecoverySnapshot(w) \/ DrainThrows(w) \/ ReinsertThrows(w)
               \/ AckCheck(w) \/ AckDelete(w) \/ AckThrows(w) \/ AckRefused(w)
        PROVE  OrderInv'
    BY <2>5, CaptureOrder, DrainThrowsOrder, ReinsertThrowsOrder, AckOrder
  <2>6. CASE UNCHANGED vars
    BY <2>6, StillOrder DEF vars
  <2> QED BY <2>1, <2>2, <2>3, <2>4, <2>5, <2>6 DEF Next
<1>3. OrderInv => EntityOrder
  BY DEF OrderInv
<1>4. Spec => []DrainInv
  BY DrainSafe
<1> QED BY <1>1, <1>2, <1>3, <1>4, PTL DEF Spec
-----------------------------------------------------------------------------
(* Revision-ordered writes of the Elasticsearch and OpenSearch adapter        *)
(* (SearchRevisions), for any revisions, attempts and orders of arrival.      *)

CONSTANTS
    EngineRevisions,  \* revisions of the writes of the document
    EngineRequires,   \* options.requireRevisionWrites
    EngineAttempts    \* attempts of one write

VARIABLES
    writeOf,   \* revision -> "index" or "delete"
    statusOf,  \* revision -> "idle", "waiting", "failed", "acked"
    sentTimes, \* revision -> times it was sent
    flight,    \* requests the engine has yet to execute
    answers,   \* answers on their way
    indexed,   \* the stored document
    manual     \* what became of the script's write

Engine == INSTANCE SearchRevisions WITH
    Revisions <- EngineRevisions, RequireRevision <- EngineRequires, MaxAttempts <- EngineAttempts,
    write <- writeOf, status <- statusOf, attempts <- sentTimes, doc <- indexed

\* The revisions of a document are positive and one is the newest.
Numbered ==
    /\ EngineRevisions \subseteq Nat \ {0}
    /\ \E r \in EngineRevisions : \A s \in EngineRevisions : s <= r

(* The document is the one of some revision, as that revision wrote it; what  *)
(* was answered as done or superseded, and what was acknowledged on such an   *)
(* answer, is not newer than it.                                              *)
Tombstoned(r) == writeOf[r] = "delete"
RevisionDocument(r) == [version |-> r, tombstone |-> Tombstoned(r)]
EngineInv ==
    /\ writeOf \in [EngineRevisions -> {"index", "delete"}]
    /\ statusOf \in [EngineRevisions -> {"idle", "waiting", "failed", "acked"}]
    /\ flight \subseteq {Engine!Request(r) : r \in EngineRevisions}
    /\ answers \subseteq [revision : EngineRevisions, of : Engine!Answers]
    /\ indexed = Engine!NoDoc \/ \E r \in EngineRevisions : indexed = RevisionDocument(r)
    /\ \A a \in answers : a.of # "otherConflict" => a.revision <= indexed.version
    /\ \A r \in EngineRevisions : statusOf[r] = "acked" => r <= indexed.version

\* A request is an index of its revision: a delete stores a tombstone.
LEMMA RequestIsAnIndex ==
    ASSUME EngineInv, NEW request \in flight
    PROVE  \E r \in EngineRevisions : /\ request.revision = r /\ request.call = "index"
                                      /\ request.tombstone = Tombstoned(r)
  <1>1. PICK r \in EngineRevisions : request = Engine!Request(r)
    BY DEF EngineInv
  <1>2. writeOf[r] \in {"index", "delete"}
    BY DEF EngineInv
  <1> QED BY <1>1, <1>2 DEF Engine!Request, Engine!IndexRequest, Engine!DeleteRequest, Tombstoned

\* The engine puts what is newer than the document in its place, and answers that it
\* is done only if it did.
LEMMA ExecutedIsNewer ==
    ASSUME Numbered, EngineInv, NEW request \in flight
    PROVE  LET e == Engine!Executed(request)
           IN  /\ e.of \in {"done", "versionConflict"}
               /\ request.revision \in EngineRevisions
               /\ request.revision <= e.doc.version /\ indexed.version <= e.doc.version
               /\ e.doc = Engine!NoDoc \/ \E r \in EngineRevisions : e.doc = RevisionDocument(r)
  <1>1. PICK r \in EngineRevisions : /\ request.revision = r /\ request.call = "index"
                                     /\ request.tombstone = Tombstoned(r)
    BY RequestIsAnIndex
  <1>2. indexed.version \in Nat /\ r \in Nat
    BY DEF EngineInv, Numbered, RevisionDocument, Engine!NoDoc
  <1>3. CASE r > indexed.version
    <2>1. Engine!Executed(request) = [doc |-> RevisionDocument(r), of |-> "done"]
      BY <1>1, <1>3 DEF Engine!Executed, RevisionDocument
    <2> QED BY <1>1, <1>2, <1>3, <2>1 DEF RevisionDocument
  <1>4. CASE ~(r > indexed.version)
    <2>1. Engine!Executed(request) = [doc |-> indexed, of |-> "versionConflict"]
      BY <1>1, <1>4 DEF Engine!Executed
    <2> QED BY <1>1, <1>2, <1>4, <2>1 DEF EngineInv
  <1> QED BY <1>3, <1>4

LEMMA EngineInit == ASSUME Numbered, Engine!Init PROVE EngineInv
  BY DEF Engine!Init, EngineInv

LEMMA EngineStep ==
    ASSUME Numbered, EngineRequires = TRUE, EngineInv, [Engine!Next]_Engine!vars
    PROVE  EngineInv'
  <1> USE DEF EngineInv
  <1>1. CASE UNCHANGED Engine!vars
    BY <1>1 DEF Engine!vars, RevisionDocument, Tombstoned, Engine!Request, Engine!IndexRequest,
                Engine!DeleteRequest
  <1>2. ASSUME NEW r \in EngineRevisions, Engine!Send(r)
        PROVE  EngineInv'
    <2>1. UNCHANGED <<writeOf, indexed>> /\ answers' \subseteq answers
      BY <1>2 DEF Engine!Send
    <2>2. flight' \subseteq {Engine!Request(s) : s \in EngineRevisions}'
      BY <1>2, <2>1 DEF Engine!Send, Engine!Request, Engine!IndexRequest, Engine!DeleteRequest
    <2>3. /\ statusOf' \in [EngineRevisions -> {"idle", "waiting", "failed", "acked"}]
          /\ \A s \in EngineRevisions : statusOf'[s] = "acked" => statusOf[s] = "acked"
      BY <1>2 DEF Engine!Send
    <2> QED BY <2>1, <2>2, <2>3 DEF RevisionDocument, Tombstoned
  <1>3. ASSUME NEW r \in EngineRevisions, Engine!GiveUp(r)
        PROVE  EngineInv'
    <2>1. UNCHANGED <<writeOf, indexed, answers, flight>>
      BY <1>3 DEF Engine!GiveUp
    <2>2. /\ statusOf' \in [EngineRevisions -> {"idle", "waiting", "failed", "acked"}]
          /\ \A s \in EngineRevisions : statusOf'[s] = "acked" => statusOf[s] = "acked"
      BY <1>3 DEF Engine!GiveUp
    <2>3. flight' \subseteq {Engine!Request(s) : s \in EngineRevisions}'
      BY <2>1 DEF Engine!Request, Engine!IndexRequest, Engine!DeleteRequest
    <2> QED BY <2>1, <2>2, <2>3 DEF RevisionDocument, Tombstoned
  <1>4. ASSUME NEW request \in flight, Engine!Execute(request)
        PROVE  EngineInv'
    <2> DEFINE e == Engine!Executed(request)
    <2>1. /\ e.of \in {"done", "versionConflict"}
          /\ request.revision \in EngineRevisions
          /\ request.revision <= e.doc.version /\ indexed.version <= e.doc.version
          /\ e.doc = Engine!NoDoc \/ \E r \in EngineRevisions : e.doc = RevisionDocument(r)
      BY ExecutedIsNewer
    <2>2. /\ UNCHANGED <<writeOf, statusOf>> /\ indexed' = e.doc /\ flight' \subseteq flight
          /\ answers' = answers \cup {[revision |-> request.revision, of |-> e.of]}
      BY <1>4 DEF Engine!Execute
    <2> HIDE DEF e
    <2>3. flight' \subseteq {Engine!Request(s) : s \in EngineRevisions}'
      BY <2>2 DEF Engine!Request, Engine!IndexRequest, Engine!DeleteRequest
    <2>4. indexed.version \in Nat /\ e.doc.version \in Nat /\ EngineRevisions \subseteq Nat
      <3>1. Engine!NoDoc.version = 0 /\ \A r \in EngineRevisions : RevisionDocument(r).version = r
        BY DEF RevisionDocument, Engine!NoDoc
      <3> QED BY <2>1, <3>1 DEF Numbered
    <2>5. answers' \subseteq [revision : EngineRevisions, of : Engine!Answers]
      BY <2>1, <2>2 DEF Engine!Answers
    <2>6. \A a \in answers' : a.of # "otherConflict" => a.revision <= indexed'.version
      <3> SUFFICES ASSUME NEW a \in answers', a.of # "otherConflict"
                   PROVE  a.revision <= e.doc.version
        BY <2>2
      <3>1. CASE a \in answers
        <4>1. a.revision \in Nat /\ a.revision <= indexed.version
          BY <2>4, <3>1
        <4> QED BY <2>1, <2>4, <4>1
      <3>2. CASE a = [revision |-> request.revision, of |-> e.of]
        BY <2>1, <3>2
      <3>3. a \in answers \/ a = [revision |-> request.revision, of |-> e.of]
        BY <2>2, Zenon
      <3> QED BY <3>1, <3>2, <3>3
    <2>7. \A r \in EngineRevisions : statusOf'[r] = "acked" => r <= indexed'.version
      BY <2>1, <2>2, <2>4
    <2>8. (indexed = Engine!NoDoc \/ \E r \in EngineRevisions : indexed = RevisionDocument(r))'
      BY <2>1, <2>2 DEF RevisionDocument, Tombstoned
    <2> QED BY <2>2, <2>3, <2>5, <2>6, <2>7, <2>8
  <1>5. ASSUME NEW request \in flight, Engine!Refuse(request)
        PROVE  EngineInv'
    <2>1. /\ UNCHANGED <<writeOf, statusOf, indexed>> /\ flight' \subseteq flight
          /\ answers' = answers \cup {[revision |-> request.revision, of |-> "otherConflict"]}
      BY <1>5 DEF Engine!Refuse
    <2>2. request.revision \in EngineRevisions
      BY RequestIsAnIndex
    <2>3. flight' \subseteq {Engine!Request(s) : s \in EngineRevisions}'
      BY <2>1 DEF Engine!Request, Engine!IndexRequest, Engine!DeleteRequest
    <2> QED BY <2>1, <2>2, <2>3 DEF RevisionDocument, Tombstoned, Engine!Answers
  <1>6. ASSUME NEW answer \in answers, Engine!Answered(answer)
        PROVE  EngineInv'
    <2>1. /\ UNCHANGED <<writeOf, flight, indexed>> /\ answers' \subseteq answers
          /\ statusOf' = [statusOf EXCEPT ![answer.revision] =
                IF answer.of = "done" \/ answer.of = "versionConflict" THEN "acked" ELSE "failed"]
      BY <1>6 DEF Engine!Answered, Engine!Superseded
    <2>2. answer.of # "otherConflict" => answer.revision <= indexed.version
      OBVIOUS
    <2>3. flight' \subseteq {Engine!Request(s) : s \in EngineRevisions}'
      BY <2>1 DEF Engine!Request, Engine!IndexRequest, Engine!DeleteRequest
    <2>4. \A r \in EngineRevisions : statusOf'[r] = "acked" => r <= indexed'.version
      BY <2>1, <2>2
    <2>5. statusOf' \in [EngineRevisions -> {"idle", "waiting", "failed", "acked"}]
      BY <2>1
    <2> QED BY <2>1, <2>3, <2>4, <2>5 DEF RevisionDocument, Tombstoned
  <1>7. ASSUME NEW kind \in {"index", "delete"}, Engine!ManualWrite(kind)
        PROVE  EngineInv'
    <2>1. UNCHANGED <<writeOf, statusOf, flight, answers, indexed>>
      BY <1>7 DEF Engine!ManualWrite, Engine!RevisionMissing
    <2>2. flight' \subseteq {Engine!Request(s) : s \in EngineRevisions}'
      BY <2>1 DEF Engine!Request, Engine!IndexRequest, Engine!DeleteRequest
    <2> QED BY <2>1, <2>2 DEF RevisionDocument, Tombstoned
  <1> QED BY <1>1, <1>2, <1>3, <1>4, <1>5, <1>6, <1>7 DEF Engine!Next

\* Whatever the order, the duplicates and the lost answers, once the newest write has been
\* acknowledged the document is the one it wrote: no late index brings back a deleted
\* document.  It takes requireRevisionWrites: a write without a revision counts the version
\* up or forgets it.
THEOREM NewestWriteWins ==
    Numbered /\ EngineRequires = TRUE => (Engine!Spec => []Engine!LatestWins)
  <1> SUFFICES ASSUME Numbered, EngineRequires = TRUE
               PROVE  Engine!Spec => []Engine!LatestWins
    OBVIOUS
  <1>1. Engine!Init => EngineInv
    BY EngineInit
  <1>2. EngineInv /\ [Engine!Next]_Engine!vars => EngineInv'
    BY EngineStep
  <1>3. EngineInv => Engine!LatestWins
    <2> SUFFICES ASSUME EngineInv, Engine!LastRevision \in Engine!Acked
                 PROVE  Engine!Shown <=> writeOf[Engine!LastRevision] = "index"
      BY DEF Engine!LatestWins
    <2> DEFINE top == Engine!LastRevision
    <2>1. top \in EngineRevisions /\ \A s \in EngineRevisions : s <= top
      BY DEF Engine!LastRevision, Numbered
    <2>2. top <= indexed.version
      BY <2>1 DEF EngineInv, Engine!Acked
    <2> HIDE DEF top
    <2>3. indexed = RevisionDocument(top)
      BY <2>1, <2>2 DEF EngineInv, Numbered, RevisionDocument, Engine!NoDoc
    <2>4. writeOf[top] \in {"index", "delete"}
      BY <2>1 DEF EngineInv
    <2>5. indexed.version = top /\ top > 0
      BY <2>1, <2>3 DEF RevisionDocument, Numbered
    <2>6. indexed.tombstone = Tombstoned(top)
      BY <2>3, Zenon DEF RevisionDocument
    <2>7. Engine!Shown <=> ~Tombstoned(top)
      BY <2>5, <2>6 DEF Engine!Shown
    <2>8. Engine!Shown <=> writeOf[top] = "index"
      BY <2>4, <2>7 DEF Tombstoned
    <2> QED BY <2>8 DEF top
  <1> QED BY <1>1, <1>2, <1>3, PTL DEF Engine!Spec
-----------------------------------------------------------------------------
(* Writes of the Meilisearch adapter (SearchTasks), for any number of them and *)
(* of changes an operator makes to the index.                                 *)

CONSTANTS
    WriteCount,  \* writes of the worker
    AdminCount   \* changes an operator makes to the index

VARIABLES
    nextWrite,    \* the write the worker is at
    kindOf,       \* write -> "index" or "delete"
    step,         \* where the worker is in it
    mine,         \* the task it waits for
    taskLog,      \* every task ever enqueued
    primaryKey,   \* primary key of the index
    adminChanges, \* operator changes so far
    content,      \* write the document comes from, 0 when there is none
    told          \* what the worker was told of each write

Indexing == INSTANCE SearchTasks WITH
    Writes <- WriteCount, MaxAdmin <- AdminCount, next <- nextWrite, kind <- kindOf, at <- step,
    tasks <- taskLog, key <- primaryKey, admin <- adminChanges, doc <- content, result <- told

TaskRecords == [write : 0..WriteCount, index : {"ours", "theirs"},
                status : {"enqueued", "succeeded", "failed"}]

Ran(t) == taskLog[t].index = "ours" /\ taskLog[t].status = "succeeded"

\* Types.
IndexingTypes ==
    /\ nextWrite \in 1..(WriteCount + 1) /\ step \in {"idle", "check", "enqueue", "wait"}
    /\ step # "idle" => nextWrite <= WriteCount
    /\ kindOf \in [1..WriteCount -> {"index", "delete"}]
    /\ taskLog \in Seq(TaskRecords)
    /\ primaryKey \in {"active_ts_id", "other", "missing"} /\ adminChanges \in Nat
    /\ content \in 0..WriteCount
    /\ told \in [1..WriteCount -> {"open", "acked", "refused", "failed"}]

(* The tasks are enqueued in the order of the writes and run in that order;   *)
(* the worker waits for the task of its own write.                            *)
QueueInv ==
    /\ \A t \in 1..Len(taskLog) :
          /\ taskLog[t].index = "ours" <=> taskLog[t].write # 0
          /\ \/ taskLog[t].write < nextWrite
             \/ step = "wait" /\ t = mine /\ taskLog[t].write = nextWrite
    /\ \A t, u \in 1..Len(taskLog) : t < u =>
          /\ taskLog[t].index = "ours" /\ taskLog[u].index = "ours" => taskLog[t].write < taskLog[u].write
          /\ taskLog[u].status # "enqueued" => taskLog[t].status # "enqueued"
    /\ step = "wait" => mine \in 1..Len(taskLog) /\ taskLog[mine].write = nextWrite

\* An acknowledged write is one whose task succeeded.
AckedRan ==
    \A w \in 1..WriteCount : told[w] = "acked" =>
        \E t \in 1..Len(taskLog) : Ran(t) /\ taskLog[t].write = w

(* While the index is left alone, the document is not older than any task     *)
(* that succeeded, or it was deleted by one that is not.                      *)
DeletedSince(t) ==
    content = 0 /\ \E u \in t..Len(taskLog) : Ran(u) /\ kindOf[taskLog[u].write] = "delete"
NotBehind ==
    adminChanges = 0 => \A t \in 1..Len(taskLog) : Ran(t) =>
        taskLog[t].write <= content \/ DeletedSince(t)

\* An index with another primary key has no tasks, and none is about to be enqueued.
KeyInv ==
    adminChanges = 0 =>
        /\ primaryKey \in {"active_ts_id", "other"}
        /\ primaryKey = "other" =>
              step # "enqueue" /\ \A t \in 1..Len(taskLog) : taskLog[t].index # "ours"

IndexingInv == IndexingTypes /\ QueueInv /\ AckedRan /\ NotBehind /\ KeyInv

LEMMA IndexingInit == ASSUME WriteCount \in Nat, Indexing!Init PROVE IndexingInv
  BY DEF Indexing!Init, IndexingInv, IndexingTypes, QueueInv, AckedRan, NotBehind, KeyInv

LEMMA TaskTypes ==
    ASSUME IndexingInv, NEW t \in 1..Len(taskLog)
    PROVE  taskLog[t] \in TaskRecords /\ taskLog[t].write \in 0..WriteCount /\ taskLog[t].write \in Nat
  <1>1. taskLog \in Seq(TaskRecords)
    BY DEF IndexingInv, IndexingTypes
  <1>2. taskLog[t] \in TaskRecords
    BY <1>1
  <1> QED BY <1>2 DEF TaskRecords

\* The worker's step on to the next write, with the tasks as they are.
LEMMA SettledWrite ==
    ASSUME WriteCount \in Nat, IndexingInv, step # "idle",
           NEW how \in {"acked", "refused", "failed"}, Indexing!Settle(how),
           UNCHANGED <<kindOf, taskLog, primaryKey, adminChanges, content>>,
           how = "acked" => step = "wait" /\ Ran(mine)
    PROVE  IndexingInv'
  <1> USE DEF IndexingInv, Indexing!Settle
  <1>1. IndexingTypes'
    BY DEF IndexingTypes
  <1>2. QueueInv'
    <2>1. nextWrite' = nextWrite + 1 /\ nextWrite \in Nat /\ step' = "idle"
      BY DEF IndexingTypes
    <2>2. \A t \in 1..Len(taskLog) : taskLog[t].write \in Nat
      BY TaskTypes
    <2> QED BY <2>1, <2>2 DEF QueueInv
  <1>3. AckedRan'
    <2> SUFFICES ASSUME NEW w \in 1..WriteCount, told'[w] = "acked"
                 PROVE  \E t \in 1..Len(taskLog) : Ran(t) /\ taskLog[t].write = w
      BY DEF AckedRan, Ran
    <2>1. CASE w = nextWrite
      <3>1. how = "acked"
        BY <2>1 DEF IndexingTypes
      <3> QED BY <2>1, <3>1 DEF QueueInv
    <2>2. CASE w # nextWrite
      BY <2>2 DEF AckedRan, IndexingTypes
    <2> QED BY <2>1, <2>2
  <1>4. NotBehind'
    BY DEF NotBehind, DeletedSince, Ran
  <1>5. KeyInv'
    BY DEF KeyInv
  <1> QED BY <1>1, <1>2, <1>3, <1>4, <1>5

\* A task added behind the others has not run.
LEMMA AddedTask ==
    ASSUME IndexingInv, NEW x \in TaskRecords, x.status = "enqueued", taskLog' = Append(taskLog, x),
           UNCHANGED <<kindOf, adminChanges, content>>,
           \A w \in 1..WriteCount : told'[w] = "acked" => told[w] = "acked"
    PROVE  /\ taskLog' \in Seq(TaskRecords) /\ Len(taskLog) \in Nat /\ Len(taskLog') = Len(taskLog) + 1
           /\ \A t \in 1..Len(taskLog) : taskLog'[t] = taskLog[t]
           /\ taskLog'[Len(taskLog) + 1] = x
           /\ AckedRan' /\ NotBehind'
  <1>1. /\ taskLog' \in Seq(TaskRecords) /\ Len(taskLog') = Len(taskLog) + 1 /\ Len(taskLog) \in Nat
        /\ \A t \in 1..Len(taskLog) : taskLog'[t] = taskLog[t]
        /\ taskLog'[Len(taskLog) + 1] = x
    BY DEF IndexingInv, IndexingTypes
  <1>2. \A t \in 1..Len(taskLog) : Ran(t)' <=> Ran(t)
    <2> SUFFICES ASSUME NEW t \in 1..Len(taskLog) PROVE Ran(t)' <=> Ran(t)
      OBVIOUS
    <2>1. taskLog'[t] = taskLog[t]
      BY <1>1
    <2> QED BY <2>1, Zenon DEF Ran
  <1>3. taskLog'[Len(taskLog) + 1].status = "enqueued"
    BY <1>1
  <1>4. AckedRan'
    BY <1>1, <1>2 DEF IndexingInv, AckedRan
  <1>5. ASSUME NEW t \in 1..Len(taskLog), DeletedSince(t)
        PROVE  DeletedSince(t)'
    <2>1. PICK u \in t..Len(taskLog) : Ran(u) /\ kindOf[taskLog[u].write] = "delete"
      BY <1>5 DEF DeletedSince
    <2>2. u \in 1..Len(taskLog) /\ u \in t..Len(taskLog')
      BY <1>1, <2>1
    <2> QED BY <1>1, <1>2, <1>5, <2>1, <2>2 DEF DeletedSince
  <1>6. NotBehind'
    <2> SUFFICES ASSUME adminChanges = 0, NEW t \in 1..Len(taskLog'), Ran(t)'
                 PROVE  (taskLog[t].write <= content)' \/ DeletedSince(t)'
      BY DEF NotBehind
    <2>1. taskLog'[t].status # "enqueued"
      BY DEF Ran
    <2>2. t \in 1..Len(taskLog)
      BY <1>1, <1>3, <2>1
    <2>3. Ran(t) /\ taskLog'[t] = taskLog[t]
      BY <1>1, <1>2, <2>2
    <2> QED BY <1>5, <2>2, <2>3 DEF IndexingInv, NotBehind
  <1> QED BY <1>1, <1>4, <1>6

LEMMA WriteEnqueued ==
    ASSUME WriteCount \in Nat, IndexingInv, step = "enqueue",
           taskLog' = Append(taskLog, Indexing!Task(nextWrite, "ours")),
           UNCHANGED <<kindOf, primaryKey, adminChanges, content>>,
           \/ /\ mine' = Len(taskLog) + 1 /\ step' = "wait" /\ UNCHANGED <<nextWrite, told>>
           \/ Indexing!Settle("failed")
    PROVE  IndexingInv'
  <1> DEFINE x == Indexing!Task(nextWrite, "ours")
  <1>1. x \in TaskRecords /\ x.status = "enqueued" /\ x.index = "ours" /\ x.write = nextWrite
    BY DEF Indexing!Task, TaskRecords, IndexingInv, IndexingTypes
  <1>2. nextWrite \in 1..WriteCount
    BY DEF IndexingInv, IndexingTypes
  <1>3. \A t \in 1..Len(taskLog) : taskLog[t].write < nextWrite
    BY DEF IndexingInv, QueueInv
  <1>4. ~(adminChanges = 0 /\ primaryKey = "other")
    BY DEF IndexingInv, KeyInv
  <1> HIDE DEF x
  <1>5. taskLog' = Append(taskLog, x)
    BY DEF x
  <1>6. \A w \in 1..WriteCount : told'[w] = "acked" => told[w] = "acked"
    BY DEF Indexing!Settle, IndexingInv, IndexingTypes
  <1>7. /\ taskLog' \in Seq(TaskRecords) /\ Len(taskLog) \in Nat /\ Len(taskLog') = Len(taskLog) + 1
        /\ \A t \in 1..Len(taskLog) : taskLog'[t] = taskLog[t]
        /\ taskLog'[Len(taskLog) + 1] = x
        /\ AckedRan' /\ NotBehind'
    BY <1>1, <1>5, <1>6, AddedTask
  <1>8. IndexingTypes'
    BY <1>2, <1>7 DEF IndexingInv, IndexingTypes, Indexing!Settle
  <1>9. QueueInv'
    <2>1. nextWrite \in Nat /\ nextWrite # 0 /\ \A t \in 1..Len(taskLog) : taskLog[t].write \in Nat
      BY <1>2, TaskTypes
    <2>2. CASE mine' = Len(taskLog) + 1 /\ step' = "wait" /\ UNCHANGED nextWrite
      <3>1. \A t \in 1..Len(taskLog') :
               /\ taskLog'[t].index = "ours" <=> taskLog'[t].write # 0
               /\ \/ taskLog'[t].write < nextWrite'
                  \/ step' = "wait" /\ t = mine' /\ taskLog'[t].write = nextWrite'
        BY <1>1, <1>3, <1>7, <2>1, <2>2 DEF IndexingInv, QueueInv
      <3>2. \A t, u \in 1..Len(taskLog') : t < u =>
               /\ taskLog'[t].index = "ours" /\ taskLog'[u].index = "ours" =>
                     taskLog'[t].write < taskLog'[u].write
               /\ taskLog'[u].status # "enqueued" => taskLog'[t].status # "enqueued"
        BY <1>1, <1>3, <1>7 DEF IndexingInv, QueueInv
      <3> QED BY <1>1, <1>7, <2>2, <3>1, <3>2 DEF QueueInv
    <2>3. CASE nextWrite' = nextWrite + 1 /\ step' = "idle"
      BY <1>1, <1>3, <1>7, <2>1, <2>3 DEF IndexingInv, QueueInv
    <2> QED BY <2>2, <2>3 DEF Indexing!Settle
  <1>10. KeyInv'
    BY <1>4 DEF IndexingInv, KeyInv
  <1> QED BY <1>7, <1>8, <1>9, <1>10 DEF IndexingInv

\* Another model's task concerns none of ours.
LEMMA ForeignEnqueued ==
    ASSUME WriteCount \in Nat, IndexingInv, Indexing!Foreign
    PROVE  IndexingInv'
  <1> DEFINE x == Indexing!Task(0, "theirs")
  <1>1. x \in TaskRecords /\ x.status = "enqueued" /\ x.index = "theirs" /\ x.write = 0
    BY DEF Indexing!Task, TaskRecords
  <1>2. taskLog' = Append(taskLog, x)
    BY DEF Indexing!Foreign
  <1>3. UNCHANGED <<nextWrite, kindOf, step, mine, primaryKey, adminChanges, content, told>>
    BY DEF Indexing!Foreign
  <1> HIDE DEF x
  <1>4. /\ taskLog' \in Seq(TaskRecords) /\ Len(taskLog) \in Nat /\ Len(taskLog') = Len(taskLog) + 1
        /\ \A t \in 1..Len(taskLog) : taskLog'[t] = taskLog[t]
        /\ taskLog'[Len(taskLog) + 1] = x
        /\ AckedRan' /\ NotBehind'
    BY <1>1, <1>2, <1>3, AddedTask
  <1>5. IndexingTypes'
    BY <1>3, <1>4 DEF IndexingInv, IndexingTypes
  <1>6. nextWrite \in Nat \ {0}
    BY DEF IndexingInv, IndexingTypes
  <1>7. QueueInv'
    BY <1>1, <1>3, <1>4, <1>6 DEF IndexingInv, QueueInv
  <1>8. KeyInv'
    BY <1>1, <1>3, <1>4 DEF IndexingInv, KeyInv
  <1> QED BY <1>4, <1>5, <1>7, <1>8 DEF IndexingInv

\* The server runs the oldest task: all before it have ended, none behind it has, and if
\* it succeeds the document is the one of this task.
LEMMA TaskRun ==
    ASSUME WriteCount \in Nat, IndexingInv, NEW t \in 1..Len(taskLog), Indexing!Process(t)
    PROVE  IndexingInv'
  <1>1. UNCHANGED <<nextWrite, kindOf, step, mine, adminChanges, told>>
    BY DEF Indexing!Process
  <1>2. PICK s \in {"failed", "succeeded"} :
            /\ taskLog' = [taskLog EXCEPT ![t].status = s]
            /\ s = "succeeded" => \/ taskLog[t].write = 0
                                  \/ taskLog[t].index = "ours" /\ primaryKey # "other"
    BY DEF Indexing!Process
  <1>3. /\ taskLog' \in Seq(TaskRecords) /\ Len(taskLog') = Len(taskLog) /\ Len(taskLog) \in Nat
        /\ \A u \in 1..Len(taskLog) : /\ taskLog'[u].write = taskLog[u].write
                                      /\ taskLog'[u].index = taskLog[u].index
                                      /\ taskLog'[u].status = IF u = t THEN s ELSE taskLog[u].status
    <2>1. taskLog \in Seq(TaskRecords)
      BY DEF IndexingInv, IndexingTypes
    <2>2. taskLog[t] \in TaskRecords /\ [taskLog[t] EXCEPT !.status = s] \in TaskRecords
      BY TaskTypes DEF TaskRecords
    <2>3. taskLog' = [taskLog EXCEPT ![t] = [taskLog[t] EXCEPT !.status = s]]
      BY <1>2
    <2> QED BY <2>1, <2>2, <2>3 DEF TaskRecords
  <1>4. /\ taskLog[t].status = "enqueued"
        /\ \A u \in 1..Len(taskLog) : taskLog[u].status = "enqueued" => t <= u
    BY DEF Indexing!Process, Indexing!First, IndexingInv, IndexingTypes
  <1>5. CASE s = "succeeded" /\ taskLog[t].index = "ours"
    <2>1. taskLog[t].write # 0
      BY <1>5 DEF IndexingInv, QueueInv
    <2>2. primaryKey # "other" /\ primaryKey' = "active_ts_id"
          /\ content' = IF kindOf[taskLog[t].write] = "index" THEN taskLog[t].write ELSE 0
      BY <1>2, <1>3, <1>5, <2>1 DEF Indexing!Process
    <2>3. taskLog[t].write \in 1..WriteCount
      BY <2>1, TaskTypes
    <2>4. IndexingTypes'
      BY <1>1, <1>3, <2>2, <2>3 DEF IndexingInv, IndexingTypes
    <2>5. QueueInv'
      BY <1>1, <1>3, <1>4 DEF IndexingInv, QueueInv
    <2>6. \A u \in 1..Len(taskLog) : Ran(u)' <=> u = t \/ Ran(u)
      BY <1>3, <1>5 DEF Ran
    <2>7. AckedRan'
      BY <1>1, <1>3, <2>6 DEF IndexingInv, AckedRan
    <2>8. \A u \in 1..Len(taskLog) : Ran(u) => u < t
      BY <1>4 DEF IndexingInv, QueueInv, Ran
    <2>9. ASSUME NEW u \in 1..Len(taskLog), Ran(u)'
          PROVE  (taskLog[u].write <= content \/ DeletedSince(u))'
      <3>1. u <= t /\ (u < t => taskLog[u].write < taskLog[t].write)
        BY <1>5, <2>6, <2>8, <2>9 DEF Ran, IndexingInv, QueueInv
      <3>2. taskLog[u].write \in Nat /\ taskLog[t].write \in Nat
        BY TaskTypes
      <3>3. CASE kindOf[taskLog[t].write] = "index"
        <4>1. taskLog[u].write <= taskLog[t].write
          BY <3>1, <3>2
        <4> QED BY <1>3, <2>2, <3>3, <4>1
      <3>4. CASE kindOf[taskLog[t].write] # "index"
        <4>1. kindOf[taskLog[t].write] = "delete"
          BY <2>3, <3>4 DEF IndexingInv, IndexingTypes
        <4>2. t \in u..Len(taskLog') /\ Ran(t)'
          BY <1>3, <2>6, <3>1
        <4> QED BY <1>1, <1>3, <2>2, <4>1, <4>2 DEF DeletedSince
      <3> QED BY <3>3, <3>4
    <2>10. NotBehind'
      BY <1>3, <2>9 DEF NotBehind
    <2>11. KeyInv'
      BY <2>2 DEF KeyInv
    <2> QED BY <2>4, <2>5, <2>7, <2>10, <2>11 DEF IndexingInv
  <1>6. CASE ~(s = "succeeded" /\ taskLog[t].index = "ours")
    <2>1. UNCHANGED <<primaryKey, content>>
      BY <1>3, <1>6 DEF Indexing!Process
    <2>2. IndexingTypes'
      BY <1>1, <1>3, <2>1 DEF IndexingInv, IndexingTypes
    <2>3. QueueInv'
      BY <1>1, <1>3, <1>4 DEF IndexingInv, QueueInv
    <2>4. \A u \in 1..Len(taskLog) : Ran(u)' <=> Ran(u)
      BY <1>3, <1>4, <1>6 DEF Ran
    <2>5. AckedRan'
      BY <1>1, <1>3, <2>4 DEF IndexingInv, AckedRan
    <2>6. \A u \in 1..Len(taskLog) : DeletedSince(u) => DeletedSince(u)'
      BY <1>1, <1>3, <2>1, <2>4 DEF DeletedSince
    <2>7. NotBehind'
      BY <1>1, <1>3, <2>1, <2>4, <2>6 DEF IndexingInv, NotBehind
    <2>8. KeyInv'
      BY <1>1, <1>3, <2>1 DEF IndexingInv, KeyInv
    <2> QED BY <2>2, <2>3, <2>5, <2>7, <2>8 DEF IndexingInv
  <1> QED BY <1>5, <1>6

LEMMA IndexingStep ==
    ASSUME WriteCount \in Nat, IndexingInv, [Indexing!Next]_Indexing!vars
    PROVE  IndexingInv'
  <1>1. ASSUME \/ UNCHANGED Indexing!vars \/ Indexing!Start
               \/ Indexing!AssertPrimaryKey /\ Indexing!KeyIsOurs
        PROVE  IndexingInv'
    <2>1. /\ UNCHANGED <<nextWrite, kindOf, mine, taskLog, primaryKey, adminChanges, content, told>>
          /\ \/ UNCHANGED step
             \/ step = "idle" /\ step' = "check" /\ nextWrite <= WriteCount
             \/ step = "check" /\ step' = "enqueue" /\ primaryKey = "active_ts_id"
      BY <1>1 DEF Indexing!vars, Indexing!Start, Indexing!AssertPrimaryKey, Indexing!KeyIsOurs
    <2>2. IndexingTypes'
      BY <2>1 DEF IndexingInv, IndexingTypes
    <2>3. QueueInv' /\ AckedRan' /\ NotBehind' /\ KeyInv'
      BY <2>1 DEF IndexingInv, QueueInv, AckedRan, NotBehind, DeletedSince, KeyInv, Ran
    <2> QED BY <2>2, <2>3 DEF IndexingInv
  <1>2. ASSUME Indexing!AssertPrimaryKey, ~Indexing!KeyIsOurs
        PROVE  IndexingInv'
    <2>1. /\ step # "idle" /\ Indexing!Settle("refused")
          /\ UNCHANGED <<kindOf, taskLog, primaryKey, adminChanges, content>>
      BY <1>2 DEF Indexing!AssertPrimaryKey
    <2> QED BY <2>1, SettledWrite
  <1>3. ASSUME Indexing!Enqueue
        PROVE  IndexingInv'
    BY <1>3, WriteEnqueued DEF Indexing!Enqueue
  <1>4. ASSUME Indexing!EnqueueFails
        PROVE  IndexingInv'
    <2>1. CASE UNCHANGED taskLog
      <3>1. step # "idle" /\ Indexing!Settle("failed") /\ UNCHANGED <<kindOf, primaryKey, adminChanges, content>>
        BY <1>4 DEF Indexing!EnqueueFails
      <3> QED BY <2>1, <3>1, SettledWrite
    <2>2. CASE taskLog' = Append(taskLog, Indexing!Task(nextWrite, "ours"))
      BY <1>4, <2>2, WriteEnqueued DEF Indexing!EnqueueFails
    <2> QED BY <1>4, <2>1, <2>2 DEF Indexing!EnqueueFails
  <1>5. ASSUME Indexing!WaitTimesOut
        PROVE  IndexingInv'
    <2>1. /\ step # "idle" /\ Indexing!Settle("failed")
          /\ UNCHANGED <<kindOf, taskLog, primaryKey, adminChanges, content>>
      BY <1>5 DEF Indexing!WaitTimesOut
    <2> QED BY <2>1, SettledWrite
  <1>6. ASSUME NEW t \in 1..Len(taskLog), Indexing!Completed(t)
        PROVE  IndexingInv'
    <2>1. step = "wait" /\ UNCHANGED <<kindOf, taskLog, primaryKey, adminChanges, content>>
      BY <1>6 DEF Indexing!Completed
    <2>2. CASE Indexing!Finished(t)
      <3>1. Indexing!Settle("acked") /\ Ran(mine)
        BY <1>6, <2>2 DEF Indexing!Completed, Indexing!Finished, Ran
      <3> QED BY <2>1, <3>1, SettledWrite
    <2>3. CASE ~Indexing!Finished(t)
      <3>1. Indexing!Settle("failed")
        BY <1>6, <2>3 DEF Indexing!Completed
      <3> QED BY <2>1, <3>1, SettledWrite
    <2> QED BY <2>2, <2>3
  <1>7. ASSUME NEW t \in 1..Len(taskLog), Indexing!Process(t)
        PROVE  IndexingInv'
    BY <1>7, TaskRun
  <1>8. ASSUME Indexing!Foreign
        PROVE  IndexingInv'
    BY <1>8, ForeignEnqueued
  <1>9. ASSUME Indexing!Administer
        PROVE  IndexingInv'
    <2>1. /\ UNCHANGED <<nextWrite, kindOf, step, mine, taskLog, told>>
          /\ adminChanges' = adminChanges + 1 /\ content' = 0
          /\ primaryKey' \in {"active_ts_id", "other", "missing"}
      BY <1>9 DEF Indexing!Administer
    <2>2. IndexingTypes' /\ adminChanges' # 0
      BY <2>1 DEF IndexingInv, IndexingTypes
    <2>3. QueueInv' /\ AckedRan' /\ NotBehind' /\ KeyInv'
      BY <2>1, <2>2 DEF IndexingInv, QueueInv, AckedRan, NotBehind, KeyInv, Ran
    <2> QED BY <2>2, <2>3 DEF IndexingInv
  <1>10. DOMAIN taskLog = 1..Len(taskLog)
    BY DEF IndexingInv, IndexingTypes
  <1> QED BY <1>1, <1>2, <1>3, <1>4, <1>5, <1>6, <1>7, <1>8, <1>9, <1>10 DEF Indexing!Next

LEMMA IndexingSafe == WriteCount \in Nat => (Indexing!Spec => []IndexingInv)
  <1> SUFFICES ASSUME WriteCount \in Nat
               PROVE  Indexing!Spec => []IndexingInv
    OBVIOUS
  <1>1. Indexing!Init => IndexingInv
    BY IndexingInit
  <1>2. IndexingInv /\ [Indexing!Next]_Indexing!vars => IndexingInv'
    BY IndexingStep
  <1> QED BY <1>1, <1>2, PTL DEF Indexing!Spec

\* While nobody changes the index, its content is never older than the last write the
\* worker was told of: neither a task that was merely enqueued or belongs to somebody else
\* nor one that the worker gave up on breaks that.
THEOREM NotBehindAcked == WriteCount \in Nat => (Indexing!Spec => []Indexing!NeverBehindAcked)
  <1> SUFFICES ASSUME WriteCount \in Nat
               PROVE  Indexing!Spec => []Indexing!NeverBehindAcked
    OBVIOUS
  <1>1. IndexingInv => Indexing!NeverBehindAcked
    <2> SUFFICES ASSUME IndexingInv, adminChanges = 0, NEW w \in 1..WriteCount, told[w] = "acked"
                 PROVE  \/ content >= w
                        \/ content = 0 /\ \E v \in w..WriteCount : kindOf[v] = "delete"
                              /\ \E t \in DOMAIN taskLog : taskLog[t].write = v
                                                           /\ taskLog[t].status = "succeeded"
      BY DEF Indexing!NeverBehindAcked
    <2>1. PICK t \in 1..Len(taskLog) : Ran(t) /\ taskLog[t].write = w
      BY DEF IndexingInv, AckedRan
    <2>2. CASE taskLog[t].write <= content
      BY <2>1, <2>2 DEF IndexingInv, IndexingTypes
    <2>3. CASE DeletedSince(t)
      <3>1. PICK u \in t..Len(taskLog) : Ran(u) /\ kindOf[taskLog[u].write] = "delete"
        BY <2>3 DEF DeletedSince
      <3>2. u \in 1..Len(taskLog) /\ u \in DOMAIN taskLog /\ t <= u
        BY <2>1, <3>1 DEF IndexingInv, IndexingTypes
      <3>3. taskLog[u].write \in w..WriteCount
        <4>1. taskLog[u].write \in 0..WriteCount
          BY <3>2, TaskTypes
        <4>2. t < u => w < taskLog[u].write
          BY <2>1, <3>1, <3>2 DEF IndexingInv, QueueInv, Ran
        <4> QED BY <2>1, <3>2, <4>1, <4>2
      <3> QED BY <2>3, <3>1, <3>2, <3>3 DEF DeletedSince, Ran
    <2> QED BY <2>1, <2>2, <2>3 DEF IndexingInv, NotBehind
  <1> QED BY <1>1, IndexingSafe, PTL

\* While nobody changes the index, no write is enqueued for one that has another primary
\* key: the key is looked at before each write.
THEOREM WrittenUnderOurKey == WriteCount \in Nat => (Indexing!Spec => []Indexing!OnlyUnderOurKey)
  <1> SUFFICES ASSUME WriteCount \in Nat
               PROVE  Indexing!Spec => []Indexing!OnlyUnderOurKey
    OBVIOUS
  <1>1. IndexingInv => Indexing!OnlyUnderOurKey
    BY DEF IndexingInv, IndexingTypes, KeyInv, Indexing!OnlyUnderOurKey
  <1> QED BY <1>1, IndexingSafe, PTL
=============================================================================
