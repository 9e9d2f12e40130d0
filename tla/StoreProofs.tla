-------------------------------- MODULE StoreProofs --------------------------------
EXTENDS PostgresTransaction, SequenceTheorems, TLAPS

\* Statement scopes of the client, levels and sessions of the server.
Scopes == [name : Nat, failed : BOOLEAN, wrote : SUBSET Writes]
Levels == [name : Nat, staged : SUBSET Writes]
Sessions == [tx : BOOLEAN, aborted : BOOLEAN, stack : Seq(Levels)]

\* No scope up to the i-th has failed.
Healthy(list, i) == \A j \in 1..i : ~list[j].failed

\* The levels of the server's session that answer to the first n scopes: up to the
\* first scope that failed they are the same, one by one.
Stands(list, stack, n) ==
    \A i \in 1..n : Healthy(list, i - 1) => i <= Len(stack) /\ stack[i].name = list[i].name
\* What the first n scopes wrote is what is staged in their levels.
Agrees(list, stack, n) ==
    \A i \in 1..n : Healthy(list, i) => stack[i].staged = list[i].wrote

\* Names of savepoints (savepointSequence) grow from the root inwards and are not used
\* again.
Ascending(list) == \A i, j \in 1..Len(list) : i < j => list[i].name < list[j].name
UpTo(list, n) == \A i \in 1..Len(list) : list[i].name <= n
Named(stack, name) == \E i \in 1..Len(stack) : stack[i].name = name

\* The first n scopes stand, the last of them perhaps with more than it wrote.
Below(list, stack, n) == Stands(list, stack, n) /\ Agrees(list, stack, n - 1)

\* How the server's levels answer to the client's scopes, by what the innermost
\* savepoint does: while statements run they agree; while it is being recovered the
\* innermost level may be gone or hold more; once rolled back it is empty.
LevelsInv(list, stack, doing) ==
    /\ doing \in {"open", "releasing"} =>
          /\ Stands(list, stack, Len(list)) /\ Agrees(list, stack, Len(list))
          /\ Healthy(list, Len(list)) => Len(stack) = Len(list)
    /\ doing = "recovering" =>
          IF Named(stack, list[Len(list)].name) THEN Below(list, stack, Len(list))
          ELSE Below(list, stack, Len(list) - 1)
    /\ doing = "dropping" =>
          /\ Below(list, stack, Len(list))
          /\ Healthy(list, Len(list) - 1) => Len(stack) = Len(list) /\ stack[Len(list)].staged = {}

Phases == {"connect", "callback", "commit", "rollback", "release", "done"}
Outcomes == {"none", "ok", "committedError", "error", "unknownCommit", "unknownAbort"}
Steps == {"open", "releasing", "recovering", "dropping"}

\* Types.
TypeOK ==
    /\ phase \in Phases /\ step \in Steps
    /\ scopes \in Seq(Scopes) /\ Len(scopes) >= 1 /\ sequence \in Nat
    /\ session \in Sessions
    /\ link \in BOOLEAN /\ used \in SUBSET Writes /\ db \in SUBSET Writes
    /\ commitDispatched \in BOOLEAN /\ rollbackConfirmed \in BOOLEAN /\ discardClient \in BOOLEAN
    /\ outcome \in Outcomes /\ pooled \in {"no", "clean", "discarded"}

\* The client's scopes: the root first, names ascending; a savepoint is released only
\* if nothing in it failed; outside the callback the root is alone, and a commit is
\* tried only if it did not fail.
ScopeInv ==
    /\ scopes[1].name = 0 /\ Ascending(scopes) /\ UpTo(scopes, sequence)
    /\ step # "open" => Len(scopes) > 1
    /\ step = "releasing" => ~scopes[Len(scopes)].failed
    /\ phase # "callback" => step = "open" /\ Len(scopes) = 1
    /\ phase = "connect" => scopes = <<Scope(0)>> /\ session = Idle /\ sequence = 0
    /\ phase = "commit" => ~scopes[1].failed

\* While the server has a transaction, its levels answer to the scopes.
StackInv ==
    session.tx => /\ Ascending(session.stack) /\ UpTo(session.stack, sequence)
                  /\ LevelsInv(scopes, session.stack, step)

\* The end of the transaction: nothing is committed before COMMIT is sent nor if a
\* rollback was confirmed; a client that is not discarded holds no transaction;
\* success is told of what the root scope wrote.
EndInv ==
    /\ phase \in {"connect", "callback"} => ~commitDispatched
    /\ phase \notin {"release", "done"} => outcome = "none" /\ pooled = "no" /\ ~discardClient
    /\ ~commitDispatched => db = {}
    /\ phase \in {"connect", "callback", "commit"} => ~rollbackConfirmed
    /\ rollbackConfirmed => db = {}
    /\ phase \in {"release", "done"} /\ ~discardClient => ~session.tx
    /\ phase # "done" => pooled = "no"
    /\ pooled = "clean" => ~discardClient
    /\ outcome \in {"ok", "committedError"} => db = scopes[1].wrote
    /\ outcome = "error" => db = {}
    /\ phase = "commit" => ~commitDispatched

TransactionInv == TypeOK /\ ScopeInv /\ StackInv /\ EndInv

-----------------------------------------------------------------------------
\* A prefix of a list.
LEMMA Prefix ==
    ASSUME NEW S, NEW s \in Seq(S), NEW n \in 0..Len(s)
    PROVE  /\ SubSeq(s, 1, n) \in Seq(S) /\ Len(SubSeq(s, 1, n)) = n
           /\ \A i \in 1..n : SubSeq(s, 1, n)[i] = s[i]
  <1> DEFINE p == SubSeq(s, 1, n)
  <1>1. 1 \in Int /\ n \in Int /\ n \in Nat /\ \A i \in 1..n : s[i] \in S
    OBVIOUS
  <1>2. p \in Seq(S)
    BY <1>1, SubSeqProperties
  <1>3. Len(p) = IF 1 <= n THEN n - 1 + 1 ELSE 0
    BY <1>1, SubSeqProperties
  <1>4. \A i \in 1..(n - 1 + 1) : p[i] = s[1 + i - 1]
    BY <1>1, SubSeqProperties
  <1> HIDE DEF p
  <1>5. Len(p) = n
    <2> DEFINE m == Len(p)
    <2>1. m = IF 1 <= n THEN n - 1 + 1 ELSE 0
      BY <1>3
    <2> HIDE DEF m
    <2>2. m = n
      BY <2>1, <1>1
    <2> QED BY <2>2 DEF m
  <1>6. \A i \in 1..n : p[i] = s[i]
    <2> SUFFICES ASSUME NEW i \in 1..n PROVE p[i] = s[i]
      OBVIOUS
    <2>1. i \in 1..(n - 1 + 1) /\ 1 + i - 1 = i
      BY <1>1
    <2> QED BY <2>1, <1>4
  <1> QED BY <1>2, <1>5, <1>6 DEF p

\* A list with one element more.
LEMMA AppendOne ==
    ASSUME NEW S, NEW s \in Seq(S), NEW x \in S
    PROVE  /\ Append(s, x) \in Seq(S) /\ Len(Append(s, x)) = Len(s) + 1
           /\ Append(s, x)[Len(s) + 1] = x /\ \A i \in 1..Len(s) : Append(s, x)[i] = s[i]
  OBVIOUS

\* A list without its last element.
LEMMA FrontFacts ==
    ASSUME NEW S, NEW s \in Seq(S), Len(s) > 1
    PROVE  /\ Front(s) \in Seq(S) /\ Len(Front(s)) = Len(s) - 1
           /\ \A i \in 1..(Len(s) - 1) : Front(s)[i] = s[i]
  <1>1. Len(s) - 1 \in 0..Len(s)
    OBVIOUS
  <1> QED BY <1>1, Prefix DEF Front

(* Where a savepoint stands among ascending levels.                          *)
LEMMA AtFacts ==
    ASSUME NEW stack \in Seq(Levels), Ascending(stack), NEW name \in Nat, Named(stack, name)
    PROVE  \E at \in 1..Len(stack) :
              /\ (CHOOSE i \in DOMAIN stack : stack[i].name = name) = at
              /\ stack[at].name = name
              /\ \A i \in 1..Len(stack) : stack[i].name < name <=> i < at
              /\ \A i \in 1..Len(stack) : stack[i].name = name <=> i = at
  <1>1. PICK at \in 1..Len(stack) : stack[at].name = name
    BY DEF Named
  <1>2. DOMAIN stack = 1..Len(stack)
    OBVIOUS
  <1>3. \A i \in 1..Len(stack) : stack[i].name \in Nat
    <2>1. \A i \in 1..Len(stack) : stack[i] \in Levels
      OBVIOUS
    <2> QED BY <2>1 DEF Levels
  <1>4. \A i \in 1..Len(stack) : stack[i].name < name <=> i < at
    <2> SUFFICES ASSUME NEW i \in 1..Len(stack) PROVE stack[i].name < name <=> i < at
      OBVIOUS
    <2>1. i < at => stack[i].name < stack[at].name
      BY DEF Ascending
    <2>2. at < i => stack[at].name < stack[i].name
      BY DEF Ascending
    <2> QED BY <2>1, <2>2, <1>1, <1>3
  <1>5. \A i \in 1..Len(stack) : stack[i].name = name => i = at
    <2> SUFFICES ASSUME NEW i \in 1..Len(stack), stack[i].name = name PROVE i = at
      OBVIOUS
    <2>1. i < at => stack[i].name < stack[at].name
      BY DEF Ascending
    <2>2. at < i => stack[at].name < stack[i].name
      BY DEF Ascending
    <2> QED BY <2>1, <2>2, <1>1, <1>3
  <1>6. (CHOOSE i \in DOMAIN stack : stack[i].name = name) = at
    BY <1>1, <1>2, <1>5
  <1> QED BY <1>1, <1>4, <1>5, <1>6

\* rollback to savepoint: the levels up to the one with that name stay, that one is
\* empty, those inside it are gone.
LEMMA RolledFacts ==
    ASSUME session \in Sessions, Ascending(session.stack), NEW name \in Nat, Named(session.stack, name)
    PROVE  \E at \in 1..Len(session.stack) :
              /\ RolledTo(name) \in Sessions /\ RolledTo(name).tx = session.tx
              /\ Len(RolledTo(name).stack) = at
              /\ RolledTo(name).stack[at] = Level(name)
              /\ \A i \in 1..(at - 1) : RolledTo(name).stack[i] = session.stack[i]
              /\ session.stack[at].name = name
              /\ \A i \in 1..Len(session.stack) : session.stack[i].name < name <=> i < at
              /\ \A i \in 1..Len(session.stack) : session.stack[i].name = name <=> i = at
  <1>1. session.stack \in Seq(Levels) /\ session.tx \in BOOLEAN
    BY DEF Sessions
  <1>2. PICK at \in 1..Len(session.stack) :
            /\ (CHOOSE i \in DOMAIN session.stack : session.stack[i].name = name) = at
            /\ session.stack[at].name = name
            /\ \A i \in 1..Len(session.stack) : session.stack[i].name < name <=> i < at
            /\ \A i \in 1..Len(session.stack) : session.stack[i].name = name <=> i = at
    BY <1>1, AtFacts
  <1> DEFINE p == SubSeq(session.stack, 1, at - 1)
             q == Append(p, Level(name))
  <1>3. at - 1 \in 0..Len(session.stack) /\ Level(name) \in Levels
    BY <1>1 DEF Level, Levels
  <1>4. p \in Seq(Levels) /\ Len(p) = at - 1 /\ \A i \in 1..(at - 1) : p[i] = session.stack[i]
    BY <1>1, <1>3, Prefix
  <1>5. RolledTo(name) = [session EXCEPT !.aborted = FALSE, !.stack = q]
    BY <1>2 DEF RolledTo
  <1> HIDE DEF p
  <1>6. /\ q \in Seq(Levels) /\ Len(q) = Len(p) + 1 /\ q[Len(p) + 1] = Level(name)
        /\ \A i \in 1..Len(p) : q[i] = p[i]
    BY <1>3, <1>4, AppendOne
  <1> HIDE DEF q
  <1>7. RolledTo(name) \in Sessions /\ RolledTo(name).tx = session.tx /\ RolledTo(name).stack = q
    BY <1>5, <1>6 DEF Sessions
  <1>8. at - 1 + 1 = at
    OBVIOUS
  <1> QED BY <1>2, <1>4, <1>6, <1>7, <1>8

\* release savepoint: the level with that name and those inside it are gone, what they
\* staged belongs to the level around.
LEMMA ReleasedFacts ==
    ASSUME session \in Sessions, Ascending(session.stack), NEW name \in Nat, Named(session.stack, name),
           session.stack[1].name < name
    PROVE  \E at \in 2..Len(session.stack) :
              /\ Released(name) \in Sessions /\ Released(name).tx = session.tx
              /\ Len(Released(name).stack) = at - 1
              /\ Released(name).stack[at - 1].name = session.stack[at - 1].name
              /\ Released(name).stack[at - 1].staged =
                    session.stack[at - 1].staged
                        \cup UNION {session.stack[i].staged : i \in at..Len(session.stack)}
              /\ \A i \in 1..(at - 2) : Released(name).stack[i] = session.stack[i]
              /\ session.stack[at].name = name
              /\ \A i \in 1..Len(session.stack) : session.stack[i].name < name <=> i < at
              /\ \A i \in 1..Len(session.stack) : session.stack[i].name = name <=> i = at
  <1>1. session.stack \in Seq(Levels) /\ session.tx \in BOOLEAN
    BY DEF Sessions
  <1>2. PICK at \in 1..Len(session.stack) :
            /\ (CHOOSE i \in DOMAIN session.stack : session.stack[i].name = name) = at
            /\ session.stack[at].name = name
            /\ \A i \in 1..Len(session.stack) : session.stack[i].name < name <=> i < at
            /\ \A i \in 1..Len(session.stack) : session.stack[i].name = name <=> i = at
    BY <1>1, AtFacts
  <1>a. at \in 2..Len(session.stack)
    <2>1. 1 \in 1..Len(session.stack) /\ Len(session.stack) \in Nat
      BY <1>1, <1>2
    <2>2. 1 < at
      BY <2>1, <1>2
    <2> QED BY <2>1, <2>2
  <1> DEFINE p == SubSeq(session.stack, 1, at - 2)
             x == With(session.stack[at - 1], UNION {session.stack[i].staged : i \in at..Len(session.stack)})
             q == Append(p, x)
  <1>3. at - 2 \in 0..Len(session.stack) /\ at - 1 \in 1..Len(session.stack)
    BY <1>1, <1>a
  <1>b. /\ x \in Levels /\ x.name = session.stack[at - 1].name
        /\ x.staged = session.stack[at - 1].staged
                        \cup UNION {session.stack[i].staged : i \in at..Len(session.stack)}
    <2>1. session.stack[at - 1] \in Levels /\ \A i \in at..Len(session.stack) : session.stack[i] \in Levels
      BY <1>1, <1>a, <1>3
    <2> QED BY <2>1 DEF Levels, With
  <1>4. p \in Seq(Levels) /\ Len(p) = at - 2 /\ \A i \in 1..(at - 2) : p[i] = session.stack[i]
    BY <1>1, <1>3, Prefix
  <1>5. Released(name) = [session EXCEPT !.stack = q]
    <2> DEFINE a == CHOOSE i \in DOMAIN session.stack : session.stack[i].name = name
    <2>1. Released(name) =
            [session EXCEPT !.stack =
                Append(SubSeq(session.stack, 1, a - 2),
                       With(session.stack[a - 1], UNION {session.stack[i].staged : i \in a..Len(session.stack)}))]
      BY DEF Released
    <2>2. a = at
      BY <1>2
    <2> HIDE DEF a
    <2> QED BY <2>1, <2>2
  <1> HIDE DEF p, x
  <1>6. /\ q \in Seq(Levels) /\ Len(q) = Len(p) + 1 /\ q[Len(p) + 1] = x
        /\ \A i \in 1..Len(p) : q[i] = p[i]
    BY <1>b, <1>4, AppendOne
  <1> HIDE DEF q
  <1>7. Released(name) \in Sessions /\ Released(name).tx = session.tx /\ Released(name).stack = q
    BY <1>5, <1>6 DEF Sessions
  <1>8. at - 2 + 1 = at - 1
    BY <1>a
  <1> USE <1>a
  <1>9. Len(q) = at - 1 /\ q[at - 1] = x /\ \A i \in 1..(at - 2) : q[i] = session.stack[i]
    BY <1>4, <1>6, <1>8
  <1> WITNESS at \in 2..Len(session.stack)
  <1> QED BY <1>2, <1>b, <1>7, <1>9

-----------------------------------------------------------------------------
(* Scopes and levels.                                                        *)
LEMMA MarkedFacts ==
    ASSUME NEW list \in Seq(Scopes), Len(list) >= 1
    PROVE  /\ MarkFailed(list) \in Seq(Scopes) /\ Len(MarkFailed(list)) = Len(list)
           /\ MarkFailed(list)[Len(list)].failed
           /\ \A i \in 1..Len(list) : MarkFailed(list)[i].name = list[i].name
                                      /\ MarkFailed(list)[i].wrote = list[i].wrote
           /\ \A i \in 1..(Len(list) - 1) : MarkFailed(list)[i] = list[i]
  <1> DEFINE n == Len(list)
             x == [list[n] EXCEPT !.failed = TRUE]
  <1>1. n \in 1..Len(list) /\ list[n] \in Scopes /\ n \in Nat
    OBVIOUS
  <1>2. x \in Scopes /\ x.failed /\ x.name = list[n].name /\ x.wrote = list[n].wrote
    BY <1>1 DEF Scopes
  <1>3. MarkFailed(list) = [list EXCEPT ![n] = x]
    BY DEF MarkFailed
  <1> HIDE DEF x
  <1>4. /\ [list EXCEPT ![n] = x] \in Seq(Scopes) /\ Len([list EXCEPT ![n] = x]) = Len(list)
        /\ [list EXCEPT ![n] = x][n] = x
        /\ \A i \in 1..Len(list) : i # n => [list EXCEPT ![n] = x][i] = list[i]
    BY <1>1, <1>2
  <1> QED BY <1>1, <1>2, <1>3, <1>4

\* What stands for some scopes stands for the outer ones among them.
LEMMA BelowCut ==
    ASSUME NEW list, NEW front, NEW stack, NEW n \in Nat, NEW k \in Nat, k <= n, Below(list, stack, n),
           \A i \in 1..k : front[i].name = list[i].name /\ front[i].wrote = list[i].wrote,
           \A i \in 1..(k - 1) : front[i].failed <=> list[i].failed
    PROVE  Below(front, stack, k)
  <1>1. \A i \in 0..(k - 1) : Healthy(front, i) <=> Healthy(list, i)
    BY DEF Healthy
  <1>2. Stands(front, stack, k)
    <2> SUFFICES ASSUME NEW i \in 1..k, Healthy(front, i - 1)
                 PROVE  i <= Len(stack) /\ stack[i].name = front[i].name
      BY DEF Stands
    <2>1. Healthy(list, i - 1) /\ i \in 1..n
      BY <1>1
    <2> QED BY <2>1 DEF Below, Stands
  <1>3. Agrees(front, stack, k - 1)
    <2> SUFFICES ASSUME NEW i \in 1..(k - 1), Healthy(front, i)
                 PROVE  stack[i].staged = front[i].wrote
      BY DEF Agrees
    <2>1. Healthy(list, i) /\ i \in 1..(n - 1) /\ i \in 1..k
      BY <1>1
    <2> QED BY <2>1 DEF Below, Agrees
  <1> QED BY <1>2, <1>3 DEF Below

(* A scope that is marked as failed may have more staged than it wrote.      *)
LEMMA Taint ==
    ASSUME NEW list \in Seq(Scopes), Len(list) >= 1, NEW stack, Below(list, stack, Len(list))
    PROVE  LevelsInv(MarkFailed(list), stack, "open")
  <1> DEFINE m == MarkFailed(list)
             n == Len(list)
  <1>1. /\ Len(m) = n /\ m[n].failed /\ n \in Nat /\ n >= 1
        /\ \A i \in 1..n : m[i].name = list[i].name /\ m[i].wrote = list[i].wrote
        /\ \A i \in 1..(n - 1) : m[i] = list[i]
    BY MarkedFacts
  <1> HIDE DEF m
  <1>2. \A i \in 1..(n - 1) : m[i].failed <=> list[i].failed
    BY <1>1
  <1>3. Below(m, stack, n)
    BY <1>1, <1>2, BelowCut
  <1>4. ~Healthy(m, n)
    BY <1>1 DEF Healthy
  <1>5. Agrees(m, stack, n)
    <2> SUFFICES ASSUME NEW i \in 1..n, Healthy(m, i)
                 PROVE  stack[i].staged = m[i].wrote
      BY DEF Agrees
    <2>1. i # n
      BY <1>4
    <2> QED BY <2>1, <1>1, <1>3 DEF Below, Agrees
  <1> QED BY <1>1, <1>3, <1>4, <1>5 DEF LevelsInv, Below, m

\* Scopes stand on other levels as well if names and contents agree as far as they
\* matter.
LEMMA BelowSame ==
    ASSUME NEW list, NEW stack, NEW other, NEW n \in Nat, Below(list, stack, n),
           \A i \in 1..n : Healthy(list, i - 1) => i <= Len(other) /\ other[i].name = stack[i].name,
           \A i \in 1..(n - 1) : Healthy(list, i) => other[i].staged = stack[i].staged
    PROVE  Below(list, other, n)
  BY DEF Below, Stands, Agrees

\* After rollback to the innermost savepoint the scopes around it stand as before and
\* its own level, if it is there, is empty.
LEMMA RolledBelow ==
    ASSUME NEW list \in Seq(Scopes), Len(list) > 1, Ascending(list), NEW stack \in Seq(Levels),
           Below(list, stack, Len(list)), NEW at \in 1..Len(stack),
           \A i \in 1..Len(stack) : stack[i].name < list[Len(list)].name <=> i < at,
           \A i \in 1..Len(stack) : stack[i].name = list[Len(list)].name <=> i = at,
           NEW rolled, Len(rolled) = at, rolled[at] = Level(list[Len(list)].name),
           \A i \in 1..(at - 1) : rolled[i] = stack[i]
    PROVE  /\ Below(list, rolled, Len(list))
           /\ Healthy(list, Len(list) - 1) =>
                 Len(rolled) = Len(list) /\ rolled[Len(list)].staged = {}
  <1> DEFINE n == Len(list)
  <1>1. n \in Nat /\ \A i \in 1..(n - 1) : list[i].name < list[n].name
    BY DEF Ascending
  <1>2. ASSUME NEW i \in 1..(n - 1), Healthy(list, i - 1)
        PROVE  i < at /\ rolled[i] = stack[i] /\ i <= Len(rolled)
    <2>1. i \in 1..n
      BY <1>1
    <2>2. i \in 1..Len(stack) /\ stack[i].name = list[i].name
      BY <1>2, <2>1 DEF Below, Stands
    <2>3. stack[i].name < list[n].name
      BY <2>2, <1>1
    <2>4. i < at
      BY <2>2, <2>3
    <2> QED BY <2>4
  <1>3. ASSUME Healthy(list, n - 1)
        PROVE  n = at
    <2>1. n \in 1..Len(stack) /\ stack[n].name = list[n].name
      BY <1>1, <1>3 DEF Below, Stands
    <2> QED BY <2>1
  <1>4. Level(list[n].name).name = list[n].name /\ Level(list[n].name).staged = {}
    BY DEF Level
  <1>5. ASSUME NEW i \in 1..n, Healthy(list, i - 1)
        PROVE  i <= Len(rolled) /\ rolled[i].name = stack[i].name
    <2>1. CASE i = n
      <3>1. stack[n].name = list[n].name
        BY <2>1, <1>1, <1>5 DEF Below, Stands
      <3> QED BY <3>1, <2>1, <1>3, <1>4, <1>5
    <2>2. CASE i \in 1..(n - 1)
      BY <2>2, <1>2, <1>5
    <2> QED BY <2>1, <2>2, <1>1
  <1>6. ASSUME NEW i \in 1..(n - 1), Healthy(list, i)
        PROVE  rolled[i].staged = stack[i].staged
    <2>1. Healthy(list, i - 1)
      BY <1>6 DEF Healthy
    <2> QED BY <2>1, <1>2
  <1>7. Below(list, rolled, n)
    BY <1>1, <1>5, <1>6, BelowSame
  <1> QED BY <1>3, <1>4, <1>7

\* After release of the innermost savepoint the scopes around it stand as before.
LEMMA ReleasedBelow ==
    ASSUME NEW list \in Seq(Scopes), Len(list) > 1, Ascending(list), NEW stack \in Seq(Levels),
           Below(list, stack, Len(list) - 1), NEW at \in 2..Len(stack),
           \A i \in 1..Len(stack) : stack[i].name < list[Len(list)].name <=> i < at,
           \A i \in 1..Len(stack) : stack[i].name = list[Len(list)].name <=> i = at,
           NEW released, Len(released) = at - 1, released[at - 1].name = stack[at - 1].name,
           \A i \in 1..(at - 2) : released[i] = stack[i]
    PROVE  Below(list, released, Len(list) - 1)
  <1> DEFINE n == Len(list)
  <1>1. n \in Nat /\ n - 1 \in Nat /\ \A i \in 1..(n - 1) : list[i].name < list[n].name
    BY DEF Ascending
  <1>2. ASSUME NEW i \in 1..(n - 1), Healthy(list, i - 1)
        PROVE  i <= at - 1 /\ released[i].name = stack[i].name
    <2>2. i \in 1..Len(stack) /\ stack[i].name = list[i].name
      BY <1>2 DEF Below, Stands
    <2>3. stack[i].name < list[n].name
      BY <2>2, <1>1
    <2>4. i < at
      BY <2>2, <2>3
    <2> QED BY <2>4
  <1>3. ASSUME NEW i \in 1..(n - 1 - 1), Healthy(list, i)
        PROVE  released[i].staged = stack[i].staged
    <2>1. i + 1 \in 1..(n - 1) /\ (i + 1) - 1 = i
      BY <1>1
    <2>2. i + 1 <= at - 1
      BY <2>1, <1>2, <1>3
    <2> QED BY <2>2
  <1> QED BY <1>1, <1>2, <1>3, BelowSame

\* Names stay ascending in a list cut short.
LEMMA NamesKept ==
    ASSUME NEW list, NEW other, NEW n, Len(list) \in Nat, Len(other) \in Nat, Len(other) <= Len(list),
           \A i \in 1..Len(other) : other[i].name = list[i].name,
           Ascending(list), UpTo(list, n)
    PROVE  Ascending(other) /\ UpTo(other, n)
  BY DEF Ascending, UpTo

(* The list of scopes: the root first, in the order of their names.          *)
ScopesOK(list, n) ==
    /\ list \in Seq(Scopes) /\ Len(list) >= 1 /\ list[1].name = 0
    /\ Ascending(list) /\ UpTo(list, n)
LevelsOK(stack, n) == stack \in Seq(Levels) /\ Ascending(stack) /\ UpTo(stack, n)

\* A failure mark keeps the scopes well formed.
LEMMA MarkedOK ==
    ASSUME NEW list, NEW n, ScopesOK(list, n)
    PROVE  ScopesOK(MarkFailed(list), n)
  <1> DEFINE m == MarkFailed(list)
  <1>1. /\ m \in Seq(Scopes) /\ Len(m) = Len(list) /\ Len(list) \in Nat /\ Len(list) >= 1
        /\ \A i \in 1..Len(list) : m[i].name = list[i].name
    BY MarkedFacts DEF ScopesOK
  <1> HIDE DEF m
  <1>2. Ascending(m) /\ UpTo(m, n)
    BY <1>1, NamesKept DEF ScopesOK
  <1> QED BY <1>1, <1>2 DEF ScopesOK, m

\* The scopes without the innermost are well formed.
LEMMA FrontOK ==
    ASSUME NEW list, NEW n, ScopesOK(list, n), Len(list) > 1
    PROVE  ScopesOK(Front(list), n)
  <1> DEFINE m == Front(list)
  <1>1. /\ m \in Seq(Scopes) /\ Len(m) = Len(list) - 1 /\ Len(list) \in Nat
        /\ \A i \in 1..(Len(list) - 1) : m[i] = list[i]
    BY FrontFacts DEF ScopesOK
  <1> HIDE DEF m
  <1>2. Len(m) \in Nat /\ Len(m) >= 1 /\ Len(m) <= Len(list)
    BY <1>1
  <1>3. \A i \in 1..Len(m) : m[i].name = list[i].name
    BY <1>1
  <1>4. Ascending(m) /\ UpTo(m, n)
    BY <1>1, <1>2, <1>3, NamesKept DEF ScopesOK
  <1> QED BY <1>1, <1>2, <1>3, <1>4 DEF ScopesOK, m

\* A new name behind the others keeps names ascending.
LEMMA NextName ==
    ASSUME NEW list, NEW other, NEW n \in Nat, Len(list) \in Nat, Ascending(list), UpTo(list, n),
           \A i \in 1..Len(list) : list[i].name \in Nat,
           Len(other) = Len(list) + 1, other[Len(list) + 1].name = n + 1,
           \A i \in 1..Len(list) : other[i] = list[i]
    PROVE  Ascending(other) /\ UpTo(other, n + 1)
  <1>1. \A i \in 1..Len(other) : i \in 1..Len(list) \/ i = Len(list) + 1
    OBVIOUS
  <1>2. \A i \in 1..Len(list) : other[i].name < n + 1 /\ other[i].name <= n + 1
    BY DEF UpTo
  <1>3. UpTo(other, n + 1)
    BY <1>1, <1>2 DEF UpTo
  <1>4. Ascending(other)
    <2> SUFFICES ASSUME NEW i \in 1..Len(other), NEW j \in 1..Len(other), i < j
                 PROVE  other[i].name < other[j].name
      BY DEF Ascending
    <2>1. i \in 1..Len(list)
      BY <1>1
    <2>2. CASE j \in 1..Len(list)
      BY <2>1, <2>2 DEF Ascending
    <2>3. CASE j = Len(list) + 1
      BY <2>1, <2>3, <1>2
    <2> QED BY <2>2, <2>3, <1>1
  <1> QED BY <1>3, <1>4

\* What a query can do: resolved, it left the session as intended; rejected, the
\* levels are as before, as intended, or the session is gone.
LEMMA QueryFacts ==
    ASSUME session \in Sessions, link \in BOOLEAN, NEW accepted \in BOOLEAN, NEW after,
           accepted => after \in Sessions,
           NEW answer \in {"ok", "error"}, Query(accepted, after, answer)
    PROVE  /\ session' \in Sessions /\ link' \in BOOLEAN
           /\ answer = "ok" => accepted /\ session' = after
           /\ \/ session'.stack = session.stack /\ session'.tx = session.tx
              \/ accepted /\ session' = after
              \/ session' = Idle
  <1>1. Idle \in Sessions
    BY DEF Idle, Sessions
  <1>2. [session EXCEPT !.aborted = session.tx] \in Sessions
        /\ [session EXCEPT !.aborted = session.tx].stack = session.stack
        /\ [session EXCEPT !.aborted = session.tx].tx = session.tx
    BY DEF Sessions
  <1> QED BY <1>1, <1>2 DEF Query

(* What a step of the callback leaves as it is, and what it keeps.           *)
CallbackKeeps ==
    /\ UNCHANGED <<phase, db, commitDispatched, rollbackConfirmed, discardClient, outcome, pooled>>
    /\ link' \in BOOLEAN /\ used' \in SUBSET Writes /\ step' \in Steps
    /\ sequence' \in Nat /\ session' \in Sessions
    /\ ScopesOK(scopes', sequence')
    /\ step' # "open" => Len(scopes') > 1
    /\ step' = "releasing" => ~scopes'[Len(scopes')].failed
    /\ session'.tx => LevelsOK(session'.stack, sequence') /\ LevelsInv(scopes', session'.stack, step')

\* A step of the callback that keeps scopes and levels as they should be keeps the
\* whole invariant: the end of the transaction is not touched.
LEMMA CallbackStep ==
    ASSUME TransactionInv, phase = "callback", CallbackKeeps
    PROVE  TransactionInv'
  <1> USE DEF CallbackKeeps
  <1>0. TypeOK /\ ScopeInv /\ StackInv /\ EndInv
    BY DEF TransactionInv
  <1>1. TypeOK'
    BY <1>0 DEF TypeOK, ScopesOK
  <1>2. ScopeInv'
    BY <1>0 DEF ScopeInv, ScopesOK
  <1>3. StackInv'
    BY DEF StackInv, LevelsOK
  <1>4. EndInv'
    BY <1>0 DEF EndInv
  <1> QED BY <1>1, <1>2, <1>3, <1>4 DEF TransactionInv

\* What is known while the callback runs.
LEMMA CallbackFacts ==
    ASSUME TransactionInv, phase = "callback"
    PROVE  /\ session \in Sessions /\ link \in BOOLEAN /\ sequence \in Nat /\ Usable \in BOOLEAN
           /\ used \in SUBSET Writes
           /\ ScopesOK(scopes, sequence) /\ Len(scopes) \in Nat /\ Len(scopes) >= 1 /\ scopes \in Seq(Scopes)
           /\ step # "open" => Len(scopes) > 1
           /\ step = "releasing" => ~scopes[Len(scopes)].failed
           /\ session.tx => LevelsOK(session.stack, sequence) /\ LevelsInv(scopes, session.stack, step)
           /\ Usable => session.tx
  <1>1. session.tx \in BOOLEAN /\ session.aborted \in BOOLEAN /\ session.stack \in Seq(Levels)
    BY DEF TransactionInv, TypeOK, Sessions
  <1> QED BY <1>1 DEF TransactionInv, TypeOK, ScopeInv, StackInv, ScopesOK, LevelsOK, Usable

(* The root scope's level stands while the transaction does.                 *)
LEMMA RootStands ==
    ASSUME NEW list, NEW stack, NEW n \in Nat, n >= 1, Below(list, stack, n)
    PROVE  1 <= Len(stack) /\ stack[1].name = list[1].name
  BY DEF Below, Stands, Healthy

\* A statement is staged in the innermost level; the others stay.
LEMMA StagedFacts ==
    ASSUME session \in Sessions, Len(session.stack) >= 1, NEW w \in Writes
    PROVE  /\ Stage(w) \in Sessions /\ Stage(w).tx = session.tx
           /\ Len(Stage(w).stack) = Len(session.stack)
           /\ \A i \in 1..Len(session.stack) :
                 /\ Stage(w).stack[i].name = session.stack[i].name
                 /\ i # Len(session.stack) => Stage(w).stack[i] = session.stack[i]
           /\ Stage(w).stack[Len(session.stack)].staged = session.stack[Len(session.stack)].staged \cup {w}
  <1> DEFINE s == session.stack
             p == SubSeq(s, 1, Len(s) - 1)
             x == With(s[Len(s)], {w})
             q == Append(p, x)
  <1>1. s \in Seq(Levels) /\ Len(s) - 1 \in 0..Len(s) /\ s[Len(s)] \in Levels /\ Len(s) \in Nat
    BY DEF Sessions
  <1>2. x \in Levels /\ x.name = s[Len(s)].name /\ x.staged = s[Len(s)].staged \cup {w}
    BY <1>1 DEF With, Levels
  <1>3. p \in Seq(Levels) /\ Len(p) = Len(s) - 1 /\ \A i \in 1..(Len(s) - 1) : p[i] = s[i]
    BY <1>1, Prefix
  <1>4. Stage(w) = [session EXCEPT !.stack = q]
    BY DEF Stage, Front, Last
  <1> HIDE DEF p, x
  <1>5. /\ q \in Seq(Levels) /\ Len(q) = Len(p) + 1 /\ q[Len(p) + 1] = x
        /\ \A i \in 1..Len(p) : q[i] = p[i]
    BY <1>2, <1>3, AppendOne
  <1> HIDE DEF q
  <1>6. Stage(w) \in Sessions /\ Stage(w).tx = session.tx /\ Stage(w).stack = q
    BY <1>4, <1>5 DEF Sessions
  <1>7. Len(q) = Len(s) /\ q[Len(s)] = x /\ \A i \in 1..(Len(s) - 1) : q[i] = s[i]
    BY <1>1, <1>3, <1>5
  <1>8. \A i \in 1..Len(s) : q[i].name = s[i].name /\ (i # Len(s) => q[i] = s[i])
    <2> SUFFICES ASSUME NEW i \in 1..Len(s) PROVE q[i].name = s[i].name /\ (i # Len(s) => q[i] = s[i])
      OBVIOUS
    <2>1. CASE i = Len(s)
      BY <2>1, <1>2, <1>7
    <2>2. CASE i \in 1..(Len(s) - 1)
      BY <2>2, <1>7
    <2> QED BY <2>1, <2>2, <1>1
  <1> QED BY <1>2, <1>6, <1>7, <1>8

-----------------------------------------------------------------------------
(* The steps of the callback.                                                *)
LEMMA OpenBelow ==
    ASSUME NEW list, NEW stack, Len(list) \in Nat, NEW doing \in {"open", "releasing"},
           LevelsInv(list, stack, doing)
    PROVE  Below(list, stack, Len(list))
  BY DEF LevelsInv, Below, Agrees

(* A query that is not answered may or may not have had its effect: either    *)
(* way the scope is marked.                                                  *)
LEMMA TaintOK ==
    ASSUME NEW list, NEW n, ScopesOK(list, n), NEW stack, Below(list, stack, Len(list))
    PROVE  ScopesOK(MarkFailed(list), n) /\ LevelsInv(MarkFailed(list), stack, "open")
  BY MarkedOK, Taint DEF ScopesOK

\* A statement (executeTransactionQuery): the write goes to the innermost scope and
\* level alike, or the scope is marked.
LEMMA StatementStep ==
    ASSUME TransactionInv, NEW w \in Writes, Statement(w)
    PROVE  TransactionInv'
  <1> DEFINE n == Len(scopes)
             s == session.stack
  <1>1. /\ phase = "callback" /\ step = "open" /\ used' = used \cup {w}
        /\ UNCHANGED <<phase, step, sequence, db>> /\ Quiet
    BY DEF Statement
  <1>2. /\ session \in Sessions /\ link \in BOOLEAN /\ sequence \in Nat /\ Usable \in BOOLEAN
        /\ used \in SUBSET Writes
        /\ ScopesOK(scopes, sequence) /\ n \in Nat /\ n >= 1 /\ scopes \in Seq(Scopes)
        /\ session.tx => LevelsOK(s, sequence) /\ LevelsInv(scopes, s, "open")
        /\ Usable => session.tx
    BY <1>1, CallbackFacts
  <1>3. PICK answer \in {"ok", "error"} :
            /\ Query(Usable, IF Usable THEN Stage(w) ELSE session, answer)
            /\ scopes' = IF answer = "ok" THEN [scopes EXCEPT ![Len(scopes)].wrote = @ \cup {w}]
                         ELSE MarkFailed(scopes)
    BY DEF Statement
  <1>4. session.tx => Below(scopes, s, n) /\ Len(s) >= 1
    BY <1>2, OpenBelow, RootStands
  <1>5. Usable =>
          /\ Stage(w) \in Sessions /\ Stage(w).tx = session.tx
          /\ Len(Stage(w).stack) = Len(s) /\ Len(s) \in Nat
          /\ \A i \in 1..Len(s) : /\ Stage(w).stack[i].name = s[i].name
                                  /\ i # Len(s) => Stage(w).stack[i] = s[i]
          /\ Stage(w).stack[Len(s)].staged = s[Len(s)].staged \cup {w}
    BY <1>2, <1>4, StagedFacts DEF Sessions
  <1>6. (IF Usable THEN Stage(w) ELSE session) \in Sessions
    BY <1>2, <1>5
  <1>7. /\ session' \in Sessions /\ link' \in BOOLEAN
        /\ answer = "ok" => Usable /\ session' = Stage(w)
        /\ \/ session'.stack = session.stack /\ session'.tx = session.tx
           \/ Usable /\ session' = Stage(w)
           \/ session' = Idle
    BY <1>2, <1>3, <1>6, QueryFacts
  <1>8. session'.tx => LevelsOK(session'.stack, sequence)
    <2>1. CASE session'.stack = session.stack /\ session'.tx = session.tx
      BY <2>1, <1>2
    <2>2. CASE Usable /\ session' = Stage(w)
      <3>1. Stage(w).stack \in Seq(Levels)
        BY <2>2, <1>5 DEF Sessions
      <3>2. Ascending(Stage(w).stack) /\ UpTo(Stage(w).stack, sequence)
        <4> DEFINE t == Stage(w).stack
        <4>1. Len(t) = Len(s) /\ Len(s) \in Nat /\ \A i \in 1..Len(s) : t[i].name = s[i].name
          BY <2>2, <1>5
        <4>2. Ascending(s) /\ UpTo(s, sequence)
          BY <2>2, <1>2 DEF LevelsOK
        <4> HIDE DEF s, t
        <4>3. Len(t) \in Nat /\ Len(t) <= Len(s) /\ \A i \in 1..Len(t) : t[i].name = s[i].name
          BY <4>1
        <4>4. Ascending(t) /\ UpTo(t, sequence)
          BY <4>1, <4>2, <4>3, NamesKept
        <4> QED BY <4>4 DEF t
      <3> QED BY <3>1, <3>2, <2>2 DEF LevelsOK
    <2>3. CASE session' = Idle
      BY <2>3 DEF Idle
    <2> QED BY <2>1, <2>2, <2>3, <1>7
  <1>9. session'.tx => Below(scopes, session'.stack, n)
    <2>1. CASE session'.stack = session.stack /\ session'.tx = session.tx
      BY <2>1, <1>4
    <2>2. CASE Usable /\ session' = Stage(w)
      <3>1. \A i \in 1..n : Healthy(scopes, i - 1) => i <= Len(s)
        BY <2>2, <1>2, <1>4 DEF Below, Stands
      <3>2. \A i \in 1..(n - 1) : Healthy(scopes, i) => i + 1 <= Len(s)
        <4> SUFFICES ASSUME NEW i \in 1..(n - 1), Healthy(scopes, i) PROVE i + 1 <= Len(s)
          OBVIOUS
        <4>1. i + 1 \in 1..n /\ (i + 1) - 1 = i
          BY <1>2
        <4> QED BY <4>1, <3>1
      <3>3. \A i \in 1..n : Healthy(scopes, i - 1) =>
               i <= Len(Stage(w).stack) /\ Stage(w).stack[i].name = s[i].name
        BY <2>2, <3>1, <1>5
      <3>4. \A i \in 1..(n - 1) : Healthy(scopes, i) => Stage(w).stack[i].staged = s[i].staged
        BY <2>2, <3>2, <1>5
      <3>5. Below(scopes, s, n)
        BY <2>2, <1>2, <1>4
      <3> QED BY <2>2, <3>3, <3>4, <3>5, <1>2, BelowSame
    <2>3. CASE session' = Idle
      BY <2>3 DEF Idle
    <2> QED BY <2>1, <2>2, <2>3, <1>7
  <1>10. CASE answer = "error"
    <2>1. scopes' = MarkFailed(scopes)
      BY <1>3, <1>10
    <2>2. ScopesOK(scopes', sequence)
      BY <2>1, <1>2, MarkedOK
    <2>3. session'.tx => LevelsInv(scopes', session'.stack, "open")
      BY <2>1, <1>2, <1>9, TaintOK
    <2>4. CallbackKeeps
      BY <2>2, <2>3, <1>1, <1>2, <1>7, <1>8 DEF CallbackKeeps, Quiet, Steps
    <2> QED BY <2>4, <1>1, CallbackStep
  <1>11. CASE answer = "ok"
    <2> DEFINE x == [scopes[n] EXCEPT !.wrote = @ \cup {w}]
    <2>1. scopes' = [scopes EXCEPT ![n] = x]
      BY <1>3, <1>11
    <2>2. n \in 1..n /\ scopes[n] \in Scopes
      BY <1>2
    <2>3. x \in Scopes /\ x.name = scopes[n].name /\ x.failed = scopes[n].failed
          /\ x.wrote = scopes[n].wrote \cup {w}
      BY <2>2 DEF Scopes
    <2> HIDE DEF x
    <2>4. scopes' \in Seq(Scopes) /\ Len(scopes') = n /\ scopes'[n] = x
          /\ \A i \in 1..n : i # n => scopes'[i] = scopes[i]
      BY <2>1, <2>2, <2>3, <1>2
    <2>5. \A i \in 1..n : scopes'[i].name = scopes[i].name /\ (scopes'[i].failed <=> scopes[i].failed)
      BY <2>3, <2>4
    <2>6. ScopesOK(scopes', sequence)
      <3>1. Ascending(scopes') /\ UpTo(scopes', sequence)
        BY <2>4, <2>5, <1>2, NamesKept DEF ScopesOK
      <3> QED BY <3>1, <2>4, <2>5, <1>2 DEF ScopesOK
    <2>7. Usable /\ session' = Stage(w) /\ session.tx /\ session'.tx
      BY <1>2, <1>5, <1>7, <1>11
    <2>8. Below(scopes', session'.stack, n)
      <3>1. \A i \in 0..n : Healthy(scopes', i) <=> Healthy(scopes, i)
        BY <2>5 DEF Healthy
      <3>2. Stands(scopes', session'.stack, n)
        BY <3>1, <2>5, <2>7, <1>9 DEF Below, Stands
      <3>3. Agrees(scopes', session'.stack, n - 1)
        BY <3>1, <2>4, <2>7, <1>9 DEF Below, Agrees
      <3> QED BY <3>2, <3>3 DEF Below
    <2>9. ASSUME Healthy(scopes', n)
          PROVE  Len(session'.stack) = n /\ session'.stack[n].staged = scopes'[n].wrote
      <3>1. Healthy(scopes, n)
        BY <2>9, <2>5 DEF Healthy
      <3>2. Len(s) = n /\ s[n].staged = scopes[n].wrote
        BY <3>1, <2>2, <2>7, <1>2 DEF LevelsInv, Agrees
      <3> QED BY <3>2, <2>3, <2>4, <2>7, <1>5
    <2>10. Agrees(scopes', session'.stack, n)
      <3> SUFFICES ASSUME NEW i \in 1..n, Healthy(scopes', i)
                   PROVE  session'.stack[i].staged = scopes'[i].wrote
        BY DEF Agrees
      <3>1. CASE i = n
        BY <3>1, <2>9
      <3>2. CASE i \in 1..(n - 1)
        BY <3>2, <2>8 DEF Below, Agrees
      <3> QED BY <3>1, <3>2, <1>2
    <2>11. LevelsInv(scopes', session'.stack, "open")
      BY <2>4, <2>8, <2>9, <2>10 DEF LevelsInv, Below
    <2>12. CallbackKeeps
      BY <2>6, <2>11, <1>1, <1>2, <1>7, <1>8 DEF CallbackKeeps, Quiet, Steps
    <2> QED BY <2>12, <1>1, CallbackStep
  <1> QED BY <1>10, <1>11

(* One scope more, and one level for it.                                     *)
LEMMA OpenedLevels ==
    ASSUME NEW list, NEW stack, Len(list) \in Nat, Len(stack) \in Nat, LevelsInv(list, stack, "open"),
           NEW more, Len(more) = Len(list) + 1, \A i \in 1..Len(list) : more[i] = list[i],
           NEW deeper, Len(deeper) = Len(stack) + 1, \A i \in 1..Len(stack) : deeper[i] = stack[i],
           more[Len(list) + 1].name = deeper[Len(stack) + 1].name,
           more[Len(list) + 1].wrote = {}, deeper[Len(stack) + 1].staged = {}
    PROVE  LevelsInv(more, deeper, "open")
  <1> DEFINE n == Len(list)
  <1>1. \A i \in 0..n : Healthy(more, i) <=> Healthy(list, i)
    BY DEF Healthy
  <1>2. Healthy(more, n + 1) => Healthy(list, n)
    BY DEF Healthy
  <1>3. Stands(list, stack, n) /\ Agrees(list, stack, n) /\ (Healthy(list, n) => Len(stack) = n)
    BY DEF LevelsInv
  <1>4. Stands(more, deeper, n + 1)
    <2> SUFFICES ASSUME NEW i \in 1..(n + 1), Healthy(more, i - 1)
                 PROVE  i <= Len(deeper) /\ deeper[i].name = more[i].name
      BY DEF Stands
    <2>1. CASE i = n + 1
      <3>1. i - 1 = n
        BY <2>1
      <3>2. Len(stack) = n
        BY <3>1, <1>1, <1>3
      <3> QED BY <3>2, <2>1
    <2>2. CASE i \in 1..n
      <3>1. Healthy(list, i - 1)
        BY <2>2, <1>1
      <3>2. i \in 1..Len(stack) /\ stack[i].name = list[i].name
        BY <3>1, <2>2, <1>3 DEF Stands
      <3> QED BY <3>2, <2>2
    <2> QED BY <2>1, <2>2
  <1>5. Agrees(more, deeper, n + 1)
    <2> SUFFICES ASSUME NEW i \in 1..(n + 1), Healthy(more, i)
                 PROVE  deeper[i].staged = more[i].wrote
      BY DEF Agrees
    <2>1. CASE i = n + 1
      <3>1. Len(stack) = n
        BY <2>1, <1>2, <1>3
      <3> QED BY <3>1, <2>1
    <2>2. CASE i \in 1..n
      <3>1. Healthy(list, i) /\ Healthy(list, i - 1)
        BY <2>2, <1>1 DEF Healthy
      <3>2. i \in 1..Len(stack) /\ stack[i].staged = list[i].wrote
        BY <3>1, <2>2, <1>3 DEF Stands, Agrees
      <3> QED BY <3>2, <2>2
    <2> QED BY <2>1, <2>2
  <1>6. Healthy(more, n + 1) => Len(deeper) = n + 1
    BY <1>2, <1>3
  <1> QED BY <1>4, <1>5, <1>6 DEF LevelsInv

\* A larger sequence number bounds the same names.
LEMMA OneNameMore ==
    ASSUME NEW n \in Nat
    PROVE  /\ \A list : ScopesOK(list, n) => ScopesOK(list, n + 1)
           /\ \A stack : LevelsOK(stack, n) => LevelsOK(stack, n + 1)
  <1>1. ASSUME NEW list, ScopesOK(list, n) PROVE ScopesOK(list, n + 1)
    <2>1. \A i \in 1..Len(list) : list[i].name \in Nat
      <3>1. \A i \in 1..Len(list) : list[i] \in Scopes
        BY <1>1 DEF ScopesOK
      <3> QED BY <3>1 DEF Scopes
    <2> QED BY <2>1, <1>1 DEF ScopesOK, UpTo
  <1>2. ASSUME NEW stack, LevelsOK(stack, n) PROVE LevelsOK(stack, n + 1)
    <2>1. \A i \in 1..Len(stack) : stack[i].name \in Nat
      <3>1. \A i \in 1..Len(stack) : stack[i] \in Levels
        BY <1>2 DEF LevelsOK
      <3> QED BY <3>1 DEF Levels
    <2> QED BY <2>1, <1>2 DEF LevelsOK, UpTo
  <1> QED BY <1>1, <1>2

\* savepoint: scope and level are opened under one new name, or the scope around is
\* marked.
LEMMA SavepointOpenStep ==
    ASSUME TransactionInv, SavepointOpen
    PROVE  TransactionInv'
  <1> DEFINE n == Len(scopes)
             s == session.stack
             name == sequence + 1
             deeper == Append(s, Level(name))
             after == [session EXCEPT !.stack = deeper]
             more == Append(scopes, Scope(name))
  <1>1. /\ phase = "callback" /\ step = "open" /\ sequence' = name
        /\ UNCHANGED <<phase, step, used, db>> /\ Quiet
    BY DEF SavepointOpen
  <1>2. /\ session \in Sessions /\ link \in BOOLEAN /\ sequence \in Nat /\ Usable \in BOOLEAN
        /\ used \in SUBSET Writes
        /\ ScopesOK(scopes, sequence) /\ n \in Nat /\ n >= 1 /\ scopes \in Seq(Scopes)
        /\ session.tx => LevelsOK(s, sequence) /\ LevelsInv(scopes, s, "open")
        /\ Usable => session.tx
    BY <1>1, CallbackFacts
  <1>3. PICK answer \in {"ok", "error"} :
            /\ Query(Usable, after, answer)
            /\ scopes' = IF answer = "ok" THEN more ELSE MarkFailed(scopes)
    BY DEF SavepointOpen
  <1>4. s \in Seq(Levels) /\ Len(s) \in Nat /\ name \in Nat
    BY <1>2 DEF Sessions
  <1>5. Level(name) \in Levels /\ Level(name).name = name /\ Level(name).staged = {}
        /\ Scope(name) \in Scopes /\ Scope(name).name = name /\ Scope(name).wrote = {}
    BY <1>4 DEF Level, Levels, Scope, Scopes
  <1>6. /\ deeper \in Seq(Levels) /\ Len(deeper) = Len(s) + 1 /\ deeper[Len(s) + 1] = Level(name)
        /\ \A i \in 1..Len(s) : deeper[i] = s[i]
    BY <1>4, <1>5, AppendOne
  <1>7. /\ more \in Seq(Scopes) /\ Len(more) = n + 1 /\ more[n + 1] = Scope(name)
        /\ \A i \in 1..n : more[i] = scopes[i]
    BY <1>2, <1>5, AppendOne
  <1> HIDE DEF deeper, more
  <1>8. after \in Sessions /\ after.tx = session.tx /\ after.stack = deeper
    BY <1>2, <1>6 DEF Sessions
  <1> HIDE DEF after
  <1>9. /\ session' \in Sessions /\ link' \in BOOLEAN
        /\ answer = "ok" => Usable /\ session' = after
        /\ \/ session'.stack = s /\ session'.tx = session.tx
           \/ Usable /\ session' = after
           \/ session' = Idle
    BY <1>2, <1>3, <1>8, QueryFacts
  <1>10. ScopesOK(scopes, name) /\ (session.tx => LevelsOK(s, name))
    BY <1>2, OneNameMore
  <1>11. session.tx => LevelsOK(deeper, name)
    <2> SUFFICES ASSUME session.tx PROVE LevelsOK(deeper, name)
      OBVIOUS
    <2>1. Ascending(s) /\ UpTo(s, sequence)
      BY <1>2 DEF LevelsOK
    <2>2. \A i \in 1..Len(s) : s[i].name \in Nat
      <3>1. \A i \in 1..Len(s) : s[i] \in Levels
        BY <1>4
      <3> QED BY <3>1 DEF Levels
    <2> HIDE DEF s
    <2>3. Ascending(deeper) /\ UpTo(deeper, sequence + 1)
      BY <2>1, <2>2, <1>2, <1>4, <1>5, <1>6, NextName
    <2> QED BY <2>3, <1>6 DEF LevelsOK
  <1>12. ScopesOK(more, name)
    <2>1. Ascending(scopes) /\ UpTo(scopes, sequence) /\ scopes[1].name = 0
      BY <1>2 DEF ScopesOK
    <2>2. \A i \in 1..n : scopes[i].name \in Nat
      <3>1. \A i \in 1..n : scopes[i] \in Scopes
        BY <1>2
      <3> QED BY <3>1 DEF Scopes
    <2>3. Ascending(more) /\ UpTo(more, sequence + 1)
      BY <2>1, <2>2, <1>2, <1>5, <1>7, NextName
    <2> QED BY <2>1, <2>3, <1>2, <1>7 DEF ScopesOK
  <1>13. CASE answer = "error"
    <2>1. scopes' = MarkFailed(scopes)
      BY <1>3, <1>13
    <2>2. ScopesOK(scopes', name)
      BY <2>1, <1>10, MarkedOK
    <2>3. session'.tx => LevelsOK(session'.stack, name) /\ Below(scopes, session'.stack, n)
      <3>1. CASE session'.stack = s /\ session'.tx = session.tx
        BY <3>1, <1>2, <1>10, OpenBelow
      <3>2. CASE Usable /\ session' = after
        <4>1. Below(scopes, s, n)
          BY <3>2, <1>2, OpenBelow
        <4>2. \A i \in 1..n : Healthy(scopes, i - 1) => i \in 1..Len(s)
          BY <4>1, <1>4 DEF Below, Stands
        <4>3. \A i \in 1..n : Healthy(scopes, i - 1) => i <= Len(deeper) /\ deeper[i].name = s[i].name
          BY <4>2, <1>4, <1>6
        <4>4. \A i \in 1..(n - 1) : Healthy(scopes, i) => deeper[i].staged = s[i].staged
          <5> SUFFICES ASSUME NEW i \in 1..(n - 1), Healthy(scopes, i)
                       PROVE  deeper[i].staged = s[i].staged
            OBVIOUS
          <5>1. Healthy(scopes, i - 1) /\ i \in 1..n
            BY <1>2 DEF Healthy
          <5> QED BY <5>1, <4>2, <1>6
        <4>5. Below(scopes, deeper, n)
          BY <4>1, <4>3, <4>4, <1>2, BelowSame
        <4> QED BY <4>5, <3>2, <1>2, <1>8, <1>11
      <3>3. CASE session' = Idle
        BY <3>3 DEF Idle
      <3> QED BY <3>1, <3>2, <3>3, <1>9
    <2>4. session'.tx => LevelsInv(scopes', session'.stack, "open")
      BY <2>1, <2>3, <1>2, TaintOK
    <2>5. CallbackKeeps
      BY <2>2, <2>3, <2>4, <1>1, <1>2, <1>4, <1>9 DEF CallbackKeeps, Quiet, Steps
    <2> QED BY <2>5, <1>1, CallbackStep
  <1>14. CASE answer = "ok"
    <2>1. scopes' = more /\ session' = after /\ session.tx
      BY <1>2, <1>3, <1>9, <1>14
    <2>2. LevelsInv(scopes, s, "open")
      BY <2>1, <1>2
    <2> HIDE DEF s
    <2>5. /\ Len(scopes) \in Nat /\ Len(more) = Len(scopes) + 1
          /\ \A i \in 1..Len(scopes) : more[i] = scopes[i]
          /\ more[Len(scopes) + 1] = Scope(name)
      BY <1>2, <1>7
    <2>6. /\ Len(s) \in Nat /\ Len(deeper) = Len(s) + 1
          /\ \A i \in 1..Len(s) : deeper[i] = s[i]
          /\ deeper[Len(s) + 1] = Level(name)
      BY <1>4, <1>6
    <2>7. Scope(name).name = Level(name).name /\ Scope(name).wrote = {} /\ Level(name).staged = {}
      BY DEF Scope, Level
    <2>3. LevelsInv(more, deeper, "open")
      BY <2>2, <2>5, <2>6, <2>7, OpenedLevels
    <2>4. CallbackKeeps
      BY <2>1, <2>3, <1>1, <1>2, <1>4, <1>8, <1>9, <1>11, <1>12 DEF CallbackKeeps, Quiet, Steps
    <2> QED BY <2>4, <1>1, CallbackStep
  <1> QED BY <1>13, <1>14

\* The savepoint's callback returns or throws: only a scope without a failure is
\* released.
LEMMA SavepointReturnsStep ==
    ASSUME TransactionInv, SavepointReturns
    PROVE  TransactionInv'
  <1> DEFINE s == session.stack
             n == Len(scopes)
  <1>1. /\ phase = "callback" /\ step = "open" /\ n > 1
        /\ step' \in {IF MayRelease(Inner) THEN "releasing" ELSE "recovering", "recovering"}
        /\ UNCHANGED <<phase, scopes, sequence, session, link, used, db>> /\ Quiet
    BY DEF SavepointReturns
  <1>2. /\ session \in Sessions /\ link \in BOOLEAN /\ sequence \in Nat /\ used \in SUBSET Writes
        /\ ScopesOK(scopes, sequence) /\ n \in Nat
        /\ session.tx => LevelsOK(s, sequence) /\ LevelsInv(scopes, s, "open")
    BY <1>1, CallbackFacts
  <1>3. session.tx => LevelsInv(scopes, s, step')
    <2> SUFFICES ASSUME session.tx PROVE LevelsInv(scopes, s, step')
      OBVIOUS
    <2>1. CASE step' = "releasing"
      BY <2>1, <1>2 DEF LevelsInv
    <2>2. CASE step' = "recovering"
      <3>1. Below(scopes, s, n)
        BY <1>2, OpenBelow
      <3>2. Below(scopes, s, n - 1)
        BY <3>1, <1>1, <1>2, BelowCut
      <3> QED BY <2>2, <3>1, <3>2 DEF LevelsInv
    <2> QED BY <2>1, <2>2, <1>1
  <1>4. step' = "releasing" => ~scopes[n].failed
    BY <1>1 DEF MayRelease, Inner, Last
  <1>5. CallbackKeeps
    BY <1>1, <1>2, <1>3, <1>4 DEF CallbackKeeps, Quiet, Steps
  <1> QED BY <1>5, <1>1, CallbackStep

(* A scope that is left and the one around it marked.                        *)
LEMMA FrontTaint ==
    ASSUME NEW list, NEW k, ScopesOK(list, k), Len(list) > 1, NEW stack, Below(list, stack, Len(list) - 1)
    PROVE  /\ ScopesOK(MarkFailed(Front(list)), k)
           /\ LevelsInv(MarkFailed(Front(list)), stack, "open")
  <1> DEFINE f == Front(list)
             n == Len(list)
  <1>a. list \in Seq(Scopes) /\ n \in Nat /\ n > 1
    BY DEF ScopesOK
  <1>b. ScopesOK(f, k)
    BY FrontOK
  <1>1. f \in Seq(Scopes) /\ Len(f) = n - 1 /\ \A i \in 1..(n - 1) : f[i] = list[i]
    BY <1>a, FrontFacts
  <1> HIDE DEF f
  <1>2. n - 1 \in Nat /\ n - 1 <= n - 1
    BY <1>a
  <1>3. Below(f, stack, n - 1)
    BY <1>1, <1>2, BelowCut
  <1>4. ScopesOK(MarkFailed(f), k) /\ LevelsInv(MarkFailed(f), stack, "open")
    BY <1>1, <1>b, <1>3, TaintOK
  <1> QED BY <1>4 DEF f

(* The innermost savepoint's level, looked up by its name.                   *)
LEMMA InnerFacts ==
    ASSUME session \in Sessions, NEW k, ScopesOK(scopes, k), Len(scopes) > 1
    PROVE  /\ Inner = scopes[Len(scopes)] /\ Inner.name \in Nat
           /\ Inner.name \in Names <=> Named(session.stack, Inner.name)
           /\ scopes[1].name < Inner.name
  <1>1. Len(scopes) \in Nat /\ scopes[Len(scopes)] \in Scopes
    BY DEF ScopesOK
  <1>2. session.stack \in Seq(Levels) /\ DOMAIN session.stack = 1..Len(session.stack)
    BY DEF Sessions
  <1>3. Inner = scopes[Len(scopes)] /\ Inner.name \in Nat
    BY <1>1 DEF Inner, Last, Scopes
  <1>4. Inner.name \in Names <=> Named(session.stack, Inner.name)
    BY <1>2 DEF Names, Named
  <1>5. scopes[1].name < scopes[Len(scopes)].name
    BY <1>1 DEF ScopesOK, Ascending
  <1> QED BY <1>3, <1>4, <1>5

\* release savepoint of the innermost scope keeps the scopes around it standing,
\* whatever it held.
LEMMA ReleasedOK ==
    ASSUME session \in Sessions, NEW k, ScopesOK(scopes, k), Len(scopes) > 1,
           LevelsOK(session.stack, k), Below(scopes, session.stack, Len(scopes) - 1),
           NEW name, name = scopes[Len(scopes)].name, Named(session.stack, name)
    PROVE  /\ Released(name) \in Sessions /\ Released(name).tx = session.tx
           /\ LevelsOK(Released(name).stack, k)
           /\ Below(scopes, Released(name).stack, Len(scopes) - 1)
           /\ ~Named(Released(name).stack, name)
           /\ Healthy(scopes, Len(scopes) - 1) /\ Len(session.stack) = Len(scopes)
                 /\ Stands(scopes, session.stack, Len(scopes)) =>
                 /\ Len(Released(name).stack) = Len(scopes) - 1
                 /\ Released(name).stack[Len(scopes) - 1].staged =
                       session.stack[Len(scopes) - 1].staged \cup session.stack[Len(scopes)].staged
  <1> DEFINE n == Len(scopes)
             s == session.stack
             r == Released(name).stack
  <1>1. n \in Nat /\ n - 1 \in Nat /\ n - 1 >= 1 /\ name \in Nat /\ scopes[1].name < name
        /\ scopes \in Seq(Scopes) /\ Ascending(scopes)
    BY InnerFacts DEF ScopesOK
  <1>2. s \in Seq(Levels) /\ Ascending(s) /\ UpTo(s, k)
    BY DEF LevelsOK
  <1>3. s[1].name < name
    BY <1>1, RootStands
  <1>4. PICK at \in 2..Len(s) :
              /\ Released(name) \in Sessions /\ Released(name).tx = session.tx
              /\ Len(r) = at - 1
              /\ r[at - 1].name = s[at - 1].name
              /\ r[at - 1].staged = s[at - 1].staged \cup UNION {s[i].staged : i \in at..Len(s)}
              /\ \A i \in 1..(at - 2) : r[i] = s[i]
              /\ s[at].name = name
              /\ \A i \in 1..Len(s) : s[i].name < name <=> i < at
              /\ \A i \in 1..Len(s) : s[i].name = name <=> i = at
    BY <1>1, <1>2, <1>3, ReleasedFacts
  <1>5. r \in Seq(Levels)
    BY <1>4 DEF Sessions
  <1>6. Below(scopes, s, n - 1)
    OBVIOUS
  <1> HIDE DEF r, s
  <1>7. Len(s) \in Nat /\ at \in Nat
    BY <1>2, <1>4
  <1>8. \A i \in 1..(at - 1) : r[i].name = s[i].name /\ i \in 1..Len(s)
    <2> SUFFICES ASSUME NEW i \in 1..(at - 1) PROVE r[i].name = s[i].name /\ i \in 1..Len(s)
      OBVIOUS
    <2>1. i = at - 1 \/ i \in 1..(at - 2)
      BY <1>7
    <2> QED BY <2>1, <1>4, <1>7
  <1>9. Ascending(r) /\ UpTo(r, k)
    <2>1. Len(r) \in Nat /\ Len(r) <= Len(s) /\ \A i \in 1..Len(r) : r[i].name = s[i].name
      BY <1>4, <1>7, <1>8
    <2> QED BY <2>1, <1>2, <1>7, NamesKept
  <1>10. Below(scopes, r, n - 1)
    BY <1>1, <1>2, <1>4, <1>6, ReleasedBelow
  <1>11. ~Named(r, name)
    <2> SUFFICES ASSUME NEW i \in 1..Len(r), r[i].name = name PROVE FALSE
      BY DEF Named
    <2>1. i \in 1..(at - 1)
      BY <1>4
    <2>2. i \in 1..Len(s) /\ s[i].name = name
      BY <2>1, <1>8
    <2>3. i = at
      BY <2>2, <1>4
    <2> QED BY <2>1, <2>3, <1>7
  <1>12. ASSUME Healthy(scopes, n - 1), Len(s) = n, Stands(scopes, s, n)
         PROVE  Len(r) = n - 1 /\ r[n - 1].staged = s[n - 1].staged \cup s[n].staged
    <2>1. n \in 1..Len(s) /\ s[n].name = name
      BY <1>1, <1>12 DEF Stands
    <2>2. n = at
      BY <2>1, <1>4
    <2>3. UNION {s[i].staged : i \in at..Len(s)} = s[n].staged
      <3>1. \A i \in at..Len(s) : i = n
        BY <2>2, <1>7, <1>12
      <3>2. n \in at..Len(s)
        BY <2>2, <1>7, <1>12
      <3> QED BY <3>1, <3>2
    <2> QED BY <2>2, <2>3, <1>4
  <1> QED BY <1>4, <1>5, <1>9, <1>10, <1>11, <1>12 DEF LevelsOK, r, s

\* rollback to the innermost savepoint leaves its level empty and the scopes around it
\* standing.
LEMMA RolledOK ==
    ASSUME session \in Sessions, NEW k, ScopesOK(scopes, k), Len(scopes) > 1,
           LevelsOK(session.stack, k), Below(scopes, session.stack, Len(scopes)),
           NEW name, name = scopes[Len(scopes)].name, Named(session.stack, name)
    PROVE  /\ RolledTo(name) \in Sessions /\ RolledTo(name).tx = session.tx
           /\ LevelsOK(RolledTo(name).stack, k)
           /\ Below(scopes, RolledTo(name).stack, Len(scopes))
           /\ LevelsInv(scopes, RolledTo(name).stack, "dropping")
  <1> DEFINE n == Len(scopes)
             s == session.stack
             r == RolledTo(name).stack
  <1>1. n \in Nat /\ name \in Nat /\ scopes \in Seq(Scopes) /\ Ascending(scopes)
    BY InnerFacts DEF ScopesOK
  <1>2. s \in Seq(Levels) /\ Ascending(s) /\ UpTo(s, k)
    BY DEF LevelsOK
  <1>3. PICK at \in 1..Len(s) :
              /\ RolledTo(name) \in Sessions /\ RolledTo(name).tx = session.tx
              /\ Len(r) = at
              /\ r[at] = Level(name)
              /\ \A i \in 1..(at - 1) : r[i] = s[i]
              /\ s[at].name = name
              /\ \A i \in 1..Len(s) : s[i].name < name <=> i < at
              /\ \A i \in 1..Len(s) : s[i].name = name <=> i = at
    BY <1>1, <1>2, RolledFacts
  <1>4. r \in Seq(Levels)
    BY <1>3 DEF Sessions
  <1>5. Below(scopes, s, n)
    OBVIOUS
  <1> HIDE DEF r, s
  <1>6. Len(s) \in Nat /\ at \in Nat
    BY <1>2, <1>3
  <1>7. \A i \in 1..at : r[i].name = s[i].name
    <2> SUFFICES ASSUME NEW i \in 1..at PROVE r[i].name = s[i].name
      OBVIOUS
    <2>1. i = at \/ i \in 1..(at - 1)
      BY <1>6
    <2> QED BY <2>1, <1>3 DEF Level
  <1>8. Ascending(r) /\ UpTo(r, k)
    <2>1. Len(r) \in Nat /\ Len(r) <= Len(s) /\ \A i \in 1..Len(r) : r[i].name = s[i].name
      BY <1>3, <1>6, <1>7
    <2> QED BY <2>1, <1>2, <1>6, NamesKept
  <1>9. Below(scopes, r, n) /\ (Healthy(scopes, n - 1) => Len(r) = n /\ r[n].staged = {})
    <2>1. /\ r[at] = Level(scopes[Len(scopes)].name)
          /\ \A i \in 1..Len(s) : s[i].name < scopes[Len(scopes)].name <=> i < at
          /\ \A i \in 1..Len(s) : s[i].name = scopes[Len(scopes)].name <=> i = at
      BY <1>3
    <2>2. s \in Seq(Levels) /\ at \in 1..Len(s) /\ Len(r) = at /\ \A i \in 1..(at - 1) : r[i] = s[i]
      BY <1>2, <1>3
    <2> QED BY <2>1, <2>2, <1>1, <1>5, RolledBelow
  <1>10. LevelsInv(scopes, r, "dropping")
    BY <1>9 DEF LevelsInv
  <1> QED BY <1>3, <1>4, <1>8, <1>9, <1>10 DEF LevelsOK, r

\* The scopes after a release: the writes of the innermost belong to the one around.
LEMMA JoinedFacts ==
    ASSUME NEW k, ScopesOK(scopes, k), Len(scopes) > 1
    PROVE  /\ ScopesOK(Joined, k) /\ Len(Joined) = Len(scopes) - 1
           /\ \A i \in 1..(Len(scopes) - 1) : /\ Joined[i].name = scopes[i].name
                                              /\ Joined[i].failed <=> scopes[i].failed
           /\ \A i \in 1..(Len(scopes) - 2) : Joined[i] = scopes[i]
           /\ Joined[Len(scopes) - 1].wrote = scopes[Len(scopes) - 1].wrote \cup scopes[Len(scopes)].wrote
  <1> DEFINE n == Len(scopes)
             p == SubSeq(scopes, 1, n - 2)
             x == [scopes[n - 1] EXCEPT !.wrote = @ \cup scopes[n].wrote]
             q == Append(p, x)
  <1>1. n \in Nat /\ n - 2 \in 0..n /\ scopes \in Seq(Scopes) /\ scopes[n] \in Scopes
        /\ scopes[n - 1] \in Scopes
    BY DEF ScopesOK
  <1>2. /\ x \in Scopes /\ x.name = scopes[n - 1].name /\ x.failed = scopes[n - 1].failed
        /\ x.wrote = scopes[n - 1].wrote \cup scopes[n].wrote
    BY <1>1 DEF Scopes
  <1>3. p \in Seq(Scopes) /\ Len(p) = n - 2 /\ \A i \in 1..(n - 2) : p[i] = scopes[i]
    BY <1>1, Prefix
  <1>4. Joined = q
    BY DEF Joined, Inner, Last
  <1> HIDE DEF p, x
  <1>5. /\ q \in Seq(Scopes) /\ Len(q) = Len(p) + 1 /\ q[Len(p) + 1] = x
        /\ \A i \in 1..Len(p) : q[i] = p[i]
    BY <1>2, <1>3, AppendOne
  <1> HIDE DEF q
  <1>6. n - 2 + 1 = n - 1
    BY <1>1
  <1>7. Len(q) = n - 1 /\ q[n - 1] = x /\ \A i \in 1..(n - 2) : q[i] = scopes[i]
    BY <1>3, <1>5, <1>6
  <1>8. \A i \in 1..(n - 1) : q[i].name = scopes[i].name /\ (q[i].failed <=> scopes[i].failed)
    <2> SUFFICES ASSUME NEW i \in 1..(n - 1)
                 PROVE  q[i].name = scopes[i].name /\ (q[i].failed <=> scopes[i].failed)
      OBVIOUS
    <2>1. i = n - 1 \/ i \in 1..(n - 2)
      BY <1>1
    <2> QED BY <2>1, <1>2, <1>7
  <1>9. Ascending(q) /\ UpTo(q, k)
    <2>1. /\ Len(q) \in Nat /\ Len(q) <= n /\ \A i \in 1..Len(q) : q[i].name = scopes[i].name
          /\ Ascending(scopes) /\ UpTo(scopes, k)
      BY <1>1, <1>7, <1>8 DEF ScopesOK
    <2> QED BY <2>1, <1>1, NamesKept
  <1>10. Len(q) >= 1 /\ q[1].name = 0
    <2>1. 1 \in 1..(n - 1) /\ scopes[1].name = 0
      BY <1>1 DEF ScopesOK
    <2> QED BY <2>1, <1>1, <1>7, <1>8
  <1>11. ScopesOK(q, k)
    BY <1>5, <1>9, <1>10 DEF ScopesOK
  <1> QED BY <1>2, <1>4, <1>7, <1>8, <1>11

\* release savepoint succeeds: what it wrote is joined on both sides; or it is
\* refused, and the savepoint is recovered.
LEMMA ReleaseStep ==
    ASSUME TransactionInv, Release
    PROVE  TransactionInv'
  <1> DEFINE n == Len(scopes)
             s == session.stack
             name == Inner.name
             after == IF name \in Names THEN Released(name) ELSE session
  <1>1. /\ phase = "callback" /\ step = "releasing"
        /\ UNCHANGED <<phase, sequence, used, db>> /\ Quiet
    BY DEF Release
  <1>2. /\ session \in Sessions /\ link \in BOOLEAN /\ sequence \in Nat /\ Usable \in BOOLEAN
        /\ used \in SUBSET Writes
        /\ ScopesOK(scopes, sequence) /\ n \in Nat /\ n > 1 /\ ~scopes[n].failed
        /\ session.tx => LevelsOK(s, sequence) /\ LevelsInv(scopes, s, "releasing")
        /\ Usable => session.tx
    BY <1>1, CallbackFacts
  <1>3. PICK answer \in {"ok", "error"} :
            /\ Query(Usable /\ name \in Names, after, answer)
            /\ step' = IF answer = "ok" THEN "open" ELSE "recovering"
            /\ scopes' = IF answer = "ok" THEN Joined ELSE scopes
    BY DEF Release
  <1>4. name = scopes[n].name /\ (name \in Names <=> Named(s, name))
    BY <1>2, InnerFacts
  <1>5. session.tx => Below(scopes, s, n) /\ Below(scopes, s, n - 1)
    BY <1>2, OpenBelow, BelowCut
  <1>6. Usable /\ name \in Names =>
           /\ Released(name) \in Sessions /\ Released(name).tx = session.tx
           /\ LevelsOK(Released(name).stack, sequence)
           /\ Below(scopes, Released(name).stack, n - 1)
           /\ ~Named(Released(name).stack, name)
           /\ Healthy(scopes, n - 1) /\ Len(s) = n /\ Stands(scopes, s, n) =>
                 /\ Len(Released(name).stack) = n - 1
                 /\ Released(name).stack[n - 1].staged = s[n - 1].staged \cup s[n].staged
    BY <1>2, <1>4, <1>5, ReleasedOK
  <1>7. (Usable /\ name \in Names) \in BOOLEAN
        /\ (Usable /\ name \in Names => after = Released(name) /\ after \in Sessions)
    BY <1>6
  <1> HIDE DEF after
  <1>8. /\ session' \in Sessions /\ link' \in BOOLEAN
        /\ answer = "ok" => Usable /\ name \in Names /\ session' = Released(name)
        /\ \/ session'.stack = s /\ session'.tx = session.tx
           \/ Usable /\ name \in Names /\ session' = Released(name)
           \/ session' = Idle
    BY <1>2, <1>3, <1>7, QueryFacts
  <1>9. CASE answer = "error"
    <2>1. scopes' = scopes /\ step' = "recovering"
      BY <1>9, <1>3
    <2>2. session'.tx => LevelsOK(session'.stack, sequence) /\ LevelsInv(scopes, session'.stack, "recovering")
      <3>1. CASE session'.stack = s /\ session'.tx = session.tx
        BY <3>1, <1>2, <1>5 DEF LevelsInv
      <3>2. CASE Usable /\ name \in Names /\ session' = Released(name)
        BY <3>2, <1>4, <1>6 DEF LevelsInv
      <3>3. CASE session' = Idle
        BY <3>3 DEF Idle
      <3> QED BY <3>1, <3>2, <3>3, <1>8
    <2>3. CallbackKeeps
      BY <2>1, <2>2, <1>8, <1>1, <1>2 DEF CallbackKeeps, Quiet, Steps
    <2> QED BY <2>3, <1>1, CallbackStep
  <1>10. CASE answer = "ok"
    <2> DEFINE r == Released(name).stack
               j == Joined
    <2>1. scopes' = j /\ step' = "open" /\ session' = Released(name) /\ session.tx /\ Usable /\ name \in Names
      BY <1>1, <1>8, <1>10, <1>2, <1>3
    <2>2. /\ ScopesOK(j, sequence) /\ Len(j) = n - 1
          /\ \A i \in 1..(n - 1) : j[i].name = scopes[i].name /\ (j[i].failed <=> scopes[i].failed)
          /\ \A i \in 1..(n - 2) : j[i] = scopes[i]
          /\ j[n - 1].wrote = scopes[n - 1].wrote \cup scopes[n].wrote
      BY <1>2, JoinedFacts
    <2>3. LevelsOK(r, sequence) /\ Below(scopes, r, n - 1)
      BY <2>1, <1>6
    <2>4. n - 1 \in Nat /\ n - 1 >= 1
      BY <1>2
    <2>5. \A i \in 0..(n - 1) : Healthy(j, i) <=> Healthy(scopes, i)
      <3> HIDE DEF j
      <3> SUFFICES ASSUME NEW i \in 0..(n - 1) PROVE Healthy(j, i) <=> Healthy(scopes, i)
        OBVIOUS
      <3>1. \A k \in 1..i : j[k].failed <=> scopes[k].failed
        BY <2>2, <1>2
      <3> QED BY <3>1 DEF Healthy
    <2>6. Stands(scopes, s, n) /\ Agrees(scopes, s, n) /\ (Healthy(scopes, n) => Len(s) = n)
      BY <2>1, <1>2 DEF LevelsInv
    <2>7. ASSUME Healthy(j, n - 1)
          PROVE  Len(r) = n - 1 /\ r[n - 1].staged = j[n - 1].wrote
      <3>1. Healthy(scopes, n - 1)
        BY <2>4, <2>5, <2>7
      <3>2. Healthy(scopes, n)
        <4>1. \A i \in 1..n : i = n \/ i \in 1..(n - 1)
          BY <1>2
        <4> QED BY <4>1, <3>1, <1>2 DEF Healthy
      <3>3. s[n].staged = scopes[n].wrote /\ s[n - 1].staged = scopes[n - 1].wrote
        <4>1. n \in 1..n /\ n - 1 \in 1..n
          BY <1>2
        <4> QED BY <4>1, <3>1, <3>2, <2>6 DEF Agrees
      <3> QED BY <3>1, <3>2, <3>3, <2>1, <2>2, <2>6, <1>6
    <2> HIDE DEF r, j
    <2>8. Stands(j, r, n - 1)
      <3> SUFFICES ASSUME NEW i \in 1..(n - 1), Healthy(j, i - 1)
                   PROVE  i <= Len(r) /\ r[i].name = j[i].name
        BY DEF Stands
      <3>1. Healthy(scopes, i - 1)
        BY <2>4, <2>5
      <3> QED BY <3>1, <2>2, <2>3 DEF Below, Stands
    <2>9. Agrees(j, r, n - 1)
      <3> SUFFICES ASSUME NEW i \in 1..(n - 1), Healthy(j, i)
                   PROVE  r[i].staged = j[i].wrote
        BY DEF Agrees
      <3>1. CASE i = n - 1
        BY <3>1, <2>7
      <3>2. CASE i \in 1..(n - 2)
        <4>1. Healthy(scopes, i) /\ i \in 1..((n - 1) - 1)
          BY <3>2, <2>4, <2>5
        <4> QED BY <4>1, <3>2, <2>2, <2>3 DEF Below, Agrees
      <3> QED BY <3>1, <3>2, <1>2
    <2>10. LevelsInv(j, r, "open")
      BY <2>2, <2>7, <2>8, <2>9 DEF LevelsInv
    <2>11. session'.tx => LevelsOK(session'.stack, sequence) /\ LevelsInv(scopes', session'.stack, "open")
      BY <2>1, <2>3, <2>10 DEF r
    <2>12. CallbackKeeps
      BY <2>1, <2>2, <2>11, <1>8, <1>1, <1>2 DEF CallbackKeeps, Quiet, Steps
    <2> QED BY <2>12, <1>1, CallbackStep
  <1> QED BY <1>9, <1>10

\* rollback to savepoint: the level is emptied, or the scope around it is marked.
LEMMA RecoverStep ==
    ASSUME TransactionInv, Recover
    PROVE  TransactionInv'
  <1> DEFINE n == Len(scopes)
             s == session.stack
             name == Inner.name
             after == IF name \in Names THEN RolledTo(name) ELSE session
             accepted == session.tx /\ name \in Names
  <1>1. /\ phase = "callback" /\ step = "recovering"
        /\ UNCHANGED <<phase, sequence, used, db>> /\ Quiet
    BY DEF Recover
  <1>2. /\ session \in Sessions /\ link \in BOOLEAN /\ sequence \in Nat
        /\ used \in SUBSET Writes
        /\ ScopesOK(scopes, sequence) /\ n \in Nat /\ n > 1
        /\ session.tx => LevelsOK(s, sequence) /\ LevelsInv(scopes, s, "recovering")
    BY <1>1, CallbackFacts
  <1>3. PICK answer \in {"ok", "error"} :
            /\ Query(accepted, after, answer)
            /\ step' = IF answer = "ok" THEN "dropping" ELSE "open"
            /\ scopes' = IF answer = "ok" THEN scopes ELSE MarkFailed(Front(scopes))
    BY DEF Recover
  <1>4. name = scopes[n].name /\ (name \in Names <=> Named(s, name))
    BY <1>2, InnerFacts
  <1>5. session.tx /\ name \in Names => Below(scopes, s, n)
    BY <1>2, <1>4 DEF LevelsInv
  <1>6. session.tx => Below(scopes, s, n - 1)
    <2>1. Below(scopes, s, n) => Below(scopes, s, n - 1)
      BY <1>2, BelowCut
    <2> QED BY <2>1, <1>2, <1>4 DEF LevelsInv
  <1>7. accepted =>
           /\ RolledTo(name) \in Sessions /\ LevelsOK(RolledTo(name).stack, sequence)
           /\ Below(scopes, RolledTo(name).stack, n)
           /\ LevelsInv(scopes, RolledTo(name).stack, "dropping")
    BY <1>2, <1>4, <1>5, RolledOK
  <1>8. accepted \in BOOLEAN /\ (accepted => after = RolledTo(name) /\ after \in Sessions)
    BY <1>2, <1>7 DEF Sessions
  <1> HIDE DEF after
  <1>9. /\ session' \in Sessions /\ link' \in BOOLEAN
        /\ answer = "ok" => accepted /\ session' = RolledTo(name)
        /\ \/ session'.stack = s /\ session'.tx = session.tx
           \/ accepted /\ session' = RolledTo(name)
           \/ session' = Idle
    BY <1>2, <1>3, <1>8, QueryFacts
  <1>10. CASE answer = "error"
    <2>1. scopes' = MarkFailed(Front(scopes)) /\ step' = "open"
      BY <1>10, <1>3
    <2>2. session'.tx => LevelsOK(session'.stack, sequence) /\ Below(scopes, session'.stack, n - 1)
      <3>1. CASE session'.stack = s /\ session'.tx = session.tx
        BY <3>1, <1>2, <1>6
      <3>2. CASE accepted /\ session' = RolledTo(name)
        BY <3>2, <1>2, <1>7, BelowCut
      <3>3. CASE session' = Idle
        BY <3>3 DEF Idle
      <3> QED BY <3>1, <3>2, <3>3, <1>9
    <2>3. ScopesOK(scopes', sequence)
      <3>1. ScopesOK(Front(scopes), sequence)
        BY <1>2, FrontOK
      <3> QED BY <3>1, <2>1, MarkedOK
    <2>4. session'.tx => LevelsInv(scopes', session'.stack, "open")
      BY <2>1, <2>2, <1>2, FrontTaint
    <2>5. CallbackKeeps
      BY <2>1, <2>2, <2>3, <2>4, <1>1, <1>2, <1>9 DEF CallbackKeeps, Quiet, Steps
    <2> QED BY <2>5, <1>1, CallbackStep
  <1>11. CASE answer = "ok"
    <2>1. scopes' = scopes /\ step' = "dropping" /\ session' = RolledTo(name) /\ accepted
      BY <1>11, <1>3, <1>9
    <2>2. CallbackKeeps
      BY <2>1, <1>1, <1>2, <1>7, <1>9 DEF CallbackKeeps, Quiet, Steps
    <2> QED BY <2>2, <1>1, CallbackStep
  <1> QED BY <1>10, <1>11

\* release savepoint after a rollback: the emptied level goes, or the scope around it
\* is marked.
LEMMA DropStep ==
    ASSUME TransactionInv, Drop
    PROVE  TransactionInv'
  <1> DEFINE n == Len(scopes)
             s == session.stack
             name == Inner.name
             after == IF name \in Names THEN Released(name) ELSE session
  <1>1. /\ phase = "callback" /\ step = "dropping" /\ step' = "open"
        /\ UNCHANGED <<phase, sequence, used, db>> /\ Quiet
    BY DEF Drop
  <1>2. /\ session \in Sessions /\ link \in BOOLEAN /\ sequence \in Nat /\ Usable \in BOOLEAN
        /\ used \in SUBSET Writes
        /\ ScopesOK(scopes, sequence) /\ n \in Nat /\ n > 1
        /\ session.tx => LevelsOK(s, sequence) /\ LevelsInv(scopes, s, "dropping")
        /\ Usable => session.tx
    BY <1>1, CallbackFacts
  <1>3. PICK answer \in {"ok", "error"} :
            /\ Query(Usable /\ name \in Names, after, answer)
            /\ scopes' = IF answer = "ok" THEN Front(scopes) ELSE MarkFailed(Front(scopes))
    BY DEF Drop
  <1>4. name = scopes[n].name /\ (name \in Names <=> Named(s, name))
    BY <1>2, InnerFacts
  <1>5. session.tx => /\ Below(scopes, s, n) /\ Below(scopes, s, n - 1)
                      /\ Healthy(scopes, n - 1) => Len(s) = n /\ s[n].staged = {}
    <2>1. Below(scopes, s, n) => Below(scopes, s, n - 1)
      BY <1>2, BelowCut
    <2> QED BY <2>1, <1>2 DEF LevelsInv
  <1>6. Usable /\ name \in Names =>
           /\ Released(name) \in Sessions /\ Released(name).tx = session.tx
           /\ LevelsOK(Released(name).stack, sequence)
           /\ Below(scopes, Released(name).stack, n - 1)
           /\ Healthy(scopes, n - 1) /\ Len(s) = n /\ Stands(scopes, s, n) =>
                 /\ Len(Released(name).stack) = n - 1
                 /\ Released(name).stack[n - 1].staged = s[n - 1].staged \cup s[n].staged
    BY <1>2, <1>4, <1>5, ReleasedOK
  <1>7. (Usable /\ name \in Names) \in BOOLEAN
        /\ (Usable /\ name \in Names => after = Released(name) /\ after \in Sessions)
    BY <1>6
  <1> HIDE DEF after
  <1>8. /\ session' \in Sessions /\ link' \in BOOLEAN
        /\ answer = "ok" => Usable /\ name \in Names /\ session' = Released(name)
        /\ \/ session'.stack = s /\ session'.tx = session.tx
           \/ Usable /\ name \in Names /\ session' = Released(name)
           \/ session' = Idle
    BY <1>2, <1>3, <1>7, QueryFacts
  <1>9. ScopesOK(Front(scopes), sequence) /\ ScopesOK(MarkFailed(Front(scopes)), sequence)
    <2>1. ScopesOK(Front(scopes), sequence)
      BY <1>2, FrontOK
    <2> QED BY <2>1, MarkedOK
  <1>10. CASE answer = "error"
    <2>1. scopes' = MarkFailed(Front(scopes))
      BY <1>10, <1>3
    <2>2. session'.tx => LevelsOK(session'.stack, sequence) /\ Below(scopes, session'.stack, n - 1)
      <3>1. CASE session'.stack = s /\ session'.tx = session.tx
        BY <3>1, <1>2, <1>5
      <3>2. CASE Usable /\ name \in Names /\ session' = Released(name)
        BY <3>2, <1>6
      <3>3. CASE session' = Idle
        BY <3>3 DEF Idle
      <3> QED BY <3>1, <3>2, <3>3, <1>8
    <2>3. session'.tx => LevelsInv(scopes', session'.stack, "open")
      BY <2>1, <2>2, <1>2, FrontTaint
    <2>4. CallbackKeeps
      BY <2>1, <2>2, <2>3, <1>1, <1>2, <1>8, <1>9 DEF CallbackKeeps, Quiet, Steps
    <2> QED BY <2>4, <1>1, CallbackStep
  <1>11. CASE answer = "ok"
    <2> DEFINE r == Released(name).stack
               f == Front(scopes)
    <2>1. scopes' = f /\ session' = Released(name) /\ session.tx /\ Usable /\ name \in Names
      BY <1>2, <1>3, <1>8, <1>11
    <2>2. Len(f) = n - 1 /\ \A i \in 1..(n - 1) : f[i] = scopes[i]
      BY <1>2, FrontFacts DEF ScopesOK
    <2>3. LevelsOK(r, sequence) /\ Below(scopes, r, n - 1)
      BY <2>1, <1>6
    <2>4. n - 1 \in Nat /\ n - 1 >= 1
      BY <1>2
    <2>5. Below(f, r, n - 1)
      <3>1. /\ \A i \in 1..(n - 1) : f[i].name = scopes[i].name /\ f[i].wrote = scopes[i].wrote
            /\ \A i \in 1..(n - 1 - 1) : f[i].failed <=> scopes[i].failed
            /\ n - 1 <= n - 1
        BY <2>2, <2>4
      <3> HIDE DEF f, r
      <3> QED BY <3>1, <2>3, <2>4, BelowCut
    <2>6. ASSUME Healthy(f, n - 1)
          PROVE  Len(r) = n - 1 /\ r[n - 1].staged = f[n - 1].wrote
      <3>1. Healthy(scopes, n - 1)
        BY <2>2, <2>4, <2>6 DEF Healthy
      <3>2. Len(s) = n /\ s[n].staged = {} /\ Stands(scopes, s, n) /\ Agrees(scopes, s, n - 1)
        BY <3>1, <2>1, <1>5 DEF Below
      <3>3. n - 1 \in 1..(n - 1)
        BY <2>4
      <3>4. s[n - 1].staged = scopes[n - 1].wrote
        BY <3>1, <3>2, <3>3 DEF Agrees
      <3> QED BY <3>1, <3>2, <3>3, <3>4, <2>1, <2>2, <1>6
    <2> HIDE DEF r, f
    <2>7. Agrees(f, r, n - 1)
      <3> SUFFICES ASSUME NEW i \in 1..(n - 1), Healthy(f, i)
                   PROVE  r[i].staged = f[i].wrote
        BY DEF Agrees
      <3>1. CASE i = n - 1
        BY <3>1, <2>6
      <3>2. CASE i \in 1..(n - 1 - 1)
        BY <3>2, <2>5 DEF Below, Agrees
      <3> QED BY <3>1, <3>2, <1>2
    <2>8. LevelsInv(f, r, "open")
      BY <2>2, <2>5, <2>6, <2>7 DEF LevelsInv, Below
    <2>9. ScopesOK(f, sequence)
      BY <1>9 DEF f
    <2>10. session'.tx => LevelsOK(session'.stack, sequence) /\ LevelsInv(scopes', session'.stack, "open")
      BY <2>1, <2>3, <2>8 DEF r
    <2>11. CallbackKeeps
      BY <2>1, <2>9, <2>10, <1>8, <1>1, <1>2 DEF CallbackKeeps, Quiet, Steps
    <2> QED BY <2>11, <1>1, CallbackStep
  <1> QED BY <1>10, <1>11

-----------------------------------------------------------------------------
(* The steps of the transaction around the callback.                         *)
LEMMA OneScope ==
    ASSUME NEW stack, Len(stack) = 1, stack[1] = Level(0)
    PROVE  LevelsInv(<<Scope(0)>>, stack, "open") /\ Ascending(stack) /\ UpTo(stack, 0)
  <1>1. Len(<<Scope(0)>>) = 1 /\ <<Scope(0)>>[1] = Scope(0)
    OBVIOUS
  <1>2. stack[1].name = 0 /\ stack[1].staged = {} /\ Scope(0).name = 0 /\ Scope(0).wrote = {}
    BY DEF Level, Scope
  <1> DEFINE list == <<Scope(0)>>
  <1>3. Len(list) = 1 /\ list[1] = Scope(0)
    BY <1>1
  <1> HIDE DEF list
  <1>4. LevelsInv(list, stack, "open")
    BY <1>2, <1>3 DEF LevelsInv, Stands, Agrees, Healthy
  <1> QED BY <1>2, <1>4 DEF Ascending, UpTo, list

\* A transaction that has not connected holds nothing.
LEMMA InitTransaction == Init => TransactionInv
  <1> SUFFICES ASSUME Init PROVE TransactionInv
    OBVIOUS
  <1> USE DEF Init
  <1>1. Scope(0) \in Scopes /\ Idle \in Sessions /\ ~Idle.tx /\ Scope(0).name = 0
    BY DEF Scope, Scopes, Idle, Sessions
  <1>2. scopes \in Seq(Scopes) /\ Len(scopes) = 1 /\ scopes[1] = Scope(0)
    BY <1>1
  <1>3. TypeOK
    <2>1. scopes \in Seq(Scopes) /\ Len(scopes) >= 1 /\ session \in Sessions
      BY <1>1, <1>2
    <2>2. phase \in Phases /\ step \in Steps /\ outcome \in Outcomes /\ sequence \in Nat
      BY DEF Phases, Steps, Outcomes
    <2> QED BY <2>1, <2>2 DEF TypeOK
  <1>4. ScopeInv
    BY <1>1, <1>2 DEF ScopeInv, Ascending, UpTo
  <1>5. StackInv
    BY <1>1 DEF StackInv
  <1>6. EndInv
    BY <1>1 DEF EndInv
  <1> QED BY <1>3, <1>4, <1>5, <1>6 DEF TransactionInv

\* begin opens the root level, or the transaction is rolled back.
LEMMA BeginStep ==
    ASSUME TransactionInv, Begin
    PROVE  TransactionInv'
  <1>0. TypeOK /\ ScopeInv /\ StackInv /\ EndInv
    BY DEF TransactionInv
  <1>1. /\ phase = "connect" /\ Quiet
        /\ UNCHANGED <<scopes, step, sequence, used, db>>
        /\ scopes = <<Scope(0)>> /\ session = Idle /\ sequence = 0 /\ step = "open" /\ ~Idle.tx
    BY <1>0 DEF Begin, ScopeInv, Idle
  <1>2. PICK answer \in {"ok", "error"} :
            Query(TRUE, Open, answer) /\ phase' = IF answer = "ok" THEN "callback" ELSE "rollback"
    BY DEF Begin
  <1>3. Open \in Sessions /\ Len(Open.stack) = 1 /\ Open.stack[1] = Level(0)
    <2>1. Level(0) \in Levels
      BY DEF Level, Levels
    <2> QED BY <2>1 DEF Open, Sessions
  <1>4. session \in Sessions /\ link \in BOOLEAN
    BY <1>0 DEF TypeOK
  <1>5. /\ session' \in Sessions /\ link' \in BOOLEAN
        /\ \/ session'.tx = session.tx
           \/ session' = Open
           \/ session' = Idle
    BY <1>2, <1>3, <1>4, QueryFacts
  <1>6. TypeOK'
    BY <1>0, <1>1, <1>2, <1>5 DEF TypeOK, Quiet, Phases
  <1>7. ScopeInv'
    BY <1>0, <1>1, <1>2 DEF ScopeInv
  <1>8. StackInv'
    <2>1. CASE session' = Open
      <3>1. LevelsInv(<<Scope(0)>>, Open.stack, "open") /\ Ascending(Open.stack) /\ UpTo(Open.stack, 0)
        BY <1>3, OneScope
      <3>2. scopes' = <<Scope(0)>> /\ sequence' = 0 /\ step' = "open"
        BY <1>1
      <3> QED BY <3>1, <3>2, <2>1 DEF StackInv
    <2>2. CASE ~session'.tx
      BY <2>2 DEF StackInv
    <2> QED BY <2>1, <2>2, <1>1, <1>5
  <1>9. EndInv'
    BY <1>0, <1>1, <1>2 DEF EndInv, Quiet
  <1> QED BY <1>6, <1>7, <1>8, <1>9 DEF TransactionInv

\* The callback returns or throws outside all savepoints: a commit is tried only if
\* the root scope did not fail.
LEMMA CallbackReturnsStep ==
    ASSUME TransactionInv, CallbackReturns
    PROVE  TransactionInv'
  <1>0. TypeOK /\ ScopeInv /\ StackInv /\ EndInv
    BY DEF TransactionInv
  <1>1. /\ phase = "callback" /\ step = "open" /\ Len(scopes) = 1 /\ Quiet
        /\ UNCHANGED <<scopes, step, sequence, session, link, used, db>>
        /\ phase' \in {"commit", "rollback"} /\ (phase' = "commit" => ~scopes[1].failed)
    BY DEF CallbackReturns, MayRelease, Inner, Last
  <1>2. TypeOK'
    BY <1>0, <1>1 DEF TypeOK, Quiet, Phases
  <1>3. ScopeInv'
    BY <1>0, <1>1 DEF ScopeInv
  <1>4. StackInv'
    BY <1>0, <1>1 DEF StackInv
  <1>5. EndInv'
    BY <1>0, <1>1 DEF EndInv, Quiet
  <1> QED BY <1>2, <1>3, <1>4, <1>5 DEF TransactionInv

\* COMMIT: the server makes the root level permanent, which holds what the root scope
\* wrote; the answer may be lost.
LEMMA CommitStep ==
    ASSUME TransactionInv, Commit
    PROVE  TransactionInv'
  <1>0. TypeOK /\ ScopeInv /\ StackInv /\ EndInv
    BY DEF TransactionInv
  <1>1. /\ phase = "commit" /\ commitDispatched' /\ session' = Idle /\ link' \in BOOLEAN
        /\ UNCHANGED <<scopes, step, sequence, used, discardClient, pooled>>
        /\ db = {} /\ outcome = "none" /\ pooled = "no" /\ ~discardClient /\ ~rollbackConfirmed
        /\ step = "open" /\ Len(scopes) = 1 /\ ~scopes[1].failed /\ ~Idle.tx
    BY <1>0 DEF Commit, TypeOK, EndInv, ScopeInv, Idle
  <1>2. /\ (db' = {} \/ (Usable /\ db' = Staged))
        /\ \/ Usable /\ db' = Staged /\ ~rollbackConfirmed' /\ phase' = "release" /\ outcome' = "ok"
           \/ ~Usable /\ db' = {} /\ rollbackConfirmed' /\ phase' = "rollback" /\ outcome' = "none"
           \/ ~rollbackConfirmed' /\ phase' = "rollback" /\ outcome' = "none"
    <2>1. CASE /\ db' = IF Usable THEN Staged ELSE db
               /\ rollbackConfirmed' = ~Usable
               /\ phase' = IF Usable THEN "release" ELSE "rollback"
               /\ outcome' = IF Usable THEN "ok" ELSE outcome
      <3>1. CASE Usable
        BY <2>1, <3>1
      <3>2. CASE ~Usable
        BY <2>1, <3>2, <1>1
      <3> QED BY <3>1, <3>2
    <2>2. CASE /\ db' = (IF Usable THEN Staged ELSE db) \/ db' \in {db} \cup (IF link /\ Usable THEN {Staged} ELSE {})
               /\ UNCHANGED <<rollbackConfirmed, outcome>> /\ phase' = "rollback"
      <3>1. db' = {} \/ (Usable /\ db' = Staged)
        BY <2>2, <1>1
      <3> QED BY <3>1, <2>2, <1>1
    <2> QED BY <2>1, <2>2 DEF Commit
  <1>a. rollbackConfirmed' \in BOOLEAN /\ commitDispatched' \in BOOLEAN
    <2>1. Usable \in BOOLEAN
      BY <1>0 DEF TypeOK, Sessions, Usable
    <2> QED BY <2>1, <1>0, <1>1 DEF Commit, TypeOK
  <1>3. Staged \in SUBSET Writes
    <2>1. session.stack \in Seq(Levels)
      BY <1>0 DEF TypeOK, Sessions
    <2>2. \A i \in DOMAIN session.stack : session.stack[i] \in Levels
      BY <2>1
    <2>3. \A i \in DOMAIN session.stack : session.stack[i].staged \in SUBSET Writes
      BY <2>2 DEF Levels
    <2> QED BY <2>3 DEF Staged
  <1>4. Usable => Staged = scopes[1].wrote
    <2> SUFFICES ASSUME Usable PROVE Staged = scopes[1].wrote
      OBVIOUS
    <2> DEFINE s == session.stack
    <2>1. s \in Seq(Levels) /\ session.tx
      BY <1>0 DEF TypeOK, Sessions, Usable
    <2>2. LevelsInv(scopes, s, "open")
      BY <2>1, <1>0, <1>1 DEF StackInv
    <2>3. Healthy(scopes, 1)
      BY <1>1 DEF Healthy
    <2>4. Len(s) = 1 /\ s[1].staged = scopes[1].wrote
      BY <2>2, <2>3, <1>1 DEF LevelsInv, Agrees
    <2>5. DOMAIN s = {1}
      <3>1. DOMAIN s = 1..Len(s)
        BY <2>1
      <3> QED BY <3>1, <2>4
    <2> QED BY <2>4, <2>5 DEF Staged
  <1>5. Idle \in Sessions
    BY DEF Idle, Sessions
  <1>6. TypeOK'
    <2>1. db' \in SUBSET Writes /\ phase' \in Phases /\ outcome' \in Outcomes
      BY <1>2, <1>3 DEF Phases, Outcomes
    <2> QED BY <2>1, <1>0, <1>1, <1>a, <1>5 DEF TypeOK
  <1>7. ScopeInv'
    BY <1>0, <1>1, <1>2 DEF ScopeInv
  <1>8. StackInv'
    BY <1>1 DEF StackInv
  <1>9. EndInv'
    BY <1>0, <1>1, <1>2, <1>4 DEF EndInv
  <1> QED BY <1>6, <1>7, <1>8, <1>9 DEF TransactionInv

\* The catch block: a commit in doubt is reported as such, otherwise the transaction
\* is rolled back, and a client whose rollback failed is discarded.
LEMMA FailedStep ==
    ASSUME TransactionInv, Failed
    PROVE  TransactionInv'
  <1>0. TypeOK /\ ScopeInv /\ StackInv /\ EndInv
    BY DEF TransactionInv
  <1>1. /\ phase = "rollback" /\ phase' = "release"
        /\ UNCHANGED <<scopes, step, sequence, used, db, commitDispatched, rollbackConfirmed, pooled>>
        /\ session \in Sessions /\ link \in BOOLEAN /\ pooled = "no"
        /\ step = "open" /\ Len(scopes) = 1
    BY <1>0 DEF Failed, TypeOK, ScopeInv, EndInv
  <1>2. Idle \in Sessions /\ ~Idle.tx
    BY DEF Idle, Sessions
  <1>3. /\ session' \in Sessions /\ link' \in BOOLEAN
        /\ (session'.stack = session.stack /\ session'.tx = session.tx) \/ session' = Idle
        /\ \/ outcome' = "unknownCommit" /\ discardClient' = TRUE
           \/ outcome' = "unknownAbort" /\ discardClient' = TRUE
           \/ outcome' = "error" /\ discardClient' = FALSE /\ session' = Idle /\ db = {}
    <2>1. CASE ~NotCommitted(commitDispatched, rollbackConfirmed)
      BY <2>1, <1>1 DEF Failed
    <2>2. CASE NotCommitted(commitDispatched, rollbackConfirmed)
      <3>1. PICK answer \in {"ok", "error"} :
              /\ Query(TRUE, Idle, answer)
              /\ outcome' = IF answer = "ok" THEN "error" ELSE "unknownAbort"
              /\ discardClient' = (answer = "error")
        BY <2>2 DEF Failed
      <3>2. /\ session' \in Sessions /\ link' \in BOOLEAN
            /\ answer = "ok" => session' = Idle
            /\ (session'.stack = session.stack /\ session'.tx = session.tx) \/ session' = Idle
        BY <3>1, <1>1, <1>2, QueryFacts
      <3>3. db = {}
        BY <2>2, <1>0 DEF NotCommitted, EndInv
      <3> QED BY <3>1, <3>2, <3>3
    <2> QED BY <2>1, <2>2
  <1>4. TypeOK'
    BY <1>0, <1>1, <1>3 DEF TypeOK, Phases, Outcomes
  <1>5. ScopeInv'
    BY <1>0, <1>1 DEF ScopeInv
  <1>6. StackInv'
    BY <1>0, <1>1, <1>2, <1>3 DEF StackInv
  <1>7. EndInv'
    BY <1>0, <1>1, <1>2, <1>3 DEF EndInv
  <1> QED BY <1>4, <1>5, <1>6, <1>7 DEF TransactionInv

\* client.release: a client is pooled again only if it need not be discarded.
LEMMA ReleaseClientStep ==
    ASSUME TransactionInv, ReleaseClient
    PROVE  TransactionInv'
  <1>0. TypeOK /\ ScopeInv /\ StackInv /\ EndInv
    BY DEF TransactionInv
  <1>1. /\ phase = "release" /\ phase' = "done"
        /\ UNCHANGED <<scopes, step, sequence, session, link, used, db,
                       commitDispatched, rollbackConfirmed, discardClient>>
        /\ pooled' \in {"clean", "discarded"} /\ (pooled' = "clean" => ~discardClient)
        /\ outcome' = outcome \/ (outcome = "ok" /\ outcome' = "committedError")
    BY DEF ReleaseClient, ReleaseAs
  <1>2. TypeOK'
    BY <1>0, <1>1 DEF TypeOK, Phases, Outcomes
  <1>3. ScopeInv'
    BY <1>0, <1>1 DEF ScopeInv
  <1>4. StackInv'
    BY <1>0, <1>1 DEF StackInv
  <1>5. EndInv'
    BY <1>0, <1>1 DEF EndInv
  <1> QED BY <1>2, <1>3, <1>4, <1>5 DEF TransactionInv

\* Every step keeps the invariant.
LEMMA StepTransaction == TransactionInv /\ [Next]_vars => TransactionInv'
  <1> SUFFICES ASSUME TransactionInv, [Next]_vars PROVE TransactionInv'
    OBVIOUS
  <1>1. CASE Begin
    BY <1>1, BeginStep
  <1>2. CASE SavepointOpen
    BY <1>2, SavepointOpenStep
  <1>3. CASE SavepointReturns
    BY <1>3, SavepointReturnsStep
  <1>4. CASE Release
    BY <1>4, ReleaseStep
  <1>5. CASE Recover
    BY <1>5, RecoverStep
  <1>6. CASE Drop
    BY <1>6, DropStep
  <1>7. CASE CallbackReturns
    BY <1>7, CallbackReturnsStep
  <1>8. CASE Commit
    BY <1>8, CommitStep
  <1>9. CASE Failed
    BY <1>9, FailedStep
  <1>10. CASE ReleaseClient
    BY <1>10, ReleaseClientStep
  <1>11. CASE \E w \in Writes : Statement(w)
    BY <1>11, StatementStep
  <1>12. CASE UNCHANGED vars
    <2>1. /\ TypeOK' = TypeOK /\ ScopeInv' = ScopeInv
          /\ StackInv' = StackInv /\ EndInv' = EndInv
      BY <1>12 DEF vars, TypeOK, ScopeInv, StackInv, EndInv
    <2> QED BY <2>1 DEF TransactionInv
  <1>13. CASE Done
    BY <1>13, <1>12 DEF Done
  <1> QED BY <1>1, <1>2, <1>3, <1>4, <1>5, <1>6, <1>7, <1>8, <1>9, <1>10, <1>11, <1>12, <1>13 DEF Next

\* The invariant holds in every behaviour, for any set of statements, savepoints of
\* any depth, and a server and a connection that may fail at every query.
THEOREM TransactionSafe == Spec => []TransactionInv
  <1>1. QED BY InitTransaction, StepTransaction, PTL DEF Spec

\* CommitIsWhatCallbackSaw: a transaction of the PostgreSQL store told committed has
\* committed exactly what the callback saw succeed outside savepoints that were rolled
\* back.
THEOREM CommitSafe == Spec => []CommitIsWhatCallbackSaw
  <1>1. TransactionInv => CommitIsWhatCallbackSaw
    BY DEF TransactionInv, EndInv, CommitIsWhatCallbackSaw
  <1> QED BY <1>1, TransactionSafe, PTL

\* ErrorMeansNothingCommitted: a transaction that fails with its own error left
\* nothing behind.
THEOREM ErrorSafe == Spec => []ErrorMeansNothingCommitted
  <1>1. TransactionInv => ErrorMeansNothingCommitted
    BY DEF TransactionInv, EndInv, ErrorMeansNothingCommitted
  <1> QED BY <1>1, TransactionSafe, PTL

\* PoolStaysClean: a client goes back to the pool (client.release) only without a
\* transaction on it.
THEOREM PoolSafe == Spec => []PoolStaysClean
  <1>1. TransactionInv => PoolStaysClean
    BY DEF TransactionInv, EndInv, PoolStaysClean
  <1> QED BY <1>1, TransactionSafe, PTL

(***************************************************************************)
(* Writes to one row of a store at a server, by any number of clients.      *)
(***************************************************************************)
CONSTANTS
    Clients,     \* each makes one call
    Adapter,     \* "mongodb", "postgresql", "sqlite" or "firestore"
    MaxVersion   \* bound of the version field

VARIABLES
    row,     \* the row at the server
    life,    \* how often it has been created
    call,    \* the call of each client
    seen,    \* what the row was during the call
    born     \* the life in which a guarded write of the client succeeded

Rows == INSTANCE RowWrites

\* Rows, the phases of a call, and calls.
RowSet == {Rows!Absent} \cup {Rows!Row(v) : v \in Rows!Versions}
Places == {"idle", "write", "exists", "commit", "done"}
CallSet == [op : {"none", "create", "update", "delete"}, expected : Rows!Versions \cup {Rows!None},
            at : Places, read : RowSet, answer : {"none", "ok", "conflict", "notFound"}]

\* Types of the rows' part.
TypeInv ==
    /\ row \in RowSet /\ life \in Nat
    /\ call \in [Clients -> CallSet]
    /\ seen \in [Clients -> SUBSET RowSet]
    /\ born \in [Clients -> Nat]

\* Somebody else's version, or no row, was there during the call.
Mismatch(c) == \E r \in seen[c] : ~r.there \/ r.version # call[c].expected

\* The phases of a call: a row read by Firestore was there; a guarded write
\* that looks for the reason of its zero has missed the row once.
CallInv ==
    \A c \in Clients :
        /\ call[c].answer # "none" => call[c].at = "done"
        /\ Rows!Active(c) => row \in seen[c]
        /\ call[c].at = "exists" => call[c].op # "create" /\ Mismatch(c)
        /\ call[c].at = "commit" => call[c].read.there /\ call[c].op = "update" /\ ~Rows!Guarded
        /\ ~Rows!Guarded \/ call[c].op = "create" => call[c].expected = Rows!None

\* A guarded version of the row's present life is never seen again.
LifeInv ==
    \A c \in Clients : call[c].answer = "ok" /\ call[c].expected < MaxVersion =>
        /\ born[c] <= life
        /\ born[c] = life /\ row.there => row.version > call[c].expected

\* The inductive invariant of writes to one row.
RowInv == TypeInv /\ CallInv /\ LifeInv /\ Rows!AnswersWereTrue /\ Rows!FirstGuardedWriterWins
-----------------------------------------------------------------------------
\* A row keeps the version it was made with.
LEMMA RowFields ==
    ASSUME MaxVersion \in Nat
    PROVE
    /\ ~Rows!Absent.there /\ Rows!Absent \in RowSet
    /\ \A v \in Rows!Versions :
          /\ Rows!Row(v).there /\ Rows!Row(v).version = v
          /\ Rows!Row(v) \in RowSet /\ Rows!Row(v) # Rows!Absent
    /\ \A r \in RowSet : ~r.there => r = Rows!Absent
    /\ \A r \in RowSet : r.there => r.version \in Rows!Versions /\ r = Rows!Row(r.version)
    /\ \A r \in RowSet : r.there \in BOOLEAN
<1>1. ~Rows!Absent.there /\ \A v \in Rows!Versions :
          Rows!Row(v).there /\ Rows!Row(v).version = v /\ Rows!Row(v) # Rows!Absent
  BY DEF Rows!Absent, Rows!Row
<1>2. \A r \in RowSet : r = Rows!Absent \/ \E v \in Rows!Versions : r = Rows!Row(v)
  BY DEF RowSet
<1>3. Rows!Absent.there \in BOOLEAN /\ \A v \in Rows!Versions : Rows!Row(v).there \in BOOLEAN
  BY DEF Rows!Absent, Rows!Row
<1>4. Rows!Absent \in RowSet /\ \A v \in Rows!Versions : Rows!Row(v) \in RowSet
  BY DEF RowSet
<1>5. ASSUME NEW r \in RowSet
      PROVE  /\ ~r.there => r = Rows!Absent
             /\ r.there => r.version \in Rows!Versions /\ r = Rows!Row(r.version)
             /\ r.there \in BOOLEAN
  <2>1. CASE r = Rows!Absent
    BY <1>1, <1>3, <2>1
  <2>2. CASE \E v \in Rows!Versions : r = Rows!Row(v)
    BY <1>1, <1>3, <2>2
  <2> QED BY <1>2, <2>1, <2>2
<1> QED BY <1>1, <1>4, <1>5

\* Only client c's call changes.
OnlyCall(c) == call' \in [Clients -> CallSet] /\ \A d \in Clients : d # c => call'[d] = call[d]

\* An answer ends the call of one client and says nothing else.
LEMMA AnsweredCall ==
    ASSUME TypeInv, NEW c \in Clients, NEW a \in {"ok", "conflict", "notFound"}, Rows!Answered(c, a)
    PROVE  /\ OnlyCall(c) /\ call'[c].op = call[c].op /\ call'[c].expected = call[c].expected
           /\ call'[c].at = "done" /\ call'[c].answer = a
<1> DEFINE y == [call[c] EXCEPT !.at = "done", !.answer = a]
<1>1. call[c] \in CallSet
  BY DEF TypeInv
<1>2. /\ y.op = call[c].op /\ y.expected = call[c].expected /\ y.read = call[c].read
      /\ y.at = "done" /\ y.answer = a /\ y \in CallSet
  BY <1>1 DEF CallSet, Places
<1>3. call' = [call EXCEPT ![c] = y]
  BY DEF Rows!Answered
<1> HIDE DEF y
<1> QED BY <1>2, <1>3 DEF OnlyCall, TypeInv

\* A call that goes on keeps what it was asked and what it read.
LEMMA GoesCall ==
    ASSUME TypeInv, NEW c \in Clients, NEW at \in Places, Rows!Goes(c, at)
    PROVE  /\ OnlyCall(c) /\ call'[c].op = call[c].op /\ call'[c].expected = call[c].expected
           /\ call'[c].at = at /\ call'[c].answer = call[c].answer /\ call'[c].read = call[c].read
<1> DEFINE y == [call[c] EXCEPT !.at = at]
<1>1. call[c] \in CallSet
  BY DEF TypeInv
<1>2. /\ y.op = call[c].op /\ y.expected = call[c].expected /\ y.read = call[c].read
      /\ y.at = at /\ y.answer = call[c].answer /\ y \in CallSet
  BY <1>1 DEF CallSet
<1>3. call' = [call EXCEPT ![c] = y]
  BY DEF Rows!Goes
<1> HIDE DEF y
<1> QED BY <1>2, <1>3 DEF OnlyCall, TypeInv

\* The row, its life and what was seen of it move together.
RowMoves(c) ==
    /\ row' \in RowSet /\ life' \in Nat /\ seen' \in [Clients -> SUBSET RowSet]
    /\ \A d \in Clients : d # c => seen[d] \subseteq seen'[d]
    /\ \A d \in Clients : Rows!Active(d) => row' \in seen'[d]
    /\ \/ life' > life
       \/ life' = life /\ (row'.there => row.there /\ (Rows!Guarded => row'.version >= row.version))

\* A write of the row is seen by every call under way.
LEMMA BecomesMoves ==
    ASSUME TypeInv, NEW r \in RowSet, Rows!Becomes(r)
    PROVE  /\ row' = r /\ seen' \in [Clients -> SUBSET RowSet]
           /\ \A d \in Clients : seen[d] \subseteq seen'[d]
           /\ \A d \in Clients : Rows!Active(d) => row' \in seen'[d]
<1>1. row' = r /\ seen' = [c \in Clients |-> IF Rows!Active(c) THEN seen[c] \cup {r} ELSE seen[c]]
  BY DEF Rows!Becomes
<1> QED BY <1>1 DEF TypeInv

\* A step that leaves the row alone moves nothing.
LEMMA StillMoves ==
    ASSUME MaxVersion \in Nat, TypeInv, CallInv, row' = row, seen' = seen, life' = life
    PROVE  \A c \in Clients : RowMoves(c)
<1>1. row.there => row.version \in Rows!Versions
  BY RowFields DEF TypeInv
<1> QED BY <1>1 DEF RowMoves, TypeInv, CallInv, Rows!Versions

\* The call of c is sound after the step.
CallSound(c) ==
    LET k == call'[c] IN
    /\ k.answer # "none" => k.at = "done"
    /\ k.at \in {"write", "exists", "commit"} => row' \in seen'[c]
    /\ k.at = "exists" => k.op # "create" /\ Mismatch(c)'
    /\ k.at = "commit" => k.read.there /\ k.op = "update" /\ ~Rows!Guarded
    /\ ~Rows!Guarded \/ k.op = "create" => k.expected = Rows!None
    /\ k.answer = "notFound" => Rows!Absent \in seen'[c]
    /\ k.answer = "conflict" => IF k.op = "create" THEN \E r \in seen'[c] : r.there ELSE Mismatch(c)'
    /\ k.answer = "ok" /\ k.expected < MaxVersion =>
          /\ born'[c] = life' /\ life' = life /\ row.there /\ row.version = k.expected
          /\ row'.there => row'.version > k.expected

\* A step of one client keeps the invariant if its row moves as rows do and its call is
\* sound afterwards: a change made by another client breaks no call.
LEMMA CallStep ==
    ASSUME MaxVersion \in Nat, RowInv, NEW c \in Clients, RowMoves(c), OnlyCall(c), CallSound(c),
           born' \in [Clients -> Nat], \A d \in Clients : d # c => born'[d] = born[d]
    PROVE  RowInv'
<1>0. TypeInv /\ CallInv /\ LifeInv /\ Rows!AnswersWereTrue /\ Rows!FirstGuardedWriterWins
  BY DEF RowInv
<1>1. TypeInv'
  BY DEF TypeInv, RowMoves, OnlyCall
<1>2. ASSUME NEW d \in Clients
      PROVE  /\ call[d] \in CallSet /\ call'[d] \in CallSet
             /\ call[d].expected \in Nat /\ call'[d].expected \in Nat
             /\ born[d] \in Nat /\ born'[d] \in Nat
  BY <1>0, <1>1 DEF TypeInv, CallSet, Rows!Versions, Rows!None
<1>3. /\ row.there => row.version \in Nat
      /\ row'.there => row'.version \in Nat
      /\ life \in Nat /\ life' \in Nat
  BY <1>0, <1>1, RowFields DEF TypeInv, Rows!Versions
<1>4. ASSUME NEW d \in Clients, d # c PROVE call'[d] = call[d] /\ seen[d] \subseteq seen'[d]
  BY <1>4 DEF OnlyCall, RowMoves
<1>5. CallInv'
  <2>1. ASSUME NEW d \in Clients, d # c
        PROVE  /\ call'[d].answer # "none" => call'[d].at = "done"
               /\ Rows!Active(d)' => row' \in seen'[d]
               /\ call'[d].at = "exists" => call'[d].op # "create" /\ Mismatch(d)'
               /\ call'[d].at = "commit" => call'[d].read.there /\ call'[d].op = "update" /\ ~Rows!Guarded
               /\ ~Rows!Guarded \/ call'[d].op = "create" => call'[d].expected = Rows!None
    BY <1>0, <1>4, <2>1 DEF CallInv, RowMoves, Rows!Active, Mismatch
  <2>2. Rows!Active(c)' => call'[c].at \in {"write", "exists", "commit"}
    BY <1>2 DEF Rows!Active, CallSet, Places
  <2> QED BY <2>1, <2>2 DEF CallInv, CallSound
<1>6. LifeInv'
  <2> SUFFICES ASSUME NEW d \in Clients, call'[d].answer = "ok", call'[d].expected < MaxVersion
               PROVE  /\ born'[d] <= life'
                      /\ born'[d] = life' /\ row'.there => row'.version > call'[d].expected
    BY DEF LifeInv
  <2>1. CASE d = c
    BY <1>3, <2>1 DEF CallSound
  <2>2. CASE d # c
    <3>1. /\ call'[d] = call[d] /\ born'[d] = born[d] /\ born[d] <= life
          /\ born[d] = life /\ row.there => row.version > call[d].expected
      BY <1>0, <1>4, <2>2 DEF LifeInv
    <3>2. CASE life' > life
      BY <1>2, <1>3, <3>1, <3>2
    <3>3. CASE life' = life
      <4>1. Rows!Guarded
        BY <1>2, <3>1 DEF CallInv, RowInv, Rows!None
      <4> QED BY <1>2, <1>3, <3>1, <3>3, <4>1 DEF RowMoves
    <3> QED BY <3>2, <3>3 DEF RowMoves
  <2> QED BY <2>1, <2>2
<1>7. Rows!AnswersWereTrue'
  <2>1. ASSUME NEW d \in Clients, d # c
        PROVE  /\ call'[d].answer = "notFound" => Rows!Absent \in seen'[d]
               /\ call'[d].answer = "conflict" =>
                     IF call'[d].op = "create" THEN \E r \in seen'[d] : r.there
                     ELSE \E r \in seen'[d] : ~r.there \/ r.version # call'[d].expected
    BY <1>0, <1>4, <2>1 DEF Rows!AnswersWereTrue
  <2> QED BY <2>1 DEF Rows!AnswersWereTrue, CallSound, Mismatch
<1>8. Rows!FirstGuardedWriterWins'
  <2>1. ASSUME NEW d \in Clients, d # c, call'[c].answer = "ok", call'[d].answer = "ok",
               call'[c].expected = call'[d].expected, call'[c].expected < MaxVersion, born'[c] = born'[d]
        PROVE  FALSE
    <3>1. born'[c] = life /\ row.there /\ row.version = call'[c].expected
      BY <2>1 DEF CallSound
    <3>2. born[d] = life => row.version > call[d].expected
      BY <1>0, <1>4, <2>1, <3>1 DEF LifeInv
    <3>3. born[d] = life /\ call[d].expected = row.version
      BY <1>4, <2>1, <3>1
    <3> QED BY <1>3, <3>1, <3>2, <3>3
  <2>2. ASSUME NEW d \in Clients, NEW e \in Clients, d # e, d # c, e # c,
               call'[d].answer = "ok", call'[e].answer = "ok",
               call'[d].expected = call'[e].expected, call'[d].expected < MaxVersion, born'[d] = born'[e]
        PROVE  born'[d] = 0
    BY <1>0, <1>4, <2>2 DEF Rows!FirstGuardedWriterWins
  <2> SUFFICES ASSUME NEW d \in Clients, NEW e \in Clients, d # e,
                      call'[d].answer = "ok", call'[e].answer = "ok",
                      call'[d].expected = call'[e].expected, call'[d].expected < MaxVersion,
                      born'[d] = born'[e]
               PROVE  born'[d] = 0
    BY DEF Rows!FirstGuardedWriterWins
  <2>3. CASE d = c
    BY <2>1, <2>3
  <2>4. CASE e = c
    <3>1. call'[c].expected < MaxVersion /\ born'[c] = born'[d] /\ call'[c].expected = call'[d].expected
      BY <2>4
    <3> QED BY <2>1, <2>4, <3>1
  <2> QED BY <2>2, <2>3, <2>4
<1> QED BY <1>1, <1>5, <1>6, <1>7, <1>8 DEF RowInv

-----------------------------------------------------------------------------
(* The actions. *)
\* A call begins (create, update, delete of the stores).
LEMMA BeginRow ==
    ASSUME MaxVersion \in Nat, RowInv, NEW c \in Clients, Rows!Begin(c)
    PROVE  RowInv'
<1>0. TypeInv /\ CallInv
  BY DEF RowInv
<1>1. PICK o \in Rows!Ops : /\ Rows!IsLegal(o)
                       /\ call' = [call EXCEPT ![c].op = o.op, ![c].expected = o.expected, ![c].at = "write"]
  BY DEF Rows!Begin
<1> DEFINE y == [call[c] EXCEPT !.op = o.op, !.expected = o.expected, !.at = "write"]
<1>2. call[c] \in CallSet /\ call[c].answer = "none"
  BY <1>0 DEF TypeInv, CallInv, Rows!Begin
<1>3. o.op \in {"create", "update", "delete"} /\ o.expected \in Rows!Versions \cup {Rows!None}
  BY DEF Rows!Ops
<1>4. y.op = o.op /\ y.expected = o.expected /\ y.at = "write" /\ y.answer = "none" /\ y \in CallSet
  BY <1>2, <1>3 DEF CallSet, Places
<1>5. call' = [call EXCEPT ![c] = y]
  BY <1>1
<1> HIDE DEF y
<1>6. OnlyCall(c) /\ call'[c] = y
  BY <1>0, <1>4, <1>5 DEF OnlyCall, TypeInv
<1>7. row' = row /\ life' = life /\ born' = born /\ seen' = [seen EXCEPT ![c] = {row}]
      /\ call[c].at = "idle"
  BY DEF Rows!Begin
<1>8. RowMoves(c)
  <2>1. seen'[c] = {row} /\ \A d \in Clients : d # c => seen'[d] = seen[d]
    BY <1>0, <1>7 DEF TypeInv
  <2>2. row \in RowSet /\ (row.there => row.version >= row.version)
    BY <1>0, RowFields DEF TypeInv, Rows!Versions
  <2> QED BY <1>0, <1>7, <2>1, <2>2 DEF RowMoves, TypeInv, CallInv
<1>9. CallSound(c)
  <2>1. seen'[c] = {row}
    BY <1>0, <1>7 DEF TypeInv
  <2>2. ~Rows!Guarded \/ y.op = "create" => y.expected = Rows!None
    BY <1>1, <1>4 DEF Rows!IsLegal
  <2> QED BY <1>4, <1>6, <1>7, <2>1, <2>2 DEF CallSound
<1> QED BY <1>0, <1>6, <1>7, <1>8, <1>9, CallStep DEF TypeInv

\* An answer that changes no row: it was true when it was given.
LEMMA AnswerStep ==
    ASSUME MaxVersion \in Nat, RowInv, NEW c \in Clients, Rows!Active(c),
           NEW a \in {"ok", "conflict", "notFound"}, Rows!Answered(c, a), UNCHANGED <<row, life, seen, born>>,
           a = "ok" => call[c].expected = Rows!None,
           a = "notFound" => ~row.there,
           a = "conflict" => IF call[c].op = "create" THEN row.there ELSE Mismatch(c)
    PROVE  RowInv'
<1>0. TypeInv /\ CallInv
  BY DEF RowInv
<1>1. /\ OnlyCall(c) /\ call'[c].op = call[c].op /\ call'[c].expected = call[c].expected
      /\ call'[c].at = "done" /\ call'[c].answer = a
  BY <1>0, AnsweredCall
<1>2. row \in seen[c] /\ row \in RowSet /\ (~row.there => row = Rows!Absent)
  BY <1>0, RowFields DEF CallInv, TypeInv
<1>3. CallSound(c)
  <2>1. a = "conflict" => IF call'[c].op = "create" THEN \E r \in seen'[c] : r.there ELSE Mismatch(c)'
    BY <1>1, <1>2 DEF Mismatch
  <2>2. a = "notFound" => Rows!Absent \in seen'[c]
    BY <1>2
  <2>3. ~(Rows!None < MaxVersion)
    BY DEF Rows!None
  <2>4. ~Rows!Guarded \/ call'[c].op = "create" => call'[c].expected = Rows!None
    BY <1>0, <1>1 DEF CallInv
  <2> QED BY <1>1, <2>1, <2>2, <2>3, <2>4 DEF CallSound
<1> QED BY <1>0, <1>1, <1>3, StillMoves, CallStep DEF TypeInv

\* create: the primary key refuses a second row, or the row begins a new life.
LEMMA CreateRow ==
    ASSUME MaxVersion \in Nat, RowInv, NEW c \in Clients, Rows!Create(c)
    PROVE  RowInv'
<1>0. TypeInv /\ CallInv /\ Rows!Active(c) /\ call[c].op = "create" /\ born' = born
  BY DEF RowInv, Rows!Create, Rows!Active
<1>1. CASE row.there
  BY <1>0, <1>1, AnswerStep DEF Rows!Create, Rows!DuplicateIsConflict
<1>2. CASE ~row.there
  <2>1. Rows!Becomes(Rows!Row(0)) /\ life' = life + 1 /\ Rows!Answered(c, "ok")
    BY <1>2 DEF Rows!Create
  <2>2. Rows!Row(0) \in RowSet /\ 0 \in Rows!Versions
    BY RowFields DEF Rows!Versions
  <2>3. /\ row' \in RowSet /\ seen' \in [Clients -> SUBSET RowSet]
        /\ \A d \in Clients : seen[d] \subseteq seen'[d]
        /\ \A d \in Clients : Rows!Active(d) => row' \in seen'[d]
    BY <1>0, <2>1, <2>2, BecomesMoves
  <2>4. RowMoves(c)
    BY <1>0, <2>1, <2>3 DEF RowMoves, TypeInv
  <2>5. /\ OnlyCall(c) /\ call'[c].op = call[c].op /\ call'[c].expected = call[c].expected
        /\ call'[c].at = "done" /\ call'[c].answer = "ok"
    BY <1>0, <2>1, AnsweredCall
  <2>6. CallSound(c)
    <3>1. ~(Rows!None < MaxVersion)
      BY DEF Rows!None
    <3>2. call'[c].expected = Rows!None /\ call'[c].op = "create"
      BY <1>0, <2>5 DEF CallInv
    <3> QED BY <2>5, <3>1, <3>2 DEF CallSound
  <2> QED BY <1>0, <2>4, <2>5, <2>6, CallStep DEF TypeInv
<1> QED BY <1>1, <1>2

\* A call that goes on and changes no row.
LEMMA GoStep ==
    ASSUME MaxVersion \in Nat, RowInv, NEW c \in Clients, Rows!Active(c),
           NEW at \in {"write", "exists"}, Rows!Goes(c, at), UNCHANGED <<row, life, seen, born>>,
           call[c].op # "create", at = "exists" => Mismatch(c)
    PROVE  RowInv'
<1>0. TypeInv /\ CallInv
  BY DEF RowInv
<1>1. /\ OnlyCall(c) /\ call'[c].op = call[c].op /\ call'[c].expected = call[c].expected
      /\ call'[c].at = at /\ call'[c].answer = call[c].answer
  BY <1>0, GoesCall DEF Places
<1>2. row \in seen[c] /\ call[c].answer = "none"
  BY <1>0 DEF CallInv, Rows!Active, TypeInv, CallSet
<1>3. CallSound(c)
  <2>1. Mismatch(c)' = Mismatch(c)
    BY <1>1 DEF Mismatch
  <2>2. ~Rows!Guarded \/ call'[c].op = "create" => call'[c].expected = Rows!None
    BY <1>0, <1>1 DEF CallInv
  <2> QED BY <1>1, <1>2, <2>1, <2>2 DEF CallSound
<1> QED BY <1>0, <1>1, <1>3, StillMoves, CallStep DEF TypeInv

\* A call that changes the row and is answered.
LEMMA ChangeStep ==
    ASSUME MaxVersion \in Nat, RowInv, NEW c \in Clients, NEW r \in RowSet,
           Rows!Becomes(r), Rows!Answered(c, "ok"),
           life' = life, born' \in [Clients -> Nat], \A d \in Clients : d # c => born'[d] = born[d],
           r.there => row.there /\ (Rows!Guarded => r.version >= row.version),
           call[c].expected # Rows!None =>
               /\ born'[c] = life /\ row.there /\ row.version = call[c].expected
               /\ call[c].expected < MaxVersion /\ r.there => r.version > call[c].expected
    PROVE  RowInv'
<1>0. TypeInv /\ CallInv
  BY DEF RowInv
<1>1. /\ OnlyCall(c) /\ call'[c].op = call[c].op /\ call'[c].expected = call[c].expected
      /\ call'[c].at = "done" /\ call'[c].answer = "ok"
  BY <1>0, AnsweredCall
<1>2. /\ row' = r /\ seen' \in [Clients -> SUBSET RowSet]
      /\ \A d \in Clients : seen[d] \subseteq seen'[d]
      /\ \A d \in Clients : Rows!Active(d) => row' \in seen'[d]
  BY <1>0, BecomesMoves
<1>3. RowMoves(c)
  BY <1>0, <1>2 DEF RowMoves, TypeInv
<1>4. CallSound(c)
  <2>1. ~(Rows!None < MaxVersion)
    BY DEF Rows!None
  <2>2. ~Rows!Guarded \/ call'[c].op = "create" => call'[c].expected = Rows!None
    BY <1>0, <1>1 DEF CallInv
  <2> QED BY <1>1, <1>2, <2>1, <2>2 DEF CallSound
<1> QED BY <1>1, <1>3, <1>4, CallStep

\* update and delete of MongoDB, PostgreSQL and SQLite: the write with its guard, and
\* what its count is taken for.
LEMMA WriteRow ==
    ASSUME MaxVersion \in Nat, RowInv, NEW c \in Clients, Rows!Write(c)
    PROVE  RowInv'
<1>0. TypeInv /\ CallInv /\ Rows!Active(c) /\ call[c].op # "create" /\ Rows!Guarded /\ life' = life
  BY DEF RowInv, Rows!Write, Rows!Active
<1>1. CASE Rows!Matches(c)
  <2>1. Rows!Becomes(Rows!Result(c)) /\ Rows!Answered(c, "ok") /\ row.there
        /\ born' = [born EXCEPT ![c] = IF call[c].expected = Rows!None THEN 0 ELSE life]
    BY <1>1 DEF Rows!Write, Rows!Matches
  <2>2. row.version \in Rows!Versions /\ call[c].expected \in Rows!Versions \cup {Rows!None}
    BY <1>0, <2>1, RowFields DEF TypeInv, CallSet
  <2>3. call[c].expected # Rows!None => call[c].expected = row.version
    BY <1>1 DEF Rows!Matches
  <2> DEFINE v == Rows!Next1(IF call[c].expected = Rows!None THEN row.version ELSE call[c].expected)
  <2>4. v \in Rows!Versions /\ v >= row.version /\ (row.version < MaxVersion => v > row.version)
    BY <2>2, <2>3 DEF Rows!Next1, Rows!Versions
  <2>5. Rows!Result(c) = Rows!Absent \/ Rows!Result(c) = Rows!Row(v)
    BY DEF Rows!Result
  <2> HIDE DEF v
  <2>6. Rows!Result(c) \in RowSet /\ (Rows!Result(c).there => Rows!Result(c).version = v)
    BY <2>4, <2>5, RowFields
  <2>7. born' \in [Clients -> Nat] /\ (call[c].expected # Rows!None => born'[c] = life)
        /\ \A d \in Clients : d # c => born'[d] = born[d]
    BY <1>0, <2>1 DEF TypeInv
  <2> QED BY <1>0, <2>1, <2>3, <2>4, <2>6, <2>7, ChangeStep
<1>2. CASE ~Rows!Matches(c)
  <2>1. Rows!Zero(c) /\ UNCHANGED <<row, life, seen, born>>
    BY <1>2 DEF Rows!Write
  <2>2. row \in seen[c] /\ row.there \in BOOLEAN
    BY <1>0, RowFields DEF CallInv, TypeInv
  <2>3. CASE call[c].expected = Rows!None
    BY <1>0, <1>2, <2>1, <2>3, AnswerStep DEF Rows!Zero, Rows!Matches
  <2>4. CASE call[c].expected # Rows!None
    <3>1. Mismatch(c)
      BY <1>2, <2>2, <2>4 DEF Rows!Matches, Mismatch
    <3>2. CASE Adapter = "sqlite"
      BY <1>0, <2>1, <2>4, <3>1, <3>2, AnswerStep DEF Rows!Zero, Rows!Reason
    <3>3. CASE Adapter # "sqlite"
      BY <1>0, <2>1, <2>4, <3>1, <3>3, GoStep DEF Rows!Zero
    <3> QED BY <3>2, <3>3
  <2> QED BY <2>3, <2>4
<1> QED BY <1>1, <1>2

\* documentExists and postgresRowExists: the look at the row after a guarded write that
\* matched nothing.
LEMMA ExistsRow ==
    ASSUME MaxVersion \in Nat, RowInv, NEW c \in Clients, Rows!Exists(c)
    PROVE  RowInv'
<1>1. CallInv /\ Rows!Active(c) /\ call[c].at = "exists" /\ Rows!Answered(c, Rows!Reason(c, row.there))
      /\ UNCHANGED <<row, life, seen, born>>
  BY DEF RowInv, Rows!Exists, Rows!Active
<1>2. call[c].op # "create" /\ Mismatch(c)
  BY <1>1 DEF CallInv
<1> QED BY <1>1, <1>2, AnswerStep DEF Rows!Reason

\* Firestore: the delete, and the transaction of replaceFirestoreDocument.
LEMMA FirestoreRow ==
    ASSUME MaxVersion \in Nat, RowInv, NEW c \in Clients,
           Rows!FirestoreDelete(c) \/ Rows!FirestoreGet(c) \/ Rows!FirestoreSet(c)
    PROVE  RowInv'
<1>0. TypeInv /\ CallInv /\ Rows!Active(c) /\ call[c] \in CallSet /\ born \in [Clients -> Nat]
  BY DEF RowInv, Rows!FirestoreDelete, Rows!FirestoreGet, Rows!FirestoreSet, Rows!Active, TypeInv
<1>1. CASE Rows!FirestoreDelete(c)
  <2>1. Rows!Becomes(Rows!Absent) /\ Rows!Answered(c, "ok") /\ UNCHANGED <<life, born>>
        /\ call[c].expected = Rows!None
    BY <1>0, <1>1 DEF Rows!FirestoreDelete, CallInv
  <2> QED BY <1>0, <2>1, RowFields, ChangeStep
<1>2. CASE Rows!FirestoreGet(c)
  <2>1. CASE ~row.there
    BY <1>0, <1>2, <2>1, AnswerStep DEF Rows!FirestoreGet
  <2>2. CASE row.there
    <3> DEFINE y == [call[c] EXCEPT !.at = "commit", !.read = row]
    <3>1. row \in RowSet /\ row \in seen[c] /\ call[c].answer = "none" /\ call[c].op = "update"
          /\ call[c].expected = Rows!None /\ ~Rows!Guarded
      BY <1>0, <1>2 DEF Rows!FirestoreGet, TypeInv, CallInv, CallSet
    <3>2. y.op = "update" /\ y.expected = Rows!None /\ y.at = "commit" /\ y.answer = "none"
          /\ y.read = row /\ y \in CallSet
      BY <1>0, <3>1 DEF CallSet, Places
    <3>3. call' = [call EXCEPT ![c] = y] /\ UNCHANGED <<row, life, seen, born>>
      BY <1>2, <2>2 DEF Rows!FirestoreGet
    <3> HIDE DEF y
    <3>4. OnlyCall(c) /\ call'[c] = y
      BY <1>0, <3>2, <3>3 DEF OnlyCall, TypeInv
    <3>5. CallSound(c)
      BY <2>2, <3>1, <3>2, <3>3, <3>4 DEF CallSound
    <3> QED BY <1>0, <3>3, <3>4, <3>5, StillMoves, CallStep
  <2> QED BY <2>1, <2>2
<1>3. CASE Rows!FirestoreSet(c)
  <2>1. /\ call[c].read.there /\ call[c].op = "update" /\ call[c].at = "commit"
        /\ ~Rows!Guarded /\ UNCHANGED <<life, born>>
    BY <1>0, <1>3 DEF Rows!FirestoreSet, CallInv
  <2>2. CASE row = call[c].read
    <3>1. Rows!Becomes(Rows!Result(c)) /\ Rows!Answered(c, "ok") /\ row.there
      BY <1>3, <2>1, <2>2 DEF Rows!FirestoreSet, Rows!SetInTransaction
    <3>2. row.version \in Rows!Versions /\ call[c].expected \in Rows!Versions \cup {Rows!None}
      BY <1>0, <3>1, RowFields DEF TypeInv, CallSet
    <3>3. call[c].expected = Rows!None
      BY <1>0, <2>1 DEF CallInv
    <3>4. Rows!Result(c) = Rows!Row(Rows!Next1(row.version)) /\ Rows!Next1(row.version) \in Rows!Versions
      BY <2>1, <3>2, <3>3 DEF Rows!Result, Rows!Next1, Rows!Versions
    <3>5. Rows!Result(c) \in RowSet
      BY <3>4, RowFields
    <3> QED BY <1>0, <2>1, <3>1, <3>3, <3>5, ChangeStep
  <2>3. CASE row # call[c].read
    BY <1>0, <1>3, <2>1, <2>3, GoStep DEF Rows!FirestoreSet, Rows!SetInTransaction
  <2> QED BY <2>2, <2>3
<1> QED BY <1>1, <1>2, <1>3

-----------------------------------------------------------------------------
\* Before any call.
LEMMA InitRow ==
    ASSUME MaxVersion \in Nat, Rows!Init
    PROVE  RowInv
<1>0. /\ call = [c \in Clients |-> Rows!Idle] /\ seen = [c \in Clients |-> {}] /\ born = [c \in Clients |-> 0]
      /\ row \in {Rows!Absent, Rows!Row(0)}
  BY DEF Rows!Init
<1>1. /\ Rows!Idle.op = "none" /\ Rows!Idle.expected = Rows!None
      /\ Rows!Idle.at = "idle" /\ Rows!Idle.answer = "none"
  BY DEF Rows!Idle
<1>2. Rows!Idle \in CallSet /\ row \in RowSet /\ life \in Nat
  <2>1. 0 \in Rows!Versions
    BY DEF Rows!Versions
  <2>2. Rows!Absent \in RowSet /\ Rows!Row(0) \in RowSet
    BY <2>1, RowFields
  <2>3. life \in Nat
    <3>1. life = IF row.there THEN 1 ELSE 0
      BY DEF Rows!Init
    <3> QED BY <3>1
  <2> QED BY <1>0, <2>2, <2>3 DEF Rows!Idle, CallSet, Places
<1>3. TypeInv
  BY <1>0, <1>2 DEF TypeInv
<1>4. CallInv /\ LifeInv /\ Rows!AnswersWereTrue /\ Rows!FirstGuardedWriterWins
  BY <1>0, <1>1 DEF CallInv, LifeInv, Rows!AnswersWereTrue, Rows!FirstGuardedWriterWins, Rows!Active
<1> QED BY <1>3, <1>4 DEF RowInv

\* Every step keeps the invariant.
LEMMA NextRow ==
    ASSUME MaxVersion \in Nat, RowInv, [Rows!Next]_(Rows!vars)
    PROVE  RowInv'
<1>1. CASE UNCHANGED Rows!vars
  BY <1>1 DEF Rows!vars, RowInv, TypeInv, CallInv, LifeInv,
     Rows!AnswersWereTrue, Rows!FirstGuardedWriterWins, Rows!Active, Mismatch
<1>2. ASSUME NEW c \in Clients,
             \/ Rows!Begin(c) \/ Rows!Create(c) \/ Rows!Write(c) \/ Rows!Exists(c)
             \/ Rows!FirestoreDelete(c) \/ Rows!FirestoreGet(c) \/ Rows!FirestoreSet(c)
      PROVE  RowInv'
  BY <1>2, BeginRow, CreateRow, WriteRow, ExistsRow, FirestoreRow
<1> QED BY <1>1, <1>2 DEF Rows!Next, Rows!Done

\* The invariant of one row (MongoDB, PostgreSQL, SQLite, Firestore) holds in every
\* behaviour, for any number of clients that create, update and delete it.
THEOREM RowSafe == Rows!RowWritesAssumption => (Rows!Spec => []RowInv)
<1> SUFFICES ASSUME Rows!RowWritesAssumption PROVE Rows!Spec => []RowInv
  OBVIOUS
<1>1. MaxVersion \in Nat
  BY DEF Rows!RowWritesAssumption
<1>2. Rows!Init => RowInv
  BY <1>1, InitRow
<1>3. RowInv /\ [Rows!Next]_(Rows!vars) => RowInv'
  BY <1>1, NextRow
<1> QED BY <1>2, <1>3, PTL DEF Rows!Spec

\* AnswersWereTrue: what create, update and delete of one row tell their caller (not
\* found, conflict) was so at some moment of the call, although MongoDB and PostgreSQL
\* look for the reason only after the write.
THEOREM AnswersStayTrue == Rows!RowWritesAssumption => (Rows!Spec => []Rows!AnswersWereTrue)
<1> SUFFICES ASSUME Rows!RowWritesAssumption PROVE Rows!Spec => []Rows!AnswersWereTrue
  OBVIOUS
<1>1. Rows!Spec => []RowInv
  BY RowSafe
<1>2. RowInv => Rows!AnswersWereTrue
  BY DEF RowInv
<1> QED BY <1>1, <1>2, PTL

\* FirstGuardedWriterWins: of the updates and deletes guarded with one version of one
\* life of the row (expectedVersion), one succeeds at most.
THEOREM GuardedWritesOnce == Rows!RowWritesAssumption => (Rows!Spec => []Rows!FirstGuardedWriterWins)
<1> SUFFICES ASSUME Rows!RowWritesAssumption PROVE Rows!Spec => []Rows!FirstGuardedWriterWins
  OBVIOUS
<1>1. Rows!Spec => []RowInv
  BY RowSafe
<1>2. RowInv => Rows!FirstGuardedWriterWins
  BY DEF RowInv
<1> QED BY <1>1, <1>2, PTL

\* UpdateNeverRevives: only create brings a deleted row back; Firestore's replace does
\* not write a document again that was deleted after it was read.
THEOREM NothingRevives == Rows!RowWritesAssumption => (Rows!Spec => [][Rows!UpdateNeverRevives]_(Rows!vars))
<1> SUFFICES ASSUME Rows!RowWritesAssumption PROVE Rows!Spec => [][Rows!UpdateNeverRevives]_(Rows!vars)
  OBVIOUS
<1>1. Rows!Spec => []RowInv
  BY RowSafe
<1>2. RowInv /\ [Rows!Next]_(Rows!vars) => [Rows!UpdateNeverRevives]_(Rows!vars)
  <2> SUFFICES ASSUME RowInv, [Rows!Next]_(Rows!vars), ~row.there, row'.there PROVE life' = life + 1
    BY DEF Rows!UpdateNeverRevives
  <2>1. row' # row
    OBVIOUS
  <2>2. PICK c \in Clients :
          Rows!Create(c) \/ Rows!Write(c) \/ Rows!FirestoreDelete(c) \/ Rows!FirestoreSet(c)
    BY <2>1 DEF Rows!Next, Rows!Done, Rows!vars, Rows!Begin, Rows!Exists, Rows!FirestoreGet
  <2>3. CASE Rows!Create(c)
    BY <2>3 DEF Rows!Create
  <2>4. ~Rows!Write(c)
    BY <2>1 DEF Rows!Write, Rows!Matches
  <2>5. ~Rows!FirestoreDelete(c)
    BY DEF Rows!FirestoreDelete, Rows!Becomes, Rows!Absent
  <2>6. ~Rows!FirestoreSet(c)
    BY <2>1 DEF Rows!FirestoreSet, Rows!SetInTransaction, RowInv, CallInv
  <2> QED BY <2>2, <2>3, <2>4, <2>5, <2>6
<1> QED BY <1>1, <1>2, PTL DEF Rows!Spec
-----------------------------------------------------------------------------
(* A transaction of the MongoDB store (MongoTransaction), for every finite set *)
(* of writes and every order in which the callback starts them.              *)

VARIABLES
    stage,          \* "start", "callback", "settling", "abort", "commit", "end", "done"
    closed,         \* the guard of the transaction's adapter
    failure,        \* the callback threw, or an operation nobody attended to failed
    command,        \* [Writes -> "none", "refused", "queued", "sent", "ok", "failed"]
    attended,       \* calls whose promise the callback observes
    tail,           \* operationTail: calls that wait for their turn on the session
    driverSession,  \* the server's transaction: "none", "open", "aborted", "over"
    staged,         \* writes made in it
    written,        \* writes visible outside
    lost,           \* writes made in a transaction that was then aborted
    commitSent,     \* commitDispatched
    confirmed,      \* confirmTransactionRollback
    reported        \* the outcome

Mongo == INSTANCE MongoTransaction WITH
    phase <- stage, call <- command, session <- driverSession, db <- written,
    commitDispatched <- commitSent, outcome <- reported

\* The states of a call, the phases of the transaction and what its caller can be
\* told.
CommandStates == {"none", "refused", "queued", "sent", "ok", "failed"}
SessionPhases == {"start", "callback", "settling", "abort", "commit", "end", "done"}
SessionOutcomes == {"none", "ok", "committedError", "conflict", "error", "unknownCommit", "unknownAbort"}

\* Types.
SessionTypes ==
    /\ stage \in SessionPhases /\ closed \in BOOLEAN /\ failure \in BOOLEAN
    /\ command \in [Writes -> CommandStates] /\ attended \in SUBSET Writes
    /\ tail \in Seq(Writes)
    /\ driverSession \in {"none", "open", "aborted", "over"}
    /\ staged \in SUBSET Writes /\ written \in SUBSET Writes /\ lost \in SUBSET Writes
    /\ commitSent \in BOOLEAN /\ confirmed \in BOOLEAN /\ reported \in SessionOutcomes

(* What waits in the tail is queued, each write once, and one is on the       *)
(* session.                                                                   *)
TailInv ==
    /\ \A i \in 1..Len(tail) : command[tail[i]] = "queued"
    /\ \A i, j \in 1..Len(tail) : tail[i] = tail[j] => i = j
    /\ \A v, w \in Writes : command[v] = "sent" /\ command[w] = "sent" => v = w

(* The adapter is closed before the transaction ends, and by then no call is  *)
(* left on its way to the session: none can run on its own afterwards.        *)
ClosedInv ==
    /\ stage \in {"settling", "commit", "abort"} => closed
    /\ stage \in {"end", "done"} => closed \/ driverSession = "none"
    /\ stage \in {"start", "callback"} => ~closed
    /\ driverSession = "none" => \A w \in Writes : command[w] = "none"
    /\ stage \in {"commit", "abort", "end", "done"} => \A w \in Writes : command[w] \notin {"queued", "sent"}
    /\ driverSession = "none" <=> stage = "start" \/ (stage \in {"end", "done"} /\ ~closed)
    /\ driverSession = "over" => stage \in {"end", "done"}

\* What the outcome says of the database: nothing is there before a commit was sent, a
\* confirmed failure left nothing, and a commit is sent only if no call failed that
\* nobody attended to.
OutcomeInv ==
    /\ stage \in {"start", "callback", "settling", "commit", "abort"} =>
          reported = "none" /\ written = {} /\ ~confirmed
    /\ written # {} => reported \in {"ok", "committedError", "unknownCommit"}
    /\ confirmed => reported \in {"conflict", "error"}
    /\ driverSession = "open" => \A w \in Writes : command[w] = "ok" => w \in staged
    /\ reported \in {"ok", "committedError"} => \A w \in Writes : command[w] = "ok" => w \in written
    /\ \A w \in Writes : command[w] = "failed" => failure \/ w \in attended
    /\ stage = "commit" \/ reported \in {"ok", "committedError"} => ~failure

SessionInv == SessionTypes /\ TailInv /\ ClosedInv /\ OutcomeInv

-----------------------------------------------------------------------------
\* The queue without its head.
LEMMA RemoveHead ==
    ASSUME NEW S, NEW s \in Seq(S), Len(s) >= 1
    PROVE  /\ Mongo!RemoveAt(s, 1) \in Seq(S) /\ Len(Mongo!RemoveAt(s, 1)) = Len(s) - 1
           /\ \A i \in 1..(Len(s) - 1) : Mongo!RemoveAt(s, 1)[i] = s[i + 1]
  <1> DEFINE rest == SubSeq(s, 2, Len(s))
  <1>1. Len(s) \in Int /\ Len(s) \in Nat /\ 1 \in Int /\ 2 \in Int /\ 0 \in Int /\ 0 < 1
    OBVIOUS
  <1>2. \A i \in 2..Len(s) : s[i] \in S
    OBVIOUS
  <1>3. rest \in Seq(S)
    BY <1>1, <1>2, SubSeqProperties
  <1>4. Len(rest) = IF 2 <= Len(s) THEN Len(s) - 2 + 1 ELSE 0
    BY <1>1, <1>2, SubSeqProperties
  <1>5. \A i \in 1..(Len(s) - 2 + 1) : rest[i] = s[2 + i - 1]
    BY <1>1, <1>2, SubSeqProperties
  <1>6. SubSeq(s, 1, 0) = <<>>
    BY <1>1, SubSeqEmpty
  <1>7. Mongo!RemoveAt(s, 1) = <<>> \o rest
    <2>1. 1 - 1 = 0 /\ 1 + 1 = 2
      OBVIOUS
    <2>2. Mongo!RemoveAt(s, 1) = SubSeq(s, 1, 1 - 1) \o SubSeq(s, 1 + 1, Len(s))
      BY DEF Mongo!RemoveAt
    <2> QED BY <2>1, <2>2, <1>6
  <1> HIDE DEF rest
  <1>8. Mongo!RemoveAt(s, 1) = rest
    BY <1>3, <1>7, ConcatEmptySeq
  <1>9. Len(rest) = Len(s) - 1
    <2> DEFINE n == Len(s)
               m == Len(rest)
    <2>1. n \in Nat /\ n >= 1 /\ m = IF 2 <= n THEN n - 2 + 1 ELSE 0
      BY <1>1, <1>4
    <2> HIDE DEF n, m
    <2>2. m = n - 1
      BY <2>1
    <2> QED BY <2>2 DEF n, m
  <1>10. \A i \in 1..(Len(s) - 1) : rest[i] = s[i + 1]
    BY <1>1, <1>5
  <1> QED BY <1>3, <1>8, <1>9, <1>10

\* A transaction that has not started holds nothing.
THEOREM InitSession == Mongo!Init => SessionInv
  <1> SUFFICES ASSUME Mongo!Init PROVE SessionInv
    OBVIOUS
  <1>1. tail \in Seq(Writes) /\ command \in [Writes -> CommandStates] /\ \A w \in Writes : command[w] = "none"
    BY DEF Mongo!Init, CommandStates
  <1>2. SessionTypes
    BY <1>1 DEF Mongo!Init, SessionTypes, SessionPhases, SessionOutcomes
  <1>3. TailInv
    BY <1>1 DEF Mongo!Init, TailInv
  <1>4. ClosedInv
    BY <1>1 DEF Mongo!Init, ClosedInv
  <1>5. OutcomeInv
    BY <1>1 DEF Mongo!Init, OutcomeInv
  <1> QED BY <1>2, <1>3, <1>4, <1>5 DEF SessionInv

(* The session starts, or it does not.                                       *)
LEMMA StartStep ==
    ASSUME SessionInv, Mongo!Start
    PROVE  SessionInv'
  <1>0. SessionTypes /\ TailInv /\ ClosedInv /\ OutcomeInv
    BY DEF SessionInv
  <1>91. SessionTypes'
    BY <1>0 DEF SessionTypes, Mongo!Start, SessionPhases, SessionOutcomes, Mongo!Apply,
       Mongo!Discard, Mongo!CommitFails, Mongo!CommitFailure, Mongo!EndReported
  <1>92. TailInv'
    BY <1>0 DEF TailInv, Mongo!Start
  <1>93. ClosedInv'
    BY <1>0 DEF ClosedInv, Mongo!Start, SessionTypes, SessionPhases, Mongo!Waited, Mongo!Calls
  <1>94. OutcomeInv'
    BY <1>0 DEF OutcomeInv, ClosedInv, Mongo!Start, SessionTypes, SessionPhases, SessionOutcomes,
       Mongo!Apply, Mongo!Discard, Mongo!CommitFails, Mongo!CommitFailure, Mongo!EndReported,
       Mongo!Waited, Mongo!Calls
  <1> QED BY <1>91, <1>92, <1>93, <1>94 DEF SessionInv

(* The callback settles, and the adapter is closed behind it.                *)
LEMMA SettleStep ==
    ASSUME SessionInv, Mongo!Settle
    PROVE  SessionInv'
  <1>0. SessionTypes /\ TailInv /\ ClosedInv /\ OutcomeInv
    BY DEF SessionInv
  <1>91. SessionTypes'
    BY <1>0 DEF SessionTypes, Mongo!Settle, SessionPhases, SessionOutcomes, Mongo!Apply,
       Mongo!Discard, Mongo!CommitFails, Mongo!CommitFailure, Mongo!EndReported
  <1>92. TailInv'
    BY <1>0 DEF TailInv, Mongo!Settle
  <1>93. ClosedInv'
    BY <1>0 DEF ClosedInv, Mongo!Settle, SessionTypes, SessionPhases, Mongo!Waited, Mongo!Calls
  <1>94. OutcomeInv'
    BY <1>0 DEF OutcomeInv, ClosedInv, Mongo!Settle, SessionTypes, SessionPhases, SessionOutcomes,
       Mongo!Apply, Mongo!Discard, Mongo!CommitFails, Mongo!CommitFailure, Mongo!EndReported,
       Mongo!Waited, Mongo!Calls
  <1> QED BY <1>91, <1>92, <1>93, <1>94 DEF SessionInv

(* Every operation has settled: commit, or abort when one failed unseen.     *)
LEMMA WaitsStep ==
    ASSUME SessionInv, Mongo!Waits
    PROVE  SessionInv'
  <1>0. SessionTypes /\ TailInv /\ ClosedInv /\ OutcomeInv
    BY DEF SessionInv
  <1>91. SessionTypes'
    BY <1>0 DEF SessionTypes, Mongo!Waits, SessionPhases, SessionOutcomes, Mongo!Apply,
       Mongo!Discard, Mongo!CommitFails, Mongo!CommitFailure, Mongo!EndReported
  <1>92. TailInv'
    BY <1>0 DEF TailInv, Mongo!Waits
  <1>93. ClosedInv'
    BY <1>0 DEF ClosedInv, Mongo!Waits, SessionTypes, SessionPhases, Mongo!Waited, Mongo!Calls
  <1>94. OutcomeInv'
    BY <1>0 DEF OutcomeInv, ClosedInv, Mongo!Waits, SessionTypes, SessionPhases, SessionOutcomes,
       Mongo!Apply, Mongo!Discard, Mongo!CommitFails, Mongo!CommitFailure, Mongo!EndReported,
       Mongo!Waited, Mongo!Calls
  <1> QED BY <1>91, <1>92, <1>93, <1>94 DEF SessionInv

(* The commit, and what its error says of it.                                *)
LEMMA SessionCommitStep ==
    ASSUME SessionInv, Mongo!Commit
    PROVE  SessionInv'
  <1>0. SessionTypes /\ TailInv /\ ClosedInv /\ OutcomeInv
    BY DEF SessionInv
  <1>91. SessionTypes'
    BY <1>0 DEF SessionTypes, Mongo!Commit, SessionPhases, SessionOutcomes, Mongo!Apply,
       Mongo!Discard, Mongo!CommitFails, Mongo!CommitFailure, Mongo!EndReported
  <1>92. TailInv'
    BY <1>0 DEF TailInv, Mongo!Commit
  <1>93. ClosedInv'
    BY <1>0 DEF ClosedInv, Mongo!Commit, SessionTypes, SessionPhases, Mongo!Waited, Mongo!Calls
  <1>94. OutcomeInv'
    BY <1>0 DEF OutcomeInv, ClosedInv, Mongo!Commit, SessionTypes, SessionPhases, SessionOutcomes,
       Mongo!Apply, Mongo!Discard, Mongo!CommitFails, Mongo!CommitFailure, Mongo!EndReported,
       Mongo!Waited, Mongo!Calls
  <1> QED BY <1>91, <1>92, <1>93, <1>94 DEF SessionInv

(* The abort.                                                                *)
LEMMA AbortStep ==
    ASSUME SessionInv, Mongo!Abort
    PROVE  SessionInv'
  <1>0. SessionTypes /\ TailInv /\ ClosedInv /\ OutcomeInv
    BY DEF SessionInv
  <1>91. SessionTypes'
    BY <1>0 DEF SessionTypes, Mongo!Abort, SessionPhases, SessionOutcomes, Mongo!Apply,
       Mongo!Discard, Mongo!CommitFails, Mongo!CommitFailure, Mongo!EndReported
  <1>92. TailInv'
    BY <1>0 DEF TailInv, Mongo!Abort
  <1>93. ClosedInv'
    BY <1>0 DEF ClosedInv, Mongo!Abort, SessionTypes, SessionPhases, Mongo!Waited, Mongo!Calls
  <1>94. OutcomeInv'
    BY <1>0 DEF OutcomeInv, ClosedInv, Mongo!Abort, SessionTypes, SessionPhases, SessionOutcomes,
       Mongo!Apply, Mongo!Discard, Mongo!CommitFails, Mongo!CommitFailure, Mongo!EndReported,
       Mongo!Waited, Mongo!Calls
  <1> QED BY <1>91, <1>92, <1>93, <1>94 DEF SessionInv

(* The end of the session.                                                   *)
LEMMA EndStep ==
    ASSUME SessionInv, Mongo!EndSession
    PROVE  SessionInv'
  <1>0. SessionTypes /\ TailInv /\ ClosedInv /\ OutcomeInv
    BY DEF SessionInv
  <1>91. SessionTypes'
    BY <1>0 DEF SessionTypes, Mongo!EndSession, SessionPhases, SessionOutcomes, Mongo!Apply,
       Mongo!Discard, Mongo!CommitFails, Mongo!CommitFailure, Mongo!EndReported
  <1>92. TailInv'
    BY <1>0 DEF TailInv, Mongo!EndSession
  <1>93. ClosedInv'
    BY <1>0 DEF ClosedInv, Mongo!EndSession, SessionTypes, SessionPhases, Mongo!Waited, Mongo!Calls
  <1>94. OutcomeInv'
    BY <1>0 DEF OutcomeInv, ClosedInv, Mongo!EndSession, SessionTypes, SessionPhases,
       SessionOutcomes, Mongo!Apply, Mongo!Discard, Mongo!CommitFails, Mongo!CommitFailure,
       Mongo!EndReported, Mongo!Waited, Mongo!Calls
  <1> QED BY <1>91, <1>92, <1>93, <1>94 DEF SessionInv

(* A call is queued, or refused by the closed adapter.                       *)
LEMMA SessionCallStep ==
    ASSUME SessionInv, NEW w \in Writes, Mongo!Call(w)
    PROVE  SessionInv'
  <1>0. SessionTypes /\ TailInv /\ ClosedInv /\ OutcomeInv
    BY DEF SessionInv
  <1>1. command[w] = "none" /\ driverSession # "none"
        /\ UNCHANGED <<stage, closed, failure, driverSession, staged, written, lost,
                        commitSent, confirmed, reported>>
    BY DEF Mongo!Call
  <1>2. /\ command' \in [Writes -> CommandStates] /\ \A v \in Writes : v # w => command'[v] = command[v]
        /\ command'[w] = (IF closed THEN "refused" ELSE "queued")
    BY <1>0 DEF Mongo!Call, SessionTypes, CommandStates
  <1>3. \A i \in 1..Len(tail) : tail[i] \in Writes /\ tail[i] # w
    BY <1>0, <1>1 DEF SessionTypes, TailInv
  <1>4. /\ tail' \in Seq(Writes) /\ attended' \in SUBSET Writes /\ attended \subseteq attended'
        /\ IF closed THEN tail' = tail
           ELSE /\ Len(tail') = Len(tail) + 1 /\ tail'[Len(tail) + 1] = w
                /\ \A i \in 1..Len(tail) : tail'[i] = tail[i]
    <2>1. tail \in Seq(Writes) /\ attended \in SUBSET Writes
      BY <1>0 DEF SessionTypes
    <2> QED BY <2>1 DEF Mongo!Call
  <1>91. SessionTypes'
    BY <1>0, <1>1, <1>2, <1>4 DEF SessionTypes
  <1>92. TailInv'
    <2>1. CASE closed
      BY <2>1, <1>0, <1>2, <1>3, <1>4 DEF TailInv
    <2>2. CASE ~closed
      <3>1. Len(tail) \in Nat
        BY <1>0 DEF SessionTypes
      <3>2. \A i \in 1..Len(tail') : command'[tail'[i]] = "queued"
        BY <2>2, <3>1, <1>0, <1>2, <1>3, <1>4 DEF TailInv
      <3>3. \A i, j \in 1..Len(tail') : tail'[i] = tail'[j] => i = j
        BY <2>2, <3>1, <1>0, <1>3, <1>4 DEF TailInv
      <3>4. \A u, v \in Writes : command'[u] = "sent" /\ command'[v] = "sent" => u = v
        BY <2>2, <1>0, <1>2 DEF TailInv
      <3> QED BY <3>2, <3>3, <3>4 DEF TailInv
    <2> QED BY <2>1, <2>2
  <1>93. ClosedInv'
    BY <1>0, <1>1, <1>2 DEF ClosedInv, SessionTypes, SessionPhases
  <1>94. OutcomeInv'
    BY <1>0, <1>1, <1>2, <1>4 DEF OutcomeInv
  <1> QED BY <1>91, <1>92, <1>93, <1>94 DEF SessionInv

(* The first of the tail is sent when nothing is on the session.             *)
LEMMA SendStep ==
    ASSUME SessionInv, NEW w \in Writes, Mongo!Send(w)
    PROVE  SessionInv'
  <1>0. SessionTypes /\ TailInv /\ ClosedInv /\ OutcomeInv
    BY DEF SessionInv
  <1>1. /\ UNCHANGED <<stage, closed, failure, attended, driverSession, staged, written, lost,
                        commitSent, confirmed, reported>>
        /\ command' = [command EXCEPT ![w] = "sent"] /\ \A v \in Writes : command[v] # "sent"
        /\ tail # <<>> /\ w = tail[1] /\ tail' = Mongo!RemoveAt(tail, 1)
    BY DEF Mongo!Send, Mongo!HeadWhenIdle, Mongo!Calls
  <1>2. tail \in Seq(Writes) /\ Len(tail) \in Nat /\ Len(tail) >= 1
    BY <1>0, <1>1 DEF SessionTypes
  <1>3. /\ tail' \in Seq(Writes) /\ Len(tail') = Len(tail) - 1
        /\ \A i \in 1..(Len(tail) - 1) : tail'[i] = tail[i + 1]
    <2>1. /\ Mongo!RemoveAt(tail, 1) \in Seq(Writes) /\ Len(Mongo!RemoveAt(tail, 1)) = Len(tail) - 1
          /\ \A i \in 1..(Len(tail) - 1) : Mongo!RemoveAt(tail, 1)[i] = tail[i + 1]
      BY <1>2, RemoveHead
    <2> QED BY <2>1, <1>1
  <1>4. command[w] = "queued" /\ stage \in {"callback", "settling"}
    BY <1>0, <1>1, <1>2 DEF TailInv, ClosedInv, SessionTypes, SessionPhases
  <1>5. /\ command' \in [Writes -> CommandStates] /\ \A v \in Writes : v # w => command'[v] = command[v]
        /\ command'[w] = "sent"
    BY <1>0, <1>1 DEF SessionTypes, CommandStates
  <1>91. SessionTypes'
    BY <1>0, <1>1, <1>3, <1>5 DEF SessionTypes
  <1>92. TailInv'
    <2>1. \A i \in 1..Len(tail') : tail'[i] = tail[i + 1] /\ i + 1 \in 1..Len(tail) /\ tail[i + 1] \in Writes
      BY <1>2, <1>3
    <2>2. \A i \in 1..Len(tail') : tail'[i] # w
      BY <2>1, <1>0, <1>1, <1>2 DEF TailInv
    <2>3. \A i \in 1..Len(tail') : command'[tail'[i]] = "queued"
      BY <2>1, <2>2, <1>0, <1>5 DEF TailInv
    <2>4. \A i, j \in 1..Len(tail') : tail'[i] = tail'[j] => i = j
      BY <2>1, <1>0, <1>2, <1>3 DEF TailInv
    <2>5. \A u, v \in Writes : command'[u] = "sent" /\ command'[v] = "sent" => u = v
      BY <1>1, <1>5
    <2> QED BY <2>3, <2>4, <2>5 DEF TailInv
  <1>93. ClosedInv'
    BY <1>0, <1>1, <1>4, <1>5 DEF ClosedInv
  <1>94. OutcomeInv'
    BY <1>0, <1>1, <1>5 DEF OutcomeInv
  <1> QED BY <1>91, <1>92, <1>93, <1>94 DEF SessionInv

(* The answer of what was sent: only the transaction's own session is there.  *)
LEMMA SessionAnswerStep ==
    ASSUME SessionInv, NEW w \in Writes, Mongo!Answer(w)
    PROVE  SessionInv'
  <1>0. SessionTypes /\ TailInv /\ ClosedInv /\ OutcomeInv
    BY DEF SessionInv
  <1>1. /\ UNCHANGED <<stage, closed, attended, tail, lost, commitSent, confirmed, reported>>
        /\ command[w] = "sent"
    BY DEF Mongo!Answer
  <1>2. stage \in {"callback", "settling"} /\ driverSession # "over"
    BY <1>0, <1>1 DEF ClosedInv, SessionTypes, SessionPhases
  <1>3. /\ UNCHANGED written /\ failure' \in BOOLEAN /\ (failure => failure')
        /\ staged' \in SUBSET Writes /\ staged \subseteq staged'
        /\ driverSession' \in {"none", "open", "aborted"}
        /\ driverSession' = "none" <=> driverSession = "none"
        /\ driverSession' = "open" => driverSession = "open"
    BY <1>0, <1>1, <1>2 DEF Mongo!Answer, Mongo!Fails, SessionTypes
  <1>4. /\ command' \in [Writes -> CommandStates] /\ \A v \in Writes : v # w => command'[v] = command[v]
        /\ command'[w] \in {"ok", "failed"}
        /\ command'[w] = "ok" => w \in staged' \/ driverSession' # "open"
        /\ command'[w] = "failed" => failure' \/ w \in attended
    BY <1>0, <1>1, <1>2 DEF Mongo!Answer, Mongo!Fails, SessionTypes, CommandStates
  <1>91. SessionTypes'
    BY <1>0, <1>1, <1>3, <1>4 DEF SessionTypes
  <1>92. TailInv'
    <2>1. \A i \in 1..Len(tail) : tail[i] \in Writes /\ tail[i] # w
      BY <1>0, <1>1 DEF SessionTypes, TailInv
    <2> QED BY <2>1, <1>0, <1>1, <1>4 DEF TailInv
  <1>93. ClosedInv'
    BY <1>0, <1>1, <1>2, <1>3, <1>4 DEF ClosedInv
  <1>94. OutcomeInv'
    BY <1>0, <1>1, <1>2, <1>3, <1>4 DEF OutcomeInv
  <1> QED BY <1>91, <1>92, <1>93, <1>94 DEF SessionInv

\* Every step keeps the invariant: calls, answers and the end of the transaction in
\* any order the driver allows.
THEOREM StepSession == SessionInv /\ [Mongo!Next]_(Mongo!vars) => SessionInv'
  <1> SUFFICES ASSUME SessionInv, [Mongo!Next]_(Mongo!vars) PROVE SessionInv'
    OBVIOUS
  <1>1. CASE UNCHANGED Mongo!vars
    BY <1>1 DEF Mongo!vars, SessionInv, SessionTypes, TailInv, ClosedInv, OutcomeInv
  <1> QED BY <1>1, StartStep, SettleStep, WaitsStep, SessionCommitStep, AbortStep, EndStep, SessionCallStep,
        SendStep, SessionAnswerStep DEF Mongo!Next, Mongo!Done

\* The invariant of the session holds in every behaviour, for any number of operations
\* started in parallel.
THEOREM SessionSafe == Mongo!Spec => []SessionInv
  BY InitSession, StepSession, PTL DEF Mongo!Spec

\* OneCommandAtATime: the tail of MongoTransactionState.run lets one command on the
\* session, in spite of a callback that does not wait.
THEOREM OneCommand == Mongo!Spec => []Mongo!OneCommandAtATime
  <1>1. SessionInv => Mongo!OneCommandAtATime
    BY DEF SessionInv, TailInv, Mongo!OneCommandAtATime
  <1> QED BY <1>1, SessionSafe, PTL

\* RolledBackMeansNothing: a transaction reported as rolled back (conflict or error,
\* transaction in mongodb.ts) left nothing in the database.
THEOREM SessionRollbackSafe == Mongo!Spec => []Mongo!RolledBackMeansNothing
  <1>1. SessionInv => Mongo!RolledBackMeansNothing
    BY DEF SessionInv, OutcomeInv, Mongo!RolledBackMeansNothing
  <1> QED BY <1>1, SessionSafe, PTL

\* CommittedMeansAll: a transaction reported as committed holds every call that was
\* answered with success, and no call failed unseen.
THEOREM SessionCommitSafe == Mongo!Spec => []Mongo!CommittedMeansAll
  <1>1. SessionInv => Mongo!CommittedMeansAll
    BY DEF SessionInv, OutcomeInv, Mongo!CommittedMeansAll
  <1> QED BY <1>1, SessionSafe, PTL

-----------------------------------------------------------------------------
(* A transaction of the Firestore store (FirestoreTransaction), for any        *)
(* documents, calls that overlap in any order and attempts of the SDK.       *)

CONSTANTS
    Keys,          \* documents
    MaxCalls,      \* bound: calls of the callback in one attempt
    MaxAttempts    \* the SDK's attempts

VARIABLES
    attempt,
    moment,            \* "callback", "settling", "commit", "again", "done"
    calls,             \* of this attempt, in order
    buffered,          \* [Keys -> index of the call whose mutation is buffered, 0 none]
    registered,        \* calls whose write the SDK holds, in order
    dirty,             \* a write has been registered
    pointReads,        \* keys whose document the attempt has read
    exists,            \* [Keys -> whether the document is there at the server]
    lateRead,          \* the SDK was asked to read after a write
    wrote, created, completed,
    applied,           \* attempts whose writes the server has applied
    undone,            \* confirmTransactionRollback
    settled            \* the outcome

Fire == INSTANCE FirestoreTransaction WITH
    phase <- moment, confirmed <- undone, outcome <- settled

\* The records of calls, and types.
DocumentAnswers == {"none", "ok", "conflict", "notFound", "refused"}
DocumentCalls == [op : Fire!Mutations \cup {"get"}, key : Keys, at : {"queued", "reading", "done"},
                  answer : DocumentAnswers, value : Nat, known : Nat]
DocumentTypes ==
    /\ calls \in Seq(DocumentCalls) /\ buffered \in [Keys -> Nat] /\ registered \in Seq(Nat)
    /\ wrote \in BOOLEAN /\ completed \in BOOLEAN
    /\ moment \in {"callback", "settling", "commit", "again", "done"}

\* A call that has begun waits for no mutation of its document any more.
WaitedInv ==
    \A i \in 1 .. Len(calls) : \A j \in 1 .. i - 1 :
        calls[i].at # "queued" /\ calls[j].op \in Fire!Mutations /\ calls[j].key = calls[i].key
            => calls[j].at = "done"

\* The mutation that is buffered is the last of its document that succeeded.
Wins(i, k) == calls[i].key = k /\ calls[i].op \in Fire!Mutations /\ calls[i].answer = "ok"
BufferedInv ==
    \A k \in Keys :
        /\ buffered[k] = 0 => \A i \in 1 .. Len(calls) : ~Wins(i, k)
        /\ buffered[k] # 0 => /\ buffered[k] \in 1 .. Len(calls) /\ Wins(buffered[k], k)
                              /\ \A i \in 1 .. Len(calls) : Wins(i, k) => i <= buffered[k]

\* The SDK holds the mutations that succeeded, those of one document in the order of
\* the calls.
RegisteredInv ==
    /\ \A n \in 1 .. Len(registered) :
          /\ registered[n] \in 1 .. Len(calls)
          /\ calls[registered[n]].op \in Fire!Mutations /\ calls[registered[n]].answer = "ok"
    /\ \A i \in 1 .. Len(calls) : calls[i].op \in Fire!Mutations /\ calls[i].answer = "ok" =>
          \E n \in 1 .. Len(registered) : registered[n] = i
    /\ \A m, n \in 1 .. Len(registered) :
          m < n /\ calls[registered[m]].key = calls[registered[n]].key => registered[m] < registered[n]

\* What a call has found.
DocumentCallOK(i) ==
    /\ calls[i].answer # "none" <=> calls[i].at = "done"
    /\ calls[i].at # "done" => calls[i].value = 0
    /\ calls[i].known # 0 => calls[i].known \in 1 .. i - 1 /\ Wins(calls[i].known, calls[i].key)
    /\ calls[i].op = "get" /\ calls[i].at = "reading" => calls[i].known = 0
    /\ calls[i].op = "get" /\ calls[i].answer = "ok" => calls[i].value >= calls[i].known
DocumentCallInv == \A i \in 1 .. Len(calls) : DocumentCallOK(i)

\* How often the writes have been applied, by how far the attempts are.
AttemptsInv ==
    /\ moment \in {"callback", "settling", "commit"} => applied = 0
    /\ moment = "commit" => completed
    /\ moment = "again" => applied = 0 \/ (applied = 1 /\ completed /\ wrote)
    /\ moment # "done" => settled = "none" /\ ~undone
    /\ Fire!AppliedOnce

DocumentInv ==
    /\ DocumentTypes /\ WaitedInv /\ BufferedInv /\ RegisteredInv /\ DocumentCallInv /\ AttemptsInv
    /\ Fire!ReadsBeforeWrites
-----------------------------------------------------------------------------
\* What the types say of the calls and of the registered writes.
LEMMA DocumentTyped ==
    ASSUME DocumentTypes
    PROVE  /\ Len(calls) \in Nat /\ DOMAIN calls = 1 .. Len(calls)
           /\ \A i \in 1 .. Len(calls) : calls[i] \in DocumentCalls
           /\ Len(registered) \in Nat /\ DOMAIN registered = 1 .. Len(registered)
           /\ \A n \in 1 .. Len(registered) : registered[n] \in Nat
  BY DEF DocumentTypes

\* The mutations that succeeded are those that win over the earlier ones.
LEMMA SucceededIs ==
    ASSUME DocumentTypes, NEW k
    PROVE  \A i : i \in Fire!Succeeded(k) <=> i \in 1 .. Len(calls) /\ Wins(i, k)
  BY DocumentTyped DEF Fire!Succeeded, Wins, Fire!IsOf

\* The last success the callback knows of a document is the mutation that is buffered.
LEMMA KnownIs ==
    ASSUME DocumentInv, NEW k \in Keys
    PROVE  Fire!KnownOf(k) = buffered[k]
<1>0. DocumentTypes /\ BufferedInv /\ buffered[k] \in Nat /\ Len(calls) \in Nat
  BY DocumentTyped DEF DocumentInv, DocumentTypes
<1>1. CASE buffered[k] = 0
  <2>1. Fire!Succeeded(k) = {}
    BY <1>0, <1>1, SucceededIs DEF BufferedInv
  <2> QED BY <1>1, <2>1 DEF Fire!KnownOf
<1>2. CASE buffered[k] # 0
  <2>1. buffered[k] \in Fire!Succeeded(k) /\ \A l \in Fire!Succeeded(k) : l <= buffered[k]
    BY <1>0, <1>2, SucceededIs DEF BufferedInv
  <2>2. \A j \in Fire!Succeeded(k) : j \in Int
    BY <1>0, SucceededIs
  <2> DEFINE S == Fire!Succeeded(k)
             b == buffered[k]
  <2> HIDE DEF S, b
  <2>3. b \in S /\ (\A l \in S : l <= b) /\ \A j \in S : j \in Int
    BY <2>1, <2>2 DEF S, b
  <2>4. (CHOOSE j \in S : \A l \in S : l <= j) = b
    <3>1. \A j \in S : (\A l \in S : l <= j) => j = b
      BY <2>3
    <3> QED BY <2>3, <3>1
  <2>5. S # {}
    BY <2>3
  <2>6. Fire!KnownOf(k) = IF S = {} THEN 0 ELSE CHOOSE j \in S : \A l \in S : l <= j
    BY DEF Fire!KnownOf, S
  <2> QED BY <2>4, <2>5, <2>6 DEF b
<1> QED BY <1>1, <1>2

\* A new call: it stands last, has changed nothing, and knows what is buffered.
LEMMA DocumentCalled ==
    ASSUME DocumentInv, NEW op \in Fire!Mutations \cup {"get"}, NEW k \in Keys, Fire!Call(op, k)
    PROVE  DocumentInv'
<1>0. /\ DocumentTypes /\ WaitedInv /\ BufferedInv /\ RegisteredInv /\ DocumentCallInv
      /\ AttemptsInv /\ Fire!ReadsBeforeWrites
  BY DEF DocumentInv
<1>1. /\ Len(calls) \in Nat /\ \A i \in 1 .. Len(calls) : calls[i] \in DocumentCalls
      /\ buffered[k] \in Nat
  BY <1>0, DocumentTyped DEF DocumentTypes
<1>2. PICK c : c = [op |-> op, key |-> k, at |-> "queued", answer |-> "none", value |-> 0,
                    known |-> buffered[k]]
  OBVIOUS
<1>3. /\ calls' = Append(calls, c)
      /\ UNCHANGED <<buffered, registered, dirty, pointReads, lateRead, wrote, created, attempt,
                     moment, exists, applied, undone, settled, completed>>
  BY <1>2, KnownIs DEF Fire!Call, Fire!Rest
<1>4. c \in DocumentCalls
  BY <1>1, <1>2 DEF DocumentCalls, DocumentAnswers
<1>5. /\ calls' \in Seq(DocumentCalls) /\ Len(calls') = Len(calls) + 1 /\ calls'[Len(calls) + 1] = c
      /\ \A i \in 1 .. Len(calls) : calls'[i] = calls[i]
  BY <1>0, <1>3, <1>4 DEF DocumentTypes
<1>6. ASSUME NEW i \in 1 .. Len(calls'), NEW l
      PROVE  Wins(i, l)' <=> i \in 1 .. Len(calls) /\ Wins(i, l)
  <2>1. CASE i \in 1 .. Len(calls)
    BY <1>5, <2>1 DEF Wins
  <2>2. CASE i = Len(calls) + 1
    BY <1>1, <1>2, <1>5, <2>2 DEF Wins
  <2> QED BY <1>1, <1>5, <2>1, <2>2
<1>7. DocumentTypes'
  BY <1>0, <1>3, <1>5 DEF DocumentTypes
<1>8. WaitedInv'
  <2> SUFFICES ASSUME NEW i \in 1 .. Len(calls'), NEW j \in 1 .. i - 1, calls'[i].at # "queued",
                      calls'[j].op \in Fire!Mutations, calls'[j].key = calls'[i].key
               PROVE  calls'[j].at = "done"
    BY DEF WaitedInv
  <2>1. i \in 1 .. Len(calls)
    BY <1>1, <1>2, <1>5
  <2>2. j \in 1 .. Len(calls) /\ calls'[i] = calls[i] /\ calls'[j] = calls[j]
    BY <1>1, <1>5, <2>1
  <2> QED BY <1>0, <2>1, <2>2 DEF WaitedInv
<1>9. BufferedInv'
  <2> SUFFICES ASSUME NEW l \in Keys
               PROVE  /\ buffered'[l] = 0 => \A i \in 1 .. Len(calls') : ~Wins(i, l)'
                      /\ buffered'[l] # 0 => /\ buffered'[l] \in 1 .. Len(calls') /\ Wins(buffered[l], l)'
                                             /\ \A i \in 1 .. Len(calls') : Wins(i, l)' => i <= buffered'[l]
    BY DEF BufferedInv
  <2>1. buffered'[l] = buffered[l]
    BY <1>3
  <2>2. CASE buffered[l] = 0
    BY <1>0, <1>6, <2>1, <2>2 DEF BufferedInv
  <2>3. CASE buffered[l] # 0
    <3>1. buffered[l] \in 1 .. Len(calls) /\ Wins(buffered[l], l)
      BY <1>0, <2>3 DEF BufferedInv
    <3>2. buffered[l] \in 1 .. Len(calls') /\ Wins(buffered[l], l)'
      BY <1>1, <1>3, <1>5, <3>1 DEF Wins
    <3> QED BY <1>0, <1>6, <2>1, <2>3, <3>2 DEF BufferedInv
  <2> QED BY <2>2, <2>3
<1>10. RegisteredInv'
  <2>1. \A n \in 1 .. Len(registered) : calls'[registered[n]] = calls[registered[n]]
    BY <1>0, <1>5 DEF RegisteredInv
  <2>2. ASSUME NEW i \in 1 .. Len(calls'), calls'[i].op \in Fire!Mutations, calls'[i].answer = "ok"
        PROVE  \E n \in 1 .. Len(registered) : registered[n] = i
    <3>1. i \in 1 .. Len(calls) /\ calls'[i] = calls[i]
      BY <1>1, <1>2, <1>5, <2>2
    <3> QED BY <1>0, <2>2, <3>1 DEF RegisteredInv
  <2>3. ASSUME NEW n \in 1 .. Len(registered)
        PROVE  /\ registered[n] \in 1 .. Len(calls')
               /\ calls'[registered[n]].op \in Fire!Mutations /\ calls'[registered[n]].answer = "ok"
    <3>1. /\ registered[n] \in 1 .. Len(calls)
          /\ calls[registered[n]].op \in Fire!Mutations /\ calls[registered[n]].answer = "ok"
      BY <1>0 DEF RegisteredInv
    <3> QED BY <1>1, <1>5, <2>1, <3>1
  <2>4. ASSUME NEW m \in 1 .. Len(registered), NEW n \in 1 .. Len(registered), m < n,
               calls'[registered[m]].key = calls'[registered[n]].key
        PROVE  registered[m] < registered[n]
    BY <1>0, <2>1, <2>4 DEF RegisteredInv
  <2>5. registered' = registered
    BY <1>3
  <2> QED BY <2>2, <2>3, <2>4, <2>5 DEF RegisteredInv
<1>11. DocumentCallInv'
  <2> SUFFICES ASSUME NEW i \in 1 .. Len(calls') PROVE DocumentCallOK(i)'
    BY DEF DocumentCallInv
  <2>1. CASE i \in 1 .. Len(calls)
    <3>1. DocumentCallOK(i) /\ calls'[i] = calls[i]
      BY <1>0, <1>5, <2>1 DEF DocumentCallInv
    <3>2. calls[i].known # 0 => calls'[calls[i].known] = calls[calls[i].known]
      BY <1>1, <1>5, <2>1, <3>1 DEF DocumentCallOK
    <3> QED BY <3>1, <3>2 DEF DocumentCallOK, Wins
  <2>2. CASE i = Len(calls) + 1
    <3>1. calls'[i] = c
      BY <1>5, <2>2
    <3>2. buffered[k] # 0 => buffered[k] \in 1 .. i - 1 /\ Wins(buffered[k], k)
      BY <1>0, <1>1, <2>2 DEF BufferedInv
    <3>3. buffered[k] # 0 => calls'[buffered[k]] = calls[buffered[k]]
      BY <1>1, <1>5, <2>2, <3>2
    <3> QED BY <1>2, <3>1, <3>2, <3>3 DEF DocumentCallOK, Wins
  <2> QED BY <1>1, <1>5, <2>1, <2>2
<1>12. AttemptsInv' /\ Fire!ReadsBeforeWrites'
  BY <1>0, <1>3 DEF AttemptsInv, Fire!AppliedOnce, Fire!ReadsBeforeWrites
<1> QED BY <1>7, <1>8, <1>9, <1>10, <1>11, <1>12 DEF DocumentInv
-----------------------------------------------------------------------------
\* One call moves on, and no write is registered.
Moves(i, d) ==
    /\ i \in 1 .. Len(calls) /\ d \in DocumentCalls /\ calls' = [calls EXCEPT ![i] = d]
    /\ d.op = calls[i].op /\ d.key = calls[i].key /\ d.known = calls[i].known
    /\ calls[i].at # "done" /\ d.at # "queued" /\ (d.answer # "none" <=> d.at = "done")
    /\ \A j \in 1 .. i - 1 :
          calls[j].op \in Fire!Mutations /\ calls[j].key = calls[i].key => calls[j].at = "done"
    /\ UNCHANGED <<attempt, moment, exists, applied, undone, settled, completed>>

\* A call that moves on changes itself alone, and those of its turn are done.
LEMMA DocumentMoved ==
    ASSUME DocumentInv, NEW i, NEW d, Moves(i, d)
    PROVE  /\ Len(calls) \in Nat /\ Len(calls') = Len(calls) /\ calls' \in Seq(DocumentCalls)
           /\ calls'[i] = d /\ \A m \in 1 .. Len(calls) : m # i => calls'[m] = calls[m]
           /\ \A k : ~Wins(i, k)
           /\ \A m \in 1 .. Len(calls) : \A k : m # i => (Wins(m, k)' <=> Wins(m, k))
           /\ WaitedInv'
<1>0. DocumentTypes /\ WaitedInv /\ DocumentCallOK(i)
  BY DEF DocumentInv, DocumentCallInv, Moves
<1>1. Len(calls) \in Nat /\ DOMAIN calls = 1 .. Len(calls) /\ i \in 1 .. Len(calls)
  BY <1>0, DocumentTyped DEF Moves
<1>2. /\ Len(calls') = Len(calls) /\ calls' \in Seq(DocumentCalls)
      /\ calls'[i] = d /\ \A m \in 1 .. Len(calls) : m # i => calls'[m] = calls[m]
  BY <1>0, <1>1 DEF Moves, DocumentTypes
<1>3. calls[i].answer = "none"
  BY <1>0 DEF DocumentCallOK, Moves
<1>4. WaitedInv'
  <2> SUFFICES ASSUME NEW m \in 1 .. Len(calls'), NEW j \in 1 .. m - 1, calls'[m].at # "queued",
                      calls'[j].op \in Fire!Mutations, calls'[j].key = calls'[m].key
               PROVE  calls'[j].at = "done"
    BY DEF WaitedInv
  <2>1. m \in 1 .. Len(calls) /\ j \in 1 .. Len(calls) /\ j # m
    BY <1>1, <1>2
  <2>2. CASE m = i
    BY <1>2, <2>1, <2>2 DEF Moves
  <2>3. CASE m # i
    <3>1. calls'[m] = calls[m] /\ calls[j].op \in Fire!Mutations /\ calls[j].key = calls[m].key
      BY <1>2, <2>1, <2>3 DEF Moves
    <3>2. calls[j].at = "done" /\ j # i
      BY <1>0, <2>1, <3>1 DEF WaitedInv, Moves
    <3> QED BY <1>2, <2>1, <3>2
  <2> QED BY <2>2, <2>3
<1> QED BY <1>1, <1>2, <1>3, <1>4 DEF Wins

\* The records of the calls stay right if that of the call is.
LEMMA DocumentCallsKept ==
    ASSUME DocumentInv, NEW i, NEW d, Moves(i, d), d.at # "done" => d.value = 0,
           d.op = "get" /\ d.at = "reading" => d.known = 0,
           d.op = "get" /\ d.answer = "ok" => d.value >= d.known
    PROVE  DocumentCallInv'
<1>0. DocumentCallInv
  BY DEF DocumentInv
<1>1. ASSUME NEW m \in 1 .. Len(calls), calls[m].known # 0
      PROVE  /\ calls[m].known \in 1 .. m - 1 /\ Wins(calls[m].known, calls[m].key)'
  <2>1. calls[m].known \in 1 .. m - 1 /\ Wins(calls[m].known, calls[m].key)
    BY <1>0, <1>1 DEF DocumentCallInv, DocumentCallOK
  <2>2. calls[m].known # i /\ calls[m].known \in 1 .. Len(calls)
    BY <2>1, DocumentMoved
  <2>3. calls'[calls[m].known] = calls[calls[m].known]
    BY <2>2, DocumentMoved
  <2>4. calls'[m].key = calls[m].key /\ calls'[m].known = calls[m].known
    BY DocumentMoved DEF Moves
  <2> QED BY <2>1, <2>3, <2>4 DEF Wins
<1>2. ASSUME NEW m \in 1 .. Len(calls) PROVE DocumentCallOK(m)'
  <2>0. DocumentCallOK(m)
    BY <1>0 DEF DocumentCallInv
  <2>1. CASE m = i
    <3>1. calls'[m] = d /\ d.known = calls[m].known /\ d.key = calls[m].key
      BY <2>1, DocumentMoved DEF Moves
    <3>2. d.known # 0 => d.known \in 1 .. m - 1 /\ Wins(d.known, d.key)'
      BY <1>1, <3>1
    <3> QED BY <3>1, <3>2 DEF DocumentCallOK, Moves, Wins
  <2>2. CASE m # i
    <3>1. calls'[m] = calls[m]
      BY <2>2, DocumentMoved
    <3> QED BY <1>1, <2>0, <3>1 DEF DocumentCallOK, Wins
  <2> QED BY <2>1, <2>2
<1> QED BY <1>2, DocumentMoved DEF DocumentCallInv

\* A call that begins to read, or is answered without a write.
LEMMA DocumentAnswered ==
    ASSUME DocumentInv, NEW i, NEW d, Moves(i, d), d.at # "done" => d.value = 0,
           d.op = "get" /\ d.at = "reading" => d.known = 0,
           d.op = "get" /\ d.answer = "ok" => d.value >= d.known,
           d.op \in Fire!Mutations => d.answer # "ok",
           UNCHANGED <<buffered, registered, wrote>>, ~lateRead'
    PROVE  DocumentInv'
<1>0. DocumentTypes /\ BufferedInv /\ RegisteredInv /\ AttemptsInv
  BY DEF DocumentInv
<1>1. ASSUME NEW m \in 1 .. Len(calls), NEW k PROVE Wins(m, k)' <=> Wins(m, k)
  BY DocumentMoved DEF Wins
<1>2. DocumentTypes'
  BY <1>0, DocumentMoved DEF DocumentTypes, Moves
<1>3. BufferedInv'
  <2> SUFFICES ASSUME NEW l \in Keys
               PROVE  /\ buffered[l] = 0 => \A m \in 1 .. Len(calls') : ~Wins(m, l)'
                      /\ buffered[l] # 0 =>
                            /\ buffered[l] \in 1 .. Len(calls')
                            /\ calls'[buffered[l]].key = l /\ calls'[buffered[l]].op \in Fire!Mutations
                            /\ calls'[buffered[l]].answer = "ok"
                            /\ \A m \in 1 .. Len(calls') : Wins(m, l)' => m <= buffered[l]
    BY DEF BufferedInv, Wins
  <2>1. Len(calls') = Len(calls)
    BY DocumentMoved
  <2>2. CASE buffered[l] = 0
    BY <1>0, <1>1, <2>1, <2>2 DEF BufferedInv
  <2>3. CASE buffered[l] # 0
    <3>1. buffered[l] \in 1 .. Len(calls) /\ Wins(buffered[l], l)
      BY <1>0, <2>3 DEF BufferedInv
    <3>2. calls'[buffered[l]] = calls[buffered[l]]
      BY <3>1, DocumentMoved
    <3>3. \A m \in 1 .. Len(calls') : Wins(m, l)' => m <= buffered[l]
      BY <1>0, <1>1, <2>1, <2>3 DEF BufferedInv
    <3> QED BY <2>1, <2>3, <3>1, <3>2, <3>3 DEF Wins
  <2> QED BY <2>2, <2>3
<1>4. RegisteredInv'
  <2>0. ASSUME NEW n \in 1 .. Len(registered)
        PROVE  /\ registered[n] \in 1 .. Len(calls)
               /\ calls[registered[n]].op \in Fire!Mutations /\ calls[registered[n]].answer = "ok"
    BY <1>0 DEF RegisteredInv
  <2>1. ASSUME NEW n \in 1 .. Len(registered) PROVE calls'[registered[n]] = calls[registered[n]]
    <3>1. Wins(registered[n], calls[registered[n]].key)
      BY <2>0 DEF Wins
    <3> QED BY <2>0, <3>1, DocumentMoved
  <2>2. ASSUME NEW m \in 1 .. Len(calls), calls'[m].op \in Fire!Mutations, calls'[m].answer = "ok"
        PROVE  \E n \in 1 .. Len(registered) : registered[n] = m
    <3>1. calls'[m] = calls[m]
      BY <2>2, DocumentMoved
    <3> QED BY <1>0, <2>2, <3>1 DEF RegisteredInv
  <2>3. Len(calls') = Len(calls) /\ registered' = registered
    BY DocumentMoved
  <2>4. ASSUME NEW m \in 1 .. Len(registered), NEW n \in 1 .. Len(registered), m < n,
               calls'[registered[m]].key = calls'[registered[n]].key
        PROVE  registered[m] < registered[n]
    BY <1>0, <2>1, <2>4 DEF RegisteredInv
  <2> QED BY <2>0, <2>1, <2>2, <2>3, <2>4 DEF RegisteredInv
<1>5. AttemptsInv'
  BY <1>0 DEF AttemptsInv, Fire!AppliedOnce, Moves
<1> QED BY <1>2, <1>3, <1>4, <1>5, DocumentMoved, DocumentCallsKept DEF DocumentInv, Fire!ReadsBeforeWrites

\* A mutation is handed to the SDK: it is the last of its document.
LEMMA DocumentRegistered ==
    ASSUME DocumentInv, NEW i \in 1 .. Len(calls), calls[i].op \in Fire!Mutations, calls[i].at # "done",
           \A j \in 1 .. i - 1 :
              calls[j].op \in Fire!Mutations /\ calls[j].key = calls[i].key => calls[j].at = "done",
           Fire!Register(i),
           UNCHANGED <<attempt, moment, exists, applied, undone, settled, completed>>,
           moment \in {"callback", "settling"}
    PROVE  DocumentInv'
<1>0. DocumentTypes /\ WaitedInv /\ BufferedInv /\ RegisteredInv /\ AttemptsInv /\ DocumentCallInv
  BY DEF DocumentInv
<1>1. /\ Len(calls) \in Nat /\ calls[i] \in DocumentCalls /\ Len(registered) \in Nat
      /\ DOMAIN calls = 1 .. Len(calls)
  BY <1>0, DocumentTyped
<1>2. PICK d : d = [calls[i] EXCEPT !.at = "done", !.answer = "ok"]
  OBVIOUS
<1>3. /\ d \in DocumentCalls /\ d.op = calls[i].op /\ d.key = calls[i].key /\ d.known = calls[i].known
      /\ d.at = "done" /\ d.answer = "ok"
  BY <1>1, <1>2 DEF DocumentCalls, DocumentAnswers
<1>4. calls' = [calls EXCEPT ![i] = d]
  BY <1>0, <1>1, <1>2 DEF Fire!Register, Fire!Answered, DocumentTypes
<1>5. Moves(i, d)
  BY <1>3, <1>4 DEF Moves
<1>6. ASSUME NEW k, NEW m \in 1 .. Len(calls), Wins(m, k), k = d.key PROVE m < i
  <2>1. m # i
    BY <1>5, <1>6, DocumentMoved
  <2> SUFFICES ASSUME m > i PROVE FALSE
    BY <1>1, <2>1
  <2>2. calls[m].at = "done"
    BY <1>0, <1>6 DEF Wins, DocumentCallInv, DocumentCallOK
  <2>3. i \in 1 .. m - 1
    BY <1>1
  <2> QED BY <1>0, <1>3, <1>6, <2>2, <2>3 DEF WaitedInv, Wins
<1>7. /\ registered' \in Seq(Nat) /\ Len(registered') = Len(registered) + 1
      /\ registered'[Len(registered) + 1] = i
      /\ \A n \in 1 .. Len(registered) : registered'[n] = registered[n]
  <2>1. registered' = Append(registered, i) /\ registered \in Seq(Nat) /\ i \in Nat
    BY <1>0, <1>1 DEF Fire!Register, DocumentTypes
  <2> QED BY <2>1
<1>8. /\ buffered' \in [Keys -> Nat] /\ buffered'[d.key] = i /\ d.key \in Keys
      /\ \A l \in Keys : l # d.key => buffered'[l] = buffered[l]
  BY <1>0, <1>1, <1>3 DEF Fire!Register, DocumentTypes, DocumentCalls
<1>9. DocumentTypes'
  BY <1>0, <1>5, <1>7, <1>8, DocumentMoved DEF DocumentTypes, Fire!Register
<1>10. BufferedInv'
  <2> SUFFICES ASSUME NEW l \in Keys
               PROVE  /\ buffered'[l] = 0 => \A m \in 1 .. Len(calls') : ~Wins(m, l)'
                      /\ buffered'[l] # 0 =>
                            /\ buffered'[l] \in 1 .. Len(calls')
                            /\ calls'[buffered'[l]].key = l /\ calls'[buffered'[l]].op \in Fire!Mutations
                            /\ calls'[buffered'[l]].answer = "ok"
                            /\ \A m \in 1 .. Len(calls') : Wins(m, l)' => m <= buffered'[l]
    BY DEF BufferedInv, Wins
  <2>1. Len(calls') = Len(calls) /\ calls'[i] = d
    BY <1>5, DocumentMoved
  <2>2. CASE l = d.key
    <3>1. ASSUME NEW m \in 1 .. Len(calls'), Wins(m, l)' PROVE m <= i
      <4>1. m # i => Wins(m, l)
        BY <1>5, <2>1, <3>1, DocumentMoved
      <4> QED BY <1>1, <1>6, <2>1, <2>2, <4>1
    <3> QED BY <1>1, <1>3, <1>8, <2>1, <2>2, <3>1
  <2>3. CASE l # d.key
    <3>1. \A m \in 1 .. Len(calls) : Wins(m, l)' => Wins(m, l)
      BY <1>5, <2>1, <2>3, DocumentMoved DEF Wins
    <3>2. CASE buffered[l] = 0
      BY <1>0, <1>8, <2>1, <2>3, <3>1, <3>2 DEF BufferedInv
    <3>3. CASE buffered[l] # 0
      <4>1. buffered[l] \in 1 .. Len(calls) /\ Wins(buffered[l], l)
        BY <1>0, <3>3 DEF BufferedInv
      <4>2. calls'[buffered[l]] = calls[buffered[l]]
        BY <1>5, <4>1, DocumentMoved
      <4>3. \A m \in 1 .. Len(calls') : Wins(m, l)' => m <= buffered[l]
        BY <1>0, <2>1, <3>1, <3>3 DEF BufferedInv
      <4> QED BY <1>8, <2>1, <2>3, <3>3, <4>1, <4>2, <4>3 DEF Wins
    <3> QED BY <3>2, <3>3
  <2> QED BY <2>2, <2>3
<1>11. RegisteredInv'
  <2>1. Len(calls') = Len(calls) /\ calls'[i] = d
    BY <1>5, DocumentMoved
  <2>2. ASSUME NEW n \in 1 .. Len(registered)
        PROVE  /\ registered[n] \in 1 .. Len(calls) /\ registered[n] # i
               /\ calls'[registered[n]] = calls[registered[n]]
               /\ Wins(registered[n], calls[registered[n]].key)
    <3>1. /\ registered[n] \in 1 .. Len(calls)
          /\ calls[registered[n]].op \in Fire!Mutations /\ calls[registered[n]].answer = "ok"
      BY <1>0 DEF RegisteredInv
    <3>2. Wins(registered[n], calls[registered[n]].key)
      BY <3>1 DEF Wins
    <3> QED BY <1>5, <3>1, <3>2, DocumentMoved
  <2>3. ASSUME NEW n \in 1 .. Len(registered')
        PROVE  /\ registered'[n] \in 1 .. Len(calls')
               /\ calls'[registered'[n]].op \in Fire!Mutations /\ calls'[registered'[n]].answer = "ok"
    <3>1. CASE n \in 1 .. Len(registered)
      BY <1>7, <2>1, <2>2, <3>1 DEF Wins
    <3>2. CASE n = Len(registered) + 1
      BY <1>3, <1>7, <2>1, <3>2
    <3> QED BY <1>1, <1>7, <3>1, <3>2
  <2>4. ASSUME NEW m \in 1 .. Len(calls'), calls'[m].op \in Fire!Mutations, calls'[m].answer = "ok"
        PROVE  \E n \in 1 .. Len(registered') : registered'[n] = m
    <3>1. CASE m = i
      <4>1. Len(registered) + 1 \in 1 .. Len(registered')
        BY <1>1, <1>7
      <4> QED BY <1>7, <3>1, <4>1
    <3>2. CASE m # i
      <4>1. PICK n \in 1 .. Len(registered) : registered[n] = m
        BY <1>0, <1>5, <2>1, <2>4, <3>2, DocumentMoved DEF RegisteredInv
      <4>2. n \in 1 .. Len(registered')
        BY <1>1, <1>7, <4>1
      <4>3. registered'[n] = m
        BY <1>7, <4>1
      <4> QED BY <4>2, <4>3
    <3> QED BY <3>1, <3>2
  <2>5. ASSUME NEW m \in 1 .. Len(registered'), NEW n \in 1 .. Len(registered'), m < n,
               calls'[registered'[m]].key = calls'[registered'[n]].key
        PROVE  registered'[m] < registered'[n]
    <3>1. m \in 1 .. Len(registered)
      BY <1>1, <1>7, <2>5
    <3>2. registered'[m] = registered[m] /\ calls'[registered[m]] = calls[registered[m]]
      BY <1>7, <2>2, <3>1
    <3>3. CASE n \in 1 .. Len(registered)
      <4>1. registered'[n] = registered[n] /\ calls'[registered[n]] = calls[registered[n]]
        BY <1>7, <2>2, <3>3
      <4>2. calls[registered[m]].key = calls[registered[n]].key
        BY <2>5, <3>2, <4>1
      <4>3. registered[m] < registered[n]
        BY <1>0, <2>5, <3>1, <3>3, <4>2 DEF RegisteredInv
      <4> QED BY <3>2, <4>1, <4>3
    <3>4. CASE n = Len(registered) + 1
      <4>1. registered'[n] = i /\ calls[registered[m]].key = d.key
        BY <1>7, <2>1, <2>5, <3>2, <3>4
      <4>2. Wins(registered[m], calls[registered[m]].key) /\ registered[m] \in 1 .. Len(calls)
        BY <2>2, <3>1
      <4>3. registered[m] < i
        BY <1>6, <4>1, <4>2
      <4> QED BY <3>2, <4>1, <4>3
    <3>5. n \in 1 .. Len(registered) \/ n = Len(registered) + 1
      BY <1>1, <1>7
    <3> QED BY <3>3, <3>4, <3>5
  <2> QED BY <2>3, <2>4, <2>5 DEF RegisteredInv
<1>12. DocumentCallInv'
  <2>1. d.op # "get"
    BY <1>3 DEF Fire!Mutations
  <2> QED BY <1>3, <1>5, <2>1, DocumentCallsKept
<1>13. AttemptsInv' /\ Fire!ReadsBeforeWrites'
  BY <1>0 DEF AttemptsInv, Fire!AppliedOnce, Fire!ReadsBeforeWrites, Fire!Register, DocumentInv
<1> QED BY <1>5, <1>9, <1>10, <1>11, <1>12, <1>13, DocumentMoved DEF DocumentInv
-----------------------------------------------------------------------------
\* The call's turn has come.
Able(i) ==
    /\ i \in 1 .. Len(calls) /\ calls[i].at # "done" /\ moment \in {"callback", "settling"}
    /\ \A j \in 1 .. i - 1 :
          calls[j].op \in Fire!Mutations /\ calls[j].key = calls[i].key => calls[j].at = "done"

\* Who may start, and who waits for a read, has its turn.
LEMMA DocumentAble ==
    ASSUME DocumentInv, NEW i \in DOMAIN calls,
           Fire!MayStart(i) \/ (moment \in {"callback", "settling"} /\ calls[i].at = "reading")
    PROVE  /\ Able(i) /\ calls[i] \in DocumentCalls /\ calls[i].key \in Keys
           /\ buffered[calls[i].key] \in Nat /\ ~lateRead
<1>0. DocumentTypes /\ WaitedInv /\ ~lateRead
  BY DEF DocumentInv, Fire!ReadsBeforeWrites
<1>1. /\ i \in 1 .. Len(calls) /\ calls[i] \in DocumentCalls /\ calls[i].key \in Keys
      /\ buffered[calls[i].key] \in Nat
  BY <1>0, DocumentTyped DEF DocumentTypes, DocumentCalls
<1>2. Fire!MayStart(i) => Able(i)
  BY <1>1 DEF Fire!MayStart, Fire!Turn, Fire!Earlier, Fire!IsOf, Able
<1>3. moment \in {"callback", "settling"} /\ calls[i].at = "reading" => Able(i)
  BY <1>0, <1>1 DEF WaitedInv, Able
<1>4. Able(i)
  BY <1>2, <1>3
<1> QED BY <1>0, <1>1, <1>4

\* What a call knows is not later than what is buffered.
LEMMA DocumentKnows ==
    ASSUME DocumentInv, NEW i, Able(i), calls[i].key \in Keys
    PROVE  /\ calls[i].known <= buffered[calls[i].key]
           /\ buffered[calls[i].key] = 0 => calls[i].known = 0
<1>0. DocumentTypes /\ BufferedInv /\ DocumentCallOK(i) /\ Len(calls) \in Nat
  BY DocumentTyped DEF DocumentInv, DocumentCallInv, Able
<1>1. buffered[calls[i].key] \in Nat /\ calls[i].known \in Nat /\ i \in 1 .. Len(calls)
  BY <1>0, DocumentTyped DEF DocumentTypes, Able, DocumentCalls
<1>2. CASE calls[i].known = 0
  BY <1>1, <1>2
<1>3. CASE calls[i].known # 0
  <2>1. calls[i].known \in 1 .. Len(calls) /\ Wins(calls[i].known, calls[i].key)
    BY <1>0, <1>1, <1>3 DEF DocumentCallOK
  <2> QED BY <1>0, <2>1 DEF BufferedInv
<1> QED BY <1>2, <1>3

\* A call that is answered and leaves the writes alone.
LEMMA DocumentRefused ==
    ASSUME DocumentInv, NEW i, NEW a \in DocumentAnswers \ {"none"}, Able(i), Fire!Answered(i, a), Fire!Rest,
           UNCHANGED <<buffered, registered, wrote>>, ~lateRead',
           a = "ok" => calls[i].op = "get" /\ calls[i].known = 0
    PROVE  DocumentInv'
<1>0. DocumentTypes /\ DocumentCallOK(i) /\ i \in 1 .. Len(calls) /\ calls[i] \in DocumentCalls
  BY DocumentTyped DEF DocumentInv, DocumentCallInv, Able
<1>1. PICK d : d = [calls[i] EXCEPT !.at = "done", !.answer = a]
  OBVIOUS
<1>2. /\ d \in DocumentCalls /\ d.op = calls[i].op /\ d.key = calls[i].key /\ d.known = calls[i].known
      /\ d.at = "done" /\ d.answer = a /\ d.value = calls[i].value
  BY <1>0, <1>1 DEF DocumentCalls
<1>3. calls' = [calls EXCEPT ![i] = d]
  BY <1>0, <1>1, DocumentTyped DEF Fire!Answered, DocumentTypes
<1>4. Moves(i, d)
  BY <1>0, <1>2, <1>3 DEF Moves, Able, Fire!Rest
<1>5. d.answer = "ok" => d.op = "get" /\ d.known = 0 /\ d.value = 0
  BY <1>0, <1>2 DEF DocumentCallOK, Able
<1>6. "get" \notin Fire!Mutations
  BY DEF Fire!Mutations
<1> QED BY <1>2, <1>4, <1>5, <1>6, DocumentAnswered

\* A call that goes to the SDK for the document.
LEMMA DocumentReads ==
    ASSUME DocumentInv, NEW i, Able(i), calls[i].at = "queued", Fire!ReadDocument(i), Fire!Rest,
           UNCHANGED <<buffered, registered, wrote>>, ~lateRead,
           calls[i].op = "get" => calls[i].known = 0
    PROVE  DocumentInv'
<1>0. DocumentTypes /\ DocumentCallOK(i) /\ i \in 1 .. Len(calls) /\ calls[i] \in DocumentCalls
  BY DocumentTyped DEF DocumentInv, DocumentCallInv, Able
<1>1. CASE Fire!ReadAllowed(dirty)
  <2>1. PICK d : d = [calls[i] EXCEPT !.at = "reading"]
    OBVIOUS
  <2>2. calls[i].answer = "none" /\ calls[i].value = 0
    BY <1>0 DEF DocumentCallOK
  <2>3. /\ d \in DocumentCalls /\ d.op = calls[i].op /\ d.key = calls[i].key /\ d.known = calls[i].known
        /\ d.at = "reading" /\ d.answer = "none" /\ d.value = 0
    BY <1>0, <2>1, <2>2 DEF DocumentCalls
  <2>4. calls' = [calls EXCEPT ![i] = d] /\ ~lateRead'
    BY <1>0, <1>1, <2>1, DocumentTyped DEF Fire!ReadDocument, Fire!ReadAllowed, DocumentTypes
  <2>5. Moves(i, d)
    BY <1>0, <2>3, <2>4 DEF Moves, Able, Fire!Rest
  <2> QED BY <2>3, <2>4, <2>5, DocumentAnswered
<1>2. CASE ~Fire!ReadAllowed(dirty)
  <2>1. Fire!Answered(i, "refused") /\ ~lateRead'
    BY <1>2 DEF Fire!ReadDocument
  <2> QED BY <2>1, DocumentRefused DEF DocumentAnswers
<1> QED BY <1>1, <1>2

\* Get: from the buffer, from the documents read, or from the SDK.
LEMMA DocumentGot ==
    ASSUME DocumentInv, NEW i \in DOMAIN calls, Fire!Get(i)
    PROVE  DocumentInv'
<1>0. /\ Fire!MayStart(i) /\ calls[i].op = "get" /\ Fire!Rest
      /\ UNCHANGED <<buffered, registered, dirty, pointReads, wrote, created>>
  BY DEF Fire!Get
<1>1. /\ Able(i) /\ calls[i] \in DocumentCalls /\ calls[i].key \in Keys
      /\ buffered[calls[i].key] \in Nat /\ ~lateRead
  BY <1>0, DocumentAble
<1>2. /\ calls[i].known <= buffered[calls[i].key]
      /\ buffered[calls[i].key] = 0 => calls[i].known = 0
  BY <1>1, DocumentKnows
<1>3. CASE buffered[calls[i].key] # 0
  <2>1. PICK d : d = [calls[i] EXCEPT !.at = "done", !.answer = "ok", !.value = buffered[calls[i].key]]
    OBVIOUS
  <2>2. /\ d \in DocumentCalls /\ d.op = calls[i].op /\ d.key = calls[i].key /\ d.known = calls[i].known
        /\ d.at = "done" /\ d.answer = "ok" /\ d.value = buffered[calls[i].key]
    BY <1>1, <2>1 DEF DocumentCalls, DocumentAnswers
  <2>3. /\ calls' = [calls EXCEPT ![i].at = "done", ![i].answer = "ok", ![i].value = buffered[calls[i].key]]
        /\ ~lateRead'
    BY <1>1, <1>3 DEF Fire!Get, Fire!BufferedRow
  <2>4. calls' = [calls EXCEPT ![i] = d]
    BY <1>1, <2>1, <2>3, DocumentTyped DEF DocumentTypes, DocumentInv, Able
  <2>5. Moves(i, d)
    BY <1>0, <1>1, <2>2, <2>4 DEF Moves, Able, Fire!Rest
  <2>6. "get" \notin Fire!Mutations
    BY DEF Fire!Mutations
  <2> QED BY <1>0, <1>2, <2>2, <2>3, <2>5, <2>6, DocumentAnswered
<1>4. CASE buffered[calls[i].key] = 0 /\ calls[i].key \in pointReads
  <2>1. Fire!Answered(i, "ok") /\ ~lateRead'
    BY <1>1, <1>4 DEF Fire!Get, Fire!BufferedRow
  <2> QED BY <1>0, <1>1, <1>2, <1>4, <2>1, DocumentRefused DEF DocumentAnswers
<1>5. CASE buffered[calls[i].key] = 0 /\ calls[i].key \notin pointReads
  <2>1. Fire!ReadDocument(i) /\ calls[i].at = "queued"
    BY <1>0, <1>5 DEF Fire!Get, Fire!BufferedRow, Fire!MayStart
  <2> QED BY <1>0, <1>1, <1>2, <1>5, <2>1, DocumentReads
<1> QED BY <1>3, <1>4, <1>5

\* A mutation that gets no success, and one that is registered.
LEMMA DocumentTurnedDown ==
    ASSUME DocumentInv, NEW i, NEW a \in {"conflict", "notFound"}, Able(i), Fire!Refuse(i, a), Fire!Rest
    PROVE  DocumentInv'
<1>1. ~lateRead' /\ Fire!Answered(i, a) /\ UNCHANGED <<buffered, registered, wrote>>
  BY DEF Fire!Refuse, DocumentInv, Fire!ReadsBeforeWrites
<1> QED BY <1>1, DocumentRefused DEF DocumentAnswers

\* A mutation the SDK takes.
LEMMA DocumentWritten ==
    ASSUME DocumentInv, NEW i, Able(i), calls[i].op \in Fire!Mutations, Fire!Register(i), Fire!Rest
    PROVE  DocumentInv'
  BY DocumentRegistered DEF Able, Fire!Rest

\* The write of an update.
LEMMA DocumentSet ==
    ASSUME DocumentInv, NEW i, NEW there, Able(i), calls[i].op \in Fire!Mutations,
           Fire!SetDocument(i, there), Fire!Rest
    PROVE  DocumentInv'
  BY DocumentTurnedDown, DocumentWritten DEF Fire!SetDocument

\* Create.
LEMMA DocumentCreated ==
    ASSUME DocumentInv, NEW i \in DOMAIN calls, Fire!Create(i)
    PROVE  DocumentInv'
<1>1. Able(i) /\ Fire!Rest /\ calls[i].op \in Fire!Mutations
  BY DocumentAble DEF Fire!Create, Fire!Mutations
<1>2. Fire!Refuse(i, "conflict") \/ Fire!Register(i)
  BY DEF Fire!Create
<1> QED BY <1>1, <1>2, DocumentTurnedDown, DocumentWritten

\* Update.
LEMMA DocumentUpdated ==
    ASSUME DocumentInv, NEW i \in DOMAIN calls, Fire!Update(i)
    PROVE  DocumentInv'
<1>1. Able(i) /\ Fire!Rest /\ calls[i].op = "update" /\ calls[i].at = "queued" /\ ~lateRead
  BY DocumentAble DEF Fire!Update, Fire!MayStart
<1>2. calls[i].op \in Fire!Mutations /\ calls[i].op # "get"
  BY <1>1 DEF Fire!Mutations
<1>3. \/ Fire!SetDocument(i, Fire!BufferedOp(calls[i].key) # "delete")
      \/ Fire!SetDocument(i, exists[calls[i].key])
      \/ Fire!ReadDocument(i) /\ UNCHANGED <<buffered, registered, dirty, wrote, created>>
  BY DEF Fire!Update
<1>4. CASE Fire!ReadDocument(i) /\ UNCHANGED <<buffered, registered, dirty, wrote, created>>
  BY <1>1, <1>2, <1>4, DocumentReads
<1> QED BY <1>1, <1>2, <1>3, <1>4, DocumentSet

\* Delete.
LEMMA DocumentDeleted ==
    ASSUME DocumentInv, NEW i \in DOMAIN calls, Fire!Delete(i)
    PROVE  DocumentInv'
<1>1. Able(i) /\ Fire!Rest /\ calls[i].op \in Fire!Mutations /\ Fire!Register(i)
  BY DocumentAble DEF Fire!Delete, Fire!Mutations
<1> QED BY <1>1, DocumentWritten

\* The answer of a read: a get is answered, an update writes.
LEMMA DocumentReturned ==
    ASSUME DocumentInv, NEW i \in DOMAIN calls, Fire!ReadReturns(i)
    PROVE  DocumentInv'
<1>1. Able(i) /\ Fire!Rest /\ calls[i] \in DocumentCalls /\ calls[i].at = "reading" /\ ~lateRead
  BY DocumentAble DEF Fire!ReadReturns
<1>2. CASE calls[i].op = "get"
  <2>1. calls[i].known = 0
    BY <1>1, <1>2 DEF DocumentInv, DocumentCallInv, DocumentCallOK, Able
  <2>2. Fire!Answered(i, "ok") /\ UNCHANGED <<buffered, registered, wrote>> /\ ~lateRead'
    BY <1>1, <1>2 DEF Fire!ReadReturns, Fire!Refuse
  <2> QED BY <1>1, <1>2, <2>1, <2>2, DocumentRefused DEF DocumentAnswers
<1>3. CASE calls[i].op # "get"
  <2>1. calls[i].op \in Fire!Mutations /\ Fire!SetDocument(i, exists[calls[i].key])
    BY <1>1, <1>3 DEF Fire!ReadReturns, DocumentCalls
  <2> QED BY <1>1, <2>1, DocumentSet
<1> QED BY <1>2, <1>3
-----------------------------------------------------------------------------
\* The steps that leave the calls of the attempt alone.
LEMMA DocumentKept ==
    ASSUME DocumentInv, Fire!Kept, AttemptsInv', completed' \in BOOLEAN,
           moment' \in {"callback", "settling", "commit", "again", "done"}
    PROVE  DocumentInv'
<1>0. /\ DocumentTypes /\ WaitedInv /\ BufferedInv /\ RegisteredInv /\ DocumentCallInv
      /\ Fire!ReadsBeforeWrites
  BY DEF DocumentInv
<1>1. UNCHANGED <<calls, buffered, registered, wrote, lateRead>>
  BY DEF Fire!Kept
<1>2. DocumentTypes' /\ WaitedInv' /\ Fire!ReadsBeforeWrites'
  BY <1>0, <1>1 DEF DocumentTypes, WaitedInv, Fire!ReadsBeforeWrites
<1>3. BufferedInv' /\ RegisteredInv'
  BY <1>0, <1>1 DEF BufferedInv, RegisteredInv, Wins
<1>4. DocumentCallInv'
  BY <1>0, <1>1 DEF DocumentCallInv, DocumentCallOK, Wins
<1> QED BY <1>2, <1>3, <1>4 DEF DocumentInv

\* The callback returns, its calls are waited for, and the commit is answered.
LEMMA DocumentEnded ==
    ASSUME DocumentInv, Fire!CallbackReturns \/ Fire!Waits \/ Fire!Commit
    PROVE  DocumentInv'
<1>0. AttemptsInv /\ wrote \in BOOLEAN /\ completed \in BOOLEAN /\ wrote' = wrote
  BY DEF DocumentInv, DocumentTypes, Fire!CallbackReturns, Fire!Waits, Fire!Commit, Fire!Kept
<1>1. CASE Fire!CallbackReturns
  <2>1. AttemptsInv' /\ completed' \in BOOLEAN /\ moment' = "settling"
    BY <1>0, <1>1 DEF Fire!CallbackReturns, AttemptsInv, Fire!AppliedOnce
  <2> QED BY <1>1, <2>1, DocumentKept DEF Fire!CallbackReturns
<1>2. CASE Fire!Waits
  <2>0. applied' = 0 /\ settled = "none" /\ ~undone /\ Fire!Kept
    BY <1>0, <1>2 DEF Fire!Waits, AttemptsInv
  <2>1. CASE moment' = "commit" /\ completed' = TRUE /\ UNCHANGED <<settled, undone>>
    BY <2>0, <2>1, DocumentKept DEF AttemptsInv, Fire!AppliedOnce
  <2>2. CASE Fire!Settles("error", TRUE) /\ UNCHANGED completed
    BY <1>0, <2>0, <2>2, DocumentKept DEF AttemptsInv, Fire!AppliedOnce, Fire!Settles
  <2>3. CASE moment' = "again" /\ UNCHANGED <<completed, settled, undone>>
    BY <1>0, <2>0, <2>3, DocumentKept DEF AttemptsInv, Fire!AppliedOnce
  <2> QED BY <1>2, <2>1, <2>2, <2>3 DEF Fire!Waits
<1>3. CASE Fire!Commit
  <2>0. /\ applied = 0 /\ completed /\ completed' = completed /\ settled = "none" /\ ~undone
        /\ Fire!Kept
    BY <1>0, <1>3 DEF Fire!Commit, AttemptsInv
  <2>1. CASE Fire!Applies /\ Fire!Settles("ok", FALSE)
    BY <1>0, <2>0, <2>1, DocumentKept DEF Fire!Applies, Fire!Settles, AttemptsInv, Fire!AppliedOnce
  <2>2. CASE (Fire!Applies \/ UNCHANGED applied) /\ Fire!CommitFails("lost")
    <3>1. AttemptsInv' /\ moment' \in {"again", "done"}
      BY <1>0, <2>0, <2>2 DEF Fire!Applies, Fire!CommitFails, Fire!Definite, Fire!Settles, AttemptsInv,
            Fire!AppliedOnce
    <3> QED BY <1>0, <2>0, <3>1, DocumentKept
  <2>3. CASE UNCHANGED applied /\ Fire!CommitFails("aborted")
    <3>1. AttemptsInv' /\ moment' \in {"again", "done"}
      BY <1>0, <2>0, <2>3 DEF Fire!CommitFails, Fire!Definite, Fire!Settles, AttemptsInv, Fire!AppliedOnce
    <3> QED BY <1>0, <2>0, <3>1, DocumentKept
  <2>4. CASE UNCHANGED applied /\ Fire!Settles("conflict", TRUE)
    BY <1>0, <2>0, <2>4, DocumentKept DEF Fire!Settles, AttemptsInv, Fire!AppliedOnce
  <2> QED BY <1>3, <2>1, <2>2, <2>3, <2>4 DEF Fire!Commit
<1> QED BY <1>1, <1>2, <1>3

\* Nothing is left of the calls when an attempt begins.
LEMMA DocumentFresh ==
    ASSUME calls' = <<>>, registered' = <<>>, buffered' = [k \in Keys |-> 0], ~lateRead'
    PROVE  /\ calls' \in Seq(DocumentCalls) /\ buffered' \in [Keys -> Nat] /\ registered' \in Seq(Nat)
           /\ WaitedInv' /\ BufferedInv' /\ RegisteredInv' /\ DocumentCallInv' /\ Fire!ReadsBeforeWrites'
<1>1. Len(calls') = 0 /\ Len(registered') = 0
  OBVIOUS
<1>2. calls' \in Seq(DocumentCalls) /\ buffered' \in [Keys -> Nat] /\ registered' \in Seq(Nat)
  OBVIOUS
<1>3. WaitedInv' /\ RegisteredInv' /\ DocumentCallInv'
  BY <1>1 DEF WaitedInv, RegisteredInv, DocumentCallInv
<1>4. BufferedInv'
  BY <1>1 DEF BufferedInv
<1> QED BY <1>2, <1>3, <1>4 DEF Fire!ReadsBeforeWrites

\* Another attempt: only when the last one cannot have been applied.
LEMMA DocumentAgain ==
    ASSUME DocumentInv, Fire!Again
    PROVE  DocumentInv'
<1>0. /\ AttemptsInv /\ wrote \in BOOLEAN /\ completed \in BOOLEAN /\ moment = "again"
      /\ applied' = applied /\ ~lateRead
  BY DEF DocumentInv, DocumentTypes, Fire!Again, Fire!ReadsBeforeWrites
<1>1. CASE Fire!MayRunAgain(completed, wrote)
  <2>1. moment' = "callback" /\ Fire!FreshAttempt /\ UNCHANGED <<settled, undone, lateRead>>
    BY <1>1 DEF Fire!Again
  <2>2. applied = 0 /\ settled = "none" /\ ~undone
    BY <1>0, <1>1 DEF AttemptsInv, Fire!MayRunAgain
  <2>3. AttemptsInv'
    BY <1>0, <2>1, <2>2 DEF AttemptsInv, Fire!AppliedOnce
  <2>4. wrote' \in BOOLEAN /\ completed' \in BOOLEAN
    BY <2>1 DEF Fire!FreshAttempt
  <2> QED BY <1>0, <2>1, <2>3, <2>4, DocumentFresh DEF DocumentInv, DocumentTypes, Fire!FreshAttempt
<1>2. CASE ~Fire!MayRunAgain(completed, wrote)
  <2>1. Fire!Settles("unknown", FALSE) /\ UNCHANGED <<attempt, completed>> /\ Fire!Kept
    BY <1>2 DEF Fire!Again
  <2>2. AttemptsInv' /\ completed' \in BOOLEAN /\ moment' = "done"
    BY <1>0, <2>1 DEF AttemptsInv, Fire!AppliedOnce, Fire!Settles, Fire!Kept
  <2> QED BY <2>1, <2>2, DocumentKept
<1> QED BY <1>1, <1>2

\* A transaction begins in the invariant.
LEMMA DocumentInit == Fire!Init => DocumentInv
<1> SUFFICES ASSUME Fire!Init PROVE DocumentInv
  OBVIOUS
<1>1. Len(calls) = 0 /\ Len(registered) = 0
  BY DEF Fire!Init
<1>2. DocumentTypes
  <2>1. calls \in Seq(DocumentCalls) /\ registered \in Seq(Nat) /\ buffered \in [Keys -> Nat]
    BY DEF Fire!Init
  <2>2. /\ wrote \in BOOLEAN /\ completed \in BOOLEAN
        /\ moment \in {"callback", "settling", "commit", "again", "done"}
    BY DEF Fire!Init
  <2> QED BY <2>1, <2>2 DEF DocumentTypes
<1>3. WaitedInv /\ RegisteredInv /\ DocumentCallInv
  BY <1>1 DEF WaitedInv, RegisteredInv, DocumentCallInv
<1>4. BufferedInv
  BY <1>1 DEF BufferedInv, Fire!Init
<1>5. AttemptsInv /\ Fire!ReadsBeforeWrites
  BY DEF Fire!Init, AttemptsInv, Fire!AppliedOnce, Fire!ReadsBeforeWrites
<1> QED BY <1>2, <1>3, <1>4, <1>5 DEF DocumentInv

\* Every step keeps it.
LEMMA DocumentStep == DocumentInv /\ [Fire!Next]_(Fire!vars) => DocumentInv'
<1> SUFFICES ASSUME DocumentInv, [Fire!Next]_(Fire!vars) PROVE DocumentInv'
  OBVIOUS
<1>1. ASSUME NEW op \in Fire!Mutations \cup {"get"}, NEW k \in Keys, Fire!Call(op, k) PROVE DocumentInv'
  BY <1>1, DocumentCalled
<1>2. ASSUME NEW i \in DOMAIN calls,
             Fire!Get(i) \/ Fire!Create(i) \/ Fire!Update(i) \/ Fire!Delete(i) \/ Fire!ReadReturns(i)
      PROVE  DocumentInv'
  BY <1>2, DocumentGot, DocumentCreated, DocumentUpdated, DocumentDeleted, DocumentReturned
<1>3. CASE Fire!CallbackReturns \/ Fire!Waits \/ Fire!Commit
  BY <1>3, DocumentEnded
<1>4. CASE Fire!Again
  BY <1>4, DocumentAgain
<1>5. CASE UNCHANGED Fire!vars
  <2>1. Fire!Kept /\ UNCHANGED <<moment, applied, completed, settled, undone>>
    BY <1>5 DEF Fire!vars, Fire!Kept
  <2>2. AttemptsInv' /\ completed' \in BOOLEAN
        /\ moment' \in {"callback", "settling", "commit", "again", "done"}
    BY <2>1 DEF Fire!Kept, DocumentInv, DocumentTypes, AttemptsInv, Fire!AppliedOnce
  <2> QED BY <2>1, <2>2, DocumentKept
<1> QED BY <1>1, <1>2, <1>3, <1>4, <1>5 DEF Fire!Next, Fire!Done

\* The invariant holds: the calls on a document take turns, what is buffered and what the SDK
\* holds answer to the last of its mutations, and the attempts to what has been applied.
THEOREM DocumentSafe == Fire!Spec => []DocumentInv
  BY DocumentInit, DocumentStep, PTL DEF Fire!Spec
-----------------------------------------------------------------------------
\* The buffered mutation is the last the SDK holds of its document.
LEMMA DocumentLastWins == DocumentInv => Fire!LastCallWins
<1> SUFFICES ASSUME DocumentInv, NEW k \in Keys, Fire!Succeeded(k) # {}
             PROVE  \E n \in Fire!WritesOf(k) :
                       /\ \A m \in Fire!WritesOf(k) : m <= n
                       /\ registered[n] \in Fire!Succeeded(k) /\ \A i \in Fire!Succeeded(k) : i <= registered[n]
  BY DEF Fire!LastCallWins
<1>0. DocumentTypes /\ BufferedInv /\ RegisteredInv
  BY DEF DocumentInv
<1>1. /\ Len(registered) \in Nat /\ DOMAIN registered = 1 .. Len(registered)
      /\ \A n \in 1 .. Len(registered) : registered[n] \in Nat
      /\ buffered[k] \in Nat
  BY <1>0, DocumentTyped DEF DocumentTypes
<1>2. /\ buffered[k] \in 1 .. Len(calls) /\ Wins(buffered[k], k)
      /\ \A i \in 1 .. Len(calls) : Wins(i, k) => i <= buffered[k]
  BY <1>0, SucceededIs DEF BufferedInv
<1>3. PICK n \in 1 .. Len(registered) : registered[n] = buffered[k]
  BY <1>0, <1>2 DEF RegisteredInv, Wins
<1>4. n \in Fire!WritesOf(k) /\ registered[n] \in Fire!Succeeded(k)
  BY <1>0, <1>1, <1>2, <1>3, SucceededIs DEF Fire!WritesOf, Fire!IsOf, Wins
<1>5. \A i \in Fire!Succeeded(k) : i <= registered[n]
  BY <1>0, <1>2, <1>3, SucceededIs
<1>6. ASSUME NEW m \in Fire!WritesOf(k) PROVE m <= n
  <2>1. m \in 1 .. Len(registered) /\ calls[registered[m]].key = k
    BY <1>1 DEF Fire!WritesOf, Fire!IsOf
  <2>2. /\ registered[m] \in 1 .. Len(calls) /\ calls[registered[m]].op \in Fire!Mutations
        /\ calls[registered[m]].answer = "ok"
    BY <1>0, <2>1 DEF RegisteredInv
  <2>3. Wins(registered[m], k)
    BY <2>1, <2>2 DEF Wins
  <2>4. registered[m] <= registered[n]
    BY <1>2, <1>3, <2>2, <2>3
  <2>5. n < m => registered[n] < registered[m]
    BY <1>0, <1>2, <1>3, <2>1 DEF RegisteredInv, Wins
  <2> QED BY <1>1, <1>3, <2>1, <2>4, <2>5
<1> QED BY <1>4, <1>5, <1>6

\* The records of the gets say what they have to see.
LEMMA DocumentReadsOwn == DocumentInv => Fire!ReadsYourWrites
  BY DocumentTyped DEF DocumentInv, DocumentCallInv, DocumentCallOK, Fire!ReadsYourWrites

\* ReadsBeforeWrites: the SDK is asked for no document after it has taken a write
\* (assertSdkReadAllowed), however the callback overlaps its calls.
THEOREM DocumentsReadFirst == Fire!Spec => []Fire!ReadsBeforeWrites
  BY DocumentSafe, PTL DEF DocumentInv
\* LastCallWins: what is committed of a document is the mutation called last that succeeded
\* (serializeBufferedMutation).
THEOREM LastMutationWins == Fire!Spec => []Fire!LastCallWins
  BY DocumentSafe, DocumentLastWins, PTL
\* ReadsYourWrites: a get in the transaction sees the mutations whose success the callback
\* knew (bufferedRow).
THEOREM OwnMutationsSeen == Fire!Spec => []Fire!ReadsYourWrites
  BY DocumentSafe, DocumentReadsOwn, PTL
\* AppliedOnce: the writes are applied once at most over all attempts, and not at all when the
\* rollback is confirmed (transactionRegisteredWrite, transactionCallbackCompleted).
THEOREM AttemptsApplyOnce == Fire!Spec => []Fire!AppliedOnce
<1>1. DocumentInv => Fire!AppliedOnce
  BY DEF DocumentInv, AttemptsInv
<1> QED BY <1>1, DocumentSafe, PTL
=============================================================================
