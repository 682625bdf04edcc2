---------------------------- MODULE AlertsProofs ----------------------------
(***************************************************************************)
(* The registry stays a registry and within its limit, no unacknowledged   *)
(* row is lost, only a person acknowledges, and every row comes to tell    *)
(* the condition it is about, for any rules, sensors, nodes, limits and    *)
(* number of notices; and the board only watches the registry.             *)
(***************************************************************************)
EXTENDS AlertBoard, AlertsProperties, FiniteSetTheorems, TLAPS

(* What the calls ahead of the goroutines are, as sequences.               *)
IsSeq(s) == s \in Seq({s[k] : k \in DOMAIN s})
Pending(g, calls) == IsSeq(calls) /\ \A k \in DOMAIN calls : Asks(g, calls[k])
CallsOK ==
  /\ todo = [g \in Goroutines |-> todo[g]]
  /\ \A g \in Goroutines : Pending(g, todo[g])

(* AlertsTypeOK, with what it leaves to the reader: order is a sequence    *)
(* and the rows are a function.                                            *)
Typed ==
  /\ AlertsTypeOK
  /\ order \in Seq(Ids)
  /\ rows = [i \in DOMAIN rows |-> rows[i]]

-----------------------------------------------------------------------------
(* Sequences of positions.                                                 *)

(* The rank of an element among the members of a finite set of positions   *)
(* counts them off: 1, 2, ... up to how many there are.                    *)
Rank(S, k) == Cardinality({j \in S : j <= k})

LEMMA RankCounts ==
  ASSUME NEW n \in Nat, NEW S, S \subseteq 1..n
  PROVE  /\ IsFiniteSet(S) /\ Cardinality(S) \in Nat
         /\ \A k \in 1..n : Rank(S, k) \in 0..Cardinality(S)
         /\ \A k \in S : Rank(S, k) \in 1..Cardinality(S)
         /\ \A j, k \in S : j < k => Rank(S, j) < Rank(S, k)
         /\ \A i \in 1..Cardinality(S) : \E k \in S : Rank(S, k) = i
<1> DEFINE R(k) == {j \in S : j <= k}
           c == Cardinality(S)
<1>1. IsFiniteSet(S) /\ c \in Nat
  <2>1. IsFiniteSet(1..n)
    BY FS_Interval
  <2>2. S \in SUBSET (1..n)
    OBVIOUS
  <2>3. IsFiniteSet(S)
    BY <2>1, <2>2, FS_Subset
  <2> QED BY <2>3, FS_CardinalityType
<1>2. ASSUME NEW k \in 1..n
      PROVE  /\ IsFiniteSet(R(k)) /\ Cardinality(R(k)) \in Nat /\ Cardinality(R(k)) <= c
             /\ k \in S => Cardinality(R(k)) # 0
  <2>1. R(k) \in SUBSET S
    OBVIOUS
  <2>2. IsFiniteSet(R(k)) /\ Cardinality(R(k)) <= c
    <3> HIDE DEF R
    <3> QED BY <1>1, <2>1, FS_Subset
  <2>3. Cardinality(R(k)) \in Nat
    <3> HIDE DEF R
    <3> QED BY <2>2, FS_CardinalityType
  <2>4. k \in S => k \in R(k)
    OBVIOUS
  <2>5. k \in S => Cardinality(R(k)) # 0
    <3> HIDE DEF R
    <3> QED BY <2>2, <2>4, FS_EmptySet
  <2> QED BY <2>2, <2>3, <2>5
<1>3. ASSUME NEW j \in S, NEW k \in S, j < k
      PROVE  Cardinality(R(j)) < Cardinality(R(k))
  <2>0. j \in 1..n /\ k \in 1..n
    OBVIOUS
  <2>1. R(j) \in SUBSET R(k) /\ k \in R(k) /\ k \notin R(j)
    <3>1. j <= k /\ k <= k /\ ~(k <= j)
      BY <1>3, <2>0
    <3>2. \A i \in S : i <= j => i <= k
      BY <1>3, <2>0
    <3> QED BY <3>1, <3>2
  <2> HIDE DEF R
  <2>2. IsFiniteSet(R(k)) /\ Cardinality(R(j)) \in Nat /\ Cardinality(R(k)) \in Nat
    BY <1>2, <2>1
  <2>3. /\ Cardinality(R(j)) <= Cardinality(R(k))
        /\ Cardinality(R(k)) = Cardinality(R(j)) => R(k) = R(j)
    BY <2>1, <2>2, FS_Subset
  <2>4. Cardinality(R(k)) # Cardinality(R(j))
    BY <2>1, <2>3
  <2> QED BY <2>2, <2>3, <2>4
<1> DEFINE f == [k \in S |-> Cardinality(R(k))]
           T == 1..c
<1>4. f \in Injection(S, T)
  <2> HIDE DEF R
  <2>1. f \in [S -> T]
    BY <1>1, <1>2
  <2>2. \A j, k \in S : f[j] = f[k] => j = k
    <3> SUFFICES ASSUME NEW j \in S, NEW k \in S, f[j] = f[k], j # k PROVE FALSE
      OBVIOUS
    <3>1. j \in Nat /\ k \in Nat /\ f[j] \in Nat /\ f[k] \in Nat /\ (j < k \/ k < j)
      BY <1>1, <2>1
    <3>2. \A x, y \in S : x < y => f[x] < f[y]
      BY <1>3
    <3>3. f[j] < f[k] \/ f[k] < f[j]
      BY <3>1, <3>2
    <3> HIDE DEF f
    <3> QED BY <3>1, <3>3
  <2> QED BY <2>1, <2>2 DEF Injection, IsInjective
<1>5. IsFiniteSet(T) /\ Cardinality(T) = c
  BY <1>1, FS_Interval
<1>6. f \in Surjection(S, T)
  <2> HIDE DEF f, T
  <2> QED BY <1>1, <1>4, <1>5, FS_Injection
<1>7. \A i \in T : \E k \in S : f[k] = i
  <2> HIDE DEF f, T
  <2> QED BY <1>6 DEF Surjection
<1>8. \A k : Rank(S, k) = Cardinality(R(k))
  BY DEF Rank
<1>9. \A k \in S : k \in 1..n /\ f[k] = Cardinality(R(k))
  OBVIOUS
<1> HIDE DEF R, f
<1> QED BY <1>1, <1>2, <1>3, <1>7, <1>8, <1>9

(* The elements at the positions S, each once and in their order.          *)
LEMMA ThoseElements ==
  ASSUME NEW E, NEW s \in Seq(E), NEW S, S \subseteq DOMAIN s
  PROVE  /\ Cardinality(S) \in Nat
         /\ Those(s, S) \in Seq(E) /\ Len(Those(s, S)) = Cardinality(S)
         /\ DOMAIN Those(s, S) = 1..Cardinality(S)
         /\ Range(Those(s, S)) = {s[k] : k \in S}
         /\ IsInjective(s) => IsInjective(Those(s, S))
<1> DEFINE c == Cardinality(S)
           t == Those(s, S)
           At(i) == CHOOSE k \in S : Rank(S, k) = i
<1>1. Len(s) \in Nat /\ DOMAIN s = 1..Len(s) /\ S \subseteq 1..Len(s)
  OBVIOUS
<1>2. /\ c \in Nat
      /\ \A k \in S : Rank(S, k) \in 1..c
      /\ \A j, k \in S : j < k => Rank(S, j) < Rank(S, k)
      /\ \A i \in 1..c : \E k \in S : Rank(S, k) = i
  BY <1>1, RankCounts
<1>3. \A i \in 1..c : At(i) \in S /\ Rank(S, At(i)) = i
  BY <1>2
<1>4. t = [i \in 1..c |-> s[At(i)]]
  BY DEF Those, Rank
<1>5. \A k \in S : Rank(S, k) \in 1..c /\ At(Rank(S, k)) = k
  <2> SUFFICES ASSUME NEW k \in S PROVE At(Rank(S, k)) = k
    BY <1>2
  <2> PICK i \in 1..c : i = Rank(S, k)
    BY <1>2
  <2> PICK j \in S : j = At(i) /\ Rank(S, j) = i
    BY <1>3
  <2>1. j \in Nat /\ k \in Nat
    BY <1>1
  <2>2. ~(j < k) /\ ~(k < j)
    BY <1>2
  <2> QED BY <2>1, <2>2
<1> HIDE DEF At, t
<1>6. DOMAIN t = 1..c /\ \A i \in 1..c : t[i] = s[At(i)] /\ t[i] \in E
  BY <1>1, <1>3, <1>4
<1>7. t \in Seq(E) /\ Len(t) = c
  BY <1>2, <1>4, <1>6
<1>8. Range(t) = {s[k] : k \in S}
  <2>1. \A k \in S : \E i \in 1..c : t[i] = s[k]
    BY <1>5, <1>6
  <2>2. \A i \in 1..c : \E k \in S : t[i] = s[k]
    BY <1>3, <1>6
  <2> DEFINE V == {s[k] : k \in S}
             U == {t[i] : i \in 1..c}
  <2>3. U = V
    <3>1. U \subseteq V
      BY <2>2
    <3>2. V \subseteq U
      BY <2>1
    <3> HIDE DEF U, V
    <3> QED BY <3>1, <3>2
  <2>4. Range(t) = U
    BY <1>6 DEF Range
  <2> QED BY <2>3, <2>4
<1>9. IsInjective(s) => IsInjective(t)
  BY <1>1, <1>3, <1>6 DEF IsInjective
<1> QED BY <1>2, <1>6, <1>7, <1>8, <1>9 DEF t

-----------------------------------------------------------------------------
(* What the registry does to a row that is already there.                  *)

(* store keeps every row nobody has acknowledged.                          *)
LEMMA StoreKeeps ==
  ASSUME NEW id, NEW row, ~row.acked, store(id, row),
         NEW i \in DOMAIN rows, ~rows[i].acked
  PROVE  i \in DOMAIN rows' /\ (rows'[i] = row \/ rows'[i] = rows[i])
<1> DEFINE o == IF id \in DOMAIN rows THEN order ELSE Append(order, id)
           r == Put(rows, id, row)
<1>1. rows' = [j \in DOMAIN r \ Trimmed(o, r) |-> r[j]]
  BY DEF store
<1>2. DOMAIN r = DOMAIN rows \cup {id} /\ \A j \in DOMAIN r : r[j] = IF j = id THEN row ELSE rows[j]
  BY DEF Put
<1>3. \A j \in Trimmed(o, r) : r[j].acked
  BY DEF Trimmed
<1> HIDE DEF o, r
<1> QED BY <1>1, <1>2, <1>3

-----------------------------------------------------------------------------
(* Sequences of calls.                                                     *)

(* A function on 1..n is a sequence of what it maps to.                    *)
LEMMA AnyIsSeq ==
  ASSUME NEW n \in Nat, NEW s, DOMAIN s = 1..n, s = [k \in 1..n |-> s[k]]
  PROVE  IsSeq(s)
<1>1. \A k \in 1..n : s[k] \in {s[j] : j \in DOMAIN s}
  OBVIOUS
<1> QED BY <1>1 DEF IsSeq

LEMMA SeqIsSeq ==
  ASSUME NEW S, NEW s \in Seq(S)
  PROVE  IsSeq(s) /\ DOMAIN s = 1..Len(s)
<1>1. /\ Len(s) \in Nat /\ DOMAIN s = 1..Len(s)
      /\ s \in [1..Len(s) -> S]
  OBVIOUS
<1>2. s = [k \in 1..Len(s) |-> s[k]]
  BY <1>1
<1> QED BY <1>1, <1>2, AnyIsSeq

(* Dropping the call just made leaves calls that were there.               *)
LEMMA TailPending ==
  ASSUME NEW g, NEW calls, Pending(g, calls), calls # <<>>
  PROVE  Pending(g, Tail(calls)) /\ Asks(g, Head(calls))
<1> DEFINE S == {calls[k] : k \in DOMAIN calls}
           t == Tail(calls)
<1>1. calls \in Seq(S)
  BY DEF Pending, IsSeq
<1>2. /\ t \in Seq(S) /\ Len(t) = Len(calls) - 1 /\ Len(calls) \in Nat \ {0}
      /\ \A k \in 1..Len(t) : t[k] = calls[k + 1] /\ k + 1 \in DOMAIN calls
      /\ Head(calls) = calls[1] /\ 1 \in DOMAIN calls
  BY <1>1
<1>3. IsSeq(t) /\ DOMAIN t = 1..Len(t)
  <2> HIDE DEF t
  <2> QED BY <1>2, SeqIsSeq
<1>4. \A k \in DOMAIN t : Asks(g, t[k])
  BY <1>2, <1>3 DEF Pending
<1> QED BY <1>2, <1>3, <1>4 DEF Pending

-----------------------------------------------------------------------------
(* The list that store leaves.                                             *)

(* What trim drops, by position: the first acked rows, as many as the list *)
(* is longer than its limit; the others stay.                              *)
AckedAt(o, r) == {j \in DOMAIN o : r[o[j]].acked}
Gone(o, r) == {j \in AckedAt(o, r) : Rank(AckedAt(o, r), j) <= Len(o) - MaxLen}
Kept(o, r) == {k \in DOMAIN o : o[k] \notin Trimmed(o, r)}

LEMMA TrimmedAt ==
  ASSUME NEW o \in Seq(Ids), IsInjective(o), NEW r
  PROVE  /\ Trimmed(o, r) = {o[k] : k \in Gone(o, r)}
         /\ Gone(o, r) \subseteq DOMAIN o
         /\ Kept(o, r) = DOMAIN o \ Gone(o, r)
<1> DEFINE A == AckedAt(o, r)
           G == Gone(o, r)
<1>1. DOMAIN o = 1..Len(o) /\ Len(o) \in Nat
  OBVIOUS
<1>2. \A j \in DOMAIN o : {i \in 1..j : r[o[i]].acked} = {i \in A : i <= j}
  BY <1>1 DEF AckedAt
<1>3. G = {j \in DOMAIN o : /\ r[o[j]].acked
                            /\ Cardinality({i \in 1..j : r[o[i]].acked}) <= Len(o) - MaxLen}
  <2>1. \A j \in DOMAIN o : Rank(A, j) = Cardinality({i \in 1..j : r[o[i]].acked})
    BY <1>2 DEF Rank
  <2>2. \A j : j \in A <=> j \in DOMAIN o /\ r[o[j]].acked
    BY DEF AckedAt
  <2>3. \A j : j \in G <=> j \in A /\ Rank(A, j) <= Len(o) - MaxLen
    BY DEF Gone
  <2> HIDE DEF A, G
  <2> QED BY <2>1, <2>2, <2>3
<1>4. Trimmed(o, r) = {o[k] : k \in G}
  BY <1>3 DEF Trimmed
<1>5. G \subseteq DOMAIN o
  BY DEF Gone, AckedAt
<1>6. Kept(o, r) = DOMAIN o \ G
  <2> HIDE DEF G
  <2> QED BY <1>4, <1>5 DEF Kept, IsInjective
<1> QED BY <1>4, <1>5, <1>6

(* Trim leaves a list within its limit, unless it drops every acked row.   *)
LEMMA TrimBounds ==
  ASSUME AlertsAssumption, NEW o \in Seq(Ids), IsInjective(o), NEW r,
         NEW k \in Kept(o, r), r[o[k]].acked
  PROVE  Cardinality(Kept(o, r)) <= MaxLen
<1> DEFINE A == AckedAt(o, r)
           G == Gone(o, r)
           n == Len(o)
           e == n - MaxLen
<1>1. n \in Nat /\ DOMAIN o = 1..n /\ MaxLen \in Nat /\ IsFiniteSet(1..n) /\ Cardinality(1..n) = n
  BY FS_Interval DEF AlertsAssumption
<1>2. A \subseteq 1..n /\ k \in A
  BY <1>1 DEF AckedAt, Kept
<1>3. /\ Cardinality(A) \in Nat /\ Rank(A, k) \in 1..Cardinality(A)
      /\ \A i \in 1..Cardinality(A) : \E j \in A : Rank(A, j) = i
      /\ \A j \in A : Rank(A, j) \in 1..Cardinality(A)
  BY <1>1, <1>2, RankCounts
<1>4. G = {j \in A : Rank(A, j) <= e}
  BY DEF Gone
<1>5. Kept(o, r) = (1..n) \ G /\ G \subseteq 1..n
  BY <1>1, TrimmedAt
<1>6. Rank(A, k) > e
  <2>1. k \notin G
    BY <1>5
  <2> QED BY <1>1, <1>2, <1>3, <1>4, <2>1
<1> HIDE DEF A, G
<1>7. IsFiniteSet(G) /\ Cardinality(G) \in Nat
  BY <1>1, <1>5, RankCounts
<1>8. Cardinality(Kept(o, r)) = n - Cardinality(G)
  <2>1. (1..n) \cap G = G
    BY <1>5
  <2> QED BY <1>1, <1>5, <2>1, FS_Difference
<1>9. CASE e <= 0
  BY <1>1, <1>7, <1>8, <1>9
<1>10. CASE e > 0
  <2> DEFINE T == 1..e
             f == [j \in G |-> Rank(A, j)]
  <2>1. \A j \in G : Rank(A, j) \in T
    BY <1>1, <1>3, <1>4
  <2>2. \A i \in T : \E j \in G : Rank(A, j) = i
    <3> SUFFICES ASSUME NEW i \in T PROVE \E j \in G : Rank(A, j) = i
      OBVIOUS
    <3>1. e \in Int /\ i \in 1..Cardinality(A) /\ i <= e
      BY <1>1, <1>3, <1>6
    <3> HIDE DEF e
    <3>2. PICK j \in A : Rank(A, j) = i
      BY <1>3, <3>1
    <3> QED BY <1>4, <3>1, <3>2
  <2>3. f \in Surjection(G, T)
    BY <2>1, <2>2 DEF Surjection
  <2>4. Cardinality(T) = e
    BY <1>1, <1>10, FS_Interval
  <2>5. Cardinality(T) <= Cardinality(G)
    <3> HIDE DEF f, T
    <3> QED BY <1>7, <2>3, FS_Surjection
  <2> QED BY <1>1, <1>7, <1>8, <2>4, <2>5
<1> QED BY <1>1, <1>9, <1>10

(* What store needs to find, and leaves: each row is listed once.          *)
LEMMA StoreTyped ==
  ASSUME AlertsAssumption, Typed, NEW id \in Ids, NEW row \in Row, ~row.acked, store(id, row)
  PROVE  /\ DOMAIN rows' \subseteq DOMAIN rows \cup {id} /\ id \in DOMAIN rows'
         /\ rows' = [i \in DOMAIN rows' |-> rows'[i]]
         /\ \A i \in DOMAIN rows' : rows'[i] = IF i = id THEN row ELSE rows[i]
         /\ order' \in Seq(Ids) /\ Range(order') = DOMAIN rows' /\ IsInjective(order')
         /\ Len(order') <= MaxLen \/ \A i \in DOMAIN rows' : ~rows'[i].acked
<1> DEFINE o == IF id \in DOMAIN rows THEN order ELSE Append(order, id)
           r == Put(rows, id, row)
           D == DOMAIN rows
           gone == Trimmed(o, r)
           K == Kept(o, r)
<1>1. /\ rows' = [i \in DOMAIN r \ gone |-> r[i]]
      /\ order' = Those(o, K)
  BY DEF store, Kept
<1>2. /\ DOMAIN r = D \cup {id}
      /\ \A i \in D \cup {id} : r[i] = IF i = id THEN row ELSE rows[i]
  BY DEF Put
<1>3. order \in Seq(Ids) /\ Range(order) = D /\ IsInjective(order)
  BY DEF Typed, AlertsTypeOK
<1>4. o \in Seq(Ids) /\ Range(o) = D \cup {id} /\ IsInjective(o)
  <2>1. CASE id \in D
    BY <1>3, <2>1
  <2>2. CASE id \notin D
    <3> DEFINE a == Append(order, id)
               n == Len(order)
    <3>1. /\ a \in Seq(Ids) /\ n \in Nat /\ DOMAIN order = 1..n /\ DOMAIN a = 1..(n + 1)
          /\ \A k \in 1..n : a[k] = order[k]
          /\ a[n + 1] = id
      BY <1>3
    <3>2. \A k \in 1..n : order[k] \in D
      BY <1>3, <3>1 DEF Range
    <3>3. \A x \in D : \E k \in 1..n : order[k] = x
      BY <1>3, <3>1 DEF Range
    <3> HIDE DEF a, n
    <3>4. IsInjective(a)
      BY <1>3, <2>2, <3>1, <3>2 DEF IsInjective
    <3>5. Range(a) = D \cup {id}
      <4>1. \A k \in DOMAIN a : a[k] \in D \cup {id}
        BY <3>1, <3>2
      <4>2. \A x \in D \cup {id} : \E k \in DOMAIN a : a[k] = x
        BY <3>1, <3>3
      <4> QED BY <4>1, <4>2 DEF Range
    <3>6. o = a
      BY <2>2 DEF a
    <3> QED BY <3>1, <3>4, <3>5, <3>6
  <2> QED BY <2>1, <2>2
<1> HIDE DEF o, r
<1>5. \A x \in gone : x \in D \cup {id} /\ r[x].acked
  BY <1>4 DEF Trimmed, Range
<1>6. id \notin gone
  BY <1>2, <1>5
<1>7. DOMAIN rows' = (D \cup {id}) \ gone
  BY <1>1, <1>2
<1>8. K \subseteq DOMAIN o
  BY DEF Kept
<1>9. /\ order' \in Seq(Ids) /\ Len(order') = Cardinality(K)
      /\ Range(order') = {o[k] : k \in K} /\ IsInjective(order')
  BY <1>1, <1>4, <1>8, ThoseElements
<1>10. {o[k] : k \in K} = (D \cup {id}) \ gone
  <2>1. \A k \in K : o[k] \in (D \cup {id}) \ gone
    BY <1>4 DEF Kept, Range
  <2>2. \A x \in (D \cup {id}) \ gone : \E k \in K : o[k] = x
    BY <1>4 DEF Kept, Range
  <2> QED BY <2>1, <2>2
<1>11. Len(order') <= MaxLen \/ \A i \in DOMAIN rows' : ~rows'[i].acked
  <2> SUFFICES ASSUME NEW i \in DOMAIN rows', rows'[i].acked PROVE Len(order') <= MaxLen
    OBVIOUS
  <2>1. PICK k \in K : o[k] = i
    BY <1>7, <1>10
  <2>2. rows'[i] = r[i]
    BY <1>1
  <2>3. r[o[k]].acked
    BY <2>1, <2>2
  <2>4. Cardinality(K) <= MaxLen
    BY <1>4, <2>3, TrimBounds
  <2> QED BY <1>9, <2>4
<1>12. rows' = [i \in DOMAIN rows' |-> rows'[i]]
  BY <1>1
<1>13. \A i \in DOMAIN rows' : rows'[i] = IF i = id THEN row ELSE rows[i]
  BY <1>1, <1>2, <1>7
<1> QED BY <1>6, <1>7, <1>9, <1>10, <1>11, <1>12, <1>13
-----------------------------------------------------------------------------
(* CallsOK is inductive: every goroutine asks only for what it may.        *)

(* Calls a goroutine takes on, the others keeping theirs.                  *)
LEMMA BusyOK ==
  ASSUME CallsOK, NEW g \in Goroutines, NEW calls, Pending(g, calls), Busy(g, calls)
  PROVE  CallsOK'
<1>1. \A h \in Goroutines : Pending(h, todo'[h])
  BY DEF CallsOK, Busy
<1>2. todo' = [h \in Goroutines |-> todo'[h]]
  BY DEF CallsOK, Busy
<1> QED BY <1>1, <1>2 DEF CallsOK

LEMMA ShortPending ==
  ASSUME NEW g
  PROVE  /\ Pending(g, <<>>)
         /\ \A a : Asks(g, a) => Pending(g, <<a>>)
         /\ \A a, b : Asks(g, a) /\ Asks(g, b) => Pending(g, <<a>> \o <<b>>)
         /\ \A a : Asks(g, a) => Pending(g, <<a>> \o <<>>) /\ Pending(g, <<>> \o <<a>>)
         /\ Pending(g, <<>> \o <<>>)
<1>1. Pending(g, <<>>)
  BY DEF Pending, IsSeq
<1>2. \A a : Asks(g, a) => Pending(g, <<a>>)
  <2> SUFFICES ASSUME NEW a, Asks(g, a) PROVE Pending(g, <<a>>)
    OBVIOUS
  <2>1. <<a>> \in Seq({a}) /\ Len(<<a>>) = 1 /\ <<a>>[1] = a
    OBVIOUS
  <2>2. IsSeq(<<a>>) /\ DOMAIN <<a>> = 1..1
    BY <2>1, SeqIsSeq
  <2> QED BY <2>1, <2>2 DEF Pending
<1>3. \A a, b : Asks(g, a) /\ Asks(g, b) => Pending(g, <<a>> \o <<b>>)
  <2> SUFFICES ASSUME NEW a, NEW b, Asks(g, a), Asks(g, b)
               PROVE  Pending(g, <<a>> \o <<b>>)
    OBVIOUS
  <2> DEFINE t == <<a>> \o <<b>>
  <2>1. t \in Seq({a, b}) /\ Len(t) = 2 /\ t[1] = a /\ t[2] = b
    OBVIOUS
  <2> HIDE DEF t
  <2>2. IsSeq(t) /\ DOMAIN t = 1..2
    BY <2>1, SeqIsSeq
  <2>3. Pending(g, t)
    BY <2>1, <2>2 DEF Pending
  <2> QED BY <2>3 DEF t
<1>4. \A a : <<a>> \o <<>> = <<a>> /\ <<>> \o <<a>> = <<a>>
  OBVIOUS
<1>5. <<>> \o <<>> = <<>>
  OBVIOUS
<1> QED BY <1>1, <1>2, <1>3, <1>4, <1>5

(* The calls that the goroutines are given, which are theirs to make.      *)
LEMMA GivenCalls ==
  /\ \A w \in Watches, f \in Faults : Asks(Tick, Raise(Watch(w), f))
  /\ \A w \in Clearing : w \in Watches => Asks(Tick, Call("resolveAndAck", Watch(w)))
  /\ \A w \in Watches : Asks(Tick, Call("resolve", Watch(w)))
  /\ \A n \in Nodes : "stale" \in Template => Asks(Tick, Raise(Stale(n), "stale"))
  /\ \A n \in Nodes : /\ Asks(Client(n), Call("resolve", Stale(n)))
                      /\ Asks(Reader(n), Call("resolve", Stale(n)))
                      /\ Asks(Client(n), LinkRestored(n))
                      /\ "disconnect" \in Template => Asks(Client(n), Raise(Conn(n), "disconnect"))
  /\ \A c \in Bounded : /\ Asks(Broker, Call("resolve", Bad(c)))
                        /\ \A f \in Faults : Asks(Broker, Raise(Bad(c), f))
  /\ \A k \in 1..MaxNotices : Asks(Server, Raise(Notice(k), "notice"))
  /\ \A id \in Ids : Asks(Console, Call("ack", id))
<1> USE DEF Asks, Raise, Call, Ids, Conditions, Tick, Broker, Console, Server, Client, Reader,
        Watch, Conn, Stale, Bad, Notice
<1>1. \A w \in Watches, f \in Faults : Asks(Tick, Raise(Watch(w), f))
  OBVIOUS
<1>2. \A w \in Clearing : w \in Watches => Asks(Tick, Call("resolveAndAck", Watch(w)))
  OBVIOUS
<1>3. \A w \in Watches : Asks(Tick, Call("resolve", Watch(w)))
  OBVIOUS
<1>4. \A n \in Nodes : "stale" \in Template => Asks(Tick, Raise(Stale(n), "stale"))
  OBVIOUS
<1>5. ASSUME NEW n \in Nodes
      PROVE  /\ Asks(Client(n), Call("resolve", Stale(n)))
             /\ Asks(Reader(n), Call("resolve", Stale(n)))
             /\ Asks(Client(n), LinkRestored(n))
             /\ "disconnect" \in Template => Asks(Client(n), Raise(Conn(n), "disconnect"))
  BY DEF LinkRestored
<1>6. \A c \in Bounded : /\ Asks(Broker, Call("resolve", Bad(c)))
                         /\ \A f \in Faults : Asks(Broker, Raise(Bad(c), f))
  OBVIOUS
<1>7. \A k \in 1..MaxNotices : Asks(Server, Raise(Notice(k), "notice"))
  OBVIOUS
<1>8. \A id \in Ids : Asks(Console, Call("ack", id))
  OBVIOUS
<1> QED BY <1>1, <1>2, <1>3, <1>4, <1>5, <1>6, <1>7, <1>8

(* The calls a tick leaves, one for each watch that has changed, and then  *)
(* one for each node that has gone stale.                                  *)
Changed(st) == {k \in DOMAIN Checks : st[Checks[k]] # status[Checks[k]]}
Edges(st) == [k \in DOMAIN Those(Checks, Changed(st)) |-> Edge(Those(Checks, Changed(st))[k], st)]
StaleNow == {k \in DOMAIN Sweep : NowStale(Sweep[k])}
StaleCalls ==
  [k \in DOMAIN Those(Sweep, StaleNow) |-> Raise(Stale(Those(Sweep, StaleNow)[k]), "stale")]

LEMMA TickCalls ==
  ASSUME AlertsAssumption
  PROVE  /\ \A st \in [Watches -> {"ok"} \cup Faults] :
              /\ Pending(Tick, Edges(st))
              /\ \A k \in DOMAIN Edges(st) : \E w \in Watches : Edges(st)[k] = Edge(w, st)
              /\ \A w \in Watches : st[w] # status[w] =>
                   \E k \in DOMAIN Edges(st) : Edges(st)[k] = Edge(w, st)
         /\ Pending(Tick, StaleCalls)
         /\ \A k \in DOMAIN StaleCalls : \E n \in Nodes : StaleCalls[k].id = Stale(n)
         /\ Range(Those(Sweep, StaleNow)) = {n \in Nodes : NowStale(n)}
<1>1. ASSUME NEW st \in [Watches -> {"ok"} \cup Faults]
      PROVE  /\ Pending(Tick, Edges(st))
             /\ \A k \in DOMAIN Edges(st) : \E w \in Watches : Edges(st)[k] = Edge(w, st)
             /\ \A w \in Watches : st[w] # status[w] =>
                  \E k \in DOMAIN Edges(st) : Edges(st)[k] = Edge(w, st)
  <2> DEFINE S == Changed(st)
             changed == Those(Checks, S)
             calls == Edges(st)
  <2>1. Checks \in Seq(Watches) /\ S \subseteq DOMAIN Checks
    BY DEF AlertsAssumption, Changed
  <2>2. /\ Cardinality(S) \in Nat /\ DOMAIN changed = 1..Cardinality(S)
        /\ Range(changed) = {Checks[k] : k \in S}
    BY <2>1, ThoseElements
  <2>3. calls = [k \in DOMAIN changed |-> Edge(changed[k], st)]
    BY DEF Edges
  <2>4. IsSeq(calls) /\ DOMAIN calls = DOMAIN changed
    <3> HIDE DEF S, changed, calls
    <3> QED BY <2>2, <2>3, AnyIsSeq
  <2>5. \A w \in Watches : Asks(Tick, Edge(w, st))
    BY GivenCalls DEF Edge
  <2>6. \A k \in DOMAIN changed : changed[k] \in Watches
    <3>1. \A k \in S : Checks[k] \in Watches
      BY <2>1 DEF Watches, Range
    <3> HIDE DEF S, changed
    <3>2. \A k \in DOMAIN changed : changed[k] \in Range(changed)
      BY DEF Range
    <3> QED BY <2>2, <3>1, <3>2
  <2>7. \A w \in Watches : st[w] # status[w] => \E k \in DOMAIN changed : changed[k] = w
    <3>0. \A w \in Watches : \E k \in DOMAIN Checks : Checks[k] = w
      BY DEF Watches, Range
    <3>1. \A w \in Watches : st[w] # status[w] => \E k \in S : Checks[k] = w
      BY <3>0 DEF Changed
    <3> HIDE DEF S, changed
    <3>2. \A w \in Watches : st[w] # status[w] => w \in Range(changed)
      BY <2>2, <3>1
    <3>3. \A w \in Range(changed) : \E k \in DOMAIN changed : changed[k] = w
      BY DEF Range
    <3> QED BY <3>2, <3>3
  <2> HIDE DEF S, changed, calls
  <2>8. Pending(Tick, calls)
    BY <2>3, <2>4, <2>5, <2>6 DEF Pending
  <2> QED BY <2>3, <2>4, <2>6, <2>7, <2>8 DEF calls
<1>2. /\ Pending(Tick, StaleCalls)
      /\ \A k \in DOMAIN StaleCalls : \E n \in Nodes : StaleCalls[k].id = Stale(n)
      /\ Range(Those(Sweep, StaleNow)) = {n \in Nodes : NowStale(n)}
  <2> DEFINE S == StaleNow
             stale == Those(Sweep, S)
             calls == StaleCalls
  <2>1. Sweep \in Seq(Nodes) /\ S \subseteq DOMAIN Sweep
    BY DEF AlertsAssumption, StaleNow
  <2>2. /\ Cardinality(S) \in Nat /\ DOMAIN stale = 1..Cardinality(S)
        /\ Range(stale) = {Sweep[k] : k \in S}
    BY <2>1, ThoseElements
  <2>3. calls = [k \in DOMAIN stale |-> Raise(Stale(stale[k]), "stale")]
    BY DEF StaleCalls
  <2>4. IsSeq(calls) /\ DOMAIN calls = DOMAIN stale
    <3> HIDE DEF S, stale, calls
    <3> QED BY <2>2, <2>3, AnyIsSeq
  <2>5. {Sweep[k] : k \in S} = {n \in Nodes : NowStale(n)}
    BY DEF StaleNow, Nodes, Range
  <2>6. \A k \in DOMAIN stale : stale[k] \in Nodes /\ "stale" \in Template
    <3>1. \A n : NowStale(n) => "stale" \in Template
      BY DEF NowStale
    <3> HIDE DEF S, stale
    <3>2. Range(stale) = {n \in Nodes : NowStale(n)}
      BY <2>2, <2>5
    <3>3. \A k \in DOMAIN stale : stale[k] \in Range(stale)
      BY DEF Range
    <3> QED BY <3>1, <3>2, <3>3
  <2> HIDE DEF S, stale, calls
  <2>7. Pending(Tick, calls)
    BY <2>3, <2>4, <2>6, GivenCalls DEF Pending
  <2>8. \A k \in DOMAIN calls : \E n \in Nodes : calls[k].id = Stale(n)
    BY <2>3, <2>4, <2>6 DEF Raise
  <2> QED BY <2>2, <2>5, <2>7, <2>8 DEF calls, stale, S
<1> QED BY <1>1, <1>2

LEMMA TickStep ==
  /\ TickBegins => \E st \in [Watches -> {"ok"} \cup Faults] :
       status' = st /\ Busy(Tick, Edges(st))
  /\ sweepStale => /\ staleOn' = staleOn \cup Range(Those(Sweep, StaleNow))
                   /\ Busy(Tick, StaleCalls)
BY DEF TickBegins, sweepStale, Changed, Edges, StaleNow, StaleCalls

(* CallsOK is kept by the tick, by the nodes and the broker, and by the    *)
(* connections.                                                            *)
LEMMA EventCallsOK ==
  ASSUME AlertsAssumption, Typed, CallsOK, Event
  PROVE  CallsOK'
<1> Tick \in Goroutines
  BY DEF Goroutines
<1>1. CASE TickBegins \/ sweepStale
  BY <1>1, TickStep, TickCalls, BusyOK
<1>2. CASE Push
  <2>1. seq + 1 \in 1..MaxNotices /\ Server \in Goroutines
    BY <1>2 DEF Push, Typed, AlertsTypeOK, AlertsAssumption, Goroutines
  <2>2. Asks(Server, Raise(Notice(seq + 1), "notice"))
    BY <2>1, GivenCalls
  <2> QED BY <1>2, <2>1, <2>2, ShortPending, BusyOK DEF Push
<1>3. ASSUME NEW n \in Nodes, Silence(n) \/ NodeData(n) \/ NodeConnected(n) \/ NodeDisconnected(n)
      PROVE  CallsOK'
  <2>1. /\ Asks(Client(n), Call("resolve", Stale(n))) /\ Asks(Reader(n), Call("resolve", Stale(n)))
        /\ Asks(Client(n), LinkRestored(n))
        /\ "disconnect" \in Template => Asks(Client(n), Raise(Conn(n), "disconnect"))
    BY GivenCalls
  <2>2. Client(n) \in Goroutines /\ Reader(n) \in Goroutines
    BY DEF Goroutines
  <2>3. CASE Silence(n)
    BY <2>3 DEF Silence, CallsOK
  <2>4. CASE NodeData(n)
    <3>1. Pending(Reader(n), Unstale(n)) /\ Busy(Reader(n), Unstale(n))
      BY <2>1, <2>4, ShortPending DEF NodeData, Unstale
    <3> QED BY <2>2, <3>1, BusyOK
  <2>5. CASE NodeConnected(n)
    <3> DEFINE calls == Unstale(n) \o IF n \in ever THEN <<LinkRestored(n)>> ELSE <<>>
    <3>1. Pending(Client(n), calls)
      BY <2>1, ShortPending DEF Unstale
    <3> QED BY <2>2, <2>5, <3>1, BusyOK DEF NodeConnected
  <2>6. CASE NodeDisconnected(n)
    <3> DEFINE calls == Unstale(n) \o
           IF "disconnect" \in Template THEN <<Raise(Conn(n), "disconnect")>> ELSE <<>>
    <3>1. Pending(Client(n), calls)
      BY <2>1, ShortPending DEF Unstale
    <3> QED BY <2>2, <2>6, <3>1, BusyOK DEF NodeDisconnected
  <2> QED BY <1>3, <2>3, <2>4, <2>5, <2>6
<1>4. ASSUME NEW c \in Bounded, BadData(c)
      PROVE  CallsOK'
  <2> PICK s \in ({"ok"} \cup Faults) \ {bad[c]} :
        Busy(Broker, CASE s = "ok" -> <<Call("resolve", Bad(c))>>
                       [] s # "ok" /\ "bad_data" \in Template -> <<Raise(Bad(c), s)>>
                       [] OTHER -> <<>>)
    BY <1>4 DEF BadData
  <2>1. Asks(Broker, Call("resolve", Bad(c))) /\ (s # "ok" => Asks(Broker, Raise(Bad(c), s)))
    BY GivenCalls
  <2>2. Broker \in Goroutines
    BY DEF Goroutines
  <2> QED BY <2>1, <2>2, ShortPending, BusyOK
<1> QED BY <1>1, <1>2, <1>3, <1>4 DEF Event

LEMMA CallDone ==
  ASSUME CallsOK, NEW g \in Goroutines, todo[g] # <<>>, NEW msg, Done(g, msg)
  PROVE  CallsOK'
<1>1. Pending(g, Tail(todo[g]))
  BY TailPending DEF CallsOK
<1>2. Busy(g, Tail(todo[g]))
  BY DEF Done, Busy
<1> QED BY <1>1, <1>2, BusyOK

LEMMA NextCallsOK ==
  ASSUME AlertsAssumption, Typed, CallsOK, [Next]_vars
  PROVE  CallsOK'
<1>1. CASE Event
  BY <1>1, EventCallsOK
<1>2. ASSUME NEW id \in Ids, AckRequested(id)
      PROVE  CallsOK'
  <2>1. Asks(Console, Call("ack", id)) /\ Console \in Goroutines
    BY GivenCalls DEF Goroutines
  <2> QED BY <1>2, <2>1, ShortPending, BusyOK DEF AckRequested
<1>3. ASSUME NEW g \in Goroutines, RegistryCall(g)
      PROVE  CallsOK'
  <2>1. todo[g] # <<>> /\ \E msg : Done(g, msg)
    BY <1>3 DEF RegistryCall, RaiseFor, Resolve, ResolveAndAck, Ack, Do, Ignored, Update
  <2> QED BY <2>1, CallDone
<1>4. ASSUME NEW g \in Goroutines, Published(g)
      PROVE  CallsOK'
  BY <1>4 DEF Published, CallsOK
<1>5. CASE UNCHANGED vars
  BY <1>5 DEF vars, CallsOK
<1> QED BY <1>1, <1>2, <1>3, <1>4, <1>5 DEF Next

-----------------------------------------------------------------------------
(* What a registry call leaves.                                            *)
WellListed(r, o) ==
  /\ o \in Seq(Ids) /\ Range(o) = DOMAIN r /\ IsInjective(o)
  /\ r = [i \in DOMAIN r |-> r[i]]
  /\ DOMAIN r \subseteq Ids /\ \A i \in DOMAIN r : r[i] \in Row

(* The row of id tells the condition fault, or nothing.                    *)
RowShows(r, id, fault) ==
  id \in DOMAIN r /\ ~r[id].acked =>
    /\ ~r[id].resolved => r[id].what = fault
    /\ fault # "ok" => ~r[id].resolved

LEMMA TypedListed == Typed => WellListed(rows, order)
BY DEF Typed, AlertsTypeOK, WellListed, Range

(* A call that changes one row changes no other.                           *)
LEMMA UpdateLeaves ==
  ASSUME Typed, NEW id \in DOMAIN rows, NEW row \in Row,
         rows' = [rows EXCEPT ![id] = row], order' = order
  PROVE  /\ WellListed(rows', order')
         /\ DOMAIN rows' = DOMAIN rows
         /\ \A i \in DOMAIN rows : rows'[i] = IF i = id THEN row ELSE rows[i]
<1>1. /\ DOMAIN rows' = DOMAIN rows
      /\ \A i \in DOMAIN rows : rows'[i] = IF i = id THEN row ELSE rows[i]
      /\ rows' = [i \in DOMAIN rows' |-> rows'[i]]
  BY TypedListed DEF WellListed
<1> QED BY <1>1, TypedListed DEF WellListed

(* The calls, by what they do to the row they are about: nothing, store it *)
(* anew, or update what it says of itself.                                 *)
Ignores(id, call) ==
  /\ rows' = rows /\ order' = order
  /\ \/ call.op = "raise" /\ Active(id) /\ rows[id].what = call.what
     \/ call.op = "resolve" /\ (id \notin DOMAIN rows \/ rows[id].resolved)
     \/ call.op = "resolveAndAck" /\ (id \notin DOMAIN rows \/ rows[id].acked)
     \/ call.op = "ack" /\ id \notin DOMAIN rows
Stores(id, call) == call.op = "raise" /\ store(id, NewRow(call.what))
SetsRow(id, call, row) ==
  /\ rows' = [rows EXCEPT ![id] = row]
  /\ row.what = rows[id].what
  /\ row.acked = IF call.op = "resolve" THEN rows[id].acked ELSE TRUE
  /\ row.resolved = IF call.op = "ack" THEN rows[id].resolved ELSE TRUE
Updates(id, call) ==
  /\ call.op \in {"resolve", "resolveAndAck", "ack"}
  /\ id \in DOMAIN rows /\ order' = order
  /\ \E row \in Row : SetsRow(id, call, row)

LEMMA CallCases ==
  ASSUME Typed, NEW g \in Goroutines, RegistryCall(g),
         NEW id, id = Target(g), NEW call, call = Head(todo[g])
  PROVE  /\ todo[g] # <<>> /\ \E msg : Done(g, msg)
         /\ Ignores(id, call) \/ Stores(id, call) \/ Updates(id, call)
<1>1. ASSUME id \in DOMAIN rows PROVE rows[id] \in Row
  BY <1>1, TypedListed DEF WellListed
<1>2. CASE RaiseFor(g)
  <2>1. /\ todo[g] # <<>> /\ call.op = "raise"
        /\ \/ /\ Active(id) /\ rows[id].what = NewRow(call.what).what
              /\ Done(g, Nothing) /\ UNCHANGED <<rows, order>>
           \/ Done(g, AlertMsg(id, NewRow(call.what))) /\ store(id, NewRow(call.what))
    BY <1>2 DEF RaiseFor, Do, Target
  <2>2. NewRow(call.what).what = call.what
    BY DEF NewRow
  <2>3. \E msg : Done(g, msg)
    BY <2>1
  <2> QED BY <2>1, <2>2, <2>3 DEF Ignores, Stores
<1>3. CASE Resolve(g)
  <2>1. CASE id \notin DOMAIN rows \/ rows[id].resolved
    BY <1>3, <2>1 DEF Ignores, Resolve, Do, Target, Ignored
  <2>2. CASE id \in DOMAIN rows /\ ~rows[id].resolved
    <3>1. PICK row : row = [rows[id] EXCEPT !.resolved = TRUE]
      OBVIOUS
    <3>2. row \in Row /\ row.what = rows[id].what /\ row.acked = rows[id].acked /\ row.resolved
      BY <1>1, <2>2, <3>1 DEF Row
    <3>3. /\ call.op = "resolve" /\ todo[g] # <<>> /\ \E msg : Done(g, msg)
          /\ rows' = [rows EXCEPT ![id] = row] /\ order' = order
      BY <1>3, <2>2, <3>1 DEF Resolve, Do, Target, Update
    <3> QED BY <2>2, <3>2, <3>3 DEF Updates, SetsRow
  <2> QED BY <2>1, <2>2
<1>4. CASE ResolveAndAck(g)
  <2>1. CASE id \notin DOMAIN rows \/ rows[id].acked
    BY <1>4, <2>1 DEF Ignores, ResolveAndAck, Do, Target, Ignored
  <2>2. CASE id \in DOMAIN rows /\ ~rows[id].acked
    <3>1. PICK row : row = [rows[id] EXCEPT !.resolved = TRUE, !.acked = TRUE]
      OBVIOUS
    <3>2. row \in Row /\ row.what = rows[id].what /\ row.acked /\ row.resolved
      BY <1>1, <2>2, <3>1 DEF Row
    <3>3. /\ call.op = "resolveAndAck" /\ todo[g] # <<>> /\ \E msg : Done(g, msg)
          /\ rows' = [rows EXCEPT ![id] = row] /\ order' = order
      BY <1>4, <2>2, <3>1 DEF ResolveAndAck, Do, Target, Update
    <3> QED BY <2>2, <3>2, <3>3 DEF Updates, SetsRow
  <2> QED BY <2>1, <2>2
<1>5. CASE Ack(g)
  <2>1. CASE id \notin DOMAIN rows
    BY <1>5, <2>1 DEF Ignores, Ack, Do, Target
  <2>2. CASE id \in DOMAIN rows
    <3>1. PICK row : row = [rows[id] EXCEPT !.acked = TRUE]
      OBVIOUS
    <3>2. row \in Row /\ row.what = rows[id].what /\ row.acked /\ row.resolved = rows[id].resolved
      BY <1>1, <2>2, <3>1 DEF Row
    <3>3. /\ call.op = "ack" /\ todo[g] # <<>> /\ \E msg : Done(g, msg)
          /\ rows' = [rows EXCEPT ![id] = row] /\ order' = order
      BY <1>5, <2>2, <3>1 DEF Ack, Do, Target, Update
    <3> QED BY <2>2, <3>2, <3>3 DEF Updates, SetsRow
  <2> QED BY <2>1, <2>2
<1> QED BY <1>2, <1>3, <1>4, <1>5 DEF RegistryCall

LEMMA CallLeaves ==
  ASSUME AlertsAssumption, Typed, CallsOK, NEW g \in Goroutines, RegistryCall(g),
         NEW id, id = Target(g), NEW call, call = Head(todo[g])
  PROVE  /\ WellListed(rows', order')
         /\ Len(order') > Len(order) =>
              Len(order') <= MaxLen \/ \A i \in DOMAIN rows' : ~rows'[i].acked
         /\ \A i \in DOMAIN rows' : i \in DOMAIN rows \/ (i = id /\ call.op = "raise")
         /\ \A i \in DOMAIN rows' : i # id => rows'[i] = rows[i]
         /\ \A f : Settles(call, f) => RowShows(rows', id, f)
         /\ \A f : call.op = "ack" /\ RowShows(rows, id, f) => RowShows(rows', id, f)
<1>1. Asks(g, call) /\ id = call.id
  BY CallCases, TailPending DEF CallsOK, Target
<1>2. WellListed(rows, order)
  BY TypedListed
<1>3. Ignores(id, call) \/ Stores(id, call) \/ Updates(id, call)
  BY CallCases
<1>4. CASE Ignores(id, call)
  <2>1. \A f : Settles(call, f) => RowShows(rows', id, f)
    BY <1>4 DEF Ignores, Settles, RowShows, Active
  <2> QED BY <1>2, <1>4, <2>1 DEF Ignores, WellListed
<1>5. CASE Stores(id, call)
  <2>1. PICK row : row = NewRow(call.what)
    OBVIOUS
  <2>2. row \in Row /\ ~row.acked /\ ~row.resolved /\ row.what = call.what /\ id \in Ids
    <3>1. call.what \in Conditions /\ id \in Ids
      BY <1>1, <1>5 DEF Stores, Asks
    <3> QED BY <2>1, <3>1 DEF NewRow, Row
  <2>3. /\ DOMAIN rows' \subseteq DOMAIN rows \cup {id} /\ id \in DOMAIN rows'
        /\ rows' = [i \in DOMAIN rows' |-> rows'[i]]
        /\ \A i \in DOMAIN rows' : rows'[i] = IF i = id THEN row ELSE rows[i]
        /\ order' \in Seq(Ids) /\ Range(order') = DOMAIN rows' /\ IsInjective(order')
        /\ Len(order') <= MaxLen \/ \A i \in DOMAIN rows' : ~rows'[i].acked
    BY <1>5, <2>1, <2>2, StoreTyped DEF Stores
  <2>4. WellListed(rows', order')
    BY <1>2, <2>2, <2>3 DEF WellListed
  <2>5. \A f : Settles(call, f) => RowShows(rows', id, f)
    BY <1>5, <2>2, <2>3 DEF Stores, Settles, RowShows
  <2> QED BY <1>5, <2>3, <2>4, <2>5 DEF Stores
<1>6. CASE Updates(id, call)
  <2>1. PICK row \in Row : SetsRow(id, call, row)
    BY <1>6 DEF Updates
  <2>2. /\ WellListed(rows', order') /\ DOMAIN rows' = DOMAIN rows
        /\ \A i \in DOMAIN rows : rows'[i] = IF i = id THEN row ELSE rows[i]
    BY <1>6, <2>1, UpdateLeaves DEF Updates, SetsRow
  <2>3. \A f : Settles(call, f) => RowShows(rows', id, f)
    BY <1>6, <2>1, <2>2 DEF Updates, SetsRow, Settles, RowShows
  <2>4. \A f : call.op = "ack" /\ RowShows(rows, id, f) => RowShows(rows', id, f)
    BY <1>6, <2>1, <2>2 DEF Updates, SetsRow, RowShows
  <2>5. order' = order /\ Len(order) \in Nat
    BY <1>2, <1>6 DEF Updates, WellListed
  <2> QED BY <1>6, <2>2, <2>3, <2>4, <2>5
<1> QED BY <1>3, <1>4, <1>5, <1>6
-----------------------------------------------------------------------------
(* Typed is inductive.                                                     *)
EngineTyped ==
  /\ seq \in 0..MaxNotices
  /\ status \in [Watches -> {"ok"} \cup Faults] /\ bad \in [Bounded -> {"ok"} \cup Faults]
  /\ connected \subseteq ever /\ ever \subseteq Nodes /\ silent \subseteq ever
  /\ staleOn \subseteq connected

LEMMA TypedIs ==
  /\ Typed => WellListed(rows, order) /\ EngineTyped
  /\ WellListed(rows, order) /\ EngineTyped => Typed
<1>1. Typed => WellListed(rows, order) /\ EngineTyped
  BY TypedListed DEF Typed, AlertsTypeOK, EngineTyped
<1>2. WellListed(rows, order) /\ EngineTyped => Typed
  BY DEF WellListed, EngineTyped, Typed, AlertsTypeOK, Range
<1> QED BY <1>1, <1>2

(* An event changes the engine's state, and leaves the rows alone.         *)
LEMMA EventTyped ==
  ASSUME AlertsAssumption, Typed, Event
  PROVE  EngineTyped' /\ rows' = rows /\ order' = order
<1> USE DEF registryVars, EngineTyped
<1>1. EngineTyped
  BY TypedIs
<1>2. CASE TickBegins
  <2>1. \E st \in [Watches -> {"ok"} \cup Faults] : status' = st
    BY <1>2, TickStep
  <2> QED BY <1>1, <1>2, <2>1 DEF TickBegins
<1>3. CASE sweepStale
  <2>1. staleOn' = staleOn \cup {n \in Nodes : NowStale(n)}
    BY <1>3, TickStep, TickCalls
  <2>2. staleOn' \subseteq connected
    BY <1>1, <2>1 DEF NowStale
  <2> QED BY <1>1, <1>3, <2>2 DEF sweepStale
<1>4. CASE Push
  BY <1>1, <1>4 DEF Push, engineVars, AlertsAssumption
<1>5. ASSUME NEW n \in Nodes, Silence(n) PROVE EngineTyped' /\ rows' = rows /\ order' = order
  BY <1>1, <1>5 DEF Silence
<1>6. ASSUME NEW n \in Nodes, NodeData(n) PROVE EngineTyped' /\ rows' = rows /\ order' = order
  BY <1>1, <1>6 DEF NodeData, NoLongerStale
<1>7. ASSUME NEW n \in Nodes, NodeConnected(n) PROVE EngineTyped' /\ rows' = rows /\ order' = order
  BY <1>1, <1>7 DEF NodeConnected, NoLongerStale
<1>8. ASSUME NEW n \in Nodes, NodeDisconnected(n) PROVE EngineTyped' /\ rows' = rows /\ order' = order
  BY <1>1, <1>8 DEF NodeDisconnected, NoLongerStale
<1>9. ASSUME NEW c \in Bounded, BadData(c) PROVE EngineTyped' /\ rows' = rows /\ order' = order
  BY <1>1, <1>9 DEF BadData
<1> QED BY <1>2, <1>3, <1>4, <1>5, <1>6, <1>7, <1>8, <1>9 DEF Event

LEMMA NextTyped ==
  ASSUME AlertsAssumption, Typed, CallsOK, [Next]_vars
  PROVE  /\ Typed'
         /\ Len(order') > Len(order) =>
              Len(order') <= MaxLen \/ \A i \in DOMAIN rows' : ~rows'[i].acked
<1> DEFINE Bound == Len(order') > Len(order) =>
             Len(order') <= MaxLen \/ \A i \in DOMAIN rows' : ~rows'[i].acked
<1>0. WellListed(rows, order) /\ EngineTyped
  BY TypedIs
<1>1. CASE EngineTyped' /\ rows' = rows /\ order' = order
  <2>1. WellListed(rows', order')
    BY <1>0, <1>1
  <2>2. Len(order) \in Nat
    BY <1>0 DEF WellListed
  <2>3. Typed'
    BY <1>1, <2>1 DEF WellListed, EngineTyped, Typed, AlertsTypeOK, Range
  <2>4. ~(Len(order') > Len(order))
    BY <1>1, <2>2
  <2> QED BY <2>3, <2>4
<1>2. CASE Event
  BY <1>1, <1>2, EventTyped
<1>3. CASE UNCHANGED <<registryVars, engineVars>>
  BY <1>0, <1>1, <1>3 DEF registryVars, engineVars, EngineTyped
<1>4. ASSUME NEW g \in Goroutines, RegistryCall(g)
      PROVE  Typed' /\ Bound
  <2>1. WellListed(rows', order') /\ Bound
    BY <1>4, CallLeaves
  <2>2. \E msg : Done(g, msg)
    BY <1>4, CallCases
  <2>3. EngineTyped'
    BY <1>0, <2>2 DEF Done, engineVars, EngineTyped
  <2>4. Typed'
    BY <2>1, <2>3 DEF WellListed, EngineTyped, Typed, AlertsTypeOK, Range
  <2> QED BY <2>1, <2>4
<1>5. ASSUME NEW id \in Ids, AckRequested(id) PROVE Typed' /\ Bound
  BY <1>3, <1>5 DEF AckRequested
<1>6. ASSUME NEW g \in Goroutines, Published(g) PROVE Typed' /\ Bound
  BY <1>3, <1>6 DEF Published
<1>7. CASE UNCHANGED vars
  BY <1>3, <1>7 DEF vars
<1> QED BY <1>2, <1>4, <1>5, <1>6, <1>7 DEF Next

LEMMA InitTyped ==
  ASSUME AlertsAssumption, Init
  PROVE  Typed /\ CallsOK
<1>1. \A g \in Goroutines : Pending(g, todo[g])
  BY ShortPending DEF Init
<1>2. CallsOK
  BY <1>1 DEF Init, CallsOK
<1>3. rows = <<>> /\ order = <<>> /\ DOMAIN rows = {} /\ DOMAIN order = {}
  BY DEF Init
<1>4. rows = [i \in DOMAIN rows |-> rows[i]] /\ order \in Seq(Ids)
  BY <1>3
<1>5. Range(order) = DOMAIN rows /\ IsInjective(order)
  BY <1>3 DEF Range, IsInjective
<1>6. WellListed(rows, order)
  BY <1>3, <1>4, <1>5 DEF WellListed
<1>7. EngineTyped
  BY DEF Init, EngineTyped, AlertsAssumption
<1> QED BY <1>2, <1>6, <1>7, TypedIs

LEMMA AlwaysTyped == Spec => [](Typed /\ CallsOK)
<1>1. Init => Typed /\ CallsOK
  BY AlertsAssumption, InitTyped
<1>2. (Typed /\ CallsOK) /\ [Next]_vars => (Typed /\ CallsOK)'
  BY AlertsAssumption, NextTyped, NextCallsOK
<1> QED BY <1>1, <1>2, PTL DEF Spec

(* The registry lists each of its rows once, by an id that the program can *)
(* make, and the engine's edge state is about its own rules and nodes.     *)
THEOREM AlertsTypeCorrect == Spec => []AlertsTypeOK
<1>1. Typed => AlertsTypeOK
  BY DEF Typed
<1> QED BY <1>1, AlwaysTyped, PTL

(* A new row leaves the list within its limit, or every row of it waits    *)
(* for somebody to acknowledge it: trim drops as many acked rows as the    *)
(* list is too long by, whatever else is listed between them.              *)
THEOREM TrimIsEnough == Spec => TrimKeepsBound
<1>1. (Typed /\ CallsOK) /\ [Next]_vars =>
        [Len(order') > Len(order) =>
           Len(order') <= MaxLen \/ \A id \in DOMAIN rows' : ~rows'[id].acked]_vars
  BY AlertsAssumption, NextTyped
<1> QED BY <1>1, AlwaysTyped, PTL DEF Spec, TrimKeepsBound

-----------------------------------------------------------------------------
(* Every row comes to tell the condition it is about.  RowsWillTell, of    *)
(* the rows and the calls ahead of the goroutine that sees the condition.  *)
Has(r, calls, id, fault) ==
  /\ \A k \in DOMAIN calls : calls[k].id = id => Settles(calls[k], fault)
  /\ (\A k \in DOMAIN calls : calls[k].id # id) => RowShows(r, id, fault)
WatchesTold == \A w \in Watches : Has(rows, todo[Tick], Watch(w), status[w])
ChannelsTold ==
  "bad_data" \in Template => \A c \in Bounded : Has(rows, todo[Broker], Bad(c), bad[c])
LinksTold ==
  "disconnect" \in Template => \A n \in Nodes : Has(rows, todo[Client(n)], Conn(n), LinkFault(n))
LinksSeen ==
  \A n \in Nodes :
    \/ Conn(n) \in DOMAIN rows
    \/ \E k \in DOMAIN todo[Client(n)] : todo[Client(n)][k].id = Conn(n)
    => n \in ever
Told == WatchesTold /\ ChannelsTold /\ LinksTold /\ LinksSeen

LEMMA ToldIs == RowsWillTell <=> Told
<1>1. \A g, id, f : Tells(id, f) <=> RowShows(rows, id, f)
  BY DEF Tells, Active, RowShows
<1>2. \A g, id : About(g, id) = {} <=> \A k \in DOMAIN todo[g] : todo[g][k].id # id
  BY DEF About
<1>3. \A g, id, f : WillTell(g, id, f) <=> Has(rows, todo[g], id, f)
  BY <1>1, <1>2 DEF WillTell, Has, About
<1>4. OnlyLinksSeen <=> LinksSeen
  BY <1>2 DEF OnlyLinksSeen, LinksSeen
<1> QED BY <1>3, <1>4 DEF RowsWillTell, Told, WatchesTold, ChannelsTold, LinksTold

(* The calls left are calls that were there.                               *)
LEMMA TailElements ==
  ASSUME NEW calls, IsSeq(calls), calls # <<>>
  PROVE  /\ \A k \in DOMAIN Tail(calls) : \E j \in DOMAIN calls : Tail(calls)[k] = calls[j]
         /\ \A j \in DOMAIN calls :
              calls[j] = Head(calls) \/ \E k \in DOMAIN Tail(calls) : Tail(calls)[k] = calls[j]
         /\ \E j \in DOMAIN calls : calls[j] = Head(calls)
<1> DEFINE S == {calls[k] : k \in DOMAIN calls}
           t == Tail(calls)
           n == Len(calls)
<1>1. /\ calls \in Seq(S) /\ n \in Nat \ {0} /\ DOMAIN calls = 1..n
      /\ DOMAIN t = 1..(n - 1) /\ Head(calls) = calls[1]
      /\ \A k \in 1..(n - 1) : t[k] = calls[k + 1]
  BY DEF IsSeq
<1> HIDE DEF S, t, n
<1>2. \A k \in 1..(n - 1) : k + 1 \in 1..n
  BY <1>1
<1>3. \A j \in 1..n : j = 1 \/ (j - 1 \in 1..(n - 1) /\ j = (j - 1) + 1)
  BY <1>1
<1>4. \A j \in 1..n : calls[j] = Head(calls) \/ \E k \in 1..(n - 1) : t[k] = calls[j]
  BY <1>1, <1>3
<1>5. 1 \in 1..n
  BY <1>1
<1> QED BY <1>1, <1>2, <1>4, <1>5 DEF t

(* A call keeps what the row tells, or will tell, provided that it is the  *)
(* call of the goroutine that sees the condition, or a person's.           *)
LEMMA CallKeepsHas ==
  ASSUME AlertsAssumption, Typed, CallsOK, NEW h \in Goroutines, RegistryCall(h),
         NEW g \in Goroutines, NEW id, NEW f, Has(rows, todo[g], id, f),
         Target(h) = id /\ Head(todo[h]).op # "ack" => h = g
  PROVE  Has(rows', todo'[g], id, f)
<1> PICK call : call = Head(todo[h])
  OBVIOUS
<1>1. todo[h] # <<>> /\ call.id = Target(h) /\ \E msg : Done(h, msg)
  BY CallCases DEF Target
<1>2. /\ \A i \in DOMAIN rows' : i \in DOMAIN rows \/ (i = call.id /\ call.op = "raise")
      /\ \A i \in DOMAIN rows' : i # call.id => rows'[i] = rows[i]
      /\ Settles(call, f) => RowShows(rows', call.id, f)
      /\ call.op = "ack" /\ RowShows(rows, call.id, f) => RowShows(rows', call.id, f)
  BY <1>1, CallLeaves
<1>3. call.id # id /\ RowShows(rows, id, f) => RowShows(rows', id, f)
  BY <1>2 DEF RowShows
<1>4. CASE h = g
  <2>1. /\ todo'[g] = Tail(todo[g])
    BY <1>1, <1>4 DEF Done, CallsOK
  <2>2. /\ \A k \in DOMAIN todo'[g] : \E j \in DOMAIN todo[g] : todo'[g][k] = todo[g][j]
        /\ \A j \in DOMAIN todo[g] :
             todo[g][j] = call \/ \E k \in DOMAIN todo'[g] : todo'[g][k] = todo[g][j]
        /\ \E j \in DOMAIN todo[g] : todo[g][j] = call
    BY <1>1, <1>4, <2>1, TailElements DEF CallsOK, Pending
  <2>3. \A k \in DOMAIN todo'[g] : todo'[g][k].id = id => Settles(todo'[g][k], f)
    BY <2>2 DEF Has
  <2>4. call.id = id => Settles(call, f)
    BY <2>2 DEF Has
  <2>5. (\A k \in DOMAIN todo'[g] : todo'[g][k].id # id) /\ call.id # id => RowShows(rows, id, f)
    BY <2>2 DEF Has
  <2> QED BY <1>2, <1>3, <2>3, <2>4, <2>5 DEF Has
<1>5. CASE h # g
  <2>1. todo'[g] = todo[g]
    BY <1>1, <1>5 DEF Done, CallsOK
  <2>2. call.id = id => call.op = "ack"
    BY <1>1, <1>5
  <2> QED BY <1>2, <1>3, <2>1, <2>2 DEF Has
<1> QED BY <1>4, <1>5

(* Whose calls are about the rows that show conditions.                    *)
LEMMA Owners ==
  ASSUME Typed, CallsOK, NEW h \in Goroutines, RegistryCall(h), Head(todo[h]).op # "ack"
  PROVE  /\ \A w \in Watches : Target(h) = Watch(w) => h = Tick
         /\ \A c \in Bounded : Target(h) = Bad(c) => h = Broker
         /\ \A n \in Nodes : Target(h) = Conn(n) => h = Client(n)
<1>1. todo[h] # <<>>
  BY CallCases
<1>2. Asks(h, Head(todo[h]))
  BY <1>1, TailPending DEF CallsOK
<1> QED BY <1>2 DEF Asks, Target

LEMMA CallKeepsTold ==
  ASSUME AlertsAssumption, Typed, CallsOK, Told, NEW h \in Goroutines, RegistryCall(h)
  PROVE  Told'
<1>1. Tick \in Goroutines /\ Broker \in Goroutines /\ \A n \in Nodes : Client(n) \in Goroutines
  BY DEF Goroutines
<1>2. todo[h] # <<>> /\ \E msg : Done(h, msg)
  BY CallCases
<1>3. status' = status /\ bad' = bad /\ connected' = connected /\ ever' = ever
  BY <1>2 DEF Done, engineVars
<1>4. WatchesTold'
  <2> SUFFICES ASSUME NEW w \in Watches PROVE Has(rows', todo'[Tick], Watch(w), status'[w])
    BY DEF WatchesTold
  <2>1. Has(rows, todo[Tick], Watch(w), status[w])
    BY DEF Told, WatchesTold
  <2>2. Target(h) = Watch(w) /\ Head(todo[h]).op # "ack" => h = Tick
    BY Owners
  <2> PICK id, f : id = Watch(w) /\ f = status[w]
    OBVIOUS
  <2>3. Has(rows', todo'[Tick], id, f)
    BY <1>1, <2>1, <2>2, CallKeepsHas
  <2> QED BY <1>3, <2>3
<1>5. ChannelsTold'
  <2> SUFFICES ASSUME "bad_data" \in Template, NEW c \in Bounded
               PROVE  Has(rows', todo'[Broker], Bad(c), bad'[c])
    BY DEF ChannelsTold
  <2>1. Has(rows, todo[Broker], Bad(c), bad[c])
    BY DEF Told, ChannelsTold
  <2>2. Target(h) = Bad(c) /\ Head(todo[h]).op # "ack" => h = Broker
    BY Owners
  <2> PICK id, f : id = Bad(c) /\ f = bad[c]
    OBVIOUS
  <2>3. Has(rows', todo'[Broker], id, f)
    BY <1>1, <2>1, <2>2, CallKeepsHas
  <2> QED BY <1>3, <2>3
<1>6. LinksTold'
  <2> SUFFICES ASSUME "disconnect" \in Template, NEW n \in Nodes
               PROVE  Has(rows', todo'[Client(n)], Conn(n), LinkFault(n)')
    BY DEF LinksTold
  <2>1. Has(rows, todo[Client(n)], Conn(n), LinkFault(n))
    BY DEF Told, LinksTold
  <2>2. Target(h) = Conn(n) /\ Head(todo[h]).op # "ack" => h = Client(n)
    BY Owners
  <2> PICK id, f : id = Conn(n) /\ f = LinkFault(n)
    OBVIOUS
  <2>3. Has(rows', todo'[Client(n)], id, f)
    BY <1>1, <2>1, <2>2, CallKeepsHas
  <2>4. LinkFault(n)' = LinkFault(n)
    BY <1>3 DEF LinkFault
  <2> QED BY <2>3, <2>4
<1>7. LinksSeen'
  <2> PICK call : call = Head(todo[h])
    OBVIOUS
  <2>1. \A i \in DOMAIN rows' : i \in DOMAIN rows \/ (i = Target(h) /\ call.op = "raise")
    BY CallLeaves
  <2>2. /\ \A k \in DOMAIN Tail(todo[h]) : \E j \in DOMAIN todo[h] : Tail(todo[h])[k] = todo[h][j]
        /\ \E j \in DOMAIN todo[h] : todo[h][j] = call
    BY <1>2, TailElements DEF CallsOK, Pending
  <2>3. \A g \in Goroutines : todo'[g] = IF g = h THEN Tail(todo[h]) ELSE todo[g]
    BY <1>2 DEF Done, CallsOK
  <2> SUFFICES ASSUME NEW n \in Nodes,
                      \/ Conn(n) \in DOMAIN rows'
                      \/ \E k \in DOMAIN todo'[Client(n)] : todo'[Client(n)][k].id = Conn(n)
               PROVE  n \in ever'
    BY DEF LinksSeen
  <2>4. Conn(n) \in DOMAIN rows => n \in ever
    BY DEF Told, LinksSeen
  <2>5. (\E k \in DOMAIN todo[Client(n)] : todo[Client(n)][k].id = Conn(n)) => n \in ever
    BY DEF Told, LinksSeen
  <2>6. CASE Conn(n) \in DOMAIN rows'
    <3>1. CASE Conn(n) \in DOMAIN rows
      BY <1>3, <2>4, <3>1
    <3>2. CASE Conn(n) = Target(h) /\ call.op = "raise"
      <4>1. h = Client(n)
        BY <3>2, Owners
      <4>2. call.id = Conn(n)
        BY <3>2 DEF Target
      <4> QED BY <1>3, <2>2, <2>5, <4>1, <4>2
    <3> QED BY <2>1, <2>6, <3>1, <3>2
  <2>7. CASE \E k \in DOMAIN todo'[Client(n)] : todo'[Client(n)][k].id = Conn(n)
    <3>1. \E k \in DOMAIN todo[Client(n)] : todo[Client(n)][k].id = Conn(n)
      <4>1. CASE h = Client(n)
        <5>1. todo'[Client(n)] = Tail(todo[Client(n)])
          BY <1>1, <2>3, <4>1
        <5> QED BY <2>2, <2>7, <4>1, <5>1
      <4>2. CASE h # Client(n)
        BY <1>1, <2>3, <2>7, <4>2
      <4> QED BY <4>1, <4>2
    <3> QED BY <1>3, <2>5, <3>1
  <2> QED BY <2>6, <2>7
<1> QED BY <1>4, <1>5, <1>6, <1>7 DEF Told

(* An event gives an idle goroutine calls that settle what has changed.    *)
LEMMA EventKeepsHas ==
  ASSUME NEW g \in Goroutines, NEW id, NEW f, Has(rows, todo[g], id, f), todo[g] = <<>>,
         rows' = rows, NEW f2,
         \A k \in DOMAIN todo'[g] : todo'[g][k].id = id => Settles(todo'[g][k], f2),
         (\A k \in DOMAIN todo'[g] : todo'[g][k].id # id) => f2 = f \/ id \notin DOMAIN rows
  PROVE  Has(rows', todo'[g], id, f2)
<1>1. DOMAIN todo[g] = {}
  OBVIOUS
<1>2. RowShows(rows, id, f)
  BY <1>1 DEF Has
<1>3. (\A k \in DOMAIN todo'[g] : todo'[g][k].id # id) => RowShows(rows', id, f2)
  BY <1>2 DEF RowShows
<1> QED BY <1>3 DEF Has

LEMMA TickKeepsTold ==
  ASSUME AlertsAssumption, Typed, CallsOK, Told, TickBegins \/ sweepStale
  PROVE  Told'
<1> Tick \in Goroutines
  BY DEF Goroutines
<1>1. /\ rows' = rows /\ todo[Tick] = <<>>
      /\ bad' = bad /\ connected' = connected /\ ever' = ever
  BY DEF TickBegins, sweepStale, Idle, registryVars
<1>2. \E calls : Busy(Tick, calls)
  BY TickStep
<1>3. /\ todo'[Broker] = todo[Broker]
      /\ \A n \in Nodes : todo'[Client(n)] = todo[Client(n)]
  <2>1. Broker # Tick /\ \A n : Client(n) # Tick
    BY DEF Broker, Tick, Client
  <2>2. Broker \in Goroutines /\ \A n \in Nodes : Client(n) \in Goroutines
    BY DEF Goroutines
  <2> QED BY <1>2, <2>1, <2>2 DEF Busy, CallsOK
<1>4. ChannelsTold'
  BY <1>1, <1>3 DEF Told, ChannelsTold
<1>5. LinksTold'
  <2>1. \A n \in Nodes : LinkFault(n)' = LinkFault(n)
    BY <1>1 DEF LinkFault
  <2> QED BY <1>1, <1>3, <2>1 DEF Told, LinksTold
<1>6. LinksSeen'
  BY <1>1, <1>3 DEF Told, LinksSeen
<1>7. WatchesTold'
  <2> SUFFICES ASSUME NEW w \in Watches PROVE Has(rows', todo'[Tick], Watch(w), status'[w])
    BY DEF WatchesTold
  <2>1. Has(rows, todo[Tick], Watch(w), status[w])
    BY DEF Told, WatchesTold
  <2> PICK id, f, f2 : id = Watch(w) /\ f = status[w] /\ f2 = status'[w]
    OBVIOUS
  <2>2. CASE TickBegins
    <3>1. PICK st \in [Watches -> {"ok"} \cup Faults] : status' = st /\ Busy(Tick, Edges(st))
      BY <2>2, TickStep
    <3>2. /\ \A k \in DOMAIN Edges(st) : \E v \in Watches : Edges(st)[k] = Edge(v, st)
          /\ st[w] # status[w] => \E k \in DOMAIN Edges(st) : Edges(st)[k] = Edge(w, st)
      BY TickCalls
    <3>3. todo'[Tick] = Edges(st)
      BY <3>1 DEF Busy, CallsOK
    <3>4. \A v \in Watches : Edge(v, st).id = Watch(v)
      BY DEF Edge, Raise, Call
    <3>5. \A v : Watch(v) = Watch(w) => v = w
      BY DEF Watch
    <3>6. Settles(Edge(w, st), f2)
      <4>1. CASE f2 # "ok"
        <5>1. st[w] = f2 /\ st[w] # "ok"
          BY <3>1, <4>1
        <5>2. Edge(w, st) = Raise(Watch(w), st[w])
          BY <5>1 DEF Edge
        <5> QED BY <4>1, <5>1, <5>2 DEF Raise, Settles
      <4>2. CASE f2 = "ok"
        <5>1. Edge(w, st) \in {Call("resolveAndAck", Watch(w)), Call("resolve", Watch(w))}
          BY <3>1, <4>2 DEF Edge
        <5> QED BY <4>2, <5>1 DEF Call, Settles
      <4> QED BY <4>1, <4>2
    <3>7. \A k \in DOMAIN todo'[Tick] : todo'[Tick][k].id = id => Settles(todo'[Tick][k], f2)
      BY <3>2, <3>3, <3>4, <3>5, <3>6
    <3>8. (\A k \in DOMAIN todo'[Tick] : todo'[Tick][k].id # id) => f2 = f
      BY <3>1, <3>2, <3>3, <3>4
    <3> QED BY <1>1, <2>1, <3>7, <3>8, EventKeepsHas
  <2>3. CASE sweepStale
    <3>1. todo'[Tick] = StaleCalls /\ status' = status
      BY <2>3, TickStep DEF Busy, CallsOK, sweepStale
    <3>2. \A k \in DOMAIN StaleCalls : StaleCalls[k].id # id
      <4>1. \A k \in DOMAIN StaleCalls : \E n \in Nodes : StaleCalls[k].id = Stale(n)
        BY TickCalls
      <4>2. \A n : Stale(n) # Watch(w)
        BY DEF Stale, Watch
      <4> QED BY <4>1, <4>2
    <3>3. f2 = f
      BY <3>1
    <3> QED BY <1>1, <2>1, <3>1, <3>2, <3>3, EventKeepsHas
  <2> QED BY <2>2, <2>3
<1> QED BY <1>4, <1>5, <1>6, <1>7 DEF Told

(* The calls of a node's client: one about its stale row, if that is on,   *)
(* then one about the link.                                                *)
LEMMA ClientCalls ==
  ASSUME NEW n, NEW a
  PROVE  /\ \A k \in DOMAIN (Unstale(n) \o <<a>>) :
              \/ (Unstale(n) \o <<a>>)[k] = a
              \/ (Unstale(n) \o <<a>>)[k].id = Stale(n)
         /\ \E k \in DOMAIN (Unstale(n) \o <<a>>) : (Unstale(n) \o <<a>>)[k] = a
         /\ \A k \in DOMAIN (Unstale(n) \o <<>>) : (Unstale(n) \o <<>>)[k].id = Stale(n)
<1> PICK b : b = Call("resolve", Stale(n))
  OBVIOUS
<1>1. b.id = Stale(n)
  BY DEF Call
<1>2. CASE Unstale(n) = <<b>>
  <2> DEFINE t == <<b>> \o <<a>>
  <2>1. DOMAIN t = 1..2 /\ t[1] = b /\ t[2] = a
    OBVIOUS
  <2>2. <<b>> \o <<>> = <<b>> /\ DOMAIN <<b>> = 1..1 /\ <<b>>[1] = b
    OBVIOUS
  <2> HIDE DEF t
  <2>3. \A k \in DOMAIN t : t[k] = a \/ t[k] = b
    BY <2>1
  <2>4. \E k \in DOMAIN t : t[k] = a
    BY <2>1
  <2>5. Unstale(n) \o <<a>> = t /\ Unstale(n) \o <<>> = <<b>>
    BY <1>2, <2>2 DEF t
  <2>6. \A k \in DOMAIN <<b>> : <<b>>[k] = b
    BY <2>2
  <2> QED BY <1>1, <2>3, <2>4, <2>5, <2>6
<1>3. CASE Unstale(n) = <<>>
  <2>1. <<>> \o <<a>> = <<a>> /\ <<>> \o <<>> = <<>>
    OBVIOUS
  <2> QED BY <1>3, <2>1
<1> QED BY <1>2, <1>3 DEF Unstale

(* What a node's client does leaves the other rows telling.                *)
LEMMA NodeFrame ==
  ASSUME CallsOK, Told, NEW n \in Nodes, NEW g \in {Client(n), Reader(n)}, NEW calls, Busy(g, calls),
         rows' = rows, status' = status, bad' = bad
  PROVE  /\ WatchesTold' /\ ChannelsTold'
         /\ todo'[g] = calls
         /\ \A m \in Nodes : Client(m) # g => todo'[Client(m)] = todo[Client(m)]
<1>1. /\ g # Tick /\ g # Broker
  <2>1. Client(n) # Tick /\ Client(n) # Broker
    BY DEF Tick, Broker, Client
  <2>2. Reader(n) # Tick /\ Reader(n) # Broker
    BY DEF Tick, Broker, Reader
  <2> QED BY <2>1, <2>2
<1>2. /\ Tick \in Goroutines /\ Broker \in Goroutines /\ g \in Goroutines
      /\ \A m \in Nodes : Client(m) \in Goroutines
  BY DEF Goroutines
<1>3. /\ todo'[Tick] = todo[Tick] /\ todo'[Broker] = todo[Broker] /\ todo'[g] = calls
      /\ \A m \in Nodes : Client(m) # g => todo'[Client(m)] = todo[Client(m)]
  BY <1>1, <1>2 DEF Busy, CallsOK
<1>4. WatchesTold'
  BY <1>3 DEF Told, WatchesTold
<1>5. ChannelsTold'
  BY <1>3 DEF Told, ChannelsTold
<1> QED BY <1>3, <1>4, <1>5

LEMMA DataKeepsTold ==
  ASSUME CallsOK, Told, NEW n \in Nodes, Silence(n) \/ NodeData(n)
  PROVE  Told'
<1>1. CASE Silence(n)
  <2>1. /\ rows' = rows /\ todo' = todo /\ status' = status /\ bad' = bad
        /\ connected' = connected /\ ever' = ever
    BY <1>1 DEF Silence, registryVars
  <2>2. \A m : LinkFault(m)' = LinkFault(m)
    BY <2>1 DEF LinkFault
  <2> QED BY <2>1, <2>2 DEF Told, WatchesTold, ChannelsTold, LinksTold, LinksSeen
<1>2. CASE NodeData(n)
  <2>1. /\ rows' = rows /\ status' = status /\ bad' = bad
        /\ connected' = connected /\ ever' = ever /\ Busy(Reader(n), Unstale(n))
    BY <1>2 DEF NodeData, NoLongerStale, registryVars
  <2>2. \A m : Client(m) # Reader(n)
    BY DEF Client, Reader
  <2>3. /\ WatchesTold' /\ ChannelsTold'
        /\ \A m \in Nodes : todo'[Client(m)] = todo[Client(m)]
    BY <2>1, <2>2, NodeFrame
  <2>4. \A m : LinkFault(m)' = LinkFault(m)
    BY <2>1 DEF LinkFault
  <2>5. LinksTold'
    BY <2>1, <2>3, <2>4 DEF Told, LinksTold
  <2>6. LinksSeen'
    BY <2>1, <2>3 DEF Told, LinksSeen
  <2> QED BY <2>3, <2>5, <2>6 DEF Told
<1> QED BY <1>1, <1>2

(* A link that comes up or goes down leaves the client with the call that  *)
(* says so; one that comes up the first time has no row to correct.        *)
LEMMA LinkKeepsTold ==
  ASSUME Typed, CallsOK, Told, NEW n \in Nodes, NodeConnected(n) \/ NodeDisconnected(n)
  PROVE  Told'
<1> DEFINE restored == Unstale(n) \o IF n \in ever THEN <<LinkRestored(n)>> ELSE <<>>
           dropped == Unstale(n) \o
             IF "disconnect" \in Template THEN <<Raise(Conn(n), "disconnect")>> ELSE <<>>
           calls == IF n \in connected THEN dropped ELSE restored
           q == todo'[Client(n)]
<1>1. /\ rows' = rows /\ status' = status /\ bad' = bad /\ todo[Client(n)] = <<>>
      /\ Busy(Client(n), calls)
      /\ n \in connected => connected' = connected \ {n} /\ ever' = ever
      /\ n \notin connected => connected' = connected \cup {n} /\ ever' = ever \cup {n}
  <2>1. CASE NodeConnected(n)
    BY <2>1 DEF NodeConnected, NoLongerStale, registryVars, Idle
  <2>2. CASE NodeDisconnected(n)
    BY <2>2 DEF NodeDisconnected, NoLongerStale, registryVars, Idle
  <2> QED BY <2>1, <2>2
<1>2. /\ WatchesTold' /\ ChannelsTold' /\ q = calls
      /\ \A m \in Nodes : m # n => todo'[Client(m)] = todo[Client(m)]
  <2>1. \A m \in Nodes : m # n => Client(m) # Client(n)
    BY DEF Client
  <2> HIDE DEF calls
  <2> QED BY <1>1, <2>1, NodeFrame
<1>3. \A m \in Nodes : m # n => LinkFault(m)' = LinkFault(m) /\ (m \in ever => m \in ever')
  BY <1>1 DEF LinkFault
<1>4. connected \subseteq ever
  BY DEF Typed, AlertsTypeOK
<1>5. Stale(n) # Conn(n)
  BY DEF Stale, Conn
<1>6. n \in ever'
  BY <1>1, <1>4
<1>7. LinksSeen'
  <2> SUFFICES ASSUME NEW m \in Nodes, m # n,
                      \/ Conn(m) \in DOMAIN rows'
                      \/ \E k \in DOMAIN todo'[Client(m)] : todo'[Client(m)][k].id = Conn(m)
               PROVE  m \in ever'
    BY <1>6 DEF LinksSeen
  <2>1. m \in ever
    BY <1>1, <1>2 DEF Told, LinksSeen
  <2> QED BY <1>3, <2>1
<1>8. ASSUME "disconnect" \in Template
      PROVE  Has(rows', q, Conn(n), LinkFault(n)')
  <2> PICK id, f, f2 : id = Conn(n) /\ f = LinkFault(n) /\ f2 = LinkFault(n)'
    OBVIOUS
  <2>1. Client(n) \in Goroutines /\ Has(rows, todo[Client(n)], id, f)
    BY <1>8 DEF Goroutines, Told, LinksTold
  <2>2. CASE n \in connected \/ n \in ever
    <3> PICK a : a = IF n \in connected THEN Raise(Conn(n), "disconnect") ELSE LinkRestored(n)
      OBVIOUS
    <3>1. q = Unstale(n) \o <<a>>
      BY <1>2, <1>8, <2>2
    <3>2. a.id = Conn(n) /\ Settles(a, f2)
      <4>1. CASE n \in connected
        <5>1. n \notin connected'
          BY <1>1, <4>1
        <5>2. f2 = "disconnect"
          BY <5>1 DEF LinkFault
        <5> QED BY <4>1, <5>2 DEF Raise, Settles
      <4>2. CASE n \notin connected /\ "reconnect" \in Template
        <5>1. n \in connected'
          BY <1>1, <4>2
        <5>2. f2 = "reconnect"
          BY <4>2, <5>1 DEF LinkFault
        <5> QED BY <4>2, <5>2 DEF Raise, LinkRestored, Settles
      <4>3. CASE n \notin connected /\ "reconnect" \notin Template
        <5>1. n \in connected'
          BY <1>1, <4>3
        <5>2. f2 = "ok"
          BY <4>3, <5>1 DEF LinkFault
        <5> QED BY <4>3, <5>2 DEF Call, LinkRestored, Settles
      <4> QED BY <4>1, <4>2, <4>3
    <3>3. /\ \A k \in DOMAIN q : q[k] = a \/ q[k].id = Stale(n)
          /\ \E k \in DOMAIN q : q[k] = a
      <4> HIDE DEF q
      <4> QED BY <3>1, ClientCalls
    <3>4. \A k \in DOMAIN q : q[k].id = id => Settles(q[k], f2)
      BY <1>5, <3>2, <3>3
    <3>5. ~ \A k \in DOMAIN q : q[k].id # id
      BY <3>2, <3>3
    <3> QED BY <1>1, <2>1, <3>4, <3>5, EventKeepsHas
  <2>3. CASE n \notin connected /\ n \notin ever
    <3>1. q = Unstale(n) \o <<>>
      BY <1>2, <2>3
    <3>2. \A k \in DOMAIN q : q[k].id # id
      BY <1>5, <3>1, ClientCalls
    <3>3. id \notin DOMAIN rows
      BY <2>3 DEF Told, LinksSeen
    <3> QED BY <1>1, <2>1, <3>2, <3>3, EventKeepsHas
  <2> QED BY <2>2, <2>3
<1>9. LinksTold'
  <2> SUFFICES ASSUME "disconnect" \in Template, NEW m \in Nodes
               PROVE  Has(rows', todo'[Client(m)], Conn(m), LinkFault(m)')
    BY DEF LinksTold
  <2>1. CASE m = n
    BY <1>8, <2>1
  <2>2. CASE m # n
    <3>1. Has(rows, todo[Client(m)], Conn(m), LinkFault(m))
      BY DEF Told, LinksTold
    <3> QED BY <1>1, <1>2, <1>3, <2>2, <3>1
  <2> QED BY <2>1, <2>2
<1> QED BY <1>2, <1>7, <1>9 DEF Told

LEMMA BoundsKeepTold ==
  ASSUME CallsOK, Told, NEW c \in Bounded, BadData(c), Typed
  PROVE  Told'
<1> DEFINE calls(s) == CASE s = "ok" -> <<Call("resolve", Bad(c))>>
                         [] s # "ok" /\ "bad_data" \in Template -> <<Raise(Bad(c), s)>>
                         [] OTHER -> <<>>
           q == todo'[Broker]
<1>1. PICK s \in ({"ok"} \cup Faults) \ {bad[c]} :
        bad' = [bad EXCEPT ![c] = s] /\ Busy(Broker, calls(s))
  BY DEF BadData
<1>2. /\ rows' = rows /\ status' = status /\ connected' = connected /\ ever' = ever
      /\ todo[Broker] = <<>>
  BY DEF BadData, registryVars, Idle
<1>3. /\ q = calls(s) /\ todo'[Tick] = todo[Tick]
      /\ \A n \in Nodes : todo'[Client(n)] = todo[Client(n)]
  <2>1. Tick # Broker /\ \A n : Client(n) # Broker
    BY DEF Tick, Broker, Client
  <2>2. Broker \in Goroutines /\ Tick \in Goroutines /\ \A n \in Nodes : Client(n) \in Goroutines
    BY DEF Goroutines
  <2> HIDE DEF calls
  <2> QED BY <1>1, <2>1, <2>2 DEF Busy, CallsOK
<1>4. WatchesTold'
  BY <1>2, <1>3 DEF Told, WatchesTold
<1>5. LinksTold'
  <2>1. \A n \in Nodes : LinkFault(n)' = LinkFault(n)
    BY <1>2 DEF LinkFault
  <2> QED BY <1>2, <1>3, <2>1 DEF Told, LinksTold
<1>6. LinksSeen'
  BY <1>2, <1>3 DEF Told, LinksSeen
<1>7. ChannelsTold'
  <2> SUFFICES ASSUME "bad_data" \in Template, NEW d \in Bounded
               PROVE  Has(rows', q, Bad(d), bad'[d])
    BY DEF ChannelsTold
  <2> PICK id, f, f2 : id = Bad(d) /\ f = bad[d] /\ f2 = bad'[d]
    OBVIOUS
  <2>1. Broker \in Goroutines /\ Has(rows, todo[Broker], id, f)
    BY DEF Goroutines, Told, ChannelsTold
  <2> PICK a : a = IF s = "ok" THEN Call("resolve", Bad(c)) ELSE Raise(Bad(c), s)
    OBVIOUS
  <2>2. q = <<a>>
    BY <1>3
  <2>3. (\A k \in DOMAIN q : q[k] = a) /\ (\E k \in DOMAIN q : q[k] = a)
    BY <2>2
  <2>4. a.id = Bad(c) /\ Settles(a, s)
    BY DEF Call, Raise, Settles
  <2>5. bad \in [Bounded -> {"ok"} \cup Faults]
    BY DEF Typed, AlertsTypeOK
  <2>6. f2 = IF d = c THEN s ELSE f
    BY <1>1, <2>5
  <2>7. id = Bad(c) => d = c
    BY DEF Bad
  <2>8. \A k \in DOMAIN q : q[k].id = id => Settles(q[k], f2)
    BY <2>3, <2>4, <2>6, <2>7
  <2>9. (\A k \in DOMAIN q : q[k].id # id) => f2 = f
    BY <2>3, <2>4, <2>6
  <2> QED BY <1>2, <2>1, <2>8, <2>9, EventKeepsHas
<1> QED BY <1>4, <1>5, <1>6, <1>7 DEF Told

LEMMA NextTold ==
  ASSUME AlertsAssumption, Typed, CallsOK, Told, [Next]_vars
  PROVE  Told'
<1>1. ASSUME NEW g \in {Server, Console}, NEW calls, Busy(g, calls),
             rows' = rows, UNCHANGED engineVars
      PROVE  Told'
  <2>1. g # Tick /\ g # Broker /\ \A n : g # Client(n)
    <3>1. CASE g = Server
      BY <3>1 DEF Server, Tick, Broker, Client
    <3>2. CASE g = Console
      BY <3>2 DEF Console, Tick, Broker, Client
    <3> QED BY <3>1, <3>2
  <2>2. Broker \in Goroutines /\ Tick \in Goroutines /\ \A n \in Nodes : Client(n) \in Goroutines
    BY DEF Goroutines
  <2>3. /\ todo'[Tick] = todo[Tick] /\ todo'[Broker] = todo[Broker]
        /\ \A n \in Nodes : todo'[Client(n)] = todo[Client(n)]
    BY <1>1, <2>1, <2>2 DEF Busy, CallsOK
  <2>4. status' = status /\ bad' = bad /\ connected' = connected /\ ever' = ever
    BY <1>1 DEF engineVars
  <2>5. \A n : LinkFault(n)' = LinkFault(n)
    BY <2>4 DEF LinkFault
  <2>6. WatchesTold' /\ ChannelsTold'
    BY <1>1, <2>3, <2>4 DEF Told, WatchesTold, ChannelsTold
  <2>7. LinksTold'
    BY <1>1, <2>3, <2>5 DEF Told, LinksTold
  <2>8. LinksSeen'
    BY <1>1, <2>3, <2>4 DEF Told, LinksSeen
  <2> QED BY <2>6, <2>7, <2>8 DEF Told
<1>2. CASE UNCHANGED <<registryVars, engineVars, todo>>
  <2>1. /\ rows' = rows /\ todo' = todo /\ status' = status /\ bad' = bad
        /\ connected' = connected /\ ever' = ever
    BY <1>2 DEF registryVars, engineVars
  <2>2. \A n : LinkFault(n)' = LinkFault(n)
    BY <2>1 DEF LinkFault
  <2> QED BY <2>1, <2>2 DEF Told, WatchesTold, ChannelsTold, LinksTold, LinksSeen
<1>3. CASE Push
  BY <1>1, <1>3 DEF Push
<1>4. ASSUME NEW id \in Ids, AckRequested(id) PROVE Told'
  BY <1>1, <1>4 DEF AckRequested, registryVars
<1>5. ASSUME NEW g \in Goroutines, RegistryCall(g) PROVE Told'
  BY <1>5, CallKeepsTold
<1>6. ASSUME NEW g \in Goroutines, Published(g) PROVE Told'
  BY <1>2, <1>6 DEF Published
<1>7. CASE UNCHANGED vars
  BY <1>2, <1>7 DEF vars
<1>8. CASE Event
  BY <1>3, <1>8, TickKeepsTold, DataKeepsTold, LinkKeepsTold, BoundsKeepTold DEF Event
<1> QED BY <1>4, <1>5, <1>6, <1>7, <1>8 DEF Next

LEMMA InitTold ==
  ASSUME Init
  PROVE  Told
<1>1. rows = <<>> /\ DOMAIN rows = {} /\ \A g \in Goroutines : todo[g] = <<>> /\ DOMAIN todo[g] = {}
  BY DEF Init
<1>2. \A g \in Goroutines : \A id, f : Has(rows, todo[g], id, f)
  BY <1>1 DEF Has, RowShows
<1>3. Broker \in Goroutines /\ Tick \in Goroutines /\ \A n \in Nodes : Client(n) \in Goroutines
  BY DEF Goroutines
<1>4. WatchesTold /\ ChannelsTold
  BY <1>2, <1>3 DEF WatchesTold, ChannelsTold
<1>5. LinksTold
  BY <1>2, <1>3 DEF LinksTold
<1>6. LinksSeen
  BY <1>1, <1>3 DEF LinksSeen
<1> QED BY <1>4, <1>5, <1>6 DEF Told

(* Each row tells the present value of the condition it is about as soon   *)
(* as the goroutine that sees the condition has caught up, whatever the    *)
(* others do to the registry meanwhile.                                    *)
THEOREM RowsAlwaysTell == Spec => [](CallsRight /\ RowsWillTell /\ RowsTell)
<1>1. Init => Told
  BY InitTold
<1>2. Told /\ (Typed /\ CallsOK) /\ [Next]_vars => Told'
  BY AlertsAssumption, NextTold
<1>3. Told => RowsWillTell /\ RowsTell
  <2> SUFFICES ASSUME Told PROVE RowsWillTell /\ RowsTell
    OBVIOUS
  <2>1. RowsWillTell
    BY ToldIs
  <2>2. \A g, id, f : Idle(g) /\ WillTell(g, id, f) => Tells(id, f)
    <3>1. DOMAIN <<>> = {}
      OBVIOUS
    <3> QED BY <3>1 DEF Idle, WillTell, About
  <2>3. RowsTell
    BY <2>1, <2>2 DEF RowsWillTell, RowsTell
  <2> QED BY <2>1, <2>3
<1>4. CallsOK => CallsRight
  BY DEF CallsOK, Pending, CallsRight
<1> QED BY <1>1, <1>2, <1>3, <1>4, AlwaysTyped, PTL DEF Spec
-----------------------------------------------------------------------------
(* The registry keeps what nobody has acknowledged, and acknowledges only  *)
(* what it is asked to.                                                    *)

(* What a step may do to an unacknowledged row i.                          *)
KeptAsIs(i) == i \in DOMAIN rows' /\ ~rows'[i].acked
AckedByRight(i) ==
  /\ i \in DOMAIN rows'
  /\ i \in {Watch(w) : w \in Clearing} \/ ByPerson(i)

LEMMA CallOnRow ==
  ASSUME CallsOK, NEW g \in Goroutines, RegistryCall(g), NEW i \in DOMAIN rows, Raised(i)
  PROVE  KeptAsIs(i) \/ AckedByRight(i)
<1>1. todo[g] # <<>>
  BY DEF RegistryCall, RaiseFor, Resolve, ResolveAndAck, Ack, Do
<1>2. Asks(g, Head(todo[g]))
  BY <1>1, TailPending DEF CallsOK
<1>3. ASSUME UNCHANGED rows PROVE KeptAsIs(i)
  BY <1>3 DEF KeptAsIs, Raised
<1>4. CASE RaiseFor(g)
  <2> DEFINE row == NewRow(Head(todo[g]).what)
  <2>1. CASE UNCHANGED rows
    BY <2>1, <1>3
  <2>2. CASE store(Target(g), row)
    <3>1. ~row.acked
      BY DEF NewRow
    <3>2. i \in DOMAIN rows' /\ (rows'[i] = row \/ rows'[i] = rows[i])
      BY <2>2, <3>1, StoreKeeps DEF Raised
    <3> QED BY <3>1, <3>2 DEF KeptAsIs, Raised
  <2> QED BY <1>4, <2>1, <2>2 DEF RaiseFor
<1>5. ASSUME NEW row, rows' = [rows EXCEPT ![Target(g)] = row], Target(g) \in DOMAIN rows
      PROVE  /\ i \in DOMAIN rows'
             /\ i # Target(g) => rows'[i] = rows[i]
             /\ i = Target(g) => rows'[i] = row
  BY <1>5
<1>6. CASE Resolve(g)
  <2>1. CASE UNCHANGED rows
    BY <2>1, <1>3
  <2>2. CASE Target(g) \in DOMAIN rows /\ rows' = [rows EXCEPT ![Target(g)] = [rows[Target(g)] EXCEPT !.resolved = TRUE]]
    <3> DEFINE row == [rows[Target(g)] EXCEPT !.resolved = TRUE]
    <3>1. row.acked = rows[Target(g)].acked
      OBVIOUS
    <3> QED BY <2>2, <3>1, <1>5 DEF KeptAsIs, Raised
  <2> QED BY <1>6, <2>1, <2>2 DEF Resolve, Ignored, Update
<1>7. CASE ResolveAndAck(g)
  <2>1. CASE UNCHANGED rows
    BY <2>1, <1>3
  <2>2. CASE Target(g) \in DOMAIN rows /\ \E row : rows' = [rows EXCEPT ![Target(g)] = row]
    <3>1. Target(g) \in {Watch(w) : w \in Clearing}
      BY <1>2, <1>7 DEF Asks, ResolveAndAck, Do, Target
    <3> QED BY <2>2, <3>1, <1>5 DEF KeptAsIs, AckedByRight, Raised
  <2> QED BY <1>7, <2>1, <2>2 DEF ResolveAndAck, Ignored, Update
<1>8. CASE Ack(g)
  <2>1. CASE UNCHANGED rows
    BY <2>1, <1>3
  <2>2. CASE Target(g) \in DOMAIN rows /\ \E row : rows' = [rows EXCEPT ![Target(g)] = row]
    <3>1. ByPerson(Target(g))
      BY <1>2, <1>8 DEF Asks, Ack, Do, Target, ByPerson
    <3> QED BY <2>2, <3>1, <1>5 DEF KeptAsIs, AckedByRight, Raised
  <2> QED BY <1>8, <2>1, <2>2 DEF Ack, Update
<1> QED BY <1>4, <1>6, <1>7, <1>8 DEF RegistryCall

LEMMA NextOnRow ==
  ASSUME CallsOK, [Next]_vars, NEW i \in DOMAIN rows, Raised(i)
  PROVE  KeptAsIs(i) \/ AckedByRight(i)
<1>1. ASSUME NEW g \in Goroutines, RegistryCall(g) PROVE KeptAsIs(i) \/ AckedByRight(i)
  BY <1>1, CallOnRow
<1>2. CASE UNCHANGED rows
  BY <1>2 DEF KeptAsIs, Raised
<1>3. CASE \E g \in Goroutines : Published(g)
  BY <1>2, <1>3 DEF Published, registryVars
<1>4. CASE \E id \in Ids : AckRequested(id)
  BY <1>2, <1>4 DEF AckRequested, registryVars
<1>5. CASE Event
  BY <1>2, <1>5 DEF Event, TickBegins, sweepStale, Push, Silence, NodeData, NodeConnected,
     NodeDisconnected, NoLongerStale, BadData, registryVars
<1>6. CASE UNCHANGED vars
  BY <1>2, <1>6 DEF vars, registryVars
<1> QED BY <1>1, <1>3, <1>4, <1>5, <1>6 DEF Next

(* No row leaves the board before somebody has acknowledged it, for every  *)
(* limit, rule and number of goroutines (Registry.store, trim).            *)
THEOREM UnackedNeverLost == Spec => UnackedStays
<1>1. (Typed /\ CallsOK) /\ [Next]_vars =>
        [\A id \in DOMAIN rows : Raised(id) => id \in DOMAIN rows']_vars
  BY NextOnRow DEF KeptAsIs, AckedByRight
<1> QED BY <1>1, AlwaysTyped, PTL DEF Spec, UnackedStays

(* Only a person acknowledges, but for a rule that does not latch: no      *)
(* recovery, reconnection or trim does.                                    *)
THEOREM OnlyPersonsAcknowledge == Spec => LatchedByPerson
<1>1. (Typed /\ CallsOK) /\ [Next]_vars =>
        [\A id \in DOMAIN rows :
           (Raised(id) /\ id \in DOMAIN rows' /\ rows'[id].acked)
             => id \in {Watch(w) : w \in Clearing} \/ ByPerson(id)]_vars
  BY NextOnRow DEF KeptAsIs, AckedByRight
<1> QED BY <1>1, AlwaysTyped, PTL DEF Spec, LatchedByPerson
-----------------------------------------------------------------------------
(* The broker, its queues and a browser add nothing to the registry's      *)
(* behaviours but acknowledgements: what is proved of the registry holds   *)
(* with a board attached.                                                  *)
LEMMA BoardStep ==
  ASSUME [BoardNext]_allVars
  PROVE  [Next]_vars
<1>1. CASE (Event \/ \E g \in Goroutines : RegistryCall(g)) /\ UNCHANGED boardVars
  BY <1>1 DEF Next
<1>2. CASE \E g \in Goroutines : PublishAlert(g)
  BY <1>2 DEF PublishAlert, Next
<1>3. CASE \E id \in Ids : ackAlert(id) \/ Dismiss(id)
  BY <1>3 DEF ackAlert, Dismiss, Next
<1>4. CASE \/ TakeSnapshot \/ PublishSnapshot
           \/ FanOut \/ Subscribed \/ SendSnapshot \/ Rejoin \/ onDataMessage
  BY <1>4 DEF TakeSnapshot, PublishSnapshot, FanOut, Subscribed, SendSnapshot, Rejoin, onDataMessage
<1>5. CASE UNCHANGED allVars
  BY <1>5 DEF allVars
<1> QED BY <1>1, <1>2, <1>3, <1>4, <1>5 DEF BoardNext

THEOREM BoardIsARegistry == BoardSpec => Spec
<1>1. BoardInit => Init
  BY DEF BoardInit
<1>2. [BoardNext]_allVars => [Next]_vars
  BY BoardStep
<1> QED BY <1>1, <1>2, PTL DEF BoardSpec, Spec
=============================================================================
