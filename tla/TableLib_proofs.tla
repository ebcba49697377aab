--------------------------- MODULE TableLib_proofs ---------------------------
(***************************************************************************)
(* Theorems about TableLib, for sequences of any length: the edits move    *)
(* every element to its place, table.sort loses none wherever its order    *)
(* function raises an error, and it sorts.                                 *)
(***************************************************************************)
EXTENDS TableLib, FiniteSetTheorems, FunctionTheorems, SequenceTheorems, TLAPS

(* What the theorems assume of the constants: elements are told apart from *)
(* nil and from the results that are no elements; the length of a sequence *)
(* is an int.                                                              *)
Parameters ==
    /\ Val \subseteq Nat \ {0} /\ MaxLength \in Nat
    /\ LUA_INT_MAX \in Nat /\ MaxLength < LUA_INT_MAX /\ LUA_MINSTACK \in Nat

-----------------------------------------------------------------------------
(* Part 1: the invariant.                                                  *)

(* The table a holds a sequence of n elements.                             *)
Filled(a, n) ==
    /\ n \in 0 .. MaxLength
    /\ a \in [Index -> Val \cup {nil}]
    /\ \A k \in Index : a[k] = nil <=> k \notin 1 .. n

(* It holds the elements of s, each in one place.                          *)
Permutes(a, s) ==
    \E f \in Bijection(1 .. Len(s), 1 .. Len(s)) : \A k \in 1 .. Len(s) : a[k] = s[f[k]]

Ranging == {"ends", "middle", "upper", "up", "down"}

(* The ranges that auxsort is at and will come to.                         *)
Left(s) ==
    IF s.pc \in Ranging THEN Append(s.calls, <<s.l, s.u>>)
    ELSE IF s.pc = "next" THEN s.calls ELSE <<>>

In(k, range) == range[1] <= k /\ k <= range[2]

(* The ranges lie apart from each other.                                   *)
Apart(ranges, n) ==
    /\ \A p \in DOMAIN ranges : 1 <= ranges[p][1] /\ ranges[p][2] <= n
    /\ \A p, q \in DOMAIN ranges : p # q => \A k \in 1 .. n : ~ (In(k, ranges[p]) /\ In(k, ranges[q]))

(* Two elements that are not in order are left to the same range.          *)
Disorder(a, ranges, n) ==
    \A k, m \in 1 .. n : k < m /\ a[k] > a[m] =>
      \E p \in DOMAIN ranges : In(k, ranges[p]) /\ In(m, ranges[p])

(* The loop of auxsort: a[l..i] <= P <= a[j..u].                           *)
Low(a, l, i, P) == \A k \in l .. i : a[k] <= P
High(a, j, u, P) == \A k \in j .. u : a[k] >= P

(* Where the range (s.l, s.u) is at.                                       *)
Partition(a, s) ==
    LET l == s.l
        u == s.u
        i == s.i
        j == s.j
        P == s.P
    IN  /\ s.pc \in Ranging => l < u
        /\ s.pc \in {"middle", "upper"} =>
             u - l >= 2 /\ l < i /\ i < u /\ a[l] <= a[u]
        /\ s.pc = "upper" => a[l] <= a[i]
        /\ s.pc \in {"up", "down"} =>
             /\ u - l >= 3 /\ P = a[u - 1] /\ High(a, j, u, P)
             /\ l < j /\ j <= u - 1
        /\ s.pc = "up" =>
             /\ l <= i /\ i <= j /\ Low(a, l, i, P)
             /\ i = j => l < i /\ j < u - 1
        /\ s.pc = "down" =>
             /\ l < i /\ i <= j + 1 /\ i <= u - 1
             /\ Low(a, l, i - 1, P) /\ a[i] >= P

Sort == [pc : Ranging \cup {"idle", "next"}, l : Int, u : Int, i : Int, j : Int,
         P : Nat, calls : Seq(Int \X Int)]

(* No call has been made.                                                  *)
Uncalled == Idle /\ result = <<>> /\ \E n \in 0 .. MaxLength : Filled(t, n)

(* A call that edits the sequence is over.                                 *)
Edited == Idle /\ EditsKeepOrder /\ result # INVALID /\ result # SORTED

(* The table a and the state s of a sort that was given g.                 *)
Sorts(a, s, r, g) ==
    LET n == Len(g) IN
    /\ g \in Seq(Val) /\ Filled(a, n) /\ Permutes(a, g)
    /\ Apart(Left(s), n) /\ Partition(a, s)
    /\ r \in IF s.pc = "idle" THEN {SORTED, ERROR} ELSE {SORTING}
    /\ r # ERROR => Disorder(a, Left(s), n)

Inv ==
    /\ sort \in Sort
    /\ last.name = "none" => Uncalled
    /\ last.name = "sort" => Sorts(t, sort, result, last.given)
    /\ last.name \notin {"none", "sort"} => Edited

-----------------------------------------------------------------------------
(* Part 2: tables and the sequences they hold.                             *)

LEMMA GetnOf ==
  ASSUME Parameters, NEW a, NEW n, Filled(a, n)
  PROVE  getn(a) = n /\ IsSequence(a)
<1>1. n \in 0 .. MaxLength + 1 /\ a[n + 1] = nil /\ \A k \in 1 .. n : a[k] # nil
  BY DEF Filled, Index, Parameters
<1>2. ASSUME NEW m \in 0 .. MaxLength + 1, a[m + 1] = nil, \A k \in 1 .. m : a[k] # nil
      PROVE  m = n
  <2>1. ~ (m < n)
    BY <1>1, <1>2 DEF Filled, Parameters
  <2>2. ~ (n < m)
    BY <1>1, <1>2 DEF Filled, Parameters
  <2> QED
    BY <2>1, <2>2, <1>1 DEF Filled, Parameters
<1>3. getn(a) = n
  BY <1>1, <1>2 DEF getn
<1> QED
  BY <1>1, <1>3 DEF IsSequence, Filled, Index, Parameters

LEMMA ElementsOf ==
  ASSUME Parameters, NEW a, NEW n, Filled(a, n)
  PROVE  /\ Elements(a) \in Seq(Val) /\ Len(Elements(a)) = n
         /\ \A k \in 1 .. n : Elements(a)[k] = a[k] /\ a[k] \in Val
<1>1. getn(a) = n /\ n \in Nat
  BY GetnOf DEF Filled, Parameters
<1>2. \A k \in 1 .. n : a[k] \in Val
  BY DEF Filled, Index, Parameters, nil
<1>3. Elements(a) = [k \in 1 .. n |-> a[k]]
  BY <1>1 DEF Elements
<1> QED
  BY <1>1, <1>2, <1>3

(* A table is that of a sequence if it has its elements and no others.     *)
LEMMA IsTableOf ==
  ASSUME Parameters, NEW a, DOMAIN a = Index, a = [k \in Index |-> a[k]], NEW s \in Seq(Val),
         \A k \in Index : a[k] = IF k \in 1 .. Len(s) THEN s[k] ELSE nil
  PROVE  a = TableOf(s)
<1>1. DOMAIN s = 1 .. Len(s)
  OBVIOUS
<1> QED
  BY <1>1 DEF TableOf

LEMMA TableOfFilled ==
  ASSUME Parameters, NEW s \in Seq(Val), Len(s) <= MaxLength
  PROVE  Filled(TableOf(s), Len(s))
<1>1. DOMAIN s = 1 .. Len(s) /\ Len(s) \in Nat /\ \A k \in 1 .. Len(s) : s[k] \in Val
  OBVIOUS
<1> QED
  BY <1>1 DEF TableOf, Filled, Index, Parameters, nil

LEMMA Cut ==
  ASSUME NEW s \in Seq(Val), NEW m \in 1 .. Len(s) + 1, NEW n \in 0 .. Len(s)
  PROVE  /\ SubSeq(s, m, n) \in Seq(Val)
         /\ Len(SubSeq(s, m, n)) = IF m <= n THEN n - m + 1 ELSE 0
         /\ \A k \in 1 .. n - m + 1 : SubSeq(s, m, n)[k] = s[m + k - 1]
<1>1. m \in Int /\ n \in Int /\ \A k \in m .. n : s[k] \in Val
  OBVIOUS
<1> QED
  BY <1>1, SubSeqProperties

(* Every element from position `pos' on moves up.                          *)
LEMMA InsertMoves ==
  ASSUME NEW s \in Seq(Val), NEW pos \in 1 .. Len(s) + 1, NEW v \in Val
  PROVE  /\ InsertAt(s, pos, v) \in Seq(Val) /\ Len(InsertAt(s, pos, v)) = Len(s) + 1
         /\ \A k \in 1 .. Len(s) + 1 :
              InsertAt(s, pos, v)[k] = IF k < pos THEN s[k] ELSE IF k = pos THEN v ELSE s[k - 1]
<1> DEFINE before == SubSeq(s, 1, pos - 1)
           after == SubSeq(s, pos, Len(s))
<1>0. Len(s) \in Nat
  OBVIOUS
<1>1. before \in Seq(Val) /\ Len(before) = pos - 1 /\ \A k \in 1 .. pos - 1 : before[k] = s[k]
  <2>1. 1 \in 1 .. Len(s) + 1 /\ pos - 1 \in 0 .. Len(s)
    BY <1>0
  <2> QED
    BY <1>0, <2>1, Cut
<1>2. /\ after \in Seq(Val) /\ Len(after) = Len(s) - pos + 1
      /\ \A k \in 1 .. Len(s) - pos + 1 : after[k] = s[pos + k - 1]
  <2>1. Len(s) \in 0 .. Len(s)
    BY <1>0
  <2> QED
    BY <1>0, <2>1, Cut
<1> HIDE DEF before, after
<1>3. /\ before \o <<v>> \in Seq(Val) /\ Len(before \o <<v>>) = pos
      /\ \A k \in 1 .. pos : (before \o <<v>>)[k] = IF k < pos THEN s[k] ELSE v
  BY <1>0, <1>1
<1> DEFINE upto == before \o <<v>>
<1> HIDE DEF upto
<1>4. /\ upto \o after \in Seq(Val) /\ Len(upto \o after) = Len(s) + 1
      /\ \A k \in 1 .. Len(s) + 1 :
           (upto \o after)[k] = IF k < pos THEN s[k] ELSE IF k = pos THEN v ELSE s[k - 1]
  <2>1. upto \in Seq(Val) /\ Len(upto) = pos
    BY <1>3 DEF upto
  <2>2. /\ upto \o after \in Seq(Val) /\ Len(upto \o after) = Len(upto) + Len(after)
        /\ \A k \in 1 .. Len(upto) + Len(after) :
             (upto \o after)[k] = IF k <= Len(upto) THEN upto[k] ELSE after[k - Len(upto)]
    BY <1>2, <2>1, ConcatProperties
  <2>3. \A k \in pos + 1 .. Len(s) + 1 : after[k - pos] = s[k - 1]
    <3> TAKE k \in pos + 1 .. Len(s) + 1
    <3>1. k - pos \in 1 .. Len(s) - pos + 1 /\ pos + (k - pos) - 1 = k - 1
      BY <1>0
    <3> QED
      BY <1>2, <3>1
  <2>4. \A k \in 1 .. pos : upto[k] = IF k < pos THEN s[k] ELSE v
    BY <1>3 DEF upto
  <2> QED
    BY <1>0, <1>2, <2>1, <2>2, <2>3, <2>4
<1>5. InsertAt(s, pos, v) = upto \o after
  BY DEF InsertAt, upto, before, after
<1> QED
  BY <1>4, <1>5

(* Every element behind those removed moves down.                          *)
LEMMA RemoveMoves ==
  ASSUME NEW s \in Seq(Val), NEW from \in 1 .. Len(s) + 1, NEW count \in 0 .. Len(s) + 1 - from
  PROVE  LET r == SubSeq(s, 1, from - 1) \o SubSeq(s, from + count, Len(s)) IN
         /\ r \in Seq(Val) /\ Len(r) = Len(s) - count
         /\ \A k \in 1 .. Len(s) - count : r[k] = IF k < from THEN s[k] ELSE s[k + count]
<1> DEFINE before == SubSeq(s, 1, from - 1)
           after == SubSeq(s, from + count, Len(s))
<1>0. Len(s) \in Nat
  OBVIOUS
<1>1. before \in Seq(Val) /\ Len(before) = from - 1 /\ \A k \in 1 .. from - 1 : before[k] = s[k]
  <2>1. 1 \in 1 .. Len(s) + 1 /\ from - 1 \in 0 .. Len(s)
    BY <1>0
  <2> QED
    BY <1>0, <2>1, Cut
<1>2. /\ after \in Seq(Val) /\ Len(after) = Len(s) - from - count + 1
      /\ \A k \in 1 .. Len(s) - from - count + 1 : after[k] = s[from + count + k - 1]
  <2>1. Len(s) \in 0 .. Len(s) /\ from + count \in 1 .. Len(s) + 1
    BY <1>0
  <2> QED
    BY <1>0, <2>1, Cut
<1> HIDE DEF before, after
<1>3. /\ before \o after \in Seq(Val) /\ Len(before \o after) = Len(s) - count
      /\ \A k \in 1 .. Len(s) - count : (before \o after)[k] = IF k < from THEN s[k] ELSE s[k + count]
  <2>1. /\ before \o after \in Seq(Val) /\ Len(before \o after) = Len(before) + Len(after)
        /\ \A k \in 1 .. Len(before) + Len(after) :
             (before \o after)[k] = IF k <= Len(before) THEN before[k] ELSE after[k - Len(before)]
    BY <1>1, <1>2, ConcatProperties
  <2>2. \A k \in from .. Len(s) - count : after[k - (from - 1)] = s[k + count]
    <3> TAKE k \in from .. Len(s) - count
    <3>1. /\ k - (from - 1) \in 1 .. Len(s) - from - count + 1
          /\ from + count + (k - (from - 1)) - 1 = k + count
      BY <1>0
    <3> QED
      BY <1>2, <3>1
  <2>3. Len(before) + Len(after) = Len(s) - count
    BY <1>0, <1>1, <1>2
  <2>4. ASSUME NEW k \in 1 .. Len(s) - count
        PROVE  (before \o after)[k] = IF k < from THEN s[k] ELSE s[k + count]
    <3>0. k \in Int /\ from \in Int /\ k \in 1 .. Len(before) + Len(after)
      BY <1>0, <2>3
    <3>1. CASE k < from
      <4>1. k <= Len(before) /\ k \in 1 .. from - 1
        BY <1>1, <3>0, <3>1
      <4> QED
        BY <1>1, <2>1, <3>0, <3>1, <4>1
    <3>2. CASE k >= from
      <4>1. ~ (k <= Len(before)) /\ k \in from .. Len(s) - count /\ Len(before) = from - 1
        BY <1>0, <1>1, <3>0, <3>2
      <4> QED
        BY <2>1, <2>2, <3>0, <3>2, <4>1
    <3> QED
      BY <3>0, <3>1, <3>2
  <2> QED
    BY <2>1, <2>3, <2>4
<1> QED
  BY <1>3 DEF before, after

-----------------------------------------------------------------------------
(* Part 3: the edits.                                                      *)

LEMMA ResultsDiffer ==
  /\ ERROR # SORTING /\ ERROR # SORTED /\ ERROR # INVALID
  /\ SORTING # SORTED /\ SORTING # INVALID /\ SORTED # INVALID
  /\ UNDEFINED # ERROR /\ UNDEFINED # SORTED /\ UNDEFINED # INVALID /\ UNDEFINED # <<>>
<1>1. \A x, y \in Int : x # y => <<x>> # <<y>>
  <2> TAKE x, y \in Int
  <2> HAVE x # y
  <2>1. <<x>>[1] = x /\ <<y>>[1] = y
    OBVIOUS
  <2> QED
    BY <2>1
<1>2. UNDEFINED # <<>>
  <2>1. Len(UNDEFINED) = 1 /\ Len(<<>>) = 0
    BY DEF UNDEFINED
  <2> QED
    BY <2>1
<1> QED
  BY <1>1, <1>2 DEF ERROR, SORTING, SORTED, INVALID, UNDEFINED

LEMMA InsertEdits ==
  ASSUME Parameters, NEW n, Filled(t, n), NEW pos \in 1 .. MaxLength + 1, NEW v \in Val,
         n < MaxLength, Idle, UNCHANGED sort, table_insert(pos, v)
  PROVE  Edited'
<1> DEFINE s == Elements(t)
<1>0. n \in Nat /\ getn(t) = n /\ MaxLength \in Nat /\ pos \in Nat
  <2>1. getn(t) = n
    BY GetnOf
  <2> QED
    BY <2>1 DEF Filled, Parameters
<1>1. s \in Seq(Val) /\ Len(s) = n /\ \A k \in 1 .. n : s[k] = t[k]
  BY ElementsOf
<1>2. last' = [name |-> "insert", args |-> <<pos, v>>, given |-> s] /\ result' = <<>>
  BY DEF table_insert, Called
<1>3. Idle'
  BY DEF Idle
<1>4. ASSUME pos <= n + 1
      PROVE  t' = TableOf(InsertAt(s, pos, v))
  <2> DEFINE r == InsertAt(s, pos, v)
  <2>1. pos \in 1 .. Len(s) + 1
    BY <1>0, <1>1, <1>4
  <2>2. /\ r \in Seq(Val) /\ Len(r) = n + 1
        /\ \A k \in 1 .. n + 1 : r[k] = IF k < pos THEN s[k] ELSE IF k = pos THEN v ELSE s[k - 1]
    <3>1. s \in Seq(Val) /\ Len(s) = n
      BY <1>1
    <3> HIDE DEF s
    <3>2. /\ InsertAt(s, pos, v) \in Seq(Val) /\ Len(InsertAt(s, pos, v)) = Len(s) + 1
          /\ \A k \in 1 .. Len(s) + 1 : InsertAt(s, pos, v)[k] =
               IF k < pos THEN s[k] ELSE IF k = pos THEN v ELSE s[k - 1]
      <4>1. s \in Seq(Val) /\ pos \in 1 .. Len(s) + 1 /\ v \in Val
        BY <2>1, <3>1
      <4>2. InsertAt(s, pos, v) \in Seq(Val) /\ Len(InsertAt(s, pos, v)) = Len(s) + 1
        BY ONLY <4>1, InsertMoves
      <4>3. \A k \in 1 .. Len(s) + 1 : InsertAt(s, pos, v)[k] =
               IF k < pos THEN s[k] ELSE IF k = pos THEN v ELSE s[k - 1]
        BY ONLY <4>1, InsertMoves
      <4> QED
        BY <4>2, <4>3
    <3> QED
      BY <3>1, <3>2
  <2>3. t' = [k \in Index |-> IF pos < k /\ k <= n + 1 THEN t[k - 1] ELSE IF k = pos THEN v ELSE t[k]]
    <3>1. (IF pos > n + 1 THEN pos ELSE n + 1) = n + 1
      BY <1>0, <1>4
    <3> QED
      BY <1>0, <3>1 DEF table_insert
  <2>4. \A k \in Index : t'[k] = IF k \in 1 .. n + 1 THEN r[k] ELSE nil
    <3> TAKE k \in Index
    <3>0. k \in Nat
      BY <1>0 DEF Index
    <3>1. CASE k \in 1 .. n + 1
      <4>1. k < pos => k \in 1 .. n
        BY <1>0, <1>4, <3>0, <3>1
      <4>2. k > pos => k - 1 \in 1 .. n
        BY <1>0, <1>4, <3>0, <3>1
      <4> QED
        BY <1>0, <1>1, <2>2, <2>3, <3>0, <3>1, <4>1, <4>2
    <3>2. CASE k \notin 1 .. n + 1
      <4>1. k # pos /\ ~ (pos < k /\ k <= n + 1) /\ k \notin 1 .. n
        BY <1>0, <1>4, <3>0, <3>2
      <4> QED
        BY <2>3, <3>2, <4>1 DEF Filled
    <3> QED
      BY <3>1, <3>2
  <2> HIDE DEF r
  <2>5. t' = [k \in Index |-> t'[k]] /\ DOMAIN t' = Index
    BY <2>3
  <2>6. t' = TableOf(r)
    BY <2>2, <2>4, <2>5, IsTableOf
  <2> QED
    BY <2>6 DEF r
<1> HIDE DEF s
<1>5. EditsKeepOrder'
  BY <1>1, <1>2, <1>4 DEF EditsKeepOrder
<1> QED
  BY <1>2, <1>3, <1>5 DEF Edited, INVALID, SORTED

LEMMA RemoveEdits ==
  ASSUME Parameters, NEW n, Filled(t, n), NEW pos \in 0 .. MaxLength + 1,
         Idle, UNCHANGED sort, table_remove(pos)
  PROVE  Edited'
<1> DEFINE s == Elements(t)
<1>0. n \in Nat /\ getn(t) = n /\ MaxLength \in Nat /\ pos \in Nat /\ n <= MaxLength
  <2>1. getn(t) = n
    BY GetnOf
  <2> QED
    BY <2>1 DEF Filled, Parameters
<1>1. s \in Seq(Val) /\ Len(s) = n /\ \A k \in 1 .. n : s[k] = t[k] /\ t[k] \in Val
  BY ElementsOf
<1>2. last' = [name |-> "remove", args |-> <<pos>>, given |-> s]
  BY DEF table_remove, Called
<1>3. Idle'
  BY DEF Idle
<1>4. ASSUME pos \in 1 .. n
      PROVE  t' = TableOf(RemoveAt(s, pos)) /\ result' # INVALID /\ result' # SORTED
  <2> DEFINE r == SubSeq(s, 1, pos - 1) \o SubSeq(s, pos + 1, n)
  <2>1. pos \in 1 .. Len(s) + 1 /\ 1 \in 0 .. Len(s) + 1 - pos
    BY <1>0, <1>1, <1>4
  <2>2. /\ r \in Seq(Val) /\ Len(r) = n - 1
        /\ \A k \in 1 .. n - 1 : r[k] = IF k < pos THEN s[k] ELSE s[k + 1]
    BY <1>1, <2>1, RemoveMoves
  <2>3. t' = [k \in Index |-> IF pos <= k /\ k < n THEN t[k + 1] ELSE IF k = n THEN nil ELSE t[k]]
    BY <1>0, <1>4 DEF table_remove, Removed
  <2>4. \A k \in Index : t'[k] = IF k \in 1 .. n - 1 THEN r[k] ELSE nil
    <3> TAKE k \in Index
    <3>0. k \in Nat
      BY <1>0 DEF Index
    <3>1. CASE k \in 1 .. n - 1
      <4>1. k \in 1 .. n /\ k + 1 \in 1 .. n
        BY <1>0, <3>0, <3>1
      <4> QED
        BY <1>0, <1>1, <2>2, <2>3, <3>0, <3>1, <4>1
    <3>2. CASE k \notin 1 .. n - 1
      <4>1. k = n \/ (k # n /\ ~ (pos <= k /\ k < n) /\ k \notin 1 .. n)
        BY <1>0, <1>4, <3>0, <3>2
      <4> QED
        BY <2>3, <3>2, <4>1 DEF Filled
    <3> QED
      BY <3>1, <3>2
  <2> HIDE DEF r
  <2>5. t' = [k \in Index |-> t'[k]] /\ DOMAIN t' = Index
    BY <2>3
  <2>6. t' = TableOf(r)
    BY <2>2, <2>4, <2>5, IsTableOf
  <2>7. RemoveAt(s, pos) = r
    BY <1>1 DEF RemoveAt, r
  <2>8. result' = <<t[pos]>> /\ t[pos] \in Nat
    BY <1>0, <1>1, <1>4 DEF table_remove, Parameters
  <2> QED
    BY <2>6, <2>7, <2>8 DEF INVALID, SORTED
<1>5. ASSUME pos \notin 1 .. n
      PROVE  t' = TableOf(s) /\ result' # INVALID /\ result' # SORTED
  <2>1. t' = t /\ result' = <<>>
    BY <1>0, <1>5 DEF table_remove
  <2>2. t = [k \in Index |-> t[k]] /\ DOMAIN t = Index
    BY DEF Filled
  <2>3. \A k \in Index : t[k] = IF k \in 1 .. Len(s) THEN s[k] ELSE nil
    BY <1>1 DEF Filled
  <2>4. t = TableOf(s)
    BY <1>1, <2>2, <2>3, IsTableOf
  <2> QED
    BY <2>1, <2>4 DEF INVALID, SORTED
<1> HIDE DEF s
<1>6. EditsKeepOrder'
  BY <1>1, <1>2, <1>4, <1>5 DEF EditsKeepOrder
<1> QED
  BY <1>3, <1>4, <1>5, <1>6 DEF Edited

LEMMA RemoveMultiEdits ==
  ASSUME Parameters, NEW n, Filled(t, n), NEW index \in Nat, NEW count \in Int,
         Idle, UNCHANGED sort, table_removemulti(index, count)
  PROVE  Edited'
<1> DEFINE s == Elements(t)
<1>0. /\ n \in Nat /\ getn(t) = n /\ MaxLength \in Nat /\ index \in Nat /\ count \in Int
      /\ n <= MaxLength
  <2>1. getn(t) = n
    BY GetnOf
  <2> QED
    BY <2>1 DEF Filled, Parameters
<1>1. s \in Seq(Val) /\ Len(s) = n /\ \A k \in 1 .. n : s[k] = t[k] /\ t[k] \in Val
  BY ElementsOf
<1>2. last' = [name |-> "removemulti", args |-> <<index, count>>, given |-> s]
  BY DEF table_removemulti, Called
<1>3. Idle'
  BY DEF Idle
<1> DEFINE sum == index + count - 1
           out == index <= 0 \/ count < 0 \/ sum > n
           fits == sum <= LUA_INT_MAX /\ count <= LUA_MINSTACK + 1
           without == SubSeq(s, 1, index - 1) \o SubSeq(s, index + count, n)
           taken == SubSeq(s, index, index + count - 1)
           left == [k \in Index |-> IF index <= k /\ k <= n
                                    THEN IF k + count <= n THEN t[k + count] ELSE nil ELSE t[k]]
<1>4. t = TableOf(s)
  <2>1. t = [k \in Index |-> t[k]] /\ DOMAIN t = Index
    BY DEF Filled
  <2>2. \A k \in Index : t[k] = IF k \in 1 .. Len(s) THEN s[k] ELSE nil
    BY <1>1 DEF Filled
  <2> QED
    BY <1>1, <2>1, <2>2, IsTableOf
(* What the call may do.                                                   *)
<1>5. \/ n = 0 /\ t' = t /\ result' = <<>>
      \/ n # 0 /\ t' = t /\ result' = ERROR
      \/ n # 0 /\ ~ out /\ t' = left /\ result' = [k \in 1 .. count |-> t[index + k - 1]]
      \/ n # 0 /\ ~ fits /\ result' = UNDEFINED
  <2>1. CASE n = 0
    BY <1>0, <2>1 DEF table_removemulti
  <2>2. CASE n # 0 /\ (index <= 0 \/ count < 0)
    BY <1>0, <2>2 DEF table_removemulti
  <2>3. CASE n # 0 /\ ~ (index <= 0 \/ count < 0)
    <3>1. PICK end \in AsInt(sum) :
            IF end > n THEN result' = ERROR /\ UNCHANGED t
            ELSE /\ t' = left
                 /\ \/ end = sum /\ result' = [k \in 1 .. count |-> t[index + k - 1]]
                    \/ /\ end # sum \/ count + 1 > LUA_MINSTACK + 2
                       /\ result' = UNDEFINED
      BY <1>0, <2>3 DEF table_removemulti
    <3>2. end # sum => sum > LUA_INT_MAX
      BY <1>0, <3>1 DEF AsInt, Parameters
    <3>3. CASE end > n
      BY <2>3, <3>1, <3>3
    <3>4. CASE ~ (end > n) /\ end = sum /\ result' = [k \in 1 .. count |-> t[index + k - 1]]
      BY <2>3, <3>1, <3>4
    <3>5. CASE /\ end # sum \/ count + 1 > LUA_MINSTACK + 2
               /\ result' = UNDEFINED
      <4>1. ~ fits
        BY <1>0, <3>2, <3>5 DEF Parameters
      <4> QED
        BY <2>3, <3>5, <4>1
    <3> QED
      BY <3>1, <3>3, <3>4, <3>5
  <2> QED
    BY <2>1, <2>2, <2>3
<1>6. ASSUME t' = t PROVE t' = TableOf(s)
  BY <1>4, <1>6
<1>7. ASSUME n # 0, ~ out, t' = left, result' = [k \in 1 .. count |-> t[index + k - 1]]
      PROVE  /\ t' = TableOf(without) /\ result' = taken
             /\ result' \notin {ERROR, SORTED, INVALID, UNDEFINED}
  <2>0. /\ index \in 1 .. n + 1 /\ count \in 0 .. n + 1 - index
    BY <1>0, <1>7
  <2>1. /\ t' = [k \in Index |-> IF index <= k /\ k <= n
                                 THEN IF k + count <= n THEN t[k + count] ELSE nil ELSE t[k]]
        /\ result' = [k \in 1 .. count |-> t[index + k - 1]]
    BY <1>7
  <2>2. /\ without \in Seq(Val) /\ Len(without) = n - count
        /\ \A k \in 1 .. n - count : without[k] = IF k < index THEN s[k] ELSE s[k + count]
    <3> HIDE DEF s
    <3>1. s \in Seq(Val) /\ index \in 1 .. Len(s) + 1 /\ count \in 0 .. Len(s) + 1 - index
      BY <1>1, <2>0
    <3>2. LET r == SubSeq(s, 1, index - 1) \o SubSeq(s, index + count, Len(s)) IN
          /\ r \in Seq(Val) /\ Len(r) = Len(s) - count
          /\ \A k \in 1 .. Len(s) - count : r[k] = IF k < index THEN s[k] ELSE s[k + count]
      BY <3>1, RemoveMoves
    <3> QED
      BY <1>1, <3>2
  <2> HIDE DEF without
  <2>3. \A k \in Index : t'[k] = IF k \in 1 .. n - count THEN without[k] ELSE nil
    <3> TAKE k \in Index
    <3>0. k \in Nat
      BY <1>0 DEF Index
    <3>1. CASE k \in 1 .. n - count
      <4>1. k \in 1 .. n /\ k + count \in 1 .. n
        BY <1>0, <2>0, <3>0, <3>1
      <4>2. k + count <= n
        BY <1>0, <2>0, <3>0, <3>1
      <4>3. t'[k] = IF k < index THEN t[k] ELSE t[k + count]
        BY <1>0, <2>0, <2>1, <3>0, <4>1, <4>2
      <4> QED
        BY <1>1, <2>2, <3>1, <4>1, <4>3
    <3>2. CASE k \notin 1 .. n - count
      <4>1. IF index <= k /\ k <= n THEN ~ (k + count <= n) ELSE k \notin 1 .. n
        BY <1>0, <2>0, <3>0, <3>2
      <4>2. k \notin 1 .. n => t[k] = nil
        BY DEF Filled
      <4> QED
        BY <2>1, <3>2, <4>1, <4>2
    <3> QED
      BY <3>1, <3>2
  <2>4. t' = TableOf(without)
    <3>1. t' = [k \in Index |-> t'[k]] /\ DOMAIN t' = Index
      BY <2>1
    <3> QED
      BY <2>2, <2>3, <3>1, IsTableOf
  <2>5. result' = taken
    <3>0. /\ taken \in Seq(Val) /\ Len(taken) = count
          /\ \A k \in 1 .. count : taken[k] = s[index + k - 1]
      <4>1. index \in 1 .. Len(s) + 1 /\ index + count - 1 \in 0 .. Len(s)
        BY <1>0, <1>1, <2>0
      <4> HIDE DEF s
      <4>2. /\ taken \in Seq(Val)
            /\ Len(taken) = IF index <= index + count - 1 THEN index + count - 1 - index + 1 ELSE 0
            /\ \A k \in 1 .. index + count - 1 - index + 1 : taken[k] = s[index + k - 1]
        BY <1>1, <4>1, Cut
      <4>3. index + count - 1 - index + 1 = count
        BY <1>0
      <4> QED
        BY <1>0, <2>0, <4>2, <4>3
    <3>1. \A k \in 1 .. count : s[index + k - 1] = t[index + k - 1]
      BY <1>0, <1>1, <2>0
    <3> HIDE DEF taken
    <3>2. taken = [k \in 1 .. count |-> taken[k]]
      BY <3>0
    <3> QED
      BY <2>1, <3>0, <3>1, <3>2
  <2>6. \A k \in DOMAIN result' : result'[k] \in Nat
    <3>1. DOMAIN result' = 1 .. count
      BY <2>1
    <3>2. ASSUME NEW k \in 1 .. count
          PROVE  result'[k] \in Nat
      <4>1. index + k - 1 \in 1 .. n
        BY <1>0, <2>0
      <4>2. t[index + k - 1] \in Val /\ result'[k] = t[index + k - 1]
        BY <1>1, <2>1, <4>1
      <4> QED
        BY <4>2 DEF Parameters
    <3> QED
      BY <3>1, <3>2
  <2>7. \A x \in {-1, -3, -4, -5} : result' # <<x>>
    <3> TAKE x \in {-1, -3, -4, -5}
    <3>1. 1 \in DOMAIN <<x>> /\ <<x>>[1] = x /\ x \notin Nat
      OBVIOUS
    <3> QED
      BY <2>6, <3>1
  <2> QED
    BY <2>4, <2>5, <2>7 DEF ERROR, SORTED, INVALID, UNDEFINED
<1>8. /\ fits => result' # UNDEFINED
      /\ result' # UNDEFINED =>
           /\ t' = TableOf(IF result' = ERROR \/ n = 0 THEN s ELSE without)
           /\ result' # ERROR /\ n > 0 => result' = taken
      /\ result' # INVALID /\ result' # SORTED
  <2> HIDE DEF s, out, fits, without, taken, left
  <2>1. CASE n = 0 /\ t' = t /\ result' = <<>>
    <3>1. <<>> # INVALID /\ <<>> # SORTED
      BY DEF INVALID, SORTED
    <3> QED
      BY <1>6, <2>1, <3>1, ResultsDiffer
  <2>2. CASE n # 0 /\ t' = t /\ result' = ERROR
    BY <1>6, <2>2, ResultsDiffer
  <2>3. CASE n # 0 /\ ~ out /\ t' = left /\ result' = [k \in 1 .. count |-> t[index + k - 1]]
    BY <1>7, <2>3
  <2>4. CASE n # 0 /\ ~ fits /\ result' = UNDEFINED
    BY <2>4, ResultsDiffer
  <2> QED
    BY <1>5, <2>1, <2>2, <2>3, <2>4
<1>9. EditsKeepOrder'
  <2> HIDE DEF s
  <2> QED
    BY <1>1, <1>2, <1>8 DEF EditsKeepOrder
<1> QED
  BY <1>3, <1>8, <1>9 DEF Edited

LEMMA OtherEdits ==
  ASSUME Parameters, NEW n, Filled(t, n), Idle, UNCHANGED sort,
         \/ table_wipe
         \/ \E i \in 1 .. MaxLength, j \in 0 .. MaxLength : table_concat(i, j)
  PROVE  Edited'
<1>1. Idle'
  BY DEF Idle
<1>2. last'.name \in {"wipe", "concat"}
  BY DEF table_wipe, table_concat, Called
<1>3. EditsKeepOrder'
  BY <1>2 DEF EditsKeepOrder
<1>4. result' # INVALID /\ result' # SORTED
  <2>1. CASE table_wipe
    BY <2>1 DEF table_wipe, INVALID, SORTED
  <2>2. ASSUME NEW i \in 1 .. MaxLength, NEW j \in 0 .. MaxLength, table_concat(i, j)
        PROVE  result' # INVALID /\ result' # SORTED
    <3>0. i \in Nat /\ j \in Nat /\ MaxLength \in Nat /\ j <= MaxLength
      BY DEF Parameters
    <3>1. CASE \E k \in i .. j : t[k] = nil
      <4>1. result' = ERROR
        BY <2>2, <3>1 DEF table_concat
      <4> QED
        BY <4>1, ResultsDiffer
    <3>2. CASE \A k \in i .. j : t[k] # nil
      <4>1. result' = [k \in 1 .. j - i + 1 |-> t[i + k - 1]]
        BY <2>2, <3>2 DEF table_concat
      <4>2. \A k \in 1 .. j - i + 1 : t[i + k - 1] \in Nat
        <5> TAKE k \in 1 .. j - i + 1
        <5>1. i + k - 1 \in Index
          BY <3>0 DEF Index
        <5>2. t[i + k - 1] \in Val \cup {nil} /\ Val \subseteq Nat /\ nil \in Nat
          BY <5>1 DEF Filled, Parameters, nil
        <5> QED
          BY <5>2
      <4>3. \A x \in {-3, -4} : result' # <<x>>
        <5> TAKE x \in {-3, -4}
        <5>1. 1 \in DOMAIN <<x>> /\ <<x>>[1] = x /\ x \notin Nat
          OBVIOUS
        <5> QED
          BY <4>1, <4>2, <5>1
      <4> QED
        BY <4>3 DEF SORTED, INVALID
    <3> QED
      BY <3>1, <3>2
  <2> QED
    BY <2>1, <2>2
<1> QED
  BY <1>1, <1>3, <1>4 DEF Edited

-----------------------------------------------------------------------------
(* Part 4: elements that trade places.                                     *)
Swap(a, i, j) == [a EXCEPT ![i] = a[j], ![j] = a[i]]

LEMMA ValuesOf ==
  ASSUME Parameters, NEW a, NEW n, Filled(a, n)
  PROVE  /\ n \in Nat /\ 1 .. n \subseteq Index /\ \A k \in 1 .. n : a[k] \in Nat
         /\ a \in [Index -> Val \cup {nil}]
<1>1. n \in Nat /\ 1 .. n \subseteq Index
  BY DEF Filled, Parameters, Index
<1>2. \A k \in 1 .. n : a[k] \in Val \cup {nil}
  BY <1>1 DEF Filled
<1> QED
  BY <1>1, <1>2 DEF Filled, Parameters, nil

LEMMA SwapFilled ==
  ASSUME Parameters, NEW a, NEW n, Filled(a, n), NEW i \in 1 .. n, NEW j \in 1 .. n
  PROVE  /\ Filled(Swap(a, i, j), n)
         /\ \A k \in 1 .. n :
              Swap(a, i, j)[k] = IF k = j THEN a[i] ELSE IF k = i THEN a[j] ELSE a[k]
<1>1. n \in Nat /\ i \in Index /\ j \in Index /\ a \in [Index -> Val \cup {nil}] /\ 1 .. n \subseteq Index
  BY ValuesOf
<1> DEFINE b == Swap(a, i, j)
<1>2. /\ b \in [Index -> Val \cup {nil}]
      /\ \A k \in Index : b[k] = IF k = j THEN a[i] ELSE IF k = i THEN a[j] ELSE a[k]
  BY <1>1 DEF Swap
<1> HIDE DEF b
<1>3. \A k \in Index : b[k] = nil <=> k \notin 1 .. n
  BY <1>1, <1>2 DEF Filled
<1>4. Filled(b, n)
  BY <1>2, <1>3 DEF Filled
<1> QED
  BY <1>1, <1>2, <1>4 DEF b

LEMMA SwapPermutes ==
  ASSUME Parameters, NEW g \in Seq(Val), NEW a, Filled(a, Len(g)), Permutes(a, g),
         NEW i \in 1 .. Len(g), NEW j \in 1 .. Len(g)
  PROVE  Permutes(Swap(a, i, j), g)
<1> DEFINE n == Len(g)
           N == 1 .. n
           b == Swap(a, i, j)
<1>1. PICK f \in Bijection(N, N) : \A k \in N : a[k] = g[f[k]]
  BY DEF Permutes
<1>2. /\ f \in [N -> N] /\ \A k, m \in N : f[k] = f[m] => k = m
      /\ \A m \in N : \E k \in N : f[k] = m
  BY DEF Bijection, Injection, Surjection, IsInjective
<1> DEFINE h == [k \in N |-> IF k = j THEN f[i] ELSE IF k = i THEN f[j] ELSE f[k]]
<1>3. h \in [N -> N]
  BY <1>2
<1>4. \A k, m \in N : h[k] = h[m] => k = m
  BY <1>2
<1>5. \A m \in N : \E k \in N : h[k] = m
  <2> TAKE m \in N
  <2>1. PICK k \in N : f[k] = m
    BY <1>2
  <2>2. CASE k = i
    BY <2>1, <2>2
  <2>3. CASE k = j
    BY <2>1, <2>3
  <2>4. CASE k # i /\ k # j
    BY <2>1, <2>4
  <2> QED
    BY <2>2, <2>3, <2>4
<1>6. h \in Bijection(N, N)
  BY <1>3, <1>4, <1>5, Fun_IsBij
<1>7. \A k \in N : b[k] = IF k = j THEN a[i] ELSE IF k = i THEN a[j] ELSE a[k]
  BY SwapFilled
<1>8. \A k \in N : b[k] = g[h[k]]
  BY <1>1, <1>7
<1> QED
  BY <1>6, <1>8 DEF Permutes

(* What trades places inside a range stays in it.                          *)
Within(a, b, l, u, n) ==
    /\ \A k \in 1 .. n : ~ In(k, <<l, u>>) => b[k] = a[k]
    /\ \A k \in l .. u : \E m \in l .. u : b[k] = a[m]

LEMMA SwapWithin ==
  ASSUME Parameters, NEW a, NEW n, Filled(a, n), NEW l \in Int, NEW u \in Int, 1 <= l, u <= n,
         NEW i \in l .. u, NEW j \in l .. u
  PROVE  Within(a, Swap(a, i, j), l, u, n)
<1>1. n \in Nat /\ i \in 1 .. n /\ j \in 1 .. n /\ l .. u \subseteq 1 .. n
  BY ValuesOf
<1>2. \A k \in 1 .. n : Swap(a, i, j)[k] = IF k = j THEN a[i] ELSE IF k = i THEN a[j] ELSE a[k]
  BY <1>1, SwapFilled
<1> QED
  BY <1>1, <1>2 DEF Within, In

-----------------------------------------------------------------------------
(* Part 5: ranges.                                                         *)
Range2 == Int \X Int

LEMMA AppendIs ==
  ASSUME NEW c \in Seq(Range2), NEW x \in Range2
  PROVE  /\ Append(c, x) \in Seq(Range2) /\ DOMAIN c = 1 .. Len(c) /\ Len(c) \in Nat
         /\ DOMAIN Append(c, x) = 1 .. Len(c) + 1
         /\ \A p \in 1 .. Len(c) : Append(c, x)[p] = c[p]
         /\ Append(c, x)[Len(c) + 1] = x
OBVIOUS

LEMMA DisorderKept ==
  ASSUME NEW n \in Nat, NEW a, NEW b, \A k \in 1 .. n : a[k] \in Nat /\ b[k] \in Nat,
         NEW c \in Seq(Range2), NEW l \in Int, NEW u \in Int,
         Apart(Append(c, <<l, u>>), n), Disorder(a, Append(c, <<l, u>>), n),
         Within(a, b, l, u, n)
  PROVE  Disorder(b, Append(c, <<l, u>>), n)
<1> DEFINE r == Append(c, <<l, u>>)
           last1 == Len(c) + 1
<1>1. last1 \in DOMAIN r /\ r[last1] = <<l, u>>
  BY AppendIs DEF Range2
<1> HIDE DEF r, last1
<1>2. 1 <= l /\ u <= n /\ \A k \in l .. u : k \in 1 .. n
  BY <1>1 DEF Apart, r
<1>3. ASSUME NEW k \in 1 .. n, NEW m \in 1 .. n, a[k] > a[m], k < m
      PROVE  \E p \in DOMAIN r : In(k, r[p]) /\ In(m, r[p])
  BY <1>3 DEF Disorder, r
<1>4. ASSUME NEW k \in 1 .. n, NEW p \in DOMAIN r, In(k, r[p]), In(k, <<l, u>>)
      PROVE  p = last1
  BY <1>1, <1>4 DEF Apart, r
<1>5. \A k \in 1 .. n : In(k, <<l, u>>) <=> k \in l .. u
  BY DEF In
<1>6. ASSUME NEW k \in 1 .. n, NEW m \in 1 .. n, k < m, b[k] > b[m]
      PROVE  \E p \in DOMAIN r : In(k, r[p]) /\ In(m, r[p])
  <2>1. CASE In(k, <<l, u>>) /\ In(m, <<l, u>>)
    BY <1>1, <2>1
  <2>2. CASE ~ In(k, <<l, u>>) /\ ~ In(m, <<l, u>>)
    BY <1>3, <1>6, <2>2 DEF Within
  <2>3. CASE In(k, <<l, u>>) /\ ~ In(m, <<l, u>>)
    <3>1. PICK k1 \in l .. u : b[k] = a[k1]
      BY <1>5, <2>3 DEF Within
    <3>2. k1 \in 1 .. n /\ k1 < m
      BY <1>2, <1>5, <1>6, <2>3
    <3>3. a[k1] > a[m]
      BY <1>6, <2>3, <3>1 DEF Within
    <3>4. PICK p \in DOMAIN r : In(k1, r[p]) /\ In(m, r[p])
      BY <1>3, <3>2, <3>3
    <3>5. p = last1
      BY <1>4, <1>5, <3>2, <3>4
    <3> QED
      BY <1>1, <2>3, <3>4, <3>5
  <2>4. CASE ~ In(k, <<l, u>>) /\ In(m, <<l, u>>)
    <3>1. PICK m1 \in l .. u : b[m] = a[m1]
      BY <1>5, <2>4 DEF Within
    <3>2. m1 \in 1 .. n /\ k < m1
      BY <1>2, <1>5, <1>6, <2>4, SMTT(30)
    <3>3. a[k] > a[m1]
      BY <1>6, <2>4, <3>1 DEF Within
    <3>4. PICK p \in DOMAIN r : In(k, r[p]) /\ In(m1, r[p])
      BY <1>3, <3>2, <3>3
    <3>5. p = last1
      BY <1>4, <1>5, <3>2, <3>4
    <3> QED
      BY <1>1, <2>4, <3>4, <3>5
  <2> QED
    BY <2>1, <2>2, <2>3, <2>4
<1> QED
  BY <1>6 DEF Disorder, r

(* A range is parted at i: what is before i is not greater, what is behind *)
(* it not less, and i itself is left out.                                  *)
LEMMA SplitRange ==
  ASSUME NEW n \in Nat, NEW b, \A k \in 1 .. n : b[k] \in Nat, NEW c \in Seq(Range2),
         NEW l \in Int, NEW u \in Int, NEW i \in l .. u, NEW x \in Range2, NEW y \in Range2,
         Apart(Append(c, <<l, u>>), n), Disorder(b, Append(c, <<l, u>>), n),
         \A k \in l .. i : b[k] <= b[i], \A k \in i .. u : b[i] <= b[k],
         \/ x = <<l, i - 1>> /\ y = <<i + 1, u>>
         \/ x = <<i + 1, u>> /\ y = <<l, i - 1>>
  PROVE  LET r == Append(Append(c, x), y) IN Apart(r, n) /\ Disorder(b, r, n)
<1> DEFINE old == Append(c, <<l, u>>)
           N == Len(c)
           r == Append(Append(c, x), y)
<1>1. /\ N \in Nat /\ DOMAIN old = 1 .. N + 1 /\ DOMAIN c = 1 .. N
      /\ \A p \in 1 .. N : old[p] = c[p]
      /\ old[N + 1] = <<l, u>>
  BY AppendIs DEF Range2
<1>2. /\ DOMAIN r = 1 .. N + 2
      /\ \A p \in 1 .. N : r[p] = c[p]
      /\ r[N + 1] = x /\ r[N + 2] = y
  <2>1. Append(c, x) \in Seq(Range2) /\ Len(Append(c, x)) = N + 1
    OBVIOUS
  <2>2. \A p \in 1 .. N : Append(c, x)[p] = c[p]
    OBVIOUS
  <2>3. Append(c, x)[N + 1] = x
    OBVIOUS
  <2>4. /\ DOMAIN r = 1 .. N + 2 /\ r[N + 2] = y
        /\ \A p \in 1 .. N + 1 : r[p] = Append(c, x)[p]
    BY <1>1, <2>1
  <2> QED
    BY <1>1, <2>2, <2>3, <2>4
<1> HIDE DEF old, N, r
<1>3. 1 <= l /\ u <= n
  BY <1>1 DEF Apart, old
<1>4. \A p \in 1 .. N : 1 <= c[p][1] /\ c[p][2] <= n
  <2> TAKE p \in 1 .. N
  <2>1. p \in DOMAIN old
    BY <1>1
  <2>2. 1 <= old[p][1] /\ old[p][2] <= n
    BY <2>1 DEF Apart, old
  <2> QED
    BY <1>1, <2>2
<1>5. ASSUME NEW p \in 1 .. N, NEW k \in 1 .. n, In(k, c[p])
      PROVE  ~ In(k, <<l, u>>)
  <2>1. p \in DOMAIN old /\ N + 1 \in DOMAIN old /\ p # N + 1
    BY <1>1
  <2>2. ~ (In(k, old[p]) /\ In(k, old[N + 1]))
    BY <2>1 DEF Apart, old
  <2> QED
    BY <1>1, <1>5, <2>2
<1>6. ASSUME NEW p \in 1 .. N, NEW q \in 1 .. N, p # q, NEW k \in 1 .. n
      PROVE  ~ (In(k, c[p]) /\ In(k, c[q]))
  <2>1. p \in DOMAIN old /\ q \in DOMAIN old
    BY <1>1
  <2>2. ~ (In(k, old[p]) /\ In(k, old[q]))
    BY <1>6, <2>1 DEF Apart, old
  <2> QED
    BY <1>1, <2>2
<1>7. \A k \in 1 .. n : /\ In(k, x) \/ In(k, y) => In(k, <<l, u>>) /\ k # i
                        /\ In(k, <<l, u>>) /\ k # i => In(k, x) \/ In(k, y)
                        /\ ~ (In(k, x) /\ In(k, y))
  BY <1>3 DEF In
<1>8. Apart(r, n)
  <2>1. \A p \in DOMAIN r : 1 <= r[p][1] /\ r[p][2] <= n
    <3>1. 1 <= x[1] /\ x[2] <= n /\ 1 <= y[1] /\ y[2] <= n
      BY <1>3
    <3>2. \A p \in DOMAIN r : p \in 1 .. N \/ p = N + 1 \/ p = N + 2
      BY <1>1, <1>2
    <3> QED
      BY <1>2, <1>4, <3>1, <3>2
  <2>2. ASSUME NEW p \in DOMAIN r, NEW q \in DOMAIN r, p # q, NEW k \in 1 .. n,
               In(k, r[p]), In(k, r[q])
        PROVE  FALSE
    <3>1. /\ p \in 1 .. N \/ p = N + 1 \/ p = N + 2
          /\ q \in 1 .. N \/ q = N + 1 \/ q = N + 2
      BY <1>1, <1>2
    <3>2. CASE p \in 1 .. N /\ q \in 1 .. N
      BY <1>2, <1>6, <2>2, <3>2
    <3>3. CASE p \in 1 .. N /\ q \notin 1 .. N
      BY <1>2, <1>5, <1>7, <2>2, <3>1, <3>3
    <3>4. CASE p \notin 1 .. N /\ q \in 1 .. N
      BY <1>2, <1>5, <1>7, <2>2, <3>1, <3>4
    <3>5. CASE p \notin 1 .. N /\ q \notin 1 .. N
      BY <1>2, <1>7, <2>2, <3>1, <3>5
    <3> QED
      BY <3>2, <3>3, <3>4, <3>5
  <2> QED
    BY <2>1, <2>2 DEF Apart
<1>9. ASSUME NEW k \in 1 .. n, NEW m \in 1 .. n, k < m, b[k] > b[m]
      PROVE  \E p \in DOMAIN r : In(k, r[p]) /\ In(m, r[p])
  <2>1. PICK p \in DOMAIN old : In(k, old[p]) /\ In(m, old[p])
    BY <1>9 DEF Disorder, old
  <2>2. p \in 1 .. N \/ p = N + 1
    BY <1>1, <2>1
  <2>3. CASE p \in 1 .. N
    <3>1. p \in DOMAIN r /\ r[p] = old[p]
      BY <1>1, <1>2, <2>3
    <3> QED
      BY <2>1, <3>1
  <2>4. CASE p = N + 1
    <3>1. k \in l .. u /\ m \in l .. u
      BY <1>1, <2>1, <2>4 DEF In
    <3>2. i \in 1 .. n /\ b[i] \in Nat /\ b[k] \in Nat /\ b[m] \in Nat
      BY <1>3
    <3>3. ~ (k <= i /\ i <= m)
      <4>1. k <= i /\ i <= m => b[k] <= b[i] /\ b[i] <= b[m]
        BY <3>1
      <4> QED
        BY <1>9, <3>2, <4>1
    <3>4. (In(k, <<l, i - 1>>) /\ In(m, <<l, i - 1>>)) \/ (In(k, <<i + 1, u>>) /\ In(m, <<i + 1, u>>))
      BY <1>9, <3>1, <3>3 DEF In
    <3>5. (In(k, x) /\ In(m, x)) \/ (In(k, y) /\ In(m, y))
      BY <3>4
    <3>6. N + 1 \in DOMAIN r /\ N + 2 \in DOMAIN r
      BY <1>1, <1>2
    <3> QED
      BY <1>2, <3>5, <3>6
  <2> QED
    BY <2>2, <2>3, <2>4
<1>10. Disorder(b, r, n)
  BY <1>9 DEF Disorder
<1> QED
  BY <1>8, <1>10 DEF r

(* A range that is in order is done with.                                  *)
LEMMA DropRange ==
  ASSUME NEW n \in Nat, NEW b, \A k \in 1 .. n : b[k] \in Nat, NEW c \in Seq(Range2),
         NEW l \in Int, NEW u \in Int,
         Apart(Append(c, <<l, u>>), n), Disorder(b, Append(c, <<l, u>>), n),
         \A k, m \in l .. u : k < m => b[k] <= b[m]
  PROVE  Apart(c, n) /\ Disorder(b, c, n)
<1> DEFINE old == Append(c, <<l, u>>)
           N == Len(c)
<1>1. /\ N \in Nat /\ DOMAIN old = 1 .. N + 1 /\ DOMAIN c = 1 .. N
      /\ \A p \in 1 .. N : old[p] = c[p]
      /\ old[N + 1] = <<l, u>>
  BY AppendIs DEF Range2
<1>2. \A p \in DOMAIN c : p \in DOMAIN old /\ old[p] = c[p]
  BY <1>1
<1> HIDE DEF old, N
<1>3. Apart(c, n)
  BY <1>2 DEF Apart, old
<1>4. ASSUME NEW k \in 1 .. n, NEW m \in 1 .. n, k < m, b[k] > b[m]
      PROVE  \E p \in DOMAIN c : In(k, c[p]) /\ In(m, c[p])
  <2>1. PICK p \in DOMAIN old : In(k, old[p]) /\ In(m, old[p])
    BY <1>4 DEF Disorder, old
  <2>2. p # N + 1
    <3> SUFFICES ASSUME p = N + 1 PROVE FALSE
      OBVIOUS
    <3>1. k \in l .. u /\ m \in l .. u
      BY <1>1, <2>1 DEF In
    <3>2. b[k] <= b[m] /\ b[k] \in Nat /\ b[m] \in Nat
      BY <1>4, <3>1
    <3> QED
      BY <1>4, <3>2
  <2>3. p \in DOMAIN c /\ c[p] = old[p]
    BY <1>1, <2>1, <2>2
  <2> QED
    BY <2>1, <2>3
<1> QED
  BY <1>3, <1>4 DEF Disorder

-----------------------------------------------------------------------------
(* Part 6: what a sort keeps, apart from the place in its loops.           *)
Ready(a, s, g) ==
    /\ s \in Sort /\ g \in Seq(Val) /\ Filled(a, Len(g)) /\ Permutes(a, g)
    /\ Apart(Left(s), Len(g)) /\ Disorder(a, Left(s), Len(g))

LEMMA SortsReady ==
  ASSUME NEW a, NEW s \in Sort, NEW r, NEW g, Sorts(a, s, r, g), s.pc # "idle"
  PROVE  Ready(a, s, g) /\ r = SORTING
<1>1. r = SORTING
  BY DEF Sorts
<1> QED
  BY <1>1, ResultsDiffer DEF Sorts, Ready

LEMMA ReadySorts ==
  ASSUME NEW a, NEW s, NEW g, Ready(a, s, g), s.pc # "idle", Partition(a, s)
  PROVE  Sorts(a, s, SORTING, g)
BY DEF Sorts, Ready

LEMMA SortOf ==
  ASSUME NEW s \in Sort
  PROVE  /\ s.pc \in Ranging \cup {"idle", "next"} /\ s.l \in Int /\ s.u \in Int
         /\ s.i \in Int /\ s.j \in Int /\ s.P \in Nat /\ s.calls \in Seq(Range2)
BY DEF Sort, Range2

LEMMA BoundsOf ==
  ASSUME Parameters, NEW a, NEW s, NEW g, Ready(a, s, g), s.pc \in Ranging
  PROVE  /\ s.l \in Int /\ s.u \in Int /\ s.i \in Int /\ s.j \in Int /\ s.P \in Nat
         /\ 1 <= s.l /\ s.u <= Len(g) /\ Len(g) \in Nat
         /\ s.l .. s.u \subseteq 1 .. Len(g) /\ 1 .. Len(g) \subseteq Index
         /\ \A k \in 1 .. Len(g) : a[k] \in Nat
         /\ \A k \in s.l .. s.u : a[k] \in Nat
<1>1. s \in Sort
  BY DEF Ready
<1>2. /\ s.l \in Int /\ s.u \in Int /\ s.i \in Int /\ s.j \in Int /\ s.P \in Nat
      /\ s.calls \in Seq(Range2)
  BY <1>1, SortOf
<1>3. Left(s) = Append(s.calls, <<s.l, s.u>>)
  BY DEF Left
<1>4. <<s.l, s.u>> \in Range2
  BY <1>2 DEF Range2
<1>5. Len(s.calls) + 1 \in DOMAIN Left(s) /\ Left(s)[Len(s.calls) + 1] = <<s.l, s.u>>
  <2>1. /\ DOMAIN Append(s.calls, <<s.l, s.u>>) = 1 .. Len(s.calls) + 1
        /\ Append(s.calls, <<s.l, s.u>>)[Len(s.calls) + 1] = <<s.l, s.u>> /\ Len(s.calls) \in Nat
    BY <1>2, <1>4, AppendIs
  <2> QED
    BY <1>3, <2>1
<1>6. 1 <= s.l /\ s.u <= Len(g)
  BY <1>5 DEF Ready, Apart
<1>7. /\ Len(g) \in Nat /\ 1 .. Len(g) \subseteq Index
      /\ \A k \in 1 .. Len(g) : a[k] \in Nat
  BY ValuesOf DEF Ready
<1> QED
  BY <1>2, <1>6, <1>7

(* Two elements of the range trade places.                                 *)
LEMMA SwapReady ==
  ASSUME Parameters, NEW a, NEW s, NEW g, Ready(a, s, g), s.pc \in Ranging,
         NEW i \in s.l .. s.u, NEW j \in s.l .. s.u
  PROVE  Ready(Swap(a, i, j), s, g)
<1> DEFINE n == Len(g)
           b == Swap(a, i, j)
<1>1. /\ s.l \in Int /\ s.u \in Int /\ 1 <= s.l /\ s.u <= n /\ n \in Nat
      /\ s.l .. s.u \subseteq 1 .. n /\ \A k \in 1 .. n : a[k] \in Nat
  BY BoundsOf
<1>2. /\ s \in Sort /\ g \in Seq(Val) /\ Filled(a, n) /\ Permutes(a, g)
      /\ Apart(Left(s), n) /\ Disorder(a, Left(s), n)
  BY DEF Ready
<1>3. i \in 1 .. n /\ j \in 1 .. n
  BY <1>1
<1>4. Filled(b, n) /\ \A k \in 1 .. n : b[k] = IF k = j THEN a[i] ELSE IF k = i THEN a[j] ELSE a[k]
  BY <1>2, <1>3, SwapFilled
<1>5. Permutes(b, g)
  BY <1>2, <1>3, SwapPermutes
<1>6. Within(a, b, s.l, s.u, n)
  BY <1>1, <1>2, SwapWithin
<1> HIDE DEF b
<1>7. Disorder(b, Left(s), n)
  <2>1. Left(s) = Append(s.calls, <<s.l, s.u>>) /\ s.calls \in Seq(Range2)
    BY <1>2, SortOf DEF Left
  <2>2. \A k \in 1 .. n : a[k] \in Nat /\ b[k] \in Nat
    BY <1>1, <1>3, <1>4
  <2> QED
    BY <1>1, <1>2, <1>6, <2>1, <2>2, DisorderKept
<1> QED
  BY <1>1, <1>2, <1>4, <1>5, <1>7 DEF Ready, b

LEMMA SwapValues ==
  ASSUME Parameters, NEW a, NEW s, NEW g, Ready(a, s, g), s.pc \in Ranging,
         NEW i \in s.l .. s.u, NEW j \in s.l .. s.u, NEW k \in s.l .. s.u
  PROVE  Swap(a, i, j)[k] = IF k = j THEN a[i] ELSE IF k = i THEN a[j] ELSE a[k]
<1>1. Filled(a, Len(g)) /\ i \in 1 .. Len(g) /\ j \in 1 .. Len(g) /\ k \in 1 .. Len(g)
  BY BoundsOf DEF Ready
<1> QED
  BY <1>1, SwapFilled

LEMMA SameRange ==
  ASSUME NEW a, NEW s, NEW g, Ready(a, s, g), s.pc \in Ranging,
         NEW r \in Sort, r.pc \in Ranging, r.l = s.l, r.u = s.u, r.calls = s.calls
  PROVE  Ready(a, r, g)
<1>1. Left(r) = Left(s)
  BY DEF Left
<1> QED
  BY <1>1 DEF Ready

LEMMA RangeDone ==
  ASSUME Parameters, NEW a, NEW s, NEW g, Ready(a, s, g), s.pc \in Ranging,
         NEW r \in Sort, r.pc = "next", r.calls = s.calls,
         \A k, m \in s.l .. s.u : k < m => a[k] <= a[m]
  PROVE  Ready(a, r, g) /\ Partition(a, r)
<1> DEFINE n == Len(g)
<1>1. s.l \in Int /\ s.u \in Int /\ n \in Nat /\ \A k \in 1 .. n : a[k] \in Nat
  BY BoundsOf
<1>2. Left(s) = Append(s.calls, <<s.l, s.u>>) /\ Left(r) = s.calls /\ s.calls \in Seq(Range2)
  BY SortOf DEF Left, Ranging, Ready
<1>3. Apart(Append(s.calls, <<s.l, s.u>>), n) /\ Disorder(a, Append(s.calls, <<s.l, s.u>>), n)
  BY <1>2 DEF Ready
<1>4. Apart(s.calls, n) /\ Disorder(a, s.calls, n)
  BY <1>1, <1>2, <1>3, DropRange
<1> QED
  BY <1>2, <1>4 DEF Ready, Partition, Ranging

(* auxsort goes on with the range (l, u).                                  *)
LEMMA RangeBegins ==
  ASSUME Parameters, NEW a, NEW g \in Seq(Val), Filled(a, Len(g)), Permutes(a, g),
         NEW l \in Int, NEW u \in Int, NEW c \in Seq(Range2), sort \in Sort,
         Apart(Append(c, <<l, u>>), Len(g)), Disorder(a, Append(c, <<l, u>>), Len(g))
  PROVE  /\ Ready(a, Range1(l, u, c), g) /\ Partition(a, Range1(l, u, c))
         /\ Range1(l, u, c).pc # "idle"
<1> DEFINE s == Range1(l, u, c)
           n == Len(g)
<1>1. /\ s \in Sort /\ s.pc = (IF l < u THEN "ends" ELSE "next") /\ s.l = l /\ s.u = u /\ s.calls = c
  BY DEF Range1, Sort, Ranging, Range2
<1> HIDE DEF s
<1>2. CASE l < u
  <2>1. Left(s) = Append(c, <<l, u>>)
    BY <1>1, <1>2 DEF Left, Ranging
  <2>2. Partition(a, s)
    BY <1>1, <1>2 DEF Partition, Ranging
  <2> QED
    BY <1>1, <1>2, <2>1, <2>2 DEF Ready, s
<1>3. CASE ~ (l < u)
  <2>1. Left(s) = c
    BY <1>1, <1>3 DEF Left, Ranging
  <2>2. Partition(a, s)
    BY <1>1, <1>3 DEF Partition, Ranging
  <2>3. n \in Nat /\ \A k \in 1 .. n : a[k] \in Nat
    BY ValuesOf
  <2>4. \A k, m \in l .. u : k < m => a[k] <= a[m]
    BY <1>3
  <2>5. Apart(c, n) /\ Disorder(a, c, n)
    BY <2>3, <2>4, DropRange
  <2> QED
    BY <1>1, <1>3, <2>1, <2>2, <2>5 DEF Ready, s
<1> QED
  BY <1>2, <1>3

-----------------------------------------------------------------------------
(* Part 7: the steps of auxsort.                                           *)

(* What a step of a sort leaves.                                           *)
Kept(g) == /\ Ready(t', sort', g) /\ Partition(t', sort') /\ sort'.pc # "idle"

LEMMA EndsKeeps ==
  ASSUME Parameters, NEW g, Ready(t, sort, g), Partition(t, sort), SortEnds
  PROVE  Kept(g)
<1> DEFINE l == sort.l
           u == sort.u
           a == IF t[u] < t[l] THEN Swap(t, l, u) ELSE t
<1>1. /\ l \in Int /\ u \in Int /\ sort.pc \in Ranging /\ l < u /\ sort \in Sort
      /\ \A k \in l .. u : t[k] \in Nat
  <2>1. sort.pc = "ends"
    BY DEF SortEnds
  <2>2. sort.pc \in Ranging
    BY <2>1 DEF Ranging
  <2> QED
    BY <2>2, BoundsOf DEF Ready, Partition
<1>2. /\ Ready(a, sort, g) /\ a[l] <= a[u]
      /\ a[l] \in Nat /\ a[u] \in Nat
  <2>1. l \in l .. u /\ u \in l .. u
    BY <1>1
  <2>2. CASE t[u] < t[l]
    <3>0. Ready(Swap(t, l, u), sort, g)
      BY <1>1, <2>1, SwapReady
    <3>1. ASSUME NEW k \in l .. u
          PROVE  Swap(t, l, u)[k] = IF k = u THEN t[l] ELSE IF k = l THEN t[u] ELSE t[k]
      BY <1>1, <2>1, SwapValues
    <3>2. Swap(t, l, u)[l] = t[u] /\ Swap(t, l, u)[u] = t[l]
      BY <1>1, <2>1, <3>1
    <3> QED
      BY <1>1, <2>1, <2>2, <3>0, <3>2
  <2>3. CASE ~ (t[u] < t[l])
    BY <1>1, <2>1, <2>3
  <2> QED
    BY <2>2, <2>3
<1>3. t' = a
  BY DEF SortEnds, Swapped, Swap
<1>4. sort' = [sort EXCEPT !.pc = IF u - l = 1 THEN "next" ELSE "middle", !.i = (l + u) \div 2]
  BY DEF SortEnds
<1> HIDE DEF a, l, u
<1>5. /\ sort' \in Sort /\ sort'.pc = (IF u - l = 1 THEN "next" ELSE "middle")
      /\ sort'.i = (l + u) \div 2 /\ sort'.l = l /\ sort'.u = u /\ sort'.calls = sort.calls
  <2>1. (l + u) \div 2 \in Int
    BY <1>1
  <2> QED
    BY <1>1, <1>4, <2>1 DEF Sort, Ranging, l, u
<1>6. CASE u - l = 1
  <2>1. \A k, m \in l .. u : k < m => a[k] <= a[m]
    <3> TAKE k, m \in l .. u
    <3> HAVE k < m
    <3>1. k = l /\ m = u
      BY <1>1, <1>6
    <3> QED
      BY <1>2, <3>1
  <2>2. Ready(a, sort', g) /\ Partition(a, sort')
    BY <1>1, <1>2, <1>5, <1>6, <2>1, RangeDone DEF l, u
  <2> QED
    BY <1>3, <1>5, <1>6, <2>2 DEF Kept
<1>7. CASE u - l # 1
  <2>1. u - l >= 2 /\ l < (l + u) \div 2 /\ (l + u) \div 2 < u
    BY <1>1, <1>7
  <2>2. Ready(a, sort', g)
    BY <1>1, <1>2, <1>5, <1>7, SameRange DEF Ranging, l, u
  <2>3. Partition(a, sort')
    BY <1>1, <1>2, <1>5, <1>7, <2>1 DEF Partition, Ranging
  <2> QED
    BY <1>3, <1>5, <1>7, <2>2, <2>3 DEF Kept
<1> QED
  BY <1>6, <1>7

(* The three elements compared are in order; the middle one is the pivot.  *)
LEMMA PivotKeeps ==
  ASSUME Parameters, NEW g, NEW a, Ready(a, sort, g), sort.pc \in Ranging,
         sort.u - sort.l >= 2, sort.l < sort.i, sort.i < sort.u,
         a[sort.l] <= a[sort.i], a[sort.i] <= a[sort.u], Pivoted(a)
  PROVE  Kept(g)
<1> DEFINE l == sort.l
           u == sort.u
           i == sort.i
<1>1. /\ l \in Int /\ u \in Int /\ i \in Int /\ sort \in Sort
      /\ \A k \in l .. u : a[k] \in Nat
  BY BoundsOf DEF Ready
<1>2. CASE u - l = 2
  <2>1. t' = a /\ sort' = [sort EXCEPT !.pc = "next"]
    BY <1>2 DEF Pivoted, Goes
  <2>2. sort' \in Sort /\ sort'.pc = "next" /\ sort'.calls = sort.calls
    BY <1>1, <2>1 DEF Sort
  <2>3. \A k, m \in l .. u : k < m => a[k] <= a[m]
    <3> TAKE k, m \in l .. u
    <3> HAVE k < m
    <3>1. i = l + 1 /\ u = l + 2
      BY <1>1, <1>2
    <3>2. \/ k = l /\ m = i
          \/ k = l /\ m = u
          \/ k = i /\ m = u
      BY <1>1, <3>1
    <3>3. a[l] \in Nat /\ a[i] \in Nat /\ a[u] \in Nat
      BY <1>1, <3>1
    <3> QED
      BY <3>2, <3>3
  <2>4. Ready(a, sort', g) /\ Partition(a, sort')
    BY <2>2, <2>3, RangeDone
  <2> QED
    BY <2>1, <2>2, <2>4 DEF Kept
<1>3. CASE u - l # 2
  <2> DEFINE b == Swap(a, i, u - 1)
  <2>0. u - l >= 3 /\ i \in l .. u /\ u - 1 \in l .. u /\ l \in l .. u /\ u \in l .. u
    BY <1>1, <1>3
  <2>1. /\ t' = [a EXCEPT ![i] = a[u - 1], ![u - 1] = a[i]]
        /\ sort' = [sort EXCEPT !.pc = "up", !.P = a[i], !.i = l, !.j = u - 1]
    BY <1>3 DEF Pivoted
  <2>2. t' = b
    BY <2>1 DEF Swap
  <2>3. ASSUME NEW k \in l .. u
        PROVE  b[k] = IF k = u - 1 THEN a[i] ELSE IF k = i THEN a[u - 1] ELSE a[k]
    BY <2>0, SwapValues
  <2>4. Ready(b, sort, g)
    BY <2>0, SwapReady
  <2> HIDE DEF b
  <2>5. /\ sort' \in Sort /\ sort'.pc = "up" /\ sort'.P = a[i] /\ sort'.i = l /\ sort'.j = u - 1
        /\ sort'.l = l /\ sort'.u = u /\ sort'.calls = sort.calls
    <3>1. a[i] \in Nat /\ u - 1 \in Int
      BY <1>1, <2>0
    <3> QED
      BY <1>1, <2>1, <3>1 DEF Sort, Ranging
  <2>6. Ready(b, sort', g)
    BY <2>5, <2>4, SameRange DEF Ranging
  <2>7. b[l] = a[l] /\ b[u - 1] = a[i] /\ b[u] = a[u]
    BY <1>1, <2>0, <2>3
  <2>8. Low(b, l, l, a[i])
    BY <1>1, <2>7 DEF Low
  <2>9. High(b, u - 1, u, a[i])
    <3> SUFFICES ASSUME NEW k \in u - 1 .. u PROVE b[k] >= a[i]
      BY DEF High
    <3>1. k = u - 1 \/ k = u
      BY <1>1
    <3>2. a[i] \in Nat /\ a[u] \in Nat
      BY <1>1, <2>0
    <3> QED
      BY <2>7, <3>1, <3>2
  <2> HIDE DEF l, u, i
  <2>10. Partition(b, sort')
    BY <1>1, <2>0, <2>5, <2>7, <2>8, <2>9 DEF Partition, Ranging
  <2> QED
    BY <2>2, <2>5, <2>6, <2>10 DEF Kept
<1> QED
  BY <1>2, <1>3

LEMMA MiddleKeeps ==
  ASSUME Parameters, NEW g, Ready(t, sort, g), Partition(t, sort), SortMiddle
  PROVE  Kept(g)
<1> DEFINE l == sort.l
           u == sort.u
           i == sort.i
<1>1. sort.pc = "middle" /\ sort.pc \in Ranging
  BY DEF SortMiddle, Ranging
<1>2. /\ l \in Int /\ u \in Int /\ i \in Int /\ sort \in Sort
      /\ \A k \in l .. u : t[k] \in Nat
  BY <1>1, BoundsOf DEF Ready
<1>3. u - l >= 2 /\ l < i /\ i < u /\ t[l] <= t[u]
  BY <1>1 DEF Partition
<1>4. i \in l .. u /\ l \in l .. u /\ u \in l .. u
  BY <1>2, <1>3
<1>5. CASE t[i] < t[l]
  <2>1. Pivoted(Swap(t, i, l))
    BY <1>5 DEF SortMiddle, Swapped, Swap
  <2>2. Ready(Swap(t, i, l), sort, g)
    BY <1>1, <1>4, SwapReady
  <2>3. ASSUME NEW k \in l .. u
        PROVE  Swap(t, i, l)[k] = IF k = l THEN t[i] ELSE IF k = i THEN t[l] ELSE t[k]
    BY <1>1, <1>4, SwapValues
  <2>4. Swap(t, i, l)[l] = t[i] /\ Swap(t, i, l)[i] = t[l] /\ Swap(t, i, l)[u] = t[u]
    BY <1>2, <1>3, <1>4, <2>3
  <2>5. t[i] <= t[l]
    BY <1>2, <1>4, <1>5
  <2> QED
    BY <1>1, <1>3, <2>1, <2>2, <2>4, <2>5, PivotKeeps
<1>6. CASE ~ (t[i] < t[l])
  <2>1. t' = t /\ sort' = [sort EXCEPT !.pc = "upper"]
    BY <1>6 DEF SortMiddle, Goes
  <2>2. /\ sort' \in Sort /\ sort'.pc = "upper" /\ sort'.calls = sort.calls
        /\ sort'.l = l /\ sort'.u = u /\ sort'.i = i
    BY <1>2, <2>1 DEF Sort, Ranging
  <2>3. Ready(t, sort', g)
    BY <1>1, <2>2, SameRange DEF Ranging
  <2>4. t[l] <= t[i]
    BY <1>2, <1>4, <1>6
  <2> HIDE DEF l, u, i
  <2>5. Partition(t, sort')
    BY <1>2, <1>3, <2>2, <2>4 DEF Partition, Ranging
  <2> QED
    BY <2>1, <2>2, <2>3, <2>5 DEF Kept
<1> QED
  BY <1>5, <1>6

LEMMA UpperKeeps ==
  ASSUME Parameters, NEW g, Ready(t, sort, g), Partition(t, sort), SortUpper
  PROVE  Kept(g)
<1> DEFINE l == sort.l
           u == sort.u
           i == sort.i
<1>1. sort.pc = "upper" /\ sort.pc \in Ranging
  BY DEF SortUpper, Ranging
<1>2. /\ l \in Int /\ u \in Int /\ i \in Int
      /\ \A k \in l .. u : t[k] \in Nat
  BY <1>1, BoundsOf
<1>3. u - l >= 2 /\ l < i /\ i < u /\ t[l] <= t[u] /\ t[l] <= t[i]
  BY <1>1 DEF Partition
<1>4. i \in l .. u /\ l \in l .. u /\ u \in l .. u
  BY <1>2, <1>3
<1>5. CASE t[u] < t[i]
  <2>1. Pivoted(Swap(t, i, u))
    BY <1>5 DEF SortUpper, Swapped, Swap
  <2>2. Ready(Swap(t, i, u), sort, g)
    BY <1>1, <1>4, SwapReady
  <2>3. ASSUME NEW k \in l .. u
        PROVE  Swap(t, i, u)[k] = IF k = u THEN t[i] ELSE IF k = i THEN t[u] ELSE t[k]
    BY <1>1, <1>4, SwapValues
  <2>4. Swap(t, i, u)[l] = t[l] /\ Swap(t, i, u)[i] = t[u] /\ Swap(t, i, u)[u] = t[i]
    BY <1>2, <1>3, <1>4, <2>3
  <2>5. t[u] <= t[i]
    BY <1>2, <1>4, <1>5
  <2> QED
    BY <1>1, <1>3, <2>1, <2>2, <2>4, <2>5, PivotKeeps
<1>6. CASE ~ (t[u] < t[i])
  <2>1. Pivoted(t)
    BY <1>6 DEF SortUpper
  <2>2. t[i] <= t[u]
    BY <1>2, <1>4, <1>6
  <2> QED
    BY <1>1, <1>3, <2>1, <2>2, PivotKeeps
<1> QED
  BY <1>5, <1>6

(* a[++i] < P: i stops before it passes j, where the elements are not less *)
(* than P.                                                                 *)
LEMMA UpKeeps ==
  ASSUME Parameters, NEW g, Ready(t, sort, g), Partition(t, sort), SortUp, result = SORTING
  PROVE  Kept(g) /\ result' = SORTING
<1> DEFINE l == sort.l
           u == sort.u
           i == sort.i
           j == sort.j
           P == sort.P
           k == i + 1
<1>1. sort.pc = "up" /\ sort.pc \in Ranging
  BY DEF SortUp, Ranging
<1>2. /\ l \in Int /\ u \in Int /\ i \in Int /\ j \in Int /\ P \in Nat /\ sort \in Sort
      /\ \A m \in l .. u : t[m] \in Nat
  BY <1>1, BoundsOf DEF Ready
<1>3. /\ u - l >= 3 /\ P = t[u - 1] /\ High(t, j, u, P) /\ l < j /\ j <= u - 1
      /\ l <= i /\ i <= j /\ Low(t, l, i, P)
      /\ i = j => l < i /\ j < u - 1
  BY <1>1 DEF Partition
<1>4. k \in l .. u /\ t[k] \in Nat /\ t' = t
  BY <1>2, <1>3 DEF SortUp
<1>5. /\ sort' = [sort EXCEPT !.i = k, !.pc = IF t[k] < P THEN IF k > u THEN "idle" ELSE "up" ELSE "down"]
      /\ result' = IF t[k] < P /\ k > u THEN INVALID ELSE result
  BY DEF SortUp
<1>6. ~ (k > u)
  BY <1>2, <1>3
<1> HIDE DEF k, l, u, i, j, P
<1>7. /\ sort' \in Sort /\ sort'.pc = (IF t[k] < P THEN "up" ELSE "down") /\ sort'.i = k
      /\ sort'.l = l /\ sort'.u = u /\ sort'.j = j /\ sort'.P = P /\ sort'.calls = sort.calls
  <2>1. k \in Int
    BY <1>2 DEF k
  <2> QED
    BY <1>2, <1>5, <1>6, <2>1 DEF Sort, Ranging, l, u, j, P
<1>8. Ready(t, sort', g)
  BY <1>1, <1>7, SameRange DEF Ranging, l, u
<1>9. CASE t[k] < P
  <2>1. k \notin j .. u
    BY <1>2, <1>3, <1>4, <1>9 DEF High
  <2>2. k < j
    BY <1>2, <1>4, <2>1
  <2>3. Low(t, l, k, P)
    <3> SUFFICES ASSUME NEW m \in l .. k PROVE t[m] <= P
      BY DEF Low
    <3>1. CASE m \in l .. i
      BY <1>3, <3>1 DEF Low
    <3>2. CASE m = k
      BY <1>2, <1>4, <1>9, <3>2
    <3> QED
      BY <1>2, <3>1, <3>2 DEF k
  <2>4. Partition(t, sort')
    BY <1>2, <1>3, <1>4, <1>7, <1>9, <2>2, <2>3 DEF Partition, Ranging
  <2> QED
    BY <1>4, <1>5, <1>6, <1>7, <1>8, <1>9, <2>4 DEF Kept
<1>10. CASE ~ (t[k] < P)
  <2>1. t[k] >= P
    BY <1>2, <1>4, <1>10
  <2>2. l < k /\ k <= j + 1 /\ k <= u - 1 /\ k - 1 = i
    BY <1>2, <1>3 DEF k
  <2>3. Low(t, l, k - 1, P)
    BY <1>3, <2>2
  <2>4. Partition(t, sort')
    BY <1>2, <1>3, <1>7, <1>10, <2>1, <2>2, <2>3 DEF Partition, Ranging
  <2> QED
    BY <1>4, <1>5, <1>6, <1>7, <1>8, <1>10, <2>4 DEF Kept
<1> QED
  BY <1>9, <1>10

(* P < a[--j]: j stops at the latest before i, where the elements are not  *)
(* greater than P.                                                         *)
LEMMA DownKeeps ==
  ASSUME Parameters, NEW g, Ready(t, sort, g), Partition(t, sort), SortDown, result = SORTING
  PROVE  Kept(g) /\ result' = SORTING
<1> DEFINE l == sort.l
           u == sort.u
           i == sort.i
           P == sort.P
           j == sort.j - 1
<1>1. sort.pc = "down" /\ sort.pc \in Ranging
  BY DEF SortDown, Ranging
<1>2. /\ l \in Int /\ u \in Int /\ i \in Int /\ sort.j \in Int /\ j \in Int /\ P \in Nat /\ sort \in Sort
      /\ \A m \in l .. u : t[m] \in Nat
      /\ g \in Seq(Val) /\ sort.calls \in Seq(Range2)
  BY <1>1, BoundsOf, SortOf DEF Ready
<1>3. /\ u - l >= 3 /\ P = t[u - 1] /\ High(t, sort.j, u, P) /\ l < sort.j /\ sort.j <= u - 1
      /\ l < i /\ i <= sort.j + 1 /\ i <= u - 1 /\ Low(t, l, i - 1, P) /\ t[i] >= P
  BY <1>1 DEF Partition
<1>4. j \in l .. u /\ i \in l .. u /\ u - 1 \in l .. u /\ t[j] \in Nat /\ t[i] \in Nat
  <2>0. u - l >= 3 /\ l < sort.j /\ sort.j <= u - 1 /\ l < i /\ i <= u - 1
    BY <1>3
  <2>1. j \in l .. u /\ i \in l .. u /\ u - 1 \in l .. u
    <3>1. j \in Int /\ l <= j /\ j <= u
      BY <1>2, <2>0
    <3>2. l <= i /\ i <= u /\ l <= u - 1 /\ u - 1 <= u
      BY <1>2, <2>0
    <3> QED
      BY <1>2, <3>1, <3>2
  <2> QED
    BY <1>2, <2>1
<1>5. CASE P < t[j]
  <2>1. /\ sort' = [sort EXCEPT !.j = j, !.pc = IF j < l THEN "idle" ELSE "down"]
        /\ result' = (IF j < l THEN INVALID ELSE result) /\ t' = t
    BY <1>5 DEF SortDown
  <2>2. ~ (j < l)
    BY <1>2, <1>4
  <2> HIDE DEF l, u, i, P, j
  <2>3. /\ sort' \in Sort /\ sort'.pc = "down" /\ sort'.i = i /\ sort'.l = l /\ sort'.u = u
        /\ sort'.j = j /\ sort'.P = P /\ sort'.calls = sort.calls
    BY <1>2, <2>1, <2>2 DEF Sort, Ranging, l, u, i, P
  <2>4. Ready(t, sort', g)
    BY <1>1, <2>3, SameRange DEF Ranging, l, u
  <2>5. j \notin l .. i - 1
    BY <1>2, <1>3, <1>4, <1>5 DEF Low
  <2>6. i <= j /\ l < j /\ j <= u - 1 /\ sort.j = j + 1
    <3>1. sort.j = j + 1 /\ j >= l /\ j \in Int
      BY <1>2, <1>4 DEF j
    <3>2. l < i /\ sort.j <= u - 1
      BY <1>3
    <3>3. i <= j
      BY <1>2, <2>5, <3>1
    <3> QED
      BY <1>2, <3>1, <3>2, <3>3
  <2>7. High(t, j, u, P)
    <3> SUFFICES ASSUME NEW m \in j .. u PROVE t[m] >= P
      BY DEF High
    <3>1. CASE m \in sort.j .. u
      BY <1>3, <3>1 DEF High
    <3>2. CASE m = j
      BY <1>2, <1>4, <1>5, <3>2
    <3> QED
      BY <1>2, <2>6, <3>1, <3>2
  <2>8. Partition(t, sort')
    BY <1>2, <1>3, <2>3, <2>6, <2>7 DEF Partition, Ranging
  <2> QED
    BY <2>1, <2>2, <2>3, <2>4, <2>8 DEF Kept
<1>6. CASE ~ (P < t[j]) /\ ~ (j < i)
  <2> DEFINE b == Swap(t, i, j)
  <2>1. /\ sort' = [sort EXCEPT !.j = j, !.pc = "up"]
        /\ result' = result /\ t' = b
    BY <1>6 DEF SortDown, Swapped, Swap
  <2>2. Ready(b, sort, g)
    BY <1>1, <1>4, SwapReady
  <2>3. ASSUME NEW m \in l .. u
        PROVE  b[m] = IF m = j THEN t[i] ELSE IF m = i THEN t[j] ELSE t[m]
    BY <1>1, <1>4, SwapValues
  <2> HIDE DEF l, u, i, P, j, b
  <2>4. /\ sort' \in Sort /\ sort'.pc = "up" /\ sort'.i = i /\ sort'.l = l /\ sort'.u = u
        /\ sort'.j = j /\ sort'.P = P /\ sort'.calls = sort.calls
    BY <1>2, <2>1 DEF Sort, Ranging, l, u, i, P
  <2>5. Ready(b, sort', g)
    BY <1>1, <2>2, <2>4, SameRange DEF Ranging, l, u
  <2>6. i <= j /\ l < j /\ j < u - 1 /\ sort.j = j + 1 /\ t[j] <= P
    <3>1. sort.j = j + 1 /\ j \in Int /\ t[j] \in Nat
      BY <1>2, <1>4 DEF j
    <3>2. l < i /\ sort.j <= u - 1
      BY <1>3
    <3>3. i <= j /\ t[j] <= P
      BY <1>2, <1>6, <3>1
    <3> QED
      BY <1>2, <3>1, <3>2, <3>3
  <2>7. b[u - 1] = t[u - 1]
    BY <1>2, <1>4, <2>3, <2>6
  <2>8. Low(b, l, i, P)
    <3> SUFFICES ASSUME NEW m \in l .. i PROVE b[m] <= P
      BY DEF Low
    <3>1. m \in l .. u /\ (m \in l .. i - 1 \/ m = i)
      BY <1>2, <1>4
    <3>2. CASE m = i
      <4>1. b[m] = IF i = j THEN t[i] ELSE t[j]
        BY <2>3, <3>1, <3>2
      <4> QED
        BY <2>6, <4>1
    <3>3. CASE m \in l .. i - 1
      <4>1. m # i /\ m # j
        BY <1>2, <2>6, <3>3
      <4>2. b[m] = t[m]
        BY <2>3, <3>1, <4>1
      <4> QED
        BY <1>3, <3>3, <4>2 DEF Low
    <3> QED
      BY <3>1, <3>2, <3>3
  <2>9. High(b, j, u, P)
    <3> SUFFICES ASSUME NEW m \in j .. u PROVE b[m] >= P
      BY DEF High
    <3>1. m \in l .. u /\ (m \in sort.j .. u \/ m = j)
      BY <1>2, <1>4, <2>6
    <3>2. CASE m = j
      BY <1>3, <2>3, <3>1, <3>2
    <3>3. CASE m \in sort.j .. u
      <4>1. m # i /\ m # j
        BY <1>2, <2>6, <3>3
      <4>2. b[m] = t[m]
        BY <2>3, <3>1, <4>1
      <4> QED
        BY <1>3, <3>3, <4>2 DEF High
    <3> QED
      BY <3>1, <3>2, <3>3
  <2>10. Partition(b, sort')
    BY <1>2, <1>3, <2>4, <2>6, <2>7, <2>8, <2>9 DEF Partition, Ranging
  <2> QED
    BY <2>1, <2>4, <2>5, <2>10 DEF Kept
<1>7. CASE ~ (P < t[j]) /\ j < i
  <2> DEFINE b == Swap(t, u - 1, i)
             p == Parts(l, i, u)
             x == <<p[3], p[4]>>
             c == Append(sort.calls, x)
  <2>1. sort' = Range1(p[1], p[2], c) /\ result' = result /\ t' = b
    BY <1>7 DEF SortDown, Swapped, Swap
  <2>2. Ready(b, sort, g)
    BY <1>1, <1>4, SwapReady
  <2>3. ASSUME NEW m \in l .. u
        PROVE  b[m] = IF m = i THEN t[u - 1] ELSE IF m = u - 1 THEN t[i] ELSE t[m]
    BY <1>1, <1>4, SwapValues
  <2>4. \/ x = <<i + 1, u>> /\ <<p[1], p[2]>> = <<l, i - 1>>
        \/ x = <<l, i - 1>> /\ <<p[1], p[2]>> = <<i + 1, u>>
    BY DEF Parts
  <2>5. x \in Range2 /\ p[1] \in Int /\ p[2] \in Int
    <3>1. l \in Int /\ u \in Int /\ i - 1 \in Int /\ i + 1 \in Int
      BY <1>2
    <3>2. \/ p[1] = l /\ p[2] = i - 1 /\ p[3] = i + 1 /\ p[4] = u
          \/ p[1] = i + 1 /\ p[2] = u /\ p[3] = l /\ p[4] = i - 1
      BY DEF Parts
    <3> HIDE DEF p, l, u, i
    <3>3. p[1] \in Int /\ p[2] \in Int /\ p[3] \in Int /\ p[4] \in Int
      BY <3>1, <3>2
    <3> QED
      BY <3>3 DEF Range2
  <2>6. Left(sort) = Append(sort.calls, <<l, u>>)
    BY <1>1 DEF Left
  <2> HIDE DEF l, u, i, P, j, b, p
  <2>7. b[i] = P /\ sort.j <= i
    <3>1. b[i] = P
      BY <1>3, <1>4, <2>3
    <3>2. j < i /\ sort.j = j + 1
      BY <1>2, <1>7 DEF j
    <3> QED
      BY <1>2, <3>1, <3>2
  <2>8. \A m \in l .. i : b[m] <= b[i]
    <3> TAKE m \in l .. i
    <3>1. m \in l .. u /\ (m \in l .. i - 1 \/ m = i)
      BY <1>2, <1>4
    <3>2. CASE m \in l .. i - 1
      <4>1. m # i /\ m # u - 1
        BY <1>2, <1>3, <3>2
      <4>2. b[m] = t[m] /\ t[m] <= P
        BY <1>3, <2>3, <3>1, <3>2, <4>1 DEF Low
      <4> QED
        BY <2>7, <4>2
    <3>3. CASE m = i
      BY <1>2, <2>7, <3>3
    <3> QED
      BY <3>1, <3>2, <3>3
  <2>9. \A m \in i .. u : b[i] <= b[m]
    <3> TAKE m \in i .. u
    <3>1. m \in l .. u
      BY <1>2, <1>3
    <3>2. CASE m = i
      BY <1>2, <2>7, <3>2
    <3>3. CASE m = u - 1 /\ m # i
      BY <1>2, <1>3, <1>4, <2>3, <2>7, <3>1, <3>3
    <3>4. CASE m # u - 1 /\ m # i
      <4>1. m \in sort.j .. u
        BY <1>2, <2>7, <3>4
      <4>2. b[m] = t[m] /\ t[m] >= P
        BY <1>3, <2>3, <3>1, <3>4, <4>1 DEF High
      <4> QED
        BY <1>2, <2>7, <3>1, <4>2
    <3> QED
      BY <3>2, <3>3, <3>4
  <2> DEFINE n == Len(g)
  <2>10. n \in Nat /\ \A m \in 1 .. n : b[m] \in Nat
    BY <2>2, ValuesOf DEF Ready
  <2>11. Apart(Append(sort.calls, <<l, u>>), n) /\ Disorder(b, Append(sort.calls, <<l, u>>), n)
    BY <2>2, <2>6 DEF Ready
  <2>12. <<p[1], p[2]>> \in Range2
    BY <2>5 DEF Range2
  <2> HIDE DEF n, x
  <2>13. /\ Apart(Append(Append(sort.calls, x), <<p[1], p[2]>>), n)
         /\ Disorder(b, Append(Append(sort.calls, x), <<p[1], p[2]>>), n)
    BY <1>2, <1>4, <2>4, <2>5, <2>8, <2>9, <2>10, <2>11, <2>12, SplitRange
  <2>14. c \in Seq(Range2)
    BY <1>2, <2>5, AppendIs
  <2>15. Filled(b, n) /\ Permutes(b, g)
    BY <2>2 DEF Ready, n
  <2>16. /\ Ready(b, Range1(p[1], p[2], c), g) /\ Partition(b, Range1(p[1], p[2], c))
         /\ Range1(p[1], p[2], c).pc # "idle"
    BY <1>2, <2>5, <2>13, <2>14, <2>15, RangeBegins DEF n
  <2> QED
    BY <2>1, <2>16 DEF Kept
<1> QED
  BY <1>5, <1>6, <1>7

LEMMA LastRange ==
  ASSUME NEW c \in Seq(Range2), c # <<>>
  PROVE  /\ Last(c)[1] \in Int /\ Last(c)[2] \in Int /\ Front(c) \in Seq(Range2)
         /\ c = Append(Front(c), <<Last(c)[1], Last(c)[2]>>)
<1>1. Len(c) \in Nat \ {0} /\ Front(c) = SubSeq(c, 1, Len(c) - 1) /\ Last(c) = c[Len(c)]
  BY DEF Front, Last
<1>2. Last(c) \in Range2
  BY <1>1
<1>3. Last(c)[1] \in Int /\ Last(c)[2] \in Int /\ <<Last(c)[1], Last(c)[2]>> = Last(c)
  BY <1>2 DEF Range2
<1>4. Front(c) \in Seq(Range2) /\ Len(Front(c)) = Len(c) - 1
  <2>1. 1 \in Int /\ Len(c) - 1 \in Int /\ \A k \in 1 .. Len(c) - 1 : c[k] \in Range2
    BY <1>1
  <2> DEFINE m == Len(c) - 1
  <2>2. SubSeq(c, 1, m) \in Seq(Range2)
    <3> HIDE DEF m
    <3> QED
      BY <2>1, SubSeqProperties DEF m
  <2>3. Len(SubSeq(c, 1, m)) = m
    <3>1. m \in Nat
      BY <1>1
    <3> HIDE DEF m
    <3>2. Len(SubSeq(c, 1, m)) = IF 1 <= m THEN m - 1 + 1 ELSE 0
      BY <2>1, SubSeqProperties DEF m
    <3> QED
      BY <3>1, <3>2
  <2> QED
    BY <1>1, <2>2, <2>3
<1>5. c = Append(Front(c), Last(c))
  <2> DEFINE d == Append(Front(c), Last(c))
  <2>1. d \in Seq(Range2) /\ Len(d) = Len(c)
    BY <1>1, <1>2, <1>4
  <2>2. ASSUME NEW k \in 1 .. Len(c) PROVE d[k] = c[k]
    <3>1. CASE k = Len(c)
      BY <1>1, <1>2, <1>4, <3>1
    <3>2. CASE k \in 1 .. Len(c) - 1
      <4>1. d[k] = Front(c)[k]
        BY <1>1, <1>2, <1>4, <3>2
      <4>2. Front(c)[k] = c[k]
        BY <1>1, <3>2
      <4> QED
        BY <4>1, <4>2
    <3> QED
      BY <1>1, <3>1, <3>2
  <2> QED
    BY <2>1, <2>2, SeqEqual
<1> QED
  BY <1>3, <1>4, <1>5

(* The last of the ranges left comes next, or the sort ends in order.      *)
LEMMA NextKeeps ==
  ASSUME Parameters, NEW g, Ready(t, sort, g), SortNext, result = SORTING
  PROVE  sort' \in Sort /\ Sorts(t', sort', result', g)
<1> DEFINE c == sort.calls
           n == Len(g)
<1>1. sort.pc = "next" /\ t' = t
  BY DEF SortNext
<1>2. /\ sort \in Sort /\ g \in Seq(Val) /\ Filled(t, n) /\ Permutes(t, g)
      /\ c \in Seq(Range2) /\ Apart(c, n) /\ Disorder(t, c, n)
  BY <1>1, SortOf DEF Ready, Left, Ranging
<1>3. CASE c = <<>>
  <2>1. sort' = [sort EXCEPT !.pc = "idle"] /\ result' = SORTED
    BY <1>3 DEF SortNext, Goes
  <2>2. sort' \in Sort /\ sort'.pc = "idle"
    BY <1>2, <2>1 DEF Sort
  <2>3. Left(sort') = <<>> /\ Partition(t, sort')
    BY <2>2 DEF Left, Ranging, Partition
  <2>4. Apart(<<>>, n) /\ Disorder(t, <<>>, n)
    BY <1>2, <1>3
  <2> QED
    BY <1>1, <1>2, <2>1, <2>2, <2>3, <2>4 DEF Sorts
<1>4. CASE c # <<>>
  <2> DEFINE l == Last(c)[1]
             u == Last(c)[2]
  <2>1. sort' = Range1(l, u, Front(c)) /\ result' = SORTING
    BY <1>4 DEF SortNext
  <2>2. l \in Int /\ u \in Int /\ Front(c) \in Seq(Range2) /\ c = Append(Front(c), <<l, u>>)
    BY <1>2, <1>4, LastRange
  <2> HIDE DEF l, u, c
  <2>3. Apart(Append(Front(c), <<l, u>>), n) /\ Disorder(t, Append(Front(c), <<l, u>>), n)
    BY <1>2, <2>2
  <2>4. Ready(t, sort', g) /\ Partition(t, sort') /\ sort'.pc # "idle"
    BY <1>2, <2>1, <2>2, <2>3, RangeBegins
  <2>5. Sorts(t, sort', SORTING, g)
    BY <2>4, ReadySorts
  <2> QED
    BY <1>1, <2>1, <2>4, <2>5 DEF Ready
<1> QED
  BY <1>3, <1>4

(* The order function raises an error: the elements stay where they are.   *)
LEMMA ErrorKeeps ==
  ASSUME Parameters, NEW g, Ready(t, sort, g), SortError
  PROVE  sort' \in Sort /\ Sorts(t', sort', result', g)
<1>1. t' = t /\ result' = ERROR /\ sort' = [sort EXCEPT !.pc = "idle", !.calls = <<>>]
  BY DEF SortError
<1>2. sort' \in Sort /\ sort'.pc = "idle"
  <2>1. sort \in Sort /\ <<>> \in Seq(Int \X Int)
    BY DEF Ready
  <2> QED
    BY <1>1, <2>1 DEF Sort
<1>3. Left(sort') = <<>> /\ Partition(t, sort')
  BY <1>2 DEF Left, Ranging, Partition
<1>4. Apart(<<>>, Len(g))
  BY DEF Apart
<1> QED
  BY <1>1, <1>2, <1>3, <1>4 DEF Ready, Sorts

(* auxsort begins with the whole sequence.                                 *)
LEMMA SortBegins ==
  ASSUME Parameters, NEW n, Filled(t, n), sort \in Sort, table_sort
  PROVE  sort' \in Sort /\ Sorts(t', sort', result', Elements(t)) /\ last'.name = "sort"
                        /\ last'.given = Elements(t)
<1> DEFINE g == Elements(t)
<1>1. /\ g \in Seq(Val) /\ Len(g) = n /\ getn(t) = n /\ n \in Nat
      /\ \A k \in 1 .. n : g[k] = t[k]
  BY ElementsOf, GetnOf, ValuesOf
<1>2. sort' = Range1(1, n, <<>>) /\ result' = SORTING /\ t' = t
      /\ last' = [name |-> "sort", args |-> <<>>, given |-> g]
  BY <1>1 DEF table_sort, Called
<1> HIDE DEF g
<1>3. Permutes(t, g)
  <2> DEFINE f == [k \in 1 .. n |-> k]
  <2>1. f \in [1 .. n -> 1 .. n]
    OBVIOUS
  <2>2. f \in Bijection(1 .. n, 1 .. n)
    <3>1. \A k, m \in 1 .. n : f[k] = f[m] => k = m
      OBVIOUS
    <3>2. \A m \in 1 .. n : \E k \in 1 .. n : f[k] = m
      OBVIOUS
    <3> QED
      BY <2>1, <3>1, <3>2, Fun_IsBij
  <2>3. \A k \in 1 .. n : t[k] = g[f[k]]
    BY <1>1
  <2> QED
    BY <1>1, <2>2, <2>3 DEF Permutes
<1>4. <<>> \in Seq(Range2) /\ Append(<<>>, <<1, n>>) = <<<<1, n>>>>
  OBVIOUS
<1> DEFINE whole == <<<<1, n>>>>
<1>5. DOMAIN whole = {1} /\ whole[1] = <<1, n>>
  OBVIOUS
<1>6. Apart(whole, n)
  BY <1>1, <1>5 DEF Apart
<1>7. Disorder(t, whole, n)
  BY <1>1, <1>5 DEF Disorder, In
<1> HIDE DEF whole
<1>8. Ready(t, sort', g) /\ Partition(t, sort') /\ sort'.pc # "idle"
  <2>1. Append(<<>>, <<1, n>>) = whole
    BY <1>4 DEF whole
  <2>2. Apart(Append(<<>>, <<1, n>>), Len(g)) /\ Disorder(t, Append(<<>>, <<1, n>>), Len(g))
    BY <1>1, <1>6, <1>7, <2>1
  <2> QED
    <3>1. 1 \in Int /\ n \in Int /\ Filled(t, Len(g))
      BY <1>1
    <3>2. Ready(t, Range1(1, n, <<>>), g) /\ Partition(t, Range1(1, n, <<>>))
          /\ Range1(1, n, <<>>).pc # "idle"
      BY <1>1, <1>3, <1>4, <2>2, <3>1, RangeBegins
    <3> QED
      BY <1>2, <3>2
<1>9. Sorts(t, sort', SORTING, g)
  BY <1>8, ReadySorts
<1> QED
  BY <1>2, <1>8, <1>9 DEF g, Ready

-----------------------------------------------------------------------------
(* Part 8: the invariant holds, and what follows from it.                  *)

LEMMA KeptSorts ==
  ASSUME NEW g, Kept(g), result' = SORTING
  PROVE  sort' \in Sort /\ Sorts(t', sort', result', g)
<1>1. Ready(t', sort', g) /\ Partition(t', sort') /\ sort'.pc # "idle"
  BY DEF Kept
<1>2. Sorts(t', sort', SORTING, g)
  BY <1>1, ReadySorts
<1> QED
  BY <1>1, <1>2 DEF Ready

SortStep == SortEnds \/ SortMiddle \/ SortUpper \/ SortUp \/ SortDown \/ SortNext \/ SortError

LEMMA SortStepKeeps ==
  ASSUME Parameters, NEW g, sort \in Sort, Sorts(t, sort, result, g), SortStep
  PROVE  sort' \in Sort /\ Sorts(t', sort', result', g)
<1>1. sort.pc # "idle"
  BY DEF SortStep, SortEnds, SortMiddle, SortUpper, SortUp, SortDown, SortNext, SortError
<1>2. Ready(t, sort, g) /\ result = SORTING /\ Partition(t, sort)
  BY <1>1, SortsReady DEF Sorts
<1>3. CASE SortEnds
  <2>1. Kept(g)
    BY <1>2, <1>3, EndsKeeps
  <2> QED
    BY <1>2, <1>3, <2>1, KeptSorts DEF SortEnds
<1>4. CASE SortMiddle
  <2>1. Kept(g)
    BY <1>2, <1>4, MiddleKeeps
  <2> QED
    BY <1>2, <1>4, <2>1, KeptSorts DEF SortMiddle
<1>5. CASE SortUpper
  <2>1. Kept(g)
    BY <1>2, <1>5, UpperKeeps
  <2> QED
    BY <1>2, <1>5, <2>1, KeptSorts DEF SortUpper
<1>6. CASE SortUp
  <2>1. Kept(g) /\ result' = SORTING
    BY <1>2, <1>6, UpKeeps
  <2> QED
    BY <2>1, KeptSorts
<1>7. CASE SortDown
  <2>1. Kept(g) /\ result' = SORTING
    BY <1>2, <1>7, DownKeeps
  <2> QED
    BY <2>1, KeptSorts
<1>8. CASE SortNext
  BY <1>2, <1>8, NextKeeps
<1>9. CASE SortError
  BY <1>2, <1>9, ErrorKeeps
<1> QED
  BY <1>3, <1>4, <1>5, <1>6, <1>7, <1>8, <1>9 DEF SortStep

LEMMA InitInv == ASSUME Parameters, Init PROVE Inv
<1>1. PICK n \in 0 .. MaxLength : \E s \in [1 .. n -> Val] : t = TableOf(s)
  BY DEF Init
<1>2. PICK s \in [1 .. n -> Val] : t = TableOf(s)
  BY <1>1
<1>3. /\ last = [name |-> "none", args |-> <<>>, given |-> <<>>] /\ result = <<>>
      /\ sort = [pc |-> "idle", l |-> 1, u |-> 0, i |-> 0, j |-> 0, P |-> nil, calls |-> <<>>]
  BY DEF Init
<1>4. n \in Nat /\ 1 .. n \subseteq Index /\ Val \subseteq Nat \ {0}
  BY DEF Parameters, Index
<1>5. t = [k \in Index |-> IF k \in 1 .. n THEN s[k] ELSE nil]
  BY <1>2 DEF TableOf
<1>6. \A k \in 1 .. n : s[k] \in Val /\ s[k] # nil
  BY <1>4 DEF nil
<1>7. Filled(t, n)
  <2>1. t \in [Index -> Val \cup {nil}]
    BY <1>5, <1>6
  <2>2. \A k \in Index : t[k] = nil <=> k \notin 1 .. n
    BY <1>5, <1>6
  <2> QED
    BY <2>1, <2>2 DEF Filled
<1>8. Uncalled
  BY <1>3, <1>7 DEF Uncalled, Idle
<1>9. sort \in Sort
  <2>1. <<>> \in Seq(Int \X Int)
    OBVIOUS
  <2> QED
    BY <1>3, <2>1 DEF Sort, nil
<1> QED
  BY <1>3, <1>8, <1>9 DEF Inv

(* Which of the two the first call is.                                     *)
LEMMA EditStep ==
  ASSUME Parameters, Inv, Edit
  PROVE  Inv'
<1>1. Uncalled /\ MayCall /\ sort' = sort
  BY DEF Edit, MayCall, Inv
<1>2. PICK n \in 0 .. MaxLength : Filled(t, n)
  BY <1>1 DEF Uncalled
<1>3. Idle /\ UNCHANGED sort
  BY <1>1 DEF MayCall
<1>4. CASE \E pos \in 1 .. MaxLength + 1, v \in Val : getn(t) < MaxLength /\ table_insert(pos, v)
  <2>1. PICK pos \in 1 .. MaxLength + 1, v \in Val : getn(t) < MaxLength /\ table_insert(pos, v)
    BY <1>4
  <2>2. Edited'
    <3>1. n < MaxLength
      BY <1>2, <2>1, GetnOf
    <3> QED
      BY <1>2, <1>3, <2>1, <3>1, InsertEdits
  <2>3. last'.name = "insert"
    BY <2>1 DEF table_insert, Called
  <2> QED
    BY <1>1, <2>2, <2>3 DEF Inv
<1>5. CASE \E pos \in 0 .. MaxLength + 1 : table_remove(pos)
  <2>1. PICK pos \in 0 .. MaxLength + 1 : table_remove(pos)
    BY <1>5
  <2>2. Edited'
    BY <1>2, <1>3, <2>1, RemoveEdits
  <2>3. last'.name = "remove"
    BY <2>1 DEF table_remove, Called
  <2> QED
    BY <1>1, <2>2, <2>3 DEF Inv
<1>6. CASE \E index \in Positions, count \in Counts : table_removemulti(index, count)
  <2>1. PICK index \in Positions, count \in Counts : table_removemulti(index, count)
    BY <1>6
  <2>4. index \in Nat /\ count \in Int
    BY DEF Positions, Counts, Parameters
  <2>2. Edited'
    BY <1>2, <1>3, <2>1, <2>4, RemoveMultiEdits
  <2>3. last'.name = "removemulti"
    BY <2>1 DEF table_removemulti, Called
  <2> QED
    BY <1>1, <2>2, <2>3 DEF Inv
<1>7. CASE table_wipe
  <2>1. Edited'
    BY <1>2, <1>3, <1>7, OtherEdits
  <2>2. last'.name = "wipe"
    BY <1>7 DEF table_wipe, Called
  <2> QED
    BY <1>1, <2>1, <2>2 DEF Inv
<1>8. CASE \E i \in 1 .. MaxLength, j \in 0 .. MaxLength : table_concat(i, j)
  <2>1. PICK i \in 1 .. MaxLength, j \in 0 .. MaxLength : table_concat(i, j)
    BY <1>8
  <2>2. Edited'
    BY <1>2, <1>3, <2>1, OtherEdits
  <2>3. last'.name = "concat"
    BY <2>1 DEF table_concat, Called
  <2> QED
    BY <1>1, <2>2, <2>3 DEF Inv
<1> QED
  BY <1>4, <1>5, <1>6, <1>7, <1>8 DEF Edit

LEMMA NextInv ==
  ASSUME Parameters, Inv, [Next]_vars
  PROVE  Inv'
<1>1. CASE Edit
  BY <1>1, EditStep
<1>2. CASE table_sort
  <2>1. Uncalled
    BY <1>2 DEF table_sort, MayCall, Inv
  <2>2. PICK n \in 0 .. MaxLength : Filled(t, n)
    BY <2>1 DEF Uncalled
  <2>3. sort' \in Sort /\ Sorts(t', sort', result', Elements(t)) /\ last'.name = "sort"
                       /\ last'.given = Elements(t)
    BY <1>2, <2>2, SortBegins DEF Inv
  <2> QED
    BY <2>3 DEF Inv
<1>3. CASE SortStep
  <2>1. sort.pc # "idle" /\ last' = last
    BY <1>3 DEF SortStep, SortEnds, SortMiddle, SortUpper, SortUp, SortDown, SortNext, SortError
  <2>2. last.name = "sort"
    BY <2>1 DEF Inv, Uncalled, Edited, Idle
  <2>3. sort \in Sort /\ Sorts(t, sort, result, last.given)
    BY <2>2 DEF Inv
  <2>4. sort' \in Sort /\ Sorts(t', sort', result', last.given)
    BY <1>3, <2>3, SortStepKeeps
  <2> QED
    BY <2>1, <2>2, <2>4 DEF Inv
<1>4. CASE UNCHANGED vars
  <2>1. t' = t /\ last' = last /\ result' = result /\ sort' = sort
    BY <1>4 DEF vars
  <2>2. Uncalled' = Uncalled
    BY <2>1 DEF Uncalled, Idle
  <2>3. Edited' = Edited
    BY <2>1 DEF Edited, Idle, EditsKeepOrder
  <2> QED
    BY <2>1, <2>2, <2>3 DEF Inv
<1> QED
  BY <1>1, <1>2, <1>3, <1>4 DEF Next, SortStep

(* The state of the library is what its calls promise, at every step of    *)
(* table_insert, table_remove, table_removemulti and auxsort.              *)
THEOREM TableIsKept == Parameters => (Spec => []Inv)
<1> SUFFICES ASSUME Parameters PROVE Spec => []Inv
  OBVIOUS
<1>1. Init => Inv
  BY InitInv
<1>2. Inv /\ [Next]_vars => Inv'
  BY NextInv
<1> QED
  BY <1>1, <1>2, PTL DEF Spec

(* insert, remove and removemulti move every other element by the right    *)
(* distance and return what was removed (ltablib.c: table_insert,          *)
(* table_remove, table_removemulti).  removemulti does so for every        *)
(* position and count whose sum less one fits an int, as long as the       *)
(* elements fit the stack a C function is sure to have; beyond that C      *)
(* leaves open whether it does, raises its error or is undefined (lines    *)
(* 291, 302), and this says what it has done if it comes to a result.      *)
THEOREM EditsAreExact == Parameters => (Spec => []EditsKeepOrder)
<1> SUFFICES ASSUME Parameters PROVE Spec => []EditsKeepOrder
  OBVIOUS
<1>1. ASSUME Inv PROVE EditsKeepOrder
  <2>1. CASE last.name \in {"none", "sort"}
    BY <2>1 DEF EditsKeepOrder
  <2>2. CASE last.name \notin {"none", "sort"}
    BY <1>1, <2>2 DEF Inv, Edited
  <2> QED
    BY <2>1, <2>2
<1> QED
  BY <1>1, TableIsKept, PTL

LEMMA AsManyOf ==
  ASSUME Parameters, NEW a, NEW g \in Seq(Val), Filled(a, Len(g)), Permutes(a, g), NEW v \in Val
  PROVE  Cardinality({k \in Index : a[k] = v}) = Cardinality({k \in DOMAIN g : g[k] = v})
<1> DEFINE n == Len(g)
           N == 1 .. n
           A == {k \in Index : a[k] = v}
           B == {k \in DOMAIN g : g[k] = v}
<1>1. PICK f \in Bijection(N, N) : \A k \in N : a[k] = g[f[k]]
  BY DEF Permutes
<1>2. /\ f \in [N -> N] /\ \A k, m \in N : f[k] = f[m] => k = m
      /\ \A m \in N : \E k \in N : f[k] = m
  BY DEF Bijection, Injection, Surjection, IsInjective
<1>3. n \in Nat /\ N \subseteq Index /\ DOMAIN g = N
  BY ValuesOf
<1>4. A = {k \in N : a[k] = v}
  <2>1. v # nil
    BY DEF Parameters, nil
  <2> QED
    BY <1>3, <2>1 DEF Filled
<1>5. B = {k \in N : g[k] = v}
  BY <1>3
<1>6. A \subseteq N /\ IsFiniteSet(A)
  <2>1. IsFiniteSet(N) /\ A \subseteq N
    BY <1>3, <1>4, FS_Interval
  <2> QED
    BY <2>1, FS_Subset
<1> HIDE DEF A, B, N
<1> DEFINE h == [k \in A |-> f[k]]
<1>7. h \in Bijection(A, B)
  <2>1. h \in [A -> B]
    BY <1>1, <1>2, <1>4, <1>5
  <2>2. \A k, m \in A : h[k] = h[m] => k = m
    BY <1>2, <1>6
  <2>3. \A m \in B : \E k \in A : h[k] = m
    <3> TAKE m \in B
    <3>1. m \in N /\ g[m] = v
      BY <1>5
    <3>2. PICK k \in N : f[k] = m
      BY <1>2, <3>1
    <3>3. k \in A
      BY <1>1, <1>4, <3>1, <3>2
    <3> QED
      BY <3>2, <3>3
  <2> QED
    BY <2>1, <2>2, <2>3, Fun_IsBij
<1>8. ExistsBijection(A, B)
  BY <1>7 DEF ExistsBijection
<1>9. Cardinality(B) = Cardinality(A)
  BY <1>6, <1>8, FS_Bijection
<1> QED
  BY <1>9 DEF A, B

(* Wherever the order function is called, and raises an error, the table   *)
(* holds every element it was given as often as it was given (set2 writes  *)
(* both elements before the next comparison; ltablib.c: auxsort, set2).    *)
THEOREM SortLosesNothing == Parameters => (Spec => []SortKeepsElements)
<1> SUFFICES ASSUME Parameters PROVE Spec => []SortKeepsElements
  OBVIOUS
<1>1. ASSUME Inv PROVE SortKeepsElements
  <2> SUFFICES ASSUME last.name = "sort"
               PROVE  /\ IsSequence(t) /\ getn(t) = Len(last.given)
                      /\ \A v \in Val : Cardinality({k \in Index : t[k] = v})
                             = Cardinality({k \in DOMAIN last.given : last.given[k] = v})
    BY DEF SortKeepsElements
  <2> DEFINE g == last.given
  <2>1. g \in Seq(Val) /\ Filled(t, Len(g)) /\ Permutes(t, g)
    BY <1>1 DEF Inv, Sorts
  <2>2. IsSequence(t) /\ getn(t) = Len(g)
    BY <2>1, GetnOf
  <2>3. ASSUME NEW v \in Val
        PROVE  Cardinality({k \in Index : t[k] = v}) = Cardinality({k \in DOMAIN g : g[k] = v})
    BY <2>1, AsManyOf
  <2> QED
    BY <2>2, <2>3
<1> QED
  BY <1>1, TableIsKept, PTL

(* A sort that ends leaves the elements in order, and "invalid order       *)
(* function" is never raised for an order that is one: neither loop runs   *)
(* past the range (ltablib.c: auxsort).                                    *)
THEOREM SortIsCorrect == Parameters => (Spec => []SortSorts)
<1> SUFFICES ASSUME Parameters PROVE Spec => []SortSorts
  OBVIOUS
<1>1. ASSUME Inv PROVE SortSorts
  <2>1. CASE last.name = "none"
    <3>1. result = <<>>
      BY <1>1, <2>1 DEF Inv, Uncalled
    <3>2. result # INVALID /\ result # SORTED
      BY <3>1 DEF INVALID, SORTED
    <3> QED
      BY <3>2 DEF SortSorts
  <2>2. CASE last.name \notin {"none", "sort"}
    BY <1>1, <2>2 DEF Inv, Edited, SortSorts
  <2>3. CASE last.name = "sort"
    <3> DEFINE g == last.given
               n == Len(g)
    <3>1. Sorts(t, sort, result, g)
      BY <1>1, <2>3 DEF Inv
    <3>2. result \in IF sort.pc = "idle" THEN {SORTED, ERROR} ELSE {SORTING}
      BY <3>1 DEF Sorts
    <3>3. result # INVALID
      BY <3>2, ResultsDiffer
    <3>4. ASSUME result = SORTED, NEW k \in 1 .. getn(t) - 1
          PROVE  t[k] <= t[k + 1]
      <4>1. sort.pc = "idle" /\ result # ERROR
        BY <3>2, <3>4, ResultsDiffer
      <4>2. Left(sort) = <<>>
        BY <4>1 DEF Left, Ranging
      <4>3. Filled(t, n) /\ Disorder(t, <<>>, n)
        BY <3>1, <4>1, <4>2 DEF Sorts
      <4>4. getn(t) = n /\ n \in Nat
        BY <4>3, GetnOf, ValuesOf
      <4> HIDE DEF n
      <4>5. k \in 1 .. n /\ k + 1 \in 1 .. n /\ k < k + 1
        BY <4>4
      <4>6. ~ (t[k] > t[k + 1])
        BY <4>3, <4>5 DEF Disorder
      <4>7. t[k] \in Nat /\ t[k + 1] \in Nat
        BY <4>3, <4>5, ValuesOf
      <4> QED
        BY <4>6, <4>7
    <3> QED
      BY <3>3, <3>4 DEF SortSorts
  <2> QED
    BY <2>1, <2>2, <2>3
<1> QED
  BY <1>1, TableIsKept, PTL
=============================================================================
