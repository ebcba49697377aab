--------------------------- MODULE References_proofs ---------------------------
(***************************************************************************)
(* Theorems about References, for any values and any number of references. *)
(***************************************************************************)
EXTENDS References, TLAPS

(* What the theorems assume of the constants: nil is not a number.         *)
Parameters == MaxRef \in Nat /\ Nil \notin Int

-----------------------------------------------------------------------------
(* Part 1: the invariant.                                                  *)
Cells == 0 .. MaxRef + 1

(* c lists the cells of the free list, from its head in cell 0; where it   *)
(* ends the link is no number, or nothing at all.                          *)
Lists(c, n) ==
  /\ c \in [1 .. n -> 0 .. MaxRef] /\ c[1] = FREELIST_REF
  /\ \A i, j \in 1 .. n : c[i] = c[j] => i = j
  /\ \A i \in 1 .. n : Link(t[c[i]]) = IF i = n THEN 0 ELSE c[i + 1]
  /\ \A i \in 1 .. n : \A r \in refs : r.ref # c[i]

FreeList == \E n \in Nat \ {0} : \E c : Lists(c, n)

(* A reference that was given points at its value, which is not nil.       *)
Given == \A r \in refs : IF r.ref = LUA_REFNIL THEN r.value = Nil
                         ELSE r.value # Nil /\ t[r.ref] = r.value

Inv == TypeOK /\ Given /\ FreeList

-----------------------------------------------------------------------------
(* Part 2: the operations.                                                 *)
LEMMA InitInv == Parameters /\ Init => Inv
<1> SUFFICES ASSUME Parameters, Init PROVE Inv
  OBVIOUS
<1> DEFINE c == [i \in 1 .. 1 |-> 0]
<1>1. TypeOK /\ Given
  BY DEF Init, TypeOK, Given
<1>2. Lists(c, 1)
  <2>1. c \in [1 .. 1 -> 0 .. MaxRef] /\ \A i \in 1 .. 1 : i = 1 /\ c[i] = 0
    BY DEF Parameters
  <2>2. t[0] = Nil /\ refs = {} /\ Link(Nil) = 0
    BY DEF Init, Parameters, Link
  <2> HIDE DEF c
  <2> QED
    BY <2>1, <2>2 DEF Lists, FREELIST_REF
<1> QED
  BY <1>1, <1>2 DEF Inv, FreeList

(* One reference cannot have been given twice.                             *)
LEMMA OneOfARef ==
  ASSUME Inv, NEW r1 \in refs, NEW r2 \in refs, r1.ref = r2.ref
  PROVE  r1 = r2
<1>1. r1.value = r2.value
  BY DEF Inv, Given
<1> QED
  BY <1>1 DEF Inv, TypeOK

LEMMA RefNilInv ==
  ASSUME Parameters, Inv, UNCHANGED t,
         refs' = refs \cup {[ref |-> LUA_REFNIL, value |-> Nil]}
  PROVE  Inv'
<1>1. TypeOK' /\ Given'
  BY DEF Inv, TypeOK, Given
<1>2. PICK n \in Nat \ {0} : \E c : Lists(c, n)
  BY DEF Inv, FreeList
<1>3. PICK c : Lists(c, n)
  BY <1>2
<1>4. Lists(c, n)'
  BY <1>3 DEF Lists, LUA_REFNIL, Link, Parameters
<1> QED
  BY <1>1, <1>4 DEF Inv, FreeList

(* The first free cell leaves the list.                                    *)
LEMMA RefFreeInv ==
  ASSUME Parameters, Inv, NEW v \in Value, v # Nil, NEW free, free = Link(t[FREELIST_REF]), free # 0,
         t' = [t EXCEPT ![FREELIST_REF] = t[free], ![free] = v],
         refs' = refs \cup {[ref |-> free, value |-> v]}
  PROVE  Inv'
<1>1. PICK n \in Nat \ {0} : \E c : Lists(c, n)
  BY DEF Inv, FreeList
<1>2. PICK c : Lists(c, n)
  BY <1>1
<1>3. n > 1 /\ c[2] = free /\ free \in 1 .. MaxRef
  BY <1>2 DEF Lists, FREELIST_REF, Parameters
<1>4. /\ t \in [Cells -> Value \cup {Nil}] /\ 0 \in Cells /\ free \in Cells
      /\ t' \in [Cells -> Value \cup {Nil}] /\ t'[0] = t[free] /\ t'[free] = v
      /\ \A k \in Cells : k # 0 /\ k # free => t'[k] = t[k]
  BY <1>3 DEF Inv, TypeOK, Cells, FREELIST_REF, Parameters
<1>5. \A r \in refs : r.ref # free /\ r.ref # 0
  BY <1>2, <1>3 DEF Lists, FREELIST_REF
<1>6. TypeOK'
  BY <1>3, <1>4 DEF Inv, TypeOK, Cells
<1>7. Given'
  <2>1. \A r \in refs : r.ref = LUA_REFNIL \/ (r.ref \in Cells /\ t'[r.ref] = t[r.ref])
    BY <1>4, <1>5 DEF Inv, TypeOK, Cells, Parameters
  <2>2. free # LUA_REFNIL
    BY <1>3 DEF LUA_REFNIL
  <2> QED
    BY <1>4, <2>1, <2>2 DEF Inv, Given
<1> DEFINE d == [i \in 1 .. n - 1 |-> IF i = 1 THEN 0 ELSE c[i + 1]]
<1>8. Lists(d, n - 1)'
  <2>1. d \in [1 .. n - 1 -> 0 .. MaxRef] /\ d[1] = FREELIST_REF
    BY <1>2, <1>3 DEF Lists, FREELIST_REF, Parameters
  <2>2. \A i \in 2 .. n - 1 : d[i] = c[i + 1] /\ i + 1 \in 1 .. n /\ d[i] # 0 /\ d[i] # free
                             /\ d[i] \in Cells
    <3> SUFFICES ASSUME NEW i \in 2 .. n - 1
                 PROVE  /\ d[i] = c[i + 1] /\ i + 1 \in 1 .. n /\ d[i] # 0 /\ d[i] # free
                        /\ d[i] \in Cells
      OBVIOUS
    <3>1. d[i] = c[i + 1] /\ i + 1 \in 1 .. n /\ i + 1 # 1 /\ i + 1 # 2 /\ 1 \in 1 .. n /\ 2 \in 1 .. n
      OBVIOUS
    <3>2. c[i + 1] # c[1] /\ c[i + 1] # c[2] /\ c[i + 1] \in 0 .. MaxRef /\ c[1] = 0
      BY <1>2, <3>1 DEF Lists, FREELIST_REF
    <3> QED
      BY <1>3, <3>1, <3>2 DEF Cells, Parameters
  <2>3. d[1] = 0 /\ 1 \in 1 .. n - 1
    BY <1>3
  <2> HIDE DEF d
  <2>4. \A i, j \in 1 .. n - 1 : d[i] = d[j] => i = j
    <3> SUFFICES ASSUME NEW i \in 1 .. n - 1, NEW j \in 1 .. n - 1, d[i] = d[j] PROVE i = j
      OBVIOUS
    <3>1. CASE i = 1 \/ j = 1
      BY <2>2, <2>3, <3>1
    <3>2. CASE i # 1 /\ j # 1
      <4>1. c[i + 1] = c[j + 1] /\ i + 1 \in 1 .. n /\ j + 1 \in 1 .. n
        BY <2>2, <3>2
      <4>2. i + 1 = j + 1
        BY <1>2, <4>1 DEF Lists
      <4> QED
        BY <4>2
    <3> QED
      BY <3>1, <3>2
  <2>5. \A i \in 1 .. n - 1 : Link(t'[d[i]]) = IF i = n - 1 THEN 0 ELSE d[i + 1]
    <3> SUFFICES ASSUME NEW i \in 1 .. n - 1
                 PROVE  Link(t'[d[i]]) = IF i = n - 1 THEN 0 ELSE d[i + 1]
      OBVIOUS
    <3>1. Link(t[c[i + 1]]) = IF i + 1 = n THEN 0 ELSE c[i + 2]
      <4>1. i + 1 \in 1 .. n /\ (i + 1) + 1 = i + 2
        OBVIOUS
      <4>2. \A j \in 1 .. n : Link(t[c[j]]) = IF j = n THEN 0 ELSE c[j + 1]
        BY <1>2 DEF Lists
      <4> HIDE DEF Link
      <4> QED
        BY <4>1, <4>2
    <3>2. t'[d[i]] = t[c[i + 1]]
      <4>1. CASE i = 1
        <5>1. d[i] = 0 /\ c[i + 1] = free
          BY <1>3, <2>3, <4>1
        <5> QED
          BY <1>4, <5>1
      <4>2. CASE i # 1
        <5>1. i \in 2 .. n - 1
          BY <4>2
        <5>2. d[i] \in Cells /\ d[i] # 0 /\ d[i] # free /\ d[i] = c[i + 1]
          BY <2>2, <5>1
        <5> QED
          BY <1>4, <5>2
      <4> QED
        BY <4>1, <4>2
    <3>3. i # n - 1 => d[i + 1] = c[i + 2]
      BY <2>2
    <3> QED
      BY <3>1, <3>2, <3>3
  <2>6. \A i \in 1 .. n - 1 : \A r \in refs' : r.ref # d[i]
    BY <1>2, <1>3, <1>5, <2>2, <2>3 DEF Lists
  <2> QED
    BY <2>1, <2>4, <2>5, <2>6 DEF Lists, Link
<1>9. n - 1 \in Nat \ {0}
  BY <1>3
<1> QED
  BY <1>6, <1>7, <1>8, <1>9 DEF Inv, FreeList

(* With the list empty, a cell that is nil is neither free nor given.      *)
LEMMA RefNewInv ==
  ASSUME Parameters, Inv, NEW v \in Value, v # Nil, Link(t[FREELIST_REF]) = 0,
         NEW k \in 1 .. MaxRef, t[k] = Nil, t' = [t EXCEPT ![k] = v],
         refs' = refs \cup {[ref |-> k, value |-> v]}
  PROVE  Inv'
<1>1. PICK n \in Nat \ {0} : \E c : Lists(c, n)
  BY DEF Inv, FreeList
<1>2. PICK c : Lists(c, n)
  BY <1>1
<1>3. n = 1
  <2> SUFFICES ASSUME n # 1 PROVE FALSE
    OBVIOUS
  <2>1. 1 \in 1 .. n /\ 2 \in 1 .. n
    OBVIOUS
  <2>2. c[2] = c[1]
    BY <1>2, <2>1 DEF Lists, FREELIST_REF
  <2> QED
    BY <1>2, <2>1, <2>2 DEF Lists
<1>4. /\ k \in Cells /\ k # 0 /\ t' \in [Cells -> Value \cup {Nil}] /\ t'[k] = v
      /\ \A i \in Cells : i # k => t'[i] = t[i]
  BY DEF Inv, TypeOK, Cells, Parameters
<1>5. \A r \in refs : r.ref = LUA_REFNIL \/ (r.ref \in Cells /\ r.ref # k)
  BY DEF Inv, TypeOK, Given, Cells, Parameters
<1>6. TypeOK'
  BY <1>4 DEF Inv, TypeOK, Cells
<1>7. Given'
  <2>1. k # LUA_REFNIL
    BY DEF LUA_REFNIL
  <2> QED
    BY <1>4, <1>5, <2>1 DEF Inv, Given
<1>8. Lists(c, 1)'
  BY <1>2, <1>3, <1>4 DEF Lists, Link, FREELIST_REF, Cells, Parameters
<1> QED
  BY <1>6, <1>7, <1>8 DEF Inv, FreeList

(* A cell is put in front of the list.                                     *)
LEMMA UnrefInv ==
  ASSUME Parameters, Inv, NEW r \in refs, luaL_unref(r.ref), refs' = refs \ {r}
  PROVE  Inv'
<1>1. PICK n \in Nat \ {0} : \E c : Lists(c, n)
  BY DEF Inv, FreeList
<1>2. PICK c : Lists(c, n)
  BY <1>1
<1>3. CASE r.ref = LUA_REFNIL
  <2>1. UNCHANGED t
    BY <1>3 DEF luaL_unref, LUA_REFNIL
  <2>2. Lists(c, n)'
    BY <1>2, <2>1 DEF Lists, Link
  <2> QED
    BY <2>1, <2>2 DEF Inv, TypeOK, Given, FreeList
<1>4. CASE r.ref # LUA_REFNIL
  <2> DEFINE ref == r.ref
  <2>1. ref \in 1 .. MaxRef /\ t' = Freed(ref)
    BY <1>4 DEF Inv, TypeOK, luaL_unref, Parameters
  <2>2. /\ t \in [Cells -> Value \cup {Nil}] /\ 0 \in Cells /\ ref \in Cells
        /\ t' \in [Cells -> Value \cup {Nil}] /\ t'[0] = ref /\ t'[ref] = t[0]
        /\ \A k \in Cells : k # 0 /\ k # ref => t'[k] = t[k]
    BY <2>1 DEF Freed, Inv, TypeOK, Cells, FREELIST_REF, Value, Parameters
  <2>3. \A s \in refs' : s \in refs /\ s.ref # ref
    BY OneOfARef
  <2>4. \A s \in refs : s.ref # 0 /\ (s.ref = LUA_REFNIL \/ s.ref \in Cells)
    BY DEF Inv, TypeOK, Cells, LUA_REFNIL, Parameters
  <2>5. TypeOK'
    BY <2>2 DEF Inv, TypeOK, Cells
  <2>6. Given'
    BY <2>2, <2>3, <2>4 DEF Inv, Given
  <2> DEFINE d == [i \in 1 .. n + 1 |-> IF i = 1 THEN 0 ELSE IF i = 2 THEN ref ELSE c[i - 1]]
  <2>7. Lists(d, n + 1)'
    <3>1. d \in [1 .. n + 1 -> 0 .. MaxRef] /\ d[1] = FREELIST_REF
      BY <1>2, <2>1 DEF Lists, FREELIST_REF, Parameters
    <3>2. /\ d[1] = 0 /\ d[2] = ref /\ ref # 0 /\ c[1] = 0
          /\ \A i \in 3 .. n + 1 : /\ d[i] = c[i - 1] /\ i - 1 \in 2 .. n
                                   /\ d[i] \in Cells /\ d[i] # 0 /\ d[i] # ref
      BY <1>2, <2>1 DEF Lists, FREELIST_REF, Cells, Parameters
    <3> HIDE DEF d, ref
    <3>3. \A i, j \in 1 .. n + 1 : d[i] = d[j] => i = j
      <4> SUFFICES ASSUME NEW i \in 1 .. n + 1, NEW j \in 1 .. n + 1, d[i] = d[j] PROVE i = j
        OBVIOUS
      <4>1. CASE i < 3 \/ j < 3
        BY <3>2, <4>1
      <4>2. CASE i >= 3 /\ j >= 3
        <5>1. c[i - 1] = c[j - 1] /\ i - 1 \in 1 .. n /\ j - 1 \in 1 .. n
          BY <3>2, <4>2
        <5>2. i - 1 = j - 1
          BY <1>2, <5>1 DEF Lists
        <5> QED
          BY <5>2
      <4> QED
        BY <4>1, <4>2
    <3>4. \A i \in 1 .. n + 1 : Link(t'[d[i]]) = IF i = n + 1 THEN 0 ELSE d[i + 1]
      <4> SUFFICES ASSUME NEW i \in 1 .. n + 1
                   PROVE  Link(t'[d[i]]) = IF i = n + 1 THEN 0 ELSE d[i + 1]
        OBVIOUS
      <4>1. CASE i = 1
        BY <2>1, <2>2, <3>2, <4>1 DEF Link, ref
      <4>2. CASE i > 1
        <5>1. Link(t[c[i - 1]]) = IF i - 1 = n THEN 0 ELSE c[i]
          BY <1>2, <4>2 DEF Lists
        <5>2. t'[d[i]] = t[c[i - 1]]
          BY <2>2, <3>2, <4>2
        <5>3. i # n + 1 => d[i + 1] = c[i]
          BY <3>2, <4>2
        <5> QED
          BY <5>1, <5>2, <5>3
      <4> QED
        BY <4>1, <4>2
    <3>5. \A i \in 1 .. n + 1 : \A s \in refs' : s.ref # d[i]
      BY <1>2, <2>3, <2>4, <3>2 DEF Lists
    <3> QED
      BY <3>1, <3>3, <3>4, <3>5 DEF Lists, Link
  <2> QED
    BY <2>5, <2>6, <2>7 DEF Inv, FreeList
<1> QED
  BY <1>3, <1>4

-----------------------------------------------------------------------------
(* Part 3: the theorems.                                                   *)
LEMMA StepInv == Parameters /\ Inv /\ [Next]_vars => Inv'
<1> SUFFICES ASSUME Parameters, Inv, [Next]_vars PROVE Inv'
  OBVIOUS
<1>1. CASE UNCHANGED vars
  BY <1>1 DEF vars, Inv, TypeOK, Given, FreeList, Lists, Link
<1>2. ASSUME NEW v \in Value \cup {Nil}, luaL_ref(v) PROVE Inv'
  <2>1. CASE v = Nil
    BY <1>2, <2>1, RefNilInv DEF luaL_ref
  <2>2. CASE v # Nil /\ Link(t[FREELIST_REF]) # 0
    BY <1>2, <2>2, RefFreeInv DEF luaL_ref
  <2>3. CASE v # Nil /\ Link(t[FREELIST_REF]) = 0
    <3>1. PICK n \in Borders : /\ n < MaxRef /\ t' = [t EXCEPT ![n + 1] = v]
                               /\ refs' = refs \cup {[ref |-> n + 1, value |-> v]}
      BY <1>2, <2>3 DEF luaL_ref
    <3>2. n + 1 \in 1 .. MaxRef /\ t[n + 1] = Nil
      BY <3>1 DEF Borders, Parameters
    <3> QED
      BY <2>3, <3>1, <3>2, RefNewInv
  <2> QED
    BY <2>1, <2>2, <2>3
<1> QED
  BY <1>1, <1>2, UnrefInv DEF Next

(* The free references stay one list from cell 0 that ends and that no     *)
(* given reference is on (luaL_ref, luaL_unref).                           *)
THEOREM FreeListIsKept == Parameters => (Spec => []Inv)
<1> SUFFICES ASSUME Parameters PROVE Spec => []Inv
  OBVIOUS
<1> QED
  BY InitInv, StepInv, PTL DEF Spec

(* lua_getref gives back what luaL_ref was given until luaL_unref, in      *)
(* whatever order references are freed and used again, and whichever of    *)
(* its borders lua_objlen finds in a table with holes.                     *)
THEOREM ReferencesAreKept == Parameters => (Spec => []ReferencesKeepValues)
<1> SUFFICES ASSUME Parameters PROVE Spec => []ReferencesKeepValues
  OBVIOUS
<1>1. Inv => ReferencesKeepValues
  BY DEF Inv, Given, ReferencesKeepValues
<1> QED
  BY <1>1, FreeListIsKept, PTL
=============================================================================
