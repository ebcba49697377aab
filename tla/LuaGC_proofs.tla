---------------------------- MODULE LuaGC_proofs ----------------------------
(***************************************************************************)
(* Theorems about LuaGC, for any finite number of objects of every kind:   *)
(* types and the lists of gray objects (1, 2); nothing the program can get *)
(* at is freed, whatever the two interleave (3 to 7); every step is one of *)
(* HeapContract's, and what is cleared of the weak tables could not be     *)
(* reached (8 to 11).                                                      *)
(***************************************************************************)
EXTENDS LuaGC, FiniteSetTheorems, TLAPS

-----------------------------------------------------------------------------
(* What marking computes is white, whatever the graph is.                  *)
LEMMA ReachedWithin ==
  ASSUME NEW S, NEW W, NEW E
  PROVE  Reached(S, W, E) \subseteq W
  BY DEF Reached

LEMMA MarkedAreWhite ==
  ASSUME NEW S
  PROVE  MarkedWith(S) \subseteq White
  BY ReachedWithin DEF MarkedWith

LEMMA ColorsTyped ==
  ASSUME NEW o
  PROVE  /\ MarkColor(o) \in {"gray", "black"}
         /\ TraversedColor(o) \in {"gray", "black"}
  BY DEF MarkColor, TraversedColor

-----------------------------------------------------------------------------
(* Part 1: type correctness.                                               *)
LEMMA InitType == Init => TypeOK
  BY KindAssumption DEF Init, TypeOK, Obj, Linked

LEMMA CollectorType ==
  ASSUME TypeOK, Collector
  PROVE  TypeOK'
<1>1. CASE StartCycle
  BY <1>1, ColorsTyped DEF StartCycle, MarkRoot, TypeOK, data
<1>2. CASE Atomic
  <2> DEFINE marked == Survivors
             separated == Separated(marked)
             done == finalized \cup separated
             pending == tmudata \cup (separated \cap Finalizable)
             M == marked \cup Preserved(marked, pending)
             traversed == gray \cup weak \cup grayagain \cup M
             cleared == traversed \cap Weak
             strings == KeptStrings(cleared, M, done) \cap White
  <2>1. /\ color' = [o \in Obj |-> IF o \in traversed \cup strings THEN TraversedColor(o)
                                   ELSE color[o]]
        /\ node' = [t \in Table |-> IF t \in cleared THEN Kept(t, M, done) ELSE node[t]]
        /\ finalized' = done /\ done \subseteq finalized \cup Udata
        /\ pending \subseteq tmudata \cup Finalizable
        /\ tmudata' = pending
        /\ grayagain' = traversed \cap Thread
        /\ cleared \subseteq Weak /\ weak' = cleared
        /\ unswept' \subseteq Live
        /\ white' = other
        /\ phase' = "sweepstring"
        /\ UNCHANGED <<ref, slot, running, gray, full, called>>
    BY <1>2 DEF Atomic, Separated
  <2> HIDE DEF marked, separated, done, pending, M, traversed, cleared, strings
  <2>2. color' \in [Obj -> {"free", "w0", "w1", "gray", "black"}]
    BY <2>1, ColorsTyped DEF TypeOK
  <2>3. node' \in [Table -> SUBSET Entry]
    BY <2>1 DEF TypeOK, Kept
  <2> QED
    BY <2>1, <2>2, <2>3 DEF TypeOK, other, Live, Linked
<1>3. CASE EndSweep
  BY <1>3 DEF EndSweep, TypeOK, data, lists
<1>4. CASE EndCycle
  BY <1>4 DEF EndCycle, TypeOK, data, lists
<1>5. CASE FullMark
  BY <1>5, ColorsTyped DEF FullMark, MarkRoot, TypeOK, data
<1>6. ASSUME NEW o \in Obj, PropagateMark(o) PROVE TypeOK'
  BY <1>6, ColorsTyped DEF PropagateMark, TypeOK, data
<1>7. ASSUME NEW o \in Obj, Sweep(o) PROVE TypeOK'
  <2> DEFINE swept == {o} \cup (IF o \in Thread THEN Open(o) ELSE {})
             freed == {x \in swept : Dead(x)}
             closed == IF o \in freed /\ o \in Thread THEN Open(o) ELSE freed \cap Upval
  <2>1. /\ freed \subseteq swept /\ closed \subseteq Upval
        /\ color' = [x \in Obj |-> IF x \in freed THEN "free"
                                   ELSE IF x \in swept THEN white ELSE color[x]]
        /\ ref' = [x \in Obj |-> IF x \in freed THEN {}
                                 ELSE IF x = o /\ x \in Thread
                                      THEN ref[x] \cup UNION {ref[u] : u \in freed \cap Upval}
                                      ELSE ref[x]]
        /\ node' = [t \in Table |-> IF t \in freed THEN {} ELSE node[t]]
        /\ slot' = [u \in Upval |-> IF u \in closed THEN None ELSE slot[u]]
        /\ unswept' = unswept \ {o}
        /\ finalized' = finalized \ freed
        /\ called' = called \ freed
        /\ UNCHANGED <<running, white, phase, gray, grayagain, weak, tmudata, full>>
    BY <1>7 DEF Sweep, Open
  <2> HIDE DEF swept, freed, closed
  <2>2. UNION {ref[u] : u \in freed \cap Upval} \subseteq Obj
    BY DEF TypeOK, Obj
  <2>3. ref' \in [Obj -> SUBSET Obj]
    BY <2>1, <2>2 DEF TypeOK
  <2>4. color' \in [Obj -> {"free", "w0", "w1", "gray", "black"}]
    BY <2>1 DEF TypeOK
  <2> QED
    BY <2>1, <2>3, <2>4 DEF TypeOK
<1>8. ASSUME NEW o \in Obj, GCTM(o) PROVE TypeOK'
  <2>1. o \in Udata /\ o \in Obj
    BY <1>8, KindAssumption DEF GCTM, TypeOK
  <2>2. ref' \in [Obj -> SUBSET Obj]
    BY <1>8 DEF GCTM, TypeOK
  <2> QED
    BY <1>8, <2>1, <2>2 DEF GCTM, TypeOK, lists
<1> QED
  BY <1>1, <1>2, <1>3, <1>4, <1>5, <1>6, <1>7, <1>8 DEF Collector

(* The barriers and what else recolors an object color it properly.        *)
LEMMA MarkType ==
  ASSUME TypeOK, NEW S, Mark(S)
  PROVE  /\ color' \in [Obj -> {"free", "w0", "w1", "gray", "black"}]
         /\ gray' \subseteq Linked
  BY ColorsTyped DEF Mark, TypeOK

LEMMA ForwardType ==
  ASSUME TypeOK, NEW o, NEW v, Forward(o, v)
  PROVE  /\ color' \in [Obj -> {"free", "w0", "w1", "gray", "black"}]
         /\ gray' \subseteq Linked
  BY MarkType DEF Forward, TypeOK

LEMMA BackType ==
  ASSUME TypeOK, NEW t \in Linked, NEW S, Back(t, S)
  PROVE  /\ color' \in [Obj -> {"free", "w0", "w1", "gray", "black"}]
         /\ grayagain' \subseteq Linked
  BY DEF Back, TypeOK

LEMMA LinkUpvalType ==
  ASSUME TypeOK, NEW u, LinkUpval(u)
  PROVE  /\ color' \in [Obj -> {"free", "w0", "w1", "gray", "black"}]
         /\ gray' \subseteq Linked
  BY ColorsTyped DEF LinkUpval, TypeOK

LEMMA PushedType ==
  ASSUME TypeOK, NEW x \in Obj
  PROVE  Pushed(x) \in [Obj -> SUBSET Obj]
  BY DEF TypeOK, Pushed

LEMMA ProgramType ==
  ASSUME TypeOK, Program
  PROVE  TypeOK'
<1> USE DEF Collection
<1>1. ASSUME NEW o \in Obj, New(o) PROVE TypeOK'
  BY <1>1, PushedType DEF New, TypeOK
<1>2. ASSUME NEW o \in Obj, Intern(o) PROVE TypeOK'
  BY <1>2, PushedType DEF Intern, Revived, TypeOK
<1>3. ASSUME NEW o \in Obj, Load(o) PROVE TypeOK'
  BY <1>3, PushedType DEF Load, TypeOK
<1>4. ASSUME NEW o \in Obj, Pop(o) PROVE TypeOK'
  BY <1>4 DEF Pop, TypeOK
<1>5. ASSUME NEW f \in Closure, NEW u \in Upval, NEW x \in Obj, NewClosure(f, u, x)
      PROVE  TypeOK'
  <2>1. f \in Obj /\ u \in Obj
    BY DEF Obj
  <2>2. Pushed(f) \in [Obj -> SUBSET Obj]
    BY <2>1, PushedType
  <2>3. ref' \in [Obj -> SUBSET Obj]
    BY <1>5, <2>1, <2>2 DEF NewClosure
  <2>4. color' \in [Obj -> {"free", "w0", "w1", "gray", "black"}]
    BY <1>5, <2>1 DEF NewClosure, Revived, TypeOK
  <2>5. slot' \in [Upval -> Thread \cup {None}]
    BY <1>5 DEF NewClosure, TypeOK
  <2> QED
    BY <1>5, <2>3, <2>4, <2>5 DEF NewClosure, TypeOK
<1>6. ASSUME NEW f \in Closure, NEW u \in Upval, NEW x \in Obj, SetUpval(f, u, x)
      PROVE  TypeOK'
  <2>1. ref' \in [Obj -> SUBSET Obj]
    BY <1>6 DEF SetUpval, TypeOK
  <2>2. /\ color' \in [Obj -> {"free", "w0", "w1", "gray", "black"}]
        /\ gray' \subseteq Linked
    BY <1>6, ForwardType DEF SetUpval
  <2> QED
    BY <1>6, <2>1, <2>2 DEF SetUpval, TypeOK
<1>7. ASSUME NEW f \in Closure, NEW g \in Closure, NEW u \in Upval, UpvalueJoin(f, g, u)
      PROVE  TypeOK'
  <2>1. ref' \in [Obj -> SUBSET Obj]
    BY <1>7 DEF UpvalueJoin, TypeOK, Obj
  <2>2. /\ color' \in [Obj -> {"free", "w0", "w1", "gray", "black"}]
        /\ gray' \subseteq Linked
    BY <1>7, ForwardType DEF UpvalueJoin
  <2> QED
    BY <1>7, <2>1, <2>2 DEF UpvalueJoin, TypeOK
<1>8. ASSUME NEW t \in Table, NEW k \in Keys \cup {None}, NEW v \in Obj, SetTable(t, k, v)
      PROVE  TypeOK'
  <2>1. node' \in [Table -> SUBSET Entry]
    BY <1>8 DEF SetTable, TypeOK, Entry
  <2>2. t \in Linked
    BY DEF Linked
  <2>3. /\ color' \in [Obj -> {"free", "w0", "w1", "gray", "black"}]
        /\ grayagain' \subseteq Linked
    BY <1>8, <2>2, BackType DEF SetTable
  <2> QED
    BY <1>8, <2>1, <2>3 DEF SetTable, TypeOK
<1>9. ASSUME NEW t \in Table, ClearTable(t) PROVE TypeOK'
  BY <1>9 DEF ClearTable, TypeOK
<1>10. ASSUME NEW u \in Udata, NEW t \in Table, SetField(u, t) PROVE TypeOK'
  <2>1. ref' \in [Obj -> SUBSET Obj]
    BY <1>10 DEF SetField, TypeOK, Obj
  <2>2. /\ color' \in [Obj -> {"free", "w0", "w1", "gray", "black"}]
        /\ gray' \subseteq Linked
    BY <1>10, ForwardType DEF SetField
  <2> QED
    BY <1>10, <2>1, <2>2 DEF SetField, TypeOK
<1>11. ASSUME NEW u \in Upval, NEW v \in Obj, SetLocal(u, v) PROVE TypeOK'
  BY <1>11 DEF SetLocal, TypeOK
<1>12. ASSUME NEW u \in Upval, CloseUpval(u) PROVE TypeOK'
  <2>1. /\ color' \in [Obj -> {"free", "w0", "w1", "gray", "black"}]
        /\ gray' \subseteq Linked
        /\ ref' \in [Obj -> SUBSET Obj]
    BY <1>12, LinkUpvalType DEF CloseUpval, TypeOK
  <2> QED
    BY <1>12, <2>1 DEF CloseUpval, TypeOK
<1>13. ASSUME NEW t \in Thread, NEW x \in Obj, XMove(t, x) PROVE TypeOK'
  BY <1>13 DEF XMove, TypeOK
<1>14. ASSUME NEW t \in Thread, Resume(t) PROVE TypeOK'
  BY <1>14 DEF Resume, TypeOK
<1>15. CASE Yield
  BY <1>15, KindAssumption DEF Yield, TypeOK
<1>16. CASE StartFull
  BY <1>16 DEF StartFull, TypeOK, data, lists, Live
<1>17. CASE FinalizerReturns
  BY <1>17 DEF FinalizerReturns, TypeOK, data, lists
<1> QED
  BY <1>1, <1>2, <1>3, <1>4, <1>5, <1>6, <1>7, <1>8, <1>9, <1>10, <1>11, <1>12, <1>13,
     <1>14, <1>15, <1>16, <1>17 DEF Program

(* Every variable keeps its type in whatever order the program and the     *)
(* collector step.                                                         *)
THEOREM TypeCorrect == Spec => []TypeOK
<1>1. TypeOK /\ UNCHANGED vars => TypeOK'
  BY DEF TypeOK, vars, data, lists
<1>2. TypeOK /\ [Next]_vars => TypeOK'
  BY <1>1, ProgramType, CollectorType DEF Next
<1> QED
  BY <1>2, InitType, PTL DEF Spec
-----------------------------------------------------------------------------
(* Part 2: gclist.  A gray object is found again only if it is in exactly  *)
(* one list, and the lists that a cycle starts with are those the sweep of *)
(* the last one left: no linked object keeps a color of an earlier mark.   *)
ListInv ==
  /\ LinkedOnce
  /\ phase # "propagate" => gray = {}
  /\ phase \in {"pause", "finalize"} =>
         \A o \in Linked : color[o] \notin {"gray", "black"}
  /\ phase \in {"sweepstring", "sweep"} =>
         \A o \in Linked : color[o] \in {"gray", "black"} => o \in unswept

LEMMA KindsDisjoint ==
  /\ Thread \cap Table = {} /\ Thread \cap Closure = {} /\ Table \cap Closure = {}
  /\ Linked \cap Udata = {} /\ Linked \cap Upval = {} /\ Linked \cap String = {}
<1>1. /\ DOMAIN Kinds = 1..6
      /\ Kinds[1] = Thread /\ Kinds[2] = Table /\ Kinds[3] = Udata
      /\ Kinds[4] = Closure /\ Kinds[5] = Upval /\ Kinds[6] = String
  BY DEF Kinds
<1>2. \A i, j \in 1..6 : i # j => Kinds[i] \cap Kinds[j] = {}
  BY <1>1, KindAssumption
<1>3. /\ Thread \cap Table = {} /\ Thread \cap Closure = {} /\ Table \cap Closure = {}
      /\ Thread \cap Udata = {} /\ Table \cap Udata = {} /\ Closure \cap Udata = {}
  BY <1>1, <1>2
<1>4. /\ Thread \cap Upval = {} /\ Table \cap Upval = {} /\ Closure \cap Upval = {}
      /\ Thread \cap String = {} /\ Table \cap String = {} /\ Closure \cap String = {}
  BY <1>1, <1>2
<1> QED
  BY <1>3, <1>4 DEF Linked

(* What marking does to the color of an object with a gclist.              *)
LEMMA LinkedColors ==
  ASSUME NEW o \in Linked
  PROVE  /\ o \in Obj
         /\ MarkColor(o) = "gray"
         /\ TraversedColor(o) = IF o \in Thread \cup Weak THEN "gray" ELSE "black"
  BY KindsDisjoint DEF MarkColor, TraversedColor, Linked, Obj

LEMMA WhiteColors ==
  ASSUME TypeOK
  PROVE  /\ White \subseteq Live
         /\ white \notin {"gray", "black", "free"} /\ other \notin {"gray", "black", "free"}
         /\ \A o \in White : color[o] \notin {"gray", "black"}
  BY DEF TypeOK, White, Live, other

LEMMA InitLists == Init => ListInv
  BY KindsDisjoint, LinkedColors DEF Init, ListInv, LinkedOnce

(* Marking links what it turns gray.                                       *)
LEMMA MarkLists ==
  ASSUME TypeOK, ListInv, NEW S, Mark(S), phase = "propagate",
         UNCHANGED <<phase, grayagain, weak>>
  PROVE  ListInv'
<1> DEFINE M == MarkedWith(S)
<1>1. /\ color' = [o \in Obj |-> IF o \in M THEN MarkColor(o) ELSE color[o]]
      /\ gray' = gray \cup (M \cap Linked)
      /\ M \subseteq White
  BY MarkedAreWhite DEF Mark
<1> HIDE DEF M
<1>2. \A o \in Linked : color'[o] = IF o \in M THEN "gray" ELSE color[o]
  BY <1>1, LinkedColors
<1>3. LinkedOnce'
  BY <1>1, <1>2, WhiteColors DEF ListInv, LinkedOnce
<1> QED
  BY <1>3 DEF ListInv

(* Steps that leave the lists and the color of every linked object alone,  *)
(* or turn a linked object white outside of the mark.                      *)
LEMMA QuietLists ==
  ASSUME TypeOK, ListInv, UNCHANGED <<phase, gray, grayagain, weak, unswept>>,
         \A o \in Linked : \/ color'[o] = color[o]
                           \/ /\ color'[o] \notin {"gray", "black"}
                              /\ phase = "propagate" => color[o] # "gray"
  PROVE  ListInv'
<1>1. LinkedOnce'
  BY DEF ListInv, LinkedOnce
<1> QED
  BY <1>1 DEF ListInv

LEMMA ForwardLists ==
  ASSUME TypeOK, ListInv, NEW o, NEW v, Forward(o, v),
         UNCHANGED <<phase, grayagain, weak, unswept>>
  PROVE  ListInv'
<1>1. CASE color[o] = "black" /\ v \in White /\ phase = "propagate"
  BY <1>1, MarkLists DEF Forward
<1>2. CASE ~(color[o] = "black" /\ v \in White /\ phase = "propagate")
  <2>1. /\ UNCHANGED gray
        /\ color' = color \/ (phase # "propagate" /\ color' = [color EXCEPT ![o] = white])
    BY <1>2 DEF Forward
  <2>2. \A x \in Linked : \/ color'[x] = color[x]
                          \/ /\ color'[x] \notin {"gray", "black"}
                             /\ phase = "propagate" => color[x] # "gray"
    BY <2>1, WhiteColors, LinkedColors DEF TypeOK
  <2> QED
    BY <2>1, <2>2, QuietLists
<1> QED
  BY <1>1, <1>2

LEMMA BackLists ==
  ASSUME TypeOK, ListInv, NEW t \in Table, NEW S, Back(t, S),
         UNCHANGED <<phase, gray, weak, unswept>>
  PROVE  ListInv'
<1>1. CASE color[t] = "black" /\ S \cap White # {}
  <2>1. color' = [color EXCEPT ![t] = "gray"] /\ grayagain' = grayagain \cup {t}
    BY <1>1 DEF Back
  <2>2. t \in Linked
    BY DEF Linked
  <2>3. \A o \in Linked : color'[o] = IF o = t THEN "gray" ELSE color[o]
    BY <2>1, LinkedColors DEF TypeOK
  <2>4. LinkedOnce'
    BY <1>1, <2>1, <2>2, <2>3 DEF ListInv, LinkedOnce
  <2> QED
    BY <1>1, <2>2, <2>3, <2>4 DEF ListInv
<1>2. CASE ~(color[t] = "black" /\ S \cap White # {})
  BY <1>2, QuietLists DEF Back
<1> QED
  BY <1>1, <1>2

LEMMA ProgramLists ==
  ASSUME TypeOK, ListInv, Program
  PROVE  ListInv'
<1> DEFINE Quiet == /\ UNCHANGED <<phase, gray, grayagain, weak, unswept>>
                    /\ \A x \in Linked : \/ color'[x] = color[x]
                                         \/ /\ color'[x] \notin {"gray", "black"}
                                            /\ phase = "propagate" => color[x] # "gray"
<1>0. Quiet => ListInv'
  BY QuietLists
<1> USE DEF Collection
<1>1. ASSUME NEW o \in Obj, New(o) PROVE ListInv'
  <2>1. Quiet
    BY <1>1, WhiteColors, LinkedColors DEF New, TypeOK
  <2> QED
    BY <2>1, <1>0
<1>2. ASSUME NEW o \in Obj, Intern(o) PROVE ListInv'
  <2>1. Quiet
    BY <1>2, KindsDisjoint, LinkedColors DEF Intern, TypeOK
  <2> QED
    BY <2>1, <1>0
<1>3. ASSUME NEW o \in Obj, Load(o) PROVE ListInv'
  BY <1>3, <1>0 DEF Load
<1>4. ASSUME NEW o \in Obj, Pop(o) PROVE ListInv'
  BY <1>4, <1>0 DEF Pop
<1>5. ASSUME NEW f \in Closure, NEW u \in Upval, NEW x \in Obj, NewClosure(f, u, x)
      PROVE  ListInv'
  <2>1. \A y \in Linked : \/ color'[y] = color[y]
                          \/ y = f /\ color'[y] = white
    BY <1>5, KindsDisjoint, LinkedColors DEF NewClosure, Revived, TypeOK
  <2>2. Quiet
    BY <1>5, <2>1, WhiteColors DEF NewClosure
  <2> QED
    BY <2>2, <1>0
<1>6. ASSUME NEW f \in Closure, NEW u \in Upval, NEW x \in Obj, SetUpval(f, u, x)
      PROVE  ListInv'
  BY <1>6, ForwardLists DEF SetUpval
<1>7. ASSUME NEW f \in Closure, NEW g \in Closure, NEW u \in Upval, UpvalueJoin(f, g, u)
      PROVE  ListInv'
  BY <1>7, ForwardLists DEF UpvalueJoin
<1>8. ASSUME NEW t \in Table, NEW k \in Keys \cup {None}, NEW v \in Obj, SetTable(t, k, v)
      PROVE  ListInv'
  BY <1>8, BackLists DEF SetTable
<1>9. ASSUME NEW t \in Table, ClearTable(t) PROVE ListInv'
  BY <1>9, <1>0 DEF ClearTable
<1>10. ASSUME NEW u \in Udata, NEW t \in Table, SetField(u, t) PROVE ListInv'
  BY <1>10, ForwardLists DEF SetField
<1>11. ASSUME NEW u \in Upval, NEW v \in Obj, SetLocal(u, v) PROVE ListInv'
  BY <1>11, <1>0 DEF SetLocal
<1>12. ASSUME NEW u \in Upval, CloseUpval(u) PROVE ListInv'
  <2>1. u \notin Linked /\ UNCHANGED <<phase, grayagain, weak, unswept>>
    BY <1>12, KindsDisjoint DEF CloseUpval
  <2>2. CASE ~(~Dead(u) /\ color[u] = "gray" /\ phase = "propagate")
    <3>1. /\ UNCHANGED gray
          /\ \/ color' = color \/ color' = [color EXCEPT ![u] = "free"]
             \/ color' = [color EXCEPT ![u] = white]
      BY <1>12, <2>2 DEF CloseUpval, LinkUpval
    <3>2. Quiet
      BY <2>1, <3>1, LinkedColors DEF TypeOK
    <3> QED
      BY <3>2, <1>0
  <2>3. CASE ~Dead(u) /\ color[u] = "gray" /\ phase = "propagate"
    <3> DEFINE M == MarkedWith(ref[u])
    <3>1. /\ color' = [o \in Obj |-> IF o = u THEN "black"
                                      ELSE IF o \in M THEN MarkColor(o) ELSE color[o]]
          /\ gray' = gray \cup (M \cap Linked)
          /\ M \subseteq White
      BY <1>12, <2>3, MarkedAreWhite DEF CloseUpval, LinkUpval
    <3> HIDE DEF M
    <3>2. \A o \in Linked : color'[o] = IF o \in M THEN "gray" ELSE color[o]
      BY <2>1, <3>1, LinkedColors
    <3>3. LinkedOnce'
      BY <2>1, <2>3, <3>1, <3>2, WhiteColors DEF ListInv, LinkedOnce
    <3> QED
      BY <2>1, <2>3, <3>3 DEF ListInv
  <2> QED
    BY <2>2, <2>3
<1>13. ASSUME NEW t \in Thread, NEW x \in Obj, XMove(t, x) PROVE ListInv'
  BY <1>13, <1>0 DEF XMove
<1>14. ASSUME NEW t \in Thread, Resume(t) PROVE ListInv'
  BY <1>14, <1>0 DEF Resume
<1>15. CASE Yield
  BY <1>15, <1>0 DEF Yield
<1>16. CASE StartFull
  <2>1. CASE phase \in {"pause", "propagate"}
    <3>1. \A o \in Linked : color[o] \in {"gray", "black"} => o \in unswept'
      BY <1>16, <2>1, KindsDisjoint, KindAssumption DEF StartFull, Live, TypeOK, Linked, Obj
    <3> QED
      BY <1>16, <2>1, <3>1 DEF StartFull, ListInv, LinkedOnce
  <2>2. CASE phase \notin {"pause", "propagate"}
    BY <1>16, <2>2, <1>0 DEF StartFull, lists
  <2> QED
    BY <2>1, <2>2
<1>17. CASE FinalizerReturns
  BY <1>17, <1>0 DEF FinalizerReturns, lists
<1> QED
  BY <1>1, <1>2, <1>3, <1>4, <1>5, <1>6, <1>7, <1>8, <1>9, <1>10, <1>11, <1>12, <1>13,
     <1>14, <1>15, <1>16, <1>17 DEF Program

LEMMA MarkRootLists ==
  ASSUME TypeOK, ListInv, MarkRoot, phase \in {"pause", "finalize"}
  PROVE  ListInv'
<1> DEFINE M == MarkedWith({Main})
<1>1. /\ color' = [o \in Obj |-> IF o \in M THEN MarkColor(o) ELSE color[o]]
      /\ gray' = M \cap Linked /\ grayagain' = {} /\ weak' = {}
      /\ phase' = "propagate"
  BY DEF MarkRoot
<1> HIDE DEF M
<1>2. \A o \in Linked : color'[o] = IF o \in M THEN "gray" ELSE color[o]
  BY <1>1, LinkedColors
<1>3. LinkedOnce'
  BY <1>1, <1>2 DEF ListInv, LinkedOnce
<1> QED
  BY <1>1, <1>3 DEF ListInv

LEMMA PropagateLists ==
  ASSUME TypeOK, ListInv, NEW o \in Obj, PropagateMark(o)
  PROVE  ListInv'
<1> DEFINE M == MarkedWith(Strong(o))
<1>1. /\ phase = "propagate" /\ phase' = phase /\ o \in gray
      /\ color' = [x \in Obj |-> IF x = o THEN TraversedColor(o)
                                 ELSE IF x \in M THEN MarkColor(x) ELSE color[x]]
      /\ gray' = (gray \ {o}) \cup (M \cap Linked)
      /\ grayagain' = IF o \in Thread THEN grayagain \cup {o} ELSE grayagain
      /\ weak' = IF o \in Weak THEN weak \cup {o} ELSE weak
      /\ M \subseteq White
  BY MarkedAreWhite DEF PropagateMark
<1> HIDE DEF M
<1>2. o \in Linked /\ color[o] = "gray" /\ o \notin M
  BY <1>1, WhiteColors DEF ListInv, LinkedOnce
<1>3. \A x \in Linked : color'[x] = IF x = o THEN (IF o \in Thread \cup Weak THEN "gray" ELSE "black")
                                   ELSE IF x \in M THEN "gray" ELSE color[x]
  BY <1>1, LinkedColors
<1>4. Thread \cap Weak = {}
  BY KindsDisjoint, KindAssumption DEF Weak
<1>5. \A x \in M : color[x] # "gray"
  BY <1>1, WhiteColors
<1>6. LinkedOnce'
  <2>1. /\ gray \cap grayagain = {} /\ gray \cap weak = {} /\ grayagain \cap weak = {}
        /\ gray \cup grayagain \cup weak = {x \in Linked : color[x] = "gray"}
    BY <1>1 DEF ListInv, LinkedOnce
  <2>2. M \cap (gray \cup grayagain \cup weak) = {}
    BY <1>5, <2>1
  <2>3. gray' \cap grayagain' = {} /\ gray' \cap weak' = {} /\ grayagain' \cap weak' = {}
    BY <1>1, <1>2, <1>4, <2>1, <2>2
  <2>4. gray' \cup grayagain' \cup weak' = {x \in Linked : color'[x] = "gray"}
    BY <1>1, <1>2, <1>3, <2>1
  <2> QED
    BY <2>3, <2>4 DEF LinkedOnce
<1> QED
  BY <1>1, <1>6 DEF ListInv

(* The atomic phase leaves no linked object gray or black but those that   *)
(* the sweep is going to visit.                                            *)
LEMMA AtomicLists ==
  ASSUME TypeOK, ListInv, Atomic
  PROVE  ListInv'
<1> DEFINE marked == Survivors
           separated == Separated(marked)
           done == finalized \cup separated
           pending == tmudata \cup (separated \cap Finalizable)
           preserved == Preserved(marked, pending)
           M == marked \cup preserved
           traversed == gray \cup weak \cup grayagain \cup M
           cleared == traversed \cap Weak
           strings == KeptStrings(cleared, M, done) \cap White
<1>1. /\ phase = "propagate" /\ gray = {} /\ gray' = {} /\ phase' = "sweepstring"
      /\ color' = [o \in Obj |-> IF o \in traversed \cup strings THEN TraversedColor(o)
                                 ELSE color[o]]
      /\ unswept' = Live \ (pending \cup {u \in Upval : slot[u] # None})
  BY DEF Atomic
<1>2. marked \subseteq White
  BY ReachedWithin DEF Survivors
<1>3. preserved \subseteq pending \cup White
  BY ReachedWithin DEF Preserved
<1>4. pending \subseteq Udata /\ strings \subseteq White
  BY KindAssumption DEF Separated, TypeOK
<1> HIDE DEF marked, preserved, pending, strings
<1>5. \A o \in Linked : color'[o] \in {"gray", "black"} => o \in unswept'
  <2> SUFFICES ASSUME NEW o \in Linked, color'[o] \in {"gray", "black"}
               PROVE  o \in unswept'
    OBVIOUS
  <2>1. o \in Obj /\ o \notin pending /\ o \notin Upval
    BY <1>4, KindsDisjoint, LinkedColors
  <2>2. o \in weak \cup grayagain => color[o] = "gray"
    BY <1>1 DEF ListInv, LinkedOnce
  <2>3. o \in traversed \cup strings => o \in Live
    BY <1>1, <1>2, <1>3, <1>4, <2>1, <2>2, WhiteColors DEF Live
  <2>4. o \in Live
    BY <1>1, <2>1, <2>3 DEF Live
  <2> QED
    BY <1>1, <2>1, <2>4
<1> QED
  BY <1>1, <1>5 DEF ListInv, LinkedOnce

LEMMA SweepLists ==
  ASSUME TypeOK, ListInv, NEW o \in Obj, Sweep(o)
  PROVE  ListInv'
<1> DEFINE swept == {o} \cup (IF o \in Thread THEN Open(o) ELSE {})
           freed == {x \in swept : Dead(x)}
<1>1. /\ color' = [x \in Obj |-> IF x \in freed THEN "free"
                                 ELSE IF x \in swept THEN white ELSE color[x]]
      /\ unswept' = unswept \ {o} /\ o \in swept
      /\ phase \in {"sweepstring", "sweep"}
      /\ UNCHANGED <<phase, gray>>
  BY DEF Sweep
<1> HIDE DEF swept, freed
<1>2. \A x \in Linked : color'[x] \in {"gray", "black"} => x \in unswept'
  BY <1>1, WhiteColors, LinkedColors DEF ListInv
<1> QED
  BY <1>1, <1>2 DEF ListInv, LinkedOnce

LEMMA CollectorLists ==
  ASSUME TypeOK, ListInv, Collector
  PROVE  ListInv'
<1>1. CASE StartCycle
  BY <1>1, MarkRootLists DEF StartCycle
<1>2. CASE Atomic
  BY <1>2, AtomicLists
<1>3. CASE EndSweep
  BY <1>3, LinkedColors DEF EndSweep, ListInv, LinkedOnce, data, lists
<1>4. CASE EndCycle
  BY <1>4 DEF EndCycle, ListInv, LinkedOnce, data, lists
<1>5. CASE FullMark
  BY <1>5, MarkRootLists DEF FullMark
<1>6. ASSUME NEW o \in Obj, PropagateMark(o) PROVE ListInv'
  BY <1>6, PropagateLists
<1>7. ASSUME NEW o \in Obj, Sweep(o) PROVE ListInv'
  BY <1>7, SweepLists
<1>8. ASSUME NEW o \in Obj, GCTM(o) PROVE ListInv'
  <2>1. \A x \in Linked : color'[x] = color[x]
    BY <1>8, KindsDisjoint, KindAssumption, LinkedColors DEF GCTM, TypeOK
  <2> QED
    BY <1>8, <2>1, QuietLists DEF GCTM, lists
<1> QED
  BY <1>1, <1>2, <1>3, <1>4, <1>5, <1>6, <1>7, <1>8 DEF Collector

(* While the collector marks, the objects with a gclist that are gray are  *)
(* those on gray, grayagain and weak, each on one of them, whatever the    *)
(* barriers, the closing of upvalues and the allocation of objects did in  *)
(* between.                                                                *)
THEOREM GrayObjectsAreLinkedOnce == Spec => []LinkedOnce
<1>1. ListInv /\ UNCHANGED vars => ListInv'
  BY DEF ListInv, LinkedOnce, vars, data, lists
<1>2. TypeOK /\ ListInv /\ [Next]_vars => ListInv'
  BY <1>1, ProgramLists, CollectorLists DEF Next
<1>3. ListInv => LinkedOnce
  BY DEF ListInv
<1> QED
  BY <1>2, <1>3, TypeCorrect, InitLists, PTL DEF Spec
-----------------------------------------------------------------------------
(* Part 3: reachability.  Reached is the least set that is closed under    *)
(* the edges of a graph; what is defined by recursion over growing sets is *)
(* known to be so because a finite set has no infinite chain of subsets.   *)
LEMMA MaximalSubset ==
  ASSUME NEW F, F \subseteq SUBSET Obj, F # {}
  PROVE  \E X \in F : \A Y \in F : X \subseteq Y => Y = X
<1> DEFINE co == {Obj \ X : X \in F}
<1>1. PICK X0 \in F : TRUE
  OBVIOUS
<1>2. co \subseteq SUBSET Obj /\ co # {}
  <2>1. Obj \ X0 \in co
    OBVIOUS
  <2>2. \A Z \in co : Z \subseteq Obj
    OBVIOUS
  <2> HIDE DEF co
  <2> QED
    BY <2>1, <2>2
<1>3. IsWellFoundedOn(StrictSubsetOrdering(Obj), SUBSET Obj)
  <2>1. FiniteSubsetsOf(Obj) = SUBSET Obj
    BY KindAssumption, FS_FiniteSubsetsOfFinite
  <2>2. IsWellFoundedOn(StrictSubsetOrdering(Obj), FiniteSubsetsOf(Obj))
    BY FS_StrictSubsetOrderingWellFounded
  <2> QED
    BY <2>1, <2>2
<1>4. PICK Z \in co : \A Y \in co : ~(<<Y, Z>> \in StrictSubsetOrdering(Obj))
  BY <1>2, <1>3, WFMin
<1>5. PICK X \in F : Z = Obj \ X
  OBVIOUS
<1>6. ASSUME NEW Y \in F, X \subseteq Y, Y # X PROVE FALSE
  <2>1. Obj \ Y \in co /\ Obj \ Y \subseteq Z /\ Obj \ Y # Z
    BY <1>5, <1>6
  <2>2. <<Obj \ Y, Z>> \in StrictSubsetOrdering(Obj)
    BY <2>1, <1>2, <1>4 DEF StrictSubsetOrdering
  <2> QED
    BY <2>1, <2>2, <1>4
<1> QED
  BY <1>6

LEMMA ReachedIsLeast ==
  ASSUME NEW S, NEW W, W \subseteq Obj, NEW E
  PROVE  /\ S \cap W \subseteq Reached(S, W, E)
         /\ Reached(S, W, E) \subseteq W
         /\ \A o \in Reached(S, W, E) : E[o] \cap W \subseteq Reached(S, W, E)
         /\ \A X \in SUBSET W :
              S \cap W \subseteq X /\ (\A o \in X : E[o] \cap W \subseteq X)
                => Reached(S, W, E) \subseteq X
<1> DEFINE Grown(X) == X \cup UNION {E[o] \cap W : o \in X}
           Above(X) == {Y \in SUBSET Obj : X \subseteq Y /\ Grown(Y) = Y}
           Least(X) == {o \in Obj : \A Y \in Above(X) : o \in Y}
           Is(g) == g = [X \in SUBSET Obj |-> IF Grown(X) = X THEN X ELSE g[Grown(X)]]
           R == CHOOSE g : Is(g)
<1>1. \A X \in SUBSET Obj : Grown(X) \in SUBSET Obj /\ X \subseteq Grown(X)
  OBVIOUS
<1>2. \A X \in SUBSET Obj : Above(X) = Above(Grown(X))
  <2> SUFFICES ASSUME NEW X \in SUBSET Obj PROVE Above(X) = Above(Grown(X))
    OBVIOUS
  <2>1. \A Y \in SUBSET Obj : X \subseteq Y /\ Grown(Y) = Y => Grown(X) \subseteq Y
    OBVIOUS
  <2> QED
    BY <2>1, <1>1
<1>3. \A X \in SUBSET Obj : Least(X) = IF Grown(X) = X THEN X ELSE Least(Grown(X))
  <2> SUFFICES ASSUME NEW X \in SUBSET Obj
               PROVE  Least(X) = IF Grown(X) = X THEN X ELSE Least(Grown(X))
    OBVIOUS
  <2>1. CASE Grown(X) = X
    <3>1. X \in Above(X)
      BY <2>1
    <3> QED
      BY <3>1, <2>1
  <2>2. Least(X) = Least(Grown(X))
    BY <1>2
  <2> QED
    BY <2>1, <2>2
<1>4. Is([X \in SUBSET Obj |-> Least(X)])
  <2> HIDE DEF Least
  <2>1. \A X \in SUBSET Obj : [Z \in SUBSET Obj |-> Least(Z)][Grown(X)] = Least(Grown(X))
    BY <1>1
  <2> HIDE DEF Grown
  <2> QED
    BY <2>1, <1>3
<1>5. Is(R)
  <2> HIDE DEF Is
  <2> QED
    BY <1>4
<1>6. \A X \in SUBSET Obj : R[X] = IF Grown(X) = X THEN X ELSE R[Grown(X)]
  <2> HIDE DEF R, Grown
  <2> QED
    BY <1>5
<1>7. \A X \in SUBSET Obj : R[X] = Least(X)
  <2> HIDE DEF R, Least, Grown
  <2> DEFINE F == {X \in SUBSET Obj : R[X] # Least(X)}
  <2>1. SUFFICES ASSUME F # {} PROVE FALSE
    OBVIOUS
  <2>2. F \subseteq SUBSET Obj
    OBVIOUS
  <2> HIDE DEF F
  <2>3. PICK X \in F : \A Y \in F : X \subseteq Y => Y = X
    BY <2>1, <2>2, MaximalSubset
  <2> USE DEF F
  <2>4. CASE Grown(X) = X
    BY <2>4, <1>3, <1>6
  <2>5. CASE Grown(X) # X
    <3>1. Grown(X) \notin F
      BY <2>3, <2>5, <1>1
    <3>2. R[Grown(X)] = Least(Grown(X))
      BY <3>1, <1>1, <2>2
    <3>3. R[X] = R[Grown(X)] /\ Least(X) = Least(Grown(X))
      BY <2>5, <1>6, <1>3
    <3> QED
      BY <3>2, <3>3
  <2> QED
    BY <2>4, <2>5
<1>8. Reached(S, W, E) = W \cap R[S \cap W]
  BY DEF Reached
<1>9. Reached(S, W, E) = W \cap Least(S \cap W)
  <2> HIDE DEF R, Least
  <2> QED
    BY <1>7, <1>8
<1>10. W \in Above(S \cap W)
  OBVIOUS
<1> HIDE DEF R, Is
<1>11. S \cap W \subseteq Least(S \cap W) /\ Least(S \cap W) \subseteq W
  BY <1>10
<1>12. ASSUME NEW o \in Least(S \cap W), NEW x \in E[o] \cap W PROVE x \in Least(S \cap W)
  <2>1. \A Y \in Above(S \cap W) : o \in Y /\ UNION {E[p] \cap W : p \in Y} \subseteq Y
    BY <1>12
  <2> QED
    BY <2>1, <1>12
<1>13. ASSUME NEW X \in SUBSET W, S \cap W \subseteq X, \A o \in X : E[o] \cap W \subseteq X
       PROVE  Least(S \cap W) \subseteq X
  <2>1. X \in Above(S \cap W)
    BY <1>13
  <2> QED
    BY <2>1
<1> HIDE DEF Least, Above, Grown
<1>14. Reached(S, W, E) = Least(S \cap W)
  BY <1>9, <1>11
<1> QED
  BY <1>11, <1>12, <1>13, <1>14

(* Marking goes through userdata and upvalues until it meets no white one. *)
LEMMA MarkedIsClosed ==
  ASSUME NEW S
  PROVE  /\ S \cap White \subseteq MarkedWith(S)
         /\ \A x \in MarkedWith(S) : x \in Udata \cup Upval =>
              Strong(x) \cap White \subseteq MarkedWith(S)
<1> DEFINE E == [o \in Obj |-> IF o \in Udata \cup Upval THEN Strong(o) ELSE {}]
<1>1. White \subseteq Obj
  BY DEF White
<1>2. \A o \in White : E[o] = IF o \in Udata \cup Upval THEN Strong(o) ELSE {}
  BY <1>1
<1> HIDE DEF E
<1>3. /\ S \cap White \subseteq Reached(S, White, E)
      /\ Reached(S, White, E) \subseteq White
      /\ \A o \in Reached(S, White, E) : E[o] \cap White \subseteq Reached(S, White, E)
  BY <1>1, ReachedIsLeast
<1>4. MarkedWith(S) = Reached(S, White, E)
  BY DEF MarkedWith, E
<1> QED
  BY <1>2, <1>3, <1>4
-----------------------------------------------------------------------------
(* Part 4: the inductive invariant.  MemorySafe and TriColour say nothing  *)
(* of the objects the program cannot get at, of the phases outside of the  *)
(* mark, or of what the next cycle starts from; these do.                  *)

(* Neither free nor left behind by the last mark.                          *)
Alive == {o \in Obj : color[o] # "free" /\ ~Dead(o)}

(* What the kind of an object says of its color and fields.                *)
Shape ==
  /\ \A o \in Thread \cup Weak \cup String : color[o] # "black"
  /\ \A o \in Udata : color[o] # "gray"
  /\ \A u \in Upval : slot[u] # None =>
       color[u] \notin {"free", "black"} /\ color[slot[u]] # "free"
  /\ \A u \in Upval : color[u] = "gray" => slot[u] # None
  /\ \A o \in Obj : color[o] = "free" => ref[o] = {} /\ (o \in Table => node[o] = {})
  /\ \A s \in String : ref[s] = {}
  /\ \A f \in Closure : ref[f] \subseteq Upval

(* Nothing alive refers to what is not, usable or garbage.                 *)
AliveClosed ==
  /\ {Main, running} \subseteq Alive
  /\ \A o \in Alive : Out(o) \subseteq Alive
  /\ phase = "propagate" => color[Main] = "gray"

(* What the last mark left behind, and its colors, wait for the sweep: in  *)
(* its list, on a stack that is in its list, or for a finalizer.           *)
Progress ==
  /\ phase \in {"pause", "propagate", "finalize"} => \A o \in Obj : ~Dead(o)
  /\ phase \in {"pause", "finalize"} =>
       \A o \in Obj : color[o] \in {"gray", "black"} => o \in tmudata
  /\ phase \in {"sweepstring", "sweep"} =>
       \A o \in Obj : Dead(o) \/ color[o] \in {"gray", "black"} =>
         \/ o \in unswept
         \/ o \in Upval /\ slot[o] \in unswept
         \/ o \in tmudata /\ ~Dead(o)
  /\ phase = "sweep" => unswept \cap String = {}

(* A finalizer runs once, while its userdata is there.                     *)
Finalizing ==
  /\ tmudata \subseteq Alive \cap finalized
  /\ called \subseteq Live \cap finalized
  /\ finalized \cap Finalizable \subseteq tmudata \cup called
  /\ \A u \in Udata : Dead(u) => u \in finalized

HeapInv == Shape /\ AliveClosed /\ Progress /\ Finalizing /\ TriColour

LEMMA AllKindsDisjoint ==
  /\ Linked \cap Udata = {} /\ Linked \cap Upval = {} /\ Linked \cap String = {}
  /\ Udata \cap Upval = {} /\ Udata \cap String = {} /\ Upval \cap String = {}
  /\ Thread \cap Table = {} /\ Thread \cap Closure = {} /\ Table \cap Closure = {}
  /\ Linked = Thread \cup Table \cup Closure /\ Weak \subseteq Table
  /\ Obj = Linked \cup Udata \cup Upval \cup String /\ None \notin Obj
<1>1. DOMAIN Kinds = 1..6 /\ Kinds[3] = Udata /\ Kinds[5] = Upval /\ Kinds[6] = String
  BY DEF Kinds
<1>2. Udata \cap Upval = {} /\ Udata \cap String = {} /\ Upval \cap String = {}
  <2>1. \A i, j \in 1..6 : i # j => Kinds[i] \cap Kinds[j] = {}
    BY <1>1, KindAssumption
  <2> QED
    BY <1>1, <2>1
<1> QED
  BY <1>2, KindsDisjoint, KindAssumption DEF Linked, Obj, Weak

(* What each kind of object refers to.                                     *)
OutByKind ==
  \A o \in Obj :
    /\ o \in Thread => Out(o) = ref[o] \cup UNION {ref[u] : u \in Open(o)}
    /\ o \in Table => Out(o) = UNION {{e.key, e.val} \ {None} : e \in node[o]}
    /\ o \notin Thread \cup Table => Out(o) = ref[o]
    /\ Strong(o) \subseteq Out(o)
    /\ o \notin Weak => Strong(o) = Out(o)

LEMMA OutOfKind == TypeOK => OutByKind
<1> SUFFICES ASSUME TypeOK, NEW o \in Obj
             PROVE  /\ o \in Thread => Out(o) = ref[o] \cup UNION {ref[u] : u \in Open(o)}
                    /\ o \in Table => Out(o) = UNION {{e.key, e.val} \ {None} : e \in node[o]}
                    /\ o \notin Thread \cup Table => Out(o) = ref[o]
                    /\ Strong(o) \subseteq Out(o)
                    /\ o \notin Weak => Strong(o) = Out(o)
  BY DEF OutByKind
<1>1. o \in Thread => o \notin Table
  BY AllKindsDisjoint
<1>2. CASE o \in Table
  <2> DEFINE S(e) == (IF o \in WeakKey THEN {} ELSE {e.key} \ {None})
                     \cup (IF o \in WeakValue THEN {} ELSE {e.val})
  <2>1. \A e \in node[o] : e.val # None
    BY <1>2, AllKindsDisjoint DEF TypeOK, Entry
  <2>2. \A e \in node[o] : S(e) \subseteq {e.key, e.val} \ {None}
    BY <2>1
  <2>3. o \notin Weak => \A e \in node[o] : S(e) = {e.key, e.val} \ {None}
    BY <2>1 DEF Weak
  <2>4. Strong(o) = UNION {S(e) : e \in node[o]}
    BY <1>2 DEF Strong
  <2>5. Out(o) = UNION {{e.key, e.val} \ {None} : e \in node[o]}
    BY <1>2 DEF Out
  <2> HIDE DEF S
  <2>6. Strong(o) \subseteq Out(o)
    BY <2>2, <2>4, <2>5
  <2>7. o \notin Weak => Strong(o) = Out(o)
    BY <2>3, <2>4, <2>5
  <2> QED
    BY <1>1, <1>2, <2>5, <2>6, <2>7
<1>3. CASE o \notin Table
  BY <1>1, <1>3 DEF Out, Strong
<1> QED
  BY <1>2, <1>3

LEMMA OutOfKindNext == TypeOK' => OutByKind'
  BY OutOfKind, PTL

LEMMA AliveColors ==
  ASSUME TypeOK
  PROVE  /\ \A o \in Alive : color[o] \in {white, "gray", "black"}
         /\ \A o \in Obj : color[o] \in {white, "gray", "black"} => o \in Alive
         /\ Alive \subseteq Live
         /\ \A o \in Obj : Dead(o) => color[o] # "free"
  BY DEF TypeOK, Alive, Dead, other, Live

LEMMA InitSafe == Init => HeapInv
<1> SUFFICES ASSUME Init PROVE HeapInv
  OBVIOUS
<1>1. \A o \in Obj : Out(o) = {} /\ (color[o] # "free" => o = Main)
  <2>1. \A o \in Obj : Open(o) = {}
    BY AllKindsDisjoint DEF Init, Open
  <2>2. \A o \in Obj : ref[o] = {} /\ (o \in Table => node[o] = {})
    BY DEF Init
  <2>3. \A o \in Obj : Out(o) = {}
    BY <2>1, <2>2, OutOfKind, InitType DEF OutByKind
  <2> QED
    BY <2>3 DEF Init
<1>2. Main \in Alive /\ \A o \in Obj : ~Dead(o)
  BY KindAssumption, AllKindsDisjoint DEF Init, Alive, Dead, other
<1>3. Shape
  BY AllKindsDisjoint DEF Init, Shape
<1>4. AliveClosed
  BY <1>1, <1>2 DEF Init, AliveClosed, Alive
<1>5. Progress /\ Finalizing /\ TriColour
  BY <1>2, AllKindsDisjoint DEF Init, Progress, Finalizing, TriColour
<1> QED
  BY <1>3, <1>4, <1>5 DEF HeapInv

-----------------------------------------------------------------------------
(* Steps that recolor objects without allocating or freeing any.           *)
Recolored(x) ==
  \/ color'[x] = color[x]
  \/ /\ color[x] # "free"
     /\ \/ color'[x] \in {white, MarkColor(x), TraversedColor(x)}
        \/ x \in Table /\ color'[x] = "gray"

FieldsKept ==
  /\ \A o \in Obj : color[o] = "free" => ref'[o] = {} /\ (o \in Table => node'[o] = {})
  /\ \A s \in String : ref'[s] = {}
  /\ \A f \in Closure : ref'[f] \subseteq Upval

LEMMA ShapeRecolored ==
  ASSUME TypeOK, Shape, UNCHANGED slot, \A x \in Obj : Recolored(x),
         FieldsKept
  PROVE  Shape'
<1>1. \A x \in Obj : color'[x] = "free" <=> color[x] = "free"
  BY ColorsTyped DEF Recolored, TypeOK
<1>2. \A o \in Thread \cup Weak \cup String : color'[o] # "black"
  BY AllKindsDisjoint DEF Recolored, Shape, MarkColor, TraversedColor, TypeOK
<1>3. \A o \in Udata : color'[o] # "gray"
  BY AllKindsDisjoint DEF Recolored, Shape, MarkColor, TraversedColor, TypeOK
<1>4. \A u \in Upval : slot[u] # None => color'[u] # "black"
  BY AllKindsDisjoint DEF Recolored, Shape, MarkColor, TraversedColor, TypeOK
<1>5. \A u \in Upval : color'[u] = "gray" => slot[u] # None
  BY AllKindsDisjoint DEF Recolored, Shape, MarkColor, TraversedColor, TypeOK
<1>6. \A u \in Upval : slot[u] # None => slot[u] \in Obj /\ u \in Obj
  BY AllKindsDisjoint DEF TypeOK
<1> QED
  BY <1>1, <1>2, <1>3, <1>4, <1>5, <1>6 DEF Shape, FieldsKept

LEMMA AliveRecolored ==
  ASSUME TypeOK, UNCHANGED white, \A x \in Obj : Recolored(x)
  PROVE  /\ Alive \subseteq Alive' /\ Live' = Live
         /\ \A x \in Obj : Dead(x)' => Dead(x)
<1>1. \A x \in Obj : color'[x] = "free" <=> color[x] = "free"
  BY ColorsTyped DEF Recolored, TypeOK
<1>2. \A x \in Obj : color'[x] = other => color[x] = other
  BY ColorsTyped DEF Recolored, TypeOK, other
<1> QED
  BY <1>1, <1>2 DEF Alive, Live, Dead, other

LEMMA MarkRecolors ==
  ASSUME NEW S,
         \A x \in Obj : color'[x] = IF x \in MarkedWith(S) THEN MarkColor(x) ELSE color[x]
  PROVE  \A x \in Obj : Recolored(x)
  BY MarkedAreWhite DEF Recolored, White

LEMMA ForwardRecolors ==
  ASSUME TypeOK, NEW o \in Obj, NEW v, Forward(o, v)
  PROVE  \A x \in Obj : Recolored(x)
<1>1. CASE color[o] = "black" /\ v \in White /\ phase = "propagate"
  BY <1>1, MarkRecolors DEF Forward, Mark
<1>2. CASE ~(color[o] = "black" /\ v \in White /\ phase = "propagate")
  BY <1>2 DEF Forward, Recolored, TypeOK
<1> QED
  BY <1>1, <1>2

LEMMA BackRecolors ==
  ASSUME TypeOK, NEW t \in Table, NEW S, Back(t, S)
  PROVE  \A x \in Obj : Recolored(x)
  BY DEF Back, Recolored, TypeOK

(* Program steps change nothing of the collector's but colors.             *)
LEMMA ProgressKept ==
  ASSUME TypeOK, Progress, UNCHANGED Collection,
         \A x \in Obj : Dead(x)' => Dead(x),
         phase # "propagate" => \A x \in Obj :
            color'[x] \in {"gray", "black"} => color[x] \in {"gray", "black"},
         \A u \in Upval : slot'[u] = slot[u] \/ color'[u] \in {white, "free"}
  PROVE  Progress'
<1>1. UNCHANGED <<white, phase, unswept, tmudata>>
  BY DEF Collection
<1>2. \A x \in Obj : color'[x] \in {white, "free"} =>
         ~Dead(x)' /\ color'[x] \notin {"gray", "black"}
  BY <1>1 DEF Dead, other, TypeOK
<1>3. \A x \in Obj : Dead(x)' \/ color'[x] \in {"gray", "black"} =>
         (x \in Upval => slot'[x] = slot[x])
  BY <1>2
<1> QED
  BY <1>1, <1>3 DEF Progress

LEMMA FinalizingKept ==
  ASSUME Finalizing, TypeOK, UNCHANGED <<tmudata, finalized, called>>,
         Alive \cap Udata \subseteq Alive', Live \cap Udata \subseteq Live',
         \A x \in Udata : Dead(x)' => Dead(x)
  PROVE  Finalizing'
  BY KindAssumption DEF Finalizing, TypeOK

LEMMA AliveKept ==
  ASSUME TypeOK, AliveClosed, Alive \subseteq Alive', running' \in Alive',
         \A o \in Alive : Out(o)' \subseteq Out(o) \cup Alive',
         \A o \in Alive' \ Alive : Out(o)' \subseteq Alive',
         phase' = "propagate" => phase = "propagate" /\ color'[Main] = color[Main]
  PROVE  AliveClosed'
  BY DEF AliveClosed

(* While marking, nothing becomes white that a black object refers to: it  *)
(* is enough to look at what changes.                                      *)
LEMMA BlackOut ==
  ASSUME TypeOK, Shape, NEW o \in Obj, color[o] = "black"
  PROVE  /\ o \notin Thread \cup Weak /\ Strong(o) = Out(o)
         /\ o \in Table => Out(o) = UNION {{e.key, e.val} \ {None} : e \in node[o]}
         /\ o \notin Table => Out(o) = ref[o]
  BY OutOfKind DEF Shape, OutByKind

LEMMA TriColourKept ==
  ASSUME TypeOK, TypeOK', Shape, AliveClosed, TriColour,
         UNCHANGED <<phase, white, tmudata>>,
         \A x \in Alive : x \in White' => x \in White,
         \A o \in Obj \ tmudata : phase = "propagate" /\ color'[o] = "black" =>
            \/ color[o] = "black" /\ Out(o)' \subseteq Out(o) \cup (Obj \ White')
            \/ Out(o)' \cap White' = {}
  PROVE  TriColour'
<1> SUFFICES ASSUME phase = "propagate", NEW o \in Obj \ tmudata, color'[o] = "black"
             PROVE  Strong(o)' \cap White' = {}
  BY DEF TriColour
<1>1. Strong(o)' \subseteq Out(o)'
  BY OutOfKindNext DEF OutByKind
<1>2. CASE color[o] = "black" /\ Out(o)' \subseteq Out(o) \cup (Obj \ White')
  <2>1. Out(o) \subseteq Alive
    BY <1>2, AliveColors DEF AliveClosed
  <2>2. Out(o) \cap White = {}
    BY <1>2, BlackOut DEF TriColour
  <2> QED
    BY <1>1, <1>2, <2>1, <2>2
<1>3. CASE Out(o)' \cap White' = {}
  BY <1>1, <1>3
<1> QED
  BY <1>2, <1>3
-----------------------------------------------------------------------------
(* Part 5: the program's steps.                                            *)

LEMMA StackAlive ==
  ASSUME AliveClosed
  PROVE  Stack \subseteq Alive
  BY DEF AliveClosed, Stack

(* Steps that store a reference, and may recolor objects in a barrier.     *)
LEMMA StoreSafe ==
  ASSUME TypeOK, TypeOK', HeapInv, UNCHANGED <<slot, Collection>>, running' \in Alive,
         \A x \in Obj : Recolored(x),
         FieldsKept,
         \A o \in Alive : Out(o)' \subseteq Out(o) \cup Alive',
         \A o \in Alive' \ Alive : Out(o)' \subseteq Alive',
         phase # "propagate" => \A x \in Obj :
            color'[x] \in {"gray", "black"} => color[x] \in {"gray", "black"},
         phase = "propagate" =>
            /\ color'[Main] = color[Main]
            /\ \A x \in Alive : x \in White' => x \in White
            /\ \A o \in Obj \ tmudata : color'[o] = "black" =>
                 \/ color[o] = "black" /\ Out(o)' \subseteq Out(o) \cup (Obj \ White')
                 \/ Out(o)' \cap White' = {}
  PROVE  HeapInv'
<1> USE DEF HeapInv
<1>1. UNCHANGED <<white, phase, tmudata, finalized, called>>
  BY DEF Collection
<1>2. Alive \subseteq Alive' /\ Live' = Live /\ \A x \in Obj : Dead(x)' => Dead(x)
  BY <1>1, AliveRecolored
<1>3. Shape'
  BY ShapeRecolored
<1>4. AliveClosed'
  BY <1>1, <1>2, AliveKept
<1>5. Progress'
  BY <1>2, ProgressKept
<1>6. Finalizing'
  BY <1>1, <1>2, AllKindsDisjoint, FinalizingKept
<1>7. \A x \in Alive : phase = "propagate" /\ x \in White' => x \in White
  OBVIOUS
<1>8. TriColour'
  <2>1. CASE phase = "propagate"
    BY <1>1, <1>3, <2>1, TriColourKept
  <2>2. CASE phase # "propagate"
    BY <1>1, <2>2 DEF TriColour
  <2> QED
    BY <2>1, <2>2
<1> QED
  BY <1>3, <1>4, <1>5, <1>6, <1>8

LEMMA QuietStoreSafe ==
  ASSUME TypeOK, TypeOK', HeapInv, UNCHANGED <<color, slot, Collection>>, running' \in Alive,
         FieldsKept,
         \A o \in Alive : Out(o)' \subseteq Alive /\ (color[o] = "black" => Out(o)' \subseteq Out(o))
  PROVE  HeapInv'
<1>1. Alive' = Alive /\ White' = White
  BY DEF Alive, Dead, other, White, Collection
<1>2. \A o \in Obj : color[o] = "black" => o \in Alive
  BY AliveColors
<1>3. \A x \in Obj : Recolored(x)
  BY DEF Recolored
<1> QED
  BY <1>1, <1>2, <1>3, StoreSafe

(* What changes when one object's references do.                           *)
LEMMA RefChanged ==
  ASSUME TypeOK, TypeOK', UNCHANGED <<node, slot>>, NEW p \in Obj, NEW V,
         ref' = [ref EXCEPT ![p] = V]
  PROVE  /\ \A o \in Obj : Out(o)' \subseteq Out(o) \cup V
         /\ \A o \in Obj : o # p /\ p \notin Open(o) => Out(o)' = Out(o)
         /\ p \notin Thread \cup Table => Out(p)' = V
         /\ \A o \in Obj : o # p => ref'[o] = ref[o]
<1>1. ref'[p] = V /\ \A o \in Obj : o # p => ref'[o] = ref[o]
  BY DEF TypeOK
<1>2. \A o \in Obj : Open(o)' = Open(o) /\ Open(o) \subseteq Obj
  BY AllKindsDisjoint DEF Open
<1>3. OutByKind /\ OutByKind'
  BY OutOfKind, OutOfKindNext
<1>4. ASSUME NEW o \in Obj
      PROVE  /\ Out(o)' \subseteq Out(o) \cup V
             /\ o # p /\ p \notin Open(o) => Out(o)' = Out(o)
  <2>1. CASE o \in Thread
    <3>1. /\ Out(o) = ref[o] \cup UNION {ref[u] : u \in Open(o)}
          /\ Out(o)' = ref'[o] \cup UNION {ref'[u] : u \in Open(o)}
      BY <1>2, <1>3, <2>1 DEF OutByKind
    <3> QED
      BY <1>1, <1>2, <3>1
  <2>2. CASE o \in Table
    BY <1>3, <2>2 DEF OutByKind
  <2>3. CASE o \notin Thread \cup Table
    BY <1>1, <1>3, <2>3 DEF OutByKind
  <2> QED
    BY <2>1, <2>2, <2>3
<1> QED
  BY <1>1, <1>3, <1>4 DEF OutByKind

LEMMA FieldsOfAlive ==
  ASSUME TypeOK, Shape, UNCHANGED node, NEW p \in Alive, p \notin String, NEW V,
         p \in Closure => V \subseteq Upval, ref' = [ref EXCEPT ![p] = V]
  PROVE  FieldsKept
<1>1. \A o \in Obj : ref'[o] = IF o = p THEN V ELSE ref[o]
  BY DEF TypeOK
<1>2. String \subseteq Obj /\ Closure \subseteq Obj
  BY AllKindsDisjoint
<1> QED
  BY <1>1, <1>2 DEF FieldsKept, Shape, Alive

LEMMA PushedOut ==
  ASSUME TypeOK, TypeOK', UNCHANGED <<node, slot>>, NEW x \in Obj, ref' = Pushed(x)
  PROVE  /\ \A o \in Obj : Out(o)' \subseteq Out(o) \cup {x}
         /\ \A o \in Obj : o # running => Out(o)' = Out(o) /\ ref'[o] = ref[o]
<1>1. running \in Thread /\ running \in Obj
  BY AllKindsDisjoint DEF TypeOK
<1>2. ref' = [ref EXCEPT ![running] = ref[running] \cup {x}]
  BY DEF Pushed
<1>3. \A o \in Obj : Out(o)' \subseteq Out(o) \cup (ref[running] \cup {x})
  BY <1>1, <1>2, RefChanged
<1>4. \A o \in Obj : o # running /\ running \notin Open(o) => Out(o)' = Out(o)
  BY <1>1, <1>2, RefChanged
<1>5. \A o \in Obj : running \notin Open(o)
  BY <1>1, AllKindsDisjoint DEF Open
<1>6. ref[running] \subseteq Out(running)
  BY <1>1, OutOfKind DEF OutByKind
<1>7. \A o \in Obj : o # running => ref'[o] = ref[o]
  BY <1>2 DEF TypeOK
<1> QED
  BY <1>1, <1>3, <1>4, <1>5, <1>6, <1>7

LEMMA PushedFields ==
  ASSUME TypeOK, HeapInv, UNCHANGED node, NEW x \in Obj, ref' = Pushed(x)
  PROVE  FieldsKept
<1>1. running \in Alive /\ running \notin String \cup Closure
  BY AllKindsDisjoint DEF HeapInv, AliveClosed, TypeOK
<1> QED
  BY <1>1, FieldsOfAlive DEF Pushed, HeapInv

LEMMA LoadSafe ==
  ASSUME TypeOK, TypeOK', HeapInv, NEW x \in Obj, Load(x)
  PROVE  HeapInv'
<1>1. PICK y \in Stack : x \in Readable(y)
  BY DEF Load
<1>2. Stack \subseteq Alive /\ running \in Alive
  BY StackAlive DEF HeapInv, AliveClosed
<1>3. x \in Alive
  <2>1. CASE y \in Closure
    <3>1. PICK u \in ref[y] : x \in ref[u]
      BY <1>1, <2>1 DEF Readable
    <3>2. y \in Alive /\ Out(y) = ref[y] /\ u \in Upval
      BY <1>2, <2>1, <3>1, AllKindsDisjoint, OutOfKind DEF OutByKind, HeapInv, Shape, Alive
    <3>3. u \in Alive /\ Out(u) = ref[u]
      BY <3>1, <3>2, AllKindsDisjoint, OutOfKind DEF OutByKind, HeapInv, AliveClosed
    <3> QED
      BY <3>1, <3>3 DEF HeapInv, AliveClosed
  <2>2. CASE y \notin Closure
    BY <1>1, <1>2, <2>2 DEF Readable, HeapInv, AliveClosed
  <2> QED
    BY <2>1, <2>2
<1>4. /\ UNCHANGED <<color, slot, node, running, Collection>> /\ ref' = Pushed(x)
  BY DEF Load
<1>5. \A o \in Alive : Out(o)' \subseteq Alive /\ (color[o] = "black" => Out(o)' \subseteq Out(o))
  <2>1. color[running] # "black"
    BY DEF HeapInv, Shape, TypeOK
  <2> QED
    BY <1>2, <1>3, <1>4, <2>1, PushedOut DEF HeapInv, AliveClosed, Alive
<1> QED
  BY <1>2, <1>4, <1>5, PushedFields, QuietStoreSafe

LEMMA PopSafe ==
  ASSUME TypeOK, TypeOK', HeapInv, NEW x \in Obj, Pop(x)
  PROVE  HeapInv'
<1>1. /\ UNCHANGED <<color, slot, node, running, Collection>>
      /\ ref' = [ref EXCEPT ![running] = ref[running] \ {x}]
  BY DEF Pop
<1>2. running \in Alive /\ running \in Obj /\ running \notin String \cup Closure
  BY AllKindsDisjoint DEF HeapInv, AliveClosed, TypeOK, Alive
<1>3. ref[running] \subseteq Out(running) /\ \A o \in Obj : running \notin Open(o)
  BY AllKindsDisjoint, OutOfKind DEF OutByKind, TypeOK, Open
<1>4. \A o \in Alive : Out(o)' \subseteq Out(o)
  BY <1>1, <1>2, <1>3, RefChanged DEF Alive
<1>5. FieldsKept
  BY <1>1, <1>2, FieldsOfAlive DEF HeapInv
<1> QED
  BY <1>1, <1>2, <1>4, <1>5, QuietStoreSafe DEF HeapInv, AliveClosed

LEMMA XMoveSafe ==
  ASSUME TypeOK, TypeOK', HeapInv, NEW t \in Thread, NEW x \in Obj, XMove(t, x)
  PROVE  HeapInv'
<1>1. /\ UNCHANGED <<color, slot, node, running, Collection>>
      /\ ref' = [ref EXCEPT ![t] = ref[t] \cup {x}]
      /\ {t, x} \subseteq Alive
  BY StackAlive DEF XMove, HeapInv
<1>2. running \in Alive /\ t \in Obj /\ t \notin String \cup Closure /\ color[t] # "black"
  BY AllKindsDisjoint DEF HeapInv, AliveClosed, Shape
<1>3. ref[t] \subseteq Out(t) /\ \A o \in Obj : t \notin Open(o)
  BY AllKindsDisjoint, OutOfKind DEF OutByKind, Open
<1>4. \A o \in Alive : Out(o)' \subseteq Out(o) \cup {x} /\ (o # t => Out(o)' = Out(o))
  <2>1. /\ \A o \in Obj : Out(o)' \subseteq Out(o) \cup (ref[t] \cup {x})
        /\ \A o \in Obj : o # t /\ t \notin Open(o) => Out(o)' = Out(o)
    BY <1>1, <1>2, RefChanged
  <2> QED
    BY <1>3, <2>1 DEF Alive
<1>5. FieldsKept
  BY <1>1, <1>2, FieldsOfAlive DEF HeapInv
<1> QED
  BY <1>1, <1>2, <1>4, <1>5, QuietStoreSafe DEF HeapInv, AliveClosed
LEMMA SetLocalSafe ==
  ASSUME TypeOK, TypeOK', HeapInv, NEW u \in Upval, NEW v \in Obj, SetLocal(u, v)
  PROVE  HeapInv'
<1>1. /\ UNCHANGED <<color, slot, node, running, Collection>>
      /\ ref' = [ref EXCEPT ![u] = {v}] /\ slot[u] = running
      /\ v \in Alive
  BY StackAlive DEF SetLocal, HeapInv
<1>2. /\ running \in Alive /\ running \in Thread /\ u \in Obj /\ u \notin String \cup Closure
      /\ None \notin Thread
  BY AllKindsDisjoint DEF HeapInv, AliveClosed, TypeOK
<1>3. color[u] # "free" /\ color[u] # "black"
  BY <1>1, <1>2 DEF HeapInv, Shape
<1>4. /\ \A o \in Obj : Out(o)' \subseteq Out(o) \cup {v}
      /\ \A o \in Obj : o # u /\ u \notin Open(o) => Out(o)' = Out(o)
  BY <1>1, <1>2, RefChanged
<1>5. \A o \in Obj : u \in Open(o) => o = running
  BY <1>1 DEF Open
<1>6. color[running] # "black"
  BY <1>2 DEF HeapInv, Shape
<1>7. \A o \in Alive : Out(o)' \subseteq Alive /\ (color[o] = "black" => Out(o)' \subseteq Out(o))
  BY <1>1, <1>3, <1>4, <1>5, <1>6 DEF HeapInv, AliveClosed, Alive
<1>8. FieldsKept
  <2>1. \A o \in Obj : ref'[o] = IF o = u THEN {v} ELSE ref[o]
    BY <1>1 DEF TypeOK
  <2> QED
    BY <1>1, <1>2, <1>3, <2>1, AllKindsDisjoint DEF FieldsKept, HeapInv, Shape
<1> QED
  BY <1>1, <1>2, <1>7, <1>8, QuietStoreSafe

LEMMA ResumeSafe ==
  ASSUME TypeOK, TypeOK', HeapInv, Yield \/ \E t \in Thread : Resume(t)
  PROVE  HeapInv'
<1>1. UNCHANGED <<ref, node, color, slot, Collection>> /\ running' \in Alive
  BY StackAlive DEF Resume, Yield, HeapInv, AliveClosed
<1>2. \A o \in Obj : Out(o)' = Out(o)
  BY <1>1 DEF Out, Open
<1>3. FieldsKept
  BY <1>1, AllKindsDisjoint DEF FieldsKept, HeapInv, Shape
<1> QED
  BY <1>1, <1>2, <1>3, QuietStoreSafe DEF HeapInv, AliveClosed, Alive

(* What changes when a table's entries do.                                 *)
LEMMA NodeChanged ==
  ASSUME TypeOK, TypeOK', UNCHANGED <<ref, slot>>, NEW t \in Table, NEW N,
         node' = [node EXCEPT ![t] = N]
  PROVE  /\ \A o \in Obj : o # t => Out(o)' = Out(o)
         /\ Out(t)' = UNION {{e.key, e.val} \ {None} : e \in N}
<1>1. node'[t] = N /\ \A o \in Table : o # t => node'[o] = node[o]
  BY DEF TypeOK
<1>2. t \in Obj
  BY AllKindsDisjoint
<1>3. Out(t)' = UNION {{e.key, e.val} \ {None} : e \in N}
  BY <1>1, <1>2, OutOfKindNext DEF OutByKind
<1>4. \A o \in Obj : o # t => Out(o)' = Out(o)
  BY <1>1 DEF Out, Open
<1> QED
  BY <1>3, <1>4

LEMMA ClearTableSafe ==
  ASSUME TypeOK, TypeOK', HeapInv, NEW t \in Table, ClearTable(t)
  PROVE  HeapInv'
<1>1. /\ UNCHANGED <<ref, color, slot, running, Collection>>
      /\ node' = [node EXCEPT ![t] = {}]
  BY DEF ClearTable
<1>2. Out(t)' = {} /\ \A o \in Obj : o # t => Out(o)' = Out(o)
  <2> DEFINE N == {}
  <2>1. node' = [node EXCEPT ![t] = N]
    BY <1>1
  <2> HIDE DEF N
  <2>2. /\ \A o \in Obj : o # t => Out(o)' = Out(o)
        /\ Out(t)' = UNION {{e.key, e.val} \ {None} : e \in N}
    BY <1>1, <2>1, NodeChanged
  <2>3. UNION {{e.key, e.val} \ {None} : e \in {}} = {}
    OBVIOUS
  <2> QED
    BY <2>2, <2>3 DEF N
<1>3. FieldsKept
  BY <1>1, AllKindsDisjoint DEF FieldsKept, HeapInv, Shape, TypeOK
<1> QED
  BY <1>1, <1>2, <1>3, QuietStoreSafe DEF HeapInv, AliveClosed, Alive

LEMMA SetTableSafe ==
  ASSUME TypeOK, TypeOK', HeapInv, NEW t \in Table, NEW k \in Keys \cup {None}, NEW v \in Obj,
         SetTable(t, k, v)
  PROVE  HeapInv'
<1>1. /\ UNCHANGED <<ref, slot, running, Collection>>
      /\ node' = [node EXCEPT ![t] = {[key |-> k, val |-> v]}]
      /\ Back(t, {k, v})
      /\ {t, v} \cup ({k} \ {None}) \subseteq Alive
  BY StackAlive DEF SetTable, HeapInv
<1>2. t \in Obj /\ None \notin Obj /\ running \in Alive
  BY AllKindsDisjoint DEF HeapInv, AliveClosed
<1>3. Out(t)' = {k, v} \ {None} /\ \A o \in Obj : o # t => Out(o)' = Out(o)
  <2>1. /\ Out(t)' = UNION {{e.key, e.val} \ {None} : e \in {[key |-> k, val |-> v]}}
        /\ \A o \in Obj : o # t => Out(o)' = Out(o)
    BY <1>1, NodeChanged
  <2> QED
    BY <2>1
<1>4. \A x \in Obj : Recolored(x)
  BY <1>1, BackRecolors
<1>5. Alive \subseteq Alive'
  BY <1>1, <1>4, AliveRecolored DEF Collection
<1>6. FieldsKept
  BY <1>1, AllKindsDisjoint DEF FieldsKept, HeapInv, Shape, TypeOK, Alive
<1>7. color' = color \/ (color[t] = "black" /\ color' = [color EXCEPT ![t] = "gray"])
  BY <1>1 DEF Back
<1>8. Main # t /\ Main \in Obj
  BY KindAssumption, AllKindsDisjoint
<1>9. \A x \in Obj : x # t => color'[x] = color[x]
  BY <1>7 DEF TypeOK
<1>10. Alive' = Alive /\ White' = White
  BY <1>1, <1>2, <1>7, AliveColors DEF Collection, White, Alive, Dead, other, TypeOK
<1>11. color'[t] = "black" => {k, v} \cap White = {}
  BY <1>1, <1>2 DEF Back, TypeOK
<1>12. Out(t)' \subseteq Alive
  BY <1>1, <1>3
<1>13. \A o \in Obj : color'[o] = "black" =>
            \/ color[o] = "black" /\ Out(o)' \subseteq Out(o) \cup (Obj \ White')
            \/ Out(o)' \cap White' = {}
  <2> SUFFICES ASSUME NEW o \in Obj, color'[o] = "black"
               PROVE  \/ color[o] = "black" /\ Out(o)' \subseteq Out(o) \cup (Obj \ White')
                      \/ Out(o)' \cap White' = {}
    OBVIOUS
  <2>1. CASE o = t
    BY <1>3, <1>10, <1>11, <2>1
  <2>2. CASE o # t
    BY <1>3, <1>9, <2>2
  <2> QED
    BY <2>1, <2>2
<1>14. \A x \in Obj : color'[x] \in {"gray", "black"} => color[x] \in {"gray", "black"}
  BY <1>7, <1>9
<1>15. \A o \in Alive : Out(o)' \subseteq Out(o) \cup Alive'
  BY <1>3, <1>10, <1>12 DEF Alive
<1> QED
  BY <1>1, <1>2, <1>4, <1>6, <1>8, <1>9, <1>10, <1>13, <1>14, <1>15, StoreSafe
(* What a barrier or the propagation marks is complete: a marked object is *)
(* black only when all it refers to is marked.                             *)
LEMMA MarkedBlack ==
  ASSUME TypeOK, Shape, NEW S, NEW o,
         o \in Obj => color[o] \notin {"w0", "w1"} /\ color'[o] \notin {"w0", "w1"},
         \A x \in Obj : x # o =>
            color'[x] = IF x \in MarkedWith(S) THEN MarkColor(x) ELSE color[x]
  PROVE  /\ White' = White \ MarkedWith(S)
         /\ S \cap White' = {}
         /\ \A x \in MarkedWith(S) : color'[x] = "black" => Out(x) \cap White' = {}
<1> DEFINE M == MarkedWith(S)
<1>1. /\ M \subseteq White /\ S \cap White \subseteq M
      /\ \A x \in M : x \in Udata \cup Upval => Strong(x) \cap White \subseteq M
  BY MarkedAreWhite, MarkedIsClosed
<1>2. o \notin M
  BY <1>1 DEF White
<1> HIDE DEF M
<1>3. \A x \in Obj : x # o => color'[x] = IF x \in M THEN MarkColor(x) ELSE color[x]
  BY DEF M
<1>4. White' = White \ M
  BY <1>1, <1>2, <1>3, ColorsTyped DEF White
<1>5. ASSUME NEW x \in M, color'[x] = "black" PROVE Out(x) \cap White' = {}
  <2>1. x \in Obj /\ MarkColor(x) = "black"
    BY <1>1, <1>2, <1>3, <1>5 DEF White
  <2>2. x \in Udata \cup Upval
    BY <2>1 DEF MarkColor
  <2>3. Out(x) = Strong(x)
    BY <2>1, <2>2, AllKindsDisjoint, OutOfKind DEF OutByKind
  <2> QED
    BY <1>1, <1>4, <2>2, <2>3
<1> QED
  BY <1>1, <1>4, <1>5 DEF M

LEMMA ForwardSafe ==
  ASSUME TypeOK, TypeOK', HeapInv, NEW o \in Alive, NEW v \in Alive,
         o \notin Thread \cup Table \cup String, o \in Closure => v \in Upval,
         ref' = [ref EXCEPT ![o] = {v}], Forward(o, v),
         UNCHANGED <<node, slot, running, Collection>>
  PROVE  HeapInv'
<1>1. /\ o \in Obj /\ v \in Obj /\ running \in Alive /\ Main \in Obj
      /\ UNCHANGED <<white, phase, tmudata>>
  BY DEF Alive, HeapInv, AliveClosed, Collection
<1>2. \A x \in Obj : Recolored(x)
  BY <1>1, ForwardRecolors
<1>3. Alive \subseteq Alive' /\ \A x \in Obj : Dead(x)' => Dead(x)
  BY <1>1, <1>2, AliveRecolored
<1>4. FieldsKept
  BY FieldsOfAlive DEF HeapInv
<1>5. /\ \A x \in Obj : Out(x)' \subseteq Out(x) \cup {v}
      /\ \A x \in Obj : x # o /\ o \notin Open(x) => Out(x)' = Out(x)
      /\ Out(o)' = {v}
  BY <1>1, RefChanged
<1>6. \A x \in Obj : x # o /\ color[x] = "black" => Out(x)' = Out(x)
  <2>1. \A x \in Obj : o \in Open(x) => x \in Thread
    BY AllKindsDisjoint DEF Open, TypeOK
  <2> QED
    BY <1>5, <2>1 DEF HeapInv, Shape
<1>7. CASE phase = "propagate" /\ color[o] = "black" /\ v \in White
  <2> DEFINE M == MarkedWith({v})
  <2>1. \A x \in Obj : color'[x] = IF x \in M THEN MarkColor(x) ELSE color[x]
    BY <1>7 DEF Forward, Mark
  <2>2. M \subseteq White /\ o \notin M
    BY <1>7, MarkedAreWhite DEF White
  <2>3. /\ White' = White \ M /\ {v} \cap White' = {}
        /\ \A x \in M : color'[x] = "black" => Out(x) \cap White' = {}
    BY <1>1, <1>7, <2>1, <2>2, MarkedBlack DEF HeapInv
  <2>4. Main \notin M
    BY <1>7, <2>2 DEF HeapInv, AliveClosed, White
  <2>5. \A x \in M : color'[x] = "black" => Out(x)' = Out(x)
    <3> SUFFICES ASSUME NEW x \in M, color'[x] = "black" PROVE Out(x)' = Out(x)
      OBVIOUS
    <3>1. x \in Obj /\ MarkColor(x) = "black"
      BY <2>1, <2>2 DEF White
    <3>2. x \notin Thread
      BY <3>1, AllKindsDisjoint DEF MarkColor
    <3>3. \A y \in Obj : o \in Open(y) => y \in Thread
      BY AllKindsDisjoint DEF Open, TypeOK
    <3> QED
      BY <1>5, <2>2, <3>1, <3>2, <3>3
  <2> HIDE DEF M
  <2>6. \A x \in Obj \ tmudata : color'[x] = "black" =>
            \/ color[x] = "black" /\ Out(x)' \subseteq Out(x) \cup (Obj \ White')
            \/ Out(x)' \cap White' = {}
    BY <1>5, <1>6, <2>1, <2>3, <2>5
  <2>7. /\ color'[Main] = color[Main]
        /\ \A x \in Alive : x \in White' => x \in White
    BY <1>1, <2>1, <2>3, <2>4
  <2>8. Alive' = Alive
    <3>1. Live' = Live /\ Alive' \subseteq Live'
      BY <1>1, <1>2, AliveRecolored DEF Alive, Live
    <3>2. Live \subseteq Alive
      BY <1>7 DEF HeapInv, Progress, Alive, Live
    <3> QED
      BY <1>3, <3>1, <3>2
  <2>9. \A x \in Alive : Out(x)' \subseteq Out(x) \cup Alive'
    BY <1>3, <1>5 DEF Alive
  <2> QED
    BY <1>1, <1>2, <1>4, <1>7, <2>6, <2>7, <2>8, <2>9, StoreSafe
<1>8. CASE ~(phase = "propagate" /\ color[o] = "black" /\ v \in White)
  <2>1. \/ color' = color
        \/ phase # "propagate" /\ color[o] = "black" /\ color' = [color EXCEPT ![o] = white]
    BY <1>8 DEF Forward
  <2>2. Alive' = Alive
    BY <1>1, <2>1, AliveColors DEF Alive, Dead, other, TypeOK
  <2>3. \A x \in Obj : color'[x] \in {"gray", "black"} => color[x] \in {"gray", "black"}
    BY <2>1 DEF TypeOK
  <2>4. phase = "propagate" => color' = color /\ White' = White
    BY <2>1 DEF White
  <2>5. phase = "propagate" => \A x \in Obj : color'[x] = "black" =>
            \/ color[x] = "black" /\ Out(x)' \subseteq Out(x) \cup (Obj \ White')
            \/ Out(x)' \cap White' = {}
    BY <1>5, <1>6, <1>8, <2>4
  <2> QED
    BY <1>1, <1>2, <1>4, <1>5, <2>2, <2>3, <2>4, <2>5, StoreSafe DEF Alive
<1> QED
  BY <1>7, <1>8
LEMMA SetFieldSafe ==
  ASSUME TypeOK, TypeOK', HeapInv, NEW u \in Udata, NEW t \in Table, SetField(u, t)
  PROVE  HeapInv'
<1>1. {u, t} \subseteq Alive /\ u \notin Thread \cup Table \cup String \cup Closure
  BY StackAlive, AllKindsDisjoint DEF SetField, HeapInv
<1> QED
  BY <1>1, ForwardSafe DEF SetField, Collection

(* The barrier of lua_setupvalue is on the wrong object: see TriColour in  *)
(* the run gc_setupvalue.  Without it, the barrier is on the upvalue.      *)
LEMMA SetUpvalSafe ==
  ASSUME TypeOK, TypeOK', HeapInv, "setupvalue" \notin Ops,
         NEW f \in Closure, NEW u \in Upval, NEW v \in Obj, SetUpval(f, u, v)
  PROVE  HeapInv'
<1>1. f \in Alive /\ u \in ref[f] /\ v \in Alive
  BY StackAlive DEF SetUpval, HeapInv
<1>2. Out(f) = ref[f]
  BY AllKindsDisjoint, OutOfKind DEF OutByKind
<1>3. u \in Alive /\ u \notin Thread \cup Table \cup String \cup Closure
  BY <1>1, <1>2, AllKindsDisjoint DEF HeapInv, AliveClosed
<1> QED
  BY <1>1, <1>3, ForwardSafe DEF SetUpval, Collection

LEMMA UpvalueJoinSafe ==
  ASSUME TypeOK, TypeOK', HeapInv, NEW f \in Closure, NEW g \in Closure, NEW u \in Upval,
         UpvalueJoin(f, g, u)
  PROVE  HeapInv'
<1>1. f \in Alive /\ g \in Alive /\ u \in ref[g]
  BY StackAlive DEF UpvalueJoin, HeapInv
<1>2. Out(g) = ref[g] /\ f \notin Thread \cup Table \cup String
  BY AllKindsDisjoint, OutOfKind DEF OutByKind
<1>3. u \in Alive
  BY <1>1, <1>2 DEF HeapInv, AliveClosed
<1> QED
  BY <1>1, <1>2, <1>3, ForwardSafe DEF UpvalueJoin, Collection

(* Steps that allocate the objects of N, or revive those that are dead.    *)
LEMMA AllocSafe ==
  ASSUME TypeOK, TypeOK', HeapInv, UNCHANGED <<node, running, Collection>>,
         NEW N, N \subseteq Obj \ Alive,
         \A x \in Obj : color'[x] = IF x \in N THEN white ELSE color[x],
         \A u \in Upval : slot'[u] = slot[u] \/ (u \in N /\ slot'[u] = running),
         \A o \in Obj \ N : color[o] = "free" => ref'[o] = {},
         \A s \in String : ref'[s] = {},
         \A f \in Closure : ref'[f] \subseteq Upval,
         \A o \in Alive : Out(o)' \subseteq Out(o) \cup Alive',
         \A o \in N : Out(o)' \subseteq Alive',
         \A o \in Obj : color[o] = "black" => Out(o)' = Out(o)
  PROVE  HeapInv'
<1> USE DEF HeapInv
<1>1. UNCHANGED <<white, phase, tmudata, finalized, called>>
  BY DEF Collection
<1>2. white \notin {"free", "gray", "black"}
  BY DEF TypeOK
<1>3. Alive' = Alive \cup N /\ Live \subseteq Live' /\ N \cap Alive = {}
  BY <1>1, <1>2 DEF Alive, Live, Dead, other, TypeOK
<1>4. \A x \in Obj : Dead(x)' => Dead(x)
  BY <1>1, <1>2 DEF Dead, other, TypeOK
<1>5. running \in Alive /\ running \in Obj
  BY DEF AliveClosed, Alive
<1>6. Shape'
  <2>1. Thread \cup Weak \cup String \cup Udata \cup Upval \subseteq Obj
    BY AllKindsDisjoint
  <2>2. \A o \in Thread \cup Weak \cup String : color'[o] # "black"
    BY <1>2, <2>1 DEF Shape
  <2>3. \A o \in Udata : color'[o] # "gray"
    BY <1>2, <2>1 DEF Shape
  <2>4. \A u \in Upval : slot'[u] # None =>
           color'[u] \notin {"free", "black"} /\ color'[slot'[u]] # "free"
    <3> SUFFICES ASSUME NEW u \in Upval, slot'[u] # None
                 PROVE  color'[u] \notin {"free", "black"} /\ color'[slot'[u]] # "free"
      OBVIOUS
    <3>1. \A x \in Obj : color[x] # "free" => color'[x] # "free"
      BY <1>2
    <3>2. CASE slot'[u] = slot[u]
      BY <1>2, <2>1, <3>1, <3>2, AllKindsDisjoint DEF Shape, TypeOK
    <3>3. CASE u \in N /\ slot'[u] = running
      BY <1>2, <1>5, <2>1, <3>1, <3>3 DEF Alive
    <3> QED
      BY <3>2, <3>3
  <2>5. \A u \in Upval : color'[u] = "gray" => slot'[u] # None
    BY <1>2, <2>1 DEF Shape
  <2>6. \A o \in Obj : color'[o] = "free" => ref'[o] = {} /\ (o \in Table => node'[o] = {})
    BY <1>2 DEF Shape
  <2> QED
    BY <2>2, <2>3, <2>4, <2>5, <2>6 DEF Shape
<1>7. AliveClosed'
  <2>1. phase = "propagate" => color'[Main] = color[Main]
    BY <1>3 DEF AliveClosed, Alive
  <2> QED
    BY <1>1, <1>3, <1>5, <2>1, AliveKept
<1>8. Progress'
  <2>1. \A u \in Upval : slot'[u] = slot[u] \/ color'[u] \in {white, "free"}
    BY AllKindsDisjoint
  <2>2. \A x \in Obj : color'[x] \in {"gray", "black"} => color[x] \in {"gray", "black"}
    BY <1>2
  <2> QED
    BY <1>4, <2>1, <2>2, ProgressKept
<1>9. Finalizing'
  BY <1>1, <1>3, <1>4, AllKindsDisjoint, FinalizingKept
<1>10. TriColour'
  <2>1. \A x \in Alive : x \in White' => x \in White
    BY <1>3 DEF White, Alive
  <2>2. \A o \in Obj : color'[o] = "black" => color[o] = "black" /\ Out(o)' = Out(o)
    BY <1>2
  <2> QED
    BY <1>1, <2>1, <2>2, TriColourKept
<1> QED
  BY <1>6, <1>7, <1>8, <1>9, <1>10

LEMMA NewSafe ==
  ASSUME TypeOK, TypeOK', HeapInv, NEW o \in Obj, New(o)
  PROVE  HeapInv'
<1>1. /\ color[o] = "free" /\ o \notin Closure \cup Upval
      /\ color' = [color EXCEPT ![o] = white] /\ ref' = Pushed(o)
      /\ UNCHANGED <<node, slot, running, Collection>>
  BY DEF New
<1>2. running \in Alive /\ running \in Thread /\ running # o
  BY <1>1 DEF HeapInv, AliveClosed, Alive, TypeOK
<1>3. /\ \A x \in Obj : Out(x)' \subseteq Out(x) \cup {o}
      /\ \A x \in Obj : x # running => Out(x)' = Out(x) /\ ref'[x] = ref[x]
  BY <1>1, PushedOut
<1>4. Out(o) = {}
  <2>1. ref[o] = {} /\ (o \in Table => node[o] = {})
    BY <1>1 DEF HeapInv, Shape
  <2>2. Open(o) = {}
    BY <1>1, AllKindsDisjoint DEF HeapInv, Shape, Open
  <2> QED
    BY <2>1, <2>2 DEF Out
<1> DEFINE N == {o}
<1>5. \A x \in Obj : color'[x] = IF x \in N THEN white ELSE color[x]
  BY <1>1 DEF TypeOK
<1>6. N \subseteq Obj \ Alive /\ Alive \subseteq Obj
  BY <1>1 DEF Alive
<1>7. o \in Alive' /\ Alive \subseteq Alive'
  BY <1>1, <1>5, <1>6 DEF Alive, Dead, other, Collection, TypeOK
<1>8. color[running] # "black"
  BY <1>2 DEF HeapInv, Shape
<1>9. FieldsKept
  BY <1>1, PushedFields
<1>10. \A x \in Obj : x \in N <=> x = o
  OBVIOUS
<1> HIDE DEF N
<1> QED
  BY <1>1, <1>2, <1>3, <1>4, <1>5, <1>6, <1>7, <1>8, <1>9, <1>10, AllocSafe DEF FieldsKept

LEMMA InternSafe ==
  ASSUME TypeOK, TypeOK', HeapInv, NEW s \in Obj, Intern(s)
  PROVE  HeapInv'
<1>1. /\ s \in String /\ s \in Live
      /\ color' = [color EXCEPT ![s] = Revived(s)] /\ ref' = Pushed(s)
      /\ UNCHANGED <<node, slot, running, Collection>>
  BY DEF Intern
<1>2. running \in Alive /\ running \in Thread /\ running # s
  BY <1>1, AllKindsDisjoint DEF HeapInv, AliveClosed, TypeOK
<1>3. /\ \A x \in Obj : Out(x)' \subseteq Out(x) \cup {s}
      /\ \A x \in Obj : x # running => Out(x)' = Out(x) /\ ref'[x] = ref[x]
  BY <1>1, PushedOut
<1>4. Out(s) = {}
  BY <1>1, AllKindsDisjoint DEF Out, HeapInv, Shape
<1> DEFINE N == {x \in {s} : Dead(x)}
<1>5. \A x \in Obj : color'[x] = IF x \in N THEN white ELSE color[x]
  BY <1>1 DEF TypeOK, Revived
<1>6. N \subseteq Obj \ Alive /\ Alive \subseteq Obj
  BY <1>1 DEF Alive
<1>7. s \in Alive' /\ Alive \subseteq Alive'
  BY <1>1, <1>5, <1>6 DEF Alive, Dead, other, Collection, TypeOK, Live
<1>8. color[running] # "black"
  BY <1>2 DEF HeapInv, Shape
<1>9. FieldsKept
  BY <1>1, PushedFields
<1>10. N \subseteq {s}
  OBVIOUS
<1> HIDE DEF N
<1> QED
  BY <1>1, <1>2, <1>3, <1>4, <1>5, <1>6, <1>7, <1>8, <1>9, <1>10, AllocSafe DEF FieldsKept
(* A closure has one upvalue: one that the program has, one that is open,  *)
(* dead or not, or a new one for a slot of the running thread's stack.     *)
LEMMA NewClosureSafe ==
  ASSUME TypeOK, TypeOK', HeapInv, NEW f \in Closure, NEW u \in Upval, NEW x \in Obj,
         NewClosure(f, u, x)
  PROVE  HeapInv'
<1>1. /\ color[f] = "free" /\ x \in Alive /\ f \in Obj /\ u \in Obj
      /\ f # u /\ f \notin Thread \cup Table /\ u \notin Thread \cup Table
      /\ UNCHANGED <<node, running, Collection>>
  BY StackAlive, AllKindsDisjoint DEF NewClosure, HeapInv
<1>2. running \in Alive /\ running \in Thread /\ running \in Obj /\ running # f /\ running # u
  BY <1>1, AllKindsDisjoint DEF HeapInv, AliveClosed, Alive, TypeOK
<1>3. /\ color[running] # "black" /\ ref[running] \subseteq Out(running)
      /\ Out(running) \subseteq Alive
  BY <1>2, OutOfKind DEF HeapInv, Shape, AliveClosed, OutByKind
<1> DEFINE N == {y \in {f, u} : color[y] = "free" \/ Dead(y)}
           Same == UNCHANGED slot /\ ref' = [Pushed(f) EXCEPT ![f] = {u}]
           Opened == /\ color[u] = "free" /\ slot' = [slot EXCEPT ![u] = running]
                     /\ ref' = [Pushed(f) EXCEPT ![f] = {u}, ![u] = {x}]
<1>4. /\ \A y \in Obj : color'[y] = IF y \in N THEN white ELSE color[y]
      /\ (Same /\ (u \in Alive \/ slot[u] = running)) \/ Opened
  <2>1. CASE /\ \E g \in Stack \cap Closure : u \in ref[g]
             /\ color' = [color EXCEPT ![f] = white]
             /\ Same
    <3>1. PICK g \in Stack \cap Closure : u \in ref[g]
      BY <2>1
    <3>2. u \in Alive
      BY <3>1, StackAlive, AllKindsDisjoint, OutOfKind DEF OutByKind, HeapInv, AliveClosed
    <3> QED
      BY <1>1, <2>1, <3>2 DEF Alive, TypeOK
  <2>2. CASE /\ slot[u] = running
             /\ color' = [color EXCEPT ![f] = white, ![u] = Revived(u)]
             /\ Same
    <3>1. color[u] # "free"
      BY <1>2, <2>2, AllKindsDisjoint DEF HeapInv, Shape
    <3> QED
      BY <1>1, <2>2, <3>1 DEF Revived, TypeOK
  <2>3. CASE Opened /\ color' = [color EXCEPT ![f] = white, ![u] = white]
    BY <1>1, <2>3 DEF TypeOK
  <2> QED
    BY <2>1, <2>2, <2>3 DEF NewClosure
<1>5. /\ ref'[f] = {u} /\ ref'[running] = ref[running] \cup {f}
      /\ \A y \in Obj \ {f, u, running} : ref'[y] = ref[y]
      /\ ref'[u] = IF Opened THEN {x} ELSE ref[u]
  <2>1. Pushed(f) = [ref EXCEPT ![running] = ref[running] \cup {f}]
    BY DEF Pushed
  <2>2. slot[u] = None => slot' # slot \/ ~Opened
    BY <1>2, AllKindsDisjoint DEF TypeOK
  <2> QED
    BY <1>1, <1>2, <1>4, <2>1 DEF TypeOK
<1>6. /\ f \in N /\ N \subseteq Obj \ Alive /\ Alive \subseteq Obj
      /\ \A y \in Obj : y \in N => y \in {f, u}
      /\ Opened => u \in N
  BY <1>1 DEF Alive
<1>7. Alive \subseteq Alive' /\ {f, u, x} \subseteq Alive'
  <2>1. UNCHANGED white /\ white \notin {"free", other}
    BY <1>1 DEF Collection, TypeOK, other
  <2>2. \A y \in Obj : y \in N \/ y \in Alive => y \in Alive'
    BY <1>4, <2>1 DEF Alive, Dead, other
  <2>3. u \in N \/ u \in Alive
    BY <1>1 DEF Alive
  <2> QED
    BY <1>1, <1>6, <2>2, <2>3
<1>8. slot[u] = running => ref[u] \subseteq Alive
  <2>1. slot[u] = running => u \in Open(running)
    BY DEF Open
  <2> QED
    BY <1>2, <1>3, <2>1, OutOfKind DEF OutByKind
<1>9. \A v \in Upval : slot'[v] = slot[v] \/ (v \in N /\ slot'[v] = running)
  BY <1>4, <1>6 DEF TypeOK
<1>10. \A y \in Obj \ {f, u, running} : y \notin Thread => Out(y)' = Out(y)
  <2>1. \A y \in Obj \ {f, u, running} : y \in Table => node'[y] = node[y]
    BY <1>1
  <2> QED
    BY <1>5, <2>1, OutOfKind, OutOfKindNext DEF OutByKind
<1>11. Out(f)' = {u} /\ Out(u)' = ref'[u]
  BY <1>1, <1>5, OutOfKindNext DEF OutByKind
<1>12. ref'[u] \subseteq Out(u) \cup Alive' /\ (u \in N => ref'[u] \subseteq Alive')
  BY <1>1, <1>4, <1>5, <1>6, <1>7, <1>8, OutOfKind DEF OutByKind
<1>13. \A y \in Alive : y \in Thread => Out(y)' \subseteq Out(y) \cup Alive'
  <2> SUFFICES ASSUME NEW y \in Alive, y \in Thread PROVE Out(y)' \subseteq Out(y) \cup Alive'
    OBVIOUS
  <2>1. Out(y)' = ref'[y] \cup UNION {ref'[v] : v \in Open(y)'}
    BY <1>6, OutOfKindNext DEF OutByKind
  <2>2. Out(y) = ref[y] \cup UNION {ref[v] : v \in Open(y)}
    BY <1>6, OutOfKind DEF OutByKind
  <2>3. ref'[y] \subseteq Out(y) \cup Alive'
    BY <1>1, <1>5, <1>6, <1>7, <2>2
  <2>4. ASSUME NEW v \in Open(y)' PROVE ref'[v] \subseteq Out(y) \cup Alive'
    <3>1. v \in Upval /\ v \in Obj /\ v # f /\ v # running
      BY <1>2, AllKindsDisjoint DEF Open
    <3>2. CASE v = u
      <4>1. CASE Opened
        <5> HIDE DEF Opened
        <5> QED
          BY <1>5, <1>7, <3>2, <4>1
      <4>2. CASE ~Opened
        <5>1. v \in Open(y) /\ ref'[v] = ref[v]
          BY <1>4, <1>5, <2>4, <3>1, <3>2, <4>2 DEF Open
        <5> QED
          BY <2>2, <5>1
      <4> QED
        BY <4>1, <4>2
    <3>3. CASE v # u
      <4>1. v \in Open(y) /\ ref'[v] = ref[v]
        BY <1>5, <1>6, <1>9, <2>4, <3>1, <3>3 DEF Open
      <4> QED
        BY <2>2, <4>1
    <3> QED
      BY <3>2, <3>3
  <2> QED
    BY <2>1, <2>3, <2>4
<1>14. \A y \in Alive : Out(y)' \subseteq Out(y) \cup Alive'
  BY <1>2, <1>6, <1>7, <1>10, <1>11, <1>12, <1>13
<1>15. \A y \in N : Out(y)' \subseteq Alive'
  BY <1>6, <1>7, <1>11, <1>12
<1>16. \A y \in Obj : color[y] = "black" => Out(y)' = Out(y)
  <2> SUFFICES ASSUME NEW y \in Obj, color[y] = "black" PROVE Out(y)' = Out(y)
    OBVIOUS
  <2>1. y # f /\ y # running /\ y \notin Thread
    BY <1>1, <1>3 DEF HeapInv, Shape
  <2>2. CASE y # u
    BY <1>10, <2>1, <2>2
  <2>3. CASE y = u
    <3>1. ~Opened
      BY <2>3
    <3> QED
      BY <1>1, <1>5, <1>11, <2>3, <3>1, OutOfKind DEF OutByKind
  <2> QED
    BY <2>2, <2>3
<1>17. /\ \A y \in Obj \ N : color[y] = "free" => ref'[y] = {}
       /\ \A s \in String : ref'[s] = {}
       /\ \A g \in Closure : ref'[g] \subseteq Upval
  <2>1. \A y \in Obj \ N : y # f /\ (color[y] = "free" => y # u /\ y # running)
    BY <1>2, <1>6 DEF Alive
  <2>2. \A y \in Obj \ N : color[y] = "free" => ref'[y] = {}
    BY <1>5, <2>1 DEF HeapInv, Shape
  <2>3. \A s \in String : s \in Obj /\ s \notin {f, u, running}
    BY <1>2, AllKindsDisjoint
  <2>4. \A g \in Closure : g \in Obj /\ g # u /\ g # running
    BY <1>2, AllKindsDisjoint
  <2> QED
    BY <1>5, <2>2, <2>3, <2>4 DEF HeapInv, Shape
<1> HIDE DEF N, Same, Opened
<1> QED
  BY <1>1, <1>4, <1>6, <1>9, <1>14, <1>15, <1>16, <1>17, AllocSafe
(* An open upvalue that goes out of scope is freed if the last mark left   *)
(* it behind; if marking has seen it, it is black from now on and what it  *)
(* refers to is marked with it.                                            *)
LEMMA CloseUpvalSafe ==
  ASSUME TypeOK, TypeOK', HeapInv, NEW u \in Upval, CloseUpval(u)
  PROVE  HeapInv'
<1> USE DEF HeapInv
<1>1. /\ slot[u] = running /\ slot' = [slot EXCEPT ![u] = None] /\ u \in Obj
      /\ UNCHANGED <<node, running, white, phase, unswept, tmudata, finalized, called, Collection>>
  BY AllKindsDisjoint DEF CloseUpval, Collection
<1>2. /\ running \in Alive /\ running \in Thread /\ running \in Obj /\ Main \in Alive
      /\ Main \in Obj /\ Main \in Thread /\ Main # u /\ running # u
  BY AllKindsDisjoint, KindAssumption DEF AliveClosed, Alive, TypeOK
<1>3. color[u] \notin {"free", "black"}
  BY <1>1, <1>2, AllKindsDisjoint DEF Shape
<1>4. \A v \in Upval : slot'[v] = IF v = u THEN None ELSE slot[v]
  BY <1>1 DEF TypeOK
<1> DEFINE M == MarkedWith(ref[u])
           Marks == phase = "propagate" /\ color[u] = "gray"
<1>5. \/ /\ Dead(u) /\ color' = [color EXCEPT ![u] = "free"]
         /\ ref' = [ref EXCEPT ![u] = {}] /\ ~Marks
      \/ /\ ref' = ref /\ ~Dead(u) /\ ~Marks
         /\ IF color[u] # "gray" THEN color' = color ELSE color' = [color EXCEPT ![u] = white]
      \/ /\ ref' = ref /\ ~Dead(u) /\ Marks
         /\ color' = [x \in Obj |-> IF x = u THEN "black"
                                    ELSE IF x \in M THEN MarkColor(x) ELSE color[x]]
  BY DEF CloseUpval, LinkUpval, Dead, other
<1>6. M \subseteq White
  BY MarkedAreWhite
<1>7. /\ \A x \in Obj : x # u => color'[x] = IF Marks /\ x \in M THEN MarkColor(x) ELSE color[x]
      /\ color'[u] = IF Dead(u) THEN "free" ELSE IF Marks THEN "black" ELSE white
      /\ Marks => ~Dead(u)
  <2>1. ~Dead(u) /\ color[u] # "gray" => color[u] = white
    BY <1>1, <1>3 DEF Dead, other, TypeOK
  <2> HIDE DEF M
  <2> QED
    BY <1>1, <1>5, <2>1 DEF TypeOK
<1>8. \A x \in Obj : ref'[x] = IF x = u /\ Dead(u) THEN {} ELSE ref[x]
  BY <1>5 DEF TypeOK
<1> HIDE DEF M
<1>9. /\ \A o \in Obj : Out(o)' \subseteq Out(o)
      /\ \A o \in Obj : o \notin Thread /\ ~(o = u /\ Dead(u)) => Out(o)' = Out(o)
  <2> SUFFICES ASSUME NEW o \in Obj
               PROVE  /\ Out(o)' \subseteq Out(o)
                      /\ o \notin Thread /\ ~(o = u /\ Dead(u)) => Out(o)' = Out(o)
    OBVIOUS
  <2>1. OutByKind /\ OutByKind'
    BY OutOfKind, OutOfKindNext
  <2>2. CASE o \in Thread
    <3>1. /\ Out(o) = ref[o] \cup UNION {ref[v] : v \in Open(o)}
          /\ Out(o)' = ref'[o] \cup UNION {ref'[v] : v \in Open(o)'}
      BY <2>1, <2>2 DEF OutByKind
    <3>2. Open(o)' \subseteq Open(o) /\ Open(o) \subseteq Obj
      BY <1>4, <2>2, AllKindsDisjoint DEF Open
    <3>3. \A x \in Obj : ref'[x] \subseteq ref[x]
      BY <1>8
    <3> QED
      BY <2>2, <3>1, <3>2, <3>3
  <2>3. CASE o \in Table
    BY <1>1, <2>1, <2>3, AllKindsDisjoint DEF OutByKind
  <2>4. CASE o \notin Thread \cup Table
    BY <1>8, <2>1, <2>4 DEF OutByKind
  <2> QED
    BY <2>2, <2>3, <2>4
<1>10. Alive' = Alive /\ Live \cap Udata \subseteq Live'
  <2>1. \A x \in Obj : x # u /\ Marks /\ x \in M => color[x] \in {"w0", "w1"} /\ ~Dead(x)
    BY <1>6 DEF White, Progress
  <2>2. \A x \in Obj : x # u => (x \in Alive <=> x \in Alive')
    BY <1>1, <1>7, <2>1, ColorsTyped DEF Alive, Dead, other, TypeOK
  <2>3. u \in Alive <=> u \in Alive'
    BY <1>1, <1>3, <1>7 DEF Alive, Dead, other, TypeOK
  <2>4. \A x \in Obj : x # u /\ color[x] # "free" => color'[x] # "free"
    BY <1>7, ColorsTyped
  <2> QED
    BY <2>2, <2>3, <2>4, AllKindsDisjoint DEF Alive, Live
<1>11. Shape'
  <2>1. \A x \in Obj : x # u => color'[x] = color[x] \/ (color[x] # "free" /\ color'[x] = MarkColor(x))
    BY <1>6, <1>7 DEF White
  <2>2. \A o \in Thread \cup Weak \cup String : color'[o] # "black"
    BY <2>1, AllKindsDisjoint DEF Shape, MarkColor
  <2>3. \A o \in Udata : color'[o] # "gray"
    BY <2>1, AllKindsDisjoint DEF Shape, MarkColor
  <2>4. \A v \in Upval : v # u => slot'[v] = slot[v] /\ v \in Obj
    BY <1>4, AllKindsDisjoint
  <2>5. \A v \in Upval : slot'[v] # None =>
           color'[v] \notin {"free", "black"} /\ color'[slot'[v]] # "free"
    <3> SUFFICES ASSUME NEW v \in Upval, slot'[v] # None
                 PROVE  color'[v] \notin {"free", "black"} /\ color'[slot'[v]] # "free"
      OBVIOUS
    <3>1. v # u /\ slot[v] # None /\ slot'[v] = slot[v] /\ v \in Obj
      BY <1>4, <2>4
    <3>2. slot[v] \in Obj /\ slot[v] # u
      BY <3>1, AllKindsDisjoint DEF TypeOK
    <3>3. color[v] \notin {"free", "black"} /\ color[slot[v]] # "free"
      BY <3>1 DEF Shape
    <3>4. MarkColor(v) = "gray" /\ MarkColor(slot[v]) # "free"
      BY <3>1, ColorsTyped, AllKindsDisjoint DEF MarkColor
    <3> QED
      BY <2>1, <3>1, <3>2, <3>3, <3>4
  <2>6. \A v \in Upval : color'[v] = "gray" => slot'[v] # None
    <3>1. color'[u] # "gray"
      BY <1>7 DEF TypeOK
    <3> QED
      BY <2>1, <2>4, <3>1 DEF Shape, MarkColor
  <2>7. \A o \in Obj : color'[o] = "free" => ref'[o] = {} /\ (o \in Table => node'[o] = {})
    <3>1. color'[u] = "free" => Dead(u) /\ u \notin Table
      BY <1>7, AllKindsDisjoint DEF TypeOK
    <3> QED
      BY <1>1, <1>8, <2>1, <3>1, ColorsTyped DEF Shape
  <2>8. \A s \in String : ref'[s] = {}
    BY <1>8, AllKindsDisjoint DEF Shape
  <2>9. \A f \in Closure : ref'[f] \subseteq Upval
    BY <1>8, AllKindsDisjoint DEF Shape
  <2> QED
    BY <2>2, <2>3, <2>5, <2>6, <2>7, <2>8, <2>9 DEF Shape
<1>12. AliveClosed'
  <2>1. phase = "propagate" => color'[Main] = color[Main]
    BY <1>2, <1>6, <1>7 DEF AliveClosed, White
  <2> QED
    BY <1>1, <1>2, <1>9, <1>10, <2>1, AliveKept DEF Alive
<1>13. Finalizing'
  <2>1. \A x \in Udata : Dead(x)' => Dead(x)
    BY <1>1, <1>7, AllKindsDisjoint, ColorsTyped DEF Dead, other, TypeOK
  <2> QED
    BY <1>1, <1>10, <2>1, FinalizingKept
<1>14. CASE phase = "propagate"
  <2>1. Progress'
    <3>1. \A x \in Obj : ~Dead(x)'
      BY <1>1, <1>7, <1>14, ColorsTyped DEF Progress, Dead, other, TypeOK
    <3> QED
      BY <1>1, <1>14, <3>1 DEF Progress
  <2>2. ~Dead(u)
    BY <1>1, <1>14 DEF Progress
  <2>3. CASE Marks
    <3>1. /\ White' = White \ M /\ ref[u] \cap White' = {}
          /\ \A x \in M : color'[x] = "black" => Out(x) \cap White' = {}
      <4>1. \A x \in Obj : x # u => color'[x] = IF x \in M THEN MarkColor(x) ELSE color[x]
        BY <1>7, <2>3
      <4> QED
        BY <1>7, <2>2, <2>3, <4>1, MarkedBlack DEF M
    <3>2. \A o \in Obj : color'[o] = "black" =>
            \/ color[o] = "black" /\ Out(o)' \subseteq Out(o) \cup (Obj \ White')
            \/ Out(o)' \cap White' = {}
      <4>1. Out(u)' = ref[u]
        BY <1>1, <1>8, <2>2, AllKindsDisjoint, OutOfKindNext DEF OutByKind
      <4> QED
        BY <1>7, <1>9, <3>1, <4>1
    <3> QED
      BY <1>1, <1>11, <1>12, <1>13, <2>1, <3>1, <3>2, TriColourKept
  <2>4. CASE ~Marks
    <3>1. \A o \in Obj : color'[o] = "black" => color[o] = "black"
      BY <1>7, <2>2, <2>4 DEF TypeOK
    <3>2. \A x \in Alive : x \in White' => x \in White
      BY <1>1, <1>7, <2>2, <2>4, <1>3, <1>14 DEF White, Alive, TypeOK
    <3>3. TriColour'
      BY <1>1, <1>9, <3>1, <3>2, TriColourKept
    <3> QED
      BY <1>11, <1>12, <1>13, <2>1, <3>3
  <2> QED
    BY <2>3, <2>4
<1>15. CASE phase # "propagate"
  <2>1. Progress'
    <3>1. \A x \in Obj : Dead(x)' => Dead(x)
      BY <1>1, <1>7, <1>15 DEF Dead, other, TypeOK
    <3>2. \A x \in Obj : color'[x] \in {"gray", "black"} => color[x] \in {"gray", "black"}
      BY <1>7, <1>15 DEF TypeOK
    <3>3. \A v \in Upval : slot'[v] = slot[v] \/ color'[v] \in {white, "free"}
      BY <1>4, <1>7, <1>15
    <3> QED
      BY <1>1, <3>1, <3>2, <3>3, ProgressKept
  <2>2. TriColour'
    BY <1>1, <1>15 DEF TriColour
  <2> QED
    BY <1>11, <1>12, <1>13, <2>1, <2>2
<1> QED
  BY <1>14, <1>15
(* luaC_fullgc starts by giving up a mark or going on with a sweep.        *)
LEMMA StartFullSafe ==
  ASSUME TypeOK, TypeOK', HeapInv, StartFull
  PROVE  HeapInv'
<1> USE DEF HeapInv
<1>1. /\ UNCHANGED <<ref, node, slot, running, color, white, tmudata, finalized, called>>
      /\ \/ /\ phase \in {"pause", "propagate"} /\ phase' = "sweepstring"
            /\ unswept' = Live \ (tmudata \cup {u \in Upval : slot[u] # None})
         \/ UNCHANGED <<phase, unswept>>
  BY DEF StartFull, data, lists
<1>2. /\ Alive' = Alive /\ Live' = Live /\ White' = White
      /\ \A o \in Obj : Out(o)' = Out(o) /\ Dead(o)' = Dead(o) /\ Strong(o)' = Strong(o)
  BY <1>1 DEF Alive, Live, White, Out, Strong, Dead, other, Open
<1>3. Shape' /\ Finalizing' /\ AliveClosed'
  <2>1. Shape' /\ AliveClosed'
    BY <1>1, <1>2 DEF Shape, AliveClosed, Alive
  <2>2. Finalizing'
    BY <1>1, <1>2, AllKindsDisjoint DEF Finalizing
  <2> QED
    BY <2>1, <2>2
<1>4. TriColour'
  BY <1>1, <1>2 DEF TriColour
<1>5. Progress'
  <2>1. CASE phase \in {"pause", "propagate"} /\ phase' = "sweepstring"
    <3>1. \A o \in Obj : ~Dead(o)
      BY <2>1 DEF Progress
    <3>2. \A u \in Upval : slot[u] # None =>
             slot[u] \in Thread /\ slot[u] \in Live /\ slot[u] \notin tmudata \cup Upval
      BY AllKindsDisjoint, KindAssumption DEF Shape, TypeOK, Live
    <3>3. \A o \in Obj : color[o] \in {"gray", "black"} =>
             \/ o \in unswept'
             \/ o \in Upval /\ slot[o] \in unswept'
             \/ o \in tmudata
      BY <1>1, <2>1, <3>2 DEF Live
    <3> QED
      BY <1>1, <1>2, <2>1, <3>1, <3>3 DEF Progress
  <2>2. CASE UNCHANGED <<phase, unswept>>
    BY <1>1, <1>2, <2>2 DEF Progress
  <2> QED
    BY <1>1, <2>1, <2>2
<1> QED
  BY <1>3, <1>4, <1>5

LEMMA FinalizerReturnsSafe ==
  ASSUME HeapInv, FinalizerReturns
  PROVE  HeapInv'
  BY DEF FinalizerReturns, data, lists, HeapInv, Shape, AliveClosed, Progress, Finalizing,
         TriColour, Alive, Live, White, Out, Strong, Dead, other, Open

LEMMA ProgramSafe ==
  ASSUME TypeOK, TypeOK', HeapInv, "setupvalue" \notin Ops, Program
  PROVE  HeapInv'
<1>1. ASSUME NEW o \in Obj, New(o) \/ Intern(o) \/ Load(o) \/ Pop(o) PROVE HeapInv'
  BY <1>1, NewSafe, InternSafe, LoadSafe, PopSafe
<1>2. ASSUME NEW f \in Closure, NEW u \in Upval, NEW x \in Obj,
             NewClosure(f, u, x) \/ SetUpval(f, u, x)
      PROVE  HeapInv'
  BY <1>2, NewClosureSafe, SetUpvalSafe
<1>3. ASSUME NEW f \in Closure, NEW g \in Closure, NEW u \in Upval, UpvalueJoin(f, g, u)
      PROVE  HeapInv'
  BY <1>3, UpvalueJoinSafe
<1>4. ASSUME NEW t \in Table, NEW k \in Keys \cup {None}, NEW v \in Obj, SetTable(t, k, v)
      PROVE  HeapInv'
  BY <1>4, SetTableSafe
<1>5. ASSUME NEW t \in Table, ClearTable(t) PROVE HeapInv'
  BY <1>5, ClearTableSafe
<1>6. ASSUME NEW u \in Udata, NEW t \in Table, SetField(u, t) PROVE HeapInv'
  BY <1>6, SetFieldSafe
<1>7. ASSUME NEW u \in Upval, NEW v \in Obj, SetLocal(u, v) PROVE HeapInv'
  BY <1>7, SetLocalSafe
<1>8. ASSUME NEW u \in Upval, CloseUpval(u) PROVE HeapInv'
  BY <1>8, CloseUpvalSafe
<1>9. ASSUME NEW t \in Thread, NEW x \in Obj, XMove(t, x) PROVE HeapInv'
  BY <1>9, XMoveSafe
<1>10. CASE Yield \/ \E t \in Thread : Resume(t)
  BY <1>10, ResumeSafe
<1>11. CASE StartFull
  BY <1>11, StartFullSafe
<1>12. CASE FinalizerReturns
  BY <1>12, FinalizerReturnsSafe
<1> QED
  BY <1>1, <1>2, <1>3, <1>4, <1>5, <1>6, <1>7, <1>8, <1>9, <1>10, <1>11, <1>12 DEF Program
-----------------------------------------------------------------------------
(* Part 6: the collector's steps.                                          *)

(* What is marked while there is no dead object was white, and is alive.   *)
LEMMA MarkingKeepsAlive ==
  ASSUME TypeOK, UNCHANGED white, \A x \in Obj : ~Dead(x), \A x \in Obj : Recolored(x)
  PROVE  /\ Alive' = Alive /\ Live' = Live
         /\ \A x \in Obj : ~Dead(x)'
<1>1. Alive \subseteq Alive' /\ Live' = Live /\ \A x \in Obj : ~Dead(x)'
  BY AliveRecolored
<1>2. Alive = Live /\ Alive' = Live'
  BY <1>1 DEF Alive, Live
<1> QED
  BY <1>1, <1>2

LEMMA MarkRootSafe ==
  ASSUME TypeOK, TypeOK', HeapInv, MarkRoot, phase \in {"pause", "finalize"}
  PROVE  HeapInv'
<1> USE DEF HeapInv
<1> DEFINE M == MarkedWith({Main})
<1>1. /\ \A x \in Obj : color'[x] = IF x \in M THEN MarkColor(x) ELSE color[x]
      /\ phase' = "propagate"
      /\ UNCHANGED <<ref, node, slot, running, white, unswept, tmudata, finalized, called>>
  BY DEF MarkRoot, data
<1>2. \A x \in Obj : Recolored(x)
  BY <1>1, MarkRecolors
<1>3. \A x \in Obj : ~Dead(x)
  BY DEF Progress
<1>4. Alive' = Alive /\ Live' = Live /\ \A x \in Obj : ~Dead(x)'
  BY <1>1, <1>2, <1>3, MarkingKeepsAlive
<1>5. \A o \in Obj : Out(o)' = Out(o) /\ Strong(o)' = Strong(o)
  BY <1>1 DEF Out, Strong, Open
<1>6. color'[Main] = "gray"
  <2>1. Main \in Alive /\ Main \in Linked /\ Main \notin tmudata /\ Main \in Obj
    BY KindAssumption, AllKindsDisjoint DEF AliveClosed, Alive, TypeOK
  <2>2. color[Main] \notin {"gray", "black"}
    BY <2>1 DEF Progress
  <2>3. Main \in White
    BY <2>1, <2>2 DEF White, Alive, TypeOK
  <2>4. Main \in M /\ MarkColor(Main) = "gray"
    BY <2>1, <2>3, LinkedColors, MarkedIsClosed
  <2> QED
    BY <1>1, <2>1, <2>4
<1>7. Shape'
  <2>1. FieldsKept
    BY <1>1, AllKindsDisjoint DEF FieldsKept, Shape
  <2> QED
    BY <1>1, <1>2, <2>1, ShapeRecolored
<1>8. AliveClosed'
  BY <1>1, <1>4, <1>5, <1>6 DEF AliveClosed, Alive
<1>9. Progress' /\ Finalizing'
  BY <1>1, <1>4, AllKindsDisjoint, FinalizingKept DEF Progress
<1>10. TriColour'
  <2>1. /\ White' = White \ M
        /\ \A x \in M : color'[x] = "black" => Out(x) \cap White' = {}
    <3>1. \A x \in Obj : x # None => color'[x] = IF x \in M THEN MarkColor(x) ELSE color[x]
      BY <1>1
    <3>2. None \notin Obj
      BY AllKindsDisjoint
    <3>3. /\ White' = White \ MarkedWith({Main})
          /\ \A x \in MarkedWith({Main}) : color'[x] = "black" => Out(x) \cap White' = {}
      BY <3>1, <3>2, MarkedBlack
    <3> QED
      BY <3>3
  <2>2. \A o \in Obj \ tmudata : color'[o] = "black" => o \in M
    BY <1>1 DEF Progress
  <2>3. \A o \in Obj : Strong(o) \subseteq Out(o)
    BY OutOfKind DEF OutByKind
  <2> QED
    BY <1>1, <1>5, <2>1, <2>2, <2>3 DEF TriColour
<1> QED
  BY <1>7, <1>8, <1>9, <1>10

LEMMA PropagateSafe ==
  ASSUME TypeOK, TypeOK', HeapInv, ListInv, NEW o \in Obj, PropagateMark(o)
  PROVE  HeapInv'
<1> USE DEF HeapInv
<1> DEFINE M == MarkedWith(Strong(o))
<1>1. /\ \A x \in Obj : color'[x] = IF x = o THEN TraversedColor(o)
                                    ELSE IF x \in M THEN MarkColor(x) ELSE color[x]
      /\ phase = "propagate" /\ o \in gray
      /\ UNCHANGED <<ref, node, slot, running, white, phase, unswept, tmudata, finalized, called>>
  BY DEF PropagateMark, data
<1>2. o \in Linked /\ color[o] = "gray"
  BY <1>1 DEF ListInv, LinkedOnce
<1>3. M \subseteq White /\ o \notin M
  BY <1>2, MarkedAreWhite DEF White
<1>4. \A x \in Obj : Recolored(x)
  BY <1>1, <1>2, <1>3 DEF Recolored, White
<1>5. \A x \in Obj : ~Dead(x)
  BY <1>1 DEF Progress
<1>6. Alive' = Alive /\ Live' = Live /\ \A x \in Obj : ~Dead(x)'
  BY <1>1, <1>4, <1>5, MarkingKeepsAlive
<1>7. \A x \in Obj : Out(x)' = Out(x) /\ Strong(x)' = Strong(x)
  BY <1>1 DEF Out, Strong, Open
<1>8. Shape'
  <2>1. FieldsKept
    BY <1>1, AllKindsDisjoint DEF FieldsKept, Shape
  <2> QED
    BY <1>1, <1>4, <2>1, ShapeRecolored
<1>9. color'[Main] = "gray"
  <2>1. Main \in Linked /\ Main \in Thread /\ Main \in Obj /\ Main \notin M
    BY <1>1, <1>3, KindAssumption, AllKindsDisjoint DEF AliveClosed, White
  <2> QED
    BY <1>1, <2>1, LinkedColors DEF AliveClosed
<1>10. AliveClosed'
  BY <1>1, <1>6, <1>7, <1>9 DEF AliveClosed, Alive
<1>11. Progress' /\ Finalizing'
  BY <1>1, <1>6, AllKindsDisjoint, FinalizingKept DEF Progress
<1>12. TriColour'
  <2>1. /\ White' = White \ M /\ Strong(o) \cap White' = {}
        /\ \A x \in M : color'[x] = "black" => Out(x) \cap White' = {}
    BY <1>1, <1>2, ColorsTyped, MarkedBlack
  <2>2. \A x \in Obj : Strong(x) \subseteq Out(x)
    BY OutOfKind DEF OutByKind
  <2> QED
    BY <1>1, <1>7, <2>1, <2>2 DEF TriColour
<1> QED
  BY <1>8, <1>10, <1>11, <1>12

LEMMA EndSafe ==
  ASSUME HeapInv, EndSweep \/ EndCycle
  PROVE  HeapInv'
<1>1. UNCHANGED <<data, color, white, unswept, tmudata, finalized, called>>
  BY DEF EndSweep, EndCycle, lists
<1>2. /\ Alive' = Alive /\ Live' = Live
      /\ \A o \in Obj : Out(o)' = Out(o) /\ Dead(o)' = Dead(o)
  BY <1>1 DEF Alive, Live, Out, Dead, other, Open, data
<1>3. phase' # "propagate"
  BY DEF EndSweep, EndCycle
<1>4. Shape' /\ Finalizing' /\ TriColour' /\ AliveClosed'
  <2>1. Shape' /\ Finalizing' /\ TriColour'
    BY <1>1, <1>2, <1>3, AllKindsDisjoint DEF HeapInv, Shape, Finalizing, TriColour, data
  <2>2. Alive \subseteq Obj
    BY DEF Alive
  <2> QED
    BY <1>1, <1>2, <1>3, <2>1, <2>2 DEF HeapInv, AliveClosed, data
<1>5. Progress'
  BY <1>1, <1>2 DEF HeapInv, Progress, EndSweep, EndCycle, data
<1> QED
  BY <1>4, <1>5 DEF HeapInv

LEMMA FinalizerSafe ==
  ASSUME TypeOK, TypeOK', HeapInv, NEW u \in Obj, GCTM(u)
  PROVE  HeapInv'
<1> USE DEF HeapInv
<1>1. /\ phase = "finalize" /\ phase' = phase /\ u \in tmudata /\ tmudata' = tmudata \ {u}
      /\ color' = [color EXCEPT ![u] = white] /\ ref' = Pushed(u) /\ called' = called \cup {u}
      /\ UNCHANGED <<node, slot, running, white, unswept, finalized>>
  BY DEF GCTM, lists, Pushed
<1>2. u \in Alive /\ u \in finalized
  BY <1>1 DEF Finalizing
<1>3. \A x \in Obj : Recolored(x) /\ ~Dead(x)
  BY <1>1, <1>2 DEF Recolored, Alive, TypeOK, Progress
<1>4. Alive' = Alive /\ Live' = Live /\ \A x \in Obj : ~Dead(x)'
  BY <1>1, <1>3, MarkingKeepsAlive
<1>5. Shape'
  BY <1>1, <1>3, PushedFields, ShapeRecolored
<1>6. AliveClosed'
  BY <1>1, <1>2, <1>4, PushedOut DEF AliveClosed, Alive
<1>7. Progress'
  <2>1. \A x \in Obj : color'[x] \in {"gray", "black"} => x \in tmudata'
    BY <1>1 DEF Progress, TypeOK
  <2> QED
    BY <1>1, <1>4, <2>1 DEF Progress
<1>8. Finalizing'
  BY <1>1, <1>2, <1>4, AllKindsDisjoint DEF Finalizing, Alive, Live
<1>9. TriColour'
  BY <1>1 DEF TriColour
<1> QED
  BY <1>5, <1>6, <1>7, <1>8, <1>9
(* What the sweep has yet to visit is allocated, and no open upvalue is in *)
(* it: an object is swept once.                                            *)
SweepList ==
  /\ unswept \subseteq Live
  /\ \A u \in Upval : slot[u] # None => u \notin unswept

LEMMA SweepListKept ==
  ASSUME TypeOK, SweepList, UNCHANGED unswept,
         \A x \in Obj : x \in unswept /\ color[x] # "free" => color'[x] # "free",
         \A u \in Upval : slot'[u] \in {slot[u], None} \/ color[u] = "free"
  PROVE  SweepList'
  BY DEF SweepList, Live, TypeOK

LEMMA InitSweepList == Init => SweepList
  BY DEF Init, SweepList

LEMMA ProgramSweepList ==
  ASSUME TypeOK, SweepList, Program
  PROVE  SweepList'
<1> DEFINE Quiet == /\ UNCHANGED unswept
                    /\ \A x \in Obj : x \in unswept /\ color[x] # "free" => color'[x] # "free"
                    /\ \A u \in Upval : slot'[u] \in {slot[u], None} \/ color[u] = "free"
<1>0. Quiet => SweepList'
  BY SweepListKept
<1> USE DEF Collection
<1>a. white # "free"
  BY DEF TypeOK
<1>b. ASSUME NEW S, Mark(S) PROVE \A x \in Obj : color[x] # "free" => color'[x] # "free"
  BY <1>b, ColorsTyped DEF Mark
<1>c. ASSUME NEW o, NEW v, Forward(o, v)
      PROVE  \A x \in Obj : color[x] # "free" => color'[x] # "free"
  BY <1>a, <1>b, <1>c DEF Forward, TypeOK
<1>1. ASSUME NEW o \in Obj, New(o) \/ Intern(o) \/ Load(o) \/ Pop(o) PROVE SweepList'
  <2>1. Quiet
    BY <1>1, <1>a DEF New, Intern, Load, Pop, Revived, TypeOK
  <2> QED
    BY <2>1, <1>0
<1>2. ASSUME NEW f \in Closure, NEW u \in Upval, NEW x \in Obj,
             NewClosure(f, u, x) \/ SetUpval(f, u, x)
      PROVE  SweepList'
  <2>1. CASE NewClosure(f, u, x)
    <3>1. UNCHANGED unswept
      BY <2>1 DEF NewClosure
    <3>2. \A y \in Obj : color[y] # "free" => color'[y] # "free"
      BY <2>1, <1>a DEF NewClosure, Revived, TypeOK
    <3>3. \A v \in Upval : slot'[v] \in {slot[v], None} \/ color[v] = "free"
      BY <2>1 DEF NewClosure, TypeOK
    <3> QED
      BY <3>1, <3>2, <3>3, <1>0
  <2>2. CASE SetUpval(f, u, x)
    BY <2>2, <1>0, <1>c DEF SetUpval
  <2> QED
    BY <1>2, <2>1, <2>2
<1>3. ASSUME NEW f \in Closure, NEW g \in Closure, NEW u \in Upval, UpvalueJoin(f, g, u)
      PROVE  SweepList'
  BY <1>3, <1>0, <1>c DEF UpvalueJoin
<1>4. ASSUME NEW t \in Table, NEW k \in Keys \cup {None}, NEW v \in Obj, SetTable(t, k, v)
      PROVE  SweepList'
  <2>1. Quiet
    BY <1>4 DEF SetTable, Back, TypeOK
  <2> QED
    BY <2>1, <1>0
<1>5. ASSUME NEW t \in Table, ClearTable(t) PROVE SweepList'
  BY <1>5, <1>0 DEF ClearTable
<1>6. ASSUME NEW u \in Udata, NEW t \in Table, SetField(u, t) PROVE SweepList'
  BY <1>6, <1>0, <1>c DEF SetField
<1>7. ASSUME NEW u \in Upval, NEW v \in Obj, SetLocal(u, v) PROVE SweepList'
  BY <1>7, <1>0 DEF SetLocal
<1>8. ASSUME NEW u \in Upval, CloseUpval(u) PROVE SweepList'
  <2>1. UNCHANGED unswept /\ \A v \in Upval : slot'[v] \in {slot[v], None}
    BY <1>8 DEF CloseUpval, TypeOK
  <2>2. u \notin unswept
    BY <1>8, AllKindsDisjoint DEF CloseUpval, SweepList, TypeOK
  <2>3. \A x \in Obj : x # u /\ color[x] # "free" => color'[x] # "free"
    BY <1>8, <1>a, ColorsTyped DEF CloseUpval, LinkUpval, TypeOK
  <2> QED
    BY <1>0, <2>1, <2>2, <2>3
<1>9. ASSUME NEW t \in Thread, NEW x \in Obj, XMove(t, x) PROVE SweepList'
  BY <1>9, <1>0 DEF XMove
<1>10. CASE Yield \/ \E t \in Thread : Resume(t)
  BY <1>10, <1>0 DEF Yield, Resume
<1>11. CASE StartFull
  <2>1. CASE phase \in {"pause", "propagate"}
    BY <1>11, <2>1 DEF StartFull, data, SweepList, Live
  <2>2. CASE phase \notin {"pause", "propagate"}
    BY <1>11, <2>2, <1>0 DEF StartFull, data, lists
  <2> QED
    BY <2>1, <2>2
<1>12. CASE FinalizerReturns
  BY <1>12, <1>0 DEF FinalizerReturns, data, lists
<1> QED
  BY <1>1, <1>2, <1>3, <1>4, <1>5, <1>6, <1>7, <1>8, <1>9, <1>10, <1>11, <1>12 DEF Program

LEMMA CollectorSweepList ==
  ASSUME TypeOK, SweepList, Collector
  PROVE  SweepList'
<1> DEFINE Quiet == /\ UNCHANGED unswept
                    /\ \A x \in Obj : x \in unswept /\ color[x] # "free" => color'[x] # "free"
                    /\ \A u \in Upval : slot'[u] \in {slot[u], None} \/ color[u] = "free"
<1>0. Quiet => SweepList'
  BY SweepListKept
<1>1. ASSUME MarkRoot PROVE SweepList'
  BY <1>0, <1>1, ColorsTyped DEF MarkRoot, data
<1>2. CASE Atomic
  <2>1. /\ \A x \in Obj : color[x] # "free" => color'[x] # "free"
        /\ unswept' \subseteq Live
        /\ \A u \in Upval : slot[u] # None => u \notin unswept'
        /\ UNCHANGED slot
    BY <1>2, ColorsTyped DEF Atomic
  <2> QED
    BY <2>1 DEF SweepList, Live
<1>3. CASE EndSweep \/ EndCycle
  BY <1>0, <1>3 DEF EndSweep, EndCycle, data, lists
<1>4. ASSUME NEW o \in Obj, PropagateMark(o) PROVE SweepList'
  BY <1>0, <1>4, ColorsTyped DEF PropagateMark, data
<1>5. ASSUME NEW o \in Obj, Sweep(o) PROVE SweepList'
  <2> DEFINE swept == {o} \cup (IF o \in Thread THEN Open(o) ELSE {})
             freed == {x \in swept : Dead(x)}
             closed == IF o \in freed /\ o \in Thread THEN Open(o) ELSE freed \cap Upval
  <2>1. /\ \A x \in Obj : color'[x] = IF x \in freed THEN "free"
                                      ELSE IF x \in swept THEN white ELSE color[x]
        /\ \A u \in Upval : slot'[u] = IF u \in closed THEN None ELSE slot[u]
        /\ unswept' = unswept \ {o} /\ white # "free"
    BY <1>5 DEF Sweep, TypeOK
  <2>2. \A x \in swept : x \notin unswept'
    BY <2>1, AllKindsDisjoint DEF Open, SweepList
  <2> HIDE DEF swept, freed, closed
  <2>3. freed \subseteq swept
    BY DEF freed
  <2> QED
    BY <2>1, <2>2, <2>3 DEF SweepList, Live
<1>6. ASSUME NEW o \in Obj, GCTM(o) PROVE SweepList'
  <2>1. Quiet
    BY <1>6 DEF GCTM, lists, TypeOK
  <2> QED
    BY <1>0, <2>1
<1> QED
  BY <1>1, <1>2, <1>3, <1>4, <1>5, <1>6 DEF Collector, StartCycle, FullMark
(* Sweeping frees what is dead and makes the rest white; nothing alive     *)
(* refers to more than before.                                             *)
LEMMA SweepEffect ==
  ASSUME TypeOK, TypeOK', HeapInv, SweepList, NEW o \in Obj, Sweep(o)
  PROVE  \E freed \in SUBSET Obj, swept \in SUBSET Obj :
            /\ swept = {o} \cup (IF o \in Thread THEN Open(o) ELSE {})
            /\ \A x \in Obj : x \in freed <=> x \in swept /\ Dead(x)
            /\ \A x \in Obj : color'[x] = IF x \in freed THEN "free"
                                          ELSE IF x \in swept THEN white ELSE color[x]
            /\ \A x \in swept : color[x] # "free"
            /\ \A x \in freed : ref'[x] = {} /\ (x \in Table => node'[x] = {})
            /\ \A x \in Obj \ freed : /\ x \notin Thread => ref'[x] = ref[x]
                                      /\ x \in Table => node'[x] = node[x]
                                      /\ x # o => ref'[x] = ref[x]
            /\ \A x \in Obj : Out(x)' \subseteq Out(x)
            /\ \A u \in Upval : /\ slot'[u] # None => slot'[u] = slot[u] /\ u \notin freed
                                                      /\ slot[u] \notin freed
                                /\ u \notin swept => slot'[u] = slot[u]
            /\ finalized' = finalized \ freed
            /\ called' = called \ freed
<1> USE DEF HeapInv
<1> DEFINE swept == {o} \cup (IF o \in Thread THEN Open(o) ELSE {})
           freed == {x \in swept : Dead(x)}
           closed == IF o \in freed /\ o \in Thread THEN Open(o) ELSE freed \cap Upval
           adopted == UNION {ref[u] : u \in freed \cap Upval}
<1>1. /\ \A x \in Obj : color'[x] = IF x \in freed THEN "free"
                                    ELSE IF x \in swept THEN white ELSE color[x]
      /\ \A x \in Obj : ref'[x] = IF x \in freed THEN {}
                                  ELSE IF x = o /\ x \in Thread THEN ref[x] \cup adopted ELSE ref[x]
      /\ \A t \in Table : node'[t] = IF t \in freed THEN {} ELSE node[t]
      /\ \A u \in Upval : slot'[u] = IF u \in closed THEN None ELSE slot[u]
      /\ o \in unswept
      /\ finalized' = finalized \ freed /\ called' = called \ freed
  BY DEF Sweep
<1>2. swept \subseteq Obj /\ freed \subseteq Obj /\ freed \subseteq swept
  BY AllKindsDisjoint DEF Open
<1>3. \A x \in swept : color[x] # "free"
  <2>1. color[o] # "free"
    BY <1>1 DEF SweepList, Live
  <2>2. o \in Thread => \A u \in Open(o) : color[u] # "free"
    BY AllKindsDisjoint DEF Open, Shape
  <2> QED
    BY <2>1, <2>2
<1>4. \A u \in Upval : slot'[u] # None => slot'[u] = slot[u] /\ u \notin freed /\ slot[u] \notin freed
  <2> SUFFICES ASSUME NEW u \in Upval, slot'[u] # None
               PROVE  slot'[u] = slot[u] /\ u \notin freed /\ slot[u] \notin freed
    OBVIOUS
  <2>1. u \notin closed /\ slot'[u] = slot[u] /\ slot[u] \in Thread
    BY <1>1 DEF TypeOK
  <2>2. u \notin freed
    BY <2>1, AllKindsDisjoint
  <2>3. slot[u] \notin freed
    <3>1. \A x \in freed : x \in Thread => x = o
      BY AllKindsDisjoint DEF Open
    <3>2. o \in freed /\ o \in Thread => u \notin Open(o)
      BY <2>1
    <3> QED
      BY <2>1, <3>1, <3>2 DEF Open
  <2> QED
    BY <2>1, <2>2, <2>3
<1>5. \A u \in Upval : u \notin swept => slot'[u] = slot[u]
  BY <1>1
<1>6. adopted \subseteq Out(o) \/ o \notin Thread
  <2>1. ASSUME o \in Thread PROVE adopted \subseteq Out(o)
    <3>1. \A u \in freed \cap Upval : u \in Open(o)
      BY <2>1, AllKindsDisjoint
    <3>2. Out(o) = ref[o] \cup UNION {ref[u] : u \in Open(o)}
      BY <2>1, OutOfKind DEF OutByKind
    <3> QED
      BY <3>1, <3>2
  <2> QED
    BY <2>1
<1> HIDE DEF adopted
<1>7. \A x \in Obj : x \notin Thread => ref'[x] \subseteq ref[x]
  BY <1>1
<1>8. \A x \in Obj : Out(x)' \subseteq Out(x)
  <2> SUFFICES ASSUME NEW x \in Obj PROVE Out(x)' \subseteq Out(x)
    OBVIOUS
  <2> HIDE DEF swept, freed, closed
  <2>1. OutByKind /\ OutByKind'
    BY OutOfKind, OutOfKindNext
  <2>2. CASE x \in Thread
    <3>1. /\ Out(x) = ref[x] \cup UNION {ref[u] : u \in Open(x)}
          /\ Out(x)' = ref'[x] \cup UNION {ref'[u] : u \in Open(x)'}
      BY <2>1, <2>2 DEF OutByKind
    <3>2. ref'[x] \subseteq Out(x)
      BY <1>1, <1>6, <2>2, <3>1
    <3>3. \A u \in Open(x)' : u \in Open(x) /\ u \in Obj /\ u \notin Thread
      BY <1>4, <2>2, AllKindsDisjoint DEF Open
    <3>4. \A u \in Open(x)' : ref'[u] \subseteq Out(x)
      BY <1>7, <3>1, <3>3
    <3> QED
      BY <3>1, <3>2, <3>4
  <2>3. CASE x \in Table
    <3>1. node'[x] \subseteq node[x]
      BY <1>1, <2>3
    <3> QED
      BY <2>1, <2>3, <3>1 DEF OutByKind
  <2>4. CASE x \notin Thread \cup Table
    BY <1>7, <2>1, <2>4 DEF OutByKind
  <2> QED
    BY <2>2, <2>3, <2>4
<1>9. \A x \in Obj : x \in freed <=> x \in swept /\ Dead(x)
  OBVIOUS
<1>10. /\ \A x \in freed : ref'[x] = {} /\ (x \in Table => node'[x] = {})
       /\ \A x \in Obj \ freed : /\ x \notin Thread => ref'[x] = ref[x]
                                 /\ x \in Table => node'[x] = node[x]
                                 /\ x # o => ref'[x] = ref[x]
  BY <1>1, <1>2
<1>11. swept = {o} \cup (IF o \in Thread THEN Open(o) ELSE {})
  OBVIOUS
<1> HIDE DEF swept, freed, closed
<1> QED
  BY <1>1, <1>2, <1>3, <1>4, <1>5, <1>8, <1>9, <1>10, <1>11

LEMMA SweepSafe ==
  ASSUME TypeOK, TypeOK', HeapInv, SweepList, NEW o \in Obj, Sweep(o)
  PROVE  HeapInv'
<1> USE DEF HeapInv
<1>1. PICK freed \in SUBSET Obj, swept \in SUBSET Obj :
            /\ swept = {o} \cup (IF o \in Thread THEN Open(o) ELSE {})
            /\ \A x \in Obj : x \in freed <=> x \in swept /\ Dead(x)
            /\ \A x \in Obj : color'[x] = IF x \in freed THEN "free"
                                          ELSE IF x \in swept THEN white ELSE color[x]
            /\ \A x \in swept : color[x] # "free"
            /\ \A x \in freed : ref'[x] = {} /\ (x \in Table => node'[x] = {})
            /\ \A x \in Obj \ freed : /\ x \notin Thread => ref'[x] = ref[x]
                                      /\ x \in Table => node'[x] = node[x]
                                      /\ x # o => ref'[x] = ref[x]
            /\ \A x \in Obj : Out(x)' \subseteq Out(x)
            /\ \A u \in Upval : /\ slot'[u] # None => slot'[u] = slot[u] /\ u \notin freed
                                                      /\ slot[u] \notin freed
                                /\ u \notin swept => slot'[u] = slot[u]
            /\ finalized' = finalized \ freed
            /\ called' = called \ freed
  BY SweepEffect
<1>2. /\ phase \in {"sweepstring", "sweep"} /\ unswept' = unswept \ {o}
      /\ UNCHANGED <<running, white, phase, tmudata>>
      /\ white \notin {"free", "gray", "black", other}
  BY DEF Sweep, TypeOK, other
<1>3. /\ \A x \in swept : x \notin freed => x \in Alive /\ x \in Alive'
      /\ \A x \in Obj : x \in Alive => x \notin freed
  BY <1>1, <1>2 DEF Alive, Dead, other
<1>4. Alive' = Alive
  <2>1. \A x \in Obj : x \notin swept => (x \in Alive <=> x \in Alive')
    BY <1>1, <1>2 DEF Alive, Dead, other
  <2>2. \A x \in freed : x \notin Alive /\ x \notin Alive'
    BY <1>1 DEF Alive
  <2> QED
    BY <1>1, <1>3, <2>1, <2>2 DEF Alive
<1>5. Shape'
  <2>1. \A x \in Obj : x \in freed \/ color'[x] = color[x] \/ color'[x] = white
    BY <1>1
  <2>2. \A x \in freed : color'[x] = "free"
    BY <1>1
  <2>3. Thread \cup Weak \cup String \cup Udata \cup Upval \cup Closure \subseteq Obj
    BY AllKindsDisjoint
  <2>4. \A x \in Thread \cup Weak \cup String : color'[x] # "black"
    BY <1>2, <2>1, <2>2, <2>3 DEF Shape
  <2>5. \A x \in Udata : color'[x] # "gray"
    BY <1>2, <2>1, <2>2, <2>3 DEF Shape
  <2>6. \A u \in Upval : slot'[u] # None =>
          color'[u] \notin {"free", "black"} /\ color'[slot'[u]] # "free"
    <3> SUFFICES ASSUME NEW u \in Upval, slot'[u] # None
                 PROVE  color'[u] \notin {"free", "black"} /\ color'[slot'[u]] # "free"
      OBVIOUS
    <3>1. slot'[u] = slot[u] /\ u \notin freed /\ slot[u] \notin freed
      BY <1>1
    <3>2. slot[u] \in Obj /\ u \in Obj
      BY <3>1, AllKindsDisjoint DEF TypeOK
    <3> QED
      BY <1>2, <2>1, <3>1, <3>2 DEF Shape
  <2>7. \A u \in Upval : color'[u] = "gray" => slot'[u] # None
    BY <1>1, <1>2, <2>3 DEF Shape
  <2>8. \A x \in Obj : color'[x] = "free" => ref'[x] = {} /\ (x \in Table => node'[x] = {})
    <3> SUFFICES ASSUME NEW x \in Obj, color'[x] = "free", x \notin freed
                 PROVE  ref'[x] = {} /\ (x \in Table => node'[x] = {})
      BY <1>1
    <3>1. x \notin swept /\ color[x] = "free"
      BY <1>1, <1>2
    <3>2. x # o
      BY <1>1, <3>1
    <3> QED
      BY <1>1, <3>1, <3>2 DEF Shape
  <2>9. \A x \in Obj : x \notin Thread => ref'[x] \subseteq ref[x]
    BY <1>1
  <2>10. (\A s \in String : ref'[s] = {}) /\ \A f \in Closure : ref'[f] \subseteq Upval
    BY <2>3, <2>9, AllKindsDisjoint DEF Shape
  <2> QED
    BY <2>4, <2>5, <2>6, <2>7, <2>8, <2>10 DEF Shape
<1>6. AliveClosed'
  BY <1>1, <1>2, <1>4 DEF AliveClosed, Alive
<1>7. Progress'
  <2>1. ASSUME NEW x \in Obj, Dead(x)' \/ color'[x] \in {"gray", "black"}
        PROVE  \/ x \in unswept'
               \/ x \in Upval /\ slot'[x] \in unswept'
               \/ x \in tmudata' /\ ~Dead(x)'
    <3>1. x \notin swept /\ color'[x] = color[x]
      BY <1>1, <1>2, <2>1 DEF Dead, other
    <3>2. Dead(x)' = Dead(x)
      BY <1>2, <3>1 DEF Dead, other
    <3>3. x # o /\ (x \in Upval => slot'[x] = slot[x])
      BY <1>1, <3>1
    <3>4. x \in Upval /\ slot[x] = o => o \in Thread
      BY AllKindsDisjoint DEF TypeOK
    <3>5. x \in Upval => slot[x] # o
      BY <1>1, <3>1, <3>4 DEF Open
    <3> QED
      BY <1>2, <2>1, <3>1, <3>2, <3>3, <3>5 DEF Progress
  <2> QED
    BY <1>2, <2>1 DEF Progress
<1>8. Finalizing'
  <2>1. \A x \in Obj : Dead(x)' => Dead(x) /\ x \notin freed
    BY <1>1, <1>2, <1>4 DEF Alive, Dead, other
  <2>2. tmudata' \subseteq Alive' \cap finalized'
    BY <1>1, <1>2, <1>3, <1>4 DEF Finalizing, Alive
  <2>3. called' \subseteq Live' \cap finalized'
    BY <1>1, <1>2 DEF Finalizing, Live
  <2>4. finalized' \cap Finalizable \subseteq tmudata' \cup called'
    BY <1>1, <1>2 DEF Finalizing
  <2> QED
    BY <1>1, <2>1, <2>2, <2>3, <2>4, AllKindsDisjoint DEF Finalizing
<1>9. TriColour'
  BY <1>2 DEF TriColour
<1> QED
  BY <1>5, <1>6, <1>7, <1>8, <1>9
-----------------------------------------------------------------------------
(* The atomic phase: what it marks, the userdata it puts in tmudata and    *)
(* those it has given FINALIZEDBIT.                                        *)
Pending == tmudata \cup (Separated(Survivors) \cap Finalizable)
Done == finalized \cup Separated(Survivors)
Marked == Survivors \cup Preserved(Survivors, Pending)
Traversed == gray \cup weak \cup grayagain \cup Marked
KeptAlive == KeptStrings(Traversed \cap Weak, Marked, Done) \cap White

LEMMA SurvivorsAreClosed ==
  /\ Survivors \subseteq White
  /\ running \in White => running \in Survivors
  /\ \A o \in gray \cup weak \cup grayagain : Strong(o) \cap White \subseteq Survivors
  /\ \A u \in Upval : slot[u] # None /\ color[u] = "gray" => ref[u] \cap White \subseteq Survivors
  /\ \A o \in Survivors : Strong(o) \cap White \subseteq Survivors
<1> DEFINE E == [o \in Obj |-> Strong(o)]
           openMarked == {u \in Upval : slot[u] # None /\ color[u] = "gray"}
           seeds == {running}
                    \cup (UNION {Strong(o) : o \in gray \cup weak \cup grayagain})
                    \cup (UNION {ref[u] : u \in openMarked})
<1>1. Survivors = Reached(seeds, White, E)
  BY DEF Survivors
<1>2. White \subseteq Obj /\ \A o \in White : E[o] = Strong(o)
  BY DEF White
<1>3. /\ running \in seeds
      /\ \A o \in gray \cup weak \cup grayagain : Strong(o) \subseteq seeds
      /\ \A u \in Upval : slot[u] # None /\ color[u] = "gray" => ref[u] \subseteq seeds
  <2>1. \A u \in Upval : slot[u] # None /\ color[u] = "gray" => u \in openMarked
    OBVIOUS
  <2> HIDE DEF openMarked
  <2>2. \A u \in openMarked : ref[u] \subseteq seeds
    OBVIOUS
  <2>3. \A o \in gray \cup weak \cup grayagain : Strong(o) \subseteq seeds
    OBVIOUS
  <2> QED
    BY <2>1, <2>2, <2>3
<1> HIDE DEF seeds, E
<1>4. /\ seeds \cap White \subseteq Survivors
      /\ Survivors \subseteq White
      /\ \A o \in Survivors : E[o] \cap White \subseteq Survivors
  BY <1>1, <1>2, ReachedIsLeast
<1> QED
  BY <1>2, <1>3, <1>4

LEMMA MarkedAreClosed ==
  /\ Survivors \subseteq Marked /\ Pending \subseteq Marked
  /\ Marked \subseteq White \cup Pending
  /\ \A o \in Marked : Strong(o) \cap White \subseteq Marked
<1> DEFINE E == [o \in Obj |-> Strong(o)]
           W == White \ Survivors
           seeds == UNION {Strong(u) : u \in Pending}
           R == Reached(seeds, W, E)
<1>1. Marked = Survivors \cup Pending \cup R
  BY DEF Marked, Preserved
<1>2. W \subseteq Obj /\ \A o \in W : E[o] = Strong(o)
  BY DEF White
<1>3. \A o \in Pending : Strong(o) \subseteq seeds
  OBVIOUS
<1> HIDE DEF seeds, E, R
<1>4. /\ seeds \cap W \subseteq R
      /\ R \subseteq W
      /\ \A o \in R : E[o] \cap W \subseteq R
  BY <1>2, ReachedIsLeast DEF R
<1>5. Survivors \subseteq White /\ \A o \in Survivors : Strong(o) \cap White \subseteq Survivors
  BY SurvivorsAreClosed
<1>6. \A o \in Marked : Strong(o) \cap White \subseteq Marked
  BY <1>1, <1>2, <1>3, <1>4, <1>5
<1> QED
  BY <1>1, <1>4, <1>5, <1>6

LEMMA AtomicEffect ==
  ASSUME Atomic
  PROVE  /\ phase = "propagate" /\ gray = {} /\ phase' = "sweepstring" /\ white' = other
         /\ \A x \in Obj : color'[x] = IF x \in Traversed \cup KeptAlive THEN TraversedColor(x)
                                       ELSE color[x]
         /\ \A t \in Table : node'[t] = IF t \in Traversed \cap Weak THEN Kept(t, Marked, Done)
                                        ELSE node[t]
         /\ finalized' = Done /\ tmudata' = Pending
         /\ unswept' = Live \ (Pending \cup {u \in Upval : slot[u] # None})
         /\ UNCHANGED <<ref, slot, running, called>>
  BY DEF Atomic, Pending, Done, Marked, Traversed, KeptAlive

(* Before the sweep, what is not white is marked: a linked object that is  *)
(* gray is traversed once more.                                            *)
LEMMA MarkCompletes ==
  ASSUME TypeOK, HeapInv, ListInv, phase = "propagate", gray = {}
  PROVE  /\ \A x \in Live : x \in White \/ color[x] \in {"gray", "black"}
         /\ \A x \in Obj : color[x] \in {"gray", "black"} /\ x \notin tmudata =>
                Strong(x) \cap White \subseteq Survivors
         /\ \A x \in Obj : color[x] \in {"gray", "black"} \/ x \in Marked =>
                Strong(x) \cap White \subseteq Marked
         /\ \A x \in Weak : color[x] \in {"gray", "black"} \/ x \in Marked => x \in Traversed
         /\ Traversed \cup KeptAlive \subseteq Live
<1> USE DEF HeapInv
<1>1. \A x \in Live : x \in White \/ color[x] \in {"gray", "black"}
  BY DEF TypeOK, White, Live
<1>2. weak \cup grayagain = {x \in Linked : color[x] = "gray"}
  BY DEF ListInv, LinkedOnce
<1>3. ASSUME NEW x \in Obj, color[x] \in {"gray", "black"}, x \notin tmudata
      PROVE  Strong(x) \cap White \subseteq Survivors
  <2>1. CASE color[x] = "black"
    BY <1>3, <2>1 DEF TriColour
  <2>2. CASE color[x] = "gray"
    <3>1. CASE x \in Linked
      BY <1>2, <2>2, <3>1, SurvivorsAreClosed
    <3>2. CASE x \in Upval
      <4>1. slot[x] # None
        BY <2>2, <3>2 DEF Shape
      <4>2. Strong(x) = ref[x]
        BY <3>2, AllKindsDisjoint, OutOfKind DEF OutByKind
      <4> QED
        BY <2>2, <3>2, <4>1, <4>2, SurvivorsAreClosed
    <3>3. CASE x \in String
      <4>1. Strong(x) = {}
        BY <3>3, AllKindsDisjoint, OutOfKind DEF OutByKind, Shape
      <4> QED
        BY <4>1
    <3> QED
      BY <2>2, <3>1, <3>2, <3>3, AllKindsDisjoint DEF Shape
  <2> QED
    BY <1>3, <2>1, <2>2
<1>4. \A x \in Obj : color[x] \in {"gray", "black"} \/ x \in Marked => Strong(x) \cap White \subseteq Marked
  BY <1>3, MarkedAreClosed DEF Pending
<1>5. \A x \in Weak : color[x] \in {"gray", "black"} \/ x \in Marked => x \in Traversed
  BY <1>2, AllKindsDisjoint DEF Shape, Traversed
<1>6. Traversed \cup KeptAlive \subseteq Live
  <2>1. White \subseteq Live /\ \A x \in Linked : x \in Obj
    BY AllKindsDisjoint DEF White, Live
  <2>2. weak \cup grayagain \subseteq Live
    BY <1>2, <2>1 DEF Live
  <2>3. Pending \subseteq Live
    BY <2>1 DEF Pending, Separated, Finalizing, Alive, Live
  <2> QED
    BY <2>1, <2>2, <2>3, MarkedAreClosed DEF Traversed, KeptAlive
<1> QED
  BY <1>1, <1>3, <1>4, <1>5, <1>6

(* What a weak table keeps is alive after the sweep.                       *)
LEMMA KeptAreAlive ==
  ASSUME TypeOK, HeapInv, NEW t \in Traversed \cap Weak, NEW e \in Kept(t, Marked, Done),
         NEW x \in {e.key, e.val} \ {None},
         Strong(t) \cap White \subseteq Marked
  PROVE  x \in White => x \in Marked \cup KeptAlive
<1>1. e \in node[t] /\ t \in Table
  BY AllKindsDisjoint DEF Kept
<1>2. e.key \in Obj \cup {None} /\ e.val \in Obj /\ x \in Obj
  BY <1>1, KindAssumption DEF TypeOK, Entry
<1>3. CASE x \in String
  <2>1. x \in KeptStrings(Traversed \cap Weak, Marked, Done)
    <3>1. e \in UNION {Kept(s, Marked, Done) : s \in Traversed \cap Weak}
      OBVIOUS
    <3> QED
      BY <1>3, <3>1 DEF KeptStrings
  <2> QED
    BY <2>1 DEF KeptAlive
<1>4. CASE x \notin String /\ e.key = None
  <2>1. x = e.val
    BY <1>4
  <2>2. CASE t \in WeakValue
    BY <1>2, <1>4, <2>1, <2>2 DEF Kept, Cleared
  <2>3. CASE t \notin WeakValue
    <3>1. e.val \in Strong(t)
      BY <1>1, <2>3 DEF Strong
    <3> QED
      BY <2>1, <3>1
  <2> QED
    BY <2>2, <2>3
<1>5. CASE x \notin String /\ e.key # None
  BY <1>2, <1>5 DEF Kept, Cleared
<1> QED
  BY <1>3, <1>4, <1>5

LEMMA AtomicSafe ==
  ASSUME TypeOK, TypeOK', HeapInv, ListInv, Atomic
  PROVE  HeapInv'
<1> USE DEF HeapInv
<1> DEFINE Stays(x) == color[x] \in {"gray", "black"} \/ x \in Marked \cup KeptAlive
<1>1. /\ phase = "propagate" /\ gray = {} /\ phase' = "sweepstring" /\ white' = other
      /\ \A x \in Obj : color'[x] = IF x \in Traversed \cup KeptAlive THEN TraversedColor(x)
                                    ELSE color[x]
      /\ \A t \in Table : node'[t] = IF t \in Traversed \cap Weak THEN Kept(t, Marked, Done)
                                     ELSE node[t]
      /\ finalized' = Done /\ tmudata' = Pending
      /\ unswept' = Live \ (Pending \cup {u \in Upval : slot[u] # None})
      /\ UNCHANGED <<ref, slot, running, called>>
  BY AtomicEffect
<1>2. /\ \A x \in Live : x \in White \/ color[x] \in {"gray", "black"}
      /\ \A x \in Obj : color[x] \in {"gray", "black"} \/ x \in Marked =>
             Strong(x) \cap White \subseteq Marked
      /\ \A x \in Weak : color[x] \in {"gray", "black"} \/ x \in Marked => x \in Traversed
      /\ Traversed \cup KeptAlive \subseteq Live
  BY <1>1, MarkCompletes
<1>3. \A x \in Obj : ~Dead(x) /\ color[x] # other
  BY <1>1 DEF Progress, Dead
<1>4. Alive = Live
  BY <1>3 DEF Alive, Live
<1>5. \A x \in Obj : x \in Alive' <=> Stays(x)
  <2>1. \A x \in Linked : x \in Obj
    BY AllKindsDisjoint
  <2>2. \A x \in weak \cup grayagain : color[x] = "gray"
    BY <1>1, <2>1 DEF ListInv, LinkedOnce
  <2>3. \A x \in Traversed \cup KeptAlive : Stays(x)
    BY <1>1, <2>2 DEF Traversed
  <2>4. \A x \in Marked \cup KeptAlive : x \in Traversed \cup KeptAlive
    BY DEF Traversed
  <2>5. \A x \in Obj : color'[x] \in {"gray", "black"} <=> Stays(x)
    BY <1>1, <2>3, <2>4, ColorsTyped
  <2>6. other' = white
    BY <1>1 DEF other, TypeOK
  <2>7. \A x \in Obj : color[x] \in {white, "gray", "black", "free"}
    BY <1>3 DEF other, TypeOK
  <2>8. \A x \in Obj : color'[x] \in {white, "gray", "black", "free"}
    BY <1>1, <2>7, ColorsTyped
  <2>9. white \notin {"gray", "black", "free"}
    BY DEF TypeOK
  <2>10. \A x \in Obj : x \in Alive' <=> color'[x] \in {"gray", "black"}
    BY <2>6, <2>8, <2>9 DEF Alive, Dead
  <2> QED
    BY <2>5, <2>10
<1>6. Shape'
  <2>1. \A x \in Obj : Recolored(x)
    BY <1>1, <1>2 DEF Recolored, Live
  <2>2. \A t \in Table : node'[t] \subseteq node[t]
    BY <1>1 DEF Kept
  <2>3. FieldsKept
    BY <1>1, <2>2, AllKindsDisjoint DEF FieldsKept, Shape
  <2> QED
    BY <1>1, <2>1, <2>3, ShapeRecolored
<1> HIDE DEF Stays
<1>7. ASSUME NEW o \in Alive' PROVE Out(o)' \subseteq Alive'
  <2>1. o \in Obj /\ Stays(o) /\ o \in Alive
    BY <1>2, <1>4, <1>5, MarkedAreClosed DEF Alive, Stays, Live, Traversed
  <2>2. ASSUME NEW x \in Out(o), x \in White => x \in Marked \cup KeptAlive PROVE x \in Alive'
    BY <1>2, <1>4, <1>5, <2>1, <2>2 DEF AliveClosed, Stays, Live
  <2>3. CASE o \in String
    <3>1. Out(o)' = {}
      BY <2>1, <2>3, <1>6, AllKindsDisjoint, OutOfKindNext DEF OutByKind, Shape
    <3> QED
      BY <3>1
  <2>4. CASE o \in Traversed \cap Weak
    <3>1. o \in Table /\ o \notin String
      BY <2>4, AllKindsDisjoint
    <3>2. Out(o)' = UNION {{e.key, e.val} \ {None} : e \in Kept(o, Marked, Done)}
      BY <1>1, <2>1, <2>4, <3>1, OutOfKindNext DEF OutByKind
    <3>3. Out(o) = UNION {{e.key, e.val} \ {None} : e \in node[o]}
      BY <2>1, <3>1, OutOfKind DEF OutByKind
    <3>4. color[o] \in {"gray", "black"} \/ o \in Marked
      BY <2>1, <3>1 DEF Stays, KeptAlive, KeptStrings
    <3>5. ASSUME NEW e \in Kept(o, Marked, Done), NEW x \in {e.key, e.val} \ {None}
          PROVE  x \in Alive'
      <4>1. e \in node[o]
        BY DEF Kept
      <4>2. x \in Out(o)
        BY <3>3, <4>1
      <4>3. x \in White => x \in Marked \cup KeptAlive
        BY <1>2, <2>1, <2>4, <3>4, KeptAreAlive
      <4> QED
        BY <2>2, <4>2, <4>3
    <3> QED
      BY <3>2, <3>5
  <2>5. CASE o \notin String /\ o \notin Traversed \cap Weak
    <3>1. color[o] \in {"gray", "black"} \/ o \in Marked
      BY <2>1, <2>5 DEF Stays, KeptAlive, KeptStrings
    <3>2. o \notin Weak
      BY <1>2, <2>5, <3>1
    <3>3. Strong(o) = Out(o) /\ Out(o)' = Out(o)
      <4>1. o \in Table => node'[o] = node[o]
        BY <1>1, <2>5
      <4>2. Out(o)' = Out(o)
        BY <1>1, <4>1 DEF Out, Open
      <4> QED
        BY <2>1, <3>2, <4>2, OutOfKind DEF OutByKind
    <3> QED
      BY <1>2, <2>1, <2>2, <3>1, <3>3
  <2> QED
    BY <2>3, <2>4, <2>5
<1>8. {Main, running} \subseteq Alive'
  <2>1. Main \in Alive /\ running \in Alive /\ Main \in Obj /\ running \in Obj
    BY DEF AliveClosed, Alive
  <2>2. Stays(running)
    BY <1>2, <1>4, <2>1, SurvivorsAreClosed, MarkedAreClosed DEF Stays
  <2>3. Stays(Main)
    BY <1>1 DEF Stays, AliveClosed
  <2> QED
    BY <1>5, <2>1, <2>2, <2>3
<1>9. AliveClosed'
  BY <1>1, <1>7, <1>8 DEF AliveClosed
<1>10. Pending \subseteq Alive'
  BY <1>5, <1>2, MarkedAreClosed DEF Stays, Live, Traversed
<1>11. Progress'
  <2>1. ASSUME NEW x \in Obj, Dead(x)' \/ color'[x] \in {"gray", "black"}
        PROVE  \/ x \in unswept'
               \/ x \in Upval /\ slot'[x] \in unswept'
               \/ x \in tmudata' /\ ~Dead(x)'
    <3>1. x \in Live
      <4>1. color'[x] # "free"
        BY <2>1 DEF Dead, other
      <4> QED
        BY <1>1, <1>2, <4>1 DEF Live
    <3>2. CASE x \in Pending
      BY <1>1, <1>10, <3>2 DEF Alive
    <3>3. CASE x \in Upval /\ slot[x] # None
      <4>1. slot[x] \in Thread /\ slot[x] \in Obj /\ slot[x] \notin Upval /\ slot[x] \notin Udata
        BY <3>3, AllKindsDisjoint DEF TypeOK
      <4>2. slot[x] \in Live
        BY <3>3, <4>1 DEF Shape, Live
      <4>3. Pending \subseteq Udata
        BY KindAssumption DEF Pending, Separated, TypeOK
      <4> QED
        BY <1>1, <3>3, <4>1, <4>2, <4>3
    <3> QED
      BY <1>1, <3>1, <3>2, <3>3
  <2> QED
    BY <1>1, <2>1 DEF Progress
<1>12. Finalizing'
  <2>1. Pending \subseteq Done /\ finalized \subseteq Done
    BY DEF Pending, Done, Finalizing
  <2>2. Live \subseteq Live'
    BY <1>1, ColorsTyped DEF Live
  <2>3. Done \cap Finalizable \subseteq Pending \cup called
    BY DEF Pending, Done, Finalizing
  <2>4. ASSUME NEW x \in Udata, Dead(x)' PROVE x \in Done
    <3>1. x \in Obj /\ ~Stays(x)
      BY <1>5, <2>4, AllKindsDisjoint DEF Alive
    <3>2. x \in Live
      BY <1>1, <1>2, <2>4, <3>1 DEF Dead, other, Live
    <3> QED
      BY <1>2, <3>1, <3>2, MarkedAreClosed DEF Stays, Done, Separated
  <2> QED
    BY <1>1, <1>10, <2>1, <2>2, <2>3, <2>4 DEF Finalizing
<1>13. TriColour'
  BY <1>1 DEF TriColour
<1> QED
  BY <1>6, <1>9, <1>11, <1>12, <1>13
LEMMA CollectorSafe ==
  ASSUME TypeOK, TypeOK', HeapInv, ListInv, SweepList, Collector
  PROVE  HeapInv'
<1>1. CASE StartCycle
  BY <1>1, MarkRootSafe DEF StartCycle
<1>2. CASE Atomic
  BY <1>2, AtomicSafe
<1>3. CASE EndSweep \/ EndCycle
  BY <1>3, EndSafe
<1>4. CASE FullMark
  BY <1>4, MarkRootSafe DEF FullMark
<1>5. ASSUME NEW o \in Obj, PropagateMark(o) \/ Sweep(o) \/ GCTM(o) PROVE HeapInv'
  BY <1>5, PropagateSafe, SweepSafe, FinalizerSafe
<1> QED
  BY <1>1, <1>2, <1>3, <1>4, <1>5 DEF Collector

-----------------------------------------------------------------------------
(* Part 7: the theorems.  Finding 2 is why they exclude lua_setupvalue.    *)
LEMMA ListsAreSound == Spec => [](TypeOK /\ ListInv /\ SweepList)
<1>1. Init => TypeOK /\ ListInv /\ SweepList
  BY InitType, InitLists, InitSweepList
<1>2. ListInv /\ SweepList /\ UNCHANGED vars => ListInv' /\ SweepList'
  BY DEF ListInv, LinkedOnce, SweepList, Live, vars, data, lists
<1>3. TypeOK /\ ListInv /\ SweepList /\ [Next]_vars => ListInv' /\ SweepList'
  BY <1>2, ProgramLists, CollectorLists, ProgramSweepList, CollectorSweepList DEF Next
<1> QED
  BY <1>1, <1>3, TypeCorrect, PTL DEF Spec

LEMMA StutterSafe ==
  ASSUME HeapInv, UNCHANGED vars
  PROVE  HeapInv'
  BY DEF vars, data, lists, HeapInv, Shape, AliveClosed, Progress, Finalizing,
         TriColour, Alive, Live, White, Out, Strong, Dead, other, Open

LEMMA HeapInvHolds == ASSUME "setupvalue" \notin Ops PROVE Spec => []HeapInv
<1>1. TypeOK /\ TypeOK' /\ ListInv /\ SweepList /\ HeapInv /\ [Next]_vars => HeapInv'
  BY StutterSafe, ProgramSafe, CollectorSafe DEF Next
<1> QED
  BY <1>1, ListsAreSound, InitSafe, PTL DEF Spec

(* What the program can get at is alive, through weak references too.      *)
LEMMA UsableIsAlive ==
  ASSUME AliveClosed
  PROVE  /\ Usable \subseteq Alive
         /\ {Main, running} \subseteq Usable
         /\ \A o \in Usable : Out(o) \subseteq Usable
         /\ \A X \in SUBSET Obj : {Main, running} \subseteq X /\ (\A o \in X : Out(o) \subseteq X)
              => Usable \subseteq X
<1> DEFINE E == [o \in Obj |-> Out(o)]
<1>1. \A o \in Obj : E[o] = Out(o)
  OBVIOUS
<1>2. Usable = Reached({Main, running}, Obj, E)
  BY DEF Usable
<1> HIDE DEF E
<1>3. /\ {Main, running} \cap Obj \subseteq Usable
      /\ Usable \subseteq Obj
      /\ \A o \in Usable : E[o] \cap Obj \subseteq Usable
      /\ \A X \in SUBSET Obj :
              {Main, running} \cap Obj \subseteq X /\ (\A o \in X : E[o] \cap Obj \subseteq X)
                => Usable \subseteq X
  BY <1>2, ReachedIsLeast
<1>4. {Main, running} \subseteq Alive /\ Alive \subseteq Obj /\ \A o \in Alive : Out(o) \subseteq Alive
  BY DEF AliveClosed, Alive
<1>5. Usable \subseteq Alive
  BY <1>1, <1>3, <1>4
<1> QED
  BY <1>1, <1>3, <1>4, <1>5

(* Whatever the program and the collector interleave, nothing the program  *)
(* can get at has been freed.                                              *)
THEOREM HeapIsMemorySafe == "setupvalue" \notin Ops => (Spec => []MemorySafe)
<1> SUFFICES ASSUME "setupvalue" \notin Ops PROVE Spec => []MemorySafe
  OBVIOUS
<1>1. HeapInv => MemorySafe
  BY UsableIsAlive DEF HeapInv, MemorySafe, Alive
<1> QED
  BY <1>1, HeapInvHolds, PTL

(* Nor has it been left behind by the last mark, so that the sweep would   *)
(* free it; and a cycle starts with no dead object.                        *)
THEOREM DeadObjectsAreUnusable == "setupvalue" \notin Ops => (Spec => []DeadAreUnusable)
<1> SUFFICES ASSUME "setupvalue" \notin Ops PROVE Spec => []DeadAreUnusable
  OBVIOUS
<1>1. HeapInv => DeadAreUnusable
  BY UsableIsAlive DEF HeapInv, DeadAreUnusable, Alive, Progress
<1> QED
  BY <1>1, HeapInvHolds, PTL

(* Without lua_setupvalue, the barriers keep what the sweep relies on.     *)
THEOREM BarriersKeepTriColour == "setupvalue" \notin Ops => (Spec => []TriColour)
<1> SUFFICES ASSUME "setupvalue" \notin Ops PROVE Spec => []TriColour
  OBVIOUS
<1>1. HeapInv => TriColour
  BY DEF HeapInv
<1> QED
  BY <1>1, HeapInvHolds, PTL
-----------------------------------------------------------------------------
(* Part 8: what is held, and what can be got at.                           *)
LEMMA HeldIsLeast ==
  ASSUME AliveClosed
  PROVE  \A X \in SUBSET Obj :
            {Main, running} \subseteq X /\ (\A o \in X : Strong(o) \ tmudata \subseteq X)
              => Held \subseteq X
<1> DEFINE E == [o \in Obj |-> Strong(o) \ tmudata]
<1>1. \A o \in Obj : E[o] = Strong(o) \ tmudata
  OBVIOUS
<1>2. Held = Reached({Main, running}, Obj, E)
  BY DEF Held
<1> HIDE DEF E
<1>3. \A X \in SUBSET Obj :
         {Main, running} \cap Obj \subseteq X /\ (\A o \in X : E[o] \cap Obj \subseteq X)
            => Held \subseteq X
  BY <1>2, ReachedIsLeast
<1> QED
  BY <1>1, <1>3

(* Usable is the least set with the running threads that Out stays in.     *)
UsableIsLeast ==
  /\ Usable \subseteq Alive
  /\ {Main, running} \subseteq Usable
  /\ \A o \in Usable : Out(o) \subseteq Usable
  /\ \A X \in SUBSET Obj : {Main, running} \subseteq X /\ (\A o \in X : Out(o) \subseteq X)
       => Usable \subseteq X

LEMMA UsableLeast == AliveClosed => UsableIsLeast
  BY UsableIsAlive DEF UsableIsLeast

LEMMA UsableLeastNext == AliveClosed' => UsableIsLeast'
  BY UsableLeast, PTL

LEMMA HeldIsUsable == TypeOK /\ AliveClosed => Held \subseteq Usable
<1> SUFFICES ASSUME TypeOK, AliveClosed PROVE Held \subseteq Usable
  OBVIOUS
<1>1. /\ Usable \subseteq Obj /\ {Main, running} \subseteq Usable
      /\ \A o \in Usable : Out(o) \subseteq Usable
  BY UsableIsAlive DEF Alive
<1>2. \A o \in Usable : Strong(o) \ tmudata \subseteq Usable
  BY <1>1, OutOfKind DEF OutByKind
<1> QED
  BY <1>1, <1>2, HeldIsLeast

LEMMA HeldIsUsableNext == TypeOK' /\ AliveClosed' => (Held \subseteq Usable)'
  BY HeldIsUsable, PTL

(* Steps after which the program can get at what it could before and at N. *)
LEMMA UsableGrows ==
  ASSUME AliveClosed, AliveClosed', running' \in Usable, NEW N, N \subseteq Obj,
         \A o \in Usable \cup N : Out(o)' \subseteq Usable \cup N
  PROVE  Usable' \subseteq Usable \cup N
<1>1. Usable \subseteq Obj /\ Main \in Usable
  BY UsableIsAlive DEF Alive
<1> DEFINE X == Usable \cup N
<1>2. X \in SUBSET Obj /\ {Main, running'} \subseteq X /\ \A o \in X : Out(o)' \subseteq X
  BY <1>1
<1>3. \A Y \in SUBSET Obj : {Main, running'} \subseteq Y /\ (\A o \in Y : Out(o)' \subseteq Y)
        => Usable' \subseteq Y
  BY UsableLeastNext DEF UsableIsLeast
<1> HIDE DEF X
<1>4. Usable' \subseteq X
  BY <1>2, <1>3
<1> QED
  BY <1>4 DEF X

LEMMA ProgramContract ==
  ASSUME TypeOK', AliveClosed, AliveClosed', UNCHANGED <<tmudata, called>>, Live \subseteq Live',
         running' \in Usable,
         NEW N, N \subseteq Obj, N \cap Live \subseteq Usable \cup String \cup Upval, N \subseteq Live',
         \A o \in Usable \cup N : Out(o)' \subseteq Usable \cup N
  PROVE  Contract!Next
<1>1. Usable' \subseteq Usable \cup N
  BY UsableGrows
<1>2. Usable' \subseteq Live' /\ Held' \subseteq Usable'
  BY UsableLeastNext, HeldIsUsableNext DEF UsableIsLeast, Alive, Live
<1> QED
  BY <1>1, <1>2 DEF Contract!Next, Contract!Program

(* Steps that neither allocate nor give the program anything it had not.   *)
LEMMA QuietContract ==
  ASSUME TypeOK', AliveClosed, AliveClosed', UNCHANGED <<tmudata, called>>, Live \subseteq Live',
         running' \in Usable,
         \A o \in Usable : Out(o)' \subseteq Usable
  PROVE  Contract!Next
<1> DEFINE N == {}
<1>1. N \subseteq Obj /\ N \cap Live \subseteq Usable \cup String \cup Upval /\ N \subseteq Live'
  OBVIOUS
<1>2. \A o \in Usable \cup N : Out(o)' \subseteq Usable \cup N
  OBVIOUS
<1> HIDE DEF N
<1> QED
  BY <1>1, <1>2, ProgramContract

LEMMA InitContract == Init => Contract!Init
<1> SUFFICES ASSUME Init PROVE Contract!Init
  OBVIOUS
<1>1. TypeOK /\ AliveClosed
  BY InitType, InitSafe DEF HeapInv
<1>2. Live = {Main}
  BY KindAssumption, AllKindsDisjoint DEF Init, Live
<1>3. Usable \subseteq Live /\ Main \in Usable /\ Held \subseteq Usable /\ Live \subseteq Obj
  BY <1>1, UsableIsAlive, HeldIsUsable DEF Alive, Live
<1>4. Live = Usable
  BY <1>2, <1>3
<1> QED
  BY <1>3, <1>4 DEF Init, Contract!Init
-----------------------------------------------------------------------------
(* Part 9: the program's steps.                                            *)
LEMMA ForwardKeepsLive ==
  ASSUME TypeOK, NEW o \in Obj, NEW v, Forward(o, v), UNCHANGED white
  PROVE  Live' = Live
  BY ForwardRecolors, AliveRecolored

(* Steps that give an object the references V, all of them the program's.  *)
LEMMA StoreContract ==
  ASSUME TypeOK, TypeOK', AliveClosed, AliveClosed',
         UNCHANGED <<node, slot, running, tmudata, called>>, Live \subseteq Live',
         NEW p \in Obj, NEW V, ref' = [ref EXCEPT ![p] = V],
         NEW N, N \subseteq Obj, N \cap Live \subseteq Usable \cup String \cup Upval, N \subseteq Live',
         V \subseteq Usable \cup N, \A o \in N : Out(o) = {}
  PROVE  Contract!Next
<1>1. \A o \in Obj : Out(o)' \subseteq Out(o) \cup V
  BY RefChanged
<1>2. Usable \subseteq Obj /\ running \in Usable /\ \A o \in Usable : Out(o) \subseteq Usable
  BY UsableIsAlive DEF Alive
<1> QED
  BY <1>1, <1>2, ProgramContract

LEMMA OwnStoreContract ==
  ASSUME TypeOK, TypeOK', AliveClosed, AliveClosed',
         UNCHANGED <<node, slot, running, tmudata, called>>, Live' = Live,
         NEW p \in Obj, NEW V, ref' = [ref EXCEPT ![p] = V], V \subseteq Usable
  PROVE  Contract!Next
<1> DEFINE N == {}
<1>1. /\ N \subseteq Obj /\ N \cap Live \subseteq Usable \cup String \cup Upval
      /\ N \subseteq Live' /\ V \subseteq Usable \cup N /\ \A o \in N : Out(o) = {}
  OBVIOUS
<1> HIDE DEF N
<1> QED
  BY <1>1, StoreContract

LEMMA OneStoreContract ==
  ASSUME TypeOK, TypeOK', AliveClosed, AliveClosed',
         UNCHANGED <<node, slot, running, tmudata, called>>, Live' = Live,
         NEW p \in Obj, NEW v \in Usable, ref' = [ref EXCEPT ![p] = {v}]
  PROVE  Contract!Next
<1> DEFINE V == {v}
<1>1. ref' = [ref EXCEPT ![p] = V] /\ V \subseteq Usable
  OBVIOUS
<1> HIDE DEF V
<1> QED
  BY <1>1, OwnStoreContract

LEMMA StackIsUsable ==
  ASSUME TypeOK, AliveClosed
  PROVE  /\ Stack \subseteq Usable /\ Usable \subseteq Obj /\ ref[running] \subseteq Stack
         /\ running \in Usable /\ running \in Obj
         /\ \A g \in Closure \cap Usable : ref[g] \subseteq Usable
         /\ \A t \in Thread \cap Usable : ref[t] \subseteq Usable
<1>1. Usable \subseteq Obj /\ running \in Usable /\ \A o \in Usable : Out(o) \subseteq Usable
  BY UsableIsAlive DEF Alive
<1>2. running \in Thread /\ Thread \subseteq Obj
  BY AllKindsDisjoint DEF TypeOK
<1>3. \A g \in Closure \cap Usable : ref[g] \subseteq Out(g)
  BY <1>1, AllKindsDisjoint, OutOfKind DEF OutByKind
<1>4. \A t \in Thread : ref[t] \subseteq Out(t)
  BY <1>2, OutOfKind DEF OutByKind
<1> QED
  BY <1>1, <1>2, <1>3, <1>4 DEF Stack

(* The steps that store what the stack or a closure on it refers to.       *)
LEMMA StoringSteps ==
  ASSUME TypeOK, TypeOK', AliveClosed, AliveClosed',
         \/ \E x \in Obj : Pop(x)
         \/ \E f \in Closure, u \in Upval, x \in Obj : SetUpval(f, u, x)
         \/ \E f \in Closure, g \in Closure, u \in Upval : UpvalueJoin(f, g, u)
         \/ \E u \in Udata, t \in Table : SetField(u, t)
         \/ \E u \in Upval, v \in Obj : SetLocal(u, v)
         \/ \E t \in Thread, x \in Obj : XMove(t, x)
  PROVE  Contract!Next
<1> USE DEF Collection
<1>1. /\ Stack \subseteq Usable /\ ref[running] \subseteq Usable /\ running \in Obj
      /\ Usable \subseteq Obj
      /\ \A g \in Closure \cap Usable : ref[g] \subseteq Usable
      /\ \A t \in Thread \cap Usable : ref[t] \subseteq Usable
  BY StackIsUsable
<1>2. ASSUME NEW x \in Obj, Pop(x) PROVE Contract!Next
  <2>1. /\ ref' = [ref EXCEPT ![running] = ref[running] \ {x}] /\ Live' = Live
        /\ UNCHANGED <<node, slot, running, tmudata, called>>
    BY <1>2 DEF Pop, Live
  <2>2. ref[running] \ {x} \subseteq Usable
    BY <1>1
  <2> QED
    BY <1>1, <2>1, <2>2, OwnStoreContract
<1>3. ASSUME NEW f \in Closure, NEW u \in Upval, NEW x \in Obj, SetUpval(f, u, x)
      PROVE  Contract!Next
  <2>1. /\ ref' = [ref EXCEPT ![u] = {x}] /\ x \in Usable
        /\ UNCHANGED <<node, slot, running, tmudata, called, white>>
        /\ Forward(u, x) \/ Forward(f, x)
        /\ u \in Obj /\ f \in Obj
    BY <1>1, <1>3, AllKindsDisjoint DEF SetUpval
  <2>2. Live' = Live
    BY <2>1, ForwardKeepsLive
  <2> QED
    BY <2>1, <2>2, OneStoreContract
<1>4. ASSUME NEW f \in Closure, NEW g \in Closure, NEW u \in Upval, UpvalueJoin(f, g, u)
      PROVE  Contract!Next
  <2>1. /\ ref' = [ref EXCEPT ![f] = {u}] /\ u \in Usable
        /\ UNCHANGED <<node, slot, running, tmudata, called, white>>
        /\ Forward(f, u) /\ f \in Obj
    BY <1>1, <1>4 DEF UpvalueJoin
  <2>2. Live' = Live
    BY <2>1, ForwardKeepsLive
  <2> QED
    BY <2>1, <2>2, OneStoreContract
<1>5. ASSUME NEW u \in Udata, NEW t \in Table, SetField(u, t) PROVE Contract!Next
  <2>1. /\ ref' = [ref EXCEPT ![u] = {t}] /\ t \in Usable
        /\ UNCHANGED <<node, slot, running, tmudata, called, white>>
        /\ Forward(u, t) /\ u \in Obj
    BY <1>1, <1>5 DEF SetField
  <2>2. Live' = Live
    BY <2>1, ForwardKeepsLive
  <2> QED
    BY <2>1, <2>2, OneStoreContract
<1>6. ASSUME NEW u \in Upval, NEW v \in Obj, SetLocal(u, v) PROVE Contract!Next
  <2>1. /\ ref' = [ref EXCEPT ![u] = {v}] /\ v \in Usable /\ u \in Obj /\ Live' = Live
        /\ UNCHANGED <<node, slot, running, tmudata, called>>
    BY <1>1, <1>6, AllKindsDisjoint DEF SetLocal, Live
  <2> QED
    BY <2>1, OneStoreContract
<1>7. ASSUME NEW t \in Thread, NEW x \in Obj, XMove(t, x) PROVE Contract!Next
  <2>1. /\ ref' = [ref EXCEPT ![t] = ref[t] \cup {x}] /\ x \in Usable /\ t \in Usable
        /\ t \in Obj /\ Live' = Live
        /\ UNCHANGED <<node, slot, running, tmudata, called>>
    BY <1>1, <1>7 DEF XMove, Live
  <2>2. ref[t] \cup {x} \subseteq Usable
    BY <1>1, <2>1
  <2> QED
    BY <1>1, <2>1, <2>2, OwnStoreContract
<1> QED
  BY <1>2, <1>3, <1>4, <1>5, <1>6, <1>7

(* The steps that push an object on the stack.                             *)
LEMMA PushingSteps ==
  ASSUME TypeOK, TypeOK', HeapInv, AliveClosed', NEW x \in Obj, New(x) \/ Intern(x) \/ Load(x)
  PROVE  Contract!Next
<1>1. /\ ref' = [ref EXCEPT ![running] = ref[running] \cup {x}]
      /\ UNCHANGED <<node, slot, running, tmudata, called>>
  BY DEF New, Intern, Load, Pushed, Collection
<1>2. /\ AliveClosed /\ Shape /\ Stack \subseteq Usable /\ Usable \subseteq Obj /\ running \in Obj
      /\ ref[running] \subseteq Usable
  BY StackIsUsable DEF HeapInv
<1>3. white # "free"
  BY DEF TypeOK
<1> DEFINE N == {x}
<1>4. CASE New(x) \/ Intern(x)
  <2>1. Live \subseteq Live' /\ x \in Live' /\ (x \in Live => x \in String)
    BY <1>3, <1>4 DEF New, Intern, Revived, Live, TypeOK
  <2>2. Out(x) = {}
    <3>1. CASE New(x)
      <4>1. /\ color[x] = "free" /\ x \notin Upval /\ ref[x] = {} /\ (x \in Table => node[x] = {})
        BY <1>2, <3>1 DEF New, Shape
      <4>2. \A u \in Upval : slot[u] # x
        BY <1>2, <4>1, AllKindsDisjoint DEF Shape
      <4> QED
        BY <4>1, <4>2 DEF Out, Open
    <3>2. CASE Intern(x)
      BY <1>2, <3>2, AllKindsDisjoint DEF Intern, Out, Shape
    <3> QED
      BY <1>4, <3>1, <3>2
  <2>3. N \subseteq Obj /\ N \subseteq Live' /\ \A o \in N : Out(o) = {}
    BY <2>1, <2>2
  <2>4. N \cap Live \subseteq Usable \cup String \cup Upval
    BY <2>1
  <2> DEFINE V == ref[running] \cup {x}
  <2>5. V \subseteq Usable \cup N /\ ref' = [ref EXCEPT ![running] = V]
    BY <1>1, <1>2
  <2>6. AliveClosed /\ running \in Obj /\ UNCHANGED <<node, slot, running, tmudata, called>>
        /\ Live \subseteq Live'
    BY <1>1, <1>2, <2>1
  <2> HIDE DEF N, V
  <2> QED
    BY <2>3, <2>4, <2>5, <2>6, StoreContract
<1>5. CASE Load(x)
  <2>1. PICK y \in Stack : x \in Readable(y)
    BY <1>5 DEF Load
  <2>2. y \in Usable
    BY <1>2
  <2>3. x \in Usable
    <3>1. /\ \A o \in Usable : Out(o) \subseteq Usable
          /\ \A g \in Closure \cap Usable : ref[g] \subseteq Usable
      BY <1>2, UsableIsAlive, StackIsUsable
    <3>2. CASE y \in Closure
      <4>1. PICK u \in ref[y] : x \in ref[u]
        BY <2>1, <3>2 DEF Readable
      <4>2. u \in Usable /\ u \in Upval
        BY <1>2, <2>2, <3>1, <3>2, <4>1 DEF Shape
      <4>3. Out(u) = ref[u]
        BY <4>2, AllKindsDisjoint, OutOfKind DEF OutByKind
      <4> QED
        BY <3>1, <4>1, <4>2, <4>3
    <3>3. CASE y \notin Closure
      BY <2>1, <2>2, <3>1, <3>3 DEF Readable
    <3> QED
      BY <3>2, <3>3
  <2>4. Live' = Live
    BY <1>5 DEF Load, Live
  <2>5. ref[running] \cup {x} \subseteq Usable
    BY <1>2, <2>3
  <2> QED
    BY <1>1, <1>2, <2>4, <2>5, OwnStoreContract
<1> QED
  BY <1>4, <1>5

LEMMA TableSteps ==
  ASSUME TypeOK, TypeOK', AliveClosed, AliveClosed',
         \/ \E t \in Table, k \in Keys \cup {None}, v \in Obj : SetTable(t, k, v)
         \/ \E t \in Table : ClearTable(t)
  PROVE  Contract!Next
<1>0. /\ Stack \subseteq Usable /\ Usable \subseteq Obj /\ running \in Usable
      /\ \A o \in Usable : Out(o) \subseteq Usable
  BY StackIsUsable, UsableIsAlive
<1>1. ASSUME NEW t \in Table, NEW k \in Keys \cup {None}, NEW v \in Obj, SetTable(t, k, v)
      PROVE  Contract!Next
  <2>1. /\ UNCHANGED <<ref, slot, running, white, tmudata, called>>
        /\ node' = [node EXCEPT ![t] = {[key |-> k, val |-> v]}]
        /\ Back(t, {k, v})
        /\ {v} \cup ({k} \ {None}) \subseteq Usable
    BY <1>0, <1>1 DEF SetTable, Collection
  <2>2. /\ Out(t)' = UNION {{e.key, e.val} \ {None} : e \in {[key |-> k, val |-> v]}}
        /\ \A o \in Obj : o # t => Out(o)' = Out(o)
    BY <2>1, NodeChanged
  <2>3. Out(t)' \subseteq Usable
    BY <2>1, <2>2
  <2>4. Live' = Live
    BY <2>1, BackRecolors, AliveRecolored
  <2>5. \A o \in Usable : Out(o)' \subseteq Usable
    BY <1>0, <2>2, <2>3
  <2> QED
    BY <1>0, <2>1, <2>4, <2>5, QuietContract
<1>2. ASSUME NEW t \in Table, ClearTable(t) PROVE Contract!Next
  <2>1. /\ UNCHANGED <<ref, slot, running, tmudata, called>> /\ Live' = Live
        /\ node' = [node EXCEPT ![t] = {}]
    BY <1>2 DEF ClearTable, Live, Collection
  <2>2. \A o \in Obj : Out(o)' \subseteq Out(o)
    <3> DEFINE V == {}
    <3>1. node' = [node EXCEPT ![t] = V]
      BY <2>1
    <3>2. UNION {{e.key, e.val} \ {None} : e \in V} = {}
      OBVIOUS
    <3> HIDE DEF V
    <3>3. /\ \A o \in Obj : o # t => Out(o)' = Out(o)
          /\ Out(t)' = UNION {{e.key, e.val} \ {None} : e \in V}
      BY <2>1, <3>1, NodeChanged
    <3> QED
      BY <3>2, <3>3
  <2> QED
    BY <1>0, <2>1, <2>2, QuietContract
<1> QED
  BY <1>1, <1>2
LEMMA ClosureStep ==
  ASSUME TypeOK, TypeOK', HeapInv, AliveClosed', NEW f \in Closure, NEW u \in Upval, NEW x \in Obj,
         NewClosure(f, u, x)
  PROVE  Contract!Next
<1>1. /\ color[f] = "free" /\ x \in Stack /\ f \in Obj /\ u \in Obj
      /\ f # u /\ f \notin Thread \cup Table /\ u \notin Thread \cup Table
      /\ UNCHANGED <<node, running, tmudata, called>>
  BY AllKindsDisjoint DEF NewClosure, Collection
<1>2. /\ AliveClosed /\ Shape /\ Stack \subseteq Usable /\ Usable \subseteq Obj
      /\ running \in Obj /\ running \in Usable /\ running \in Thread
      /\ \A g \in Closure \cap Usable : ref[g] \subseteq Usable
      /\ \A o \in Usable : Out(o) \subseteq Usable
  BY StackIsUsable, UsableIsAlive DEF HeapInv, TypeOK
<1>3. /\ \A o \in Obj : color[o] # "free" => color'[o] # "free"
      /\ color'[f] # "free"
  BY <1>1 DEF NewClosure, Revived, TypeOK
<1>4. /\ \A v \in Upval : slot'[v] = slot[v] \/ (v = u /\ slot'[v] = running)
      /\ color[u] = "free" => color'[u] # "free" \/ u \in Usable
      /\ u \in Usable \/ slot[u] = running \/ color[u] = "free"
  <2>1. CASE /\ \E g \in Stack \cap Closure : u \in ref[g]
             /\ UNCHANGED slot
    BY <1>1, <1>2, <2>1
  <2>2. CASE slot[u] = running /\ UNCHANGED slot
    <3>1. color[u] # "free"
      BY <1>1, <1>2, <2>2, KindAssumption DEF Shape
    <3> QED
      BY <2>2, <3>1
  <2>3. CASE /\ color[u] = "free"
             /\ color' = [color EXCEPT ![f] = white, ![u] = white]
             /\ slot' = [slot EXCEPT ![u] = running]
    <3>1. white # "free" /\ color'[u] = white
      BY <1>1, <2>3 DEF TypeOK
    <3>2. \A v \in Upval : slot'[v] = slot[v] \/ (v = u /\ slot'[v] = running)
      BY <2>3 DEF TypeOK
    <3> QED
      BY <2>3, <3>1, <3>2
  <2> QED
    BY <2>1, <2>2, <2>3 DEF NewClosure
<1>5. \A o \in Obj : ref'[o] \subseteq ref[o] \cup {f, u, x}
  <2>1. Pushed(f) = [ref EXCEPT ![running] = ref[running] \cup {f}]
    BY DEF Pushed
  <2>2. \/ ref' = [Pushed(f) EXCEPT ![f] = {u}]
        \/ ref' = [Pushed(f) EXCEPT ![f] = {u}, ![u] = {x}]
    BY DEF NewClosure
  <2> QED
    BY <1>1, <1>2, <2>1, <2>2 DEF TypeOK
<1>6. slot'[u] # slot[u] => ref'[u] = {x}
  <2>1. slot'[u] # slot[u] => ref' = [Pushed(f) EXCEPT ![f] = {u}, ![u] = {x}]
    BY DEF NewClosure
  <2> QED
    BY <1>1, <2>1 DEF TypeOK, Pushed
<1>7. \A o \in Obj : Out(o)' \subseteq Out(o) \cup {f, u, x}
  <2> SUFFICES ASSUME NEW o \in Obj PROVE Out(o)' \subseteq Out(o) \cup {f, u, x}
    OBVIOUS
  <2>1. OutByKind /\ OutByKind'
    BY OutOfKind, OutOfKindNext
  <2>2. CASE o \in Thread
    <3>1. /\ Out(o) = ref[o] \cup UNION {ref[v] : v \in Open(o)}
          /\ Out(o)' = ref'[o] \cup UNION {ref'[v] : v \in Open(o)'}
      BY <2>1, <2>2 DEF OutByKind
    <3>2. ASSUME NEW v \in Open(o)' PROVE ref'[v] \subseteq Out(o) \cup {f, u, x}
      <4>1. v \in Upval /\ v \in Obj /\ slot'[v] = o
        BY <3>2, AllKindsDisjoint DEF Open
      <4>2. CASE slot[v] = o
        <5>1. v \in Open(o)
          BY <4>1, <4>2 DEF Open
        <5> QED
          BY <1>5, <3>1, <4>1, <5>1
      <4>3. CASE slot[v] # o
        BY <1>4, <1>6, <4>1, <4>3
      <4> QED
        BY <4>2, <4>3
    <3> QED
      BY <1>5, <3>1, <3>2
  <2>3. CASE o \in Table
    BY <1>1, <2>1, <2>3 DEF OutByKind
  <2>4. CASE o \notin Thread \cup Table
    BY <1>5, <2>1, <2>4 DEF OutByKind
  <2> QED
    BY <2>2, <2>3, <2>4
<1>8. Out(f) = {} /\ Out(u) \subseteq Usable
  <2>1. Out(f) = ref[f] /\ Out(u) = ref[u]
    BY <1>1, OutOfKind DEF OutByKind
  <2>2. ref[f] = {} /\ (color[u] = "free" => ref[u] = {})
    BY <1>1, <1>2 DEF Shape
  <2>3. slot[u] = running => ref[u] \subseteq Usable
    <3>1. slot[u] = running => u \in Open(running)
      BY DEF Open
    <3>2. Out(running) = ref[running] \cup UNION {ref[v] : v \in Open(running)}
      BY <1>2, OutOfKind DEF OutByKind
    <3> QED
      BY <1>2, <3>1, <3>2
  <2> QED
    BY <1>2, <1>4, <2>1, <2>2, <2>3
<1> DEFINE N == {f, u}
<1>9. /\ N \subseteq Obj /\ N \cap Live \subseteq Usable \cup String \cup Upval
      /\ Live \subseteq Live' /\ N \subseteq Live'
  <2>1. Usable \subseteq Live
    BY <1>2, UsableIsAlive DEF Alive, Live
  <2> QED
    BY <1>1, <1>3, <1>4, <2>1 DEF Live
<1>10. \A o \in Usable \cup N : Out(o)' \subseteq Usable \cup N
  BY <1>1, <1>2, <1>7, <1>8
<1> HIDE DEF N
<1> QED
  BY <1>1, <1>2, <1>9, <1>10, ProgramContract

(* Closing an upvalue that is open and dead frees it, which no step of the *)
(* program may do: it is a step of the collector.                          *)
LEMMA CloseStep ==
  ASSUME TypeOK, TypeOK', HeapInv, AliveClosed', NEW u \in Upval, CloseUpval(u)
  PROVE  Contract!Next
<1>1. /\ slot[u] = running /\ slot' = [slot EXCEPT ![u] = None] /\ u \in Obj
      /\ UNCHANGED <<node, running, white, tmudata, called>>
  BY AllKindsDisjoint DEF CloseUpval, Collection
<1>2. /\ AliveClosed /\ Usable \subseteq Alive /\ running \in Usable
      /\ \A o \in Usable : Out(o) \subseteq Usable
  BY UsableIsAlive DEF HeapInv
<1>3. \A o \in Obj : Out(o)' \subseteq Out(o)
  <2> SUFFICES ASSUME NEW o \in Obj PROVE Out(o)' \subseteq Out(o)
    OBVIOUS
  <2>1. OutByKind /\ OutByKind'
    BY OutOfKind, OutOfKindNext
  <2>2. \A x \in Obj : ref'[x] \subseteq ref[x]
    BY DEF CloseUpval, TypeOK
  <2>3. CASE o \in Thread
    <3>1. /\ Out(o) = ref[o] \cup UNION {ref[v] : v \in Open(o)}
          /\ Out(o)' = ref'[o] \cup UNION {ref'[v] : v \in Open(o)'}
      BY <2>1, <2>3 DEF OutByKind
    <3>2. Open(o)' \subseteq Open(o) /\ Open(o) \subseteq Obj
      BY <1>1, <2>3, AllKindsDisjoint DEF Open, TypeOK
    <3> QED
      BY <2>2, <2>3, <3>1, <3>2
  <2>4. CASE o \in Table
    BY <1>1, <2>1, <2>4 DEF OutByKind
  <2>5. CASE o \notin Thread \cup Table
    BY <2>1, <2>2, <2>5 DEF OutByKind
  <2> QED
    BY <2>3, <2>4, <2>5
<1>4. \A o \in Usable : Out(o)' \subseteq Usable
  BY <1>2, <1>3 DEF Alive
<1>5. CASE Dead(u)
  <2>1. color' = [color EXCEPT ![u] = "free"]
    BY <1>5 DEF CloseUpval
  <2>2. Live' = Live \ {u}
    BY <1>1, <2>1 DEF Live, TypeOK
  <2>3. u \notin Usable /\ u \notin tmudata /\ u \notin Finalizable /\ u \notin called
    BY <1>2, <1>5, AllKindsDisjoint, KindAssumption DEF Alive, TypeOK
  <2>4. Usable' \subseteq Usable /\ Held' \subseteq Usable'
    <3> DEFINE N == {}
    <3>1. N \subseteq Obj /\ \A o \in Usable \cup N : Out(o)' \subseteq Usable \cup N
      BY <1>4
    <3> HIDE DEF N
    <3>2. Usable' \subseteq Usable \cup N
      BY <1>1, <1>2, <3>1, UsableGrows
    <3> QED
      BY <3>2, HeldIsUsableNext DEF N
  <2>5. called \subseteq Live
    BY DEF HeapInv, Finalizing
  <2> QED
    BY <1>1, <2>2, <2>3, <2>4, <2>5 DEF Contract!Next, Contract!Collect
<1>6. CASE ~Dead(u)
  <2>1. Live \subseteq Live'
    BY <1>6, ColorsTyped DEF CloseUpval, LinkUpval, Live, TypeOK
  <2> QED
    BY <1>1, <1>2, <1>4, <2>1, QuietContract
<1> QED
  BY <1>5, <1>6

LEMMA ProgramRefines ==
  ASSUME TypeOK, TypeOK', HeapInv, AliveClosed', Program
  PROVE  Contract!Next
<1>0. AliveClosed
  BY DEF HeapInv
<1>1. ASSUME NEW x \in Obj, New(x) \/ Intern(x) \/ Load(x) PROVE Contract!Next
  BY <1>1, PushingSteps
<1>2. ASSUME NEW x \in Obj, Pop(x) PROVE Contract!Next
  BY <1>0, <1>2, StoringSteps
<1>3. ASSUME NEW f \in Closure, NEW u \in Upval, NEW x \in Obj,
             NewClosure(f, u, x) \/ SetUpval(f, u, x)
      PROVE  Contract!Next
  BY <1>0, <1>3, ClosureStep, StoringSteps
<1>4. ASSUME NEW f \in Closure, NEW g \in Closure, NEW u \in Upval, UpvalueJoin(f, g, u)
      PROVE  Contract!Next
  BY <1>0, <1>4, StoringSteps
<1>5. ASSUME NEW t \in Table, NEW k \in Keys \cup {None}, NEW v \in Obj, SetTable(t, k, v)
      PROVE  Contract!Next
  BY <1>0, <1>5, TableSteps
<1>6. ASSUME NEW t \in Table, ClearTable(t) PROVE Contract!Next
  BY <1>0, <1>6, TableSteps
<1>7. ASSUME NEW u \in Udata, NEW t \in Table, SetField(u, t) PROVE Contract!Next
  BY <1>0, <1>7, StoringSteps
<1>8. ASSUME NEW u \in Upval, NEW v \in Obj, SetLocal(u, v) PROVE Contract!Next
  BY <1>0, <1>8, StoringSteps
<1>9. ASSUME NEW u \in Upval, CloseUpval(u) PROVE Contract!Next
  BY <1>9, CloseStep
<1>10. ASSUME NEW t \in Thread, NEW x \in Obj, XMove(t, x) PROVE Contract!Next
  BY <1>0, <1>10, StoringSteps
<1>11. CASE Yield \/ (\E t \in Thread : Resume(t)) \/ StartFull \/ FinalizerReturns
  <2>1. /\ UNCHANGED <<ref, node, slot, color, tmudata, called>>
        /\ running' \in {running, Main} \cup Stack
    BY <1>11 DEF Yield, Resume, StartFull, FinalizerReturns, data, Collection
  <2>2. /\ Stack \subseteq Usable /\ {Main, running} \subseteq Usable /\ Usable \subseteq Obj
        /\ \A o \in Usable : Out(o) \subseteq Usable
    BY <1>0, StackIsUsable, UsableIsAlive
  <2>3. Live' = Live /\ \A o \in Obj : Out(o)' = Out(o)
    BY <2>1 DEF Live, Out, Open
  <2> QED
    BY <1>0, <2>1, <2>2, <2>3, QuietContract
<1> QED
  BY <1>1, <1>2, <1>3, <1>4, <1>5, <1>6, <1>7, <1>8, <1>9, <1>10, <1>11 DEF Program
-----------------------------------------------------------------------------
(* Part 10: the collector's steps.                                         *)
LEMMA CollectorUsable ==
  ASSUME AliveClosed, AliveClosed', running' = running, \A o \in Obj : Out(o)' \subseteq Out(o)
  PROVE  Usable' \subseteq Usable
<1> DEFINE N == {}
<1>1. Usable \subseteq Obj /\ running \in Usable /\ \A o \in Usable : Out(o) \subseteq Usable
  BY UsableIsAlive DEF Alive
<1>2. N \subseteq Obj /\ \A o \in Usable \cup N : Out(o)' \subseteq Usable \cup N
  BY <1>1
<1> HIDE DEF N
<1>3. Usable' \subseteq Usable \cup N
  BY <1>1, <1>2, UsableGrows
<1> QED
  BY <1>3 DEF N

(* Marking, the ends of the sweep and of the cycle, and stuttering.        *)
LEMMA InternalContract ==
  ASSUME TypeOK', AliveClosed, AliveClosed', Live' = Live,
         UNCHANGED <<ref, node, slot, running, tmudata, called>>
  PROVE  Contract!Next
<1>1. Usable \subseteq Obj /\ running \in Usable /\ \A o \in Usable : Out(o) \subseteq Usable
  BY UsableIsAlive DEF Alive
<1>2. \A o \in Obj : Out(o)' = Out(o)
  BY DEF Out, Open
<1> QED
  BY <1>1, <1>2, QuietContract

LEMMA MarkRootRefines ==
  ASSUME TypeOK, TypeOK', AliveClosed, AliveClosed', MarkRoot
  PROVE  Contract!Next
<1>1. UNCHANGED <<ref, node, slot, running, white, tmudata, called>>
  BY DEF MarkRoot, data
<1>2. \A x \in Obj : Recolored(x)
  <2> DEFINE M == MarkedWith({Main})
  <2>1. \A x \in Obj : color'[x] = IF x \in M THEN MarkColor(x) ELSE color[x]
    BY DEF MarkRoot
  <2> QED
    BY <2>1, MarkRecolors
<1> QED
  BY <1>1, <1>2, AliveRecolored, InternalContract

LEMMA PropagateRefines ==
  ASSUME TypeOK, TypeOK', AliveClosed, AliveClosed', ListInv, NEW o \in Obj, PropagateMark(o)
  PROVE  Contract!Next
<1> DEFINE M == MarkedWith(Strong(o))
<1>1. /\ \A x \in Obj : color'[x] = IF x = o THEN TraversedColor(o)
                                    ELSE IF x \in M THEN MarkColor(x) ELSE color[x]
      /\ phase = "propagate" /\ o \in gray
      /\ UNCHANGED <<ref, node, slot, running, white, tmudata, called>>
  BY DEF PropagateMark, data
<1>2. color[o] = "gray"
  BY <1>1 DEF ListInv, LinkedOnce
<1>3. M \subseteq White
  BY MarkedAreWhite
<1>4. \A x \in Obj : Recolored(x)
  BY <1>1, <1>2, <1>3 DEF Recolored, White
<1> QED
  BY <1>1, <1>4, AliveRecolored, InternalContract

(* What is held when the mark ends has been marked, or the atomic phase    *)
(* marks it: what it separates for finalization is not held.               *)
LEMMA HeldIsMarked ==
  ASSUME TypeOK, HeapInv, ListInv, phase = "propagate", gray = {}
  PROVE  Held \cap Separated(Survivors) = {}
<1> DEFINE X == {o \in Alive \ tmudata : color[o] \in {"gray", "black"} \/ o \in Survivors}
<1>1. /\ AliveClosed /\ tmudata \subseteq Udata
      /\ \A x \in Obj : Strong(x) \subseteq Out(x)
  BY KindAssumption, OutOfKind DEF HeapInv, TypeOK, OutByKind
<1>2. /\ Alive \subseteq Live /\ Live \subseteq Obj
      /\ \A x \in Live : x \in White \/ color[x] \in {"gray", "black"}
      /\ \A x \in Obj : color[x] \in {"gray", "black"} /\ x \notin tmudata =>
             Strong(x) \cap White \subseteq Survivors
  BY MarkCompletes DEF Alive, Live
<1>3. {Main, running} \subseteq X
  <2>1. {Main, running} \subseteq Thread /\ Thread \cap Udata = {}
    BY KindAssumption, AllKindsDisjoint DEF TypeOK
  <2>2. {Main, running} \subseteq Alive /\ color[Main] = "gray"
    BY <1>1 DEF AliveClosed
  <2>3. running \in White => running \in Survivors
    BY SurvivorsAreClosed
  <2> QED
    BY <1>1, <1>2, <2>1, <2>2, <2>3
<1>4. \A o \in X : Strong(o) \ tmudata \subseteq X
  <2> SUFFICES ASSUME NEW o \in X, NEW y \in Strong(o) \ tmudata PROVE y \in X
    OBVIOUS
  <2>1. o \in Alive /\ o \in Obj /\ o \notin tmudata
    BY <1>2
  <2>2. y \in Alive
    BY <1>1, <2>1 DEF AliveClosed
  <2>3. Strong(o) \cap White \subseteq Survivors
    BY <1>2, <2>1, SurvivorsAreClosed
  <2> QED
    BY <1>2, <2>2, <2>3
<1>5. X \subseteq Obj
  BY <1>2
<1> HIDE DEF X
<1>6. Held \subseteq X
  BY <1>1, <1>3, <1>4, <1>5, HeldIsLeast
<1>7. X \cap Separated(Survivors) = {}
  BY DEF X, Separated, White
<1> QED
  BY <1>6, <1>7

LEMMA AtomicRefines ==
  ASSUME TypeOK, TypeOK', HeapInv, AliveClosed', ListInv, Atomic
  PROVE  Contract!Next
<1>1. /\ phase = "propagate" /\ gray = {}
      /\ \A x \in Obj : color'[x] = IF x \in Traversed \cup KeptAlive THEN TraversedColor(x)
                                    ELSE color[x]
      /\ \A t \in Table : node'[t] = IF t \in Traversed \cap Weak THEN Kept(t, Marked, Done)
                                     ELSE node[t]
      /\ tmudata' = Pending
      /\ UNCHANGED <<ref, slot, running, called>>
  BY AtomicEffect
<1>2. Live' = Live
  <2>1. Traversed \cup KeptAlive \subseteq Live
    BY <1>1, MarkCompletes
  <2> QED
    BY <1>1, <2>1, ColorsTyped DEF Live
<1>3. \A o \in Obj : Out(o)' \subseteq Out(o)
  <2> SUFFICES ASSUME NEW o \in Obj PROVE Out(o)' \subseteq Out(o)
    OBVIOUS
  <2>1. CASE o \in Table
    <3>1. node'[o] \subseteq node[o]
      BY <1>1, <2>1 DEF Kept
    <3>2. /\ Out(o) = UNION {{e.key, e.val} \ {None} : e \in node[o]}
          /\ Out(o)' = UNION {{e.key, e.val} \ {None} : e \in node'[o]}
      BY <2>1 DEF Out
    <3> QED
      BY <3>1, <3>2
  <2>2. CASE o \notin Table
    BY <1>1, <2>2 DEF Out, Open
  <2> QED
    BY <2>1, <2>2
<1>4. Usable' \subseteq Usable /\ Held' \subseteq Usable'
  BY <1>1, <1>3, CollectorUsable, HeldIsUsableNext DEF HeapInv
<1>5. Pending \ tmudata \subseteq (Finalizable \cap Live') \ (Held \cup called)
  <2>1. Held \cap Separated(Survivors) = {}
    BY <1>1, HeldIsMarked
  <2>2. called \subseteq finalized
    BY DEF HeapInv, Finalizing
  <2> QED
    BY <1>2, <2>1, <2>2 DEF Pending, Separated, White, Live
<1>6. tmudata \subseteq Pending
  BY DEF Pending
<1>7. called \subseteq Live
  BY DEF HeapInv, Finalizing
<1> QED
  BY <1>1, <1>2, <1>4, <1>5, <1>6, <1>7 DEF Contract!Next, Contract!Collect

LEMMA SweepRefines ==
  ASSUME TypeOK, TypeOK', HeapInv, AliveClosed', SweepList, NEW o \in Obj, Sweep(o)
  PROVE  Contract!Next
<1>1. PICK freed \in SUBSET Obj, swept \in SUBSET Obj :
            /\ \A x \in Obj : x \in freed <=> x \in swept /\ Dead(x)
            /\ \A x \in Obj : color'[x] = IF x \in freed THEN "free"
                                          ELSE IF x \in swept THEN white ELSE color[x]
            /\ \A x \in swept : color[x] # "free"
            /\ \A x \in Obj : Out(x)' \subseteq Out(x)
            /\ called' = called \ freed
  BY SweepEffect
<1>2. running' = running /\ tmudata' = tmudata
  BY DEF Sweep
<1>3. Live' = Live \ freed
  BY <1>1 DEF Live, TypeOK
<1>4. Usable' \subseteq Usable /\ Held' \subseteq Usable'
  BY <1>1, <1>2, CollectorUsable, HeldIsUsableNext DEF HeapInv
<1>5. freed \cap (Usable \cup tmudata) = {}
  BY <1>1, UsableIsAlive DEF HeapInv, Finalizing, Alive
<1>6. freed \cap Finalizable \subseteq called
  <2>1. freed \cap Finalizable \subseteq finalized
    BY <1>1, KindAssumption DEF HeapInv, Finalizing
  <2> QED
    BY <1>5, <2>1 DEF HeapInv, Finalizing
<1>7. called \subseteq Live
  BY DEF HeapInv, Finalizing
<1> QED
  BY <1>1, <1>2, <1>3, <1>4, <1>5, <1>6, <1>7 DEF Contract!Next, Contract!Collect

(* A finalizer gets its object back, on the stack.                         *)
LEMMA FinalizerRefines ==
  ASSUME TypeOK, TypeOK', HeapInv, AliveClosed', NEW u \in Obj, GCTM(u)
  PROVE  Contract!Next
<1>1. /\ u \in tmudata /\ tmudata' = tmudata \ {u} /\ called' = called \cup {u}
      /\ color' = [color EXCEPT ![u] = white] /\ ref' = Pushed(u)
      /\ UNCHANGED <<node, slot, running>>
  BY DEF GCTM, Pushed
<1>2. Live' = Live
  BY <1>1 DEF HeapInv, Finalizing, Alive, Live, TypeOK
<1>3. \A x \in Obj : Out(x) \subseteq Out(x)'
  <2> SUFFICES ASSUME NEW x \in Obj PROVE Out(x) \subseteq Out(x)'
    OBVIOUS
  <2>1. \A y \in Obj : ref[y] \subseteq ref'[y]
    BY <1>1 DEF Pushed, TypeOK
  <2>2. \A t \in Thread : Open(t)' = Open(t) /\ Open(t) \subseteq Obj
    BY <1>1, AllKindsDisjoint DEF Open
  <2>3. OutByKind /\ OutByKind'
    BY OutOfKind, OutOfKindNext
  <2>4. CASE x \in Thread
    <3>1. /\ Out(x) = ref[x] \cup UNION {ref[v] : v \in Open(x)}
          /\ Out(x)' = ref'[x] \cup UNION {ref'[v] : v \in Open(x)'}
      BY <2>3, <2>4 DEF OutByKind
    <3> QED
      BY <2>1, <2>2, <2>4, <3>1
  <2>5. CASE x \in Table
    BY <1>1, <2>3, <2>5 DEF OutByKind
  <2>6. CASE x \notin Thread \cup Table
    BY <2>1, <2>3, <2>6 DEF OutByKind
  <2> QED
    BY <2>4, <2>5, <2>6
<1>4. Usable \subseteq Usable' /\ Usable' \subseteq Live /\ Held' \subseteq Usable'
  <2>1. /\ Usable' \subseteq Alive' /\ {Main, running} \subseteq Usable'
        /\ \A x \in Usable' : Out(x)' \subseteq Usable'
    BY <1>1, UsableLeastNext DEF UsableIsLeast
  <2>2. Alive' \subseteq Live' /\ Live' \subseteq Obj
    BY DEF Alive, Live
  <2>3. \A x \in Usable' : Out(x) \subseteq Usable'
    BY <1>3, <2>1, <2>2
  <2>4. Usable \subseteq Usable'
    <3> DEFINE X == Usable'
    <3>1. X \in SUBSET Obj /\ {Main, running} \subseteq X /\ \A x \in X : Out(x) \subseteq X
      BY <2>1, <2>2, <2>3
    <3> HIDE DEF X
    <3>2. Usable \subseteq X
      BY <3>1, UsableIsAlive DEF HeapInv
    <3> QED
      BY <3>2 DEF X
  <2> QED
    BY <1>2, <2>1, <2>2, <2>4, HeldIsUsableNext
<1> QED
  BY <1>1, <1>2, <1>4 DEF Contract!Next, Contract!Finalize

LEMMA CollectorRefines ==
  ASSUME TypeOK, TypeOK', HeapInv, AliveClosed', ListInv, SweepList, Collector
  PROVE  Contract!Next
<1>0. AliveClosed
  BY DEF HeapInv
<1>1. CASE StartCycle \/ FullMark
  BY <1>0, <1>1, MarkRootRefines DEF StartCycle, FullMark
<1>2. CASE Atomic
  BY <1>2, AtomicRefines
<1>3. CASE EndSweep \/ EndCycle
  <2>1. Live' = Live /\ UNCHANGED <<ref, node, slot, running, tmudata, called>>
    BY <1>3 DEF EndSweep, EndCycle, data, Live
  <2> QED
    BY <1>0, <2>1, InternalContract
<1>4. ASSUME NEW o \in Obj, PropagateMark(o) \/ Sweep(o) \/ GCTM(o) PROVE Contract!Next
  BY <1>0, <1>4, PropagateRefines, SweepRefines, FinalizerRefines
<1> QED
  BY <1>1, <1>2, <1>3, <1>4 DEF Collector
-----------------------------------------------------------------------------
(* Part 11: the theorems.                                                  *)
LEMMA StepRefines ==
  ASSUME TypeOK, TypeOK', HeapInv, HeapInv', ListInv, SweepList, [Next]_vars
  PROVE  Contract!Next
<1>1. AliveClosed /\ AliveClosed'
  BY DEF HeapInv
<1>2. CASE UNCHANGED vars
  <2>1. Live' = Live /\ UNCHANGED <<ref, node, slot, running, tmudata, called>>
    BY <1>2 DEF vars, data, Live
  <2> QED
    BY <1>1, <2>1, InternalContract
<1> QED
  BY <1>1, <1>2, ProgramRefines, CollectorRefines DEF Next

(* The collector keeps the contract of the heap: it frees only what the    *)
(* program cannot get at, runs each finalizer once and before the object   *)
(* goes, and of what was held puts nothing in tmudata.                     *)
THEOREM CollectorKeepsContract == "setupvalue" \notin Ops => (Spec => HeapIsSafe)
<1> SUFFICES ASSUME "setupvalue" \notin Ops PROVE Spec => HeapIsSafe
  OBVIOUS
<1>1. TypeOK /\ TypeOK' /\ HeapInv /\ HeapInv' /\ ListInv /\ SweepList /\ [Next]_vars
        => [Contract!Next]_(Contract!vars)
  BY StepRefines
<1> QED
  BY <1>1, InitContract, HeapInvHolds, ListsAreSound, PTL DEF Spec, HeapIsSafe, Contract!Spec

LEMMA StrongIsLeast ==
  ASSUME AliveClosed
  PROVE  \A X \in SUBSET Obj :
            {Main, running} \subseteq X /\ (\A o \in X : Strong(o) \subseteq X)
              => StronglyReachable \subseteq X
<1> DEFINE E == [o \in Obj |-> Strong(o)]
<1>1. \A o \in Obj : E[o] = Strong(o)
  OBVIOUS
<1>2. StronglyReachable = Reached({Main, running}, Obj, E)
  BY DEF StronglyReachable
<1> HIDE DEF E
<1>3. \A X \in SUBSET Obj :
         {Main, running} \cap Obj \subseteq X /\ (\A o \in X : E[o] \cap Obj \subseteq X)
            => StronglyReachable \subseteq X
  BY <1>2, ReachedIsLeast
<1> QED
  BY <1>1, <1>3

(* When the mark ends, a white object that can be reached without weak     *)
(* references is one that the atomic phase marks.                          *)
LEMMA ReachableIsMarked ==
  ASSUME TypeOK, HeapInv, ListInv, phase = "propagate", gray = {}
  PROVE  StronglyReachable \cap White \subseteq Marked
<1> DEFINE X == {o \in Alive : color[o] \in {"gray", "black"} \/ o \in Marked}
<1>1. /\ AliveClosed
      /\ \A x \in Obj : Strong(x) \subseteq Out(x)
  BY OutOfKind DEF HeapInv, OutByKind
<1>2. /\ Alive \subseteq Live /\ Live \subseteq Obj
      /\ \A x \in Live : x \in White \/ color[x] \in {"gray", "black"}
      /\ \A x \in Obj : color[x] \in {"gray", "black"} \/ x \in Marked =>
             Strong(x) \cap White \subseteq Marked
  BY MarkCompletes DEF Alive, Live
<1>3. {Main, running} \subseteq X
  <2>1. {Main, running} \subseteq Alive /\ color[Main] = "gray"
    BY <1>1 DEF AliveClosed
  <2>2. running \in White => running \in Marked
    BY SurvivorsAreClosed, MarkedAreClosed
  <2> QED
    BY <1>2, <2>1, <2>2
<1>4. \A o \in X : Strong(o) \subseteq X
  <2> SUFFICES ASSUME NEW o \in X, NEW y \in Strong(o) PROVE y \in X
    OBVIOUS
  <2>1. o \in Alive /\ o \in Obj
    BY <1>2
  <2>2. y \in Alive
    BY <1>1, <2>1 DEF AliveClosed
  <2>3. Strong(o) \cap White \subseteq Marked
    BY <1>2, <2>1
  <2> QED
    BY <1>2, <2>2, <2>3
<1>5. X \subseteq Obj
  BY <1>2
<1> HIDE DEF X
<1>6. StronglyReachable \subseteq X
  BY <1>1, <1>3, <1>4, <1>5, StrongIsLeast
<1>7. X \cap White \subseteq Marked
  BY DEF X, White
<1> QED
  BY <1>6, <1>7

LEMMA AtomicClears ==
  ASSUME TypeOK, HeapInv, ListInv, Atomic, NEW t \in Table, NEW e \in node[t] \ node'[t]
  PROVE  \/ ~({e.key, e.val} \subseteq StronglyReachable \cup {None})
         \/ e.val \in finalized'
<1>1. /\ phase = "propagate" /\ gray = {} /\ finalized' = Done
      /\ node'[t] = IF t \in Traversed \cap Weak THEN Kept(t, Marked, Done) ELSE node[t]
  BY AtomicEffect
<1>2. e \in node[t] /\ e \notin Kept(t, Marked, Done)
  BY <1>1
<1>3. \/ e.key # None /\ Cleared(e.key, TRUE, Marked, Done)
      \/ Cleared(e.val, FALSE, Marked, Done)
  BY <1>2 DEF Kept
<1>4. StronglyReachable \cap White \subseteq Marked
  BY <1>1, ReachableIsMarked
<1>5. None \notin White
  BY AllKindsDisjoint DEF White
<1> QED
  BY <1>1, <1>3, <1>4, <1>5 DEF Cleared

(* A weak table keeps an entry whose key and value can be reached without  *)
(* weak references, unless the value is a userdata that was finalized.     *)
THEOREM WeakTablesKeepReachable ==
  "setupvalue" \notin Ops => (Spec => WeakEntriesOutliveReferents)
<1> SUFFICES ASSUME "setupvalue" \notin Ops PROVE Spec => WeakEntriesOutliveReferents
  OBVIOUS
<1> DEFINE Clears == Atomic => \A t \in Table : \A e \in node[t] \ node'[t] :
        \/ ~({e.key, e.val} \subseteq StronglyReachable \cup {None})
        \/ e.val \in finalized'
<1>1. TypeOK /\ HeapInv /\ ListInv => Clears
  BY AtomicClears
<1> QED
  BY <1>1, HeapInvHolds, ListsAreSound, PTL DEF WeakEntriesOutliveReferents
=============================================================================
